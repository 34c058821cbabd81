------------------------------ MODULE RulesProofs ------------------------------
(***************************************************************************)
(* What the proofs about rewrites share: a machine that runs an            *)
(* instruction and a patch, where a window is entered, when a fold holds,  *)
(* and the arithmetic of words of any width: quotients, powers of two, the *)
(* logic operations bit by bit.  Then constants: a chain that loads one,   *)
(* code that does without it beside the code that has it, and the plans of *)
(* li_plan.                                                                *)
(***************************************************************************)
EXTENDS ConstRules, TLAPS, FiniteSetTheorems, NaturalsInduction, WellFoundedInduction

\* Induction over the naturals, for sets.
LEMMA SetInduction ==
    ASSUME NEW S, \A n \in Nat : (\A m \in Nat : m < n => m \in S) => n \in S
    PROVE  Nat \subseteq S
<1> DEFINE T == Nat \ S
           Below == OpToRel(<, Nat)
<1> SUFFICES ASSUME T # {} PROVE FALSE
    OBVIOUS
<1>1. IsWellFoundedOn(Below, Nat)
    BY NatLessThanWellFounded
<1>2. T \subseteq Nat /\ T # {}
    OBVIOUS
<1>3. PICK t \in T : \A u \in T : ~(<<u, t>> \in Below)
    <2> HIDE DEF T, Below
    <2> QED
        BY <1>1, <1>2, WFMin
<1>4. \A u \in T : ~(u < t)
    BY <1>3 DEF OpToRel
<1> QED
    BY <1>4

-------------------------------------------------------------------------------
(* A machine running a patch.                                              *)

\* What one step makes of the machine g, and the machines of n steps from h (Leaving).
Step(prog, S, g) ==
    IF g.pc \in S THEN ExecAll([g EXCEPT !.pc = g.pc + 1], prog[g.pc]) ELSE g
Run(prog, S, h, n, f) ==
    f = [k \in 0 .. n |-> IF k = 0 THEN h ELSE Step(prog, S, f[k - 1])]

\* A run of n steps exists.
LEMMA RunExists ==
    ASSUME NEW prog, NEW S, NEW h, NEW n \in Nat
    PROVE  \E f : Run(prog, S, h, n, f)
<1> DEFINE T == {k \in Nat : \E f : Run(prog, S, h, k, f)}
<1>1. ASSUME NEW k \in Nat, \A m \in Nat : m < k => m \in T PROVE k \in T
    <2>1. CASE k = 0
        <3> DEFINE f == [j \in 0 .. 0 |-> h]
        <3>1. Run(prog, S, h, 0, f)
            BY DEF Run
        <3> QED
            BY <2>1, <3>1
    <2>2. CASE k # 0
        <3>1. k - 1 \in Nat /\ k - 1 < k
            BY <2>2
        <3>2. PICK g : Run(prog, S, h, k - 1, g)
            BY <1>1, <3>1
        <3> DEFINE f == [j \in 0 .. k |-> IF j < k THEN g[j] ELSE Step(prog, S, g[k - 1])]
        <3>3. ASSUME NEW j \in 0 .. k
              PROVE  f[j] = IF j = 0 THEN h ELSE Step(prog, S, f[j - 1])
            <4>1. CASE j < k
                <5>1. j \in 0 .. k - 1 /\ (j # 0 => j - 1 \in 0 .. k /\ j - 1 < k)
                    BY <4>1
                <5>2. g[j] = IF j = 0 THEN h ELSE Step(prog, S, g[j - 1])
                    BY <3>2, <5>1 DEF Run
                <5> QED
                    BY <4>1, <5>1, <5>2
            <4>2. CASE j = k
                BY <2>2, <4>2
            <4> QED
                BY <4>1, <4>2
        <3>4. f = [j \in 0 .. k |-> f[j]]
            OBVIOUS
        <3>5. Run(prog, S, h, k, f)
            <4> HIDE DEF f
            <4> QED
                BY <3>3, <3>4 DEF Run
        <3> QED
            BY <3>5
    <2> QED
        BY <2>1, <2>2
<1>2. Nat \subseteq T
    <2> HIDE DEF T
    <2> QED
        BY <1>1, SetInduction
<1> QED
    BY <1>2

\* Leaving is where such a run ends.
LEMMA LeavingRun ==
    ASSUME NEW prog, NEW S, NEW h, NEW n \in Nat
    PROVE  \E f : /\ \A k \in 0 .. n : f[k] = IF k = 0 THEN h ELSE Step(prog, S, f[k - 1])
                  /\ Leaving(prog, S, h, n) = f[n]
<1> DEFINE f == CHOOSE g : Run(prog, S, h, n, g)
<1>1. Run(prog, S, h, n, f)
    BY RunExists
<1>2. Leaving(prog, S, h, n) = f[n]
    BY DEF Leaving, Run, Step
<1> HIDE DEF f
<1> QED
    BY <1>1, <1>2 DEF Run

\* The machines of the first n instructions of is, from h (ExecAll).
Passing(is, h, n, f) ==
    f = [k \in 0 .. n |-> IF k = 0 THEN h ELSE Exec(f[k - 1], is[k])]

\* The machines of n instructions exist.
LEMMA PassingExists ==
    ASSUME NEW is, NEW h, NEW n \in Nat
    PROVE  \E f : Passing(is, h, n, f)
<1> DEFINE T == {k \in Nat : \E f : Passing(is, h, k, f)}
<1>1. ASSUME NEW k \in Nat, \A m \in Nat : m < k => m \in T PROVE k \in T
    <2>1. CASE k = 0
        <3> DEFINE f == [j \in 0 .. 0 |-> h]
        <3>1. Passing(is, h, 0, f)
            BY DEF Passing
        <3> QED
            BY <2>1, <3>1
    <2>2. CASE k # 0
        <3>1. k - 1 \in Nat /\ k - 1 < k
            BY <2>2
        <3>2. PICK g : Passing(is, h, k - 1, g)
            BY <1>1, <3>1
        <3> DEFINE f == [j \in 0 .. k |-> IF j < k THEN g[j] ELSE Exec(g[k - 1], is[k])]
        <3>3. ASSUME NEW j \in 0 .. k
              PROVE  f[j] = IF j = 0 THEN h ELSE Exec(f[j - 1], is[j])
            <4>1. CASE j < k
                <5>1. j \in 0 .. k - 1 /\ (j # 0 => j - 1 \in 0 .. k /\ j - 1 < k)
                    BY <4>1
                <5>2. g[j] = IF j = 0 THEN h ELSE Exec(g[j - 1], is[j])
                    BY <3>2, <5>1 DEF Passing
                <5> QED
                    BY <4>1, <5>1, <5>2
            <4>2. CASE j = k
                BY <2>2, <4>2
            <4> QED
                BY <4>1, <4>2
        <3>4. f = [j \in 0 .. k |-> f[j]]
            OBVIOUS
        <3>5. Passing(is, h, k, f)
            <4> HIDE DEF f
            <4> QED
                BY <3>3, <3>4 DEF Passing
        <3> QED
            BY <3>5
    <2> QED
        BY <2>1, <2>2
<1>2. Nat \subseteq T
    <2> HIDE DEF T
    <2> QED
        BY <1>1, SetInduction
<1> QED
    BY <1>2

\* ExecAll is where such machines end.
LEMMA ExecRun ==
    ASSUME NEW is, NEW h, Len(is) \in Nat
    PROVE  \E f : /\ \A k \in 0 .. Len(is) : f[k] = IF k = 0 THEN h ELSE Exec(f[k - 1], is[k])
                  /\ ExecAll(h, is) = f[Len(is)]
<1> DEFINE f == CHOOSE g : Passing(is, h, Len(is), g)
<1>1. Passing(is, h, Len(is), f)
    BY PassingExists
<1>2. ExecAll(h, is) = f[Len(is)]
    BY DEF ExecAll, Passing
<1> HIDE DEF f
<1> QED
    BY <1>1, <1>2 DEF Passing

\* An empty place does nothing, and one instruction what it does.
LEMMA ExecNone ==
    ASSUME NEW h
    PROVE  ExecAll(h, <<>>) = h
<1>1. Len(<<>>) = 0
    OBVIOUS
<1> QED
    BY <1>1, ExecRun

LEMMA ExecOne ==
    ASSUME NEW h, NEW i
    PROVE  ExecAll(h, <<i>>) = Exec(h, i)
<1>1. Len(<<i>>) = 1 /\ <<i>>[1] = i
    OBVIOUS
<1>2. PICK f : /\ \A k \in 0 .. 1 : f[k] = IF k = 0 THEN h ELSE Exec(f[k - 1], <<i>>[k])
               /\ ExecAll(h, <<i>>) = f[1]
    BY <1>1, ExecRun
<1>3. f[0] = h /\ f[1] = Exec(f[0], i)
    BY <1>1, <1>2
<1> QED
    BY <1>2, <1>3

-------------------------------------------------------------------------------
(* Sections and machines.                                                  *)

IsSection(s) == s.code \in Seq(Insns) /\ s = SetSection(s.code, s.note)

\* A machine whose registers hold V.
Machine(V, h) ==
    /\ h = [x |-> h.x, m |-> h.m, pc |-> h.pc, res |-> h.res]
    /\ h.x \in [Regs -> V] /\ h.x[0] = 0 /\ h.pc \in Int

\* One that has skipped an instruction, and one that has run it.
Skip(h) == [h EXCEPT !.pc = h.pc + 1]
Ran(h, i) == Exec(Skip(h), i)

\* What stands where no instruction does, and where one does.
Gone == <<>>
Alone(i) == <<i>>

\* The two differ in D at most, and there in what is dead where they are.
Same(s, D, g, h) ==
    /\ g.m = h.m /\ g.pc = h.pc
    /\ \A q \in Regs : g.x[q] = h.x[q] \/ (q \in D /\ DeadAt(s, g.pc, q))

\* A machine that starts is one whose registers hold V.
LEMMA StartMachine ==
    ASSUME NEW s, NEW V, NEW x, NEW m, NEW p, x \in [Regs -> V], x[0] = 0, p \in Int
    PROVE  Machine(V, Start(s, x, m, p)) /\ Start(s, x, m, p).pc = p
    BY DEF Machine, Start

\* A step of the code runs the instruction.
LEMMA PlainStep ==
    ASSUME NEW s, NEW S, NEW g, g.pc \in S, g.pc \in DOMAIN s.code
    PROVE  Step(Plain(s), S, g) = Ran(g, s.code[g.pc])
    BY ExecOne DEF Step, Plain, Ran, Skip

\* A step of the patch over an empty place goes on by an address.
LEMMA SkipStep ==
    ASSUME NEW s, NEW f, NEW g, g.pc \in DOMAIN f.patch, g.pc \in DOMAIN s.code,
           f.patch[g.pc] = Gone
    PROVE  Step(Patched(s, f), DOMAIN f.patch, g) = Skip(g)
    BY ExecNone DEF Step, Patched, Skip, Gone

\* A step of the patch at a place with one instruction runs it.
LEMMA PatchStep ==
    ASSUME NEW s, NEW f, NEW g, NEW i,
           g.pc \in DOMAIN f.patch, g.pc \in DOMAIN s.code, f.patch[g.pc] = Alone(i)
    PROVE  Step(Patched(s, f), DOMAIN f.patch, g) = Ran(g, i)
    BY ExecOne DEF Step, Patched, Ran, Skip, Alone

\* There is no step outside.
LEMMA OutStep ==
    ASSUME NEW prog, NEW S, NEW g, g.pc \notin S
    PROVE  Step(prog, S, g) = g
    BY DEF Step

\* A window is entered at its first instruction.
LEMMA WindowEntry ==
    ASSUME NEW s, IsSection(s), NEW a \in Nat \ {0}, NEW n \in Nat \ {0}, Window(s, a, n)
    PROVE  /\ a .. a + n - 1 \subseteq DOMAIN s.code
           /\ ComesIn(s, a .. a + n - 1) \subseteq {a}
<1>1. DOMAIN s.code = 1 .. Len(s.code) /\ Len(s.code) \in Nat
    BY DEF IsSection
<1>2. a .. a + n - 1 \subseteq DOMAIN s.code
    BY <1>1 DEF Window, InSection
<1>3. ASSUME NEW p \in ComesIn(s, a .. a + n - 1), p # a
      PROVE  FALSE
    <2>1. p \in a .. a + n - 1
        BY DEF ComesIn
    <2>2. p \in a + 1 .. a + n - 1 /\ p - 1 \in a .. a + n - 1
        BY <1>3, <2>1
    <2>3. p \notin s.targets
        BY <2>2 DEF Window, is_branch_target
    <2>4. s.targets = s.note.entries
                        \cup ({t.target : t \in Relatives(s.code)} \cap DOMAIN s.code)
        BY DEF IsSection, SetSection
    <2>5. p \notin s.note.entries /\ p \notin {t.target : t \in Relatives(s.code)}
        BY <1>2, <2>1, <2>3, <2>4
    <2>6. p \notin {t.target : t \in {u \in Relatives(s.code) : u.site \notin a .. a + n - 1}}
        BY <2>5
    <2> QED
        BY <2>2, <2>5, <2>6 DEF ComesIn
<1> QED
    BY <1>2, <1>3

-------------------------------------------------------------------------------
(* A fold of two instructions into one.                                    *)

\* Machines that are the same and run the two and the one are the same again.
FoldMirrors(s, a, i, D, V) ==
    \A g, h : Machine(V, g) /\ Machine(V, h) /\ Same(s, D, g, h) /\ g.pc = a =>
        LET g1 == Ran(g, s.code[a])
            g2 == Ran(g1, s.code[a + 1])
            h2 == Ran(Skip(h), i)
        IN  /\ g1.pc = a + 1 /\ g2.pc # a + 1
            /\ Machine(V, g2) /\ Machine(V, h2) /\ Same(s, D, g2, h2)

\* Where the two runs are after a number of steps: before the fold, inside, or gone.
FoldStage(s, a, i, D, V, g, h) ==
    \/ g.pc = a /\ Machine(V, g) /\ Machine(V, h) /\ Same(s, D, g, h)
    \/ \E g0, h0 : /\ Machine(V, g0) /\ Machine(V, h0) /\ Same(s, D, g0, h0) /\ g0.pc = a
                  /\ g = Ran(g0, s.code[a]) /\ h = Skip(h0)
    \/ g.pc \notin a .. a + 1 /\ Agree(s, g, h)

\* How the code and the patch run the two places.
StepsFold(s, a, i, P, Q) ==
    \A g : /\ g.pc = a => /\ Step(P, a .. a + 1, g) = Ran(g, s.code[a])
                          /\ Step(Q, a .. a + 1, g) = Skip(g)
           /\ g.pc = a + 1 => /\ Step(P, a .. a + 1, g) = Ran(g, s.code[a + 1])
                              /\ Step(Q, a .. a + 1, g) = Ran(g, i)

\* How the code and the patch of a fold of two run.
LEMMA FoldSteps ==
    ASSUME NEW s, NEW f, NEW a \in Nat, NEW i, a .. a + 1 \subseteq DOMAIN s.code,
           DOMAIN f.patch = a .. a + 1, f.patch[a] = Gone, f.patch[a + 1] = Alone(i)
    PROVE  StepsFold(s, a, i, Plain(s), Patched(s, f))
<1> DEFINE S == a .. a + 1
<1>1. S = {a, a + 1}
    OBVIOUS
<1>2. DOMAIN f.patch = S /\ S \subseteq DOMAIN s.code
    OBVIOUS
<1> HIDE DEF S
<1> SUFFICES ASSUME NEW g
             PROVE  /\ g.pc = a => /\ Step(Plain(s), S, g) = Ran(g, s.code[a])
                                   /\ Step(Patched(s, f), S, g) = Skip(g)
                    /\ g.pc = a + 1 => /\ Step(Plain(s), S, g) = Ran(g, s.code[a + 1])
                                       /\ Step(Patched(s, f), S, g) = Ran(g, i)
    BY DEF S, StepsFold
<1>3. ASSUME g.pc \in S
      PROVE  Step(Plain(s), S, g) = Ran(g, s.code[g.pc])
    BY <1>2, <1>3, PlainStep
<1>4. ASSUME g.pc = a
      PROVE  Step(Patched(s, f), S, g) = Skip(g)
    BY <1>1, <1>2, <1>4, SkipStep
<1>5. ASSUME g.pc = a + 1
      PROVE  Step(Patched(s, f), S, g) = Ran(g, i)
    BY <1>1, <1>2, <1>5, PatchStep
<1> QED
    BY <1>1, <1>3, <1>4, <1>5

\* The runs of the code and of the patch keep abreast.
LEMMA FoldRuns ==
    ASSUME NEW s, NEW a \in Nat, NEW i, NEW D, NEW V, NEW P, NEW Q, NEW start, NEW fuel \in Nat,
           StepsFold(s, a, i, P, Q), FoldMirrors(s, a, i, D, V), Machine(V, start), start.pc = a
    PROVE  FoldStage(s, a, i, D, V, Leaving(P, a .. a + 1, start, fuel),
                                    Leaving(Q, a .. a + 1, start, fuel))
<1> DEFINE S == a .. a + 1
<1>2. \A p : p \in S <=> p = a \/ p = a + 1
    OBVIOUS
<1>3. \A g : /\ g.pc = a => Step(P, S, g) = Ran(g, s.code[a]) /\ Step(Q, S, g) = Skip(g)
             /\ g.pc = a + 1 => Step(P, S, g) = Ran(g, s.code[a + 1]) /\ Step(Q, S, g) = Ran(g, i)
    BY DEF StepsFold
<1> HIDE DEF S
<1>5. PICK G : /\ \A k \in 0 .. fuel : G[k] = IF k = 0 THEN start ELSE Step(P, S, G[k - 1])
               /\ Leaving(P, S, start, fuel) = G[fuel]
    BY LeavingRun
<1>6. PICK H : /\ \A k \in 0 .. fuel : H[k] = IF k = 0 THEN start ELSE Step(Q, S, H[k - 1])
               /\ Leaving(Q, S, start, fuel) = H[fuel]
    BY LeavingRun
<1> DEFINE T == {k \in Nat : k <= fuel => FoldStage(s, a, i, D, V, G[k], H[k])}
<1>7. ASSUME NEW k \in Nat, \A j \in Nat : j < k => j \in T
      PROVE  k \in T
    <2> SUFFICES ASSUME k <= fuel
                 PROVE  FoldStage(s, a, i, D, V, G[k], H[k])
        OBVIOUS
    <2>1. CASE k = 0
        BY <1>5, <1>6, <2>1 DEF FoldStage, Same
    <2>2. CASE k # 0
        <3>1. k - 1 \in Nat /\ k - 1 < k /\ k - 1 <= fuel /\ k \in 0 .. fuel
            BY <2>2
        <3> DEFINE g == G[k - 1]
                   h == H[k - 1]
        <3>2. G[k] = Step(P, S, g) /\ H[k] = Step(Q, S, h)
            BY <1>5, <1>6, <2>2, <3>1
        <3>3. FoldStage(s, a, i, D, V, g, h)
            BY <1>7, <3>1
        <3> HIDE DEF g, h, T
        <3>4. CASE g.pc = a /\ Machine(V, g) /\ Machine(V, h) /\ Same(s, D, g, h)
            <4>1. h.pc = a
                BY <3>4 DEF Same
            <4>2. G[k] = Ran(g, s.code[a]) /\ H[k] = Skip(h)
                BY <1>3, <3>2, <3>4, <4>1
            <4> QED
                BY <3>4, <4>2 DEF FoldStage
        <3>5. CASE \E g0, h0 :
                    /\ Machine(V, g0) /\ Machine(V, h0) /\ Same(s, D, g0, h0) /\ g0.pc = a
                    /\ g = Ran(g0, s.code[a]) /\ h = Skip(h0)
            <4>1. PICK g0, h0 :
                    /\ Machine(V, g0) /\ Machine(V, h0) /\ Same(s, D, g0, h0) /\ g0.pc = a
                    /\ g = Ran(g0, s.code[a]) /\ h = Skip(h0)
                BY <3>5
            <4> DEFINE g2 == Ran(g, s.code[a + 1])
                       h2 == Ran(h, i)
            <4>2. /\ g.pc = a + 1 /\ g2.pc # a + 1
                  /\ Machine(V, g2) /\ Machine(V, h2) /\ Same(s, D, g2, h2)
                BY <4>1 DEF FoldMirrors
            <4>3. h.pc = a + 1
                BY <4>1 DEF Skip, Machine, Same
            <4>4. G[k] = g2 /\ H[k] = h2
                BY <1>3, <3>2, <4>2, <4>3
            <4> HIDE DEF g2, h2
            <4>5. CASE g2.pc = a
                BY <4>2, <4>4, <4>5 DEF FoldStage
            <4>6. CASE g2.pc # a
                <5>1. Agree(s, g2, h2)
                    BY <4>2, <4>6 DEF Agree, Same
                <5>2. g2.pc \notin a .. a + 1
                    BY <4>2, <4>6, <1>2 DEF S
                <5> QED
                    BY <4>4, <5>1, <5>2 DEF FoldStage
            <4> QED
                BY <4>5, <4>6
        <3>6. CASE g.pc \notin a .. a + 1 /\ Agree(s, g, h)
            <4>1. g.pc \notin S /\ h.pc \notin S
                BY <3>6 DEF S, Agree
            <4>2. G[k] = g /\ H[k] = h
                BY <3>2, <4>1, OutStep
            <4> QED
                BY <3>6, <4>2 DEF FoldStage
        <3> QED
            BY <3>3, <3>4, <3>5, <3>6 DEF FoldStage
    <2> QED
        BY <2>1, <2>2
<1>8. FoldStage(s, a, i, D, V, G[fuel], H[fuel])
    <2>1. Nat \subseteq T
        <3> HIDE DEF T
        <3> QED
            BY <1>7, SetInduction
    <2> QED
        BY <2>1
<1> QED
    BY <1>5, <1>6, <1>8 DEF S

\* A fold whose two machines mirror each other holds.
LEMMA FoldHolds ==
    ASSUME NEW s, IsSection(s), NEW a \in Nat \ {0}, Window(s, a, 2),
           NEW f, NEW i, DOMAIN f.patch = a .. a + 1, f.patch[a] = Gone, f.patch[a + 1] = Alone(i),
           NEW D, NEW V, FoldMirrors(s, a, i, D, V),
           NEW x, NEW m, NEW fuel \in Nat, Machine(V, Start(s, x, m, a))
    PROVE  Holds(s, f, x, m, fuel)
<1> DEFINE S == a .. a + 1
           G == Leaving(Plain(s), S, Start(s, x, m, a), fuel)
           H == Leaving(Patched(s, f), S, Start(s, x, m, a), fuel)
<1>1. a + 2 - 1 = a + 1
    OBVIOUS
<1>2. S \subseteq DOMAIN s.code /\ ComesIn(s, S) \subseteq {a}
    BY <1>1, WindowEntry
<1>3. \A p \in S : ~is_relocated(s, p)
    BY <1>1 DEF Window
<1>4. Start(s, x, m, a).pc = a
    BY DEF Start
<1>5. FoldStage(s, a, i, D, V, G, H)
    <2>1. StepsFold(s, a, i, Plain(s), Patched(s, f))
        BY <1>2, FoldSteps
    <2> QED
        BY <1>4, <2>1, FoldRuns
<1> HIDE DEF G, H
<1>6. {G.pc, H.pc} \subseteq S \/ Agree(s, G, H)
    <2>1. ASSUME NEW g0, NEW h0, Machine(V, g0), Machine(V, h0), Same(s, D, g0, h0), g0.pc = a
          PROVE  Ran(g0, s.code[a]).pc \in S /\ Skip(h0).pc \in S
        <3>1. Ran(g0, s.code[a]).pc = a + 1
            BY <2>1 DEF FoldMirrors
        <3>2. Skip(h0).pc = a + 1
            BY <2>1 DEF Skip, Machine, Same
        <3> QED
            BY <3>1, <3>2
    <2> QED
        BY <1>5, <2>1 DEF FoldStage, Same
<1> QED
    BY <1>2, <1>3, <1>6 DEF Holds, G, H

\* What stands where a fold of two was.
LEMMA FoldPatch ==
    ASSUME NEW rule, NEW a \in Nat, NEW j, NEW f \in Fold(rule, a, 2, Alone(j))
    PROVE  DOMAIN f.patch = a .. a + 1 /\ f.patch[a] = Gone /\ f.patch[a + 1] = Alone(j)
<1>1. f.patch = [p \in a .. a + 2 - 1 |-> IF p = a + 2 - 1 THEN Alone(j) ELSE <<>>]
    BY DEF Fold, Finding
<1>2. a + 2 - 1 = a + 1
    OBVIOUS
<1> QED
    BY <1>1, <1>2 DEF Gone

-------------------------------------------------------------------------------
(* Words.                                                                  *)

Half == 2^(XLEN - 1)

\* Half of the words are not negative.
LEMMA HalfLemma ==
    /\ XLEN \in Nat \ {0} /\ Half \in Nat /\ 31 < Half /\ 2^XLEN = 2 * Half
    /\ Words = -Half .. Half - 1
<1>1. XLEN \in Nat /\ 1 < XLEN /\ 31 < Half
    BY HartAssumption DEF Half
<1>2. XLEN - 1 \in 0 .. XLEN - 1 /\ XLEN - 1 + 1 = XLEN
    BY <1>1
<1>3. Half \in Nat /\ 2^XLEN = 2 * Half
    BY <1>2, PowerAssumption DEF Half
<1> QED
    BY <1>1, <1>3 DEF Words, Half

\* A remainder is below what divides, and what lies there already is its own.
LEMMA ModRange ==
    ASSUME NEW u \in Int, NEW n \in Nat, 0 < n
    PROVE  u % n \in 0 .. n - 1
    OBVIOUS
LEMMA ModOwn ==
    ASSUME NEW u \in Int, NEW n \in Nat, 0 <= u, u < n
    PROVE  u % n = u
    OBVIOUS
LEMMA ModBelow ==
    ASSUME NEW u \in Int, NEW n \in Nat, u < 0, -n <= u
    PROVE  u % n = u + n
    OBVIOUS
LEMMA ModAbove ==
    ASSUME NEW u \in Int, NEW n \in Nat, n <= u, u < 2 * n
    PROVE  u % n = u - n
    OBVIOUS

\* What is extended from XLEN bits is a word.
LEMMA SextWord ==
    ASSUME NEW v \in Int
    PROVE  Sext(XLEN, v) \in Words
<1>1. (v + Half) % (2 * Half) \in 0 .. 2 * Half - 1
    BY HalfLemma, ModRange
<1> QED
    BY <1>1, HalfLemma DEF Sext, Half

\* A word is its own extension.
LEMMA SextOwn ==
    ASSUME NEW v \in Words
    PROVE  Sext(XLEN, v) = v
<1>1. v + Half \in Int /\ 0 <= v + Half /\ v + Half < 2 * Half
    BY HalfLemma
<1>2. (v + Half) % (2 * Half) = v + Half
    BY <1>1, HalfLemma, ModOwn
<1> QED
    BY <1>2, HalfLemma DEF Sext, Half

\* Two words are equal exactly if their difference is the word 0 (sub).
LEMMA SubZero ==
    ASSUME NEW u \in Words, NEW v \in Words
    PROVE  Sext(XLEN, u - v) = 0 <=> u = v
<1> DEFINE d == u - v + Half
<1>1. /\ d \in Int /\ 2 * Half \in Nat /\ -(2 * Half) <= d /\ d < 2 * (2 * Half)
      /\ -Half < d /\ d < 3 * Half
    BY HalfLemma
<1>2. Sext(XLEN, u - v) = (d % (2 * Half)) - Half
    BY HalfLemma DEF Sext, Half
<1>3. CASE d < 0
    <2>1. d % (2 * Half) = d + 2 * Half
        BY <1>1, <1>3, ModBelow
    <2> QED
        BY <1>1, <1>2, <1>3, <2>1, HalfLemma
<1>4. CASE 0 <= d /\ d < 2 * Half
    BY <1>1, <1>2, <1>4, ModOwn, HalfLemma
<1>5. CASE 2 * Half <= d
    <2>1. d % (2 * Half) = d - 2 * Half
        BY <1>1, <1>5, ModAbove
    <2> QED
        BY <1>1, <1>2, <1>5, <2>1, HalfLemma
<1> QED
    BY <1>1, <1>3, <1>4, <1>5, HalfLemma

\* The unsigned reading of a word.
LEMMA UnsignedLemma ==
    ASSUME NEW u \in Words
    PROVE  Unsigned(u) = IF 0 <= u THEN u ELSE u + 2 * Half
<1>1. Unsigned(u) = u % (2 * Half)
    BY HalfLemma DEF Unsigned, Low
<1>2. CASE 0 <= u
    BY <1>1, <1>2, HalfLemma, ModOwn
<1>3. CASE u < 0
    <2>1. u \in Int /\ 2 * Half \in Nat /\ -(2 * Half) <= u
        BY HalfLemma
    <2>2. u % (2 * Half) = u + 2 * Half
        BY <1>3, <2>1, ModBelow
    <2> QED
        BY <1>1, <1>3, <2>1, <2>2
<1> QED
    BY <1>2, <1>3, HalfLemma
LEMMA LessWord ==
    ASSUME NEW u \in Int, NEW v \in Int
    PROVE  Less(u, v) \in Words /\ (Less(u, v) = 0 <=> u >= v)
    BY HalfLemma DEF Less

-------------------------------------------------------------------------------
(* One instruction.                                                        *)

\* The machine z is g after an instruction that wrote v to r and did nothing else.
Written(V, g, r, v, z) ==
    /\ Machine(V, z) /\ z.pc = g.pc + 1 /\ z.m = g.m
    /\ z.x[r] = v /\ \A q \in Regs \ {r} : z.x[q] = g.x[q]

\* What writes a register and does nothing else (Exec).
Plainly(i) == i.op \notin Transfers \cup Accesses \cup Atomics \cup {"auipc", "lxs", "other", "ecall"}
LEMMA SkipForm ==
    ASSUME NEW V, NEW g, Machine(V, g)
    PROVE  Skip(g) = [x |-> g.x, m |-> g.m, pc |-> g.pc + 1, res |-> g.res]
    BY DEF Machine, Skip
LEMMA RanValue ==
    ASSUME NEW V, NEW g, NEW i, NEW v, Machine(V, g), Plainly(i), i.rd \in Regs \ {0}, v \in V,
           Value(i.op, i.n, i.k, g.x[i.a], Operand(i, g)) = v
    PROVE  Written(V, g, i.rd, v, Ran(g, i))
<1>1. Operand(i, Skip(g)) = Operand(i, g) /\ Skip(g).x = g.x
    BY DEF Operand, Skip, Machine
<1>2. Ran(g, i) = SetX(Skip(g), i.rd, v)
    BY <1>1 DEF Ran, Exec, Plainly, Transfers, Branches, Accesses, Atomics
<1>3. Skip(g) = [x |-> g.x, m |-> g.m, pc |-> g.pc + 1, res |-> g.res]
    BY SkipForm
<1>4. Ran(g, i) = [x |-> [g.x EXCEPT ![i.rd] = v], m |-> g.m, pc |-> g.pc + 1, res |-> g.res]
    BY <1>2, <1>3 DEF SetX
<1>5. g.x \in [Regs -> V] /\ g.x[0] = 0 /\ g.pc \in Int
    BY DEF Machine
<1> HIDE DEF Ran
<1> QED
    BY <1>4, <1>5 DEF Machine, Written

LEMMA RanBranch ==
    ASSUME NEW V, NEW g, NEW i, Machine(V, g), i.op \in Branches, i.to \in Int
    PROVE  /\ Machine(V, Ran(g, i)) /\ Ran(g, i).m = g.m /\ Ran(g, i).x = g.x
           /\ Ran(g, i).pc = IF Taken(i.op, g.x[i.a], Operand(i, g)) THEN i.to ELSE g.pc + 1
<1>1. Operand(i, Skip(g)) = Operand(i, g) /\ Skip(g).x = g.x
    BY DEF Operand, Skip, Machine
<1> DEFINE taken == Taken(i.op, g.x[i.a], Operand(i, g))
<1>2. Ran(g, i) = IF taken THEN [Skip(g) EXCEPT !.pc = i.to] ELSE Skip(g)
    <2>1. Exec(Skip(g), i) = IF Taken(i.op, Skip(g).x[i.a], Operand(i, Skip(g)))
                             THEN [Skip(g) EXCEPT !.pc = i.to] ELSE Skip(g)
        BY DEF Exec, Branches, Atomics
    <2> QED
        BY <1>1, <2>1 DEF Ran
<1>3. Skip(g) = [x |-> g.x, m |-> g.m, pc |-> g.pc + 1, res |-> g.res]
    BY SkipForm
<1> HIDE DEF taken
<1>4. Ran(g, i) = [x |-> g.x, m |-> g.m, pc |-> IF taken THEN i.to ELSE g.pc + 1, res |-> g.res]
    BY <1>2, <1>3
<1>5. g.x \in [Regs -> V] /\ g.x[0] = 0 /\ g.pc \in Int
    BY DEF Machine
<1> QED
    BY <1>4, <1>5 DEF Machine, taken
LEMMA SkipMachine ==
    ASSUME NEW V, NEW g, Machine(V, g)
    PROVE  Machine(V, Skip(g)) /\ Skip(g).pc = g.pc + 1 /\ Skip(g).m = g.m /\ Skip(g).x = g.x
    BY DEF Machine, Skip

-------------------------------------------------------------------------------
(* A few steps out of a window.                                            *)

\* Leaving for n + 1 steps is a step, and leaving for n.
LEMMA LeavingNext ==
    ASSUME NEW prog, NEW S, NEW h, NEW n \in Nat
    PROVE  Leaving(prog, S, h, n + 1) = Leaving(prog, S, Step(prog, S, h), n)
<1> DEFINE h1 == Step(prog, S, h)
<1>1. n + 1 \in Nat
    OBVIOUS
<1>2. PICK F : /\ \A k \in 0 .. n + 1 : F[k] = IF k = 0 THEN h ELSE Step(prog, S, F[k - 1])
               /\ Leaving(prog, S, h, n + 1) = F[n + 1]
    BY <1>1, LeavingRun
<1> HIDE DEF h1
<1>3. PICK G : /\ \A k \in 0 .. n : G[k] = IF k = 0 THEN h1 ELSE Step(prog, S, G[k - 1])
               /\ Leaving(prog, S, h1, n) = G[n]
    BY LeavingRun
<1> DEFINE T == {k \in Nat : k <= n => F[k + 1] = G[k]}
<1>4. ASSUME NEW k \in Nat, \A j \in Nat : j < k => j \in T
      PROVE  k \in T
    <2> SUFFICES ASSUME k <= n
                 PROVE  F[k + 1] = G[k]
        OBVIOUS
    <2>1. k + 1 \in 0 .. n + 1 /\ k + 1 # 0 /\ k + 1 - 1 = k /\ k \in 0 .. n /\ 0 \in 0 .. n + 1
        OBVIOUS
    <2>2. F[k + 1] = Step(prog, S, F[k])
        BY <1>2, <2>1
    <2>3. CASE k = 0
        <3>1. F[0] = h /\ G[0] = h1
            BY <1>2, <1>3, <2>1, <2>3
        <3> QED
            BY <2>2, <2>3, <3>1 DEF h1
    <2>4. CASE k # 0
        <3>1. k - 1 \in Nat /\ k - 1 < k /\ k - 1 <= n /\ k - 1 + 1 = k
            BY <2>4
        <3>2. F[k] = G[k - 1]
            BY <1>4, <3>1
        <3>3. G[k] = Step(prog, S, G[k - 1])
            BY <1>3, <2>1, <2>4
        <3> QED
            BY <2>2, <3>2, <3>3
    <2> QED
        BY <2>3, <2>4
<1>5. Nat \subseteq T
    <2> HIDE DEF T
    <2> QED
        BY <1>4, SetInduction
<1>6. F[n + 1] = G[n]
    BY <1>5
<1> QED
    BY <1>2, <1>3, <1>6 DEF h1

\* Whoever is outside has left.
LEMMA LeavingOut ==
    ASSUME NEW prog, NEW S, NEW h, NEW n \in Nat, h.pc \notin S
    PROVE  Leaving(prog, S, h, n) = h
<1>1. PICK F : /\ \A k \in 0 .. n : F[k] = IF k = 0 THEN h ELSE Step(prog, S, F[k - 1])
               /\ Leaving(prog, S, h, n) = F[n]
    BY LeavingRun
<1> DEFINE T == {k \in Nat : k <= n => F[k] = h}
<1>2. ASSUME NEW k \in Nat, \A j \in Nat : j < k => j \in T
      PROVE  k \in T
    <2> SUFFICES ASSUME k <= n
                 PROVE  F[k] = h
        OBVIOUS
    <2>1. k \in 0 .. n /\ (k # 0 => k - 1 \in Nat /\ k - 1 < k /\ k - 1 <= n)
        OBVIOUS
    <2>2. k # 0 => F[k - 1] = h
        BY <1>2, <2>1
    <2> QED
        BY <1>1, <2>1, <2>2, OutStep
<1>3. Nat \subseteq T
    <2> HIDE DEF T
    <2> QED
        BY <1>2, SetInduction
<1> QED
    BY <1>1, <1>3

\* Out after one step, after two, after three.
LEMMA LeavingOne ==
    ASSUME NEW prog, NEW S, NEW h, NEW n \in Nat, 1 <= n,
           Step(prog, S, h).pc \notin S
    PROVE  Leaving(prog, S, h, n) = Step(prog, S, h)
<1>1. n - 1 \in Nat /\ n - 1 + 1 = n
    OBVIOUS
<1>2. Leaving(prog, S, h, n - 1 + 1) = Leaving(prog, S, Step(prog, S, h), n - 1)
    BY <1>1, LeavingNext
<1>3. Leaving(prog, S, Step(prog, S, h), n - 1) = Step(prog, S, h)
    BY <1>1, LeavingOut
<1> QED
    BY <1>1, <1>2, <1>3
LEMMA LeavingTwo ==
    ASSUME NEW prog, NEW S, NEW h, NEW n \in Nat, 2 <= n, NEW h1, h1 = Step(prog, S, h),
           Step(prog, S, h1).pc \notin S
    PROVE  Leaving(prog, S, h, n) = Step(prog, S, h1)
<1>1. n - 1 \in Nat /\ n - 1 + 1 = n /\ 1 <= n - 1
    OBVIOUS
<1>2. Leaving(prog, S, h, n - 1 + 1) = Leaving(prog, S, h1, n - 1)
    BY <1>1, LeavingNext
<1>3. Leaving(prog, S, h1, n - 1) = Step(prog, S, h1)
    BY <1>1, LeavingOne
<1> QED
    BY <1>1, <1>2, <1>3
LEMMA LeavingThree ==
    ASSUME NEW prog, NEW S, NEW h, NEW n \in Nat, 3 <= n, NEW h1, NEW h2,
           h1 = Step(prog, S, h), h2 = Step(prog, S, h1), Step(prog, S, h2).pc \notin S
    PROVE  Leaving(prog, S, h, n) = Step(prog, S, h2)
<1>1. n - 1 \in Nat /\ n - 1 + 1 = n /\ 2 <= n - 1
    OBVIOUS
<1>2. Leaving(prog, S, h, n - 1 + 1) = Leaving(prog, S, h1, n - 1)
    BY <1>1, LeavingNext
<1>3. Leaving(prog, S, h1, n - 1) = Step(prog, S, h2)
    BY <1>1, LeavingTwo
<1> QED
    BY <1>1, <1>2, <1>3

\* Never out, where the registers stay x and the addresses of A lead to each other.
Circling(A, x, g) == Machine(Words, g) /\ g.x = x /\ g.pc \in A

\* Whoever goes round for ever never leaves.
LEMMA LeavingNever ==
    ASSUME NEW prog, NEW S, NEW A, NEW x, NEW h, Circling(A, x, h), NEW n \in Nat,
           A \subseteq S,
           \A g : Circling(A, x, g) => Circling(A, x, Step(prog, S, g))
    PROVE  Leaving(prog, S, h, n).pc \in S
<1>1. PICK F : /\ \A k \in 0 .. n : F[k] = IF k = 0 THEN h ELSE Step(prog, S, F[k - 1])
               /\ Leaving(prog, S, h, n) = F[n]
    BY LeavingRun
<1> DEFINE T == {k \in Nat : k <= n => Circling(A, x, F[k])}
<1>2. ASSUME NEW k \in Nat, \A j \in Nat : j < k => j \in T
      PROVE  k \in T
    <2> SUFFICES ASSUME k <= n
                 PROVE  Circling(A, x, F[k])
        OBVIOUS
    <2>1. k \in 0 .. n /\ (k # 0 => k - 1 \in Nat /\ k - 1 < k /\ k - 1 <= n)
        OBVIOUS
    <2>2. k # 0 => Circling(A, x, F[k - 1])
        BY <1>2, <2>1
    <2> QED
        BY <1>1, <2>1, <2>2
<1>3. Nat \subseteq T
    <2> HIDE DEF T
    <2> QED
        BY <1>2, SetInduction
<1>4. Circling(A, x, F[n])
    BY <1>3
<1> QED
    BY <1>1, <1>4 DEF Circling

\* A window holds where the two runs from its first instruction agree, or never leave it.
Outcome(s, f, h, fuel) ==
    LET g == Leaving(Plain(s), DOMAIN f.patch, h, fuel)
        k == Leaving(Patched(s, f), DOMAIN f.patch, h, fuel)
    IN  {g.pc, k.pc} \subseteq DOMAIN f.patch \/ Agree(s, g, k)
LEMMA WindowHolds ==
    ASSUME NEW s, IsSection(s), NEW a \in Nat \ {0}, NEW n \in Nat \ {0}, Window(s, a, n),
           NEW f, DOMAIN f.patch = a .. a + n - 1,
           NEW x, NEW m, NEW fuel \in Nat, Outcome(s, f, Start(s, x, m, a), fuel)
    PROVE  Holds(s, f, x, m, fuel)
<1> DEFINE S == a .. a + n - 1
<1>2. S \subseteq DOMAIN s.code /\ ComesIn(s, S) \subseteq {a}
    BY WindowEntry
<1>3. \A p \in S : ~is_relocated(s, p)
    BY DEF Window
<1>4. DOMAIN f.patch = S
    OBVIOUS
<1> HIDE DEF S
<1>5. \A p \in ComesIn(s, S) : Outcome(s, f, Start(s, x, m, p), fuel)
    BY <1>2
<1> QED
    BY <1>3, <1>4, <1>5 DEF Holds, Outcome

\* A jump, linking or not.
LEMMA RanJump ==
    ASSUME NEW V, NEW g, NEW i, Machine(V, g), i.op = "jal", i.rd = 0, i.to \in Int
    PROVE  Machine(V, Ran(g, i)) /\ Ran(g, i).m = g.m /\ Ran(g, i).x = g.x /\ Ran(g, i).pc = i.to
<1>1. Ran(g, i) = [Skip(g) EXCEPT !.pc = i.to]
    <2>1. Exec(Skip(g), i) = [SetX(Skip(g), i.rd, Skip(g).pc) EXCEPT !.pc = i.to]
        BY DEF Exec, Branches, Atomics
    <2> QED
        BY <2>1 DEF Ran, SetX
<1>2. Skip(g) = [x |-> g.x, m |-> g.m, pc |-> g.pc + 1, res |-> g.res]
    BY SkipForm
<1>3. Ran(g, i) = [x |-> g.x, m |-> g.m, pc |-> i.to, res |-> g.res]
    BY <1>1, <1>2
<1>4. g.x \in [Regs -> V] /\ g.x[0] = 0 /\ g.pc \in Int
    BY DEF Machine
<1> HIDE DEF Ran
<1> QED
    BY <1>3, <1>4 DEF Machine

-------------------------------------------------------------------------------
(* Quotients, and words bit by bit.                                          *)

\* A quotient is what leaves a remainder.
LEMMA QuotientIs ==
    ASSUME NEW u \in Int, NEW n \in Nat \ {0}, NEW q \in Int, NEW r \in 0 .. n - 1, u = q * n + r
    PROVE  u \div n = q
<1> DEFINE d == u \div n
           e == u % n
<1>1. d \in Int /\ e \in 0 .. n - 1 /\ u = d * n + e
    OBVIOUS
<1> HIDE DEF d, e
<1>2. CASE d > q
    <2>1. d >= q + 1
        BY <1>1, <1>2
    <2>2. d * n >= (q + 1) * n
        BY <1>1, <2>1
    <2>3. (q + 1) * n = q * n + n
        OBVIOUS
    <2>4. q * n \in Int /\ d * n \in Int
        BY <1>1
    <2> QED
        BY <1>1, <2>2, <2>3, <2>4
<1>3. CASE d < q
    <2>1. q >= d + 1
        BY <1>1, <1>3
    <2>2. q * n >= (d + 1) * n
        BY <1>1, <2>1
    <2>3. (d + 1) * n = d * n + n
        BY <1>1
    <2>4. q * n \in Int /\ d * n \in Int
        BY <1>1
    <2> QED
        BY <1>1, <2>2, <2>3, <2>4
<1> QED
    BY <1>1, <1>2, <1>3 DEF d

\* Halving what was divided.
LEMMA QuotientHalves ==
    ASSUME NEW u \in Int, NEW p \in Nat \ {0}
    PROVE  /\ u \div p \in Int /\ u \div (2 * p) \in Int
           /\ (u \div p) % 2 \in {0, 1}
           /\ u \div p = 2 * (u \div (2 * p)) + ((u \div p) % 2)
<1> DEFINE q == u \div p
           r == u % p
           h == q \div 2
           b == q % 2
<1>1. q \in Int /\ r \in 0 .. p - 1 /\ u = q * p + r
    OBVIOUS
<1>2. h \in Int /\ b \in {0, 1} /\ q = 2 * h + b
    <2> HIDE DEF q
    <2> QED
        BY <1>1
<1>5. q = u \div p /\ b = (u \div p) % 2
    OBVIOUS
<1> HIDE DEF q, r, h, b
<1>3. u = h * (2 * p) + (b * p + r) /\ b * p + r \in 0 .. 2 * p - 1
    <2>1. q * p = h * (2 * p) + b * p
        BY <1>1, <1>2
    <2>2. b * p \in {0, p}
        BY <1>2
    <2>3. h * (2 * p) \in Int
        BY <1>2
    <2> QED
        BY <1>1, <2>1, <2>2, <2>3
<1>4. u \div (2 * p) = h
    <2>1. 2 * p \in Nat \ {0}
        OBVIOUS
    <2> QED
        BY <1>2, <1>3, <2>1, QuotientIs
<1>6. /\ u \div p \in Int /\ u \div (2 * p) \in Int
      /\ (u \div p) % 2 \in {0, 1}
    BY <1>1, <1>2, <1>4, <1>5
<1>7. u \div p = 2 * (u \div (2 * p)) + b
    BY <1>2, <1>4, <1>5
<1> QED
    BY <1>5, <1>6, <1>7

\* The sums of the products of the upper bits of u and v (BitAnd).
Ands(u, v, k, f) ==
    f = [i \in XLEN - 1 - k .. XLEN - 1 |->
            Bit(u, i) * Bit(v, i) * 2^i + (IF i = XLEN - 1 THEN 0 ELSE f[i + 1])]

LEMMA AndsExists ==
    ASSUME NEW u, NEW v, NEW n \in Nat
    PROVE  \E f : Ands(u, v, n, f)
<1> DEFINE T == {k \in Nat : \E f : Ands(u, v, k, f)}
           N == XLEN - 1
           B(i) == Bit(u, i) * Bit(v, i) * 2^i
<1>0. N \in Nat
    BY HalfLemma
<1>1. ASSUME NEW k \in Nat, \A m \in Nat : m < k => m \in T PROVE k \in T
    <2>1. CASE k = 0
        <3> DEFINE f == [i \in N - 0 .. N |-> B(i) + 0]
        <3>1. \A i \in N - 0 .. N : i = N
            BY <1>0
        <3>2. Ands(u, v, 0, f)
            BY <3>1 DEF Ands
        <3> QED
            BY <2>1, <3>2
    <2>2. CASE k # 0
        <3>1. k - 1 \in Nat /\ k - 1 < k
            BY <2>2
        <3>2. PICK g : Ands(u, v, k - 1, g)
            BY <1>1, <3>1
        <3> HIDE DEF B
        <3> DEFINE f == [i \in N - k .. N |->
                            IF i = N - k THEN B(i) + g[i + 1] ELSE g[i]]
        <3>5. \A i \in N - (k - 1) .. N :
                    g[i] = B(i) + (IF i = N THEN 0 ELSE g[i + 1])
            BY <3>2 DEF Ands, B
        <3> HIDE DEF N
        <3>3. ASSUME NEW i \in N - k .. N
              PROVE  f[i] = B(i) + (IF i = N THEN 0 ELSE f[i + 1])
            <4>1. CASE i # N - k
                <5>1. i \in N - (k - 1) .. N /\ (i # N => i + 1 \in N - k .. N /\ i + 1 # N - k)
                    BY <1>0, <4>1
                <5>2. g[i] = B(i) + (IF i = N THEN 0 ELSE g[i + 1])
                    BY <3>5, <5>1
                <5>3. f[i] = g[i] /\ (i # N => f[i + 1] = g[i + 1])
                    BY <4>1, <5>1
                <5> HIDE DEF f
                <5> QED
                    BY <5>2, <5>3
            <4>2. CASE i = N - k
                <5>1. i + 1 \in N - k .. N /\ i + 1 # N - k /\ i # N
                    BY <1>0, <2>2, <4>2
                <5>2. f[i] = B(i) + g[i + 1] /\ f[i + 1] = g[i + 1]
                    BY <4>2, <5>1
                <5> HIDE DEF f
                <5> QED
                    BY <5>1, <5>2
            <4> QED
                BY <4>1, <4>2
        <3>4. f = [i \in N - k .. N |-> f[i]]
            OBVIOUS
        <3>6. Ands(u, v, k, f)
            <4> HIDE DEF f
            <4>1. f = [i \in N - k .. N |-> B(i) + (IF i = N THEN 0 ELSE f[i + 1])]
                BY <3>3, <3>4
            <4> QED
                BY <4>1 DEF Ands, B, N
        <3> QED
            BY <3>6
    <2> QED
        BY <2>1, <2>2
<1>2. Nat \subseteq T
    <2> HIDE DEF T
    <2> QED
        BY <1>1, SetInduction
<1> QED
    BY <1>2

\* The recursion that adds up the bits, one step of it.
LEMMA AndIs ==
    ASSUME NEW u, NEW v
    PROVE  \E f : /\ \A i \in 0 .. XLEN - 1 :
                        f[i] = Bit(u, i) * Bit(v, i) * 2^i + (IF i = XLEN - 1 THEN 0 ELSE f[i + 1])
                  /\ BitAnd(u, v) = Sext(XLEN, f[0])
<1> DEFINE f == CHOOSE g : Ands(u, v, XLEN - 1, g)
<1>1. XLEN - 1 \in Nat /\ XLEN - 1 - (XLEN - 1) = 0
    BY HalfLemma
<1>2. Ands(u, v, XLEN - 1, f)
    BY <1>1, AndsExists
<1>3. f = CHOOSE g : g = [i \in 0 .. XLEN - 1 |->
            Bit(u, i) * Bit(v, i) * 2^i + (IF i = XLEN - 1 THEN 0 ELSE g[i + 1])]
    BY <1>1 DEF Ands
<1>4. BitAnd(u, v) = Sext(XLEN, f[0])
    BY <1>3 DEF BitAnd
<1> HIDE DEF f
<1>5. f = [i \in 0 .. XLEN - 1 |->
            Bit(u, i) * Bit(v, i) * 2^i + (IF i = XLEN - 1 THEN 0 ELSE f[i + 1])]
    BY <1>1, <1>2 DEF Ands
<1> QED
    BY <1>4, <1>5

\* The upper bits of u and v: y is their conjunction, and what differs is 0 exactly
\* if they are equal.
XorAt(i, u, v, w) ==
    \E y \in Int :
        /\ w = 2^i * y + (IF u < 0 /\ v < 0 THEN 2 * Half ELSE 0)
        /\ y \in -2^(XLEN - 1 - i) .. 2^(XLEN - 1 - i) - 1
        /\ (u \div 2^i) + (v \div 2^i) - 2 * y \in -2^(XLEN - 1 - i) .. 2^(XLEN - 1 - i) - 1
        /\ (u \div 2^i) + (v \div 2^i) - 2 * y = 0 <=> u \div 2^i = v \div 2^i
        /\ u < 0 /\ v < 0 => y < 0

LEMMA TopBit ==
    ASSUME NEW u \in Words
    PROVE  /\ u \div Half = IF u < 0 THEN -1 ELSE 0
           /\ Bit(u, XLEN - 1) = IF u < 0 THEN 1 ELSE 0
<1>1. u \in Int /\ Half \in Nat \ {0} /\ -Half <= u /\ u < Half
    BY HalfLemma
<1>2. CASE u < 0
    <2>1. u = (-1) * Half + (u + Half) /\ u + Half \in 0 .. Half - 1
        BY <1>1, <1>2
    <2>2. u \div Half = -1
        BY <1>1, <2>1, QuotientIs
    <2>3. (-1) % 2 = -1 + 2
        <3>1. -1 \in Int /\ 2 \in Nat /\ -1 < 0 /\ -2 <= -1
            OBVIOUS
        <3> QED
            BY <3>1, ModBelow
    <2> QED
        BY <1>2, <2>2, <2>3 DEF Bit, Half
<1>3. CASE u >= 0
    <2>1. u = 0 * Half + u /\ u \in 0 .. Half - 1
        BY <1>1, <1>3
    <2>2. u \div Half = 0
        BY <1>1, <2>1, QuotientIs
    <2> QED
        BY <1>1, <1>3, <2>2 DEF Bit, Half
<1> QED
    BY <1>1, <1>2, <1>3

LEMMA XorTop ==
    ASSUME NEW u \in Words, NEW v \in Words
    PROVE  XorAt(XLEN - 1, u, v, Bit(u, XLEN - 1) * Bit(v, XLEN - 1) * 2^(XLEN - 1))
<1> DEFINE y == IF u < 0 /\ v < 0 THEN -1 ELSE 0
<1>1. XLEN - 1 - (XLEN - 1) = 0 /\ 2^0 = 1
    BY HalfLemma
<1>2. Half \in Nat /\ u \in Int /\ v \in Int
    BY HalfLemma
<1>3. Bit(u, XLEN - 1) * Bit(v, XLEN - 1) * Half = Half * y + (IF u < 0 /\ v < 0 THEN 2 * Half ELSE 0)
    BY <1>2, TopBit
<1>4. (u \div Half) + (v \div Half) - 2 * y = IF (u < 0) # (v < 0) THEN -1 ELSE 0
    BY <1>2, TopBit
<1>5. u \div Half = v \div Half <=> ((u < 0) = (v < 0))
    BY <1>2, TopBit
<1>6. /\ y \in Int /\ y \in -1 .. 1 - 1 /\ (u < 0 /\ v < 0 => y < 0)
      /\ (u \div Half) + (v \div Half) - 2 * y \in -1 .. 1 - 1
      /\ (u \div Half) + (v \div Half) - 2 * y = 0 <=> u \div Half = v \div Half
    BY <1>2, <1>4, <1>5
<1> HIDE DEF y
<1> QED
    BY <1>1, <1>3, <1>6 DEF XorAt, Half

LEMMA XorDown ==
    ASSUME NEW u \in Words, NEW v \in Words, NEW i \in 0 .. XLEN - 2, NEW w, XorAt(i + 1, u, v, w)
    PROVE  XorAt(i, u, v, Bit(u, i) * Bit(v, i) * 2^i + w)
<1>1. u \in Int /\ v \in Int /\ Half \in Nat /\ XLEN \in Nat
    BY HalfLemma
<1> DEFINE p == 2^i
           A == u \div p
           B == v \div p
           A2 == u \div 2^(i + 1)
           B2 == v \div 2^(i + 1)
           bu == Bit(u, i)
           bv == Bit(v, i)
           K == 2^(XLEN - 1 - i)
           K2 == 2^(XLEN - 1 - (i + 1))
           c == IF u < 0 /\ v < 0 THEN 2 * Half ELSE 0
<1>2. p \in Nat \ {0} /\ 2^(i + 1) = 2 * p
    <2>1. i \in 0 .. XLEN - 1
        BY <1>1
    <2> QED
        BY <2>1, PowerAssumption
<1>3. K2 \in Nat \ {0} /\ K = 2 * K2
    <2> DEFINE n == XLEN - 1 - (i + 1)
    <2>1. n \in 0 .. XLEN - 1 /\ n + 1 = XLEN - 1 - i
        BY <1>1
    <2> HIDE DEF n
    <2>2. 2^n \in Nat \ {0} /\ 2^(n + 1) = 2 * 2^n
        BY <2>1, PowerAssumption
    <2> QED
        BY <2>1, <2>2 DEF n
<1>4. /\ A \in Int /\ A2 \in Int /\ bu \in {0, 1} /\ A = 2 * A2 + bu
      /\ B \in Int /\ B2 \in Int /\ bv \in {0, 1} /\ B = 2 * B2 + bv
    BY <1>1, <1>2, QuotientHalves DEF Bit
<1>5. PICK z \in Int :
        /\ w = 2^(i + 1) * z + c
        /\ z \in -K2 .. K2 - 1
        /\ A2 + B2 - 2 * z \in -K2 .. K2 - 1
        /\ A2 + B2 - 2 * z = 0 <=> A2 = B2
        /\ u < 0 /\ v < 0 => z < 0
    BY DEF XorAt
<1> DEFINE y == 2 * z + bu * bv
<1>6. bu * bv \in {0, 1} /\ bu + bv - 2 * (bu * bv) \in {0, 1}
      /\ (bu + bv - 2 * (bu * bv) = 0 <=> bu = bv)
    BY <1>4
<1>7. c \in Int
    BY <1>1
<1>8. bu * bv * p + w = p * y + c
    <2>1. w = 2 * p * z + c
        BY <1>2, <1>5
    <2> DEFINE e == bu * bv
    <2>2. e \in {0, 1}
        BY <1>6
    <2> HIDE DEF e, p, c
    <2>3. e * p + (2 * p * z + c) = p * (2 * z + e) + c
        <3>1. CASE e = 0
            <4>1. 0 * p = 0 /\ 2 * z + 0 = 2 * z
                BY <1>2
            <4>2. 2 * p * z = p * (2 * z)
                BY <1>2
            <4>3. 2 * p * z + c \in Int
                BY <1>2, <1>7
            <4> QED
                BY <3>1, <4>1, <4>2, <4>3
        <3>2. CASE e = 1
            <4>1. 1 * p = p
                BY <1>2
            <4>2. p * (2 * z + 1) = 2 * p * z + p
                BY <1>2
            <4>3. 2 * p * z \in Int
                BY <1>2
            <4> QED
                BY <1>2, <1>7, <3>2, <4>1, <4>2, <4>3
        <3> QED
            BY <2>2, <3>1, <3>2
    <2> QED
        BY <2>1, <2>3 DEF e
<1> DEFINE X2 == A2 + B2 - 2 * z
           X == A + B - 2 * y
           d == bu + bv - 2 * (bu * bv)
<1>9. X = 2 * X2 + d
    BY <1>4, <1>5, <1>6
<1>10. X2 \in -K2 .. K2 - 1 /\ d \in {0, 1} /\ (X2 = 0 <=> A2 = B2) /\ (d = 0 <=> bu = bv)
    BY <1>5, <1>6
<1>11. y \in Int /\ y \in -K .. K - 1 /\ (u < 0 /\ v < 0 => y < 0)
    BY <1>3, <1>5, <1>6
<1> HIDE DEF X2, X, d, y
<1>12. X \in -K .. K - 1 /\ (X = 0 <=> X2 = 0 /\ d = 0)
    <2> HIDE DEF K, K2
    <2> QED
        BY <1>3, <1>9, <1>10
<1>13. A = B <=> A2 = B2 /\ bu = bv
    <2> HIDE DEF A, B, A2, B2, bu, bv
    <2> QED
        BY <1>4
<1>14. X = 0 <=> A = B
    BY <1>10, <1>12, <1>13
<1> QED
    BY <1>8, <1>11, <1>12, <1>14 DEF XorAt, X

\* Two words are equal exactly if no bit of them differs (xor).
LEMMA XorZero ==
    ASSUME NEW u \in Words, NEW v \in Words
    PROVE  BitXor(u, v) \in Words /\ (BitXor(u, v) = 0 <=> u = v)
<1>1. u \in Int /\ v \in Int /\ Half \in Nat /\ XLEN - 1 \in Nat
    BY HalfLemma
<1>2. PICK f : /\ \A i \in 0 .. XLEN - 1 :
                    f[i] = Bit(u, i) * Bit(v, i) * 2^i + (IF i = XLEN - 1 THEN 0 ELSE f[i + 1])
               /\ BitAnd(u, v) = Sext(XLEN, f[0])
    BY AndIs
<1> DEFINE N == XLEN - 1
           T == {k \in Nat : k <= N => XorAt(N - k, u, v, f[N - k])}
<1>3. ASSUME NEW k \in Nat, \A m \in Nat : m < k => m \in T
      PROVE  k \in T
    <2> SUFFICES ASSUME k <= N
                 PROVE  XorAt(N - k, u, v, f[N - k])
        OBVIOUS
    <2> DEFINE i == N - k
    <2>1. i \in 0 .. N
        BY <1>1
    <2>2. CASE k = 0
        <3>1. i = N
            BY <1>1, <2>2
        <3>2. f[N] = Bit(u, N) * Bit(v, N) * 2^N + 0
            <4>1. N \in 0 .. XLEN - 1
                BY <1>1
            <4> QED
                BY <1>2, <4>1
        <3>3. XorAt(N, u, v, Bit(u, N) * Bit(v, N) * 2^N)
            BY XorTop
        <3>4. Bit(u, N) * Bit(v, N) * 2^N \in Int
            <4>1. Bit(u, N) \in Int /\ Bit(v, N) \in Int /\ 2^N \in Int
                BY <1>1, TopBit DEF Half
            <4> HIDE DEF N
            <4> QED
                BY <4>1
        <3>5. f[N] = Bit(u, N) * Bit(v, N) * 2^N
            <4> HIDE DEF N
            <4> QED
                BY <3>2, <3>4
        <3>6. N - k = N
            BY <3>1
        <3> QED
            BY <3>3, <3>5, <3>6
    <2>3. CASE k # 0
        <3>1. k - 1 \in Nat /\ k - 1 < k /\ k - 1 <= N /\ N - (k - 1) = i + 1 /\ i \in 0 .. XLEN - 2
            <4>1. XLEN \in Nat /\ N = XLEN - 1 /\ N \in Nat /\ k \in Nat /\ k <= N
                BY <1>1, HalfLemma
            <4> HIDE DEF N
            <4> QED
                BY <2>3, <4>1
        <3>2. XorAt(i + 1, u, v, f[i + 1])
            BY <1>3, <3>1
        <3>3. f[i] = Bit(u, i) * Bit(v, i) * 2^i + f[i + 1]
            <4>1. i # XLEN - 1
                BY <1>1, <3>1
            <4> HIDE DEF i
            <4> QED
                BY <1>2, <2>1, <4>1
        <3> HIDE DEF i, T, N
        <3>4. XorAt(i, u, v, Bit(u, i) * Bit(v, i) * 2^i + f[i + 1])
            BY <3>1, <3>2, XorDown
        <3> QED
            BY <3>3, <3>4 DEF i
    <2> QED
        BY <2>2, <2>3
<1>4. XorAt(0, u, v, f[0])
    <2>1. Nat \subseteq T
        <3> HIDE DEF T
        <3> QED
            BY <1>3, SetInduction
    <2>2. N \in Nat /\ N - N = 0 /\ N <= N
        BY <1>1
    <2>3. N \in T
        BY <2>1, <2>2
    <2> HIDE DEF N
    <2> QED
        BY <2>2, <2>3
<1>5. 2^0 = 1 /\ XLEN - 1 - 0 = XLEN - 1
    BY <1>1
<1>6. u \div 1 = u /\ v \div 1 = v
    BY <1>1
<1>7. PICK y \in Int :
        /\ f[0] = y + (IF u < 0 /\ v < 0 THEN 2 * Half ELSE 0)
        /\ y \in -Half .. Half - 1
        /\ u + v - 2 * y \in -Half .. Half - 1
        /\ u + v - 2 * y = 0 <=> u = v
        /\ u < 0 /\ v < 0 => y < 0
    <2>1. PICK y \in Int :
        /\ f[0] = 1 * y + (IF u < 0 /\ v < 0 THEN 2 * Half ELSE 0)
        /\ y \in -Half .. Half - 1
        /\ u + v - 2 * y \in -Half .. Half - 1
        /\ u + v - 2 * y = 0 <=> u = v
        /\ u < 0 /\ v < 0 => y < 0
        BY <1>4, <1>5, <1>6 DEF XorAt, Half
    <2> QED
        BY <2>1
<1>8. Sext(XLEN, f[0]) = y
    <2>1. CASE u < 0 /\ v < 0
        <3> DEFINE e == f[0] + Half
                   n == 2 * Half
        <3>1. e = y + 3 * Half
            BY <1>1, <1>7, <2>1
        <3>2. e \in Int /\ n \in Nat /\ n <= e /\ e < 2 * n
            <4> HIDE DEF e
            <4> QED
                BY <1>1, <1>7, <2>1, <3>1
        <3>3. Sext(XLEN, f[0]) = (e % n) - Half
            BY HalfLemma DEF Sext, Half
        <3> HIDE DEF e, n
        <3>4. e % n = e - n
            BY <3>2, ModAbove
        <3> QED
            BY <1>1, <3>1, <3>3, <3>4 DEF n
    <2>2. CASE ~(u < 0 /\ v < 0)
        <3>1. f[0] = y /\ y \in Words
            BY <1>7, <2>2, HalfLemma
        <3> QED
            BY <3>1, SextOwn
    <2> QED
        BY <2>1, <2>2
<1>9. u + v - 2 * y \in Words
    BY <1>7, HalfLemma
<1>10. BitXor(u, v) = u + v - 2 * y
    BY <1>2, <1>8, <1>9, SextOwn DEF BitXor
<1> QED
    BY <1>7, <1>9, <1>10

-------------------------------------------------------------------------------
(* What narrow and wide words have in common.                              *)

LEMMA ModIs ==
    ASSUME NEW u \in Int, NEW n \in Nat \ {0}, NEW q \in Int, NEW r \in 0 .. n - 1, u = q * n + r
    PROVE  u % n = r
<1> DEFINE d == u \div n
           e == u % n
<1>1. d \in Int /\ e \in 0 .. n - 1 /\ u = d * n + e
    OBVIOUS
<1>2. d = q
    BY QuotientIs
<1> HIDE DEF d, e
<1>3. u = q * n + e
    BY <1>1, <1>2
<1>4. q * n \in Int
    OBVIOUS
<1>5. e = r
    BY <1>1, <1>3, <1>4
<1> QED
    BY <1>5 DEF e

\* A word is what it stands for, but for a multiple of all there are.
LEMMA SextIs ==
    ASSUME NEW v \in Int
    PROVE  \E t \in Int : Sext(XLEN, v) = v + t * (2 * Half)
<1> DEFINE M == 2 * Half
           d == (v + Half) \div M
<1>1. M \in Nat \ {0} /\ v + Half \in Int /\ Half \in Int
    BY HalfLemma
<1>2. Sext(XLEN, v) = ((v + Half) % M) - Half
    BY HalfLemma DEF Sext, Half
<1> HIDE DEF M
<1>3. d \in Int /\ v + Half = d * M + ((v + Half) % M)
    BY <1>1
<1>4. (v + Half) % M \in Int
    BY <1>1
<1> HIDE DEF d
<1>5. (-d) * M = -(d * M) /\ d * M \in Int /\ -d \in Int
    BY <1>1, <1>3
<1>6. Sext(XLEN, v) = v + (-d) * M
    BY <1>1, <1>2, <1>3, <1>4, <1>5
<1> QED
    BY <1>5, <1>6 DEF M

LEMMA ModPast ==
    ASSUME NEW v \in Int, NEW n \in Nat \ {0}, NEW t \in Int
    PROVE  (v + t * n) % n = v % n
<1> DEFINE d == v \div n
           e == v % n
<1>1. d \in Int /\ e \in 0 .. n - 1 /\ v = d * n + e
    OBVIOUS
<1> HIDE DEF d, e
<1>2. v + t * n = (d + t) * n + e /\ v + t * n \in Int /\ d + t \in Int
    <2>1. (d + t) * n = d * n + t * n /\ d * n \in Int /\ t * n \in Int
        BY <1>1
    <2> QED
        BY <1>1, <2>1
<1>3. (v + t * n) % n = e
    BY <1>1, <1>2, ModIs
<1> QED
    BY <1>3 DEF e

LEMMA SextPast ==
    ASSUME NEW v \in Int, NEW t \in Int
    PROVE  Sext(XLEN, v + t * (2 * Half)) = Sext(XLEN, v)
<1> DEFINE M == 2 * Half
<1>1. M \in Nat \ {0} /\ v + Half \in Int /\ Half \in Int
    BY HalfLemma
<1>2. \A y : Sext(XLEN, y) = ((y + Half) % M) - Half
    BY HalfLemma DEF Sext, Half
<1> HIDE DEF M
<1>3. (v + Half + t * M) % M = (v + Half) % M
    BY <1>1, ModPast
<1>4. v + t * M + Half = v + Half + t * M
    <2>1. t * M \in Int
        BY <1>1
    <2> QED
        BY <1>1, <2>1
<1>5. Sext(XLEN, v + t * M) = Sext(XLEN, v)
    BY <1>2, <1>3, <1>4
<1> QED
    BY <1>5 DEF M

\* A sum of words is the word of the sum.
LEMMA SextAdd ==
    ASSUME NEW u \in Int, NEW v \in Int
    PROVE  Sext(XLEN, Sext(XLEN, u) + v) = Sext(XLEN, u + v)
<1> DEFINE M == 2 * Half
<1>1. M \in Nat
    BY HalfLemma
<1>2. PICK t \in Int : Sext(XLEN, u) = u + t * M
    BY SextIs
<1>3. t * M \in Int
    BY <1>1
<1>4. Sext(XLEN, u + v + t * M) = Sext(XLEN, u + v)
    <2>1. u + v \in Int
        OBVIOUS
    <2> QED
        BY <2>1, SextPast
<1> HIDE DEF M
<1>5. u + t * M + v = u + v + t * M
    BY <1>3
<1> QED
    BY <1>2, <1>4, <1>5

LEMMA LowSext ==
    ASSUME NEW v \in Int
    PROVE  Low(XLEN, Sext(XLEN, v)) = Low(XLEN, v)
<1> DEFINE M == 2 * Half
<1>1. M \in Nat \ {0}
    BY HalfLemma
<1>2. PICK t \in Int : Sext(XLEN, v) = v + t * M
    BY SextIs
<1>3. (v + t * M) % M = v % M
    BY <1>1, ModPast
<1> QED
    BY <1>2, <1>3, HalfLemma DEF Low
LEMMA SextLow ==
    ASSUME NEW v \in Int
    PROVE  Sext(XLEN, Low(XLEN, v)) = Sext(XLEN, v)
<1> DEFINE M == 2 * Half
           d == v \div M
           e == v % M
<1>1. M \in Nat \ {0}
    BY HalfLemma
<1>2. Low(XLEN, v) = e
    BY HalfLemma DEF Low
<1> HIDE DEF M
<1>3. d \in Int /\ e \in Int /\ v = e + d * M
    BY <1>1
<1> HIDE DEF d, e
<1>4. Sext(XLEN, e + d * M) = Sext(XLEN, e)
    BY <1>3, SextPast DEF M
<1> QED
    BY <1>2, <1>3, <1>4

\* Not of a word is the word of Not.
LEMMA SextNot ==
    ASSUME NEW v \in Int
    PROVE  Sext(XLEN, -1 - v) = -1 - Sext(XLEN, v)
<1> DEFINE M == 2 * Half
           w == Sext(XLEN, v)
<1>1. M \in Nat
    BY HalfLemma
<1>2. PICK t \in Int : w = v + t * M
    BY SextIs
<1>3. t * M \in Int /\ (-t) * M = -(t * M) /\ -t \in Int
    BY <1>1
<1>4. w \in Words /\ w \in Int
    BY SextWord, HalfLemma
<1>5. -1 - w \in Words /\ -1 - w \in Int
    BY <1>4, HalfLemma
<1>6. Sext(XLEN, -1 - w) = -1 - w
    BY <1>5, SextOwn
<1> HIDE DEF M, w
<1>7. Sext(XLEN, -1 - v + (-t) * M) = Sext(XLEN, -1 - v)
    <2>1. -1 - v \in Int
        OBVIOUS
    <2> QED
        BY <1>3, <2>1, SextPast DEF M
<1>8. -1 - v + (-t) * M = -1 - w
    BY <1>2, <1>3
<1>9. Sext(XLEN, -1 - v) = -1 - w
    BY <1>6, <1>7, <1>8
<1> QED
    BY <1>9 DEF w

-------------------------------------------------------------------------------
(* Powers of two.                                                          *)

\* A power of two is positive.
LEMMA PowerIs ==
    ASSUME NEW n \in 0 .. XLEN
    PROVE  2^n \in Nat \ {0}
<1>1. XLEN \in Nat \ {0} /\ 2^XLEN = 2 * Half /\ Half \in Nat /\ 31 < Half
    BY HalfLemma
<1>2. n \in 0 .. XLEN - 1 \/ n = XLEN
    BY <1>1
<1> QED
    BY <1>1, <1>2, PowerAssumption

LEMMA PowerNext ==
    ASSUME NEW n \in 1 .. XLEN
    PROVE  2^n = 2 * 2^(n - 1) /\ 2^(n - 1) \in Nat \ {0}
<1>1. n - 1 \in 0 .. XLEN - 1 /\ n - 1 + 1 = n
    BY HalfLemma
<1> QED
    BY <1>1, PowerAssumption

LEMMA PowerSum ==
    ASSUME NEW m \in Nat, NEW k \in Nat, m + k <= XLEN
    PROVE  2^(m + k) = 2^m * 2^k
<1> DEFINE T == {n \in Nat : m + n <= XLEN => 2^(m + n) = 2^m * 2^n}
<1>0. XLEN \in Nat
    BY HalfLemma
<1>1. ASSUME NEW n \in Nat, \A j \in Nat : j < n => j \in T
      PROVE  n \in T
    <2> SUFFICES ASSUME m + n <= XLEN
                 PROVE  2^(m + n) = 2^m * 2^n
        OBVIOUS
    <2>1. m \in 0 .. XLEN /\ n \in 0 .. XLEN /\ m + n \in 0 .. XLEN
        BY <1>0
    <2>2. 2^m \in Nat
        BY <2>1, PowerIs
    <2>3. CASE n = 0
        <3>1. 2^0 = 1 /\ m + 0 = m
            OBVIOUS
        <3> QED
            BY <2>2, <2>3, <3>1
    <2>4. CASE n # 0
        <3>1. n \in 1 .. XLEN /\ m + n \in 1 .. XLEN /\ n - 1 \in Nat /\ n - 1 < n
              /\ m + n - 1 = m + (n - 1) /\ m + (n - 1) <= XLEN
            BY <1>0, <2>1, <2>4
        <3>2. 2^(m + (n - 1)) = 2^m * 2^(n - 1)
            BY <1>1, <3>1
        <3>3. 2^n = 2 * 2^(n - 1) /\ 2^(n - 1) \in Nat
            BY <3>1, PowerNext
        <3>4. 2^(m + n) = 2 * 2^(m + n - 1)
            BY <3>1, PowerNext
        <3> DEFINE p == 2^m
                   q == 2^(n - 1)
        <3>5. 2^(m + n) = 2 * (p * q) /\ 2^n = 2 * q /\ p \in Nat /\ q \in Nat
            BY <2>2, <3>1, <3>2, <3>3, <3>4
        <3> HIDE DEF p, q
        <3>6. 2 * (p * q) = p * (2 * q)
            BY <3>5
        <3> QED
            BY <3>5, <3>6 DEF p
    <2> QED
        BY <2>3, <2>4
<1>2. Nat \subseteq T
    <2> HIDE DEF T
    <2> QED
        BY <1>1, SetInduction
<1> QED
    BY <1>2

LEMMA PowerUpTo ==
    ASSUME NEW m \in Nat, NEW n \in Nat, m <= n, n <= XLEN
    PROVE  2^m <= 2^n
<1>1. m \in 0 .. XLEN /\ n - m \in 0 .. XLEN /\ m \in Nat /\ n - m \in Nat /\ m + (n - m) = n
    BY HalfLemma
<1>2. 2^n = 2^m * 2^(n - m)
    BY <1>1, PowerSum
<1>3. 2^m \in Nat \ {0} /\ 2^(n - m) \in Nat \ {0}
    BY <1>1, PowerIs
<1> DEFINE p == 2^m
           q == 2^(n - m)
<1>4. p \in Nat /\ q \in Nat /\ 1 <= q /\ 2^n = p * q
    BY <1>2, <1>3
<1> HIDE DEF p, q
<1>5. p <= p * q
    BY <1>4
<1> QED
    BY <1>4, <1>5 DEF p

\* What the low bits are and what is left of them, as numbers.
LEMMA LowIs ==
    ASSUME NEW u \in Int, NEW n \in 0 .. XLEN
    PROVE  Low(n, u) \in 0 .. 2^n - 1
<1>1. 2^n \in Nat \ {0}
    BY PowerIs
<1> QED
    BY <1>1, ModRange DEF Low

LEMMA LowWord ==
    ASSUME NEW u \in Int, NEW n \in 0 .. XLEN - 1
    PROVE  Low(n, u) \in Words /\ Low(n, u) \in Int
<1>1. n \in 0 .. XLEN /\ n \in Nat /\ XLEN - 1 \in Nat /\ n <= XLEN - 1 /\ XLEN - 1 <= XLEN
    BY HalfLemma
<1>2. Low(n, u) \in 0 .. 2^n - 1
    BY <1>1, LowIs
<1>3. 2^n <= Half
    BY <1>1, PowerUpTo DEF Half
<1>4. 2^n \in Nat
    BY <1>1, PowerIs
<1> QED
    BY <1>2, <1>3, <1>4, HalfLemma

\* What is extended from n bits is a word.
LEMMA NarrowWord ==
    ASSUME NEW u \in Int, NEW n \in 1 .. XLEN
    PROVE  Sext(n, u) \in Words
<1>1. n - 1 \in Nat /\ XLEN - 1 \in Nat /\ n - 1 <= XLEN - 1 /\ XLEN - 1 <= XLEN
    BY HalfLemma
<1>2. 2^n = 2 * 2^(n - 1) /\ 2^(n - 1) \in Nat \ {0}
    BY PowerNext
<1>3. 2^(n - 1) <= Half
    BY <1>1, PowerUpTo DEF Half
<1> DEFINE h == 2^(n - 1)
<1>4. h \in Nat \ {0} /\ h <= Half /\ 2^n = 2 * h
    BY <1>2, <1>3
<1>5. Sext(n, u) = ((u + h) % (2 * h)) - h
    BY <1>4 DEF Sext
<1> HIDE DEF h
<1>6. (u + h) % (2 * h) \in 0 .. 2 * h - 1
    <2>1. u + h \in Int /\ 2 * h \in Nat /\ 0 < 2 * h
        BY <1>4
    <2> QED
        BY <2>1, ModRange
<1> QED
    BY <1>4, <1>5, <1>6, HalfLemma

\* Shifting up by k leaves the low m bits, where there are m and k of them.
LEMMA TimesMod ==
    ASSUME NEW u \in Int, NEW p \in Nat \ {0}, NEW q \in Nat \ {0}
    PROVE  (u * p) % (q * p) = (u % q) * p
<1> DEFINE d == u \div q
           e == u % q
<1>1. d \in Int /\ e \in 0 .. q - 1 /\ u = d * q + e
    OBVIOUS
<1> HIDE DEF d, e
<1>2. u * p = d * (q * p) + e * p
    <2>1. (d * q + e) * p = (d * q) * p + e * p
        BY <1>1
    <2>2. (d * q) * p = d * (q * p)
        BY <1>1
    <2> QED
        BY <1>1, <2>1, <2>2
<1>3. e * p \in 0 .. q * p - 1
    <2>1. e * p >= 0
        BY <1>1
    <2>2. e + 1 <= q
        BY <1>1
    <2>3. (e + 1) * p <= q * p
        BY <1>1, <2>2
    <2>4. (e + 1) * p = e * p + p /\ e * p \in Int /\ q * p \in Int
        BY <1>1
    <2> QED
        BY <2>1, <2>3, <2>4
<1>4. q * p \in Nat \ {0} /\ u * p \in Int
    OBVIOUS
<1>5. (u * p) % (q * p) = e * p
    BY <1>1, <1>2, <1>3, <1>4, ModIs
<1> QED
    BY <1>5 DEF e

LEMMA DivTimes ==
    ASSUME NEW u \in Int, NEW p \in Nat \ {0}
    PROVE  (u * p) \div p = u
<1>1. u * p = u * p + 0 /\ 0 \in 0 .. p - 1 /\ u * p \in Int
    OBVIOUS
<1> QED
    BY <1>1, QuotientIs

\* k and the width that is left.
Splits(m, k) == m \in 1 .. XLEN - 1 /\ k \in 1 .. XLEN - 1 /\ m + k = XLEN
LEMMA SplitPowers ==
    ASSUME NEW m, NEW k, Splits(m, k)
    PROVE  /\ 2^m * 2^k = 2 * Half /\ 2^m = 2 * 2^(m - 1) /\ 2^(m - 1) * 2^k = Half
           /\ 2^m \in Nat \ {0} /\ 2^k \in Nat \ {0} /\ 2^(m - 1) \in Nat \ {0}
<1>1. XLEN \in Nat /\ m \in Nat /\ k \in Nat /\ m + k <= XLEN /\ m - 1 \in Nat /\ m - 1 + k <= XLEN
      /\ m \in 1 .. XLEN /\ k \in 1 .. XLEN /\ m - 1 + k = XLEN - 1
    BY HalfLemma DEF Splits
<1>2. 2^(m + k) = 2^m * 2^k
    BY <1>1, PowerSum
<1>3. 2^(m - 1 + k) = 2^(m - 1) * 2^k
    BY <1>1, PowerSum
<1>4. 2^m = 2 * 2^(m - 1) /\ 2^(m - 1) \in Nat \ {0} /\ 2^k = 2 * 2^(k - 1) /\ 2^(k - 1) \in Nat \ {0}
    BY <1>1, PowerNext
<1>5. 2^(m + k) = 2 * Half /\ 2^(m - 1 + k) = Half
    BY <1>1, HalfLemma DEF Splits, Half
<1> QED
    BY <1>2, <1>3, <1>4, <1>5

LEMMA UpDownLow ==
    ASSUME NEW u \in Int, NEW m, NEW k, Splits(m, k)
    PROVE  Low(XLEN, Sext(XLEN, u * 2^k)) \div 2^k = Low(m, u)
<1> DEFINE p == 2^k
           q == 2^m
<1>1. p \in Nat \ {0} /\ q \in Nat \ {0} /\ q * p = 2^XLEN
    BY SplitPowers, HalfLemma
<1>2. Low(m, u) = u % q
    BY DEF Low
<1>3. \A v : Low(XLEN, v) = v % (q * p)
    BY <1>1 DEF Low
<1> HIDE DEF p, q
<1>4. u * p \in Int
    BY <1>1
<1>5. Low(XLEN, Sext(XLEN, u * p)) = (u * p) % (q * p)
    BY <1>3, <1>4, LowSext
<1>6. (u * p) % (q * p) = (u % q) * p
    BY <1>1, TimesMod
<1>7. u % q \in Int
    BY <1>1
<1>8. ((u % q) * p) \div p = u % q
    BY <1>1, <1>7, DivTimes
<1> QED
    BY <1>2, <1>5, <1>6, <1>8 DEF p

LEMMA UpDownSext ==
    ASSUME NEW u \in Int, NEW m, NEW k, Splits(m, k)
    PROVE  Sext(XLEN, u * 2^k) \div 2^k = Sext(m, u)
<1> DEFINE p == 2^k
           q == 2^m
           h == 2^(m - 1)
<1>1. /\ p \in Nat \ {0} /\ q \in Nat \ {0} /\ h \in Nat \ {0}
      /\ q * p = 2 * Half /\ h * p = Half
    BY SplitPowers
<1>2. Sext(m, u) = ((u + h) % q) - h
    BY DEF Sext
<1>3. Sext(XLEN, u * p) = ((u * p + h * p) % (q * p)) - h * p
    BY <1>1, HalfLemma DEF Sext, Half
<1> HIDE DEF p, q, h
<1>4. u * p + h * p = (u + h) * p /\ u + h \in Int
    BY <1>1
<1>5. ((u + h) * p) % (q * p) = ((u + h) % q) * p
    BY <1>1, <1>4, TimesMod
<1> DEFINE e == (u + h) % q
<1>6. e \in Int
    BY <1>1, <1>4
<1>7. Sext(XLEN, u * p) = e * p - h * p
    BY <1>3, <1>4, <1>5
<1>8. Sext(m, u) = e - h
    BY <1>2
<1> HIDE DEF e
<1>9. e * p - h * p = (e - h) * p /\ e - h \in Int
    BY <1>1, <1>6
<1>10. ((e - h) * p) \div p = e - h
    BY <1>1, <1>9, DivTimes
<1> QED
    BY <1>7, <1>8, <1>9, <1>10 DEF p

-------------------------------------------------------------------------------
(* Conjunctions bit by bit.                                                *)

\* A bit is 0 or 1.
LEMMA BitIs ==
    ASSUME NEW u \in Int, NEW i \in 0 .. XLEN - 1
    PROVE  /\ 2^i \in Nat \ {0} /\ 2^(i + 1) = 2 * 2^i
           /\ u \div 2^i \in Int /\ Bit(u, i) \in {0, 1}
           /\ u \div 2^(i + 1) \in Int
           /\ u \div 2^i = 2 * (u \div 2^(i + 1)) + Bit(u, i)
<1>1. 2^i \in Nat \ {0} /\ 2^(i + 1) = 2 * 2^i
    BY PowerAssumption
<1> QED
    BY <1>1, QuotientHalves DEF Bit

\* What holds of the top bit alone and is kept from bit to bit holds of the whole.
TopOf(u, v) == Bit(u, XLEN - 1) * Bit(v, XLEN - 1) * 2^(XLEN - 1)
KeptDown(u, v, S) ==
    \A i \in 0 .. XLEN - 2 : \A w :
        <<i + 1, w>> \in S => <<i, Bit(u, i) * Bit(v, i) * 2^i + w>> \in S
LEMMA AndFold ==
    ASSUME NEW u \in Int, NEW v \in Int, NEW S, <<XLEN - 1, TopOf(u, v)>> \in S, KeptDown(u, v, S)
    PROVE  \E w : <<0, w>> \in S /\ BitAnd(u, v) = Sext(XLEN, w)
<1> DEFINE N == XLEN - 1
<1>0. N \in Nat /\ N - 1 = XLEN - 2 /\ XLEN \in Nat /\ N \in 0 .. XLEN - 1 /\ 0 \in 0 .. N
    BY HalfLemma
<1>1. PICK f : /\ \A i \in 0 .. XLEN - 1 :
                    f[i] = Bit(u, i) * Bit(v, i) * 2^i + (IF i = XLEN - 1 THEN 0 ELSE f[i + 1])
               /\ BitAnd(u, v) = Sext(XLEN, f[0])
    BY AndIs
<1> DEFINE T == {k \in Nat : k <= N => <<N - k, f[N - k]>> \in S}
<1>2. f[N] = TopOf(u, v)
    <2>1. f[N] = TopOf(u, v) + 0
        BY <1>0, <1>1 DEF TopOf
    <2>2. TopOf(u, v) \in Int
        <3>1. Bit(u, N) \in {0, 1} /\ Bit(v, N) \in {0, 1} /\ 2^N \in Nat
            BY <1>0, BitIs
        <3> DEFINE x == Bit(u, N)
                   y == Bit(v, N)
                   z == 2^N
        <3>2. TopOf(u, v) = x * y * z /\ x \in Int /\ y \in Int /\ z \in Int
            BY <3>1 DEF TopOf
        <3> HIDE DEF x, y, z
        <3> QED
            BY <3>2
    <2> QED
        BY <2>1, <2>2
<1>3. ASSUME NEW k \in Nat, \A j \in Nat : j < k => j \in T
      PROVE  k \in T
    <2> SUFFICES ASSUME k <= N
                 PROVE  <<N - k, f[N - k]>> \in S
        OBVIOUS
    <2>1. CASE k = 0
        <3>1. N - k = N
            BY <1>0, <2>1
        <3> QED
            BY <1>2, <3>1
    <2>2. CASE k # 0
        <3>1. k - 1 \in Nat /\ k - 1 < k /\ k - 1 <= N
            BY <1>0, <2>2
        <3>2. /\ N - k \in 0 .. N /\ N - k \in 0 .. N - 1 /\ N - k # N
              /\ N - (k - 1) = N - k + 1
            BY <1>0, <2>2
        <3>3. <<N - k + 1, f[N - k + 1]>> \in S
            BY <1>3, <3>1, <3>2
        <3> DEFINE i == N - k
        <3>4. f[i] = Bit(u, i) * Bit(v, i) * 2^i + f[i + 1]
            BY <1>1, <3>2
        <3>5. i \in 0 .. XLEN - 2 /\ <<i + 1, f[i + 1]>> \in S
            BY <1>0, <3>2, <3>3
        <3> HIDE DEF i, N
        <3>6. <<i, Bit(u, i) * Bit(v, i) * 2^i + f[i + 1]>> \in S
            BY <3>5 DEF KeptDown
        <3>7. <<i, f[i]>> \in S
            BY <3>4, <3>6
        <3> QED
            BY <3>7 DEF i
    <2> QED
        BY <2>1, <2>2
<1>4. Nat \subseteq T
    <2> HIDE DEF T
    <2> QED
        BY <1>3, SetInduction
<1>5. N \in Nat /\ N <= N /\ N - N = 0
    BY <1>0
<1>6. <<0, f[0]>> \in S
    <2>1. N \in T
        BY <1>4, <1>5
    <2>2. <<N - N, f[N - N]>> \in S
        BY <1>5, <2>1
    <2> QED
        BY <1>5, <2>2
<1> QED
    BY <1>1, <1>6

\* The order of the two makes no difference.
LEMMA AndSwap ==
    ASSUME NEW u \in Int, NEW v \in Int
    PROVE  BitAnd(u, v) = BitAnd(v, u)
<1>1. PICK f : /\ \A i \in 0 .. XLEN - 1 :
                    f[i] = Bit(v, i) * Bit(u, i) * 2^i + (IF i = XLEN - 1 THEN 0 ELSE f[i + 1])
               /\ BitAnd(v, u) = Sext(XLEN, f[0])
    BY AndIs
<1> DEFINE S == {z \in (0 .. XLEN - 1) \X {f[i] : i \in 0 .. XLEN - 1} : z[2] = f[z[1]]}
<1>2. \A i \in 0 .. XLEN - 1 : \A w : <<i, w>> \in S <=> w = f[i]
    OBVIOUS
<1>3. \A i \in 0 .. XLEN - 1 : Bit(u, i) * Bit(v, i) = Bit(v, i) * Bit(u, i)
    <2> SUFFICES ASSUME NEW i \in 0 .. XLEN - 1
                 PROVE  Bit(u, i) * Bit(v, i) = Bit(v, i) * Bit(u, i)
        OBVIOUS
    <2>1. Bit(u, i) \in {0, 1} /\ Bit(v, i) \in {0, 1}
        BY BitIs
    <2> QED
        BY <2>1
<1>4. XLEN - 1 \in 0 .. XLEN - 1 /\ 0 \in 0 .. XLEN - 1
    BY HalfLemma
<1> HIDE DEF S
<1>5. f[XLEN - 1] = TopOf(u, v)
    <2> DEFINE i == XLEN - 1
    <2>1. f[i] = Bit(u, i) * Bit(v, i) * 2^i + 0
        BY <1>1, <1>3, <1>4
    <2>2. Bit(u, i) \in {0, 1} /\ Bit(v, i) \in {0, 1} /\ 2^i \in Nat
        BY <1>4, BitIs
    <2> DEFINE x == Bit(u, i)
               y == Bit(v, i)
               z == 2^i
    <2>3. f[i] = x * y * z + 0 /\ x \in Int /\ y \in Int /\ z \in Int /\ TopOf(u, v) = x * y * z
        BY <2>1, <2>2 DEF TopOf
    <2> HIDE DEF x, y, z
    <2> QED
        BY <2>3
<1>6. <<XLEN - 1, TopOf(u, v)>> \in S
    BY <1>2, <1>4, <1>5
<1>7. KeptDown(u, v, S)
    <2> SUFFICES ASSUME NEW i \in 0 .. XLEN - 2, NEW w, <<i + 1, w>> \in S
                 PROVE  <<i, Bit(u, i) * Bit(v, i) * 2^i + w>> \in S
        BY DEF KeptDown
    <2>1. i \in 0 .. XLEN - 1 /\ i + 1 \in 0 .. XLEN - 1 /\ i # XLEN - 1
        BY HalfLemma
    <2>2. w = f[i + 1]
        BY <1>2, <2>1
    <2>3. f[i] = Bit(u, i) * Bit(v, i) * 2^i + w
        BY <1>1, <1>3, <2>1, <2>2
    <2> QED
        BY <1>2, <2>1, <2>3
<1>8. \E w : <<0, w>> \in S /\ BitAnd(u, v) = Sext(XLEN, w)
    BY <1>6, <1>7, AndFold
<1> QED
    BY <1>1, <1>2, <1>4, <1>8

\* All of u, where v has every bit that u has.
Covers(u, v) == \A i \in 0 .. XLEN - 1 : Bit(u, i) * Bit(v, i) = Bit(u, i)
Rest(u) == IF u < 0 THEN 2 * Half ELSE 0
LEMMA RestTop ==
    ASSUME NEW u \in Words
    PROVE  Bit(u, XLEN - 1) * 2^(XLEN - 1) = 2^(XLEN - 1) * (u \div 2^(XLEN - 1)) + Rest(u)
<1>1. Half \in Nat /\ u \in Int
    BY HalfLemma
<1>2. Bit(u, XLEN - 1) * Half = Half * (u \div Half) + Rest(u)
    <2>1. CASE u < 0
        <3>1. Bit(u, XLEN - 1) = 1 /\ u \div Half = -1 /\ Rest(u) = 2 * Half
            BY <2>1, TopBit DEF Rest
        <3> QED
            BY <1>1, <3>1
    <2>2. CASE ~(u < 0)
        <3>1. Bit(u, XLEN - 1) = 0 /\ u \div Half = 0 /\ Rest(u) = 0
            BY <2>2, TopBit DEF Rest
        <3> QED
            BY <1>1, <3>1
    <2> QED
        BY <2>1, <2>2
<1> QED
    BY <1>2 DEF Half
LEMMA RestDown ==
    ASSUME NEW u \in Int, NEW i \in 0 .. XLEN - 2
    PROVE  Bit(u, i) * 2^i + 2^(i + 1) * (u \div 2^(i + 1)) = 2^i * (u \div 2^i)
<1>1. i \in 0 .. XLEN - 1
    BY HalfLemma
<1> DEFINE p == 2^i
           q == u \div 2^(i + 1)
           b == Bit(u, i)
<1>2. p \in Nat /\ 2^(i + 1) = 2 * p /\ q \in Int /\ b \in {0, 1} /\ u \div p = 2 * q + b
    BY <1>1, BitIs
<1> HIDE DEF p, q, b
<1>3. b * p + (2 * p) * q = p * (2 * q + b)
    <2>1. CASE b = 0
        <3>1. (2 * p) * q = p * (2 * q) /\ 2 * q + 0 = 2 * q /\ 0 * p = 0
            BY <1>2
        <3>2. p * (2 * q) \in Int
            BY <1>2
        <3> QED
            BY <2>1, <3>1, <3>2
    <2>2. CASE b = 1
        <3>1. (2 * p) * q = p * (2 * q) /\ p * (2 * q + 1) = p * (2 * q) + p /\ 1 * p = p
            BY <1>2
        <3>2. p * (2 * q) \in Int
            BY <1>2
        <3> QED
            BY <1>2, <2>2, <3>1, <3>2
    <2> QED
        BY <1>2, <2>1, <2>2
<1> QED
    BY <1>2, <1>3 DEF p, q, b
LEMMA RestWhole ==
    ASSUME NEW u \in Words
    PROVE  /\ 2^0 * (u \div 2^0) = u
           /\ Sext(XLEN, u + Rest(u)) = u /\ Rest(u) \in Int
<1>1. 2^0 = 1 /\ u \in Int /\ Half \in Nat
    BY HalfLemma
<1>2. u = u * 1 + 0 /\ 1 \in Nat \ {0} /\ 0 \in 0 .. 1 - 1
    BY <1>1
<1>3. u \div 1 = u
    BY <1>1, <1>2, QuotientIs
<1>4. 1 * u = u
    BY <1>1
<1>5. Sext(XLEN, u + Rest(u)) = u
    <2>1. Rest(u) = (IF u < 0 THEN 1 ELSE 0) * (2 * Half)
        BY <1>1 DEF Rest
    <2>2. Sext(XLEN, u + (IF u < 0 THEN 1 ELSE 0) * (2 * Half)) = Sext(XLEN, u)
        <3> DEFINE t == IF u < 0 THEN 1 ELSE 0
        <3>1. t \in Int
            OBVIOUS
        <3> HIDE DEF t
        <3>2. Sext(XLEN, u + t * (2 * Half)) = Sext(XLEN, u)
            BY <1>1, <3>1, SextPast
        <3> QED
            BY <3>2 DEF t
    <2>3. Sext(XLEN, u) = u
        BY SextOwn
    <2> QED
        BY <2>1, <2>2, <2>3
<1> QED
    BY <1>1, <1>3, <1>4, <1>5 DEF Rest

\* The partial sums that AndFold follows for a u that v covers, and past those of f.
LEMMA AndCovers ==
    ASSUME NEW u \in Words, NEW v \in Int, Covers(u, v)
    PROVE  BitAnd(u, v) = u
<1>0. XLEN \in Nat /\ XLEN - 1 \in 0 .. XLEN - 1 /\ u \in Int
    BY HalfLemma
<1> DEFINE S == {z \in (0 .. XLEN - 1) \X Int : z[2] = 2^(z[1]) * (u \div 2^(z[1])) + Rest(u)}
<1>1. ASSUME NEW i \in 0 .. XLEN - 1
      PROVE  /\ 2^i * (u \div 2^i) + Rest(u) \in Int
             /\ \A w : <<i, w>> \in S <=> w = 2^i * (u \div 2^i) + Rest(u)
    <2>1. 2^i \in Nat /\ u \div 2^i \in Int /\ Rest(u) \in Int
        BY <1>0, BitIs, RestWhole
    <2>2. 2^i * (u \div 2^i) + Rest(u) \in Int
        <3> DEFINE x == 2^i
                   y == u \div 2^i
        <3>1. x \in Int /\ y \in Int
            BY <2>1
        <3> HIDE DEF x, y
        <3>2. x * y + Rest(u) \in Int
            BY <2>1, <3>1
        <3> QED
            BY <3>2 DEF x, y
    <2> QED
        BY <2>2
<1> HIDE DEF S
<1>2. <<XLEN - 1, TopOf(u, v)>> \in S
    <2>1. TopOf(u, v) = Bit(u, XLEN - 1) * 2^(XLEN - 1)
        BY <1>0 DEF TopOf, Covers
    <2> QED
        BY <1>0, <1>1, <2>1, RestTop
<1>3. KeptDown(u, v, S)
    <2> SUFFICES ASSUME NEW i \in 0 .. XLEN - 2, NEW w, <<i + 1, w>> \in S
                 PROVE  <<i, Bit(u, i) * Bit(v, i) * 2^i + w>> \in S
        BY DEF KeptDown
    <2>1. i \in 0 .. XLEN - 1 /\ i + 1 \in 0 .. XLEN - 1
        BY <1>0
    <2>2. w = 2^(i + 1) * (u \div 2^(i + 1)) + Rest(u)
        BY <1>1, <2>1
    <2>3. Bit(u, i) * Bit(v, i) = Bit(u, i)
        BY <2>1 DEF Covers
    <2>4. Bit(u, i) * 2^i + 2^(i + 1) * (u \div 2^(i + 1)) = 2^i * (u \div 2^i)
        BY <1>0, RestDown
    <2> DEFINE x == Bit(u, i) * 2^i
               y == 2^(i + 1) * (u \div 2^(i + 1))
               z == 2^i * (u \div 2^i)
    <2>5. x \in Int /\ y \in Int /\ z \in Int /\ Rest(u) \in Int
        <3>1. 2^i \in Nat /\ u \div 2^i \in Int /\ Bit(u, i) \in {0, 1} /\ 2^(i + 1) \in Nat
              /\ u \div 2^(i + 1) \in Int
            BY <1>0, <2>1, BitIs
        <3> DEFINE p == 2^i
                   q == 2^(i + 1)
                   d == u \div 2^i
                   e == u \div 2^(i + 1)
                   b == Bit(u, i)
        <3>2. p \in Int /\ q \in Int /\ d \in Int /\ e \in Int /\ b \in Int
            BY <3>1
        <3>3. x = b * p /\ y = q * e /\ z = p * d
            OBVIOUS
        <3> HIDE DEF p, q, d, e, b, x, y, z
        <3> QED
            BY <1>0, <3>2, <3>3, RestWhole
    <2>6. x + (y + Rest(u)) = z + Rest(u)
        <3> HIDE DEF x, y, z
        <3>1. x + y = z
            BY <2>4 DEF x, y, z
        <3> QED
            BY <2>5, <3>1
    <2>7. Bit(u, i) * Bit(v, i) * 2^i + w = 2^i * (u \div 2^i) + Rest(u)
        BY <2>2, <2>3, <2>6
    <2> QED
        BY <1>1, <2>1, <2>7
<1>4. PICK w : <<0, w>> \in S /\ BitAnd(u, v) = Sext(XLEN, w)
    BY <1>0, <1>2, <1>3, AndFold
<1>5. 0 \in 0 .. XLEN - 1
    BY <1>0
<1>6. w = 2^0 * (u \div 2^0) + Rest(u)
    BY <1>1, <1>4, <1>5
<1>7. w = u + Rest(u)
    BY <1>6, RestWhole
<1> QED
    BY <1>4, <1>7, RestWhole

\* Every bit of -1 is set, and every bit of Not the other way around.
LEMMA NotBits ==
    ASSUME NEW v \in Int, NEW i \in 0 .. XLEN - 1
    PROVE  Bit(Not(v), i) = 1 - Bit(v, i)
<1> DEFINE p == 2^i
           d == v \div p
           e == v % p
<1>1. p \in Nat \ {0}
    BY BitIs
<1>2. Bit(Not(v), i) = ((-1 - v) \div p) % 2 /\ Bit(v, i) = d % 2
    BY DEF Bit, Not
<1> HIDE DEF p
<1>3. d \in Int /\ e \in 0 .. p - 1 /\ v = d * p + e
    BY <1>1
<1> HIDE DEF d, e
<1>4. -1 - v = (-1 - d) * p + (p - 1 - e) /\ p - 1 - e \in 0 .. p - 1
    <2>1. (-1 - d) * p = -p - d * p /\ d * p \in Int
        BY <1>1, <1>3
    <2> QED
        BY <1>1, <1>3, <2>1
<1>5. (-1 - v) \div p = -1 - d
    <2>1. -1 - v \in Int /\ -1 - d \in Int
        BY <1>3
    <2> QED
        BY <1>1, <1>4, <2>1, QuotientIs
<1>6. (-1 - d) % 2 = 1 - (d % 2)
    BY <1>3
<1> QED
    BY <1>2, <1>5, <1>6

LEMMA OnesBits ==
    ASSUME NEW i \in 0 .. XLEN - 1
    PROVE  Bit(-1, i) = 1
<1>1. Not(0) = -1
    BY DEF Not
<1>2. Bit(0, i) = 0
    <2>1. 2^i \in Nat \ {0}
        BY BitIs
    <2> DEFINE p == 2^i
    <2>2. p \in Nat \ {0}
        BY <2>1
    <2> HIDE DEF p
    <2>3. 0 = 0 * p + 0 /\ 0 \in 0 .. p - 1
        BY <2>2
    <2>4. 0 \div p = 0
        BY <2>2, <2>3, QuotientIs
    <2>5. Bit(0, i) = (0 \div p) % 2
        BY DEF Bit, p
    <2>6. 0 % 2 = 0
        OBVIOUS
    <2> QED
        BY <2>4, <2>5, <2>6
<1> QED
    BY <1>1, <1>2, NotBits

LEMMA AndOnes ==
    ASSUME NEW u \in Words
    PROVE  BitAnd(u, -1) = u /\ BitAnd(u, u) = u
<1>1. u \in Int
    BY HalfLemma
<1>2. \A i \in 0 .. XLEN - 1 : Bit(u, i) \in {0, 1} /\ Bit(-1, i) = 1
    BY <1>1, BitIs, OnesBits
<1>3. Covers(u, -1) /\ Covers(u, u)
    <2> SUFFICES ASSUME NEW i \in 0 .. XLEN - 1
                 PROVE  Bit(u, i) * Bit(-1, i) = Bit(u, i) /\ Bit(u, i) * Bit(u, i) = Bit(u, i)
        BY DEF Covers
    <2>1. Bit(u, i) \in {0, 1} /\ Bit(-1, i) = 1
        BY <1>2
    <2> DEFINE b == Bit(u, i)
    <2>2. b \in {0, 1}
        BY <2>1
    <2> HIDE DEF b
    <2>3. b * 1 = b /\ b * b = b
        BY <2>2
    <2> QED
        BY <2>1, <2>3 DEF b
<1> QED
    BY <1>1, <1>3, AndCovers

\* What u has beside v is what it has less what it has with v.
LEMMA AndNot ==
    ASSUME NEW u \in Words, NEW v \in Int
    PROVE  BitAnd(u, Not(v)) = Sext(XLEN, u - BitAnd(u, v))
<1>0. XLEN \in Nat /\ XLEN - 1 \in 0 .. XLEN - 1 /\ u \in Int /\ Not(v) \in Int /\ 0 \in 0 .. XLEN - 1
    BY HalfLemma DEF Not
<1>1. PICK f : /\ \A i \in 0 .. XLEN - 1 :
                    f[i] = Bit(u, i) * Bit(v, i) * 2^i + (IF i = XLEN - 1 THEN 0 ELSE f[i + 1])
               /\ BitAnd(u, v) = Sext(XLEN, f[0])
    BY AndIs
<1> DEFINE F(i) == 2^i * (u \div 2^i) + Rest(u)
           S == {z \in (0 .. XLEN - 1) \X Int : f[z[1]] \in Int /\ z[2] + f[z[1]] = F(z[1])}
<1>2. \A i \in 0 .. XLEN - 1 : \A w :
        <<i, w>> \in S <=> w \in Int /\ f[i] \in Int /\ w + f[i] = F(i)
    OBVIOUS
<1> HIDE DEF S
<1>3. ASSUME NEW i \in 0 .. XLEN - 1
      PROVE  /\ Bit(u, i) * Bit(v, i) * 2^i \in Int /\ Bit(u, i) * Bit(Not(v), i) * 2^i \in Int
             /\ Bit(u, i) * 2^i \in Int
             /\ Bit(u, i) * Bit(Not(v), i) * 2^i + Bit(u, i) * Bit(v, i) * 2^i = Bit(u, i) * 2^i
    <2>1. Bit(Not(v), i) = 1 - Bit(v, i) /\ Bit(u, i) \in {0, 1} /\ Bit(v, i) \in {0, 1} /\ 2^i \in Nat
        BY <1>0, NotBits, BitIs
    <2> DEFINE x == Bit(u, i)
               y == Bit(v, i)
               n == Bit(Not(v), i)
               p == 2^i
    <2>2. n = 1 - y /\ x \in {0, 1} /\ y \in {0, 1} /\ p \in Nat
        BY <2>1
    <2> HIDE DEF x, y, p, n
    <2>3. x * y * p \in Int /\ x * n * p \in Int /\ x * p \in Int /\ x * n * p + x * y * p = x * p
        BY <2>2
    <2> QED
        BY <2>3 DEF x, y, p, n
<1>4. <<XLEN - 1, TopOf(u, Not(v))>> \in S
    <2> DEFINE i == XLEN - 1
    <2>1. f[i] = Bit(u, i) * Bit(v, i) * 2^i + 0
        BY <1>0, <1>1
    <2>2. Bit(u, i) * 2^i = F(i)
        BY RestTop
    <2>3. TopOf(u, Not(v)) = Bit(u, i) * Bit(Not(v), i) * 2^i
        BY DEF TopOf
    <2>4. i \in 0 .. XLEN - 1
        BY <1>0
    <2> HIDE DEF i, F
    <2>5. f[i] = Bit(u, i) * Bit(v, i) * 2^i
        BY <1>3, <2>1, <2>4
    <2>6. <<i, TopOf(u, Not(v))>> \in S
        BY <1>2, <1>3, <2>2, <2>3, <2>4, <2>5
    <2> QED
        BY <2>6 DEF i
<1>5. KeptDown(u, Not(v), S)
    <2> SUFFICES ASSUME NEW i \in 0 .. XLEN - 2, NEW w, <<i + 1, w>> \in S
                 PROVE  <<i, Bit(u, i) * Bit(Not(v), i) * 2^i + w>> \in S
        BY DEF KeptDown
    <2>1. i \in 0 .. XLEN - 1 /\ i + 1 \in 0 .. XLEN - 1 /\ i # XLEN - 1
        BY <1>0
    <2>2. w \in Int /\ f[i + 1] \in Int /\ w + f[i + 1] = F(i + 1)
        BY <1>2, <2>1
    <2>3. f[i] = Bit(u, i) * Bit(v, i) * 2^i + f[i + 1]
        BY <1>1, <2>1
    <2>4. Bit(u, i) * 2^i + 2^(i + 1) * (u \div 2^(i + 1)) = 2^i * (u \div 2^i)
        BY <1>0, RestDown
    <2>5. Bit(u, i) * 2^i + F(i + 1) = F(i)
        <3> DEFINE x == Bit(u, i) * 2^i
                   y == 2^(i + 1) * (u \div 2^(i + 1))
                   z == 2^i * (u \div 2^i)
        <3>1. x \in Int /\ Rest(u) \in Int
            BY <1>3, <2>1, RestWhole
        <3>2. y \in Int
            <4> DEFINE a == 2^(i + 1)
                       b == u \div 2^(i + 1)
            <4>1. a \in Int /\ b \in Int /\ y = a * b
                BY <1>0, <2>1, BitIs
            <4> HIDE DEF a, b, y
            <4> QED
                BY <4>1
        <3>3. x + y = z
            BY <2>4
        <3> HIDE DEF x, y, z
        <3>4. x + (y + Rest(u)) = z + Rest(u)
            BY <3>1, <3>2, <3>3
        <3> QED
            BY <3>4 DEF x, y, z
    <2> HIDE DEF F
    <2> DEFINE x == Bit(u, i) * Bit(Not(v), i) * 2^i
               y == Bit(u, i) * Bit(v, i) * 2^i
               z == Bit(u, i) * 2^i
    <2>6. x \in Int /\ y \in Int /\ z \in Int /\ x + y = z
        BY <1>3, <2>1
    <2>7. f[i] = y + f[i + 1] /\ z + F(i + 1) = F(i)
        BY <2>3, <2>5
    <2> HIDE DEF x, y, z
    <2>8. x + w \in Int /\ f[i] \in Int /\ x + w + f[i] = F(i)
        BY <2>2, <2>6, <2>7
    <2> QED
        BY <1>2, <2>1, <2>8 DEF x
<1>6. PICK w : <<0, w>> \in S /\ BitAnd(u, Not(v)) = Sext(XLEN, w)
    BY <1>0, <1>4, <1>5, AndFold
<1>7. w \in Int /\ f[0] \in Int /\ w + f[0] = u + Rest(u) /\ Rest(u) \in Int
    BY <1>0, <1>2, <1>6, RestWhole
<1>8. w = u + Rest(u) - f[0]
    BY <1>0, <1>7
<1>9. PICK t \in Int : BitAnd(u, v) = f[0] + t * (2 * Half)
    BY <1>1, <1>7, SextIs
<1>10. PICK e \in Int : Rest(u) = e * (2 * Half)
    <2>1. Rest(u) = (IF u < 0 THEN 1 ELSE 0) * (2 * Half)
        BY HalfLemma DEF Rest
    <2> QED
        BY <2>1
<1>11. w = u - BitAnd(u, v) + (e + t) * (2 * Half)
    <2> DEFINE M == 2 * Half
    <2>1. M \in Int
        BY HalfLemma
    <2> HIDE DEF M
    <2>2. (e + t) * M = e * M + t * M /\ e * M \in Int /\ t * M \in Int
        BY <2>1
    <2>3. Rest(u) = e * M /\ BitAnd(u, v) = f[0] + t * M
        BY <1>9, <1>10 DEF M
    <2>4. w = u - BitAnd(u, v) + (e + t) * M
        BY <1>0, <1>7, <1>8, <2>2, <2>3
    <2> QED
        BY <2>4 DEF M
<1>12. BitAnd(u, v) \in Int /\ e + t \in Int
    <2>1. BitAnd(u, v) \in Words
        BY <1>1, <1>7, SextWord
    <2>2. BitAnd(u, v) \in Int
        BY <2>1, HalfLemma
    <2> QED
        BY <2>2
<1>13. Sext(XLEN, u - BitAnd(u, v) + (e + t) * (2 * Half)) = Sext(XLEN, u - BitAnd(u, v))
    <2>1. u - BitAnd(u, v) \in Int
        BY <1>0, <1>12
    <2> QED
        BY <1>12, <2>1, SextPast
<1> QED
    BY <1>6, <1>11, <1>13

LEMMA AndWord ==
    ASSUME NEW u \in Int, NEW v \in Int
    PROVE  BitAnd(u, v) \in Words /\ BitAnd(u, v) \in Int
<1> DEFINE S == (0 .. XLEN - 1) \X Int
<1>0. XLEN \in Nat /\ XLEN - 1 \in 0 .. XLEN - 1
    BY HalfLemma
<1>1. ASSUME NEW i \in 0 .. XLEN - 1
      PROVE  Bit(u, i) * Bit(v, i) * 2^i \in Int
    <2>1. Bit(u, i) \in {0, 1} /\ Bit(v, i) \in {0, 1} /\ 2^i \in Nat
        BY BitIs
    <2> DEFINE x == Bit(u, i)
               y == Bit(v, i)
               p == 2^i
    <2>2. x \in {0, 1} /\ y \in {0, 1} /\ p \in Nat
        BY <2>1
    <2> HIDE DEF x, y, p
    <2>3. x * y * p \in Int
        BY <2>2
    <2> QED
        BY <2>3 DEF x, y, p
<1>2. <<XLEN - 1, TopOf(u, v)>> \in S
    BY <1>0, <1>1 DEF TopOf
<1>3. KeptDown(u, v, S)
    <2> SUFFICES ASSUME NEW i \in 0 .. XLEN - 2, NEW w, <<i + 1, w>> \in S
                 PROVE  <<i, Bit(u, i) * Bit(v, i) * 2^i + w>> \in S
        BY DEF KeptDown
    <2>1. i \in 0 .. XLEN - 1 /\ w \in Int
        BY <1>0
    <2> QED
        BY <1>1, <2>1
<1> HIDE DEF S
<1>4. PICK w : <<0, w>> \in S /\ BitAnd(u, v) = Sext(XLEN, w)
    BY <1>2, <1>3, AndFold
<1>5. w \in Int
    BY <1>4 DEF S
<1>6. BitAnd(u, v) \in Words
    BY <1>4, <1>5, SextWord
<1> QED
    BY <1>6, HalfLemma

\* The bits of 2^m - 1 are the low m.
LEMMA BitsOfMask ==
    ASSUME NEW m \in 0 .. XLEN - 1, NEW i \in 0 .. XLEN - 1
    PROVE  Bit(2^m - 1, i) = (IF i < m THEN 1 ELSE 0)
<1>0. XLEN \in Nat /\ m \in Nat /\ i \in Nat /\ m <= XLEN /\ i <= XLEN /\ m \in 0 .. XLEN
    BY HalfLemma
<1> DEFINE p == 2^i
           q == 2^m
<1>1. p \in Nat \ {0} /\ q \in Nat \ {0}
    BY <1>0, BitIs, PowerIs
<1>2. Bit(2^m - 1, i) = ((q - 1) \div p) % 2
    BY DEF Bit
<1>3. CASE i >= m
    <2>1. q <= p
        BY <1>0, <1>3, PowerUpTo
    <2> HIDE DEF p, q
    <2>2. q - 1 = 0 * p + (q - 1) /\ q - 1 \in 0 .. p - 1 /\ q - 1 \in Int
        BY <1>1, <2>1
    <2>3. (q - 1) \div p = 0
        BY <1>1, <2>2, QuotientIs
    <2>4. 0 % 2 = 0
        OBVIOUS
    <2> QED
        BY <1>0, <1>2, <1>3, <2>3, <2>4
<1>4. CASE i < m
    <2>1. m - i \in Nat /\ m - i \in 1 .. XLEN /\ m - i + i = m /\ m - i + i <= XLEN
        BY <1>0, <1>4
    <2>2. 2^m = 2^(m - i) * 2^i
        <3> DEFINE n == m - i
        <3>1. n \in Nat /\ n + i = m /\ n + i <= XLEN
            BY <2>1
        <3> HIDE DEF n
        <3>2. 2^(n + i) = 2^n * 2^i
            BY <1>0, <3>1, PowerSum
        <3> QED
            BY <3>1, <3>2 DEF n
    <2>3. 2^(m - i) = 2 * 2^(m - i - 1) /\ 2^(m - i - 1) \in Nat \ {0}
        BY <2>1, PowerNext
    <2> DEFINE h == 2^(m - i - 1)
    <2>4. h \in Nat \ {0} /\ q = (2 * h) * p
        BY <2>2, <2>3
    <2> HIDE DEF p, q, h
    <2>5. q - 1 = (2 * h - 1) * p + (p - 1) /\ p - 1 \in 0 .. p - 1 /\ q - 1 \in Int /\ 2 * h - 1 \in Int
        <3>1. (2 * h - 1) * p = (2 * h) * p - p /\ (2 * h) * p \in Int
            BY <1>1, <2>4
        <3> QED
            BY <1>1, <2>4, <3>1
    <2>6. (q - 1) \div p = 2 * h - 1
        BY <1>1, <2>5, QuotientIs
    <2>7. (2 * h - 1) % 2 = 1
        BY <2>4
    <2> QED
        BY <1>2, <1>4, <2>6, <2>7
<1> QED
    BY <1>0, <1>3, <1>4

\* A mask of the low m bits takes those.
LEMMA AndMask ==
    ASSUME NEW u \in Int, NEW m \in 0 .. XLEN - 1
    PROVE  BitAnd(u, 2^m - 1) = Low(m, u)
<1>0. XLEN \in Nat /\ XLEN - 1 \in 0 .. XLEN - 1 /\ 0 \in 0 .. XLEN - 1 /\ m \in Int
    BY HalfLemma
<1> DEFINE v == 2^m - 1
           P == 2^m * (u \div 2^m)
           F(i) == IF i >= m THEN 0 ELSE 2^i * (u \div 2^i) - P
           S == {z \in (0 .. XLEN - 1) \X Int : z[2] = F(z[1])}
<1>1. ASSUME NEW i \in 0 .. XLEN - 1
      PROVE  2^i * (u \div 2^i) \in Int /\ 2^i \in Nat
    <2> DEFINE x == 2^i
               y == u \div 2^i
    <2>1. x \in Int /\ y \in Int /\ 2^i \in Nat
        BY BitIs
    <2> HIDE DEF x, y
    <2>2. x * y \in Int
        BY <2>1
    <2> QED
        BY <2>1, <2>2 DEF x, y
<1>2. P \in Int /\ v \in Int
    BY <1>1
<1>3. \A i \in 0 .. XLEN - 1 : Bit(v, i) = (IF i < m THEN 1 ELSE 0)
    BY BitsOfMask
<1>4. \A i \in 0 .. XLEN - 1 : Bit(u, i) \in {0, 1}
    BY BitIs
<1> HIDE DEF v, P
<1>5. \A i \in 0 .. XLEN - 1 : \A w : <<i, w>> \in S <=> w = F(i)
    <2>1. \A i \in 0 .. XLEN - 1 : F(i) \in Int
        BY <1>1, <1>2
    <2> HIDE DEF F
    <2> QED
        BY <2>1
<1> HIDE DEF S
<1>6. <<XLEN - 1, TopOf(u, v)>> \in S
    <2> DEFINE i == XLEN - 1
    <2>1. Bit(v, i) = 0 /\ Bit(u, i) \in {0, 1} /\ 2^i \in Nat /\ i >= m
        BY <1>0, <1>1, <1>3, <1>4
    <2>2. TopOf(u, v) = Bit(u, i) * Bit(v, i) * 2^i
        BY DEF TopOf
    <2> DEFINE x == Bit(u, i)
               p == 2^i
    <2>3. x \in {0, 1} /\ p \in Nat /\ TopOf(u, v) = x * 0 * p
        BY <2>1, <2>2
    <2> HIDE DEF x, p
    <2>4. TopOf(u, v) = 0
        BY <2>3
    <2>5. TopOf(u, v) = F(i)
        BY <2>1, <2>4
    <2> HIDE DEF F
    <2> QED
        BY <1>0, <1>5, <2>5
<1>7. KeptDown(u, v, S)
    <2> SUFFICES ASSUME NEW i \in 0 .. XLEN - 2, NEW w, <<i + 1, w>> \in S
                 PROVE  <<i, Bit(u, i) * Bit(v, i) * 2^i + w>> \in S
        BY DEF KeptDown
    <2>1. i \in 0 .. XLEN - 1 /\ i + 1 \in 0 .. XLEN - 1 /\ i \in Int
        BY <1>0
    <2> DEFINE x == Bit(u, i)
               y == Bit(v, i)
               p == 2^i
               A == 2^i * (u \div 2^i)
               B == 2^(i + 1) * (u \div 2^(i + 1))
    <2>2. w = F(i + 1)
        <3> HIDE DEF F
        <3> QED
            BY <1>5, <2>1
    <2>3. x \in {0, 1} /\ y = (IF i < m THEN 1 ELSE 0) /\ p \in Nat /\ A \in Int /\ B \in Int
        BY <1>1, <1>3, <1>4, <2>1
    <2>4. x * p + B = A
        BY RestDown
    <2>5. /\ F(i + 1) = IF i + 1 >= m THEN 0 ELSE B - P
          /\ F(i) = IF i >= m THEN 0 ELSE A - P
        OBVIOUS
    <2>6. i + 1 = m => B = P
        BY DEF P
    <2> HIDE DEF x, y, p, A, B, F
    <2>7. x * y * p + w = F(i)
        <3>1. CASE i >= m
            <4>1. y = 0 /\ w = 0 /\ F(i) = 0
                BY <1>0, <2>1, <2>2, <2>3, <2>5, <3>1
            <4>2. x * 0 * p + 0 = 0
                BY <2>3
            <4> QED
                BY <4>1, <4>2
        <3>2. CASE i + 1 = m
            <4>1. y = 1 /\ w = 0 /\ F(i) = A - P
                BY <1>0, <2>1, <2>2, <2>3, <2>5, <3>2
            <4>2. x * 1 * p = x * p /\ x * p \in Int
                BY <2>3
            <4> QED
                BY <1>2, <2>3, <2>4, <2>6, <3>2, <4>1, <4>2
        <3>3. CASE i + 1 < m
            <4>1. y = 1 /\ w = B - P /\ F(i) = A - P
                BY <1>0, <2>1, <2>2, <2>3, <2>5, <3>3
            <4>2. x * 1 * p = x * p /\ x * p \in Int
                BY <2>3
            <4> QED
                BY <1>2, <2>3, <2>4, <4>1, <4>2
        <3> QED
            BY <1>0, <2>1, <3>1, <3>2, <3>3
    <2>8. <<i, x * y * p + w>> \in S
        BY <1>5, <2>1, <2>7
    <2> QED
        BY <2>8 DEF x, y, p
<1>8. PICK w : <<0, w>> \in S /\ BitAnd(u, v) = Sext(XLEN, w)
    BY <1>2, <1>6, <1>7, AndFold
<1>9. w = Low(m, u)
    <2>1. w = F(0)
        <3> HIDE DEF F
        <3> QED
            BY <1>0, <1>5, <1>8
    <2>2. 2^0 = 1 /\ u \div 1 = u /\ 1 * u = u
        <3>1. u = u * 1 + 0 /\ 1 \in Nat \ {0} /\ 0 \in 0 .. 1 - 1
            OBVIOUS
        <3>2. u \div 1 = u
            BY <3>1, QuotientIs
        <3> QED
            BY <3>2
    <2>3. F(0) = IF m = 0 THEN 0 ELSE u - P
        BY <1>0, <2>2
    <2>4. m = 0 => Low(m, u) = 0
        <3>1. u % 1 = 0
            OBVIOUS
        <3> QED
            BY <2>2, <3>1 DEF Low
    <2>5. Low(m, u) = u - P
        <3> DEFINE q == 2^m
        <3>1. q \in Nat \ {0}
            BY BitIs
        <3> HIDE DEF q
        <3>2. u = (u \div q) * q + (u % q) /\ u \div q \in Int /\ u % q \in Int
            BY <3>1
        <3>3. (u \div q) * q = q * (u \div q)
            BY <3>1, <3>2
        <3>4. P = q * (u \div q) /\ Low(m, u) = u % q
            BY DEF P, q, Low
        <3> HIDE DEF P
        <3> QED
            BY <1>2, <3>2, <3>3, <3>4
    <2> QED
        BY <2>1, <2>3, <2>4, <2>5
<1>10. Low(m, u) \in Words
    BY LowWord
<1>11. Sext(XLEN, w) = w
    BY <1>9, <1>10, SextOwn
<1> QED
    BY <1>8, <1>9, <1>11 DEF v

-------------------------------------------------------------------------------
(* What the logic operations come to.                                      *)

LEMMA AndZero ==
    ASSUME NEW u \in Int
    PROVE  BitAnd(u, 0) = 0 /\ BitAnd(0, u) = 0
<1>1. 0 \in 0 .. XLEN - 1 /\ 2^0 = 1 /\ 0 \in Int
    BY HalfLemma
<1>2. BitAnd(u, 2^0 - 1) = Low(0, u)
    BY <1>1, AndMask
<1>3. u % 1 = 0
    OBVIOUS
<1>4. BitAnd(u, 0) = 0
    BY <1>1, <1>2, <1>3 DEF Low
<1> QED
    BY <1>1, <1>4, AndSwap

LEMMA LogicWord ==
    ASSUME NEW u \in Int, NEW v \in Int
    PROVE  BitXor(u, v) \in Words /\ BitOr(u, v) \in Words
<1>1. BitAnd(u, v) \in Int
    BY AndWord
<1>2. u + v - 2 * BitAnd(u, v) \in Int /\ u + v - BitAnd(u, v) \in Int
    BY <1>1
<1> QED
    BY <1>2, SextWord DEF BitXor, BitOr

LEMMA LogicSwap ==
    ASSUME NEW u \in Int, NEW v \in Int
    PROVE  BitXor(u, v) = BitXor(v, u) /\ BitOr(u, v) = BitOr(v, u)
<1>1. BitAnd(u, v) = BitAnd(v, u) /\ BitAnd(u, v) \in Int
    BY AndSwap, AndWord
<1>2. u + v - 2 * BitAnd(u, v) = v + u - 2 * BitAnd(v, u)
    BY <1>1
<1>3. u + v - BitAnd(u, v) = v + u - BitAnd(v, u)
    BY <1>1
<1> QED
    BY <1>2, <1>3 DEF BitXor, BitOr

LEMMA LogicItself ==
    ASSUME NEW u \in Words
    PROVE  /\ BitXor(u, 0) = u /\ BitXor(0, u) = u
           /\ BitOr(u, 0) = u /\ BitOr(0, u) = u /\ BitOr(u, u) = u
<1>1. u \in Int /\ 0 \in Int
    BY HalfLemma
<1>2. BitAnd(u, 0) = 0 /\ BitAnd(u, u) = u /\ Sext(XLEN, u) = u
    BY <1>1, AndZero, AndOnes, SextOwn
<1>3. u + 0 - 2 * BitAnd(u, 0) = u /\ u + 0 - BitAnd(u, 0) = u /\ u + u - BitAnd(u, u) = u
    BY <1>1, <1>2
<1>4. BitXor(u, 0) = u /\ BitOr(u, 0) = u /\ BitOr(u, u) = u
    BY <1>2, <1>3 DEF BitXor, BitOr
<1> QED
    BY <1>1, <1>4, LogicSwap

LEMMA XorOnes ==
    ASSUME NEW u \in Words
    PROVE  BitXor(u, -1) = Not(u) /\ Not(u) \in Words
<1>1. u \in Int /\ Not(u) \in Words
    BY HalfLemma DEF Not
<1>2. BitAnd(u, -1) = u
    BY AndOnes
<1>3. u + -1 - 2 * BitAnd(u, -1) = Not(u)
    BY <1>1, <1>2 DEF Not
<1> QED
    BY <1>1, <1>3, SextOwn DEF BitXor

\* xnor is xor and then not.
LEMMA XorNot ==
    ASSUME NEW u \in Words, NEW v \in Words
    PROVE  BitXor(u, Not(v)) = Not(BitXor(u, v))
<1> DEFINE b == BitAnd(u, v)
           c == BitAnd(u, Not(v))
           w == u + v - 2 * b
<1>1. u \in Int /\ v \in Int /\ Not(v) = -1 - v
    BY HalfLemma DEF Not
<1>2. b \in Int
    BY <1>1, AndWord
<1>3. c = Sext(XLEN, u - b)
    BY <1>1, AndNot
<1> HIDE DEF b, c
<1>4. u - b \in Int
    BY <1>1, <1>2
<1>5. PICK t \in Int : c = u - b + t * (2 * Half)
    BY <1>3, <1>4, SextIs
<1>6. u + Not(v) - 2 * c = (-1 - w) + (-2 * t) * (2 * Half) /\ -1 - w \in Int /\ w \in Int
    <2>1. Half \in Int
        BY HalfLemma
    <2>2. t * (2 * Half) \in Int /\ (-2 * t) * (2 * Half) = -2 * (t * (2 * Half))
        BY <2>1
    <2> QED
        BY <1>1, <1>2, <1>5, <2>2
<1>7. BitXor(u, Not(v)) = Sext(XLEN, (-1 - w) + (-2 * t) * (2 * Half))
    BY <1>6 DEF BitXor, c
<1> HIDE DEF w
<1>8. Sext(XLEN, (-1 - w) + (-2 * t) * (2 * Half)) = Sext(XLEN, -1 - w)
    <2>1. -2 * t \in Int
        OBVIOUS
    <2> QED
        BY <1>6, <2>1, SextPast
<1>9. Sext(XLEN, -1 - w) = -1 - Sext(XLEN, w)
    BY <1>6, SextNot
<1>10. BitXor(u, v) = Sext(XLEN, w)
    BY DEF BitXor, w, b
<1> QED
    BY <1>7, <1>8, <1>9, <1>10 DEF Not

\* A value that fits is kept.
LEMMA SextSmall ==
    ASSUME NEW n \in 1 .. XLEN, NEW u \in 0 .. 2^(n - 1) - 1
    PROVE  Sext(n, u) = u
<1> DEFINE p == 2^(n - 1)
           q == 2^n
<1>1. q = 2 * p /\ p \in Nat \ {0} /\ u \in 0 .. p - 1
    BY PowerNext
<1>2. Sext(n, u) = ((u + p) % q) - p
    BY DEF Sext
<1> HIDE DEF p, q
<1>3. u + p \in Int /\ q \in Nat /\ 0 <= u + p /\ u + p < q
    BY <1>1
<1>4. (u + p) % q = u + p
    BY <1>3, ModOwn
<1> QED
    BY <1>1, <1>2, <1>4

\* Its low bits taken of fewer of its bits.
LEMMA LowOfLow ==
    ASSUME NEW u \in Int, NEW k \in Nat, NEW n \in 1 .. XLEN, k <= n
    PROVE  Low(n, u) % 2^k = Low(k, u)
<1>0. n \in Nat /\ n <= XLEN /\ n - k \in Nat /\ n - k + k = n /\ XLEN \in Nat
    BY HalfLemma
<1> DEFINE m == n - k
           p == 2^n
           q == 2^k
           d == 2^m
<1>1. p = d * q
    <2>1. m \in Nat /\ m + k = n /\ m + k <= XLEN
        BY <1>0
    <2> HIDE DEF m
    <2>2. 2^(m + k) = 2^m * 2^k
        BY <2>1, PowerSum
    <2> QED
        BY <2>1, <2>2
<1>2. p \in Nat \ {0} /\ q \in Nat \ {0} /\ d \in Nat \ {0}
    <2>1. n \in 0 .. XLEN /\ k \in 0 .. XLEN /\ m \in 0 .. XLEN
        BY <1>0
    <2> HIDE DEF m
    <2> QED
        BY <2>1, PowerIs
<1>3. Low(n, u) = u % p /\ Low(k, u) = u % q
    BY DEF Low
<1> HIDE DEF p, q, d
<1>4. u = (u \div p) * p + (u % p) /\ u \div p \in Int /\ u % p \in Int
    BY <1>2
<1> DEFINE e == u \div p
           r == u % p
<1>5. u = e * p + r /\ e \in Int /\ r \in Int
    BY <1>4
<1> HIDE DEF e, r
<1>6. e * p = (e * d) * q /\ e * d \in Int
    BY <1>1, <1>2, <1>5
<1> DEFINE t == e * d
<1>7. u = r + t * q /\ t \in Int
    <2>1. e * p = t * q /\ t \in Int
        BY <1>6
    <2> HIDE DEF t
    <2> DEFINE y == e * p
               z == t * q
    <2>2. y \in Int /\ z \in Int
        BY <1>2, <1>5, <2>1
    <2>3. u = y + r /\ y = z
        BY <1>5, <2>1
    <2> HIDE DEF y, z
    <2>4. u = r + z
        BY <1>5, <2>2, <2>3
    <2> QED
        BY <2>1, <2>4 DEF z
<1> HIDE DEF t
<1>8. (r + t * q) % q = r % q
    BY <1>2, <1>5, <1>7, ModPast
<1> QED
    <2>1. r % q = u % q
        BY <1>7, <1>8
    <2>2. Low(n, u) % q = Low(k, u)
        BY <1>3, <2>1 DEF r
    <2> QED
        BY <2>2 DEF q

-------------------------------------------------------------------------------
(* What an instruction computes, and a fold of two that compute.             *)

LEMMA ValueIs ==
    ASSUME NEW n, NEW k, NEW u, NEW v
    PROVE  /\ Value("sub", n, k, u, v) = Sext(n, u - v)
           /\ Value("xor", n, k, u, v) = BitXor(u, v)
           /\ Value("slt", n, k, u, v) = Less(u, v)
           /\ Value("sltu", n, k, u, v) = Less(Unsigned(u), Unsigned(v))
    BY Zenon DEF Value

\* What an instruction computes from the registers x.
Worth(i, x) == Value(i.op, i.n, i.k, x[i.a], IF i.b = Imm THEN i.k ELSE x[i.b])

\* They are after r has been written.
Put(x, r, v) == [x EXCEPT ![r] = v]

\* What j computes behind c, i computes in front of it.
OneForTwo(c, j, i) ==
    \A x \in [Regs -> Words] : x[0] = 0 =>
        \E v \in Words, w \in Words :
            Worth(c, x) = v /\ Worth(j, Put(x, c.rd, v)) = w /\ Worth(i, x) = w

\* What an instruction that computes does.
LEMMA RanWorth ==
    ASSUME NEW g, NEW i, NEW v \in Words, Machine(Words, g), Plainly(i), i.rd \in Regs \ {0},
           Worth(i, g.x) = v
    PROVE  Written(Words, g, i.rd, v, Ran(g, i))
<1>1. Value(i.op, i.n, i.k, g.x[i.a], Operand(i, g)) = v
    BY DEF Worth, Operand
<1> QED
    BY <1>1, RanValue

\* The registers when one has been written.
LEMMA WrittenIs ==
    ASSUME NEW g, NEW r, NEW v, NEW z, Machine(Words, g), r \in Regs, Written(Words, g, r, v, z)
    PROVE  z.x = Put(g.x, r, v)
<1> DEFINE y == z.x
           x == g.x
<1>1. y \in [Regs -> Words] /\ x \in [Regs -> Words] /\ y[r] = v /\ \A q \in Regs \ {r} : y[q] = x[q]
    BY DEF Machine, Written
<1> HIDE DEF x, y
<1>2. DOMAIN y = Regs /\ DOMAIN [x EXCEPT ![r] = v] = Regs
    BY <1>1
<1>3. \A q \in Regs : y[q] = [x EXCEPT ![r] = v][q]
    BY <1>1
<1>4. y = [q \in Regs |-> y[q]] /\ [x EXCEPT ![r] = v] = [q \in Regs |-> [x EXCEPT ![r] = v][q]]
    BY <1>1
<1>5. y = [x EXCEPT ![r] = v]
    BY <1>3, <1>4
<1> QED
    BY <1>5 DEF x, y, Put

\* A fold of two that compute into one that computes the same holds.
LEMMA FoldOnce ==
    ASSUME NEW s, NEW a \in Nat \ {0}, NEW c, NEW j, NEW i, NEW rule, NEW f,
           NEW x \in [Regs -> Words], NEW m, NEW fuel \in Nat,
           IsSection(s), Window(s, a, 2), c = s.code[a], j = s.code[a + 1],
           Plainly(c), Plainly(j), Plainly(i),
           c.rd \in Regs \ {0}, j.rd \in Regs \ {0}, i.rd = j.rd,
           j.rd = c.rd \/ DeadAt(s, a + 2, c.rd),
           OneForTwo(c, j, i),
           f \in Fold(rule, a, 2, Alone(i)), x[0] = 0, 2 <= fuel
    PROVE  Holds(s, f, x, m, fuel)
<1> DEFINE h == Start(s, x, m, a)
           S == DOMAIN f.patch
<1>1. S = a .. a + 1 /\ f.patch[a] = Gone /\ f.patch[a + 1] = Alone(i)
    BY FoldPatch
<1>2. a \in S /\ a + 1 \in S /\ a + 2 \notin S
    BY <1>1
<1>3. a \in DOMAIN s.code /\ a + 1 \in DOMAIN s.code
    <2>1. a \in a .. a + 2 - 1 /\ a + 1 \in a .. a + 2 - 1
        OBVIOUS
    <2> QED
        BY <2>1, WindowEntry
<1>4. Machine(Words, h) /\ h.pc = a /\ h.x = x
    BY StartMachine DEF Start
<1> HIDE DEF h, S
<1>5. PICK v \in Words, w \in Words :
        Worth(c, x) = v /\ Worth(j, Put(x, c.rd, v)) = w /\ Worth(i, x) = w
    BY DEF OneForTwo
<1> DEFINE h1 == Ran(h, c)
           h2 == Ran(h1, j)
           k1 == Skip(h)
           k2 == Ran(k1, i)
<1>6. Written(Words, h, c.rd, v, h1)
    BY <1>4, <1>5, RanWorth
<1>7. Machine(Words, k1) /\ k1.pc = a + 1 /\ k1.m = h.m /\ k1.x = x
    BY <1>4, SkipMachine
<1>8. Step(Plain(s), S, h) = h1
    BY <1>2, <1>3, <1>4, PlainStep
<1>9. Step(Patched(s, f), S, h) = k1
    BY <1>1, <1>2, <1>3, <1>4, SkipStep DEF S
<1> HIDE DEF h1, k1
<1>10. Machine(Words, h1) /\ h1.pc = a + 1 /\ h1.m = h.m /\ \A q \in Regs \ {c.rd} : h1.x[q] = x[q]
    BY <1>4, <1>6 DEF Written
<1>11. h1.x = Put(x, c.rd, v)
    <2>1. h1.x = Put(h.x, c.rd, v)
        <3>1. c.rd \in Regs
            OBVIOUS
        <3> QED
            BY <1>4, <1>6, <3>1, WrittenIs
    <2> QED
        BY <1>4, <2>1
<1>12. Written(Words, h1, j.rd, w, h2)
    BY <1>5, <1>10, <1>11, RanWorth
<1>13. Written(Words, k1, j.rd, w, k2)
    BY <1>5, <1>7, RanWorth
<1>14. Step(Plain(s), S, h1) = h2
    BY <1>2, <1>3, <1>10, PlainStep
<1>15. Step(Patched(s, f), S, k1) = k2
    BY <1>1, <1>2, <1>3, <1>7, PatchStep DEF S
<1> HIDE DEF h2, k2
<1>16. h2.pc = a + 2 /\ h2.m = h.m /\ h2.x[j.rd] = w /\ \A q \in Regs \ {j.rd} : h2.x[q] = h1.x[q]
    BY <1>10, <1>12 DEF Written
<1>17. k2.pc = a + 2 /\ k2.m = h.m /\ k2.x[j.rd] = w /\ \A q \in Regs \ {j.rd} : k2.x[q] = x[q]
    BY <1>7, <1>13 DEF Written
<1>18. \A q \in Regs : h2.x[q] = k2.x[q] \/ DeadAt(s, a + 2, q)
    BY <1>10, <1>16, <1>17
<1>19. Leaving(Plain(s), S, h, fuel) = h2
    BY <1>2, <1>8, <1>14, <1>16, LeavingTwo
<1>20. Leaving(Patched(s, f), S, h, fuel) = k2
    BY <1>2, <1>9, <1>15, <1>17, LeavingTwo
<1>21. Agree(s, h2, k2)
    BY <1>16, <1>17, <1>18 DEF Agree
<1>22. Outcome(s, f, Start(s, x, m, a), fuel)
    BY <1>19, <1>20, <1>21 DEF Outcome, S, h
<1>23. DOMAIN f.patch = a .. a + 2 - 1
    BY <1>1 DEF S
<1> QED
    BY <1>22, <1>23, WindowHolds

\* An instruction that is deleted writes nothing that is read.
ForNobody(s, a, i) ==
    \A h : Machine(Words, h) /\ h.pc = a =>
        /\ Ran(h, i).pc = a + 1 /\ Ran(h, i).m = h.m
        /\ \A q \in Regs : Ran(h, i).x[q] = h.x[q] \/ DeadAt(s, a + 1, q)

\* An instruction for nobody may go.
LEMMA DeletedHolds ==
    ASSUME NEW s, NEW a \in Nat \ {0}, NEW i, NEW rule, NEW f,
           NEW x \in [Regs -> Words], NEW m, NEW fuel \in Nat,
           IsSection(s), Window(s, a, 1), i = s.code[a],
           ForNobody(s, a, i),
           f \in Fold(rule, a, 1, Gone), x[0] = 0, 1 <= fuel
    PROVE  Holds(s, f, x, m, fuel)
<1> DEFINE h == Start(s, x, m, a)
           S == DOMAIN f.patch
<1>2. S = a .. a + 1 - 1 /\ f.patch[a] = Gone /\ a \in S /\ a + 1 \notin S
    BY DEF Fold, Finding, Gone
<1>3. a \in DOMAIN s.code
    <2>1. a .. a + 1 - 1 \subseteq DOMAIN s.code
        BY WindowEntry
    <2> QED
        BY <1>2, <2>1
<1>4. Machine(Words, h) /\ h.pc = a
    BY StartMachine
<1> HIDE DEF h, S
<1>5. Step(Plain(s), S, h) = Ran(h, i)
    BY <1>2, <1>3, <1>4, PlainStep
<1>6. Step(Patched(s, f), S, h) = Skip(h)
    BY <1>2, <1>3, <1>4, SkipStep DEF S
<1>7. /\ Ran(h, i).pc = a + 1 /\ Ran(h, i).m = h.m
      /\ \A q \in Regs : Ran(h, i).x[q] = h.x[q] \/ DeadAt(s, a + 1, q)
    BY <1>4 DEF ForNobody
<1>8. Skip(h).m = h.m /\ Skip(h).x = h.x /\ Skip(h).pc = a + 1
    BY <1>4, SkipMachine
<1>9. Leaving(Plain(s), S, h, fuel) = Ran(h, i)
    BY <1>2, <1>5, <1>7, LeavingOne
<1>10. Leaving(Patched(s, f), S, h, fuel) = Skip(h)
    BY <1>2, <1>6, <1>8, LeavingOne
<1>11. Agree(s, Ran(h, i), Skip(h))
    BY <1>7, <1>8 DEF Agree
<1>12. Outcome(s, f, Start(s, x, m, a), fuel)
    BY <1>9, <1>10, <1>11 DEF Outcome, S, h
<1>13. DOMAIN f.patch = a .. a + 1 - 1 /\ 1 \in Nat \ {0} /\ Window(s, a, 1)
    BY <1>2 DEF S
<1> QED
    BY <1>12, <1>13, WindowHolds

LEMMA PlainValues ==
    ASSUME NEW n, NEW k, NEW u, NEW v
    PROVE  /\ Value("add", n, k, u, v) = Sext(n, u + v)
           /\ Value("mul", n, k, u, v) = Sext(n, u * v)
           /\ Value("and", n, k, u, v) = BitAnd(u, v)
           /\ Value("or", n, k, u, v) = BitOr(u, v)
           /\ Value("andn", n, k, u, v) = BitAnd(u, Not(v))
           /\ Value("orn", n, k, u, v) = BitOr(u, Not(v))
           /\ Value("xnor", n, k, u, v) = BitXor(u, Not(v))
           /\ Value("sll", n, k, u, v) = Sext(n, u * 2^(v % n))
           /\ Value("srl", n, k, u, v) = Sext(n, Low(n, u) \div 2^(v % n))
           /\ Value("sra", n, k, u, v) = Sext(n, u) \div 2^(v % n)
           /\ Value("shadd", n, k, u, v) = Sext(XLEN, u * 2^k + v)
           /\ Value("sext", n, k, u, v) = Sext(n, u)
           /\ Value("zext", n, k, u, v) = Low(n, u)
<1>1. Value("add", n, k, u, v) = Sext(n, u + v) /\ Value("mul", n, k, u, v) = Sext(n, u * v)
    BY Zenon DEF Value
<1>2. /\ Value("and", n, k, u, v) = BitAnd(u, v) /\ Value("or", n, k, u, v) = BitOr(u, v)
      /\ Value("andn", n, k, u, v) = BitAnd(u, Not(v)) /\ Value("orn", n, k, u, v) = BitOr(u, Not(v))
      /\ Value("xnor", n, k, u, v) = BitXor(u, Not(v))
    BY Zenon DEF Value
<1>3. /\ Value("sll", n, k, u, v) = Sext(n, u * 2^(v % n))
      /\ Value("srl", n, k, u, v) = Sext(n, Low(n, u) \div 2^(v % n))
      /\ Value("sra", n, k, u, v) = Sext(n, u) \div 2^(v % n)
    BY Zenon DEF Value
<1>4. /\ Value("shadd", n, k, u, v) = Sext(XLEN, u * 2^k + v)
      /\ Value("sext", n, k, u, v) = Sext(n, u) /\ Value("zext", n, k, u, v) = Low(n, u)
    BY Zenon DEF Value
<1> QED
    BY <1>1, <1>2, <1>3, <1>4

LEMMA DivValues ==
    ASSUME NEW n, NEW k, NEW u, NEW v
    PROVE  /\ Value("divu", n, k, u, v) =
                (IF Low(n, v) = 0 THEN -1 ELSE Sext(n, Low(n, u) \div Low(n, v)))
           /\ Value("remu", n, k, u, v) =
                (IF Low(n, v) = 0 THEN Sext(n, u) ELSE Sext(n, Low(n, u) % Low(n, v)))
    BY Zenon DEF Value

\* What a register file is once a register has been written.
LEMMA PutIs ==
    ASSUME NEW x \in [Regs -> Words], NEW r \in Regs, NEW v
    PROVE  Put(x, r, v)[r] = v /\ \A q \in Regs : q # r => Put(x, r, v)[q] = x[q]
    BY DEF Put

\* An immediate of op, and what op makes of two registers.
LEMMA WorthOfImm ==
    ASSUME NEW i, NEW op, NEW x, Immediate(i, op)
    PROVE  Worth(i, x) = Value(op, XLEN, i.k, x[i.a], i.k)
    BY DEF Worth, Immediate
LEMMA WorthOfRegs ==
    ASSUME NEW i, NEW x, i.b # Imm
    PROVE  Worth(i, x) = Value(i.op, i.n, i.k, x[i.a], x[i.b])
    BY DEF Worth

LEMMA ShiftWorth ==
    ASSUME NEW i, NEW x, i.k \in 0 .. XLEN - 1
    PROVE  /\ Immediate(i, "sll") => Worth(i, x) = Sext(XLEN, x[i.a] * 2^i.k)
           /\ Immediate(i, "srl") => Worth(i, x) = Sext(XLEN, Low(XLEN, x[i.a]) \div 2^i.k)
           /\ Immediate(i, "sra") => Worth(i, x) = Sext(XLEN, x[i.a]) \div 2^i.k
<1>1. i.k % XLEN = i.k
    <2> DEFINE k == i.k
    <2>1. k \in 0 .. XLEN - 1 /\ XLEN \in Nat \ {0}
        BY HalfLemma
    <2> HIDE DEF k
    <2>2. k % XLEN = k
        BY <2>1, ModOwn
    <2> QED
        BY <2>2 DEF k
<1>2. Immediate(i, "sll") => Worth(i, x) = Sext(XLEN, x[i.a] * 2^(i.k % XLEN))
    BY WorthOfImm, PlainValues
<1>3. Immediate(i, "srl") => Worth(i, x) = Sext(XLEN, Low(XLEN, x[i.a]) \div 2^(i.k % XLEN))
    BY WorthOfImm, PlainValues
<1>4. Immediate(i, "sra") => Worth(i, x) = Sext(XLEN, x[i.a]) \div 2^(i.k % XLEN)
    BY WorthOfImm, PlainValues
<1> QED
    BY <1>1, <1>2, <1>3, <1>4

\* What j reads beside r, when it reads r and once.
LEMMA BesideIs ==
    ASSUME NEW j \in Insns, NEW r \in Regs, Once(j, r), j.b # Imm
    PROVE  /\ Beside(j, r) \in Regs \ {r} /\ Beside(j, r) # Imm
           /\ (j.a = r /\ j.b = Beside(j, r)) \/ (j.b = r /\ j.a = Beside(j, r))
<1>1. j.a \in Regs /\ j.b \in Regs /\ Imm \notin Regs
    BY HartAssumption DEF Insns, Imm
<1> QED
    BY <1>1 DEF Once, Beside

-------------------------------------------------------------------------------
(* A straight line that becomes its last instruction.                      *)

\* Each instruction but the last writes registers and does nothing else: they are X[k]
\* when k have run.
Onward(s, V, a, n, X) ==
    \A k \in 1 .. n - 1 : \A g :
        Machine(V, g) /\ g.x = X[k - 1] /\ g.pc = a + (k - 1) =>
            LET z == Ran(g, s.code[a + (k - 1)])
            IN  Machine(V, z) /\ z.x = X[k] /\ z.m = g.m /\ z.pc = a + k

\* The last one does from there what i does from where the line began.
LastAgrees(s, V, a, n, X, i, m) ==
    \A g, h :
        (/\ Machine(V, g) /\ g.x = X[n - 1] /\ g.pc = a + (n - 1) /\ g.m = m
         /\ Machine(V, h) /\ h.x = X[0] /\ h.pc = a + (n - 1) /\ h.m = m)
        => /\ Ran(g, s.code[a + (n - 1)]).pc = a + n
           /\ Agree(s, Ran(g, s.code[a + (n - 1)]), Ran(h, i))

\* Where the two runs are after k steps.
Abreast(s, V, a, n, X, m, k, g, h) ==
    \/ /\ k < n
       /\ Machine(V, g) /\ g.x = X[k] /\ g.pc = a + k /\ g.m = m
       /\ Machine(V, h) /\ h.x = X[0] /\ h.pc = a + k /\ h.m = m
    \/ k >= n /\ g.pc = a + n /\ Agree(s, g, h)

\* How the code and the patch run the line.
StepsLine(s, a, n, i, P, Q) ==
    \A g : \A k \in 0 .. n - 1 : g.pc = a + k =>
        /\ Step(P, a .. a + n - 1, g) = Ran(g, s.code[a + k])
        /\ Step(Q, a .. a + n - 1, g) = IF k = n - 1 THEN Ran(g, i) ELSE Skip(g)

\* A patch of n places from a: j at the last one, nothing before.
IsLine(f, a, n, j) ==
    /\ DOMAIN f.patch = a .. a + n - 1
    /\ \A k \in 0 .. n - 1 : f.patch[a + k] = IF k = n - 1 THEN Alone(j) ELSE Gone

\* A fold is such a patch.
LEMMA LinePatch ==
    ASSUME NEW rule, NEW a \in Nat, NEW n \in Nat \ {0}, NEW j, NEW f, f \in Fold(rule, a, n, Alone(j))
    PROVE  IsLine(f, a, n, j)
<1>1. f.patch = [p \in a .. a + n - 1 |-> IF p = a + n - 1 THEN Alone(j) ELSE <<>>]
    BY DEF Fold, Finding
<1>2. ASSUME NEW k \in 0 .. n - 1
      PROVE  a + k \in a .. a + n - 1 /\ (a + k = a + n - 1 <=> k = n - 1)
    OBVIOUS
<1> QED
    BY <1>1, <1>2 DEF Gone, IsLine

\* How the code and the patch of a line run.
LEMMA LineSteps ==
    ASSUME NEW s, NEW f, NEW a \in Nat, NEW n \in Nat \ {0}, NEW i,
           a .. a + n - 1 \subseteq DOMAIN s.code, IsLine(f, a, n, i)
    PROVE  StepsLine(s, a, n, i, Plain(s), Patched(s, f))
<1> DEFINE S == a .. a + n - 1
<1>1. DOMAIN f.patch = S /\ S \subseteq DOMAIN s.code
    BY DEF IsLine
<1>2. \A k \in 0 .. n - 1 : a + k \in S
    OBVIOUS
<1> HIDE DEF S
<1> SUFFICES ASSUME NEW g, NEW k \in 0 .. n - 1, g.pc = a + k
             PROVE  /\ Step(Plain(s), S, g) = Ran(g, s.code[a + k])
                    /\ Step(Patched(s, f), S, g) = IF k = n - 1 THEN Ran(g, i) ELSE Skip(g)
    BY DEF S, StepsLine
<1>3. g.pc \in S /\ g.pc \in DOMAIN s.code
    BY <1>1, <1>2
<1>4. Step(Plain(s), S, g) = Ran(g, s.code[a + k])
    BY <1>3, PlainStep
<1>5. k = n - 1 => Step(Patched(s, f), S, g) = Ran(g, i)
    <2>1. k = n - 1 => f.patch[g.pc] = Alone(i)
        BY DEF IsLine
    <2> QED
        BY <1>1, <1>3, <2>1, PatchStep
<1>6. k # n - 1 => Step(Patched(s, f), S, g) = Skip(g)
    <2>1. k # n - 1 => f.patch[g.pc] = Gone
        BY DEF IsLine
    <2> QED
        BY <1>1, <1>3, <2>1, SkipStep
<1> QED
    BY <1>4, <1>5, <1>6

\* The runs of a line keep abreast.
LEMMA LineRuns ==
    ASSUME NEW s, NEW a \in Nat, NEW n \in Nat \ {0}, NEW i, NEW V, NEW X, NEW P, NEW Q, NEW m,
           NEW start, NEW fuel \in Nat, StepsLine(s, a, n, i, P, Q), Onward(s, V, a, n, X),
           LastAgrees(s, V, a, n, X, i, m), Machine(V, start), start.pc = a, start.x = X[0],
           start.m = m
    PROVE  Abreast(s, V, a, n, X, m, fuel, Leaving(P, a .. a + n - 1, start, fuel),
                                           Leaving(Q, a .. a + n - 1, start, fuel))
<1> DEFINE S == a .. a + n - 1
<1>1. \A k \in Nat : a + k \in S <=> k < n
    OBVIOUS
<1>2. \A g : \A k \in 0 .. n - 1 : g.pc = a + k =>
        /\ Step(P, S, g) = Ran(g, s.code[a + k])
        /\ Step(Q, S, g) = IF k = n - 1 THEN Ran(g, i) ELSE Skip(g)
    BY DEF StepsLine
<1> HIDE DEF S
<1>3. PICK G : /\ \A k \in 0 .. fuel : G[k] = IF k = 0 THEN start ELSE Step(P, S, G[k - 1])
               /\ Leaving(P, S, start, fuel) = G[fuel]
    BY LeavingRun
<1>4. PICK H : /\ \A k \in 0 .. fuel : H[k] = IF k = 0 THEN start ELSE Step(Q, S, H[k - 1])
               /\ Leaving(Q, S, start, fuel) = H[fuel]
    BY LeavingRun
<1> DEFINE T == {k \in Nat : k <= fuel => Abreast(s, V, a, n, X, m, k, G[k], H[k])}
<1>5. ASSUME NEW k \in Nat, \A j \in Nat : j < k => j \in T
      PROVE  k \in T
    <2> SUFFICES ASSUME k <= fuel
                 PROVE  Abreast(s, V, a, n, X, m, k, G[k], H[k])
        OBVIOUS
    <2>1. CASE k = 0
        <3>1. G[0] = start /\ H[0] = start
            BY <1>3, <1>4
        <3>2. 0 < n /\ start.pc = a + 0
            BY DEF Machine
        <3> QED
            BY <2>1, <3>1, <3>2 DEF Abreast
    <2>2. CASE k # 0
        <3>1. k - 1 \in Nat /\ k - 1 < k /\ k - 1 <= fuel /\ k \in 0 .. fuel
            BY <2>2
        <3> DEFINE g == G[k - 1]
                   h == H[k - 1]
                   l == k - 1
        <3>2. G[k] = Step(P, S, g) /\ H[k] = Step(Q, S, h)
            BY <1>3, <1>4, <2>2, <3>1
        <3>3. Abreast(s, V, a, n, X, m, l, g, h)
            BY <1>5, <3>1
        <3>4. l \in Nat /\ k = l + 1
            BY <3>1
        <3> HIDE DEF g, h, T, l
        <3>5. CASE l < n - 1
            <4>1. /\ Machine(V, g) /\ g.x = X[l] /\ g.pc = a + l /\ g.m = m
                  /\ Machine(V, h) /\ h.x = X[0] /\ h.pc = a + l /\ h.m = m
                BY <3>3, <3>4, <3>5 DEF Abreast
            <4>2. l \in 0 .. n - 1 /\ l # n - 1 /\ k \in 1 .. n - 1 /\ l = k - 1
                BY <3>4, <3>5
            <4>3. G[k] = Ran(g, s.code[a + l]) /\ H[k] = Skip(h)
                BY <1>2, <3>2, <4>1, <4>2
            <4> DEFINE z == Ran(g, s.code[a + l])
            <4>4. Machine(V, z) /\ z.x = X[k] /\ z.m = m /\ z.pc = a + k
                BY <4>1, <4>2 DEF Onward
            <4>5. Machine(V, Skip(h)) /\ Skip(h).x = X[0] /\ Skip(h).m = m /\ Skip(h).pc = a + l + 1
                BY <4>1, SkipMachine
            <4>6. a + l + 1 = a + k /\ k < n
                BY <3>4, <3>5
            <4> HIDE DEF z
            <4> QED
                BY <4>3, <4>4, <4>5, <4>6 DEF Abreast, z
        <3>6. CASE l = n - 1
            <4>1. /\ Machine(V, g) /\ g.x = X[l] /\ g.pc = a + l /\ g.m = m
                  /\ Machine(V, h) /\ h.x = X[0] /\ h.pc = a + l /\ h.m = m
                BY <3>3, <3>4, <3>6 DEF Abreast
            <4>2. l \in 0 .. n - 1
                BY <3>4, <3>6
            <4>3. G[k] = Ran(g, s.code[a + l]) /\ H[k] = Ran(h, i)
                BY <1>2, <3>2, <3>6, <4>1, <4>2
            <4>4. Ran(g, s.code[a + l]).pc = a + n /\ Agree(s, Ran(g, s.code[a + l]), Ran(h, i))
                BY <3>6, <4>1 DEF LastAgrees
            <4>5. k >= n
                BY <3>4, <3>6
            <4> QED
                BY <4>3, <4>4, <4>5 DEF Abreast
        <3>7. CASE l >= n
            <4>1. g.pc = a + n /\ Agree(s, g, h)
                BY <3>3, <3>4, <3>7 DEF Abreast
            <4>2. g.pc \notin S /\ h.pc \notin S
                BY <1>1, <4>1 DEF Agree
            <4>3. G[k] = g /\ H[k] = h
                BY <3>2, <4>2, OutStep
            <4>4. k >= n
                BY <3>4, <3>7
            <4> QED
                BY <4>1, <4>3, <4>4 DEF Abreast
        <3> QED
            BY <3>4, <3>5, <3>6, <3>7
    <2> QED
        BY <2>1, <2>2
<1>6. Abreast(s, V, a, n, X, m, fuel, G[fuel], H[fuel])
    <2>1. Nat \subseteq T
        <3> HIDE DEF T
        <3> QED
            BY <1>5, SetInduction
    <2> QED
        BY <2>1
<1> QED
    BY <1>3, <1>4, <1>6 DEF S

\* A line whose last instruction agrees with what takes its place holds.
LEMMA StraightHolds ==
    ASSUME NEW s, IsSection(s), NEW a \in Nat \ {0}, NEW n \in Nat \ {0}, Window(s, a, n),
           NEW rule, NEW i, NEW f, f \in Fold(rule, a, n, Alone(i)), NEW V, NEW X,
           NEW x, NEW m, NEW fuel \in Nat, Onward(s, V, a, n, X),
           LastAgrees(s, V, a, n, X, i, Start(s, x, m, a).m), Machine(V, Start(s, x, m, a)),
           X[0] = x
    PROVE  Holds(s, f, x, m, fuel)
<1> DEFINE S == a .. a + n - 1
           h == Start(s, x, m, a)
           G == Leaving(Plain(s), S, h, fuel)
           H == Leaving(Patched(s, f), S, h, fuel)
<1>0. a \in Nat
    OBVIOUS
<1>1. IsLine(f, a, n, i) /\ DOMAIN f.patch = S
    <2>1. IsLine(f, a, n, i)
        BY <1>0, LinePatch
    <2> QED
        BY <2>1 DEF IsLine
<1>2. S \subseteq DOMAIN s.code
    BY WindowEntry
<1>3. StepsLine(s, a, n, i, Plain(s), Patched(s, f))
    BY <1>1, <1>2, LineSteps
<1>4. h.pc = a /\ h.x = X[0]
    BY DEF Start
<1>5. Abreast(s, V, a, n, X, h.m, fuel, G, H)
    <2> HIDE DEF h
    <2> QED
        BY <1>3, <1>4, LineRuns DEF h
<1>6. {G.pc, H.pc} \subseteq S \/ Agree(s, G, H)
    <2> HIDE DEF G, H
    <2>1. fuel < n => a + fuel \in S
        OBVIOUS
    <2> QED
        BY <1>5, <2>1 DEF Abreast
<1>7. Outcome(s, f, h, fuel)
    <2> HIDE DEF G, H, h
    <2> QED
        BY <1>1, <1>6 DEF Outcome, G, H
<1> QED
    BY <1>1, <1>7, WindowHolds

-------------------------------------------------------------------------------
(* Chains of instructions that load a constant.                            *)

\* What is found is found where the condition holds.
LEMMA WhenGives ==
    ASSUME NEW c, NEW S, NEW f \in When(c, S)
    PROVE  c /\ f \in S
    BY DEF When

\* What these operations name writes a register and does nothing else.
LEMMA PlainOps ==
    ASSUME NEW i,
           i.op \in {"add", "sub", "mul", "and", "or", "xor", "andn", "orn", "xnor", "sll", "srl",
                     "sra", "divu", "remu", "shadd", "sext", "zext"}
    PROVE  Plainly(i)
    BY DEF Plainly, Transfers, Branches, Accesses, Atomics

\* Where i loads from, or stores to.
AccessAt(i, x) ==
    IF i.op = "lxs"
    THEN x[i.a] + (IF i.to = 1 THEN Low(WORD, x[i.b]) ELSE x[i.b]) * 2^i.k
    ELSE x[i.a] + i.k

\* The instructions of a line write what they compute.
Computes(i, x, y) ==
    /\ Plainly(i) /\ i.rd \in Regs \ {0} /\ Worth(i, x) \in Words
    /\ y = Put(x, i.rd, Worth(i, x))

\* A line of instructions that compute goes onward from one register file to the next.
LEMMA PlainOnward ==
    ASSUME NEW s, NEW a \in Nat, NEW n \in Nat \ {0}, NEW X,
           \A k \in 1 .. n - 1 : Computes(s.code[a + (k - 1)], X[k - 1], X[k])
    PROVE  Onward(s, Words, a, n, X)
<1> SUFFICES ASSUME NEW k \in 1 .. n - 1, NEW g, Machine(Words, g), g.x = X[k - 1],
                    g.pc = a + (k - 1)
             PROVE  LET z == Ran(g, s.code[a + (k - 1)])
                    IN  Machine(Words, z) /\ z.x = X[k] /\ z.m = g.m /\ z.pc = a + k
    BY DEF Onward
<1> DEFINE i == s.code[a + (k - 1)]
           v == Worth(i, g.x)
           z == Ran(g, i)
<1>1. Plainly(i) /\ i.rd \in Regs \ {0} /\ v \in Words /\ X[k] = Put(g.x, i.rd, v)
    BY DEF Computes
<1>2. Worth(i, g.x) = v
    OBVIOUS
<1> HIDE DEF i, v, z
<1>3. Written(Words, g, i.rd, v, Ran(g, i))
    BY <1>1, <1>2, RanWorth
<1>4. Written(Words, g, i.rd, v, z) /\ i.rd \in Regs
    BY <1>1, <1>3 DEF z
<1>5. z.x = Put(g.x, i.rd, v)
    BY <1>4, WrittenIs
<1>6. Machine(Words, z) /\ z.pc = g.pc + 1 /\ z.m = g.m
    BY <1>4 DEF Written
<1>7. g.pc + 1 = a + k
    OBVIOUS
<1> QED
    BY <1>1, <1>5, <1>6, <1>7 DEF z, i

\* What the fields of an instruction are.
LEMMA InsnIs ==
    ASSUME NEW i \in Insns
    PROVE  /\ i.rd \in Regs /\ i.a \in Regs /\ i.b \in Regs \cup {Imm} /\ i.k \in Int /\ i.n \in Nat
           /\ i.op \in {"store", "sc"} => i.b \in Regs
           /\ i.op \in {"load", "store"} => i.n \in 0 .. 3
           /\ i.to \in Int
           /\ i = [op |-> i.op, n |-> i.n, rd |-> i.rd, a |-> i.a, b |-> i.b, k |-> i.k, to |-> i.to]
           /\ Imm \notin Regs /\ 0 \in Regs
    BY HartAssumption DEF Insns, Imm

\* An addi computes a sum.
LEMMA AddiWorth ==
    ASSUME NEW i \in Insns, NEW x \in [Regs -> Words], rv_decode_addi(i)
    PROVE  Worth(i, x) = Sext(XLEN, x[i.a] + i.k) /\ Worth(i, x) \in Words /\ x[i.a] + i.k \in Int
<1>1. Worth(i, x) = Value("add", XLEN, i.k, x[i.a], i.k)
    BY WorthOfImm DEF rv_decode_addi
<1>2. Value("add", XLEN, i.k, x[i.a], i.k) = Sext(XLEN, x[i.a] + i.k)
    BY PlainValues
<1>3. x[i.a] \in Words /\ i.k \in Int
    BY InsnIs
<1>4. x[i.a] + i.k \in Int
    BY <1>3, HalfLemma
<1>5. Sext(XLEN, x[i.a] + i.k) \in Words
    BY <1>4, SextWord
<1> QED
    BY <1>1, <1>2, <1>4, <1>5

\* The bits of an entry of the table beside the sign.
At(n, j) ==
    LET x == FliTable[j][1]
        field == IF x = Special THEN 2^ExpBits(n) - 1 ELSE x + Bias(n)
    IN  field * 2^MantBits(n) + FliTable[j][2] * 2^(MantBits(n) - 2)

\* The bits of an entry of the table are its exponent, its fraction and its sign.
LEMMA PatternIs ==
    ASSUME NEW n, NEW entry
    PROVE  /\ entry = 0 => Pattern(n, entry) = 2^(n - 1) + At(n, One)
           /\ entry = 1 => Pattern(n, entry) = 2^MantBits(n)
           /\ entry \notin {0, 1} => Pattern(n, entry) = At(n, entry - 1)
<1>1. Pattern(n, entry) = CASE entry = 0 -> 2^(n - 1) + At(n, One)
                            [] entry = 1 -> 2^MantBits(n)
                            [] OTHER     -> At(n, entry - 1)
    BY DEF Pattern, At
<1> DEFINE A == 2^(n - 1) + At(n, One)
           B == 2^MantBits(n)
           C == At(n, entry - 1)
<1>2. Pattern(n, entry) = CASE entry = 0 -> A [] entry = 1 -> B [] OTHER -> C
    BY <1>1
<1> HIDE DEF A, B, C
<1>3. /\ entry = 0 => Pattern(n, entry) = A
      /\ entry = 1 => Pattern(n, entry) = B
      /\ entry \notin {0, 1} => Pattern(n, entry) = C
    BY <1>2
<1> QED
    BY <1>3 DEF A, B, C

\* Read-only data are words.
Constants(s) == \A c \in DOMAIN s.note.pool : s.note.pool[c] \in Words

\* A chain is an interval from where it starts.
LEMMA ChainInterval ==
    ASSUME NEW s, IsSection(s), NEW a \in Nat \ {0}, a \in DOMAIN s.code
    PROVE  \E e \in Nat : Chain(s, a) = a .. a + e /\ ChainEnd(s, a) = a + e
<1> DEFINE C == Chain(s, a)
           L == Len(s.code)
           T == {n \in Nat : a + n \in C \/ \E e \in Nat : C = a .. a + e}
<1>1. L \in Nat /\ DOMAIN s.code = 1 .. L
    BY DEF IsSection
<1>2. C = {p \in 1 .. L : p >= a /\ \A q \in a + 1 .. p : Link(s, a, q)}
    BY <1>1 DEF Chain
<1> HIDE DEF C, L
<1>3. a \in C
    BY <1>1, <1>2
<1>4. ASSUME NEW p \in C, NEW q \in a .. p
      PROVE  q \in C
    <2>1. p \in 1 .. L /\ \A t \in a + 1 .. p : Link(s, a, t)
        BY <1>2
    <2>2. q \in 1 .. L /\ q >= a /\ \A t \in a + 1 .. q : t \in a + 1 .. p
        BY <1>1, <2>1
    <2>3. \A t \in a + 1 .. q : Link(s, a, t)
        BY <2>1, <2>2
    <2> QED
        BY <1>2, <2>2, <2>3
<1>5. ASSUME NEW n \in Nat, \A k \in Nat : k < n => k \in T
      PROVE  n \in T
    <2>1. CASE n = 0
        BY <1>3, <2>1
    <2>2. CASE n # 0
        <3>1. n - 1 \in Nat /\ n - 1 < n /\ a + (n - 1) = a + n - 1
            BY <2>2
        <3>2. n - 1 \in T
            BY <1>5, <3>1
        <3>3. CASE \E e \in Nat : C = a .. a + e
            BY <3>3
        <3>4. CASE a + (n - 1) \in C /\ a + n \notin C
            <4>1. ASSUME NEW p \in C PROVE p \in a .. a + (n - 1)
                <5>1. p \in Int /\ p >= a
                    BY <1>1, <1>2
                <5>2. p >= a + n => a + n \in a .. p
                    BY <5>1
                <5>3. ~(p >= a + n)
                    BY <1>4, <3>4, <5>2
                <5> QED
                    BY <3>1, <5>1, <5>3
            <4>2. a .. a + (n - 1) \subseteq C
                BY <1>4, <3>4
            <4>3. C = a .. a + (n - 1)
                BY <4>1, <4>2
            <4> QED
                BY <3>1, <4>3
        <3> QED
            BY <3>2, <3>3, <3>4
    <2> QED
        BY <2>1, <2>2
<1>6. Nat \subseteq T
    <2> HIDE DEF T
    <2> QED
        BY <1>5, SetInduction
<1>7. a + L \notin C
    <2>1. ~(a + L \in 1 .. L)
        BY <1>1
    <2> QED
        BY <1>2, <2>1
<1>8. PICK e \in Nat : C = a .. a + e
    BY <1>1, <1>6, <1>7
<1>9. Cardinality(C) = e + 1
    <2>1. a \in Int /\ a + e \in Int /\ a + e - a + 1 = e + 1 /\ a <= a + e
        OBVIOUS
    <2> QED
        BY <1>8, <2>1, FS_Interval
<1>10. ChainEnd(s, a) = a + e
    <2>1. ChainEnd(s, a) = a + Cardinality(C) - 1
        BY DEF ChainEnd, C
    <2> QED
        BY <1>9, <2>1
<1> QED
    BY <1>8, <1>10 DEF C

\* The values of a chain, up to its n-th step.
Building(s, a, n, f) ==
    f = [p \in a .. a + n |-> IF p = a THEN s.code[a].k ELSE li_chain_step(s.code[p], f[p - 1])]

\* The registers a chain goes through exist, however long it is.
LEMMA BuildingExists ==
    ASSUME NEW s, NEW a \in Nat, NEW n \in Nat
    PROVE  \E f : Building(s, a, n, f)
<1> DEFINE T == {k \in Nat : \E f : Building(s, a, k, f)}
           A == s.code[a].k
           St(p, v) == li_chain_step(s.code[p], v)
<1>1. ASSUME NEW k \in Nat, \A m \in Nat : m < k => m \in T PROVE k \in T
    <2>1. CASE k = 0
        <3> DEFINE f == [p \in a .. a + 0 |-> A]
        <3>1. \A p \in a .. a + 0 : p = a
            OBVIOUS
        <3>2. Building(s, a, 0, f)
            BY <3>1 DEF Building
        <3> QED
            BY <2>1, <3>2
    <2>2. CASE k # 0
        <3>1. k - 1 \in Nat /\ k - 1 < k /\ a + (k - 1) = a + k - 1
            BY <2>2
        <3>2. PICK g : Building(s, a, k - 1, g)
            BY <1>1, <3>1
        <3> DEFINE f == [p \in a .. a + k |-> IF p < a + k THEN g[p] ELSE St(p, g[p - 1])]
        <3>3. ASSUME NEW p \in a .. a + k
              PROVE  f[p] = IF p = a THEN A ELSE St(p, f[p - 1])
            <4>1. CASE p < a + k
                <5>1. p \in a .. a + (k - 1) /\ (p # a => p - 1 \in a .. a + k /\ p - 1 < a + k)
                    BY <4>1
                <5>2. g[p] = IF p = a THEN A ELSE St(p, g[p - 1])
                    BY <3>2, <5>1 DEF Building
                <5> QED
                    BY <4>1, <5>1, <5>2
            <4>2. CASE p = a + k
                <5>1. p # a /\ p - 1 \in a .. a + k /\ p - 1 < a + k
                    BY <2>2, <4>2
                <5> QED
                    BY <4>2, <5>1
            <4> QED
                BY <4>1, <4>2
        <3>4. f = [p \in a .. a + k |-> f[p]]
            OBVIOUS
        <3>5. Building(s, a, k, f)
            <4> HIDE DEF f
            <4>1. f = [p \in a .. a + k |-> IF p = a THEN A ELSE St(p, f[p - 1])]
                BY <3>3, <3>4
            <4> QED
                BY <4>1 DEF Building
        <3> QED
            BY <3>5
    <2> QED
        BY <2>1, <2>2
<1>2. Nat \subseteq T
    <2> HIDE DEF T
    <2> QED
        BY <1>1, SetInduction
<1> QED
    BY <1>2

\* What the instructions of a chain compute, one after another, is what the check adds up.
LEMMA ChainBuilds ==
    ASSUME NEW s, NEW a \in Nat, NEW e \in Nat, Chain(s, a) = a .. a + e, ChainEnd(s, a) = a + e
    PROVE  \E f : /\ f[a] = s.code[a].k
                  /\ \A p \in a + 1 .. a + e : f[p] = li_chain_step(s.code[p], f[p - 1])
                  /\ ChainValue(s, a) = f[a + e]
<1> DEFINE f == CHOOSE g : Building(s, a, e, g)
<1>1. Building(s, a, e, f)
    BY BuildingExists
<1>2. ChainValue(s, a) = f[a + e]
    BY DEF ChainValue, Building
<1> HIDE DEF f
<1>3. \A p \in a .. a + e : f[p] = IF p = a THEN s.code[a].k ELSE li_chain_step(s.code[p], f[p - 1])
    BY <1>1 DEF Building
<1>4. a \in a .. a + e /\ \A p \in a + 1 .. a + e : p \in a .. a + e /\ p # a
    OBVIOUS
<1>5. f[a] = s.code[a].k /\ \A p \in a + 1 .. a + e : f[p] = li_chain_step(s.code[p], f[p - 1])
    BY <1>3, <1>4
<1> QED
    BY <1>2, <1>5

\* A step of a chain computes the next value from the one before.
LEMMA StepValue ==
    ASSUME NEW i \in Insns, NEW x \in [Regs -> Words], StepOf(i)
    PROVE  /\ Worth(i, x) = li_chain_step(i, x[i.rd]) /\ Worth(i, x) \in Words
           /\ Plainly(i) /\ i.rd \in Regs \ {0}
<1> DEFINE u == x[i.rd]
           v == i.k
<1>1. /\ i.b = Imm /\ i.a = i.rd /\ i.rd # 0
      /\ i.op = "add" \/ (i.op \in {"sll", "xor", "or"} /\ i.n = XLEN)
    BY DEF StepOf
<1>2. i.rd \in Regs /\ v \in Int /\ (i.op = "add" => i.n \in {WORD, XLEN})
    BY HartAssumption DEF Insns
<1>3. u \in Words /\ u \in Int
    <2>1. \A w \in Words : w \in Int
        BY HalfLemma
    <2> QED
        BY <1>2, <2>1
<1>4. Worth(i, x) = Value(i.op, i.n, i.k, u, v) /\ li_chain_step(i, u) = Value(i.op, i.n, 0, u, v)
    BY <1>1 DEF Worth, li_chain_step
<1>5. Plainly(i)
    BY <1>1, PlainOps
<1> HIDE DEF u, v
<1>6. CASE i.op = "add"
    <2>1. Value("add", i.n, i.k, u, v) = Sext(i.n, u + v) /\ Value("add", i.n, 0, u, v) = Sext(i.n, u + v)
        BY PlainValues
    <2>2. Sext(i.n, u + v) \in Words
        <3> DEFINE n == i.n
                   w == u + v
        <3>1. n \in 1 .. XLEN /\ w \in Int
            BY <1>2, <1>3, <1>6, HartAssumption
        <3> HIDE DEF n, w
        <3>2. Sext(n, w) \in Words
            BY <3>1, NarrowWord
        <3> QED
            BY <3>2 DEF n, w
    <2> QED
        BY <1>1, <1>2, <1>4, <1>5, <1>6, <2>1, <2>2 DEF u
<1>7. CASE i.op = "sll"
    <2>1. /\ Value("sll", i.n, i.k, u, v) = Sext(i.n, u * 2^(v % i.n))
          /\ Value("sll", i.n, 0, u, v) = Sext(i.n, u * 2^(v % i.n))
        BY PlainValues
    <2>2. Sext(XLEN, u * 2^(v % XLEN)) \in Words
        <3> DEFINE k == v % XLEN
        <3>1. k \in 0 .. XLEN
            BY <1>2, HalfLemma, ModRange
        <3> HIDE DEF k
        <3> DEFINE p == 2^k
        <3>2. p \in Nat \ {0}
            BY <3>1, PowerIs
        <3> HIDE DEF p
        <3>3. u * p \in Int
            BY <1>3, <3>2
        <3> DEFINE w == u * p
        <3> HIDE DEF w
        <3>4. Sext(XLEN, w) \in Words
            BY <3>3, SextWord DEF w
        <3> QED
            BY <3>4 DEF w, p, k
    <2>3. i.n = XLEN
        BY <1>1, <1>7
    <2>4. Worth(i, x) = Sext(XLEN, u * 2^(v % XLEN)) /\ Worth(i, x) = li_chain_step(i, u)
        BY <1>4, <1>7, <2>1, <2>3
    <2> QED
        BY <1>1, <1>2, <1>5, <2>2, <2>4 DEF u
<1>8. CASE i.op = "xor"
    <2>1. Value("xor", i.n, i.k, u, v) = BitXor(u, v) /\ Value("xor", i.n, 0, u, v) = BitXor(u, v)
        BY ValueIs
    <2>2. BitXor(u, v) \in Words
        BY <1>2, <1>3, LogicWord
    <2> QED
        BY <1>1, <1>2, <1>4, <1>5, <1>8, <2>1, <2>2 DEF u
<1>9. CASE i.op = "or"
    <2>1. Value("or", i.n, i.k, u, v) = BitOr(u, v) /\ Value("or", i.n, 0, u, v) = BitOr(u, v)
        BY PlainValues
    <2>2. BitOr(u, v) \in Words
        BY <1>2, <1>3, LogicWord
    <2> QED
        BY <1>1, <1>2, <1>4, <1>5, <1>9, <2>1, <2>2 DEF u
<1> QED
    BY <1>1, <1>6, <1>7, <1>8, <1>9

\* The first of a chain writes its constant.
LEMMA ConstComputes ==
    ASSUME NEW i \in Insns, NEW x \in [Regs -> Words], decode_const(i), x[0] = 0
    PROVE  /\ Worth(i, x) = i.k /\ i.k \in Words /\ Plainly(i) /\ i.rd \in Regs \ {0}
<1>1. rv_decode_addi(i) /\ i.a = 0 /\ i.rd # 0 /\ i.b = Imm /\ i.op = "add"
    BY DEF decode_const, rv_decode_addi, Immediate
<1>2. i.k \in Words /\ i.rd \in Regs
    BY <1>1 DEF Insns
<1>3. Worth(i, x) = Sext(XLEN, x[i.a] + i.k)
    BY <1>1, AddiWorth
<1>4. x[i.a] + i.k = i.k
    <2>1. \A w \in Words : 0 + w = w
        BY HalfLemma
    <2> QED
        BY <1>1, <1>2, <2>1
<1>5. Sext(XLEN, i.k) = i.k
    BY <1>2, SextOwn
<1> QED
    BY <1>1, <1>2, <1>3, <1>4, <1>5, PlainOps

\* The registers while a chain is run.
Built(x, r, a, F, e) == [k \in 0 .. e + 1 |-> IF k = 0 THEN x ELSE Put(x, r, F[a + k - 1])]

ChainLine(s, a, e, F) ==
    /\ decode_const(s.code[a])
    /\ \A p \in a .. a + e : s.code[p] \in Insns
    /\ \A p \in a + 1 .. a + e : StepOf(s.code[p]) /\ s.code[p].rd = s.code[a].rd
    /\ F[a] = s.code[a].k
    /\ \A p \in a + 1 .. a + e : F[p] = li_chain_step(s.code[p], F[p - 1])

\* A chain goes onward: it writes one register, time and again.
LEMMA ChainOnward ==
    ASSUME NEW s, NEW a \in Nat, NEW e \in Nat, NEW F, NEW x \in [Regs -> Words], x[0] = 0,
           ChainLine(s, a, e, F)
    PROVE  /\ F[a + e] \in Words
           /\ Onward(s, Words, a, e + 2, Built(x, s.code[a].rd, a, F, e))
<1> DEFINE c == s.code[a]
           r == c.rd
           T == {k \in Nat : k <= e => F[a + k] \in Words}
           X == Built(x, r, a, F, e)
<1>1. a \in a .. a + e /\ a + 0 = a
    OBVIOUS
<1>2. c \in Insns
    BY <1>1 DEF ChainLine
<1>3. Worth(c, x) = c.k /\ c.k \in Words /\ Plainly(c) /\ r \in Regs \ {0} /\ F[a] = c.k
    BY <1>2, ConstComputes DEF ChainLine
<1>4. ASSUME NEW k \in Nat \ {0}, k <= e, F[a + (k - 1)] \in Words
      PROVE  LET i == s.code[a + k]
                 y == Put(x, r, F[a + (k - 1)])
             IN  Computes(i, y, Put(x, r, F[a + k])) /\ F[a + k] \in Words
    <2> DEFINE i == s.code[a + k]
               u == F[a + (k - 1)]
               y == Put(x, r, u)
               v == F[a + k]
    <2>1. a + k \in a + 1 .. a + e /\ a + k \in a .. a + e /\ a + k - 1 = a + (k - 1)
        BY <1>4
    <2>2. i \in Insns /\ StepOf(i) /\ i.rd = r /\ v = li_chain_step(i, u)
        BY <2>1 DEF ChainLine
    <2> HIDE DEF i, v, u
    <2>3. y \in [Regs -> Words] /\ y[r] = u
        <3>1. u \in Words
            BY <1>4 DEF u
        <3> HIDE DEF r
        <3> QED
            BY <1>3, <3>1, PutIs DEF Put
    <2>4. Put(y, r, v) = Put(x, r, v)
        <3> HIDE DEF r
        <3> QED
            BY <1>3 DEF Put
    <2> HIDE DEF y, r
    <2>5. Worth(i, y) = v /\ Worth(i, y) \in Words /\ Plainly(i) /\ i.rd \in Regs \ {0}
        BY <2>2, <2>3, StepValue
    <2>6. Computes(i, y, Put(x, r, v)) /\ v \in Words
        BY <2>2, <2>4, <2>5 DEF Computes
    <2> QED
        BY <2>6 DEF i, y, v, u
<1>5. ASSUME NEW k \in Nat, \A l \in Nat : l < k => l \in T
      PROVE  k \in T
    <2>1. CASE k = 0
        BY <1>1, <1>3, <2>1
    <2>2. CASE k # 0
        <3>1. k - 1 \in Nat /\ k - 1 < k
            BY <2>2
        <3>2. k - 1 \in T
            BY <1>5, <3>1
        <3>3. k <= e => k - 1 <= e
            BY <3>1
        <3>4. k <= e => F[a + (k - 1)] \in Words
            BY <3>2, <3>3
        <3>5. k <= e => F[a + k] \in Words
            BY <1>4, <2>2, <3>4
        <3> QED
            BY <3>5
    <2> QED
        BY <2>1, <2>2
<1>6. \A k \in Nat : k <= e => F[a + k] \in Words
    <2>1. Nat \subseteq T
        <3> HIDE DEF T
        <3> QED
            BY <1>5, SetInduction
    <2> QED
        BY <2>1
<1>7. ASSUME NEW k \in 1 .. (e + 2) - 1
      PROVE  Computes(s.code[a + (k - 1)], X[k - 1], X[k])
    <2>1. CASE k = 1
        <3>1. a + (k - 1) = a /\ k - 1 = 0 /\ 0 \in 0 .. e + 1 /\ 1 \in 0 .. e + 1 /\ a + 1 - 1 = a
            BY <2>1
        <3>2. X[k - 1] = x /\ X[k] = Put(x, r, F[a])
            BY <2>1, <3>1 DEF Built
        <3> QED
            BY <1>3, <3>1, <3>2 DEF Computes
    <2>2. CASE k # 1
        <3> DEFINE l == k - 1
        <3>1. /\ l \in Nat \ {0} /\ l <= e /\ l - 1 \in Nat /\ l - 1 <= e /\ l \in 0 .. e + 1
              /\ k \in 0 .. e + 1 /\ k # 0 /\ a + l - 1 = a + (l - 1) /\ a + k - 1 = a + l
            BY <2>2
        <3>2. X[l] = Put(x, r, F[a + (l - 1)]) /\ X[k] = Put(x, r, F[a + l])
            BY <3>1 DEF Built
        <3> HIDE DEF l, X
        <3>3. F[a + (l - 1)] \in Words
            BY <1>6, <3>1
        <3>4. Computes(s.code[a + l], Put(x, r, F[a + (l - 1)]), Put(x, r, F[a + l]))
            BY <1>4, <3>1, <3>3
        <3>5. Computes(s.code[a + l], X[l], X[k])
            BY <3>2, <3>4
        <3> QED
            BY <3>5 DEF l
    <2> QED
        BY <2>1, <2>2
<1>8. Onward(s, Words, a, e + 2, X)
    <2>1. e + 2 \in Nat \ {0}
        OBVIOUS
    <2> DEFINE n == e + 2
    <2>2. \A k \in 1 .. n - 1 : Computes(s.code[a + (k - 1)], X[k - 1], X[k])
        BY <1>7
    <2> HIDE DEF n, X
    <2>3. Onward(s, Words, a, n, X)
        BY <2>1, <2>2, PlainOnward DEF n
    <2> QED
        BY <2>3 DEF n
<1> QED
    BY <1>6, <1>8

\* What a conditional store leaves.
Stored(h, c, v) == [h EXCEPT !.m[c] = v, !.res = {}]

-------------------------------------------------------------------------------
(* Two machines that differ in one register.                               *)

\* What the instructions compute that no lemma has had to name.
LEMMA OtherValues ==
    ASSUME NEW n, NEW k, NEW u, NEW v
    PROVE  /\ Value("min", n, k, u, v) = (IF u < v THEN u ELSE v)
           /\ Value("max", n, k, u, v) = (IF u < v THEN v ELSE u)
           /\ Value("minu", n, k, u, v) = (IF Unsigned(u) < Unsigned(v) THEN u ELSE v)
           /\ Value("maxu", n, k, u, v) = (IF Unsigned(u) < Unsigned(v) THEN v ELSE u)
           /\ Value("fmv", n, k, u, v) = (IF n = WORD THEN Boxed(u) ELSE u)
           /\ Value("fli", n, k, u, v) = (IF n = WORD THEN Boxed(Pattern(n, k)) ELSE Sext(n, Pattern(n, k)))
<1>1. /\ Value("min", n, k, u, v) = (IF u < v THEN u ELSE v)
      /\ Value("max", n, k, u, v) = (IF u < v THEN v ELSE u)
    BY Zenon DEF Value
<1>2. /\ Value("minu", n, k, u, v) = (IF Unsigned(u) < Unsigned(v) THEN u ELSE v)
      /\ Value("maxu", n, k, u, v) = (IF Unsigned(u) < Unsigned(v) THEN v ELSE u)
    BY Zenon DEF Value
<1>3. /\ Value("fmv", n, k, u, v) = (IF n = WORD THEN Boxed(u) ELSE u)
      /\ Value("fli", n, k, u, v) = (IF n = WORD THEN Boxed(Pattern(n, k)) ELSE Sext(n, Pattern(n, k)))
    BY Zenon DEF Value
<1> QED
    BY <1>1, <1>2, <1>3

\* The operations there are.
ValueOps == {"add", "sub", "mul", "and", "or", "xor", "andn", "orn", "xnor", "slt", "sltu", "sll", "srl",
    "sra", "divu", "remu", "min", "max", "minu", "maxu", "shadd", "sext", "zext", "fmv", "fli"}

\* Whatever else is named computes nothing.
LEMMA NoValue ==
    ASSUME NEW op, NEW n, NEW k, NEW u, NEW v, op \notin ValueOps
    PROVE  Value(op, n, k, u, v) = 0
<1>1. /\ op # "add" /\ op # "sub" /\ op # "mul" /\ op # "and" /\ op # "or" /\ op # "xor" /\ op # "andn"
      /\ op # "orn" /\ op # "xnor" /\ op # "slt" /\ op # "sltu" /\ op # "sll" /\ op # "srl" /\ op # "sra"
      /\ op # "divu" /\ op # "remu" /\ op # "min" /\ op # "max" /\ op # "minu" /\ op # "maxu"
      /\ op # "shadd" /\ op # "sext" /\ op # "zext" /\ op # "fmv" /\ op # "fli"
    BY DEF ValueOps
<1> QED
    BY <1>1, Zenon DEF Value

\* Words cut to n bits are numbers.
LEMMA CutInt ==
    ASSUME NEW n \in 1 .. XLEN, NEW u \in Int, NEW k \in 0 .. XLEN
    PROVE  Sext(n, u) \in Int /\ Low(n, u) \in Int /\ u * 2^k \in Int /\ u \div 2^k \in Int
<1> DEFINE p == 2^n
           q == 2^(n - 1)
           t == 2^k
<1>1. p \in Nat \ {0} /\ q \in Nat \ {0} /\ t \in Nat \ {0}
    BY HalfLemma, PowerIs, PowerNext
<1> HIDE DEF p, q, t
<1>2. (u + q) % p \in Int /\ u % p \in Int /\ u * t \in Int /\ u \div t \in Int
    BY <1>1
<1> QED
    BY <1>2 DEF Sext, Low, p, q, t

\* The pattern of an entry of fli is a number.
LEMMA PatternInt ==
    ASSUME NEW n \in {WORD, XLEN}, NEW k \in 0 .. Len(FliTable) + 1
    PROVE  Pattern(n, k) \in Int
<1>1. Len(FliTable) = 23 /\ \A j \in 1 .. 23 : FliTable[j][1] \in Int /\ FliTable[j][2] \in Int
    BY DEF FliTable, Special
<1>2. One \in 1 .. 23
    <2>1. 11 \in DOMAIN FliTable /\ FliTable[11] = <<0, 0>> /\ DOMAIN FliTable = 1 .. 23
        BY DEF FliTable
    <2> QED
        BY <2>1 DEF One
<1>3. /\ 2^MantBits(n) \in Int /\ 2^(MantBits(n) - 2) \in Int /\ 2^ExpBits(n) \in Int /\ Bias(n) \in Int
      /\ 2^(n - 1) \in Int
    <2>1. /\ MantBits(n) \in 2 .. XLEN /\ ExpBits(n) \in 1 .. XLEN /\ n \in 1 .. XLEN /\ XLEN \in Nat
          /\ MantBits(n) - 2 \in 0 .. XLEN /\ ExpBits(n) - 1 \in 0 .. XLEN /\ n - 1 \in 0 .. XLEN
          /\ MantBits(n) \in 0 .. XLEN /\ ExpBits(n) \in 0 .. XLEN
        <3>1. /\ MantBits(n) = (IF n = WORD THEN WORD - 5 ELSE XLEN - 6)
              /\ ExpBits(n) = (IF n = WORD THEN 4 ELSE 5)
            BY DEF MantBits, ExpBits
        <3>2. WORD \in Nat /\ XLEN \in Nat /\ WORD + 3 <= XLEN /\ 7 <= WORD
            BY HartAssumption
        <3> HIDE DEF MantBits, ExpBits
        <3> QED
            BY <3>1, <3>2
    <2> DEFINE b == 2^(ExpBits(n) - 1)
    <2>2. b \in Nat \ {0}
        BY <2>1, PowerIs
    <2>3. Bias(n) = b - 1
        BY DEF Bias
    <2> HIDE DEF b
    <2>4. Bias(n) \in Int
        BY <2>2, <2>3
    <2> QED
        BY <2>1, <2>4, PowerIs
<1> DEFINE M == 2^MantBits(n)
           Q == 2^(MantBits(n) - 2)
           E == 2^ExpBits(n)
           B == Bias(n)
           H == 2^(n - 1)
<1>5. M \in Int /\ Q \in Int /\ E \in Int /\ B \in Int /\ H \in Int
    BY <1>3
<1>6. ASSUME NEW j \in 1 .. 23
      PROVE  At(n, j) \in Int
    <2> DEFINE x == FliTable[j][1]
               field == IF x = Special THEN E - 1 ELSE x + B
    <2>1. At(n, j) = field * M + FliTable[j][2] * Q
        BY DEF At
    <2> HIDE DEF M, Q, E, B, H
    <2> QED
        BY <1>1, <1>5, <2>1
<1>7. k \in Int /\ (k \notin {0, 1} => k - 1 \in 1 .. 23)
    BY <1>1
<1>8. /\ k = 0 => Pattern(n, k) = H + At(n, One)
      /\ k = 1 => Pattern(n, k) = M
      /\ k \notin {0, 1} => Pattern(n, k) = At(n, k - 1)
    BY PatternIs
<1>9. At(n, One) \in Int
    BY <1>2, <1>6
<1> DEFINE P == Pattern(n, k)
           A == At(n, One)
           C == At(n, k - 1)
<1>10. k \notin {0, 1} => C \in Int
    BY <1>6, <1>7
<1>11. A \in Int /\ (k = 0 => P = H + A) /\ (k = 1 => P = M) /\ (k \notin {0, 1} => P = C)
    BY <1>8, <1>9
<1> HIDE DEF M, Q, E, B, H, P, A, C
<1>12. P \in Int
    BY <1>5, <1>10, <1>11
<1> QED
    BY <1>12 DEF P

\* A shift takes a power of two that is one.
LEMMA ShiftPower ==
    ASSUME NEW n \in 1 .. XLEN, NEW v \in Int
    PROVE  v % n \in 0 .. XLEN
<1>1. XLEN \in Nat
    BY HalfLemma
<1>2. v % n \in 0 .. n - 1
    BY <1>1, ModRange
<1> QED
    BY <1>1, <1>2

\* What an instruction computes from numbers is a number.
LEMMA ValueInt ==
    ASSUME NEW i \in Insns, Plainly(i), NEW u \in Int, NEW v \in Int
    PROVE  Value(i.op, i.n, i.k, u, v) \in Int
<1> DEFINE op == i.op
           n == i.n
           k == i.k
<1>1. /\ n \in 1 .. XLEN
      /\ op \in {"add", "divu", "remu", "fmv", "fli", "lr", "sc"} => n \in {WORD, XLEN}
      /\ op = "shadd" => k \in 0 .. 3
      /\ op = "fli" => k \in 0 .. Len(FliTable) + 1
    BY DEF Insns, Plainly, Accesses
<1> HIDE DEF op, n, k
<1>2. WORD \in 1 .. XLEN /\ XLEN \in 1 .. XLEN /\ XLEN \in Nat /\ 3 \in 0 .. XLEN /\ WORD \in 0 .. XLEN
    BY HartAssumption
<1>3. v % n \in 0 .. XLEN /\ 0 \in 0 .. XLEN
    BY <1>1, <1>2, ShiftPower
<1>4. op = "add" => Value(op, n, k, u, v) \in Int
    BY <1>1, <1>3, CutInt, PlainValues
<1>5. op = "sub" => Value(op, n, k, u, v) \in Int
    BY <1>1, <1>3, CutInt, ValueIs
<1>6. op = "mul" => Value(op, n, k, u, v) \in Int
    <2>1. u * v \in Int
        OBVIOUS
    <2> QED
        BY <1>1, <1>3, <2>1, CutInt, PlainValues
<1>7. op \in {"and", "or", "andn", "orn", "xnor", "xor"} => Value(op, n, k, u, v) \in Int
    <2>1. Not(v) \in Int /\ \A w \in Words : w \in Int
        BY HalfLemma DEF Not
    <2>2. /\ BitAnd(u, v) \in Int /\ BitOr(u, v) \in Int /\ BitAnd(u, Not(v)) \in Int
          /\ BitOr(u, Not(v)) \in Int /\ BitXor(u, Not(v)) \in Int /\ BitXor(u, v) \in Int
        BY <2>1, AndWord, LogicWord
    <2> QED
        BY <2>2, PlainValues, ValueIs
<1>8. op \in {"slt", "sltu"} => Value(op, n, k, u, v) \in Int
    <2>1. \A p, q : Less(p, q) \in Int
        BY DEF Less
    <2> QED
        BY <2>1, ValueIs
<1>9. op = "sll" => Value(op, n, k, u, v) \in Int
    <2>1. u * 2^(v % n) \in Int
        BY <1>1, <1>3, CutInt
    <2> QED
        BY <1>1, <1>3, <2>1, CutInt, PlainValues
<1>10. op = "srl" => Value(op, n, k, u, v) \in Int
    <2>1. Low(n, u) \in Int
        BY <1>1, <1>3, CutInt
    <2>2. Low(n, u) \div 2^(v % n) \in Int
        BY <1>1, <1>3, <2>1, CutInt
    <2> QED
        BY <1>1, <1>3, <2>2, CutInt, PlainValues
<1>11. op = "sra" => Value(op, n, k, u, v) \in Int
    <2>1. Sext(n, u) \in Int
        BY <1>1, <1>3, CutInt
    <2>2. Sext(n, u) \div 2^(v % n) \in Int
        BY <1>1, <1>3, <2>1, CutInt
    <2> QED
        BY <2>2, PlainValues
<1>12. op \in {"divu", "remu"} => Value(op, n, k, u, v) \in Int
    <2> DEFINE c == Low(n, u)
               d == Low(n, v)
    <2>1. c \in Int /\ d \in Nat
        <3>1. n \in 0 .. XLEN
            BY <1>1, <1>2
        <3> DEFINE p == 2^n
        <3>2. p \in Nat
            BY <3>1, PowerIs
        <3>3. d \in 0 .. p - 1
            BY <3>1, LowIs
        <3>4. c \in Int
            BY <1>1, <1>3, CutInt
        <3> HIDE DEF p, c, d
        <3> QED
            BY <3>2, <3>3, <3>4
    <2> HIDE DEF c, d
    <2>2. d # 0 => c \div d \in Int /\ c % d \in Int
        BY <2>1
    <2>3. /\ Value("divu", n, k, u, v) = IF d = 0 THEN -1 ELSE Sext(n, c \div d)
          /\ Value("remu", n, k, u, v) = IF d = 0 THEN Sext(n, u) ELSE Sext(n, c % d)
        BY DivValues DEF c, d
    <2>4. d # 0 => Sext(n, c \div d) \in Int /\ Sext(n, c % d) \in Int
        BY <1>1, <1>3, <2>2, CutInt
    <2>5. Sext(n, u) \in Int
        BY <1>1, <1>3, CutInt
    <2> QED
        BY <2>3, <2>4, <2>5
<1>13. op \in {"min", "max", "minu", "maxu"} => Value(op, n, k, u, v) \in Int
    BY OtherValues
<1>14. op = "shadd" => Value(op, n, k, u, v) \in Int
    <2>1. op = "shadd" => k \in 0 .. XLEN
        BY <1>1, <1>2
    <2>2. op = "shadd" => u * 2^k \in Int
        BY <1>1, <2>1, CutInt
    <2>3. op = "shadd" => u * 2^k + v \in Int
        BY <2>2
    <2>4. op = "shadd" => Sext(XLEN, u * 2^k + v) \in Int
        BY <1>2, <1>3, <2>3, CutInt
    <2> QED
        BY <2>4, PlainValues
<1>15. op \in {"sext", "zext"} => Value(op, n, k, u, v) \in Int
    BY <1>1, <1>3, CutInt, PlainValues
<1>16. \A w \in Int : Boxed(w) \in Int
    <2>1. 2^WORD \in Int
        BY <1>2, PowerIs
    <2>2. \A w \in Int : Low(WORD, w) \in Int
        BY <1>2, <1>3, CutInt
    <2> QED
        BY <2>1, <2>2 DEF Boxed
<1>17. op = "fmv" => Value(op, n, k, u, v) \in Int
    BY <1>16, OtherValues
<1>18. op = "fli" => Value(op, n, k, u, v) \in Int
    <2> DEFINE t == Pattern(n, k)
    <2>1. op = "fli" => t \in Int
        BY <1>1, PatternInt
    <2>2. Value("fli", n, k, u, v) = IF n = WORD THEN Boxed(t) ELSE Sext(n, t)
        BY OtherValues
    <2> HIDE DEF t
    <2>3. op = "fli" => Boxed(t) \in Int /\ Sext(n, t) \in Int
        BY <1>1, <1>3, <1>16, <2>1, CutInt
    <2> QED
        BY <2>2, <2>3
<1>19. op \notin ValueOps => Value(op, n, k, u, v) \in Int
    BY NoValue
<1> HIDE DEF Value
<1>20. Value(op, n, k, u, v) \in Int
    <2> DEFINE val == Value(op, n, k, u, v)
    <2> HIDE DEF val
    <2> QED
        BY <1>4, <1>5, <1>6, <1>7, <1>8, <1>9, <1>10, <1>11, <1>12, <1>13, <1>14, <1>15, <1>17, <1>18,
           <1>19 DEF ValueOps, val
<1> QED
    BY <1>20 DEF op, n, k

\* A machine of numbers.
Cells == 0 .. 2^ADDR - 1

Numbers(g) == Machine(Int, g) /\ g.m \in [Cells -> Int]

\* Two machines that are at one place and differ in r at most.
Apart(r, g, h) ==
    /\ Numbers(g) /\ Numbers(h)
    /\ g.pc = h.pc /\ g.m = h.m /\ g.res = h.res
    /\ \A q \in Regs : q = r \/ g.x[q] = h.x[q]

\* The cell of a number.
LEMMA CellIs ==
    ASSUME NEW v \in Int
    PROVE  Cell(v) \in Cells
<1>1. ADDR \in 0 .. XLEN
    BY HartAssumption
<1> QED
    BY <1>1, LowIs DEF Cell, Cells

\* A number that is written, to a register or to none.
LEMMA SetNumbers ==
    ASSUME NEW g, NEW r \in Regs, NEW v \in Int, Numbers(g)
    PROVE  /\ Numbers(SetX(g, r, v)) /\ SetX(g, r, v).pc = g.pc /\ SetX(g, r, v).m = g.m
           /\ SetX(g, r, v).res = g.res
           /\ r # 0 => SetX(g, r, v).x[r] = v
           /\ \A q \in Regs : q # r => SetX(g, r, v).x[q] = g.x[q]
<1> DEFINE z == SetX(g, r, v)
<1>1. /\ g = [x |-> g.x, m |-> g.m, pc |-> g.pc, res |-> g.res]
      /\ g.x \in [Regs -> Int] /\ g.x[0] = 0 /\ g.pc \in Int /\ g.m \in [Cells -> Int] /\ 0 \in Regs
    BY HartAssumption DEF Numbers, Machine
<1>2. CASE r = 0
    <2>1. z = g
        BY <1>2 DEF SetX
    <2> QED
        BY <1>1, <1>2, <2>1
<1>3. CASE r # 0
    <2> DEFINE y == [g.x EXCEPT ![r] = v]
    <2>1. y \in [Regs -> Int] /\ y[0] = 0 /\ y[r] = v /\ \A q \in Regs : q # r => y[q] = g.x[q]
        BY <1>1, <1>3
    <2>2. z = [x |-> y, m |-> g.m, pc |-> g.pc, res |-> g.res]
        <3>1. z = [g EXCEPT !.x[r] = v]
            BY <1>3 DEF SetX
        <3> QED
            BY <1>1, <3>1
    <2> HIDE DEF y, z
    <2>3. Numbers(z)
        BY <1>1, <2>1, <2>2 DEF Numbers, Machine
    <2> QED
        BY <2>1, <2>2, <2>3 DEF z
<1> QED
    BY <1>2, <1>3

\* One that has gone on by an address.
LEMMA SkipNumbers ==
    ASSUME NEW g, Numbers(g)
    PROVE  /\ Numbers(Skip(g)) /\ Skip(g).pc = g.pc + 1 /\ Skip(g).m = g.m /\ Skip(g).x = g.x
           /\ Skip(g).res = g.res
    BY DEF Numbers, Machine, Skip

\* Two that have both gone on by an address are as far apart as they were.
LEMMA SkipApart ==
    ASSUME NEW r, NEW g, NEW h, Apart(r, g, h)
    PROVE  Apart(r, Skip(g), Skip(h)) /\ Skip(g).pc = g.pc + 1 /\ Skip(g).x = g.x /\ Skip(h).x = h.x
    BY SkipNumbers DEF Apart

\* The same number written by both to another register.
LEMMA SetApart ==
    ASSUME NEW r \in Regs, NEW g, NEW h, NEW q \in Regs, NEW v \in Int, Apart(r, g, h)
    PROVE  /\ Apart(r, SetX(g, q, v), SetX(h, q, v)) /\ SetX(g, q, v).pc = g.pc
           /\ q # r => SetX(g, q, v).x[r] = g.x[r] /\ SetX(h, q, v).x[r] = h.x[r]
           /\ q = r /\ r # 0 => SetX(g, q, v).x[r] = SetX(h, q, v).x[r]
<1>1. Numbers(g) /\ Numbers(h)
    BY DEF Apart
<1> DEFINE y == SetX(g, q, v)
           z == SetX(h, q, v)
<1>2. /\ Numbers(y) /\ y.pc = g.pc /\ y.m = g.m /\ y.res = g.res
      /\ q # 0 => y.x[q] = v
      /\ \A t \in Regs : t # q => y.x[t] = g.x[t]
    BY <1>1, SetNumbers
<1>3. /\ Numbers(z) /\ z.pc = h.pc /\ z.m = h.m /\ z.res = h.res
      /\ q # 0 => z.x[q] = v
      /\ \A t \in Regs : t # q => z.x[t] = h.x[t]
    BY <1>1, SetNumbers
<1>4. g.x[0] = h.x[0] /\ y.x[0] = z.x[0]
    BY <1>1, <1>2, <1>3 DEF Numbers, Machine
<1> HIDE DEF y, z
<1>5. \A t \in Regs : t = r \/ y.x[t] = z.x[t]
    BY <1>2, <1>3, <1>4 DEF Apart
<1>6. Apart(r, y, z)
    BY <1>2, <1>3, <1>5 DEF Apart
<1> QED
    BY <1>2, <1>3, <1>6 DEF y, z

\* What the register holds in each stays while another is written.
LEMMA SetAway ==
    ASSUME NEW r \in Regs, NEW g, NEW h, NEW q \in Regs, NEW v \in Int, Apart(r, g, h), q # r
    PROVE  /\ Apart(r, SetX(g, q, v), SetX(h, q, v)) /\ SetX(g, q, v).pc = g.pc
           /\ SetX(g, q, v).x[r] = g.x[r] /\ SetX(h, q, v).x[r] = h.x[r]
    BY SetApart

\* Once both write it they hold the same there.
LEMMA SetHere ==
    ASSUME NEW r \in Regs, NEW g, NEW h, NEW v \in Int, Apart(r, g, h), r # 0
    PROVE  /\ Apart(r, SetX(g, r, v), SetX(h, r, v)) /\ SetX(g, r, v).pc = g.pc
           /\ SetX(g, r, v).x[r] = SetX(h, r, v).x[r]
    BY SetApart

\* A store, and what an atomic leaves reserved.
StoredIn(g, c, v) == [g EXCEPT !.m[c] = v]

Reserves(g, q) == [g EXCEPT !.res = q]

\* Both store the same number in the same cell.
LEMMA StoreApart ==
    ASSUME NEW r, NEW g, NEW h, NEW c \in Cells, NEW v \in Int, Apart(r, g, h)
    PROVE  /\ Apart(r, StoredIn(g, c, v), StoredIn(h, c, v))
           /\ StoredIn(g, c, v).pc = g.pc /\ StoredIn(g, c, v).x = g.x /\ StoredIn(h, c, v).x = h.x
<1>1. ASSUME NEW k, Numbers(k)
      PROVE  /\ Numbers(StoredIn(k, c, v)) /\ StoredIn(k, c, v).pc = k.pc /\ StoredIn(k, c, v).x = k.x
             /\ StoredIn(k, c, v).m = [k.m EXCEPT ![c] = v] /\ StoredIn(k, c, v).res = k.res
    <2>1. /\ k = [x |-> k.x, m |-> k.m, pc |-> k.pc, res |-> k.res]
          /\ k.x \in [Regs -> Int] /\ k.x[0] = 0 /\ k.pc \in Int /\ k.m \in [Cells -> Int]
        BY <1>1 DEF Numbers, Machine
    <2> DEFINE m == [k.m EXCEPT ![c] = v]
               z == StoredIn(k, c, v)
    <2>2. z = [x |-> k.x, m |-> m, pc |-> k.pc, res |-> k.res]
        BY <2>1 DEF StoredIn
    <2>3. m \in [Cells -> Int]
        BY <2>1
    <2> HIDE DEF m, z
    <2>4. Numbers(z) /\ z.pc = k.pc /\ z.x = k.x /\ z.m = m /\ z.res = k.res
        BY <2>1, <2>2, <2>3 DEF Numbers, Machine
    <2> QED
        BY <2>4 DEF m, z
<1> DEFINE y == StoredIn(g, c, v)
           z == StoredIn(h, c, v)
<1>2. /\ Numbers(y) /\ y.pc = g.pc /\ y.x = g.x /\ y.m = [g.m EXCEPT ![c] = v] /\ y.res = g.res
      /\ Numbers(z) /\ z.pc = h.pc /\ z.x = h.x /\ z.m = [h.m EXCEPT ![c] = v] /\ z.res = h.res
    BY <1>1 DEF Apart
<1> HIDE DEF y, z
<1>3. Apart(r, y, z) /\ y.pc = g.pc /\ y.x = g.x /\ z.x = h.x
    BY <1>2 DEF Apart
<1> QED
    BY <1>3 DEF y, z

\* Both reserve the same.
LEMMA ReserveApart ==
    ASSUME NEW r, NEW g, NEW h, NEW q, Apart(r, g, h)
    PROVE  /\ Apart(r, Reserves(g, q), Reserves(h, q))
           /\ Reserves(g, q).pc = g.pc /\ Reserves(g, q).x = g.x /\ Reserves(h, q).x = h.x
           /\ Reserves(g, q).m = g.m
<1>1. ASSUME NEW k, Numbers(k)
      PROVE  /\ Numbers(Reserves(k, q)) /\ Reserves(k, q).pc = k.pc /\ Reserves(k, q).x = k.x
             /\ Reserves(k, q).m = k.m /\ Reserves(k, q).res = q
    <2>1. k = [x |-> k.x, m |-> k.m, pc |-> k.pc, res |-> k.res]
        BY <1>1 DEF Numbers, Machine
    <2> QED
        BY <1>1, <2>1 DEF Numbers, Machine, Reserves
<1> QED
    BY <1>1 DEF Apart

\* A conditional store is both.
LEMMA StoredBoth ==
    ASSUME NEW g, NEW c, NEW v
    PROVE  Stored(g, c, v) = Reserves(StoredIn(g, c, v), {})
<1>1. Stored(g, c, v) = [[g EXCEPT !.m[c] = v] EXCEPT !.res = {}]
    BY Zenon DEF Stored
<1> QED
    BY <1>1 DEF Reserves, StoredIn

\* What is in the cell an access is at, and the cell, are the same for both.
LEMMA SameOperands ==
    ASSUME NEW r, NEW g, NEW h, NEW i \in Insns, Apart(r, g, h), i.a # r, i.b # r
    PROVE  /\ g.x[i.a] = h.x[i.a] /\ g.x[i.a] \in Int
           /\ Operand(i, g) = Operand(i, h) /\ Operand(i, g) \in Int
           /\ i.b # Imm => g.x[i.b] = h.x[i.b] /\ g.x[i.b] \in Int
<1>1. i.a \in Regs /\ i.k \in Int /\ (i.b # Imm => i.b \in Regs)
    BY DEF Insns
<1>2. g.x \in [Regs -> Int]
    BY DEF Apart, Numbers, Machine
<1> QED
    BY <1>1, <1>2 DEF Apart, Operand

\* An instruction that both run keeps them apart in r only, and leaves r alone.
Crosses(r, g, h, i) ==
    /\ Apart(r, Exec(g, i), Exec(h, i)) /\ Exec(g, i).pc = g.pc
    /\ Exec(g, i).x[r] = g.x[r] /\ Exec(h, i).x[r] = h.x[r]

\* The instructions that neither name r nor end a walk.
Unnamed(r, i) == i \in Insns /\ ~rv_may_name(i, r) /\ ~rv_stops_walk(i)

\* What writes the same number to another register keeps them apart in r only.
LEMMA CrossSet ==
    ASSUME NEW r \in Regs, NEW g, NEW h, NEW i, NEW v \in Int, Apart(r, g, h), Unnamed(r, i),
           Exec(g, i) = SetX(g, i.rd, v), Exec(h, i) = SetX(h, i.rd, v)
    PROVE  Crosses(r, g, h, i)
<1>1. i.rd \in Regs /\ i.rd # r
    BY DEF Unnamed, Insns, rv_may_name
<1> QED
    BY <1>1, SetApart DEF Crosses

\* What a load makes of a number is a number.
LEMMA LoadedInt ==
    ASSUME NEW i \in Insns, NEW v \in Int
    PROVE  Loaded(i, v) \in Int
<1>1. v + 2 * i.n \in Int
    BY DEF Insns
<1>2. WORD \in 1 .. XLEN /\ XLEN \in 1 .. XLEN /\ 0 \in 0 .. XLEN /\ WORD \in 0 .. XLEN
    BY HartAssumption
<1>3. Sext(XLEN, v + 2 * i.n) \in Int
    BY <1>1, <1>2, CutInt
<1>4. Boxed(v) \in Int
    <2>1. Low(WORD, v) \in Int /\ 2^WORD \in Int
        BY <1>2, CutInt, PowerIs
    <2> QED
        BY <2>1 DEF Boxed
<1> QED
    BY <1>3, <1>4 DEF Loaded

\* A load does: both read the same cell.
LEMMA CrossLoad ==
    ASSUME NEW r \in Regs, NEW g, NEW h, NEW i, Apart(r, g, h), Unnamed(r, i),
           i.op \in {"load", "lxs"}
    PROVE  Crosses(r, g, h, i)
<1>1. i \in Insns /\ i.a # r /\ i.b # r /\ i.k \in Int /\ g.m = h.m /\ g.m \in [Cells -> Int]
    BY DEF Unnamed, Insns, rv_may_name, Apart, Numbers
<1>2. /\ g.x[i.a] = h.x[i.a] /\ g.x[i.a] \in Int
      /\ i.b # Imm => g.x[i.b] = h.x[i.b] /\ g.x[i.b] \in Int
    BY <1>1, SameOperands
<1> DEFINE u == AccessAt(i, g.x)
<1>3. AccessAt(i, h.x) = u /\ u \in Int
    <2>1. CASE i.op = "load"
        BY <1>1, <1>2, <2>1 DEF AccessAt
    <2>2. CASE i.op = "lxs"
        <3>1. i.b # Imm /\ i.k \in 0 .. 3
            BY <1>1, <2>2 DEF Insns
        <3> DEFINE y == g.x[i.b]
                   w == IF i.to = 1 THEN Low(WORD, y) ELSE y
        <3>2. y \in Int /\ WORD \in 1 .. XLEN /\ 0 \in 0 .. XLEN /\ i.k \in 0 .. XLEN
            BY <1>2, <3>1, HartAssumption
        <3>3. Low(WORD, y) \in Int
            BY <3>2, CutInt
        <3>4. w \in Int
            BY <3>2, <3>3
        <3> HIDE DEF w
        <3>5. w * 2^i.k \in Int
            BY <3>2, <3>4, CutInt
        <3>6. g.x[i.a] + w * 2^i.k \in Int
            BY <1>2, <3>5
        <3>7. u = g.x[i.a] + w * 2^i.k /\ AccessAt(i, h.x) = u
            BY <1>2, <2>2, <3>1 DEF AccessAt, w
        <3> QED
            BY <3>6, <3>7
    <2> QED
        BY <2>1, <2>2
<1> DEFINE v == Loaded(i, g.m[Cell(u)])
<1>4. v \in Int
    <2>1. Cell(u) \in Cells
        BY <1>3, CellIs
    <2> DEFINE w == g.m[Cell(u)]
    <2>2. w \in Int
        BY <1>1, <2>1
    <2> HIDE DEF w
    <2>3. Loaded(i, w) \in Int
        BY <1>1, <2>2, LoadedInt
    <2> QED
        BY <2>3 DEF w
<1>5. ASSUME NEW k, k.m = g.m, AccessAt(i, k.x) = u
      PROVE  Exec(k, i) = SetX(k, i.rd, v)
    <2> HIDE DEF u
    <2>1. CASE i.op = "load"
        <3>1. Exec(k, i) = SetX(k, i.rd, Loaded(i, k.m[Cell(k.x[i.a] + i.k)]))
            BY <2>1 DEF Exec, Branches, Atomics
        <3>2. k.x[i.a] + i.k = u
            BY <1>5, <2>1 DEF AccessAt
        <3> QED
            BY <1>5, <3>1, <3>2
    <2>2. CASE i.op = "lxs"
        <3>1. Exec(k, i) = SetX(k, i.rd, Loaded(i, k.m[Cell(k.x[i.a] + Index(i, k))]))
            BY <2>2 DEF Exec, Branches, Atomics
        <3>2. k.x[i.a] + Index(i, k) = u
            BY <1>5, <2>2 DEF AccessAt, Index
        <3> QED
            BY <1>5, <3>1, <3>2
    <2> QED
        BY <2>1, <2>2
<1> HIDE DEF u, v
<1>6. Exec(g, i) = SetX(g, i.rd, v) /\ Exec(h, i) = SetX(h, i.rd, v)
    BY <1>1, <1>3, <1>5 DEF u
<1> QED
    BY <1>4, <1>6, CrossSet

\* A store does: both write the same number to the same cell.
LEMMA CrossStore ==
    ASSUME NEW r \in Regs, NEW g, NEW h, NEW i, Apart(r, g, h), Unnamed(r, i),
           i.op = "store"
    PROVE  Crosses(r, g, h, i)
<1>1. i \in Insns /\ i.a # r /\ i.b # r /\ i.k \in Int /\ i.b # Imm
    BY DEF Unnamed, Insns, rv_may_name
<1>2. /\ g.x[i.a] = h.x[i.a] /\ g.x[i.a] \in Int
      /\ g.x[i.b] = h.x[i.b] /\ g.x[i.b] \in Int
    BY <1>1, SameOperands
<1> DEFINE u == g.x[i.a] + i.k
           v == g.x[i.b]
<1>3. Cell(u) \in Cells /\ v \in Int
    BY <1>1, <1>2, CellIs
<1>4. Exec(g, i) = StoredIn(g, Cell(u), v) /\ Exec(h, i) = StoredIn(h, Cell(u), v)
    <2>1. \A k : Exec(k, i) = [k EXCEPT !.m[Cell(k.x[i.a] + i.k)] = k.x[i.b]]
        BY DEF Exec, Branches, Atomics
    <2> QED
        BY <1>2, <2>1 DEF StoredIn
<1> DEFINE c == Cell(u)
<1> HIDE DEF u, v
<1>5. c \in Cells /\ Exec(g, i) = StoredIn(g, c, v) /\ Exec(h, i) = StoredIn(h, c, v)
    BY <1>3, <1>4
<1> HIDE DEF c
<1> DEFINE y == StoredIn(g, c, v)
           z == StoredIn(h, c, v)
<1>6. Apart(r, y, z) /\ y.pc = g.pc /\ y.x = g.x /\ z.x = h.x
    BY <1>3, <1>5, StoreApart
<1> HIDE DEF y, z
<1> QED
    BY <1>5, <1>6 DEF Crosses, y, z

\* An atomic does: both find the same number and leave the same one and reservation.
LEMMA CrossAtomic ==
    ASSUME NEW r \in Regs, NEW g, NEW h, NEW i, Apart(r, g, h), Unnamed(r, i),
           i.op \in Atomics
    PROVE  Crosses(r, g, h, i)
<1>1. /\ i \in Insns /\ i.a # r /\ i.b # r /\ i.rd # r /\ i.rd \in Regs /\ i.n \in 1 .. XLEN
      /\ g.m = h.m /\ g.m \in [Cells -> Int] /\ g.res = h.res
    BY DEF Unnamed, Insns, rv_may_name, Atomics, Apart, Numbers
<1>0. i.rd \in Regs /\ i.rd # r
    BY <1>1
<1>2. /\ g.x[i.a] = h.x[i.a] /\ g.x[i.a] \in Int
      /\ i.b # Imm => g.x[i.b] = h.x[i.b] /\ g.x[i.b] \in Int
    BY <1>1, SameOperands
<1>3. g.x[i.rd] = h.x[i.rd]
    BY <1>1 DEF Apart
<1> DEFINE c == Cell(g.x[i.a])
           v == Sext(i.n, g.m[c])
           w == Sext(i.n, g.x[i.b])
<1>4. c \in Cells /\ v \in Int /\ 0 \in Int /\ 1 \in Int
    <2>1. c \in Cells
        BY <1>2, CellIs
    <2> DEFINE t == g.m[c]
    <2>2. t \in Int /\ 0 \in 0 .. XLEN
        BY <1>1, <2>1, HalfLemma
    <2> HIDE DEF t
    <2>3. Sext(i.n, t) \in Int
        BY <1>1, <2>2, CutInt
    <2> QED
        BY <2>1, <2>3 DEF t
<1>5. i.b # Imm => w \in Int
    <2>1. 0 \in 0 .. XLEN
        BY HalfLemma
    <2> QED
        BY <1>1, <1>2, <2>1, CutInt
<1>6. Exec(g, i) = ExecAtomic(g, i) /\ Exec(h, i) = ExecAtomic(h, i)
    BY DEF Exec, Branches, Atomics
<1>7. ASSUME NEW k, k.x[i.a] = g.x[i.a], k.m = g.m, k.res = g.res, k.x[i.b] = g.x[i.b], k.x[i.rd] = g.x[i.rd]
      PROVE  /\ i.op = "lr" => ExecAtomic(k, i) = Reserves(SetX(k, i.rd, v), {c})
             /\ i.op = "sc" => ExecAtomic(k, i) = IF c \in g.res THEN SetX(Stored(k, c, w), i.rd, 0)
                                                  ELSE SetX(Reserves(k, {}), i.rd, 1)
             /\ i.op = "amocas" => ExecAtomic(k, i) =
                    SetX(IF Low(i.n, g.m[c]) = Low(i.n, g.x[i.rd]) THEN Stored(k, c, w) ELSE k, i.rd, v)
    BY <1>7 DEF ExecAtomic, Reserves, Stored
<1>8. i.op # "lr" => i.b # Imm
    BY <1>1 DEF Insns, Atomics
<1>9. i.b # Imm => h.x[i.b] = g.x[i.b]
    BY <1>2
<1> HIDE DEF c, v, w
<1>10. CASE i.op = "lr"
    <2>1. Apart(r, SetX(g, i.rd, v), SetX(h, i.rd, v)) /\ SetX(g, i.rd, v).pc = g.pc
          /\ SetX(g, i.rd, v).x[r] = g.x[r] /\ SetX(h, i.rd, v).x[r] = h.x[r]
        <3>1. v \in Int
            BY <1>4
        <3> QED
            BY <1>0, <3>1, SetAway
    <2>2. \A k : k.x[i.a] = g.x[i.a] /\ k.m = g.m => ExecAtomic(k, i) = Reserves(SetX(k, i.rd, v), {c})
        BY <1>10 DEF ExecAtomic, Reserves, c, v
    <2>3. Exec(g, i) = Reserves(SetX(g, i.rd, v), {c}) /\ Exec(h, i) = Reserves(SetX(h, i.rd, v), {c})
        BY <1>1, <1>2, <1>6, <2>2
    <2> QED
        BY <2>1, <2>3, ReserveApart DEF Crosses
<1>11. ASSUME i.b # Imm
       PROVE  /\ Apart(r, Stored(g, c, w), Stored(h, c, w)) /\ Stored(g, c, w).pc = g.pc
              /\ Stored(g, c, w).x = g.x /\ Stored(h, c, w).x = h.x
    <2> DEFINE y == StoredIn(g, c, w)
               z == StoredIn(h, c, w)
    <2>1. Apart(r, y, z) /\ y.pc = g.pc /\ y.x = g.x /\ z.x = h.x
        BY <1>4, <1>5, <1>11, StoreApart
    <2>2. Stored(g, c, w) = Reserves(y, {}) /\ Stored(h, c, w) = Reserves(z, {})
        BY StoredBoth
    <2> HIDE DEF y, z
    <2> QED
        BY <2>1, <2>2, ReserveApart
<1>12. ASSUME NEW y, NEW z, NEW t \in Int, Apart(r, y, z), y.pc = g.pc, y.x = g.x, z.x = h.x,
              Exec(g, i) = SetX(y, i.rd, t), Exec(h, i) = SetX(z, i.rd, t)
       PROVE  Crosses(r, g, h, i)
    <2> DEFINE p == SetX(y, i.rd, t)
              q == SetX(z, i.rd, t)
    <2>1. Apart(r, p, q) /\ p.pc = y.pc /\ p.x[r] = y.x[r] /\ q.x[r] = z.x[r]
        BY <1>0, <1>12, SetAway
    <2> HIDE DEF p, q
    <2> QED
        BY <1>12, <2>1 DEF Crosses, p, q
<1>13. CASE i.op = "sc"
    <2>1. i.b # Imm /\ h.x[i.b] = g.x[i.b]
        BY <1>8, <1>9, <1>13
    <2>2. CASE c \in g.res
        <3>1. Exec(g, i) = SetX(Stored(g, c, w), i.rd, 0) /\ Exec(h, i) = SetX(Stored(h, c, w), i.rd, 0)
            BY <1>1, <1>2, <1>3, <1>6, <1>7, <1>13, <2>1, <2>2
        <3> QED
            BY <1>4, <1>11, <1>12, <2>1, <3>1
    <2>3. CASE c \notin g.res
        <3>1. /\ Exec(g, i) = SetX(Reserves(g, {}), i.rd, 1)
              /\ Exec(h, i) = SetX(Reserves(h, {}), i.rd, 1)
            BY <1>1, <1>2, <1>3, <1>6, <1>7, <1>13, <2>1, <2>3
        <3> QED
            BY <1>4, <1>12, <3>1, ReserveApart
    <2> QED
        BY <2>2, <2>3
<1>14. CASE i.op = "amocas"
    <2>1. i.b # Imm /\ h.x[i.b] = g.x[i.b]
        BY <1>8, <1>9, <1>14
    <2>2. CASE Low(i.n, g.m[c]) = Low(i.n, g.x[i.rd])
        <3>1. Exec(g, i) = SetX(Stored(g, c, w), i.rd, v) /\ Exec(h, i) = SetX(Stored(h, c, w), i.rd, v)
            BY <1>1, <1>2, <1>3, <1>6, <1>7, <1>14, <2>1, <2>2
        <3> QED
            BY <1>4, <1>11, <1>12, <2>1, <3>1
    <2>3. CASE Low(i.n, g.m[c]) # Low(i.n, g.x[i.rd])
        <3>1. Exec(g, i) = SetX(g, i.rd, v) /\ Exec(h, i) = SetX(h, i.rd, v)
            BY <1>1, <1>2, <1>3, <1>6, <1>7, <1>14, <2>1, <2>3
        <3> QED
            BY <1>4, <1>12, <3>1
    <2> QED
        BY <2>2, <2>3
<1> QED
    BY <1>10, <1>13, <1>14 DEF Atomics

\* What computes writes what it computes.
LEMMA ExecPlain ==
    ASSUME NEW h, NEW i, Plainly(i)
    PROVE  Exec(h, i) = SetX(h, i.rd, Value(i.op, i.n, i.k, h.x[i.a], Operand(i, h)))
    BY DEF Exec, Plainly, Transfers, Branches, Accesses, Atomics

\* What computes does: its operands are the same in both.
LEMMA CrossPlain ==
    ASSUME NEW r \in Regs, NEW g, NEW h, NEW i, Apart(r, g, h), Unnamed(r, i), Plainly(i)
    PROVE  Crosses(r, g, h, i)
<1>1. i \in Insns /\ i.a # r /\ i.b # r
    BY DEF Unnamed, rv_may_name
<1>2. /\ g.x[i.a] = h.x[i.a] /\ g.x[i.a] \in Int
      /\ Operand(i, g) = Operand(i, h) /\ Operand(i, g) \in Int
    BY <1>1, SameOperands
<1> DEFINE u == g.x[i.a]
           v == Operand(i, g)
           w == Value(i.op, i.n, i.k, u, v)
<1>3. Exec(g, i) = SetX(g, i.rd, w) /\ Exec(h, i) = SetX(h, i.rd, w)
    BY <1>2, ExecPlain
<1>4. w \in Int
    <2> HIDE DEF u, v
    <2>1. u \in Int /\ v \in Int
        BY <1>2 DEF u, v
    <2> QED
        BY <1>1, <2>1, ValueInt
<1> HIDE DEF w
<1> QED
    BY <1>3, <1>4, CrossSet

\* auipc does, and what does nothing.
LEMMA CrossOther ==
    ASSUME NEW r \in Regs, NEW g, NEW h, NEW i, Apart(r, g, h), Unnamed(r, i),
           i.op \in {"auipc", "other"}
    PROVE  Crosses(r, g, h, i)
<1>1. i \in Insns /\ i.k \in Int /\ g.pc \in Int /\ g.pc = h.pc
    BY DEF Unnamed, Insns, Apart, Numbers, Machine
<1>2. CASE i.op = "auipc"
    <2> DEFINE v == g.pc - 1 + i.k
    <2>1. v \in Int
        BY <1>1
    <2>2. \A k : Exec(k, i) = SetX(k, i.rd, k.pc - 1 + i.k)
        BY <1>2 DEF Exec, Branches, Atomics
    <2>3. Exec(g, i) = SetX(g, i.rd, v) /\ Exec(h, i) = SetX(h, i.rd, v)
        BY <1>1, <2>2
    <2> HIDE DEF v
    <2> QED
        BY <2>1, <2>3, CrossSet
<1>3. CASE i.op = "other"
    <2>1. Exec(g, i) = g /\ Exec(h, i) = h
        BY <1>3 DEF Exec, Branches, Atomics
    <2> QED
        BY <2>1 DEF Crosses
<1> QED
    BY <1>2, <1>3

\* Whatever does not name r and does not stop a walk crosses it.
LEMMA CrossApart ==
    ASSUME NEW r \in Regs, NEW g, NEW h, NEW i, Apart(r, g, h), Unnamed(r, i)
    PROVE  Crosses(r, g, h, i)
<1>1. i.op \notin Transfers \cup {"ecall"}
    BY DEF Unnamed, rv_stops_walk
<1>2. i.op \in {"load", "lxs"} \/ i.op = "store" \/ i.op \in Atomics \/ i.op \in {"auipc", "other"} \/ Plainly(i)
    BY <1>1 DEF Plainly, Accesses
<1> QED
    BY <1>2, CrossLoad, CrossStore, CrossAtomic, CrossOther, CrossPlain

-------------------------------------------------------------------------------
(* The code and a patch side by side over a straight line.                 *)

\* At p they are apart in r at most, and what r holds in each is a pair of E[p].
Track(r, E, p, g, h) == Apart(r, g, h) /\ g.pc = p /\ <<g.x[r], h.x[r]>> \in E[p]

\* They stay so from each place to the next, and agree behind the last.
Tracks(s, f, r, E, a, last) ==
    \A p \in a .. last : \A g, h :
        Track(r, E, p, g, h) =>
            Track(r, E, p + 1, ExecAll(Skip(g), Alone(s.code[p])), ExecAll(Skip(h), f.patch[p]))

\* Apart at p they agree.
Joins(s, r, E, p) == \A g, h : Track(r, E, p, g, h) => Agree(s, g, h)

\* A patch of the places from a to last, which are entered at a, and what is relocated
\* stays.
Stretch(s, f, a, last) ==
    /\ a \in Nat \ {0} /\ last \in Nat /\ a <= last
    /\ DOMAIN f.patch = a .. last /\ a .. last \subseteq DOMAIN s.code
    /\ \A p \in a + 1 .. last : ~is_branch_target(s, p)
    /\ \A p \in a .. last : is_relocated(s, p) => f.patch[p] = Alone(s.code[p])

\* Such a stretch is entered at its first place only.
LEMMA StretchEntry ==
    ASSUME NEW s, IsSection(s), NEW f, NEW a, NEW last, Stretch(s, f, a, last)
    PROVE  ComesIn(s, a .. last) \subseteq {a}
<1> SUFFICES ASSUME NEW p \in ComesIn(s, a .. last), p # a
             PROVE  FALSE
    OBVIOUS
<1>1. p \in a .. last
    BY DEF ComesIn
<1>2. p \in a + 1 .. last /\ p - 1 \in a .. last
    BY <1>1 DEF Stretch
<1>3. p \notin s.targets /\ p \in DOMAIN s.code
    BY <1>1, <1>2 DEF Stretch, is_branch_target
<1>4. s.targets = s.note.entries \cup ({t.target : t \in Relatives(s.code)} \cap DOMAIN s.code)
    BY DEF IsSection, SetSection
<1>5. p \notin s.note.entries /\ p \notin {t.target : t \in Relatives(s.code)}
    BY <1>3, <1>4
<1>6. p \notin {t.target : t \in {u \in Relatives(s.code) : u.site \notin a .. last}}
    BY <1>5
<1> QED
    BY <1>2, <1>5, <1>6 DEF ComesIn

\* Where the two runs are: at one place of the line, or gone and in agreement.
SideBySide(s, r, E, a, last, g, h) ==
    \/ \E p \in a .. last : Track(r, E, p, g, h)
    \/ g.pc = last + 1 /\ h.pc = last + 1 /\ Agree(s, g, h)

\* A step of each keeps them side by side.
LEMMA TrackStep ==
    ASSUME NEW s, NEW f, NEW a, NEW last, NEW r, NEW E, NEW g, NEW h, Stretch(s, f, a, last),
           Tracks(s, f, r, E, a, last), Joins(s, r, E, last + 1), SideBySide(s, r, E, a, last, g, h)
    PROVE  SideBySide(s, r, E, a, last, Step(Plain(s), a .. last, g), Step(Patched(s, f), a .. last, h))
<1> DEFINE S == a .. last
           y == Step(Plain(s), S, g)
           z == Step(Patched(s, f), S, h)
<1>1. a \in Int /\ last \in Int /\ DOMAIN f.patch = S /\ S \subseteq DOMAIN s.code
    BY DEF Stretch
<1>2. CASE \E p \in S : Track(r, E, p, g, h)
    <2>1. PICK p \in S : Track(r, E, p, g, h)
        BY <1>2
    <2>2. g.pc = p /\ h.pc = p
        BY <2>1 DEF Track, Apart
    <2>3. y = ExecAll(Skip(g), Alone(s.code[p])) /\ z = ExecAll(Skip(h), f.patch[p])
        <3> HIDE DEF S
        <3> QED
            BY <1>1, <2>1, <2>2 DEF Step, Plain, Patched, Skip, Alone
    <2>4. Track(r, E, p + 1, y, z)
        BY <2>1, <2>3 DEF Tracks
    <2> HIDE DEF y, z
    <2>5. CASE p = last
        <3>1. Agree(s, y, z) /\ y.pc = last + 1 /\ z.pc = last + 1
            BY <2>4, <2>5 DEF Joins, Track, Apart
        <3> QED
            BY <3>1 DEF SideBySide, y, z
    <2>6. CASE p # last
        <3>1. p + 1 \in a .. last
            BY <1>1, <2>1, <2>6
        <3> QED
            BY <2>4, <3>1 DEF SideBySide, y, z
    <2> QED
        BY <2>5, <2>6
<1>3. CASE g.pc = last + 1 /\ h.pc = last + 1 /\ Agree(s, g, h)
    <2>1. g.pc \notin S /\ h.pc \notin S
        BY <1>1, <1>3
    <2>2. y = g /\ z = h
        <3> HIDE DEF S
        <3> QED
            BY <2>1, OutStep
    <2> QED
        BY <1>3, <2>2 DEF SideBySide
<1> QED
    BY <1>2, <1>3 DEF SideBySide

\* The runs of the code and of the patch stay beside each other.
LEMMA TrackRuns ==
    ASSUME NEW s, NEW f, NEW a, NEW last, NEW r, NEW E, NEW start, NEW fuel \in Nat,
           Stretch(s, f, a, last), Tracks(s, f, r, E, a, last), Joins(s, r, E, last + 1),
           Track(r, E, a, start, start)
    PROVE  SideBySide(s, r, E, a, last, Leaving(Plain(s), a .. last, start, fuel),
                                     Leaving(Patched(s, f), a .. last, start, fuel))
<1> DEFINE S == a .. last
           P == Plain(s)
           Q == Patched(s, f)
<1>1. a \in S
    BY DEF Stretch
<1>2. \A g, h : SideBySide(s, r, E, a, last, g, h)
                   => SideBySide(s, r, E, a, last, Step(P, S, g), Step(Q, S, h))
    BY TrackStep
<1>3. SideBySide(s, r, E, a, last, start, start)
    BY <1>1 DEF SideBySide
<1> HIDE DEF S, P, Q
<1>4. PICK G : /\ \A k \in 0 .. fuel : G[k] = IF k = 0 THEN start ELSE Step(P, S, G[k - 1])
               /\ Leaving(P, S, start, fuel) = G[fuel]
    BY LeavingRun
<1>5. PICK H : /\ \A k \in 0 .. fuel : H[k] = IF k = 0 THEN start ELSE Step(Q, S, H[k - 1])
               /\ Leaving(Q, S, start, fuel) = H[fuel]
    BY LeavingRun
<1> DEFINE T == {k \in Nat : k <= fuel => SideBySide(s, r, E, a, last, G[k], H[k])}
<1>6. ASSUME NEW k \in Nat, \A j \in Nat : j < k => j \in T
      PROVE  k \in T
    <2> SUFFICES ASSUME k <= fuel
                 PROVE  SideBySide(s, r, E, a, last, G[k], H[k])
        OBVIOUS
    <2>1. CASE k = 0
        BY <1>3, <1>4, <1>5, <2>1
    <2>2. CASE k # 0
        <3>1. k - 1 \in Nat /\ k - 1 < k /\ k - 1 <= fuel /\ k \in 0 .. fuel
            BY <2>2
        <3>2. G[k] = Step(P, S, G[k - 1]) /\ H[k] = Step(Q, S, H[k - 1])
            BY <1>4, <1>5, <2>2, <3>1
        <3>3. SideBySide(s, r, E, a, last, G[k - 1], H[k - 1])
            BY <1>6, <3>1
        <3> HIDE DEF T
        <3> QED
            BY <1>2, <3>2, <3>3
    <2> QED
        BY <2>1, <2>2
<1>7. Nat \subseteq T
    <2> HIDE DEF T
    <2> QED
        BY <1>6, SetInduction
<1>8. SideBySide(s, r, E, a, last, G[fuel], H[fuel])
    BY <1>7
<1> QED
    BY <1>4, <1>5, <1>8 DEF S, P, Q

\* A patch of such a line holds.
LEMMA TrackHolds ==
    ASSUME NEW s, IsSection(s), NEW f, NEW a, NEW last, NEW r, NEW E, NEW x, NEW m, NEW fuel \in Nat,
           Stretch(s, f, a, last), Tracks(s, f, r, E, a, last), Joins(s, r, E, last + 1),
           Track(r, E, a, Start(s, x, m, a), Start(s, x, m, a))
    PROVE  Holds(s, f, x, m, fuel)
<1> DEFINE S == a .. last
           start == Start(s, x, m, a)
           G == Leaving(Plain(s), S, start, fuel)
           H == Leaving(Patched(s, f), S, start, fuel)
<1>1. ComesIn(s, S) \subseteq {a}
    BY StretchEntry
<1>2. SideBySide(s, r, E, a, last, G, H)
    <2> HIDE DEF start
    <2> QED
        BY TrackRuns DEF start
<1> HIDE DEF G, H
<1>3. {G.pc, H.pc} \subseteq S \/ Agree(s, G, H)
    BY <1>2 DEF SideBySide, Track, Apart
<1>4. \A p \in S : is_relocated(s, p) => \E n \in DOMAIN f.patch[p] : f.patch[p][n] = s.code[p]
    <2> SUFFICES ASSUME NEW p \in S, is_relocated(s, p)
                 PROVE  \E n \in DOMAIN f.patch[p] : f.patch[p][n] = s.code[p]
        OBVIOUS
    <2>1. f.patch[p] = <<s.code[p]>>
        BY DEF Stretch, Alone
    <2>2. 1 \in DOMAIN <<s.code[p]>> /\ <<s.code[p]>>[1] = s.code[p]
        OBVIOUS
    <2> QED
        BY <2>1, <2>2
<1>5. DOMAIN f.patch = S
    BY DEF Stretch
<1> HIDE DEF S, start
<1>6. \A p \in ComesIn(s, S) : p = a
    BY <1>1
<1>7. {G.pc, H.pc} \subseteq DOMAIN f.patch \/ Agree(s, G, H)
    BY <1>3, <1>5
<1> QED
    BY <1>4, <1>5, <1>6, <1>7 DEF Holds, G, H, start

\* The last of some places.
LEMMA LastIs ==
    ASSUME NEW n \in Nat, NEW S, S \subseteq 1 .. n, S # {}
    PROVE  LastOf(S) \in S /\ \A q \in S : q <= LastOf(S)
<1> DEFINE T == {j \in Nat : n - j \notin S}
<1>1. ASSUME ~ \E p \in S : \A q \in S : q <= p
      PROVE  FALSE
    <2>1. ASSUME NEW j \in Nat, \A k \in Nat : k < j => k \in T
          PROVE  j \in T
        <3> SUFFICES ASSUME n - j \in S
                     PROVE  FALSE
            OBVIOUS
        <3>1. ASSUME NEW q \in S, ~(q <= n - j)
              PROVE  FALSE
            <4>1. n - q \in Nat /\ n - q < j /\ n - (n - q) = q
                BY <3>1
            <4>2. n - q \in T
                BY <2>1, <4>1
            <4> QED
                BY <4>1, <4>2
        <3> QED
            BY <1>1, <3>1
    <2>2. Nat \subseteq T
        <3> HIDE DEF T
        <3> QED
            BY <2>1, SetInduction
    <2>3. PICK q \in S : TRUE
        OBVIOUS
    <2>4. n - q \in Nat /\ n - (n - q) = q
        OBVIOUS
    <2> QED
        BY <2>2, <2>4
<1> QED
    BY <1>1 DEF LastOf

\* A walk of uses: where it ends, and what each place on the way there is.
LEMMA UsesWalk ==
    ASSUME NEW s, IsSection(s), NEW from \in Nat \ {0}, NEW walk \in Nat, NEW r, NEW becomes, NEW last,
           Uses(s, from, walk, r, becomes) # {}, last = LastOf(Uses(s, from, walk, r, becomes))
    PROVE  /\ last \in Uses(s, from, walk, r, becomes)
           /\ last \in from .. Len(s.code) /\ becomes[last] # {}
           /\ \A p \in from .. last :
                /\ ~is_branch_target(s, p)
                /\ becomes[p] # {} <=> p \in Uses(s, from, walk, r, becomes)
                /\ becomes[p] # {} => ~is_relocated(s, p)
                /\ becomes[p] = {} => ~rv_may_name(s.code[p], r) /\ ~rv_stops_walk(s.code[p])
           /\ \A p \in from .. last - 1 : becomes[p] # {} => s.code[p].rd # r
<1> DEFINE U == Uses(s, from, walk, r, becomes)
<1>1. DOMAIN s.code = 1 .. Len(s.code) /\ Len(s.code) \in Nat
    BY DEF IsSection
<1>2. \A p : p \in U <=> /\ p \in 1 .. Len(s.code) /\ p \in from .. from + walk - 1 /\ becomes[p] # {}
                         /\ \A q \in from .. p : Crossed(s, q, r, becomes)
                         /\ \A q \in from .. p - 1 : ~Ends(s, q, r, becomes)
    BY <1>1 DEF Uses
<1> HIDE DEF U
<1>3. U \subseteq 1 .. Len(s.code)
    BY <1>2
<1>4. last \in U
    BY <1>1, <1>3, LastIs DEF U
<1>5. last \in from .. Len(s.code) /\ last \in Int /\ becomes[last] # {}
    BY <1>1, <1>2, <1>4
<1>6. ASSUME NEW p \in from .. last
      PROVE  Crossed(s, p, r, becomes)
    BY <1>2, <1>4
<1>7. ASSUME NEW p \in from .. last - 1
      PROVE  ~Ends(s, p, r, becomes)
    BY <1>2, <1>4
<1>8. ASSUME NEW p \in from .. last, becomes[p] # {}
      PROVE  p \in U
    <2>1. p \in 1 .. Len(s.code)
        BY <1>1, <1>5
    <2>2. p \in from .. from + walk - 1
        <3>1. last \in from .. from + walk - 1
            BY <1>2, <1>4
        <3> QED
            BY <1>5, <3>1
    <2>3. \A q \in from .. p : q \in from .. last
        BY <1>5
    <2>4. \A q \in from .. p - 1 : q \in from .. last - 1
        BY <1>5
    <2> QED
        BY <1>2, <1>6, <1>7, <1>8, <2>1, <2>2, <2>3, <2>4
<1>9. \A p \in from .. last :
        /\ ~is_branch_target(s, p)
        /\ becomes[p] # {} <=> p \in U
        /\ becomes[p] # {} => ~is_relocated(s, p)
        /\ becomes[p] = {} => ~rv_may_name(s.code[p], r) /\ ~rv_stops_walk(s.code[p])
    BY <1>2, <1>6, <1>8 DEF Crossed
<1>10. \A p \in from .. last - 1 : becomes[p] # {} => s.code[p].rd # r
    BY <1>7 DEF Ends
<1> QED
    BY <1>4, <1>5, <1>9, <1>10 DEF U

\* A machine that starts is one of numbers.
LEMMA StartNumbers ==
    ASSUME NEW s, Constants(s), NEW x \in [Regs -> Words], x[0] = 0, NEW m \in Memory, NEW a \in Int
    PROVE  Numbers(Start(s, x, m, a)) /\ Start(s, x, m, a).pc = a
<1>1. \A w \in Words : w \in Int
    BY HalfLemma
<1>2. x \in [Regs -> Int] /\ m \in [Cells -> Int]
    BY <1>1 DEF Memory, Cells
<1>3. Machine(Int, Start(s, x, m, a)) /\ Start(s, x, m, a).pc = a
    BY <1>2, StartMachine
<1>4. Start(s, x, m, a).m = [c \in DOMAIN m |-> IF c \in DOMAIN s.note.pool THEN s.note.pool[c] ELSE m[c]]
    BY DEF Start
<1>5. \A c \in DOMAIN s.note.pool : s.note.pool[c] \in Int
    BY <1>1 DEF Constants
<1>6. Start(s, x, m, a).m \in [Cells -> Int]
    BY <1>2, <1>4, <1>5
<1> QED
    BY <1>3, <1>6 DEF Numbers

\* The instructions that load r: from a on, what r holds in front of each is in B.
Leads(s, r, B, a, from) ==
    \A p \in a .. from - 1 : \A g :
        Numbers(g) /\ g.pc = p /\ g.x[r] \in B[p] =>
            \E v \in B[p + 1] : v \in Int /\ Exec(Skip(g), s.code[p]) = SetX(Skip(g), r, v)

\* Where r is k, is does for the use i what i does.
Serves(r, k, i, is) ==
    \A g, h : Apart(r, g, h) /\ g.x[r] = k =>
        /\ Apart(r, Exec(g, i), ExecAll(h, is)) /\ Exec(g, i).pc = g.pc
        /\ i.rd # r => Exec(g, i).x[r] = k
        /\ i.rd = r => Exec(g, i).x[r] = ExecAll(h, is).x[r]

\* Every replacement of every use serves.
AllServe(s, r, k, becomes) ==
    \A p \in DOMAIN s.code : \A is \in becomes[p] : Serves(r, k, s.code[p], is)

\* What r holds on the way: what loads it, then k, and behind the last use whatever.
Pairs(B, k, a, from, last, ends) ==
    [p \in a .. last + 1 |->
        IF p = last + 1 THEN (IF ends THEN {<<v, v>> : v \in Int} ELSE Int \X Int)
        ELSE IF p < from THEN B[p] \X Int ELSE {k} \X Int]

\* In front of the uses the code writes r and the patch does nothing.
LEMMA LeadTracks ==
    ASSUME NEW s, NEW f, NEW r \in Regs \ {0}, NEW B, NEW k \in Int, NEW a \in Nat, NEW from \in Nat,
           NEW last \in Nat, NEW ends, from <= last, NEW p \in a .. from - 1, Leads(s, r, B, a, from), B[from] = {k},
           f.patch[p] = Gone, NEW g, NEW h, Track(r, Pairs(B, k, a, from, last, ends), p, g, h)
    PROVE  Track(r, Pairs(B, k, a, from, last, ends), p + 1, ExecAll(Skip(g), Alone(s.code[p])), ExecAll(Skip(h), f.patch[p]))
<1> DEFINE E == Pairs(B, k, a, from, last, ends)
           y == Exec(Skip(g), s.code[p])
           z == Skip(h)
<1>1. p \in a .. last + 1 /\ p # last + 1 /\ p < from /\ p + 1 \in a .. last + 1 /\ p + 1 # last + 1
      /\ p + 1 <= from
    OBVIOUS
<1>2. E[p] = B[p] \X Int /\ E[p + 1] = IF p + 1 < from THEN B[p + 1] \X Int ELSE {k} \X Int
    BY <1>1 DEF Pairs
<1>3. Apart(r, g, h) /\ g.pc = p /\ <<g.x[r], h.x[r]>> \in E[p] /\ Numbers(g) /\ Numbers(h)
    BY DEF Track, Apart
<1>4. g.x[r] \in B[p] /\ h.x[r] \in Int
    BY <1>2, <1>3
<1>5. PICK v \in B[p + 1] : v \in Int /\ y = SetX(Skip(g), r, v)
    BY <1>3, <1>4 DEF Leads
<1>6. Numbers(Skip(g)) /\ Skip(g).pc = p + 1 /\ Skip(g).m = g.m /\ Skip(g).x = g.x /\ Skip(g).res = g.res
    BY <1>3, SkipNumbers
<1>7. Numbers(z) /\ z.pc = h.pc + 1 /\ z.m = h.m /\ z.x = h.x /\ z.res = h.res
    BY <1>3, SkipNumbers
<1> DEFINE g1 == Skip(g)
           t == SetX(g1, r, v)
<1> HIDE DEF g1, y, z, E
<1>8. /\ Numbers(t) /\ t.pc = g1.pc /\ t.m = g1.m /\ t.res = g1.res /\ t.x[r] = v
      /\ \A q \in Regs : q # r => t.x[q] = g1.x[q]
    <2>1. Numbers(g1) /\ v \in Int /\ r \in Regs /\ r # 0
        BY <1>5, <1>6 DEF g1
    <2>2. /\ Numbers(t) /\ t.pc = g1.pc /\ t.m = g1.m
          /\ t.res = g1.res
          /\ r # 0 => t.x[r] = v
          /\ \A q \in Regs : q # r => t.x[q] = g1.x[q]
        BY <2>1, SetNumbers
    <2> QED
        BY <2>1, <2>2
<1> HIDE DEF t
<1>9. y = t
    BY <1>5 DEF t, g1
<1>10. Apart(r, y, z) /\ y.pc = p + 1 /\ y.x[r] = v /\ z.x[r] \in Int
    <2>1. /\ Numbers(y) /\ y.pc = g.pc + 1 /\ y.m = g.m /\ y.res = g.res /\ y.x[r] = v
          /\ \A q \in Regs : q # r => y.x[q] = g.x[q]
        BY <1>3, <1>6, <1>8, <1>9 DEF g1
    <2>2. g.pc = h.pc /\ g.m = h.m /\ g.res = h.res /\ \A q \in Regs : q = r \/ g.x[q] = h.x[q]
        BY <1>3 DEF Apart
    <2>3. \A q \in Regs : q = r \/ y.x[q] = z.x[q]
        BY <1>7, <2>1, <2>2
    <2>4. y.pc = z.pc /\ y.m = z.m /\ y.res = z.res
        BY <1>7, <2>1, <2>2
    <2>5. Apart(r, y, z)
        BY <1>7, <2>1, <2>3, <2>4 DEF Apart
    <2> QED
        BY <1>3, <1>4, <1>7, <2>1, <2>5
<1>11. <<y.x[r], z.x[r]>> \in E[p + 1]
    <2>1. v \in B[p + 1]
        BY <1>5
    <2>2. p + 1 < from \/ p + 1 = from
        BY <1>1
    <2> QED
        BY <1>2, <1>10, <2>1, <2>2
<1>12. ExecAll(Skip(g), Alone(s.code[p])) = y /\ ExecAll(Skip(h), f.patch[p]) = z
    BY ExecOne, ExecNone DEF Alone, Gone, y, z
<1> QED
    BY <1>10, <1>11, <1>12 DEF Track, E

\* A use on the way: what takes its place does what it does.
LEMMA UseTracks ==
    ASSUME NEW s, NEW f, NEW r \in Regs \ {0}, NEW B, NEW k \in Int, NEW a \in Nat, NEW from \in Nat,
           NEW last \in Nat, NEW ends, a < from, NEW p \in from .. last, Serves(r, k, s.code[p], f.patch[p]),
           p # last => s.code[p].rd # r, p = last /\ ends => s.code[p].rd = r,
           NEW g, NEW h, Track(r, Pairs(B, k, a, from, last, ends), p, g, h)
    PROVE  Track(r, Pairs(B, k, a, from, last, ends), p + 1, ExecAll(Skip(g), Alone(s.code[p])), ExecAll(Skip(h), f.patch[p]))
<1> DEFINE E == Pairs(B, k, a, from, last, ends)
           i == s.code[p]
           y == Exec(Skip(g), i)
           z == ExecAll(Skip(h), f.patch[p])
<1>1. p \in a .. last + 1 /\ p # last + 1 /\ ~(p < from) /\ p + 1 \in a .. last + 1 /\ ~(p + 1 < from)
      /\ (p + 1 = last + 1 <=> p = last)
    OBVIOUS
<1>2. /\ E[p] = {k} \X Int
      /\ E[p + 1] = IF p = last THEN (IF ends THEN {<<v, v>> : v \in Int} ELSE Int \X Int) ELSE {k} \X Int
    BY <1>1 DEF Pairs
<1>3. Apart(r, g, h) /\ g.pc = p /\ <<g.x[r], h.x[r]>> \in E[p]
    BY DEF Track
<1>4. g.x[r] = k
    BY <1>2, <1>3
<1>5. Apart(r, Skip(g), Skip(h)) /\ Skip(g).pc = p + 1 /\ Skip(g).x[r] = k
    BY <1>3, <1>4, SkipApart
<1>6. /\ Apart(r, y, z) /\ y.pc = p + 1
      /\ i.rd # r => y.x[r] = k
      /\ i.rd = r => y.x[r] = z.x[r]
    BY <1>5 DEF Serves
<1>7. ExecAll(Skip(g), Alone(s.code[p])) = y
    BY ExecOne DEF Alone
<1> HIDE DEF y, z, E
<1>8. y.x[r] \in Int /\ z.x[r] \in Int
    BY <1>6 DEF Apart, Numbers, Machine
<1>9. <<y.x[r], z.x[r]>> \in E[p + 1]
    <2>1. CASE p # last
        BY <1>2, <1>6, <1>8, <2>1
    <2>2. CASE p = last /\ ends
        BY <1>2, <1>6, <1>8, <2>2
    <2>3. CASE p = last /\ ~ends
        BY <1>2, <1>8, <2>3
    <2> QED
        BY <2>1, <2>2, <2>3
<1> QED
    BY <1>6, <1>7, <1>9 DEF Track, E, z

\* An instruction on the way that is no use crosses.
LEMMA CrossTracks ==
    ASSUME NEW s, NEW f, NEW r \in Regs \ {0}, NEW B, NEW k \in Int, NEW a \in Nat, NEW from \in Nat,
           NEW last \in Nat, NEW ends, a < from, NEW p \in from .. last, p # last, Unnamed(r, s.code[p]),
           f.patch[p] = Alone(s.code[p]),
           NEW g, NEW h, Track(r, Pairs(B, k, a, from, last, ends), p, g, h)
    PROVE  Track(r, Pairs(B, k, a, from, last, ends), p + 1, ExecAll(Skip(g), Alone(s.code[p])), ExecAll(Skip(h), f.patch[p]))
<1> DEFINE E == Pairs(B, k, a, from, last, ends)
           i == s.code[p]
           y == Exec(Skip(g), i)
           z == Exec(Skip(h), i)
<1>1. p \in a .. last + 1 /\ p # last + 1 /\ ~(p < from) /\ p + 1 \in a .. last + 1 /\ ~(p + 1 < from)
      /\ p + 1 # last + 1
    OBVIOUS
<1>2. E[p] = {k} \X Int /\ E[p + 1] = {k} \X Int
    BY <1>1 DEF Pairs
<1>3. Apart(r, g, h) /\ g.pc = p /\ <<g.x[r], h.x[r]>> \in E[p]
    BY DEF Track
<1>4. Apart(r, Skip(g), Skip(h)) /\ Skip(g).pc = p + 1 /\ Skip(g).x = g.x /\ Skip(h).x = h.x
    BY <1>3, SkipApart
<1>5. Crosses(r, Skip(g), Skip(h), i)
    BY <1>4, CrossApart
<1>6. Apart(r, y, z) /\ y.pc = p + 1 /\ y.x[r] = g.x[r] /\ z.x[r] = h.x[r]
    BY <1>4, <1>5 DEF Crosses
<1>7. ExecAll(Skip(g), Alone(i)) = y /\ ExecAll(Skip(h), Alone(i)) = z
    BY ExecOne DEF Alone
<1>8. Track(r, E, p + 1, y, z)
    <2> HIDE DEF E, y, z
    <2> QED
        BY <1>2, <1>3, <1>6 DEF Track
<1> HIDE DEF y, z, E
<1> QED
    BY <1>7, <1>8 DEF E

\* Behind the last use they agree: it wrote r, or r is dead.
LEMMA PairsJoin ==
    ASSUME NEW s, NEW r, NEW B, NEW k, NEW a \in Nat, NEW from, NEW last \in Nat, NEW ends, a <= last,
           ends \/ DeadAt(s, last + 1, r)
    PROVE  Joins(s, r, Pairs(B, k, a, from, last, ends), last + 1)
<1> SUFFICES ASSUME NEW g, NEW h, Track(r, Pairs(B, k, a, from, last, ends), last + 1, g, h)
             PROVE  Agree(s, g, h)
    BY DEF Joins
<1>1. last + 1 \in a .. last + 1
    OBVIOUS
<1>2. ends => Pairs(B, k, a, from, last, ends)[last + 1] = {<<v, v>> : v \in Int}
    BY <1>1 DEF Pairs
<1>3. ends => g.x[r] = h.x[r]
    <2> SUFFICES ASSUME ends
                 PROVE  g.x[r] = h.x[r]
        OBVIOUS
    <2>1. <<g.x[r], h.x[r]>> \in {<<v, v>> : v \in Int}
        BY <1>2 DEF Track
    <2>2. PICK v \in Int : <<g.x[r], h.x[r]>> = <<v, v>>
        BY <2>1
    <2> QED
        BY <2>2
<1>4. g.pc = last + 1 /\ Apart(r, g, h)
    BY DEF Track
<1>5. g.x[r] = h.x[r] \/ DeadAt(s, g.pc, r)
    BY <1>3, <1>4
<1>6. g.pc = h.pc /\ g.m = h.m /\ \A q \in Regs : q = r \/ g.x[q] = h.x[q]
    BY <1>4 DEF Apart
<1> QED
    BY <1>5, <1>6 DEF Agree

\* What loads r, and nothing enters or is relocated on the way there.
Clear(s, a, from) ==
    \A p \in a .. from - 1 : ~is_relocated(s, p) /\ (p # a => ~is_branch_target(s, p))

\* Uses rewritten and what loaded r for them deleted.
LEMMA UsesHold ==
    ASSUME NEW s, IsSection(s), Constants(s), NEW a \in Nat \ {0}, NEW from \in Nat \ {0}, a < from,
           NEW walk \in Nat, NEW r \in Regs \ {0}, NEW B, NEW k \in Int, NEW becomes, NEW rule,
           NEW f \in Folded(rule, s, a, from, walk, r, becomes), Clear(s, a, from),
           Leads(s, r, B, a, from), B[a] = Int, B[from] = {k}, AllServe(s, r, k, becomes),
           NEW x \in [Regs -> Words], x[0] = 0, NEW m \in Memory, NEW fuel \in Nat
    PROVE  Holds(s, f, x, m, fuel)
<1> DEFINE U == Uses(s, from, walk, r, becomes)
           last == LastOf(U)
           ends == Ends(s, last, r, becomes)
           E == Pairs(B, k, a, from, last, ends)
           patch == [p \in a .. last |-> IF p < from THEN <<>>
                                         ELSE IF p \in U THEN CHOOSE is \in becomes[p] : TRUE
                                         ELSE <<s.code[p]>>]
<1>1. U # {} /\ (ends \/ DeadAt(s, last + 1, r)) /\ f = Finding(rule, patch)
    BY DEF Folded, When
<1>2. f.patch = patch
    BY <1>1 DEF Finding
<1>3. /\ last \in U /\ last \in from .. Len(s.code) /\ becomes[last] # {}
      /\ \A p \in from .. last :
            /\ ~is_branch_target(s, p)
            /\ becomes[p] # {} <=> p \in U
            /\ becomes[p] # {} => ~is_relocated(s, p)
            /\ becomes[p] = {} => ~rv_may_name(s.code[p], r) /\ ~rv_stops_walk(s.code[p])
      /\ \A p \in from .. last - 1 : becomes[p] # {} => s.code[p].rd # r
    BY <1>1, UsesWalk
<1>4. DOMAIN s.code = 1 .. Len(s.code) /\ Len(s.code) \in Nat /\ \A p \in DOMAIN s.code : s.code[p] \in Insns
    BY DEF IsSection
<1>5. ends <=> s.code[last].rd = r
    BY <1>3 DEF Ends
<1> HIDE DEF U, last, ends
<1>6. last \in Nat /\ from <= last /\ a <= last /\ a .. last \subseteq DOMAIN s.code
    BY <1>3, <1>4
<1>7. /\ DOMAIN f.patch = a .. last
      /\ \A p \in a .. from - 1 : f.patch[p] = Gone
      /\ \A p \in from .. last : f.patch[p] = IF p \in U THEN CHOOSE is \in becomes[p] : TRUE ELSE Alone(s.code[p])
    <2>1. /\ \A p \in a .. from - 1 : p \in a .. last /\ p < from
          /\ \A p \in from .. last : p \in a .. last /\ ~(p < from)
        BY <1>6
    <2> QED
        BY <1>2, <2>1 DEF Gone, Alone
<1>8. \A p \in from .. last : p \in U => Serves(r, k, s.code[p], f.patch[p])
    <2> SUFFICES ASSUME NEW p \in from .. last, p \in U
                 PROVE  Serves(r, k, s.code[p], f.patch[p])
        OBVIOUS
    <2>1. becomes[p] # {} /\ f.patch[p] = CHOOSE is \in becomes[p] : TRUE
        BY <1>3, <1>7
    <2>2. f.patch[p] \in becomes[p]
        BY <2>1
    <2>3. p \in DOMAIN s.code
        BY <1>6
    <2> QED
        BY <2>2, <2>3 DEF AllServe
<1> HIDE DEF patch
<1>9. Stretch(s, f, a, last)
    <2>1. \A p \in a + 1 .. last : ~is_branch_target(s, p)
        BY <1>3, <1>6 DEF Clear
    <2>2. ASSUME NEW p \in a .. last, is_relocated(s, p)
          PROVE  f.patch[p] = Alone(s.code[p])
        <3>1. p \in from .. last
            BY <1>6, <2>2 DEF Clear
        <3>2. p \notin U
            BY <1>3, <2>2, <3>1
        <3> QED
            BY <1>7, <3>1, <3>2
    <2> QED
        BY <1>6, <1>7, <2>1, <2>2 DEF Stretch
<1>10. Tracks(s, f, r, E, a, last)
    <2> SUFFICES ASSUME NEW p \in a .. last, NEW g, NEW h, Track(r, E, p, g, h)
                 PROVE  Track(r, E, p + 1, ExecAll(Skip(g), Alone(s.code[p])), ExecAll(Skip(h), f.patch[p]))
        BY DEF Tracks
    <2>1. CASE p \in a .. from - 1
        BY <1>6, <1>7, <2>1, LeadTracks
    <2>2. CASE p \in from .. last /\ p \in U
        <3>1. p # last => s.code[p].rd # r
            BY <1>3, <1>6, <2>2
        <3>2. p = last /\ ends => s.code[p].rd = r
            BY <1>5
        <3>3. Serves(r, k, s.code[p], f.patch[p]) /\ p \in from .. last /\ a \in Nat /\ from \in Nat /\ last \in Nat
            BY <1>6, <1>8, <2>2
        <3> QED
            BY <3>1, <3>2, <3>3, UseTracks
    <2>3. CASE p \in from .. last /\ p \notin U
        <3>1. p # last /\ f.patch[p] = Alone(s.code[p])
            BY <1>3, <1>7, <2>3
        <3>2. Unnamed(r, s.code[p])
            BY <1>3, <1>4, <1>6, <2>3 DEF Unnamed
        <3>3. p \in from .. last /\ a \in Nat /\ from \in Nat /\ last \in Nat
            BY <1>6, <2>3
        <3> QED
            BY <3>1, <3>2, <3>3, CrossTracks
    <2>4. p \in a .. from - 1 \/ p \in from .. last
        BY <1>6
    <2> QED
        BY <2>1, <2>2, <2>3, <2>4
<1>11. Joins(s, r, E, last + 1)
    BY <1>1, <1>6, PairsJoin
<1>12. Track(r, E, a, Start(s, x, m, a), Start(s, x, m, a))
    <2> DEFINE g == Start(s, x, m, a)
    <2>1. Numbers(g) /\ g.pc = a
        BY StartNumbers
    <2>2. E[a] = Int \X Int
        <3>1. a \in a .. last + 1 /\ a # last + 1
            BY <1>6
        <3> QED
            BY <3>1 DEF Pairs
    <2> HIDE DEF g, E
    <2>3. g.x[r] \in Int
        BY <2>1 DEF Numbers, Machine
    <2>4. Apart(r, g, g)
        BY <2>1 DEF Apart
    <2> QED
        BY <2>1, <2>2, <2>3, <2>4 DEF Track, g
<1> HIDE DEF E
<1> QED
    BY <1>6, <1>9, <1>10, <1>11, <1>12, TrackHolds

\* Every value of a chain is a word.
LEMMA ChainWords ==
    ASSUME NEW s, NEW a \in Nat, NEW e \in Nat, NEW F, ChainLine(s, a, e, F), NEW p \in a .. a + e
    PROVE  F[p] \in Words
<1> DEFINE k == p - a
           x == [q \in Regs |-> 0]
<1>1. k \in Nat /\ k <= e /\ a + k = p
    OBVIOUS
<1> HIDE DEF k
<1>2. a .. a + k \subseteq a .. a + e /\ a + 1 .. a + k \subseteq a + 1 .. a + e
    BY <1>1
<1>3. ChainLine(s, a, k, F)
    BY <1>2 DEF ChainLine
<1>4. x \in [Regs -> Words] /\ x[0] = 0
    BY HalfLemma, HartAssumption
<1> HIDE DEF x
<1> QED
    BY <1>1, <1>3, <1>4, ChainOnward

\* What r holds in front of each of a chain.
Leading(F, a, e) == [p \in a .. a + e + 1 |-> IF p = a THEN Int ELSE {F[p - 1]}]

\* A chain loads its register.
LEMMA ChainLeads ==
    ASSUME NEW s, NEW a \in Nat, NEW e \in Nat, NEW F, ChainLine(s, a, e, F)
    PROVE  /\ Leads(s, s.code[a].rd, Leading(F, a, e), a, a + e + 1)
           /\ Leading(F, a, e)[a] = Int /\ Leading(F, a, e)[a + e + 1] = {F[a + e]}
           /\ F[a + e] \in Words /\ s.code[a].rd \in Regs \ {0}
<1> DEFINE r == s.code[a].rd
           B == Leading(F, a, e)
<1>1. /\ a \in a .. a + e + 1 /\ a + e + 1 \in a .. a + e + 1 /\ a + e + 1 # a /\ a + e + 1 - 1 = a + e
      /\ a + e \in a .. a + e /\ a \in a .. a + e
    OBVIOUS
<1>2. B[a] = Int /\ B[a + e + 1] = {F[a + e]}
    BY <1>1 DEF Leading
<1>3. F[a + e] \in Words
    BY <1>1, ChainWords
<1>4. \A w \in Words : w \in Int
    BY HalfLemma
<1>5. s.code[a] \in Insns /\ decode_const(s.code[a]) /\ F[a] = s.code[a].k
    BY <1>1 DEF ChainLine
<1>6. r \in Regs \ {0}
    <2> DEFINE x == [q \in Regs |-> 0]
    <2>1. x \in [Regs -> Words] /\ x[0] = 0
        BY HalfLemma, HartAssumption
    <2> HIDE DEF x
    <2> QED
        BY <1>5, <2>1, ConstComputes
<1>7. ASSUME NEW p \in a .. a + e + 1 - 1, NEW g, Numbers(g), g.pc = p, g.x[r] \in B[p]
      PROVE  \E v \in B[p + 1] : v \in Int /\ Exec(Skip(g), s.code[p]) = SetX(Skip(g), r, v)
    <2> DEFINE i == s.code[p]
               v == F[p]
    <2>1. p \in a .. a + e /\ p \in a .. a + e + 1 /\ p + 1 \in a .. a + e + 1 /\ p + 1 # a /\ p + 1 - 1 = p
        OBVIOUS
    <2>2. v \in Words /\ v \in Int /\ B[p + 1] = {v}
        BY <1>4, <2>1, ChainWords DEF Leading
    <2>3. i \in Insns
        BY <2>1 DEF ChainLine
    <2>4. Skip(g).x = g.x /\ g.x[0] = 0
        BY <1>7, SkipNumbers DEF Numbers, Machine
    <2>5. CASE p = a
        <3>1. i.op = "add" /\ i.n = XLEN /\ i.b = Imm /\ i.a = 0 /\ i.rd = r /\ v = i.k
            BY <1>5, <2>5 DEF decode_const, rv_decode_addi, Immediate
        <3>2. Plainly(i)
            BY <3>1, PlainOps
        <3> HIDE DEF i, v
        <3>3. Exec(Skip(g), i) = SetX(Skip(g), r, Value("add", XLEN, v, 0, v))
            BY <2>4, <3>1, <3>2, ExecPlain DEF Operand
        <3>4. Value("add", XLEN, v, 0, v) = Sext(XLEN, 0 + v)
            BY PlainValues
        <3>5. 0 + v = v /\ Sext(XLEN, v) = v
            BY <2>2, SextOwn
        <3>6. Exec(Skip(g), i) = SetX(Skip(g), r, v)
            BY <3>3, <3>4, <3>5
        <3> QED
            BY <2>2, <3>6 DEF i
    <2>6. CASE p # a
        <3>1. p \in a + 1 .. a + e /\ p - 1 \in a .. a + e
            BY <2>1, <2>6
        <3> DEFINE u == F[p - 1]
                   y == [q \in Regs |-> u]
        <3>2. u \in Words
            BY <3>1, ChainWords
        <3>3. StepOf(i) /\ i.rd = r /\ v = li_chain_step(i, u)
            BY <3>1 DEF ChainLine
        <3>4. g.x[r] = u
            BY <1>7, <2>1, <2>6 DEF Leading
        <3> HIDE DEF u, i, v
        <3>5. y \in [Regs -> Words] /\ y[r] = u
            BY <1>6, <3>2
        <3> HIDE DEF y
        <3>6. Worth(i, y) = li_chain_step(i, y[i.rd]) /\ Plainly(i)
            BY <2>3, <3>3, <3>5, StepValue
        <3>7. i.b = Imm /\ i.a = r
            BY <3>3 DEF StepOf
        <3>8. Value(i.op, i.n, i.k, u, i.k) = v
            BY <3>3, <3>5, <3>6, <3>7 DEF Worth
        <3>9. Exec(Skip(g), i) = SetX(Skip(g), r, v)
            BY <2>4, <3>3, <3>4, <3>6, <3>7, <3>8, ExecPlain DEF Operand
        <3> QED
            BY <2>2, <3>9 DEF i
    <2> QED
        BY <2>5, <2>6
<1>8. Leads(s, r, B, a, a + e + 1)
    <2> HIDE DEF B, r
    <2> QED
        BY <1>7 DEF Leads
<1> QED
    BY <1>2, <1>3, <1>6, <1>8

\* In place of i, which reads k in r, j computes the same without it.
Without(r, k, i, j) ==
    \A x, y \in [Regs -> Int] :
        x[r] = k /\ (\A q \in Regs : q = r \/ x[q] = y[q]) => Worth(j, y) = Worth(i, x)

\* What writes the same register with the same value serves.
Does(r, k, i, is) ==
    \A g, h : Apart(r, g, h) /\ g.x[r] = k => ExecAll(h, is) = SetX(h, i.rd, Worth(i, g.x))

\* Such a replacement serves its use.
LEMMA ServeAs ==
    ASSUME NEW r \in Regs \ {0}, NEW k, NEW i \in Insns, NEW is, Plainly(i), Does(r, k, i, is)
    PROVE  Serves(r, k, i, is)
<1> SUFFICES ASSUME NEW g, NEW h, Apart(r, g, h), g.x[r] = k
             PROVE  /\ Apart(r, Exec(g, i), ExecAll(h, is)) /\ Exec(g, i).pc = g.pc
                    /\ i.rd # r => Exec(g, i).x[r] = k
                    /\ i.rd = r => Exec(g, i).x[r] = ExecAll(h, is).x[r]
    BY DEF Serves
<1> DEFINE w == Worth(i, g.x)
<1>1. g.x \in [Regs -> Int] /\ h.x \in [Regs -> Int]
    BY DEF Apart, Numbers, Machine
<1>2. ExecAll(h, is) = SetX(h, i.rd, w)
    BY DEF Does
<1>3. Exec(g, i) = SetX(g, i.rd, w)
    BY ExecPlain DEF Worth, Operand
<1>4. i.rd \in Regs /\ i.a \in Regs /\ (i.b # Imm => i.b \in Regs) /\ i.k \in Int
    BY DEF Insns
<1>5. w \in Int
    <2> DEFINE u == g.x[i.a]
               v == IF i.b = Imm THEN i.k ELSE g.x[i.b]
    <2>1. u \in Int /\ v \in Int
        BY <1>1, <1>4
    <2> HIDE DEF u, v
    <2>2. Value(i.op, i.n, i.k, u, v) \in Int
        BY <2>1, ValueInt
    <2> QED
        BY <2>2 DEF Worth, u, v
<1> HIDE DEF w
<1> DEFINE y == SetX(g, i.rd, w)
           z == SetX(h, i.rd, w)
<1>7. r \in Regs /\ r # 0
    OBVIOUS
<1>8. /\ Apart(r, y, z) /\ y.pc = g.pc
      /\ i.rd # r => y.x[r] = g.x[r]
      /\ i.rd = r => y.x[r] = z.x[r]
    <2> DEFINE rd == i.rd
    <2>1. rd \in Regs
        BY <1>4
    <2> HIDE DEF rd
    <2>2. CASE rd # r
        <3>1. /\ Apart(r, SetX(g, rd, w), SetX(h, rd, w)) /\ SetX(g, rd, w).pc = g.pc
              /\ SetX(g, rd, w).x[r] = g.x[r]
            BY <1>5, <1>7, <2>1, <2>2, SetAway
        <3> QED
            BY <2>2, <3>1 DEF rd
    <2>3. CASE rd = r
        <3>1. /\ Apart(r, SetX(g, r, w), SetX(h, r, w)) /\ SetX(g, r, w).pc = g.pc
              /\ SetX(g, r, w).x[r] = SetX(h, r, w).x[r]
            BY <1>5, <1>7, SetHere
        <3> QED
            BY <2>3, <3>1 DEF rd
    <2> QED
        BY <2>2, <2>3
<1> HIDE DEF y, z
<1>9. Exec(g, i) = y /\ ExecAll(h, is) = z
    BY <1>2, <1>3 DEF y, z
<1> QED
    BY <1>7, <1>8, <1>9

\* What computes the same serves.
LEMMA ServeOne ==
    ASSUME NEW r \in Regs \ {0}, NEW k, NEW i \in Insns, NEW j, Plainly(i), Plainly(j), j.rd = i.rd,
           Without(r, k, i, j)
    PROVE  Serves(r, k, i, Alone(j))
<1>1. ASSUME NEW g, NEW h, Apart(r, g, h), g.x[r] = k
      PROVE  ExecAll(h, Alone(j)) = SetX(h, i.rd, Worth(i, g.x))
    <2>1. g.x \in [Regs -> Int] /\ h.x \in [Regs -> Int] /\ \A q \in Regs : q = r \/ g.x[q] = h.x[q]
        BY <1>1 DEF Apart, Numbers, Machine
    <2>2. Worth(j, h.x) = Worth(i, g.x)
        BY <1>1, <2>1 DEF Without
    <2>3. Exec(h, j) = SetX(h, j.rd, Worth(j, h.x))
        BY ExecPlain DEF Worth, Operand
    <2>4. ExecAll(h, Alone(j)) = Exec(h, j)
        BY ExecOne DEF Alone
    <2> QED
        BY <2>2, <2>3, <2>4
<1>2. Does(r, k, i, Alone(j))
    BY <1>1 DEF Does
<1> QED
    BY <1>2, ServeAs

\* The immediate forms there are.
ImmInsn(i, r, op, imm) == Insn(op, i.n, i.rd, Beside(i, r), Imm, imm, 0)

\* What imm_form gives: an immediate in place of r, in range for its operation.
LEMMA ImmForms ==
    ASSUME NEW i, NEW r, NEW k, NEW is \in imm_form(i, r, k)
    PROVE  /\ i.b # Imm /\ i.rd # 0 /\ Once(i, r)
           /\ \/ i.op = "sub" /\ i.b = r /\ is = Alone(ImmInsn(i, r, "add", -k))
              \/ i.op \in {"sll", "srl", "sra"} /\ i.b = r /\ is = Alone(ImmInsn(i, r, i.op, k % i.n))
              \/ i.op \in {"slt", "sltu"} /\ i.b = r /\ is = Alone(ImmInsn(i, r, i.op, k))
              \/ i.op \in {"add", "and", "or", "xor"} /\ is = Alone(ImmInsn(i, r, i.op, k))
<1> DEFINE N == i.b = Imm \/ i.rd = 0 \/ ~Once(i, r)
           P == i.op = "sub"
           Q == i.op \in {"sll", "srl", "sra"}
           R1 == i.op \in {"slt", "sltu"}
           S == i.op \in {"add", "and", "or", "xor"}
           A == When(i.b = r /\ Fits(-k), {Alone(ImmInsn(i, r, "add", -k))})
           B == When(i.b = r, {Alone(ImmInsn(i, r, i.op, k % i.n))})
           C == When(i.b = r /\ Fits(k), {Alone(ImmInsn(i, r, i.op, k))})
           D == When(Fits(k), {Alone(ImmInsn(i, r, i.op, k))})
<1>1. imm_form(i, r, k) = IF N THEN {} ELSE CASE P -> A [] Q -> B [] R1 -> C [] S -> D [] OTHER -> {}
    BY DEF imm_form, ImmInsn, Alone
<1>2. ~(P /\ Q) /\ ~(P /\ R1) /\ ~(P /\ S) /\ ~(Q /\ R1) /\ ~(Q /\ S) /\ ~(R1 /\ S)
    OBVIOUS
<1> HIDE DEF N, P, Q, R1, S, A, B, C, D
<1>3. ~N
    BY <1>1
<1>4. is \in CASE P -> A [] Q -> B [] R1 -> C [] S -> D [] OTHER -> {}
    BY <1>1, <1>3
<1>5. (P /\ is \in A) \/ (Q /\ is \in B) \/ (R1 /\ is \in C) \/ (S /\ is \in D)
    BY <1>2, <1>4
<1>6. /\ is \in A => i.b = r /\ is = Alone(ImmInsn(i, r, "add", -k))
      /\ is \in B => i.b = r /\ is = Alone(ImmInsn(i, r, i.op, k % i.n))
      /\ is \in C => i.b = r /\ is = Alone(ImmInsn(i, r, i.op, k))
      /\ is \in D => is = Alone(ImmInsn(i, r, i.op, k))
    BY WhenGives DEF A, B, C, D, When
<1> QED
    BY <1>3, <1>5, <1>6 DEF N, P, Q, R1, S

\* What an immediate form computes.
LEMMA ImmWorth ==
    ASSUME NEW i, NEW r, NEW op, NEW imm, NEW y
    PROVE  /\ Worth(ImmInsn(i, r, op, imm), y) = Value(op, i.n, imm, y[Beside(i, r)], imm)
           /\ ImmInsn(i, r, op, imm).rd = i.rd /\ ImmInsn(i, r, op, imm).op = op
    BY DEF Worth, ImmInsn, Insn

\* An immediate form serves where the register it does without holds k.
LEMMA ImmServes ==
    ASSUME NEW r \in Regs \ {0}, NEW k \in Int, NEW i \in Insns, NEW is \in imm_form(i, r, k)
    PROVE  Serves(r, k, i, is)
<1> DEFINE rx == Beside(i, r)
           n == i.n
<1>1. i.b # Imm /\ i.rd # 0 /\ Once(i, r)
    BY ImmForms
<1>2. /\ rx \in Regs \ {r} /\ rx # Imm
      /\ (i.a = r /\ i.b = rx) \/ (i.b = r /\ i.a = rx)
    <2>1. r \in Regs
        OBVIOUS
    <2> QED
        BY <1>1, <2>1, BesideIs
<1>3. i.b = r => i.a = rx
    BY <1>2
<1> DEFINE Case(op, imm) ==
               \A u \in Int : Value(op, n, imm, u, imm)
                   = IF i.b = r THEN Value(i.op, n, i.k, u, k) ELSE Value(i.op, n, i.k, k, u)
<1>4. ASSUME NEW op, NEW imm, Case(op, imm), is = Alone(ImmInsn(i, r, op, imm)),
             i.op \in {"sub", "sll", "srl", "sra", "slt", "sltu", "add", "and", "or", "xor"},
             op \in {"sll", "srl", "sra", "slt", "sltu", "add", "and", "or", "xor"}
      PROVE  Serves(r, k, i, is)
    <2> DEFINE j == ImmInsn(i, r, op, imm)
    <2>1. Plainly(i)
        BY <1>4 DEF Plainly, Transfers, Branches, Accesses, Atomics
    <2>2. j.op = op /\ j.rd = i.rd
        BY ImmWorth
    <2>3. Plainly(j)
        BY <1>4, <2>2 DEF Plainly, Transfers, Branches, Accesses, Atomics
    <2>4. Without(r, k, i, j)
        <3> SUFFICES ASSUME NEW x \in [Regs -> Int], NEW y \in [Regs -> Int], x[r] = k,
                            \A q \in Regs : q = r \/ x[q] = y[q]
                     PROVE  Worth(j, y) = Worth(i, x)
            BY DEF Without
        <3> DEFINE u == y[rx]
        <3>1. u \in Int /\ x[rx] = u
            BY <1>2
        <3>2. Worth(j, y) = Value(op, n, imm, u, imm)
            BY ImmWorth
        <3>3. Worth(i, x) = Value(i.op, n, i.k, x[i.a], x[i.b])
            BY <1>1, WorthOfRegs
        <3>4. Worth(i, x) = IF i.b = r THEN Value(i.op, n, i.k, u, k) ELSE Value(i.op, n, i.k, k, u)
            BY <1>2, <3>1, <3>3
        <3>5. Value(op, n, imm, u, imm)
                  = IF i.b = r THEN Value(i.op, n, i.k, u, k) ELSE Value(i.op, n, i.k, k, u)
            BY <1>4, <3>1
        <3> QED
            BY <3>2, <3>4, <3>5
    <2> HIDE DEF j
    <2>5. Serves(r, k, i, Alone(j))
        BY <2>1, <2>2, <2>3, <2>4, ServeOne
    <2> QED
        BY <1>4, <2>5 DEF j
<1>5. CASE i.op = "sub" /\ i.b = r /\ is = Alone(ImmInsn(i, r, "add", -k))
    <2>1. ASSUME NEW u \in Int
          PROVE  Value("add", n, -k, u, -k) = Value("sub", n, i.k, u, k)
        <3>1. Value("add", n, -k, u, -k) = Sext(n, u + -k) /\ Value("sub", n, i.k, u, k) = Sext(n, u - k)
            BY PlainValues, ValueIs
        <3>2. u + -k = u - k
            OBVIOUS
        <3> QED
            BY <3>1, <3>2
    <2>2. Case("add", -k)
        BY <1>5, <2>1
    <2> HIDE DEF Case
    <2> QED
        BY <1>4, <1>5, <2>2
<1>6. CASE i.op \in {"sll", "srl", "sra"} /\ i.b = r /\ is = Alone(ImmInsn(i, r, i.op, k % i.n))
    <2>1. (k % n) % n = k % n
        <3>1. n \in Nat /\ 0 < n
            <4>1. n \in 1 .. XLEN
                BY <1>6 DEF Insns
            <4> QED
                BY <4>1, HalfLemma
        <3> HIDE DEF n
        <3> DEFINE t == k % n
        <3>2. t \in 0 .. n - 1
            BY <3>1, ModRange
        <3> HIDE DEF t
        <3>3. t % n = t
            BY <3>1, <3>2, ModOwn
        <3> QED
            BY <3>3 DEF t
    <2> DEFINE t == k % n
    <2>2. ASSUME NEW u \in Int
          PROVE  /\ Value("sll", n, t, u, t) = Value("sll", n, i.k, u, k)
                 /\ Value("srl", n, t, u, t) = Value("srl", n, i.k, u, k)
                 /\ Value("sra", n, t, u, t) = Value("sra", n, i.k, u, k)
        <3> HIDE DEF n
        <3> DEFINE F(v) == Sext(n, u * 2^v)
                   G(v) == Sext(n, Low(n, u) \div 2^v)
                   H(v) == Sext(n, u) \div 2^v
        <3>1. t % n = k % n
            BY <2>1
        <3> HIDE DEF t
        <3>2. /\ Value("sll", n, t, u, t) = F(t % n) /\ Value("sll", n, i.k, u, k) = F(k % n)
              /\ Value("srl", n, t, u, t) = G(t % n) /\ Value("srl", n, i.k, u, k) = G(k % n)
              /\ Value("sra", n, t, u, t) = H(t % n) /\ Value("sra", n, i.k, u, k) = H(k % n)
            BY PlainValues
        <3> QED
            BY <3>1, <3>2
    <2> HIDE DEF t
    <2>3. Case(i.op, t)
        BY <1>6, <2>2
    <2> HIDE DEF Case
    <2> QED
        BY <1>4, <1>6, <2>3 DEF t
<1>7. CASE i.op \in {"slt", "sltu"} /\ i.b = r /\ is = Alone(ImmInsn(i, r, i.op, k))
    <2>1. ASSUME NEW u \in Int
          PROVE  /\ Value("slt", n, k, u, k) = Value("slt", n, i.k, u, k)
                 /\ Value("sltu", n, k, u, k) = Value("sltu", n, i.k, u, k)
        BY ValueIs
    <2>2. Case(i.op, k)
        BY <1>7, <2>1
    <2> HIDE DEF Case
    <2> QED
        BY <1>4, <1>7, <2>2
<1>8. CASE i.op \in {"add", "and", "or", "xor"} /\ is = Alone(ImmInsn(i, r, i.op, k))
    <2>1. ASSUME NEW u \in Int
          PROVE  /\ Value("add", n, k, u, k) = Value("add", n, i.k, u, k)
                 /\ Value("add", n, k, u, k) = Value("add", n, i.k, k, u)
                 /\ Value("and", n, k, u, k) = Value("and", n, i.k, u, k)
                 /\ Value("and", n, k, u, k) = Value("and", n, i.k, k, u)
        <3>1. u + k = k + u
            OBVIOUS
        <3>2. BitAnd(u, k) = BitAnd(k, u)
            BY AndSwap
        <3>3. /\ Value("add", n, k, u, k) = Sext(n, u + k) /\ Value("add", n, i.k, u, k) = Sext(n, u + k)
              /\ Value("add", n, i.k, k, u) = Sext(n, k + u)
            BY PlainValues
        <3>4. /\ Value("and", n, k, u, k) = BitAnd(u, k) /\ Value("and", n, i.k, u, k) = BitAnd(u, k)
              /\ Value("and", n, i.k, k, u) = BitAnd(k, u)
            BY PlainValues
        <3> QED
            BY <3>1, <3>2, <3>3, <3>4
    <2>2. ASSUME NEW u \in Int
          PROVE  /\ Value("or", n, k, u, k) = Value("or", n, i.k, u, k)
                 /\ Value("or", n, k, u, k) = Value("or", n, i.k, k, u)
                 /\ Value("xor", n, k, u, k) = Value("xor", n, i.k, u, k)
                 /\ Value("xor", n, k, u, k) = Value("xor", n, i.k, k, u)
        <3>1. BitOr(u, k) = BitOr(k, u) /\ BitXor(u, k) = BitXor(k, u)
            BY LogicSwap
        <3>2. /\ Value("or", n, k, u, k) = BitOr(u, k) /\ Value("or", n, i.k, u, k) = BitOr(u, k)
              /\ Value("or", n, i.k, k, u) = BitOr(k, u)
            BY PlainValues
        <3>3. /\ Value("xor", n, k, u, k) = BitXor(u, k) /\ Value("xor", n, i.k, u, k) = BitXor(u, k)
              /\ Value("xor", n, i.k, k, u) = BitXor(k, u)
            BY ValueIs
        <3> QED
            BY <3>1, <3>2, <3>3
    <2>3. Case(i.op, k)
        BY <1>8, <2>1, <2>2
    <2> HIDE DEF Case
    <2> QED
        BY <1>4, <1>8, <2>3
<1> QED
    BY <1>5, <1>6, <1>7, <1>8, ImmForms

\* A store of the register that holds zero is one of x0.
LEMMA ZeroServes ==
    ASSUME NEW r \in Regs \ {0}, NEW i \in Insns, i.op = "store", i.b = r, i.a # r
    PROVE  Serves(r, 0, i, Alone([i EXCEPT !.b = 0]))
<1> DEFINE j == [i EXCEPT !.b = 0]
<1> SUFFICES ASSUME NEW g, NEW h, Apart(r, g, h), g.x[r] = 0
             PROVE  /\ Apart(r, Exec(g, i), ExecAll(h, Alone(j))) /\ Exec(g, i).pc = g.pc
                    /\ i.rd # r => Exec(g, i).x[r] = 0
                    /\ i.rd = r => Exec(g, i).x[r] = ExecAll(h, Alone(j)).x[r]
    BY DEF Serves
<1>1. i.a \in Regs /\ i.k \in Int /\ i.rd = 0
    BY DEF Insns
<1>2. j.op = "store" /\ j.a = i.a /\ j.b = 0 /\ j.k = i.k
    BY InsnIs
<1> HIDE DEF j
<1>3. /\ g.x[i.a] = h.x[i.a] /\ g.x[i.a] \in Int /\ h.x[0] = 0
    BY <1>1 DEF Apart, Numbers, Machine
<1> DEFINE c == Cell(g.x[i.a] + i.k)
<1>4. c \in Cells
    <2>1. g.x[i.a] + i.k \in Int
        BY <1>1, <1>3
    <2> QED
        BY <2>1, CellIs
<1>5. \A k, l : l.op = "store" => Exec(k, l) = [k EXCEPT !.m[Cell(k.x[l.a] + l.k)] = k.x[l.b]]
    BY DEF Exec, Branches, Atomics
<1>6. Exec(g, i) = StoredIn(g, c, 0) /\ Exec(h, j) = StoredIn(h, c, 0)
    BY <1>2, <1>3, <1>5 DEF StoredIn
<1>7. ExecAll(h, Alone(j)) = Exec(h, j)
    BY ExecOne DEF Alone
<1> HIDE DEF c
<1> DEFINE y == StoredIn(g, c, 0)
           z == StoredIn(h, c, 0)
<1>8. Apart(r, y, z) /\ y.pc = g.pc /\ y.x = g.x
    <2>1. 0 \in Int
        OBVIOUS
    <2> QED
        BY <1>4, <2>1, StoreApart
<1> HIDE DEF y, z
<1>9. Exec(g, i) = y /\ ExecAll(h, Alone(j)) = z
    BY <1>6, <1>7 DEF y, z
<1> QED
    BY <1>1, <1>8, <1>9

\* Two instructions at one place run one after another.
LEMMA ExecTwo ==
    ASSUME NEW h, NEW i, NEW j
    PROVE  ExecAll(h, <<i, j>>) = Exec(Exec(h, i), j)
<1> DEFINE is == <<i, j>>
<1>1. Len(is) = 2 /\ Len(is) \in Nat /\ is[1] = i /\ is[2] = j
    OBVIOUS
<1> HIDE DEF is
<1>2. PICK f : /\ \A l \in 0 .. Len(is) : f[l] = IF l = 0 THEN h ELSE Exec(f[l - 1], is[l])
               /\ ExecAll(h, is) = f[Len(is)]
    <2>1. Len(is) \in Nat
        BY <1>1
    <2> QED
        BY <2>1, ExecRun
<1>3. f[0] = h /\ f[1] = Exec(f[0], is[1]) /\ f[2] = Exec(f[1], is[2])
    BY <1>1, <1>2
<1> QED
    BY <1>1, <1>2, <1>3 DEF is

\* What is written last stays.
LEMMA SetTwice ==
    ASSUME NEW h, NEW r \in Regs, NEW u \in Int, NEW v \in Int, Numbers(h)
    PROVE  SetX(SetX(h, r, u), r, v) = SetX(h, r, v)
<1>1. CASE r = 0
    BY <1>1 DEF SetX
<1>2. CASE r # 0
    <2> DEFINE y == [h.x EXCEPT ![r] = u]
    <2>1. h = [x |-> h.x, m |-> h.m, pc |-> h.pc, res |-> h.res] /\ h.x \in [Regs -> Int]
        BY DEF Numbers, Machine
    <2>2. SetX(h, r, u) = [x |-> y, m |-> h.m, pc |-> h.pc, res |-> h.res]
        BY <1>2, <2>1 DEF SetX
    <2>3. [y EXCEPT ![r] = v] = [h.x EXCEPT ![r] = v]
        BY <2>1
    <2>4. SetX(h, r, v) = [x |-> [h.x EXCEPT ![r] = v], m |-> h.m, pc |-> h.pc, res |-> h.res]
        BY <1>2, <2>1 DEF SetX
    <2> HIDE DEF y
    <2>5. SetX(SetX(h, r, u), r, v) = [x |-> [y EXCEPT ![r] = v], m |-> h.m, pc |-> h.pc, res |-> h.res]
        BY <1>2, <2>2 DEF SetX
    <2> QED
        BY <2>3, <2>4, <2>5
<1> QED
    BY <1>1, <1>2

\* The pair of shifts that keeps the n low bits.
UpDown(rd, a, n) == <<I("sll", rd, a, n), I("srl", rd, rd, n)>>

\* It does so on every machine.
LEMMA UpDownRuns ==
    ASSUME NEW h, Numbers(h), NEW rd \in Regs \ {0}, NEW a \in Regs, NEW n \in 1 .. XLEN - 1
    PROVE  ExecAll(h, UpDown(rd, a, XLEN - n)) = SetX(h, rd, Low(n, h.x[a]))
<1> DEFINE k == XLEN - n
           i == I("sll", rd, a, k)
           j == I("srl", rd, rd, k)
           u == h.x[a]
           t == Sext(XLEN, u * 2^k)
           w == Low(n, u)
<1>1. XLEN \in Nat \ {0} /\ k \in 0 .. XLEN - 1 /\ k \in 0 .. XLEN /\ n \in 0 .. XLEN /\ XLEN \in 1 .. XLEN
      /\ 0 \in 0 .. XLEN
    BY HalfLemma
<1>2. Splits(n, k)
    BY <1>1 DEF Splits
<1>3. h.x \in [Regs -> Int] /\ u \in Int
    BY DEF Numbers, Machine
<1>4. k % XLEN = k
    <2> HIDE DEF k
    <2>1. k \in Int /\ XLEN \in Nat /\ 0 <= k /\ k < XLEN
        BY <1>1
    <2> QED
        BY <2>1, ModOwn
<1>5. /\ i.op = "sll" /\ i.n = XLEN /\ i.b = Imm /\ i.k = k /\ i.a = a /\ i.rd = rd
      /\ j.op = "srl" /\ j.n = XLEN /\ j.b = Imm /\ j.k = k /\ j.a = rd /\ j.rd = rd
    BY DEF I, Insn
<1>6. Plainly(i) /\ Plainly(j)
    BY <1>5, PlainOps
<1> HIDE DEF k, i, j, u
<1>7. Exec(h, i) = SetX(h, rd, t)
    <2>1. Exec(h, i) = SetX(h, rd, Value("sll", XLEN, k, u, k))
        BY <1>5, <1>6, ExecPlain DEF Operand, u
    <2>2. Value("sll", XLEN, k, u, k) = Sext(XLEN, u * 2^(k % XLEN))
        BY PlainValues
    <2> QED
        BY <1>4, <2>1, <2>2
<1>8. t \in Int
    <2>1. u * 2^k \in Int
        BY <1>1, <1>3, CutInt
    <2> QED
        BY <1>1, <2>1, CutInt
<1>9. w \in Int /\ Low(XLEN, t) \div 2^k = w /\ Sext(XLEN, w) = w
    <2>1. Low(XLEN, t) \div 2^k = w
        BY <1>2, <1>3, UpDownLow
    <2>2. w \in Words
        BY <1>1, <1>3, LowWord
    <2>3. \A v \in Words : v \in Int
        BY HalfLemma
    <2> QED
        BY <2>1, <2>2, <2>3, SextOwn
<1> HIDE DEF t, w
<1> DEFINE z == SetX(h, rd, t)
<1>10. Numbers(z) /\ z.x[rd] = t
    <2>1. rd \in Regs /\ rd # 0
        OBVIOUS
    <2>2. Numbers(z) /\ (rd # 0 => z.x[rd] = t)
        BY <1>8, <2>1, SetNumbers
    <2> QED
        BY <2>1, <2>2
<1>11. Exec(z, j) = SetX(z, rd, w)
    <2>1. Exec(z, j) = SetX(z, rd, Value("srl", XLEN, k, t, k))
        BY <1>5, <1>6, <1>10, ExecPlain DEF Operand
    <2>2. Value("srl", XLEN, k, t, k) = Sext(XLEN, Low(XLEN, t) \div 2^(k % XLEN))
        BY PlainValues
    <2> QED
        BY <1>4, <1>9, <2>1, <2>2
<1>12. SetX(z, rd, w) = SetX(h, rd, w)
    <2>1. rd \in Regs
        OBVIOUS
    <2> QED
        BY <1>8, <1>9, <2>1, SetTwice
<1>13. ExecAll(h, UpDown(rd, a, k)) = Exec(Exec(h, i), j)
    BY ExecTwo DEF UpDown, i, j
<1> QED
    BY <1>7, <1>11, <1>12, <1>13 DEF w, u, k

\* What an and of r that holds a mask computes.
LEMMA MaskWorth ==
    ASSUME NEW r \in Regs, NEW n \in 1 .. XLEN - 1, NEW i \in Insns, i.op = "and", i.b # Imm, Once(i, r),
           NEW x \in [Regs -> Int], x[r] = 2^n - 1
    PROVE  /\ Worth(i, x) = Low(n, x[Beside(i, r)]) /\ Plainly(i)
           /\ Beside(i, r) \in Regs \ {r} /\ x[Beside(i, r)] \in Int
<1> DEFINE rx == Beside(i, r)
           u == x[rx]
           k == 2^n - 1
<1>1. /\ rx \in Regs \ {r} /\ rx # Imm
      /\ (i.a = r /\ i.b = rx) \/ (i.b = r /\ i.a = rx)
    BY BesideIs
<1>2. u \in Int /\ n \in 0 .. XLEN - 1 /\ n \in 0 .. XLEN
    BY <1>1, HalfLemma
<1>3. k \in Int
    BY <1>2, PowerIs
<1>4. Worth(i, x) = Value("and", i.n, i.k, x[i.a], x[i.b])
    BY WorthOfRegs
<1>5. Value("and", i.n, i.k, x[i.a], x[i.b]) = BitAnd(x[i.a], x[i.b])
    BY PlainValues
<1>6. BitAnd(u, k) = Low(n, u)
    BY <1>2, AndMask
<1> HIDE DEF u, k, rx
<1>7. BitAnd(u, k) = BitAnd(k, u)
    BY <1>2, <1>3, AndSwap
<1>8. x[r] = k
    BY DEF k
<1>9. (x[i.a] = u /\ x[i.b] = k) \/ (x[i.a] = k /\ x[i.b] = u)
    BY <1>1, <1>8 DEF u
<1>10. Plainly(i)
    BY DEF Plainly, Transfers, Branches, Accesses, Atomics
<1> QED
    BY <1>1, <1>2, <1>4, <1>5, <1>6, <1>7, <1>9, <1>10 DEF u, rx

\* The forms of an and with a mask serve where r holds it.
LEMMA MaskServes ==
    ASSUME NEW r \in Regs \ {0}, NEW k, MaskBits(k) # {}, NEW extension, NEW i \in Insns,
           NEW is \in mask_form(i, r, k, extension)
    PROVE  Serves(r, k, i, is)
<1> DEFINE n == CHOOSE m \in MaskBits(k) : TRUE
           rx == Beside(i, r)
           N == i.op # "and" \/ i.n # XLEN \/ i.b = Imm \/ i.rd = 0 \/ ~Once(i, r)
           j == Ext("zext", n, i.rd, rx)
<1>1. n \in 1 .. XLEN - 1 /\ 2^n - 1 = k
    <2>1. n \in MaskBits(k)
        OBVIOUS
    <2> QED
        BY <2>1 DEF MaskBits
<1>2. mask_form(i, r, k, extension) =
          IF N THEN {} ELSE IF extension /\ n \in {HALF, WORD} THEN {Alone(j)}
          ELSE {UpDown(i.rd, rx, XLEN - n)}
    BY DEF mask_form, Alone, UpDown
<1> HIDE DEF n, rx, N, j
<1>3. ~N /\ (is = Alone(j) \/ is = UpDown(i.rd, rx, XLEN - n))
    BY <1>2
<1>4. i.op = "and" /\ i.b # Imm /\ i.rd # 0 /\ Once(i, r)
    BY <1>3 DEF N
<1>5. r \in Regs /\ i.rd \in Regs \ {0}
    BY <1>4 DEF Insns
<1>6. ASSUME NEW g, NEW h, Apart(r, g, h), g.x[r] = k
      PROVE  /\ Worth(i, g.x) = Low(n, h.x[rx]) /\ rx \in Regs /\ Plainly(i) /\ Numbers(h)
             /\ h.x[rx] \in Int
    <2>1. g.x \in [Regs -> Int] /\ \A q \in Regs : q = r \/ g.x[q] = h.x[q]
        BY <1>6 DEF Apart, Numbers, Machine
    <2>2. Worth(i, g.x) = Low(n, g.x[rx]) /\ Plainly(i) /\ rx \in Regs \ {r} /\ g.x[rx] \in Int
        BY <1>1, <1>4, <1>5, <1>6, <2>1, MaskWorth DEF rx
    <2>3. g.x[rx] = h.x[rx]
        BY <2>1, <2>2
    <2>4. Numbers(h)
        BY <1>6 DEF Apart
    <2> QED
        BY <2>2, <2>3, <2>4
<1>7. ASSUME NEW g, NEW h, Apart(r, g, h), g.x[r] = k
      PROVE  ExecAll(h, is) = SetX(h, i.rd, Worth(i, g.x))
    <2>1. /\ Worth(i, g.x) = Low(n, h.x[rx]) /\ rx \in Regs /\ Plainly(i) /\ Numbers(h)
          /\ h.x[rx] \in Int
        BY <1>6, <1>7
    <2>2. CASE is = Alone(j)
        <3>1. j.op = "zext" /\ j.n = n /\ j.rd = i.rd /\ j.a = rx /\ j.b = 0 /\ j.k = 0
            BY DEF j, Ext, Insn
        <3>2. Plainly(j)
            BY <3>1 DEF Plainly, Transfers, Branches, Accesses, Atomics
        <3>3. Exec(h, j) = SetX(h, i.rd, Value("zext", n, 0, h.x[rx], Operand(j, h)))
            BY <3>1, <3>2, ExecPlain
        <3>4. Value("zext", n, 0, h.x[rx], Operand(j, h)) = Low(n, h.x[rx])
            BY PlainValues
        <3>5. ExecAll(h, Alone(j)) = Exec(h, j)
            BY ExecOne DEF Alone
        <3> QED
            BY <2>1, <2>2, <3>3, <3>4, <3>5
    <2>3. CASE is = UpDown(i.rd, rx, XLEN - n)
        <3>1. ExecAll(h, UpDown(i.rd, rx, XLEN - n)) = SetX(h, i.rd, Low(n, h.x[rx]))
            BY <1>1, <1>5, <2>1, UpDownRuns
        <3> QED
            BY <2>1, <2>3, <3>1
    <2> QED
        BY <1>3, <2>2, <2>3
<1>8. Does(r, k, i, is)
    BY <1>7 DEF Does
<1>9. Plainly(i)
    BY <1>4 DEF Plainly, Transfers, Branches, Accesses, Atomics
<1> QED
    BY <1>8, <1>9, ServeAs

\* A chain that is not relocated is one straight line that ends at its value.
ChainAt(s, a, e, F) ==
    /\ ChainEnd(s, a) = a + e /\ ChainLine(s, a, e, F) /\ F[a + e] = ChainValue(s, a)
    /\ a .. a + e \subseteq DOMAIN s.code /\ Clear(s, a, a + e + 1)

\* A chain is such a line.
LEMMA ChainIs ==
    ASSUME NEW s, IsSection(s), NEW a \in Nat \ {0}, a \in DOMAIN s.code, IsChain(s, a)
    PROVE  \E e \in Nat : \E F : ChainAt(s, a, e, F)
<1>1. PICK e \in Nat : Chain(s, a) = a .. a + e /\ ChainEnd(s, a) = a + e
    BY ChainInterval
<1>2. \A p \in a .. a + e : p \in DOMAIN s.code /\ \A q \in a + 1 .. p : Link(s, a, q)
    <2>1. \A p \in Chain(s, a) : p \in DOMAIN s.code /\ \A q \in a + 1 .. p : Link(s, a, q)
        BY DEF Chain
    <2> QED
        BY <1>1, <2>1
<1>3. \A p \in a + 1 .. a + e : Link(s, a, p)
    <2>1. \A p \in a + 1 .. a + e : p \in a .. a + e /\ p \in a + 1 .. p
        OBVIOUS
    <2> QED
        BY <1>2, <2>1
<1>4. \A p \in a .. a + e : ~is_relocated(s, p)
    BY <1>1 DEF IsChain
<1>5. Clear(s, a, a + e + 1)
    <2>1. a + e + 1 - 1 = a + e /\ \A p \in a .. a + e : p # a => p \in a + 1 .. a + e
        OBVIOUS
    <2>2. \A p \in a + 1 .. a + e : ~is_branch_target(s, p)
        BY <1>3 DEF Link
    <2> QED
        BY <1>4, <2>1, <2>2 DEF Clear
<1>6. PICK F : /\ F[a] = s.code[a].k
               /\ \A p \in a + 1 .. a + e : F[p] = li_chain_step(s.code[p], F[p - 1])
               /\ ChainValue(s, a) = F[a + e]
    <2>1. Chain(s, a) = a .. a + e
        BY <1>1
    <2>2. ChainEnd(s, a) = a + e
        BY <1>1
    <2>3. a \in Nat
        OBVIOUS
    <2>4. \E F : /\ F[a] = s.code[a].k
                 /\ \A p \in a + 1 .. a + e : F[p] = li_chain_step(s.code[p], F[p - 1])
                 /\ ChainValue(s, a) = F[a + e]
        BY ONLY <2>1, <2>2, <2>3, <1>1, ChainBuilds
    <2> QED
        BY <2>4
<1>7. ChainLine(s, a, e, F)
    <2>1. \A p \in a .. a + e : s.code[p] \in Insns
        <3>1. s.code \in [1 .. Len(s.code) -> Insns]
            BY DEF IsSection
        <3> QED
            BY <1>2, <3>1
    <2>2. \A p \in a + 1 .. a + e : StepOf(s.code[p]) /\ s.code[p].rd = s.code[a].rd
        BY <1>3 DEF Link
    <2> QED
        BY <1>6, <2>1, <2>2 DEF ChainLine, IsChain
<1>8. a .. a + e \subseteq DOMAIN s.code
    BY <1>2
<1> QED
    BY <1>1, <1>5, <1>6, <1>7, <1>8 DEF ChainAt

\* One constant is a chain.
LEMMA OneConstant ==
    ASSUME NEW s, IsSection(s), NEW a \in Nat \ {0}, a \in DOMAIN s.code, decode_const(s.code[a]),
           ~is_relocated(s, a)
    PROVE  \E F : ChainLine(s, a, 0, F) /\ F[a + 0] = s.code[a].k /\ Clear(s, a, a + 0 + 1)
<1> DEFINE F == [p \in {a} |-> s.code[a].k]
<1>1. a + 0 = a /\ a .. a + 0 = {a} /\ a + 1 .. a + 0 = {} /\ a + 0 + 1 - 1 = a /\ a .. a = {a}
    OBVIOUS
<1>2. F[a] = s.code[a].k
    OBVIOUS
<1>3. s.code[a] \in Insns
    BY DEF IsSection
<1> HIDE DEF F
<1>4. ChainLine(s, a, 0, F)
    BY <1>1, <1>2, <1>3 DEF ChainLine
<1>5. Clear(s, a, a + 0 + 1)
    BY <1>1 DEF Clear
<1> QED
    BY <1>1, <1>2, <1>4, <1>5

\* The uses of a chain, rewritten and the chain deleted.
LEMMA ChainUsesHold ==
    ASSUME NEW s, IsSection(s), Constants(s), NEW a \in Nat \ {0}, NEW e \in Nat, NEW F,
           ChainLine(s, a, e, F), Clear(s, a, a + e + 1), NEW walk \in Nat, NEW becomes, NEW rule,
           NEW f \in Folded(rule, s, a, a + e + 1, walk, s.code[a].rd, becomes),
           AllServe(s, s.code[a].rd, F[a + e], becomes),
           NEW x \in [Regs -> Words], x[0] = 0, NEW m \in Memory, NEW fuel \in Nat
    PROVE  Holds(s, f, x, m, fuel)
<1> DEFINE r == s.code[a].rd
           B == Leading(F, a, e)
           k == F[a + e]
           t == a + e + 1
<1>1. /\ Leads(s, r, B, a, t) /\ B[a] = Int /\ B[t] = {k} /\ k \in Words /\ r \in Regs \ {0}
    BY ChainLeads
<1>2. k \in Int
    BY <1>1, HalfLemma
<1>3. t \in Nat \ {0} /\ a < t
    OBVIOUS
<1> HIDE DEF r, B, k, t
<1>4. f \in Folded(rule, s, a, t, walk, r, becomes) /\ Clear(s, a, t) /\ AllServe(s, r, k, becomes)
    BY DEF r, k, t
<1> QED
    BY <1>1, <1>2, <1>3, <1>4, UsesHold

\* check_const_for_imm.
LEMMA ForImmHolds ==
    ASSUME NEW s, IsSection(s), Constants(s), NEW a \in Nat \ {0}, a \in DOMAIN s.code,
           NEW f \in check_const_for_imm(s, a),
           NEW x \in [Regs -> Words], x[0] = 0, NEW m \in Memory, NEW fuel \in Nat
    PROVE  Holds(s, f, x, m, fuel)
<1> DEFINE c == s.code[a]
           becomes == [p \in DOMAIN s.code |-> imm_form(s.code[p], c.rd, c.k)]
           P == decode_const(c) /\ c.rd \notin Fixed /\ ~is_relocated(s, a)
           A == Folded("const_for_imm", s, a, a + 1, CONST_WALK, c.rd, becomes)
<1>1. P /\ f \in A
    <2>1. check_const_for_imm(s, a) = IF P THEN A ELSE {}
        BY DEF check_const_for_imm
    <2> HIDE DEF P, A
    <2> QED
        BY <2>1
<1>2. PICK F : ChainLine(s, a, 0, F) /\ F[a + 0] = c.k /\ Clear(s, a, a + 0 + 1)
    BY <1>1, OneConstant
<1>3. c.rd \in Regs \ {0} /\ F[a + 0] \in Words /\ CONST_WALK \in Nat /\ 0 \in Nat /\ a + 0 + 1 = a + 1
    BY <1>2, ChainLeads, WalkAssumption
<1>4. c.k \in Int
    BY <1>2, <1>3, HalfLemma
<1>5. AllServe(s, c.rd, F[a + 0], becomes)
    <2> SUFFICES ASSUME NEW p \in DOMAIN s.code, NEW is \in becomes[p]
                 PROVE  Serves(c.rd, c.k, s.code[p], is)
        BY <1>2 DEF AllServe
    <2>1. is \in imm_form(s.code[p], c.rd, c.k) /\ s.code[p] \in Insns
        BY DEF IsSection
    <2> QED
        BY <1>3, <1>4, <2>1, ImmServes
<1> HIDE DEF becomes
<1>6. f \in Folded("const_for_imm", s, a, a + 0 + 1, CONST_WALK, c.rd, becomes)
    BY <1>1, <1>3
<1> QED
    BY <1>2, <1>3, <1>5, <1>6, ChainUsesHold

\* check_zero_for_store.
LEMMA ZeroStoreHolds ==
    ASSUME NEW s, IsSection(s), Constants(s), NEW a \in Nat \ {0}, a \in DOMAIN s.code,
           NEW f \in check_zero_for_store(s, a),
           NEW x \in [Regs -> Words], x[0] = 0, NEW m \in Memory, NEW fuel \in Nat
    PROVE  Holds(s, f, x, m, fuel)
<1> DEFINE c == s.code[a]
           store(i) == rv_mem_is_store(i) /\ i.b = c.rd /\ i.a # c.rd
           becomes == [p \in DOMAIN s.code |->
                          IF store(s.code[p]) THEN {Alone([s.code[p] EXCEPT !.b = 0])} ELSE {}]
           P == decode_const(c) /\ c.k = 0 /\ c.rd \notin Fixed /\ ~is_relocated(s, a)
           A == Folded("zero_for_store", s, a, a + 1, ZSTORE_WALK, c.rd, becomes)
<1>1. P /\ f \in A
    <2>1. check_zero_for_store(s, a) = IF P THEN A ELSE {}
        BY DEF check_zero_for_store, Alone
    <2> HIDE DEF P, A
    <2> QED
        BY <2>1
<1>2. PICK F : ChainLine(s, a, 0, F) /\ F[a + 0] = c.k /\ Clear(s, a, a + 0 + 1)
    BY <1>1, OneConstant
<1>3. c.rd \in Regs \ {0} /\ ZSTORE_WALK \in Nat /\ 0 \in Nat /\ a + 0 + 1 = a + 1
    BY <1>2, ChainLeads, WalkAssumption
<1>4. AllServe(s, c.rd, F[a + 0], becomes)
    <2> SUFFICES ASSUME NEW p \in DOMAIN s.code, NEW is \in becomes[p]
                 PROVE  Serves(c.rd, 0, s.code[p], is)
        BY <1>1, <1>2 DEF AllServe
    <2>1. s.code[p] \in Insns
        BY DEF IsSection
    <2>2. store(s.code[p]) /\ is = Alone([s.code[p] EXCEPT !.b = 0])
        OBVIOUS
    <2> QED
        BY <1>3, <2>1, <2>2, ZeroServes DEF rv_mem_is_store
<1> HIDE DEF becomes
<1>5. f \in Folded("zero_for_store", s, a, a + 0 + 1, ZSTORE_WALK, c.rd, becomes)
    BY <1>1, <1>3
<1> QED
    BY <1>2, <1>3, <1>4, <1>5, ChainUsesHold

\* check_mask_for_zext.
LEMMA MaskHolds ==
    ASSUME NEW s, IsSection(s), Constants(s), NEW a \in Nat \ {0}, a \in DOMAIN s.code,
           NEW f \in check_mask_for_zext(s, a),
           NEW x \in [Regs -> Words], x[0] = 0, NEW m \in Memory, NEW fuel \in Nat
    PROVE  Holds(s, f, x, m, fuel)
<1> DEFINE r == s.code[a].rd
           k == ChainValue(s, a)
           t == ChainEnd(s, a) + 1
           becomes(extension) == [p \in DOMAIN s.code |-> mask_form(s.code[p], r, k, extension)]
           A(extension) == Folded("mask_for_zext", s, a, t, CONST_WALK, r, becomes(extension))
           P == IsChain(s, a) /\ r \notin Fixed /\ t >= a + 2
           Q == k >= 2^(IMM - 1) /\ MaskBits(k) # {}
<1>1. P /\ Q /\ (f \in A(TRUE) \/ f \in A(FALSE))
    <2>1. check_mask_for_zext(s, a) = IF P THEN IF Q THEN A(TRUE) \cup A(FALSE) ELSE {} ELSE {}
        BY DEF check_mask_for_zext
    <2> HIDE DEF P, Q, A
    <2> QED
        BY <2>1
<1>0. PICK e \in Nat : \E F : ChainAt(s, a, e, F)
    BY <1>1, ChainIs
<1>2. PICK F : ChainAt(s, a, e, F)
    BY <1>0
<1>3. /\ ChainLine(s, a, e, F) /\ Clear(s, a, a + e + 1) /\ F[a + e] = k /\ t = a + e + 1
    BY <1>2 DEF ChainAt
<1>4. r \in Regs \ {0} /\ CONST_WALK \in Nat
    BY <1>3, ChainLeads, WalkAssumption
<1>5. PICK extension : f \in A(extension)
    BY <1>1
<1>6. AllServe(s, r, F[a + e], becomes(extension))
    <2> SUFFICES ASSUME NEW p \in DOMAIN s.code, NEW is \in becomes(extension)[p]
                 PROVE  Serves(r, k, s.code[p], is)
        BY <1>3 DEF AllServe
    <2>1. is \in mask_form(s.code[p], r, k, extension) /\ s.code[p] \in Insns
        BY DEF IsSection
    <2> HIDE DEF r, k
    <2> QED
        BY <1>1, <1>4, <2>1, MaskServes
<1> HIDE DEF becomes
<1>7. f \in Folded("mask_for_zext", s, a, a + e + 1, CONST_WALK, r, becomes(extension))
    BY <1>3, <1>5
<1> QED
    BY <1>3, <1>4, <1>6, <1>7, ChainUsesHold

\* One more instruction behind others.
LEMMA ExecSnoc ==
    ASSUME NEW S, NEW is \in Seq(S), NEW i \in S, NEW h
    PROVE  /\ ExecAll(h, is \o <<i>>) = Exec(ExecAll(h, is), i)
           /\ is \o <<i>> \in Seq(S)
<1> DEFINE n == Len(is)
           js == is \o <<i>>
<1>1. /\ n \in Nat /\ js \in Seq(S) /\ Len(js) = n + 1 /\ js[n + 1] = i
      /\ \A k \in 1 .. n : js[k] = is[k]
    OBVIOUS
<1> HIDE DEF js
<1>2. PICK g : /\ \A k \in 0 .. n : g[k] = IF k = 0 THEN h ELSE Exec(g[k - 1], is[k])
               /\ ExecAll(h, is) = g[n]
    BY <1>1, ExecRun
<1>3. PICK f : /\ \A k \in 0 .. Len(js) : f[k] = IF k = 0 THEN h ELSE Exec(f[k - 1], js[k])
               /\ ExecAll(h, js) = f[Len(js)]
    <2>1. Len(js) \in Nat
        BY <1>1
    <2> QED
        BY <2>1, ExecRun
<1> DEFINE T == {k \in Nat : k <= n => f[k] = g[k]}
<1>4. ASSUME NEW k \in Nat, \A m \in Nat : m < k => m \in T
      PROVE  k \in T
    <2> SUFFICES ASSUME k <= n
                 PROVE  f[k] = g[k]
        OBVIOUS
    <2>1. CASE k = 0
        <3>1. 0 \in 0 .. n /\ 0 \in 0 .. Len(js)
            BY <1>1
        <3> QED
            BY <1>2, <1>3, <2>1, <3>1
    <2>2. CASE k # 0
        <3>1. k \in 0 .. n /\ k \in 0 .. Len(js) /\ k \in 1 .. n /\ k - 1 \in Nat /\ k - 1 < k /\ k - 1 <= n
            BY <1>1, <2>2
        <3>2. f[k - 1] = g[k - 1]
            BY <1>4, <3>1
        <3>3. f[k] = Exec(f[k - 1], js[k]) /\ g[k] = Exec(g[k - 1], is[k]) /\ js[k] = is[k]
            BY <1>1, <1>2, <1>3, <2>2, <3>1
        <3> QED
            BY <3>2, <3>3
    <2> QED
        BY <2>1, <2>2
<1>5. Nat \subseteq T
    <2> HIDE DEF T
    <2> QED
        BY <1>4, SetInduction
<1>6. f[n] = g[n]
    BY <1>1, <1>5
<1>7. f[n + 1] = Exec(f[n], js[n + 1])
    <2>1. n + 1 \in 0 .. Len(js) /\ n + 1 # 0 /\ n + 1 - 1 = n
        BY <1>1
    <2> QED
        BY <1>3, <2>1
<1> QED
    BY <1>1, <1>2, <1>3, <1>6, <1>7 DEF js

\* What cutting to n bits takes away.
Span(n) == -(2^(n - 1)) .. 2^(n - 1) - 1

\* What cutting gives is in the span of n bits, and a multiple of 2^n away.
LEMMA CutIs ==
    ASSUME NEW n \in 1 .. XLEN, NEW v \in Int
    PROVE  /\ 2^n \in Nat \ {0} /\ 2^(n - 1) \in Nat \ {0} /\ 2^n = 2 * 2^(n - 1)
           /\ Sext(n, v) \in Span(n) /\ Sext(n, v) \in Int
           /\ \E t \in Int : Sext(n, v) = v + t * 2^n
<1> DEFINE p == 2^(n - 1)
           q == 2^n
           d == (v + p) \div q
           r == (v + p) % q
<1>1. q = 2 * p /\ p \in Nat \ {0}
    BY PowerNext
<1>2. Sext(n, v) = r - p
    BY DEF Sext
<1> HIDE DEF p, q
<1>3. q \in Nat \ {0} /\ v + p \in Int
    BY <1>1
<1>4. d \in Int /\ v + p = d * q + r
    BY <1>3
<1>5. r \in 0 .. q - 1
    BY <1>3
<1> HIDE DEF d, r
<1>6. (-d) * q = -(d * q) /\ d * q \in Int /\ -d \in Int
    BY <1>3, <1>4
<1>7. r - p = v + (-d) * q
    BY <1>1, <1>3, <1>4, <1>5, <1>6
<1>8. r - p \in -p .. p - 1 /\ r - p \in Int
    BY <1>1, <1>5
<1>9. Sext(n, v) = v + (-d) * q /\ Sext(n, v) \in -p .. p - 1 /\ Sext(n, v) \in Int
    BY <1>2, <1>7, <1>8
<1>10. \E t \in Int : Sext(n, v) = v + t * q
    BY <1>6, <1>9
<1> QED
    BY <1>1, <1>3, <1>9, <1>10 DEF Span, p, q

\* What is in the range and differs by that is what is left.
LEMMA CutOf ==
    ASSUME NEW n \in 1 .. XLEN, NEW u \in Span(n), NEW t \in Int
    PROVE  Sext(n, u + t * 2^n) = u /\ u \in Int
<1> DEFINE p == 2^(n - 1)
           q == 2^n
           v == u + t * q
<1>1. q = 2 * p /\ p \in Nat \ {0}
    BY PowerNext
<1>2. u \in -p .. p - 1 /\ u \in Int
    BY <1>1 DEF Span
<1> HIDE DEF p, q
<1>3. t * q \in Int /\ v \in Int
    BY <1>1, <1>2
<1> DEFINE w == v + p
           r == u + p
<1>4. r \in 0 .. q - 1
    BY <1>1, <1>2
<1>5. w = r + t * q
    BY <1>1, <1>2, <1>3
<1>6. (r + t * q) % q = r % q
    <2>1. r \in Int /\ q \in Nat \ {0}
        BY <1>1, <1>2
    <2> HIDE DEF r
    <2> QED
        BY <2>1, ModPast
<1>7. r % q = r
    <2>1. r \in Int /\ q \in Nat /\ 0 <= r /\ r < q
        BY <1>1, <1>4
    <2> HIDE DEF r
    <2> QED
        BY <2>1, ModOwn
<1>8. Sext(n, v) = (w % q) - p
    BY DEF Sext, p, q
<1> HIDE DEF w, v
<1>9. Sext(n, v) = u
    BY <1>1, <1>2, <1>5, <1>6, <1>7, <1>8
<1> QED
    BY <1>2, <1>9 DEF v, q

\* The powers a plan has to do with.
LEMMA Sizes ==
    /\ IMM \in 1 .. XLEN /\ WORD \in 1 .. XLEN /\ WORD - IMM \in 1 .. XLEN /\ XLEN \in 1 .. XLEN
    /\ 2^IMM \in Nat \ {0} /\ 2^(IMM - 1) \in Nat \ {0} /\ 2^(WORD - 1) \in Nat \ {0}
    /\ 2^IMM = 2 * 2^(IMM - 1) /\ 2 <= 2^(IMM - 1) /\ 2^IMM <= 2^(WORD - 1) /\ 2^(WORD - 1) <= Half
    /\ 2^WORD = 2 * 2^(WORD - 1)
    /\ 2^(WORD - IMM) \in Nat \ {0} /\ 2^WORD = 2^IMM * 2^(WORD - IMM)
    /\ 2^(XLEN - IMM) \in Nat \ {0} /\ 2 * Half = 2^IMM * 2^(XLEN - IMM)
<1>1. XLEN \in Nat /\ WORD \in Nat /\ IMM \in Nat /\ WORD + 3 <= XLEN /\ 1 < IMM /\ IMM < WORD
    BY HartAssumption
<1>2. /\ IMM \in 1 .. XLEN /\ WORD \in 1 .. XLEN /\ WORD - IMM \in 1 .. XLEN /\ XLEN \in 1 .. XLEN
      /\ IMM - 1 \in Nat /\ WORD - 1 \in Nat /\ WORD - IMM \in Nat /\ XLEN - IMM \in Nat /\ XLEN - 1 \in Nat
      /\ XLEN - IMM \in 1 .. XLEN
    BY <1>1
<1>3. 2^IMM = 2 * 2^(IMM - 1) /\ 2^(IMM - 1) \in Nat \ {0} /\ 2^WORD = 2 * 2^(WORD - 1)
      /\ 2^(WORD - 1) \in Nat \ {0}
    BY <1>2, PowerNext
<1>4. 2 <= 2^(IMM - 1)
    <2> DEFINE i == 1
    <2>1. 2^i <= 2^(IMM - 1)
        <3>1. i \in Nat /\ IMM - 1 \in Nat /\ i <= IMM - 1 /\ IMM - 1 <= XLEN
            BY <1>1
        <3> HIDE DEF i
        <3> QED
            BY <3>1, PowerUpTo
    <2>2. 1 \in 1 .. XLEN
        BY <1>1
    <2>3. 2^1 = 2 * 2^(1 - 1) /\ 2^(1 - 1) \in Nat \ {0}
        BY <2>2, PowerNext
    <2> QED
        BY <1>3, <2>1, <2>3
<1>5. 2^IMM <= 2^(WORD - 1) /\ 2^(WORD - 1) <= 2^(XLEN - 1)
    BY <1>1, <1>2, PowerUpTo
<1>6. 2^IMM \in Nat \ {0} /\ 2^(WORD - IMM) \in Nat \ {0} /\ 2^(XLEN - IMM) \in Nat \ {0}
    <2>1. IMM \in 0 .. XLEN /\ WORD - IMM \in 0 .. XLEN /\ XLEN - IMM \in 0 .. XLEN
        BY <1>2
    <2> QED
        BY <2>1, PowerIs
<1>7. 2^(IMM + (WORD - IMM)) = 2^IMM * 2^(WORD - IMM) /\ 2^(IMM + (XLEN - IMM)) = 2^IMM * 2^(XLEN - IMM)
    BY <1>1, <1>2, PowerSum
<1>8. IMM + (WORD - IMM) = WORD /\ IMM + (XLEN - IMM) = XLEN
    BY <1>1
<1>9. 2^XLEN = 2 * Half /\ Half = 2^(XLEN - 1)
    BY HalfLemma DEF Half
<1> QED
    BY <1>2, <1>3, <1>4, <1>5, <1>6, <1>7, <1>8, <1>9

\* What is above the low bits, rounded: it and they make the word.
LEMMA UpperIs ==
    ASSUME NEW u \in Words
    PROVE  /\ Upper(u) \in Int /\ Upper(u) * 2^IMM = Sext(XLEN, u - Sext(IMM, u))
           /\ Sext(IMM, u) \in Span(IMM) /\ Sext(IMM, u) \in Int /\ u \in Int
           /\ \E z \in Int : Upper(u) * 2^IMM = u - Sext(IMM, u) + z * (2 * Half)
<1> DEFINE N == 2^IMM
           R0 == 2^(XLEN - IMM)
           lo == Sext(IMM, u)
           t == Sext(XLEN, u - lo)
<1>1. /\ N \in Nat \ {0} /\ R0 \in Nat \ {0} /\ 2 * Half = N * R0
      /\ IMM \in 1 .. XLEN /\ XLEN \in 1 .. XLEN
    BY Sizes
<1>2. u \in Int
    BY HalfLemma
<1>3. /\ lo \in Span(IMM) /\ lo \in Int
      /\ \E c \in Int : lo = u + c * N
    BY <1>1, <1>2, CutIs
<1>4. PICK c \in Int : lo = u + c * N
    BY <1>3
<1>5. u - lo \in Int
    BY <1>2, <1>3
<1> HIDE DEF N, R0, lo
<1>6. t \in Int /\ \E z \in Int : t = u - lo + z * (2 * Half)
    BY <1>1, <1>5, SextIs, CutIs
<1>7. PICK z \in Int : t = u - lo + z * (2 * Half)
    BY <1>6
<1> HIDE DEF t
<1> DEFINE w == z * R0 - c
<1>8. w \in Int
    BY <1>1
<1>9. t = w * N
    <2>1. z * (N * R0) = (z * R0) * N /\ (z * R0 - c) * N = (z * R0) * N - c * N
        BY <1>1
    <2>2. c * N \in Int /\ (z * R0) * N \in Int
        BY <1>1
    <2>3. u - lo = -(c * N)
        BY <1>2, <1>3, <1>4, <2>2
    <2> QED
        BY <1>1, <1>7, <2>1, <2>2, <2>3
<1> HIDE DEF w
<1>10. t \div N = w
    BY <1>1, <1>8, <1>9, DivTimes
<1>11. Upper(u) = w
    BY <1>10 DEF Upper, t, lo, N
<1>12. Upper(u) \in Int /\ Upper(u) * N = t /\ lo \in Span(IMM) /\ lo \in Int /\ u \in Int
       /\ Upper(u) * N = u - lo + z * (2 * Half)
    BY <1>2, <1>3, <1>7, <1>8, <1>9, <1>11
<1> QED
    BY <1>12 DEF t, lo, N

\* Of a short word they are the word itself.
LEMMA UpperShort ==
    ASSUME NEW u \in Span(WORD)
    PROVE  /\ u \in Words /\ u \in Int
           /\ Upper(u) * 2^IMM = u - Sext(IMM, u)
<1> DEFINE N == 2^IMM
           L == 2^(IMM - 1)
           M == 2^(WORD - 1)
           lo == Sext(IMM, u)
           t == Upper(u) * N
<1>1. /\ L \in Nat \ {0} /\ M \in Nat \ {0} /\ N = 2 * L /\ N <= M /\ M <= Half
    BY Sizes
<1>2. Half \in Nat /\ Words = -Half .. Half - 1
    BY HalfLemma
<1>3. u \in -M .. M - 1
    BY DEF Span
<1> HIDE DEF N, L, M
<1>4. u \in Words /\ u \in Int
    BY <1>1, <1>2, <1>3
<1>5. lo \in Span(IMM) /\ t = Sext(XLEN, u - lo) /\ lo \in Int
    <2>1. Upper(u) * 2^IMM = Sext(XLEN, u - Sext(IMM, u)) /\ Sext(IMM, u) \in Span(IMM) /\ Sext(IMM, u) \in Int
        BY <1>4, UpperIs
    <2> QED
        BY <2>1 DEF N
<1> HIDE DEF lo, t
<1>6. lo \in -L .. L - 1
    <2>1. Span(IMM) = -L .. L - 1
        BY DEF Span, L
    <2> QED
        BY <1>5, <2>1
<1>7. u - lo \in -(M + L) .. M + L - 1 /\ M + L <= Half + L
    BY <1>1, <1>2, <1>3, <1>4, <1>5, <1>6
<1>8. M + M <= Half
    <2>1. WORD \in Nat /\ WORD <= XLEN - 1 /\ XLEN - 1 \in Nat /\ XLEN - 1 <= XLEN
        BY HartAssumption
    <2>2. 2^WORD <= 2^(XLEN - 1)
        BY <2>1, PowerUpTo
    <2>3. 2^WORD = 2 * M
        BY Sizes DEF M
    <2> QED
        BY <1>1, <2>2, <2>3 DEF Half
<1>9. u - lo \in Words
    BY <1>1, <1>2, <1>7, <1>8
<1>10. t = u - lo
    BY <1>5, <1>9, SextOwn
<1> QED
    BY <1>4, <1>10 DEF t, lo, N

\* How far a number is from 0.
Abs(v) == IF v < 0 THEN -v ELSE v

\* Scaling scales the distance.
LEMMA AbsTimes ==
    ASSUME NEW u \in Int, NEW n \in Nat \ {0}
    PROVE  /\ Abs(u) \in Nat /\ Abs(u * n) = Abs(u) * n /\ u * n \in Int
           /\ (u = 0 <=> Abs(u) = 0) /\ Abs(u) <= Abs(u * n)
<1>1. u * n \in Int
    OBVIOUS
<1>2. CASE 0 <= u
    <2>1. u * n \in Nat /\ u <= u * n
        BY <1>2
    <2> QED
        BY <1>2, <2>1 DEF Abs
<1>3. CASE u < 0
    <2> DEFINE v == -u
    <2>1. v \in Nat \ {0} /\ u = -v
        BY <1>3
    <2> HIDE DEF v
    <2>2. v * n \in Nat \ {0} /\ v <= v * n /\ (-v) * n = -(v * n)
        BY <2>1
    <2>3. Abs(u) = v /\ Abs(u * n) = v * n
        BY <1>3, <2>1, <2>2 DEF Abs
    <2> QED
        BY <1>1, <1>3, <2>1, <2>2, <2>3
<1> QED
    BY <1>2, <1>3

\* The product of the larger of two factors is the larger.
LEMMA TimesFour ==
    ASSUME NEW b \in Nat, NEW c \in Nat, b <= c, NEW n \in Nat, 4 <= n
    PROVE  4 * b <= c * n
<1> DEFINE d == n - 4
           e == c * d
<1>1. d \in Nat /\ n = 4 + d
    OBVIOUS
<1> HIDE DEF d
<1>2. e \in Nat /\ c * (4 + d) = 4 * c + e
    BY <1>1
<1> HIDE DEF e
<1> QED
    BY <1>1, <1>2

\* What does not fit a short word is more than what is above its low bits, which is
\* something.
LEMMA UpperLong ==
    ASSUME NEW u \in Words, u \notin Span(WORD)
    PROVE  Upper(u) # 0 /\ Abs(Upper(u)) < Abs(u) /\ Abs(Upper(u)) * 2^IMM <= Half
<1> DEFINE N == 2^IMM
           L == 2^(IMM - 1)
           M == 2^(WORD - 1)
           lo == Sext(IMM, u)
           U == Upper(u)
<1>1. /\ N \in Nat \ {0} /\ L \in Nat \ {0} /\ M \in Nat \ {0} /\ N = 2 * L /\ 2 <= L /\ N <= M /\ M <= Half
    BY Sizes
<1>2. Half \in Nat /\ Words = -Half .. Half - 1
    BY HalfLemma
<1>3. /\ U \in Int /\ U * N = Sext(XLEN, u - lo)
      /\ lo \in Span(IMM) /\ lo \in Int /\ u \in Int
      /\ \E z \in Int : U * N = u - lo + z * (2 * Half)
    BY UpperIs
<1>4. PICK z \in Int : U * N = u - lo + z * (2 * Half)
    BY <1>3
<1>5. Span(IMM) = -L .. L - 1 /\ Span(WORD) = -M .. M - 1
    BY DEF Span
<1> DEFINE t == U * N
           y == z * (2 * Half)
<1>6. t \in Words
    <2>1. u - lo \in Int
        BY <1>3
    <2> QED
        BY <1>3, <2>1, SextWord
<1>7. y \in Int /\ (z = 0 => y = 0) /\ (z >= 1 => y >= 2 * Half) /\ (z <= -1 => y <= -(2 * Half))
    <2> DEFINE h == 2 * Half
    <2>1. h \in Nat
        BY <1>2
    <2> HIDE DEF h
    <2>2. z * h \in Int /\ (z = 0 => z * h = 0) /\ (z >= 1 => z * h >= h) /\ (z <= -1 => z * h <= -h)
        <3>1. CASE z = 0
            BY <2>1, <3>1
        <3>2. CASE z >= 1
            <4> DEFINE w == z - 1
            <4>1. w \in Nat /\ z = w + 1
                BY <3>2
            <4> HIDE DEF w
            <4>2. w * h \in Nat /\ (w + 1) * h = w * h + h
                BY <2>1, <4>1
            <4> QED
                BY <2>1, <3>2, <4>1, <4>2
        <3>3. CASE z <= -1
            <4> DEFINE w == -1 - z
            <4>1. w \in Nat /\ z = -1 - w
                BY <3>3
            <4> HIDE DEF w
            <4>2. w * h \in Nat /\ (-1 - w) * h = -(w * h) - h
                BY <2>1, <4>1
            <4> QED
                BY <2>1, <3>3, <4>1, <4>2
        <3> QED
            BY <3>1, <3>2, <3>3
    <2> QED
        BY <2>2 DEF h
<1>8. Abs(U) \in Nat /\ Abs(t) = Abs(U) * N /\ (U = 0 <=> Abs(U) = 0)
    BY <1>1, <1>3, AbsTimes
<1>9. t = u - lo + y
    BY <1>4
<1>10. u \notin -M .. M - 1 /\ lo \in -L .. L - 1
    BY <1>3, <1>5
<1>11. U = 0 => t = 0
    BY <1>1, <1>3
<1> HIDE DEF t, y, U, N, L, M, lo
<1>12. z = 0 \/ z >= 1 \/ z <= -1
    OBVIOUS
<1>13. u \in -Half .. Half - 1 /\ t \in -Half .. Half - 1 /\ t \in Int
    BY <1>2, <1>6
<1>14. U # 0
    <2> SUFFICES ASSUME t = 0
                 PROVE  FALSE
        BY <1>11
    <2>1. y = lo - u
        BY <1>3, <1>7, <1>9
    <2>2. z = 0
        BY <1>1, <1>2, <1>3, <1>7, <1>10, <1>12, <1>13, <2>1
    <2>3. u = lo
        BY <1>3, <1>7, <2>1, <2>2
    <2> QED
        BY <1>1, <1>3, <1>10, <2>3
<1>15. Abs(t) <= Abs(u) + L /\ Abs(t) <= Half /\ Abs(u) \in Nat /\ Abs(t) \in Nat /\ Abs(u) >= M
    BY <1>1, <1>2, <1>3, <1>7, <1>9, <1>10, <1>12, <1>13 DEF Abs
<1>16. Abs(U) < Abs(u)
    <2> SUFFICES ASSUME Abs(u) <= Abs(U)
                 PROVE  FALSE
        BY <1>8, <1>15
    <2>1. 4 * Abs(u) <= Abs(U) * N
        BY <1>1, <1>8, <1>15, TimesFour
    <2> QED
        BY <1>1, <1>8, <1>15, <2>1
<1>17. Abs(U) * N <= Half
    BY <1>8, <1>15
<1> QED
    BY <1>14, <1>16, <1>17 DEF U, N

\* The value of the pair lui and addi.
LEMMA ShortValue ==
    ASSUME NEW u \in Span(WORD), NEW lo, lo = Sext(IMM, u), NEW hi, hi = Sext(WORD - IMM, Upper(u))
    PROVE  /\ lo \in Words /\ hi * 2^IMM \in Words /\ hi \in Int
           /\ Sext(WORD, hi * 2^IMM + lo) = u
           /\ hi = 0 => lo = u
           /\ lo = 0 => hi * 2^IMM = u
<1> DEFINE N == 2^IMM
           K == 2^(WORD - IMM)
           M == 2^(WORD - 1)
           P == 2^(WORD - IMM - 1)
           U == Upper(u)
           v == hi * N
<1>1. /\ N \in Nat \ {0} /\ K \in Nat \ {0} /\ M \in Nat \ {0} /\ 2^WORD = N * K /\ 2^WORD = 2 * M
      /\ WORD - IMM \in 1 .. XLEN /\ WORD \in 1 .. XLEN /\ M <= Half /\ IMM \in 1 .. XLEN
    BY Sizes
<1>2. u \in Words /\ u \in Int /\ U * N = u - lo
    BY UpperShort
<1>3. lo \in Span(IMM) /\ lo \in Int /\ U \in Int
    BY <1>2, UpperIs
<1>4. lo \in Words
    BY <1>1, <1>2, NarrowWord
<1>5. /\ P \in Nat \ {0} /\ K = 2 * P
      /\ hi \in Span(WORD - IMM) /\ hi \in Int
      /\ \E c \in Int : hi = U + c * K
    BY <1>1, <1>3, CutIs
<1>6. PICK c \in Int : hi = U + c * K
    BY <1>5
<1>7. Span(WORD - IMM) = -P .. P - 1 /\ Span(WORD) = -M .. M - 1
    BY DEF Span
<1> HIDE DEF N, K, M, P, U
<1>8. P * N = M
    <2> DEFINE q == P * N
    <2>1. N * (2 * P) = 2 * q /\ q \in Int
        BY <1>1, <1>5
    <2> HIDE DEF q
    <2> QED
        BY <1>1, <1>5, <2>1 DEF q
<1>9. v \in -M .. M - N /\ v \in Int
    <2>1. hi \in -P .. P - 1
        BY <1>5, <1>7
    <2> DEFINE d == P - 1 - hi
               e == hi + P
    <2>2. d \in Nat /\ e \in Nat
        BY <1>5, <2>1
    <2>3. hi = P - 1 - d /\ hi = e - P
        BY <1>5
    <2> HIDE DEF d, e
    <2>4. /\ (P - 1 - d) * N = P * N - N - d * N /\ (e - P) * N = e * N - P * N
          /\ d * N \in Nat /\ e * N \in Nat /\ v \in Int
        BY <1>1, <1>5, <2>2
    <2> QED
        BY <1>1, <1>5, <1>8, <2>3, <2>4
<1>10. v + lo = u + c * 2^WORD
    <2> DEFINE w == (c * K) * N
    <2>1. (U + c * K) * N = U * N + w /\ w \in Int /\ c * (N * K) = w
        BY <1>1, <1>3
    <2> HIDE DEF w
    <2>2. v = U * N + w
        BY <1>6, <2>1
    <2>3. c * 2^WORD = w
        BY <1>1, <2>1
    <2> QED
        BY <1>2, <1>3, <2>1, <2>2, <2>3
<1> HIDE DEF v
<1>11. Sext(WORD, v + lo) = u
    <2>1. Sext(WORD, u + c * 2^WORD) = u
        BY <1>1, CutOf
    <2> QED
        BY <1>10, <2>1
<1>12. v \in Span(WORD) /\ v \in Words
    BY <1>1, <1>7, <1>9, HalfLemma
<1>13. lo \in Span(WORD)
    <2> DEFINE L == 2^(IMM - 1)
    <2>1. Span(IMM) = -L .. L - 1 /\ L \in Nat \ {0} /\ N = 2 * L /\ N <= M
        BY Sizes DEF Span, N, M
    <2> HIDE DEF L
    <2> QED
        BY <1>1, <1>3, <1>7, <2>1
<1>14. \A w \in Span(WORD) : Sext(WORD, w) = w
    <2> TAKE w \in Span(WORD)
    <2> DEFINE z == 0
    <2>1. z \in Int
        OBVIOUS
    <2> HIDE DEF z
    <2>2. Sext(WORD, w + z * 2^WORD) = w /\ w \in Int
        BY <1>1, <2>1, CutOf
    <2>3. w + z * 2^WORD = w
        BY <1>1, <2>2 DEF z
    <2> QED
        BY <2>2, <2>3
<1>15. hi = 0 => lo = u
    <2> SUFFICES ASSUME hi = 0
                 PROVE  lo = u
        OBVIOUS
    <2>1. v = 0
        BY <1>1 DEF v
    <2>2. v + lo = lo
        BY <1>3, <2>1
    <2> QED
        BY <1>11, <1>13, <1>14, <2>2
<1>16. lo = 0 => v = u
    <2> SUFFICES ASSUME lo = 0
                 PROVE  v = u
        OBVIOUS
    <2>1. v + lo = v
        BY <1>9
    <2> QED
        BY <1>11, <1>12, <1>14, <2>1
<1>17. v \in Words /\ Sext(WORD, v + lo) = u /\ (lo = 0 => v = u)
    BY <1>11, <1>12, <1>16
<1> QED
    BY <1>4, <1>5, <1>15, <1>17 DEF v, N

\* The instructions that a plan is made of.
Forms == [op : {"add", "sll"}, n : Int, rd : Int, a : Int, b : Int, k : Int, to : Int]

\* Instructions that put v in rd and do nothing else.
Puts(is, rd, v) ==
    is \in Seq(Forms) /\ \A h : Numbers(h) => ExecAll(h, is) = SetX(h, rd, v)

\* Registers are numbers.
LEMMA RegInt ==
    ASSUME NEW rd \in Regs
    PROVE  rd \in Int
    BY HartAssumption

\* An add or a shift left of an immediate is one of them.
LEMMA FormIs ==
    ASSUME NEW op \in {"add", "sll"}, NEW n \in {WORD, XLEN}, NEW rd \in Regs, NEW a \in Regs, NEW k \in Int
    PROVE  Insn(op, n, rd, a, Imm, k, 0) \in Forms
<1>1. n \in Int /\ rd \in Int /\ a \in Int
    BY HartAssumption, RegInt
<1>2. Imm \in Int
    BY DEF Imm
<1> QED
    BY <1>1, <1>2 DEF Insn, Forms

\* A load of a constant puts it.
LEMMA PutsLi ==
    ASSUME NEW rd \in Regs \ {0}, NEW v \in Words
    PROVE  Puts(<<Li(rd, v)>>, rd, v)
<1> DEFINE i == Li(rd, v)
<1>1. v \in Int /\ rd \in Int /\ XLEN \in Int
    <2>1. rd \in Regs
        OBVIOUS
    <2> QED
        BY <2>1, HalfLemma, RegInt
<1>2. /\ i.op = "add" /\ i.n = XLEN /\ i.rd = rd /\ i.a = 0 /\ i.b = Imm /\ i.k = v
    BY DEF Li, I, Insn
<1>3. i \in Forms
    <2>1. i = Insn("add", XLEN, rd, 0, Imm, v, 0) /\ rd \in Regs /\ 0 \in Regs
        BY HartAssumption DEF Li, I
    <2> QED
        BY <1>1, <2>1, FormIs
<1>4. Plainly(i)
    BY <1>2, PlainOps
<1> HIDE DEF i
<1>5. ASSUME NEW h, Numbers(h)
      PROVE  ExecAll(h, <<i>>) = SetX(h, rd, v)
    <2>1. h.x[0] = 0
        BY <1>5 DEF Numbers, Machine
    <2>2. Exec(h, i) = SetX(h, rd, Value("add", XLEN, v, 0, v))
        BY <1>2, <1>4, <2>1, ExecPlain DEF Operand
    <2>3. Value("add", XLEN, v, 0, v) = Sext(XLEN, 0 + v)
        BY PlainValues
    <2>4. 0 + v = v /\ Sext(XLEN, v) = v
        BY <1>1, SextOwn
    <2>5. ExecAll(h, <<i>>) = Exec(h, i)
        BY ExecOne
    <2> QED
        BY <2>2, <2>3, <2>4, <2>5
<1>6. <<i>> \in Seq(Forms)
    BY <1>3
<1> QED
    BY <1>5, <1>6 DEF Puts, i

\* One more instruction of the same register puts what it computes.
LEMMA PutsMore ==
    ASSUME NEW is, NEW rd \in Regs \ {0}, NEW w \in Int, NEW u \in Int, Puts(is, rd, w),
           NEW i \in Forms, Plainly(i), i.rd = rd, i.a = rd, i.b = Imm, Value(i.op, i.n, i.k, w, i.k) = u
    PROVE  Puts(is \o <<i>>, rd, u)
<1>1. is \in Seq(Forms)
    BY DEF Puts
<1>2. is \o <<i>> \in Seq(Forms)
    BY <1>1
<1>3. ASSUME NEW h, Numbers(h)
      PROVE  ExecAll(h, is \o <<i>>) = SetX(h, rd, u)
    <2>1. ExecAll(h, is \o <<i>>) = Exec(ExecAll(h, is), i)
        BY <1>1, ExecSnoc
    <2> DEFINE g == SetX(h, rd, w)
    <2>2. ExecAll(h, is) = g
        BY <1>3 DEF Puts
    <2>3. rd \in Regs /\ rd # 0
        OBVIOUS
    <2>4. Numbers(g) /\ (rd # 0 => g.x[rd] = w)
        BY <1>3, <2>3, SetNumbers
    <2>5. SetX(g, rd, u) = SetX(h, rd, u)
        BY <1>3, <2>3, SetTwice
    <2> HIDE DEF g
    <2>6. Exec(g, i) = SetX(g, rd, u)
        <3>1. Exec(g, i) = SetX(g, i.rd, Value(i.op, i.n, i.k, g.x[i.a], Operand(i, g)))
            BY ExecPlain
        <3> QED
            BY <2>3, <2>4, <3>1 DEF Operand
    <2> QED
        BY <2>1, <2>2, <2>5, <2>6
<1> QED
    BY <1>2, <1>3 DEF Puts

\* An addition of nothing is left out.
LEMMA PutsMaybe ==
    ASSUME NEW is, NEW rd \in Regs \ {0}, NEW w \in Int, NEW u \in Int, Puts(is, rd, w),
           NEW n \in {WORD, XLEN}, NEW v \in Int, Sext(n, w + v) = u, v = 0 => w = u
    PROVE  Puts(is \o IfNot(v, Insn("add", n, rd, rd, Imm, v, 0)), rd, u)
<1> DEFINE i == Insn("add", n, rd, rd, Imm, v, 0)
<1>1. i \in Forms
    BY FormIs
<1>2. i.op = "add" /\ i.n = n /\ i.rd = rd /\ i.a = rd /\ i.b = Imm /\ i.k = v
    BY DEF Insn
<1>3. Plainly(i)
    BY <1>2, PlainOps
<1>4. IfNot(v, i) = IF v = 0 THEN <<>> ELSE <<i>>
    BY DEF IfNot
<1>5. is \in Seq(Forms)
    BY DEF Puts
<1> HIDE DEF i
<1>6. CASE v = 0
    <2>1. is \o <<>> = is
        BY <1>5
    <2> QED
        BY <1>4, <1>6, <2>1 DEF i
<1>7. CASE v # 0
    <2>1. Value("add", n, v, w, v) = Sext(n, w + v)
        BY PlainValues
    <2>2. Value(i.op, i.n, i.k, w, i.k) = u
        BY <1>2, <2>1
    <2>3. Puts(is \o <<i>>, rd, u)
        BY <1>1, <1>2, <1>3, <2>2, PutsMore
    <2> QED
        BY <1>4, <1>7, <2>3 DEF i
<1> QED
    BY <1>6, <1>7

\* lui and addi, or one of them.
LEMMA ShortPuts ==
    ASSUME NEW rd \in Regs \ {0}, NEW u \in Span(WORD)
    PROVE  Puts(Short(rd, u), rd, u)
<1> DEFINE lo == Sext(IMM, u)
           hi == Sext(WORD - IMM, Upper(u))
           v == hi * 2^IMM
           i == Li(rd, v)
           more == IfNot(lo, Insn("add", WORD, rd, rd, Imm, lo, 0))
<1>1. /\ lo \in Words /\ v \in Words /\ hi \in Int
      /\ Sext(WORD, v + lo) = u /\ (hi = 0 => lo = u) /\ (lo = 0 => v = u)
    <2> HIDE DEF lo, hi
    <2>1. lo = Sext(IMM, u) /\ hi = Sext(WORD - IMM, Upper(u))
        BY DEF lo, hi
    <2> QED
        BY <2>1, ShortValue
<1>2. Short(rd, u) = IfNot(hi, i) \o (IF hi = 0 THEN <<Li(rd, lo)>> ELSE more)
    BY DEF Short
<1>3. v \in Int /\ lo \in Int /\ u \in Int
    BY <1>1, HalfLemma, UpperShort
<1>4. IfNot(hi, i) = IF hi = 0 THEN <<>> ELSE <<i>>
    BY DEF IfNot
<1>5. Puts(<<Li(rd, lo)>>, rd, lo) /\ Puts(<<i>>, rd, v)
    BY <1>1, PutsLi
<1> HIDE DEF lo, hi, v, i
<1>6. CASE hi = 0
    <2>1. Short(rd, u) = <<>> \o <<Li(rd, lo)>>
        BY <1>2, <1>4, <1>6
    <2>2. <<>> \o <<Li(rd, lo)>> = <<Li(rd, lo)>>
        <3>1. <<Li(rd, lo)>> \in Seq(Forms)
            BY <1>5 DEF Puts
        <3> QED
            BY <3>1
    <2> QED
        BY <1>1, <1>5, <1>6, <2>1, <2>2
<1>7. CASE hi # 0
    <2>1. Short(rd, u) = <<i>> \o more
        BY <1>2, <1>4, <1>7
    <2>2. Puts(<<i>> \o more, rd, u)
        BY <1>1, <1>3, <1>5, PutsMaybe
    <2> QED
        BY <2>1, <2>2
<1> QED
    BY <1>6, <1>7

\* What is left of a number once its low zeros are stripped.
LEMMA StripExists ==
    ASSUME NEW v \in Int, v # 0, Abs(v) < Half
    PROVE  \E j \in 0 .. XLEN - 1 : \E w \in Int : w % 2 = 1 /\ w * 2^j = v
<1> DEFINE Odd == \E j \in 0 .. XLEN - 1 : \E w \in Int : w % 2 = 1 /\ w * 2^j = v
           T == {k \in Nat : k <= XLEN - 1 => \E w \in Int : w * 2^k = v}
<1> SUFFICES ASSUME ~Odd
             PROVE  FALSE
    OBVIOUS
<1>1. XLEN - 1 \in Nat /\ XLEN \in Nat
    BY HalfLemma
<1>2. 2^0 = 1
    <2> DEFINE z == 0
    <2>1. z \in Nat /\ z + z <= XLEN /\ z \in 0 .. XLEN
        BY <1>1
    <2> HIDE DEF z
    <2>2. 2^(z + z) = 2^z * 2^z /\ 2^z \in Nat \ {0}
        BY <2>1, PowerSum, PowerIs
    <2>3. z + z = z
        BY DEF z
    <2> DEFINE p == 2^z
    <2>4. p = p * p /\ p \in Nat \ {0}
        BY <2>2, <2>3
    <2> HIDE DEF p
    <2>5. p = 1
        <3>1. p * (p - 1) = 0
            BY <2>4
        <3> QED
            BY <2>4, <3>1
    <2> QED
        BY <2>5 DEF p, z
<1>3. ASSUME NEW k \in Nat, \A m \in Nat : m < k => m \in T
      PROVE  k \in T
    <2> SUFFICES ASSUME k <= XLEN - 1
                 PROVE  \E w \in Int : w * 2^k = v
        OBVIOUS
    <2>1. CASE k = 0
        <3>1. v * 2^k = v
            BY <1>2, <2>1
        <3> QED
            BY <3>1
    <2>2. CASE k # 0
        <3>1. k - 1 \in Nat /\ k - 1 < k /\ k - 1 <= XLEN - 1 /\ k \in 1 .. XLEN /\ k - 1 \in 0 .. XLEN - 1
            BY <1>1, <2>2
        <3>2. PICK w \in Int : w * 2^(k - 1) = v
            BY <1>3, <3>1
        <3>3. w % 2 # 1
            BY <3>1, <3>2
        <3> DEFINE d == w \div 2
        <3>4. d \in Int /\ w = d * 2
            BY <3>3
        <3>5. 2^k = 2 * 2^(k - 1) /\ 2^(k - 1) \in Nat \ {0}
            BY <3>1, PowerNext
        <3> HIDE DEF d
        <3> DEFINE p == 2^(k - 1)
        <3> HIDE DEF p
        <3>6. d * (2 * p) = (d * 2) * p
            BY <3>4, <3>5 DEF p
        <3>7. d * 2^k = v
            BY <3>2, <3>4, <3>5, <3>6 DEF p
        <3> QED
            BY <3>4, <3>7
    <2> QED
        BY <2>1, <2>2
<1>4. Nat \subseteq T
    <2> HIDE DEF T, Odd
    <2> QED
        BY <1>3, SetInduction
<1>5. PICK w \in Int : w * 2^(XLEN - 1) = v
    BY <1>1, <1>4
<1>6. w * Half = v /\ Half \in Nat \ {0}
    BY <1>5, HalfLemma DEF Half
<1>7. Abs(v) = Abs(w) * Half /\ Abs(w) \in Nat /\ (w = 0 <=> Abs(w) = 0)
    BY <1>6, AbsTimes
<1>8. CASE Abs(w) = 0
    BY <1>6, <1>7, <1>8
<1>9. CASE Abs(w) # 0
    <2> DEFINE b == Abs(w) - 1
    <2>1. b \in Nat /\ Abs(w) = b + 1
        BY <1>7, <1>9
    <2> HIDE DEF b
    <2>2. b * Half \in Nat /\ (b + 1) * Half = b * Half + Half
        BY <1>6, <2>1
    <2> QED
        BY <1>6, <1>7, <2>1, <2>2
<1> QED
    BY <1>8, <1>9

\* Stripped is that number.
LEMMA StrippedIs ==
    ASSUME NEW v \in Int, v # 0, Abs(v) < Half
    PROVE  Stripped(v) \in Int /\ \E j \in 0 .. XLEN - 1 : Stripped(v) * 2^j = v
<1> DEFINE A == {v \div 2^j : j \in 0 .. XLEN - 1}
           Q(u) == u % 2 = 1 /\ \E j \in 0 .. XLEN - 1 : u * 2^j = v
<1>1. PICK i \in 0 .. XLEN - 1 : \E u \in Int : u % 2 = 1 /\ u * 2^i = v
    BY StripExists
<1>2. PICK w \in Int : w % 2 = 1 /\ w * 2^i = v
    BY <1>1
<1>3. \A j \in 0 .. XLEN - 1 : 2^j \in Nat \ {0} /\ v \div 2^j \in Int
    <2> TAKE j \in 0 .. XLEN - 1
    <2>1. j \in 0 .. XLEN
        BY HalfLemma
    <2> DEFINE p == 2^j
    <2>2. p \in Nat \ {0}
        BY <2>1, PowerIs
    <2> HIDE DEF p
    <2>3. v \div p \in Int
        BY <2>2
    <2> QED
        BY <2>2, <2>3 DEF p
<1>4. w = v \div 2^i
    <2> DEFINE p == 2^i
    <2>1. p \in Nat \ {0} /\ w * p = v
        BY <1>2, <1>3
    <2> HIDE DEF p
    <2>2. w = v \div p
        BY <2>1, DivTimes
    <2> QED
        BY <2>2 DEF p
<1>5. \A u \in A : u \in Int
    BY <1>3
<1>6. w \in A /\ Q(w)
    BY <1>2, <1>4
<1>7. Stripped(v) = CHOOSE u \in A : Q(u)
    BY DEF Stripped
<1> HIDE DEF A
<1>8. Stripped(v) \in A /\ Q(Stripped(v))
    <2> HIDE DEF Q
    <2> QED
        BY <1>6, <1>7
<1> QED
    BY <1>5, <1>8

\* How far what is left is shifted up, less the low bits.
UpBy(u) == CHOOSE j \in 0 .. XLEN - 1 : Stripped(Upper(u)) * 2^j = Upper(u)

\* A longer word is a smaller one shifted into place, and the low bits.
LEMMA LongStep ==
    ASSUME NEW u \in Words, u \notin Span(WORD), NEW hi, hi = Stripped(Upper(u)), NEW k, k = IMM + UpBy(u)
    PROVE  /\ hi \in Words /\ hi \in Int /\ Abs(hi) < Abs(u)
           /\ k \in 0 .. XLEN - 1
           /\ hi * 2^k = Sext(XLEN, u - Sext(IMM, u))
<1> DEFINE U == Upper(u)
           j == UpBy(u)
           N == 2^IMM
<1>1. U # 0 /\ Abs(U) < Abs(u) /\ Abs(U) * N <= Half
    BY UpperLong
<1>2. U \in Int /\ U * N = Sext(XLEN, u - Sext(IMM, u)) /\ u \in Int
    BY UpperIs
<1>3. /\ N \in Nat \ {0} /\ 4 <= N /\ IMM \in Nat /\ IMM \in 1 .. XLEN
    BY Sizes
<1>4. Half \in Nat /\ 31 < Half /\ Words = -Half .. Half - 1 /\ XLEN \in Nat
    BY HalfLemma
<1>5. Abs(U) \in Nat /\ Abs(u) \in Nat
    BY <1>2 DEF Abs
<1>6. Abs(U) < Half
    <2> DEFINE b == Abs(U)
    <2>1. b \in Nat /\ b <= b /\ b * N <= Half
        BY <1>1, <1>5
    <2> HIDE DEF b, N
    <2>2. 4 * b <= b * N
        BY <1>3, <2>1, TimesFour
    <2>3. b * N \in Nat
        BY <1>3, <2>1
    <2> QED
        BY <1>4, <2>1, <2>2, <2>3 DEF b
<1>7. hi \in Int /\ \E i \in 0 .. XLEN - 1 : hi * 2^i = U
    <2> HIDE DEF U
    <2>1. hi = Stripped(U)
        BY DEF U
    <2> QED
        BY <1>1, <1>2, <1>6, <2>1, StrippedIs
<1>8. j \in 0 .. XLEN - 1 /\ hi * 2^j = U
    BY <1>7 DEF UpBy
<1> DEFINE p == 2^j
<1>9. p \in Nat \ {0}
    <2>1. j \in 0 .. XLEN
        BY <1>4, <1>8
    <2> QED
        BY <2>1, PowerIs
<1> HIDE DEF U, N, j, p
<1>10. hi * p = U
    BY <1>8 DEF p
<1>11. Abs(hi) \in Nat /\ Abs(U) = Abs(hi) * p /\ (hi = 0 <=> Abs(hi) = 0) /\ Abs(hi) <= Abs(U)
    <2>1. /\ Abs(hi) \in Nat /\ Abs(hi * p) = Abs(hi) * p
          /\ (hi = 0 <=> Abs(hi) = 0) /\ Abs(hi) <= Abs(hi * p)
        BY <1>7, <1>9, AbsTimes
    <2> QED
        BY <1>10, <2>1
<1>12. Abs(hi) < Abs(u) /\ hi \in Words
    <2>1. Abs(hi) < Half
        BY <1>4, <1>5, <1>6, <1>11
    <2>2. hi \in -Half .. Half - 1
        BY <1>4, <1>7, <2>1 DEF Abs
    <2> QED
        BY <1>1, <1>4, <1>5, <1>11, <2>2
<1>13. hi # 0
    BY <1>1, <1>7, <1>9, <1>10
<1>14. IMM + j < XLEN
    <2> SUFFICES ASSUME ~(IMM + j < XLEN)
                 PROVE  FALSE
        OBVIOUS
    <2> DEFINE R0 == 2^(XLEN - IMM)
    <2>1. XLEN - IMM \in Nat /\ j \in Nat /\ XLEN - IMM <= j /\ j <= XLEN
        BY <1>3, <1>4, <1>8
    <2>2. R0 <= p
        BY <2>1, PowerUpTo DEF p
    <2>3. R0 \in Nat \ {0} /\ 2 * Half = N * R0
        BY Sizes DEF N
    <2> HIDE DEF R0
    <2> DEFINE b == Abs(hi) - 1
    <2>4. b \in Nat /\ Abs(hi) = b + 1
        BY <1>11, <1>13
    <2> HIDE DEF b
    <2>5. b * p \in Nat /\ (b + 1) * p = b * p + p
        BY <1>9, <2>4
    <2>6. R0 <= Abs(U)
        BY <1>5, <1>9, <1>11, <2>2, <2>3, <2>4, <2>5
    <2> DEFINE d == Abs(U) - R0
    <2>7. d \in Nat /\ Abs(U) = R0 + d
        BY <1>5, <2>3, <2>6
    <2> HIDE DEF d
    <2>8. d * N \in Nat /\ (R0 + d) * N = N * R0 + d * N
        BY <1>3, <2>3, <2>7
    <2> QED
        BY <1>1, <1>4, <2>3, <2>7, <2>8
<1>15. k = IMM + j /\ k \in 0 .. XLEN - 1
    BY <1>3, <1>4, <1>8, <1>14 DEF j
<1>16. 2^k = N * p
    <2>1. IMM \in Nat /\ j \in Nat /\ IMM + j <= XLEN
        BY <1>3, <1>4, <1>8, <1>14
    <2>2. 2^(IMM + j) = 2^IMM * 2^j
        BY <2>1, PowerSum
    <2> QED
        BY <1>15, <2>2 DEF N, p
<1>17. hi * 2^k = Sext(XLEN, u - Sext(IMM, u))
    <2>1. hi * (N * p) = (hi * p) * N
        BY <1>3, <1>7, <1>9
    <2> QED
        BY <1>2, <1>10, <1>16, <2>1
<1> QED
    BY <1>7, <1>12, <1>15, <1>17

\* The instructions for one.
LEMMA LongPuts ==
    ASSUME NEW rd \in Regs \ {0}, NEW u \in Words, u \notin Span(WORD), NEW is,
           Puts(is, rd, Stripped(Upper(u)))
    PROVE  Puts(is \o <<I("sll", rd, rd, IMM + UpBy(u))>> \o IfNot(Sext(IMM, u), I("add", rd, rd, Sext(IMM, u))),
                rd, u)
<1> DEFINE hi == Stripped(Upper(u))
           k == IMM + UpBy(u)
           lo == Sext(IMM, u)
           t == Sext(XLEN, u - lo)
           i == I("sll", rd, rd, k)
           js == is \o <<i>>
<1>1. hi \in Words /\ hi \in Int /\ k \in 0 .. XLEN - 1 /\ hi * 2^k = t
    <2>1. hi = Stripped(Upper(u)) /\ k = IMM + UpBy(u) /\ lo = Sext(IMM, u)
        OBVIOUS
    <2> HIDE DEF hi, k
    <2> QED
        BY <2>1, LongStep
<1>2. lo \in Int /\ u \in Int
    BY UpperIs
<1>3. t \in Words /\ t \in Int /\ u - lo \in Int
    <2>1. u - lo \in Int
        BY <1>2
    <2> HIDE DEF lo
    <2>2. t \in Words
        BY <2>1, SextWord
    <2> QED
        BY <2>1, <2>2, HalfLemma
<1>4. Puts(is, rd, hi)
    OBVIOUS
<1> HIDE DEF hi, k, lo
<1>5. k \in Int /\ k % XLEN = k
    <2>1. k \in Int /\ XLEN \in Nat /\ 0 <= k /\ k < XLEN
        BY <1>1, HalfLemma
    <2> QED
        BY <2>1, ModOwn
<1>6. i.op = "sll" /\ i.n = XLEN /\ i.rd = rd /\ i.a = rd /\ i.b = Imm /\ i.k = k
    BY DEF I, Insn
<1>7. i \in Forms
    <2>1. rd \in Regs /\ i = Insn("sll", XLEN, rd, rd, Imm, k, 0)
        BY DEF I
    <2> QED
        BY <1>5, <2>1, FormIs
<1>8. Plainly(i)
    BY <1>6, PlainOps
<1>9. Value("sll", XLEN, k, hi, k) = Sext(XLEN, hi * 2^(k % XLEN))
    BY PlainValues
<1> HIDE DEF i
<1>10. Value(i.op, i.n, i.k, hi, i.k) = t
    <2> HIDE DEF t
    <2>1. Sext(XLEN, t) = t
        BY <1>3, SextOwn
    <2> QED
        BY <1>1, <1>5, <1>6, <1>9, <2>1
<1>11. Sext(XLEN, t + lo) = u /\ (lo = 0 => t = u)
    <2>1. Sext(XLEN, t + lo) = Sext(XLEN, (u - lo) + lo)
        BY <1>2, <1>3, SextAdd
    <2>2. (u - lo) + lo = u /\ (lo = 0 => u - lo = u)
        BY <1>2
    <2>3. Sext(XLEN, u) = u
        BY SextOwn
    <2> QED
        BY <2>1, <2>2, <2>3
<1> HIDE DEF t
<1>12. Puts(js, rd, t)
    BY <1>1, <1>3, <1>4, <1>6, <1>7, <1>8, <1>10, PutsMore
<1> HIDE DEF js
<1>13. Puts(js \o IfNot(lo, Insn("add", XLEN, rd, rd, Imm, lo, 0)), rd, u)
    BY <1>2, <1>3, <1>11, <1>12, PutsMaybe
<1> QED
    BY <1>13 DEF js, i, k, lo, I

\* The plan for u, where f gives those for smaller words.
PlanAt(f, u, rd) ==
    IF u \in Span(WORD) THEN Short(rd, u)
    ELSE f[Stripped(Upper(u))] \o <<I("sll", rd, rd, IMM + UpBy(u))>>
             \o IfNot(Sext(IMM, u), I("add", rd, rd, Sext(IMM, u)))

\* A plan depends on the plans of smaller numbers only.
LEMMA PlanSame ==
    ASSUME NEW f, NEW g, NEW u \in Words, NEW rd, \A w \in Words : Abs(w) < Abs(u) => f[w] = g[w]
    PROVE  PlanAt(f, u, rd) = PlanAt(g, u, rd)
<1>1. CASE u \in Span(WORD)
    BY <1>1 DEF PlanAt
<1>2. CASE u \notin Span(WORD)
    <2> DEFINE hi == Stripped(Upper(u))
    <2>1. hi \in Words /\ Abs(hi) < Abs(u)
        BY <1>2, LongStep
    <2>2. f[hi] = g[hi]
        BY <2>1
    <2> QED
        BY <1>2, <2>2 DEF PlanAt
<1> QED
    BY <1>1, <1>2

\* Plans exist: a longer word is planned from a smaller one.
Planned(f, n, rd) ==
    /\ f = [u \in Words |-> f[u]]
    /\ \A u \in Words : Abs(u) < n => f[u] = PlanAt(f, u, rd)

\* They exist up to any distance from 0.
LEMMA PlansExist ==
    ASSUME NEW rd, NEW n \in Nat
    PROVE  \E f : Planned(f, n, rd)
<1> DEFINE T == {k \in Nat : \E f : Planned(f, k, rd)}
<1>1. \A u \in Words : Abs(u) \in Nat
    BY HalfLemma DEF Abs
<1>2. ASSUME NEW k \in Nat, \A m \in Nat : m < k => m \in T
      PROVE  k \in T
    <2>1. CASE k = 0
        <3> DEFINE f == [u \in Words |-> 0]
        <3>1. Planned(f, 0, rd)
            BY <1>1 DEF Planned
        <3> QED
            BY <2>1, <3>1
    <2>2. CASE k # 0
        <3> DEFINE l == k - 1
        <3>1. l \in Nat /\ l < k /\ k = l + 1
            BY <2>2
        <3> HIDE DEF l
        <3>2. PICK g : Planned(g, l, rd)
            BY <1>2, <3>1
        <3> DEFINE f == [u \in Words |-> IF Abs(u) < l THEN g[u] ELSE PlanAt(g, u, rd)]
        <3>3. f = [u \in Words |-> f[u]]
            OBVIOUS
        <3>4. \A u \in Words : Abs(u) < l => f[u] = g[u]
            OBVIOUS
        <3>5. \A u \in Words : f[u] = PlanAt(g, u, rd) \/ ~(Abs(u) < k)
            BY <1>1, <3>1, <3>2 DEF Planned
        <3> HIDE DEF f
        <3>6. ASSUME NEW u \in Words, Abs(u) < k
              PROVE  f[u] = PlanAt(f, u, rd)
            <4>1. \A w \in Words : Abs(w) < Abs(u) => f[w] = g[w]
                BY <1>1, <3>1, <3>4, <3>6
            <4>2. PlanAt(f, u, rd) = PlanAt(g, u, rd)
                BY <4>1, PlanSame
            <4> QED
                BY <3>5, <3>6, <4>2
        <3>7. Planned(f, k, rd)
            BY <3>3, <3>6 DEF Planned
        <3> QED
            BY <3>7
    <2> QED
        BY <2>1, <2>2
<1>3. Nat \subseteq T
    <2> HIDE DEF T
    <2> QED
        BY <1>2, SetInduction
<1> QED
    BY <1>3

\* What li_plan puts together is such a plan.
Planning(f, rd) == f = [u \in Words |-> PlanAt(f, u, rd)]

\* li_plan is the one for every word.
LEMMA PlanIs ==
    ASSUME NEW rd, NEW v
    PROVE  \E f : Planning(f, rd) /\ li_plan(v, rd) = f[v]
<1> DEFINE f == CHOOSE g : Planning(g, rd)
<1>1. \E g : Planning(g, rd)
    <2>1. Half + 1 \in Nat /\ Half \in Nat
        BY HalfLemma
    <2>2. PICK g : Planned(g, Half + 1, rd)
        BY <2>1, PlansExist
    <2>3. \A u \in Words : Abs(u) < Half + 1
        BY HalfLemma DEF Abs
    <2>4. g = [u \in Words |-> g[u]] /\ \A u \in Words : g[u] = PlanAt(g, u, rd)
        BY <2>2, <2>3 DEF Planned
    <2>5. g = [u \in Words |-> PlanAt(g, u, rd)]
        BY <2>4
    <2> QED
        BY <2>5 DEF Planning
<1>2. Planning(f, rd)
    BY <1>1
<1>3. li_plan(v, rd) = f[v]
    BY DEF li_plan, Planning, PlanAt, Span, UpBy
<1> QED
    BY <1>2, <1>3

\* A plan puts its constant in its register.
LEMMA PlanPuts ==
    ASSUME NEW rd \in Regs \ {0}, NEW v \in Words
    PROVE  Puts(li_plan(v, rd), rd, v)
<1>1. PICK f : Planning(f, rd) /\ li_plan(v, rd) = f[v]
    BY PlanIs
<1> DEFINE T == {k \in Nat : \A u \in Words : Abs(u) = k => Puts(f[u], rd, u)}
<1>2. \A u \in Words : Abs(u) \in Nat /\ f[u] = PlanAt(f, u, rd)
    <2>1. \A u \in Words : Abs(u) \in Nat
        BY HalfLemma DEF Abs
    <2> QED
        BY <1>1, <2>1 DEF Planning
<1>3. ASSUME NEW k \in Nat, \A m \in Nat : m < k => m \in T
      PROVE  k \in T
    <2> SUFFICES ASSUME NEW u \in Words, Abs(u) = k
                 PROVE  Puts(f[u], rd, u)
        OBVIOUS
    <2>1. CASE u \in Span(WORD)
        <3>1. f[u] = Short(rd, u)
            BY <1>2, <2>1 DEF PlanAt
        <3> QED
            BY <2>1, <3>1, ShortPuts
    <2>2. CASE u \notin Span(WORD)
        <3> DEFINE hi == Stripped(Upper(u))
        <3>1. hi \in Words /\ Abs(hi) < Abs(u)
            BY <2>2, LongStep
        <3>2. Puts(f[hi], rd, hi)
            <4>1. Abs(hi) \in Nat /\ Abs(hi) \in T
                BY <1>2, <1>3, <3>1
            <4> QED
                BY <3>1, <4>1
        <3>3. f[u] = f[hi] \o <<I("sll", rd, rd, IMM + UpBy(u))>>
                         \o IfNot(Sext(IMM, u), I("add", rd, rd, Sext(IMM, u)))
            BY <1>2, <2>2 DEF PlanAt
        <3> QED
            BY <2>2, <3>2, <3>3, LongPuts
    <2> QED
        BY <2>1, <2>2
<1>4. Nat \subseteq T
    <2> HIDE DEF T
    <2> QED
        BY <1>3, SetInduction
<1> QED
    BY <1>1, <1>2, <1>4

\* Two machines that hold what they may in r.
LEMMA SetBoth ==
    ASSUME NEW r \in Regs \ {0}, NEW g, NEW h, NEW u \in Int, NEW v \in Int, Apart(r, g, h)
    PROVE  /\ Apart(r, SetX(g, r, u), SetX(h, r, v)) /\ SetX(g, r, u).pc = g.pc
           /\ SetX(g, r, u).x[r] = u /\ SetX(h, r, v).x[r] = v
<1>1. r \in Regs /\ r # 0
    OBVIOUS
<1>2. /\ Numbers(g) /\ Numbers(h) /\ g.pc = h.pc /\ g.m = h.m /\ g.res = h.res
      /\ \A q \in Regs : q = r \/ g.x[q] = h.x[q]
    BY DEF Apart
<1> DEFINE y == SetX(g, r, u)
           z == SetX(h, r, v)
<1>3. /\ Numbers(y) /\ y.pc = g.pc /\ y.m = g.m /\ y.res = g.res
      /\ r # 0 => y.x[r] = u
      /\ \A q \in Regs : q # r => y.x[q] = g.x[q]
    BY <1>1, <1>2, SetNumbers
<1>4. /\ Numbers(z) /\ z.pc = h.pc /\ z.m = h.m /\ z.res = h.res
      /\ r # 0 => z.x[r] = v
      /\ \A q \in Regs : q # r => z.x[q] = h.x[q]
    BY <1>1, <1>2, SetNumbers
<1> HIDE DEF y, z
<1>5. \A q \in Regs : q = r \/ y.x[q] = z.x[q]
    BY <1>2, <1>3, <1>4
<1>6. Apart(r, y, z)
    BY <1>2, <1>3, <1>4, <1>5 DEF Apart
<1> QED
    BY <1>1, <1>3, <1>4, <1>6 DEF y, z

\* One machine ahead of the other in r.
LEMMA SetOne ==
    ASSUME NEW r \in Regs \ {0}, NEW g, NEW h, NEW u \in Int, Apart(r, g, h)
    PROVE  /\ Apart(r, SetX(g, r, u), h) /\ SetX(g, r, u).pc = g.pc
           /\ SetX(g, r, u).x[r] = u
<1>1. r \in Regs /\ r # 0
    OBVIOUS
<1>2. /\ Numbers(g) /\ Numbers(h) /\ g.pc = h.pc /\ g.m = h.m /\ g.res = h.res
      /\ \A q \in Regs : q = r \/ g.x[q] = h.x[q]
    BY DEF Apart
<1> DEFINE y == SetX(g, r, u)
<1>3. /\ Numbers(y) /\ y.pc = g.pc /\ y.m = g.m /\ y.res = g.res
      /\ r # 0 => y.x[r] = u
      /\ \A q \in Regs : q # r => y.x[q] = g.x[q]
    BY <1>1, <1>2, SetNumbers
<1> HIDE DEF y
<1>4. \A q \in Regs : q = r \/ y.x[q] = h.x[q]
    BY <1>2, <1>3
<1>5. Apart(r, y, h)
    BY <1>2, <1>3, <1>4 DEF Apart
<1> QED
    BY <1>1, <1>3, <1>5 DEF y

\* What the register holds while a chain runs beside its plan.
Replanned(F, a, last, v) ==
    [p \in a .. last + 1 |-> IF p = a THEN Int \X Int ELSE {F[p - 1]} \X {v}]

\* check_long_li.
LEMMA LongLiHolds ==
    ASSUME NEW s, IsSection(s), Constants(s), NEW a \in Nat \ {0}, a \in DOMAIN s.code,
           NEW f \in check_long_li(s, a),
           NEW x \in [Regs -> Words], x[0] = 0, NEW m \in Memory, NEW fuel \in Nat
    PROVE  Holds(s, f, x, m, fuel)
<1> DEFINE r == s.code[a].rd
           v == ChainValue(s, a)
           last == ChainEnd(s, a)
           plan == li_plan(v, r)
           patch == [p \in a .. last |-> IF p = a THEN plan ELSE Gone]
           P == IsChain(s, a) /\ last > a
           Q == Len(plan) < last - a + 1
<1>1. P /\ f = Finding("long_li", patch)
    <2>1. check_long_li(s, a) = IF P THEN When(Q, {Finding("long_li", patch)}) ELSE {}
        BY DEF check_long_li, Gone
    <2> HIDE DEF P, Q, patch
    <2>2. P /\ f \in When(Q, {Finding("long_li", patch)})
        BY <2>1
    <2> QED
        BY <2>2, WhenGives
<1>0. PICK e \in Nat : \E F : ChainAt(s, a, e, F)
    BY <1>1, ChainIs
<1>2. PICK F : ChainAt(s, a, e, F)
    BY <1>0
<1>3. /\ ChainLine(s, a, e, F) /\ Clear(s, a, a + e + 1) /\ F[a + e] = v /\ last = a + e
      /\ a .. a + e \subseteq DOMAIN s.code
    BY <1>2 DEF ChainAt
<1> DEFINE E == Replanned(F, a, last, v)
<1>4. /\ Leads(s, r, Leading(F, a, e), a, a + e + 1)
      /\ v \in Words /\ r \in Regs \ {0}
    BY <1>3, ChainLeads
<1>5. v \in Int
    BY <1>4, HalfLemma
<1>6. f.patch = patch
    BY <1>1 DEF Finding
<1>7. Puts(plan, r, v)
    BY <1>4, PlanPuts
<1> HIDE DEF r, v, last, plan
<1>8. last \in Nat /\ a \in Nat /\ a <= last /\ last > a /\ last = a + e /\ last + 1 = a + e + 1
    BY <1>1, <1>3
<1>9. /\ E[a] = Int \X Int
      /\ \A p \in a + 1 .. last + 1 : E[p] = {F[p - 1]} \X {v}
    BY <1>8 DEF Replanned
<1>10. DOMAIN f.patch = a .. last /\ f.patch[a] = plan /\ \A p \in a + 1 .. last : f.patch[p] = Gone
    BY <1>6, <1>8
<1>11. Stretch(s, f, a, last)
    <2>1. \A p \in a .. last : ~is_relocated(s, p)
        BY <1>3, <1>8 DEF Clear
    <2>2. \A p \in a + 1 .. last : p \in a .. a + e + 1 - 1 /\ p # a
        BY <1>8
    <2>3. \A p \in a + 1 .. last : ~is_branch_target(s, p)
        BY <1>3, <2>2 DEF Clear
    <2> QED
        BY <1>3, <1>8, <1>10, <2>1, <2>3 DEF Stretch
<1> HIDE DEF E, patch
<1>12. ASSUME NEW p \in a .. last, NEW g, NEW h, Track(r, E, p, g, h)
       PROVE  Track(r, E, p + 1, ExecAll(Skip(g), Alone(s.code[p])), ExecAll(Skip(h), f.patch[p]))
    <2> DEFINE B == Leading(F, a, e)
               y == Skip(g)
               z == Skip(h)
    <2>1. Apart(r, g, h) /\ g.pc = p /\ <<g.x[r], h.x[r]>> \in E[p] /\ p \in Int
        BY <1>12 DEF Track
    <2>2. Apart(r, y, z) /\ y.pc = p + 1 /\ y.x = g.x /\ z.x = h.x
        BY <2>1, SkipApart
    <2>3. Numbers(g) /\ Numbers(h) /\ Numbers(y) /\ Numbers(z)
        BY <2>1, <2>2 DEF Apart
    <2>4. p \in a .. a + e + 1 - 1 /\ p + 1 \in a + 1 .. last + 1 /\ p + 1 - 1 = p
        BY <1>8
    <2>5. g.x[r] \in B[p]
        <3>1. CASE p = a
            <4>1. B[a] = Int
                BY <1>8 DEF Leading
            <4>2. g.x[r] \in Int
                BY <1>9, <2>1, <3>1
            <4> QED
                BY <3>1, <4>1, <4>2
        <3>2. CASE p # a
            <4>1. p \in a + 1 .. last + 1 /\ p \in a .. a + e + 1
                BY <1>8, <3>2
            <4>2. g.x[r] = F[p - 1]
                BY <1>9, <2>1, <4>1
            <4>3. B[p] = {F[p - 1]}
                BY <3>2, <4>1 DEF Leading
            <4> QED
                BY <4>2, <4>3
        <3> QED
            BY <3>1, <3>2
    <2>6. \E w \in B[p + 1] : w \in Int /\ Exec(y, s.code[p]) = SetX(y, r, w)
        BY <1>4, <2>1, <2>3, <2>4, <2>5 DEF Leads
    <2>7. B[p + 1] = {F[p]}
        BY <1>8, <2>4 DEF Leading
    <2>8. F[p] \in Int /\ Exec(y, s.code[p]) = SetX(y, r, F[p])
        BY <2>6, <2>7
    <2>9. ExecAll(y, Alone(s.code[p])) = SetX(y, r, F[p])
        BY <2>8, ExecOne DEF Alone
    <2>10. E[p + 1] = {F[p]} \X {v}
        BY <1>9, <2>4
    <2> HIDE DEF B, y, z
    <2> DEFINE k == SetX(y, r, F[p])
    <2>11. CASE p = a
        <3> DEFINE l == SetX(z, r, v)
        <3>1. ExecAll(z, f.patch[p]) = l
            BY <1>7, <1>10, <2>3, <2>11 DEF Puts
        <3>2. Apart(r, k, l) /\ k.pc = y.pc /\ k.x[r] = F[p] /\ l.x[r] = v
            BY <1>4, <1>5, <2>2, <2>8, SetBoth
        <3> HIDE DEF k, l
        <3>3. Track(r, E, p + 1, k, l)
            BY <2>2, <2>10, <3>2 DEF Track
        <3> QED
            BY <2>9, <3>1, <3>3 DEF k, y, z
    <2>12. CASE p # a
        <3>1. p \in a + 1 .. last /\ p \in a + 1 .. last + 1
            BY <1>8, <2>12
        <3>2. ExecAll(z, f.patch[p]) = z
            BY <1>10, <3>1, ExecNone DEF Gone
        <3>3. z.x[r] = v
            BY <1>9, <2>1, <2>2, <3>1
        <3>4. Apart(r, k, z) /\ k.pc = y.pc /\ k.x[r] = F[p]
            BY <1>4, <2>2, <2>8, SetOne
        <3> HIDE DEF k
        <3>5. Track(r, E, p + 1, k, z)
            BY <2>2, <2>10, <3>3, <3>4 DEF Track
        <3> QED
            BY <2>9, <3>2, <3>5 DEF k, y, z
    <2> QED
        BY <2>11, <2>12
<1>13. Tracks(s, f, r, E, a, last)
    BY <1>12 DEF Tracks
<1>14. Joins(s, r, E, last + 1)
    <2> SUFFICES ASSUME NEW g, NEW h, Track(r, E, last + 1, g, h)
                 PROVE  Agree(s, g, h)
        BY DEF Joins
    <2>1. last + 1 \in a + 1 .. last + 1
        BY <1>8
    <2>2. last + 1 - 1 = a + e
        BY <1>8
    <2>3. E[last + 1] = {v} \X {v}
        BY <1>3, <1>9, <2>1, <2>2
    <2>4. Apart(r, g, h) /\ g.x[r] = v /\ h.x[r] = v
        BY <2>3 DEF Track
    <2> QED
        BY <2>4 DEF Apart, Agree
<1>15. Track(r, E, a, Start(s, x, m, a), Start(s, x, m, a))
    <2> DEFINE g == Start(s, x, m, a)
    <2>1. a \in Int
        OBVIOUS
    <2>2. Numbers(g) /\ g.pc = a
        BY <2>1, StartNumbers
    <2> HIDE DEF g
    <2>3. g.x[r] \in Int
        BY <1>4, <2>2 DEF Numbers, Machine
    <2>4. Apart(r, g, g)
        BY <2>2 DEF Apart
    <2>5. <<g.x[r], g.x[r]>> \in E[a]
        BY <1>9, <2>3
    <2>6. Track(r, E, a, g, g)
        BY <2>2, <2>4, <2>5 DEF Track
    <2> QED
        BY <2>6 DEF g
<1> QED
    BY <1>11, <1>13, <1>14, <1>15, TrackHolds

\* The checks about constants.
LEMMA ConstHolds ==
    ASSUME NEW s, IsSection(s), Constants(s), NEW a \in Nat \ {0}, a \in DOMAIN s.code,
           NEW f \in ConstFindings(s, a),
           NEW x \in [Regs -> Words], x[0] = 0, NEW m \in Memory, NEW fuel \in Nat
    PROVE  Holds(s, f, x, m, fuel)
<1>1. \/ f \in check_long_li(s, a) \/ f \in check_const_for_imm(s, a)
      \/ f \in check_mask_for_zext(s, a) \/ f \in check_zero_for_store(s, a)
    BY DEF ConstFindings
<1>2. CASE f \in check_long_li(s, a)
    BY <1>2, LongLiHolds
<1>3. CASE f \in check_const_for_imm(s, a)
    BY <1>3, ForImmHolds
<1>4. CASE f \in check_mask_for_zext(s, a)
    BY <1>4, MaskHolds
<1>5. CASE f \in check_zero_for_store(s, a)
    BY <1>5, ZeroStoreHolds
<1> QED
    BY <1>1, <1>2, <1>3, <1>4, <1>5
===============================================================================
