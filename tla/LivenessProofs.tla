---------------------------- MODULE LivenessProofs ----------------------------
(***************************************************************************)
(* Proofs about Liveness, for a section, a program, a budget and a number  *)
(* of paths of any size.                                                   *)
(*                                                                         *)
(* DEAD.  The instructions the walk has passed or stopped at, V, protect   *)
(* rd except that control may leave V for an address still pending: queued,*)
(* or under the cursor.  When the queue runs dry nothing is pending, so V  *)
(* protects rd and holds the start.                                        *)
(*                                                                         *)
(* READ and UNKNOWN.  Any set that protects rd from the start holds every  *)
(* address the walk gets to.                                               *)
(***************************************************************************)
EXTENDS Liveness, FiniteSetTheorems, SequenceTheorems, TLAPS

Items(s) == {s[i] : i \in 1 .. Len(s)}

Queued == Items(queue)

Walked == IF pc = "walk" THEN {cursor} ELSE {}

\* V protects rd but for what is pending.
Covers(V) ==
    /\ \A a \in V : /\ prog[a].ok
                    /\ ~prog[a].reads
                    /\ \/ prog[a].writes
                       \/ /\ Followable(a)
                          /\ Successors(a) \subseteq V \cup Queued \cup Walked
    /\ start \in V \cup Queued \cup Walked
    /\ seen \subseteq V \cup Walked

Covered == (verdict \in {"NONE", "DEAD"} /\ NoBranchToZero)
                => \E V \in SUBSET Section : Covers(V)

Bounded == \/ budget = 0
           \/ Cardinality(seen) = LIVE_PATHS
           \/ Len(queue) = LIVE_PATHS

\* Whatever protects rd from the start holds all that is pending.
Confined(S) == /\ Queued \subseteq S
               /\ Walked \subseteq S
               /\ verdict # "READ"
               /\ (verdict = "UNKNOWN" /\ NoTransferToZero) => Bounded

Reached == \A S \in SUBSET Section : start \in S /\ Protects(S) => Confined(S)

IInv == TypeOK /\ Covered /\ Reached /\ (verdict = "DEAD" => queue = <<>>)

-------------------------------------------------------------------------------
\* What a pop takes from a work list, and what a push adds to it.
LEMMA PopLemma ==
    ASSUME NEW s \in Seq(Nat), s # <<>>
    PROVE  /\ SubSeq(s, 1, Len(s) - 1) \in Seq(Nat)
           /\ Len(s) \in Nat \ {0}
           /\ Len(SubSeq(s, 1, Len(s) - 1)) = Len(s) - 1
           /\ s[Len(s)] \in Nat
           /\ Items(s) = Items(SubSeq(s, 1, Len(s) - 1)) \cup {s[Len(s)]}
<1> DEFINE q == SubSeq(s, 1, Len(s) - 1)
<1>1. Len(s) \in Nat \ {0}
  BY EmptySeq
<1>2. \A i \in 1 .. Len(s) : s[i] \in Nat
  BY ElementOfSeq
<1>3. /\ q \in Seq(Nat)
      /\ Len(q) = Len(s) - 1
      /\ \A i \in 1 .. Len(s) - 1 : q[i] = s[i]
  <2>1. \A i \in 1 .. Len(s) - 1 : s[i] \in Nat
    BY <1>1, <1>2
  <2>2. 1 \in Int /\ Len(s) - 1 \in Int
    BY <1>1
  <2>3. /\ q \in Seq(Nat)
        /\ Len(q) = IF 1 <= Len(s) - 1 THEN Len(s) - 1 - 1 + 1 ELSE 0
        /\ \A i \in 1 .. Len(s) - 1 - 1 + 1 : q[i] = s[1 + i - 1]
    BY <2>1, <2>2, SubSeqProperties
  <2>4. \A n \in Nat \ {0} :
            (IF 1 <= n - 1 THEN n - 1 - 1 + 1 ELSE 0) = n - 1
    OBVIOUS
  <2>5. \A i \in 1 .. Len(s) - 1 :
            i \in 1 .. Len(s) - 1 - 1 + 1 /\ 1 + i - 1 = i
    BY <1>1
  <2> QED
    BY <1>1, <2>3, <2>4, <2>5
<1>4. s[Len(s)] \in Nat
  BY <1>1, <1>2
<1>5. 1 .. Len(s) = (1 .. Len(s) - 1) \cup {Len(s)}
  BY <1>1
<1> HIDE DEF q
<1>6. Items(s) = Items(q) \cup {s[Len(s)]}
  BY <1>3, <1>5 DEF Items
<1> QED
  BY <1>1, <1>3, <1>4, <1>6 DEF q

LEMMA PushLemma ==
    ASSUME NEW s \in Seq(Nat), NEW t \in Nat
    PROVE  /\ Append(s, t) \in Seq(Nat)
           /\ Len(s) \in Nat
           /\ Len(Append(s, t)) = Len(s) + 1
           /\ Items(Append(s, t)) = Items(s) \cup {t}
<1> DEFINE q == Append(s, t)
<1>1. /\ q \in Seq(Nat)
      /\ Len(q) = Len(s) + 1
      /\ \A i \in 1 .. Len(s) : q[i] = s[i]
      /\ q[Len(s) + 1] = t
  BY AppendProperties
<1>2. Len(s) \in Nat
  BY LenProperties
<1>3. 1 .. Len(s) + 1 = (1 .. Len(s)) \cup {Len(s) + 1}
  BY <1>2
<1> HIDE DEF q
<1>4. Items(q) = Items(s) \cup {t}
  BY <1>1, <1>3 DEF Items
<1> QED
  BY <1>1, <1>2, <1>4 DEF q


\* The instruction under a cursor inside the section.
LEMMA InsnLemma ==
    ASSUME TypeOK, NEW a \in Section
    PROVE  /\ prog[a] \in Insn
           /\ prog[a].ok => a + prog[a].len \in Vaddr .. Vaddr + Size
           /\ relative_target(prog[a]) \in Nat
<1>1. prog[a] \in Insn
  BY LivenessAssumption DEF TypeOK, Programs
<1>2. prog[a].ok => a + prog[a].len <= Vaddr + Size
  BY DEF TypeOK, Programs
<1>3. a \in Nat /\ a >= Vaddr
  BY LivenessAssumption DEF Section
<1> QED
  BY <1>1, <1>2, <1>3, LivenessAssumption DEF Insn, relative_target

-------------------------------------------------------------------------------
\* The walk starts well formed.
LEMMA TypeInit == Init => TypeOK
<1> SUFFICES ASSUME Init PROVE TypeOK
  OBVIOUS
<1>1. start \in Nat /\ start \in Vaddr .. Vaddr + Size
  BY LivenessAssumption DEF Init, Section
<1>2. queue \in Seq(Nat) /\ Len(queue) = 1
  BY <1>1 DEF Init
<1>3. IsFiniteSet(seen) /\ Cardinality(seen) = 0
  BY FS_EmptySet DEF Init
<1> QED
  BY <1>1, <1>2, <1>3, LivenessAssumption DEF Init, TypeOK

\* A pop keeps the work list well formed, and an address not seen before
\* leaves room for one more.
LEMMA PopType ==
    ASSUME TypeOK, Popping, Pop
    PROVE  /\ queue' \in Seq(Nat)
           /\ Len(queue') <= LIVE_PATHS
           /\ At \in Nat
           /\ Queued = Queued' \cup {At}
<1>1. queue \in Seq(Nat) /\ queue # <<>> /\ Len(queue) <= LIVE_PATHS
  BY DEF TypeOK, Popping
<1>2. queue' = SubSeq(queue, 1, Len(queue) - 1)
  BY DEF Pop
<1> QED
  BY <1>1, <1>2, PopLemma, LivenessAssumption DEF At, Queued

LEMMA SeenType ==
    ASSUME TypeOK, At \in Nat, At \notin seen, Cardinality(seen) < LIVE_PATHS
    PROVE  /\ seen \cup {At} \subseteq Nat
           /\ IsFiniteSet(seen \cup {At})
           /\ Cardinality(seen \cup {At}) <= LIVE_PATHS
<1>1. IsFiniteSet(seen)
  BY DEF TypeOK
<1>2. Cardinality(seen) \in Nat
  BY <1>1, FS_CardinalityType
<1>3. /\ IsFiniteSet(seen \cup {At})
      /\ Cardinality(seen \cup {At}) = Cardinality(seen) + 1
  BY <1>1, FS_AddElement
<1>4. Cardinality(seen \cup {At}) <= LIVE_PATHS
  BY <1>2, <1>3, LivenessAssumption
<1> QED
  BY <1>3, <1>4 DEF TypeOK

\* A push finds room.
LEMMA PushType ==
    ASSUME TypeOK, cursor \in Section, Push
    PROVE  /\ queue' \in Seq(Nat)
           /\ Len(queue') <= LIVE_PATHS
           /\ Queued' = Queued \cup {relative_target(in)}
<1>1. relative_target(in) \in Nat
  BY InsnLemma DEF in
<1> QED
  BY <1>1, PushLemma, LivenessAssumption DEF TypeOK, Push, Queued

\* Every step keeps the state well formed.
LEMMA TypeStep == TypeOK /\ [Next]_vars => TypeOK'
<1> SUFFICES ASSUME TypeOK, [Next]_vars PROVE TypeOK'
  OBVIOUS
<1>b. Decoded => /\ budget' \in 0 .. LIVE_BUDGET
                 /\ cursor \in Section
                 /\ cursor + in.len \in Vaddr .. Vaddr + Size
  BY InsnLemma, LivenessAssumption DEF Decoded, TypeOK, in
<1>1. CASE Duplicate
  BY <1>1, PopType DEF Duplicate, TypeOK
<1>2. CASE PathsExhausted
  BY <1>2, PopType DEF PathsExhausted, TypeOK, Answer
<1>3. CASE OutsideSection
  BY <1>3, PopType, SeenType DEF OutsideSection, TypeOK, Answer
<1>4. CASE Enter
  BY <1>4, PopType, SeenType, LivenessAssumption
     DEF Enter, Popping, TypeOK, Section
<1>5. CASE AllPathsDone
  BY <1>5 DEF AllPathsDone, TypeOK, Answer
<1>6. CASE BudgetExhausted
  BY <1>6 DEF BudgetExhausted, TypeOK, Answer
<1>7. CASE Undecodable
  BY <1>7, LivenessAssumption DEF Undecodable, TypeOK, Answer
<1>8. CASE Reads
  BY <1>8, <1>b DEF Reads, TypeOK, Answer
<1>9. CASE Redefines
  BY <1>9, <1>b DEF Redefines, Decoded, TypeOK
<1>10. CASE CallOrReturn
  BY <1>10, <1>b DEF CallOrReturn, Passes, TypeOK, Answer
<1>11. CASE Indirect
  BY <1>11, <1>b DEF Indirect, Passes, TypeOK, Answer
<1>12. CASE QueueFull
  BY <1>12, <1>b DEF QueueFull, Transfers, Passes, TypeOK, Answer
<1>13. CASE Jump
  BY <1>13, <1>b, PushType DEF Jump, Transfers, Passes, Decoded, TypeOK
<1>14. CASE Branch
  BY <1>14, <1>b, PushType DEF Branch, Transfers, Passes, Decoded, TypeOK
<1>15. CASE FallThrough
  BY <1>15, <1>b DEF FallThrough, Passes, Decoded, TypeOK
<1>16. CASE UNCHANGED vars
  BY <1>16 DEF vars, TypeOK
<1> QED
  BY <1>1, <1>2, <1>3, <1>4, <1>5, <1>6, <1>7, <1>8, <1>9, <1>10, <1>11, <1>12,
     <1>13, <1>14, <1>15, <1>16 DEF Next

-------------------------------------------------------------------------------
\* V still covers the walk when what was pending in it stays pending or is in V.
LEMMA CoversStep ==
    ASSUME NEW V, Covers(V), UNCHANGED <<prog, start>>,
           Queued \cup Walked \subseteq V \cup Queued' \cup Walked',
           seen' \subseteq V \cup Walked'
    PROVE  Covers(V)'
<1>1. \A a : /\ Followable(a)' <=> Followable(a)
             /\ Successors(a)' = Successors(a)
  BY DEF Followable, Successors
<1> QED
  BY <1>1 DEF Covers

\* The instruction at the cursor joins V when rd is written there, or control
\* goes on to addresses still pending.
LEMMA CoversCursor ==
    ASSUME NEW V, Covers(V), NEW W, W = V \cup {cursor},
           UNCHANGED <<prog, start, seen>>,
           pc = "walk", in.ok, ~in.reads, Queued \subseteq Queued',
           \/ in.writes
           \/ Followable(cursor) /\ Successors(cursor) \subseteq Queued' \cup Walked'
    PROVE  Covers(W)'
<1>1. \A a : /\ Followable(a)' <=> Followable(a)
             /\ Successors(a)' = Successors(a)
  BY DEF Followable, Successors
<1>2. Walked = {cursor}
  BY DEF Walked
<1> QED
  BY <1>1, <1>2 DEF Covers, in

LEMMA CoveredInit == Init => Covered
<1> SUFFICES ASSUME Init PROVE Covered
  OBVIOUS
<1>1. 1 \in 1 .. Len(queue) /\ queue[1] = start
  BY DEF Init
<1>2. start \in Queued
  BY <1>1 DEF Queued, Items
<1>3. Covers({})
  BY <1>2 DEF Covers, Init
<1> QED
  BY <1>3 DEF Covered

\* Every step leaves the walk covered.
LEMMA CoveredStep == IInv /\ [Next]_vars => Covered'
<1> SUFFICES ASSUME IInv, [Next]_vars,
                    verdict' \in {"NONE", "DEAD"}, NoBranchToZero'
             PROVE  \E V \in SUBSET Section : Covers(V)'
  BY DEF Covered
<1>t. TypeOK
  BY DEF IInv
<1>p. prog' = prog /\ start' = start
  BY DEF Next, vars, Duplicate, PathsExhausted, OutsideSection, Enter,
         AllPathsDone, BudgetExhausted, Undecodable, Reads, Redefines,
         CallOrReturn, Indirect, QueueFull, Jump, Branch, FallThrough
<1>z. NoBranchToZero
  BY <1>p DEF NoBranchToZero
<1>a. ASSUME pc # "done" \/ UNCHANGED vars
      PROVE  \E V \in SUBSET Section : Covers(V)
  BY <1>a, <1>t, <1>z DEF IInv, TypeOK, Covered, vars
<1>1. CASE Duplicate
  <2>1. pc = "pop" /\ At \in seen /\ UNCHANGED <<seen, pc>> /\ Queued = Queued' \cup {At}
    BY <1>1, <1>t, PopType DEF Duplicate, Popping
  <2>2. PICK V \in SUBSET Section : Covers(V)
    BY <1>a, <2>1
  <2>3. Walked = {} /\ Walked' = {}
    BY <2>1 DEF Walked
  <2>4. seen \subseteq V
    BY <2>2, <2>3 DEF Covers
  <2>5. Covers(V)'
    BY <1>p, <2>1, <2>2, <2>3, <2>4, CoversStep
  <2> QED
    BY <2>5
<1>2. CASE Enter
  <2>1. /\ pc = "pop" /\ pc' = "walk" /\ cursor' = At
        /\ seen' = seen \cup {At} /\ Queued = Queued' \cup {At}
    BY <1>2, <1>t, PopType DEF Enter, Popping
  <2>2. PICK V \in SUBSET Section : Covers(V)
    BY <1>a, <2>1
  <2>3. Walked = {} /\ Walked' = {At}
    BY <2>1 DEF Walked
  <2>4. seen \subseteq V
    BY <2>2, <2>3 DEF Covers
  <2>5. Covers(V)'
    BY <1>p, <2>1, <2>2, <2>3, <2>4, CoversStep
  <2> QED
    BY <2>5
<1>3. CASE AllPathsDone
  <2>1. pc = "pop" /\ pc' = "done" /\ UNCHANGED <<queue, seen>>
    BY <1>3 DEF AllPathsDone, Answer
  <2>2. PICK V \in SUBSET Section : Covers(V)
    BY <1>a, <2>1
  <2>3. Walked = {} /\ Walked' = {} /\ Queued' = Queued
    BY <2>1 DEF Walked, Queued
  <2>4. seen \subseteq V
    BY <2>2, <2>3 DEF Covers
  <2>5. Covers(V)'
    BY <1>p, <2>1, <2>2, <2>3, <2>4, CoversStep
  <2> QED
    BY <2>5
<1>4. CASE Redefines
  <2>1. /\ pc = "walk" /\ cursor \in Section /\ in.ok /\ ~in.reads /\ in.writes
        /\ seen' = seen /\ queue' = queue
    BY <1>4 DEF Redefines, Decoded
  <2>2. PICK V \in SUBSET Section : Covers(V)
    BY <1>a, <2>1
  <2>3. Queued' = Queued
    BY <2>1 DEF Queued
  <2>4. PICK W \in SUBSET Section : W = V \cup {cursor}
    BY <2>1
  <2>5. Covers(W)'
    BY <1>p, <2>1, <2>2, <2>3, <2>4, CoversCursor
  <2> QED
    BY <2>5
<1>5. CASE Jump
  <2>1. /\ pc = "walk" /\ cursor \in Section /\ in.ok /\ ~in.reads
        /\ in.kind = "uncond" /\ relative_target(in) # 0
        /\ seen' = seen /\ Queued' = Queued \cup {relative_target(in)}
    BY <1>5, <1>t, PushType DEF Jump, Transfers, Passes, Decoded
  <2>2. PICK V \in SUBSET Section : Covers(V)
    BY <1>a, <2>1
  <2>3. Followable(cursor) /\ Successors(cursor) \subseteq Queued'
    BY <2>1 DEF Followable, Successors, relative_target, in
  <2>4. PICK W \in SUBSET Section : W = V \cup {cursor}
    BY <2>1
  <2>5. Covers(W)'
    BY <1>p, <2>1, <2>2, <2>3, <2>4, CoversCursor
  <2> QED
    BY <2>5
<1>6. CASE Branch
  <2>1. /\ pc = "walk" /\ pc' = "walk" /\ cursor \in Section /\ in.ok
        /\ ~in.reads /\ in.kind = "none" /\ relative_target(in) # 0
        /\ cursor' = cursor + in.len
        /\ seen' = seen /\ Queued' = Queued \cup {relative_target(in)}
    BY <1>6, <1>t, PushType DEF Branch, Transfers, Passes, Decoded
  <2>2. PICK V \in SUBSET Section : Covers(V)
    BY <1>a, <2>1
  <2>3. Walked' = {cursor + in.len}
    BY <2>1 DEF Walked
  <2>4. Followable(cursor) /\ Successors(cursor) \subseteq Queued' \cup Walked'
    BY <2>1, <2>3 DEF Followable, Successors, relative_target, in
  <2>5. PICK W \in SUBSET Section : W = V \cup {cursor}
    BY <2>1
  <2>6. Covers(W)'
    BY <1>p, <2>1, <2>2, <2>4, <2>5, CoversCursor
  <2> QED
    BY <2>6
<1>7. CASE FallThrough
  <2>1. /\ pc = "walk" /\ pc' = "walk" /\ cursor \in Section /\ in.ok
        /\ ~in.reads /\ in.kind = "none" /\ relative_target(in) = 0
        /\ cursor' = cursor + in.len
        /\ seen' = seen /\ queue' = queue
    BY <1>7 DEF FallThrough, Passes, Decoded
  <2>2. PICK V \in SUBSET Section : Covers(V)
    BY <1>a, <2>1
  <2>3. Walked' = {cursor + in.len} /\ Queued' = Queued
    BY <2>1 DEF Walked, Queued
  <2>4. ~in.rel
    BY <2>1, <1>z DEF NoBranchToZero, relative_target, in
  <2>5. Followable(cursor) /\ Successors(cursor) \subseteq Walked'
    BY <2>1, <2>3, <2>4 DEF Followable, Successors, in
  <2>6. PICK W \in SUBSET Section : W = V \cup {cursor}
    BY <2>1
  <2>7. Covers(W)'
    BY <1>p, <2>1, <2>2, <2>3, <2>5, <2>6, CoversCursor
  <2> QED
    BY <2>7
<1>8. CASE UNCHANGED vars
  <2>1. PICK V \in SUBSET Section : Covers(V)
    BY <1>a, <1>8
  <2>2. Walked' = Walked /\ Queued' = Queued /\ seen' = seen
    BY <1>8 DEF vars, Walked, Queued
  <2>3. Covers(V)'
    BY <1>p, <2>1, <2>2, CoversStep DEF Covers
  <2> QED
    BY <2>3
<1>9. ~(PathsExhausted \/ OutsideSection \/ BudgetExhausted \/ Undecodable
         \/ Reads \/ CallOrReturn \/ Indirect \/ QueueFull)
  BY DEF PathsExhausted, OutsideSection, BudgetExhausted, Undecodable, Reads,
         CallOrReturn, Indirect, QueueFull, Answer
<1> QED
  BY <1>1, <1>2, <1>3, <1>4, <1>5, <1>6, <1>7, <1>8, <1>9 DEF Next

-------------------------------------------------------------------------------
\* A protecting set that holds the cursor holds what the cursor leads to.
LEMMA ProtectedCursor ==
    ASSUME TypeOK, NEW S \in SUBSET Section, Protects(S), cursor \in S
    PROVE  /\ in.ok
           /\ ~in.reads
           /\ ~in.writes => /\ Followable(cursor)
                            /\ in.rel => in.dest \in S
                            /\ in.kind = "none" => cursor + in.len \in S
BY DEF Protects, Successors, in

LEMMA ReachedInit == Init => Reached
<1> SUFFICES ASSUME Init, NEW S \in SUBSET Section, start \in S
             PROVE  Confined(S)
  BY DEF Reached
<1>1. Queued = {start}
  BY DEF Init, Queued, Items
<1> QED
  BY <1>1 DEF Confined, Walked, Init

\* Every step keeps the walk inside whatever protects rd from the start.
LEMMA ReachedStep == IInv /\ [Next]_vars => Reached'
<1> SUFFICES ASSUME IInv, [Next]_vars,
                    NEW S \in SUBSET Section, (start \in S)', Protects(S)'
             PROVE  Confined(S)'
  BY DEF Reached
<1>t. TypeOK
  BY DEF IInv
<1>p. prog' = prog /\ start' = start
  BY DEF Next, vars, Duplicate, PathsExhausted, OutsideSection, Enter,
         AllPathsDone, BudgetExhausted, Undecodable, Reads, Redefines,
         CallOrReturn, Indirect, QueueFull, Jump, Branch, FallThrough
<1>s. start \in S /\ Protects(S)
  <2>1. \A a : /\ Followable(a)' <=> Followable(a)
               /\ Successors(a)' = Successors(a)
    BY <1>p DEF Followable, Successors
  <2> QED
    BY <1>p, <2>1 DEF Protects
<1>c. Confined(S)
  BY <1>s DEF IInv, Reached
<1>w. pc = "walk" => cursor \in S
  BY <1>c DEF Confined, Walked
<1>n. pc # "done" => verdict = "NONE"
  BY <1>t DEF TypeOK
<1>l. pc = "walk" => /\ in.ok
                     /\ ~in.reads
                     /\ ~in.writes => /\ Followable(cursor)
                                      /\ in.rel => in.dest \in S
                                      /\ in.kind = "none" => cursor + in.len \in S
  BY <1>t, <1>s, <1>w, ProtectedCursor
<1>1. CASE Popping /\ Pop
  <2>1. Queued' \subseteq S /\ At \in S
    BY <1>1, <1>t, <1>c, PopType DEF Confined
  <2>2. verdict = "NONE"
    BY <1>1, <1>n DEF Popping
  <2>3. CASE Duplicate \/ Enter
    BY <2>1, <2>2, <2>3, <1>1 DEF Duplicate, Enter, Popping, Confined, Walked
  <2>4. CASE PathsExhausted
    <3>1. Cardinality(seen) = LIVE_PATHS
      <4>1. Cardinality(seen) \in Nat
        BY <1>t, FS_CardinalityType DEF TypeOK
      <4> QED
        BY <2>4, <4>1, <1>t, LivenessAssumption DEF PathsExhausted, TypeOK
    <3> QED
      BY <2>1, <2>4, <3>1
         DEF PathsExhausted, Answer, Confined, Walked, Bounded
  <2>5. ~OutsideSection
    BY <2>1 DEF OutsideSection
  <2>6. Duplicate \/ Enter \/ PathsExhausted \/ OutsideSection
    BY <1>1 DEF Next, vars, Popping, Pop, AllPathsDone, BudgetExhausted,
           Undecodable, Reads, Redefines, CallOrReturn, Indirect, QueueFull,
           Jump, Branch, FallThrough, Decoded, Passes, Transfers,
           Duplicate, Enter, PathsExhausted, OutsideSection
  <2> QED
    BY <2>3, <2>4, <2>5, <2>6
<1>2. CASE AllPathsDone
  BY <1>2, <1>c DEF AllPathsDone, Answer, Confined, Walked, Queued
<1>3. CASE BudgetExhausted
  BY <1>3, <1>c, <1>t DEF BudgetExhausted, Answer, Confined, Walked, Queued,
                          Bounded, TypeOK
<1>4. ~Undecodable
  BY <1>l, <1>w DEF Undecodable, in
<1>5. ~Reads
  BY <1>l DEF Reads, Decoded
<1>6. CASE Redefines
  BY <1>6, <1>c, <1>n DEF Redefines, Decoded, Confined, Walked, Queued
<1>7. ~CallOrReturn
  BY <1>l DEF CallOrReturn, Passes, Decoded, Followable, in
<1>8. CASE Indirect
  <2>1. Queued' \subseteq S /\ Walked' = {} /\ verdict' = "UNKNOWN"
    BY <1>8, <1>c DEF Indirect, Passes, Decoded, Answer, Confined, Walked, Queued
  <2>2. in.rel /\ in.dest = 0
    BY <1>8, <1>l DEF Indirect, Passes, Decoded, Followable, in, relative_target
  <2>3. ~NoTransferToZero'
    BY <1>8, <2>2, <1>p DEF NoTransferToZero, Indirect, Passes, Decoded, in
  <2> QED
    BY <2>1, <2>3 DEF Confined
<1>9. CASE QueueFull
  <2>1. Queued' \subseteq S /\ Walked' = {} /\ verdict' = "UNKNOWN"
    BY <1>9, <1>c
       DEF QueueFull, Transfers, Passes, Decoded, Answer, Confined, Walked, Queued
  <2>2. Len(queue') = LIVE_PATHS
    BY <1>9, <1>t, LivenessAssumption, LenProperties DEF QueueFull, TypeOK
  <2> QED
    BY <2>1, <2>2 DEF Confined, Bounded
<1>10. CASE Jump \/ Branch
  <2>1. /\ Transfers /\ Push /\ pc = "walk" /\ cursor \in Section /\ verdict = "NONE"
    BY <1>10, <1>n DEF Jump, Branch, Transfers, Passes, Decoded
  <2>2. Queued' = Queued \cup {relative_target(in)}
    BY <2>1, <1>t, PushType
  <2>3. relative_target(in) \in S
    BY <2>1, <1>l DEF Transfers, Passes, relative_target
  <2>4. Queued' \subseteq S
    BY <2>2, <2>3, <1>c DEF Confined
  <2>5. CASE Jump
    BY <2>1, <2>4, <2>5 DEF Jump, Confined, Walked
  <2>6. CASE Branch
    <3>1. cursor + in.len \in S
      BY <2>6, <2>1, <1>l DEF Branch, Transfers, Passes
    <3> QED
      BY <2>1, <2>4, <2>6, <3>1 DEF Branch, Confined, Walked
  <2> QED
    BY <1>10, <2>5, <2>6
<1>11. CASE FallThrough
  <2>1. cursor + in.len \in S
    BY <1>11, <1>l DEF FallThrough, Passes, Decoded
  <2> QED
    BY <1>11, <2>1, <1>c, <1>n
       DEF FallThrough, Passes, Decoded, Confined, Walked, Queued
<1>12. CASE UNCHANGED vars
  BY <1>12, <1>c DEF vars, Confined, Walked, Queued, Bounded, NoTransferToZero
<1>13. Duplicate \/ PathsExhausted \/ OutsideSection \/ Enter => Popping /\ Pop
  BY DEF Duplicate, PathsExhausted, OutsideSection, Enter
<1> QED
  BY <1>1, <1>2, <1>3, <1>4, <1>5, <1>6, <1>7, <1>8, <1>9, <1>10, <1>11, <1>12,
     <1>13 DEF Next

-------------------------------------------------------------------------------
LEMMA IInvInit == Init => IInv
BY TypeInit, CoveredInit, ReachedInit DEF IInv, Init

LEMMA IInvStep == IInv /\ [Next]_vars => IInv'
<1> SUFFICES ASSUME IInv, [Next]_vars PROVE IInv'
  OBVIOUS
<1>1. TypeOK' /\ Covered' /\ Reached'
  BY TypeStep, CoveredStep, ReachedStep DEF IInv
<1>2. verdict' = "DEAD" => queue' = <<>>
  BY DEF IInv, TypeOK, Next, vars, Duplicate, PathsExhausted, OutsideSection,
         Enter, AllPathsDone, BudgetExhausted, Undecodable, Reads, Redefines,
         CallOrReturn, Indirect, QueueFull, Jump, Branch, FallThrough, Answer,
         Decoded, Passes, Transfers, Popping
<1> QED
  BY <1>1, <1>2 DEF IInv

LEMMA IInvAlways == Spec => []IInv
BY IInvInit, IInvStep, PTL DEF Spec

\* The fixed arrays of LIVE_PATHS entries are never overrun, and the walk never
\* leaves the section it was given, whatever the program.
THEOREM TypeCorrect == Spec => []TypeOK
BY IInvAlways, PTL DEF IInv

\* A rewrite licensed by "DEAD" is safe: every execution from the address
\* queried writes rd before reading it.
THEOREM DeadSound == Spec => []DeadIsSound
<1>1. IInv => DeadIsSound
  <2> SUFFICES ASSUME IInv, verdict = "DEAD", NoBranchToZero
               PROVE  DeadAt(start)
    BY DEF DeadIsSound
  <2>1. PICK V \in SUBSET Section : Covers(V)
    BY DEF IInv, Covered
  <2>2. queue = <<>> /\ pc = "done"
    BY DEF IInv, TypeOK
  <2>3. Queued = {} /\ Walked = {}
    BY <2>2 DEF Queued, Items, Walked
  <2>4. start \in V /\ Protects(V)
    BY <2>1, <2>3 DEF Covers, Protects
  <2> QED
    BY <2>4 DEF DeadAt
<1> QED
  BY <1>1, IInvAlways, PTL

\* "READ" is only answered where some path really can read rd first.
THEOREM ReadSound == Spec => []ReadIsSound
<1>1. IInv => ReadIsSound
  BY DEF IInv, Reached, Confined, ReadIsSound, DeadAt
<1> QED
  BY <1>1, IInvAlways, PTL

\* The walk declines only at a bound, or where rd cannot be shown dead.
THEOREM UnknownJustified == Spec => []UnknownIsJustified
<1>1. IInv => UnknownIsJustified
  BY DEF IInv, Reached, Confined, Bounded, UnknownIsJustified, DeadAt
<1> QED
  BY <1>1, IInvAlways, PTL
===============================================================================
