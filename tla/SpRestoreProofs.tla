--------------------------- MODULE SpRestoreProofs ---------------------------
(***************************************************************************)
(* Theorems about SpRestore, for every function and every frame size.      *)
(***************************************************************************)
EXTENDS SpRestore, TLAPS

-------------------------------------------------------------------------------
(***************************************************************************)
(* Type correctness.                                                       *)
(***************************************************************************)
LEMMA ProgLemma ==
    ASSUME prog \in Programs, NEW a \in Section
    PROVE  /\ prog[a].op \in Ops
           /\ prog[a].k \in Word \ {0}
           /\ prog[a].dest \in Nat
BY SpRestoreAssumption

LEMMA WordLemma == \A n \in Int : n % Words \in Word
BY SpRestoreAssumption DEF Word

\* Every step keeps the state well formed.
THEOREM TypeCorrect == Spec => []TypeOK
<1>1. Init => TypeOK
  <2> SUFFICES ASSUME Init PROVE TypeOK
    OBVIOUS
  <2>1. 0 \in Word /\ 0 \in Section /\ 0 \in 0 .. Size
    BY SpRestoreAssumption DEF Word, Section
  <2>2. findings \subseteq Section \X Section
    BY DEF Init
  <2> QED
    BY <2>1, <2>2 DEF Init, TypeOK
<1>2. TypeOK /\ [Next]_vars => TypeOK'
  <2> SUFFICES ASSUME TypeOK, [Next]_vars PROVE TypeOK'
    OBVIOUS
  <2>1. CASE Scan
    <3>1. at \in Section /\ at' = at + 1 /\ at' \in 0 .. Size
      BY <2>1, SpRestoreAssumption DEF Scan, Section, TypeOK
    <3>2. prog[at].op \in Ops /\ prog[at].k \in Word
      BY <3>1, ProgLemma DEF TypeOK
    <3>3. armed' \in BOOLEAN /\ spMoved' \in BOOLEAN
      BY <2>1 DEF Scan, TypeOK, ArmedAfter, WritesSp, WritesFp
    <3>4. k' \in Word /\ setup' \in Section
      BY <2>1, <3>1, <3>2 DEF Scan, TypeOK
    <3>5. findings' \subseteq Section \X Section
      BY <2>1, <3>1 DEF Scan, TypeOK
    <3> QED
      BY <2>1, <3>1, <3>3, <3>4, <3>5 DEF Scan, TypeOK, machine
  <2>2. CASE Skip
    BY <2>2, SpRestoreAssumption DEF Skip, TypeOK, carried, machine, Section
  <2>3. CASE Start
    BY <2>3 DEF Start, TypeOK, carried
  <2>4. CASE Execute
    <3>1. pc \in Section /\ prog[pc].k \in Word /\ prog[pc].dest \in Nat
      BY <2>4, ProgLemma DEF Execute, TypeOK
    <3>2. pc' \in Nat
      BY <2>4, <3>1 DEF Execute, Goes, Section
    <3>3. (fp - prog[pc].k) % Words \in Word /\ (sp + prog[pc].k) % Words \in Word
      BY <3>1, WordLemma DEF TypeOK, Word
    <3>4. sp' \in Word
      BY <2>4, <3>3 DEF Execute, TypeOK
    <3>5. fp' \in Word
      BY <2>4, <3>3 DEF Execute, TypeOK
    <3> QED
      BY <2>4, <3>2, <3>4, <3>5 DEF Execute, TypeOK, carried
  <2>5. CASE UNCHANGED vars
    BY <2>5 DEF vars, carried, machine, TypeOK
  <2> QED
    BY <2>1, <2>2, <2>3, <2>4, <2>5 DEF Next
<1> QED
  BY <1>1, <1>2, PTL DEF Spec

-------------------------------------------------------------------------------
(***************************************************************************)
(* The carried prologue.  s is current at address n when it is a setup and *)
(* nothing from it to n writes s0.                                         *)
(***************************************************************************)
Current(s, n) == /\ s \in 0 .. n - 1
                 /\ prog[s].op = "setup"
                 /\ \A a \in s + 1 .. n - 1 : ~WritesFp(prog[a])

\* What state->fp records is the setup that is current where the scan is.
Carries == /\ \A s \in Section : Current(s, at) => armed /\ s = setup
           /\ armed => /\ Current(setup, at)
                       /\ k = prog[setup].k
                       /\ spMoved <=> \E a \in setup + 1 .. at - 1 : WritesSp(prog[a])

CarryInv == TypeOK /\ Carries /\ FindingsExact

LEMMA CarriesStep ==
    ASSUME CarryInv, Scan
    PROVE  Carries'
<1> DEFINE in == prog[at]
<1>1. /\ at \in Section /\ at' = at + 1 /\ prog' = prog
      /\ armed' = (in.op = "setup" \/ (armed /\ ~WritesFp(in)))
      /\ k' = IF in.op = "setup" THEN in.k ELSE k
      /\ setup' = IF in.op = "setup" THEN at ELSE setup
      /\ spMoved' = IF in.op = "setup" THEN FALSE ELSE spMoved \/ WritesSp(in)
  BY DEF Scan, ArmedAfter
<1>2. at \in Nat /\ setup \in Nat
  BY <1>1 DEF CarryInv, TypeOK, Section
<1>3. \A s \in Section : Current(s, at)' <=> \/ (s = at /\ in.op = "setup")
                                            \/ (Current(s, at) /\ ~WritesFp(in))
  BY <1>1, <1>2 DEF Current, WritesFp, Section
<1>4. \A s \in Section : Current(s, at)' => armed' /\ s = setup'
  BY <1>1, <1>3 DEF CarryInv, Carries, WritesFp
<1>5. CASE in.op = "setup"
  <2>1. setup' = at /\ ~spMoved' /\ k' = in.k /\ armed'
    BY <1>1, <1>5
  <2>2. Current(setup, at)'
    BY <1>1, <1>2, <1>5, <2>1 DEF Current
  <2> QED
    BY <1>1, <1>2, <1>4, <2>1, <2>2 DEF Carries
<1>6. CASE in.op # "setup"
  <2> SUFFICES ASSUME armed'
               PROVE  /\ Current(setup, at)'
                      /\ k' = prog'[setup'].k
                      /\ spMoved' <=> \E a \in setup' + 1 .. at' - 1 : WritesSp(prog'[a])
    BY <1>4 DEF Carries
  <2>1. armed /\ ~WritesFp(in) /\ setup' = setup /\ k' = k
    BY <1>1, <1>6
  <2>2. Current(setup, at)' /\ k' = prog'[setup']. k
    BY <1>1, <1>2, <2>1 DEF CarryInv, Carries, Current
  <2>3. spMoved' <=> spMoved \/ WritesSp(in)
    BY <1>1, <1>6
  <2>4. spMoved <=> \E a \in setup + 1 .. at - 1 : WritesSp(prog[a])
    BY <2>1 DEF CarryInv, Carries
  <2>5. setup < at
    BY <2>1, <1>2 DEF CarryInv, Carries, Current
  <2> QED
    BY <1>1, <1>2, <2>1, <2>2, <2>3, <2>4, <2>5
<1> QED
  BY <1>5, <1>6

LEMMA FindingsStep ==
    ASSUME CarryInv, Scan
    PROVE  FindingsExact'
<1> DEFINE in == prog[at]
<1>1. /\ at \in Section /\ at \in Nat /\ at' = at + 1 /\ prog' = prog
      /\ findings' = IF Redundant(in) THEN findings \cup {<<setup, at>>} ELSE findings
  BY DEF Scan, Section
<1>2. \A s, r : Matches(s, r)' <=> Matches(s, r)
  BY <1>1 DEF Matches, Undisturbed, riscvlint_is_branch_target, Targets, Transfers
<1>3. ASSUME NEW s \in Section
      PROVE  (Redundant(in) /\ s = setup) <=> Matches(s, at)
  <2>1. ASSUME Redundant(in), s = setup PROVE Matches(s, at)
    <3>1. /\ Current(s, at) /\ prog[s].k = in.k /\ in.op = "restore"
          /\ \A a \in s + 1 .. at - 1 : ~WritesSp(prog[a])
          /\ ~riscvlint_is_branch_target(at)
      BY <2>1 DEF Redundant, CarryInv, Carries
    <3> QED
      BY <1>1, <3>1 DEF Matches, Current, Undisturbed, Section
  <2>2. ASSUME Matches(s, at) PROVE Redundant(in) /\ s = setup
    <3>1. Current(s, at)
      BY <1>1, <2>2 DEF Matches, Current, Undisturbed, Section
    <3>2. armed /\ s = setup /\ k = prog[s].k
      BY <3>1 DEF CarryInv, Carries
    <3>3. ~spMoved
      BY <2>2, <3>2 DEF CarryInv, Carries, Matches, Undisturbed
    <3> QED
      BY <2>2, <3>2, <3>3 DEF Matches, Redundant
  <2> QED
    BY <2>1, <2>2
<1>4. ASSUME NEW s \in Section, NEW r \in Section
      PROVE  <<s, r>> \in findings' <=> r < at + 1 /\ Matches(s, r)
  <2>1. <<s, r>> \in findings <=> r < at /\ Matches(s, r)
    BY DEF CarryInv, FindingsExact
  <2>2. CASE r = at
    BY <1>1, <1>3, <2>1, <2>2
  <2>3. CASE r # at
    <3>1. r < at + 1 <=> r < at
      BY <1>1, <2>3 DEF Section
    <3>2. <<s, r>> \in findings' <=> <<s, r>> \in findings
      BY <1>1, <2>3
    <3> QED
      BY <2>1, <3>1, <3>2
  <2> QED
    BY <2>2, <2>3
<1> QED
  BY <1>1, <1>2, <1>4 DEF FindingsExact

LEMMA SkipStep ==
    ASSUME CarryInv, Skip
    PROVE  Carries' /\ FindingsExact'
<1>1. /\ at \in Section /\ at \in Nat /\ at' = at + 1 /\ prog' = prog
      /\ UNCHANGED <<armed, k, setup, spMoved, findings>>
      /\ ~WritesSp(prog[at]) /\ ~WritesFp(prog[at])
      /\ prog[at].op # "setup" /\ prog[at].op # "restore"
  BY DEF Skip, Section, carried, WritesSp, WritesFp
<1>2. setup \in Nat
  BY DEF CarryInv, TypeOK, Section
<1>3. \A s \in Section : Current(s, at)' <=> Current(s, at)
  BY <1>1 DEF Current, Section
<1>4. setup \in Section
  BY DEF CarryInv, TypeOK
<1>5. \A s \in Section : Current(s, at)' => armed' /\ s = setup'
  BY <1>1, <1>3 DEF CarryInv, Carries
<1>6. ASSUME armed'
      PROVE  /\ Current(setup, at)'
             /\ k' = prog'[setup'].k
             /\ spMoved' <=> \E a \in setup' + 1 .. at' - 1 : WritesSp(prog'[a])
  <2>1. Current(setup, at)' /\ k' = prog'[setup'].k
    BY <1>1, <1>2, <1>6 DEF CarryInv, Carries, Current
  <2>2. spMoved <=> \E a \in setup + 1 .. at - 1 : WritesSp(prog[a])
    BY <1>1, <1>6 DEF CarryInv, Carries
  <2> QED
    BY <1>1, <1>2, <2>1, <2>2
<1>7. \A s, r : Matches(s, r)' <=> Matches(s, r)
  BY <1>1 DEF Matches, Undisturbed, WritesSp, WritesFp,
              riscvlint_is_branch_target, Targets, Transfers
<1>8. \A s : ~Matches(s, at)
  BY <1>1 DEF Matches
<1>9. FindingsExact'
  <2>1. ASSUME NEW s \in Section, NEW r \in Section
        PROVE  r < at + 1 /\ Matches(s, r) <=> r < at /\ Matches(s, r)
    BY <1>1, <1>8 DEF Section
  <2> QED
    BY <1>1, <1>7, <2>1 DEF CarryInv, FindingsExact
<1> QED
  BY <1>5, <1>6, <1>9 DEF Carries

LEMMA MachineStep ==
    ASSUME CarryInv, UNCHANGED <<prog, at, carried, findings>>
    PROVE  Carries' /\ FindingsExact'
<1>1. UNCHANGED <<prog, at, armed, k, setup, spMoved, findings>>
  BY DEF carried
<1>2. Carries'
  BY <1>1 DEF CarryInv, Carries, Current
<1>3. \A s, r : Matches(s, r)' <=> Matches(s, r)
  BY <1>1 DEF Matches, Undisturbed, WritesSp, WritesFp,
              riscvlint_is_branch_target, Targets, Transfers
<1>4. FindingsExact'
  BY <1>1, <1>3 DEF CarryInv, FindingsExact
<1> QED
  BY <1>2, <1>4

\* The restores reported are those a search backward from each of them would
\* find a setup for: carrying the prologue forward loses none and adds none.
THEOREM FindingsCorrect == Spec => []FindingsExact
<1>1. Init => Carries /\ FindingsExact
  BY DEF Init, Carries, Current, FindingsExact, Section
<1>2. CarryInv /\ [Next]_vars => Carries' /\ FindingsExact'
  <2> SUFFICES ASSUME CarryInv, [Next]_vars PROVE Carries' /\ FindingsExact'
    OBVIOUS
  <2>1. CASE Scan
    BY <2>1, CarriesStep, FindingsStep
  <2>2. CASE Skip
    BY <2>2, SkipStep
  <2>3. CASE Start
    BY <2>3, MachineStep DEF Start
  <2>4. CASE Execute
    BY <2>4, MachineStep DEF Execute
  <2>5. CASE UNCHANGED vars
    BY <2>5, MachineStep DEF vars
  <2> QED
    BY <2>1, <2>2, <2>3, <2>4, <2>5 DEF Next
<1> QED
  BY <1>1, <1>2, TypeCorrect, PTL DEF Spec, CarryInv

-------------------------------------------------------------------------------
(***************************************************************************)
(* The machine.  Inside a frame that is entered at its setup only, sp and  *)
(* s0 keep the distance the setup gave them.                               *)
(***************************************************************************)
FrameHolds ==
    \A s, r \in Section :
        Matches(s, r) /\ SingleEntry(s, r) /\ pc \in s + 1 .. r
            => sp = (fp - prog[r].k) % Words

LEMMA SetupKeepsDistance ==
    ASSUME NEW s \in Word, NEW d \in Word
    PROVE  s = (((s + d) % Words) - d) % Words
<1>1. Words \in Nat \ {0} /\ s \in 0 .. Words - 1 /\ d \in 0 .. Words - 1
  BY SpRestoreAssumption DEF Word
<1>2. \A n \in 0 .. Words - 1 : n % Words = n /\ (n - Words) % Words = n
                                           /\ (n + Words) % Words = n
  BY <1>1
<1>3. CASE s + d < Words
  BY <1>1, <1>2, <1>3
<1>4. CASE s + d >= Words
  <2>1. (s + d) - Words \in 0 .. Words - 1
    BY <1>1, <1>4
  <2>2. (s + d) % Words = (s + d) - Words
    <3>1. (((s + d) - Words) + Words) % Words = (s + d) - Words
      BY <1>2, <2>1
    <3> QED
      BY <1>1, <3>1
  <2>3. ((s + d) - Words) - d = s - Words
    BY <1>1
  <2> QED
    BY <1>1, <1>2, <2>2, <2>3
<1> QED
  BY <1>1, <1>3, <1>4

LEMMA FrameStep ==
    ASSUME TypeOK, FrameHolds, Execute
    PROVE  FrameHolds'
<1>1. /\ prog' = prog /\ pc \in Section /\ pc \in Nat /\ Goes(prog[pc])
  BY DEF Execute, Section
<1>2. \A s, r : (Matches(s, r) /\ SingleEntry(s, r))' <=> Matches(s, r) /\ SingleEntry(s, r)
  BY <1>1 DEF Matches, Undisturbed, SingleEntry, riscvlint_is_branch_target,
              Targets, Transfers
<1> SUFFICES ASSUME NEW s \in Section, NEW r \in Section,
                    Matches(s, r), SingleEntry(s, r), pc' \in s + 1 .. r
             PROVE  sp' = (fp' - prog[r].k) % Words
  BY <1>1, <1>2 DEF FrameHolds
<1>3. s \in Nat /\ r \in Nat /\ prog[s].op = "setup" /\ prog[r].op = "restore"
      /\ prog[s].k = prog[r].k
  BY DEF Matches, Section
<1>4. pc \in s .. r - 1
  <2>1. CASE pc' = pc + 1
    BY <1>1, <1>3, <2>1
  <2>2. CASE Transfers(pc) /\ pc' = prog[pc].dest
    <3>1. pc \in s .. r
      BY <1>1, <2>2 DEF SingleEntry
    <3>2. pc # r
      BY <1>3, <2>2 DEF Transfers
    <3> QED
      BY <1>3, <3>1, <3>2
  <2> QED
    BY <1>1, <2>1, <2>2 DEF Goes, Transfers
<1>5. CASE pc = s
  <2>1. sp' = sp /\ fp' = (sp + prog[s].k) % Words
    BY <1>3, <1>5 DEF Execute
  <2>2. sp \in Word /\ prog[s].k \in Word
    BY ProgLemma DEF TypeOK
  <2> QED
    BY <1>3, <2>1, <2>2, SetupKeepsDistance
<1>6. CASE pc # s
  <2>1. pc \in s + 1 .. r - 1 /\ pc \in s + 1 .. r
    BY <1>1, <1>3, <1>4, <1>6
  <2>2. ~WritesSp(prog[pc]) /\ ~WritesFp(prog[pc]) /\ prog[pc].op # "bad"
    BY <1>3, <1>4, <2>1 DEF Matches, Undisturbed, SingleEntry
  <2>3. sp' = sp /\ fp' = fp
    BY <2>2 DEF Execute, WritesSp, WritesFp
  <2> QED
    BY <2>1, <2>3 DEF FrameHolds
<1> QED
  BY <1>5, <1>6

\* A reported restore whose frame is entered at its setup only assigns sp the
\* value it already holds, in every run of every function.
THEOREM RestoreSound == Spec => []RestoreIsRedundant
<1>1. Init => FrameHolds
  BY DEF Init, FrameHolds, NotStarted, Section
<1>2. TypeOK /\ FrameHolds /\ [Next]_vars => FrameHolds'
  <2> SUFFICES ASSUME TypeOK, FrameHolds, [Next]_vars PROVE FrameHolds'
    OBVIOUS
  <2>1. CASE Execute
    BY <2>1, FrameStep
  <2>2. CASE Start
    BY <2>2 DEF Start, FrameHolds, Matches, Undisturbed, SingleEntry,
                riscvlint_is_branch_target, Targets, Transfers, Section
  <2>3. CASE UNCHANGED <<prog, pc, sp, fp>>
    BY <2>3 DEF FrameHolds, Matches, Undisturbed, SingleEntry,
                riscvlint_is_branch_target, Targets, Transfers
  <2> QED
    BY <2>1, <2>2, <2>3 DEF Next, Scan, Skip, vars, machine
<1>3. TypeOK /\ FrameHolds /\ FindingsExact => RestoreIsRedundant
  BY DEF FrameHolds, FindingsExact, RestoreIsRedundant, Matches, Section
<1> QED
  BY <1>1, <1>2, <1>3, TypeCorrect, FindingsCorrect, PTL DEF Spec
===============================================================================
