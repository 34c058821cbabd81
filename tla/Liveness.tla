------------------------------- MODULE Liveness -------------------------------
(***************************************************************************)
(* riscvlint_liveness: the bounded walk that decides whether register rd   *)
(* is dead at an address.  It follows every path from the address, one     *)
(* instruction at a time, with a work list of path starts (queue), the     *)
(* starts already taken (seen) and a budget of instructions, and answers   *)
(*   "READ"     some path reads rd before writing it,                      *)
(*   "DEAD"     every path it followed writes rd first,                    *)
(*   "UNKNOWN"  it gave up.                                                *)
(* Only "DEAD" licenses a rewrite.                                         *)
(*                                                                         *)
(* Addresses count halfwords.  An instruction is reduced to what the walk  *)
(* reads of an rvl_dec: does it decode, its length, whether it reads or    *)
(* writes rd, and where control goes next.                                 *)
(***************************************************************************)
EXTENDS Integers, Sequences, FiniteSets

CONSTANTS
    Vaddr,        \* address of the section (state->vaddr)
    Size,         \* its size in halfwords (state->size)
    Code,         \* the instructions a program is made of
    LIVE_BUDGET,  \* instructions examined per query
    LIVE_PATHS    \* distinct path starts before giving up

Section == Vaddr .. Vaddr + Size - 1

\* kind: LIVE_CALL, LIVE_RET, LIVE_UNCOND or none of them.  rel is capstone's
\* BRANCH_RELATIVE group and dest the encoded destination: rel with kind "none"
\* is a conditional branch, "uncond" without rel an indirect jump.
Insn == [ok : BOOLEAN, len : {1, 2}, reads : BOOLEAN, writes : BOOLEAN,
         kind : {"none", "call", "ret", "uncond"}, rel : BOOLEAN, dest : Nat]

ASSUME LivenessAssumption ==
    /\ Vaddr \in Nat
    /\ Size \in Nat \ {0}
    /\ Code \subseteq Insn
    /\ LIVE_BUDGET \in Nat
    /\ LIVE_PATHS \in Nat \ {0}

\* dec_fill hands capstone the bytes left in the section, so what decodes fits.
Programs == {p \in [Section -> Code] :
                \A a \in Section : p[a].ok => a + p[a].len <= Vaddr + Size}

VARIABLES
    prog,     \* the section's instructions, by address
    start,    \* the address asked about
    queue,    \* path starts still to follow, a stack
    seen,     \* path starts taken
    budget,   \* instructions it may still examine
    cursor,   \* the instruction about to be examined (a)
    pc,       \* "pop": take a path start; "walk": examine; "done": answered
    verdict   \* the answer, "NONE" until there is one

vars == <<prog, start, queue, seen, budget, cursor, pc, verdict>>

-------------------------------------------------------------------------------
\* Absolute target of a relative transfer, or 0 when it has none.
relative_target(in) == IF in.rel THEN in.dest ELSE 0

Init == /\ prog \in Programs
        /\ start \in Section
        /\ queue = <<start>>
        /\ seen = {}
        /\ budget = LIVE_BUDGET
        /\ cursor = start
        /\ pc = "pop"
        /\ verdict = "NONE"

Answer(v) == /\ pc' = "done"
             /\ verdict' = v

-------------------------------------------------------------------------------
\* The outer loop: take the last path start queued.
At == queue[Len(queue)]

Popping == /\ pc = "pop"
           /\ queue # <<>>

Pop == queue' = SubSeq(queue, 1, Len(queue) - 1)

\* Mutant: the start stays on the queue.
DuplicateStays == /\ Popping
                  /\ At \in seen
                  /\ UNCHANGED vars

Duplicate == /\ Popping
             /\ At \in seen
             /\ Pop
             /\ UNCHANGED <<prog, start, seen, budget, cursor, pc, verdict>>

PathsExhausted == /\ Popping
                  /\ At \notin seen
                  /\ Cardinality(seen) >= LIVE_PATHS
                  /\ Pop
                  /\ Answer("UNKNOWN")
                  /\ UNCHANGED <<prog, start, seen, budget, cursor>>

\* Mutant: the section's first address counts as outside.
OutsideOffByOne == /\ Popping
                   /\ At \notin seen
                   /\ Cardinality(seen) < LIVE_PATHS
                   /\ At \notin Section \ {Vaddr}
                   /\ Pop
                   /\ seen' = seen \cup {At}
                   /\ Answer("UNKNOWN")
                   /\ UNCHANGED <<prog, start, budget, cursor>>

OutsideSection == /\ Popping
                  /\ At \notin seen
                  /\ Cardinality(seen) < LIVE_PATHS
                  /\ At \notin Section
                  /\ Pop
                  /\ seen' = seen \cup {At}
                  /\ Answer("UNKNOWN")
                  /\ UNCHANGED <<prog, start, budget, cursor>>

Enter == /\ Popping
         /\ At \notin seen
         /\ Cardinality(seen) < LIVE_PATHS
         /\ At \in Section
         /\ Pop
         /\ seen' = seen \cup {At}
         /\ cursor' = At
         /\ pc' = "walk"
         /\ UNCHANGED <<prog, start, budget, verdict>>

AllPathsDone == /\ pc = "pop"
                /\ queue = <<>>
                /\ Answer("DEAD")
                /\ UNCHANGED <<prog, start, queue, seen, budget, cursor>>

-------------------------------------------------------------------------------
\* The inner loop: examine the instruction at the cursor.
in == prog[cursor]

BudgetExhausted == /\ pc = "walk"
                   /\ budget <= 0
                   /\ Answer("UNKNOWN")
                   /\ UNCHANGED <<prog, start, queue, seen, budget, cursor>>

\* One unit of budget spent, and live_decode found an instruction.
Decoded == /\ pc = "walk"
           /\ budget > 0
           /\ cursor \in Section
           /\ in.ok
           /\ budget' = budget - 1

Undecodable == /\ pc = "walk"
               /\ budget > 0
               /\ cursor \in Section => ~in.ok
               /\ budget' = budget - 1
               /\ Answer("UNKNOWN")
               /\ UNCHANGED <<prog, start, queue, seen, cursor>>

\* Mutant: a register written counts as read.
ReadsOrWrites == /\ Decoded
                 /\ in.reads \/ in.writes
                 /\ Answer("READ")
                 /\ UNCHANGED <<prog, start, queue, seen, cursor>>

Reads == /\ Decoded
         /\ in.reads
         /\ Answer("READ")
         /\ UNCHANGED <<prog, start, queue, seen, cursor>>

\* Mutant: the write is looked at before the read.
RedefinesFirst == /\ Decoded
                  /\ in.writes
                  /\ pc' = "pop"
                  /\ UNCHANGED <<prog, start, queue, seen, cursor, verdict>>

Redefines == /\ Decoded
             /\ ~in.reads
             /\ in.writes
             /\ pc' = "pop"
             /\ UNCHANGED <<prog, start, queue, seen, cursor, verdict>>

\* Neither reads nor writes rd: the path goes on.
Passes == /\ Decoded
          /\ ~in.reads
          /\ ~in.writes

CallOrReturn == /\ Passes
                /\ in.kind \in {"call", "ret"}
                /\ Answer("UNKNOWN")
                /\ UNCHANGED <<prog, start, queue, seen, cursor>>

Indirect == /\ Passes
            /\ in.kind = "uncond"
            /\ relative_target(in) = 0
            /\ Answer("UNKNOWN")
            /\ UNCHANGED <<prog, start, queue, seen, cursor>>

Transfers == /\ Passes
             /\ in.kind \in {"none", "uncond"}
             /\ relative_target(in) # 0

QueueFull == /\ Transfers
             /\ Len(queue) >= LIVE_PATHS
             /\ Answer("UNKNOWN")
             /\ UNCHANGED <<prog, start, queue, seen, cursor>>

\* Mutant: no bound on the queue.
PushAnyway == queue' = Append(queue, relative_target(in))

Push == /\ Len(queue) < LIVE_PATHS
        /\ queue' = Append(queue, relative_target(in))

Jump == /\ Transfers
        /\ in.kind = "uncond"
        /\ Push
        /\ pc' = "pop"
        /\ UNCHANGED <<prog, start, seen, cursor, verdict>>

Branch == /\ Transfers
          /\ in.kind = "none"
          /\ Push
          /\ cursor' = cursor + in.len
          /\ UNCHANGED <<prog, start, seen, pc, verdict>>

FallThrough == /\ Passes
               /\ in.kind = "none"
               /\ relative_target(in) = 0
               /\ cursor' = cursor + in.len
               /\ UNCHANGED <<prog, start, queue, seen, pc, verdict>>

-------------------------------------------------------------------------------
Next == \/ Duplicate \/ PathsExhausted \/ OutsideSection \/ Enter
        \/ AllPathsDone
        \/ BudgetExhausted \/ Undecodable
        \/ Reads \/ Redefines
        \/ CallOrReturn \/ Indirect \/ QueueFull
        \/ Jump \/ Branch \/ FallThrough

Spec == Init /\ [][Next]_vars

\* The walk is a loop of one thread: while it has a step it takes it.
FairSpec == Spec /\ WF_vars(Next)

-------------------------------------------------------------------------------
(***************************************************************************)
(* What the answers are about.  A successor is where the hardware can go,  *)
(* whatever value the destination has.                                     *)
(***************************************************************************)
Successors(a) ==
    (IF prog[a].rel THEN {prog[a].dest} ELSE {})
        \cup (IF prog[a].kind = "none" THEN {a + prog[a].len} ELSE {})

\* An instruction all of whose successors the section names.
Followable(a) == \/ prog[a].kind = "none"
                 \/ prog[a].kind = "uncond" /\ prog[a].rel

\* S is a set of instructions that execution cannot leave without writing rd,
\* and that do not read it.
Protects(S) == \A a \in S : /\ prog[a].ok
                            /\ ~prog[a].reads
                            /\ \/ prog[a].writes
                               \/ Followable(a) /\ Successors(a) \subseteq S

\* rd is dead at a: no execution from a reads it before writing it.
DeadAt(a) == \E S \in SUBSET Section : a \in S /\ Protects(S)

\* No conditional branch, or no relative transfer at all, to address 0.
NoBranchToZero ==
    \A a \in Section : prog[a].rel /\ prog[a].kind = "none" => prog[a].dest # 0
NoTransferToZero == \A a \in Section : prog[a].rel => prog[a].dest # 0

-------------------------------------------------------------------------------
\* The state is well formed; in particular the two fixed arrays of LIVE_PATHS
\* entries are never overrun and the cursor never passes the section's end.
TypeOK == /\ prog \in Programs
          /\ start \in Section
          /\ queue \in Seq(Nat)
          /\ Len(queue) <= LIVE_PATHS
          /\ seen \subseteq Nat
          /\ IsFiniteSet(seen)
          /\ Cardinality(seen) <= LIVE_PATHS
          /\ budget \in 0 .. LIVE_BUDGET
          /\ cursor \in Vaddr .. Vaddr + Size
          /\ pc \in {"pop", "walk", "done"}
          /\ verdict \in {"NONE", "READ", "DEAD", "UNKNOWN"}
          /\ (pc = "done") <=> (verdict # "NONE")

\* "DEAD" licenses a rewrite: when the walk answers it, no execution from the
\* queried address reads rd before writing it.  Programs with a conditional
\* branch to address 0 are excepted (relative_target has no other "none").
DeadIsSound == (verdict = "DEAD" /\ NoBranchToZero) => DeadAt(start)

\* The same without the exception, as riscvlint.h states it.  The walk breaks
\* this in a section placed at address 0, where 0 is a real destination.
DeadMeansDead == verdict = "DEAD" => DeadAt(start)

\* "READ" is never a guess: on no account of the program's paths is rd dead.
ReadIsSound == verdict = "READ" => ~DeadAt(start)

\* The walk declines only for a reason: a bound was reached, or rd really
\* cannot be shown dead because control goes where the section does not say.
UnknownIsJustified ==
    (verdict = "UNKNOWN" /\ NoTransferToZero) =>
        \/ budget = 0
        \/ Cardinality(seen) = LIVE_PATHS
        \/ Len(queue) = LIVE_PATHS
        \/ ~DeadAt(start)

\* Every query ends: the budget bounds the walk whatever loops the code has.
Terminates == <>(pc = "done")
===============================================================================
