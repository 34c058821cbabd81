------------------------------ MODULE SpRestore ------------------------------
(***************************************************************************)
(* check_redundant_sp_restore.  riscvlint_scan walks a section once, in    *)
(* address order, and the check carries the prologue addi s0,sp,K it last  *)
(* saw (state->fp) to the exit addi sp,s0,-K that it may make redundant.   *)
(* When the scan is over, the machine runs the function and is held to     *)
(* what the findings claim of it.                                          *)
(*                                                                         *)
(* One address per instruction.  The machine has sp and s0 only, counted   *)
(* modulo Words.  A callee hands both back as it found them.               *)
(***************************************************************************)
EXTENDS Integers

CONSTANTS
    Size,       \* instructions in the section
    Programs,   \* the functions scanned and run
    Words       \* values sp and s0 can have

Section == 0 .. Size - 1
Word == 0 .. Words - 1
Ops == {"setup",    \* addi s0,sp,k
        "restore",  \* addi sp,s0,-k
        "moveSp",   \* anything else that writes sp
        "writeFp",  \* anything else that writes s0
        "plain",    \* neither, calls included
        "branch", "jump", "ret",
        "bad"}      \* capstone cannot decode it

ASSUME SpRestoreAssumption ==
    /\ Size \in Nat \ {0}
    /\ Words \in Nat \ {0}
    /\ Programs \subseteq [Section -> [op : Ops, k : Word \ {0}, dest : Nat]]

VARIABLES
    prog,       \* the function
    at,         \* where the scan is
    armed, k, setup, spMoved,   \* state->fp
    findings,   \* the restores reported, with the setup each report names
    pc, sp, fp  \* the machine; pc is NotStarted until the scan is over

NotStarted == -1

carried == <<armed, k, setup, spMoved>>
machine == <<pc, sp, fp>>
vars == <<prog, at, carried, findings, machine>>

-------------------------------------------------------------------------------
\* riscvlint_state_set_section: the side entries, and nothing carried.
Transfers(a) == prog[a].op \in {"branch", "jump"}
Targets == {prog[a].dest : a \in {b \in Section : Transfers(b)}}
riscvlint_is_branch_target(a) == a \in Targets

Init == /\ prog \in Programs
        /\ at = 0
        /\ armed = FALSE /\ k = 0 /\ setup = 0 /\ spMoved = FALSE
        /\ findings = {}
        /\ pc = NotStarted
        /\ sp \in Word /\ fp \in Word

\* insn_writes, as far as capstone decodes.
WritesSp(in) == in.op \in {"restore", "moveSp"}
WritesFp(in) == in.op \in {"setup", "writeFp"}

\* Mutants: a side entry does not matter, a write of s0 does not matter.
RedundantAnywhere(in) == in.op = "restore" /\ armed /\ ~spMoved /\ in.k = k
Redundant(in) == /\ in.op = "restore" /\ armed /\ ~spMoved /\ in.k = k
                 /\ ~riscvlint_is_branch_target(at)
StillArmed(in) == in.op = "setup" \/ armed
ArmedAfter(in) == in.op = "setup" \/ (armed /\ ~WritesFp(in))

\* The check on one instruction: judged first, then carried forward.
Scan ==
    /\ at \in Section
    /\ LET in == prog[at]
       IN  /\ in.op # "bad"
           /\ findings' = IF Redundant(in) THEN findings \cup {<<setup, at>>}
                                           ELSE findings
           /\ armed' = ArmedAfter(in)
           /\ k' = IF in.op = "setup" THEN in.k ELSE k
           /\ setup' = IF in.op = "setup" THEN at ELSE setup
           /\ spMoved' = IF in.op = "setup" THEN FALSE ELSE spMoved \/ WritesSp(in)
    /\ at' = at + 1
    /\ UNCHANGED <<prog, machine>>

\* riscvlint_scan resynchronises and drops the window, which state->fp is not
\* part of.  Mutant: it resynchronises at twice the distance.
SkipWord == /\ at \in Section
            /\ prog[at].op = "bad"
            /\ at' = at + 2
            /\ UNCHANGED <<prog, carried, findings, machine>>
Skip == /\ at \in Section
        /\ prog[at].op = "bad"
        /\ at' = at + 1
        /\ UNCHANGED <<prog, carried, findings, machine>>

-------------------------------------------------------------------------------
\* The machine enters the function when the scan is over.
Start == /\ at = Size
         /\ pc = NotStarted
         /\ pc' = 0
         /\ UNCHANGED <<prog, at, carried, findings, sp, fp>>

Goes(in) == \/ in.op \notin {"jump", "ret"} /\ pc' = pc + 1
            \/ in.op \in {"jump", "branch"} /\ pc' = in.dest

Execute ==
    /\ pc \in Section
    /\ LET in == prog[pc]
       IN  /\ Goes(in)
           /\ sp' \in CASE in.op = "restore"         -> {(fp - in.k) % Words}
                        [] in.op \in {"moveSp", "bad"} -> Word
                        [] OTHER                     -> {sp}
           /\ fp' \in CASE in.op = "setup"            -> {(sp + in.k) % Words}
                        [] in.op \in {"writeFp", "bad"} -> Word
                        [] OTHER                     -> {fp}
    /\ UNCHANGED <<prog, at, carried, findings>>

Next == Scan \/ Skip \/ Start \/ Execute

Spec == Init /\ [][Next]_vars

-------------------------------------------------------------------------------
TypeOK == /\ prog \in Programs
          /\ at \in 0 .. Size
          /\ armed \in BOOLEAN /\ spMoved \in BOOLEAN
          /\ k \in Word /\ setup \in Section
          /\ findings \subseteq Section \X Section
          /\ pc \in Nat \cup {NotStarted}
          /\ sp \in Word /\ fp \in Word

\* Between the setup s and the restore r, in address order, nothing that decodes
\* writes sp or s0.
Undisturbed(s, r) ==
    \A a \in s + 1 .. r - 1 : ~WritesSp(prog[a]) /\ ~WritesFp(prog[a])

\* What a search backward from each restore would find: the carried prologue
\* loses none and invents none ("So the prologue is carried forward in the state
\* instead", riscvlint.h).
Matches(s, r) == /\ s < r
                 /\ prog[s].op = "setup" /\ prog[r].op = "restore"
                 /\ prog[s].k = prog[r].k
                 /\ Undisturbed(s, r)
                 /\ ~riscvlint_is_branch_target(r)
FindingsExact ==
    \A s, r \in Section : <<s, r>> \in findings <=> r < at /\ Matches(s, r)

\* The frame between s and r is entered at s only, and decodes throughout.
SingleEntry(s, r) == /\ \A a \in Section : Transfers(a) /\ prog[a].dest \in s + 1 .. r
                                            => a \in s .. r
                     /\ \A a \in s .. r : prog[a].op # "bad"

\* A restore that is reported assigns sp the value it already holds, whenever the
\* machine reaches it, where its frame is entered at the setup only.
RestoreIsRedundant ==
    \A s, r \in Section :
        <<s, r>> \in findings /\ pc = r /\ SingleEntry(s, r)
            => sp = (fp - prog[r].k) % Words

\* The same of every restore reported: "sp already holds s0-K".
EveryRestoreIsRedundant ==
    \A s, r \in Section :
        <<s, r>> \in findings /\ pc = r => sp = (fp - prog[r].k) % Words
===============================================================================
