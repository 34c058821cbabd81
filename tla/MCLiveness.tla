------------------------------ MODULE MCLiveness ------------------------------
(***************************************************************************)
(* Small sections for Liveness.  Each program of the section's length over *)
(* the given instructions is an initial state.                             *)
(***************************************************************************)
EXTENDS Liveness

\* Destinations: every address of the section, the one after it, and 0.
MCDests == {0} \cup (Vaddr .. Vaddr + Size)

MCPlain(l, r, w) == [ok |-> TRUE, len |-> l, reads |-> r, writes |-> w,
                     kind |-> "none", rel |-> FALSE, dest |-> 0]

MCBad == [MCPlain(1, FALSE, FALSE) EXCEPT !.ok = FALSE]

MCTransfers(lens, kinds) ==
    {[MCPlain(l, FALSE, FALSE) EXCEPT !.kind = k, !.rel = TRUE, !.dest = d] :
        l \in lens, k \in kinds, d \in MCDests}

\* Plain instructions, branches and jumps of both lengths, and the ways a path
\* can end: a call, a return, an indirect jump, a halfword that is no
\* instruction.  Reading and writing instructions include transfers.
MCAllCode ==
    {MCPlain(l, FALSE, FALSE) : l \in {1, 2}}
        \cup {MCPlain(1, TRUE, TRUE), MCPlain(1, FALSE, TRUE)}
        \cup MCTransfers({1, 2}, {"none"})
        \cup MCTransfers({1}, {"uncond"})
        \cup {[MCPlain(1, FALSE, w) EXCEPT !.kind = k] :
                w \in BOOLEAN, k \in {"call", "ret", "uncond"}}
        \cup {MCBad}

\* One-halfword instructions only, for a longer section.
MCPathCode ==
    {MCPlain(1, FALSE, FALSE), MCPlain(1, TRUE, FALSE), MCPlain(1, FALSE, TRUE)}
        \cup MCTransfers({1}, {"none", "uncond"})
===============================================================================
