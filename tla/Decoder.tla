-------------------------------- MODULE Decoder --------------------------------
(***************************************************************************)
(* What the decode cache promises its readers: an instruction read at an   *)
(* address of the installed section is the one capstone decodes there,     *)
(* from that section's bytes, however many sections came before it and     *)
(* whatever was read in between.  There is no cache here.                  *)
(***************************************************************************)
EXTENDS Naturals

CONSTANTS
    Sections,   \* the sections a state can be given
    Nothing     \* no answer yet, or no section installed

VARIABLES
    section,    \* the installed section
    open,       \* whether it may be read
    answer      \* the last instruction handed out

vars == <<section, open, answer>>

\* One address asked about, and what capstone makes of it.
Truth(s, a) == [addr |-> a,
                ok   |-> s.code[a].ok,
                len  |-> IF s.code[a].ok THEN s.code[a].len ELSE 0,
                insn |-> IF s.code[a].ok THEN s.code[a].insn ELSE Nothing]

Init == /\ section = Nothing
        /\ open = FALSE
        /\ answer = Nothing

\* A section is installed, or the attempt fails and leaves nothing to read.
SetSection == /\ section' \in Sections
              /\ open' \in BOOLEAN
              /\ answer' = Nothing

Ask == /\ open
       /\ \E a \in DOMAIN section.code : answer' = Truth(section, a)
       /\ UNCHANGED <<section, open>>

Next == SetSection \/ Ask

Spec == Init /\ [][Next]_vars
===============================================================================
