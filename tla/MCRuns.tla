-------------------------------- MODULE MCRuns --------------------------------
(***************************************************************************)
(* Sections for Runs, with at most one side entry, relocation or rewrite   *)
(* that does not pay each.                                                 *)
(***************************************************************************)
EXTENDS Runs

MCIn(op, k, base, w) == [op |-> op, k |-> k, base |-> base, width |-> w]
MCAdj(k) == MCIn("adj", k, "sp", 1)
MCOther == MCIn("other", 0, "sp", 1)
MCSees == MCIn("sees", 0, "sp", 1)

\* Pushes and pops.
MCFolds == {MCAdj(-2), MCAdj(-1), MCAdj(1), MCAdj(2),
            MCIn("mem", 0, "sp", 1), MCOther, MCSees}
\* Zero stores that abut, overlap and leave gaps.
MCZeros == {MCIn("zero", k, "sp", 1) : k \in -1 .. 3}
              \cup {MCIn("zero", 0, "sp", 2), MCIn("zero", -2, "sp", 4),
                    MCIn("zero", 0, "fp", 1), MCOther}

MCCells == -12 .. 12

MCNotes ==
    {n \in [targets : {{}} \cup {{a} : a \in 2 .. Size},
            relocs : {{}} \cup {{a} : a \in 2 .. Size - 1},
            dear : {{}} \cup {{a} : a \in 1 .. Size - 1}] :
        Cardinality(n.targets) + Cardinality(n.relocs) + Cardinality(n.dear) <= 1}
MCCodes == [Addresses -> MCFolds]
              \cup {[z EXCEPT ![Size] = MCOther] : z \in [Addresses -> MCZeros]}
===============================================================================
