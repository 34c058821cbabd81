------------------------------ MODULE MCSpRestore ------------------------------
(***************************************************************************)
(* Small functions for SpRestore.                                          *)
(***************************************************************************)
EXTENDS SpRestore

MCIn(ops, ks, dests) == [op : ops, k : ks, dest : dests]

\* Frames of two sizes, everything that can disturb them, and side entries.
MCFrames == [Section ->
    MCIn({"setup", "restore"}, {1, 2}, {0})
        \cup MCIn({"moveSp", "writeFp", "plain", "bad", "ret"}, {1}, {0})
        \cup MCIn({"branch", "jump"}, {1}, {1, 3})]

\* A frame set up first, with a branch out of it and a jump back into it.
MCSideEntries == {p \in [Section -> MCIn({"setup", "restore", "moveSp"}, {1}, {0})
                            \cup MCIn({"branch"}, {1}, {3})
                            \cup MCIn({"jump"}, {1}, {1})] : p[0].op = "setup"}
===============================================================================
