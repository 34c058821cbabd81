----------------------------- MODULE MCDecodeCache -----------------------------
(***************************************************************************)
(* DecodeCache over the sections of SmallSections.                         *)
(***************************************************************************)
EXTENDS DecodeCache, SmallSections
===============================================================================
