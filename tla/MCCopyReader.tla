----------------------------- MODULE MCCopyReader -----------------------------
(***************************************************************************)
(* CopyReader over the sections of SmallSections.                          *)
(***************************************************************************)
EXTENDS CopyReader, SmallSections
===============================================================================
