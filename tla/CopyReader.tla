------------------------------ MODULE CopyReader ------------------------------
(***************************************************************************)
(* check_copy_for_reader over the decode cache.  The check keeps a pointer *)
(* to the reader's slot, asks riscvlint_liveness about the address after   *)
(* it, which decodes wherever control goes, and then prices and names the  *)
(* finding from the slot it kept.                                          *)
(***************************************************************************)
EXTENDS DecodeCache

VARIABLE reader     \* the address whose slot is kept, or Nothing

readerVars == <<vars, reader>>

ReaderInit == Init /\ reader = Nothing

\* live_decode found the reader, and its slot is kept.
KeepReader(a) == /\ reader = Nothing
                 /\ LiveDecode(a)
                 /\ answer'.ok
                 /\ reader' = a

\* One step of the liveness walk.
Walk(a) == /\ reader # Nothing
           /\ LiveDecode(a)
           /\ UNCHANGED reader

\* reader->len and reader->insn.mnemonic go into the finding.
Report == /\ reader # Nothing
          /\ LET d == dec[dec_slot(reader)]
             IN  Hand(reader, d.ok, d.len, d.insn)
          /\ reader' = Nothing
          /\ UNCHANGED <<section, phase, at, starts, dec, dec_cap, dec_gen, probe>>

\* Everything else happens with no reader kept.
Otherwise == /\ reader = Nothing
             /\ Next
             /\ UNCHANGED reader

ReaderNext == \/ \E a \in (IF section = Nothing THEN {} ELSE Addresses(section)) :
                    KeepReader(a) \/ Walk(a)
              \/ Report
              \/ Otherwise

ReaderSpec == ReaderInit /\ [][ReaderNext]_readerVars

-------------------------------------------------------------------------------
\* In a section the cache holds whole, the slot kept is still the reader's when
\* the finding is written, however far the liveness walk went.
ReaderStandsWhole == reader # Nothing /\ keep => dec_holds(reader)

\* The same of any section: evicting a slot costs a second decode and nothing
\* else.  A walk that reaches an address sharing the reader's slot breaks it.
ReaderStands == reader # Nothing => dec_holds(reader)
===============================================================================
