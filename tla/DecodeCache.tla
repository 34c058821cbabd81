------------------------------ MODULE DecodeCache ------------------------------
(***************************************************************************)
(* The decode cache of a riscvlint_state: rvl_dec slots, direct-mapped on  *)
(* the address, tagged with the address and with the generation of the     *)
(* section they were filled in.  Installing a section never clears the     *)
(* slots; it moves the generation on, and clears them only when the        *)
(* generation counter wraps.                                               *)
(*                                                                         *)
(* Addresses count halfwords.  A section is its address, its size and what *)
(* capstone decodes at each of its addresses.  What a walk works out of an *)
(* instruction (kind, reads, writes, target) is a function of it, so the   *)
(* field "facts" of a slot is the instruction those were worked out from.  *)
(***************************************************************************)
EXTENDS Naturals

CONSTANTS
    Sections,   \* the sections the driver installs, one after the other
    Insns,      \* instructions
    Nothing,    \* no instruction, no section, no answer
    DEC_MAX,    \* most slots the cache has, a power of two
    GEN_MOD     \* values of the generation counter (2^32 in the code)

\* The sizes dec_reserve can ask for.
Caps == {c \in 1 .. DEC_MAX : \E k \in 0 .. DEC_MAX : c = 2^k}

Addresses(s) == s.vaddr .. s.vaddr + s.size - 1

ASSUME DecodeCacheAssumption ==
    /\ DEC_MAX \in Nat \ {0}
    /\ DEC_MAX \in Caps
    /\ GEN_MOD \in Nat \ {0, 1}
    /\ Nothing \notin Sections
    /\ \A s \in Sections :
        /\ s.vaddr \in Nat
        /\ s.size \in Nat
        /\ DOMAIN s.code = Addresses(s)
        /\ \A a \in Addresses(s) : /\ s.code[a].ok \in BOOLEAN
                                   /\ s.code[a].len \in {1, 2}
                                   /\ s.code[a].insn \in Insns

VARIABLES
    section,    \* state->code, size and vaddr
    phase,      \* "idle", "sweeping" (inside set_section), "ready", "failed"
    at,         \* where the sweep of set_section has got to
    starts,     \* where the sweep found an instruction
    dec,        \* the slots: [0 .. dec_cap - 1 -> Slot]
    dec_cap,    \* 0 before the first section
    dec_gen,
    probe,      \* the instruction in state->probe
    answer      \* what the last reader was handed

vars == <<section, phase, at, starts, dec, dec_cap, dec_gen, probe, answer>>

-------------------------------------------------------------------------------
EmptySlot == [addr |-> 0, gen |-> 0, ok |-> FALSE, len |-> 0,
              insn |-> Nothing, walked |-> FALSE, facts |-> Nothing]

\* capstone at address a of the installed section.
cs_disasm_iter(a) == section.code[a]

\* Mutant: neighbouring halfwords share a slot.
dec_slot_by_word(a) == (a \div 2) % dec_cap

dec_slot(a) == a % dec_cap

dec_holds(a) == /\ dec[dec_slot(a)].gen = dec_gen
                /\ dec[dec_slot(a)].addr = a

\* Mutant: what a walk worked out survives the refill.
dec_fill_keeps_facts(a) ==
    LET d == dec[dec_slot(a)]
        c == cs_disasm_iter(a)
    IN  [d EXCEPT !.addr = a, !.gen = dec_gen, !.ok = c.ok,
                  !.len = IF c.ok THEN c.len ELSE 0,
                  !.insn = IF c.ok THEN c.insn ELSE d.insn]

\* The slot of a after dec_fill: a failed decode leaves insn and facts alone.
dec_fill(a) ==
    LET d == dec[dec_slot(a)]
        c == cs_disasm_iter(a)
    IN  [addr   |-> a,
         gen    |-> dec_gen,
         ok     |-> c.ok,
         len    |-> IF c.ok THEN c.len ELSE 0,
         insn   |-> IF c.ok THEN c.insn ELSE d.insn,
         walked |-> FALSE,
         facts  |-> d.facts]

\* The slot a reader of address a works from.
Looked(a) == IF dec_holds(a) THEN dec[dec_slot(a)] ELSE dec_fill(a)

Keep(d) == [dec EXCEPT ![dec_slot(d.addr)] = d]

-------------------------------------------------------------------------------
Init == /\ section = Nothing
        /\ phase = "idle"
        /\ at = 0
        /\ starts = {}
        /\ dec = [i \in {} |-> EmptySlot]
        /\ dec_cap = 0
        /\ dec_gen = 0
        /\ probe = Nothing
        /\ answer = Nothing

\* The slots dec_reserve wants: the least power of two that gives each halfword
\* one, up to DEC_MAX.
Wants(s, want) ==
    /\ want \in Caps
    /\ want = DEC_MAX \/ want >= s.size
    /\ \A c \in Caps : c < want => c < s.size

\* Mutants: the generation counter wraps to 0, or wraps and leaves the slots.
dec_reserve_wraps(want) ==
    /\ dec_cap' = IF want > dec_cap THEN want ELSE dec_cap
    /\ dec_gen' = (dec_gen + 1) % GEN_MOD
    /\ dec' = IF want > dec_cap THEN [i \in 0 .. want - 1 |-> EmptySlot] ELSE dec
dec_reserve_keeps_slots(want) ==
    /\ dec_cap' = IF want > dec_cap THEN want ELSE dec_cap
    /\ dec_gen' = IF (dec_gen + 1) % GEN_MOD = 0 THEN 1 ELSE dec_gen + 1
    /\ dec' = IF want > dec_cap THEN [i \in 0 .. want - 1 |-> EmptySlot] ELSE dec

\* dec_reserve: grow the cache if the section needs it, then empty it.
dec_reserve(want) ==
    LET grown == IF want > dec_cap THEN want ELSE dec_cap
        slots == IF want > dec_cap THEN [i \in 0 .. want - 1 |-> EmptySlot]
                                   ELSE dec
        gen   == (dec_gen + 1) % GEN_MOD
    IN  /\ dec_cap' = grown
        /\ dec_gen' = IF gen = 0 THEN 1 ELSE gen
        /\ dec' = IF gen = 0 THEN [i \in 0 .. grown - 1 |-> EmptySlot]
                             ELSE slots

\* No memory for the probe or for a larger cache: the new section is in place
\* with the old generation, and set_section returns false.
SetSectionFailsEarly(s, want) ==
    /\ phase # "sweeping"
    /\ Wants(s, want)
    /\ want > dec_cap
    /\ section' = s
    /\ phase' = "failed"
    /\ starts' = {}
    /\ answer' = Nothing
    /\ UNCHANGED <<at, dec, dec_cap, dec_gen, probe>>

\* No memory for the bitmaps or the sweep's instruction.
SetSectionFailsLate(s, want) ==
    /\ phase # "sweeping"
    /\ Wants(s, want)
    /\ section' = s
    /\ phase' = "failed"
    /\ starts' = {}
    /\ answer' = Nothing
    /\ dec_reserve(want)
    /\ UNCHANGED <<at, probe>>

SetSection(s, want) ==
    /\ phase # "sweeping"
    /\ Wants(s, want)
    /\ section' = s
    /\ phase' = "sweeping"
    /\ at' = s.vaddr
    /\ starts' = {}
    /\ answer' = Nothing
    /\ dec_reserve(want)
    /\ UNCHANGED probe

-------------------------------------------------------------------------------
\* What a reader of address a is handed: ok, where the next instruction starts,
\* and the instruction (or what a walk needs of it).
Hand(a, ok, len, i) == answer' = [addr |-> a, ok |-> ok, len |-> len,
                                  insn |-> IF ok THEN i ELSE Nothing]

\* dec_insn, for riscvlint_scan, riscvlint_insn_at and the censuses.
dec_insn(a) ==
    LET d == Looked(a)
    IN  /\ dec' = Keep(d)
        /\ Hand(a, d.ok, d.len, d.insn)

\* set_section decodes the section into a cache that holds it whole, and past
\* one that does not.
keep == section.size <= dec_cap

InSection(a) == a \in Addresses(section)

\* How far the sweep moves on; the mutant stays where nothing decodes.
PastLength(r) == r.len
Past(r) == IF r.ok THEN r.len ELSE 1

Sweep ==
    /\ phase = "sweeping"
    /\ InSection(at)
    /\ IF keep
       THEN dec_insn(at)
       ELSE /\ Hand(at, cs_disasm_iter(at).ok,
                    IF cs_disasm_iter(at).ok THEN cs_disasm_iter(at).len ELSE 0,
                    cs_disasm_iter(at).insn)
            /\ dec' = dec
    /\ at' = at + Past(answer')
    /\ starts' = IF answer'.ok THEN starts \cup {at} ELSE starts
    /\ UNCHANGED <<section, phase, dec_cap, dec_gen, probe>>

SweepEnds == /\ phase = "sweeping"
             /\ ~InSection(at)
             /\ phase' = "ready"
             /\ UNCHANGED <<section, at, starts, dec, dec_cap, dec_gen, probe, answer>>

ReadInsn(a) == /\ phase = "ready"
               /\ InSection(a)
               /\ dec_insn(a)
               /\ UNCHANGED <<section, phase, at, starts, dec_cap, dec_gen, probe>>

\* live_decode: the facts of the instruction at a, worked out from state->probe
\* the first time a walk reaches the slot and kept there.
LiveDecode(a) ==
    /\ phase = "ready"
    /\ InSection(a)
    /\ LET d     == Looked(a)
           fresh == d.ok /\ ~d.walked
           facts == IF fresh THEN probe' ELSE d.facts
       IN  /\ probe' = IF ~dec_holds(a) /\ cs_disasm_iter(a).ok
                       THEN cs_disasm_iter(a).insn
                       ELSE IF fresh THEN d.insn ELSE probe
           /\ dec' = Keep([d EXCEPT !.walked = d.walked \/ fresh,
                                    !.facts = facts])
           /\ Hand(a, d.ok, d.len, facts)
    /\ UNCHANGED <<section, phase, at, starts, dec_cap, dec_gen>>

-------------------------------------------------------------------------------
Next == \/ \E s \in Sections, want \in Caps : \/ SetSectionFailsEarly(s, want)
                                              \/ SetSectionFailsLate(s, want)
                                              \/ SetSection(s, want)
        \/ Sweep
        \/ SweepEnds
        \/ section # Nothing /\ \E a \in Addresses(section) :
                \/ ReadInsn(a)
                \/ LiveDecode(a)

Spec == Init /\ [][Next]_vars

\* set_section and its sweep run to completion.
FairSpec == Spec /\ WF_vars(Sweep \/ SweepEnds)

-------------------------------------------------------------------------------
Slot == [addr : Nat, gen : Nat, ok : BOOLEAN, len : 0 .. 2,
         insn : Insns \cup {Nothing}, walked : BOOLEAN,
         facts : Insns \cup {Nothing}]

\* The state is well formed: as many slots as the power of two in dec_cap, no
\* slot from a generation still to come, and no generation 0 once slots exist.
TypeOK == /\ section \in Sections \cup {Nothing}
          /\ phase \in {"idle", "sweeping", "ready", "failed"}
          /\ phase \in {"sweeping", "ready"} => section # Nothing /\ dec_cap > 0
          /\ at \in Nat
          /\ starts \subseteq Nat
          /\ dec_cap \in Caps \cup {0}
          /\ dec \in [0 .. dec_cap - 1 -> Slot]
          /\ dec_gen \in 0 .. GEN_MOD - 1
          /\ dec_cap > 0 => dec_gen > 0
          /\ \A i \in 0 .. dec_cap - 1 : dec[i].gen <= dec_gen
          /\ probe \in Insns \cup {Nothing}

\* Slot d holds what capstone decodes at its address, and its facts, where it
\* has them, are of that same instruction.
Faithful(d) == /\ InSection(d.addr)
               /\ d.ok = section.code[d.addr].ok
               /\ d.ok => /\ d.len = section.code[d.addr].len
                         /\ d.insn = section.code[d.addr].insn
               /\ ~d.ok => d.len = 0 /\ ~d.walked
               /\ d.walked => d.facts = d.insn

Readable == phase \in {"sweeping", "ready"}

\* Nothing decoded from an earlier section is served in a later one, even when
\* the later one lies at the same addresses and the generation counter has
\* wrapped in between: while a section can be read, every slot of the current
\* generation holds what capstone decodes in that section.
NothingStale ==
    Readable => \A i \in 0 .. dec_cap - 1 :
        dec[i].gen = dec_gen => i = dec_slot(dec[i].addr) /\ Faithful(dec[i])

\* A section with no more halfwords than the cache has slots is held whole:
\* every instruction the sweep has found stays in its slot, whatever else is
\* read, so the scan decodes none of them again.
HeldWhole ==
    Readable /\ keep => \A a \in starts : dec_holds(a)

\* Every reader is handed what capstone would have decoded: the cache
\* implements the decoder that has none.
Abstract == INSTANCE Decoder WITH open <- Readable
Transparent == Abstract!Spec

\* set_section returns: its sweep gets past every halfword, decodable or not.
SweepFinishes == phase = "sweeping" ~> phase = "ready"
===============================================================================
