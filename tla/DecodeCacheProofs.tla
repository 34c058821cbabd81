--------------------------- MODULE DecodeCacheProofs ---------------------------
(***************************************************************************)
(* Proofs about DecodeCache, for any sections, any cache size and any      *)
(* width of the generation counter.  The inductive invariant says that no  *)
(* slot is of a generation still to come, so that moving the generation on *)
(* disowns every slot, and that a slot of the current one is faithful.     *)
(***************************************************************************)
EXTENDS CopyReader, Integers, TLAPS

CacheInv == TypeOK /\ NothingStale

\* The section a reader reads, and the slot its address maps to.
LEMMA SectionLemma ==
    ASSUME TypeOK, Readable, NEW a \in Addresses(section)
    PROVE  /\ section \in Sections
           /\ a \in Nat
           /\ section.code[a].ok \in BOOLEAN
           /\ section.code[a].len \in {1, 2}
           /\ section.code[a].insn \in Insns
           /\ dec_cap \in Nat \ {0}
           /\ dec_slot(a) \in 0 .. dec_cap - 1
           /\ dec[dec_slot(a)] \in Slot
           /\ dec_gen \in Nat
<1>1. section \in Sections /\ dec_cap > 0 /\ dec_cap \in Caps
  BY DEF TypeOK, Readable
<1>2. section.vaddr \in Nat /\ section.size \in Nat
  BY <1>1, DecodeCacheAssumption
<1>3. a \in Nat
  BY <1>2 DEF Addresses
<1>4. dec_cap \in Nat \ {0}
  BY <1>1, DecodeCacheAssumption DEF Caps
<1>5. dec_slot(a) \in 0 .. dec_cap - 1
  BY <1>3, <1>4 DEF dec_slot
<1>6. dec[dec_slot(a)] \in Slot
  BY <1>5 DEF TypeOK
<1>7. dec_gen \in Nat
  BY DecodeCacheAssumption DEF TypeOK
<1> QED
  BY <1>1, <1>3, <1>4, <1>5, <1>6, <1>7, DecodeCacheAssumption

\* What a reader works from is faithful, and of the current generation.
LEMMA LookedLemma ==
    ASSUME CacheInv, Readable, NEW a \in Addresses(section)
    PROVE  /\ Looked(a) \in Slot
           /\ Looked(a).addr = a
           /\ Looked(a).gen = dec_gen
           /\ Faithful(Looked(a))
<1> DEFINE d == dec[dec_slot(a)]
<1>0. /\ a \in Nat
      /\ section.code[a].ok \in BOOLEAN
      /\ section.code[a].len \in {1, 2}
      /\ section.code[a].insn \in Insns
      /\ dec_slot(a) \in 0 .. dec_cap - 1
      /\ d \in Slot
      /\ dec_gen \in Nat
  BY SectionLemma DEF CacheInv
<1>1. CASE dec_holds(a)
  BY <1>0, <1>1 DEF Looked, dec_holds, CacheInv, NothingStale
<1>2. CASE ~dec_holds(a)
  <2>1. Looked(a) = dec_fill(a)
    BY <1>2 DEF Looked
  <2>2. dec_fill(a) \in Slot
    BY <1>0 DEF dec_fill, cs_disasm_iter, Slot
  <2>3. Faithful(dec_fill(a)) /\ dec_fill(a).addr = a /\ dec_fill(a).gen = dec_gen
    BY <1>0 DEF dec_fill, cs_disasm_iter, Faithful, InSection
  <2> QED
    BY <2>1, <2>2, <2>3
<1> QED
  BY <1>1, <1>2

\* Keeping a faithful slot in its place keeps the invariant.
LEMMA KeepLemma ==
    ASSUME CacheInv, Readable, NEW a \in Addresses(section),
           NEW d \in Slot, d.addr = a, d.gen = dec_gen, Faithful(d),
           dec' = Keep(d),
           UNCHANGED <<section, dec_cap, dec_gen>>
    PROVE  /\ dec' \in [0 .. dec_cap - 1 -> Slot]
           /\ \A i \in 0 .. dec_cap - 1 : dec'[i].gen <= dec_gen
           /\ dec'[dec_slot(a)] = d
           /\ \A i \in 0 .. dec_cap - 1 : i # dec_slot(a) => dec'[i] = dec[i]
           /\ NothingStale'
<1>1. dec_slot(a) \in 0 .. dec_cap - 1 /\ dec_gen \in Nat
  BY SectionLemma DEF CacheInv
<1>2. dec \in [0 .. dec_cap - 1 -> Slot]
  BY DEF CacheInv, TypeOK
<1>3. dec' = [dec EXCEPT ![dec_slot(a)] = d]
  BY DEF Keep
<1>4. /\ dec'[dec_slot(a)] = d
      /\ \A i \in 0 .. dec_cap - 1 : i # dec_slot(a) => dec'[i] = dec[i]
  BY <1>1, <1>2, <1>3
<1>5. \A e : Faithful(e)' <=> Faithful(e)
  BY DEF Faithful, InSection
<1>6. ASSUME NEW i \in 0 .. dec_cap - 1, dec'[i].gen = dec_gen
      PROVE  i = dec_slot(dec'[i].addr) /\ Faithful(dec'[i])
  BY <1>1, <1>4, <1>6 DEF CacheInv, NothingStale
<1>7. NothingStale'
  BY <1>5, <1>6 DEF NothingStale, dec_slot
<1>8. \A i \in 0 .. dec_cap - 1 : dec'[i].gen <= dec_gen
  BY <1>1, <1>4 DEF CacheInv, TypeOK
<1> QED
  BY <1>1, <1>2, <1>3, <1>4, <1>7, <1>8

\* Emptying the cache disowns every slot, wrapped or not, grown or not.
LEMMA ReserveLemma ==
    ASSUME TypeOK, NEW want \in Caps, dec_reserve(want)
    PROVE  /\ dec_cap' \in Caps
           /\ dec_cap' \in Nat \ {0}
           /\ dec' \in [0 .. dec_cap' - 1 -> Slot]
           /\ dec_gen' \in 1 .. GEN_MOD - 1
           /\ \A i \in 0 .. dec_cap' - 1 : dec'[i].gen < dec_gen'
<1> DEFINE grown == IF want > dec_cap THEN want ELSE dec_cap
           gen   == (dec_gen + 1) % GEN_MOD
<1>1. EmptySlot \in Slot /\ EmptySlot.gen = 0
  BY DEF EmptySlot, Slot
<1>2. want \in Nat \ {0} /\ dec_cap \in Nat /\ dec_cap \in Caps \cup {0}
  BY DecodeCacheAssumption DEF Caps, TypeOK
<1>3. grown \in Nat \ {0} /\ grown \in Caps
  BY <1>2
<1>4. dec_gen \in 0 .. GEN_MOD - 1 /\ GEN_MOD \in Nat \ {0, 1}
  BY DecodeCacheAssumption DEF TypeOK
<1>5. gen = 0 \/ (gen = dec_gen + 1 /\ gen \in 1 .. GEN_MOD - 1)
  <2>1. CASE dec_gen + 1 < GEN_MOD
    BY <1>4, <2>1
  <2>2. CASE dec_gen + 1 = GEN_MOD
    BY <1>4, <2>2
  <2> QED
    BY <1>4, <2>1, <2>2
<1>6. /\ dec_cap' = grown
      /\ dec_gen' = IF gen = 0 THEN 1 ELSE gen
      /\ dec' = IF gen = 0
                THEN [j \in 0 .. grown - 1 |-> EmptySlot]
                ELSE IF want > dec_cap THEN [j \in 0 .. want - 1 |-> EmptySlot]
                                       ELSE dec
  BY DEF dec_reserve
<1>7. dec_gen' \in 1 .. GEN_MOD - 1
  BY <1>4, <1>5, <1>6
<1>8. CASE gen = 0 \/ want > dec_cap
  <2>1. dec' = [j \in 0 .. grown - 1 |-> EmptySlot]
    BY <1>6, <1>8
  <2> QED
    BY <1>1, <1>3, <1>6, <1>7, <2>1, DecodeCacheAssumption
<1>9. CASE gen # 0 /\ ~(want > dec_cap)
  <2>1. dec' = dec /\ dec_cap' = dec_cap /\ dec_gen' = dec_gen + 1
    BY <1>5, <1>6, <1>9
  <2>2. \A j \in 0 .. dec_cap - 1 : dec[j].gen \in Nat /\ dec[j].gen <= dec_gen
    BY DEF TypeOK, Slot
  <2>3. dec \in [0 .. dec_cap - 1 -> Slot]
    BY DEF TypeOK
  <2> QED
    BY <1>3, <1>4, <1>6, <1>7, <2>1, <2>2, <2>3
<1> QED
  BY <1>8, <1>9

LEMMA CacheInit == Init => CacheInv
<1> SUFFICES ASSUME Init PROVE CacheInv
  OBVIOUS
<1>1. TypeOK
  BY DecodeCacheAssumption DEF Init, TypeOK
<1>2. NothingStale
  BY DEF Init, NothingStale, Readable
<1> QED
  BY <1>1, <1>2 DEF CacheInv

\* What live_decode leaves in the slot is faithful, the facts included.
LiveSlot(a) ==
    LET d     == Looked(a)
        fresh == d.ok /\ ~d.walked
    IN  [d EXCEPT !.walked = d.walked \/ fresh,
                  !.facts = IF fresh THEN probe' ELSE d.facts]

LEMMA LiveLemma ==
    ASSUME CacheInv, NEW a \in Addresses(section), LiveDecode(a)
    PROVE  /\ Readable
           /\ probe' \in Insns \cup {Nothing}
           /\ LiveSlot(a) \in Slot
           /\ LiveSlot(a).addr = a
           /\ LiveSlot(a).gen = dec_gen
           /\ Faithful(LiveSlot(a))
           /\ dec' = Keep(LiveSlot(a))
           /\ LiveSlot(a).ok = section.code[a].ok
           /\ LiveSlot(a).ok => LiveSlot(a).facts = section.code[a].insn
           /\ answer' = [addr |-> a, ok |-> LiveSlot(a).ok,
                         len |-> LiveSlot(a).len,
                         insn |-> IF LiveSlot(a).ok THEN LiveSlot(a).facts
                                                    ELSE Nothing]
<1> DEFINE d     == Looked(a)
           fresh == d.ok /\ ~d.walked
           e     == LiveSlot(a)
<1>1. Readable
  BY DEF LiveDecode, Readable
<1>2. d \in Slot /\ d.addr = a /\ d.gen = dec_gen /\ Faithful(d)
  BY <1>1, LookedLemma
<1>3. section.code[a].insn \in Insns /\ probe \in Insns \cup {Nothing}
  BY <1>1, SectionLemma DEF CacheInv, TypeOK
<1>4. probe' = IF ~dec_holds(a) /\ section.code[a].ok
               THEN section.code[a].insn
               ELSE IF fresh THEN d.insn ELSE probe
  BY DEF LiveDecode, cs_disasm_iter
<1>5. fresh => probe' = d.insn
  BY <1>2, <1>4 DEF Faithful
<1>6. probe' \in Insns \cup {Nothing}
  BY <1>2, <1>3, <1>4 DEF Slot
<1>7. /\ e.addr = d.addr /\ e.gen = d.gen /\ e.ok = d.ok
      /\ e.len = d.len /\ e.insn = d.insn
      /\ e.walked = (d.walked \/ fresh)
      /\ e.facts = IF fresh THEN probe' ELSE d.facts
      /\ e \in Slot
  <2> HIDE DEF d
  <2>1. e = [d EXCEPT !.walked = d.walked \/ fresh,
                      !.facts = IF fresh THEN probe' ELSE d.facts]
    BY DEF LiveSlot, d
  <2> HIDE DEF e
  <2> QED
    BY <2>1, <1>2, <1>6 DEF Slot
<1>8. Faithful(e)
  BY <1>2, <1>5, <1>7 DEF Faithful
<1>9. e.ok => e.facts = section.code[a].insn
  BY <1>2, <1>5, <1>7 DEF Faithful
<1>10. e.ok = section.code[a].ok
  BY <1>2, <1>7 DEF Faithful
<1>11. /\ dec' = Keep(e)
       /\ answer' = [addr |-> a, ok |-> d.ok, len |-> d.len,
                     insn |-> IF d.ok THEN (IF fresh THEN probe' ELSE d.facts)
                                      ELSE Nothing]
  BY DEF LiveDecode, LiveSlot, Hand
<1> QED
  BY <1>1, <1>2, <1>6, <1>7, <1>8, <1>9, <1>10, <1>11

-------------------------------------------------------------------------------
\* Installing a section, or failing to, keeps the invariant.
LEMMA InstallStep ==
    ASSUME CacheInv, NEW s \in Sections, NEW want \in Caps,
           \/ SetSectionFailsEarly(s, want)
           \/ SetSectionFailsLate(s, want)
           \/ SetSection(s, want)
    PROVE  CacheInv' /\ Abstract!Next
<1>s. s # Nothing /\ s.vaddr \in Nat
  BY DecodeCacheAssumption
<1>1. CASE SetSectionFailsEarly(s, want)
  <2>1. TypeOK'
    BY <1>1, <1>s DEF SetSectionFailsEarly, CacheInv, TypeOK
  <2>2. NothingStale' /\ Readable' = FALSE
    BY <1>1 DEF SetSectionFailsEarly, NothingStale, Readable
  <2>3. Abstract!Next
    BY <1>1, <2>2 DEF SetSectionFailsEarly, Abstract!Next, Abstract!SetSection
  <2> QED
    BY <2>1, <2>2, <2>3 DEF CacheInv
<1>2. CASE SetSectionFailsLate(s, want) \/ SetSection(s, want)
  <2>1. dec_reserve(want) /\ starts' = {} /\ section' = s /\ answer' = Nothing
        /\ probe' = probe
    BY <1>2 DEF SetSectionFailsLate, SetSection
  <2>2. /\ phase' \in {"failed", "sweeping"}
        /\ at' \in Nat
    BY <1>2, <1>s DEF SetSectionFailsLate, SetSection, CacheInv, TypeOK
  <2>3. /\ dec_cap' \in Caps
        /\ dec_cap' \in Nat \ {0}
        /\ dec' \in [0 .. dec_cap' - 1 -> Slot]
        /\ dec_gen' \in 1 .. GEN_MOD - 1
        /\ \A j \in 0 .. dec_cap' - 1 : dec'[j].gen < dec_gen'
    BY <2>1, ReserveLemma DEF CacheInv
  <2>4. \A j \in 0 .. dec_cap' - 1 : dec'[j].gen \in Nat
    BY <2>3 DEF Slot
  <2>5. \A j \in 0 .. dec_cap' - 1 :
            dec'[j].gen <= dec_gen' /\ dec'[j].gen # dec_gen'
    BY <2>3, <2>4, DecodeCacheAssumption
  <2>p. probe' \in Insns \cup {Nothing}
    BY <2>1 DEF CacheInv, TypeOK
  <2>g. dec_gen' \in 0 .. GEN_MOD - 1 /\ dec_gen' > 0 /\ dec_cap' > 0
    BY <2>3, DecodeCacheAssumption
  <2>6. TypeOK'
    BY <1>s, <2>1, <2>2, <2>3, <2>5, <2>p, <2>g DEF TypeOK
  <2>7. NothingStale'
    BY <2>5 DEF NothingStale
  <2>8. Abstract!Next
    BY <2>1 DEF Abstract!Next, Abstract!SetSection, Readable
  <2> QED
    BY <2>6, <2>7, <2>8 DEF CacheInv
<1> QED
  BY <1>1, <1>2

\* dec_insn hands out what capstone decodes and keeps the invariant.
LEMMA DecInsnLemma ==
    ASSUME CacheInv, Readable, NEW a \in Addresses(section), dec_insn(a),
           UNCHANGED <<section, dec_cap, dec_gen>>
    PROVE  /\ dec' \in [0 .. dec_cap - 1 -> Slot]
           /\ \A i \in 0 .. dec_cap - 1 : dec'[i].gen <= dec_gen
           /\ dec_holds(a)'
           /\ \A i \in 0 .. dec_cap - 1 : i # dec_slot(a) => dec'[i] = dec[i]
           /\ NothingStale'
           /\ answer' = Abstract!Truth(section, a)
<1> DEFINE d == Looked(a)
<1>1. d \in Slot /\ d.addr = a /\ d.gen = dec_gen /\ Faithful(d)
  BY LookedLemma
<1>2. dec' = Keep(d)
  BY DEF dec_insn
<1>3. answer' = [addr |-> a, ok |-> d.ok, len |-> d.len,
                 insn |-> IF d.ok THEN d.insn ELSE Nothing]
  BY DEF dec_insn, Hand
<1> HIDE DEF d
<1>4. /\ dec' \in [0 .. dec_cap - 1 -> Slot]
      /\ \A i \in 0 .. dec_cap - 1 : dec'[i].gen <= dec_gen
      /\ dec'[dec_slot(a)] = d
      /\ \A i \in 0 .. dec_cap - 1 : i # dec_slot(a) => dec'[i] = dec[i]
      /\ NothingStale'
  BY <1>1, <1>2, KeepLemma
<1>5. dec_holds(a)'
  BY <1>1, <1>4 DEF dec_holds, dec_slot
<1>6. answer' = Abstract!Truth(section, a)
  BY <1>1, <1>3 DEF Abstract!Truth, Faithful
<1> QED
  BY <1>4, <1>5, <1>6

LEMMA SweepStep ==
    ASSUME CacheInv, Sweep
    PROVE  CacheInv' /\ Abstract!Next
<1>1. /\ Readable /\ Readable' /\ at \in Addresses(section)
      /\ UNCHANGED <<section, phase, dec_cap, dec_gen, probe>>
  BY DEF Sweep, Readable, InSection
<1>2. /\ section.code[at].ok \in BOOLEAN
      /\ section.code[at].len \in {1, 2}
      /\ at \in Nat
  BY <1>1, SectionLemma DEF CacheInv
<1>3. /\ dec' \in [0 .. dec_cap - 1 -> Slot]
      /\ \A i \in 0 .. dec_cap - 1 : dec'[i].gen <= dec_gen
      /\ NothingStale'
      /\ answer' = Abstract!Truth(section, at)
  <2>1. CASE keep
    BY <1>1, <2>1, DecInsnLemma DEF Sweep
  <2>2. CASE ~keep
    <3>1. dec' = dec
      BY <2>2 DEF Sweep
    <3>2. \A e : Faithful(e)' <=> Faithful(e)
      BY <1>1 DEF Faithful, InSection
    <3>3. NothingStale'
      BY <1>1, <3>1, <3>2 DEF CacheInv, NothingStale, dec_slot
    <3>4. answer' = Abstract!Truth(section, at)
      BY <2>2 DEF Sweep, Hand, cs_disasm_iter, Abstract!Truth
    <3> QED
      BY <3>1, <3>3, <3>4 DEF CacheInv, TypeOK
  <2> QED
    BY <2>1, <2>2
<1>4. /\ answer'.ok = section.code[at].ok
      /\ answer'.ok => answer'.len = section.code[at].len
  BY <1>3 DEF Abstract!Truth
<1>5. /\ at' = at + Past(answer')
      /\ starts' = IF answer'.ok THEN starts \cup {at} ELSE starts
  BY DEF Sweep
<1>6. at' \in Nat /\ starts' \subseteq Nat
  BY <1>2, <1>4, <1>5 DEF CacheInv, TypeOK, Past
<1>7. TypeOK'
  BY <1>1, <1>3, <1>6 DEF CacheInv, TypeOK
<1>8. Abstract!Next
  <2>1. at \in DOMAIN section.code
    BY <1>1, SectionLemma, DecodeCacheAssumption DEF CacheInv
  <2> QED
    BY <1>1, <1>3, <2>1 DEF Abstract!Next, Abstract!Ask
<1> QED
  BY <1>3, <1>7, <1>8 DEF CacheInv

LEMMA ReadStep ==
    ASSUME CacheInv, NEW a \in Addresses(section), ReadInsn(a) \/ LiveDecode(a)
    PROVE  CacheInv' /\ Abstract!Next
<1>1. /\ Readable /\ Readable'
      /\ UNCHANGED <<section, phase, at, starts, dec_cap, dec_gen>>
  BY DEF ReadInsn, LiveDecode, Readable
<1>2. /\ dec' \in [0 .. dec_cap - 1 -> Slot]
      /\ \A i \in 0 .. dec_cap - 1 : dec'[i].gen <= dec_gen
      /\ NothingStale'
      /\ answer' = Abstract!Truth(section, a)
      /\ probe' \in Insns \cup {Nothing}
  <2>1. CASE ReadInsn(a)
    <3>1. dec_insn(a) /\ probe' = probe
      BY <2>1 DEF ReadInsn
    <3> QED
      BY <1>1, <3>1, DecInsnLemma DEF CacheInv, TypeOK
  <2>2. CASE LiveDecode(a)
    <3> DEFINE d == LiveSlot(a)
    <3>1. /\ probe' \in Insns \cup {Nothing}
          /\ d \in Slot /\ d.addr = a /\ d.gen = dec_gen /\ Faithful(d)
          /\ dec' = Keep(d)
          /\ d.ok = section.code[a].ok
          /\ d.ok => d.facts = section.code[a].insn
          /\ answer' = [addr |-> a, ok |-> d.ok, len |-> d.len,
                        insn |-> IF d.ok THEN d.facts ELSE Nothing]
      BY <2>2, LiveLemma
    <3> HIDE DEF d
    <3>2. /\ dec' \in [0 .. dec_cap - 1 -> Slot]
          /\ \A i \in 0 .. dec_cap - 1 : dec'[i].gen <= dec_gen
          /\ NothingStale'
      BY <1>1, <3>1, KeepLemma
    <3>3. answer' = Abstract!Truth(section, a)
      BY <3>1 DEF Abstract!Truth, Faithful
    <3> QED
      BY <3>1, <3>2, <3>3
  <2> QED
    BY <2>1, <2>2
<1>3. TypeOK'
  BY <1>1, <1>2 DEF CacheInv, TypeOK
<1>4. Abstract!Next
  <2>1. a \in DOMAIN section.code
    BY <1>1, SectionLemma, DecodeCacheAssumption DEF CacheInv
  <2> QED
    BY <1>1, <1>2, <2>1 DEF Abstract!Next, Abstract!Ask
<1> QED
  BY <1>2, <1>3, <1>4 DEF CacheInv

\* Every step keeps the invariant, and is a step of the decoder or none.
LEMMA CacheStep ==
    CacheInv /\ [Next]_vars => CacheInv' /\ [Abstract!Next]_(Abstract!vars)
<1> SUFFICES ASSUME CacheInv, [Next]_vars
             PROVE  CacheInv' /\ [Abstract!Next]_(Abstract!vars)
  OBVIOUS
<1>1. ASSUME NEW s \in Sections, NEW want \in Caps,
             \/ SetSectionFailsEarly(s, want)
             \/ SetSectionFailsLate(s, want)
             \/ SetSection(s, want)
      PROVE  CacheInv' /\ Abstract!Next
  BY <1>1, InstallStep
<1>2. CASE Sweep
  BY <1>2, SweepStep
<1>3. CASE SweepEnds \/ UNCHANGED vars
  <2>1. /\ UNCHANGED <<section, dec, dec_cap, dec_gen, answer, at, starts, probe>>
        /\ Readable' = Readable
        /\ phase' = phase \/ (phase = "sweeping" /\ phase' = "ready")
    BY <1>3 DEF SweepEnds, vars, Readable
  <2>2. \A e : Faithful(e)' <=> Faithful(e)
    BY <2>1 DEF Faithful, InSection
  <2>3. NothingStale'
    BY <2>1, <2>2 DEF CacheInv, NothingStale, dec_slot
  <2>4. TypeOK'
    BY <2>1 DEF CacheInv, TypeOK
  <2>5. UNCHANGED Abstract!vars
    BY <2>1 DEF Abstract!vars
  <2> QED
    BY <2>3, <2>4, <2>5 DEF CacheInv
<1>4. ASSUME NEW a \in Addresses(section), ReadInsn(a) \/ LiveDecode(a)
      PROVE  CacheInv' /\ Abstract!Next
  BY <1>4, ReadStep
<1> QED
  BY <1>1, <1>2, <1>3, <1>4 DEF Next

LEMMA CacheAlways == Spec => []CacheInv
<1>1. CacheInv /\ [Next]_vars => CacheInv'
  BY CacheStep
<1> QED
  BY <1>1, CacheInit, PTL DEF Spec

\* As many slots as dec_cap says, none from the future, and a generation of its
\* own for each section, at any width of the counter.
THEOREM CacheTypeCorrect == Spec => []TypeOK
BY CacheAlways, PTL DEF CacheInv

\* Nothing decoded from an earlier section is served in a later one.
THEOREM NeverStale == Spec => []NothingStale
BY CacheAlways, PTL DEF CacheInv

\* The cache implements the decoder without one: every reader is handed what
\* capstone would have decoded.
THEOREM CacheTransparent == Spec => Transparent
<1>1. Init => Abstract!Init
  BY DEF Init, Abstract!Init, Readable
<1>2. CacheInv /\ [Next]_vars => [Abstract!Next]_(Abstract!vars)
  BY CacheStep
<1> QED
  BY <1>1, <1>2, CacheAlways, PTL DEF Spec, Abstract!Spec, Transparent

-------------------------------------------------------------------------------
\* A section no larger than the cache maps its addresses to slots one to one.
LEMMA OneToOne ==
    ASSUME NEW m \in Nat \ {0}, NEW v \in Nat, NEW n \in Nat, n <= m,
           NEW a \in v .. v + n - 1, NEW b \in v .. v + n - 1,
           a % m = b % m
    PROVE  a = b
<1>1. a = (m * (a \div m)) + (a % m) /\ b = (m * (b \div m)) + (b % m)
  OBVIOUS
<1>2. a \div m \in Int /\ b \div m \in Int /\ a - b \in Int
  OBVIOUS
<1>3. a - b < m /\ -m < a - b
  OBVIOUS
<1> DEFINE d == (a \div m) - (b \div m)
<1>4. a - b = m * d
  BY <1>1, <1>2
<1>5. d \in Int
  BY <1>2
<1> HIDE DEF d
<1>6. \A e \in Int : e >= 1 => m * e >= m
  OBVIOUS
<1>7. \A e \in Int : e <= -1 => m * e <= -m
  OBVIOUS
<1>8. d = 0
  BY <1>2, <1>3, <1>4, <1>5, <1>6, <1>7
<1> QED
  BY <1>4, <1>8

HeldInv == /\ Readable => starts \subseteq Addresses(section)
           /\ HeldWhole

\* One read, of an address in the section, evicts nothing from a section held whole.
LEMMA HeldRead ==
    ASSUME CacheInv, Readable, keep, NEW a \in Addresses(section),
           UNCHANGED <<dec_cap, dec_gen>>,
           dec_holds(a)',
           \A i \in 0 .. dec_cap - 1 : i # dec_slot(a) => dec'[i] = dec[i],
           NEW b \in Addresses(section), dec_holds(b)
    PROVE  dec_holds(b)'
<1>1. CASE dec_slot(b) = dec_slot(a)
  <2>1. /\ section.vaddr \in Nat /\ section.size \in Nat
        /\ dec_cap \in Nat \ {0}
    BY SectionLemma, DecodeCacheAssumption DEF CacheInv
  <2>2. a = b
    BY <1>1, <2>1, OneToOne DEF dec_slot, Addresses, keep
  <2> QED
    BY <2>2
<1>2. CASE dec_slot(b) # dec_slot(a)
  <2>1. dec_slot(b) \in 0 .. dec_cap - 1
    BY SectionLemma DEF CacheInv
  <2>2. dec'[dec_slot(b)] = dec[dec_slot(b)]
    BY <1>2, <2>1
  <2> QED
    BY <2>2 DEF dec_holds, dec_slot
<1> QED
  BY <1>1, <1>2

\* What a reader read is in its slot, and the other slots are as they were.
LEMMA ReadHolds ==
    ASSUME CacheInv, NEW a \in Addresses(section), ReadInsn(a) \/ LiveDecode(a)
    PROVE  /\ Readable /\ Readable'
           /\ UNCHANGED <<section, phase, starts, dec_cap, dec_gen>>
           /\ dec_holds(a)'
           /\ \A i \in 0 .. dec_cap - 1 : i # dec_slot(a) => dec'[i] = dec[i]
<1>1. /\ Readable /\ Readable'
      /\ UNCHANGED <<section, phase, starts, dec_cap, dec_gen>>
  BY DEF ReadInsn, LiveDecode, Readable
<1>2. CASE ReadInsn(a)
  <2>1. dec_insn(a)
    BY <1>2 DEF ReadInsn
  <2> QED
    BY <1>1, <2>1, DecInsnLemma
<1>3. CASE LiveDecode(a)
  <2> DEFINE d == LiveSlot(a)
  <2>1. d \in Slot /\ d.addr = a /\ d.gen = dec_gen /\ Faithful(d) /\ dec' = Keep(d)
    BY <1>3, LiveLemma
  <2> HIDE DEF d
  <2>2. /\ dec'[dec_slot(a)] = d
        /\ \A i \in 0 .. dec_cap - 1 : i # dec_slot(a) => dec'[i] = dec[i]
    BY <1>1, <2>1, KeepLemma
  <2> QED
    BY <1>1, <2>1, <2>2 DEF dec_holds, dec_slot
<1> QED
  BY <1>2, <1>3

LEMMA HeldStep == CacheInv /\ HeldInv /\ [Next]_vars => HeldInv'
<1> SUFFICES ASSUME CacheInv, HeldInv, [Next]_vars PROVE HeldInv'
  OBVIOUS
<1>1. ASSUME NEW s \in Sections, NEW want \in Caps,
             \/ SetSectionFailsEarly(s, want)
             \/ SetSectionFailsLate(s, want)
             \/ SetSection(s, want)
      PROVE  HeldInv'
  <2>1. starts' = {}
    BY <1>1 DEF SetSectionFailsEarly, SetSectionFailsLate, SetSection
  <2> QED
    BY <2>1 DEF HeldInv, HeldWhole
<1>2. CASE Sweep
  <2>1. /\ Readable /\ Readable' /\ at \in Addresses(section)
        /\ UNCHANGED <<section, dec_cap, dec_gen>>
        /\ starts' \subseteq starts \cup {at}
    BY <1>2 DEF Sweep, Readable, InSection
  <2>2. starts' \subseteq Addresses(section)'
    BY <2>1 DEF HeldInv
  <2>3. ASSUME keep PROVE \A b \in starts' : dec_holds(b)'
    <3>0. PICK here \in Addresses(section) : here = at
      BY <2>1
    <3>1. dec_insn(here)
      BY <1>2, <2>3, <3>0 DEF Sweep
    <3>2. /\ dec_holds(here)'
          /\ \A i \in 0 .. dec_cap - 1 : i # dec_slot(here) => dec'[i] = dec[i]
      BY <2>1, <3>1, DecInsnLemma
    <3>3. \A b \in starts : dec_holds(b)'
      BY <2>1, <2>3, <3>2, HeldRead DEF HeldInv, HeldWhole
    <3> QED
      BY <2>1, <3>0, <3>2, <3>3
  <2>4. keep' = keep
    BY <2>1 DEF keep
  <2> QED
    BY <2>2, <2>3, <2>4 DEF HeldInv, HeldWhole
<1>3. CASE SweepEnds \/ UNCHANGED vars
  <2>1. /\ UNCHANGED <<section, dec, dec_cap, dec_gen, starts>>
        /\ Readable' = Readable
    BY <1>3 DEF SweepEnds, vars, Readable
  <2>2. \A b : dec_holds(b)' <=> dec_holds(b)
    BY <2>1 DEF dec_holds, dec_slot
  <2> QED
    BY <2>1, <2>2 DEF HeldInv, HeldWhole, keep
<1>4. ASSUME NEW a \in Addresses(section), ReadInsn(a) \/ LiveDecode(a)
      PROVE  HeldInv'
  <2>1. /\ Readable /\ Readable'
        /\ UNCHANGED <<section, starts, dec_cap, dec_gen>>
        /\ dec_holds(a)'
        /\ \A i \in 0 .. dec_cap - 1 : i # dec_slot(a) => dec'[i] = dec[i]
    BY <1>4, ReadHolds
  <2>2. keep => \A b \in starts : dec_holds(b)'
    BY <2>1, HeldRead DEF HeldInv, HeldWhole
  <2> QED
    BY <2>1, <2>2 DEF HeldInv, HeldWhole, keep
<1> QED
  BY <1>1, <1>2, <1>3, <1>4 DEF Next

\* A section no larger than the cache keeps every instruction its sweep found,
\* so neither the scan nor a walk to one of them decodes it again.
THEOREM WholeSectionHeld == Spec => []HeldWhole
<1>1. Init => HeldInv
  BY DEF Init, HeldInv, HeldWhole, Readable
<1>2. HeldInv => HeldWhole
  BY DEF HeldInv
<1> QED
  BY <1>1, <1>2, HeldStep, CacheAlways, PTL DEF Spec

-------------------------------------------------------------------------------
(* The check that keeps the slot of a copy's reader while it asks about    *)
(* the code behind it (CopyReader).                                        *)

\* The reader was found in the section that is installed, and in one held whole its
\* slot is still its own.
ReaderInv == /\ reader # Nothing => Readable /\ reader \in Addresses(section)
             /\ ReaderStandsWhole

\* Every step of the check is one of the cache, or writes the finding.
LEMMA ReaderCacheStep ==
    CacheInv /\ [ReaderNext]_readerVars => CacheInv'
<1> SUFFICES ASSUME CacheInv, [ReaderNext]_readerVars PROVE CacheInv'
  OBVIOUS
<1>1. ASSUME NEW a \in Addresses(section), KeepReader(a) \/ Walk(a)
      PROVE  CacheInv'
  BY <1>1, ReadStep DEF KeepReader, Walk
<1>2. CASE Report \/ UNCHANGED readerVars
  <2>1. UNCHANGED <<section, phase, at, starts, dec, dec_cap, dec_gen, probe>>
    BY <1>2 DEF Report, readerVars, vars
  <2>2. \A e : Faithful(e)' <=> Faithful(e)
    BY <2>1 DEF Faithful, InSection
  <2>3. NothingStale'
    BY <2>1, <2>2 DEF CacheInv, NothingStale, dec_slot, Readable
  <2>4. TypeOK'
    BY <2>1 DEF CacheInv, TypeOK
  <2> QED
    BY <2>3, <2>4 DEF CacheInv
<1>3. CASE Otherwise
  BY <1>3, CacheStep DEF Otherwise
<1> QED
  BY <1>1, <1>2, <1>3 DEF ReaderNext

LEMMA ReaderStep ==
    CacheInv /\ ReaderInv /\ [ReaderNext]_readerVars => ReaderInv'
<1> SUFFICES ASSUME CacheInv, ReaderInv, [ReaderNext]_readerVars PROVE ReaderInv'
  OBVIOUS
<1>1. ASSUME NEW a \in Addresses(section), KeepReader(a)
      PROVE  ReaderInv'
  <2>1. Readable' /\ section' = section /\ dec_holds(a)' /\ reader' = a
    BY <1>1, ReadHolds DEF KeepReader
  <2> QED
    BY <2>1 DEF ReaderInv, ReaderStandsWhole
<1>2. ASSUME NEW a \in Addresses(section), Walk(a)
      PROVE  ReaderInv'
  <2>1. /\ Readable /\ Readable'
        /\ UNCHANGED <<section, dec_cap, dec_gen>>
        /\ dec_holds(a)'
        /\ \A i \in 0 .. dec_cap - 1 : i # dec_slot(a) => dec'[i] = dec[i]
    BY <1>2, ReadHolds DEF Walk
  <2>2. reader' = reader /\ reader # Nothing /\ reader \in Addresses(section)
    BY <1>2 DEF Walk, ReaderInv
  <2>3. keep' = keep
    BY <2>1 DEF keep
  <2>4. ASSUME keep PROVE dec_holds(reader)'
    <3>1. dec_holds(reader)
      BY <2>2, <2>4 DEF ReaderInv, ReaderStandsWhole
    <3>2. PICK r \in Addresses(section) : r = reader
      BY <2>2
    <3>3. dec_holds(r)'
      BY <2>1, <2>4, <3>1, <3>2, HeldRead
    <3> QED
      BY <2>2, <3>2, <3>3 DEF dec_holds, dec_slot
  <2> QED
    BY <2>1, <2>2, <2>3, <2>4 DEF ReaderInv, ReaderStandsWhole
<1>3. CASE Report \/ Otherwise
  <2>1. reader' = Nothing
    BY <1>3 DEF Report, Otherwise
  <2> QED
    BY <2>1 DEF ReaderInv, ReaderStandsWhole
<1>4. CASE UNCHANGED readerVars
  BY <1>4 DEF readerVars, vars, ReaderInv, ReaderStandsWhole, Readable, keep, dec_holds,
              dec_slot
<1> QED
  BY <1>1, <1>2, <1>3, <1>4 DEF ReaderNext

\* In a section the cache holds whole the pointer the check keeps to its reader's slot
\* is good until the finding is written, however far the liveness walk in between goes
\* (check_copy_for_reader).  In a larger section it need not be, and the run
\* CopyReaderEvicted shows it.
THEOREM ReaderSlotStands == ReaderSpec => []ReaderStandsWhole
<1>1. ReaderInit => CacheInv /\ ReaderInv
  BY CacheInit DEF ReaderInit, ReaderInv, ReaderStandsWhole
<1>2. ReaderInv => ReaderStandsWhole
  BY DEF ReaderInv
<1> QED
  BY <1>1, <1>2, ReaderCacheStep, ReaderStep, PTL DEF ReaderSpec
===============================================================================
