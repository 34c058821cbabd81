------------------------------ MODULE RunsProofs ------------------------------
(***************************************************************************)
(* The findings of Runs, in any section and for any limits: those of the   *)
(* stack-pointer runs never overlap, what they do to the section nobody    *)
(* can tell, and a zero run's cover is the least there is.                 *)
(***************************************************************************)
EXTENDS Runs, TLAPS, FiniteSetTheorems, WellFoundedInduction

LEMMA SizeLemma == Size \in Int /\ Size >= 1
BY RunsAssumption

\* A set of addresses has a last one.
LEMMA MaxLemma ==
    ASSUME NEW S \in SUBSET Addresses, S # {}
    PROVE  Max(S) \in S /\ \A y \in S : y <= Max(S)
<1> DEFINE T == {Size - y : y \in S}
           R == OpToRel(<, Nat)
<1>1. T \subseteq Nat /\ T # {}
  <2>1. \A y \in S : Size - y \in Nat
    BY SizeLemma DEF Addresses
  <2> QED
    BY <2>1
<1>2. IsWellFoundedOn(R, Nat)
  BY NatLessThanWellFounded
<1>3. PICK t \in T : \A u \in T : ~(<<u, t>> \in R)
  <2> HIDE DEF T, R
  <2> QED
    BY <1>1, <1>2, WFMin
<1>4. \A u \in T : ~(u < t)
  BY <1>1, <1>3 DEF OpToRel
<1>5. PICK x \in S : t = Size - x
  BY <1>3
<1>6. \A y \in S : x >= y
  <2>1. ASSUME NEW y \in S PROVE x >= y
    <3>1. ~(Size - y < Size - x)
      BY <1>4, <1>5
    <3> QED
      BY <3>1, SizeLemma DEF Addresses
  <2> QED
    BY <2>1
<1>7. \E z \in S : \A y \in S : z >= y
  BY <1>6
<1>8. Max(S) \in S /\ \A y \in S : Max(S) >= y
  BY <1>7 DEF Max
<1> QED
  BY <1>8, SizeLemma DEF Addresses

\* A run begins at its first instruction and has no gap; after the first, its
\* adjustments go one way.
LEMMA RunLemma ==
    ASSUME NEW s \in Section, NEW a \in Addresses, NEW dir \in {-1, 1}
    PROVE  /\ a \in Run(s, a, dir)
           /\ Run(s, a, dir) \subseteq a .. Size /\ Run(s, a, dir) \subseteq Addresses
           /\ \A q \in Run(s, a, dir) : \A p \in a .. q : p \in Run(s, a, dir)
           /\ \A q \in Run(s, a, dir) :
                 q # a /\ Adjust(s, q) => ~(dir * s.code[q].k <= 0)
<1>1. /\ a \in Run(s, a, dir)
      /\ Run(s, a, dir) \subseteq a .. Size /\ Run(s, a, dir) \subseteq Addresses
  BY SizeLemma DEF Run, Addresses
<1>2. \A q \in Run(s, a, dir) : \A p \in a .. q : p \in Run(s, a, dir)
  BY SizeLemma DEF Run, Addresses
<1>3. ASSUME NEW q \in Run(s, a, dir), q # a, Adjust(s, q)
      PROVE  ~(dir * s.code[q].k <= 0)
  <2>1. q \in a + 1 .. q /\ ~Ends(s, a, q, dir)
    BY <1>3, SizeLemma DEF Run, Addresses
  <2> QED
    BY <1>3, <2>1 DEF Ends
<1> QED
  BY <1>1, <1>2, <1>3

\* What a fold covers, and where its run ends.
LEMMA PushLemma ==
    ASSUME NEW s \in Section, NEW a \in Addresses, Adjust(s, a), s.code[a].k < 0
    PROVE  /\ DOMAIN Push(s, a) \subseteq a .. PushEnd(s, a) - 1
           /\ DOMAIN Push(s, a) \subseteq Addresses
           /\ PushEnd(s, a) \in a + 1 .. Size + 1
           /\ \A q \in DOMAIN Push(s, a) : \A p \in a .. q :
                 Adjust(s, p) => s.code[p].k < 0
<1> DEFINE S == {q \in Run(s, a, -1) : Adjust(s, q) \/ Access(s, q)}
<1>1. DOMAIN Push(s, a) = S /\ PushEnd(s, a) = Max(S) + 1
  BY DEF Push, PushEnd
<1>2. S \in SUBSET Addresses /\ a \in S
  BY RunLemma
<1>3. Max(S) \in S /\ \A y \in S : y <= Max(S)
  <2> HIDE DEF S
  <2> QED
    BY <1>2, MaxLemma
<1>4. S \subseteq a .. Size
  BY RunLemma
<1>5. ASSUME NEW q \in S, NEW p \in a .. q, Adjust(s, p) PROVE s.code[p].k < 0
  <2>1. CASE p = a
    BY <2>1
  <2>2. CASE p # a
    <3>1. p \in Run(s, a, -1)
      BY <1>5, RunLemma
    <3>2. ~((-1) * s.code[p].k <= 0) /\ p \in Addresses
      BY <1>5, <2>2, <3>1, RunLemma
    <3>3. s.code[p].k \in Int
      BY <3>2 DEF Section, Insn
    <3> QED
      BY <3>2, <3>3
  <2> QED
    BY <2>1, <2>2
<1>6. Max(S) \in a .. Size
  BY <1>3, <1>4
<1> HIDE DEF S
<1>7. /\ PushEnd(s, a) - 1 = Max(S) /\ PushEnd(s, a) \in a + 1 .. Size + 1
      /\ S \subseteq a .. Max(S) /\ S \subseteq Addresses
  BY <1>1, <1>2, <1>3, <1>4, <1>6, SizeLemma DEF Addresses
<1> QED
  BY <1>1, <1>5, <1>7

LEMMA ReleaseLemma ==
    ASSUME NEW s \in Section, NEW a \in Addresses, Adjust(s, a), s.code[a].k > 0
    PROVE  /\ DOMAIN Release(s, a) \subseteq a .. ReleaseEnd(s, a) - 1
           /\ DOMAIN Release(s, a) \subseteq Addresses
           /\ ReleaseEnd(s, a) \in a + 1 .. Size + 1
           /\ ReleaseEnd(s, a) - 1 = Max(Adjusts(s, a, 1))
           /\ Adjust(s, ReleaseEnd(s, a) - 1)
           /\ \A p \in a .. ReleaseEnd(s, a) - 1 :
                 Adjust(s, p) => s.code[p].k > 0
<1> DEFINE S == Adjusts(s, a, 1)
<1>1. /\ DOMAIN Release(s, a) \subseteq {q \in Run(s, a, 1) : q <= Max(S)}
      /\ ReleaseEnd(s, a) = Max(S) + 1
  BY DEF Release, ReleaseEnd
<1>2. S \in SUBSET Addresses /\ a \in S /\ S \subseteq Run(s, a, 1)
  BY RunLemma DEF Adjusts
<1>3. Max(S) \in S /\ \A y \in S : y <= Max(S)
  BY <1>2, MaxLemma
<1>4. Run(s, a, 1) \subseteq a .. Size
  BY RunLemma
<1>5. ASSUME NEW p \in a .. Max(S), Adjust(s, p) PROVE s.code[p].k > 0
  <2>1. CASE p = a
    BY <2>1
  <2>2. CASE p # a
    <3>1. p \in Run(s, a, 1)
      BY <1>2, <1>3, <1>5, RunLemma
    <3>2. ~(1 * s.code[p].k <= 0) /\ p \in Addresses
      BY <1>5, <2>2, <3>1, RunLemma
    <3>3. s.code[p].k \in Int
      BY <3>2 DEF Section, Insn
    <3> QED
      BY <3>2, <3>3
  <2> QED
    BY <2>1, <2>2
<1>6. Adjust(s, Max(S)) /\ Max(S) \in Int
  BY <1>2, <1>3 DEF Adjusts, Addresses
<1> HIDE DEF S
<1>7. ReleaseEnd(s, a) - 1 = Max(S)
  BY <1>1, <1>6
<1>8. DOMAIN Release(s, a) \subseteq a .. Max(S)
  BY <1>1, <1>4
<1>9. Max(S) \in a .. Size
  BY <1>2, <1>3, <1>4
<1>10. /\ DOMAIN Release(s, a) \subseteq Addresses
       /\ ReleaseEnd(s, a) \in a + 1 .. Size + 1
  BY <1>1, <1>6, <1>8, <1>9, SizeLemma DEF Addresses
<1> QED
  BY <1>5, <1>6, <1>7, <1>8, <1>10 DEF S

-------------------------------------------------------------------------------
\* What is known of each finding: it covers part of a run the check has judged,
\* which the watermarks are past.
IsPush(f, a) ==
    /\ a < at
    /\ DOMAIN f \subseteq a .. push_end - 1
    /\ \A q \in DOMAIN f : \A p \in a .. q : Adjust(sec, p) => sec.code[p].k < 0
    /\ Adjust(sec, a)
IsRelease(f, a) ==
    /\ a < at
    /\ DOMAIN f \subseteq a .. release_end - 1
    /\ \A q \in DOMAIN f : \A p \in a .. q : Adjust(sec, p) => sec.code[p].k > 0
    /\ Adjust(sec, a)
    /\ \A q \in DOMAIN f :
          q + 1 \in Addresses /\ Adjust(sec, q + 1) /\ sec.code[q + 1].k < 0
              => q = release_last \/ q < at
IsReserve(f, a) ==
    /\ a < at /\ a + 1 \in Addresses
    /\ DOMAIN f = {a, a + 1}
    /\ Adjust(sec, a) /\ sec.code[a].k > 0
    /\ Adjust(sec, a + 1) /\ sec.code[a + 1].k < 0
    /\ at = a + 1 => PushFound(sec, at, push_end) = {}

Findings ==
    \A f \in folds : /\ DOMAIN f \subseteq Addresses
                     /\ \E a \in Addresses : \/ IsPush(f, a) \/ IsRelease(f, a)
                                             \/ IsReserve(f, a)

IInv == TypeOK /\ Findings /\ FoldsDisjoint

LEMMA InvInit == Init => IInv
<1> SUFFICES ASSUME Init PROVE IInv
  OBVIOUS
<1>1. sec \in Section
  BY RunsAssumption DEF Init, Section, Note
<1> QED
  BY <1>1, SizeLemma DEF Init, IInv, TypeOK, Findings, FoldsDisjoint, Mark, Addresses, None,
      NotStarted

\* What Scan does to the watermarks.
LEMMA ZeroMark ==
    ASSUME TypeOK, Scan
    PROVE  /\ zrun_end' \in Mark
           /\ \A z \in zruns' : z.stores \subseteq Addresses
<1>1. at \in ZeroRun(sec, at) /\ ZeroRun(sec, at) \in SUBSET Addresses
  BY SizeLemma DEF ZeroRun, Scan, Addresses
<1>2. Max(ZeroRun(sec, at)) \in Addresses
  BY <1>1, MaxLemma
<1>3. zrun_end' \in Mark
  BY <1>2, SizeLemma DEF Scan, TypeOK, Mark, Addresses
<1>4. \A z \in ZeroFound(sec, at, zrun_end) : z.stores \subseteq Addresses
  BY <1>1 DEF ZeroFound, ZeroFinding
<1> QED
  BY <1>3, <1>4 DEF Scan, TypeOK

LEMMA FoldMarks ==
    ASSUME TypeOK, Scan
    PROVE  /\ at \in Addresses /\ at' = at + 1 /\ sec' = sec
           /\ push_end' \in Mark /\ push_end <= push_end'
           /\ release_end' \in Mark /\ release_end <= release_end'
<1>1. at \in Addresses /\ at' = at + 1 /\ sec' = sec /\ sec \in Section
  BY DEF Scan, TypeOK
<1>2. push_end' \in Mark /\ push_end <= push_end'
  <2>1. CASE Judges(sec, at, -1, push_end)
    <3>1. Adjust(sec, at) /\ (-1) * sec.code[at].k > 0 /\ at >= push_end
      BY <2>1 DEF Judges
    <3>2. sec.code[at].k \in Int
      BY <1>1 DEF Section, Insn
    <3>3. PushEnd(sec, at) \in at + 1 .. Size + 1
      BY <1>1, <3>1, <3>2, PushLemma
    <3> QED
      BY <1>1, <2>1, <3>1, <3>3, SizeLemma DEF Scan, Mark, Addresses, TypeOK
  <2>2. CASE ~Judges(sec, at, -1, push_end)
    BY <2>2, SizeLemma DEF Scan, TypeOK, Mark
  <2> QED
    BY <2>1, <2>2
<1>3. release_end' \in Mark /\ release_end <= release_end'
  <2>1. CASE Judges(sec, at, 1, release_end)
    <3>1. Adjust(sec, at) /\ 1 * sec.code[at].k > 0 /\ at >= release_end
      BY <2>1 DEF Judges
    <3>2. sec.code[at].k \in Int
      BY <1>1 DEF Section, Insn
    <3>3. ReleaseEnd(sec, at) \in at + 1 .. Size + 1
      BY <1>1, <3>1, <3>2, ReleaseLemma
    <3> QED
      BY <1>1, <2>1, <3>1, <3>3, SizeLemma DEF Scan, Mark, Addresses, TypeOK
  <2>2. CASE ~Judges(sec, at, 1, release_end)
    BY <2>2, SizeLemma DEF Scan, TypeOK, Mark
  <2> QED
    BY <2>1, <2>2
<1> QED
  BY <1>1, <1>2, <1>3


\* The three kinds of new finding.
LEMMA NewPush ==
    ASSUME TypeOK, Scan, NEW a, a = at, NEW f \in PushFound(sec, a, push_end)
    PROVE  /\ f = Push(sec, a) /\ IsPush(f, a)'
           /\ Adjust(sec, a) /\ sec.code[a].k < 0 /\ a >= push_end
           /\ DOMAIN f \subseteq Addresses /\ DOMAIN f \subseteq a .. Size
<1>1. a \in Addresses /\ at' = a + 1 /\ sec' = sec /\ sec \in Section
  BY FoldMarks DEF TypeOK
<1>2. f = Push(sec, a) /\ Judges(sec, a, -1, push_end)
  BY DEF PushFound
<1>3. sec.code[a].k \in Int
  BY <1>1 DEF Section, Insn
<1>4. Adjust(sec, a) /\ sec.code[a].k < 0 /\ a >= push_end
  BY <1>2, <1>3 DEF Judges
<1>5. push_end' = PushEnd(sec, a)
  BY <1>2 DEF Scan
<1>6. /\ DOMAIN Push(sec, a) \subseteq a .. PushEnd(sec, a) - 1
      /\ DOMAIN Push(sec, a) \subseteq Addresses
      /\ PushEnd(sec, a) \in a + 1 .. Size + 1
      /\ \A q \in DOMAIN Push(sec, a) : \A p \in a .. q :
            Adjust(sec, p) => sec.code[p].k < 0
  BY <1>1, <1>4, PushLemma
<1>7. a < a + 1 /\ DOMAIN f \subseteq a .. Size
  BY <1>1, <1>2, <1>6, SizeLemma DEF Addresses
<1>8. IsPush(f, a)'
  BY <1>1, <1>2, <1>4, <1>5, <1>6, <1>7 DEF IsPush, Adjust
<1> QED
  BY <1>2, <1>4, <1>6, <1>7, <1>8

LEMMA NewRelease ==
    ASSUME TypeOK, Scan, NEW a, a = at, NEW f \in ReleaseFound(sec, a, release_end)
    PROVE  /\ f = Release(sec, a) /\ IsRelease(f, a)'
           /\ Adjust(sec, a) /\ sec.code[a].k > 0 /\ a >= release_end
           /\ DOMAIN f \subseteq Addresses /\ DOMAIN f \subseteq a .. Size
           /\ a + 1 \in Addresses /\ Adjust(sec, a + 1) /\ sec.code[a + 1].k < 0
                 => release_last' = a
<1>1. a \in Addresses /\ at' = a + 1 /\ sec' = sec /\ sec \in Section
  BY FoldMarks DEF TypeOK
<1>2. f = Release(sec, a) /\ Judges(sec, a, 1, release_end)
  BY DEF ReleaseFound
<1>3. sec.code[a].k \in Int
  BY <1>1 DEF Section, Insn
<1>4. Adjust(sec, a) /\ sec.code[a].k > 0 /\ a >= release_end
  BY <1>2, <1>3 DEF Judges
<1> DEFINE end == ReleaseEnd(sec, a)
<1>5. /\ DOMAIN Release(sec, a) \subseteq a .. end - 1
      /\ DOMAIN Release(sec, a) \subseteq Addresses
      /\ end \in a + 1 .. Size + 1
      /\ end - 1 = Max(Adjusts(sec, a, 1))
      /\ \A p \in a .. end - 1 : Adjust(sec, p) => sec.code[p].k > 0
  BY <1>1, <1>4, ReleaseLemma
<1>6. release_end' = end /\ release_last' = end - 1
  BY <1>2, <1>5 DEF Scan, ReleaseLast
<1> HIDE DEF end
<1>7. a < a + 1 /\ DOMAIN f \subseteq a .. Size
  BY <1>1, <1>2, <1>5, SizeLemma DEF Addresses
<1>8. ASSUME NEW q \in a .. end - 1, q + 1 \in Addresses,
             Adjust(sec, q + 1), sec.code[q + 1].k < 0
      PROVE  q = release_last'
  <2>1. CASE q < end - 1
    <3>1. q + 1 \in a .. end - 1
      BY <1>1, <1>5, <2>1 DEF Addresses
    <3>2. sec.code[q + 1].k \in Int
      BY <1>1, <1>8 DEF Section, Insn
    <3> QED
      BY <1>5, <1>8, <3>1, <3>2
  <2>2. CASE ~(q < end - 1)
    BY <1>1, <1>5, <1>6, <2>2, SizeLemma DEF Addresses
  <2> QED
    BY <2>1, <2>2
<1>9. \A q \in DOMAIN f : \A p \in a .. q : Adjust(sec, p) => sec.code[p].k > 0
  BY <1>1, <1>2, <1>5 DEF Addresses
<1>10. IsRelease(f, a)'
  BY <1>1, <1>2, <1>4, <1>5, <1>6, <1>7, <1>8, <1>9 DEF IsRelease, Adjust
<1>11. a \in a .. end - 1
  BY <1>1, <1>5 DEF Addresses
<1> QED
  BY <1>2, <1>4, <1>5, <1>7, <1>8, <1>10, <1>11

LEMMA NewReserve ==
    ASSUME TypeOK, Scan, NEW a, a = at,
           NEW f \in ReserveFound(sec, a, push_end', release_last')
    PROVE  /\ f = Reserve(sec, a) /\ IsReserve(f, a)' /\ DOMAIN f = {a, a + 1}
           /\ a + 1 \in Addresses /\ Adjust(sec, a) /\ sec.code[a].k > 0
           /\ Adjust(sec, a + 1) /\ sec.code[a + 1].k < 0
           /\ a # release_last'
<1>1. a \in Addresses /\ at' = a + 1 /\ sec' = sec
  BY FoldMarks
<1>2. /\ f = Reserve(sec, a)
      /\ a + 1 \in Addresses /\ Adjust(sec, a) /\ sec.code[a].k > 0
      /\ Adjust(sec, a + 1) /\ sec.code[a + 1].k < 0
      /\ a # release_last' /\ PushFound(sec, a + 1, push_end') = {}
  BY DEF ReserveFound
<1>3. DOMAIN f = {a, a + 1} /\ a < a + 1
  BY <1>1, <1>2 DEF Reserve, Addresses
<1>4. PushFound(sec, at, push_end)' = {}
  BY <1>1, <1>2
<1> QED
  BY <1>1, <1>2, <1>3, <1>4 DEF IsReserve, Adjust

\* A finding stays what it is.
LEMMA OldStays ==
    ASSUME TypeOK, Scan, NEW a \in Addresses, NEW f, DOMAIN f \subseteq Addresses
    PROVE  /\ IsPush(f, a) => IsPush(f, a)'
           /\ IsRelease(f, a) => IsRelease(f, a)'
           /\ IsReserve(f, a) => IsReserve(f, a)'
<1>1. /\ at \in Addresses /\ at' = at + 1 /\ sec' = sec
      /\ push_end \in Mark /\ push_end' \in Mark /\ push_end <= push_end'
      /\ release_end \in Mark /\ release_end' \in Mark /\ release_end <= release_end'
  BY FoldMarks DEF TypeOK
<1>2. IsPush(f, a) => IsPush(f, a)'
  BY <1>1 DEF IsPush, Adjust, Mark, Addresses
<1>3. IsReserve(f, a) => IsReserve(f, a)'
  BY <1>1 DEF IsReserve, Adjust, Addresses
<1>4. ASSUME IsRelease(f, a) PROVE IsRelease(f, a)'
  <2>1. ASSUME NEW q \in DOMAIN f, q = release_last
        PROVE  q = release_last' \/ q < at + 1
    <3>1. CASE ReleaseFound(sec, at, release_end) = {}
      BY <2>1, <3>1 DEF Scan, ReleaseLast
    <3>2. CASE ReleaseFound(sec, at, release_end) # {}
      <4>1. at >= release_end
        BY <3>2 DEF ReleaseFound, Judges
      <4>2. q \in a .. release_end - 1
        BY <1>4, <2>1 DEF IsRelease
      <4> QED
        BY <1>1, <4>1, <4>2 DEF Mark, Addresses
    <3> QED
      BY <3>1, <3>2
  <2>2. \A q \in DOMAIN f : q < at => q < at + 1
    BY <1>1 DEF Addresses
  <2>3. DOMAIN f \subseteq a .. release_end' - 1 /\ a < at + 1
    BY <1>1, <1>4 DEF IsRelease, Mark, Addresses
  <2> QED
    BY <1>1, <1>4, <2>1, <2>2, <2>3 DEF IsRelease, Adjust
<1> QED
  BY <1>2, <1>3, <1>4

\* A finding at one address leaves no room for another there.
LEMMA OneFinding ==
    ASSUME TypeOK, Scan, NEW a, a = at,
           NEW f \in PushFound(sec, a, push_end) \cup ReleaseFound(sec, a, release_end)
                       \cup ReserveFound(sec, a, push_end', release_last'),
           NEW g \in PushFound(sec, a, push_end) \cup ReleaseFound(sec, a, release_end)
                       \cup ReserveFound(sec, a, push_end', release_last')
    PROVE  f = g
<1>1. sec.code[a].k \in Int
  BY FoldMarks DEF TypeOK, Section, Insn
<1>2. \A h \in PushFound(sec, a, push_end) : h = Push(sec, a) /\ sec.code[a].k < 0
  BY NewPush
<1>3. \A h \in ReleaseFound(sec, a, release_end) :
          /\ h = Release(sec, a) /\ sec.code[a].k > 0
          /\ a + 1 \in Addresses /\ Adjust(sec, a + 1) /\ sec.code[a + 1].k < 0
                => release_last' = a
  BY NewRelease
<1>4. \A h \in ReserveFound(sec, a, push_end', release_last') :
          /\ h = Reserve(sec, a) /\ sec.code[a].k > 0
          /\ a + 1 \in Addresses /\ Adjust(sec, a + 1) /\ sec.code[a + 1].k < 0
          /\ a # release_last'
  BY NewReserve
<1> QED
  BY <1>1, <1>2, <1>3, <1>4

\* A finding shares no instruction with an earlier one.
LEMMA NewApart ==
    ASSUME TypeOK, Scan, NEW a, a = at,
           NEW b \in Addresses, NEW f, DOMAIN f \subseteq Addresses,
           IsPush(f, b) \/ IsRelease(f, b) \/ IsReserve(f, b),
           NEW g \in PushFound(sec, a, push_end) \cup ReleaseFound(sec, a, release_end)
                       \cup ReserveFound(sec, a, push_end', release_last')
    PROVE  DOMAIN f \cap DOMAIN g = {}
<1>1. /\ a \in Addresses /\ b < a /\ sec \in Section
      /\ push_end \in Mark /\ release_end \in Mark
  BY FoldMarks DEF TypeOK, IsPush, IsRelease, IsReserve
<1>2. sec.code[a].k \in Int
  BY <1>1 DEF Section, Insn
<1> SUFFICES ASSUME NEW x \in DOMAIN f, x \in DOMAIN g PROVE FALSE
  OBVIOUS
<1>3. x \in Addresses
  OBVIOUS
<1>4. IsReserve(f, b) => x = b \/ x = b + 1
  BY DEF IsReserve
<1>5. CASE g \in PushFound(sec, a, push_end)
  <2>1. /\ Adjust(sec, a) /\ sec.code[a].k < 0 /\ a >= push_end
        /\ DOMAIN g \subseteq a .. Size
    BY <1>5, NewPush
  <2>2. x >= a /\ a \in b .. x
    BY <1>1, <1>3, <2>1, SizeLemma DEF Addresses
  <2>3. CASE IsPush(f, b)
    BY <1>1, <1>3, <2>1, <2>2, <2>3, SizeLemma DEF IsPush, Mark, Addresses
  <2>4. CASE IsRelease(f, b)
    <3>1. sec.code[a].k > 0
      BY <2>1, <2>2, <2>4 DEF IsRelease
    <3> QED
      BY <1>2, <2>1, <3>1
  <2>5. CASE IsReserve(f, b)
    <3>1. a = b + 1
      BY <1>1, <1>3, <1>4, <2>2, <2>5, SizeLemma DEF Addresses
    <3> QED
      BY <1>5, <2>5, <3>1 DEF IsReserve
  <2> QED
    BY <2>3, <2>4, <2>5
<1>6. CASE g \in ReleaseFound(sec, a, release_end)
  <2>1. /\ Adjust(sec, a) /\ sec.code[a].k > 0 /\ a >= release_end
        /\ DOMAIN g \subseteq a .. Size
    BY <1>6, NewRelease
  <2>2. x >= a /\ a \in b .. x
    BY <1>1, <1>3, <2>1, SizeLemma DEF Addresses
  <2>3. CASE IsPush(f, b)
    <3>1. sec.code[a].k < 0
      BY <2>1, <2>2, <2>3 DEF IsPush
    <3> QED
      BY <1>2, <2>1, <3>1
  <2>4. CASE IsRelease(f, b)
    BY <1>1, <1>3, <2>1, <2>2, <2>4, SizeLemma DEF IsRelease, Mark, Addresses
  <2>5. CASE IsReserve(f, b)
    <3>1. a = b + 1
      BY <1>1, <1>3, <1>4, <2>2, <2>5, SizeLemma DEF Addresses
    <3>2. sec.code[a].k < 0
      BY <2>5, <3>1 DEF IsReserve
    <3> QED
      BY <1>2, <2>1, <3>2
  <2> QED
    BY <2>3, <2>4, <2>5
<1>7. CASE g \in ReserveFound(sec, a, push_end', release_last')
  <2>1. /\ Adjust(sec, a) /\ sec.code[a].k > 0 /\ a + 1 \in Addresses
        /\ Adjust(sec, a + 1) /\ sec.code[a + 1].k < 0
        /\ a # release_last' /\ DOMAIN g = {a, a + 1}
    BY <1>7, NewReserve
  <2>2. (x = a \/ x = a + 1) /\ a \in b .. x
    BY <1>1, <2>1, SizeLemma DEF Addresses
  <2>3. CASE IsPush(f, b)
    <3>1. sec.code[a].k < 0
      BY <2>1, <2>2, <2>3 DEF IsPush
    <3> QED
      BY <1>2, <2>1, <3>1
  <2>4. CASE IsRelease(f, b)
    <3>1. CASE x = a
      <4>1. a = release_last
        BY <1>1, <2>1, <2>4, <3>1, SizeLemma DEF IsRelease, Addresses
      <4>2. ~(a >= release_end)
        BY <1>1, <2>4, <3>1, SizeLemma DEF IsRelease, Mark, Addresses
      <4>3. release_last' = release_last
        BY <4>2 DEF Scan, ReleaseLast, ReleaseFound, Judges
      <4> QED
        BY <2>1, <4>1, <4>3
    <3>2. CASE x = a + 1
      <4>1. a + 1 \in b .. x
        BY <1>1, <3>2, SizeLemma DEF Addresses
      <4>2. sec.code[a + 1].k > 0
        BY <2>1, <2>4, <4>1 DEF IsRelease
      <4>3. sec.code[a + 1].k \in Int
        BY <1>1, <2>1 DEF Section, Insn
      <4> QED
        BY <2>1, <4>2, <4>3
    <3> QED
      BY <2>2, <3>1, <3>2
  <2>5. CASE IsReserve(f, b)
    <3>1. a = b + 1
      BY <1>1, <1>3, <1>4, <2>2, <2>5, SizeLemma DEF Addresses
    <3>2. sec.code[a].k < 0
      BY <2>5, <3>1 DEF IsReserve
    <3> QED
      BY <1>2, <2>1, <3>2
  <2> QED
    BY <2>3, <2>4, <2>5
<1> QED
  BY <1>5, <1>6, <1>7

\* The scan keeps the invariant.
LEMMA ScanKeeps == ASSUME IInv, Scan PROVE IInv'
<1> DEFINE new(a) == PushFound(sec, a, push_end) \cup ReleaseFound(sec, a, release_end)
                        \cup ReserveFound(sec, a, push_end', release_last')
<1>1. TypeOK /\ Findings /\ FoldsDisjoint
  BY DEF IInv
<1>2. PICK a \in Addresses : a = at
  BY <1>1, FoldMarks
<1>3. folds' = folds \cup new(a)
  BY <1>2 DEF Scan
<1>4. ASSUME NEW g \in new(a)
      PROVE  /\ DOMAIN g \subseteq Addresses
             /\ IsPush(g, a)' \/ IsRelease(g, a)' \/ IsReserve(g, a)'
  <2>1. CASE g \in PushFound(sec, a, push_end)
    BY <1>1, <1>2, <2>1, NewPush
  <2>2. CASE g \in ReleaseFound(sec, a, release_end)
    BY <1>1, <1>2, <2>2, NewRelease
  <2>3. CASE g \in ReserveFound(sec, a, push_end', release_last')
    <3>1. IsReserve(g, a)' /\ DOMAIN g = {a, a + 1} /\ a + 1 \in Addresses
      BY <1>1, <1>2, <2>3, NewReserve
    <3> QED
      BY <1>2, <3>1
  <2> QED
    BY <1>4, <2>1, <2>2, <2>3
<1>5. ASSUME NEW f \in folds
      PROVE  /\ DOMAIN f \subseteq Addresses
             /\ \E b \in Addresses : IsPush(f, b)' \/ IsRelease(f, b)' \/ IsReserve(f, b)'
             /\ \A g \in new(a) : DOMAIN f \cap DOMAIN g = {}
  <2>1. DOMAIN f \subseteq Addresses
    BY <1>1, <1>5 DEF Findings
  <2>2. PICK b \in Addresses : IsPush(f, b) \/ IsRelease(f, b) \/ IsReserve(f, b)
    BY <1>1, <1>5 DEF Findings
  <2>3. IsPush(f, b)' \/ IsRelease(f, b)' \/ IsReserve(f, b)'
    BY <1>1, <2>1, <2>2, OldStays
  <2>4. \A g \in new(a) : DOMAIN f \cap DOMAIN g = {}
    BY <1>1, <1>2, <2>1, <2>2, NewApart
  <2> QED
    BY <2>1, <2>3, <2>4
<1>6. \A f, g \in new(a) : f = g
  BY <1>1, <1>2, OneFinding
<1> HIDE DEF new
<1>7. Findings'
  BY <1>3, <1>4, <1>5 DEF Findings
<1>8. FoldsDisjoint'
  BY <1>1, <1>3, <1>5, <1>6 DEF FoldsDisjoint
<1>9. release_last' \in Addresses \cup {None}
  <2>1. CASE ReleaseFound(sec, at, release_end) = {}
    BY <1>1, <2>1 DEF Scan, ReleaseLast, TypeOK
  <2>2. CASE ReleaseFound(sec, at, release_end) # {}
    <3>1. Judges(sec, a, 1, release_end)
      BY <1>2, <2>2 DEF ReleaseFound
    <3>2. sec \in Section
      BY <1>1 DEF TypeOK
    <3>3. a \in Adjusts(sec, a, 1) /\ Adjusts(sec, a, 1) \in SUBSET Addresses
      BY <3>1, <3>2, RunLemma DEF Judges, Adjusts
    <3>4. Max(Adjusts(sec, a, 1)) \in Addresses
      BY <3>3, MaxLemma
    <3> QED
      BY <1>2, <2>2, <3>4 DEF Scan, ReleaseLast
  <2> QED
    BY <2>1, <2>2
<1>10. at' \in Mark
  BY <1>1, FoldMarks, SizeLemma DEF Mark, Addresses
<1>11. UNCHANGED <<sec, machines>>
  BY DEF Scan
<1>12. TypeOK'
  BY <1>1, <1>7, <1>9, <1>10, <1>11, FoldMarks, ZeroMark
     DEF TypeOK, Findings, machines, Mark, Addresses
<1> QED
  BY <1>7, <1>8, <1>12 DEF IInv

\* So do the machines, which leave the findings alone.
LEMMA MachinesKeep ==
    ASSUME IInv, Enter \/ Execute \/ UNCHANGED vars PROVE IInv'
<1>1. UNCHANGED <<sec, at, marks, zruns, folds>>
  BY DEF Enter, Execute, vars
<1>2. UNCHANGED <<push_end, release_end, release_last>>
  BY <1>1 DEF marks
<1>3. \A f, a : /\ IsPush(f, a) => IsPush(f, a)'
                /\ IsRelease(f, a) => IsRelease(f, a)'
                /\ IsReserve(f, a) => IsReserve(f, a)'
  BY <1>1, <1>2 DEF IsPush, IsRelease, IsReserve, Adjust
<1>4. Findings' /\ FoldsDisjoint'
  BY <1>1, <1>3 DEF IInv, Findings, FoldsDisjoint
<1>5. family' \in {"none", "zero", "fold"} /\ pc' \in 0 .. Size + 1
  <2>1. CASE Enter
    <3>1. sec.targets \subseteq Addresses
      BY DEF IInv, TypeOK, Section
    <3> QED
      BY <2>1, <3>1, SizeLemma DEF Enter, Addresses
  <2>2. CASE Execute
    BY <2>2, SizeLemma DEF Execute, IInv, TypeOK, Addresses
  <2>3. CASE UNCHANGED vars
    BY <2>3 DEF vars, machines, IInv, TypeOK
  <2> QED
    BY <2>1, <2>2, <2>3
<1>6. TypeOK'
  BY <1>1, <1>5 DEF IInv, TypeOK, marks, Mark, Addresses
<1> QED
  BY <1>4, <1>6 DEF IInv

\* The findings never overlap, and every watermark is an address of the section
\* or its end.
LEMMA Inductive == Spec => []IInv
<1>1. IInv /\ [Next]_vars => IInv'
  BY ScanKeeps, MachinesKeep DEF Next
<1> QED
  BY <1>1, InvInit, PTL DEF Spec

\* What the checks remember of a section is about that section: watermarks, and
\* the instructions of a finding (riscvlint_reset, check_push_run).
THEOREM TypeCorrect == Spec => []TypeOK
BY Inductive, PTL DEF IInv

\* No stack-pointer adjustment is counted twice, whatever the limits of the
\* walks and however runs, seams and side entries interleave ("no addi may be
\* counted twice", check_release_reserve).
THEOREM NoAdjustTwice == Spec => []FoldsDisjoint
BY Inductive, PTL DEF IInv

-------------------------------------------------------------------------------
(* What a run of findings does to the section.                             *)

\* Induction over the naturals, for sets.
LEMMA SetInduction ==
    ASSUME NEW S, \A n \in Nat : (\A m \in Nat : m < n => m \in S) => n \in S
    PROVE  Nat \subseteq S
<1> DEFINE T == Nat \ S
           R == OpToRel(<, Nat)
<1> SUFFICES ASSUME T # {} PROVE FALSE
  OBVIOUS
<1>1. IsWellFoundedOn(R, Nat)
  BY NatLessThanWellFounded
<1>2. T \subseteq Nat /\ T # {}
  OBVIOUS
<1>3. PICK t \in T : \A u \in T : ~(<<u, t>> \in R)
  <2> HIDE DEF T, R
  <2> QED
    BY <1>1, <1>2, WFMin
<1>4. \A u \in T : ~(u < t)
  BY <1>3 DEF OpToRel
<1> QED
  BY <1>4

-------------------------------------------------------------------------------
\* What the adjustment at p adds.
Part(s, p) == IF Adjust(s, p) THEN s.code[p].k ELSE 0

\* The sums exist.
Summing(s, a, n, g) ==
    g = [p \in 0 .. n |-> IF p < a THEN 0
                          ELSE IF Adjust(s, p) THEN g[p - 1] + s.code[p].k ELSE g[p - 1]]

LEMMA SumExists ==
    ASSUME NEW s \in Section, NEW a \in Addresses
    PROVE  \E g \in [0 .. Size -> Int] : Summing(s, a, Size, g)
<1> DEFINE S == {n \in Nat : n <= Size => \E g \in [0 .. n -> Int] : Summing(s, a, n, g)}
<1>1. ASSUME NEW n \in Nat, \A m \in Nat : m < n => m \in S PROVE n \in S
  <2> SUFFICES ASSUME n <= Size PROVE \E g \in [0 .. n -> Int] : Summing(s, a, n, g)
    OBVIOUS
  <2>1. CASE n = 0
    <3> DEFINE g == [p \in 0 .. 0 |-> 0]
    <3>1. g \in [0 .. n -> Int] /\ Summing(s, a, n, g)
      BY <2>1 DEF Summing, Addresses
    <3> QED
      BY <3>1
  <2>2. CASE n # 0
    <3>1. n - 1 \in Nat /\ n - 1 < n /\ n - 1 <= Size /\ n \in Addresses
      BY <2>2, SizeLemma DEF Addresses
    <3>2. PICK h \in [0 .. n - 1 -> Int] : Summing(s, a, n - 1, h)
      BY <1>1, <3>1
    <3> DEFINE g == [p \in 0 .. n |-> IF p < n THEN h[p]
                                      ELSE IF n < a THEN 0
                                      ELSE IF Adjust(s, n) THEN h[n - 1] + s.code[n].k
                                      ELSE h[n - 1]]
    <3>3. s.code[n].k \in Int /\ h[n - 1] \in Int
      BY <3>1 DEF Section, Insn
    <3>4. g \in [0 .. n -> Int]
      BY <3>1, <3>3
    <3>5. ASSUME NEW p \in 0 .. n
          PROVE  g[p] = IF p < a THEN 0
                        ELSE IF Adjust(s, p) THEN g[p - 1] + s.code[p].k ELSE g[p - 1]
      <4>1. CASE p = n
        BY <2>2, <3>1, <4>1 DEF Addresses
      <4>2. CASE p # n
        <5>1. p \in 0 .. n - 1 /\ p < n
          BY <4>2
        <5>2. h[p] = IF p < a THEN 0
                     ELSE IF Adjust(s, p) THEN h[p - 1] + s.code[p].k ELSE h[p - 1]
          BY <3>2, <5>1 DEF Summing
        <5>3. g[p] = h[p]
          BY <5>1
        <5>4. ~(p < a) => g[p - 1] = h[p - 1]
          BY <5>1 DEF Addresses
        <5> QED
          BY <5>2, <5>3, <5>4
      <4> QED
        BY <4>1, <4>2
    <3>6. Summing(s, a, n, g)
      <4>1. g = [p \in 0 .. n |-> g[p]]
        BY <3>4
      <4> HIDE DEF g
      <4> QED
        BY <3>5, <4>1 DEF Summing
    <3> QED
      BY <3>4, <3>6
  <2> QED
    BY <2>1, <2>2
<1>2. Nat \subseteq S
  <2> HIDE DEF S
  <2> QED
    BY <1>1, SetInduction
<1> QED
  BY <1>2, SizeLemma

\* The sum of a run, instruction by instruction.
LEMMA TotalLemma ==
    ASSUME NEW s \in Section, NEW a \in Addresses
    PROVE  /\ Total(s, a, a - 1) = 0
           /\ \A q \in a .. Size : Total(s, a, q) = Total(s, a, q - 1) + Part(s, q)
           /\ \A q \in a - 1 .. Size : Total(s, a, q) \in Int
<1> DEFINE g == CHOOSE f : Summing(s, a, Size, f)
<1>1. Summing(s, a, Size, g)
  BY SumExists
<1>2. \A q : Total(s, a, q) = g[q]
  BY DEF Total, Summing
<1> HIDE DEF g
<1>3. a \in 1 .. Size
  BY DEF Addresses
<1>4. \A p \in 0 .. Size :
          g[p] = IF p < a THEN 0
                 ELSE IF Adjust(s, p) THEN g[p - 1] + s.code[p].k ELSE g[p - 1]
  BY <1>1 DEF Summing
<1>5. g[a - 1] = 0
  BY <1>3, <1>4, SizeLemma
<1> DEFINE S == {n \in Nat : n <= Size => g[n] \in Int}
<1>6. ASSUME NEW n \in Nat, \A m \in Nat : m < n => m \in S PROVE n \in S
  <2> SUFFICES ASSUME n <= Size PROVE g[n] \in Int
    OBVIOUS
  <2>1. CASE n < a
    BY <1>4, <2>1, SizeLemma
  <2>2. CASE ~(n < a)
    <3>1. n \in Addresses /\ n - 1 \in Nat /\ n - 1 < n /\ n - 1 <= Size
      BY <1>3, <2>2, SizeLemma DEF Addresses
    <3>2. g[n - 1] \in Int /\ s.code[n].k \in Int
      BY <1>6, <3>1 DEF Section, Insn
    <3> QED
      BY <1>4, <2>2, <3>2
  <2> QED
    BY <2>1, <2>2
<1>7. Nat \subseteq S
  <2> HIDE DEF S
  <2> QED
    BY <1>6, SetInduction
<1>8. \A q \in a - 1 .. Size : Total(s, a, q) \in Int
  BY <1>2, <1>3, <1>7, SizeLemma
<1>9. ASSUME NEW q \in a .. Size PROVE Total(s, a, q) = Total(s, a, q - 1) + Part(s, q)
  <2>1. q \in Addresses /\ ~(q < a) /\ q - 1 \in a - 1 .. Size
    BY <1>3, SizeLemma DEF Addresses
  <2>2. g[q - 1] \in Int /\ s.code[q].k \in Int
    BY <1>2, <1>8, <2>1 DEF Section, Insn
  <2>3. g[q] = IF Adjust(s, q) THEN g[q - 1] + s.code[q].k ELSE g[q - 1]
    BY <1>3, <1>4, <2>1, SizeLemma
  <2>4. g[q] = g[q - 1] + Part(s, q)
    BY <2>2, <2>3 DEF Part
  <2> QED
    BY <1>2, <2>4
<1>10. Total(s, a, a - 1) = 0
  BY <1>2, <1>5
<1> QED
  BY <1>8, <1>9, <1>10

\* Where no adjustment goes against dir, the sum does not either.
LEMMA TotalGrows ==
    ASSUME NEW s \in Section, NEW a \in Addresses, NEW dir \in {-1, 1},
           NEW i \in a - 1 .. Size, NEW j \in i .. Size,
           \A p \in i + 1 .. j : dir * Part(s, p) >= 0
    PROVE  dir * Total(s, a, i) <= dir * Total(s, a, j)
<1> DEFINE T(q) == Total(s, a, q)
           S == {n \in Nat : i + n <= j => dir * T(i) <= dir * T(i + n)}
<1>1. /\ \A q \in a .. Size : T(q) = T(q - 1) + Part(s, q)
      /\ \A q \in a - 1 .. Size : T(q) \in Int
  BY TotalLemma
<1>2. a \in 1 .. Size /\ i \in Int /\ j \in Int /\ j <= Size /\ a - 1 <= i /\ i <= j
  BY SizeLemma DEF Addresses
<1> HIDE DEF T
<1>3. ASSUME NEW n \in Nat, \A m \in Nat : m < n => m \in S PROVE n \in S
  <2> SUFFICES ASSUME i + n <= j PROVE dir * T(i) <= dir * T(i + n)
    OBVIOUS
  <2>1. CASE n = 0
    BY <1>1, <1>2, <2>1
  <2>2. CASE n # 0
    <3>1. n - 1 \in Nat /\ n - 1 < n /\ i + (n - 1) <= j
      BY <1>2, <2>2
    <3>2. dir * T(i) <= dir * T(i + (n - 1))
      BY <1>3, <3>1
    <3>3. i + n \in a .. Size /\ i + n \in i + 1 .. j /\ i + (n - 1) = (i + n) - 1
      BY <1>2, <2>2, SizeLemma
    <3>4. T(i + n) = T(i + (n - 1)) + Part(s, i + n)
      BY <1>1, <3>3
    <3>5. T(i) \in Int /\ T(i + (n - 1)) \in Int /\ T(i + n) \in Int
      BY <1>1, <1>2, <3>1, <3>3, SizeLemma
    <3>6. i + n \in Addresses
      BY <1>2, <3>3, SizeLemma DEF Addresses
    <3>7. Part(s, i + n) \in Int
      BY <3>6 DEF Part, Section, Insn
    <3>8. dir * Part(s, i + n) >= 0
      BY <3>3
    <3> QED
      BY <3>2, <3>4, <3>5, <3>7, <3>8
  <2> QED
    BY <2>1, <2>2
<1>4. Nat \subseteq S
  <2> HIDE DEF S
  <2> QED
    BY <1>3, SetInduction
<1>5. j - i \in S /\ i + (j - i) = j
  BY <1>2, <1>4
<1>6. dir * T(i) <= dir * T(j)
  BY <1>2, <1>5
<1> QED
  BY <1>6 DEF T

\* And where there is none, it stays.
LEMMA TotalStays ==
    ASSUME NEW s \in Section, NEW a \in Addresses,
           NEW i \in a - 1 .. Size, NEW j \in i .. Size,
           \A p \in i + 1 .. j : ~Adjust(s, p)
    PROVE  Total(s, a, i) = Total(s, a, j)
<1>1. \A p \in i + 1 .. j : 1 * Part(s, p) >= 0 /\ (-1) * Part(s, p) >= 0
  BY DEF Part
<1>2. 1 * Total(s, a, i) <= 1 * Total(s, a, j)
  BY <1>1, TotalGrows
<1>3. (-1) * Total(s, a, i) <= (-1) * Total(s, a, j)
  BY <1>1, TotalGrows
<1>4. j \in a - 1 .. Size
  BY SizeLemma DEF Addresses
<1>5. Total(s, a, i) \in Int /\ Total(s, a, j) \in Int
  BY <1>4, TotalLemma
<1> QED
  BY <1>2, <1>3, <1>5

-------------------------------------------------------------------------------
\* A fold f is worked off between t.first and t.last, where nobody looks at sp: before
\* the instruction at p the rewritten sp is t.lead[p] off, and every access is moved
\* by as much.
Fits(s, f, t) ==
    /\ t.first \in Addresses /\ t.last \in t.first .. Size
    /\ t.lead \in [1 .. Size + 1 -> Int]
    /\ t.lead[t.first] = 0 /\ t.lead[t.last + 1] = 0
    /\ Adjust(s, t.first)
    /\ \A p \in DOMAIN f : p \in Addresses /\ (Adjust(s, p) \/ Access(s, p)) /\ f[p] \in Int
    /\ \A p \in DOMAIN f : p \notin t.first .. t.last => f[p] = s.code[p].k
    /\ \A p \in t.first .. t.last :
          /\ Adjust(s, p) \/ Access(s, p) => p \in DOMAIN f
          /\ p # t.first => p \notin s.targets /\ s.code[p].op # "sees"
          /\ t.lead[p] <= 0
          /\ t.lead[p + 1] = t.lead[p] + (IF Adjust(s, p) THEN f[p] - s.code[p].k ELSE 0)
          /\ Access(s, p) => f[p] + t.lead[p] = s.code[p].k

\* Inside a run nothing enters or looks.
LEMMA RunQuiet ==
    ASSUME NEW s \in Section, NEW a \in Addresses, NEW dir \in {-1, 1},
           NEW q \in Run(s, a, dir), q # a
    PROVE  q \notin s.targets /\ s.code[q].op # "sees"
<1>1. q \in a + 1 .. q /\ ~Ends(s, a, q, dir)
  BY SizeLemma DEF Run, Addresses
<1> QED
  BY <1>1 DEF Ends

\* The last adjustment of a run.
LEMMA LastLemma ==
    ASSUME NEW s \in Section, NEW a \in Addresses, NEW dir \in {-1, 1},
           Adjust(s, a), dir * s.code[a].k > 0, NEW b, b = Max(Adjusts(s, a, dir))
    PROVE  /\ b \in a .. Size /\ b \in Run(s, a, dir) /\ Adjust(s, b)
           /\ \A p \in a .. b : p \in Run(s, a, dir) /\ p \in Addresses
           /\ \A p \in Run(s, a, dir) : p > b => ~Adjust(s, p)
           /\ \A p \in a .. b : Part(s, p) \in Int /\ dir * Part(s, p) >= 0
<1>1. a \in Adjusts(s, a, dir) /\ Adjusts(s, a, dir) \in SUBSET Addresses
  BY RunLemma DEF Adjusts
<1>2. b \in Adjusts(s, a, dir) /\ \A y \in Adjusts(s, a, dir) : y <= b
  BY <1>1, MaxLemma
<1>3. b \in a .. Size /\ b \in Run(s, a, dir) /\ Adjust(s, b)
  BY <1>2, RunLemma DEF Adjusts
<1>4. \A p \in a .. b : p \in Run(s, a, dir) /\ p \in Addresses
  BY <1>3, RunLemma
<1>5. \A p \in Run(s, a, dir) : p > b => ~Adjust(s, p)
  BY <1>2, <1>3, RunLemma, SizeLemma DEF Adjusts, Addresses
<1>6. ASSUME NEW p \in a .. b PROVE Part(s, p) \in Int /\ dir * Part(s, p) >= 0
  <2>1. s.code[p].k \in Int
    BY <1>4 DEF Section, Insn
  <2>2. Adjust(s, p) => ~(dir * s.code[p].k <= 0)
    <3>1. CASE p = a
      BY <2>1, <3>1
    <3>2. CASE p # a
      BY <1>4, <3>2, RunLemma
    <3> QED
      BY <3>1, <3>2
  <2> QED
    BY <2>1, <2>2 DEF Part
<1> QED
  BY <1>3, <1>4, <1>5, <1>6

\* What a push run becomes fits: the whole reservation is made at the start.
LEMMA PushFits ==
    ASSUME NEW s \in Section, NEW a \in Addresses, Adjust(s, a), s.code[a].k < 0
    PROVE  \E t : Fits(s, Push(s, a), t)
<1> DEFINE b == Max(Adjusts(s, a, -1))
           T(q) == Total(s, a, q)
           f == Push(s, a)
           lead == [p \in 1 .. Size + 1 |-> IF p \in a + 1 .. b THEN T(b) - T(p - 1) ELSE 0]
           t == [first |-> a, last |-> b, lead |-> lead]
<1>1. a \in 1 .. Size /\ s.code[a].k \in Int
  BY DEF Addresses, Section, Insn
<1>2. (-1) * s.code[a].k > 0
  BY <1>1
<1>3. /\ b \in a .. Size /\ b \in Run(s, a, -1) /\ Adjust(s, b)
      /\ \A p \in a .. b : p \in Run(s, a, -1) /\ p \in Addresses
      /\ \A p \in Run(s, a, -1) : p > b => ~Adjust(s, p)
      /\ \A p \in a .. b : Part(s, p) \in Int /\ (-1) * Part(s, p) >= 0
  BY <1>2, LastLemma
<1>4. /\ T(a - 1) = 0
      /\ \A q \in a .. Size : T(q) = T(q - 1) + Part(s, q)
      /\ \A q \in a - 1 .. Size : T(q) \in Int
  BY TotalLemma
<1>5. /\ DOMAIN f = {q \in Run(s, a, -1) : Adjust(s, q) \/ Access(s, q)}
      /\ \A p \in DOMAIN f : f[p] = IF p = a THEN T(b)
                                    ELSE IF Adjust(s, p) THEN 0
                                    ELSE s.code[p].k - (T(b) - T(p))
  BY DEF Push
<1>6. /\ Run(s, a, -1) \subseteq a .. Size /\ Run(s, a, -1) \subseteq Addresses
      /\ \A q \in Run(s, a, -1) : \A p \in a .. q : p \in Run(s, a, -1)
  BY RunLemma
<1>7. \A p \in Addresses : s.code[p].k \in Int /\ (Access(s, p) => ~Adjust(s, p))
  BY DEF Section, Insn, Access, Adjust
<1> HIDE DEF b, T, f
<1>8. ASSUME NEW p \in a .. b PROVE T(b) <= T(p - 1) /\ T(p - 1) \in Int
  <2>1. p - 1 \in a - 1 .. Size /\ b \in p - 1 .. Size
    BY <1>1, <1>3, SizeLemma
  <2>2. \A q \in (p - 1) + 1 .. b : (-1) * Part(s, q) >= 0
    BY <1>1, <1>3
  <2>3. (-1) * T(p - 1) <= (-1) * T(b)
    BY <2>1, <2>2, TotalGrows DEF T
  <2>4. T(p - 1) \in Int /\ T(b) \in Int
    BY <1>1, <1>3, <1>4, <2>1
  <2> QED
    BY <2>3, <2>4
<1>9. ASSUME NEW p \in DOMAIN f, p > b PROVE T(p) = T(b) /\ ~Adjust(s, p)
  <2>1. p \in Run(s, a, -1) /\ p \in a .. Size
    BY <1>5, <1>6
  <2>2. \A q \in b + 1 .. p : ~Adjust(s, q)
    BY <1>1, <1>3, <1>6, <2>1
  <2>3. b \in a - 1 .. Size /\ p \in b .. Size
    BY <1>1, <1>3, <1>9, <2>1
  <2>4. T(b) = T(p)
    BY <2>2, <2>3, TotalStays DEF T
  <2>5. p \in b + 1 .. p
    BY <1>3, <1>9, <2>1
  <2> QED
    BY <2>2, <2>4, <2>5
<1>10. lead \in [1 .. Size + 1 -> Int]
  <2>1. \A p \in a + 1 .. b : T(b) - T(p - 1) \in Int
    BY <1>1, <1>3, <1>4, <1>8
  <2> QED
    BY <2>1
<1>11. lead[a] = 0 /\ lead[b + 1] = 0
  BY <1>1, <1>3, SizeLemma
<1>12. \A p \in DOMAIN f : /\ p \in Addresses /\ (Adjust(s, p) \/ Access(s, p))
                           /\ f[p] \in Int
  BY <1>1, <1>3, <1>4, <1>5, <1>6, <1>7
<1>13. \A p \in DOMAIN f : p \notin a .. b => f[p] = s.code[p].k
  <2>1. ASSUME NEW p \in DOMAIN f, p \notin a .. b PROVE f[p] = s.code[p].k
    <3>1. p > b /\ p # a /\ p \in Addresses
      BY <1>1, <1>3, <1>5, <1>6, <2>1
    <3>2. f[p] = s.code[p].k - (T(b) - T(p)) /\ T(p) = T(b) /\ T(b) \in Int
      BY <1>1, <1>3, <1>4, <1>5, <1>9, <3>1
    <3> QED
      BY <1>7, <3>1, <3>2
  <2> QED
    BY <2>1
<1>14. ASSUME NEW p \in a .. b
       PROVE  /\ Adjust(s, p) \/ Access(s, p) => p \in DOMAIN f
              /\ p # a => p \notin s.targets /\ s.code[p].op # "sees"
              /\ lead[p] <= 0
              /\ lead[p + 1] = lead[p] + (IF Adjust(s, p) THEN f[p] - s.code[p].k ELSE 0)
              /\ Access(s, p) => f[p] + lead[p] = s.code[p].k
  <2>1. p \in Run(s, a, -1) /\ p \in Addresses /\ p \in 1 .. Size /\ p + 1 \in 1 .. Size + 1
    BY <1>1, <1>3, SizeLemma DEF Addresses
  <2>2. Adjust(s, p) \/ Access(s, p) => p \in DOMAIN f
    BY <1>5, <2>1
  <2>3. p # a => p \notin s.targets /\ s.code[p].op # "sees"
    BY <2>1, RunQuiet
  <2>4. /\ T(p) = T(p - 1) + Part(s, p)
        /\ T(p - 1) \in Int /\ T(p) \in Int /\ T(b) \in Int /\ T(b) <= T(p - 1)
        /\ Part(s, p) \in Int /\ s.code[p].k \in Int
    BY <1>1, <1>3, <1>4, <1>7, <1>8, <2>1
  <2>5. lead[p] = IF p = a THEN 0 ELSE T(b) - T(p - 1)
    <3>1. p \in 1 .. Size + 1
      BY <2>1, SizeLemma
    <3>2. a \in Int /\ b \in Int /\ p \in Int /\ a <= p /\ p <= b
      BY <1>1, <1>3
    <3>3. p \in a + 1 .. b <=> p # a
      BY <3>2
    <3> QED
      BY <3>1, <3>3
  <2>6. lead[p + 1] = IF p = b THEN 0 ELSE T(b) - T(p)
    BY <1>1, <1>3, <2>1
  <2>7. lead[p] <= 0
    BY <2>4, <2>5
  <2>8. Adjust(s, p) => f[p] = IF p = a THEN T(b) ELSE 0
    BY <1>5, <2>2
  <2>9. lead[p + 1] = lead[p] + (IF Adjust(s, p) THEN f[p] - s.code[p].k ELSE 0)
    BY <1>3, <1>4, <2>4, <2>5, <2>6, <2>8 DEF Part
  <2>10. Access(s, p) => f[p] + lead[p] = s.code[p].k
    <3>1. Access(s, p) => ~Adjust(s, p) /\ p # a /\ Part(s, p) = 0
      BY <1>7, <2>1 DEF Part
    <3>2. Access(s, p) => f[p] = s.code[p].k - (T(b) - T(p))
      BY <1>5, <2>2, <3>1
    <3> QED
      BY <2>4, <2>5, <3>1, <3>2
  <2> QED
    BY <2>2, <2>3, <2>7, <2>9, <2>10
<1> HIDE DEF lead
<1>15. t.first = a /\ t.last = b /\ t.lead = lead
  OBVIOUS
<1> HIDE DEF t
<1>16. Fits(s, f, t)
  BY <1>3, <1>10, <1>11, <1>12, <1>13, <1>14, <1>15 DEF Fits
<1> QED
  BY <1>16 DEF f

\* What a release run becomes fits: the whole release is made at the end.
LEMMA ReleaseFits ==
    ASSUME NEW s \in Section, NEW a \in Addresses, Adjust(s, a), s.code[a].k > 0
    PROVE  \E t : Fits(s, Release(s, a), t)
<1> DEFINE b == Max(Adjusts(s, a, 1))
           T(q) == Total(s, a, q)
           f == Release(s, a)
           lead == [p \in 1 .. Size + 1 |-> IF p \in a + 1 .. b THEN -T(p - 1) ELSE 0]
           t == [first |-> a, last |-> b, lead |-> lead]
<1>1. a \in 1 .. Size /\ s.code[a].k \in Int
  BY DEF Addresses, Section, Insn
<1>2. 1 * s.code[a].k > 0
  BY <1>1
<1>3. /\ b \in a .. Size /\ b \in Run(s, a, 1) /\ Adjust(s, b)
      /\ \A p \in a .. b : p \in Run(s, a, 1) /\ p \in Addresses
      /\ \A p \in a .. b : Part(s, p) \in Int /\ 1 * Part(s, p) >= 0
  BY <1>2, LastLemma
<1>4. /\ T(a - 1) = 0
      /\ \A q \in a .. Size : T(q) = T(q - 1) + Part(s, q)
      /\ \A q \in a - 1 .. Size : T(q) \in Int
  BY TotalLemma
<1>5. /\ DOMAIN f = {q \in Run(s, a, 1) : q <= b /\ (Adjust(s, q) \/ Access(s, q))}
      /\ \A p \in DOMAIN f : f[p] = IF p = b THEN T(b)
                                    ELSE IF Adjust(s, p) THEN 0
                                    ELSE s.code[p].k + T(p)
  BY DEF Release
<1>6. Run(s, a, 1) \subseteq a .. Size /\ Run(s, a, 1) \subseteq Addresses
  BY RunLemma
<1>7. \A p \in Addresses : s.code[p].k \in Int /\ (Access(s, p) => ~Adjust(s, p))
  BY DEF Section, Insn, Access, Adjust
<1> HIDE DEF b, T, f
<1>8. ASSUME NEW p \in a .. b PROVE 0 <= T(p - 1) /\ T(p - 1) \in Int
  <2>1. a - 1 \in a - 1 .. Size /\ p - 1 \in a - 1 .. Size
    BY <1>1, <1>3, SizeLemma
  <2>2. \A q \in (a - 1) + 1 .. p - 1 : 1 * Part(s, q) >= 0
    BY <1>1, <1>3
  <2>3. 1 * T(a - 1) <= 1 * T(p - 1)
    BY <2>1, <2>2, TotalGrows DEF T
  <2> QED
    BY <1>4, <2>1, <2>3
<1>10. lead \in [1 .. Size + 1 -> Int]
  <2>1. \A p \in a + 1 .. b : -T(p - 1) \in Int
    BY <1>1, <1>3, <1>4, <1>8
  <2> QED
    BY <2>1
<1>11. lead[a] = 0 /\ lead[b + 1] = 0
  BY <1>1, <1>3, SizeLemma
<1>12. \A p \in DOMAIN f : /\ p \in Addresses /\ (Adjust(s, p) \/ Access(s, p))
                           /\ f[p] \in Int /\ p \in a .. b
  BY <1>1, <1>3, <1>4, <1>5, <1>6, <1>7
<1>14. ASSUME NEW p \in a .. b
       PROVE  /\ Adjust(s, p) \/ Access(s, p) => p \in DOMAIN f
              /\ p # a => p \notin s.targets /\ s.code[p].op # "sees"
              /\ lead[p] <= 0
              /\ lead[p + 1] = lead[p] + (IF Adjust(s, p) THEN f[p] - s.code[p].k ELSE 0)
              /\ Access(s, p) => f[p] + lead[p] = s.code[p].k
  <2>1. p \in Run(s, a, 1) /\ p \in Addresses /\ p \in 1 .. Size /\ p + 1 \in 1 .. Size + 1
    BY <1>1, <1>3, SizeLemma DEF Addresses
  <2>2. Adjust(s, p) \/ Access(s, p) => p \in DOMAIN f
    BY <1>1, <1>3, <1>5, <2>1
  <2>3. p # a => p \notin s.targets /\ s.code[p].op # "sees"
    BY <2>1, RunQuiet
  <2>4. /\ T(p) = T(p - 1) + Part(s, p)
        /\ T(p - 1) \in Int /\ T(p) \in Int /\ T(b) \in Int /\ 0 <= T(p - 1)
        /\ Part(s, p) \in Int /\ s.code[p].k \in Int
    BY <1>1, <1>3, <1>4, <1>7, <1>8, <2>1
  <2>5. lead[p] = -T(p - 1)
    <3>1. p \in 1 .. Size + 1
      BY <2>1, SizeLemma
    <3>2. a \in Int /\ b \in Int /\ p \in Int /\ a <= p /\ p <= b
      BY <1>1, <1>3
    <3>3. p \in a + 1 .. b <=> p # a
      BY <3>2
    <3>4. p = a => -T(p - 1) = 0
      BY <1>4
    <3> QED
      BY <3>1, <3>3, <3>4
  <2>6. lead[p + 1] = IF p = b THEN 0 ELSE -T(p)
    BY <1>1, <1>3, <2>1
  <2>7. lead[p] <= 0
    BY <2>4, <2>5
  <2>8. Adjust(s, p) => f[p] = IF p = b THEN T(b) ELSE 0
    BY <1>5, <2>2
  <2>9. lead[p + 1] = lead[p] + (IF Adjust(s, p) THEN f[p] - s.code[p].k ELSE 0)
    BY <1>3, <2>4, <2>5, <2>6, <2>8 DEF Part
  <2>10. Access(s, p) => f[p] + lead[p] = s.code[p].k
    <3>1. Access(s, p) => ~Adjust(s, p) /\ p # b /\ Part(s, p) = 0
      BY <1>3, <1>7, <2>1 DEF Part
    <3>2. Access(s, p) => f[p] = s.code[p].k + T(p)
      BY <1>5, <2>2, <3>1
    <3> QED
      BY <2>4, <2>5, <3>1, <3>2
  <2> QED
    BY <2>2, <2>3, <2>7, <2>9, <2>10
<1> HIDE DEF lead
<1>15. t.first = a /\ t.last = b /\ t.lead = lead
  OBVIOUS
<1> HIDE DEF t
<1>16. Fits(s, f, t)
  BY <1>3, <1>10, <1>11, <1>12, <1>14, <1>15 DEF Fits
<1> QED
  BY <1>16 DEF f

\* So does what a release and the reservation behind it become.
LEMMA ReserveFits ==
    ASSUME NEW s \in Section, NEW a \in Addresses, a + 1 \in Addresses,
           Adjust(s, a), Adjust(s, a + 1), s.code[a + 1].k < 0, a + 1 \notin s.targets
    PROVE  \E t : Fits(s, Reserve(s, a), t)
<1> DEFINE k == s.code[a].k
           m == s.code[a + 1].k
           f == Reserve(s, a)
           lead == [p \in 1 .. Size + 1 |-> IF p = a + 1 THEN m ELSE 0]
           t == [first |-> a, last |-> a + 1, lead |-> lead]
<1>1. a \in 1 .. Size /\ a + 1 \in 1 .. Size /\ k \in Int /\ m \in Int
  BY DEF Addresses, Section, Insn
<1>2. Total(s, a, a + 1) = k + m
  <2>1. a \in a .. Size /\ a + 1 \in a .. Size
    BY <1>1, SizeLemma
  <2>2. /\ Total(s, a, a - 1) = 0
        /\ Total(s, a, a) = Total(s, a, a - 1) + Part(s, a)
        /\ Total(s, a, a + 1) = Total(s, a, (a + 1) - 1) + Part(s, a + 1)
    BY <2>1, TotalLemma
  <2>3. (a + 1) - 1 = a /\ Part(s, a) = k /\ Part(s, a + 1) = m
    BY <1>1 DEF Part
  <2> QED
    BY <1>1, <2>2, <2>3
<1>3. DOMAIN f = {a, a + 1} /\ f[a] = k + m /\ f[a + 1] = 0
  BY <1>1, <1>2 DEF Reserve
<1>4. Adjust(s, a) /\ Adjust(s, a + 1) /\ ~Access(s, a) /\ ~Access(s, a + 1)
  BY DEF Adjust, Access
<1>5. s.code[a + 1].op # "sees"
  BY DEF Adjust
<1> HIDE DEF k, m, f
<1>6. /\ lead \in [1 .. Size + 1 -> Int]
      /\ lead[a] = 0 /\ lead[a + 1] = m /\ lead[(a + 1) + 1] = 0
  BY <1>1, SizeLemma
<1>7. m < 0
  BY DEF m
<1> HIDE DEF lead
<1>8. t.first = a /\ t.last = a + 1 /\ t.lead = lead
  OBVIOUS
<1> HIDE DEF t
<1>9. a + 1 \in a .. Size /\ a .. a + 1 = {a, a + 1}
  BY <1>1, SizeLemma
<1>10. \A p \in DOMAIN f : p \in Addresses /\ f[p] \in Int
  BY <1>1, <1>3
<1>11. ASSUME NEW p \in {a, a + 1}
       PROVE  /\ p \in DOMAIN f
              /\ p # a => p \notin s.targets /\ s.code[p].op # "sees"
              /\ lead[p] <= 0
              /\ lead[p + 1] = lead[p] + (IF Adjust(s, p) THEN f[p] - s.code[p].k ELSE 0)
              /\ ~Access(s, p)
  <2>1. CASE p = a
    BY <1>1, <1>3, <1>4, <1>6, <2>1 DEF k
  <2>2. CASE p = a + 1
    BY <1>1, <1>3, <1>4, <1>5, <1>6, <1>7, <2>2 DEF m
  <2> QED
    BY <1>11, <2>1, <2>2
<1>12. Fits(s, f, t)
  BY <1>3, <1>4, <1>6, <1>8, <1>9, <1>10, <1>11 DEF Fits
<1> QED
  BY <1>12 DEF f

-------------------------------------------------------------------------------
\* The stack-pointer findings and the machine that runs them.
FoldsFit == \A f \in folds : \E t : Fits(sec, f, t)
Plan(f) == CHOOSE t : Fits(sec, f, t)

\* The machines: they wait together for the end of the scan, and run when nothing is
\* scanned any more.
Machines ==
    /\ sp \in Int /\ rsp \in Int
    /\ mem \in [Cells -> Int] /\ rmem \in [Cells -> Int]
    /\ pc = NotStarted => family = "none" /\ rsp = sp /\ rmem = mem
    /\ pc # NotStarted => family \in {"zero", "fold"} /\ at = Size + 1

\* The next instruction is inside the fold f.
Working(f) == pc \in Plan(f).first + 1 .. Plan(f).last
FoldMachine ==
    family = "fold" =>
        /\ rmem = mem
        /\ \A f \in folds : Working(f) => rsp = sp + Plan(f).lead[pc]
        /\ (\A f \in folds : ~Working(f)) => rsp = sp

LEMMA PlanFits == ASSUME FoldsFit, NEW f \in folds PROVE Fits(sec, f, Plan(f))
BY DEF FoldsFit, Plan

LEMMA PlanBounds ==
    ASSUME NEW s, NEW f, NEW t, Fits(s, f, t)
    PROVE  /\ t.first \in 1 .. Size /\ t.last \in 1 .. Size
           /\ t.first <= t.last
<1>1. t.first \in 1 .. Size /\ t.last \in t.first .. Size
  BY DEF Fits, Addresses
<1> QED
  BY <1>1, SizeLemma

\* Two folds are never worked off at once.
LEMMA SpansApart ==
    ASSUME TypeOK, FoldsFit, FoldsDisjoint, NEW f \in folds, NEW g \in folds,
           NEW p \in Plan(f).first .. Plan(f).last, p \in Plan(g).first .. Plan(g).last
    PROVE  f = g
<1>1. Fits(sec, f, Plan(f)) /\ Fits(sec, g, Plan(g))
  BY PlanFits
<1> DEFINE t == Plan(f)
           u == Plan(g)
<1> HIDE DEF t, u
<1>2. Fits(sec, f, t) /\ Fits(sec, g, u) /\ p \in t.first .. t.last /\ p \in u.first .. u.last
  BY <1>1 DEF t, u
<1>3. /\ t.first \in Int /\ u.first \in Int /\ t.last \in Int /\ u.last \in Int
      /\ t.first <= t.last /\ u.first <= u.last
  BY <1>2, PlanBounds
<1>4. CASE t.first <= u.first
  <2>1. u.first \in t.first .. t.last /\ u.first \in u.first .. u.last /\ Adjust(sec, u.first)
    BY <1>2, <1>3, <1>4 DEF Fits
  <2>2. u.first \in DOMAIN f /\ u.first \in DOMAIN g
    BY <1>2, <2>1 DEF Fits
  <2> QED
    BY <2>2 DEF FoldsDisjoint
<1>5. CASE u.first <= t.first
  <2>1. t.first \in t.first .. t.last /\ t.first \in u.first .. u.last /\ Adjust(sec, t.first)
    BY <1>2, <1>3, <1>5 DEF Fits
  <2>2. t.first \in DOMAIN f /\ t.first \in DOMAIN g
    BY <1>2, <2>1 DEF Fits
  <2> QED
    BY <2>2 DEF FoldsDisjoint
<1> QED
  BY <1>3, <1>4, <1>5

\* What a fold does to one instruction.
LEMMA FoldedLemma ==
    ASSUME TypeOK, FoldsDisjoint, NEW p \in Addresses, NEW i, i = sec.code[p]
    PROVE  /\ i \in Insn
           /\ Folded(p).op = i.op /\ Folded(p).base = i.base /\ Folded(p).width = i.width
           /\ \A f \in folds : p \in DOMAIN f => Folded(p).k = f[p]
           /\ (\A f \in folds : p \notin DOMAIN f) => Folded(p).k = i.k
<1>1. i \in Insn
  BY DEF TypeOK, Section
<1>2. CASE \E f \in folds : p \in DOMAIN f
  <2> DEFINE g == CHOOSE f \in folds : p \in DOMAIN f
  <2>1. g \in folds /\ p \in DOMAIN g
    BY <1>2
  <2>2. \A f \in folds : p \in DOMAIN f => f = g
    BY <2>1 DEF FoldsDisjoint
  <2>3. Folded(p) = [i EXCEPT !.k = g[p]]
    BY <1>2 DEF Folded
  <2> HIDE DEF g
  <2> QED
    BY <1>1, <1>2, <2>2, <2>3 DEF Insn
<1>3. CASE ~\E f \in folds : p \in DOMAIN f
  BY <1>1, <1>3 DEF Folded
<1> QED
  BY <1>2, <1>3

\* Writing through sp is writing through the rewritten sp, moved by as much.
LEMMA SameWrite ==
    ASSUME NEW i \in Insn, NEW j, j.op = i.op, j.base = i.base, j.width = i.width,
           NEW v \in Int, NEW w \in Int, NEW m, j.k \in Int,
           i.op = "mem" \/ (i.op = "zero" /\ i.base = "sp") => w + j.k = v + i.k,
           i.op = "zero" /\ i.base # "sp" => j.k = i.k
    PROVE  Written(j, w, m) = Written(i, v, m)
<1>1. CASE i.op = "mem"
  BY <1>1 DEF Written
<1>2. CASE i.op = "zero"
  <2>1. Base(j, w) + j.k = Base(i, v) + i.k
    BY <1>2 DEF Base
  <2> QED
    BY <1>2, <2>1 DEF Written
<1>3. CASE i.op \notin {"mem", "zero"}
  BY <1>3 DEF Written
<1> QED
  BY <1>1, <1>2, <1>3

\* One step of both machines inside a fold, and one outside.
LEMMA StepInside ==
    ASSUME TypeOK, Machines, FoldsFit, FoldsDisjoint, Execute, family = "fold",
           rmem = mem, NEW f \in folds, NEW t, t = Plan(f), NEW p, p = pc,
           p \in t.first .. t.last, rsp = sp + t.lead[p]
    PROVE  rsp' = sp' + t.lead[p + 1] /\ rmem' = mem'
<1> DEFINE i == sec.code[p]
           j == Folded(p)
<1>1. Fits(sec, f, t)
  BY PlanFits
<1>2. p \in Addresses /\ p \in 1 .. Size + 1 /\ p + 1 \in 1 .. Size + 1
  BY SizeLemma DEF Execute, Addresses
<1>3. /\ i \in Insn
      /\ j.op = i.op /\ j.base = i.base /\ j.width = i.width
      /\ \A g \in folds : p \in DOMAIN g => j.k = g[p]
      /\ (\A g \in folds : p \notin DOMAIN g) => j.k = i.k
  BY <1>2, FoldedLemma
<1>4. /\ t.lead[p] \in Int /\ t.lead[p + 1] \in Int
      /\ sp \in Int /\ rsp \in Int /\ i.k \in Int
  BY <1>1, <1>2, <1>3 DEF Fits, Machines, Insn
<1>5. /\ sp' = Moved(i, sp) /\ rsp' = Moved(j, rsp)
      /\ mem' = Written(i, sp, mem) /\ rmem' = Written(j, rsp, mem)
  BY DEF Execute
<1>6. /\ Adjust(sec, p) <=> i.op = "adj"
      /\ Access(sec, p) <=> (i.op = "mem" \/ (i.op = "zero" /\ i.base = "sp"))
  BY DEF Adjust, Access
<1>7. /\ Adjust(sec, p) \/ Access(sec, p) => p \in DOMAIN f
      /\ t.lead[p + 1] = t.lead[p] + (IF Adjust(sec, p) THEN f[p] - i.k ELSE 0)
      /\ Access(sec, p) => f[p] + t.lead[p] = i.k
      /\ p \in DOMAIN f => f[p] \in Int
  BY <1>1 DEF Fits
<1>8. ~Adjust(sec, p) /\ ~Access(sec, p) => \A g \in folds : p \notin DOMAIN g
  BY PlanFits DEF Fits
<1>9. j.k \in Int
  BY <1>3, <1>4, <1>7, <1>8
<1> HIDE DEF i, j
<1>10. rsp' = sp' + t.lead[p + 1]
  <2>1. CASE i.op = "adj"
    <3>1. j.k = f[p] /\ f[p] \in Int /\ t.lead[p + 1] = t.lead[p] + (f[p] - i.k)
      BY <1>3, <1>6, <1>7, <2>1
    <3>2. sp' = sp + i.k /\ rsp' = rsp + j.k
      BY <1>3, <1>5, <2>1 DEF Moved
    <3> QED
      BY <1>4, <3>1, <3>2
  <2>2. CASE i.op # "adj"
    <3>1. t.lead[p + 1] = t.lead[p]
      BY <1>4, <1>6, <1>7, <2>2
    <3>2. sp' = sp /\ rsp' = rsp
      BY <1>3, <1>5, <2>2 DEF Moved
    <3> QED
      BY <3>1, <3>2
  <2> QED
    BY <2>1, <2>2
<1>11. rmem' = mem'
  <2>1. Access(sec, p) => rsp + j.k = sp + i.k
    BY <1>3, <1>4, <1>7, <1>9
  <2>2. i.op = "zero" /\ i.base # "sp" => j.k = i.k
    BY <1>3, <1>6, <1>8
  <2>3. Written(j, rsp, mem) = Written(i, sp, mem)
    BY <1>3, <1>4, <1>6, <1>9, <2>1, <2>2, SameWrite
  <2> QED
    BY <1>5, <2>3
<1> QED
  BY <1>10, <1>11

LEMMA StepOutside ==
    ASSUME TypeOK, Machines, FoldsFit, FoldsDisjoint, Execute, family = "fold",
           rmem = mem, rsp = sp, NEW p, p = pc,
           \A f \in folds : p \notin Plan(f).first .. Plan(f).last
    PROVE  rsp' = sp' /\ rmem' = mem'
<1> DEFINE i == sec.code[p]
           j == Folded(p)
<1>2. p \in Addresses
  BY DEF Execute
<1>3. /\ i \in Insn
      /\ j.op = i.op /\ j.base = i.base /\ j.width = i.width
      /\ \A g \in folds : p \in DOMAIN g => j.k = g[p]
      /\ (\A g \in folds : p \notin DOMAIN g) => j.k = i.k
  BY <1>2, FoldedLemma
<1>4. \A f \in folds : p \in DOMAIN f => f[p] = i.k
  BY PlanFits DEF Fits
<1>5. j.k = i.k /\ i.k \in Int /\ sp \in Int
  BY <1>3, <1>4 DEF Insn, Machines
<1>6. /\ sp' = Moved(i, sp) /\ rsp' = Moved(j, sp)
      /\ mem' = Written(i, sp, mem) /\ rmem' = Written(j, sp, mem)
  BY DEF Execute
<1> HIDE DEF i, j
<1>7. Moved(j, sp) = Moved(i, sp)
  BY <1>3, <1>5 DEF Moved
<1>8. Written(j, sp, mem) = Written(i, sp, mem)
  BY <1>3, <1>5, SameWrite
<1> QED
  BY <1>6, <1>7, <1>8

\* The rewritten sp is the lead off inside a fold, and sp outside.
LEMMA FoldStep ==
    ASSUME TypeOK, Machines, FoldsFit, FoldsDisjoint, FoldMachine, Execute
    PROVE  FoldMachine'
<1> SUFFICES ASSUME family = "fold"
             PROVE  /\ rmem' = mem'
                    /\ \A f \in folds : Working(f)' => rsp' = sp' + Plan(f).lead[pc']
                    /\ (\A f \in folds : ~Working(f)') => rsp' = sp'
  <2>1. folds' = folds /\ sec' = sec /\ family' = family
    BY DEF Execute
  <2>2. \A f : Plan(f)' = Plan(f)
    BY <2>1 DEF Plan, Fits
  <2> QED
    BY <2>1, <2>2 DEF FoldMachine
<1> DEFINE span(f) == Plan(f).first .. Plan(f).last
<1>1. PICK p \in Addresses : p = pc
  BY DEF Execute
<1>2. pc' = p + 1 /\ p \in 1 .. Size
  BY <1>1 DEF Execute, Addresses
<1>3. \A f : Working(f)' <=> p + 1 \in Plan(f).first + 1 .. Plan(f).last
  <2>1. sec' = sec
    BY DEF Execute
  <2>2. \A f : Plan(f)' = Plan(f)
    BY <2>1 DEF Plan, Fits
  <2> QED
    BY <1>2, <2>2 DEF Working
<1>4. \A f \in folds : /\ Fits(sec, f, Plan(f))
                       /\ Plan(f).first \in 1 .. Size /\ Plan(f).last \in 1 .. Size
                       /\ Plan(f).first <= Plan(f).last
  BY PlanFits, PlanBounds
<1>5. \A f \in folds : Working(f)' => p \in span(f)
  BY <1>2, <1>3, <1>4
<1>6. \A f, g \in folds : p \in span(f) /\ p \in span(g) => f = g
  BY SpansApart
<1>7. rmem = mem
  BY DEF FoldMachine
<1>8. CASE \E f \in folds : p \in span(f)
  <2>1. PICK f \in folds : p \in span(f)
    BY <1>8
  <2>2. rsp = sp + Plan(f).lead[p]
    <3>1. CASE p = Plan(f).first
      <4>1. \A g \in folds : ~Working(g)
        <5>1. \A g \in folds : Working(g) => p \in span(g)
          BY <1>1, <1>2, <1>4 DEF Working
        <5> QED
          BY <1>1, <1>2, <1>4, <1>6, <2>1, <3>1, <5>1 DEF Working
      <4>2. rsp = sp /\ sp \in Int
        BY <4>1 DEF FoldMachine, Machines
      <4>3. Plan(f).lead[p] = 0
        BY <1>4, <3>1 DEF Fits
      <4> QED
        BY <4>2, <4>3
    <3>2. CASE p # Plan(f).first
      <4>1. Working(f)
        BY <1>1, <1>2, <1>4, <2>1, <3>2 DEF Working
      <4> QED
        BY <1>1, <4>1 DEF FoldMachine
    <3> QED
      BY <3>1, <3>2
  <2>3. rsp' = sp' + Plan(f).lead[p + 1] /\ rmem' = mem'
    BY <1>1, <1>7, <2>1, <2>2, StepInside
  <2>4. \A g \in folds : Working(g)' => g = f
    BY <1>5, <1>6, <2>1
  <2>5. ASSUME ~Working(f)' PROVE rsp' = sp'
    <3>1. p = Plan(f).last
      BY <1>2, <1>3, <1>4, <2>1, <2>5
    <3>2. Plan(f).lead[p + 1] = 0
      BY <1>4, <3>1 DEF Fits
    <3>3. sp' \in Int
      <4>1. sec.code[p] \in Insn /\ sp \in Int
        BY <1>1 DEF TypeOK, Section, Machines
      <4>2. sp' = Moved(sec.code[p], sp)
        BY <1>1 DEF Execute
      <4> QED
        BY <4>1, <4>2 DEF Moved, Insn
    <3> QED
      BY <2>3, <3>2, <3>3
  <2> QED
    BY <1>2, <2>3, <2>4, <2>5
<1>9. CASE \A f \in folds : p \notin span(f)
  <2>1. \A f \in folds : ~Working(f)
    BY <1>1, <1>2, <1>4, <1>9 DEF Working
  <2>2. rsp = sp
    BY <2>1 DEF FoldMachine
  <2>3. rsp' = sp' /\ rmem' = mem'
    BY <1>1, <1>7, <1>9, <2>2, StepOutside
  <2> QED
    BY <1>5, <1>9, <2>3
<1> QED
  BY <1>8, <1>9

-------------------------------------------------------------------------------
\* The zero runs.  A run is a..b, and what it is replaced with covers what it covers.
ZeroFits(s, z, a, b) ==
    /\ z.stores = a .. b
    /\ z.cover = zrun_cover(Lo(s, a, b), Hi(s, a, b))
    /\ zrun_store(s, a)
    /\ \A p \in a + 1 .. b : ~ZeroEnds(s, a, p)

LEMMA ZeroRunLemma ==
    ASSUME NEW s \in Section, NEW a \in Addresses, zrun_store(s, a),
           NEW b, b = Max(ZeroRun(s, a))
    PROVE  b \in a .. Size /\ ZeroFits(s, ZeroFinding(s, a), a, b)
<1>1. a \in 1 .. Size
  BY DEF Addresses
<1>2. a \in ZeroRun(s, a) /\ ZeroRun(s, a) \in SUBSET Addresses
  BY <1>1, SizeLemma DEF ZeroRun, Addresses
<1>3. b \in ZeroRun(s, a) /\ \A y \in ZeroRun(s, a) : y <= b
  BY <1>2, MaxLemma
<1>4. b \in a .. Size /\ \A p \in a + 1 .. b : ~ZeroEnds(s, a, p)
  BY <1>3 DEF ZeroRun
<1>5. ZeroRun(s, a) = a .. b
  <2>1. \A p \in a .. b : p \in ZeroRun(s, a)
    BY <1>1, <1>4, SizeLemma DEF ZeroRun
  <2>2. \A p \in ZeroRun(s, a) : p \in a .. b
    BY <1>1, <1>3, <1>4, SizeLemma DEF ZeroRun
  <2> QED
    BY <2>1, <2>2
<1> QED
  BY <1>4, <1>5 DEF ZeroFits, ZeroFinding

\* From and End of one store, and the cells of a run of them.
From(s, p) == s.code[p].k
End(s, p) == s.code[p].k + s.code[p].width
Zeroed(s, a, q) == {c \in Int : \E p \in a .. q : c \in From(s, p) .. End(s, p) - 1}

LEMMA StoreLemma ==
    ASSUME NEW s \in Section, NEW p \in Addresses
    PROVE  From(s, p) \in Int /\ End(s, p) \in Int /\ From(s, p) < End(s, p)
<1>1. s.code[p] \in Insn
  BY DEF Section
<1>2. s.code[p].k \in Int /\ s.code[p].width \in {1, 2, 4, 8}
  BY <1>1 DEF Insn
<1> QED
  BY <1>2 DEF From, End

\* The ends of a run's range are ends of stores of it.
Bounds(s, a, q, x, y) ==
    /\ x \in {From(s, p) : p \in a .. q} /\ \A p \in a .. q : x <= From(s, p)
    /\ y \in {End(s, p) : p \in a .. q} /\ \A p \in a .. q : y >= End(s, p)

LEMMA RangeExists ==
    ASSUME NEW s \in Section, NEW a \in Addresses, NEW b \in a .. Size
    PROVE  \E x, y : Bounds(s, a, b, x, y)
<1> DEFINE S == {n \in Nat : a + n <= Size => \E x, y : Bounds(s, a, a + n, x, y)}
<1>1. a \in 1 .. Size
  BY DEF Addresses
<1>2. ASSUME NEW n \in Nat, \A m \in Nat : m < n => m \in S PROVE n \in S
  <2> SUFFICES ASSUME a + n <= Size PROVE \E x, y : Bounds(s, a, a + n, x, y)
    OBVIOUS
  <2>1. CASE n = 0
    <3>1. a .. a + n = {a}
      BY <1>1, <2>1
    <3>2. Bounds(s, a, a + n, From(s, a), End(s, a))
      BY <3>1, StoreLemma DEF Bounds
    <3> QED
      BY <3>2
  <2>2. CASE n # 0
    <3>1. n - 1 \in Nat /\ n - 1 < n /\ a + (n - 1) <= Size
      BY <1>1, <2>2, SizeLemma
    <3>2. PICK x, y : Bounds(s, a, a + (n - 1), x, y)
      BY <1>2, <3>1
    <3>3. a .. a + n = (a .. a + (n - 1)) \cup {a + n} /\ a + n \in Addresses
      BY <1>1, <2>2, SizeLemma DEF Addresses
    <3>4. /\ x \in Int /\ y \in Int
          /\ \A p \in a .. a + n : From(s, p) \in Int /\ End(s, p) \in Int
      <4>1. \A p \in a .. a + n : p \in Addresses
        BY <1>1, SizeLemma DEF Addresses
      <4>2. \A p \in a .. a + n : From(s, p) \in Int /\ End(s, p) \in Int
        BY <4>1, StoreLemma
      <4> QED
        BY <3>2, <3>3, <4>2 DEF Bounds
    <3>5. \E u : u \in {From(s, p) : p \in a .. a + n} /\ \A p \in a .. a + n : u <= From(s, p)
      <4>1. CASE x <= From(s, a + n)
        BY <3>2, <3>3, <4>1 DEF Bounds
      <4>2. CASE ~(x <= From(s, a + n))
        <5>1. \A p \in a .. a + n : From(s, a + n) <= From(s, p)
          BY <3>2, <3>3, <3>4, <4>2 DEF Bounds
        <5> QED
          BY <3>3, <5>1
      <4> QED
        BY <4>1, <4>2
    <3>6. \E u : u \in {End(s, p) : p \in a .. a + n} /\ \A p \in a .. a + n : u >= End(s, p)
      <4>1. CASE y >= End(s, a + n)
        BY <3>2, <3>3, <4>1 DEF Bounds
      <4>2. CASE ~(y >= End(s, a + n))
        <5>1. \A p \in a .. a + n : End(s, a + n) >= End(s, p)
          BY <3>2, <3>3, <3>4, <4>2 DEF Bounds
        <5> QED
          BY <3>3, <5>1
      <4> QED
        BY <4>1, <4>2
    <3> QED
      BY <3>5, <3>6 DEF Bounds
  <2> QED
    BY <2>1, <2>2
<1>3. Nat \subseteq S
  <2> HIDE DEF S
  <2> QED
    BY <1>2, SetInduction
<1>4. b - a \in S /\ a + (b - a) = b /\ b <= Size
  BY <1>1, <1>3, SizeLemma
<1> QED
  BY <1>4

LEMMA RangeLemma ==
    ASSUME NEW s \in Section, NEW a \in Addresses, NEW b \in a .. Size
    PROVE  Bounds(s, a, b, Lo(s, a, b), Hi(s, a, b))
<1>1. PICK x, y : Bounds(s, a, b, x, y)
  BY RangeExists
<1>2. /\ Lo(s, a, b) = Min({From(s, p) : p \in a .. b})
      /\ Hi(s, a, b) = Max({End(s, p) : p \in a .. b})
  BY DEF Lo, Hi, From, End
<1> DEFINE L == {From(s, p) : p \in a .. b}
           H == {End(s, p) : p \in a .. b}
<1>3. \E u \in L : \A v \in L : u <= v
  BY <1>1 DEF Bounds
<1>4. \E u \in H : \A v \in H : u >= v
  BY <1>1 DEF Bounds
<1>5. Min(L) \in L /\ \A v \in L : Min(L) <= v
  <2> HIDE DEF L
  <2> QED
    BY <1>3 DEF Min
<1>6. Max(H) \in H /\ \A v \in H : Max(H) >= v
  <2> HIDE DEF H
  <2> QED
    BY <1>4 DEF Max
<1> QED
  BY <1>2, <1>5, <1>6 DEF Bounds

\* The range is what is zeroed: the stores leave no gap.
LEMMA ZeroedLemma ==
    ASSUME NEW s \in Section, NEW a \in Addresses, NEW b \in a .. Size,
           \A p \in a + 1 .. b : ~ZeroEnds(s, a, p)
    PROVE  /\ Zeroed(s, a, b) = Lo(s, a, b) .. Hi(s, a, b) - 1
           /\ Lo(s, a, b) \in Int /\ Hi(s, a, b) \in Int /\ Lo(s, a, b) < Hi(s, a, b)
<1> DEFINE Good(q) == /\ Zeroed(s, a, q) = Lo(s, a, q) .. Hi(s, a, q) - 1
                      /\ Lo(s, a, q) \in Int /\ Hi(s, a, q) \in Int
                      /\ Lo(s, a, q) < Hi(s, a, q)
           S == {n \in Nat : a + n <= b => Good(a + n)}
<1>1. a \in 1 .. Size /\ b \in Int /\ b <= Size
  BY SizeLemma DEF Addresses
<1>2. ASSUME NEW n \in Nat, \A m \in Nat : m < n => m \in S PROVE n \in S
  <2> SUFFICES ASSUME a + n <= b PROVE Good(a + n)
    OBVIOUS
  <2> DEFINE q == a + n
             l == Lo(s, a, q)
             h == Hi(s, a, q)
             x == From(s, q)
             y == End(s, q)
  <2>1. q \in a .. Size /\ q \in Addresses
    BY <1>1, SizeLemma DEF Addresses
  <2>2. Bounds(s, a, q, l, h) /\ x \in Int /\ y \in Int /\ x < y
    BY <2>1, RangeLemma, StoreLemma
  <2>3. CASE n = 0
    <3>1. q = a /\ a .. q = {a}
      BY <1>1, <2>3
    <3>2. l = x /\ h = y
      BY <2>2, <3>1 DEF Bounds
    <3>3. Zeroed(s, a, q) = x .. y - 1
      BY <2>2, <3>1 DEF Zeroed
    <3> QED
      BY <2>2, <3>2, <3>3
  <2>4. CASE n # 0
    <3> DEFINE r == a + (n - 1)
               k == Lo(s, a, r)
               i == Hi(s, a, r)
    <3>1. /\ n - 1 \in Nat /\ n - 1 < n /\ r <= b /\ r \in a .. Size
          /\ r = q - 1 /\ q \in a + 1 .. b /\ a .. q = (a .. r) \cup {q}
      BY <1>1, <2>4, SizeLemma
    <3>2. Good(r)
      BY <1>2, <3>1
    <3>3. Bounds(s, a, r, k, i)
      BY <3>1, RangeLemma
    <3>4. x = i \/ y = k
      BY <3>1 DEF ZeroEnds, From, End
    <3>5. Zeroed(s, a, q) = Zeroed(s, a, r) \cup (x .. y - 1)
      BY <2>2, <3>1 DEF Zeroed
    <3>6. Zeroed(s, a, r) = k .. i - 1 /\ k \in Int /\ i \in Int /\ k < i
      BY <3>2
    <3> HIDE DEF k, i, l, h, x, y, q, r
    <3>7. l \in Int /\ h \in Int
      <4>1. \A p \in a .. r : From(s, p) \in Int /\ End(s, p) \in Int
        <5>1. \A p \in a .. r : p \in Addresses
          BY <1>1, <3>1, SizeLemma DEF Addresses
        <5> QED
          BY <5>1, StoreLemma
      <4> QED
        BY <2>2, <3>1, <4>1 DEF Bounds, x, y
    <3>8. /\ l <= k /\ l <= x /\ (l = x \/ k <= l)
          /\ h >= i /\ h >= y /\ (h = y \/ i >= h)
      BY <2>2, <3>1, <3>3 DEF Bounds, x, y
    <3>9. CASE x = i
      <4>1. l = k /\ h = y
        BY <2>2, <3>6, <3>7, <3>8, <3>9
      <4> QED
        <5>1. Zeroed(s, a, q) = l .. h - 1 /\ l < h
          BY <2>2, <3>5, <3>6, <3>7, <3>9, <4>1
        <5> QED
          BY <3>7, <5>1 DEF q, l, h
    <3>10. CASE y = k
      <4>1. l = x /\ h = i
        BY <2>2, <3>6, <3>7, <3>8, <3>10
      <4> QED
        <5>1. Zeroed(s, a, q) = l .. h - 1 /\ l < h
          BY <2>2, <3>5, <3>6, <3>7, <3>10, <4>1
        <5> QED
          BY <3>7, <5>1 DEF q, l, h
    <3> QED
      BY <3>4, <3>9, <3>10
  <2> QED
    BY <2>3, <2>4
<1>3. Nat \subseteq S
  <2> HIDE DEF S
  <2> QED
    BY <1>2, SetInduction
<1>4. b - a \in Nat /\ a + (b - a) = b
  BY <1>1, SizeLemma
<1>5. b - a \in S
  BY <1>3, <1>4
<1>6. Good(a + (b - a))
  <2> HIDE DEF Good
  <2> QED
    BY <1>1, <1>4, <1>5
<1> QED
  BY <1>4, <1>6

\* The widest store there is room for.
LEMMA WidestLemma ==
    ASSUME NEW pos \in Int, NEW hi \in Int, pos < hi
    PROVE  /\ Widest(pos, hi) \in {1, 2, 4, 8}
           /\ pos % Widest(pos, hi) = 0 /\ pos + Widest(pos, hi) <= hi
           /\ \A w \in {1, 2, 4, 8} : pos % w = 0 /\ pos + w <= hi => w <= Widest(pos, hi)
<1> DEFINE S == {w \in {1, 2, 4, 8} : pos % w = 0 /\ pos + w <= hi}
<1>1. 1 \in S
  OBVIOUS
<1>2. S \subseteq {1, 2, 4, 8}
  OBVIOUS
<1>3. \E u \in S : \A v \in S : u >= v
  <2> HIDE DEF S
  <2>1. CASE 8 \in S
    BY <1>2, <2>1
  <2>2. CASE 8 \notin S /\ 4 \in S
    BY <1>2, <2>2
  <2>3. CASE 8 \notin S /\ 4 \notin S /\ 2 \in S
    BY <1>2, <2>3
  <2>4. CASE 8 \notin S /\ 4 \notin S /\ 2 \notin S
    BY <1>1, <1>2, <2>4
  <2> QED
    BY <2>1, <2>2, <2>3, <2>4
<1>4. Max(S) \in S /\ \A v \in S : Max(S) >= v
  <2> HIDE DEF S
  <2> QED
    BY <1>3 DEF Max
<1>5. Widest(pos, hi) = Max(S)
  BY DEF Widest
<1> DEFINE m == Max(S)
<1>6. m \in {1, 2, 4, 8} /\ pos % m = 0 /\ pos + m <= hi
  BY <1>4
<1>7. \A w \in {1, 2, 4, 8} : pos % w = 0 /\ pos + w <= hi => w <= m
  BY <1>4
<1> QED
  BY <1>5, <1>6, <1>7

\* zrun_cover exists and takes the range apart, store by store.
Covering(lo, hi, g) ==
    g = [pos \in lo .. hi |-> IF pos = hi THEN {}
                              ELSE {<<pos, Widest(pos, hi)>>} \cup g[pos + Widest(pos, hi)]]

LEMMA CoveringExists ==
    ASSUME NEW lo \in Int, NEW hi \in Int, lo <= hi
    PROVE  \E g : Covering(lo, hi, g)
<1> DEFINE S == {n \in Nat : \E g : Covering(hi - n, hi, g)}
<1>1. ASSUME NEW n \in Nat, \A m \in Nat : m < n => m \in S PROVE n \in S
  <2> DEFINE l == hi - n
             W(p) == Widest(p, hi)
  <2>1. CASE n = 0
    <3> DEFINE g == [p \in hi .. hi |-> {}]
    <3>1. l = hi /\ hi .. hi = {hi}
      BY <2>1
    <3>2. Covering(l, hi, g)
      BY <3>1 DEF Covering
    <3> QED
      BY <3>2
  <2>2. CASE n # 0
    <3>1. n - 1 \in Nat /\ n - 1 < n /\ l \in Int /\ l < hi /\ hi - (n - 1) = l + 1
      BY <2>2
    <3>2. PICK h : Covering(l + 1, hi, h)
      BY <1>1, <3>1
    <3>3. ASSUME NEW p \in l .. hi - 1
          PROVE  p + W(p) \in l + 1 .. hi /\ p + W(p) \in p + 1 .. hi
      <4>1. p \in Int /\ p < hi /\ l <= p
        BY <3>1
      <4>2. W(p) \in {1, 2, 4, 8} /\ p + W(p) <= hi
        BY <4>1, WidestLemma
      <4> QED
        BY <3>1, <4>1, <4>2
    <3> DEFINE g == [p \in l .. hi |-> IF p = l THEN {<<l, W(l)>>} \cup h[l + W(l)] ELSE h[p]]
    <3>4. ASSUME NEW p \in l .. hi
          PROVE  g[p] = IF p = hi THEN {} ELSE {<<p, W(p)>>} \cup g[p + W(p)]
      <4>1. CASE p = l
        <5>1. l + W(l) \in l .. hi /\ l + W(l) # l /\ l # hi
          BY <3>1, <3>3
        <5>2. g[l + W(l)] = h[l + W(l)]
          BY <5>1
        <5> QED
          BY <4>1, <5>1, <5>2
      <4>2. CASE p # l /\ p # hi
        <5>1. p \in l + 1 .. hi /\ p \in l .. hi - 1
          BY <3>1, <4>2
        <5>2. h[p] = {<<p, W(p)>>} \cup h[p + W(p)]
          BY <3>2, <4>2, <5>1 DEF Covering
        <5>3. p + W(p) \in l .. hi /\ p + W(p) # l
          BY <3>1, <3>3, <5>1
        <5>4. g[p + W(p)] = h[p + W(p)]
          BY <5>3
        <5> QED
          BY <4>2, <5>2, <5>4
      <4>3. CASE p # l /\ p = hi
        <5>1. h[hi] = {}
          BY <3>1, <3>2 DEF Covering
        <5> QED
          BY <4>3, <5>1
      <4> QED
        BY <4>1, <4>2, <4>3
    <3>5. g = [p \in l .. hi |-> g[p]]
      OBVIOUS
    <3> HIDE DEF g
    <3>6. Covering(l, hi, g)
      BY <3>4, <3>5 DEF Covering
    <3> QED
      BY <3>6
  <2> QED
    BY <2>1, <2>2
<1>2. Nat \subseteq S
  <2> HIDE DEF S
  <2> QED
    BY <1>1, SetInduction
<1>3. hi - lo \in S /\ hi - (hi - lo) = lo
  <2>1. hi - lo \in Nat /\ hi - (hi - lo) = lo
    OBVIOUS
  <2> QED
    BY <1>2, <2>1
<1> QED
  BY <1>3

LEMMA CoverLemma ==
    ASSUME NEW lo \in Int, NEW hi \in Int, lo <= hi
    PROVE  \E g : Covering(lo, hi, g) /\ zrun_cover(lo, hi) = g[lo]
<1> DEFINE g == CHOOSE f : Covering(lo, hi, f)
<1>1. Covering(lo, hi, g)
  BY CoveringExists
<1>2. zrun_cover(lo, hi) = g[lo]
  BY DEF zrun_cover, Covering
<1> QED
  BY <1>1, <1>2

\* What a cover from pos is: stores on their multiples that fill pos..hi - 1.
Tiled(C) == UNION {t[1] .. t[1] + t[2] - 1 : t \in C}
Tiles(C, pos, hi) ==
    /\ IsFiniteSet(C)
    /\ C \subseteq (pos .. hi - 1) \X {1, 2, 4, 8}
    /\ \A t \in C : t[1] % t[2] = 0 /\ t[1] + t[2] <= hi
    /\ Tiled(C) = pos .. hi - 1

LEMMA CoverTiles ==
    ASSUME NEW lo \in Int, NEW hi \in Int, NEW g, Covering(lo, hi, g),
           NEW pos \in lo .. hi
    PROVE  Tiles(g[pos], pos, hi)
<1> DEFINE S == {n \in Nat : hi - n >= lo => Tiles(g[hi - n], hi - n, hi)}
           W(p) == Widest(p, hi)
<1>1. ASSUME NEW n \in Nat, \A m \in Nat : m < n => m \in S PROVE n \in S
  <2> SUFFICES ASSUME hi - n >= lo PROVE Tiles(g[hi - n], hi - n, hi)
    OBVIOUS
  <2> DEFINE p == hi - n
             w == W(p)
             D == g[p + w]
  <2>1. p \in lo .. hi
    OBVIOUS
  <2>2. CASE n = 0
    <3>1. p = hi /\ g[p] = {} /\ p .. hi - 1 = {}
      BY <2>1, <2>2 DEF Covering
    <3> QED
      BY <3>1, FS_EmptySet DEF Tiles, Tiled
  <2>3. CASE n # 0
    <3>1. /\ p \in Int /\ p < hi /\ w \in {1, 2, 4, 8} /\ p % w = 0 /\ p + w <= hi
      BY <2>1, <2>3, WidestLemma
    <3>2. g[p] = {<<p, w>>} \cup D
      BY <2>1, <3>1 DEF Covering
    <3>3. n - w \in Nat /\ n - w < n /\ hi - (n - w) = p + w /\ p + w >= lo
      BY <2>1, <3>1
    <3>4. Tiles(D, p + w, hi)
      BY <1>1, <3>3
    <3> HIDE DEF p, w, D
    <3>5. IsFiniteSet(g[p])
      BY <3>2, <3>4, FS_AddElement DEF Tiles
    <3>6. g[p] \subseteq (p .. hi - 1) \X {1, 2, 4, 8}
      <4>1. p + w .. hi - 1 \subseteq p .. hi - 1 /\ p \in p .. hi - 1
        BY <3>1
      <4> QED
        BY <3>1, <3>2, <3>4, <4>1 DEF Tiles
    <3>7. \A t \in g[p] : t[1] % t[2] = 0 /\ t[1] + t[2] <= hi
      BY <3>1, <3>2, <3>4 DEF Tiles
    <3>8. Tiled(g[p]) = p .. hi - 1
      <4>1. Tiled(g[p]) = (p .. p + w - 1) \cup Tiled(D)
        <5> DEFINE t == <<p, w>>
        <5>1. t[1] .. t[1] + t[2] - 1 = p .. p + w - 1
          OBVIOUS
        <5>2. g[p] = {t} \cup D
          BY <3>2
        <5> HIDE DEF t
        <5>3. Tiled(g[p]) = (t[1] .. t[1] + t[2] - 1) \cup Tiled(D)
          BY <5>2 DEF Tiled
        <5> QED
          BY <5>1, <5>3
      <4>2. Tiled(D) = p + w .. hi - 1
        BY <3>4 DEF Tiles
      <4>3. (p .. p + w - 1) \cup (p + w .. hi - 1) = p .. hi - 1
        BY <3>1
      <4> QED
        BY <4>1, <4>2, <4>3
    <3> QED
      BY <3>5, <3>6, <3>7, <3>8 DEF Tiles, p
  <2> QED
    BY <2>2, <2>3
<1>2. Nat \subseteq S
  <2> HIDE DEF S
  <2> QED
    BY <1>1, SetInduction
<1>3. hi - pos \in Nat /\ hi - (hi - pos) = pos /\ pos >= lo
  OBVIOUS
<1>4. hi - pos \in S
  BY <1>2, <1>3
<1> QED
  BY <1>3, <1>4

\* Stores on their multiples are nested or apart.
LEMMA Nested ==
    ASSUME NEW pos \in Int, NEW x \in Int, NEW w \in {1, 2, 4, 8}, NEW u \in {1, 2, 4, 8},
           pos % w = 0, x % u = 0, pos <= x, x < pos + w, x + u > pos + w
    PROVE  x = pos /\ u > w
<1>1. CASE w = 1
  BY <1>1
<1>2. CASE w = 2
  <2>1. CASE u = 1
    BY <1>2, <2>1
  <2>2. CASE u = 2
    BY <1>2, <2>2
  <2>3. CASE u = 4
    BY <1>2, <2>3
  <2>4. CASE u = 8
    BY <1>2, <2>4
  <2> QED
    BY <2>1, <2>2, <2>3, <2>4
<1>3. CASE w = 4
  <2>1. CASE u = 1
    BY <1>3, <2>1
  <2>2. CASE u = 2
    BY <1>3, <2>2
  <2>3. CASE u = 4
    BY <1>3, <2>3
  <2>4. CASE u = 8
    BY <1>3, <2>4
  <2> QED
    BY <2>1, <2>2, <2>3, <2>4
<1>4. CASE w = 8
  <2>1. CASE u = 1
    BY <1>4, <2>1
  <2>2. CASE u = 2
    BY <1>4, <2>2
  <2>3. CASE u = 4
    BY <1>4, <2>3
  <2>4. CASE u = 8
    BY <1>4, <2>4
  <2> QED
    BY <2>1, <2>2, <2>3, <2>4
<1> QED
  BY <1>1, <1>2, <1>3, <1>4

\* Any other set of such stores for the same cells.
Tiling(T, pos, hi) ==
    /\ T \subseteq (pos .. hi - 1) \X {1, 2, 4, 8}
    /\ \A t \in T : t[1] % t[2] = 0 /\ t[1] + t[2] <= hi
    /\ \A c \in pos .. hi - 1 : \E t \in T : c \in t[1] .. t[1] + t[2] - 1

\* Behind the widest store at pos, what starts there is enough.
LEMMA TilingRest ==
    ASSUME NEW pos \in Int, NEW hi \in Int, pos < hi, NEW T, Tiling(T, pos, hi),
           NEW w, w = Widest(pos, hi)
    PROVE  /\ Tiling({t \in T : t[1] >= pos + w}, pos + w, hi)
           /\ \E t \in T : ~(t[1] >= pos + w)
<1>1. /\ w \in {1, 2, 4, 8} /\ pos % w = 0 /\ pos + w <= hi
      /\ \A u \in {1, 2, 4, 8} : pos % u = 0 /\ pos + u <= hi => u <= w
  BY WidestLemma
<1>2. \A t \in T : /\ t[1] \in Int /\ t[2] \in {1, 2, 4, 8} /\ t[1] >= pos /\ t[1] <= hi - 1
                   /\ t[1] % t[2] = 0 /\ t[1] + t[2] <= hi
                   /\ t = <<t[1], t[2]>>
  BY DEF Tiling
<1> DEFINE R == {t \in T : t[1] >= pos + w}
<1>3. R \subseteq (pos + w .. hi - 1) \X {1, 2, 4, 8}
  <2>1. ASSUME NEW t \in R PROVE t \in (pos + w .. hi - 1) \X {1, 2, 4, 8}
    <3>1. t[1] \in pos + w .. hi - 1 /\ t[2] \in {1, 2, 4, 8} /\ t = <<t[1], t[2]>>
      BY <1>1, <1>2
    <3> QED
      BY <3>1
  <2> QED
    BY <2>1
<1>4. ASSUME NEW c \in pos + w .. hi - 1 PROVE \E t \in R : c \in t[1] .. t[1] + t[2] - 1
  <2>1. c \in pos .. hi - 1
    BY <1>1
  <2>2. PICK t \in T : c \in t[1] .. t[1] + t[2] - 1
    BY <2>1 DEF Tiling
  <2>3. CASE t[1] >= pos + w
    BY <2>2, <2>3
  <2>4. CASE ~(t[1] >= pos + w)
    <3> DEFINE x == t[1]
               u == t[2]
    <3>1. /\ x \in Int /\ u \in {1, 2, 4, 8} /\ pos <= x /\ x < pos + w /\ x % u = 0
          /\ x + u <= hi
      BY <1>1, <1>2, <2>4
    <3>2. x + u > pos + w
      BY <1>1, <2>2, <3>1
    <3> HIDE DEF x, u
    <3>3. x = pos /\ u > w
      BY <1>1, <3>1, <3>2, Nested
    <3>4. u <= w
      BY <1>1, <3>1, <3>3
    <3> QED
      BY <1>1, <3>1, <3>3, <3>4
  <2> QED
    BY <2>3, <2>4
<1>5. Tiling(R, pos + w, hi)
  BY <1>2, <1>3, <1>4 DEF Tiling
<1>6. \E t \in T : ~(t[1] >= pos + w)
  <2>1. pos \in pos .. hi - 1
    OBVIOUS
  <2>2. PICK t \in T : pos \in t[1] .. t[1] + t[2] - 1
    BY <2>1 DEF Tiling
  <2>3. ~(t[1] >= pos + w)
    BY <1>1, <1>2, <2>2
  <2> QED
    BY <2>3
<1> QED
  BY <1>5, <1>6

LEMMA TilingFinite ==
    ASSUME NEW pos \in Int, NEW hi \in Int, NEW T, Tiling(T, pos, hi)
    PROVE  IsFiniteSet(T) /\ Cardinality(T) \in Nat
<1>1. IsFiniteSet(pos .. hi - 1)
  BY FS_Interval
<1>2. IsFiniteSet({1, 2, 4, 8})
  <2>1. IsFiniteSet(1 .. 8)
    <3>1. 1 \in Int /\ 8 \in Int
      OBVIOUS
    <3>2. \A i, j \in Int : IsFiniteSet(i .. j)
      BY FS_Interval
    <3> QED
      BY <3>1, <3>2
  <2>2. {1, 2, 4, 8} \in SUBSET (1 .. 8)
    OBVIOUS
  <2> QED
    BY <2>1, <2>2, FS_Subset
<1>3. IsFiniteSet((pos .. hi - 1) \X {1, 2, 4, 8})
  BY <1>1, <1>2, FS_Product
<1>4. IsFiniteSet(T)
  BY <1>3, FS_Subset DEF Tiling
<1> QED
  BY <1>4, FS_CardinalityType

\* The greedy cover is the least.
LEMMA GreedyIsLeast ==
    ASSUME NEW lo \in Int, NEW hi \in Int, NEW g, Covering(lo, hi, g),
           NEW pos \in lo .. hi, NEW T, Tiling(T, pos, hi)
    PROVE  Cardinality(g[pos]) <= Cardinality(T)
<1> DEFINE S == {n \in Nat : hi - n >= lo =>
                    \A X : Tiling(X, hi - n, hi) => Cardinality(g[hi - n]) <= Cardinality(X)}
<1>1. ASSUME NEW n \in Nat, \A m \in Nat : m < n => m \in S PROVE n \in S
  <2> SUFFICES ASSUME hi - n >= lo, NEW X, Tiling(X, hi - n, hi)
               PROVE  Cardinality(g[hi - n]) <= Cardinality(X)
    OBVIOUS
  <2> DEFINE p == hi - n
             w == Widest(p, hi)
             R == {t \in X : t[1] >= p + w}
  <2>1. p \in lo .. hi /\ p \in Int
    OBVIOUS
  <2>2. Cardinality(X) \in Nat /\ IsFiniteSet(X)
    BY <2>1, TilingFinite
  <2>3. CASE n = 0
    <3>1. g[p] = {}
      BY <2>1, <2>3 DEF Covering
    <3> QED
      BY <2>2, <3>1, FS_EmptySet
  <2>4. CASE n # 0
    <3>1. p < hi /\ w \in {1, 2, 4, 8} /\ p + w <= hi
      BY <2>1, <2>4, WidestLemma
    <3>2. g[p] = {<<p, w>>} \cup g[p + w]
      BY <2>1, <3>1 DEF Covering
    <3>3. n - w \in Nat /\ n - w < n /\ hi - (n - w) = p + w /\ p + w >= lo /\ p + w \in lo .. hi
      BY <2>1, <3>1
    <3>4. Tiling(R, p + w, hi) /\ \E t \in X : t \notin R
      BY <2>1, <3>1, TilingRest
    <3>5. Cardinality(g[p + w]) <= Cardinality(R)
      BY <1>1, <3>3, <3>4
    <3>6. IsFiniteSet(g[p + w]) /\ Cardinality(g[p + w]) \in Nat
      BY <3>3, CoverTiles, FS_CardinalityType DEF Tiles
    <3>7. R \subseteq X
      OBVIOUS
    <3> HIDE DEF p, w, R
    <3>8. IsFiniteSet(g[p]) /\ Cardinality(g[p]) <= Cardinality(g[p + w]) + 1
      <4> DEFINE D == g[p + w]
                 x == <<p, w>>
      <4>1. g[p] = D \cup {x} /\ IsFiniteSet(D) /\ Cardinality(D) \in Nat
        BY <3>2, <3>6
      <4> HIDE DEF D, x
      <4>2. /\ IsFiniteSet(D \cup {x})
            /\ Cardinality(D \cup {x}) = IF x \in D THEN Cardinality(D) ELSE Cardinality(D) + 1
        BY <4>1, FS_AddElement
      <4>3. IsFiniteSet(g[p]) /\ Cardinality(g[p]) <= Cardinality(D) + 1
        BY <4>1, <4>2
      <4> QED
        BY <4>3 DEF D
    <3>9. Cardinality(R) + 1 <= Cardinality(X) /\ Cardinality(R) \in Nat
      <4>1. PICK t \in X : t \notin R
        BY <3>4
      <4>2. IsFiniteSet(R) /\ Cardinality(R) \in Nat
        BY <2>1, <3>1, <3>3, <3>4, TilingFinite
      <4>3. Cardinality(R \cup {t}) = Cardinality(R) + 1
        BY <4>1, <4>2, FS_AddElement
      <4>4. R \cup {t} \in SUBSET X
        BY <3>7
      <4>5. Cardinality(R \cup {t}) <= Cardinality(X)
        BY <2>2, <4>4, FS_Subset
      <4> QED
        BY <4>2, <4>3, <4>5
    <3>10. Cardinality(g[p]) \in Nat
      BY <3>8, FS_CardinalityType
    <3>11. Cardinality(g[p]) <= Cardinality(X)
      BY <2>2, <3>5, <3>6, <3>8, <3>9, <3>10
    <3> QED
      BY <3>11 DEF p
  <2> QED
    BY <2>3, <2>4
<1>2. Nat \subseteq S
  <2> HIDE DEF S
  <2> QED
    BY <1>1, SetInduction
<1>3. hi - pos \in Nat /\ hi - (hi - pos) = pos /\ pos >= lo
  OBVIOUS
<1>4. hi - pos \in S
  BY <1>2, <1>3
<1> QED
  BY <1>3, <1>4

-------------------------------------------------------------------------------
\* What is known of the zero runs, and of the machine that runs them.
Zeros ==
    \A z \in zruns : \E a \in Addresses : \E b \in a .. Size :
        ZeroFits(sec, z, a, b) /\ b < zrun_end
ZerosApart == \A y, z \in zruns : y # z => y.stores \cap z.stores = {}

\* The next instruction is a store of z and not the first.  All that z covers has been
\* zeroed in one memory, what was run of z in both.
Zeroing(z) == pc \in z.stores /\ pc # Min(z.stores)
At(z, v) == Base(sec.code[Min(z.stores)], v)
Shifted(z, v) == {At(z, v) + c : c \in Covered(z)}
ZeroMachine ==
    family = "zero" =>
        /\ rsp = sp
        /\ \A z \in zruns :
              Zeroing(z) =>
                  /\ rmem = Fill(mem, Shifted(z, sp), 0)
                  /\ \A q \in Min(z.stores) .. pc - 1 :
                        \A c \in From(sec, q) .. End(sec, q) - 1 :
                            At(z, sp) + c \in Cells => mem[At(z, sp) + c] = 0
        /\ (\A z \in zruns : ~Zeroing(z)) => rmem = mem

LEMMA ZeroPlace ==
    ASSUME NEW s \in Section, NEW a \in Addresses, NEW b \in a .. Size, NEW z,
           ZeroFits(s, z, a, b)
    PROVE  /\ z.stores = a .. b /\ Min(z.stores) = a /\ Max(z.stores) = b
           /\ \A p \in a .. b : /\ s.code[p].op = "zero"
                                /\ s.code[p].base = s.code[a].base
                                /\ p # a => p \notin s.targets
           /\ Covered(z) = Zeroed(s, a, b)
<1>1. a \in 1 .. Size /\ z.stores = a .. b /\ a \in Int /\ b \in Int /\ a <= b
  BY SizeLemma DEF ZeroFits, Addresses
<1>2. Min(z.stores) = a /\ Max(z.stores) = b
  <2>1. /\ \A x : (x \in a .. b /\ \A y \in a .. b : x <= y) <=> x = a
        /\ \A x : (x \in a .. b /\ \A y \in a .. b : x >= y) <=> x = b
    BY <1>1
  <2>2. Min(z.stores) = a
    BY <1>1, <2>1 DEF Min
  <2>3. Max(z.stores) = b
    BY <1>1, <2>1 DEF Max
  <2> QED
    BY <2>2, <2>3
<1>3. ASSUME NEW p \in a .. b
      PROVE  /\ s.code[p].op = "zero"
             /\ s.code[p].base = s.code[a].base
             /\ p # a => p \notin s.targets
  <2>1. CASE p = a
    BY <2>1 DEF ZeroFits, zrun_store
  <2>2. CASE p # a
    <3>1. p \in a + 1 .. b
      BY <1>1, <2>2
    <3>2. ~ZeroEnds(s, a, p)
      BY <3>1 DEF ZeroFits
    <3> QED
      BY <3>2 DEF ZeroEnds, zrun_store
  <2> QED
    BY <2>1, <2>2
<1>4. Covered(z) = Zeroed(s, a, b)
  <2> DEFINE lo == Lo(s, a, b)
             hi == Hi(s, a, b)
  <2>1. Zeroed(s, a, b) = lo .. hi - 1 /\ lo \in Int /\ hi \in Int /\ lo < hi
    BY ZeroedLemma DEF ZeroFits
  <2>2. z.cover = zrun_cover(lo, hi)
    BY DEF ZeroFits
  <2> HIDE DEF lo, hi
  <2>3. PICK g : Covering(lo, hi, g) /\ zrun_cover(lo, hi) = g[lo]
    BY <2>1, CoverLemma
  <2>4. lo \in lo .. hi
    BY <2>1
  <2>5. Tiled(z.cover) = lo .. hi - 1
    BY <2>1, <2>2, <2>3, <2>4, CoverTiles DEF Tiles
  <2> QED
    BY <2>1, <2>5 DEF Tiled, Covered
<1> QED
  BY <1>1, <1>2, <1>3, <1>4

\* The scan finds zero runs that do not overlap.
LEMMA ScanZeros ==
    ASSUME TypeOK, Zeros, ZerosApart, Scan
    PROVE  Zeros' /\ ZerosApart'
<1> DEFINE new == ZeroFound(sec, at, zrun_end)
<1>1. PICK a \in Addresses : a = at
  BY DEF Scan
<1>2. sec' = sec /\ zruns' = zruns \cup new /\ sec \in Section /\ zrun_end \in Mark
  BY DEF Scan, TypeOK
<1>3. CASE ~JudgesZero(sec, at, zrun_end)
  <2>1. new = {} /\ zrun_end' = zrun_end
    BY <1>3 DEF Scan, ZeroFound
  <2>2. zruns' = zruns
    BY <1>2, <2>1
  <2> QED
    BY <1>2, <2>1, <2>2 DEF Zeros, ZerosApart
<1>4. CASE JudgesZero(sec, at, zrun_end)
  <2> DEFINE b == Max(ZeroRun(sec, a))
             y == ZeroFinding(sec, a)
  <2>1. b \in a .. Size /\ ZeroFits(sec, y, a, b)
    BY <1>1, <1>2, <1>4, ZeroRunLemma DEF JudgesZero
  <2>2. zrun_end' = b + 1 /\ a >= zrun_end
    BY <1>1, <1>4 DEF Scan, JudgesZero
  <2>3. \A z \in new : z = y
    BY <1>1 DEF ZeroFound
  <2> HIDE DEF b, y, new
  <2>4. a \in Int /\ b \in Int /\ zrun_end \in Int /\ b >= a
    BY <1>2, <2>1, SizeLemma DEF Addresses, Mark
  <2>5. Zeros'
    <3>1. ASSUME NEW z \in zruns'
          PROVE  \E c \in Addresses : \E d \in c .. Size :
                    ZeroFits(sec, z, c, d) /\ d < b + 1
      <4>1. CASE z \in zruns
        <5>0. PICK c \in Addresses : \E d \in c .. Size : ZeroFits(sec, z, c, d) /\ d < zrun_end
          BY <4>1 DEF Zeros
        <5>1. PICK d \in c .. Size : ZeroFits(sec, z, c, d) /\ d < zrun_end
          BY <5>0
        <5>2. d < b + 1
          BY <2>2, <2>4, <5>1, SizeLemma DEF Addresses
        <5> QED
          BY <5>1, <5>2
      <4>2. CASE z \in new
        BY <2>1, <2>3, <2>4, <4>2
      <4> QED
        BY <1>2, <4>1, <4>2
    <3> QED
      BY <1>2, <2>2, <3>1 DEF Zeros
  <2>6. \A z \in zruns : z.stores \cap y.stores = {}
    <3>1. ASSUME NEW z \in zruns PROVE z.stores \cap y.stores = {}
      <4>0. PICK c \in Addresses : \E d \in c .. Size : ZeroFits(sec, z, c, d) /\ d < zrun_end
        BY DEF Zeros
      <4>1. PICK d \in c .. Size : ZeroFits(sec, z, c, d) /\ d < zrun_end
        BY <4>0
      <4>2. z.stores = c .. d /\ y.stores = a .. b /\ c \in Int /\ d \in Int
        BY <2>1, <4>1, SizeLemma DEF ZeroFits, Addresses
      <4> QED
        BY <2>2, <2>4, <4>1, <4>2
    <3> QED
      BY <3>1
  <2>7. ZerosApart'
    BY <1>2, <2>3, <2>6 DEF ZerosApart
  <2> QED
    BY <2>5, <2>7
<1> QED
  BY <1>3, <1>4

\* What is filled twice.
LEMMA FillTwice ==
    ASSUME NEW m \in [Cells -> Int], NEW S, NEW C, S \subseteq C
    PROVE  /\ Fill(Fill(m, S, 0), C, 0) = Fill(m, C, 0)
           /\ (\A c \in Cells : c \in C => m[c] = 0) => Fill(m, C, 0) = m
<1>1. Fill(Fill(m, S, 0), C, 0) = Fill(m, C, 0)
  BY DEF Fill
<1>2. ASSUME \A c \in Cells : c \in C => m[c] = 0 PROVE Fill(m, C, 0) = m
  <2>1. \A c \in Cells : (IF c \in C THEN 0 ELSE m[c]) = m[c]
    BY <1>2
  <2>2. m = [c \in Cells |-> m[c]]
    OBVIOUS
  <2> QED
    BY <2>1, <2>2 DEF Fill
<1> QED
  BY <1>1, <1>2

\* One step of both machines at a store of z.
LEMMA StepZeroing ==
    ASSUME TypeOK, Machines, Zeros, ZerosApart, ZeroMachine, Execute, family = "zero",
           NEW z \in zruns, NEW p, p = pc, NEW a \in Addresses, NEW b \in a .. Size,
           ZeroFits(sec, z, a, b), p \in a .. b,
           NEW v, v = At(z, sp), NEW C, C = Shifted(z, sp)
    PROVE  /\ sp' = sp /\ rsp' = sp
           /\ rmem' = Fill(mem', C, 0) /\ mem' \in [Cells -> Int]
           /\ \A q \in a .. p : \A c \in From(sec, q) .. End(sec, q) - 1 :
                  v + c \in Cells => mem'[v + c] = 0
<1> DEFINE i == sec.code[p]
           S == v + i.k .. v + i.k + i.width - 1
<1>1. /\ sec \in Section /\ p \in Addresses /\ rsp = sp /\ sp \in Int
      /\ mem \in [Cells -> Int]
      /\ a \in Int /\ b \in Int /\ p \in Int /\ a <= p /\ p <= b
  BY SizeLemma DEF TypeOK, Execute, Machines, ZeroMachine, Addresses
<1>2. /\ z.stores = a .. b /\ Min(z.stores) = a
      /\ i.op = "zero" /\ i.base = sec.code[a].base
      /\ Covered(z) = Zeroed(sec, a, b)
  BY <1>1, ZeroPlace
<1>3. v = Base(i, sp) /\ v \in Int
  BY <1>1, <1>2 DEF At, Base
<1>4. /\ From(sec, p) = i.k /\ End(sec, p) = i.k + i.width
      /\ i.k \in Int /\ i.k + i.width \in Int
  <2>1. From(sec, p) = i.k /\ End(sec, p) = i.k + i.width
    BY DEF From, End
  <2>2. From(sec, p) \in Int /\ End(sec, p) \in Int
    BY <1>1, StoreLemma
  <2> QED
    BY <2>1, <2>2
<1>5. C = {v + c : c \in Zeroed(sec, a, b)}
  BY <1>2 DEF Shifted
<1>6. i.width \in Int
  BY <1>1 DEF Section, Insn
<1> HIDE DEF i
<1>7. S \subseteq C
  <2>1. ASSUME NEW x \in S PROVE x \in C
    <3>1. x - v \in Int /\ x - v \in i.k .. i.k + i.width - 1 /\ v + (x - v) = x
      BY <1>3, <1>4, <1>6
    <3>2. x - v \in Zeroed(sec, a, b)
      <4>1. \A c \in Int : c \in From(sec, p) .. End(sec, p) - 1
                                <=> i.k <= c /\ c <= i.k + i.width - 1
        BY <1>4, <1>6
      <4>2. x - v \in Int /\ x - v \in From(sec, p) .. End(sec, p) - 1 /\ p \in a .. b
        BY <1>3, <1>4, <1>6, <3>1, <4>1
      <4> QED
        BY <4>2 DEF Zeroed
    <3> QED
      BY <1>5, <3>1, <3>2
  <2> QED
    BY <2>1
<1>8. sp' = sp /\ rsp' = sp /\ mem' = Fill(mem, S, 0)
  <2>1. Moved(i, sp) = sp
    BY <1>2 DEF Moved
  <2>2. Written(i, sp, mem) = Fill(mem, S, 0)
    BY <1>2, <1>3 DEF Written
  <2> QED
    BY <1>1, <2>1, <2>2 DEF Execute, i
<1>9. mem' \in [Cells -> Int] /\ Fill(mem', C, 0) = Fill(mem, C, 0)
  <2>1. mem' \in [Cells -> Int]
    BY <1>1, <1>8 DEF Fill
  <2> HIDE DEF S
  <2>2. Fill(Fill(mem, S, 0), C, 0) = Fill(mem, C, 0)
    BY <1>1, <1>7, FillTwice
  <2> QED
    BY <1>8, <2>1, <2>2
<1>10. \A y \in zruns : p \in y.stores => y = z
  BY <1>2 DEF ZerosApart
<1>11. ZeroWritten(rmem) = IF p # a THEN rmem ELSE Fill(rmem, C, 0)
  <2>1. (CHOOSE y \in zruns : p \in y.stores) = z
    BY <1>2, <1>10
  <2>2. \E y \in zruns : p \in y.stores
    BY <1>2
  <2>3. p = a => {Base(sec.code[p], sp) + c : c \in Covered(z)} = C
    BY <1>2 DEF Shifted, At
  <2>4. pc = p /\ rsp = sp /\ Min(z.stores) = a
    BY <1>1, <1>2
  <2>5. ZeroWritten(rmem) =
            IF pc # Min(z.stores) THEN rmem
            ELSE Fill(rmem, {Base(sec.code[pc], rsp) + c : c \in Covered(z)}, 0)
    BY <2>1, <2>2 DEF ZeroWritten
  <2>6. CASE p = a
    BY <2>3, <2>4, <2>5, <2>6
  <2>7. CASE p # a
    BY <2>4, <2>5, <2>7
  <2> QED
    BY <2>6, <2>7
<1>12. rmem' = ZeroWritten(rmem)
  BY DEF Execute
<1>13. CASE p = a
  <2>1. \A y \in zruns : ~Zeroing(y)
    BY <1>2, <1>10, <1>13 DEF Zeroing
  <2>2. rmem = mem
    BY <2>1 DEF ZeroMachine
  <2>3. rmem' = Fill(mem', C, 0)
    BY <1>9, <1>11, <1>12, <1>13, <2>2
  <2>4. ASSUME NEW q \in a .. p, NEW c \in From(sec, q) .. End(sec, q) - 1, v + c \in Cells
        PROVE  mem'[v + c] = 0
    <3>1. q = p
      BY <1>1, <1>13
    <3>2. v + c \in S
      BY <1>3, <1>4, <1>6, <3>1
    <3> QED
      BY <1>8, <2>4, <3>2 DEF Fill
  <2> QED
    BY <1>8, <1>9, <2>3, <2>4
<1>14. CASE p # a
  <2>1. Zeroing(z)
    BY <1>2, <1>14 DEF Zeroing
  <2>2. /\ rmem = Fill(mem, C, 0)
        /\ \A q \in a .. p - 1 : \A c \in From(sec, q) .. End(sec, q) - 1 :
              v + c \in Cells => mem[v + c] = 0
    BY <1>2, <2>1 DEF ZeroMachine
  <2>3. rmem' = Fill(mem', C, 0)
    BY <1>9, <1>11, <1>12, <1>14, <2>2
  <2>4. ASSUME NEW q \in a .. p, NEW c \in From(sec, q) .. End(sec, q) - 1, v + c \in Cells
        PROVE  mem'[v + c] = 0
    <3>1. CASE q = p
      <4>1. v + c \in S
        BY <1>3, <1>4, <1>6, <3>1
      <4> QED
        BY <1>8, <2>4, <4>1 DEF Fill
    <3>2. CASE q # p
      <4>1. q \in a .. p - 1
        BY <1>1, <3>2
      <4>2. mem[v + c] = 0
        BY <2>2, <2>4, <4>1
      <4> QED
        BY <1>8, <2>4, <4>2 DEF Fill
    <3> QED
      BY <3>1, <3>2
  <2> QED
    BY <1>8, <1>9, <2>3, <2>4
<1> QED
  BY <1>13, <1>14

\* The rewritten memory is ahead of the other inside a zero run, and the same outside.
LEMMA ZeroStep ==
    ASSUME TypeOK, Machines, Zeros, ZerosApart, ZeroMachine, Execute
    PROVE  ZeroMachine'
<1>1. sec' = sec /\ zruns' = zruns /\ family' = family
  BY DEF Execute
<1>2. \A z : At(z, sp)' = At(z, sp') /\ Shifted(z, sp)' = Shifted(z, sp')
  BY <1>1 DEF At, Shifted
<1> SUFFICES ASSUME family = "zero"
             PROVE  /\ rsp' = sp'
                    /\ \A z \in zruns :
                          Zeroing(z)' =>
                              /\ rmem' = Fill(mem', Shifted(z, sp'), 0)
                              /\ \A q \in Min(z.stores) .. pc' - 1 :
                                    \A c \in From(sec, q) .. End(sec, q) - 1 :
                                        At(z, sp') + c \in Cells => mem'[At(z, sp') + c] = 0
                    /\ (\A z \in zruns : ~Zeroing(z)') => rmem' = mem'
  BY <1>1, <1>2 DEF ZeroMachine
<1>3. PICK p \in Addresses : p = pc
  BY DEF Execute
<1>4. pc' = p + 1 /\ p \in Int /\ pc' - 1 = p
  BY <1>3, SizeLemma DEF Execute, Addresses
<1>5. \A z \in zruns : \E a \in Addresses : \E b \in a .. Size :
          ZeroFits(sec, z, a, b) /\ z.stores = a .. b /\ Min(z.stores) = a
  <2>1. sec \in Section
    BY DEF TypeOK
  <2> QED
    BY <2>1, ZeroPlace DEF Zeros
<1>6. ASSUME NEW z \in zruns, Zeroing(z)' PROVE p \in z.stores
  <2>1. PICK a \in Addresses : \E b \in a .. Size :
            z.stores = a .. b /\ Min(z.stores) = a
    BY <1>5
  <2>2. PICK b \in a .. Size : z.stores = a .. b /\ Min(z.stores) = a
    BY <2>1
  <2>3. p + 1 \in a .. b /\ p + 1 # a
    BY <1>4, <1>6, <2>2 DEF Zeroing
  <2> QED
    BY <1>4, <2>2, <2>3, SizeLemma DEF Addresses
<1>7. CASE \E z \in zruns : p \in z.stores
  <2>1. PICK z \in zruns : p \in z.stores
    BY <1>7
  <2>2. PICK a \in Addresses : \E b \in a .. Size :
            ZeroFits(sec, z, a, b) /\ z.stores = a .. b /\ Min(z.stores) = a
    BY <1>5
  <2>3. PICK b \in a .. Size :
            ZeroFits(sec, z, a, b) /\ z.stores = a .. b /\ Min(z.stores) = a
    BY <2>2
  <2> DEFINE v == At(z, sp)
             C == Shifted(z, sp)
  <2>4. /\ sp' = sp /\ rsp' = sp
        /\ rmem' = Fill(mem', C, 0) /\ mem' \in [Cells -> Int]
        /\ \A q \in a .. p : \A c \in From(sec, q) .. End(sec, q) - 1 :
               v + c \in Cells => mem'[v + c] = 0
    BY <1>3, <2>1, <2>3, StepZeroing
  <2>5. \A y \in zruns : Zeroing(y)' => y = z
    BY <1>6, <2>1 DEF ZerosApart
  <2>6. ASSUME ~Zeroing(z)' PROVE rmem' = mem'
    <3>1. p = b
      BY <1>1, <1>4, <2>1, <2>3, <2>6, SizeLemma DEF Zeroing, Addresses
    <3>2. Covered(z) = Zeroed(sec, a, b)
      BY <2>3, ZeroPlace DEF TypeOK
    <3>3. ASSUME NEW x \in Cells, x \in C PROVE mem'[x] = 0
      <4>1. PICK c \in Zeroed(sec, a, b) : x = v + c
        BY <3>2, <3>3 DEF Shifted
      <4>2. PICK q \in a .. b : c \in From(sec, q) .. End(sec, q) - 1
        BY <4>1 DEF Zeroed
      <4> QED
        BY <2>4, <3>1, <3>3, <4>1, <4>2
    <3>4. Fill(mem', C, 0) = mem'
      <4> HIDE DEF C, v
      <4>1. PICK m \in [Cells -> Int] : m = mem'
        BY <2>4
      <4>2. Fill(m, C, 0) = m
        BY <3>3, <4>1, FillTwice
      <4> QED
        BY <4>1, <4>2
    <3> QED
      BY <2>4, <3>4
  <2> QED
    BY <1>4, <2>3, <2>4, <2>5, <2>6
<1>8. CASE \A z \in zruns : p \notin z.stores
  <2>1. \A z \in zruns : ~Zeroing(z)
    BY <1>3, <1>8 DEF Zeroing
  <2>2. rmem = mem /\ rsp = sp
    BY <2>1 DEF ZeroMachine
  <2>3. rmem' = Written(sec.code[p], sp, mem) /\ mem' = Written(sec.code[p], sp, mem)
    BY <1>3, <1>8, <2>2 DEF Execute, ZeroWritten
  <2>4. rsp' = sp'
    BY <2>2 DEF Execute
  <2> QED
    BY <1>6, <1>8, <2>3, <2>4
<1> QED
  BY <1>7, <1>8

-------------------------------------------------------------------------------
\* Everything together, and the steps that keep it.
BInv ==
    /\ TypeOK /\ Findings /\ FoldsDisjoint
    /\ FoldsFit /\ Zeros /\ ZerosApart
    /\ Machines /\ FoldMachine /\ ZeroMachine

LEMMA BehaviourInit == Init => BInv
<1> SUFFICES ASSUME Init PROVE BInv
  OBVIOUS
<1>1. TypeOK /\ Findings /\ FoldsDisjoint
  BY InvInit DEF IInv
<1>2. FoldsFit /\ Zeros /\ ZerosApart /\ FoldMachine /\ ZeroMachine
  BY DEF Init, FoldsFit, Zeros, ZerosApart, FoldMachine, ZeroMachine
<1>3. Start \in [Cells -> Int]
  BY DEF Start
<1>4. Machines
  BY <1>3 DEF Init, Machines
<1> QED
  BY <1>1, <1>2, <1>4 DEF BInv

LEMMA ScanBehaves == ASSUME BInv, Scan PROVE BInv'
<1>1. TypeOK /\ Findings /\ FoldsDisjoint /\ FoldsFit /\ Machines /\ sec \in Section
  BY DEF BInv, TypeOK
<1>2. (TypeOK /\ Findings /\ FoldsDisjoint)'
  BY <1>1, ScanKeeps DEF IInv
<1>3. Zeros' /\ ZerosApart'
  BY ScanZeros DEF BInv
<1>4. PICK a \in Addresses : a = at
  BY DEF Scan
<1>5. sec' = sec /\ UNCHANGED machines
  BY DEF Scan
<1>6. FoldsFit'
  <2> SUFFICES ASSUME NEW f \in folds' PROVE \E t : Fits(sec, f, t)
    BY <1>5 DEF FoldsFit
  <2>1. CASE f \in folds
    BY <1>1, <2>1 DEF FoldsFit
  <2>2. CASE f \in PushFound(sec, a, push_end)
    BY <1>1, <1>4, <2>2, NewPush, PushFits
  <2>3. CASE f \in ReleaseFound(sec, a, release_end)
    BY <1>1, <1>4, <2>3, NewRelease, ReleaseFits
  <2>4. CASE f \in ReserveFound(sec, a, push_end', release_last')
    <3>1. a + 1 \notin sec.targets
      BY <2>4 DEF ReserveFound
    <3>2. /\ f = Reserve(sec, a) /\ a + 1 \in Addresses
          /\ Adjust(sec, a) /\ Adjust(sec, a + 1) /\ sec.code[a + 1].k < 0
      BY <1>1, <1>4, <2>4, NewReserve
    <3> QED
      BY <1>1, <3>1, <3>2, ReserveFits
  <2> QED
    BY <1>4, <2>1, <2>2, <2>3, <2>4 DEF Scan
<1>7. pc = NotStarted
  <2>1. at # Size + 1
    BY <1>4, SizeLemma DEF Addresses
  <2> QED
    BY <1>1, <2>1 DEF Machines
<1>8. Machines' /\ FoldMachine' /\ ZeroMachine'
  BY <1>1, <1>5, <1>7 DEF machines, Machines, FoldMachine, ZeroMachine
<1> QED
  BY <1>2, <1>3, <1>6, <1>8 DEF BInv

\* What the machines leave alone.
LEMMA FindingsStay ==
    ASSUME BInv, Enter \/ Execute \/ UNCHANGED vars
    PROVE  /\ (TypeOK /\ Findings /\ FoldsDisjoint)'
           /\ (FoldsFit /\ Zeros /\ ZerosApart)'
<1>1. (TypeOK /\ Findings /\ FoldsDisjoint)'
  BY MachinesKeep DEF BInv, IInv
<1>2. sec' = sec /\ folds' = folds /\ zruns' = zruns /\ zrun_end' = zrun_end
  BY DEF Enter, Execute, vars, marks
<1>3. (FoldsFit /\ Zeros /\ ZerosApart)'
  BY <1>2 DEF BInv, FoldsFit, Zeros, ZerosApart
<1> QED
  BY <1>1, <1>3

LEMMA EnterBehaves == ASSUME BInv, Enter PROVE BInv'
<1>1. (TypeOK /\ Findings /\ FoldsDisjoint)' /\ (FoldsFit /\ Zeros /\ ZerosApart)'
  BY FindingsStay
<1>2. /\ at' = Size + 1 /\ sp' = sp /\ rsp' = rsp /\ mem' = mem /\ rmem' = rmem
      /\ rsp = sp /\ rmem = mem /\ sec' = sec /\ folds' = folds /\ zruns' = zruns
      /\ family' \in {"zero", "fold"}
  BY DEF Enter, BInv, Machines
<1>3. pc' \in Addresses /\ (pc' = 1 \/ pc' \in sec.targets)
  <2>1. sec.targets \subseteq Addresses /\ 1 \in Addresses
    BY SizeLemma DEF BInv, TypeOK, Section, Addresses
  <2> QED
    BY <2>1 DEF Enter
<1>4. Machines'
  <2>1. pc' # NotStarted
    BY <1>3 DEF Addresses, NotStarted
  <2> QED
    BY <1>2, <2>1 DEF BInv, Machines
<1>5. FoldMachine'
  <2>1. ASSUME NEW f \in folds PROVE ~Working(f)'
    <3>1. Fits(sec, f, Plan(f)) /\ Plan(f).first \in 1 .. Size /\ Plan(f).last \in 1 .. Size
      BY PlanFits, PlanBounds DEF BInv
    <3>2. Plan(f)' = Plan(f)
      BY <1>2 DEF Plan, Fits
    <3>3. ASSUME pc' \in Plan(f).first + 1 .. Plan(f).last PROVE FALSE
      <4>1. pc' # 1 /\ pc' \in Plan(f).first .. Plan(f).last /\ pc' # Plan(f).first
        BY <3>1, <3>3
      <4>2. pc' \notin sec.targets
        BY <3>1, <4>1 DEF Fits
      <4> QED
        BY <1>3, <4>1, <4>2
    <3> QED
      BY <3>2, <3>3 DEF Working
  <2> QED
    BY <1>2, <2>1 DEF FoldMachine
<1>6. ZeroMachine'
  <2>1. ASSUME NEW z \in zruns PROVE ~Zeroing(z)'
    <3>1. PICK a \in Addresses : \E b \in a .. Size : ZeroFits(sec, z, a, b)
      BY DEF BInv, Zeros
    <3>2. PICK b \in a .. Size : ZeroFits(sec, z, a, b)
      BY <3>1
    <3>3. sec \in Section
      BY DEF BInv, TypeOK
    <3>4. /\ z.stores = a .. b /\ Min(z.stores) = a
          /\ \A p \in a .. b : p # a => p \notin sec.targets
      BY <3>2, <3>3, ZeroPlace
    <3>5. ASSUME pc' \in a .. b, pc' # a PROVE FALSE
      <4>1. pc' # 1
        BY <3>5, SizeLemma DEF Addresses
      <4> QED
        BY <1>3, <3>4, <3>5, <4>1
    <3> QED
      BY <3>4, <3>5 DEF Zeroing
  <2> QED
    BY <1>2, <2>1 DEF ZeroMachine
<1> QED
  BY <1>1, <1>4, <1>5, <1>6 DEF BInv

\* Both machines hold integers.
LEMMA ExecuteTypes ==
    ASSUME BInv, Execute
    PROVE  /\ sp' \in Int /\ rsp' \in Int
           /\ mem' \in [Cells -> Int] /\ rmem' \in [Cells -> Int]
<1>1. PICK p \in Addresses : p = pc
  BY DEF Execute
<1>2. /\ sp \in Int /\ rsp \in Int /\ mem \in [Cells -> Int] /\ rmem \in [Cells -> Int]
      /\ p \in Int /\ sec.code[p] \in Insn
  BY SizeLemma DEF BInv, Machines, Addresses, TypeOK, Section
<1>3. \A m \in [Cells -> Int] : \A S : \A v \in Int : Fill(m, S, v) \in [Cells -> Int]
  BY DEF Fill
<1>4. ASSUME NEW m \in [Cells -> Int], NEW i, NEW v
      PROVE  Written(i, v, m) \in [Cells -> Int]
  <2>1. CASE i.op = "mem"
    <3>1. Written(i, v, m) = Fill(m, {v + i.k}, pc)
      BY <2>1 DEF Written
    <3> QED
      BY <1>1, <1>2, <1>3, <3>1
  <2>2. CASE i.op = "zero"
    <3> DEFINE S == Base(i, v) + i.k .. Base(i, v) + i.k + i.width - 1
    <3>1. Written(i, v, m) = Fill(m, S, 0)
      BY <2>2 DEF Written
    <3> HIDE DEF S
    <3> QED
      BY <1>3, <3>1
  <2>3. CASE i.op # "mem" /\ i.op # "zero"
    BY <2>3 DEF Written
  <2> QED
    BY <2>1, <2>2, <2>3
<1>5. \A m \in [Cells -> Int] : ZeroWritten(m) \in [Cells -> Int]
  BY <1>3, <1>4 DEF ZeroWritten
<1>6. Folded(p).k \in Int
  <2>1. /\ \A f \in folds : p \in DOMAIN f => Folded(p).k = f[p]
        /\ (\A f \in folds : p \notin DOMAIN f) => Folded(p).k = sec.code[p].k
    BY <1>1, FoldedLemma DEF BInv
  <2>2. \A f \in folds : p \in DOMAIN f => f[p] \in Int
    BY PlanFits DEF BInv, Fits
  <2>3. sec.code[p].k \in Int
    BY <1>2 DEF Insn
  <2> QED
    BY <2>1, <2>2, <2>3
<1>7. sec.code[p].k \in Int
  BY <1>2 DEF Insn
<1>8. \A i : i.k \in Int => \A v \in Int : Moved(i, v) \in Int
  BY DEF Moved
<1>9. sp' \in Int /\ rsp' \in Int
  BY <1>1, <1>2, <1>6, <1>7, <1>8 DEF Execute
<1>10. mem' \in [Cells -> Int] /\ rmem' \in [Cells -> Int]
  BY <1>2, <1>4, <1>5 DEF Execute
<1> QED
  BY <1>9, <1>10

LEMMA ExecuteBehaves == ASSUME BInv, Execute PROVE BInv'
<1>1. (TypeOK /\ Findings /\ FoldsDisjoint)' /\ (FoldsFit /\ Zeros /\ ZerosApart)'
  BY FindingsStay
<1>2. FoldMachine'
  BY FoldStep DEF BInv
<1>3. ZeroMachine'
  BY ZeroStep DEF BInv
<1>4. Machines'
  <2>1. pc # NotStarted /\ pc' # NotStarted
    BY SizeLemma DEF Execute, NotStarted, Addresses
  <2>2. family' = family /\ at' = at
    BY DEF Execute
  <2>3. family \in {"zero", "fold"} /\ at = Size + 1
    BY <2>1 DEF BInv, Machines
  <2> QED
    BY <2>1, <2>2, <2>3, ExecuteTypes DEF Machines
<1> QED
  BY <1>1, <1>2, <1>3, <1>4 DEF BInv

LEMMA StutterBehaves == ASSUME BInv, UNCHANGED vars PROVE BInv'
<1>1. (TypeOK /\ Findings /\ FoldsDisjoint)' /\ (FoldsFit /\ Zeros /\ ZerosApart)'
  BY FindingsStay
<1>2. /\ sec' = sec /\ at' = at /\ folds' = folds /\ zruns' = zruns /\ family' = family
      /\ pc' = pc /\ sp' = sp /\ mem' = mem /\ rsp' = rsp /\ rmem' = rmem
  BY DEF vars, machines
<1>3. \A f : Working(f)' <=> Working(f)
  BY <1>2 DEF Working, Plan, Fits
<1>4. \A f : Plan(f)' = Plan(f)
  BY <1>2 DEF Plan, Fits
<1>5. FoldMachine'
  BY <1>2, <1>3, <1>4 DEF BInv, FoldMachine
<1>6. ZeroMachine'
  BY <1>2 DEF BInv, ZeroMachine, Zeroing, At, Shifted
<1>7. Machines'
  BY <1>2 DEF BInv, Machines
<1> QED
  BY <1>1, <1>5, <1>6, <1>7 DEF BInv

LEMMA BehaviourInductive == Spec => []BInv
<1>1. BInv /\ [Next]_vars => BInv'
  BY ScanBehaves, EnterBehaves, ExecuteBehaves, StutterBehaves DEF Next
<1> QED
  BY <1>1, BehaviourInit, PTL DEF Spec

\* Nobody can tell the section from its rewritten form: whatever reads sp, every
\* transfer and every label finds the same sp and memory, and every instruction that
\* may read memory the same memory ("leave memory and sp exactly as the run did",
\* riscvlint.h), whatever the section, the limits and the findings.
THEOREM BehaviourKept == Spec => []SameBehaviour
<1>1. ASSUME BInv PROVE SameBehaviour
  <2> SUFFICES ASSUME pc # NotStarted
               PROVE  /\ pc = Size + 1 \/ pc \in sec.targets \/ sec.code[pc].op = "sees"
                            => sp = rsp /\ mem = rmem
                      /\ pc \in Addresses /\ sec.code[pc].op \in {"mem", "other"}
                            => mem = rmem
    BY DEF SameBehaviour
  <2>1. family \in {"zero", "fold"}
    BY <1>1 DEF BInv, Machines
  <2>2. CASE family = "fold"
    <3>1. ASSUME NEW f \in folds, Working(f)
          PROVE  ~(pc = Size + 1 \/ pc \in sec.targets \/ sec.code[pc].op = "sees")
      <4>1. Fits(sec, f, Plan(f)) /\ Plan(f).first \in 1 .. Size /\ Plan(f).last \in 1 .. Size
        BY <1>1, PlanFits, PlanBounds DEF BInv
      <4>2. /\ pc \in Plan(f).first .. Plan(f).last /\ pc # Plan(f).first
            /\ pc # Size + 1
        BY <3>1, <4>1, SizeLemma DEF Working
      <4> QED
        BY <4>1, <4>2 DEF Fits
    <3>2. rmem = mem /\ ((\A f \in folds : ~Working(f)) => rsp = sp)
      BY <1>1, <2>2 DEF BInv, FoldMachine
    <3> QED
      BY <3>1, <3>2
  <2>3. CASE family = "zero"
    <3>1. ASSUME NEW z \in zruns, Zeroing(z)
          PROVE  pc \in Addresses /\ pc \notin sec.targets /\ sec.code[pc].op = "zero"
      <4>1. PICK a \in Addresses : \E b \in a .. Size : ZeroFits(sec, z, a, b)
        BY <1>1 DEF BInv, Zeros
      <4>2. PICK b \in a .. Size : ZeroFits(sec, z, a, b)
        BY <4>1
      <4>3. sec \in Section
        BY <1>1 DEF BInv, TypeOK
      <4>4. /\ z.stores = a .. b /\ Min(z.stores) = a
            /\ \A p \in a .. b : /\ sec.code[p].op = "zero"
                                 /\ p # a => p \notin sec.targets
        BY <4>2, <4>3, ZeroPlace
      <4> QED
        BY <3>1, <4>4, SizeLemma DEF Zeroing, Addresses
    <3>2. rsp = sp /\ ((\A z \in zruns : ~Zeroing(z)) => rmem = mem)
      BY <1>1, <2>3 DEF BInv, ZeroMachine
    <3>3. pc \in Addresses => pc # Size + 1
      BY SizeLemma DEF Addresses
    <3> QED
      BY <3>1, <3>2, <3>3
  <2> QED
    BY <2>1, <2>2, <2>3
<1> QED
  BY <1>1, BehaviourInductive, PTL

\* What the section has reserved stays reserved at least as long: no fold lets the
\* rewritten sp rise above it, so nothing that was above sp comes to lie below it
\* ("nothing is read below sp", check_release_run).
THEOREM ReservedStays == Spec => []StackStaysReserved
<1>1. ASSUME BInv PROVE StackStaysReserved
  <2>1. sp \in Int /\ (family \notin {"zero", "fold"} => rsp = sp)
    BY <1>1 DEF BInv, Machines
  <2>2. CASE family = "fold"
    <3>1. CASE \E f \in folds : Working(f)
      <4>1. PICK f \in folds : Working(f)
        BY <3>1
      <4>2. Fits(sec, f, Plan(f)) /\ Plan(f).first \in 1 .. Size /\ Plan(f).last \in 1 .. Size
        BY <1>1, PlanFits, PlanBounds DEF BInv
      <4>3. pc \in Plan(f).first .. Plan(f).last /\ pc \in 1 .. Size + 1
        BY <4>1, <4>2, SizeLemma DEF Working
      <4>4. Plan(f).lead[pc] <= 0 /\ Plan(f).lead[pc] \in Int
        BY <4>2, <4>3 DEF Fits
      <4>5. rsp = sp + Plan(f).lead[pc]
        BY <1>1, <2>2, <4>1 DEF BInv, FoldMachine
      <4> QED
        BY <2>1, <4>4, <4>5 DEF StackStaysReserved
    <3>2. CASE \A f \in folds : ~Working(f)
      BY <1>1, <2>1, <2>2, <3>2 DEF BInv, FoldMachine, StackStaysReserved
    <3> QED
      BY <3>1, <3>2
  <2>3. CASE family = "zero"
    BY <1>1, <2>1, <2>3 DEF BInv, ZeroMachine, StackStaysReserved
  <2> QED
    BY <2>1, <2>2, <2>3 DEF StackStaysReserved
<1> QED
  BY <1>1, BehaviourInductive, PTL

\* No cover of a run's range by aligned stores has fewer than the greedy one ("Greedy
\* from the low end is minimal", zrun_cover).
THEOREM CoverLeast == Spec => []CoverIsLeast
<1>1. ASSUME BInv PROVE CoverIsLeast
  <2> SUFFICES ASSUME NEW z \in zruns
               PROVE  LET a == Min(z.stores)
                          b == Max(z.stores)
                      IN  /\ z.cover \in Tilings(Lo(sec, a, b), Hi(sec, a, b))
                          /\ \A T \in Tilings(Lo(sec, a, b), Hi(sec, a, b)) :
                                  Cardinality(z.cover) <= Cardinality(T)
    BY DEF CoverIsLeast
  <2>1. PICK a \in Addresses : \E b \in a .. Size : ZeroFits(sec, z, a, b)
    BY <1>1 DEF BInv, Zeros
  <2>2. PICK b \in a .. Size : ZeroFits(sec, z, a, b)
    BY <2>1
  <2>3. sec \in Section
    BY <1>1 DEF BInv, TypeOK
  <2>4. Min(z.stores) = a /\ Max(z.stores) = b
    BY <2>2, <2>3, ZeroPlace
  <2> DEFINE lo == Lo(sec, a, b)
             hi == Hi(sec, a, b)
  <2>5. lo \in Int /\ hi \in Int /\ lo < hi /\ z.cover = zrun_cover(lo, hi)
    BY <2>2, <2>3, ZeroedLemma DEF ZeroFits
  <2> HIDE DEF lo, hi
  <2>6. PICK g : Covering(lo, hi, g) /\ z.cover = g[lo]
    BY <2>5, CoverLemma
  <2>7. Tiles(z.cover, lo, hi)
    BY <2>5, <2>6, CoverTiles
  <2>8. z.cover \in Tilings(lo, hi)
    BY <2>7 DEF Tiles, Tiled, Tilings
  <2>9. ASSUME NEW T \in Tilings(lo, hi) PROVE Cardinality(z.cover) <= Cardinality(T)
    <3>1. Tiling(T, lo, hi) /\ lo \in lo .. hi
      BY <2>5 DEF Tiling, Tilings
    <3> QED
      BY <2>5, <2>6, <3>1, GreedyIsLeast
  <2> QED
    BY <2>4, <2>8, <2>9 DEF lo, hi
<1> QED
  BY <1>1, BehaviourInductive, PTL
===============================================================================
