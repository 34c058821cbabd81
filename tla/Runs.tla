--------------------------------- MODULE Runs ---------------------------------
(***************************************************************************)
(* The checks that judge a run of instructions at its first one:           *)
(* check_zero_store_run, check_push_run, check_release_run, and            *)
(* check_release_reserve, which takes the seam between the last two.  Each *)
(* walks ahead of the scan and leaves a watermark, so that the rest of the *)
(* run stays quiet.  When the scan is over, two machines run the section   *)
(* side by side: one as it is, the other with the findings applied.        *)
(*                                                                         *)
(* One address per instruction.  sp and s0 start at 0 in a memory of cells.*)
(* What a rewrite costs is not computed: dear says where it does not pay.  *)
(***************************************************************************)
EXTENDS Integers, FiniteSets, FiniteSetsExt

CONSTANTS
    Size,           \* instructions in a section
    Codes,          \* the sections scanned and run
    Notes,          \* what is known of their addresses
    PUSH_WALK, PUSH_ACCESSES,
    MaxDown, MaxUp, \* what one addi can subtract and add: 2048 and 2047
    MaxOff,         \* the largest offset of an access: 2047
    Cells           \* addresses of the memory

Addresses == 1 .. Size

\* adj is addi sp,sp,k.  mem is an access to k(sp), as large as one cell, and
\* zero a store of x0 to width cells at k of base.  sees is anything else that
\* names sp or that rv_stops_walk stops at, other what is left.
Insn == [op : {"adj", "mem", "zero", "sees", "other"}, k : Int,
         base : {"sp", "fp"}, width : {1, 2, 4, 8}]

Note == [targets : SUBSET Addresses, relocs : SUBSET Addresses, dear : SUBSET Addresses]

Section == [code : [Addresses -> Insn], targets : SUBSET Addresses,
            relocs : SUBSET Addresses, dear : SUBSET Addresses]

ASSUME RunsAssumption ==
    /\ Size \in Nat \ {0}
    /\ PUSH_WALK \in Nat /\ PUSH_ACCESSES \in Nat
    /\ MaxDown \in Nat /\ MaxUp \in Nat /\ MaxOff \in Nat
    /\ Cells \subseteq Int
    /\ Codes \subseteq [Addresses -> Insn]
    /\ Notes \subseteq Note

VARIABLES
    sec,            \* the section
    at,             \* where the scan is
    zrun_end, push_end, release_end, release_last,
    zruns, folds,   \* the findings
    family,         \* which of the two are applied
    pc,             \* the machines; NotStarted until the scan is over
    sp, mem,        \* the one that runs the section
    rsp, rmem       \* the one that runs it rewritten

None == 0           \* UINT64_MAX in the code
NotStarted == 0

marks == <<zrun_end, push_end, release_end, release_last>>
machines == <<family, pc, sp, mem, rsp, rmem>>
vars == <<sec, at, marks, zruns, folds, machines>>

-------------------------------------------------------------------------------
\* check_zero_store_run.
zrun_store(s, p) == s.code[p].op = "zero" /\ p \notin s.relocs
Lo(s, a, q) == Min({s.code[p].k : p \in a .. q})
Hi(s, a, q) == Max({s.code[p].k + s.code[p].width : p \in a .. q})

\* The run from a ends before q.
ZeroEnds(s, a, q) ==
    \/ q \in s.targets
    \/ ~zrun_store(s, q)
    \/ s.code[q].base # s.code[a].base
    \/ s.code[q].k # Hi(s, a, q - 1) /\ s.code[q].k + s.code[q].width # Lo(s, a, q - 1)
ZeroRun(s, a) == {q \in a .. Size : \A r \in a + 1 .. q : ~ZeroEnds(s, a, r)}

\* The widest store that starts at pos, on its own multiple, and ends by hi.
\* Mutant: ends before hi.
WidestShort(pos, hi) == Max({w \in {1, 2, 4, 8} : pos % w = 0 /\ (pos + w < hi \/ w = 1)})
Widest(pos, hi) == Max({w \in {1, 2, 4, 8} : pos % w = 0 /\ pos + w <= hi})
zrun_cover(lo, hi) ==
    LET from[pos \in lo .. hi] ==
            IF pos = hi THEN {}
            ELSE {<<pos, Widest(pos, hi)>>} \cup from[pos + Widest(pos, hi)]
    IN  from[lo]

JudgesZero(s, a, mark) == a >= mark /\ zrun_store(s, a)
ZeroFinding(s, a) ==
    LET run == ZeroRun(s, a)
    IN  [stores |-> run,
         cover |-> zrun_cover(Lo(s, a, Max(run)), Hi(s, a, Max(run)))]
ZeroFound(s, a, mark) ==
    {f \in (IF JudgesZero(s, a, mark) THEN {ZeroFinding(s, a)} ELSE {}) :
        /\ Cardinality(f.stores) >= 2
        /\ Cardinality(f.cover) < Cardinality(f.stores)
        /\ a \notin s.dear}

-------------------------------------------------------------------------------
\* What check_push_run (dir -1) and check_release_run (dir 1) share.
Adjust(s, p) == s.code[p].op = "adj"
Access(s, p) == s.code[p].op = "mem" \/ (s.code[p].op = "zero" /\ s.code[p].base = "sp")
\* What the adjustments from a to q add up to.
Total(s, a, q) ==
    LET sum[p \in 0 .. Size] ==
            IF p < a THEN 0
            ELSE IF Adjust(s, p) THEN sum[p - 1] + s.code[p].k ELSE sum[p - 1]
    IN  sum[q]
Limit(dir) == IF dir < 0 THEN MaxDown ELSE MaxUp

\* The run from a ends before q.  Mutant: a side entry does not end it.
EndsInside(s, a, q, dir) ==
    \/ q \in s.relocs
    \/ q - a > PUSH_WALK
    \/ s.code[q].op = "sees"
    \/ Adjust(s, q) /\ (dir * s.code[q].k <= 0 \/ dir * Total(s, a, q) > Limit(dir))
    \/ Access(s, q) /\ Cardinality({p \in a .. q - 1 : Access(s, p)}) = PUSH_ACCESSES
Ends(s, a, q, dir) ==
    \/ q \in s.targets
    \/ q \in s.relocs
    \/ q - a > PUSH_WALK
    \/ s.code[q].op = "sees"
    \/ Adjust(s, q) /\ (dir * s.code[q].k <= 0 \/ dir * Total(s, a, q) > Limit(dir))
    \/ Access(s, q) /\ Cardinality({p \in a .. q - 1 : Access(s, p)}) = PUSH_ACCESSES
Run(s, a, dir) == {q \in a .. Size : \A r \in a + 1 .. q : ~Ends(s, a, r, dir)}
Adjusts(s, a, dir) == {q \in Run(s, a, dir) : Adjust(s, q)}

Judges(s, a, dir, mark) ==
    /\ a >= mark
    /\ Adjust(s, a) /\ dir * s.code[a].k > 0
    /\ a \notin s.relocs

\* What the fold makes of the constants: the adjustments become one, and the
\* accesses are re-offset by what it moved past them.
Push(s, a) ==
    LET total == Total(s, a, Max(Adjusts(s, a, -1)))
    IN  [p \in {q \in Run(s, a, -1) : Adjust(s, q) \/ Access(s, q)} |->
            IF p = a THEN total
            ELSE IF Adjust(s, p) THEN 0
            ELSE s.code[p].k - (total - Total(s, a, p))]
\* Mutant: the one release is put where the first was.
ReleaseFirst(s, a) ==
    LET last == Max(Adjusts(s, a, 1))
    IN  [p \in {q \in Run(s, a, 1) : q <= last /\ (Adjust(s, q) \/ Access(s, q))} |->
            IF p = a THEN Total(s, a, last)
            ELSE IF Adjust(s, p) THEN 0
            ELSE s.code[p].k - (Total(s, a, last) - Total(s, a, p))]
Release(s, a) ==
    LET last == Max(Adjusts(s, a, 1))
    IN  [p \in {q \in Run(s, a, 1) : q <= last /\ (Adjust(s, q) \/ Access(s, q))} |->
            IF p = last THEN Total(s, a, last)
            ELSE IF Adjust(s, p) THEN 0
            ELSE s.code[p].k + Total(s, a, p)]

Pays(s, a, dir, fold) ==
    /\ Cardinality(Adjusts(s, a, dir)) >= 2
    /\ \A p \in DOMAIN fold : Access(s, p) => fold[p] <= MaxOff
    /\ a \notin s.dear

\* The findings of the two checks at a, the watermark being mark.
PushFound(s, a, mark) ==
    IF Judges(s, a, -1, mark) /\ Pays(s, a, -1, Push(s, a)) THEN {Push(s, a)} ELSE {}
ReleaseFound(s, a, mark) ==
    IF Judges(s, a, 1, mark) /\ Pays(s, a, 1, Release(s, a)) THEN {Release(s, a)} ELSE {}

\* Mutant: one address further.
PushEndPast(s, a) == Max({q \in Run(s, a, -1) : Adjust(s, q) \/ Access(s, q)}) + 2
PushEnd(s, a) == Max({q \in Run(s, a, -1) : Adjust(s, q) \/ Access(s, q)}) + 1
ReleaseEnd(s, a) == Max(Adjusts(s, a, 1)) + 1

\* Mutant: the last release of a reported run is not noted.
LastUnnoted(s, a, mark, last) == last
ReleaseLast(s, a, mark, last) == IF ReleaseFound(s, a, mark) = {} THEN last
                                 ELSE Max(Adjusts(s, a, 1))

\* check_release_reserve at a, with the marks the other two have left.
Reserve(s, a) == [p \in {a, a + 1} |-> IF p = a THEN Total(s, a, a + 1) ELSE 0]
ReserveFound(s, a, mark, last) ==
    IF /\ a + 1 \in Addresses
       /\ Adjust(s, a) /\ s.code[a].k > 0
       /\ Adjust(s, a + 1) /\ s.code[a + 1].k < 0
       /\ a + 1 \notin s.targets
       /\ {a, a + 1} \cap s.relocs = {}
       /\ a # last
       /\ PushFound(s, a + 1, mark) = {}
       /\ a \notin s.dear
    THEN {Reserve(s, a)} ELSE {}

-------------------------------------------------------------------------------
Start == [c \in Cells |-> -1]

Init == /\ \E c \in Codes, n \in Notes :
               sec = [code |-> c, targets |-> n.targets,
                      relocs |-> n.relocs, dear |-> n.dear]
        /\ at = 1
        /\ zrun_end = 0 /\ push_end = 0 /\ release_end = 0 /\ release_last = None
        /\ zruns = {} /\ folds = {}
        /\ family = "none" /\ pc = NotStarted
        /\ sp = 0 /\ rsp = 0 /\ mem = Start /\ rmem = Start

\* riscvlint_scan: the four checks on one instruction, in their order.
Scan == /\ at \in Addresses
        /\ at' = at + 1
        /\ zrun_end' = IF JudgesZero(sec, at, zrun_end) THEN Max(ZeroRun(sec, at)) + 1
                       ELSE zrun_end
        /\ push_end' = IF Judges(sec, at, -1, push_end) THEN PushEnd(sec, at) ELSE push_end
        /\ release_end' = IF Judges(sec, at, 1, release_end) THEN ReleaseEnd(sec, at)
                          ELSE release_end
        /\ release_last' = ReleaseLast(sec, at, release_end, release_last)
        /\ zruns' = zruns \cup ZeroFound(sec, at, zrun_end)
        /\ folds' = folds \cup PushFound(sec, at, push_end)
                          \cup ReleaseFound(sec, at, release_end)
                          \cup ReserveFound(sec, at, push_end', release_last')
        /\ UNCHANGED <<sec, machines>>

\* The machines start together, at the top of the section or at a side entry.
Enter == /\ at = Size + 1 /\ pc = NotStarted
         /\ family' \in (IF zruns = {} THEN {} ELSE {"zero"})
                            \cup (IF folds = {} THEN {} ELSE {"fold"})
         /\ pc' \in {1} \cup sec.targets
         /\ UNCHANGED <<sec, at, marks, zruns, folds, sp, mem, rsp, rmem>>

\* The instruction at p with its fold applied.
Folded(p) ==
    IF \E f \in folds : p \in DOMAIN f
    THEN [sec.code[p] EXCEPT !.k = (CHOOSE f \in folds : p \in DOMAIN f)[p]]
    ELSE sec.code[p]

Moved(i, v) == IF i.op = "adj" THEN v + i.k ELSE v
Base(i, v) == IF i.base = "sp" THEN v ELSE 0
Fill(m, S, v) == [c \in Cells |-> IF c \in S THEN v ELSE m[c]]
Written(i, v, m) ==
    CASE i.op = "mem"  -> Fill(m, {v + i.k}, pc)
      [] i.op = "zero" -> LET c == Base(i, v) + i.k
                          IN  Fill(m, c .. c + i.width - 1, 0)
      [] OTHER         -> m

\* A zero run's cover stands where its first store was.
Covered(z) == UNION {t[1] .. t[1] + t[2] - 1 : t \in z.cover}
ZeroWritten(m) ==
    IF ~\E z \in zruns : pc \in z.stores THEN Written(sec.code[pc], rsp, m)
    ELSE LET z == CHOOSE y \in zruns : pc \in y.stores
         IN  IF pc # Min(z.stores) THEN m
             ELSE Fill(m, {Base(sec.code[pc], rsp) + c : c \in Covered(z)}, 0)

Execute ==
    /\ pc \in Addresses
    /\ pc' = pc + 1
    /\ sp' = Moved(sec.code[pc], sp)
    /\ mem' = Written(sec.code[pc], sp, mem)
    /\ IF family = "fold" THEN /\ rsp' = Moved(Folded(pc), rsp)
                               /\ rmem' = Written(Folded(pc), rsp, rmem)
                          ELSE /\ rsp' = Moved(sec.code[pc], rsp)
                               /\ rmem' = ZeroWritten(rmem)
    /\ UNCHANGED <<sec, at, marks, zruns, folds, family>>

Next == Scan \/ Enter \/ Execute

Spec == Init /\ [][Next]_vars

-------------------------------------------------------------------------------
\* The watermarks are addresses of the section or its end, and what is rewritten
\* lies in it.
Mark == 0 .. Size + 1
TypeOK == /\ sec \in Section
          /\ at \in Mark
          /\ zrun_end \in Mark /\ push_end \in Mark /\ release_end \in Mark
          /\ release_last \in Addresses \cup {None}
          /\ \A z \in zruns : z.stores \subseteq Addresses
          /\ \A f \in folds : DOMAIN f \subseteq Addresses
          /\ family \in {"none", "zero", "fold"}
          /\ pc \in 0 .. Size + 1

\* No instruction is in two findings of the stack-pointer checks ("no addi may be
\* counted twice", check_release_reserve).
FoldsDisjoint ==
    \A f, g \in folds : f # g => DOMAIN f \cap DOMAIN g = {}

\* Nobody can tell the section from its rewritten form: whatever reads sp, every
\* transfer and every label finds the same sp and the same memory, and every
\* other instruction that may read memory finds the same memory ("leave memory
\* and sp exactly as the run did", riscvlint.h).
SameBehaviour ==
    pc # NotStarted =>
        /\ pc = Size + 1 \/ pc \in sec.targets \/ sec.code[pc].op = "sees"
              => sp = rsp /\ mem = rmem
        /\ pc \in Addresses /\ sec.code[pc].op \in {"mem", "other"} => mem = rmem

\* What the section has reserved stays reserved at least as long: the rewritten sp
\* is never above it ("nothing is read below sp", check_release_run).
StackStaysReserved == rsp <= sp

\* No other cover of a run's range by aligned stores has fewer ("Greedy from the
\* low end is minimal", zrun_cover).
Tilings(lo, hi) ==
    {T \in SUBSET {s \in (lo .. hi - 1) \X {1, 2, 4, 8} :
                        s[1] % s[2] = 0 /\ s[1] + s[2] <= hi} :
        \A c \in lo .. hi - 1 : \E s \in T : c \in s[1] .. s[1] + s[2] - 1}
CoverIsLeast ==
    at = Size + 1 /\ pc = NotStarted =>
        \A z \in zruns :
            LET a == Min(z.stores)
                b == Max(z.stores)
            IN  /\ z.cover \in Tilings(Lo(sec, a, b), Hi(sec, a, b))
                /\ \A T \in Tilings(Lo(sec, a, b), Hi(sec, a, b)) :
                        Cardinality(z.cover) <= Cardinality(T)
===============================================================================
