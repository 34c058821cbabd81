------------------------------- MODULE JumpRules -------------------------------
(***************************************************************************)
(* The two checks that look beyond the straight line: a transfer to a jump *)
(* is threaded to where the jump goes, and a tail that every jump to one   *)
(* label repeats is kept once, before the label.                           *)
(***************************************************************************)
EXTENDS BranchRules

CONSTANTS THREAD_HOPS, CROSS_TAIL

ASSUME JumpAssumption == {THREAD_HOPS, CROSS_TAIL} \subseteq Nat

-------------------------------------------------------------------------------
\* The unconditional jump at p: [to, wrote], none where there is none.
thread_jump_at(s, p) ==
    IF ~InSection(s, p) \/ is_relocated(s, p) THEN {}
    ELSE IF rv_decode_jump(s.code[p])
         THEN When(s.code[p].rd = 0, {[to |-> s.code[p].to, wrote |-> {}]})
    ELSE IF IsPair(s.code, p)
         THEN When(~is_relocated(s, p + 1) /\ s.code[p + 1].rd = 0,
                   {[to |-> PairGoes(s.code, p), wrote |-> {s.code[p].rd}]})
    ELSE {}

Reaches(s, a, p) ==
    IF s.code[a].op \in Branches THEN Distance(a, p) <= BranchReach ELSE rv_jal_reaches(a, p)

\* The transfer at a can be threaded on through jump, past what wrote regs before.
\* Mutant: what the jump writes itself is not asked about.
GoesOnPast(s, a, jump, regs) ==
    /\ Reaches(s, a, jump.to)
    /\ \A r \in regs : DeadAt(s, jump.to, r)
GoesOn(s, a, jump, regs) ==
    /\ Reaches(s, a, jump.to)
    /\ \A r \in regs \cup jump.wrote : DeadAt(s, jump.to, r)

\* Where the transfer at a ends up: the jumps it passes, the registers they write.
Threaded(s, a) ==
    LET start == [at |-> s.code[a].to, regs |-> {}, passed |-> {}]
        after[h \in 0 .. THREAD_HOPS] ==
            IF h = 0 THEN start
            ELSE LET t == after[h - 1]
                     on == {j \in thread_jump_at(s, t.at) :
                               j.to # t.at /\ GoesOn(s, a, j, t.regs)}
                 IN  IF on = {} THEN t
                     ELSE LET j == CHOOSE k \in on : TRUE
                          IN  [at |-> j.to, regs |-> t.regs \cup j.wrote,
                               passed |-> t.passed \cup
                                   {t.at, IF j.wrote = {} THEN t.at ELSE t.at + 1}]
    IN  after[THREAD_HOPS]

check_transfer_to_jump(s, a) ==
    LET i == s.code[a]
        t == Threaded(s, a)
        instead == IF t.at = a + 1 THEN <<>> ELSE <<[i EXCEPT !.to = t.at]>>
    IN  IF /\ i.op \in Relative /\ ~is_relocated(s, a)
           /\ i.to # a + 1
           /\ check_branch_over_jump(s, a) = {}
        THEN When(t.passed # {} /\ (t.at = a + 1 => i.rd = 0),
                  {Finding("transfer_to_jump",
                     [p \in {a} \cup t.passed |-> IF p = a THEN instead ELSE <<s.code[p]>>])})
        ELSE {}

-------------------------------------------------------------------------------
\* The label the jump at a goes to, none where there is no jump to a label.
LabelOf(s, a) ==
    LET i == s.code[a]
        at == CASE rv_decode_jump(i) /\ i.rd = 0 -> {i.to}
                [] IsPair(s.code, a) ->
                     When(/\ s.code[a + 1].rd = 0
                          /\ ~is_branch_target(s, a + 1) /\ ~is_relocated(s, a + 1),
                          {PairGoes(s.code, a)})
                [] OTHER -> {}
    IN  {p \in at : InSection(s, p)}

Sites(s, label) == {t.site : t \in {u \in s.preds : u.target = label}}
FirstOf(S) == CHOOSE p \in S : \A q \in S : p <= q

\* The instruction j places before every site is the same, and nothing but
\* it leads on.
TailStep(s, sites, j) ==
    \A p \in sites :
        /\ ~is_branch_target(s, p - j + 1)
        /\ InSection(s, p - j) /\ ~is_relocated(s, p - j)
        /\ ~rv_stops_walk(s.code[p - j]) /\ ~rv_decode_auipc(s.code[p - j])
        /\ s.code[p - j] = s.code[FirstOf(sites) - j]
TailLength(s, sites) ==
    Cardinality({k \in 1 .. CROSS_TAIL :
        \A j \in 1 .. k : (\A p \in sites : InSection(s, p - j)) /\ TailStep(s, sites, j)})

\* Moved: the tail stands before the label and nowhere else.
Moved(s, sites, label, k) ==
    LET tails == UNION {p - k .. p - 1 : p \in sites}
        jumps == UNION {IF rv_decode_jump(s.code[p]) THEN {p} ELSE {p, p + 1} : p \in sites}
        tail == [j \in 1 .. k |-> s.code[FirstOf(sites) - k + j - 1]]
    IN  [p \in {label} \cup tails \cup jumps |->
            (IF p = label THEN tail ELSE <<>>) \o (IF p \in tails THEN <<>> ELSE <<s.code[p]>>)]

check_cross_jump(s, a) ==
    LET label == CHOOSE p \in LabelOf(s, a) : TRUE
        sites == Sites(s, label)
        k == TailLength(s, sites)
    IN  IF is_relocated(s, a) \/ LabelOf(s, a) = {} THEN {}
        ELSE IF label \in s.nonjump \/ Cardinality(sites) < 2 THEN {}
        ELSE When(/\ a = FirstOf(sites)
                  /\ InSection(s, label - 1) /\ rv_no_fall_through(s.code[label - 1])
                  /\ k > 0
                  /\ \A p \in sites : rv_decode_jump(s.code[p]) => rv_jal_reaches(p, label - k),
                  {Finding("cross_jump", Moved(s, sites, label, k))})

JumpFindings(s, a) == check_transfer_to_jump(s, a) \cup check_cross_jump(s, a)
===============================================================================
