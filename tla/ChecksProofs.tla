----------------------------- MODULE ChecksProofs -----------------------------
(***************************************************************************)
(* What is proved of the scan with the checks of a few instructions, for   *)
(* all sections: the add in front of a load belongs to one finding, and    *)
(* the rewrites of branches, values, accesses and constants and the        *)
(* transfers that are threaded do what the code did.                       *)
(***************************************************************************)
EXTENDS Checks, RulesProofs

-------------------------------------------------------------------------------
(* The claim a deeper fold leaves behind.                                  *)

\* The last of an interval is its upper end (LastOf).
LEMMA LastOfInterval ==
    ASSUME NEW a \in Int, NEW b \in Int, a <= b
    PROVE  LastOf(a .. b) = b
<1> DEFINE P(p) == p \in a .. b /\ \A q \in a .. b : q <= p
<1>1. P(b)
    OBVIOUS
<1>2. P(CHOOSE p : P(p))
    BY <1>1
<1>3. LastOf(a .. b) = CHOOSE p : P(p)
    BY DEF LastOf
<1> QED
    BY <1>2, <1>3

\* The add of a fold of n instructions from a is the one before the last (AddOf, Fold).
LEMMA AddOfFold ==
    ASSUME NEW a \in Int, NEW n \in Nat \ {0}, NEW rule, NEW is,
           NEW f \in Fold(rule, a, n, is)
    PROVE  /\ AddOf(f) = a + n - 2
           /\ f.rule = rule
<1>1. DOMAIN f.patch = a .. a + n - 1 /\ f.rule = rule
    BY DEF Fold, Finding
<1> QED
    BY <1>1, LastOfInterval DEF AddOf

\* A scaled fold at a has a shift up at a, an add behind it, and claims that add.
LEMMA ScaledClaims ==
    ASSUME NEW s, NEW a \in Int, NEW f \in check_scaled_indexed_load(s, a)
    PROVE  /\ AddOf(f) = a + 1
           /\ f.rule = "scaled_indexed_load"
           /\ s.code[a].op = "sll" /\ s.code[a + 1].op = "add"
<1> DEFINE j == s.code[a + 2]
           is == Lxs(j, Beside(s.code[a + 1], s.code[a].rd), s.code[a].a, j.n, FALSE)
<1>1. /\ f \in Fold("scaled_indexed_load", a, 3, is)
      /\ s.code[a].op = "sll" /\ s.code[a + 1].op = "add"
    BY DEF check_scaled_indexed_load, When, rv_decode_slli, Immediate, Adds, rv_decode_add
<1> HIDE DEF is
<1> QED
    BY <1>1, AddOfFold

\* One with the zero-extension has a shift up at a, a shift down behind it, and claims
\* the add behind both.
LEMMA ZextClaims ==
    ASSUME NEW s, NEW a \in Int, NEW f \in check_zext_indexed_load(s, a)
    PROVE  /\ AddOf(f) = a + 2
           /\ f.rule = "zext_indexed_load"
           /\ s.code[a].op = "sll" /\ s.code[a + 1].op = "srl"
<1> DEFINE j == s.code[a + 3]
           is == Lxs(j, Beside(s.code[a + 2], s.code[a + 1].rd), s.code[a].a, j.n, TRUE)
<1>1. /\ f \in Fold("zext_indexed_load", a, 4, is)
      /\ s.code[a].op = "sll" /\ s.code[a + 1].op = "srl"
    BY DEF check_zext_indexed_load, When, rv_decode_slli, rv_decode_srli, Immediate
<1> HIDE DEF is
<1> QED
    BY <1>1, AddOfFold

\* What a deeper fold at a says of the instructions there and of what it claims.
Deeper(s, a, c) ==
    /\ c \in {a + 1, a + 2}
    /\ s.code[a].op = "sll"
    /\ s.code[a + 1].op = IF c = a + 1 THEN "add" ELSE "srl"

\* Either of the deeper folds claims the add in front of its load.
LEMMA DeeperClaims ==
    ASSUME NEW s, NEW a \in Int, NEW f \in DeeperFolds(s, a)
    PROVE  Deeper(s, a, AddOf(f)) /\ f.rule # "indexed_load"
    BY ScaledClaims, ZextClaims DEF DeeperFolds, Deeper

\* Two folds at one address claim the same add.
LEMMA OneClaim ==
    ASSUME NEW s, NEW a \in Int, NEW f \in DeeperFolds(s, a), NEW g \in DeeperFolds(s, a)
    PROVE  AddOf(f) = AddOf(g)
    BY DeeperClaims DEF Deeper

-------------------------------------------------------------------------------
(* What is remembered of the claims.                                       *)

\* The add that is spoken for is one that a fold the scan has been to claims, and a
\* claim on what lies ahead is the one that is remembered.
ClaimsKept ==
    /\ at \in Nat \ {0}
    /\ zilx_folded # None =>
        \E q \in 1 .. at - 1 : \E f \in DeeperFolds(sec, q) : AddOf(f) = zilx_folded
    /\ \A q \in 1 .. at - 1 : \A f \in DeeperFolds(sec, q) :
        AddOf(f) >= at => AddOf(f) = zilx_folded

\* The scan leaves the claim of the fold at the instruction it is at, or none.
LEMMA ClaimStep ==
    ASSUME ClaimsKept, Scan
    PROVE  ClaimsKept'
<1> DEFINE D(q) == DeeperFolds(sec, q)
<1>1. at' = at + 1 /\ at' \in Nat \ {0} /\ sec' = sec
    BY DEF ClaimsKept, Scan
<1>2. \A q : DeeperFolds(sec, q)' = DeeperFolds(sec, q)
    BY <1>1
<1>3. CASE DeeperFolds(sec, at) = {}
    <2>1. zilx_folded' = zilx_folded
        BY <1>3 DEF Scan, Claims
    <2>2. \A q \in 1 .. at' - 1 : q \in 1 .. at - 1 \/ q = at
        BY <1>1 DEF ClaimsKept
    <2>3. 1 .. at - 1 \subseteq 1 .. at' - 1
        BY <1>1 DEF ClaimsKept
    <2>4. \A q \in 1 .. at' - 1 : \A f \in DeeperFolds(sec, q) :
            AddOf(f) >= at' => AddOf(f) = zilx_folded'
        <3> SUFFICES ASSUME NEW q \in 1 .. at' - 1, NEW f \in DeeperFolds(sec, q),
                            AddOf(f) >= at'
                     PROVE  AddOf(f) = zilx_folded'
            OBVIOUS
        <3>1. q \in 1 .. at - 1
            BY <2>2, <1>3
        <3>2. AddOf(f) \in Int
            BY DeeperClaims, <3>1 DEF Deeper
        <3> QED
            BY <1>1, <2>1, <3>1, <3>2 DEF ClaimsKept
    <2> QED
        BY <1>1, <2>1, <2>3, <2>4 DEF ClaimsKept
<1>4. CASE DeeperFolds(sec, at) # {}
    <2>1. PICK f \in DeeperFolds(sec, at) : zilx_folded' = AddOf(f)
        BY <1>4 DEF Scan, Claims
    <2>2. at \in 1 .. at' - 1
        BY <1>1 DEF ClaimsKept
    <2>3. \A q \in 1 .. at' - 1 : \A g \in DeeperFolds(sec, q) :
            AddOf(g) >= at' => AddOf(g) = zilx_folded'
        <3> SUFFICES ASSUME NEW q \in 1 .. at' - 1, NEW g \in DeeperFolds(sec, q),
                            AddOf(g) >= at'
                     PROVE  AddOf(g) = zilx_folded'
            OBVIOUS
        <3>1. at \in Int /\ q \in Int /\ q <= at
            BY <1>1 DEF ClaimsKept
        <3>2. Deeper(sec, q, AddOf(g)) /\ Deeper(sec, at, AddOf(f))
            BY DeeperClaims, <3>1
        <3>3. q = at \/ (q + 1 = at /\ AddOf(g) = q + 2)
            BY <3>1, <3>2, <1>1 DEF Deeper
        <3>4. q # at - 1
            BY <3>1, <3>2, <3>3 DEF Deeper
        <3> QED
            BY <2>1, <3>1, <3>3, <3>4, OneClaim
    <2> QED
        BY <1>1, <2>1, <2>2, <2>3 DEF ClaimsKept
<1> QED
    BY <1>3, <1>4

\* The instruction the scan is at is claimed exactly if it is the one remembered.
LEMMA ClaimedIsFolded ==
    ASSUME ClaimsKept
    PROVE  ClaimedHere(at) <=> zilx_folded = at
<1>1. ASSUME ClaimedHere(at)
      PROVE  zilx_folded = at
    BY <1>1 DEF ClaimsKept, ClaimedHere
<1>2. ASSUME zilx_folded = at
      PROVE  ClaimedHere(at)
    BY <1>2 DEF ClaimsKept, ClaimedHere, None
<1> QED
    BY <1>1, <1>2

-------------------------------------------------------------------------------
(* Whose finding a finding is.                                             *)

\* A finding carries the name of its rule (Finding, Fold), whatever the condition (When).
LEMMA FindingRule ==
    ASSUME NEW rule, NEW patch
    PROVE  Finding(rule, patch).rule = rule
    BY DEF Finding

\* A fold carries the name it was made with.
LEMMA FoldRule ==
    ASSUME NEW rule, NEW a, NEW n, NEW is, NEW f \in Fold(rule, a, n, is)
    PROVE  f.rule = rule
    BY DEF Fold, Finding

LEMMA FoldedRule ==
    ASSUME NEW rule, NEW s, NEW a, NEW p, NEW walk, NEW r, NEW becomes,
           NEW f \in Folded(rule, s, a, p, walk, r, becomes)
    PROVE  f.rule = rule
    BY DEF Folded, When, Finding

\* No check of another group reports a load with an index.
LEMMA BranchesOther ==
    ASSUME NEW s, NEW a, NEW f \in BranchFindings(s, a)
    PROVE  f.rule \in BranchRulesNames
<1>1. CASE f \in check_cond_to_branch(s, a)
    <2>1. \E is : f \in Fold("cond_to_branch", a, 2, is)
        BY <1>1 DEF check_cond_to_branch, When
    <2> QED
        BY <2>1, FoldRule DEF BranchRulesNames
<1>2. CASE f \in check_branch_over_jump(s, a)
    BY <1>2 DEF check_branch_over_jump, When, Finding, BranchRulesNames
<1>3. CASE f \in check_transfer_to_next(s, a)
    BY <1>3 DEF check_transfer_to_next, When, Fold, Finding, BranchRulesNames
<1>4. CASE f \in check_const_eq_branch(s, a)
    <2>1. \E is : f \in Fold("const_eq_branch", a, 2, is)
        BY <1>4 DEF check_const_eq_branch, When
    <2> QED
        BY <2>1, FoldRule DEF BranchRulesNames
<1>5. CASE f \in check_const_ord_branch(s, a)
    <2>1. \E is : f \in Fold("const_ord_branch", a, 2, is)
        BY <1>5 DEF check_const_ord_branch, When
    <2> QED
        BY <2>1, FoldRule DEF BranchRulesNames
<1>6. CASE f \in check_zero_eq_branch(s, a)
    <2>1. \E is : f \in Fold("zero_eq_branch", a, 2, is)
        BY <1>6 DEF check_zero_eq_branch, When
    <2> QED
        BY <2>1, FoldRule DEF BranchRulesNames
<1>7. CASE f \in check_branch_to_minmax(s, a)
    <2>1. \E patch : f = Finding("branch_to_minmax", patch)
        BY <1>7 DEF check_branch_to_minmax, MinMax, When
    <2> QED
        BY <2>1, FindingRule DEF BranchRulesNames
<1>8. CASE f \in check_call_pair_to_jal(s, a)
    BY <1>8 DEF check_call_pair_to_jal, When, Fold, Finding, BranchRulesNames
<1>9. CASE f \in check_jump_pair_to_j(s, a)
    BY <1>9 DEF check_jump_pair_to_j, When, Fold, Finding, BranchRulesNames
<1>10. CASE f \in check_scratch_call_to_jal(s, a)
    BY <1>10 DEF check_scratch_call_to_jal, When, Fold, Finding, BranchRulesNames
<1> QED
    BY <1>1, <1>2, <1>3, <1>4, <1>5, <1>6, <1>7, <1>8, <1>9, <1>10 DEF BranchFindings

\* The checks of values report under their own names.
LEMMA ValuesOther ==
    ASSUME NEW s, NEW a, NEW f \in ValueFindings(s, a)
    PROVE  f.rule \in ValueRulesNames
<1>1. CASE f \in check_slli_add_to_shadd(s, a)
    BY <1>1 DEF check_slli_add_to_shadd, When, Fold, Finding, ValueRulesNames
<1>2. CASE f \in check_slli_srli_to_zext(s, a)
    BY <1>2 DEF check_slli_srli_to_zext, When, Fold, Finding, ValueRulesNames
<1>3. CASE f \in check_slli_srli_to_zexth(s, a)
    BY <1>3 DEF check_slli_srli_to_zexth, When, Fold, Finding, ValueRulesNames
<1>4. CASE f \in check_slli_srai_to_sext(s, a)
    BY <1>4 DEF check_slli_srai_to_sext, When, Fold, Finding, ValueRulesNames
<1>5. CASE f \in check_slli_srli_to_andi(s, a)
    BY <1>5 DEF check_slli_srli_to_andi, When, Fold, Finding, ValueRulesNames
<1>6. CASE f \in check_const_mul_to_shadd(s, a)
    BY <1>6 DEF check_const_mul_to_shadd, When, Fold, Finding, ValueRulesNames
<1>7. CASE f \in check_udiv_pow2(s, a)
    BY <1>7 DEF check_udiv_pow2, When, Fold, Finding, ValueRulesNames
<1>8. CASE f \in check_not_logic_fold(s, a)
    <2>1. f.rule = "not_logic_fold"
        BY <1>8 DEF check_not_logic_fold, When, Fold, Finding
    <2> QED
        BY <2>1 DEF ValueRulesNames
<1>9. CASE f \in check_dead_def(s, a)
    BY <1>9 DEF check_dead_def, When, Fold, Finding, ValueRulesNames
<1>10. CASE f \in check_no_effect(s, a)
    BY <1>10 DEF check_no_effect, When, Fold, Finding, ValueRulesNames
<1> QED
    BY <1>1, <1>2, <1>3, <1>4, <1>5, <1>6, <1>7, <1>8, <1>9, <1>10 DEF ValueFindings

\* The checks of constants report under their own names.
LEMMA ConstsOther ==
    ASSUME NEW s, NEW a, NEW f \in ConstFindings(s, a)
    PROVE  f.rule \in ConstRulesNames
<1>1. CASE f \in check_long_li(s, a)
    BY <1>1 DEF check_long_li, When, Finding, ConstRulesNames
<1>2. CASE f \in check_const_for_imm(s, a)
    BY <1>2, FoldedRule DEF check_const_for_imm, ConstRulesNames
<1>3. CASE f \in check_mask_for_zext(s, a)
    BY <1>3, FoldedRule DEF check_mask_for_zext, ConstRulesNames
<1>4. CASE f \in check_zero_for_store(s, a)
    BY <1>4, FoldedRule DEF check_zero_for_store, ConstRulesNames
<1> QED
    BY <1>1, <1>2, <1>3, <1>4 DEF ConstFindings

\* The checks of jumps report under their own names.
JumpRulesNames == ThreadRulesNames \cup TailRulesNames
LEMMA JumpsOther ==
    ASSUME NEW s, NEW a, NEW f \in JumpFindings(s, a)
    PROVE  f.rule \in JumpRulesNames
<1>1. CASE f \in check_transfer_to_jump(s, a)
    BY <1>1 DEF check_transfer_to_jump, When, Finding, JumpRulesNames, ThreadRulesNames, TailRulesNames
<1>2. CASE f \in check_cross_jump(s, a)
    BY <1>2 DEF check_cross_jump, When, Finding, JumpRulesNames, ThreadRulesNames, TailRulesNames
<1> QED
    BY <1>1, <1>2 DEF JumpFindings

\* Of the checks of accesses one does, and it always does.
LEMMA MemoryOther ==
    ASSUME NEW s, NEW a \in Int, NEW folded, NEW f \in MemoryFindings(s, a, folded)
    PROVE  f.rule = "indexed_load" <=> f \in check_indexed_load(s, a, folded)
<1>0. ASSUME NEW g \in check_indexed_load(s, a, folded)
      PROVE  g.rule = "indexed_load"
    <2>1. PICK is : g \in Fold("indexed_load", a, 2, is)
        BY <1>0 DEF check_indexed_load, When
    <2> QED
        BY <2>1 DEF Fold, Finding
<1>1. CASE f \in check_base_add_to_offset(s, a)
    <2>1. f.rule = "base_add_to_offset"
        BY <1>1 DEF check_base_add_to_offset, When, Fold, Finding
    <2> QED
        BY <1>0, <2>1
<1>2. CASE f \in check_indexed_load(s, a, folded)
    BY <1>0, <1>2
<1>3. CASE f \in DeeperFolds(s, a)
    BY <1>0, <1>3, DeeperClaims
<1>4. CASE f \in check_fp_pool_to_fli(s, a)
    <2>1. f.rule = "fp_pool_to_fli"
        BY <1>4 DEF check_fp_pool_to_fli, When, Fold, Finding
    <2> QED
        BY <1>0, <2>1
<1>5. CASE f \in check_fp_int_to_fli(s, a)
    <2>1. f.rule = "fp_int_to_fli"
        BY <1>5 DEF check_fp_int_to_fli, When, Fold, Finding
    <2> QED
        BY <1>0, <2>1
<1>6. CASE f \in check_cas_loop_to_amocas(s, a)
    <2>1. f.rule = "cas_loop_to_amocas"
        BY <1>6 DEF check_cas_loop_to_amocas, When, Finding
    <2> QED
        BY <1>0, <2>1
<1> QED
    BY <1>1, <1>2, <1>3, <1>4, <1>5, <1>6 DEF MemoryFindings

\* So a load with an index is among the findings exactly if its check found one, and
\* that is where it would have found one with no claim, unless the add is claimed.
LEMMA IndexedFound ==
    ASSUME NEW s, NEW a \in Int, NEW folded
    PROVE  (\E f \in Findings(s, a, folded) : f.rule = "indexed_load")
                <=> check_indexed_load(s, a, folded) # {}
<1>1. \A f \in Findings(s, a, folded) :
        f.rule = "indexed_load" => f \in check_indexed_load(s, a, folded)
    <2> SUFFICES ASSUME NEW f \in Findings(s, a, folded), f.rule = "indexed_load"
                 PROVE  f \in check_indexed_load(s, a, folded)
        OBVIOUS
    <2>1. f \notin BranchFindings(s, a)
        BY BranchesOther DEF BranchRulesNames
    <2>2. f \notin ValueFindings(s, a)
        BY ValuesOther DEF ValueRulesNames
    <2>3. f \notin ConstFindings(s, a)
        BY ConstsOther DEF ConstRulesNames
    <2>4. f \notin JumpFindings(s, a)
        BY JumpsOther DEF JumpRulesNames, ThreadRulesNames, TailRulesNames
    <2> QED
        BY <2>1, <2>2, <2>3, <2>4, MemoryOther DEF Findings
<1>2. \A f \in check_indexed_load(s, a, folded) :
        f \in Findings(s, a, folded) /\ f.rule = "indexed_load"
    BY MemoryOther DEF Findings, MemoryFindings
<1> QED
    BY <1>1, <1>2

LEMMA IndexedUnclaimed ==
    ASSUME NEW s, NEW a \in Nat \ {0}, NEW folded
    PROVE  check_indexed_load(s, a, folded) # {}
                <=> check_indexed_load(s, a, None) # {} /\ a # folded
<1> DEFINE i == s.code[a]
           C == /\ Window(s, a, 2)
                /\ Adds(i) /\ 0 \notin {i.a, i.b}
                /\ LoadsAt(s, a, 2)
                /\ Rewritten(s, a, a + 1, i.rd)
           F == Fold("indexed_load", a, 2, Lxs(s.code[a + 1], i.a, i.b, 0, FALSE))
<1>1. \A g : check_indexed_load(s, a, g) = IF a # g /\ C THEN F ELSE {}
    BY DEF check_indexed_load, When
<1>2. F # {}
    BY DEF Fold
<1> HIDE DEF C, F
<1> QED
    BY <1>1, <1>2 DEF None

-------------------------------------------------------------------------------
(* The theorem.                                                            *)

\* The claims and what they decided at the instruction before.
IndexedInv == ClaimsKept /\ IndexedOnce

\* Every step keeps both: the scan asks about the add it is at when nothing can claim
\* it any more.
LEMMA IndexedInductive ==
    /\ Init => IndexedInv
    /\ IndexedInv /\ [Next]_vars => IndexedInv'
<1>1. Init => IndexedInv
    BY DEF Init, IndexedInv, ClaimsKept, IndexedOnce, None
<1>2. ASSUME IndexedInv, Scan
      PROVE  IndexedInv'
    <2> DEFINE Found(S) == \E f \in S : f.rule = "indexed_load"
    <2>1. ClaimsKept'
        BY <1>2, ClaimStep DEF IndexedInv
    <2>2. /\ found' = Findings(sec, at, zilx_folded)
          /\ at' - 1 = at /\ sec' = sec /\ at \in Nat \ {0}
        BY <1>2 DEF Scan, IndexedInv, ClaimsKept
    <2>3. Found(found') <=> check_indexed_load(sec, at, None) # {} /\ at # zilx_folded
        BY <2>2, IndexedFound, IndexedUnclaimed
    <2>4. ClaimedHere(at) <=> zilx_folded = at
        BY <1>2, ClaimedIsFolded DEF IndexedInv
    <2>5. \A a : ClaimedHere(a)' <=> ClaimedHere(a)
        BY <2>2 DEF ClaimedHere
    <2> QED
        BY <2>1, <2>2, <2>3, <2>4, <2>5 DEF IndexedInv, IndexedOnce
<1>3. ASSUME IndexedInv, NextSection
      PROVE  IndexedInv'
    BY <1>3 DEF NextSection, Reset, IndexedInv, ClaimsKept, IndexedOnce, None
<1>4. ASSUME IndexedInv, UNCHANGED vars
      PROVE  IndexedInv'
    BY <1>4 DEF vars, IndexedInv, ClaimsKept, IndexedOnce, ClaimedHere
<1> QED
    BY <1>1, <1>2, <1>3, <1>4 DEF Next

\* In every section, whatever its code, a load with an index alone is reported exactly
\* where its check would report it and no deeper fold of that section has its add
\* (check_indexed_load, zilx_folded, and its reset between sections).
THEOREM AddBelongsOnce == Spec => []IndexedOnce
<1>1. IndexedInv => IndexedOnce
    BY DEF IndexedInv
<1> QED
    BY IndexedInductive, <1>1, PTL DEF Spec

-------------------------------------------------------------------------------
(* A register written for the branch behind it.                            *)

\* The branch j decides on what the machine held before c as b does on what it holds after.
DecidesAs(s, c, b, j) ==
    \A g, h : Machine(Words, g) /\ Machine(Words, h) /\ Same(s, {c.rd}, g, h)
                /\ (c.rd \in {c.a, c.b} => g.x[c.rd] = h.x[c.rd]) =>
        \E v \in Words :
            /\ Value(c.op, c.n, c.k, g.x[c.a], Operand(c, g)) = v
            /\ \A z : Written(Words, g, c.rd, v, z) =>
                   (Taken(b.op, z.x[b.a], Operand(b, z)) <=> Taken(j.op, h.x[j.a], Operand(j, h)))

\* Nothing in a window of two branches to its second instruction.
LEMMA NotBetween ==
    ASSUME NEW s, IsSection(s), NEW a \in Nat \ {0}, Window(s, a, 2), NEW p \in DOMAIN s.code,
           s.code[p].op \in Relative
    PROVE  s.code[p].to # a + 1
<1>1. a + 2 - 1 = a + 1 /\ a + 1 \in a .. a + 1 /\ a + 1 \in a + 1 .. a + 2 - 1
    OBVIOUS
<1>2. a + 1 \in DOMAIN s.code /\ a + 1 \notin s.targets
    <2>1. 2 \in Nat \ {0} /\ Window(s, a, 2)
        OBVIOUS
    <2>2. a .. a + 2 - 1 \subseteq DOMAIN s.code
        BY <2>1, WindowEntry
    <2>3. a + 1 \notin s.targets
        BY <1>1, <2>1 DEF Window, is_branch_target
    <2> QED
        BY <1>1, <2>2, <2>3
<1>3. s.targets = s.note.entries
                    \cup ({t.target : t \in Relatives(s.code)} \cap DOMAIN s.code)
    BY DEF IsSection, SetSection
<1>4. s.code[p].to \in {t.target : t \in Relatives(s.code)}
    <2> DEFINE u == [site |-> p, target |-> s.code[p].to,
                     jump |-> rv_decode_jump(s.code[p]) /\ s.code[p].rd = 0]
    <2>1. u \in Relatives(s.code)
        BY DEF Relatives
    <2>2. u.target = s.code[p].to
        OBVIOUS
    <2> HIDE DEF u
    <2> QED
        BY <2>1, <2>2
<1> QED
    BY <1>2, <1>3, <1>4

LEMMA WriteBranch ==
    ASSUME NEW s, IsSection(s), Honest(s), NEW a \in Nat \ {0}, Window(s, a, 2), NEW j,
           Plainly(s.code[a]), s.code[a].rd # 0,
           s.code[a + 1].op \in Branches, j.op \in Branches, j.to = s.code[a + 1].to,
           DeadBothWays(s, a + 1, s.code[a].rd),
           DecidesAs(s, s.code[a], s.code[a + 1], j)
    PROVE  FoldMirrors(s, a, j, {s.code[a].rd}, Words)
<1> DEFINE c == s.code[a]
           b == s.code[a + 1]
           r == c.rd
<1>1. a \in DOMAIN s.code /\ a + 1 \in DOMAIN s.code
    <2>1. a + 2 - 1 = a + 1 /\ a + 1 \in a .. a + 1 /\ a \in a .. a + 1
        OBVIOUS
    <2> QED
        BY <2>1, WindowEntry
<1>2. c \in Insns /\ b \in Insns
    BY <1>1 DEF IsSection
<1>3. r \in Regs \ {0} /\ b.to \in Int
    BY <1>2 DEF Insns
<1>4. b.to # a + 1
    BY <1>1, NotBetween DEF Relative
<1>5. ASSUME DeadAt(s, a, r)
      PROVE  r \notin {c.a, c.b}
    BY <1>1, <1>5 DEF Honest, DeadAt
<1>6. DeadAt(s, a + 1 + 1, r) /\ DeadAt(s, b.to, r)
    BY DEF DeadBothWays
<1>7. Plainly(c) /\ b.op \in Branches /\ j.op \in Branches /\ j.to = b.to /\ DecidesAs(s, c, b, j)
    OBVIOUS
<1> SUFFICES ASSUME NEW g, NEW h, Machine(Words, g), Machine(Words, h), Same(s, {r}, g, h), g.pc = a
             PROVE  LET g1 == Ran(g, c)
                        g2 == Ran(g1, b)
                        h2 == Ran(Skip(h), j)
                    IN  /\ g1.pc = a + 1 /\ g2.pc # a + 1
                        /\ Machine(Words, g2) /\ Machine(Words, h2) /\ Same(s, {r}, g2, h2)
    BY DEF FoldMirrors
<1> HIDE DEF c, b, r
<1>8. r \in {c.a, c.b} => g.x[r] = h.x[r]
    BY <1>5, <1>3 DEF Same
<1>9. PICK v \in Words :
        /\ Value(c.op, c.n, c.k, g.x[c.a], Operand(c, g)) = v
        /\ \A z : Written(Words, g, r, v, z) =>
               (Taken(b.op, z.x[b.a], Operand(b, z)) <=> Taken(j.op, h.x[j.a], Operand(j, h)))
    BY <1>7, <1>8 DEF DecidesAs, r
<1> DEFINE g1 == Ran(g, c)
           g2 == Ran(g1, b)
           h1 == Skip(h)
           h2 == Ran(h1, j)
<1>10. /\ Machine(Words, g1) /\ g1.pc = a + 1 /\ g1.m = g.m /\ g1.x[r] = v
       /\ \A q \in Regs \ {r} : g1.x[q] = g.x[q]
    <2>1. c.rd = r /\ c.rd \in Regs \ {0}
        BY <1>3 DEF r
    <2>2. Written(Words, g, c.rd, v, g1)
        BY <1>7, <1>9, <2>1, RanValue
    <2> QED
        BY <2>1, <2>2 DEF Written
<1>11. Machine(Words, h1) /\ h1.pc = a + 1 /\ h1.m = h.m /\ h1.x = h.x
    BY SkipMachine DEF Same
<1> HIDE DEF g1, h1
<1>12. /\ Machine(Words, g2) /\ g2.m = g1.m /\ g2.x = g1.x
       /\ g2.pc = IF Taken(b.op, g1.x[b.a], Operand(b, g1)) THEN b.to ELSE a + 2
    BY <1>3, <1>7, <1>10, RanBranch
<1>13. /\ Machine(Words, h2) /\ h2.m = h1.m /\ h2.x = h1.x
       /\ h2.pc = IF Taken(j.op, h1.x[j.a], Operand(j, h1)) THEN b.to ELSE a + 2
    BY <1>3, <1>7, <1>11, RanBranch
<1>14. Operand(j, h1) = Operand(j, h)
    BY <1>11 DEF Operand
<1>15. Taken(b.op, g1.x[b.a], Operand(b, g1)) <=> Taken(j.op, h1.x[j.a], Operand(j, h1))
    BY <1>9, <1>10, <1>11, <1>14 DEF Written
<1> HIDE DEF g2, h2
<1>16. g2.pc = h2.pc /\ g2.pc \in {b.to, a + 2} /\ g2.m = h2.m
    BY <1>10, <1>11, <1>12, <1>13, <1>15 DEF Same
<1>17. \A q \in Regs \ {r} : g2.x[q] = h2.x[q]
    BY <1>10, <1>11, <1>12, <1>13 DEF Same
<1>18. DeadAt(s, g2.pc, r)
    BY <1>6, <1>16
<1>19. Same(s, {r}, g2, h2)
    BY <1>16, <1>17, <1>18 DEF Same
<1>20. g2.pc # a + 1
    BY <1>4, <1>16
<1> QED
    BY <1>10, <1>12, <1>13, <1>19, <1>20 DEF g1, g2, h1, h2

\* So a register written for a branch may be left out of what the branch becomes.
LEMMA WriteBranchHolds ==
    ASSUME NEW s, IsSection(s), Honest(s), NEW a \in Nat \ {0}, Window(s, a, 2), NEW j,
           Plainly(s.code[a]), s.code[a].rd # 0,
           s.code[a + 1].op \in Branches, j.op \in Branches, j.to = s.code[a + 1].to,
           DeadBothWays(s, a + 1, s.code[a].rd),
           DecidesAs(s, s.code[a], s.code[a + 1], j),
           NEW rule, NEW f \in Fold(rule, a, 2, Alone(j)),
           NEW x \in [Regs -> Words], x[0] = 0, NEW m, NEW fuel \in Nat
    PROVE  Holds(s, f, x, m, fuel)
<1>1. FoldMirrors(s, a, j, {s.code[a].rd}, Words)
    BY WriteBranch
<1>2. DOMAIN f.patch = a .. a + 1 /\ f.patch[a] = Gone /\ f.patch[a + 1] = Alone(j)
    BY FoldPatch
<1>3. Machine(Words, Start(s, x, m, a))
    BY StartMachine
<1> QED
    BY <1>1, <1>2, <1>3, FoldHolds

\* A constant is what li says, where it is a word.
LEMMA LiValue ==
    ASSUME NEW g, Machine(Words, g), NEW c, decode_const(c), c.k \in Words
    PROVE  Value(c.op, c.n, c.k, g.x[c.a], Operand(c, g)) = c.k
<1>1. c.op = "add" /\ c.b = Imm /\ c.n = XLEN /\ c.a = 0
    BY DEF decode_const, rv_decode_addi, Immediate
<1>2. Operand(c, g) = c.k /\ g.x[c.a] = 0
    BY <1>1 DEF Operand, Machine
<1>3. Value("add", XLEN, c.k, 0, c.k) = Sext(XLEN, 0 + c.k)
    BY DEF Value
<1>4. 0 + c.k = c.k
    BY HalfLemma
<1> QED
    BY <1>1, <1>2, <1>3, <1>4, SextOwn

\* The register that is compared with the constant, and that the constant is not.
Compares(b, r, rx) ==
    /\ rx \in Regs \ {0, r} /\ b.b # Imm
    /\ <<b.a, b.b>> \in {<<r, rx>>, <<rx, r>>}
LEMMA AgainstIs ==
    ASSUME NEW b, NEW r, b \in Insns, r \in Regs \ {0}, b.op \in Branches, Against(b, r) # 0
    PROVE  Compares(b, r, Against(b, r))
    BY DEF Against, Insns, Branches, Imm, Compares

\* The branch b on r and another register is j's on that register, when r holds k.
TestsConst(b, r, k, j) ==
    \A h : Machine(Words, h) =>
        LET y == h.x[Against(b, r)]
        IN  Taken(b.op, IF b.a = r THEN k ELSE y, IF b.a = r THEN y ELSE k)
                <=> Taken(j.op, h.x[j.a], Operand(j, h))

\* So is then a branch on a constant that was loaded for it.
LEMMA ConstBranchHolds ==
    ASSUME NEW s, IsSection(s), Honest(s), NEW a \in Nat \ {0}, NEW ops, ops \subseteq Branches,
           ConstBranch(s, a, ops), s.code[a].k \in Words,
           NEW j, j.op \in Branches, j.to = s.code[a + 1].to,
           s.code[a + 1] \in Insns => TestsConst(s.code[a + 1], s.code[a].rd, s.code[a].k, j),
           NEW rule, NEW f \in Fold(rule, a, 2, Alone(j)),
           NEW x \in [Regs -> Words], x[0] = 0, NEW m, NEW fuel \in Nat
    PROVE  Holds(s, f, x, m, fuel)
<1> DEFINE c == s.code[a]
           b == s.code[a + 1]
           r == c.rd
           rx == Against(b, r)
<1>2. /\ Window(s, a, 2) /\ decode_const(c) /\ b.op \in Branches /\ rx # 0
      /\ DeadBothWays(s, a + 1, r)
    BY DEF ConstBranch
<1>3. c \in Insns /\ b \in Insns
    <2>1. a \in a .. a + 2 - 1 /\ a + 1 \in a .. a + 2 - 1
        OBVIOUS
    <2>2. a \in DOMAIN s.code /\ a + 1 \in DOMAIN s.code
        BY <1>2, <2>1, WindowEntry
    <2> QED
        BY <2>2 DEF IsSection
<1>4. r \in Regs \ {0}
    BY <1>2, <1>3 DEF Insns, decode_const
<1>5. rx \in Regs \ {0, r} /\ b.b # Imm /\ ((b.a = r /\ b.b = rx) \/ (b.b = r /\ b.a = rx))
    <2>2. Compares(b, r, rx)
        BY <1>2, <1>3, <1>4, AgainstIs
    <2> QED
        BY <2>2 DEF Compares
<1>8. Plainly(c) /\ c.rd # 0
    BY <1>2 DEF Plainly, decode_const, rv_decode_addi, Immediate, Transfers, Branches, Accesses, Atomics
<1>9. DecidesAs(s, c, b, j)
    <2> SUFFICES ASSUME NEW g, NEW h, Machine(Words, g), Machine(Words, h), Same(s, {r}, g, h)
                 PROVE  /\ Value(c.op, c.n, c.k, g.x[c.a], Operand(c, g)) = c.k
                        /\ \A z : Written(Words, g, r, c.k, z) =>
                             (Taken(b.op, z.x[b.a], Operand(b, z))
                                <=> Taken(j.op, h.x[j.a], Operand(j, h)))
        BY DEF DecidesAs
    <2>1. Value(c.op, c.n, c.k, g.x[c.a], Operand(c, g)) = c.k
        BY <1>2, LiValue
    <2>2. ASSUME NEW z, Written(Words, g, r, c.k, z)
          PROVE  Taken(b.op, z.x[b.a], Operand(b, z)) <=> Taken(j.op, h.x[j.a], Operand(j, h))
        <3>1. z.x[rx] = h.x[rx] /\ z.x[r] = c.k
            BY <1>5, <2>2 DEF Written, Same
        <3>2. Operand(b, z) = z.x[b.b]
            BY <1>5 DEF Operand
        <3>3. Taken(b.op, IF b.a = r THEN c.k ELSE h.x[rx], IF b.a = r THEN h.x[rx] ELSE c.k)
                <=> Taken(j.op, h.x[j.a], Operand(j, h))
            BY <1>3 DEF TestsConst
        <3> HIDE DEF rx, c, b, r
        <3>4. z.x[b.a] = (IF b.a = r THEN c.k ELSE h.x[rx])
            BY <1>5, <3>1
        <3>5. z.x[b.b] = (IF b.a = r THEN h.x[rx] ELSE c.k)
            BY <1>5, <3>1
        <3> QED
            BY <3>2, <3>3, <3>4, <3>5
    <2> QED
        BY <2>1, <2>2
<1> QED
    BY <1>2, <1>8, <1>9, WriteBranchHolds

\* check_const_eq_branch and check_zero_eq_branch: an equality with a constant that zibi
\* holds, or with zero.
LEMMA ConstEqHolds ==
    ASSUME NEW s, IsSection(s), Honest(s), NEW a \in Nat \ {0},
           NEW f \in check_const_eq_branch(s, a),
           NEW x \in [Regs -> Words], x[0] = 0, NEW m, NEW fuel \in Nat
    PROVE  Holds(s, f, x, m, fuel)
<1> DEFINE c == s.code[a]
           b == s.code[a + 1]
           rx == Against(b, c.rd)
           j == [b EXCEPT !.a = rx, !.b = Imm, !.k = c.k]
<1>1. /\ ConstBranch(s, a, {"beq", "bne"}) /\ zibi_immediate(c.k)
      /\ f \in Fold("const_eq_branch", a, 2, Alone(j))
    BY DEF check_const_eq_branch, When, Alone
<1>2. c.k \in Words
    <2>1. c.k \in -1 .. 31
        BY <1>1 DEF zibi_immediate
    <2>2. -1 .. 31 \subseteq Words
        BY HalfLemma
    <2> QED
        BY <2>1, <2>2
<1>3. /\ b.op \in {"beq", "bne"} /\ j.op = b.op /\ j.to = b.to
      /\ b \in Insns => j.a = rx /\ j.b = Imm /\ j.k = c.k
    BY <1>1 DEF ConstBranch, Insns
<1>4. b \in Insns => TestsConst(b, c.rd, c.k, j)
    <2> HIDE DEF j, rx, c, b
    <2>1. b \in Insns => \A h : Operand(j, h) = c.k
        BY <1>3 DEF Operand
    <2> QED
        BY <1>3, <2>1 DEF TestsConst, Taken, rx
<1> HIDE DEF j
<1> QED
    BY <1>1, <1>2, <1>3, <1>4, ConstBranchHolds DEF Branches

LEMMA ZeroEqHolds ==
    ASSUME NEW s, IsSection(s), Honest(s), NEW a \in Nat \ {0},
           NEW f \in check_zero_eq_branch(s, a),
           NEW x \in [Regs -> Words], x[0] = 0, NEW m, NEW fuel \in Nat
    PROVE  Holds(s, f, x, m, fuel)
<1> DEFINE c == s.code[a]
           b == s.code[a + 1]
           rx == Against(b, c.rd)
           j == [b EXCEPT !.a = rx, !.b = 0]
<1>1. /\ ConstBranch(s, a, {"beq", "bne"}) /\ c.k = 0
      /\ f \in Fold("zero_eq_branch", a, 2, Alone(j))
    BY DEF check_zero_eq_branch, When, Alone
<1>2. c.k \in Words
    BY <1>1, HalfLemma
<1>3. /\ b.op \in {"beq", "bne"} /\ j.op = b.op /\ j.to = b.to
      /\ b \in Insns => j.a = rx /\ j.b = 0
    BY <1>1 DEF ConstBranch, Insns
<1>4. b \in Insns => TestsConst(b, c.rd, c.k, j)
    <2> HIDE DEF j, rx, c, b
    <2>1. b \in Insns => \A h : Machine(Words, h) => Operand(j, h) = 0
        BY <1>3 DEF Operand, Imm, Machine
    <2> QED
        BY <1>1, <1>3, <2>1 DEF TestsConst, Taken, rx
<1> HIDE DEF j
<1> QED
    BY <1>1, <1>2, <1>3, <1>4, ConstBranchHolds DEF Branches

\* What each branch compares.
LEMMA TakenIs ==
    ASSUME NEW u, NEW v
    PROVE  /\ Taken("beq", u, v) = (u = v)
           /\ Taken("bne", u, v) = (u # v)
           /\ Taken("blt", u, v) = (u < v)
           /\ Taken("bge", u, v) = (u >= v)
           /\ Taken("bltu", u, v) = (Unsigned(u) < Unsigned(v))
           /\ Taken("bgeu", u, v) = (Unsigned(u) >= Unsigned(v))
    BY Zenon DEF Taken

\* check_const_ord_branch: an order against 0 or 1 is one against x0, or an equality.
LEMMA OrdTests ==
    ASSUME NEW op \in Branches \ {"beq", "bne"}, NEW k \in {0, 1}, NEW second \in BOOLEAN,
           NEW f \in zero_branch_form(op, k, second), NEW y \in Words
    PROVE  /\ f.op \in Branches
           /\ Taken(op, IF second THEN y ELSE k, IF second THEN k ELSE y)
                <=> Taken(f.op, IF f.first THEN y ELSE 0, IF f.first THEN 0 ELSE y)
<1>1. /\ y \in Int /\ Unsigned(0) = 0 /\ Unsigned(1) = 1 /\ Unsigned(y) >= 0
      /\ Unsigned(y) = 0 <=> y = 0
      /\ Unsigned(y) \in Int
    BY UnsignedLemma, HalfLemma
<1>2. \A o, first : f \in Form(o, first) => f.op = o /\ f.first = first
    BY DEF Form
<1>3. Opposite("blt") = "bge" /\ Opposite("bge") = "blt"
    BY Zenon DEF Opposite
<1> DEFINE signed == op \in {"blt", "bge"}
           unsigned == op \in {"bltu", "bgeu"}
<1>4. ~(signed /\ unsigned)
    OBVIOUS
<1>5. k # 0 \/ k # 1
    OBVIOUS
<1>6. zero_branch_form(op, k, second) =
        CASE signed /\ k = 0 -> Form(op, second)
          [] signed /\ k = 1 /\ second -> Form(Opposite(op), FALSE)
          [] unsigned /\ k = 1 /\ second -> Form(IF op = "bltu" THEN "beq" ELSE "bne", TRUE)
          [] unsigned /\ k = 0 /\ ~second -> Form(IF op = "bltu" THEN "bne" ELSE "beq", TRUE)
          [] OTHER -> {}
    BY DEF zero_branch_form
<1>7. op \in {"blt", "bge", "bltu", "bgeu"}
    BY DEF Branches
<1>8. k = 0 \/ k = 1
    OBVIOUS
<1>9. CASE k = 0 /\ signed
    <2>1. f \in Form(op, second)
        <3> HIDE DEF signed, unsigned
        <3> QED
            BY Zenon, <1>4, <1>5, <1>6, <1>9
    <2>2. f.op = op /\ f.first = second
        BY <1>2, <2>1
    <2> QED
        BY <1>9, <2>2
<1>10. CASE k = 1 /\ signed
    <2>1. second /\ f \in Form(Opposite(op), FALSE)
        <3> HIDE DEF signed, unsigned
        <3> QED
            BY Zenon, <1>4, <1>5, <1>6, <1>10
    <2>2. second /\ f.op = Opposite(op) /\ ~f.first
        BY <1>2, <2>1
    <2>3. CASE op = "blt"
        BY <1>1, <1>3, <1>10, <2>2, <2>3, TakenIs DEF Branches
    <2>4. CASE op = "bge"
        BY <1>1, <1>3, <1>10, <2>2, <2>4, TakenIs DEF Branches
    <2> QED
        BY <1>10, <2>3, <2>4
<1>11. CASE k = 1 /\ unsigned
    <2>1. second /\ f \in Form(IF op = "bltu" THEN "beq" ELSE "bne", TRUE)
        <3> HIDE DEF signed, unsigned
        <3> QED
            BY Zenon, <1>4, <1>5, <1>6, <1>11
    <2>2. second /\ f.op = (IF op = "bltu" THEN "beq" ELSE "bne") /\ f.first
        BY <1>2, <2>1
    <2>3. CASE op = "bltu"
        BY <1>1, <1>11, <2>2, <2>3, TakenIs DEF Branches
    <2>4. CASE op = "bgeu"
        BY <1>1, <1>11, <2>2, <2>4, TakenIs DEF Branches
    <2> QED
        BY <1>11, <2>3, <2>4
<1>12. CASE k = 0 /\ unsigned
    <2>1. ~second /\ f \in Form(IF op = "bltu" THEN "bne" ELSE "beq", TRUE)
        <3> HIDE DEF signed, unsigned
        <3> QED
            BY Zenon, <1>4, <1>5, <1>6, <1>12
    <2>2. ~second /\ f.op = (IF op = "bltu" THEN "bne" ELSE "beq") /\ f.first
        BY <1>2, <2>1
    <2>3. CASE op = "bltu"
        BY <1>1, <1>12, <2>2, <2>3, TakenIs DEF Branches
    <2>4. CASE op = "bgeu"
        BY <1>1, <1>12, <2>2, <2>4, TakenIs DEF Branches
    <2> QED
        BY <1>12, <2>3, <2>4
<1> QED
    BY <1>7, <1>8, <1>9, <1>10, <1>11, <1>12

LEMMA ConstOrdHolds ==
    ASSUME NEW s, IsSection(s), Honest(s), NEW a \in Nat \ {0},
           NEW f \in check_const_ord_branch(s, a),
           NEW x \in [Regs -> Words], x[0] = 0, NEW m, NEW fuel \in Nat
    PROVE  Holds(s, f, x, m, fuel)
<1> DEFINE c == s.code[a]
           b == s.code[a + 1]
           rx == Against(b, c.rd)
           ops == Branches \ {"beq", "bne"}
           J1(g) == Br(g.op, IF g.first THEN rx ELSE 0, IF g.first THEN 0 ELSE rx, b.to)
<1>1. /\ ConstBranch(s, a, ops) /\ c.k \in {0, 1}
      /\ \E g \in zero_branch_form(b.op, c.k, b.b = c.rd) :
            f \in Fold("const_ord_branch", a, 2, Alone(J1(g)))
    BY DEF check_const_ord_branch, When, Alone
<1>2. PICK g \in zero_branch_form(b.op, c.k, b.b = c.rd) :
            f \in Fold("const_ord_branch", a, 2, Alone(J1(g)))
    BY <1>1
<1> DEFINE j == J1(g)
<1>3. c.k \in Words
    BY <1>1, HalfLemma
<1>4. b.op \in ops /\ rx # 0 /\ c.rd # 0
    BY <1>1 DEF ConstBranch, decode_const
<1>5. /\ j.op = g.op /\ j.to = b.to
      /\ j.a = (IF g.first THEN rx ELSE 0) /\ j.b = (IF g.first THEN 0 ELSE rx)
    BY DEF Br, Insn
<1>6. g.op \in Branches
    <2>1. 0 \in Words
        BY HalfLemma
    <2> QED
        BY <1>1, <1>4, <2>1, OrdTests
<1> HIDE DEF j, J1
<1>7. b \in Insns /\ c.rd \in Regs => TestsConst(b, c.rd, c.k, j)
    <2> SUFFICES ASSUME b \in Insns, c.rd \in Regs, NEW h, Machine(Words, h)
                 PROVE  LET y == h.x[rx]
                        IN  Taken(b.op, IF b.a = c.rd THEN c.k ELSE y, IF b.a = c.rd THEN y ELSE c.k)
                                <=> Taken(j.op, h.x[j.a], Operand(j, h))
        BY DEF TestsConst
    <2> DEFINE r == c.rd
               k == c.k
               y == h.x[rx]
    <2>1. Compares(b, r, rx)
        BY <1>4, AgainstIs
    <2>2. rx \in Regs \ {0, r} /\ (b.b = r <=> b.a # r)
        BY <2>1 DEF Compares
    <2>3. y \in Words /\ h.x[0] = 0
        BY <2>2 DEF Machine
    <2>4. rx # Imm /\ 0 # Imm
        BY <2>2, HartAssumption DEF Imm
    <2> HIDE DEF rx, b, c, r, k
    <2>5. /\ h.x[j.a] = (IF g.first THEN y ELSE 0)
          /\ Operand(j, h) = (IF g.first THEN 0 ELSE y)
        BY <1>5, <2>3, <2>4 DEF Operand
    <2> HIDE DEF y
    <2>6. (b.b = r) \in BOOLEAN /\ k \in {0, 1} /\ b.op \in ops
        BY <1>1, <1>4 DEF k
    <2>7. g \in zero_branch_form(b.op, k, b.b = r)
        BY DEF k, r
    <2>8. Taken(b.op, IF b.b = r THEN y ELSE k, IF b.b = r THEN k ELSE y)
                <=> Taken(g.op, IF g.first THEN y ELSE 0, IF g.first THEN 0 ELSE y)
        BY <2>3, <2>6, <2>7, OrdTests
    <2>9. Taken(b.op, IF b.a = r THEN k ELSE y, IF b.a = r THEN y ELSE k)
                <=> Taken(j.op, h.x[j.a], Operand(j, h))
        BY <1>5, <2>2, <2>5, <2>8
    <2> QED
        BY <2>9 DEF y, k, r
<1>8. s.code[a] \in Insns
    <2>1. a \in a .. a + 2 - 1
        OBVIOUS
    <2>2. a \in DOMAIN s.code
        BY <1>1, <2>1, WindowEntry DEF ConstBranch
    <2> QED
        BY <2>2 DEF IsSection
<1>9. c.rd \in Regs
    BY <1>8 DEF Insns
<1>10. ops \subseteq Branches /\ f \in Fold("const_ord_branch", a, 2, Alone(j))
    BY <1>2 DEF j
<1> HIDE DEF ops
<1> QED
    BY <1>1, <1>3, <1>5, <1>6, <1>7, <1>9, <1>10, ConstBranchHolds

\* check_cond_to_branch: what the branch on the result compares.
LEMMA FoldedIs ==
    /\ folded_funct3("slt", TRUE) = "blt" /\ folded_funct3("slt", FALSE) = "bge"
    /\ folded_funct3("sltu", TRUE) = "bltu" /\ folded_funct3("sltu", FALSE) = "bgeu"
    /\ folded_funct3("seqz", TRUE) = "beq" /\ folded_funct3("seqz", FALSE) = "bne"
    /\ folded_funct3("snez", TRUE) = "bne" /\ folded_funct3("snez", FALSE) = "beq"
    /\ folded_funct3("eq", TRUE) = "bne" /\ folded_funct3("eq", FALSE) = "beq"
    BY Zenon DEF folded_funct3
\* The registers the branch reads that the condition c becomes, and what it says of v,
\* the result of c.
CondFirst(c) == IF Kind(c) = "snez" THEN c.b ELSE c.a
CondSecond(c) == IF Kind(c) \in {"seqz", "snez"} THEN 0 ELSE c.b
Decides(c, v, p, q) ==
    /\ v \in Words
    /\ Taken(folded_funct3(Kind(c), TRUE), p, q) <=> v # 0
    /\ Taken(folded_funct3(Kind(c), FALSE), p, q) <=> v = 0

LEMMA CondDecides ==
    ASSUME NEW c \in Insns, rv_decode_condition(c), NEW h, Machine(Words, h)
    PROVE  /\ CondFirst(c) \in Regs /\ CondSecond(c) \in Regs
           /\ Decides(c, Value(c.op, c.n, c.k, h.x[c.a], Operand(c, h)),
                      h.x[CondFirst(c)], h.x[CondSecond(c)])
<1> DEFINE u == h.x[c.a]
           w == Operand(c, h)
           v == Value(c.op, c.n, c.k, u, w)
           p == h.x[CondFirst(c)]
           q == h.x[CondSecond(c)]
<1> SUFFICES CondFirst(c) \in Regs /\ CondSecond(c) \in Regs /\ Decides(c, v, p, q)
    OBVIOUS
<1>1. /\ c.a \in Regs /\ (c.b # Imm => c.b \in Regs) /\ 0 \in Regs /\ h.x[0] = 0
      /\ c.n = XLEN /\ u \in Words /\ \A r \in Regs : h.x[r] \in Words
    BY HartAssumption DEF Insns, Machine, Imm, rv_decode_condition
<1>2. /\ c.b # Imm => w = h.x[c.b] /\ w \in Words
      /\ c.b = Imm => w = c.k
    BY <1>1 DEF Operand
<1>3. ASSUME NEW r \in Words
      PROVE  Unsigned(r) \in Int /\ Unsigned(r) >= 0 /\ (Unsigned(r) = 0 <=> r = 0)
    BY <1>3, UnsignedLemma, HalfLemma
<1>4. Unsigned(0) = 0 /\ Unsigned(1) = 1
    BY UnsignedLemma, HalfLemma
<1>5. CASE c.b = Imm
    <2>1. Kind(c) = "seqz" /\ c.op = "sltu" /\ c.k = 1
        BY <1>5 DEF Kind, rv_decode_condition, Immediate
    <2>2. v = Less(Unsigned(u), Unsigned(1))
        BY <1>2, <1>5, <2>1, ValueIs
    <2>3. CondFirst(c) = c.a /\ CondSecond(c) = 0
        BY <2>1 DEF CondFirst, CondSecond
    <2>4. v \in Words /\ (v # 0 <=> u = 0)
        <3> HIDE DEF u, v
        <3>1. Unsigned(u) \in Int /\ Unsigned(u) >= 0 /\ (Unsigned(u) = 0 <=> u = 0)
            BY <1>1, <1>3
        <3>2. Less(Unsigned(u), 1) \in Words /\ (Less(Unsigned(u), 1) = 0 <=> Unsigned(u) >= 1)
            BY <3>1, LessWord
        <3> QED
            BY <1>4, <2>2, <3>1, <3>2
    <2>5. p = u /\ q = 0
        BY <1>1, <2>3
    <2> HIDE DEF v, p, q, u, w
    <2>6. Decides(c, v, p, q)
        <3>1. folded_funct3(Kind(c), TRUE) = "beq" /\ folded_funct3(Kind(c), FALSE) = "bne"
            BY <2>1, FoldedIs
        <3>2. Taken("beq", p, q) <=> p = q
            BY Zenon DEF Taken
        <3>3. Taken("bne", p, q) <=> p # q
            BY Zenon DEF Taken
        <3> QED
            BY <3>1, <3>2, <3>3, <2>1, <2>4, <2>5 DEF Decides
    <2> QED
        BY <1>1, <2>3, <2>6
<1>6. CASE c.b # Imm /\ c.op = "sltu" /\ c.a = 0
    <2>1. Kind(c) = "snez" /\ u = 0
        BY <1>1, <1>6 DEF Kind
    <2>2. v = Less(Unsigned(0), Unsigned(w))
        BY <1>6, <2>1, ValueIs
    <2>3. CondFirst(c) = c.b /\ CondSecond(c) = 0
        BY <2>1 DEF CondFirst, CondSecond
    <2>4. v \in Words /\ (v # 0 <=> w # 0)
        <3> HIDE DEF w, v
        <3>1. Unsigned(w) \in Int /\ Unsigned(w) >= 0 /\ (Unsigned(w) = 0 <=> w = 0)
            BY <1>2, <1>3, <1>6
        <3>2. Less(0, Unsigned(w)) \in Words /\ (Less(0, Unsigned(w)) = 0 <=> 0 >= Unsigned(w))
            BY <3>1, LessWord
        <3> QED
            BY <1>4, <2>2, <3>1, <3>2
    <2>5. p = w /\ q = 0
        BY <1>1, <1>2, <1>6, <2>3
    <2> HIDE DEF v, p, q, u, w
    <2>6. Decides(c, v, p, q)
        <3>1. folded_funct3(Kind(c), TRUE) = "bne" /\ folded_funct3(Kind(c), FALSE) = "beq"
            BY <2>1, FoldedIs
        <3>2. Taken("bne", p, q) <=> p # q
            BY Zenon DEF Taken
        <3>3. Taken("beq", p, q) <=> p = q
            BY Zenon DEF Taken
        <3> QED
            BY <3>1, <3>2, <3>3, <2>1, <2>4, <2>5 DEF Decides
    <2> QED
        BY <1>1, <1>6, <2>3, <2>6
<1>7. ASSUME c.b # Imm, Kind(c) \notin {"snez", "seqz"}
      PROVE  /\ CondFirst(c) = c.a /\ CondSecond(c) = c.b /\ p = u /\ q = w
             /\ CondFirst(c) \in Regs /\ CondSecond(c) \in Regs
    BY <1>1, <1>2, <1>7 DEF CondFirst, CondSecond
<1>8. CASE c.b # Imm /\ c.op = "slt"
    <2>1. Kind(c) = "slt"
        BY <1>8 DEF Kind
    <2>2. v = Less(u, w)
        BY <1>8, ValueIs
    <2>3. u \in Int /\ w \in Int
        BY <1>1, <1>2, <1>8, HalfLemma
    <2>4. v \in Words /\ (v # 0 <=> u < w)
        <3> HIDE DEF u, v, w
        <3>1. Less(u, w) \in Words /\ (Less(u, w) = 0 <=> u >= w)
            BY <2>3, LessWord
        <3> QED
            BY <2>2, <2>3, <3>1
    <2>5. p = u /\ q = w /\ CondFirst(c) \in Regs /\ CondSecond(c) \in Regs
        BY <1>7, <1>8, <2>1
    <2> HIDE DEF v, p, q, u, w
    <2>6. Decides(c, v, p, q)
        <3>1. folded_funct3(Kind(c), TRUE) = "blt" /\ folded_funct3(Kind(c), FALSE) = "bge"
            BY <2>1, FoldedIs
        <3>2. Taken("blt", p, q) <=> p < q
            BY Zenon DEF Taken
        <3>3. Taken("bge", p, q) <=> p >= q
            BY Zenon DEF Taken
        <3>4. (p < q <=> v # 0) /\ (p >= q <=> v = 0)
            BY <2>3, <2>4, <2>5
        <3> QED
            BY <3>1, <3>2, <3>3, <3>4, <2>1, <2>3, <2>4, <2>5 DEF Decides
    <2> QED
        BY <2>5, <2>6
<1>9. CASE c.b # Imm /\ c.op = "sltu" /\ c.a # 0
    <2>1. Kind(c) = "sltu"
        BY <1>9 DEF Kind
    <2>2. v = Less(Unsigned(u), Unsigned(w))
        BY <1>9, ValueIs
    <2>3. Unsigned(u) \in Int /\ Unsigned(w) \in Int
        BY <1>1, <1>2, <1>3, <1>9
    <2>4. v \in Words /\ (v # 0 <=> Unsigned(u) < Unsigned(w))
        <3> HIDE DEF u, v, w
        <3> DEFINE d == Unsigned(u)
                   e == Unsigned(w)
        <3>1. d \in Int /\ e \in Int /\ v = Less(d, e)
            BY <2>2, <2>3
        <3> HIDE DEF d, e
        <3>2. Less(d, e) \in Words /\ (Less(d, e) = 0 <=> d >= e)
            BY <3>1, LessWord
        <3>3. v \in Words /\ (v # 0 <=> d < e)
            BY <3>1, <3>2
        <3> QED
            BY <3>3 DEF d, e
    <2>5. p = u /\ q = w /\ CondFirst(c) \in Regs /\ CondSecond(c) \in Regs
        BY <1>7, <1>9, <2>1
    <2> HIDE DEF v, p, q, u, w
    <2>6. Decides(c, v, p, q)
        <3>1. folded_funct3(Kind(c), TRUE) = "bltu" /\ folded_funct3(Kind(c), FALSE) = "bgeu"
            BY <2>1, FoldedIs
        <3>2. Taken("bltu", p, q) <=> Unsigned(p) < Unsigned(q)
            BY Zenon DEF Taken
        <3>3. Taken("bgeu", p, q) <=> Unsigned(p) >= Unsigned(q)
            BY Zenon DEF Taken
        <3>4. (Unsigned(p) < Unsigned(q) <=> v # 0) /\ (Unsigned(p) >= Unsigned(q) <=> v = 0)
            BY <2>3, <2>4, <2>5
        <3> QED
            BY <3>1, <3>2, <3>3, <3>4, <2>1, <2>3, <2>4, <2>5 DEF Decides
    <2> QED
        BY <2>5, <2>6
<1>10. CASE c.b # Imm /\ c.op \in {"sub", "xor"}
    <2>1. Kind(c) = "eq"
        BY <1>10 DEF Kind
    <2>2. u \in Words /\ w \in Words
        BY <1>1, <1>2, <1>10
    <2>3. ASSUME c.op = "sub"
          PROVE  v \in Words /\ (v = 0 <=> u = w)
        <3>1. v = Sext(XLEN, u - w)
            BY <1>1, <2>3, ValueIs
        <3>2. u - w \in Int
            BY <2>2, HalfLemma
        <3> HIDE DEF u, v, w
        <3>3. Sext(XLEN, u - w) \in Words
            BY <3>2, SextWord
        <3>4. Sext(XLEN, u - w) = 0 <=> u = w
            BY <2>2, SubZero
        <3> QED
            BY <3>1, <3>3, <3>4
    <2>4. ASSUME c.op = "xor"
          PROVE  v \in Words /\ (v = 0 <=> u = w)
        <3>1. v = BitXor(u, w)
            BY <1>1, <2>4, ValueIs
        <3> HIDE DEF u, v, w
        <3>2. BitXor(u, w) \in Words /\ (BitXor(u, w) = 0 <=> u = w)
            BY <2>2, XorZero
        <3> QED
            BY <3>1, <3>2
    <2>5. p = u /\ q = w /\ CondFirst(c) \in Regs /\ CondSecond(c) \in Regs
        BY <1>7, <1>10, <2>1
    <2>6. v \in Words /\ (v = 0 <=> u = w)
        BY <1>10, <2>3, <2>4
    <2> HIDE DEF v, p, q, u, w
    <2>7. Decides(c, v, p, q)
        <3>1. folded_funct3(Kind(c), TRUE) = "bne" /\ folded_funct3(Kind(c), FALSE) = "beq"
            BY <2>1, FoldedIs
        <3>2. Taken("bne", p, q) <=> p # q
            BY Zenon DEF Taken
        <3>3. Taken("beq", p, q) <=> p = q
            BY Zenon DEF Taken
        <3> QED
            BY <3>1, <3>2, <3>3, <2>1, <2>6, <2>5 DEF Decides
    <2> QED
        BY <2>5, <2>7
<1>11. c.b = Imm \/ c.op \in {"sub", "xor", "slt", "sltu"}
    BY DEF rv_decode_condition, Immediate
<1> QED
    BY <1>5, <1>6, <1>8, <1>9, <1>10, <1>11

\* So a branch on a condition may be a branch on what the condition compared.
LEMMA CondHolds ==
    ASSUME NEW s, IsSection(s), Honest(s), NEW a \in Nat \ {0},
           NEW f \in check_cond_to_branch(s, a),
           NEW x \in [Regs -> Words], x[0] = 0, NEW m, NEW fuel \in Nat
    PROVE  Holds(s, f, x, m, fuel)
<1> DEFINE c == s.code[a]
           b == s.code[a + 1]
           tested == IF b.b = 0 THEN b.a ELSE b.b
           on == b.op = "bne"
           j == Br(folded_funct3(Kind(c), on), CondFirst(c), CondSecond(c), b.to)
<1>1. /\ Window(s, a, 2) /\ rv_decode_condition(c)
      /\ b.op \in {"beq", "bne"} /\ 0 \in {b.a, b.b} /\ tested = c.rd
      /\ DeadBothWays(s, a + 1, c.rd)
      /\ f \in Fold("cond_to_branch", a, 2, Alone(j))
    BY DEF check_cond_to_branch, When, Alone, CondFirst, CondSecond
<1>2. c \in Insns /\ b \in Insns
    <2>1. a \in a .. a + 2 - 1 /\ a + 1 \in a .. a + 2 - 1
        OBVIOUS
    <2>2. a \in DOMAIN s.code /\ a + 1 \in DOMAIN s.code
        BY <1>1, <2>1, WindowEntry
    <2> QED
        BY <2>2 DEF IsSection
<1>3. Plainly(c) /\ c.rd # 0 /\ c.rd \in Regs
    BY <1>1, <1>2 DEF Plainly, rv_decode_condition, Immediate, Transfers, Branches, Accesses, Atomics,
                      Insns
<1>4. j.op \in Branches
    <2>1. folded_funct3(Kind(c), TRUE) \in Branches /\ folded_funct3(Kind(c), FALSE) \in Branches
        <3>1. Kind(c) \in {"seqz", "snez", "slt", "sltu", "eq"}
            BY DEF Kind
        <3> QED
            BY <3>1, FoldedIs DEF Branches
    <2>2. on \in BOOLEAN
        OBVIOUS
    <2> HIDE DEF on
    <2>3. folded_funct3(Kind(c), on) \in Branches
        BY <2>1, <2>2
    <2> QED
        BY <2>3 DEF Br, Insn
<1>5. /\ j.op = folded_funct3(Kind(c), on) /\ j.to = b.to
      /\ j.a = CondFirst(c) /\ j.b = CondSecond(c)
    BY DEF Br, Insn
<1>6. DecidesAs(s, c, b, j)
    <2> SUFFICES ASSUME NEW g, NEW h, Machine(Words, g), Machine(Words, h), Same(s, {c.rd}, g, h),
                        c.rd \in {c.a, c.b} => g.x[c.rd] = h.x[c.rd]
                 PROVE  \E v \in Words :
                            /\ Value(c.op, c.n, c.k, g.x[c.a], Operand(c, g)) = v
                            /\ \A z : Written(Words, g, c.rd, v, z) =>
                                   (Taken(b.op, z.x[b.a], Operand(b, z))
                                        <=> Taken(j.op, h.x[j.a], Operand(j, h)))
        BY DEF DecidesAs
    <2> DEFINE v == Value(c.op, c.n, c.k, h.x[c.a], Operand(c, h))
               p == h.x[CondFirst(c)]
               q == h.x[CondSecond(c)]
    <2>1. CondFirst(c) \in Regs /\ CondSecond(c) \in Regs /\ Decides(c, v, p, q)
        BY <1>1, <1>2, CondDecides
    <2>2. Value(c.op, c.n, c.k, g.x[c.a], Operand(c, g)) = v
        <3>1. \A r \in Regs : r \in {c.a, c.b} => g.x[r] = h.x[r]
            BY DEF Same
        <3>2. g.x[c.a] = h.x[c.a]
            BY <1>2, <3>1 DEF Insns
        <3>3. Operand(c, g) = Operand(c, h)
            BY <1>2, <3>1 DEF Insns, Operand, Imm
        <3> QED
            BY <3>2, <3>3
    <2>3. v \in Words
        BY <2>1 DEF Decides
    <2>4. Taken(j.op, h.x[j.a], Operand(j, h)) <=> (IF on THEN v # 0 ELSE v = 0)
        <3>1. CondSecond(c) # Imm
            BY <2>1, HartAssumption DEF Imm
        <3>2. h.x[j.a] = p /\ Operand(j, h) = q
            BY <1>5, <3>1 DEF Operand
        <3>3. CASE on
            <4>1. j.op = folded_funct3(Kind(c), TRUE)
                BY <1>5, <3>3
            <4> HIDE DEF v, p, q, j, on
            <4> QED
                BY <2>1, <3>2, <3>3, <4>1 DEF Decides
        <3>4. CASE ~on
            <4>1. j.op = folded_funct3(Kind(c), FALSE)
                BY <1>5, <3>4
            <4> HIDE DEF v, p, q, j, on
            <4> QED
                BY <2>1, <3>2, <3>4, <4>1 DEF Decides
        <3> QED
            BY <3>3, <3>4
    <2> HIDE DEF v, p, q, j
    <2>5. ASSUME NEW z, Written(Words, g, c.rd, v, z)
          PROVE  Taken(b.op, z.x[b.a], Operand(b, z)) <=> (IF on THEN v # 0 ELSE v = 0)
        <3>1. z.x[0] = 0 /\ z.x[c.rd] = v
            BY <2>5 DEF Written, Machine
        <3>2. b.b # Imm
            BY <1>1, <1>2 DEF Insns, Imm, Branches
        <3>3. Operand(b, z) = z.x[b.b]
            BY <3>2 DEF Operand
        <3>4. {z.x[b.a], z.x[b.b]} = {v, 0}
            BY <1>1, <3>1
        <3> DEFINE y1 == z.x[b.a]
                   y2 == z.x[b.b]
        <3>5. (y1 = y2) <=> v = 0
            BY <3>4
        <3>6. (Taken("beq", y1, y2) <=> y1 = y2) /\ (Taken("bne", y1, y2) <=> y1 # y2)
            BY Zenon DEF Taken
        <3>7. Taken(b.op, y1, y2) <=> (IF on THEN v # 0 ELSE v = 0)
            <4> HIDE DEF y1, y2
            <4> QED
                BY <1>1, <3>5, <3>6
        <3> QED
            BY <3>3, <3>7
    <2> QED
        BY <2>2, <2>3, <2>4, <2>5
<1> HIDE DEF j, on
<1>7. b.op \in Branches
    BY <1>1 DEF Branches
<1> QED
    BY <1>1, <1>3, <1>4, <1>5, <1>6, <1>7, WriteBranchHolds

\* check_transfer_to_next: a transfer to where control goes anyway.
LEMMA ToNextHolds ==
    ASSUME NEW s, IsSection(s), NEW a \in Nat \ {0},
           NEW f \in check_transfer_to_next(s, a),
           NEW x \in [Regs -> Words], x[0] = 0, NEW m, NEW fuel \in Nat, 1 <= fuel
    PROVE  Holds(s, f, x, m, fuel)
<1> DEFINE t == s.code[a]
           h == Start(s, x, m, a)
           S == DOMAIN f.patch
<1>1. /\ Window(s, a, 1) /\ t.to = a + 1
      /\ t.op \in Branches \/ (t.op = "jal" /\ t.rd = 0)
      /\ f \in Fold("transfer_to_next", a, 1, Gone)
    BY DEF check_transfer_to_next, When, Gone, rv_decode_cond_branch, rv_decode_jump
<1>2. S = a .. a + 1 - 1 /\ f.patch[a] = Gone /\ a \in S /\ a + 1 \notin S
    BY <1>1 DEF Fold, Finding
<1>3. a \in DOMAIN s.code
    <2>1. a .. a + 1 - 1 \subseteq DOMAIN s.code
        BY <1>1, WindowEntry
    <2> QED
        BY <1>2, <2>1
<1>4. Machine(Words, h) /\ h.pc = a
    BY StartMachine
<1> HIDE DEF h, S
<1>5. Step(Plain(s), S, h) = Ran(h, t)
    BY <1>2, <1>3, <1>4, PlainStep
<1>6. Step(Patched(s, f), S, h) = Skip(h)
    BY <1>2, <1>3, <1>4, SkipStep DEF S
<1>7. Ran(h, t).m = h.m /\ Ran(h, t).x = h.x /\ Ran(h, t).pc = a + 1
    <2>1. t.to \in Int
        BY <1>1
    <2>2. CASE t.op \in Branches
        BY <1>1, <1>4, <2>1, <2>2, RanBranch
    <2>3. CASE t.op = "jal" /\ t.rd = 0
        BY <1>1, <1>4, <2>1, <2>3, RanJump
    <2> QED
        BY <1>1, <2>2, <2>3
<1>8. Skip(h).m = h.m /\ Skip(h).x = h.x /\ Skip(h).pc = a + 1
    BY <1>4, SkipMachine
<1>9. Leaving(Plain(s), S, h, fuel) = Ran(h, t)
    BY <1>2, <1>5, <1>7, LeavingOne
<1>10. Leaving(Patched(s, f), S, h, fuel) = Skip(h)
    BY <1>2, <1>6, <1>8, LeavingOne
<1>11. Agree(s, Ran(h, t), Skip(h))
    BY <1>7, <1>8 DEF Agree
<1>12. Outcome(s, f, Start(s, x, m, a), fuel)
    BY <1>9, <1>10, <1>11 DEF Outcome, S, h
<1>13. DOMAIN f.patch = a .. a + 1 - 1 /\ 1 \in Nat \ {0} /\ Window(s, a, 1)
    BY <1>1, <1>2 DEF S
<1> QED
    BY <1>12, <1>13, WindowHolds

\* The opposite branch.
LEMMA OppositeIs ==
    ASSUME NEW op \in Branches, NEW u \in Words, NEW v \in Words
    PROVE  Opposite(op) \in Branches /\ (Taken(Opposite(op), u, v) <=> ~Taken(op, u, v))
<1>1. /\ Opposite("beq") = "bne" /\ Opposite("bne") = "beq"
      /\ Opposite("blt") = "bge" /\ Opposite("bge") = "blt"
      /\ Opposite("bltu") = "bgeu" /\ Opposite("bgeu") = "bltu"
    BY Zenon DEF Opposite
<1> DEFINE y == Unsigned(u)
           z == Unsigned(v)
<1>2. u \in Int /\ v \in Int /\ y \in Int /\ z \in Int
    BY UnsignedLemma, HalfLemma
<1>3. /\ Taken("beq", u, v) <=> u = v
      /\ Taken("bne", u, v) <=> u # v
      /\ Taken("blt", u, v) <=> u < v
      /\ Taken("bge", u, v) <=> u >= v
      /\ Taken("bltu", u, v) <=> y < z
      /\ Taken("bgeu", u, v) <=> y >= z
    BY Zenon DEF Taken
<1>4. (u < v <=> ~(u >= v)) /\ (y < z <=> ~(y >= z))
    <2> HIDE DEF y, z
    <2> QED
        BY <1>2
<1> QED
    BY <1>1, <1>3, <1>4 DEF Branches

\* What the opposite branch does, from one machine.
LEMMA RanOpposite ==
    ASSUME NEW g, Machine(Words, g), NEW b \in Insns, b.op \in Branches, NEW to \in Int
    PROVE  LET k == Ran(g, Br(Opposite(b.op), b.a, b.b, to))
               l == Ran(g, b)
           IN  /\ Machine(Words, k) /\ k.m = g.m /\ k.x = g.x
               /\ Machine(Words, l) /\ l.m = g.m /\ l.x = g.x
               /\ IF Taken(b.op, g.x[b.a], g.x[b.b]) THEN l.pc = b.to /\ k.pc = g.pc + 1
                                                     ELSE l.pc = g.pc + 1 /\ k.pc = to
<1> DEFINE o == Br(Opposite(b.op), b.a, b.b, to)
<1>1. o.op = Opposite(b.op) /\ o.a = b.a /\ o.b = b.b /\ o.to = to
    BY DEF Br, Insn
<1> HIDE DEF o
<1>2. b.a \in Regs /\ b.b \in Regs /\ b.b # Imm /\ b.to \in Int
    BY DEF Insns, Branches, Imm
<1>3. Operand(b, g) = g.x[b.b] /\ Operand(o, g) = g.x[b.b]
    BY <1>1, <1>2 DEF Operand
<1>4. g.x[b.a] \in Words /\ g.x[b.b] \in Words
    BY <1>2 DEF Machine
<1> DEFINE u == g.x[b.a]
           v == g.x[b.b]
           k == Ran(g, o)
           l == Ran(g, b)
<1>5. Opposite(b.op) \in Branches /\ (Taken(Opposite(b.op), u, v) <=> ~Taken(b.op, u, v))
    BY <1>4, OppositeIs
<1>6. /\ Machine(Words, l) /\ l.m = g.m /\ l.x = g.x
      /\ l.pc = IF Taken(b.op, g.x[b.a], Operand(b, g)) THEN b.to ELSE g.pc + 1
    BY <1>2, RanBranch
<1>7. /\ Machine(Words, k) /\ k.m = g.m /\ k.x = g.x
      /\ k.pc = IF Taken(o.op, g.x[o.a], Operand(o, g)) THEN o.to ELSE g.pc + 1
    BY <1>1, <1>5, RanBranch
<1>8. Taken(o.op, g.x[o.a], Operand(o, g)) <=> ~Taken(b.op, g.x[b.a], Operand(b, g))
    BY <1>1, <1>3, <1>5
<1> HIDE DEF k, l
<1>9. IF Taken(b.op, u, v) THEN l.pc = b.to /\ k.pc = g.pc + 1
                           ELSE l.pc = g.pc + 1 /\ k.pc = to
    BY <1>1, <1>3, <1>6, <1>7, <1>8
<1> QED
    BY <1>6, <1>7, <1>9 DEF k, l, o

\* check_branch_over_jump: a branch around a jump is the opposite branch to where the
\* jump goes, even where it goes back to the branch.
LEMMA OverJumpHolds ==
    ASSUME NEW s, IsSection(s), NEW a \in Nat \ {0},
           NEW f \in check_branch_over_jump(s, a),
           NEW x \in [Regs -> Words], x[0] = 0, NEW m, NEW fuel \in Nat, 2 <= fuel
    PROVE  Holds(s, f, x, m, fuel)
<1> DEFINE b == s.code[a]
           j == s.code[a + 1]
           o == Br(Opposite(b.op), b.a, b.b, j.to)
           h == Start(s, x, m, a)
           S == DOMAIN f.patch
           P == Plain(s)
           Q == Patched(s, f)
<1>1. /\ Window(s, a, 2) /\ b.op \in Branches /\ j.op = "jal" /\ j.rd = 0
      /\ b.to = a + 2 /\ j.to # a + 2
      /\ f = Finding("branch_over_jump", [p \in {a, a + 1} |-> IF p = a THEN Alone(o) ELSE Gone])
    BY DEF check_branch_over_jump, When, Gone, Alone, rv_decode_cond_branch, rv_decode_jump
<1>2. S = {a, a + 1} /\ f.patch[a] = Alone(o) /\ f.patch[a + 1] = Gone /\ a + 1 # a
      /\ a .. a + 2 - 1 = {a, a + 1}
    BY <1>1 DEF Finding
<1>3. a \in DOMAIN s.code /\ a + 1 \in DOMAIN s.code /\ a \in S /\ a + 1 \in S
    <2>1. a .. a + 2 - 1 \subseteq DOMAIN s.code
        BY <1>1, WindowEntry
    <2> QED
        BY <1>2, <2>1
<1>4. b \in Insns /\ j \in Insns /\ j.to \in Int
    BY <1>3, SMTT(30) DEF IsSection, Insns
<1>5. j.to # a + 1
    BY <1>1, <1>3, NotBetween DEF Relative
<1>6. Machine(Words, h) /\ h.pc = a
    BY StartMachine
<1> HIDE DEF h, P, Q, o
<1>7. ASSUME NEW g, Machine(Words, g), g.pc = a
      PROVE  Step(P, S, g) = Ran(g, b) /\ Step(Q, S, g) = Ran(g, o)
    <2>1. Step(Plain(s), S, g) = Ran(g, b)
        BY <1>3, <1>7, PlainStep
    <2>2. Step(Patched(s, f), S, g) = Ran(g, o)
        BY <1>2, <1>3, <1>7, PatchStep
    <2> QED
        BY <2>1, <2>2 DEF P, Q
<1>8. ASSUME NEW g, Machine(Words, g), g.pc = a + 1
      PROVE  Step(P, S, g) = Ran(g, j) /\ Step(Q, S, g) = Skip(g)
    <2>1. Step(Plain(s), S, g) = Ran(g, j)
        BY <1>3, <1>8, PlainStep
    <2>2. Step(Patched(s, f), S, g) = Skip(g)
        BY <1>2, <1>3, <1>8, SkipStep
    <2> QED
        BY <2>1, <2>2 DEF P, Q
<1> HIDE DEF S
<1> SUFFICES Outcome(s, f, h, fuel)
    <2>1. DOMAIN f.patch = a .. a + 2 - 1
        BY <1>2 DEF S
    <2> QED
        BY <1>1, <2>1, WindowHolds DEF h
<1> DEFINE taken == Taken(b.op, h.x[b.a], h.x[b.b])
<1>9. ASSUME NEW g, Machine(Words, g), g.x = h.x, g.pc = a
      PROVE  /\ Machine(Words, Ran(g, o)) /\ Ran(g, o).m = g.m /\ Ran(g, o).x = h.x
             /\ Machine(Words, Ran(g, b)) /\ Ran(g, b).m = g.m /\ Ran(g, b).x = h.x
             /\ Ran(g, b).pc = (IF taken THEN a + 2 ELSE a + 1)
             /\ Ran(g, o).pc = (IF taken THEN a + 1 ELSE j.to)
    <2>1. LET k == Ran(g, Br(Opposite(b.op), b.a, b.b, j.to))
              l == Ran(g, b)
          IN  /\ Machine(Words, k) /\ k.m = g.m /\ k.x = g.x
              /\ Machine(Words, l) /\ l.m = g.m /\ l.x = g.x
              /\ IF Taken(b.op, g.x[b.a], g.x[b.b]) THEN l.pc = b.to /\ k.pc = g.pc + 1
                                                    ELSE l.pc = g.pc + 1 /\ k.pc = j.to
        BY <1>1, <1>4, <1>9, RanOpposite, ZenonT(40)
    <2> DEFINE k == Ran(g, o)
               l == Ran(g, b)
    <2>2. /\ Machine(Words, k) /\ k.m = g.m /\ k.x = g.x
          /\ Machine(Words, l) /\ l.m = g.m /\ l.x = g.x
          /\ IF taken THEN l.pc = b.to /\ k.pc = g.pc + 1
                      ELSE l.pc = g.pc + 1 /\ k.pc = j.to
        BY <1>9, <2>1 DEF o
    <2> HIDE DEF k, l, taken
    <2>3. /\ Machine(Words, k) /\ k.m = g.m /\ k.x = h.x
          /\ Machine(Words, l) /\ l.m = g.m /\ l.x = h.x
          /\ l.pc = (IF taken THEN a + 2 ELSE a + 1)
          /\ k.pc = (IF taken THEN a + 1 ELSE j.to)
        BY <1>1, <1>9, <2>2
    <2> QED
        BY <2>3 DEF k, l
<1> HIDE DEF taken
<1> DEFINE l == Ran(h, b)
           k == Ran(h, o)
<1>10. /\ Step(P, S, h) = l /\ Step(Q, S, h) = k
       /\ Machine(Words, k) /\ k.m = h.m /\ k.x = h.x
       /\ Machine(Words, l) /\ l.m = h.m /\ l.x = h.x
       /\ l.pc = (IF taken THEN a + 2 ELSE a + 1)
       /\ k.pc = (IF taken THEN a + 1 ELSE j.to)
    BY <1>6, <1>7, <1>9
<1> HIDE DEF l, k
<1>11. CASE taken
    <2>1. Leaving(P, S, h, fuel) = l
        BY <1>2, <1>10, <1>11, LeavingOne
    <2>2. Step(Q, S, k) = Skip(k) /\ Skip(k).pc = a + 1 + 1 /\ Skip(k).m = k.m /\ Skip(k).x = k.x
        BY <1>8, <1>10, <1>11, SkipMachine
    <2>3. Leaving(Q, S, h, fuel) = Skip(k)
        BY <1>2, <1>10, <2>2, LeavingTwo
    <2>4. Agree(s, l, Skip(k))
        BY <1>10, <1>11, <2>2 DEF Agree
    <2> QED
        BY <2>1, <2>3, <2>4 DEF Outcome, S, P, Q
<1>12. CASE ~taken /\ j.to # a
    <2>1. Leaving(Q, S, h, fuel) = k
        BY <1>2, <1>5, <1>10, <1>12, LeavingOne
    <2>2. Step(P, S, l) = Ran(l, j) /\ Ran(l, j).pc = j.to /\ Ran(l, j).m = l.m /\ Ran(l, j).x = l.x
        BY <1>1, <1>4, <1>8, <1>10, <1>12, RanJump
    <2>3. Leaving(P, S, h, fuel) = Ran(l, j)
        BY <1>2, <1>5, <1>10, <1>12, <2>2, LeavingTwo
    <2>4. Agree(s, Ran(l, j), k)
        BY <1>10, <1>12, <2>2 DEF Agree
    <2> QED
        BY <2>1, <2>3, <2>4 DEF Outcome, S, P, Q
<1>13. CASE ~taken /\ j.to = a
    <2>1. ASSUME NEW g, Machine(Words, g), g.x = h.x, g.pc = a
          PROVE  /\ Step(P, S, g) = Ran(g, b) /\ Step(Q, S, g) = Ran(g, o)
                 /\ Machine(Words, Ran(g, o)) /\ Ran(g, o).x = h.x /\ Ran(g, o).pc = a
                 /\ Machine(Words, Ran(g, b)) /\ Ran(g, b).x = h.x /\ Ran(g, b).pc = a + 1
        BY <1>7, <1>9, <1>13, <2>1
    <2>2. ASSUME NEW g, Circling({a, a + 1}, h.x, g)
          PROVE  Circling({a, a + 1}, h.x, Step(P, S, g))
        <3>1. CASE g.pc = a
            BY <2>1, <2>2, <3>1 DEF Circling
        <3>2. CASE g.pc = a + 1
            <4>1. Step(P, S, g) = Ran(g, j)
                BY <1>8, <2>2, <3>2 DEF Circling
            <4>2. Machine(Words, g) /\ g.x = h.x
                BY <2>2 DEF Circling
            <4>3. Machine(Words, Ran(g, j)) /\ Ran(g, j).x = g.x /\ Ran(g, j).pc = j.to
                BY <1>1, <1>4, <4>2, RanJump
            <4> QED
                BY <1>13, <4>1, <4>2, <4>3 DEF Circling
        <3> QED
            BY <2>2, <3>1, <3>2 DEF Circling
    <2>3. ASSUME NEW g, Circling({a}, h.x, g)
          PROVE  Circling({a}, h.x, Step(Q, S, g))
        BY <2>1, <2>3 DEF Circling
    <2>4. Circling({a, a + 1}, h.x, h) /\ Circling({a}, h.x, h)
        BY <1>6 DEF Circling
    <2>5. {a, a + 1} \subseteq S /\ {a} \subseteq S
        BY <1>2
    <2>6. Leaving(P, S, h, fuel).pc \in S
        <3> DEFINE A == {a, a + 1}
                   y == h.x
        <3>1. Circling(A, y, h) /\ A \subseteq S
              /\ \A g : Circling(A, y, g) => Circling(A, y, Step(P, S, g))
            BY <2>2, <2>4, <2>5
        <3> HIDE DEF A, y
        <3> QED
            BY <3>1, LeavingNever
    <2>7. Leaving(Q, S, h, fuel).pc \in S
        <3> DEFINE A == {a}
                   y == h.x
        <3>1. Circling(A, y, h) /\ A \subseteq S
              /\ \A g : Circling(A, y, g) => Circling(A, y, Step(Q, S, g))
            BY <2>3, <2>4, <2>5
        <3> HIDE DEF A, y
        <3> QED
            BY <3>1, LeavingNever
    <2> QED
        BY <2>6, <2>7 DEF Outcome, S, P, Q
<1> QED
    BY <1>11, <1>12, <1>13

\* check_branch_to_minmax: which of min, max, minu and maxu the branch b around a move
\* to r is.
MinMaxOp(b, r) ==
    LET isMax == (b.op \in {"bge", "bgeu"}) = (b.a = r)
    IN  IF b.op \in {"bltu", "bgeu"} THEN (IF isMax THEN "maxu" ELSE "minu")
                                     ELSE (IF isMax THEN "max" ELSE "min")
LEMMA MinMaxIs ==
    ASSUME NEW n, NEW k, NEW u, NEW v
    PROVE  /\ Value("min", n, k, u, v) = IF u < v THEN u ELSE v
           /\ Value("max", n, k, u, v) = IF u < v THEN v ELSE u
           /\ Value("minu", n, k, u, v) = IF Unsigned(u) < Unsigned(v) THEN u ELSE v
           /\ Value("maxu", n, k, u, v) = IF Unsigned(u) < Unsigned(v) THEN v ELSE u
    BY Zenon DEF Value

\* What the branch keeps is what the operation takes.
MinMaxPicks(b, r, n, k, u, v) ==
    Value(MinMaxOp(b, r), n, k, u, v)
        = IF Taken(b.op, IF b.a = r THEN u ELSE v, IF b.a = r THEN v ELSE u) THEN u ELSE v
LEMMA MinMaxValue ==
    ASSUME NEW b, NEW r, NEW u \in Words, NEW v \in Words, NEW n, NEW k,
           b.op \in Branches \ {"beq", "bne"}
    PROVE  MinMaxPicks(b, r, n, k, u, v)
<1> SUFFICES Value(MinMaxOp(b, r), n, k, u, v)
                = IF Taken(b.op, IF b.a = r THEN u ELSE v, IF b.a = r THEN v ELSE u) THEN u ELSE v
    BY DEF MinMaxPicks
<1> DEFINE first == b.a = r
           y == Unsigned(u)
           z == Unsigned(v)
           op == MinMaxOp(b, r)
           p1 == IF first THEN u ELSE v
           p2 == IF first THEN v ELSE u
           taken == Taken(b.op, p1, p2)
           val == Value(op, n, k, u, v)
<1>1. u \in Int /\ v \in Int /\ y \in Int /\ z \in Int /\ (y = z <=> u = v)
    BY UnsignedLemma, HalfLemma
<1>2. /\ Value("min", n, k, u, v) = IF u < v THEN u ELSE v
      /\ Value("max", n, k, u, v) = IF u < v THEN v ELSE u
      /\ Value("minu", n, k, u, v) = IF y < z THEN u ELSE v
      /\ Value("maxu", n, k, u, v) = IF y < z THEN v ELSE u
    BY MinMaxIs
<1>3. /\ op = "min" \/ op = "max" \/ op = "minu" \/ op = "maxu"
      /\ op \in {"min", "max"} <=> b.op \in {"blt", "bge"}
      /\ op \in {"max", "maxu"} <=> (b.op \in {"bge", "bgeu"}) = first
    BY DEF MinMaxOp, Branches
<1>4. b.op \in {"blt", "bge", "bltu", "bgeu"}
    BY DEF Branches
<1>5. \A i, j : /\ Taken("blt", i, j) <=> i < j
                /\ Taken("bge", i, j) <=> i >= j
                /\ Taken("bltu", i, j) <=> Unsigned(i) < Unsigned(j)
                /\ Taken("bgeu", i, j) <=> Unsigned(i) >= Unsigned(j)
    BY Zenon DEF Taken
<1> HIDE DEF val, taken, op
<1>6. CASE b.op = "blt"
    <2>1. taken <=> IF first THEN u < v ELSE v < u
        BY <1>5, <1>6 DEF taken
    <2>2. op = (IF first THEN "min" ELSE "max")
        BY <1>3, <1>6
    <2>3. val = (IF first THEN (IF u < v THEN u ELSE v) ELSE (IF u < v THEN v ELSE u))
        BY <1>2, <2>2 DEF val
    <2>4. val = IF taken THEN u ELSE v
        BY <1>1, <2>1, <2>3
    <2> QED
        BY <2>4 DEF val, taken, op
<1>7. CASE b.op = "bge"
    <2>1. taken <=> IF first THEN u >= v ELSE v >= u
        BY <1>5, <1>7 DEF taken
    <2>2. op = (IF first THEN "max" ELSE "min")
        BY <1>3, <1>7
    <2>3. val = (IF first THEN (IF u < v THEN v ELSE u) ELSE (IF u < v THEN u ELSE v))
        BY <1>2, <2>2 DEF val
    <2>4. val = IF taken THEN u ELSE v
        BY <1>1, <2>1, <2>3
    <2> QED
        BY <2>4 DEF val, taken, op
<1>8. CASE b.op = "bltu"
    <2>1. taken <=> IF first THEN y < z ELSE z < y
        BY <1>5, <1>8 DEF taken
    <2>2. op = (IF first THEN "minu" ELSE "maxu")
        BY <1>3, <1>8
    <2>3. val = (IF first THEN (IF y < z THEN u ELSE v) ELSE (IF y < z THEN v ELSE u))
        BY <1>2, <2>2 DEF val
    <2> HIDE DEF y, z
    <2>4. val = IF taken THEN u ELSE v
        BY <1>1, <2>1, <2>3
    <2> QED
        BY <2>4 DEF val, taken, op
<1>9. CASE b.op = "bgeu"
    <2>1. taken <=> IF first THEN y >= z ELSE z >= y
        BY <1>5, <1>9 DEF taken
    <2>2. op = (IF first THEN "maxu" ELSE "minu")
        BY <1>3, <1>9
    <2>3. val = (IF first THEN (IF y < z THEN v ELSE u) ELSE (IF y < z THEN u ELSE v))
        BY <1>2, <2>2 DEF val
    <2> HIDE DEF y, z
    <2>4. val = IF taken THEN u ELSE v
        BY <1>1, <2>1, <2>3
    <2> QED
        BY <2>4 DEF val, taken, op
<1> QED
    BY <1>4, <1>6, <1>7, <1>8, <1>9

\* The branch and the move behind it, and the operation they become, from one machine.
MinMaxEnds(s, p, g, b, mv, o) ==
    LET l == Ran(g, b)
        l2 == Ran(l, mv)
        k == Ran(g, o)
        k2 == Skip(k)
    IN  /\ k.pc = p + 1 /\ k2.pc = p + 2
        /\ \/ l.pc = p + 2 /\ Agree(s, l, k2)
           \/ l.pc = p + 1 /\ l2.pc = p + 2 /\ Agree(s, l2, k2)
LEMMA MinMaxCore ==
    ASSUME NEW s, NEW p \in Nat, NEW g, Machine(Words, g), g.pc = p,
           NEW b, b.op \in Branches \ {"beq", "bne"}, b.to = p + 2,
           NEW mv, Plainly(mv), mv.rd \in Regs \ {0}, NEW q \in Regs \ {mv.rd},
           <<b.a, b.b>> \in {<<mv.rd, q>>, <<q, mv.rd>>},
           \A l : Machine(Words, l) /\ l.x = g.x =>
                Value(mv.op, mv.n, mv.k, l.x[mv.a], Operand(mv, l)) = g.x[q]
    PROVE  MinMaxEnds(s, p, g, b, mv, R(MinMaxOp(b, mv.rd), mv.rd, mv.rd, q))
<1> DEFINE r == mv.rd
           op == MinMaxOp(b, r)
           o == R(op, r, r, q)
           u == g.x[r]
           v == g.x[q]
           first == b.a = r
           l == Ran(g, b)
           l2 == Ran(l, mv)
           k == Ran(g, o)
           k2 == Skip(k)
           taken == Taken(b.op, g.x[b.a], Operand(b, g))
           w == IF taken THEN u ELSE v
<1>1. r \in Regs \ {0} /\ q \in Regs /\ q # r /\ q # Imm /\ r # Imm
    BY HartAssumption DEF Imm
<1>2. u \in Words /\ v \in Words
    BY <1>1 DEF Machine
<1>3. first \in BOOLEAN /\ b.a = (IF first THEN r ELSE q) /\ b.b = (IF first THEN q ELSE r)
    BY <1>1
<1>4. taken <=> Taken(b.op, IF first THEN u ELSE v, IF first THEN v ELSE u)
    <2>1. Operand(b, g) = g.x[b.b]
        BY <1>1, <1>3 DEF Operand
    <2>2. g.x[b.a] = (IF first THEN u ELSE v) /\ g.x[b.b] = (IF first THEN v ELSE u)
        BY <1>3
    <2> QED
        BY <2>1, <2>2
<1>5. /\ o.op = op /\ o.rd = r /\ o.a = r /\ o.b = q
    BY DEF R, Insn
<1>6. Value(o.op, o.n, o.k, g.x[o.a], Operand(o, g)) = w
    <2>1. Operand(o, g) = v /\ g.x[o.a] = u
        BY <1>1, <1>5 DEF Operand
    <2>3. b.op \in Branches \ {"beq", "bne"}
        OBVIOUS
    <2> HIDE DEF o, u, v, taken, r, first
    <2>2. Value(MinMaxOp(b, r), o.n, o.k, u, v)
            = IF Taken(b.op, IF b.a = r THEN u ELSE v, IF b.a = r THEN v ELSE u) THEN u ELSE v
        <3>1. MinMaxPicks(b, r, o.n, o.k, u, v)
            BY <1>2, <2>3, MinMaxValue
        <3> QED
            BY <3>1 DEF MinMaxPicks
    <2>4. first = (b.a = r)
        BY DEF first
    <2> QED
        BY <1>4, <1>5, <2>1, <2>2, <2>4
<1>7. Plainly(o)
    <2>1. op \in {"min", "max", "minu", "maxu"}
        BY DEF MinMaxOp
    <2> HIDE DEF o, op
    <2> QED
        BY <1>5, <2>1 DEF Plainly, Transfers, Branches, Accesses, Atomics
<1>8. w \in Words
    BY <1>2
<1>9. \A z : Machine(Words, z) /\ z.x = g.x =>
                Value(mv.op, mv.n, mv.k, z.x[mv.a], Operand(mv, z)) = v
    OBVIOUS
<1> HIDE DEF o, u, v, w, r
<1>10. Written(Words, g, o.rd, w, k)
    BY <1>1, <1>5, <1>6, <1>7, <1>8, RanValue
<1>11. /\ Machine(Words, k) /\ k.pc = p + 1 /\ k.m = g.m /\ k.x[r] = w
       /\ \A y \in Regs \ {r} : k.x[y] = g.x[y]
    BY <1>5, <1>10 DEF Written
<1> HIDE DEF k
<1>12. k2.pc = p + 2 /\ k2.m = g.m /\ k2.x = k.x
    BY <1>11, SkipMachine
<1>13. /\ Machine(Words, l) /\ l.m = g.m /\ l.x = g.x
       /\ l.pc = IF taken THEN p + 2 ELSE p + 1
    <2>1. b.op \in Branches /\ b.to \in Int
        OBVIOUS
    <2> HIDE DEF taken
    <2> QED
        BY <2>1, RanBranch DEF taken
<1> HIDE DEF l, k2, taken
<1>14. CASE taken
    <2>1. w = u
        BY <1>14 DEF w
    <2>2. Agree(s, l, k2)
        BY <1>11, <1>12, <1>13, <1>14, <2>1 DEF Agree, u
    <2> QED
        BY <1>11, <1>12, <1>13, <1>14, <2>2 DEF MinMaxEnds, l, k2, k, o, r
<1>15. CASE ~taken
    <2>1. w = v
        BY <1>15 DEF w
    <2>2. Value(mv.op, mv.n, mv.k, l.x[mv.a], Operand(mv, l)) = v
        BY <1>9, <1>13
    <2>3. Written(Words, l, mv.rd, v, l2)
        BY <1>1, <1>2, <1>13, <2>2, RanValue DEF r
    <2>4. /\ l2.pc = p + 2 /\ l2.m = g.m /\ l2.x[r] = v
          /\ \A y \in Regs \ {r} : l2.x[y] = g.x[y]
        <3> HIDE DEF l2
        <3> QED
            BY <1>13, <1>15, <2>3 DEF Written, r
    <2> HIDE DEF l2
    <2>5. Agree(s, l2, k2)
        BY <1>11, <1>12, <2>1, <2>4 DEF Agree
    <2> QED
        BY <1>11, <1>12, <1>13, <1>15, <2>4, <2>5 DEF MinMaxEnds, l, l2, k2, k, o, r
<1> QED
    BY <1>14, <1>15

\* How the code and the patch run the branch and the move.
StepsMinMax(S, P, Q, p, b, mv, o) ==
    \A g : /\ g.pc = p => Step(P, S, g) = Ran(g, b) /\ Step(Q, S, g) = Ran(g, o)
           /\ g.pc = p + 1 => Step(P, S, g) = Ran(g, mv) /\ Step(Q, S, g) = Skip(g)
LEMMA MinMaxLeaves ==
    ASSUME NEW s, NEW S, NEW P, NEW Q, NEW p, NEW b, NEW mv, NEW o, NEW g, NEW n \in Nat,
           2 <= n, StepsMinMax(S, P, Q, p, b, mv, o), MinMaxEnds(s, p, g, b, mv, o),
           g.pc = p, p + 2 \notin S
    PROVE  Agree(s, Leaving(P, S, g, n), Leaving(Q, S, g, n))
<1> DEFINE l == Ran(g, b)
           l2 == Ran(l, mv)
           k == Ran(g, o)
           k2 == Skip(k)
<1>1. /\ k.pc = p + 1 /\ k2.pc = p + 2
      /\ \/ l.pc = p + 2 /\ Agree(s, l, k2)
         \/ l.pc = p + 1 /\ l2.pc = p + 2 /\ Agree(s, l2, k2)
    BY DEF MinMaxEnds
<1>2. /\ Step(P, S, g) = l /\ Step(Q, S, g) = k /\ Step(Q, S, k) = k2
      /\ l.pc = p + 1 => Step(P, S, l) = l2
    BY <1>1 DEF StepsMinMax
<1> HIDE DEF l, l2, k, k2
<1>3. Leaving(Q, S, g, n) = k2
    BY <1>1, <1>2, LeavingTwo
<1>4. CASE l.pc = p + 2 /\ Agree(s, l, k2)
    <2>1. Leaving(P, S, g, n) = l
        BY <1>2, <1>4, LeavingOne
    <2> QED
        BY <1>3, <1>4, <2>1
<1>5. CASE l.pc = p + 1 /\ l2.pc = p + 2 /\ Agree(s, l2, k2)
    <2>1. Leaving(P, S, g, n) = l2
        BY <1>2, <1>5, LeavingTwo
    <2> QED
        BY <1>3, <1>5, <2>1
<1> QED
    BY <1>1, <1>4, <1>5

\* What a constant loaded is worth: the same wherever it is loaded.
LEMMA LiWorth ==
    ASSUME NEW g, Machine(Words, g), NEW c, decode_const(c)
    PROVE  Value(c.op, c.n, c.k, g.x[c.a], Operand(c, g)) = Sext(XLEN, 0 + c.k)
<1>1. c.op = "add" /\ c.b = Imm /\ c.n = XLEN /\ c.a = 0
    BY DEF decode_const, rv_decode_addi, Immediate
<1>2. Operand(c, g) = c.k /\ g.x[c.a] = 0
    BY <1>1 DEF Operand, Machine
<1>3. Value("add", XLEN, c.k, 0, c.k) = Sext(XLEN, 0 + c.k)
    BY DEF Value
<1> QED
    BY <1>1, <1>2, <1>3

\* The branch and the move, from the machine that gets to them.
LEMMA MinMaxMoves ==
    ASSUME NEW s, NEW p \in Nat, NEW g, NEW b, NEW mv, NEW q,
           Machine(Words, g), g.pc = p,
           b.op \in Branches \ {"beq", "bne"}, b.to = p + 2,
           mv \in Insns, q \in Regs \ {mv.rd},
           \/ rv_decode_mv(mv) /\ q = mv.a
           \/ decode_const(mv) /\ Sext(XLEN, 0 + mv.k) = g.x[q],
           <<b.a, b.b>> \in {<<mv.rd, q>>, <<q, mv.rd>>}
    PROVE  MinMaxEnds(s, p, g, b, mv, R(MinMaxOp(b, mv.rd), mv.rd, mv.rd, q))
<1>1. mv.op = "add" /\ mv.b = Imm /\ mv.n = XLEN /\ mv.rd \in Regs \ {0} /\ mv.a \in Regs
    BY DEF decode_const, rv_decode_mv, rv_decode_addi, Immediate, Insns
<1>2. Plainly(mv)
    BY <1>1 DEF Plainly, Transfers, Branches, Accesses, Atomics
<1>3. ASSUME NEW l, Machine(Words, l), l.x = g.x
      PROVE  Value(mv.op, mv.n, mv.k, l.x[mv.a], Operand(mv, l)) = g.x[q]
    <2>1. CASE rv_decode_mv(mv) /\ q = mv.a
        <3>1. mv.k = 0 /\ Operand(mv, l) = 0 /\ l.x[mv.a] = g.x[q] /\ g.x[q] \in Words
            BY <1>1, <1>3, <2>1 DEF Operand, rv_decode_mv, Machine
        <3>2. Value("add", XLEN, 0, g.x[q], 0) = Sext(XLEN, g.x[q] + 0)
            BY DEF Value
        <3>3. g.x[q] + 0 = g.x[q]
            BY <3>1, HalfLemma
        <3> QED
            BY <1>1, <3>1, <3>2, <3>3, SextOwn
    <2>2. CASE decode_const(mv) /\ Sext(XLEN, 0 + mv.k) = g.x[q]
        BY <1>3, <2>2, LiWorth
    <2> QED
        BY <2>1, <2>2
<1> QED
    BY <1>1, <1>2, <1>3, MinMaxCore

LEMMA MinMaxSteps ==
    ASSUME NEW s, NEW f, NEW p \in Nat, NEW o,
           p \in DOMAIN f.patch, p + 1 \in DOMAIN f.patch, p \in DOMAIN s.code, p + 1 \in DOMAIN s.code,
           f.patch[p] = Alone(o), f.patch[p + 1] = Gone
    PROVE  StepsMinMax(DOMAIN f.patch, Plain(s), Patched(s, f), p, s.code[p], s.code[p + 1], o)
<1> DEFINE S == DOMAIN f.patch
<1> SUFFICES ASSUME NEW g
             PROVE  /\ g.pc = p => /\ Step(Plain(s), S, g) = Ran(g, s.code[p])
                                   /\ Step(Patched(s, f), S, g) = Ran(g, o)
                    /\ g.pc = p + 1 => /\ Step(Plain(s), S, g) = Ran(g, s.code[p + 1])
                                       /\ Step(Patched(s, f), S, g) = Skip(g)
    BY DEF StepsMinMax
<1>1. CASE g.pc = p
    <2>1. g.pc \in S /\ g.pc \in DOMAIN s.code /\ f.patch[g.pc] = Alone(o)
        BY <1>1
    <2>2. Step(Plain(s), S, g) = Ran(g, s.code[g.pc])
        BY <2>1, PlainStep
    <2>3. Step(Patched(s, f), DOMAIN f.patch, g) = Ran(g, o)
        BY <2>1, PatchStep
    <2> QED
        BY <1>1, <2>2, <2>3
<1>2. CASE g.pc = p + 1
    <2>1. g.pc \in S /\ g.pc \in DOMAIN s.code /\ f.patch[g.pc] = Gone
        BY <1>2
    <2>2. Step(Plain(s), S, g) = Ran(g, s.code[g.pc])
        BY <2>1, PlainStep
    <2>3. Step(Patched(s, f), DOMAIN f.patch, g) = Skip(g)
        BY <2>1, SkipStep
    <2> QED
        BY <1>2, <2>2, <2>3
<1> QED
    BY <1>1, <1>2

\* check_branch_to_minmax, without a constant in front.
LEMMA MinMaxPlain ==
    ASSUME NEW s, NEW a \in Nat \ {0}, NEW f, NEW x \in [Regs -> Words], NEW m, NEW fuel \in Nat,
           IsSection(s), f \in MinMax(s, a, 0), x[0] = 0, 2 <= fuel
    PROVE  Holds(s, f, x, m, fuel)
<1> DEFINE b == s.code[a]
           mv == s.code[a + 1]
           q == IF rv_decode_mv(mv) THEN mv.a ELSE 0
           o == R(MinMaxOp(b, mv.rd), mv.rd, mv.rd, q)
           h == Start(s, x, m, a)
           P == Plain(s)
           Q == Patched(s, f)
<1>1. a + 0 = a /\ 0 + 2 = 2 /\ 0 # 1 /\ a .. a + 2 - 1 = a .. a + 1
    OBVIOUS
<1>2. /\ Window(s, a, 2) /\ b.op \in Branches \ {"beq", "bne"} /\ b.to = a + 2
      /\ rv_decode_mv(mv) \/ (decode_const(mv) /\ mv.k = 0)
      /\ mv.rd # q /\ <<b.a, b.b>> \in {<<mv.rd, q>>, <<q, mv.rd>>}
      /\ f = Finding("branch_to_minmax",
                [p \in a .. a + 1 |-> IF p = a THEN Alone(o)
                                      ELSE IF p < a THEN Alone(s.code[p]) ELSE Gone])
    BY <1>1 DEF MinMax, When, Alone, Gone, MinMaxOp
<1>3. /\ DOMAIN f.patch = a .. a + 1 /\ f.patch[a] = Alone(o) /\ f.patch[a + 1] = Gone
    BY <1>2 DEF Finding
<1>4. a \in DOMAIN f.patch /\ a + 1 \in DOMAIN f.patch /\ a + 2 \notin DOMAIN f.patch
    BY <1>3
<1>5. a \in DOMAIN s.code /\ a + 1 \in DOMAIN s.code
    <2>1. a .. a + 2 - 1 \subseteq DOMAIN s.code
        BY <1>2, WindowEntry
    <2> QED
        BY <1>1, <2>1, <1>3, <1>4
<1>6. mv \in Insns
    BY <1>5 DEF IsSection
<1>7. q \in Regs \ {mv.rd}
    BY <1>2, <1>6, HartAssumption DEF Insns
<1>8. Machine(Words, h) /\ h.pc = a /\ h.x = x
    BY StartMachine DEF Start
<1>9. \/ rv_decode_mv(mv) /\ q = mv.a
      \/ decode_const(mv) /\ Sext(XLEN, 0 + mv.k) = h.x[q]
    <2>1. CASE rv_decode_mv(mv)
        BY <2>1
    <2>2. CASE ~rv_decode_mv(mv)
        <3>1. q = 0 /\ decode_const(mv) /\ mv.k = 0 /\ h.x[0] = 0
            BY <1>2, <1>8, <2>2
        <3>2. 0 \in Words /\ 0 + 0 = 0
            BY HalfLemma
        <3>3. Sext(XLEN, 0 + mv.k) = 0
            BY <3>1, <3>2, SextOwn
        <3> QED
            BY <3>1, <3>3
    <2> QED
        BY <2>1, <2>2
<1> HIDE DEF h, q, b, mv, P, Q
<1>10. MinMaxEnds(s, a, h, b, mv, o)
    BY <1>2, <1>6, <1>7, <1>8, <1>9, MinMaxMoves
<1>11. StepsMinMax(DOMAIN f.patch, P, Q, a, b, mv, o)
    <2> HIDE DEF o
    <2> QED
        BY <1>3, <1>4, <1>5, MinMaxSteps DEF P, Q, b, mv
<1> HIDE DEF o
<1>12. Agree(s, Leaving(P, DOMAIN f.patch, h, fuel), Leaving(Q, DOMAIN f.patch, h, fuel))
    BY <1>4, <1>8, <1>10, <1>11, MinMaxLeaves
<1>13. Outcome(s, f, Start(s, x, m, a), fuel)
    BY <1>12 DEF Outcome, P, Q, h
<1>14. DOMAIN f.patch = a .. a + 2 - 1
    BY <1>1, <1>3
<1> QED
    BY <1>2, <1>13, <1>14, WindowHolds

\* With the constant that is compared in front, which stays.
LEMMA MinMaxConst ==
    ASSUME NEW s, NEW a \in Nat \ {0}, NEW f, NEW x \in [Regs -> Words], NEW m, NEW fuel \in Nat,
           IsSection(s), f \in MinMax(s, a, 1), decode_const(s.code[a]), x[0] = 0, 3 <= fuel
    PROVE  Holds(s, f, x, m, fuel)
<1> DEFINE c == s.code[a]
           p == a + 1
           b == s.code[p]
           mv == s.code[p + 1]
           q == c.rd
           o == R(MinMaxOp(b, mv.rd), mv.rd, mv.rd, q)
           h == Start(s, x, m, a)
           P == Plain(s)
           Q == Patched(s, f)
           S == DOMAIN f.patch
           g == Ran(h, c)
<1>1. a + 1 = p /\ 1 + 2 = 3 /\ a .. a + 3 - 1 = a .. p + 1 /\ p \in Nat
    OBVIOUS
<1>2. /\ Window(s, a, 3) /\ b.op \in Branches \ {"beq", "bne"} /\ b.to = p + 2
      /\ decode_const(mv) /\ mv.k = c.k
      /\ mv.rd # q /\ <<b.a, b.b>> \in {<<mv.rd, q>>, <<q, mv.rd>>}
      /\ f = Finding("branch_to_minmax",
                [i \in a .. p + 1 |-> IF i = p THEN Alone(o)
                                      ELSE IF i < p THEN Alone(s.code[i]) ELSE Gone])
    BY <1>1 DEF MinMax, When, Alone, Gone, MinMaxOp
<1>3. /\ S = a .. p + 1 /\ f.patch[a] = Alone(c) /\ f.patch[p] = Alone(o) /\ f.patch[p + 1] = Gone
    BY <1>2 DEF Finding
<1>4. a \in S /\ p \in S /\ p + 1 \in S /\ p + 2 \notin S
    BY <1>3
<1>5. a \in DOMAIN s.code /\ p \in DOMAIN s.code /\ p + 1 \in DOMAIN s.code
    <2>1. a .. a + 3 - 1 \subseteq DOMAIN s.code
        BY <1>2, WindowEntry
    <2>2. S \subseteq DOMAIN s.code
        BY <1>1, <1>3, <2>1
    <2> QED
        BY <1>4, <2>2
<1>6. mv \in Insns /\ c \in Insns
    BY <1>5 DEF IsSection
<1>7. q \in Regs \ {mv.rd, 0}
    BY <1>2, <1>6 DEF Insns, decode_const
<1>8. Machine(Words, h) /\ h.pc = a
    BY StartMachine
<1> HIDE DEF h, P, Q, o
<1>9. Plainly(c)
    BY DEF Plainly, decode_const, rv_decode_addi, Immediate, Transfers, Branches, Accesses, Atomics
<1>10. Sext(XLEN, 0 + c.k) \in Words
    <2>1. c.k \in Int /\ 0 + c.k \in Int
        BY <1>6 DEF Insns
    <2> QED
        BY <2>1, SextWord
<1>11. Written(Words, h, q, Sext(XLEN, 0 + c.k), g)
    <2>1. Value(c.op, c.n, c.k, h.x[c.a], Operand(c, h)) = Sext(XLEN, 0 + c.k)
        BY <1>8, LiWorth
    <2> HIDE DEF g
    <2> QED
        BY <1>7, <1>8, <1>9, <1>10, <2>1, RanValue DEF g
<1>12. Step(P, S, h) = g /\ Step(Q, S, h) = g
    <2>1. h.pc \in S /\ h.pc \in DOMAIN s.code /\ f.patch[h.pc] = Alone(c) /\ s.code[h.pc] = c
        BY <1>3, <1>4, <1>5, <1>8
    <2>2. Step(Plain(s), S, h) = Ran(h, s.code[h.pc])
        BY <2>1, PlainStep
    <2>3. Step(Patched(s, f), DOMAIN f.patch, h) = Ran(h, c)
        BY <2>1, PatchStep
    <2> QED
        BY <2>1, <2>2, <2>3 DEF P, Q
<1>13. Machine(Words, g) /\ g.pc = p /\ g.x[q] = Sext(XLEN, 0 + mv.k)
    <2> HIDE DEF g, p
    <2> QED
        BY <1>1, <1>2, <1>8, <1>11 DEF Written
<1> HIDE DEF g, q, b, mv, p
<1>14. MinMaxEnds(s, p, g, b, mv, o)
    BY <1>1, <1>2, <1>6, <1>7, <1>13, MinMaxMoves DEF o
<1>15. StepsMinMax(S, P, Q, p, b, mv, o)
    BY <1>1, <1>3, <1>4, <1>5, MinMaxSteps DEF P, Q, b, mv
<1>16. fuel - 1 \in Nat /\ fuel - 1 + 1 = fuel /\ 2 <= fuel - 1
    OBVIOUS
<1> HIDE DEF S
<1>17. Agree(s, Leaving(P, S, g, fuel - 1), Leaving(Q, S, g, fuel - 1))
    BY <1>4, <1>13, <1>14, <1>15, <1>16, MinMaxLeaves
<1>18. /\ Leaving(P, S, h, fuel - 1 + 1) = Leaving(P, S, g, fuel - 1)
       /\ Leaving(Q, S, h, fuel - 1 + 1) = Leaving(Q, S, g, fuel - 1)
    BY <1>12, <1>16, LeavingNext
<1>19. Outcome(s, f, Start(s, x, m, a), fuel)
    BY <1>16, <1>17, <1>18 DEF Outcome, P, Q, S, h
<1>20. DOMAIN f.patch = a .. a + 3 - 1
    BY <1>1, <1>3 DEF S
<1> QED
    BY <1>2, <1>19, <1>20, WindowHolds

\* check_branch_to_minmax, whichever of its forms.
LEMMA MinMaxHolds ==
    ASSUME NEW s, NEW a \in Nat \ {0}, NEW f, NEW x \in [Regs -> Words], NEW m, NEW fuel \in Nat,
           IsSection(s), f \in check_branch_to_minmax(s, a), x[0] = 0, 3 <= fuel
    PROVE  Holds(s, f, x, m, fuel)
<1>1. CASE decode_const(s.code[a])
    <2>1. f \in MinMax(s, a, 1)
        BY <1>1 DEF check_branch_to_minmax
    <2> QED
        BY <1>1, <2>1, MinMaxConst
<1>2. CASE ~decode_const(s.code[a])
    <2>1. f \in MinMax(s, a, 0)
        BY <1>2 DEF check_branch_to_minmax
    <2> QED
        BY <2>1, MinMaxPlain
<1> QED
    BY <1>1, <1>2

-------------------------------------------------------------------------------
\* What a transfer to to that leaves the way back in l makes of g.
Linked(g, l, to, z) ==
    /\ Machine(Int, z) /\ z.m = g.m /\ z.pc = to
    /\ z.x = IF l = 0 THEN g.x ELSE [g.x EXCEPT ![l] = g.pc + 1]

LEMMA LinkForm ==
    ASSUME NEW g, Machine(Int, g), NEW l \in Regs, NEW to \in Int
    PROVE  Linked(g, l, to, [SetX(Skip(g), l, Skip(g).pc) EXCEPT !.pc = to])
<1> DEFINE z == [SetX(Skip(g), l, Skip(g).pc) EXCEPT !.pc = to]
           y == IF l = 0 THEN g.x ELSE [g.x EXCEPT ![l] = g.pc + 1]
<1>1. Skip(g) = [x |-> g.x, m |-> g.m, pc |-> g.pc + 1, res |-> g.res]
    BY SkipForm
<1>2. z = [x |-> y, m |-> g.m, pc |-> to, res |-> g.res]
    BY <1>1 DEF SetX
<1>3. g.x \in [Regs -> Int] /\ g.x[0] = 0 /\ g.pc \in Int
    BY DEF Machine
<1>4. y \in [Regs -> Int] /\ y[0] = 0
    BY <1>3, HartAssumption
<1> HIDE DEF z, y
<1>5. Machine(Int, z)
    BY <1>2, <1>4 DEF Machine
<1> QED
    BY <1>2, <1>5 DEF Linked, z, y

LEMMA RanLink ==
    ASSUME NEW g, Machine(Int, g), NEW i, i.op = "jal", i.rd \in Regs, i.to \in Int
    PROVE  Linked(g, i.rd, i.to, Ran(g, i))
<1>1. Ran(g, i) = [SetX(Skip(g), i.rd, Skip(g).pc) EXCEPT !.pc = i.to]
    BY DEF Exec, Branches, Atomics, Ran
<1> QED
    BY <1>1, LinkForm

LEMMA RanJalr ==
    ASSUME NEW g, Machine(Int, g), NEW i, i.op = "jalr", i.rd \in Regs, i.a \in Regs, i.k \in Int
    PROVE  Linked(g, i.rd, g.x[i.a] + i.k, Ran(g, i))
<1>1. Ran(g, i) = [SetX(Skip(g), i.rd, Skip(g).pc) EXCEPT !.pc = Skip(g).x[i.a] + i.k]
    BY DEF Exec, Branches, Atomics, Ran
<1>2. Skip(g).x = g.x
    BY SkipForm
<1>3. g.x[i.a] + i.k \in Int
    BY DEF Machine
<1> QED
    BY <1>1, <1>2, <1>3, LinkForm

LEMMA RanAuipc ==
    ASSUME NEW g, Machine(Int, g), NEW i, i.op = "auipc", i.rd \in Regs \ {0}, i.k \in Int
    PROVE  /\ Machine(Int, Ran(g, i)) /\ Ran(g, i).m = g.m /\ Ran(g, i).pc = g.pc + 1
           /\ Ran(g, i).x = [g.x EXCEPT ![i.rd] = g.pc + i.k]
<1> DEFINE z == Ran(g, i)
<1>1. Skip(g) = [x |-> g.x, m |-> g.m, pc |-> g.pc + 1, res |-> g.res]
    BY SkipForm
<1>2. g.x \in [Regs -> Int] /\ g.x[0] = 0 /\ g.pc \in Int
    BY DEF Machine
<1>3. Skip(g).pc - 1 + i.k = g.pc + i.k
    BY <1>1, <1>2
<1>4. z = SetX(Skip(g), i.rd, g.pc + i.k)
    BY <1>3 DEF Exec, Branches, Atomics, Ran
<1>5. z = [x |-> [g.x EXCEPT ![i.rd] = g.pc + i.k], m |-> g.m, pc |-> g.pc + 1, res |-> g.res]
    BY <1>1, <1>4 DEF SetX
<1> HIDE DEF z
<1>6. Machine(Int, z)
    BY <1>2, <1>5 DEF Machine
<1> QED
    BY <1>5, <1>6 DEF z

\* A pair of auipc and jalr is a jump, where it does not go to its own jalr and the
\* register of the auipc is the one that is linked, or dead where the pair goes.
PairFolds(s, a) ==
    /\ s.code[a] \in Insns /\ s.code[a + 1] \in Insns
    /\ IsPair(s.code, a) /\ PairGoes(s.code, a) # a + 1
    /\ \/ s.code[a + 1].rd = s.code[a].rd
       \/ DeadAt(s, PairGoes(s.code, a), s.code[a].rd)
LEMMA PairMirrors ==
    ASSUME NEW s, NEW a \in Nat \ {0}, PairFolds(s, a)
    PROVE  FoldMirrors(s, a, J(s.code[a + 1].rd, PairGoes(s.code, a)), {s.code[a].rd}, Int)
<1> DEFINE c == s.code[a]
           j == s.code[a + 1]
           r == c.rd
           l == j.rd
           to == PairGoes(s.code, a)
           i == J(l, to)
<1>1. /\ c.op = "auipc" /\ j.op = "jalr" /\ j.a = r /\ r # 0
      /\ c.rd \in Regs /\ c.k \in Int /\ j.rd \in Regs /\ j.a \in Regs /\ j.k \in Int
      /\ to = a + c.k + j.k /\ to # a + 1
      /\ l = r \/ DeadAt(s, to, r)
    BY DEF PairFolds, IsPair, rv_decode_auipc, rv_decode_jalr, Insns, PairGoes
<1>2. i.op = "jal" /\ i.rd = l /\ i.to = to /\ to \in Int
    BY <1>1 DEF J, Insn
<1> HIDE DEF c, j, i, to
<1> SUFFICES ASSUME NEW g, NEW h, Machine(Int, g), Machine(Int, h), Same(s, {r}, g, h), g.pc = a
             PROVE  LET g1 == Ran(g, c)
                        g2 == Ran(g1, j)
                        h2 == Ran(Skip(h), i)
                    IN  /\ g1.pc = a + 1 /\ g2.pc # a + 1
                        /\ Machine(Int, g2) /\ Machine(Int, h2) /\ Same(s, {r}, g2, h2)
    BY DEF FoldMirrors, c, j, i, to
<1> DEFINE g1 == Ran(g, c)
           g2 == Ran(g1, j)
           h1 == Skip(h)
           h2 == Ran(h1, i)
<1>3. /\ Machine(Int, g1) /\ g1.m = g.m /\ g1.pc = a + 1
      /\ g1.x = [g.x EXCEPT ![r] = a + c.k]
    BY <1>1, RanAuipc
<1>4. Machine(Int, h1) /\ h1.pc = a + 1 /\ h1.m = h.m /\ h1.x = h.x
    BY SkipMachine DEF Same
<1> HIDE DEF g1, h1
<1>5. g1.x[r] = a + c.k
    BY <1>1, <1>3 DEF Machine
<1>6. Linked(g1, l, to, g2)
    <2>1. Linked(g1, j.rd, g1.x[j.a] + j.k, Ran(g1, j))
        BY <1>1, <1>3, RanJalr
    <2>2. g1.x[j.a] + j.k = to
        BY <1>1, <1>5
    <2> QED
        BY <2>1, <2>2
<1>7. Linked(h1, l, to, h2)
    <2>1. Linked(h1, i.rd, i.to, Ran(h1, i))
        BY <1>1, <1>2, <1>4, RanLink
    <2> QED
        BY <1>2, <2>1
<1> HIDE DEF g2, h2
<1>8. /\ Machine(Int, g2) /\ Machine(Int, h2) /\ g2.pc = to /\ h2.pc = to /\ g2.m = h2.m
    BY <1>3, <1>4, <1>6, <1>7 DEF Linked, Same
<1>9. ASSUME NEW q \in Regs
      PROVE  g2.x[q] = h2.x[q] \/ (q \in {r} /\ DeadAt(s, g2.pc, q))
    <2>1. /\ g2.x[q] = IF l # 0 /\ q = l THEN a + 2 ELSE g1.x[q]
          /\ h2.x[q] = IF l # 0 /\ q = l THEN a + 2 ELSE h.x[q]
        <3>1. g1.x \in [Regs -> Int] /\ h1.x \in [Regs -> Int] /\ a + 1 + 1 = a + 2
            BY <1>3, <1>4 DEF Machine
        <3> QED
            BY <1>3, <1>4, <1>6, <1>7, <3>1 DEF Linked
    <2>2. CASE q = r
        BY <1>1, <1>8, <2>1, <2>2
    <2>3. CASE q # r
        <3>1. g1.x[q] = g.x[q] /\ g.x[q] = h.x[q]
            BY <1>3, <2>3 DEF Machine, Same
        <3> QED
            BY <2>1, <3>1
    <2> QED
        BY <2>2, <2>3
<1>10. Same(s, {r}, g2, h2)
    BY <1>8, <1>9 DEF Same
<1> QED
    BY <1>1, <1>3, <1>8, <1>10 DEF g1, g2, h1, h2

\* A pair of auipc and jalr and the jump that takes its place end up alike.
LEMMA PairHolds ==
    ASSUME NEW s, NEW a \in Nat \ {0}, NEW rule, NEW f, NEW x \in [Regs -> Words], NEW m,
           NEW fuel \in Nat,
           IsSection(s), Window(s, a, 2), IsPair(s.code, a), PairGoes(s.code, a) # a + 1,
           f \in Fold(rule, a, 2, Alone(J(s.code[a + 1].rd, PairGoes(s.code, a)))),
           s.code[a + 1].rd = s.code[a].rd \/ DeadAt(s, PairGoes(s.code, a), s.code[a].rd),
           x[0] = 0
    PROVE  Holds(s, f, x, m, fuel)
<1> DEFINE i == J(s.code[a + 1].rd, PairGoes(s.code, a))
           D == {s.code[a].rd}
<1>1. s.code[a] \in Insns /\ s.code[a + 1] \in Insns
    <2>1. a \in a .. a + 2 - 1 /\ a + 1 \in a .. a + 2 - 1
        OBVIOUS
    <2>2. a \in DOMAIN s.code /\ a + 1 \in DOMAIN s.code
        BY <2>1, WindowEntry
    <2> QED
        BY <2>2 DEF IsSection
<1>2. FoldMirrors(s, a, i, D, Int)
    <2>1. PairFolds(s, a)
        BY <1>1 DEF PairFolds
    <2> QED
        BY <2>1, PairMirrors
<1>3. DOMAIN f.patch = a .. a + 1 /\ f.patch[a] = Gone /\ f.patch[a + 1] = Alone(i)
    BY FoldPatch
<1>4. x \in [Regs -> Int] /\ a \in Int
    BY HalfLemma
<1>5. Machine(Int, Start(s, x, m, a))
    BY <1>4, StartMachine
<1> HIDE DEF i, D
<1> QED
    BY <1>2, <1>3, <1>5, FoldHolds

\* check_call_pair_to_jal, check_jump_pair_to_j and check_scratch_call_to_jal: what the
\* pair does in one jump.  A jalr that is where the pair goes reads the register of the
\* auipc, which is then not dead there; a call that goes to its own jalr is told apart.
LEMMA CallPairHolds ==
    ASSUME NEW s, NEW a \in Nat \ {0}, NEW f, NEW x \in [Regs -> Words], NEW m, NEW fuel \in Nat,
           IsSection(s), f \in check_call_pair_to_jal(s, a), PairGoes(s.code, a) # a + 1, x[0] = 0
    PROVE  Holds(s, f, x, m, fuel)
<1>1. /\ Window(s, a, 2) /\ IsPair(s.code, a) /\ s.code[a + 1].rd = s.code[a].rd
      /\ f \in Fold("call_pair_to_jal", a, 2, Alone(J(s.code[a + 1].rd, PairGoes(s.code, a))))
    BY DEF check_call_pair_to_jal, When, JumpPair, Alone
<1> QED
    BY <1>1, PairHolds

LEMMA NotItsOwn ==
    ASSUME NEW s, NEW a, IsPair(s.code, a), Honest(s), DeadAt(s, PairGoes(s.code, a), s.code[a].rd)
    PROVE  PairGoes(s.code, a) # a + 1
    BY DEF IsPair, Honest, DeadAt, InSection

LEMMA JumpPairHolds ==
    ASSUME NEW s, NEW a \in Nat \ {0}, NEW f, NEW x \in [Regs -> Words], NEW m, NEW fuel \in Nat,
           IsSection(s), Honest(s),
           f \in check_jump_pair_to_j(s, a) \cup check_scratch_call_to_jal(s, a), x[0] = 0
    PROVE  Holds(s, f, x, m, fuel)
<1>1. /\ Window(s, a, 2) /\ IsPair(s.code, a) /\ DeadAt(s, PairGoes(s.code, a), s.code[a].rd)
      /\ \E rule : f \in Fold(rule, a, 2, Alone(J(s.code[a + 1].rd, PairGoes(s.code, a))))
    BY DEF check_jump_pair_to_j, check_scratch_call_to_jal, When, JumpPair, Alone
<1> QED
    BY <1>1, NotItsOwn, PairHolds

-------------------------------------------------------------------------------
(* Every finding of the checks of branches and pairs.                      *)

LEMMA FirstOfPair ==
    ASSUME NEW a \in Nat
    PROVE  FirstOf(a .. a + 1) = a
<1> DEFINE P(p) == \A q \in a .. a + 1 : p <= q
<1>1. a \in a .. a + 1 /\ P(a)
    OBVIOUS
<1>2. \A p \in a .. a + 1 : P(p) => p = a
    OBVIOUS
<1>3. FirstOf(a .. a + 1) = CHOOSE p \in a .. a + 1 : P(p)
    BY DEF FirstOf
<1> HIDE DEF P
<1> QED
    BY <1>1, <1>2, <1>3

\* Whatever a check of branches reports holds, or is the call to its own jalr.
LEMMA BranchHolds ==
    ASSUME NEW s, NEW a \in Nat \ {0}, NEW f, NEW x \in [Regs -> Words], NEW m, NEW fuel \in Nat,
           IsSection(s), Honest(s), f \in BranchFindings(s, a), x[0] = 0, 3 <= fuel
    PROVE  Known(s, f) \/ Holds(s, f, x, m, fuel)
<1>1. CASE f \in check_cond_to_branch(s, a)
    BY <1>1, CondHolds
<1>2. CASE f \in check_branch_over_jump(s, a)
    BY <1>2, OverJumpHolds
<1>3. CASE f \in check_transfer_to_next(s, a)
    BY <1>3, ToNextHolds
<1>4. CASE f \in check_const_eq_branch(s, a)
    BY <1>4, ConstEqHolds
<1>5. CASE f \in check_const_ord_branch(s, a)
    BY <1>5, ConstOrdHolds
<1>6. CASE f \in check_zero_eq_branch(s, a)
    BY <1>6, ZeroEqHolds
<1>7. CASE f \in check_branch_to_minmax(s, a)
    BY <1>7, MinMaxHolds
<1>8. CASE f \in check_call_pair_to_jal(s, a)
    <2>1. CASE PairGoes(s.code, a) = a + 1
        <3>1. f \in Fold("call_pair_to_jal", a, 2, Alone(J(s.code[a].rd, PairGoes(s.code, a))))
            BY <1>8 DEF check_call_pair_to_jal, When, Alone
        <3>2. DOMAIN f.patch = a .. a + 1
            BY <3>1, FoldPatch
        <3>3. f.rule = "call_pair_to_jal"
            BY <3>1 DEF Fold, Finding
        <3>4. FirstOf(DOMAIN f.patch) = a
            BY <3>2, FirstOfPair
        <3> QED
            BY <2>1, <3>3, <3>4 DEF Known
    <2>2. CASE PairGoes(s.code, a) # a + 1
        BY <1>8, <2>2, CallPairHolds
    <2> QED
        BY <2>1, <2>2
<1>9. CASE f \in check_jump_pair_to_j(s, a) \cup check_scratch_call_to_jal(s, a)
    BY <1>9, JumpPairHolds
<1> QED
    BY <1>1, <1>2, <1>3, <1>4, <1>5, <1>6, <1>7, <1>8, <1>9 DEF BranchFindings

\* The other checks have other names.
LEMMA MemoryNames ==
    ASSUME NEW s, NEW a, NEW folded, NEW f \in MemoryFindings(s, a, folded)
    PROVE  f.rule \in MemoryRulesNames
<1>1. CASE f \in check_base_add_to_offset(s, a)
    <2>1. f.rule = "base_add_to_offset"
        BY <1>1 DEF check_base_add_to_offset, When, Fold, Finding
    <2> QED
        BY <2>1 DEF MemoryRulesNames
<1>2. CASE f \in check_indexed_load(s, a, folded)
    <2>1. PICK is : f \in Fold("indexed_load", a, 2, is)
        BY <1>2 DEF check_indexed_load, When
    <2> QED
        BY <2>1, FoldRule DEF MemoryRulesNames
<1>3. CASE f \in check_scaled_indexed_load(s, a)
    <2>1. PICK is : f \in Fold("scaled_indexed_load", a, 3, is)
        BY <1>3 DEF check_scaled_indexed_load, When
    <2> QED
        BY <2>1, FoldRule DEF MemoryRulesNames
<1>4. CASE f \in check_zext_indexed_load(s, a)
    <2>1. PICK is : f \in Fold("zext_indexed_load", a, 4, is)
        BY <1>4 DEF check_zext_indexed_load, When
    <2> QED
        BY <2>1, FoldRule DEF MemoryRulesNames
<1>5. CASE f \in check_fp_pool_to_fli(s, a)
    <2>1. f.rule = "fp_pool_to_fli"
        BY <1>5 DEF check_fp_pool_to_fli, When, Fold, Finding
    <2> QED
        BY <2>1 DEF MemoryRulesNames
<1>6. CASE f \in check_fp_int_to_fli(s, a)
    <2>1. f.rule = "fp_int_to_fli"
        BY <1>6 DEF check_fp_int_to_fli, When, Fold, Finding
    <2> QED
        BY <2>1 DEF MemoryRulesNames
<1>7. CASE f \in check_cas_loop_to_amocas(s, a)
    <2>1. f.rule = "cas_loop_to_amocas"
        BY <1>7 DEF check_cas_loop_to_amocas, When, Finding
    <2> QED
        BY <2>1 DEF MemoryRulesNames
<1> QED
    BY <1>1, <1>2, <1>3, <1>4, <1>5, <1>6, <1>7 DEF MemoryFindings, DeeperFolds

\* A finding with the name of a branch check comes from one.
LEMMA BranchFound ==
    ASSUME NEW s, NEW a \in Int, NEW folded, NEW f \in Findings(s, a, folded),
           f.rule \in BranchRulesNames
    PROVE  f \in BranchFindings(s, a)
<1>1. f \notin ValueFindings(s, a)
    BY ValuesOther DEF ValueRulesNames, BranchRulesNames
<1>2. f \notin ConstFindings(s, a)
    BY ConstsOther DEF ConstRulesNames, BranchRulesNames
<1>3. f \notin MemoryFindings(s, a, folded)
    BY MemoryNames DEF MemoryRulesNames, BranchRulesNames
<1>4. f \notin JumpFindings(s, a)
    BY JumpsOther DEF JumpRulesNames, ThreadRulesNames, TailRulesNames, BranchRulesNames
<1> QED
    BY <1>1, <1>2, <1>3, <1>4 DEF Findings

-------------------------------------------------------------------------------
(* The theorem of branches.                                                *)

\* The section is one that was mapped, and an answer of the walk about it is right for
\* the instruction it was asked at.
SectionInv == IsSection(sec) /\ Honest(sec) /\ at \in Nat \ {0}
BranchInv == SectionInv /\ BranchesAgree

\* What is given is a section once it is mapped.
LEMMA MappedSection ==
    ASSUME NEW s, Given(s)
    PROVE  IsSection(SetSection(s.code, s.note)) /\ Honest(SetSection(s.code, s.note))
<1>1. SetSection(s.code, s.note).code = s.code /\ SetSection(s.code, s.note).note = s.note
    BY DEF SetSection
<1> QED
    BY <1>1 DEF IsSection, Honest, Given

\* The section stays one that was mapped.
LEMMA SectionInductive ==
    /\ Init => SectionInv
    /\ SectionInv /\ [Next]_vars => SectionInv'
<1>1. ASSUME Init
      PROVE  SectionInv
    <2>1. PICK n \in DOMAIN Sections : \E s \in Sections[n] : sec = SetSection(s.code, s.note)
        BY <1>1 DEF Init
    <2>2. PICK s \in Sections[n] : sec = SetSection(s.code, s.note)
        BY <2>1
    <2>3. IsSection(sec) /\ Honest(sec)
        BY <2>2, SectionsAssumption, MappedSection
    <2> QED
        BY <1>1, <2>3 DEF Init, SectionInv
<1>2. ASSUME SectionInv, Scan
      PROVE  SectionInv'
    BY <1>2 DEF Scan, SectionInv, IsSection, Honest
<1>3. ASSUME SectionInv, NextSection
      PROVE  SectionInv'
    <2>1. PICK s \in Seconds : sec' = SetSection(s.code, s.note)
        BY <1>3 DEF NextSection
    <2>2. IsSection(SetSection(s.code, s.note)) /\ Honest(SetSection(s.code, s.note))
        BY SectionsAssumption, MappedSection
    <2>3. at' = 1
        BY <1>3 DEF NextSection
    <2> QED
        BY <2>1, <2>2, <2>3 DEF SectionInv, IsSection, Honest
<1>4. ASSUME SectionInv, UNCHANGED vars
      PROVE  SectionInv'
    BY <1>4 DEF vars, SectionInv, IsSection, Honest
<1> QED
    BY <1>1, <1>2, <1>3, <1>4 DEF Next

\* The invariant of the checks of branches is inductive.
LEMMA BranchInductive ==
    /\ Init => BranchInv
    /\ BranchInv /\ [Next]_vars => BranchInv'
<1>1. Init => BranchInv
    BY SectionInductive DEF Init, BranchInv, BranchesAgree, Sound
<1>2. ASSUME BranchInv, Scan
      PROVE  BranchesAgree'
    <2>1. sec' = sec /\ found' = Findings(sec, at, zilx_folded)
        BY <1>2 DEF Scan
    <2>2. ASSUME NEW f \in found', f.rule \in BranchRulesNames, NEW c \in Contents
          PROVE  Known(sec, f) \/ Holds(sec, f, c.x, c.m, Steps)
        <3>1. f \in BranchFindings(sec, at)
            BY <1>2, <2>1, <2>2, BranchFound DEF BranchInv, SectionInv
        <3>2. c.x \in [Regs -> Words] /\ c.x[0] = 0 /\ Steps \in Nat /\ 3 <= Steps
            BY MachinesAssumption
        <3>3. IsSection(sec) /\ Honest(sec) /\ at \in Nat \ {0}
            BY <1>2 DEF BranchInv, SectionInv
        <3> QED
            BY <3>1, <3>2, <3>3, BranchHolds
    <2> QED
        BY <2>1, <2>2 DEF BranchesAgree, Sound
<1>3. ASSUME BranchInv, NextSection
      PROVE  BranchesAgree'
    BY <1>3 DEF NextSection, BranchesAgree, Sound
<1>4. ASSUME BranchInv, UNCHANGED vars
      PROVE  BranchesAgree'
    BY <1>4 DEF vars, BranchInv, BranchesAgree, Sound
<1> QED
    BY <1>1, <1>2, <1>3, <1>4, SectionInductive DEF Next, BranchInv

\* Whatever the section, the word and the contents of the registers: what a check of a
\* branch, of a jump or of a pair of auipc and jalr says can stand in place of the code
\* does what the code did, for whoever comes in, unless the pair is a call to its own
\* jalr (check_cond_to_branch to check_scratch_call_to_jal).
THEOREM BranchesAreSound == Spec => []BranchesAgree
<1>1. BranchInv => BranchesAgree
    BY DEF BranchInv
<1> QED
    BY BranchInductive, <1>1, PTL DEF Spec

-------------------------------------------------------------------------------
(* A value computed in two instructions, or for nobody.                    *)

\* check_slli_add_to_shadd.
LEMMA ShaddFolds ==
    ASSUME NEW c \in Insns, NEW j \in Insns, NEW rx, rv_decode_slli(c), c.k \in 1 .. 3, c.rd # 0,
           rv_decode_add(j), Once(j, c.rd), rx = Beside(j, c.rd)
    PROVE  OneForTwo(c, j, Shadd(c.k, j.rd, c.a, rx))
<1> SUFFICES ASSUME NEW x \in [Regs -> Words], x[0] = 0
             PROVE  \E v \in Words, w \in Words :
                        /\ Worth(c, x) = v /\ Worth(j, Put(x, c.rd, v)) = w
                        /\ Worth(Shadd(c.k, j.rd, c.a, rx), x) = w
    BY DEF OneForTwo
<1>1. /\ Immediate(c, "sll") /\ c.k \in Int /\ j.op = "add" /\ j.n = XLEN /\ j.b # Imm
      /\ c.a \in Regs /\ c.rd \in Regs
    BY DEF rv_decode_slli, rv_decode_add, Insns
<1>2. c.k \in 0 .. XLEN - 1 /\ 2^c.k \in Nat
    <2>1. 4 < XLEN
        BY HartAssumption
    <2>2. c.k \in 0 .. XLEN - 1 /\ c.k \in 0 .. XLEN
        BY <2>1, HalfLemma
    <2> QED
        BY <2>2, PowerIs
<1> DEFINE u == x[c.a]
           y == x[rx]
           p == u * 2^c.k
           v == Sext(XLEN, p)
           w == Sext(XLEN, p + y)
<1>3. /\ rx \in Regs \ {c.rd} /\ rx # Imm
      /\ (j.a = c.rd /\ j.b = rx) \/ (j.b = c.rd /\ j.a = rx)
    BY <1>1, BesideIs
<1>4. u \in Int /\ y \in Int
    BY <1>1, <1>3, HalfLemma
<1>5. p \in Int
    <2> DEFINE d == 2^c.k
    <2>1. u \in Int /\ d \in Int
        BY <1>2, <1>4
    <2> HIDE DEF u, d
    <2>2. u * d \in Int
        BY <2>1
    <2> QED
        BY <2>2 DEF d
<1>6. Worth(c, x) = v
    BY <1>1, <1>2, ShiftWorth
<1>7. Worth(Shadd(c.k, j.rd, c.a, rx), x) = w
    <2> DEFINE i == Shadd(c.k, j.rd, c.a, rx)
    <2>1. i.op = "shadd" /\ i.n = XLEN /\ i.k = c.k /\ i.a = c.a /\ i.b = rx
        BY DEF Shadd, Insn
    <2> HIDE DEF i
    <2>2. Worth(i, x) = Value("shadd", XLEN, c.k, u, y)
        BY <1>3, <2>1, WorthOfRegs
    <2>3. Value("shadd", XLEN, c.k, u, y) = Sext(XLEN, p + y)
        BY PlainValues
    <2> QED
        BY <2>2, <2>3 DEF i
<1> HIDE DEF u, y, p
<1>8. v \in Words /\ w \in Words /\ v \in Int
    <2>1. v \in Words /\ w \in Words
        BY <1>4, <1>5, SextWord
    <2> QED
        BY <2>1, HalfLemma
<1> DEFINE z == Put(x, c.rd, v)
<1>9. z[c.rd] = v /\ z[rx] = y
    BY <1>1, <1>3, PutIs DEF y
<1>10. Worth(j, z) = Sext(XLEN, z[j.a] + z[j.b])
    <2>1. Worth(j, z) = Value("add", XLEN, j.k, z[j.a], z[j.b])
        BY <1>1, WorthOfRegs
    <2> QED
        BY <2>1, PlainValues
<1> HIDE DEF z
<1>11. Worth(j, z) = Sext(XLEN, v + y)
    <2>1. CASE j.a = c.rd /\ j.b = rx
        BY <1>9, <1>10, <2>1
    <2>2. CASE j.b = c.rd /\ j.a = rx
        <3>1. Worth(j, z) = Sext(XLEN, y + v)
            BY <1>9, <1>10, <2>2
        <3>2. y + v = v + y
            BY <1>4, <1>8
        <3> QED
            BY <3>1, <3>2
    <2> QED
        BY <1>3, <2>1, <2>2
<1>12. Sext(XLEN, v + y) = w
    BY <1>4, <1>5, SextAdd
<1> QED
    BY <1>6, <1>7, <1>8, <1>11, <1>12 DEF z

\* check_slli_srli_to_zext, check_slli_srli_to_zexth and check_slli_srli_to_andi.
LEMMA ShiftsFold ==
    ASSUME NEW c \in Insns, NEW j \in Insns, NEW i, NEW m, Splits(m, c.k),
           rv_decode_slli(c), c.rd # 0, j.a = c.rd, j.k = c.k,
           \/ /\ Immediate(j, "srl")
              /\ \A x \in [Regs -> Words] : Worth(i, x) = Low(m, x[c.a])
           \/ /\ Immediate(j, "sra")
              /\ \A x \in [Regs -> Words] : Worth(i, x) = Sext(m, x[c.a])
    PROVE  OneForTwo(c, j, i)
<1> SUFFICES ASSUME NEW x \in [Regs -> Words], x[0] = 0
             PROVE  \E v \in Words, w \in Words :
                        Worth(c, x) = v /\ Worth(j, Put(x, c.rd, v)) = w /\ Worth(i, x) = w
    BY DEF OneForTwo
<1> DEFINE u == x[c.a]
           v == Sext(XLEN, u * 2^c.k)
           z == Put(x, c.rd, v)
<1>1. Immediate(c, "sll") /\ c.a \in Regs /\ c.rd \in Regs
    BY DEF rv_decode_slli, Insns
<1>2. u \in Int /\ m \in 0 .. XLEN - 1 /\ m \in 1 .. XLEN /\ c.k \in 0 .. XLEN - 1
    BY <1>1, HalfLemma DEF Splits
<1>3. Worth(c, x) = v
    BY <1>1, <1>2, ShiftWorth
<1>4. v \in Words
    <2> DEFINE d == 2^c.k
    <2>1. u \in Int /\ d \in Int
        BY <1>2, BitIs
    <2> HIDE DEF u, d
    <2>2. u * d \in Int
        BY <2>1
    <2>3. Sext(XLEN, u * d) \in Words
        BY <2>2, SextWord
    <2> QED
        BY <2>3 DEF d
<1>5. z[j.a] = v
    BY <1>1, PutIs
<1>6. j.k \in 0 .. XLEN - 1
    BY <1>2
<1>7. CASE /\ Immediate(j, "srl")
           /\ \A y \in [Regs -> Words] : Worth(i, y) = Low(m, y[c.a])
    <2>1. Worth(j, z) = Sext(XLEN, Low(XLEN, v) \div 2^c.k)
        <3>1. Worth(j, z) = Sext(XLEN, Low(XLEN, z[j.a]) \div 2^j.k)
            BY <1>6, <1>7, ShiftWorth
        <3> QED
            BY <1>5, <3>1
    <2>2. Low(XLEN, v) \div 2^c.k = Low(m, u)
        BY <1>2, UpDownLow
    <2>3. Low(m, u) \in Words
        BY <1>2, LowWord
    <2>4. Sext(XLEN, Low(m, u)) = Low(m, u)
        BY <2>3, SextOwn
    <2>5. Worth(i, x) = Low(m, u)
        BY <1>7
    <2> QED
        BY <1>3, <1>4, <2>1, <2>2, <2>3, <2>4, <2>5
<1>8. CASE /\ Immediate(j, "sra")
           /\ \A y \in [Regs -> Words] : Worth(i, y) = Sext(m, y[c.a])
    <2>1. Worth(j, z) = Sext(XLEN, v) \div 2^c.k
        <3>1. Worth(j, z) = Sext(XLEN, z[j.a]) \div 2^j.k
            BY <1>6, <1>8, ShiftWorth
        <3> QED
            BY <1>5, <3>1
    <2>2. v \div 2^c.k = Sext(m, u)
        BY <1>2, UpDownSext
    <2>3. Sext(m, u) \in Words
        BY <1>2, NarrowWord
    <2>4. Sext(XLEN, v) = v
        BY <1>4, SextOwn
    <2>5. Worth(i, x) = Sext(m, u)
        BY <1>8
    <2> QED
        BY <1>3, <1>4, <2>1, <2>2, <2>3, <2>4, <2>5
<1> QED
    BY <1>7, <1>8

LEMMA ConstWorth ==
    ASSUME NEW c \in Insns, NEW x \in [Regs -> Words], decode_const(c), x[0] = 0
    PROVE  Worth(c, x) = Sext(XLEN, c.k)
<1>1. Immediate(c, "add") /\ c.a = 0 /\ c.k \in Int
    BY DEF decode_const, rv_decode_addi, Insns
<1>2. Worth(c, x) = Value("add", XLEN, c.k, x[0], c.k)
    BY <1>1, WorthOfImm
<1>3. Value("add", XLEN, c.k, 0, c.k) = Sext(XLEN, 0 + c.k)
    BY PlainValues
<1>4. 0 + c.k = c.k
    BY <1>1
<1> QED
    BY <1>2, <1>3, <1>4

\* check_const_mul_to_shadd.
LEMMA MulFolds ==
    ASSUME NEW c \in Insns, NEW j \in Insns, NEW rx, decode_const(c), rv_shadd_shift(c.k) # 0,
           decode_mul(j), Once(j, c.rd), rx = Beside(j, c.rd)
    PROVE  OneForTwo(c, j, Shadd(rv_shadd_shift(c.k), j.rd, rx, rx))
<1> SUFFICES ASSUME NEW x \in [Regs -> Words], x[0] = 0
             PROVE  \E v \in Words, w \in Words :
                        /\ Worth(c, x) = v /\ Worth(j, Put(x, c.rd, v)) = w
                        /\ Worth(Shadd(rv_shadd_shift(c.k), j.rd, rx, rx), x) = w
    BY DEF OneForTwo
<1>1. j.op = "mul" /\ j.n = XLEN /\ j.b # Imm /\ c.rd \in Regs /\ c.k \in Int
    BY DEF decode_mul, Insns
<1> DEFINE y == x[rx]
           v == c.k
           k == rv_shadd_shift(c.k)
           w == Sext(XLEN, v * y)
           z == Put(x, c.rd, v)
<1>2. /\ rx \in Regs \ {c.rd} /\ rx # Imm
      /\ (j.a = c.rd /\ j.b = rx) \/ (j.b = c.rd /\ j.a = rx)
    BY <1>1, BesideIs
<1>3. y \in Int
    BY <1>2, HalfLemma
<1>4. v \in {3, 5, 9} /\ 2^k = v - 1
    <2>1. 2^0 = 1 /\ 2^1 = 2 * 2^0 /\ 2^2 = 2 * 2^1 /\ 2^3 = 2 * 2^2
        <3>1. 1 \in 1 .. XLEN /\ 2 \in 1 .. XLEN /\ 3 \in 1 .. XLEN
            BY HartAssumption, HalfLemma
        <3>2. 2^1 = 2 * 2^(1 - 1)
            BY <3>1, PowerNext
        <3>3. 2^2 = 2 * 2^(2 - 1)
            BY <3>1, PowerNext
        <3>4. 2^3 = 2 * 2^(3 - 1)
            BY <3>1, PowerNext
        <3> QED
            BY <3>2, <3>3, <3>4
    <2>2. rv_shadd_shift(3) = 1 /\ rv_shadd_shift(5) = 2 /\ rv_shadd_shift(9) = 3
        BY DEF rv_shadd_shift
    <2>3. c.k \notin {3, 5, 9} => rv_shadd_shift(c.k) = 0
        BY DEF rv_shadd_shift
    <2>4. c.k = 3 \/ c.k = 5 \/ c.k = 9
        BY <2>3
    <2>5. CASE c.k = 3
        <3>1. k = 1
            BY <2>2, <2>5
        <3> HIDE DEF k
        <3> QED
            BY <2>1, <2>5, <3>1
    <2>6. CASE c.k = 5
        <3>1. k = 2
            BY <2>2, <2>6
        <3> HIDE DEF k
        <3> QED
            BY <2>1, <2>6, <3>1
    <2>7. CASE c.k = 9
        <3>1. k = 3
            BY <2>2, <2>7
        <3> HIDE DEF k
        <3> QED
            BY <2>1, <2>7, <3>1
    <2> QED
        BY <2>4, <2>5, <2>6, <2>7
<1>5. v \in Words /\ v \in Int
    BY <1>4, HalfLemma
<1>6. Worth(c, x) = v
    <2>1. Worth(c, x) = Sext(XLEN, c.k)
        BY ConstWorth
    <2> QED
        BY <1>5, <2>1, SextOwn
<1>7. Worth(Shadd(k, j.rd, rx, rx), x) = Sext(XLEN, y * 2^k + y)
    <2> HIDE DEF k
    <2> DEFINE i == Shadd(k, j.rd, rx, rx)
    <2>1. i.op = "shadd" /\ i.n = XLEN /\ i.k = k /\ i.a = rx /\ i.b = rx
        BY DEF Shadd, Insn
    <2> HIDE DEF i
    <2>2. Worth(i, x) = Value("shadd", XLEN, k, y, y)
        BY <1>2, <2>1, WorthOfRegs
    <2>3. Value("shadd", XLEN, k, y, y) = Sext(XLEN, y * 2^k + y)
        BY PlainValues
    <2> QED
        BY <2>2, <2>3 DEF i
<1>8. y * 2^k + y = v * y /\ v * y \in Int
    <2> HIDE DEF k, y, v
    <2>1. y * (v - 1) + y = v * y /\ v * y \in Int
        BY <1>3, <1>4
    <2> QED
        BY <1>4, <2>1
<1>9. w \in Words
    <2> HIDE DEF y, v
    <2> QED
        BY <1>8, SextWord
<1>10. z[c.rd] = v /\ z[rx] = y
    BY <1>1, <1>2, PutIs
<1>11. Worth(j, z) = Sext(XLEN, z[j.a] * z[j.b])
    <2> HIDE DEF z
    <2>1. Worth(j, z) = Value("mul", XLEN, j.k, z[j.a], z[j.b])
        BY <1>1, WorthOfRegs
    <2> QED
        BY <2>1, PlainValues
<1>12. Worth(j, z) = w
    <2> HIDE DEF z, y, v
    <2>1. CASE j.a = c.rd /\ j.b = rx
        BY <1>10, <1>11, <2>1
    <2>2. CASE j.b = c.rd /\ j.a = rx
        <3>1. Worth(j, z) = Sext(XLEN, y * v)
            BY <1>10, <1>11, <2>2
        <3>2. y * v = v * y
            BY <1>3, <1>5
        <3> QED
            BY <3>1, <3>2
    <2> QED
        BY <1>2, <2>1, <2>2
<1>13. Worth(Shadd(k, j.rd, rx, rx), x) = w
    BY <1>7, <1>8
<1> HIDE DEF v, w, z, k
<1>14. Worth(c, x) = v /\ Worth(j, z) = w /\ Worth(Shadd(k, j.rd, rx, rx), x) = w
    BY <1>6, <1>12, <1>13
<1> QED
    BY <1>5, <1>9, <1>14 DEF k, z

\* What a power of two is to a division of n bits.
LEMMA PowerWord ==
    ASSUME NEW n \in {WORD, XLEN}, NEW k \in 1 .. XLEN - 1, k < n
    PROVE  Low(n, Sext(XLEN, 2^k)) = 2^k /\ 2^k \in Nat \ {0}
<1>0. /\ n \in Nat /\ n \in 1 .. XLEN /\ n - 1 \in Nat /\ WORD < XLEN /\ WORD \in Nat
      /\ 1 < WORD /\ XLEN \in Nat \ {0}
    BY HartAssumption, HalfLemma
<1> DEFINE p == 2^k
           q == 2^n
<1>1. p \in Nat \ {0} /\ q \in Nat \ {0} /\ p < q
    <2>1. q = 2 * 2^(n - 1) /\ 2^(n - 1) \in Nat \ {0}
        BY <1>0, PowerNext
    <2>2. 2^k <= 2^(n - 1)
        <3> DEFINE m == n - 1
        <3>1. m \in Nat /\ k <= m /\ m <= XLEN /\ k \in Nat
            BY <1>0
        <3> HIDE DEF m
        <3>2. 2^k <= 2^m
            BY <3>1, PowerUpTo
        <3> QED
            BY <3>2 DEF m
    <2>3. p \in Nat \ {0}
        BY BitIs, HalfLemma
    <2> HIDE DEF p, q
    <2> QED
        BY <2>1, <2>2, <2>3 DEF p
<1>2. Low(n, p) = p
    <2>1. Low(n, p) = p % q
        BY DEF Low
    <2> HIDE DEF p, q
    <2> QED
        BY <1>1, <2>1, ModOwn
<1>3. CASE n = XLEN
    <2>1. Low(XLEN, Sext(XLEN, p)) = Low(XLEN, p)
        <3> HIDE DEF p
        <3> QED
            BY <1>1, LowSext
    <2> QED
        BY <1>1, <1>2, <1>3, <2>1
<1>4. CASE n = WORD
    <2>1. k <= XLEN - 2 /\ XLEN - 2 \in Nat /\ XLEN - 2 <= XLEN /\ k \in Nat
        BY <1>0, <1>4
    <2>2. 2^k <= 2^(XLEN - 2)
        <3> DEFINE m == XLEN - 2
        <3>1. m \in Nat /\ k <= m /\ m <= XLEN /\ k \in Nat
            BY <2>1
        <3> HIDE DEF m
        <3>2. 2^k <= 2^m
            BY <3>1, PowerUpTo
        <3> QED
            BY <3>2 DEF m
    <2>3. 2^(XLEN - 1) = 2 * 2^(XLEN - 2) /\ 2^(XLEN - 2) \in Nat \ {0}
        <3> DEFINE m == XLEN - 1
        <3>1. m \in 1 .. XLEN
            BY <1>0
        <3> HIDE DEF m
        <3>2. 2^m = 2 * 2^(m - 1) /\ 2^(m - 1) \in Nat \ {0}
            BY <3>1, PowerNext
        <3>3. m - 1 = XLEN - 2
            BY <1>0 DEF m
        <3> QED
            BY <3>2, <3>3 DEF m
    <2> DEFINE d == 2^(XLEN - 2)
    <2>4. Half = 2 * d /\ d \in Nat \ {0} /\ p <= d
        BY <2>2, <2>3 DEF Half
    <2> HIDE DEF d, p
    <2>5. p \in -Half .. Half - 1
        BY <1>1, <2>4
    <2>6. p \in Words
        BY <2>5, HalfLemma
    <2>7. Sext(XLEN, p) = p
        BY <2>6, SextOwn
    <2> QED
        BY <1>1, <1>2, <2>7 DEF p
<1> QED
    BY <1>3, <1>4

LEMMA PowerForms ==
    ASSUME NEW j, NEW k, NEW i \in ByPowerOfTwo(j, k)
    PROVE  \/ j.op = "remu" /\ k < IMM /\ i = I("and", j.rd, j.a, 2^k - 1)
           \/ j.op = "divu" /\ k < j.n /\ i = Insn("srl", j.n, j.rd, j.a, Imm, k, 0)
<1> DEFINE P == j.op = "remu" /\ k < IMM
           Q == j.op = "divu" /\ k < j.n
           A == {I("and", j.rd, j.a, 2^k - 1)}
           B == {Insn("srl", j.n, j.rd, j.a, Imm, k, 0)}
<1>1. ByPowerOfTwo(j, k) = CASE P -> A [] Q -> B [] OTHER -> {}
    BY DEF ByPowerOfTwo
<1>2. ~(P /\ Q)
    OBVIOUS
<1> HIDE DEF P, Q, A, B
<1>3. P => ByPowerOfTwo(j, k) = A
    BY <1>1, <1>2
<1>4. Q => ByPowerOfTwo(j, k) = B
    BY <1>1, <1>2
<1>5. ~P /\ ~Q => ByPowerOfTwo(j, k) = {}
    BY <1>1
<1>6. (P /\ i \in A) \/ (Q /\ i \in B)
    BY <1>3, <1>4, <1>5
<1> QED
    BY <1>6 DEF P, Q, A, B

\* The quotient and the remainder, in the width of the division.
LEMMA PowerWorth ==
    ASSUME NEW u \in Int, NEW n \in {WORD, XLEN}, NEW k \in 1 .. XLEN - 1, k < n
    PROVE  /\ Value("divu", n, 0, u, Sext(XLEN, 2^k)) = Sext(n, Low(n, u) \div 2^k)
           /\ Sext(n, Low(n, u) \div 2^k) \in Words
           /\ Value("remu", n, 0, u, Sext(XLEN, 2^k)) = Low(k, u)
           /\ Low(k, u) \in Words
<1> DEFINE d == Sext(XLEN, 2^k)
           p == 2^k
<1>1. Low(n, d) = p /\ p \in Nat \ {0}
    BY PowerWord
<1>2. /\ n \in 1 .. XLEN /\ n \in 0 .. XLEN /\ n \in Nat /\ k \in 0 .. XLEN - 1 /\ k \in 0 .. XLEN /\ k \in Nat
      /\ n - 1 \in Nat /\ k <= n - 1 /\ n - 1 <= XLEN /\ n - 1 \in 0 .. XLEN
    BY HartAssumption, HalfLemma
<1>3. Low(n, u) \in Int
    BY <1>2, LowIs
<1> HIDE DEF d
<1>4. Value("divu", n, 0, u, d) = Sext(n, Low(n, u) \div p)
    <2>1. Low(n, d) # 0
        BY <1>1
    <2>2. Value("divu", n, 0, u, d) = Sext(n, Low(n, u) \div Low(n, d))
        BY <2>1, DivValues
    <2> QED
        BY <1>1, <2>2
<1>5. Value("remu", n, 0, u, d) = Sext(n, Low(n, u) % p)
    <2>1. Low(n, d) # 0
        BY <1>1
    <2>2. Value("remu", n, 0, u, d) = Sext(n, Low(n, u) % Low(n, d))
        BY <2>1, DivValues
    <2> QED
        BY <1>1, <2>2
<1>6. Low(n, u) % p = Low(k, u)
    BY <1>2, LowOfLow
<1>7. Sext(n, Low(k, u)) = Low(k, u)
    <2>1. Low(k, u) \in 0 .. p - 1
        BY <1>2, LowIs
    <2>2. p <= 2^(n - 1) /\ 2^(n - 1) \in Nat
        <3> DEFINE m == n - 1
        <3>1. m \in Nat /\ k <= m /\ m <= XLEN
            BY <1>2
        <3>2. m \in 0 .. XLEN
            BY <1>2 DEF m
        <3> HIDE DEF m
        <3>3. 2^k <= 2^m /\ 2^m \in Nat
            BY <1>2, <3>1, <3>2, PowerUpTo, PowerIs
        <3> QED
            BY <3>3 DEF m
    <2> DEFINE q == 2^(n - 1)
    <2> HIDE DEF p, q
    <2>3. p <= q /\ q \in Nat
        BY <2>2 DEF p, q
    <2>4. Low(k, u) \in 0 .. q - 1
        BY <1>1, <2>1, <2>3
    <2> QED
        BY <1>2, <2>4, SextSmall DEF q
<1>8. Low(k, u) \in Words
    BY <1>2, LowWord
<1>9. Sext(n, Low(n, u) \div p) \in Words
    <2> HIDE DEF p
    <2>1. Low(n, u) \div p \in Int
        BY <1>1, <1>3
    <2> QED
        BY <1>2, <2>1, NarrowWord
<1> QED
    BY <1>4, <1>5, <1>6, <1>7, <1>8, <1>9 DEF d

LEMMA AnyK ==
    ASSUME NEW n, NEW k, NEW u, NEW v
    PROVE  /\ Value("divu", n, k, u, v) = Value("divu", n, 0, u, v)
           /\ Value("remu", n, k, u, v) = Value("remu", n, 0, u, v)
    BY DivValues

\* check_udiv_pow2.
LEMMA UdivFolds ==
    ASSUME NEW c \in Insns, NEW j \in Insns, NEW k \in 1 .. XLEN - 1, NEW i, decode_const(c),
           decode_udiv(j), j.b = c.rd, j.a \notin {0, c.rd}, 2^k = c.k, i \in ByPowerOfTwo(j, k)
    PROVE  OneForTwo(c, j, i)
<1> SUFFICES ASSUME NEW x \in [Regs -> Words], x[0] = 0
             PROVE  \E v \in Words, w \in Words :
                        Worth(c, x) = v /\ Worth(j, Put(x, c.rd, v)) = w /\ Worth(i, x) = w
    BY DEF OneForTwo
<1> DEFINE u == x[j.a]
           n == j.n
           v == Sext(XLEN, 2^k)
           z == Put(x, c.rd, v)
<1>1. /\ n \in {WORD, XLEN} /\ j.a \in Regs /\ c.rd \in Regs /\ j.b # Imm
      /\ j.op \in {"divu", "remu"} /\ c.k \in Int
    <2>1. Imm \notin Regs
        BY HartAssumption DEF Imm
    <2> QED
        BY <2>1 DEF Insns, decode_udiv
<1>2. u \in Int
    BY <1>1, HalfLemma
<1>3. k < n
    <2>1. j.op = "remu" => k < IMM
        BY PowerForms
    <2>2. j.op = "divu" => k < j.n
        BY PowerForms
    <2> QED
        BY <1>1, <2>1, <2>2, HartAssumption, HalfLemma
<1>4. Worth(c, x) = v
    BY ConstWorth
<1>5. v \in Words
    BY <1>1, SextWord
<1>6. z[j.a] = u /\ z[j.b] = v
    BY <1>1, PutIs
<1> HIDE DEF z
<1>7. Worth(j, z) = Value(j.op, n, j.k, u, v)
    BY <1>1, <1>6, WorthOfRegs
<1> HIDE DEF u, n, v
<1>8. CASE j.op = "divu"
    <2> DEFINE w == Sext(n, Low(n, u) \div 2^k)
    <2>1. Worth(j, z) = w /\ w \in Words
        <3>1. Worth(j, z) = Value("divu", n, 0, u, v)
            BY <1>7, <1>8, AnyK
        <3>2. Value("divu", n, 0, u, v) = w /\ w \in Words
            BY <1>1, <1>2, <1>3, PowerWorth DEF v
        <3> QED
            BY <3>1, <3>2
    <2>2. Worth(i, x) = w
        <3>1. i = Insn("srl", j.n, j.rd, j.a, Imm, k, 0)
            BY <1>8, PowerForms
        <3>2. i.op = "srl" /\ i.n = n /\ i.b = Imm /\ i.a = j.a /\ i.k = k
            BY <3>1 DEF Insn, n
        <3>3. Worth(i, x) = Value("srl", n, k, u, k)
            BY <3>2 DEF Worth, u
        <3>4. Value("srl", n, k, u, k) = Sext(n, Low(n, u) \div 2^(k % n))
            BY PlainValues
        <3>5. k % n = k
            <4>1. n \in Nat
                <5>1. WORD \in Nat /\ XLEN \in Nat
                    BY HartAssumption
                <5> QED
                    BY <1>1, <5>1
            <4>2. k \in Int /\ 0 <= k
                <5>1. XLEN \in Nat
                    BY HalfLemma
                <5> QED
                    BY <5>1
            <4> QED
                BY <1>3, <4>1, <4>2, ModOwn
        <3> QED
            BY <3>3, <3>4, <3>5
    <2> HIDE DEF w
    <2> QED
        BY <1>4, <1>5, <2>1, <2>2 DEF z
<1>9. CASE j.op = "remu"
    <2> DEFINE w == Low(k, u)
    <2>1. Worth(j, z) = w /\ w \in Words
        <3>1. Worth(j, z) = Value("remu", n, 0, u, v)
            BY <1>7, <1>9, AnyK
        <3>2. Value("remu", n, 0, u, v) = w /\ w \in Words
            BY <1>1, <1>2, <1>3, PowerWorth DEF v
        <3> QED
            BY <3>1, <3>2
    <2>2. Worth(i, x) = w
        <3>1. i = I("and", j.rd, j.a, 2^k - 1)
            BY <1>9, PowerForms
        <3>2. Immediate(i, "and") /\ i.a = j.a /\ i.k = 2^k - 1
            BY <3>1 DEF I, Insn, Immediate
        <3>3. Worth(i, x) = Value("and", XLEN, i.k, u, i.k)
            BY <3>2, WorthOfImm DEF u
        <3>4. Value("and", XLEN, i.k, u, i.k) = BitAnd(u, i.k)
            BY PlainValues
        <3>5. BitAnd(u, 2^k - 1) = Low(k, u)
            BY <1>2, AndMask
        <3> QED
            BY <3>2, <3>3, <3>4, <3>5
    <2> HIDE DEF w
    <2> QED
        BY <1>4, <1>5, <2>1, <2>2 DEF z
<1> QED
    BY <1>1, <1>8, <1>9

\* check_not_logic_fold: the inverted operand of a logic operation.
LEMMA NotWorth ==
    ASSUME NEW i \in Insns, NEW x \in [Regs -> Words], rv_decode_not(i)
    PROVE  Worth(i, x) = Not(x[i.a]) /\ Worth(i, x) \in Words
<1>1. Immediate(i, "xor") /\ i.k = -1 /\ i.a \in Regs
    BY DEF rv_decode_not, Insns
<1>2. Worth(i, x) = Value("xor", XLEN, i.k, x[i.a], i.k)
    BY <1>1, WorthOfImm
<1>3. Value("xor", XLEN, i.k, x[i.a], i.k) = BitXor(x[i.a], -1)
    BY <1>1, ValueIs
<1> QED
    BY <1>1, <1>2, <1>3, XorOnes

LEMMA LogicNames ==
    /\ zbb_logic_name("and") = "andn" /\ zbb_logic_name("or") = "orn"
    /\ zbb_logic_name("xor") = "xnor"
    BY Zenon DEF zbb_logic_name

\* What an operation of the logic makes of its operands, in either order.
LEMMA LogicWorth ==
    ASSUME NEW op \in {"and", "or", "xor"}, NEW n, NEW k, NEW m, NEW l, NEW u \in Int, NEW v \in Int
    PROVE  /\ Value(op, n, k, u, v) = Value(op, n, k, v, u) /\ Value(op, n, k, u, v) \in Words
           /\ Value(zbb_logic_name(op), m, l, u, v) = Value(op, n, k, u, Not(v))
<1>1. Not(v) \in Int
    BY DEF Not
<1>2. CASE op = "and"
    <2>1. BitAnd(u, v) = BitAnd(v, u) /\ BitAnd(u, v) \in Words
        BY AndSwap, AndWord
    <2> QED
        BY <1>2, <2>1, LogicNames, PlainValues
<1>3. CASE op = "or"
    <2>1. BitOr(u, v) = BitOr(v, u) /\ BitOr(u, v) \in Words
        BY LogicSwap, LogicWord
    <2> QED
        BY <1>3, <2>1, LogicNames, PlainValues
<1>4. CASE op = "xor"
    <2>1. BitXor(u, v) = BitXor(v, u) /\ BitXor(u, v) \in Words
        BY LogicSwap, LogicWord
    <2> QED
        BY <1>4, <2>1, LogicNames, PlainValues, ValueIs
<1> QED
    BY <1>2, <1>3, <1>4

LEMMA NotFirstFolds ==
    ASSUME NEW c \in Insns, NEW j \in Insns, NEW rx, rv_decode_not(c), decode_logic(j),
           Once(j, c.rd), rx = Beside(j, c.rd)
    PROVE  OneForTwo(c, j, R(zbb_logic_name(j.op), j.rd, rx, c.a))
<1> SUFFICES ASSUME NEW x \in [Regs -> Words], x[0] = 0
             PROVE  \E v \in Words, w \in Words :
                        /\ Worth(c, x) = v /\ Worth(j, Put(x, c.rd, v)) = w
                        /\ Worth(R(zbb_logic_name(j.op), j.rd, rx, c.a), x) = w
    BY DEF OneForTwo
<1>1. /\ j.op \in {"and", "or", "xor"} /\ j.b # Imm /\ c.rd \in Regs /\ c.a \in Regs
      /\ c.a # Imm
    <2>1. Imm \notin Regs
        BY HartAssumption DEF Imm
    <2> QED
        BY <2>1 DEF decode_logic, Insns
<1> DEFINE y == x[rx]
           u == x[c.a]
           v == Worth(c, x)
           op == j.op
           w == Value(op, j.n, j.k, y, v)
           z == Put(x, c.rd, v)
           i == R(zbb_logic_name(op), j.rd, rx, c.a)
<1>2. /\ rx \in Regs \ {c.rd} /\ rx # Imm
      /\ (j.a = c.rd /\ j.b = rx) \/ (j.b = c.rd /\ j.a = rx)
    BY <1>1, BesideIs
<1>3. v = Not(u) /\ v \in Words
    BY NotWorth
<1>4. y \in Int /\ u \in Int /\ v \in Int
    BY <1>1, <1>2, <1>3, HalfLemma
<1>5. z[c.rd] = v /\ z[rx] = y
    BY <1>1, <1>2, PutIs
<1> HIDE DEF z
<1>6. Worth(j, z) = Value(op, j.n, j.k, z[j.a], z[j.b])
    BY <1>1, WorthOfRegs
<1>7. i.op = zbb_logic_name(op) /\ i.a = rx /\ i.b = c.a
    BY DEF R, Insn
<1> HIDE DEF i
<1>8. Worth(i, x) = Value(zbb_logic_name(op), i.n, i.k, y, u)
    BY <1>1, <1>7, WorthOfRegs
<1> HIDE DEF y, u, v, op
<1>9. op \in {"and", "or", "xor"}
    BY <1>1 DEF op
<1>10. /\ Value(op, j.n, j.k, y, v) = Value(op, j.n, j.k, v, y) /\ w \in Words
    BY <1>4, <1>9, LogicWorth
<1>11. Worth(j, z) = w
    BY <1>2, <1>5, <1>6, <1>10
<1>12. Worth(i, x) = w
    <2>1. Value(zbb_logic_name(op), i.n, i.k, y, u) = Value(op, j.n, j.k, y, Not(u))
        BY <1>4, <1>9, LogicWorth
    <2> QED
        BY <1>3, <1>8, <2>1
<1> HIDE DEF w
<1>13. Worth(c, x) = v
    BY DEF v
<1> QED
    BY <1>3, <1>10, <1>11, <1>12, <1>13 DEF z, i, op

LEMMA NotLastFolds ==
    ASSUME NEW c \in Insns, NEW j \in Insns, decode_logic(c), c.op = "xor", rv_decode_not(j),
           j.a = c.rd
    PROVE  OneForTwo(c, j, R(zbb_logic_name("xor"), j.rd, c.a, c.b))
<1> SUFFICES ASSUME NEW x \in [Regs -> Words], x[0] = 0
             PROVE  \E v \in Words, w \in Words :
                        /\ Worth(c, x) = v /\ Worth(j, Put(x, c.rd, v)) = w
                        /\ Worth(R(zbb_logic_name("xor"), j.rd, c.a, c.b), x) = w
    BY DEF OneForTwo
<1>1. c.b # Imm /\ c.rd \in Regs /\ c.a \in Regs /\ c.b \in Regs
    BY DEF decode_logic, Insns
<1> DEFINE u == x[c.a]
           y == x[c.b]
           v == BitXor(u, y)
           z == Put(x, c.rd, v)
           i == R("xnor", j.rd, c.a, c.b)
<1>2. u \in Words /\ y \in Words /\ u \in Int /\ y \in Int
    BY <1>1, HalfLemma
<1>3. Worth(c, x) = v
    BY <1>1, WorthOfRegs, ValueIs
<1>4. i.op = "xnor" /\ i.a = c.a /\ i.b = c.b
    BY DEF R, Insn
<1> HIDE DEF i
<1>5. Worth(i, x) = BitXor(u, Not(y))
    <2>1. Worth(i, x) = Value("xnor", i.n, i.k, u, y)
        BY <1>1, <1>4, WorthOfRegs
    <2> QED
        BY <2>1, PlainValues
<1> HIDE DEF u, y
<1>6. v \in Words
    BY <1>2, LogicWord
<1>7. z[c.rd] = v /\ z \in [Regs -> Words]
    BY <1>1, <1>6, PutIs DEF Put
<1>8. BitXor(u, Not(y)) = Not(v)
    BY <1>2, XorNot
<1> HIDE DEF v, z
<1>9. Worth(j, z) = Not(v) /\ Not(v) \in Words
    <2>1. Worth(j, z) = Not(z[j.a]) /\ Worth(j, z) \in Words
        BY <1>7, NotWorth
    <2> QED
        BY <1>7, <2>1
<1>10. R(zbb_logic_name("xor"), j.rd, c.a, c.b) = i
    BY LogicNames DEF i
<1> QED
    BY <1>3, <1>5, <1>6, <1>8, <1>9, <1>10 DEF z

\* check_no_effect: what computes the value that is there.
LEMMA ItselfWorth ==
    ASSUME NEW i \in Insns, NEW x \in [Regs -> Words], x[0] = 0, Itself(i)
    PROVE  Worth(i, x) = x[i.rd]
<1> DEFINE u == x[i.rd]
<1>1. u \in Words /\ u \in Int /\ Sext(XLEN, u) = u /\ 0 \in Regs /\ 0 # Imm /\ i.rd # Imm
    <2>1. 0 \in Regs /\ 0 # Imm /\ i.rd \in Regs /\ Imm \notin Regs
        BY HartAssumption DEF Insns, Imm
    <2>2. u \in Words
        BY <2>1
    <2>3. u \in Int /\ Sext(XLEN, u) = u
        BY <2>2, HalfLemma, SextOwn
    <2> QED
        BY <2>1, <2>2, <2>3
<1>2. 0 % XLEN = 0 /\ 2^0 = 1 /\ u * 1 = u /\ u + 0 = u /\ 0 + u = u /\ u - 0 = u
    <2>1. 0 \in Int /\ XLEN \in Nat /\ 0 <= 0 /\ 0 < XLEN
        BY HalfLemma
    <2>2. 0 % XLEN = 0
        BY <2>1, ModOwn
    <2> HIDE DEF u
    <2>3. 2^0 = 1 /\ u * 1 = u /\ u + 0 = u /\ 0 + u = u /\ u - 0 = u
        BY <1>1
    <2> QED
        BY <2>2, <2>3
<1>3. Low(XLEN, u) \div 1 = Low(XLEN, u) /\ u \div 1 = u
    <2>1. Low(XLEN, u) \in Int
        <3>1. XLEN \in 0 .. XLEN
            BY HalfLemma
        <3>2. Low(XLEN, u) \in 0 .. 2^XLEN - 1 /\ 2^XLEN \in Nat
            BY <1>1, <3>1, LowIs, PowerIs
        <3> QED
            BY <3>2
    <2>2. \A w \in Int : w \div 1 = w
        <3> TAKE w \in Int
        <3>1. 1 \in Nat \ {0} /\ 0 \in 0 .. 1 - 1 /\ w = w * 1 + 0
            OBVIOUS
        <3> QED
            BY <3>1, QuotientIs
    <2> QED
        BY <1>1, <2>1, <2>2
<1>4. Sext(XLEN, Low(XLEN, u)) = u
    BY <1>1, SextLow
<1>5. /\ BitXor(u, 0) = u /\ BitXor(0, u) = u /\ BitOr(u, 0) = u /\ BitOr(0, u) = u
      /\ BitOr(u, u) = u /\ BitAnd(u, -1) = u /\ BitAnd(u, u) = u
    BY <1>1, LogicItself, AndOnes
<1>6. \A k : /\ Value("add", XLEN, k, u, 0) = u /\ Value("add", XLEN, k, 0, u) = u
             /\ Value("sub", XLEN, k, u, 0) = u
             /\ Value("sll", XLEN, k, u, 0) = u /\ Value("srl", XLEN, k, u, 0) = u
             /\ Value("sra", XLEN, k, u, 0) = u
    <2> TAKE k
    <2>1. /\ Value("add", XLEN, k, u, 0) = Sext(XLEN, u + 0)
          /\ Value("add", XLEN, k, 0, u) = Sext(XLEN, 0 + u)
          /\ Value("sub", XLEN, k, u, 0) = Sext(XLEN, u - 0)
        BY PlainValues, ValueIs
    <2>2. /\ Value("sll", XLEN, k, u, 0) = Sext(XLEN, u * 2^(0 % XLEN))
          /\ Value("srl", XLEN, k, u, 0) = Sext(XLEN, Low(XLEN, u) \div 2^(0 % XLEN))
          /\ Value("sra", XLEN, k, u, 0) = Sext(XLEN, u) \div 2^(0 % XLEN)
        BY PlainValues
    <2> HIDE DEF u
    <2>3. 2^(0 % XLEN) = 1
        BY <1>2
    <2> QED
        BY <1>1, <1>2, <1>3, <1>4, <2>1, <2>2, <2>3
<1>7. \A k : /\ Value("xor", XLEN, k, u, 0) = u /\ Value("xor", XLEN, k, 0, u) = u
             /\ Value("or", XLEN, k, u, 0) = u /\ Value("or", XLEN, k, 0, u) = u
             /\ Value("or", XLEN, k, u, u) = u
             /\ Value("and", XLEN, k, u, -1) = u /\ Value("and", XLEN, k, u, u) = u
    BY <1>5, PlainValues, ValueIs
<1>8. i.n = XLEN
    BY DEF Itself
<1> HIDE DEF u
<1>9. CASE i.a = i.rd /\ i.b = Imm
    <2>1. Worth(i, x) = Value(i.op, XLEN, i.k, u, i.k)
        BY <1>8, <1>9 DEF Worth, u
    <2>2. \/ i.op \in {"add", "sll", "srl", "sra", "xor", "or"} /\ i.k = 0
          \/ i.op = "and" /\ i.k = -1
        BY <1>1, <1>9 DEF Itself, Imm
    <2>3. Worth(i, x) = u
        BY <1>6, <1>7, <2>1, <2>2
    <2> QED
        BY <2>3 DEF u
<1>10. CASE i.a = i.rd /\ i.b # Imm /\ i.b = 0 /\ i.op \in {"add", "sub", "xor", "or", "sll", "srl", "sra"}
    <2>1. Worth(i, x) = Value(i.op, XLEN, i.k, u, 0)
        BY <1>8, <1>10, WorthOfRegs DEF u
    <2>2. Worth(i, x) = u
        BY <1>6, <1>7, <1>10, <2>1
    <2> QED
        BY <2>2 DEF u
<1>11. CASE i.a = i.rd /\ i.b = i.rd /\ i.op \in {"and", "or"}
    <2>1. Worth(i, x) = Value(i.op, XLEN, i.k, u, u)
        BY <1>1, <1>8, <1>11, WorthOfRegs DEF u
    <2>2. Worth(i, x) = u
        BY <1>7, <1>11, <2>1
    <2> QED
        BY <2>2 DEF u
<1>12. CASE i.b = i.rd /\ i.a = 0 /\ i.op \in {"add", "xor", "or"}
    <2>1. Worth(i, x) = Value(i.op, XLEN, i.k, 0, u)
        BY <1>1, <1>8, <1>12, WorthOfRegs DEF u
    <2>2. Worth(i, x) = u
        BY <1>6, <1>7, <1>12, <2>1
    <2> QED
        BY <2>2 DEF u
<1> QED
    BY <1>1, <1>9, <1>10, <1>11, <1>12 DEF Itself

\* A fold of two instructions that are in a line.
LEMMA TwoInsns ==
    ASSUME NEW s, NEW a \in Nat \ {0}, IsSection(s), Window(s, a, 2)
    PROVE  /\ s.code[a] \in Insns /\ s.code[a + 1] \in Insns
           /\ s.code[a].rd \in Regs /\ s.code[a + 1].rd \in Regs
<1>1. a \in a .. a + 2 - 1 /\ a + 1 \in a .. a + 2 - 1
    OBVIOUS
<1>2. a \in DOMAIN s.code /\ a + 1 \in DOMAIN s.code
    BY <1>1, WindowEntry
<1>3. s.code[a] \in Insns /\ s.code[a + 1] \in Insns
    BY <1>2 DEF IsSection
<1> QED
    BY <1>3 DEF Insns

\* What the folds of two instructions share.
TwoAsOne(s, a, i, f) ==
    /\ Window(s, a, 2)
    /\ s.code[a].rd # 0 /\ s.code[a + 1].rd # 0 /\ i.rd = s.code[a + 1].rd
    /\ s.code[a + 1].rd = s.code[a].rd \/ DeadAt(s, a + 2, s.code[a].rd)
    /\ Plainly(s.code[a]) /\ Plainly(s.code[a + 1]) /\ Plainly(i)
    /\ OneForTwo(s.code[a], s.code[a + 1], i)
    /\ \E rule : f \in Fold(rule, a, 2, Alone(i))

\* Two instructions that are as one fold into it.
LEMMA FoldedHolds ==
    ASSUME NEW s, NEW a \in Nat \ {0}, NEW i, NEW f, NEW x \in [Regs -> Words], NEW m,
           NEW fuel \in Nat, IsSection(s), TwoAsOne(s, a, i, f), x[0] = 0, 2 <= fuel
    PROVE  Holds(s, f, x, m, fuel)
<1> DEFINE c == s.code[a]
           j == s.code[a + 1]
<1>1. /\ Window(s, a, 2) /\ c.rd # 0 /\ j.rd # 0 /\ i.rd = j.rd
      /\ j.rd = c.rd \/ DeadAt(s, a + 2, c.rd)
      /\ Plainly(c) /\ Plainly(j) /\ Plainly(i) /\ OneForTwo(c, j, i)
    BY DEF TwoAsOne
<1>2. PICK rule : f \in Fold(rule, a, 2, Alone(i))
    BY DEF TwoAsOne
<1>3. c.rd \in Regs \ {0} /\ j.rd \in Regs \ {0}
    BY <1>1, TwoInsns
<1> HIDE DEF c, j
<1>4. c = s.code[a] /\ j = s.code[a + 1]
    BY DEF c, j
<1> QED
    BY <1>1, <1>2, <1>3, <1>4, FoldOnce

\* Of each check that folds two instructions, what it folds and into what.
LEMMA ShaddFolded ==
    ASSUME NEW s, NEW a \in Nat \ {0}, NEW f, IsSection(s), f \in check_slli_add_to_shadd(s, a)
    PROVE  \E i : TwoAsOne(s, a, i, f)
<1> DEFINE c == s.code[a]
           j == s.code[a + 1]
           i == Shadd(c.k, j.rd, c.a, Beside(j, c.rd))
<1>1. /\ Window(s, a, 2) /\ rv_decode_slli(c) /\ c.k \in 1 .. 3 /\ c.rd # 0
      /\ rv_decode_add(j) /\ j.rd = c.rd /\ Once(j, c.rd)
      /\ f \in Fold("slli_add_to_shadd", a, 2, Alone(i))
    BY DEF check_slli_add_to_shadd, When, Alone
<1>2. c \in Insns /\ j \in Insns
    BY <1>1, TwoInsns
<1>3. OneForTwo(c, j, i)
    BY <1>1, <1>2, ShaddFolds
<1>4. Plainly(c) /\ Plainly(j) /\ Plainly(i) /\ i.rd = j.rd
    <2>1. c.op = "sll" /\ j.op = "add" /\ i.op = "shadd" /\ i.rd = j.rd
        BY <1>1 DEF rv_decode_slli, Immediate, rv_decode_add, Shadd, Insn
    <2> HIDE DEF i, j, c
    <2> QED
        BY <2>1, PlainOps
<1> HIDE DEF i
<1> QED
    BY <1>1, <1>3, <1>4 DEF TwoAsOne

LEMMA ShiftsFolded ==
    ASSUME NEW s, NEW a \in Nat \ {0}, NEW f, NEW sh, NEW down, NEW rule, NEW i, NEW m,
           IsSection(s), Shifts(s, a, down, sh), Splits(m, s.code[a].k),
           \/ /\ down = "srl" /\ i.op \in {"zext", "and"}
              /\ \A x \in [Regs -> Words] : Worth(i, x) = Low(m, x[s.code[a].a])
           \/ /\ down = "sra" /\ i.op = "sext"
              /\ \A x \in [Regs -> Words] : Worth(i, x) = Sext(m, x[s.code[a].a]),
           i.rd = s.code[a + 1].rd,
           f \in Fold(rule, a, 2, Alone(i))
    PROVE  TwoAsOne(s, a, i, f)
<1> DEFINE c == s.code[a]
           j == s.code[a + 1]
<1>1. /\ Window(s, a, 2) /\ (j.rd = c.rd \/ DeadAt(s, a + 2, c.rd))
      /\ rv_decode_slli(c) /\ c.rd # 0
      /\ Immediate(j, down) /\ j.rd # 0 /\ j.k = c.k /\ j.a = c.rd
    BY DEF Shifts, Pair
<1>2. c \in Insns /\ j \in Insns
    BY <1>1, TwoInsns
<1>3. \/ /\ Immediate(j, "srl")
         /\ \A x \in [Regs -> Words] : Worth(i, x) = Low(m, x[c.a])
      \/ /\ Immediate(j, "sra")
         /\ \A x \in [Regs -> Words] : Worth(i, x) = Sext(m, x[c.a])
    BY <1>1
<1>4. Plainly(c) /\ Plainly(j) /\ Plainly(i)
    <2>1. c.op = "sll" /\ j.op \in {"srl", "sra"} /\ i.op \in {"zext", "and", "sext"}
        BY <1>1 DEF rv_decode_slli, Immediate
    <2> HIDE DEF j, c
    <2> QED
        BY <2>1, PlainOps
<1>5. Splits(m, c.k)
    OBVIOUS
<1> HIDE DEF c, j
<1>6. OneForTwo(c, j, i)
    BY <1>1, <1>2, <1>3, <1>5, ShiftsFold
<1> QED
    BY <1>1, <1>4, <1>6 DEF TwoAsOne, c, j

LEMMA ExtWorth ==
    ASSUME NEW n, NEW rd, NEW ra, NEW x
    PROVE  /\ Worth(Ext("zext", n, rd, ra), x) = Low(n, x[ra])
           /\ Worth(Ext("sext", n, rd, ra), x) = Sext(n, x[ra])
<1> DEFINE i == Ext("zext", n, rd, ra)
           j == Ext("sext", n, rd, ra)
<1>1. /\ i.op = "zext" /\ i.n = n /\ i.a = ra /\ i.b = 0 /\ i.k = 0
      /\ j.op = "sext" /\ j.n = n /\ j.a = ra /\ j.b = 0 /\ j.k = 0 /\ 0 # Imm
    BY DEF Ext, Insn, Imm
<1> HIDE DEF i, j
<1>2. Worth(i, x) = Value("zext", n, 0, x[ra], x[0]) /\ Worth(j, x) = Value("sext", n, 0, x[ra], x[0])
    BY <1>1, WorthOfRegs
<1>3. Worth(i, x) = Low(n, x[ra]) /\ Worth(j, x) = Sext(n, x[ra])
    BY <1>2, PlainValues
<1> QED
    BY <1>3 DEF i, j

LEMMA ZextFolded ==
    ASSUME NEW s, NEW a \in Nat \ {0}, NEW f, IsSection(s),
           f \in check_slli_srli_to_zext(s, a) \cup check_slli_srli_to_zexth(s, a)
    PROVE  \E i : TwoAsOne(s, a, i, f)
<1> DEFINE c == s.code[a]
           j == s.code[a + 1]
<1>1. \/ /\ Shifts(s, a, "srl", {XLEN - WORD}) /\ j.rd = c.rd
         /\ f \in Fold("slli_srli_to_zext", a, 2, Alone(Ext("zext", WORD, c.rd, c.a)))
      \/ /\ Shifts(s, a, "srl", {XLEN - HALF})
         /\ f \in Fold("slli_srli_to_zexth", a, 2, Alone(Ext("zext", HALF, j.rd, c.a)))
    BY DEF check_slli_srli_to_zext, check_slli_srli_to_zexth, When, Alone
<1>2. PICK n \in {WORD, HALF} :
        /\ Shifts(s, a, "srl", {XLEN - n})
        /\ \E rule : f \in Fold(rule, a, 2, Alone(Ext("zext", n, j.rd, c.a)))
    <2>1. CASE /\ Shifts(s, a, "srl", {XLEN - WORD}) /\ j.rd = c.rd
               /\ f \in Fold("slli_srli_to_zext", a, 2, Alone(Ext("zext", WORD, c.rd, c.a)))
        BY <2>1
    <2>2. CASE /\ Shifts(s, a, "srl", {XLEN - HALF})
               /\ f \in Fold("slli_srli_to_zexth", a, 2, Alone(Ext("zext", HALF, j.rd, c.a)))
        BY <2>2
    <2> QED
        BY <1>1, <2>1, <2>2
<1>3. Splits(n, c.k)
    <2>1. c.k = XLEN - n
        BY <1>2 DEF Shifts
    <2>2. n \in 1 .. XLEN - 1 /\ XLEN \in Nat /\ n \in Nat
        BY HartAssumption, HalfLemma, SMTT(30)
    <2> QED
        BY <2>1, <2>2 DEF Splits
<1> DEFINE i == Ext("zext", n, j.rd, c.a)
<1>4. i.op = "zext" /\ i.rd = j.rd
    BY DEF Ext, Insn
<1>5. \A x \in [Regs -> Words] : Worth(i, x) = Low(n, x[c.a])
    BY ExtWorth
<1> HIDE DEF i
<1>6. PICK rule : f \in Fold(rule, a, 2, Alone(i))
    BY <1>2 DEF i
<1>7. TwoAsOne(s, a, i, f)
    BY <1>2, <1>3, <1>4, <1>5, <1>6, ShiftsFolded
<1> QED
    BY <1>7

LEMMA SextFolded ==
    ASSUME NEW s, NEW a \in Nat \ {0}, NEW f, IsSection(s), f \in check_slli_srai_to_sext(s, a)
    PROVE  \E i : TwoAsOne(s, a, i, f)
<1> DEFINE c == s.code[a]
           j == s.code[a + 1]
           n == XLEN - c.k
           i == Ext("sext", n, j.rd, c.a)
           sh == {XLEN - HALF, XLEN - BYTE}
<1>1. Shifts(s, a, "sra", sh) /\ f \in Fold("slli_srai_to_sext", a, 2, Alone(i))
    BY DEF check_slli_srai_to_sext, When, Alone
<1>2. c.k \in sh
    BY <1>1 DEF Shifts
<1>3. Splits(n, c.k)
    <2>1. HALF \in 1 .. XLEN - 1 /\ BYTE \in 1 .. XLEN - 1 /\ XLEN \in Nat
        BY HartAssumption, HalfLemma, SMTT(30)
    <2> DEFINE k == c.k
    <2>2. k = XLEN - HALF \/ k = XLEN - BYTE
        BY <1>2
    <2> HIDE DEF k
    <2>3. k \in 1 .. XLEN - 1 /\ XLEN - k \in 1 .. XLEN - 1 /\ XLEN - k + k = XLEN
        BY <2>1, <2>2
    <2> QED
        BY <2>3 DEF Splits, k
<1>4. i.op = "sext" /\ i.rd = j.rd
    BY DEF Ext, Insn
<1>5. \A x \in [Regs -> Words] : Worth(i, x) = Sext(n, x[c.a])
    <2> HIDE DEF n
    <2> QED
        BY ExtWorth
<1> HIDE DEF i, sh, n
<1>6. TwoAsOne(s, a, i, f)
    BY <1>1, <1>3, <1>4, <1>5, ShiftsFolded
<1> QED
    BY <1>6

LEMMA AndiFolded ==
    ASSUME NEW s, NEW a \in Nat \ {0}, NEW f, IsSection(s), f \in check_slli_srli_to_andi(s, a)
    PROVE  \E i : TwoAsOne(s, a, i, f)
<1> DEFINE c == s.code[a]
           j == s.code[a + 1]
           n == XLEN - c.k
           i == I("and", j.rd, c.a, 2^n - 1)
           sh == XLEN - IMM + 1 .. XLEN - 1
<1>1. Shifts(s, a, "srl", sh) /\ f \in Fold("slli_srli_to_andi", a, 2, Alone(i))
    BY DEF check_slli_srli_to_andi, When, Alone
<1>2. c.k \in sh
    BY <1>1 DEF Shifts
<1>3. Splits(n, c.k) /\ n \in 0 .. XLEN - 1
    <2>1. IMM \in 1 .. XLEN - 1 /\ XLEN \in Nat
        BY HartAssumption, HalfLemma, SMTT(30)
    <2> DEFINE k == c.k
    <2>2. k \in XLEN - IMM + 1 .. XLEN - 1
        BY <1>2
    <2> HIDE DEF k
    <2>3. k \in 1 .. XLEN - 1 /\ XLEN - k \in 1 .. XLEN - 1 /\ XLEN - k + k = XLEN
        BY <2>1, <2>2
    <2> QED
        BY <2>3 DEF Splits, k
<1>4. i.op = "and" /\ i.rd = j.rd /\ Immediate(i, "and") /\ i.a = c.a /\ i.k = 2^n - 1
    BY DEF I, Insn, Immediate
<1>5. c.a \in Regs
    <2>1. Window(s, a, 2)
        BY <1>1 DEF Shifts, Pair
    <2>2. c \in Insns
        BY <2>1, TwoInsns
    <2> QED
        BY <2>2 DEF Insns
<1> HIDE DEF i, n
<1>6. \A x \in [Regs -> Words] : Worth(i, x) = Low(n, x[c.a])
    <2> TAKE x \in [Regs -> Words]
    <2>1. x[c.a] \in Int
        BY <1>5, HalfLemma
    <2>2. Worth(i, x) = Value("and", XLEN, i.k, x[i.a], i.k)
        BY <1>4, WorthOfImm
    <2>3. Worth(i, x) = BitAnd(x[c.a], 2^n - 1)
        BY <1>4, <2>2, PlainValues
    <2> QED
        BY <1>3, <2>1, <2>3, AndMask
<1> HIDE DEF sh
<1>7. TwoAsOne(s, a, i, f)
    BY <1>1, <1>3, <1>4, <1>6, ShiftsFolded
<1> QED
    BY <1>7

LEMMA MulFolded ==
    ASSUME NEW s, NEW a \in Nat \ {0}, NEW f, IsSection(s), f \in check_const_mul_to_shadd(s, a)
    PROVE  \E i : TwoAsOne(s, a, i, f)
<1> DEFINE c == s.code[a]
           j == s.code[a + 1]
           rx == Beside(j, c.rd)
           i == Shadd(rv_shadd_shift(c.k), j.rd, rx, rx)
<1>1. /\ Window(s, a, 2) /\ (j.rd = c.rd \/ DeadAt(s, a + 2, c.rd))
      /\ decode_const(c) /\ rv_shadd_shift(c.k) # 0 /\ decode_mul(j) /\ Once(j, c.rd)
      /\ f \in Fold("const_mul_to_shadd", a, 2, Alone(i))
    BY DEF check_const_mul_to_shadd, When, Alone, ConstPair, Pair
<1>2. c \in Insns /\ j \in Insns
    BY <1>1, TwoInsns
<1>3. OneForTwo(c, j, i)
    BY <1>1, <1>2, MulFolds
<1>4. Plainly(c) /\ Plainly(j) /\ Plainly(i) /\ i.rd = j.rd /\ c.rd # 0 /\ j.rd # 0
    <2>1. c.op = "add" /\ j.op = "mul" /\ i.op = "shadd" /\ i.rd = j.rd /\ c.rd # 0 /\ j.rd # 0
        BY <1>1 DEF decode_const, rv_decode_addi, Immediate, decode_mul, Shadd, Insn
    <2> HIDE DEF i, j, c
    <2> QED
        BY <2>1, PlainOps
<1> HIDE DEF i
<1> QED
    BY <1>1, <1>3, <1>4 DEF TwoAsOne

LEMMA UdivFolded ==
    ASSUME NEW s, NEW a \in Nat \ {0}, NEW f, IsSection(s), f \in check_udiv_pow2(s, a)
    PROVE  \E i : TwoAsOne(s, a, i, f)
<1> DEFINE c == s.code[a]
           j == s.code[a + 1]
<1>1. /\ Window(s, a, 2) /\ (j.rd = c.rd \/ DeadAt(s, a + 2, c.rd))
      /\ decode_const(c) /\ decode_udiv(j) /\ j.b = c.rd /\ j.a \notin {0, c.rd}
    BY DEF check_udiv_pow2, When, ConstPair, Pair
<1>2. PICK i \in UNION {ByPowerOfTwo(j, k) : k \in {m \in 1 .. XLEN - 1 : 2^m = c.k}} :
        f \in Fold("udiv_pow2", a, 2, Alone(i))
    BY DEF check_udiv_pow2, When, Alone
<1>3. PICK k \in 1 .. XLEN - 1 : 2^k = c.k /\ i \in ByPowerOfTwo(j, k)
    BY <1>2
<1>4. c \in Insns /\ j \in Insns
    BY <1>1, TwoInsns
<1>5. OneForTwo(c, j, i)
    BY <1>1, <1>3, <1>4, UdivFolds
<1>6. Plainly(c) /\ Plainly(j) /\ Plainly(i) /\ i.rd = j.rd /\ c.rd # 0 /\ j.rd # 0
    <2>1. c.op = "add" /\ j.op \in {"divu", "remu"} /\ c.rd # 0 /\ j.rd # 0
        BY <1>1 DEF decode_const, rv_decode_addi, Immediate, decode_udiv
    <2>2. i.op \in {"and", "srl"} /\ i.rd = j.rd
        <3>1. i = I("and", j.rd, j.a, 2^k - 1) \/ i = Insn("srl", j.n, j.rd, j.a, Imm, k, 0)
            BY <1>3, PowerForms
        <3> QED
            BY <3>1 DEF I, Insn
    <2> HIDE DEF j, c
    <2> QED
        BY <2>1, <2>2, PlainOps
<1>7. TwoAsOne(s, a, i, f)
    BY <1>1, <1>2, <1>5, <1>6 DEF TwoAsOne
<1> QED
    BY <1>7

LEMMA NotFolded ==
    ASSUME NEW s, NEW a \in Nat \ {0}, NEW f, IsSection(s), f \in check_not_logic_fold(s, a)
    PROVE  \E i : TwoAsOne(s, a, i, f)
<1> DEFINE c == s.code[a]
           j == s.code[a + 1]
           rx == Beside(j, c.rd)
           P == rv_decode_not(c)
           Q == ~rv_decode_not(c) /\ decode_logic(c) /\ c.op = "xor"
           fold(op, ra, rb) == When(Pair(s, a, c.rd) /\ ra # 0 /\ rb # 0,
                                    Fold("not_logic_fold", a, 2,
                                         <<R(zbb_logic_name(op), j.rd, ra, rb)>>))
           A == When(decode_logic(j) /\ Once(j, c.rd), fold(j.op, rx, c.a))
           B == When(rv_decode_not(j) /\ j.a = c.rd, fold("xor", c.a, c.b))
<1>1. check_not_logic_fold(s, a) = CASE P -> A [] Q -> B [] OTHER -> {}
    BY DEF check_not_logic_fold
<1>2. ~(P /\ Q)
    OBVIOUS
<1>3. (P /\ f \in A) \/ (Q /\ f \in B)
    <2> HIDE DEF P, Q, A, B
    <2>1. P => check_not_logic_fold(s, a) = A
        BY <1>1, <1>2
    <2>2. Q => check_not_logic_fold(s, a) = B
        BY <1>1, <1>2
    <2>3. ~P /\ ~Q => check_not_logic_fold(s, a) = {}
        BY <1>1
    <2> QED
        BY <2>1, <2>2, <2>3
<1>4. CASE P /\ f \in A
    <2> DEFINE i == R(zbb_logic_name(j.op), j.rd, rx, c.a)
    <2>1. /\ Window(s, a, 2) /\ (j.rd = c.rd \/ DeadAt(s, a + 2, c.rd))
          /\ rv_decode_not(c) /\ decode_logic(j) /\ Once(j, c.rd)
          /\ f \in Fold("not_logic_fold", a, 2, Alone(i))
        BY <1>4 DEF When, Pair, Alone
    <2>2. c \in Insns /\ j \in Insns
        BY <2>1, TwoInsns
    <2>3. OneForTwo(c, j, i)
        BY <2>1, <2>2, NotFirstFolds
    <2>4. Plainly(c) /\ Plainly(j) /\ Plainly(i) /\ i.rd = j.rd /\ c.rd # 0 /\ j.rd # 0
        <3>1. c.op = "xor" /\ j.op \in {"and", "or", "xor"} /\ c.rd # 0 /\ j.rd # 0
            BY <2>1 DEF rv_decode_not, Immediate, decode_logic
        <3>2. i.op = zbb_logic_name(j.op) /\ i.rd = j.rd
            BY DEF R, Insn
        <3>3. i.op \in {"andn", "orn", "xnor"}
            BY <3>1, <3>2, LogicNames
        <3> HIDE DEF i, j, c
        <3> QED
            BY <3>1, <3>2, <3>3, PlainOps
    <2> HIDE DEF i
    <2>5. TwoAsOne(s, a, i, f)
        BY <2>1, <2>3, <2>4 DEF TwoAsOne
    <2> QED
        BY <2>5
<1>5. CASE Q /\ f \in B
    <2> DEFINE i == R(zbb_logic_name("xor"), j.rd, c.a, c.b)
    <2>1. /\ Window(s, a, 2) /\ (j.rd = c.rd \/ DeadAt(s, a + 2, c.rd))
          /\ rv_decode_not(j) /\ decode_logic(c) /\ c.op = "xor" /\ j.a = c.rd
          /\ f \in Fold("not_logic_fold", a, 2, Alone(i))
        BY <1>5 DEF When, Pair, Alone
    <2>2. c \in Insns /\ j \in Insns
        BY <2>1, TwoInsns
    <2>3. OneForTwo(c, j, i)
        BY <2>1, <2>2, NotLastFolds
    <2>4. Plainly(c) /\ Plainly(j) /\ Plainly(i) /\ i.rd = j.rd /\ c.rd # 0 /\ j.rd # 0
        <3>1. c.op = "xor" /\ j.op = "xor" /\ c.rd # 0 /\ j.rd # 0
            BY <2>1 DEF rv_decode_not, Immediate, decode_logic
        <3>2. i.op = zbb_logic_name("xor") /\ i.rd = j.rd
            BY DEF R, Insn
        <3>3. i.op = "xnor"
            BY <3>2, LogicNames
        <3> HIDE DEF i, j, c
        <3> QED
            BY <3>1, <3>2, <3>3, PlainOps
    <2> HIDE DEF i
    <2>5. TwoAsOne(s, a, i, f)
        BY <2>1, <2>3, <2>4 DEF TwoAsOne
    <2> QED
        BY <2>5
<1> QED
    BY <1>3, <1>4, <1>5

\* An instruction that only computes writes one register.
LEMMA PureRuns ==
    ASSUME NEW h, NEW i, Machine(Words, h), Pure(i)
    PROVE  \E v : Ran(h, i) = SetX(Skip(h), i.rd, v)
<1>1. CASE i.op = "auipc"
    <2>1. Ran(h, i) = SetX(Skip(h), i.rd, Skip(h).pc - 1 + i.k)
        BY <1>1 DEF Ran, Exec, Branches, Atomics
    <2> QED
        BY <2>1
<1>2. CASE i.op # "auipc"
    <2>1. Ran(h, i) = SetX(Skip(h), i.rd, Value(i.op, i.n, i.k, Skip(h).x[i.a], Operand(i, Skip(h))))
        BY <1>2 DEF Ran, Exec, Pure, Transfers, Branches, Accesses, Atomics
    <2> QED
        BY <2>1
<1> QED
    BY <1>1, <1>2

LEMMA SetXIs ==
    ASSUME NEW h, NEW r \in Regs, NEW v, Machine(Words, h)
    PROVE  LET z == SetX(Skip(h), r, v)
           IN  /\ z.pc = h.pc + 1 /\ z.m = h.m
               /\ \A q \in Regs : q # r \/ r = 0 => z.x[q] = h.x[q]
<1>1. Skip(h) = [x |-> h.x, m |-> h.m, pc |-> h.pc + 1, res |-> h.res]
    BY SkipForm
<1>2. SetX(Skip(h), r, v) = IF r = 0 THEN Skip(h)
                            ELSE [x |-> [h.x EXCEPT ![r] = v], m |-> h.m, pc |-> h.pc + 1, res |-> h.res]
    BY <1>1 DEF SetX
<1>3. h.x \in [Regs -> Words]
    BY DEF Machine
<1> QED
    BY <1>1, <1>2, <1>3

\* What stands in a window of one is an instruction.
LEMMA OneInsn ==
    ASSUME NEW s, NEW a \in Nat \ {0}, IsSection(s), Window(s, a, 1)
    PROVE  s.code[a] \in Insns /\ s.code[a].rd \in Regs
<1>1. a \in a .. a + 1 - 1 /\ 1 \in Nat \ {0}
    OBVIOUS
<1>2. a \in DOMAIN s.code
    BY <1>1, WindowEntry
<1>3. s.code[a] \in Insns
    BY <1>2 DEF IsSection
<1> QED
    BY <1>3 DEF Insns

\* check_dead_def.
LEMMA DeadDefHolds ==
    ASSUME NEW s, NEW a \in Nat \ {0}, NEW f, NEW x \in [Regs -> Words], NEW m,
           NEW fuel \in Nat, IsSection(s), f \in check_dead_def(s, a), x[0] = 0, 1 <= fuel
    PROVE  Holds(s, f, x, m, fuel)
<1> DEFINE i == s.code[a]
<1>1. /\ Window(s, a, 1) /\ Pure(i) /\ DeadAt(s, a + 1, i.rd)
      /\ f \in Fold("dead_def", a, 1, Gone)
    BY DEF check_dead_def, When, rv_pure_def, Gone
<1>2. i.rd \in Regs
    BY <1>1, OneInsn
<1>3. i = s.code[a]
    OBVIOUS
<1> HIDE DEF i
<1>4. ForNobody(s, a, i)
    <2> SUFFICES ASSUME NEW h, Machine(Words, h), h.pc = a
                 PROVE  /\ Ran(h, i).pc = a + 1 /\ Ran(h, i).m = h.m
                        /\ \A q \in Regs : Ran(h, i).x[q] = h.x[q] \/ DeadAt(s, a + 1, q)
        BY DEF ForNobody
    <2>1. PICK v : Ran(h, i) = SetX(Skip(h), i.rd, v)
        BY <1>1, PureRuns
    <2> DEFINE r == i.rd
               z == SetX(Skip(h), r, v)
    <2>2. r \in Regs
        BY <1>2
    <2> HIDE DEF r
    <2>3. z.pc = h.pc + 1 /\ z.m = h.m /\ \A q \in Regs : q # r \/ r = 0 => z.x[q] = h.x[q]
        BY <2>2, SetXIs
    <2> HIDE DEF z
    <2>4. Ran(h, i) = z /\ r = i.rd
        BY <2>1 DEF z, r
    <2> QED
        BY <1>1, <2>3, <2>4
<1> QED
    BY <1>1, <1>3, <1>4, DeletedHolds

\* check_no_effect.
LEMMA NoEffectHolds ==
    ASSUME NEW s, NEW a \in Nat \ {0}, NEW f, NEW x \in [Regs -> Words], NEW m,
           NEW fuel \in Nat, IsSection(s), f \in check_no_effect(s, a), x[0] = 0, 1 <= fuel
    PROVE  Holds(s, f, x, m, fuel)
<1> DEFINE i == s.code[a]
<1>1. /\ Window(s, a, 1) /\ (WritesX0(i) \/ (i.rd # 0 /\ Itself(i)))
      /\ f \in Fold("no_effect", a, 1, Gone)
    BY DEF check_no_effect, When, rv_decode_no_effect, Gone
<1>2. i.rd \in Regs /\ i \in Insns
    BY <1>1, OneInsn
<1>3. i = s.code[a]
    OBVIOUS
<1> HIDE DEF i
<1>4. ASSUME NEW h, Machine(Words, h), h.pc = a
      PROVE  /\ Ran(h, i).pc = a + 1 /\ Ran(h, i).m = h.m
             /\ \A q \in Regs : Ran(h, i).x[q] = h.x[q]
    <2>1. CASE WritesX0(i)
        <3>1. Pure(i) /\ i.rd = 0
            BY <2>1 DEF WritesX0
        <3>2. PICK v : Ran(h, i) = SetX(Skip(h), i.rd, v)
            BY <1>4, <3>1, PureRuns
        <3>3. 0 \in Regs
            BY HartAssumption
        <3> DEFINE z == SetX(Skip(h), 0, v)
        <3>4. z.pc = h.pc + 1 /\ z.m = h.m /\ \A q \in Regs : z.x[q] = h.x[q]
            BY <1>4, <3>3, SetXIs
        <3> HIDE DEF z
        <3>5. Ran(h, i) = z
            BY <3>1, <3>2 DEF z
        <3> QED
            BY <1>4, <3>4, <3>5
    <2>2. CASE i.rd # 0 /\ Itself(i)
        <3> DEFINE r == i.rd
                   y == h.x
        <3>1. y \in [Regs -> Words] /\ y[0] = 0 /\ r \in Regs \ {0}
            BY <1>2, <1>4, <2>2 DEF Machine
        <3>2. Worth(i, y) = y[i.rd]
            BY <1>2, <2>2, <3>1, ItselfWorth
        <3>3. Plainly(i)
            <4>1. i.op \in {"add", "sub", "and", "or", "xor", "sll", "srl", "sra"}
                BY <2>2 DEF Itself
            <4> QED
                BY <4>1, PlainOps
        <3>4. y[r] \in Words
            BY <3>1
        <3>5. Written(Words, h, r, y[r], Ran(h, i))
            <4> DEFINE v == y[r]
            <4>1. v \in Words /\ Worth(i, h.x) = v /\ i.rd \in Regs \ {0}
                BY <3>1, <3>2, <3>4
            <4> HIDE DEF v
            <4>2. Written(Words, h, i.rd, v, Ran(h, i))
                BY <1>4, <3>3, <4>1, RanWorth
            <4> QED
                BY <4>2 DEF v
        <3> QED
            BY <1>4, <3>5 DEF Written
    <2> QED
        BY <1>1, <2>1, <2>2
<1>5. ForNobody(s, a, i)
    BY <1>4 DEF ForNobody
<1> QED
    BY <1>1, <1>3, <1>5, DeletedHolds

\* Whatever a check of values reports holds.
LEMMA ValueHolds ==
    ASSUME NEW s, NEW a \in Nat \ {0}, NEW f, NEW x \in [Regs -> Words], NEW m, NEW fuel \in Nat,
           IsSection(s), f \in ValueFindings(s, a), x[0] = 0, 3 <= fuel
    PROVE  Holds(s, f, x, m, fuel)
<1>1. CASE f \in check_dead_def(s, a)
    BY <1>1, DeadDefHolds
<1>2. CASE f \in check_no_effect(s, a)
    BY <1>2, NoEffectHolds
<1>3. CASE \E i : TwoAsOne(s, a, i, f)
    BY <1>3, FoldedHolds
<1>4. CASE f \in check_slli_add_to_shadd(s, a)
    BY <1>3, <1>4, ShaddFolded
<1>5. CASE f \in check_slli_srli_to_zext(s, a) \cup check_slli_srli_to_zexth(s, a)
    BY <1>3, <1>5, ZextFolded
<1>6. CASE f \in check_slli_srai_to_sext(s, a)
    BY <1>3, <1>6, SextFolded
<1>7. CASE f \in check_slli_srli_to_andi(s, a)
    BY <1>3, <1>7, AndiFolded
<1>8. CASE f \in check_const_mul_to_shadd(s, a)
    BY <1>3, <1>8, MulFolded
<1>9. CASE f \in check_udiv_pow2(s, a)
    BY <1>3, <1>9, UdivFolded
<1>10. CASE f \in check_not_logic_fold(s, a)
    BY <1>3, <1>10, NotFolded
<1> QED
    BY <1>1, <1>2, <1>4, <1>5, <1>6, <1>7, <1>8, <1>9, <1>10 DEF ValueFindings

\* A finding with the name of a value check comes from one.
LEMMA ValueFound ==
    ASSUME NEW s, NEW a \in Int, NEW folded, NEW f \in Findings(s, a, folded),
           f.rule \in ValueRulesNames
    PROVE  f \in ValueFindings(s, a)
<1>1. f \notin BranchFindings(s, a)
    BY BranchesOther DEF ValueRulesNames, BranchRulesNames
<1>2. f \notin ConstFindings(s, a)
    BY ConstsOther DEF ConstRulesNames, ValueRulesNames
<1>3. f \notin MemoryFindings(s, a, folded)
    BY MemoryNames DEF MemoryRulesNames, ValueRulesNames
<1>4. f \notin JumpFindings(s, a)
    BY JumpsOther DEF JumpRulesNames, ThreadRulesNames, TailRulesNames, ValueRulesNames
<1> QED
    BY <1>1, <1>2, <1>3, <1>4 DEF Findings

\* The theorem of values.
ValueInv == SectionInv /\ ValuesAgree

\* The invariant of the checks of values is inductive.
LEMMA ValueInductive ==
    /\ Init => ValueInv
    /\ ValueInv /\ [Next]_vars => ValueInv'
<1>1. Init => ValueInv
    BY SectionInductive DEF Init, ValueInv, ValuesAgree, Sound
<1>2. ASSUME ValueInv, Scan
      PROVE  ValuesAgree'
    <2>1. sec' = sec /\ found' = Findings(sec, at, zilx_folded)
        BY <1>2 DEF Scan
    <2>2. ASSUME NEW f \in found', f.rule \in ValueRulesNames, NEW c \in Contents
          PROVE  Holds(sec, f, c.x, c.m, Steps)
        <3>1. f \in ValueFindings(sec, at)
            BY <1>2, <2>1, <2>2, ValueFound DEF ValueInv, SectionInv
        <3>2. c.x \in [Regs -> Words] /\ c.x[0] = 0 /\ Steps \in Nat /\ 3 <= Steps
            BY MachinesAssumption
        <3>3. IsSection(sec) /\ at \in Nat \ {0}
            BY <1>2 DEF ValueInv, SectionInv
        <3> QED
            BY <3>1, <3>2, <3>3, ValueHolds
    <2> QED
        BY <2>1, <2>2 DEF ValuesAgree, Sound
<1>3. ASSUME ValueInv, NextSection
      PROVE  ValuesAgree'
    BY <1>3 DEF NextSection, ValuesAgree, Sound
<1>4. ASSUME ValueInv, UNCHANGED vars
      PROVE  ValuesAgree'
    BY <1>4 DEF vars, ValueInv, ValuesAgree, Sound
<1> QED
    BY <1>1, <1>2, <1>3, <1>4, SectionInductive DEF Next, ValueInv

\* Whatever the section, the word and the contents of the registers: what is reported to
\* compute in one instruction what two computed does, on every word, and what is
\* reported to compute for nobody is missed by nobody (check_slli_add_to_shadd to
\* check_no_effect).
THEOREM ValuesAreSound == Spec => []ValuesAgree
<1>1. ValueInv => ValuesAgree
    BY DEF ValueInv
<1> QED
    BY ValueInductive, <1>1, PTL DEF Spec

-------------------------------------------------------------------------------
(* Accesses.                                                               *)

\* Writing a register and going on, whatever registers hold.
LEMMA PutRuns ==
    ASSUME NEW V, NEW h, NEW r \in Regs, NEW v, NEW z, Machine(V, h), z = SetX(Skip(h), r, v)
    PROVE  /\ z.pc = h.pc + 1 /\ z.m = h.m
           /\ r # 0 => z.x[r] = v
           /\ \A q \in Regs : q # r \/ r = 0 => z.x[q] = h.x[q]
<1>1. Skip(h) = [x |-> h.x, m |-> h.m, pc |-> h.pc + 1, res |-> h.res]
    BY SkipForm
<1>2. z = IF r = 0 THEN [x |-> h.x, m |-> h.m, pc |-> h.pc + 1, res |-> h.res]
                   ELSE [x |-> [h.x EXCEPT ![r] = v], m |-> h.m, pc |-> h.pc + 1, res |-> h.res]
    BY <1>1 DEF SetX
<1>3. h.x \in [Regs -> V] /\ h.x[0] = 0
    BY DEF Machine
<1>4. CASE r = 0
    BY <1>2, <1>3, <1>4
<1>5. CASE r # 0
    <2>1. z.x = [h.x EXCEPT ![r] = v] /\ z.pc = h.pc + 1 /\ z.m = h.m
        BY <1>2, <1>5
    <2>2. z.x[r] = v /\ \A q \in Regs : q # r => z.x[q] = h.x[q]
        BY <1>3, <2>1
    <2> QED
        BY <1>5, <2>1, <2>2
<1> QED
    BY <1>4, <1>5

\* Two that write the same to one register agree where they are alike beside it.
LEMMA PutAgrees ==
    ASSUME NEW s, NEW V, NEW g, NEW h, NEW r \in Regs, NEW v, Machine(V, g), Machine(V, h),
           g.pc = h.pc, g.m = h.m,
           \A q \in Regs : q = r \/ g.x[q] = h.x[q] \/ DeadAt(s, g.pc + 1, q)
    PROVE  /\ SetX(Skip(g), r, v).pc = g.pc + 1
           /\ Agree(s, SetX(Skip(g), r, v), SetX(Skip(h), r, v))
<1> DEFINE y == SetX(Skip(g), r, v)
           z == SetX(Skip(h), r, v)
<1>1. /\ y.pc = g.pc + 1 /\ y.m = g.m /\ (r # 0 => y.x[r] = v)
      /\ \A q \in Regs : q # r \/ r = 0 => y.x[q] = g.x[q]
    BY PutRuns
<1>2. /\ z.pc = h.pc + 1 /\ z.m = h.m /\ (r # 0 => z.x[r] = v)
      /\ \A q \in Regs : q # r \/ r = 0 => z.x[q] = h.x[q]
    BY PutRuns
<1> HIDE DEF y, z
<1>3. g.x[0] = h.x[0]
    BY DEF Machine
<1>4. \A q \in Regs : y.x[q] = z.x[q] \/ DeadAt(s, y.pc, q)
    BY <1>1, <1>2, <1>3
<1>5. y.pc = g.pc + 1 /\ Agree(s, y, z)
    BY <1>1, <1>2, <1>4 DEF Agree
<1> QED
    BY <1>5 DEF y, z

\* What a load does: it writes what it makes of the cell it is at.
LEMMA LoadRuns ==
    ASSUME NEW V, NEW h, NEW i, Machine(V, h), i.op \in {"load", "lxs"}
    PROVE  Ran(h, i) = SetX(Skip(h), i.rd, Loaded(i, h.m[Cell(AccessAt(i, h.x))]))
<1>1. Skip(h).x = h.x /\ Skip(h).m = h.m
    BY SkipMachine
<1>2. CASE i.op = "load"
    <2>1. Exec(Skip(h), i) = SetX(Skip(h), i.rd, Loaded(i, Skip(h).m[Cell(Skip(h).x[i.a] + i.k)]))
        BY <1>2 DEF Exec, Branches, Atomics
    <2> QED
        BY <1>1, <1>2, <2>1 DEF Ran, AccessAt
<1>3. CASE i.op = "lxs"
    <2>1. Exec(Skip(h), i) =
            SetX(Skip(h), i.rd, Loaded(i, Skip(h).m[Cell(Skip(h).x[i.a] + Index(i, Skip(h)))]))
        BY <1>3 DEF Exec, Branches, Atomics
    <2> QED
        BY <1>1, <1>3, <2>1 DEF Ran, AccessAt, Index
<1> QED
    BY <1>2, <1>3

\* A line that ends in a load becomes a load of the same from the same place.
LEMMA LoadLine ==
    ASSUME NEW s, NEW V, NEW a \in Nat, NEW n \in Nat \ {0}, NEW X, NEW i, NEW j, NEW m,
           j = s.code[a + (n - 1)], j.op = "load", i.op \in {"load", "lxs"},
           j.rd \in Regs, i.rd = j.rd, i.n = j.n,
           Cell(AccessAt(j, X[n - 1])) = Cell(AccessAt(i, X[0])),
           \A q \in Regs : q = j.rd \/ X[n - 1][q] = X[0][q] \/ DeadAt(s, a + n, q)
    PROVE  LastAgrees(s, V, a, n, X, i, m)
<1> SUFFICES ASSUME NEW g, NEW h, Machine(V, g), g.x = X[n - 1], g.pc = a + (n - 1), g.m = m,
                    Machine(V, h), h.x = X[0], h.pc = a + (n - 1), h.m = m
             PROVE  /\ Ran(g, s.code[a + (n - 1)]).pc = a + n
                    /\ Agree(s, Ran(g, s.code[a + (n - 1)]), Ran(h, i))
    BY DEF LastAgrees
<1> DEFINE v == Loaded(j, g.m[Cell(AccessAt(j, g.x))])
<1>1. Ran(g, j) = SetX(Skip(g), j.rd, v)
    BY LoadRuns
<1>2. Ran(h, i) = SetX(Skip(h), i.rd, Loaded(i, h.m[Cell(AccessAt(i, h.x))]))
    BY LoadRuns
<1>3. Loaded(i, h.m[Cell(AccessAt(i, h.x))]) = v
    <2> DEFINE c == Cell(AccessAt(i, h.x))
    <2>1. Cell(AccessAt(j, g.x)) = c
        OBVIOUS
    <2> HIDE DEF c
    <2>2. \A w : Loaded(i, w) = Loaded(j, w)
        BY DEF Loaded
    <2> QED
        BY <2>1, <2>2 DEF c
<1> HIDE DEF v
<1>4. Ran(h, i) = SetX(Skip(h), j.rd, v)
    BY <1>2, <1>3
<1>5. g.pc + 1 = a + n /\ g.pc = h.pc /\ g.m = h.m
    OBVIOUS
<1>6. \A q \in Regs : q = j.rd \/ g.x[q] = h.x[q] \/ DeadAt(s, g.pc + 1, q)
    BY <1>5
<1>7. SetX(Skip(g), j.rd, v).pc = g.pc + 1 /\ Agree(s, SetX(Skip(g), j.rd, v), SetX(Skip(h), j.rd, v))
    BY <1>5, <1>6, PutAgrees
<1> QED
    BY <1>1, <1>4, <1>5, <1>7

\* An address is the same cell whether what it was added to was cut to a word before.
LEMMA CellSext ==
    ASSUME NEW u \in Int, NEW v \in Int
    PROVE  Cell(Sext(XLEN, u) + v) = Cell(u + v)
<1> DEFINE p == 2^ADDR
           q == 2^(XLEN - ADDR)
<1>1. PICK t \in Int : Sext(XLEN, u) = u + t * (2 * Half)
    BY SextIs
<1>2. /\ ADDR \in Nat /\ XLEN - ADDR \in Nat /\ ADDR + (XLEN - ADDR) = XLEN
      /\ ADDR \in 0 .. XLEN /\ XLEN - ADDR \in 0 .. XLEN
    BY HartAssumption
<1>3. 2^XLEN = p * q /\ p \in Nat \ {0} /\ q \in Nat \ {0}
    BY <1>2, PowerSum, PowerIs
<1>4. 2^XLEN = 2 * Half
    BY HalfLemma
<1> DEFINE w == u + v
           tq == t * q
<1> HIDE DEF p, q
<1>5. t * (2 * Half) = tq * p /\ tq \in Int
    <2>1. t * (p * q) = (t * q) * p
        BY <1>3
    <2> QED
        BY <1>3, <1>4, <2>1
<1> HIDE DEF tq
<1>6. Sext(XLEN, u) + v = w + tq * p /\ w \in Int
    <2>1. tq * p \in Int
        BY <1>3, <1>5
    <2> QED
        BY <1>1, <1>5, <2>1
<1> HIDE DEF w
<1>7. (w + tq * p) % p = w % p
    BY <1>3, <1>5, <1>6, ModPast
<1> QED
    BY <1>6, <1>7 DEF Cell, Low, p, w

\* What a store does: it lays a register in the cell it is at.
LEMMA StoreRuns ==
    ASSUME NEW V, NEW h, NEW i, Machine(V, h), i.op = "store"
    PROVE  /\ Ran(h, i).pc = h.pc + 1 /\ Ran(h, i).x = h.x
           /\ Ran(h, i).m = [h.m EXCEPT ![Cell(AccessAt(i, h.x))] = h.x[i.b]]
<1>1. Skip(h) = [x |-> h.x, m |-> h.m, pc |-> h.pc + 1, res |-> h.res]
    BY SkipForm
<1>2. Exec(Skip(h), i) = [Skip(h) EXCEPT !.m[Cell(Skip(h).x[i.a] + i.k)] = Skip(h).x[i.b]]
    BY DEF Exec, Branches, Atomics
<1> DEFINE c == Cell(AccessAt(i, h.x))
<1>3. Ran(h, i) = [Skip(h) EXCEPT !.m[c] = h.x[i.b]]
    BY <1>1, <1>2 DEF Ran, AccessAt
<1> HIDE DEF c
<1> QED
    BY <1>1, <1>3 DEF c

\* A line that ends in a store becomes a store of the same at the same place.
LEMMA StoreLine ==
    ASSUME NEW s, NEW V, NEW a \in Nat, NEW n \in Nat \ {0}, NEW X, NEW i, NEW j, NEW m,
           j = s.code[a + (n - 1)], j.op = "store", i.op = "store",
           Cell(AccessAt(j, X[n - 1])) = Cell(AccessAt(i, X[0])),
           X[n - 1][j.b] = X[0][i.b],
           \A q \in Regs : X[n - 1][q] = X[0][q] \/ DeadAt(s, a + n, q)
    PROVE  LastAgrees(s, V, a, n, X, i, m)
<1> SUFFICES ASSUME NEW g, NEW h, Machine(V, g), g.x = X[n - 1], g.pc = a + (n - 1), g.m = m,
                    Machine(V, h), h.x = X[0], h.pc = a + (n - 1), h.m = m
             PROVE  /\ Ran(g, s.code[a + (n - 1)]).pc = a + n
                    /\ Agree(s, Ran(g, s.code[a + (n - 1)]), Ran(h, i))
    BY DEF LastAgrees
<1>1. /\ Ran(g, j).pc = g.pc + 1 /\ Ran(g, j).x = g.x
      /\ Ran(g, j).m = [g.m EXCEPT ![Cell(AccessAt(j, g.x))] = g.x[j.b]]
    BY StoreRuns, SMTT(30)
<1>2. /\ Ran(h, i).pc = h.pc + 1 /\ Ran(h, i).x = h.x
      /\ Ran(h, i).m = [h.m EXCEPT ![Cell(AccessAt(i, h.x))] = h.x[i.b]]
    BY StoreRuns
<1>3. Ran(g, j).m = Ran(h, i).m /\ Ran(g, j).pc = a + n /\ Ran(h, i).pc = a + n
    BY <1>1, <1>2
<1>4. \A q \in Regs : Ran(g, j).x[q] = Ran(h, i).x[q] \/ DeadAt(s, a + n, q)
    BY <1>1, <1>2
<1> QED
    BY <1>3, <1>4 DEF Agree

\* The instructions of a window.
LEMMA WindowInsns ==
    ASSUME NEW s, NEW a \in Nat \ {0}, NEW n \in Nat \ {0}, IsSection(s), Window(s, a, n),
           NEW k \in 0 .. n - 1
    PROVE  s.code[a + k] \in Insns
<1>1. a + k \in a .. a + n - 1
    OBVIOUS
<1>2. a + k \in DOMAIN s.code
    BY <1>1, WindowEntry
<1> QED
    BY <1>2 DEF IsSection

\* A line of two: the registers in between.
TwoStates(x, y) == [k \in 0 .. 1 |-> IF k = 0 THEN x ELSE y]

\* A line of two whose first computes.
LEMMA OnwardTwo ==
    ASSUME NEW s, NEW a \in Nat, NEW x, NEW y, Computes(s.code[a], x, y)
    PROVE  Onward(s, Words, a, 2, TwoStates(x, y))
<1> DEFINE X == TwoStates(x, y)
<1>1. X[0] = x /\ X[1] = y
    BY DEF TwoStates
<1> HIDE DEF X
<1>2. ASSUME NEW k \in 1 .. 2 - 1
      PROVE  Computes(s.code[a + (k - 1)], X[k - 1], X[k])
    <2>1. k = 1 /\ a + (k - 1) = a /\ k - 1 = 0
        OBVIOUS
    <2> QED
        BY <1>1, <2>1
<1>3. 2 \in Nat \ {0}
    OBVIOUS
<1>4. Onward(s, Words, a, 2, X)
    BY <1>2, <1>3, PlainOnward
<1> QED
    BY <1>4 DEF X

\* A line of words.
LEMMA LineHolds ==
    ASSUME NEW s, IsSection(s), NEW a \in Nat \ {0}, NEW n \in Nat \ {0}, Window(s, a, n),
           NEW rule, NEW i, NEW f, f \in Fold(rule, a, n, Alone(i)), NEW X,
           NEW x \in [Regs -> Words], NEW m, NEW fuel \in Nat, x[0] = 0, X[0] = x,
           Onward(s, Words, a, n, X), LastAgrees(s, Words, a, n, X, i, Start(s, x, m, a).m)
    PROVE  Holds(s, f, x, m, fuel)
<1>1. a \in Int
    OBVIOUS
<1>2. Machine(Words, Start(s, x, m, a))
    BY <1>1, StartMachine
<1> QED
    BY <1>2, StraightHolds

\* check_base_add_to_offset.
LEMMA BaseAddHolds ==
    ASSUME NEW s, NEW a \in Nat \ {0}, NEW f, NEW x \in [Regs -> Words], NEW m,
           NEW fuel \in Nat, IsSection(s), f \in check_base_add_to_offset(s, a), x[0] = 0
    PROVE  Holds(s, f, x, m, fuel)
<1> DEFINE i == s.code[a]
           j == s.code[a + 1]
           l == [j EXCEPT !.a = i.a, !.k = i.k + j.k]
           v == Worth(i, x)
           y == Put(x, i.rd, v)
           X == TwoStates(x, y)
<1>1. /\ Window(s, a, 2) /\ rv_decode_addi(i) /\ i.rd # 0
      /\ j.op \in {"load", "store"} /\ j.a = i.rd
      /\ ~(j.op = "store" /\ j.b = i.rd)
      /\ Killed(j, i.rd) \/ DeadAt(s, a + 2, i.rd)
      /\ f \in Fold("base_add_to_offset", a, 2, Alone(l))
    BY DEF check_base_add_to_offset, When, rv_decode_base_add, rv_decode_mem, rv_mem_is_store,
           Accesses, Alone
<1>2. i \in Insns /\ j \in Insns
    BY <1>1, TwoInsns
<1>3. v = Sext(XLEN, x[i.a] + i.k) /\ v \in Words /\ x[i.a] \in Int /\ i.k \in Int
    <2>1. x[i.a] \in Words /\ i.k \in Int
        BY <1>2, InsnIs
    <2>2. v = Sext(XLEN, x[i.a] + i.k) /\ v \in Words
        BY <1>1, <1>2, AddiWorth
    <2>3. \A w \in Words : w \in Int
        BY HalfLemma
    <2> QED
        BY <2>1, <2>2, <2>3
<1>4. i.rd \in Regs /\ i.a \in Regs /\ j.rd \in Regs /\ j.k \in Int /\ (j.op = "store" => j.b \in Regs)
    BY <1>2, InsnIs
<1>5. l.op = j.op /\ l.rd = j.rd /\ l.n = j.n /\ l.a = i.a /\ l.b = j.b /\ l.k = i.k + j.k
    BY <1>2, InsnIs
<1>6. y[i.rd] = v /\ \A q \in Regs : q # i.rd => y[q] = x[q]
    <2> HIDE DEF v
    <2> QED
        BY <1>4, PutIs
<1>7. Plainly(i)
    BY <1>1, PlainOps DEF rv_decode_addi, Immediate
<1>8. X[0] = x /\ X[2 - 1] = y /\ 2 \in Nat \ {0} /\ a \in Nat /\ a + (2 - 1) = a + 1
    BY DEF TwoStates
<1>9. Computes(i, x, y)
    BY <1>1, <1>3, <1>4, <1>7 DEF Computes
<1> HIDE DEF l, v, y
<1>10. Onward(s, Words, a, 2, X)
    BY <1>8, <1>9, OnwardTwo
<1>11. Cell(AccessAt(j, y)) = Cell(AccessAt(l, x))
    <2>1. AccessAt(j, y) = Sext(XLEN, x[i.a] + i.k) + j.k
        BY <1>1, <1>3, <1>6 DEF AccessAt
    <2>2. AccessAt(l, x) = (x[i.a] + i.k) + j.k
        BY <1>1, <1>3, <1>4, <1>5 DEF AccessAt
    <2> DEFINE u == x[i.a] + i.k
    <2>3. u \in Int
        BY <1>3
    <2> HIDE DEF u
    <2> QED
        BY <1>4, <2>1, <2>2, <2>3, CellSext DEF u
<1>12. \A q \in Regs : (q = j.rd /\ j.op = "load") \/ X[2 - 1][q] = X[0][q] \/ DeadAt(s, a + 2, q)
    BY <1>1, <1>6, <1>8 DEF Killed, Loads
<1> DEFINE mm == Start(s, x, m, a).m
<1> HIDE DEF X, i, mm
<1>13. j = s.code[a + (2 - 1)]
    BY <1>8
<1>14. Cell(AccessAt(j, X[2 - 1])) = Cell(AccessAt(l, X[0]))
    BY <1>8, <1>11
<1>15. CASE j.op = "load"
    <2>1. \A q \in Regs : q = j.rd \/ X[2 - 1][q] = X[0][q] \/ DeadAt(s, a + 2, q)
        BY <1>12
    <2>2. l.op \in {"load", "lxs"} /\ l.rd = j.rd /\ l.n = j.n /\ j.rd \in Regs
        BY <1>4, <1>5, <1>15
    <2> HIDE DEF j
    <2>3. LastAgrees(s, Words, a, 2, X, l, mm)
        BY <1>8, <1>13, <1>14, <1>15, <2>1, <2>2, LoadLine
    <2> QED
        BY <1>1, <1>8, <1>10, <2>3, LineHolds DEF mm
<1>16. CASE j.op = "store"
    <2>1. \A q \in Regs : X[2 - 1][q] = X[0][q] \/ DeadAt(s, a + 2, q)
        BY <1>12, <1>16
    <2>2. X[2 - 1][j.b] = X[0][l.b] /\ l.op = "store"
        BY <1>1, <1>4, <1>5, <1>6, <1>8, <1>16
    <2> HIDE DEF j
    <2>3. LastAgrees(s, Words, a, 2, X, l, mm)
        BY <1>8, <1>13, <1>14, <1>16, <2>1, <2>2, StoreLine
    <2> QED
        BY <1>1, <1>8, <1>10, <2>3, LineHolds DEF mm
<1> QED
    BY <1>1, <1>15, <1>16

\* Where a load goes whose base is what an add has computed.
LEMMA AddLoads ==
    ASSUME NEW y \in [Regs -> Words], NEW add \in Insns, NEW j, NEW z, Adds(add),
           j.op = "load", j.a = add.rd, j.k = 0, z = Put(y, add.rd, Worth(add, y))
    PROVE  /\ Computes(add, y, z)
           /\ Cell(AccessAt(j, z)) = Cell(y[add.a] + y[add.b])
           /\ y[add.a] \in Int /\ y[add.b] \in Int
           /\ \A q \in Regs : q # add.rd => z[q] = y[q]
<1> DEFINE v == Worth(add, y)
           u == y[add.a] + y[add.b]
<1>1. add.op = "add" /\ add.b # Imm /\ add.n = XLEN /\ add.rd # 0
    BY DEF Adds, rv_decode_add
<1>2. add.rd \in Regs /\ add.a \in Regs /\ add.b \in Regs
    BY <1>1, InsnIs
<1>3. v = Sext(XLEN, u)
    BY <1>1, WorthOfRegs, PlainValues
<1>4. y[add.a] \in Int /\ y[add.b] \in Int
    <2>1. \A w \in Words : w \in Int
        BY HalfLemma
    <2> QED
        BY <1>2, <2>1
<1>5. u \in Int
    BY <1>4
<1>6. Plainly(add)
    BY <1>1, PlainOps
<1> HIDE DEF u
<1>7. v \in Words
    BY <1>3, <1>5, SextWord
<1>8. Computes(add, y, z)
    BY <1>1, <1>2, <1>6, <1>7 DEF Computes
<1> HIDE DEF v
<1>9. z[add.rd] = v /\ \A q \in Regs : q # add.rd => z[q] = y[q]
    BY <1>2, PutIs DEF v
<1>10. Cell(AccessAt(j, z)) = Cell(Sext(XLEN, u) + 0)
    BY <1>3, <1>9 DEF AccessAt
<1>11. Cell(Sext(XLEN, u) + 0) = Cell(u + 0) /\ u + 0 = u
    BY <1>5, CellSext
<1> QED
    BY <1>4, <1>8, <1>9, <1>10, <1>11 DEF u

\* One of the two that are added has been cut to a word.
LEMMA AddsTo ==
    ASSUME NEW y \in [Regs -> Words], NEW add \in Insns, NEW r \in Regs, Adds(add), Once(add, r),
           NEW u \in Int, y[r] = Sext(XLEN, u), NEW b, b = Beside(add, r)
    PROVE  /\ Cell(y[add.a] + y[add.b]) = Cell(u + y[b])
           /\ b \in Regs \ {r} /\ b \in {add.a, add.b}
<1>1. add.b # Imm
    BY DEF Adds, rv_decode_add
<1>2. b \in Regs \ {r} /\ ((add.a = r /\ add.b = b) \/ (add.b = r /\ add.a = b))
    BY <1>1, BesideIs
<1>3. y[b] \in Int /\ y[r] \in Int
    <2>1. \A w \in Words : w \in Int
        BY HalfLemma
    <2> QED
        BY <1>2, <2>1
<1>4. y[add.a] + y[add.b] = y[r] + y[b]
    BY <1>2, <1>3
<1>5. Cell(Sext(XLEN, u) + y[b]) = Cell(u + y[b])
    BY <1>3, CellSext
<1> QED
    BY <1>2, <1>4, <1>5

\* What the load with an index accesses.
Offset(zero, v) == IF zero THEN Low(WORD, v) ELSE v
IsLxs(i, j, base, index, scale, zero) ==
    /\ Lxs(j, base, index, scale, zero) = Alone(i)
    /\ i.op = "lxs" /\ i.rd = j.rd /\ i.n = j.n
    /\ \A x : AccessAt(i, x) = x[base] + Offset(zero, x[index]) * 2^scale

\* The indexed load of a rewrite, by its fields.
LEMMA LxsIs ==
    ASSUME NEW j, NEW base, NEW index, NEW scale, NEW zero \in BOOLEAN
    PROVE  \E i : IsLxs(i, j, base, index, scale, zero)
<1> DEFINE i == Insn("lxs", j.n, j.rd, base, index, scale, IF zero THEN 1 ELSE 0)
<1>1. Lxs(j, base, index, scale, zero) = Alone(i)
    BY DEF Lxs, Alone
<1>2. /\ i.op = "lxs" /\ i.n = j.n /\ i.rd = j.rd /\ i.a = base /\ i.b = index /\ i.k = scale
      /\ i.to = IF zero THEN 1 ELSE 0
    BY DEF Insn
<1> HIDE DEF i
<1>3. \A x : AccessAt(i, x) = x[base] + Offset(zero, x[index]) * 2^scale
    BY <1>2 DEF AccessAt, Offset
<1>4. IsLxs(i, j, base, index, scale, zero)
    BY <1>1, <1>2, <1>3 DEF IsLxs
<1> QED
    BY <1>4

\* check_indexed_load.
LEMMA IndexedHolds ==
    ASSUME NEW s, NEW a \in Nat \ {0}, NEW folded, NEW f, NEW x \in [Regs -> Words], NEW m,
           NEW fuel \in Nat, IsSection(s), f \in check_indexed_load(s, a, folded), x[0] = 0
    PROVE  Holds(s, f, x, m, fuel)
<1> DEFINE i == s.code[a]
           j == s.code[a + 1]
           y == Put(x, i.rd, Worth(i, x))
           X == TwoStates(x, y)
<1>1. /\ Window(s, a, 2) /\ Adds(i) /\ Loads(j) /\ j.a = i.rd /\ j.k = 0
      /\ Rewritten(s, a, a + 1, i.rd)
      /\ f \in Fold("indexed_load", a, 2, Lxs(j, i.a, i.b, 0, FALSE))
    <2>1. a + 2 - 1 = a + 1 /\ a + 2 - 2 = a
        OBVIOUS
    <2> QED
        BY <2>1 DEF check_indexed_load, When, LoadsAt
<1>2. i \in Insns /\ j \in Insns
    BY <1>1, TwoInsns
<1>0. PICK l : IsLxs(l, j, i.a, i.b, 0, FALSE)
    BY LxsIs
<1>3. /\ Lxs(j, i.a, i.b, 0, FALSE) = Alone(l)
      /\ l.op = "lxs" /\ l.rd = j.rd /\ l.n = j.n
      /\ AccessAt(l, x) = x[i.a] + x[i.b] * 2^0
    BY <1>0 DEF IsLxs, Offset
<1>4. X[0] = x /\ X[2 - 1] = y /\ 2 \in Nat \ {0} /\ a \in Nat /\ a + (2 - 1) = a + 1
    BY DEF TwoStates
<1>5. j.op = "load"
    BY <1>1 DEF Loads
<1>6. /\ Computes(i, x, y) /\ Cell(AccessAt(j, y)) = Cell(x[i.a] + x[i.b])
      /\ x[i.a] \in Int /\ x[i.b] \in Int /\ \A q \in Regs : q # i.rd => y[q] = x[q]
    BY <1>1, <1>2, <1>5, AddLoads
<1>7. AccessAt(l, x) = x[i.a] + x[i.b]
    <2>1. 2^0 = 1
        OBVIOUS
    <2> QED
        BY <1>3, <1>6, <2>1
<1>8. j.rd \in Regs
    BY <1>2, InsnIs
<1> HIDE DEF y
<1>9. Onward(s, Words, a, 2, X)
    BY <1>4, <1>6, OnwardTwo
<1>10. j.rd = i.rd \/ DeadAt(s, a + 2, i.rd)
    <2>1. \A q \in a + 1 .. a + 1 : q = a + 1
        OBVIOUS
    <2>2. a + 1 + 1 = a + 2
        OBVIOUS
    <2> QED
        BY <1>1, <2>1, <2>2 DEF Rewritten
<1>11. \A q \in Regs : q = j.rd \/ X[2 - 1][q] = X[0][q] \/ DeadAt(s, a + 2, q)
    BY <1>4, <1>6, <1>10
<1>12. Cell(AccessAt(j, X[2 - 1])) = Cell(AccessAt(l, X[0]))
    BY <1>4, <1>6, <1>7
<1>13. j = s.code[a + (2 - 1)] /\ l.op \in {"load", "lxs"}
    BY <1>3, <1>4
<1>14. f \in Fold("indexed_load", a, 2, Alone(l))
    BY <1>1, <1>3
<1> DEFINE mm == Start(s, x, m, a).m
<1> HIDE DEF X, i, j, mm
<1>15. LastAgrees(s, Words, a, 2, X, l, mm)
    BY <1>3, <1>4, <1>5, <1>8, <1>11, <1>12, <1>13, LoadLine
<1> QED
    BY <1>1, <1>4, <1>9, <1>14, <1>15, LineHolds DEF mm

\* A line of three: the registers in between.
ThreeStates(x, y, z) == [k \in 0 .. 2 |-> IF k = 0 THEN x ELSE IF k = 1 THEN y ELSE z]

\* A line of three whose first two compute.
LEMMA OnwardThree ==
    ASSUME NEW s, NEW a \in Nat, NEW x, NEW y, NEW z, Computes(s.code[a], x, y),
           Computes(s.code[a + 1], y, z)
    PROVE  Onward(s, Words, a, 3, ThreeStates(x, y, z))
<1> DEFINE X == ThreeStates(x, y, z)
<1>1. X[0] = x /\ X[1] = y /\ X[2] = z
    BY DEF ThreeStates
<1> HIDE DEF X
<1>2. ASSUME NEW k \in 1 .. 3 - 1
      PROVE  Computes(s.code[a + (k - 1)], X[k - 1], X[k])
    <2>1. CASE k = 1
        <3>1. a + (k - 1) = a /\ k - 1 = 0
            BY <2>1
        <3> QED
            BY <1>1, <2>1, <3>1
    <2>2. CASE k = 2
        <3>1. a + (k - 1) = a + 1 /\ k - 1 = 1
            BY <2>2
        <3> QED
            BY <1>1, <2>2, <3>1
    <2>3. k = 1 \/ k = 2
        OBVIOUS
    <2> QED
        BY <2>1, <2>2, <2>3
<1>3. 3 \in Nat \ {0}
    OBVIOUS
<1>4. Onward(s, Words, a, 3, X)
    BY <1>2, <1>3, PlainOnward
<1> QED
    BY <1>4 DEF X

\* A shift up writes what is shifted, cut to a word.
LEMMA UpComputes ==
    ASSUME NEW i \in Insns, NEW x \in [Regs -> Words], NEW y, rv_decode_slli(i), i.rd # 0,
           i.k \in 0 .. XLEN - 1, y = Put(x, i.rd, Worth(i, x))
    PROVE  /\ Computes(i, x, y) /\ y[i.rd] = Sext(XLEN, x[i.a] * 2^i.k) /\ y \in [Regs -> Words]
           /\ x[i.a] \in Int /\ 2^i.k \in Nat \ {0} /\ x[i.a] * 2^i.k \in Int /\ i.rd \in Regs
           /\ \A q \in Regs : q # i.rd => y[q] = x[q]
<1>1. Worth(i, x) = Sext(XLEN, x[i.a] * 2^i.k)
    BY ShiftWorth DEF rv_decode_slli
<1>2. i.rd \in Regs /\ i.a \in Regs
    BY InsnIs
<1>3. x[i.a] \in Int
    <2>1. \A w \in Words : w \in Int
        BY HalfLemma
    <2> QED
        BY <1>2, <2>1
<1>4. 2^i.k \in Nat \ {0}
    <2> DEFINE k == i.k
    <2>1. k \in 0 .. XLEN
        BY HalfLemma
    <2> HIDE DEF k
    <2>2. 2^k \in Nat \ {0}
        BY <2>1, PowerIs
    <2> QED
        BY <2>2 DEF k
<1> DEFINE p == 2^i.k
           u == x[i.a] * p
<1>5. u \in Int
    <2> HIDE DEF p
    <2> QED
        BY <1>3, <1>4 DEF p
<1>6. Worth(i, x) \in Words
    <2> HIDE DEF u
    <2>1. Sext(XLEN, u) \in Words
        BY <1>5, SextWord
    <2> QED
        BY <1>1, <2>1 DEF u
<1>7. Plainly(i)
    BY PlainOps DEF rv_decode_slli, Immediate
<1>8. Computes(i, x, y)
    BY <1>2, <1>6, <1>7 DEF Computes
<1> DEFINE v == Worth(i, x)
<1> HIDE DEF v
<1>9. y[i.rd] = v /\ (\A q \in Regs : q # i.rd => y[q] = x[q]) /\ y \in [Regs -> Words]
    <2>1. v \in Words /\ y = Put(x, i.rd, v)
        BY <1>6 DEF v
    <2>2. y \in [Regs -> Words]
        BY <1>2, <2>1 DEF Put
    <2> QED
        BY <1>2, <2>1, <2>2, PutIs
<1> QED
    BY <1>1, <1>2, <1>3, <1>4, <1>5, <1>8, <1>9 DEF v

\* What is written at p and rewritten by the end of a line of three or four.
LEMMA RewrittenIs ==
    ASSUME NEW s, NEW p \in Int, NEW last \in Int, NEW r, Rewritten(s, p, last, r), p < last
    PROVE  \/ DeadAt(s, last + 1, r) \/ s.code[last].rd = r
           \/ p + 1 < last /\ s.code[p + 1].rd = r
           \/ p + 2 < last /\ s.code[p + 2].rd = r
           \/ p + 3 < last
<1>1. \A q \in p + 1 .. last : q = last \/ (p + 1 < last /\ q = p + 1)
                                \/ (p + 2 < last /\ q = p + 2) \/ p + 3 < last
    OBVIOUS
<1> QED
    BY <1>1 DEF Rewritten

\* check_scaled_indexed_load.
LEMMA ScaledHolds ==
    ASSUME NEW s, NEW a \in Nat \ {0}, NEW f, NEW x \in [Regs -> Words], NEW m,
           NEW fuel \in Nat, IsSection(s), f \in check_scaled_indexed_load(s, a), x[0] = 0
    PROVE  Holds(s, f, x, m, fuel)
<1> DEFINE i == s.code[a]
           add == s.code[a + 1]
           j == s.code[a + 2]
           b == Beside(add, i.rd)
           y == Put(x, i.rd, Worth(i, x))
           z == Put(y, add.rd, Worth(add, y))
           X == ThreeStates(x, y, z)
<1>1. /\ Window(s, a, 3) /\ rv_decode_slli(i) /\ i.rd # 0
      /\ Adds(add) /\ Once(add, i.rd)
      /\ Loads(j) /\ j.a = add.rd /\ j.k = 0 /\ j.n \in 1 .. 3 /\ i.k = j.n
      /\ Rewritten(s, a + 1, a + 2, add.rd) /\ Rewritten(s, a, a + 2, i.rd)
      /\ f \in Fold("scaled_indexed_load", a, 3, Lxs(j, b, i.a, j.n, FALSE))
    <2>1. a + 3 - 1 = a + 2 /\ a + 3 - 2 = a + 1
        OBVIOUS
    <2> QED
        BY <2>1 DEF check_scaled_indexed_load, When, LoadsAt
<1>2. i \in Insns /\ add \in Insns /\ j \in Insns
    <2>1. 0 \in 0 .. 3 - 1 /\ 1 \in 0 .. 3 - 1 /\ 2 \in 0 .. 3 - 1 /\ a + 0 = a /\ 3 \in Nat \ {0}
        OBVIOUS
    <2>2. s.code[a + 0] \in Insns /\ s.code[a + 1] \in Insns /\ s.code[a + 2] \in Insns
        BY <1>1, <2>1, WindowInsns
    <2> QED
        BY <2>1, <2>2
<1>3. PICK l : IsLxs(l, j, b, i.a, j.n, FALSE)
    BY LxsIs
<1>4. /\ f \in Fold("scaled_indexed_load", a, 3, Alone(l))
      /\ l.op = "lxs" /\ l.rd = j.rd /\ l.n = j.n
      /\ AccessAt(l, x) = x[b] + x[i.a] * 2^i.k
    BY <1>1, <1>3 DEF IsLxs, Offset
<1>5. X[0] = x /\ X[3 - 1] = z /\ 3 \in Nat \ {0} /\ a \in Nat /\ a + (3 - 1) = a + 2
    BY DEF ThreeStates
<1>6. j.op = "load" /\ j.rd \in Regs
    BY <1>1, <1>2, InsnIs DEF Loads
<1>7. i.k \in 0 .. XLEN - 1
    BY <1>1, HartAssumption
<1>8. /\ Computes(i, x, y) /\ y[i.rd] = Sext(XLEN, x[i.a] * 2^i.k) /\ y \in [Regs -> Words]
      /\ x[i.a] * 2^i.k \in Int /\ i.rd \in Regs
      /\ \A q \in Regs : q # i.rd => y[q] = x[q]
    <2>1. y = Put(x, i.rd, Worth(i, x))
        OBVIOUS
    <2> HIDE DEF y, i
    <2> QED
        BY <1>1, <1>2, <1>7, <2>1, UpComputes
<1> DEFINE r == i.rd
           u == x[i.a] * 2^i.k
<1> HIDE DEF y, u, r, b
<1>9. /\ Computes(add, y, z) /\ Cell(AccessAt(j, z)) = Cell(y[add.a] + y[add.b])
      /\ \A q \in Regs : q # add.rd => z[q] = y[q]
    BY <1>1, <1>2, <1>6, <1>8, AddLoads
<1>10. /\ Cell(y[add.a] + y[add.b]) = Cell(u + y[b])
       /\ b \in Regs \ {r} /\ b \in {add.a, add.b}
    <2>1. Once(add, r) /\ r \in Regs /\ u \in Int /\ y[r] = Sext(XLEN, u) /\ b = Beside(add, r)
        BY <1>1, <1>8 DEF r, u, b
    <2> HIDE DEF add
    <2> QED
        BY <1>1, <1>2, <1>8, <2>1, AddsTo
<1>11. AccessAt(l, x) = u + y[b]
    <2>1. y[b] = x[b] /\ AccessAt(l, x) = x[b] + u
        BY <1>4, <1>8, <1>10 DEF r, u
    <2>2. x[b] \in Int /\ u \in Int
        <3>1. \A w \in Words : w \in Int
            BY HalfLemma
        <3> QED
            BY <1>8, <1>10, <3>1 DEF u
    <2> QED
        BY <2>1, <2>2
<1> HIDE DEF z
<1>12. Onward(s, Words, a, 3, X)
    BY <1>5, <1>8, <1>9, OnwardThree
<1>13. j.rd = add.rd \/ DeadAt(s, a + 3, add.rd)
    <2> DEFINE p == a + 1
               last == a + 2
               w == add.rd
    <2>0. p \in Int /\ last \in Int /\ p < last /\ Rewritten(s, p, last, w)
        BY <1>1
    <2>1. ~(p + 1 < last) /\ ~(p + 2 < last) /\ ~(p + 3 < last) /\ last + 1 = a + 3
        OBVIOUS
    <2>2. s.code[last] = j
        OBVIOUS
    <2> HIDE DEF p, last, w, j
    <2>3. DeadAt(s, last + 1, w) \/ s.code[last].rd = w
        BY <2>0, <2>1, RewrittenIs
    <2> QED
        BY <2>1, <2>2, <2>3 DEF w
<1>14. j.rd = i.rd \/ add.rd = i.rd \/ DeadAt(s, a + 3, i.rd)
    <2> DEFINE p == a
               last == a + 2
               w == i.rd
    <2>0. p \in Int /\ last \in Int /\ p < last /\ Rewritten(s, p, last, w)
        BY <1>1
    <2>1. ~(p + 2 < last) /\ ~(p + 3 < last) /\ last + 1 = a + 3
        OBVIOUS
    <2>2. s.code[last] = j /\ s.code[p + 1] = add
        OBVIOUS
    <2> HIDE DEF p, last, w, j, add
    <2>3. DeadAt(s, last + 1, w) \/ s.code[last].rd = w \/ s.code[p + 1].rd = w
        BY <2>0, <2>1, RewrittenIs
    <2> QED
        BY <2>1, <2>2, <2>3 DEF w
<1>15. \A q \in Regs : q = j.rd \/ X[3 - 1][q] = X[0][q] \/ DeadAt(s, a + 3, q)
    BY <1>5, <1>8, <1>9, <1>13, <1>14
<1>16. Cell(AccessAt(j, X[3 - 1])) = Cell(AccessAt(l, X[0]))
    BY <1>5, <1>9, <1>10, <1>11
<1>17. j = s.code[a + (3 - 1)] /\ l.op \in {"load", "lxs"}
    BY <1>4, <1>5
<1> DEFINE mm == Start(s, x, m, a).m
<1> HIDE DEF X, i, j, add, mm
<1>18. LastAgrees(s, Words, a, 3, X, l, mm)
    BY <1>4, <1>5, <1>6, <1>15, <1>16, <1>17, LoadLine
<1> QED
    BY <1>1, <1>4, <1>5, <1>12, <1>18, LineHolds DEF mm

\* Shifted out at the top and not all the way back, the low bits of a word are left times
\* what is still to go.
LEMMA UpDownUp ==
    ASSUME NEW u \in Int, NEW n \in 0 .. 3, NEW m, NEW k, m = XLEN - WORD, k = m - n
    PROVE  /\ Low(XLEN, Sext(XLEN, u * 2^m)) \div 2^k = Low(WORD, u) * 2^n
           /\ Low(WORD, u) * 2^n \in Int
           /\ m \in 0 .. XLEN - 1 /\ k \in 0 .. XLEN - 1
<1>1. /\ XLEN \in Nat /\ WORD \in Nat /\ 7 <= WORD /\ WORD + 3 <= XLEN
    BY HartAssumption
<1>2. /\ m \in 0 .. XLEN - 1 /\ k \in 0 .. XLEN - 1 /\ m \in 0 .. XLEN /\ k \in 0 .. XLEN
      /\ n \in 0 .. XLEN /\ WORD \in 0 .. XLEN
      /\ k + n = m /\ WORD + m = XLEN /\ k \in Nat /\ m \in Nat /\ n \in Nat /\ m <= XLEN
    BY <1>1
<1> DEFINE p == 2^k
           q == 2^n
           d == 2^WORD
           e == 2^m
<1>3. p \in Nat \ {0} /\ q \in Nat \ {0} /\ d \in Nat \ {0} /\ e \in Nat \ {0}
    BY <1>2, PowerIs
<1>4. e = p * q
    BY <1>2, PowerSum
<1>5. 2^XLEN = d * e
    BY <1>1, <1>2, PowerSum
<1>6. \A v : Low(XLEN, v) = v % (d * e)
    BY <1>5 DEF Low
<1>7. Low(WORD, u) = u % d
    BY DEF Low
<1> HIDE DEF p, q, d, e
<1>8. u * e \in Int
    BY <1>3
<1>9. Low(XLEN, Sext(XLEN, u * e)) = (u * e) % (d * e)
    BY <1>6, <1>8, LowSext
<1>10. (u * e) % (d * e) = (u % d) * e
    BY <1>3, TimesMod
<1> DEFINE w == u % d
           t == w * q
<1>11. w \in Int
    BY <1>3
<1> HIDE DEF w
<1>12. w * e = t * p /\ t \in Int
    <2>1. w * (p * q) = (w * q) * p
        BY <1>3, <1>11
    <2> QED
        BY <1>3, <1>4, <1>11, <2>1
<1> HIDE DEF t
<1>13. (t * p) \div p = t
    BY <1>3, <1>12, DivTimes
<1>14. Low(XLEN, Sext(XLEN, u * e)) \div p = t
    BY <1>9, <1>10, <1>12, <1>13 DEF w
<1>15. Low(WORD, u) * q = t
    BY <1>7 DEF t, w
<1> QED
    BY <1>2, <1>12, <1>14, <1>15 DEF p, q, e

\* The shift down of what was shifted up.
Shifted(i, x, y, v) ==
    /\ Computes(i, x, y) /\ y[i.rd] = Sext(XLEN, v) /\ v \in Int
    /\ y \in [Regs -> Words] /\ i.rd \in Regs
    /\ \A q \in Regs : q # i.rd => y[q] = x[q]

\* The shift back down computes the WORD low bits of what was shifted up, shifted by the
\* width.
LEMMA DownComputes ==
    ASSUME NEW i \in Insns, NEW x \in [Regs -> Words], NEW y, rv_decode_srli(i), i.rd # 0,
           NEW u \in Int, NEW n \in 0 .. 3, x[i.a] = Sext(XLEN, u * 2^(XLEN - WORD)),
           i.k = XLEN - WORD - n, y = Put(x, i.rd, Worth(i, x))
    PROVE  Shifted(i, x, y, Low(WORD, u) * 2^n)
<1> DEFINE v == Low(WORD, u) * 2^n
           K == XLEN - WORD
           k == i.k
<1>0. k = K - n /\ K = XLEN - WORD
    OBVIOUS
<1> HIDE DEF k, K
<1>1. /\ Low(XLEN, Sext(XLEN, u * 2^K)) \div 2^k = v /\ v \in Int /\ k \in 0 .. XLEN - 1
    BY <1>0, UpDownUp, ZenonT(40)
<1>2. Worth(i, x) = Sext(XLEN, Low(XLEN, x[i.a]) \div 2^i.k)
    BY <1>1, ShiftWorth DEF rv_decode_srli, k
<1>3. Worth(i, x) = Sext(XLEN, v)
    BY <1>1, <1>2 DEF K, k
<1> HIDE DEF v
<1>4. Sext(XLEN, v) \in Words
    BY <1>1, SextWord
<1>5. i.rd \in Regs
    BY InsnIs
<1>6. Plainly(i)
    BY PlainOps DEF rv_decode_srli, Immediate
<1>7. Computes(i, x, y)
    BY <1>3, <1>4, <1>5, <1>6 DEF Computes
<1> DEFINE w == Sext(XLEN, v)
<1> HIDE DEF w
<1>8. y[i.rd] = w /\ (\A q \in Regs : q # i.rd => y[q] = x[q]) /\ y \in [Regs -> Words]
    <2>1. w \in Words /\ y = Put(x, i.rd, w)
        BY <1>3, <1>4 DEF w
    <2>2. y \in [Regs -> Words]
        BY <1>5, <2>1 DEF Put
    <2> QED
        BY <1>5, <2>1, <2>2, PutIs
<1> QED
    BY <1>1, <1>5, <1>7, <1>8 DEF v, w, Shifted

\* A line of four.
FourStates(w, x, y, z) ==
    [k \in 0 .. 3 |-> IF k = 0 THEN w ELSE IF k = 1 THEN x ELSE IF k = 2 THEN y ELSE z]

\* A line of four whose first three compute.
LEMMA OnwardFour ==
    ASSUME NEW s, NEW a \in Nat, NEW w, NEW x, NEW y, NEW z, Computes(s.code[a], w, x),
           Computes(s.code[a + 1], x, y), Computes(s.code[a + 2], y, z)
    PROVE  Onward(s, Words, a, 4, FourStates(w, x, y, z))
<1> DEFINE X == FourStates(w, x, y, z)
<1>1. X[0] = w /\ X[1] = x /\ X[2] = y /\ X[3] = z
    BY DEF FourStates
<1> HIDE DEF X
<1>2. ASSUME NEW k \in 1 .. 4 - 1
      PROVE  Computes(s.code[a + (k - 1)], X[k - 1], X[k])
    <2>1. CASE k = 1
        <3>1. a + (k - 1) = a /\ k - 1 = 0
            BY <2>1
        <3> QED
            BY <1>1, <2>1, <3>1
    <2>2. CASE k = 2
        <3>1. a + (k - 1) = a + 1 /\ k - 1 = 1
            BY <2>2
        <3> QED
            BY <1>1, <2>2, <3>1
    <2>3. CASE k = 3
        <3>1. a + (k - 1) = a + 2 /\ k - 1 = 2
            BY <2>3
        <3> QED
            BY <1>1, <2>3, <3>1
    <2>4. k = 1 \/ k = 2 \/ k = 3
        OBVIOUS
    <2> QED
        BY <2>1, <2>2, <2>3, <2>4
<1>3. 4 \in Nat \ {0}
    OBVIOUS
<1>4. Onward(s, Words, a, 4, X)
    BY <1>2, <1>3, PlainOnward
<1> QED
    BY <1>4 DEF X

\* check_zext_indexed_load, where the add does not read the index as it was shifted up.
LEMMA ZextHolds ==
    ASSUME NEW s, NEW a \in Nat \ {0}, NEW f, NEW x \in [Regs -> Words], NEW m,
           NEW fuel \in Nat, IsSection(s), f \in check_zext_indexed_load(s, a), x[0] = 0,
           s.code[a].rd = s.code[a + 1].rd \/ s.code[a].rd \notin {s.code[a + 2].a, s.code[a + 2].b}
    PROVE  Holds(s, f, x, m, fuel)
<1> DEFINE up == s.code[a]
           down == s.code[a + 1]
           add == s.code[a + 2]
           j == s.code[a + 3]
           b == Beside(add, down.rd)
           x1 == Put(x, up.rd, Worth(up, x))
           x2 == Put(x1, down.rd, Worth(down, x1))
           x3 == Put(x2, add.rd, Worth(add, x2))
           X == FourStates(x, x1, x2, x3)
<1>1. /\ Window(s, a, 4)
      /\ rv_decode_slli(up) /\ up.k = XLEN - WORD /\ up.rd # 0
      /\ rv_decode_srli(down) /\ down.a = up.rd /\ down.rd # 0
      /\ Adds(add) /\ Once(add, down.rd)
      /\ Loads(j) /\ j.a = add.rd /\ j.k = 0 /\ down.k = XLEN - WORD - j.n
      /\ Rewritten(s, a + 2, a + 3, add.rd) /\ Rewritten(s, a + 1, a + 3, down.rd)
      /\ Rewritten(s, a, a + 3, up.rd)
      /\ f \in Fold("zext_indexed_load", a, 4, Lxs(j, b, up.a, j.n, TRUE))
    <2>1. a + 4 - 1 = a + 3 /\ a + 4 - 2 = a + 2
        OBVIOUS
    <2> QED
        BY <2>1 DEF check_zext_indexed_load, When, LoadsAt
<1>2. up \in Insns /\ down \in Insns /\ add \in Insns /\ j \in Insns
    <2>1. /\ 0 \in 0 .. 4 - 1 /\ 1 \in 0 .. 4 - 1 /\ 2 \in 0 .. 4 - 1 /\ 3 \in 0 .. 4 - 1
          /\ a + 0 = a /\ 4 \in Nat \ {0}
        OBVIOUS
    <2>2. /\ s.code[a + 0] \in Insns /\ s.code[a + 1] \in Insns /\ s.code[a + 2] \in Insns
          /\ s.code[a + 3] \in Insns
        BY <1>1, <2>1, WindowInsns
    <2> QED
        BY <2>1, <2>2
<1>3. PICK l : IsLxs(l, j, b, up.a, j.n, TRUE)
    BY LxsIs
<1> DEFINE n == j.n
           u == x[up.a]
           v == Low(WORD, u) * 2^n
           r == down.rd
<1>4. /\ f \in Fold("zext_indexed_load", a, 4, Alone(l))
      /\ l.op = "lxs" /\ l.rd = j.rd /\ l.n = j.n
      /\ AccessAt(l, x) = x[b] + v
    BY <1>1, <1>3 DEF IsLxs, Offset
<1>5. X[0] = x /\ X[4 - 1] = x3 /\ 4 \in Nat \ {0} /\ a \in Nat /\ a + (4 - 1) = a + 3
    BY DEF FourStates
<1>6. j.op = "load" /\ j.rd \in Regs /\ n \in 0 .. 3
    BY <1>1, <1>2, InsnIs DEF Loads
<1>7. up.k \in 0 .. XLEN - 1
    BY <1>1, HartAssumption
<1>8. /\ Computes(up, x, x1) /\ x1[up.rd] = Sext(XLEN, u * 2^(XLEN - WORD)) /\ x1 \in [Regs -> Words]
      /\ u \in Int /\ up.rd \in Regs
      /\ \A q \in Regs : q # up.rd => x1[q] = x[q]
    <2>1. x1 = Put(x, up.rd, Worth(up, x)) /\ u = x[up.a]
        OBVIOUS
    <2> HIDE DEF x1, up, u
    <2>2. /\ Computes(up, x, x1) /\ x1[up.rd] = Sext(XLEN, x[up.a] * 2^up.k) /\ x1 \in [Regs -> Words]
          /\ x[up.a] \in Int /\ up.rd \in Regs
          /\ \A q \in Regs : q # up.rd => x1[q] = x[q]
        BY <1>1, <1>2, <1>7, <2>1, UpComputes
    <2> QED
        BY <1>1, <2>1, <2>2
<1> HIDE DEF x1, u, b
<1>9. /\ Computes(down, x1, x2) /\ x2[down.rd] = Sext(XLEN, Low(WORD, u) * 2^n)
      /\ x2 \in [Regs -> Words] /\ down.rd \in Regs /\ Low(WORD, u) * 2^n \in Int
      /\ \A q \in Regs : q # down.rd => x2[q] = x1[q]
    <2>1. /\ x2 = Put(x1, down.rd, Worth(down, x1)) /\ down.k = XLEN - WORD - n
          /\ x1[down.a] = Sext(XLEN, u * 2^(XLEN - WORD))
        BY <1>1, <1>8
    <2>2. /\ down \in Insns /\ x1 \in [Regs -> Words] /\ rv_decode_srli(down) /\ down.rd # 0
          /\ u \in Int /\ n \in 0 .. 3
        BY <1>1, <1>2, <1>6, <1>8
    <2> HIDE DEF x2, down, n
    <2>3. Shifted(down, x1, x2, Low(WORD, u) * 2^n)
        BY <2>1, <2>2, DownComputes
    <2> QED
        BY <2>3 DEF Shifted
<1> HIDE DEF x2, v
<1>10. /\ Computes(add, x2, x3) /\ Cell(AccessAt(j, x3)) = Cell(x2[add.a] + x2[add.b])
       /\ \A q \in Regs : q # add.rd => x3[q] = x2[q]
    <2>1. x3 = Put(x2, add.rd, Worth(add, x2))
        OBVIOUS
    <2> HIDE DEF x3, add, j
    <2> QED
        BY <1>1, <1>2, <1>6, <1>9, <2>1, AddLoads
<1> HIDE DEF x3, r
<1>11. /\ Cell(x2[add.a] + x2[add.b]) = Cell(v + x2[b])
       /\ b \in Regs \ {r} /\ b \in {add.a, add.b}
    <2>1. Once(add, r) /\ r \in Regs /\ v \in Int /\ x2[r] = Sext(XLEN, v) /\ b = Beside(add, r)
        BY <1>1, <1>9 DEF r, v, b
    <2> HIDE DEF add
    <2> QED
        BY <1>1, <1>2, <1>9, <2>1, AddsTo
<1>12. AccessAt(l, x) = v + x2[b]
    <2>1. b # up.rd
        BY <1>11 DEF r
    <2>2. x2[b] = x[b] /\ AccessAt(l, x) = x[b] + v
        BY <1>4, <1>8, <1>9, <1>11, <2>1 DEF r
    <2>3. x[b] \in Int /\ v \in Int
        <3>1. \A w \in Words : w \in Int
            BY HalfLemma
        <3> QED
            BY <1>9, <1>11, <3>1 DEF v
    <2> QED
        BY <2>2, <2>3
<1>13. Onward(s, Words, a, 4, X)
    BY <1>5, <1>8, <1>9, <1>10, OnwardFour
<1>14. j.rd = add.rd \/ DeadAt(s, a + 4, add.rd)
    <2> DEFINE p == a + 2
               last == a + 3
               w == add.rd
    <2>0. p \in Int /\ last \in Int /\ p < last /\ Rewritten(s, p, last, w)
        BY <1>1
    <2>1. ~(p + 1 < last) /\ ~(p + 2 < last) /\ ~(p + 3 < last) /\ last + 1 = a + 4
        OBVIOUS
    <2>2. s.code[last] = j
        OBVIOUS
    <2> HIDE DEF p, last, w, j
    <2>3. DeadAt(s, last + 1, w) \/ s.code[last].rd = w
        BY <2>0, <2>1, RewrittenIs
    <2> QED
        BY <2>1, <2>2, <2>3 DEF w
<1>15. j.rd = down.rd \/ add.rd = down.rd \/ DeadAt(s, a + 4, down.rd)
    <2> DEFINE p == a + 1
               last == a + 3
               w == down.rd
    <2>0. p \in Int /\ last \in Int /\ p < last /\ Rewritten(s, p, last, w)
        BY <1>1
    <2>1. ~(p + 2 < last) /\ ~(p + 3 < last) /\ last + 1 = a + 4
        OBVIOUS
    <2>2. s.code[last] = j /\ s.code[p + 1] = add
        OBVIOUS
    <2> HIDE DEF p, last, w, j, add
    <2>3. DeadAt(s, last + 1, w) \/ s.code[last].rd = w \/ s.code[p + 1].rd = w
        BY <2>0, <2>1, RewrittenIs
    <2> QED
        BY <2>1, <2>2, <2>3 DEF w
<1>16. j.rd = up.rd \/ add.rd = up.rd \/ down.rd = up.rd \/ DeadAt(s, a + 4, up.rd)
    <2> DEFINE p == a
               last == a + 3
               w == up.rd
    <2>0. p \in Int /\ last \in Int /\ p < last /\ Rewritten(s, p, last, w)
        BY <1>1
    <2>1. ~(p + 3 < last) /\ last + 1 = a + 4
        OBVIOUS
    <2>2. s.code[last] = j /\ s.code[p + 2] = add /\ s.code[p + 1] = down
        OBVIOUS
    <2> HIDE DEF p, last, w, j, add, down
    <2>3. DeadAt(s, last + 1, w) \/ s.code[last].rd = w \/ s.code[p + 1].rd = w \/ s.code[p + 2].rd = w
        BY <2>0, <2>1, RewrittenIs
    <2> QED
        BY <2>1, <2>2, <2>3 DEF w
<1>17. \A q \in Regs : q = j.rd \/ X[4 - 1][q] = X[0][q] \/ DeadAt(s, a + 4, q)
    BY <1>5, <1>8, <1>9, <1>10, <1>14, <1>15, <1>16
<1>18. Cell(AccessAt(j, X[4 - 1])) = Cell(AccessAt(l, X[0]))
    BY <1>5, <1>10, <1>11, <1>12
<1>19. j = s.code[a + (4 - 1)] /\ l.op \in {"load", "lxs"}
    BY <1>4, <1>5
<1> DEFINE mm == Start(s, x, m, a).m
<1> HIDE DEF X, up, down, j, add, mm
<1>20. LastAgrees(s, Words, a, 4, X, l, mm)
    BY <1>4, <1>5, <1>6, <1>17, <1>18, <1>19, LoadLine
<1> QED
    BY <1>1, <1>4, <1>5, <1>13, <1>20, LineHolds DEF mm

\* Divided twice.
LEMMA QuotientTwice ==
    ASSUME NEW u \in Nat, NEW p \in Nat \ {0}, NEW q \in Nat \ {0}
    PROVE  /\ u \div p \in Nat /\ u % p \in 0 .. p - 1 /\ u = (u \div p) * p + (u % p)
           /\ u \div (p * q) = (u \div p) \div q
<1> DEFINE d == u \div p
           r == u % p
           e == d \div q
           t == d % q
<1>1. d \in Nat /\ r \in 0 .. p - 1 /\ u = d * p + r
    OBVIOUS
<1> HIDE DEF d, r
<1>2. e \in Int /\ t \in 0 .. q - 1 /\ d = e * q + t
    BY <1>1
<1> HIDE DEF e, t
<1> DEFINE w == t * p + r
<1>3. w \in 0 .. p * q - 1
    <2>1. w \in Int /\ 0 <= w
        BY <1>1, <1>2
    <2>2. t * p <= (q - 1) * p
        BY <1>2
    <2>3. (q - 1) * p = p * q - p
        OBVIOUS
    <2>4. t * p \in Int /\ p * q \in Int
        BY <1>2
    <2> DEFINE tp == t * p
               pq == p * q
               qp == (q - 1) * p
    <2> HIDE DEF tp, pq, qp
    <2>5. qp = pq - p /\ tp <= qp /\ tp \in Int /\ pq \in Int
        BY <2>2, <2>3, <2>4 DEF tp, pq, qp
    <2>6. tp + r <= pq - 1
        BY <1>1, <2>5
    <2> QED
        BY <2>1, <2>5, <2>6 DEF tp, pq
<1>4. u = e * (p * q) + w
    <2>1. (e * q + t) * p = e * (p * q) + t * p
        BY <1>2
    <2> QED
        BY <1>1, <1>2, <2>1
<1>5. p * q \in Nat \ {0}
    OBVIOUS
<1> HIDE DEF w
<1>6. u \div (p * q) = e
    <2> DEFINE n == p * q
    <2> HIDE DEF n
    <2>1. u = e * n + w /\ w \in 0 .. n - 1 /\ n \in Nat \ {0} /\ u \in Int
        BY <1>3, <1>4, <1>5 DEF n
    <2>2. u \div n = e
        BY <1>2, <2>1, QuotientIs
    <2> QED
        BY <2>2 DEF n
<1> QED
    BY <1>1, <1>6 DEF d, r, e

\* The powers of the two formats.
Format(n, mant, exp) ==
    /\ mant = MantBits(n) /\ exp = ExpBits(n)
    /\ mant \in Nat /\ 2 <= mant /\ exp \in Nat /\ 0 < exp /\ mant + exp = n - 1 /\ n - 1 \in 0 .. XLEN

\* The powers of two of a format are positive, and the bias is a half of the exponents.
LEMMA FormatIs ==
    ASSUME NEW n \in {WORD, XLEN}
    PROVE  /\ Format(n, MantBits(n), ExpBits(n)) /\ Bias(n) \in Nat
           /\ Bias(WORD) = 7 /\ 2^ExpBits(WORD) = 16
<1>1. WORD \in Nat /\ XLEN \in Nat /\ 7 <= WORD /\ WORD + 3 <= XLEN
    BY HartAssumption
<1>2. Format(n, MantBits(n), ExpBits(n))
    BY <1>1 DEF Format, MantBits, ExpBits
<1>3. 2^0 = 1 /\ 2^1 = 2 * 2^0 /\ 2^2 = 2 * 2^1 /\ 2^3 = 2 * 2^2 /\ 2^4 = 2 * 2^3
    <2>1. /\ 0 \in 0 .. XLEN - 1 /\ 1 \in 0 .. XLEN - 1 /\ 2 \in 0 .. XLEN - 1 /\ 3 \in 0 .. XLEN - 1
          /\ 0 + 1 = 1 /\ 1 + 1 = 2 /\ 2 + 1 = 3 /\ 3 + 1 = 4 /\ 2^0 = 1
        BY <1>1
    <2>2. 2^(0 + 1) = 2 * 2^0 /\ 2^(1 + 1) = 2 * 2^1 /\ 2^(2 + 1) = 2 * 2^2 /\ 2^(3 + 1) = 2 * 2^3
        BY <2>1, PowerAssumption
    <2> QED
        BY <2>1, <2>2
<1>4. 4 - 1 = 3 /\ 5 - 1 = 4 /\ 2^3 = 8 /\ 2^4 = 16
    BY <1>3
<1>5. Bias(n) \in Nat /\ Bias(WORD) = 7 /\ 2^ExpBits(WORD) = 16
    BY <1>4 DEF Bias, ExpBits
<1> QED
    BY <1>2, <1>5

\* An entry found for a pattern of bits is that of a row with its exponent and mantissa.
Row(n, j, field, frac) ==
    /\ j \in DOMAIN FliTable
    /\ FliTable[j] = << IF field = 2^ExpBits(n) - 1 THEN Special ELSE field - Bias(n),
                        frac \div 2^(MantBits(n) - 2) >>
    /\ frac % 2^(MantBits(n) - 2) = 0
    /\ \/ field = 2^ExpBits(n) - 1
       \/ field - Bias(n) + Bias(WORD) \in 1 .. 2^ExpBits(WORD) - 2

\* An entry that was found for some bits is in the row that has their exponent and fraction.
LEMMA FliFound ==
    ASSUME NEW n, NEW bits, NEW entry, entry \in rv_fli_entry(bits, n)
    PROVE  \/ bits = 2^MantBits(n) /\ entry = 1
           \/ \E j : /\ Row(n, j, (bits \div 2^MantBits(n)) % 2^ExpBits(n), bits % 2^MantBits(n))
                    /\ \/ bits \div 2^(n - 1) = 0 /\ entry = j + 1
                       \/ bits \div 2^(n - 1) # 0 /\ entry = 0 /\ j = One
<1> DEFINE mant == MantBits(n)
           sign == bits \div 2^(n - 1)
           field == (bits \div 2^mant) % 2^ExpBits(n)
           frac == bits % 2^mant
           special == field = 2^ExpBits(n) - 1
           exp == IF special THEN Special ELSE field - Bias(n)
           normal == special \/ exp + Bias(WORD) \in 1 .. 2^ExpBits(WORD) - 2
           rows == {j \in DOMAIN FliTable : FliTable[j] = <<exp, frac \div 2^(mant - 2)>>}
<1>1. rv_fli_entry(bits, n) =
        IF bits = 2^mant THEN {1}
        ELSE IF frac % 2^(mant - 2) # 0 \/ ~normal THEN {}
        ELSE IF sign = 0 THEN {j + 1 : j \in rows}
        ELSE {0 : j \in rows \cap {One}}
    BY DEF rv_fli_entry
<1>2. CASE bits = 2^mant
    BY <1>1, <1>2
<1>3. CASE bits # 2^mant
    <2>1. frac % 2^(mant - 2) = 0 /\ normal
        <3> HIDE DEF frac, mant, normal, rows, sign
        <3> QED
            BY <1>1, <1>3
    <2>2. \/ sign = 0 /\ entry \in {j + 1 : j \in rows}
          \/ sign # 0 /\ entry \in {0 : j \in rows \cap {One}}
        <3> HIDE DEF frac, mant, normal, rows, sign
        <3> QED
            BY <1>1, <1>3, <2>1
    <2>3. PICK j \in rows : \/ sign = 0 /\ entry = j + 1
                            \/ sign # 0 /\ entry = 0 /\ j = One
        <3> HIDE DEF rows, sign
        <3> QED
            BY <2>2
    <2>4. Row(n, j, field, frac)
        <3> HIDE DEF frac
        <3>1. j \in DOMAIN FliTable /\ FliTable[j] = <<exp, frac \div 2^(mant - 2)>>
            OBVIOUS
        <3> HIDE DEF field
        <3> QED
            BY <2>1, <3>1 DEF Row
    <2> HIDE DEF rows, field, frac
    <2> QED
        BY <2>3, <2>4 DEF field, frac
<1> QED
    BY <1>2, <1>3

\* The table's entry is the pattern it was found for (rv_fli_entry, check_fp_pool_to_fli).
LEMMA FliIs ==
    ASSUME NEW n \in {WORD, XLEN}, NEW bits \in Nat, bits < 2 * 2^(n - 1), NEW entry,
           entry \in rv_fli_entry(bits, n)
    PROVE  Pattern(n, entry) = bits
<1> DEFINE mant == MantBits(n)
           exp == ExpBits(n)
           M == 2^mant
           E == 2^exp
           Q == 2^(mant - 2)
           H == 2^(n - 1)
           high == bits \div M
           field == high % E
           frac == bits % M
<1>1. Format(n, mant, exp) /\ Bias(n) \in Nat /\ Bias(WORD) = 7 /\ 2^ExpBits(WORD) = 16
    BY FormatIs
<1>2. /\ M \in Nat \ {0} /\ E \in Nat \ {0} /\ Q \in Nat \ {0} /\ H = M * E
    <2> DEFINE mm == MantBits(n)
               ee == ExpBits(n)
               nn == n - 1
               qq == mm - 2
    <2>1. /\ mm \in 0 .. XLEN /\ ee \in 0 .. XLEN /\ qq \in 0 .. XLEN /\ nn = mm + ee
          /\ mm \in Nat /\ ee \in Nat /\ mm + ee <= XLEN
        BY <1>1, HalfLemma DEF Format
    <2> HIDE DEF mm, ee, nn, qq
    <2>2. 2^mm \in Nat \ {0} /\ 2^ee \in Nat \ {0} /\ 2^qq \in Nat \ {0} /\ 2^nn = 2^mm * 2^ee
        BY <2>1, PowerIs, PowerSum
    <2> QED
        BY <2>2 DEF mm, ee, nn, qq
<1>3. /\ high \in Nat /\ frac \in 0 .. M - 1 /\ bits = high * M + frac
      /\ bits \div H = high \div E
    <2> HIDE DEF M, E, H
    <2> QED
        BY <1>2, QuotientTwice
<1>4. field \in 0 .. E - 1 /\ high \div E \in Nat /\ high = (high \div E) * E + field
    <2> HIDE DEF E, high
    <2> QED
        BY <1>2, <1>3, QuotientTwice
<1>5. \/ bits = M /\ entry = 1
      \/ \E j : /\ Row(n, j, field, frac)
               /\ \/ bits \div H = 0 /\ entry = j + 1
                  \/ bits \div H # 0 /\ entry = 0 /\ j = One
    BY FliFound
<1>6. CASE bits = M /\ entry = 1
    BY <1>6, PatternIs
<1>7. ASSUME NEW j, Row(n, j, field, frac)
      PROVE  j \in Nat \ {0} /\ At(n, j) = field * M + frac
    <2>1. /\ j \in DOMAIN FliTable
          /\ FliTable[j] = << IF field = E - 1 THEN Special ELSE field - Bias(n), frac \div Q >>
          /\ frac % Q = 0
          /\ field = E - 1 \/ field - Bias(n) + Bias(WORD) \in 1 .. 2^ExpBits(WORD) - 2
        BY <1>7 DEF Row
    <2>2. DOMAIN FliTable \subseteq Nat \ {0}
        BY DEF FliTable
    <2> DEFINE e == IF field = E - 1 THEN Special ELSE field - Bias(n)
               d == frac \div Q
    <2>3. FliTable[j][1] = e /\ FliTable[j][2] = d
        <3> HIDE DEF e, d
        <3> QED
            BY <2>1 DEF e, d
    <2> HIDE DEF field, frac, M, E, Q
    <2>4. frac = d * Q
        <3>1. frac \in Nat
            BY <1>2, <1>3
        <3>2. frac = (frac \div Q) * Q + (frac % Q)
            BY <1>2, <3>1, QuotientTwice
        <3>3. d \in Int
            BY <1>2, <3>1
        <3> QED
            BY <1>2, <2>1, <3>2, <3>3
    <2>5. (IF e = Special THEN E - 1 ELSE e + Bias(n)) = field
        <3>1. field \in Int /\ E \in Int
            BY <1>2, <1>4
        <3>2. field # E - 1 => field - Bias(n) # 99
            BY <1>1, <2>1, <3>1
        <3> QED
            BY <1>1, <3>1, <3>2 DEF Special
    <2>6. At(n, j) = (IF e = Special THEN E - 1 ELSE e + Bias(n)) * M + d * Q
        BY <2>3 DEF At, M, E, Q
    <2> QED
        BY <2>1, <2>2, <2>4, <2>5, <2>6
<1>8. ASSUME NEW j, Row(n, j, field, frac), bits \div H = 0, entry = j + 1
      PROVE  Pattern(n, entry) = bits
    <2> HIDE DEF field, frac, M, E, Q, H, high
    <2>1. j \in Nat \ {0} /\ At(n, j) = field * M + frac
        BY <1>7, <1>8
    <2>2. entry \notin {0, 1} /\ entry - 1 = j
        BY <1>8, <2>1
    <2>3. high = field
        BY <1>2, <1>3, <1>4, <1>8
    <2> QED
        BY <1>3, <2>1, <2>2, <2>3, PatternIs
<1>9. ASSUME NEW j, Row(n, j, field, frac), bits \div H # 0, entry = 0, j = One
      PROVE  Pattern(n, entry) = bits
    <2>1. At(n, One) = field * M + frac
        BY <1>7, <1>9
    <2>2. Pattern(n, entry) = H + At(n, One)
        BY <1>9, PatternIs
    <2> HIDE DEF field, frac, M, E, Q, H, high
    <2>3. high \div E = 1
        <3> DEFINE g == high \div E
        <3>1. g \in Nat /\ g # 0 /\ high = g * E + field
            BY <1>3, <1>4, <1>9
        <3> HIDE DEF g
        <3>2. SUFFICES ASSUME g >= 2 PROVE FALSE
            BY <3>1 DEF g
        <3>3. g * E >= 2 * E
            BY <1>2, <3>1, <3>2
        <3>4. high >= 2 * E
            <4> DEFINE ge == g * E
            <4>1. ge \in Int
                BY <1>2, <3>1
            <4> HIDE DEF ge
            <4> QED
                BY <1>2, <1>4, <3>1, <3>3, <4>1 DEF ge
        <3>5. high * M >= (2 * E) * M
            BY <1>2, <1>3, <3>4
        <3>6. (2 * E) * M = 2 * H
            BY <1>2
        <3> DEFINE hm == high * M
        <3>7. hm \in Int /\ hm >= 2 * H /\ bits = hm + frac
            BY <1>2, <1>3, <3>5, <3>6
        <3> HIDE DEF hm
        <3>8. bits < 2 * H /\ frac >= 0 /\ H \in Int /\ frac \in Int
            BY <1>2, <1>3 DEF H
        <3> QED
            BY <3>7, <3>8
    <2>4. high = E + field
        BY <1>2, <1>4, <2>3
    <2>5. (E + field) * M = H + field * M
        BY <1>2, <1>4
    <2>6. field * M \in Int /\ H \in Int /\ frac \in Int
        BY <1>2, <1>3, <1>4
    <2> DEFINE fm == field * M
    <2> HIDE DEF fm
    <2>7. bits = (H + fm) + frac /\ fm \in Int
        BY <1>3, <2>4, <2>5, <2>6 DEF fm
    <2>8. Pattern(n, entry) = H + (fm + frac)
        BY <2>1, <2>2 DEF fm
    <2> QED
        BY <2>6, <2>7, <2>8
<1> QED
    BY <1>5, <1>6, <1>8, <1>9

\* What a floating-point register holds of the word v, in n bits.
Wide(n, v) == IF n = WORD THEN Boxed(v) ELSE v

\* fli writes what the bits it was found for would be as a value.
LEMMA FliValue ==
    ASSUME NEW n \in {WORD, XLEN}, NEW v \in Words, NEW entry,
           entry \in rv_fli_entry(Low(n, v), n), NEW t, NEW w
    PROVE  Value("fli", n, entry, t, w) = Wide(n, v)
<1> DEFINE bits == Low(n, v)
<1>1. v \in Int /\ n \in 0 .. XLEN /\ n \in 1 .. XLEN
    BY HalfLemma, HartAssumption
<1>2. bits \in 0 .. 2^n - 1 /\ 2^n = 2 * 2^(n - 1) /\ 2^(n - 1) \in Nat
    BY <1>1, LowIs, PowerNext
<1>3. bits \in Nat /\ bits < 2 * 2^(n - 1)
    <2> DEFINE h == 2^(n - 1)
    <2> HIDE DEF h, bits
    <2>1. bits \in 0 .. 2 * h - 1 /\ h \in Nat
        BY <1>2 DEF h
    <2>2. bits \in Nat /\ bits < 2 * h
        BY <2>1
    <2> QED
        BY <2>2 DEF h
<1>4. Pattern(n, entry) = bits
    <2> HIDE DEF bits
    <2>1. entry \in rv_fli_entry(bits, n)
        BY DEF bits
    <2> QED
        BY <1>3, <2>1, FliIs
<1>5. Value("fli", n, entry, t, w) =
        IF n = WORD THEN Boxed(Pattern(n, entry)) ELSE Sext(n, Pattern(n, entry))
    BY Zenon DEF Value
<1>6. CASE n = WORD
    <2>1. Low(WORD, bits) = bits
        <3> DEFINE p == 2^WORD
        <3>1. p \in Nat \ {0} /\ bits \in 0 .. p - 1
            BY <1>1, <1>2, <1>6, PowerIs
        <3> HIDE DEF p, bits
        <3>2. bits % p = bits
            BY <3>1, ModOwn
        <3> QED
            BY <3>2 DEF Low, p
    <2>2. Boxed(bits) = Boxed(v)
        BY <1>6, <2>1 DEF Boxed
    <2> QED
        BY <1>4, <1>5, <1>6, <2>2 DEF Wide
<1>7. CASE n # WORD
    <2>1. n = XLEN
        BY <1>7
    <2>2. Sext(XLEN, Low(XLEN, v)) = v
        BY <1>1, SextLow, SextOwn
    <2> QED
        BY <1>4, <1>5, <1>7, <2>1, <2>2 DEF Wide
<1> QED
    BY <1>6, <1>7

\* An instruction that writes v to r and does nothing else, where registers and memory
\* are these.
Writes(V, x, m, i, r, v) ==
    \A g : Machine(V, g) /\ g.x = x /\ g.m = m => Ran(g, i) = SetX(Skip(g), r, v)

\* What fli does: it writes the bits of its entry.
LEMMA FliRuns ==
    ASSUME NEW V, NEW x, NEW m, NEW n \in {WORD, XLEN}, NEW v \in Words, NEW rd, NEW entry,
           entry \in rv_fli_entry(Low(n, v), n)
    PROVE  \E i : Fli(n, rd, entry) = Alone(i) /\ Writes(V, x, m, i, rd, Wide(n, v))
<1> DEFINE i == Insn("fli", n, rd, 0, 0, entry, 0)
<1>1. Fli(n, rd, entry) = Alone(i)
    BY DEF Fli, Alone
<1>2. i.op = "fli" /\ i.n = n /\ i.rd = rd /\ i.k = entry
    BY DEF Insn
<1> HIDE DEF i
<1>3. ASSUME NEW g
      PROVE  Ran(g, i) = SetX(Skip(g), rd, Wide(n, v))
    <2>1. Exec(Skip(g), i) =
            SetX(Skip(g), i.rd, Value(i.op, i.n, i.k, Skip(g).x[i.a], Operand(i, Skip(g))))
        BY <1>2 DEF Exec, Branches, Atomics
    <2>2. Value("fli", n, entry, Skip(g).x[i.a], Operand(i, Skip(g))) = Wide(n, v)
        BY FliValue
    <2> QED
        BY <1>2, <2>1, <2>2 DEF Ran
<1>4. Writes(V, x, m, i, rd, Wide(n, v))
    BY <1>3 DEF Writes
<1> QED
    BY <1>1, <1>4

\* A line that ends by writing v to r becomes an instruction that does.
LEMMA PutLine ==
    ASSUME NEW s, NEW V, NEW a \in Nat, NEW n \in Nat \ {0}, NEW X, NEW i, NEW j, NEW m,
           NEW r \in Regs, NEW v, j = s.code[a + (n - 1)],
           Writes(V, X[n - 1], m, j, r, v), Writes(V, X[0], m, i, r, v),
           \A q \in Regs : q = r \/ X[n - 1][q] = X[0][q] \/ DeadAt(s, a + n, q)
    PROVE  LastAgrees(s, V, a, n, X, i, m)
<1> SUFFICES ASSUME NEW g, NEW h, Machine(V, g), g.x = X[n - 1], g.pc = a + (n - 1), g.m = m,
                    Machine(V, h), h.x = X[0], h.pc = a + (n - 1), h.m = m
             PROVE  /\ Ran(g, s.code[a + (n - 1)]).pc = a + n
                    /\ Agree(s, Ran(g, s.code[a + (n - 1)]), Ran(h, i))
    BY DEF LastAgrees
<1>1. Ran(g, j) = SetX(Skip(g), r, v) /\ Ran(h, i) = SetX(Skip(h), r, v)
    BY DEF Writes
<1>2. g.pc + 1 = a + n /\ g.pc = h.pc /\ g.m = h.m
    OBVIOUS
<1>3. \A q \in Regs : q = r \/ g.x[q] = h.x[q] \/ DeadAt(s, g.pc + 1, q)
    BY <1>2
<1>4. SetX(Skip(g), r, v).pc = g.pc + 1 /\ Agree(s, SetX(Skip(g), r, v), SetX(Skip(h), r, v))
    BY <1>2, <1>3, PutAgrees
<1> QED
    BY <1>1, <1>2, <1>4

\* Read-only data is where a machine is started.
LEMMA PoolCell ==
    ASSUME NEW s, NEW x, NEW m \in Memory, NEW p, NEW u \in Int, Cell(u) \in DOMAIN s.note.pool
    PROVE  Start(s, x, m, p).m[Cell(u)] = s.note.pool[Cell(u)]
<1>1. ADDR \in 0 .. XLEN
    BY HartAssumption
<1>2. Cell(u) \in 0 .. 2^ADDR - 1
    BY <1>1, LowIs DEF Cell
<1>3. DOMAIN m = 0 .. 2^ADDR - 1
    BY DEF Memory
<1> QED
    BY <1>2, <1>3 DEF Start

\* A line of two that begins with auipc, whose result is an address and may be no word.
LEMMA AuipcOnward ==
    ASSUME NEW s, NEW a \in Nat, NEW x \in [Regs -> Int], s.code[a].op = "auipc",
           s.code[a].rd \in Regs \ {0}, s.code[a].k \in Int
    PROVE  Onward(s, Int, a, 2, TwoStates(x, Put(x, s.code[a].rd, a + s.code[a].k)))
<1> DEFINE i == s.code[a]
           y == Put(x, i.rd, a + i.k)
           X == TwoStates(x, y)
<1>1. X[0] = x /\ X[1] = y
    BY DEF TwoStates
<1> HIDE DEF X
<1>2. ASSUME NEW k \in 1 .. 2 - 1, NEW g, Machine(Int, g), g.x = X[k - 1], g.pc = a + (k - 1)
      PROVE  LET z == Ran(g, s.code[a + (k - 1)])
             IN  Machine(Int, z) /\ z.x = X[k] /\ z.m = g.m /\ z.pc = a + k
    <2>1. k = 1 /\ a + (k - 1) = a /\ k - 1 = 0 /\ g.pc = a /\ g.x = x
        BY <1>1, <1>2
    <2>2. /\ Machine(Int, Ran(g, i)) /\ Ran(g, i).m = g.m /\ Ran(g, i).pc = g.pc + 1
          /\ Ran(g, i).x = [g.x EXCEPT ![i.rd] = g.pc + i.k]
        BY <1>2, RanAuipc
    <2>3. Ran(g, i).x = y
        BY <2>1, <2>2 DEF Put
    <2> QED
        BY <1>1, <2>1, <2>2, <2>3
<1>3. Onward(s, Int, a, 2, X)
    BY <1>2 DEF Onward
<1> QED
    BY <1>3 DEF X

\* check_fp_pool_to_fli.
LEMMA PoolHolds ==
    ASSUME NEW s, NEW a \in Nat \ {0}, NEW f, NEW x \in [Regs -> Words], NEW m \in Memory,
           NEW fuel \in Nat, IsSection(s), Constants(s), f \in check_fp_pool_to_fli(s, a), x[0] = 0
    PROVE  Holds(s, f, x, m, fuel)
<1> DEFINE i == s.code[a]
           j == s.code[a + 1]
           n == WidthOf(j)
           c == Cell(a + i.k + j.k)
           v == s.note.pool[c]
           y == Put(x, i.rd, a + i.k)
           X == TwoStates(x, y)
           P == /\ Window(s, a, 2) /\ rv_decode_auipc(i) /\ i.rd # 0
                /\ rv_decode_fp_load(j) /\ j.a = i.rd
                /\ c \in DOMAIN s.note.pool /\ DeadAt(s, a + 2, i.rd)
           A == UNION {Fold("fp_pool_to_fli", a, 2, Fli(n, j.rd, entry)) : entry \in rv_fli_entry(Low(n, v), n)}
<1>1. P /\ f \in A
    <2>1. check_fp_pool_to_fli(s, a) = IF P THEN A ELSE {}
        BY DEF check_fp_pool_to_fli
    <2> HIDE DEF P, A
    <2> QED
        BY <2>1
<1>2. PICK entry \in rv_fli_entry(Low(n, v), n) : f \in Fold("fp_pool_to_fli", a, 2, Fli(n, j.rd, entry))
    <2> DEFINE F(e) == Fold("fp_pool_to_fli", a, 2, Fli(n, j.rd, e))
               E == rv_fli_entry(Low(n, v), n)
    <2>1. f \in UNION {F(e) : e \in E}
        BY <1>1
    <2> HIDE DEF F, E
    <2>2. \E e \in E : f \in F(e)
        BY <2>1
    <2> QED
        BY <2>2 DEF F, E
<1>3. v \in Words /\ n \in {WORD, XLEN}
    BY <1>1 DEF Constants, WidthOf
<1>4. i \in Insns /\ j \in Insns
    BY <1>1, TwoInsns
<1>5. i.rd \in Regs \ {0} /\ i.k \in Int /\ j.rd \in Regs /\ j.k \in Int
    BY <1>1, <1>4, InsnIs
<1>6. i.op = "auipc" /\ j.op = "load" /\ IsF(j.rd) /\ j.n \in {2, 3} /\ j.a = i.rd
    BY <1>1 DEF rv_decode_auipc, rv_decode_fp_load
<1>7. x \in [Regs -> Int]
    <2>1. \A w \in Words : w \in Int
        BY HalfLemma
    <2> QED
        BY <2>1
<1>8. y[i.rd] = a + i.k /\ \A q \in Regs : q # i.rd => y[q] = x[q]
    BY <1>5, PutIs
<1>9. X[0] = x /\ X[2 - 1] = y /\ 2 \in Nat \ {0} /\ a \in Nat /\ a + (2 - 1) = a + 1
    BY DEF TwoStates
<1>10. Onward(s, Int, a, 2, X)
    BY <1>5, <1>6, <1>7, <1>9, AuipcOnward
<1> DEFINE mm == Start(s, x, m, a).m
           w == Wide(n, v)
<1>11. mm[c] = v
    <2> DEFINE u == a + i.k + j.k
    <2>1. u \in Int
        BY <1>5
    <2>2. Cell(u) \in DOMAIN s.note.pool
        BY <1>1
    <2> HIDE DEF u
    <2>3. Start(s, x, m, a).m[Cell(u)] = s.note.pool[Cell(u)]
        BY <2>1, <2>2, PoolCell
    <2> QED
        BY <2>3 DEF u
<1>12. PICK l : Fli(n, j.rd, entry) = Alone(l) /\ Writes(Int, X[0], mm, l, j.rd, w)
    <2> DEFINE x0 == X[0]
               rd == j.rd
    <2> HIDE DEF x0, rd, mm, n, v
    <2>1. \E l : Fli(n, rd, entry) = Alone(l) /\ Writes(Int, x0, mm, l, rd, Wide(n, v))
        BY <1>2, <1>3, FliRuns
    <2> QED
        BY <2>1 DEF x0, rd
<1>13. Loaded(j, v) = w
    <2>1. XLEN # WORD
        BY HartAssumption
    <2> HIDE DEF v
    <2> QED
        BY <1>6, <2>1 DEF Loaded, Wide, WidthOf
<1>14. Writes(Int, X[2 - 1], mm, j, j.rd, w)
    <2> SUFFICES ASSUME NEW g, Machine(Int, g), g.x = X[2 - 1], g.m = mm
                 PROVE  Ran(g, j) = SetX(Skip(g), j.rd, w)
        BY DEF Writes
    <2>1. Ran(g, j) = SetX(Skip(g), j.rd, Loaded(j, g.m[Cell(AccessAt(j, g.x))]))
        BY <1>6, LoadRuns
    <2>2. AccessAt(j, g.x) = a + i.k + j.k
        BY <1>6, <1>8, <1>9 DEF AccessAt
    <2> HIDE DEF w, v, mm
    <2> QED
        BY <1>11, <1>13, <2>1, <2>2
<1>15. \A q \in Regs : q = j.rd \/ X[2 - 1][q] = X[0][q] \/ DeadAt(s, a + 2, q)
    BY <1>1, <1>8, <1>9
<1>16. f \in Fold("fp_pool_to_fli", a, 2, Alone(l))
    BY <1>2, <1>12
<1>17. j = s.code[a + (2 - 1)]
    BY <1>9
<1>18. Window(s, a, 2)
    BY <1>1
<1> HIDE DEF X, y, w, j, mm, i, P, A, n, v, c
<1>19. LastAgrees(s, Int, a, 2, X, l, mm)
    BY <1>5, <1>9, <1>12, <1>14, <1>15, <1>17, PutLine
<1>20. Machine(Int, Start(s, x, m, a))
    BY <1>7, <1>9, StartMachine
<1> QED
    BY <1>9, <1>10, <1>16, <1>18, <1>19, <1>20, StraightHolds DEF mm

\* A chain and the move behind it are a window.
LEMMA ChainWindow ==
    ASSUME NEW s, IsSection(s), NEW a \in Nat \ {0}, a \in DOMAIN s.code, IsChain(s, a),
           NEW e \in Nat, Chain(s, a) = a .. a + e, NEW last, last = a + e + 1,
           InSection(s, last), ~is_branch_target(s, last), ~is_relocated(s, last)
    PROVE  /\ Window(s, a, e + 2)
           /\ \E F : ChainLine(s, a, e, F) /\ (ChainEnd(s, a) = a + e => F[a + e] = ChainValue(s, a))
<1>1. \A p \in a .. a + e : p \in DOMAIN s.code /\ \A q \in a + 1 .. p : Link(s, a, q)
    <2>1. \A p \in Chain(s, a) : p \in DOMAIN s.code /\ \A q \in a + 1 .. p : Link(s, a, q)
        BY DEF Chain
    <2> QED
        BY <2>1
<1>2. \A p \in a + 1 .. a + e : Link(s, a, p)
    <2>1. \A p \in a + 1 .. a + e : p \in a .. a + e /\ p \in a + 1 .. p
        OBVIOUS
    <2> QED
        BY <1>1, <2>1
<1>3. \A p \in a .. a + e : ~is_relocated(s, p)
    BY DEF IsChain
<1>4. a + (e + 2) - 1 = last
    OBVIOUS
<1>5. \A p \in a + 1 .. last : p = last \/ p \in a + 1 .. a + e
    OBVIOUS
<1>6. \A p \in a .. last : p = last \/ p \in a .. a + e
    OBVIOUS
<1>7. \A p \in a + 1 .. last : ~is_branch_target(s, p)
    BY <1>2, <1>5 DEF Link
<1>8. \A p \in a .. last : ~is_relocated(s, p)
    BY <1>3, <1>6
<1>9. Window(s, a, e + 2)
    BY <1>4, <1>7, <1>8 DEF Window
<1>10. CASE ChainEnd(s, a) = a + e
    <2>1. PICK F : /\ F[a] = s.code[a].k
                   /\ \A p \in a + 1 .. a + e : F[p] = li_chain_step(s.code[p], F[p - 1])
                   /\ ChainValue(s, a) = F[a + e]
        BY <1>10, ChainBuilds
    <2>2. ChainLine(s, a, e, F)
        <3>1. \A p \in a .. a + e : s.code[p] \in Insns
            BY <1>1 DEF IsSection
        <3>2. \A p \in a + 1 .. a + e : StepOf(s.code[p]) /\ s.code[p].rd = s.code[a].rd
            BY <1>2 DEF Link
        <3> QED
            BY <2>1, <3>1, <3>2 DEF ChainLine, IsChain
    <2> QED
        BY <1>9, <2>1, <2>2
<1>11. CASE ChainEnd(s, a) # a + e
    <2>1. ChainEnd(s, a) = a + Cardinality(a .. a + e) - 1
        BY DEF ChainEnd
    <2>2. a \in Int /\ a + e \in Int /\ a + e - a + 1 = e + 1 /\ ~(a > a + e)
        OBVIOUS
    <2>3. Cardinality(a .. a + e) = e + 1
        BY <2>2, FS_Interval
    <2> QED
        BY <1>11, <2>1, <2>3
<1> QED
    BY <1>10, <1>11

\* A move from an integer register.
LEMMA FmvValue ==
    ASSUME NEW n, NEW k, NEW u, NEW v
    PROVE  Value("fmv", n, k, u, v) = Wide(n, u)
<1>1. Value("fmv", n, k, u, v) = IF n = WORD THEN Boxed(u) ELSE u
    BY Zenon DEF Value
<1> QED
    BY <1>1 DEF Wide

\* check_fp_int_to_fli.
LEMMA FpIntHolds ==
    ASSUME NEW s, NEW a \in Nat \ {0}, NEW f, NEW x \in [Regs -> Words], NEW m,
           NEW fuel \in Nat, IsSection(s), a \in DOMAIN s.code, f \in check_fp_int_to_fli(s, a),
           x[0] = 0
    PROVE  Holds(s, f, x, m, fuel)
<1>1. PICK e \in Nat : Chain(s, a) = a .. a + e /\ ChainEnd(s, a) = a + e
    BY ChainInterval
<1> DEFINE last == a + e + 1
           j == s.code[last]
           v == ChainValue(s, a)
           r == s.code[a].rd
           P == /\ IsChain(s, a)
                /\ InSection(s, last) /\ ~is_branch_target(s, last) /\ ~is_relocated(s, last)
                /\ rv_decode_fmv_from_x(j) /\ j.a = s.code[a].rd
                /\ DeadAt(s, last + 1, j.a)
           F(entry) == Fold("fp_int_to_fli", a, last - a + 1, Fli(j.n, j.rd, entry))
           A == UNION {F(entry) : entry \in rv_fli_entry(Low(j.n, v), j.n)}
<1>2. P /\ f \in A
    <2>1. check_fp_int_to_fli(s, a) = IF P THEN A ELSE {}
        BY <1>1 DEF check_fp_int_to_fli
    <2> HIDE DEF P, A
    <2> QED
        BY <2>1
<1>3. PICK entry \in rv_fli_entry(Low(j.n, v), j.n) : f \in F(entry)
    <2> DEFINE E == rv_fli_entry(Low(j.n, v), j.n)
    <2>1. f \in UNION {F(t) : t \in E}
        BY <1>2
    <2> HIDE DEF F, E
    <2>2. \E t \in E : f \in F(t)
        BY <2>1
    <2> QED
        BY <2>2 DEF E
<1> DEFINE n == e + 2
<1>4. last - a + 1 = n /\ a + (n - 1) = last /\ n \in Nat \ {0} /\ a \in Nat /\ last + 1 = a + n /\ n - 1 = e + 1
    OBVIOUS
<1>5. f \in Fold("fp_int_to_fli", a, n, Fli(j.n, j.rd, entry))
    <2> HIDE DEF n, j, last
    <2> QED
        BY <1>3, <1>4
<1>6. Window(s, a, n) /\ \E G : ChainLine(s, a, e, G) /\ (ChainEnd(s, a) = a + e => G[a + e] = ChainValue(s, a))
    <2> HIDE DEF last, n
    <2>1. last = a + e + 1 /\ n = e + 2
        BY DEF last, n
    <2> QED
        BY <1>1, <1>2, <2>1, ChainWindow
<1>7. PICK G : ChainLine(s, a, e, G) /\ G[a + e] = v
    BY <1>1, <1>6
<1> DEFINE X == Built(x, r, a, G, e)
<1>8. v \in Words /\ Onward(s, Words, a, n, X)
    <2> HIDE DEF v
    <2>1. a \in Nat
        OBVIOUS
    <2> QED
        BY <1>7, <2>1, ChainOnward
<1>9. j \in Insns
    BY <1>2 DEF InSection, IsSection
<1>10. j.op = "fmv" /\ IsF(j.rd) /\ j.a = r /\ j.n \in {WORD, XLEN} /\ j.rd \in Regs /\ r \in Regs
    <2>1. j.op = "fmv" /\ IsF(j.rd) /\ j.a = r
        BY <1>2 DEF rv_decode_fmv_from_x
    <2>2. j.n \in {WORD, XLEN} /\ j.rd \in Regs /\ j.a \in Regs
        BY <1>9, <2>1 DEF Insns
    <2> QED
        BY <2>1, <2>2
<1>11. X[0] = x /\ X[n - 1] = Put(x, r, v)
    <2>1. e + 1 \in 0 .. e + 1 /\ e + 1 # 0 /\ 0 \in 0 .. e + 1 /\ a + (e + 1) - 1 = a + e
        OBVIOUS
    <2>2. Built(x, r, a, G, e)[e + 1] = Put(x, r, G[a + e])
        BY <2>1 DEF Built
    <2>3. Built(x, r, a, G, e)[0] = x
        BY <2>1 DEF Built
    <2> HIDE DEF v
    <2> QED
        BY <1>4, <1>7, <2>2, <2>3
<1> DEFINE y == Put(x, r, v)
<1> HIDE DEF X
<1>12. y[r] = v /\ \A q \in Regs : q # r => y[q] = x[q]
    <2> HIDE DEF v, r
    <2> QED
        BY <1>10, PutIs
<1> DEFINE mm == Start(s, x, m, a).m
           w == Wide(j.n, v)
<1>13. PICK l : Fli(j.n, j.rd, entry) = Alone(l) /\ Writes(Words, x, mm, l, j.rd, w)
    <2> DEFINE k == j.n
               rd == j.rd
    <2>1. k \in {WORD, XLEN} /\ v \in Words /\ entry \in rv_fli_entry(Low(k, v), k)
        BY <1>3, <1>8, <1>10
    <2> HIDE DEF k, rd, mm, v
    <2>2. \E l : Fli(k, rd, entry) = Alone(l) /\ Writes(Words, x, mm, l, rd, Wide(k, v))
        BY <2>1, FliRuns
    <2> QED
        BY <2>2 DEF k, rd
<1>14. Writes(Words, y, mm, j, j.rd, w)
    <2> SUFFICES ASSUME NEW g, Machine(Words, g), g.x = y, g.m = mm
                 PROVE  Ran(g, j) = SetX(Skip(g), j.rd, w)
        BY DEF Writes
    <2>1. Skip(g).x = g.x
        BY SkipForm
    <2>2. Ran(g, j) = SetX(Skip(g), j.rd, Value(j.op, j.n, j.k, Skip(g).x[j.a], Operand(j, Skip(g))))
        BY <1>10 DEF Ran, Exec, Branches, Atomics
    <2>3. \A t, z : Value("fmv", j.n, j.k, t, z) = Wide(j.n, t)
        BY FmvValue
    <2>4. Skip(g).x[j.a] = v
        BY <1>10, <1>12, <2>1
    <2> HIDE DEF j, v, y, mm
    <2> QED
        BY <1>10, <2>2, <2>3, <2>4
<1>15. \A q \in Regs : q = j.rd \/ X[n - 1][q] = X[0][q] \/ DeadAt(s, a + n, q)
    <2>1. DeadAt(s, last + 1, r)
        BY <1>2
    <2> HIDE DEF last, r, y
    <2>2. DeadAt(s, a + n, r)
        BY <1>4, <2>1
    <2> QED
        BY <1>11, <1>12, <2>2 DEF y
<1>16. f \in Fold("fp_int_to_fli", a, n, Alone(l))
    BY <1>5, <1>13
<1>17. j = s.code[a + (n - 1)]
    BY <1>4
<1>18. Writes(Words, X[n - 1], mm, j, j.rd, w) /\ Writes(Words, X[0], mm, l, j.rd, w)
    BY <1>11, <1>13, <1>14
<1>19. j.rd \in Regs
    BY <1>10
<1> HIDE DEF X, y, w, j, mm, P, A, F, n, v, last, r
<1>20. LastAgrees(s, Words, a, n, X, l, mm)
    BY <1>4, <1>15, <1>17, <1>18, <1>19, PutLine
<1> QED
    BY <1>4, <1>6, <1>8, <1>11, <1>16, <1>20, LineHolds DEF mm

\* Out after four steps.
LEMMA LeavingFour ==
    ASSUME NEW prog, NEW S, NEW h, NEW n \in Nat, 4 <= n, NEW h1, NEW h2, NEW h3,
           h1 = Step(prog, S, h), h2 = Step(prog, S, h1), h3 = Step(prog, S, h2),
           Step(prog, S, h3).pc \notin S
    PROVE  Leaving(prog, S, h, n) = Step(prog, S, h3)
<1>1. n - 1 \in Nat /\ n = (n - 1) + 1 /\ 3 <= n - 1
    OBVIOUS
<1>2. Leaving(prog, S, h, n) = Leaving(prog, S, h1, n - 1)
    BY <1>1, LeavingNext
<1>3. Leaving(prog, S, h1, n - 1) = Step(prog, S, h3)
    BY <1>1, LeavingThree
<1> QED
    BY <1>2, <1>3

\* Three instructions at one place run one after another.
LEMMA ExecThree ==
    ASSUME NEW h, NEW i, NEW j, NEW k
    PROVE  ExecAll(h, <<i, j, k>>) = Exec(Exec(Exec(h, i), j), k)
<1> DEFINE is == <<i, j, k>>
<1>1. Len(is) = 3 /\ Len(is) \in Nat /\ is[1] = i /\ is[2] = j /\ is[3] = k
    OBVIOUS
<1> HIDE DEF is
<1>2. PICK f : /\ \A l \in 0 .. Len(is) : f[l] = IF l = 0 THEN h ELSE Exec(f[l - 1], is[l])
               /\ ExecAll(h, is) = f[Len(is)]
    <2>1. Len(is) \in Nat
        BY <1>1
    <2> QED
        BY <2>1, ExecRun
<1>3. f[0] = h /\ f[1] = Exec(f[0], is[1]) /\ f[2] = Exec(f[1], is[2]) /\ f[3] = Exec(f[2], is[3])
    BY <1>1, <1>2
<1> QED
    BY <1>1, <1>2, <1>3 DEF is

\* The n low bits and the word they are extended to say the same.
LEMMA SextFromLow ==
    ASSUME NEW n \in 1 .. XLEN, NEW v \in Int
    PROVE  /\ Sext(n, v) = IF Low(n, v) < 2^(n - 1) THEN Low(n, v) ELSE Low(n, v) - 2 * 2^(n - 1)
           /\ Low(n, v) \in 0 .. 2 * 2^(n - 1) - 1 /\ 2^(n - 1) \in Nat \ {0}
<1> DEFINE h == 2^(n - 1)
<1>1. h \in Nat \ {0} /\ 2^n = 2 * h
    BY PowerNext
<1>2. Low(n, v) = v % (2 * h) /\ Sext(n, v) = ((v + h) % (2 * h)) - h
    BY <1>1 DEF Low, Sext
<1> DEFINE q == 2 * h
           d == v \div q
           r == v % q
<1> HIDE DEF h
<1>3. q \in Nat \ {0} /\ q = 2 * h
    BY <1>1
<1> HIDE DEF q
<1>4. d \in Int /\ r \in 0 .. q - 1 /\ v = d * q + r
    <2>1. q \in Nat \ {0}
        BY <1>3
    <2> QED
        BY <2>1
<1> HIDE DEF d, r
<1>5. CASE r < h
    <2>1. v + h = d * q + (r + h) /\ r + h \in 0 .. q - 1
        <3> DEFINE dq == d * q
        <3>1. dq \in Int /\ v = dq + r
            BY <1>3, <1>4
        <3> HIDE DEF dq
        <3> QED
            BY <1>1, <1>3, <1>4, <1>5, <3>1 DEF dq
    <2>2. (v + h) % q = r + h
        BY <1>1, <1>3, <1>4, <2>1, ModIs
    <2>3. r + h - h = r
        BY <1>1, <1>4
    <2> QED
        BY <1>1, <1>2, <1>3, <1>4, <1>5, <2>2, <2>3 DEF r, q, h
<1>6. CASE ~(r < h)
    <2>1. v + h = (d + 1) * q + (r - h) /\ r - h \in 0 .. q - 1
        <3> DEFINE dq == d * q
        <3>1. dq \in Int /\ v = dq + r /\ (d + 1) * q = dq + q
            BY <1>3, <1>4
        <3> HIDE DEF dq
        <3> QED
            BY <1>1, <1>3, <1>4, <1>6, <3>1
    <2>2. (v + h) % q = r - h
        <3>1. d + 1 \in Int /\ v + h \in Int /\ q \in Nat \ {0}
            BY <1>1, <1>3, <1>4
        <3> QED
            BY <2>1, <3>1, ModIs
    <2>3. r - h - h = r - q
        BY <1>1, <1>3, <1>4
    <2> QED
        BY <1>1, <1>2, <1>3, <1>4, <1>6, <2>2, <2>3 DEF r, q, h
<1> QED
    BY <1>5, <1>6

\* Two numbers have the same n low bits where they extend to the same word.
LEMMA LowMeansSext ==
    ASSUME NEW n \in 1 .. XLEN, NEW u \in Int, NEW v \in Int
    PROVE  Low(n, u) = Low(n, v) <=> Sext(n, u) = Sext(n, v)
<1> DEFINE h == 2^(n - 1)
           a == Low(n, u)
           b == Low(n, v)
           c == Sext(n, u)
           d == Sext(n, v)
<1>1. c = IF a < h THEN a ELSE a - 2 * h
    BY SextFromLow
<1>2. d = IF b < h THEN b ELSE b - 2 * h
    BY SextFromLow
<1>3. a \in 0 .. 2 * h - 1 /\ b \in 0 .. 2 * h - 1 /\ h \in Nat \ {0}
    BY SextFromLow
<1> HIDE DEF a, b, c, d, h
<1>4. a = b <=> c = d
    BY <1>1, <1>2, <1>3
<1> QED
    BY <1>4 DEF a, b, c, d

\* What a compare-exchange compares, where a word is its own extension.
LEMMA Compared ==
    ASSUME NEW n \in {WORD, XLEN}, NEW u \in Int, NEW e \in Words, n = WORD => e = 0
    PROVE  Low(n, u) = Low(n, e) <=> Sext(n, u) = e
<1>1. n \in 1 .. XLEN /\ WORD \in 1 .. XLEN /\ e \in Int
    BY HalfLemma, HartAssumption
<1>2. Sext(n, e) = e
    <2>1. CASE n = XLEN
        BY <2>1, SextOwn
    <2>2. CASE n = WORD
        <3> DEFINE h == 2^(n - 1)
        <3>1. h \in Nat \ {0}
            BY <1>1, PowerNext
        <3> HIDE DEF h
        <3>2. 0 \in 0 .. h - 1
            BY <3>1
        <3>3. Sext(n, 0) = 0
            BY <1>1, <3>2, SextSmall DEF h
        <3> QED
            BY <2>2, <3>3
    <2> QED
        BY <2>1, <2>2
<1> QED
    BY <1>1, <1>2, LowMeansSext

\* A machine by its parts.
Hart4(x, m, p, q) == [x |-> x, m |-> m, pc |-> p, res |-> q]

\* Such a machine goes on by an address.
LEMMA HartSkips ==
    ASSUME NEW x, NEW m, NEW p \in Int, NEW q
    PROVE  Skip(Hart4(x, m, p, q)) = Hart4(x, m, p + 1, q)
    BY DEF Skip, Hart4

\* Such a machine writes a register.
LEMMA HartPuts ==
    ASSUME NEW x, NEW m, NEW p, NEW q, NEW r, NEW v, r # 0
    PROVE  SetX(Hart4(x, m, p, q), r, v) = Hart4(Put(x, r, v), m, p, q)
    BY DEF SetX, Hart4, Put

\* Where an atomic works, what it loads and lays there, and whether what is there is
\* what a compare-exchange expects.
Loc(i, x) == Cell(x[i.a])
Got(i, x, m) == Sext(i.n, m[Loc(i, x)])
Laid(i, x) == Sext(i.n, x[i.b])
Meets(i, x, m) == Low(i.n, m[Loc(i, x)]) = Low(i.n, x[i.rd])
Atomic(i, op) == i.op = op /\ i.rd # 0

\* What lr does: it loads the cell and reserves it.
LEMMA ExecLr ==
    ASSUME NEW x, NEW m, NEW p, NEW q, NEW i, Atomic(i, "lr")
    PROVE  Exec(Hart4(x, m, p, q), i) = Hart4(Put(x, i.rd, Got(i, x, m)), m, p, {Loc(i, x)})
<1> DEFINE h == Hart4(x, m, p, q)
           c == Loc(i, x)
           v == Got(i, x, m)
<1>1. h.x = x /\ h.m = m
    BY DEF Hart4
<1>2. Exec(h, i) = ExecAtomic(h, i) /\ i.op = "lr" /\ i.rd # 0
    BY DEF Exec, Branches, Atomics, Atomic
<1> HIDE DEF h
<1>3. ExecAtomic(h, i) = [SetX(h, i.rd, v) EXCEPT !.res = {c}]
    BY <1>1, <1>2 DEF ExecAtomic, Loc, Got
<1> HIDE DEF c, v
<1>4. SetX(h, i.rd, v) = Hart4(Put(x, i.rd, v), m, p, q)
    BY <1>2, HartPuts DEF h
<1>5. [SetX(h, i.rd, v) EXCEPT !.res = {c}] = Hart4(Put(x, i.rd, v), m, p, {c})
    BY <1>4 DEF Hart4
<1> QED
    BY <1>2, <1>3, <1>5 DEF h, c, v

\* A conditional store by the parts of the machine.
LEMMA StoredIs ==
    ASSUME NEW x, NEW m, NEW p, NEW q, NEW c, NEW v
    PROVE  Stored(Hart4(x, m, p, q), c, v) = Hart4(x, Put(m, c, v), p, {})
<1> DEFINE h == Hart4(x, m, p, q)
           mm == Put(m, c, v)
<1>1. Stored(h, c, v) = [[h EXCEPT !.m[c] = v] EXCEPT !.res = {}]
    <2> HIDE DEF h
    <2> QED
        BY Zenon DEF Stored
<1>2. [h EXCEPT !.m[c] = v] = Hart4(x, mm, p, q)
    BY DEF Hart4, Put
<1> HIDE DEF h, mm
<1>3. [Hart4(x, mm, p, q) EXCEPT !.res = {}] = Hart4(x, mm, p, {})
    BY DEF Hart4
<1> QED
    BY <1>1, <1>2, <1>3 DEF h, mm

\* What sc does while its cell is reserved: it stores, and says so with a zero.
LEMMA ExecSc ==
    ASSUME NEW x, NEW m, NEW p, NEW q, NEW i, Atomic(i, "sc"), Loc(i, x) \in q
    PROVE  Exec(Hart4(x, m, p, q), i) =
               Hart4(Put(x, i.rd, 0), Put(m, Loc(i, x), Laid(i, x)), p, {})
<1> DEFINE h == Hart4(x, m, p, q)
           c == Loc(i, x)
           v == Laid(i, x)
           mm == Put(m, c, v)
<1>1. h.x = x /\ h.m = m /\ h.res = q
    BY DEF Hart4
<1>2. Exec(h, i) = ExecAtomic(h, i) /\ i.op = "sc" /\ i.rd # 0
    BY DEF Exec, Branches, Atomics, Atomic
<1> HIDE DEF h
<1>3. ExecAtomic(h, i) = IF c \in h.res THEN SetX(Stored(h, c, v), i.rd, 0)
                                        ELSE SetX([h EXCEPT !.res = {}], i.rd, 1)
    BY <1>1, <1>2 DEF ExecAtomic, Stored, Loc, Laid
<1> HIDE DEF c, v
<1>4. Exec(h, i) = SetX(Stored(h, c, v), i.rd, 0)
    BY <1>1, <1>2, <1>3 DEF c
<1>5. Stored(h, c, v) = Hart4(x, mm, p, {})
    BY StoredIs DEF h
<1> HIDE DEF mm
<1>6. SetX(Hart4(x, mm, p, {}), i.rd, 0) = Hart4(Put(x, i.rd, 0), mm, p, {})
    BY <1>2, HartPuts
<1> QED
    BY <1>4, <1>5, <1>6 DEF h, mm, c, v

\* What a compare-exchange does: it loads the cell, and stores where it met what it expects.
LEMMA ExecAmocas ==
    ASSUME NEW x, NEW m, NEW p, NEW q, NEW i, Atomic(i, "amocas")
    PROVE  Exec(Hart4(x, m, p, q), i) =
               IF Meets(i, x, m)
               THEN Hart4(Put(x, i.rd, Got(i, x, m)), Put(m, Loc(i, x), Laid(i, x)), p, {})
               ELSE Hart4(Put(x, i.rd, Got(i, x, m)), m, p, q)
<1> DEFINE h == Hart4(x, m, p, q)
           c == Loc(i, x)
           w == Laid(i, x)
           v == Got(i, x, m)
           mm == Put(m, c, w)
<1>1. h.x = x /\ h.m = m
    BY DEF Hart4
<1>2. Exec(h, i) = ExecAtomic(h, i) /\ i.op = "amocas" /\ i.rd # 0
    BY DEF Exec, Branches, Atomics, Atomic
<1> HIDE DEF h
<1>3. ExecAtomic(h, i) = SetX(IF Meets(i, x, m) THEN Stored(h, c, w) ELSE h, i.rd, v)
    BY <1>1, <1>2 DEF ExecAtomic, Stored, Loc, Laid, Got, Meets
<1> HIDE DEF c, v, w
<1>4. Stored(h, c, w) = Hart4(x, mm, p, {})
    BY StoredIs DEF h
<1> HIDE DEF mm
<1>5. SetX(Hart4(x, mm, p, {}), i.rd, v) = Hart4(Put(x, i.rd, v), mm, p, {})
    BY <1>2, HartPuts
<1>6. SetX(h, i.rd, v) = Hart4(Put(x, i.rd, v), m, p, q)
    BY <1>2, HartPuts DEF h
<1>7. Exec(h, i) = IF Meets(i, x, m) THEN Hart4(Put(x, i.rd, v), mm, p, {})
                                     ELSE Hart4(Put(x, i.rd, v), m, p, q)
    BY <1>2, <1>3, <1>4, <1>5, <1>6
<1> QED
    BY <1>7 DEF h, c, v, w, mm

\* What bne does, whatever it compares.
LEMMA ExecBne ==
    ASSUME NEW x, NEW m, NEW p, NEW q, NEW i, i.op = "bne", i.b # Imm
    PROVE  Exec(Hart4(x, m, p, q), i) = Hart4(x, m, IF x[i.a] # x[i.b] THEN i.to ELSE p, q)
<1> DEFINE h == Hart4(x, m, p, q)
<1>1. h.x = x
    BY DEF Hart4
<1>2. Taken("bne", x[i.a], x[i.b]) = (x[i.a] # x[i.b])
    BY TakenIs
<1>3. Exec(h, i) = IF Taken(i.op, h.x[i.a], Operand(i, h)) THEN [h EXCEPT !.pc = i.to] ELSE h
    BY DEF Exec, Branches, Atomics
<1>4. Operand(i, h) = x[i.b]
    BY <1>1 DEF Operand
<1>5. Exec(h, i) = IF x[i.a] # x[i.b] THEN [h EXCEPT !.pc = i.to] ELSE h
    <2> HIDE DEF h
    <2> QED
        BY <1>1, <1>2, <1>3, <1>4
<1>6. [h EXCEPT !.pc = i.to] = Hart4(x, m, i.to, q)
    BY DEF Hart4
<1> HIDE DEF h
<1>7. CASE x[i.a] # x[i.b]
    BY <1>5, <1>6, <1>7 DEF h
<1>8. CASE x[i.a] = x[i.b]
    BY <1>5, <1>8 DEF h
<1> QED
    BY <1>7, <1>8

\* What a move does.
LEMMA ExecMv ==
    ASSUME NEW x \in [Regs -> Words], NEW m, NEW p, NEW q, NEW rd, NEW e \in Regs, rd # 0
    PROVE  Exec(Hart4(x, m, p, q), I("add", rd, e, 0)) = Hart4(Put(x, rd, x[e]), m, p, q)
<1> DEFINE h == Hart4(x, m, p, q)
           i == I("add", rd, e, 0)
<1>1. i.op = "add" /\ i.n = XLEN /\ i.rd = rd /\ i.a = e /\ i.b = Imm /\ i.k = 0
    BY DEF I, Insn
<1>2. h.x = x
    BY DEF Hart4
<1> HIDE DEF i
<1>3. Exec(h, i) = SetX(h, i.rd, Value(i.op, i.n, i.k, h.x[i.a], Operand(i, h)))
    BY <1>1 DEF Exec, Branches, Atomics
<1>4. Operand(i, h) = 0
    BY <1>1 DEF Operand
<1>5. Value("add", XLEN, 0, x[e], 0) = x[e]
    <2> DEFINE u == x[e]
    <2>1. u \in Words
        OBVIOUS
    <2> HIDE DEF u
    <2>2. Value("add", XLEN, 0, u, 0) = Sext(XLEN, u + 0)
        BY PlainValues
    <2>3. u + 0 = u
        BY <2>1, HalfLemma
    <2> QED
        BY <2>1, <2>2, <2>3, SextOwn DEF u
<1>6. Exec(h, i) = SetX(h, rd, x[e])
    <2> HIDE DEF h
    <2> QED
        BY <1>1, <1>2, <1>3, <1>4, <1>5
<1> QED
    BY <1>6, HartPuts DEF i

-------------------------------------------------------------------------------
(* A compare-exchange, spelled out and in one.                             *)

\* What the check has made sure of, where it is not one of the known ones: e is the
\* register that is expected.
IsCas(lr, out, sc, back, e) ==
    /\ lr.op = "lr" /\ lr.rd \in Regs \ {0} /\ lr.a \in Regs /\ lr.n \in {WORD, XLEN}
    /\ e \in Regs /\ lr.rd # e /\ lr.rd # lr.a /\ (lr.n = WORD => e = 0)
    /\ out.op = "bne" /\ out.b # Imm
    /\ (out.a = lr.rd /\ out.b = e) \/ (out.a = e /\ out.b = lr.rd)
    /\ sc.op = "sc" /\ sc.a = lr.a /\ sc.n = lr.n /\ sc.rd \in Regs \ {0} /\ sc.b \in Regs
    /\ back.op = "bne" /\ back.b # Imm /\ back.a \in {sc.rd, 0} /\ back.b \in {sc.rd, 0}

\* y is x with v in the place of what is loaded.
IsSeen(lr, out, e, x, v, y) ==
    /\ y \in [Regs -> Words] /\ y[0] = 0 /\ y[lr.rd] = v /\ y[lr.a] = x[lr.a]
    /\ (y[out.a] # y[out.b] <=> v # x[e])

\* The registers once the value is loaded, or what is expected is in its place.
LEMMA CasRegisters ==
    ASSUME NEW lr, NEW out, NEW sc, NEW back, NEW e, NEW x \in [Regs -> Words], NEW v \in Words,
           IsCas(lr, out, sc, back, e), x[0] = 0
    PROVE  IsSeen(lr, out, e, x, v, Put(x, lr.rd, v))
<1> DEFINE y == Put(x, lr.rd, v)
<1>1. 0 \in Regs /\ lr.rd \in Regs \ {0} /\ lr.a \in Regs /\ e \in Regs /\ lr.rd # e /\ lr.rd # lr.a
    BY HartAssumption DEF IsCas
<1>2. y[lr.rd] = v /\ \A q \in Regs : q # lr.rd => y[q] = x[q]
    BY <1>1 DEF Put
<1>3. y \in [Regs -> Words]
    BY <1>1 DEF Put
<1> HIDE DEF y
<1>4. y[out.a] # y[out.b] <=> v # x[e]
    BY <1>1, <1>2 DEF IsCas
<1>5. y[0] = 0 /\ y[lr.a] = x[lr.a]
    BY <1>1, <1>2
<1> QED
    BY <1>2, <1>3, <1>4, <1>5 DEF y, IsSeen

\* Of two writes of a register the second stays.
LEMMA PutTwice ==
    ASSUME NEW x \in [Regs -> Words], NEW r \in Regs, NEW u, NEW v
    PROVE  Put(Put(x, r, u), r, v) = Put(x, r, v)
    BY DEF Put

\* The shape of the loop, taken apart.
LEMMA CasAtomics ==
    ASSUME NEW lr, NEW out, NEW sc, NEW back, NEW e, IsCas(lr, out, sc, back, e)
    PROVE  /\ Atomic(lr, "lr") /\ Atomic(sc, "sc") /\ sc.a = lr.a /\ sc.n = lr.n
           /\ out.op = "bne" /\ out.b # Imm /\ back.op = "bne" /\ back.b # Imm
           /\ lr.rd \in Regs \ {0} /\ sc.rd \in Regs \ {0} /\ lr.n \in {WORD, XLEN} /\ e \in Regs
           /\ (lr.n = WORD => e = 0)
           /\ back.a \in {sc.rd, 0} /\ back.b \in {sc.rd, 0}
    BY DEF IsCas, Atomic

\* The registers and the memory behind the load, and behind the store.
Seen(lr, x, m) == Put(x, lr.rd, Got(lr, x, m))
Kept(lr, sc, x, m) == Put(m, Loc(lr, x), Laid(sc, Seen(lr, x, m)))

\* The conditional store of the loop succeeds: the cell is still reserved.
LEMMA CasSc ==
    ASSUME NEW lr, NEW out, NEW sc, NEW back, NEW e, NEW x \in [Regs -> Words], NEW m, NEW p,
           IsCas(lr, out, sc, back, e), x[0] = 0, Got(lr, x, m) \in Words
    PROVE  Exec(Hart4(Seen(lr, x, m), m, p, {Loc(lr, x)}), sc) =
                Hart4(Put(Seen(lr, x, m), sc.rd, 0), Kept(lr, sc, x, m), p, {})
<1> DEFINE y == Seen(lr, x, m)
           v == Got(lr, x, m)
           q == {Loc(lr, x)}
<1>1. y[lr.a] = x[lr.a]
    <2>1. y = Put(x, lr.rd, v)
        BY DEF Seen
    <2> HIDE DEF y, v
    <2>2. v \in Words
        BY DEF v
    <2>3. IsSeen(lr, out, e, x, v, y)
        BY <2>1, <2>2, CasRegisters
    <2> QED
        BY <2>3 DEF IsSeen
<1>2. Atomic(sc, "sc") /\ sc.a = lr.a
    BY CasAtomics
<1>3. Loc(sc, y) = Loc(lr, x)
    <2> HIDE DEF y
    <2> QED
        BY <1>1, <1>2 DEF Loc
<1>4. Loc(sc, y) \in q
    BY <1>3
<1> HIDE DEF y, q
<1>5. Exec(Hart4(y, m, p, q), sc) = Hart4(Put(y, sc.rd, 0), Put(m, Loc(sc, y), Laid(sc, y)), p, {})
    BY <1>2, <1>4, ExecSc
<1> QED
    BY <1>3, <1>5 DEF y, q, Kept

\* Back to the start it never goes where the store went through.
LEMMA CasBack ==
    ASSUME NEW lr, NEW out, NEW sc, NEW back, NEW e, NEW y \in [Regs -> Words], NEW m, NEW p, NEW q,
           IsCas(lr, out, sc, back, e), y[0] = 0
    PROVE  Exec(Hart4(Put(y, sc.rd, 0), m, p, q), back) = Hart4(Put(y, sc.rd, 0), m, p, q)
<1> DEFINE z == Put(y, sc.rd, 0)
<1>1. /\ back.op = "bne" /\ back.b # Imm /\ sc.rd \in Regs \ {0}
      /\ back.a \in {sc.rd, 0} /\ back.b \in {sc.rd, 0}
    BY CasAtomics
<1>2. z[back.a] = z[back.b]
    <2>1. 0 \in Regs
        BY HartAssumption
    <2>2. z[sc.rd] = 0 /\ z[0] = 0
        BY <1>1, <2>1 DEF Put
    <2> QED
        BY <1>1, <2>2
<1> HIDE DEF z
<1>3. Exec(Hart4(z, m, p, q), back) = Hart4(z, m, IF z[back.a] # z[back.b] THEN back.to ELSE p, q)
    BY <1>1, ExecBne
<1> QED
    BY <1>2, <1>3 DEF z

\* Out where what was loaded is not what is expected.
Goes(lr, out, e, x, m, p) == IF Got(lr, x, m) # x[e] THEN out.to ELSE p

\* Out of the loop where what was loaded is not what is expected, past it where it is.
LEMMA CasOut ==
    ASSUME NEW lr, NEW out, NEW sc, NEW back, NEW e, NEW x \in [Regs -> Words], NEW m, NEW mm,
           NEW p, NEW q, IsCas(lr, out, sc, back, e), x[0] = 0, Got(lr, x, m) \in Words
    PROVE  Exec(Hart4(Seen(lr, x, m), mm, p, q), out) =
                Hart4(Seen(lr, x, m), mm, Goes(lr, out, e, x, m, p), q)
<1> DEFINE y == Seen(lr, x, m)
           v == Got(lr, x, m)
<1>1. y[out.a] # y[out.b] <=> v # x[e]
    <2>1. y = Put(x, lr.rd, v)
        BY DEF Seen
    <2> HIDE DEF y, v
    <2>2. v \in Words
        BY DEF v
    <2>3. IsSeen(lr, out, e, x, v, y)
        BY <2>1, <2>2, CasRegisters
    <2> QED
        BY <2>3 DEF IsSeen
<1>2. out.op = "bne" /\ out.b # Imm
    BY CasAtomics
<1> HIDE DEF y, v
<1>3. Exec(Hart4(y, mm, p, q), out) = Hart4(y, mm, IF y[out.a] # y[out.b] THEN out.to ELSE p, q)
    BY <1>2, ExecBne
<1> QED
    BY <1>1, <1>3 DEF y, v, Goes

\* The three that take its place.
MoveIn(lr, e) == I("add", lr.rd, e, 0)
Amocas(lr, sc) == Insn("amocas", lr.n, lr.rd, lr.a, sc.b, 0, 0)

\* What the move, the compare-exchange and the branch do together.
LEMMA CasPatch ==
    ASSUME NEW lr, NEW out, NEW sc, NEW back, NEW e, NEW x \in [Regs -> Words], NEW m, NEW p,
           IsCas(lr, out, sc, back, e), x[0] = 0, Got(lr, x, m) \in Words,
           m[Loc(lr, x)] \in Int
    PROVE  ExecAll(Hart4(x, m, p, {}), <<MoveIn(lr, e), Amocas(lr, sc), out>>) =
                IF Got(lr, x, m) # x[e] THEN Hart4(Seen(lr, x, m), m, out.to, {})
                                        ELSE Hart4(Seen(lr, x, m), Kept(lr, sc, x, m), p, {})
<1> DEFINE d == Put(x, lr.rd, x[e])
           i == MoveIn(lr, e)
           j == Amocas(lr, sc)
           v == Got(lr, x, m)
           y == Seen(lr, x, m)
           mm == Kept(lr, sc, x, m)
           c == Loc(lr, x)
           q0 == {}
<1>1. /\ lr.rd \in Regs \ {0} /\ lr.n \in {WORD, XLEN} /\ e \in Regs /\ (lr.n = WORD => e = 0)
      /\ sc.n = lr.n
    BY CasAtomics
<1>2. x[e] \in Words
    BY <1>1
<1>3. d[lr.rd] = x[e] /\ d[lr.a] = x[lr.a] /\ Put(d, lr.rd, v) = y
    <2> DEFINE u == x[e]
    <2>1. d = Put(x, lr.rd, u) /\ u \in Words
        BY <1>2
    <2> HIDE DEF u, d
    <2>4. IsSeen(lr, out, e, x, u, d)
        BY <2>1, CasRegisters
    <2>2. d[lr.rd] = u /\ d[lr.a] = x[lr.a]
        BY <2>4 DEF IsSeen
    <2>3. Put(d, lr.rd, v) = Put(x, lr.rd, v)
        BY <1>1, <2>1, PutTwice
    <2> QED
        BY <2>2, <2>3 DEF u, Seen
<1>4. j.op = "amocas" /\ j.rd = lr.rd /\ j.a = lr.a /\ j.b = sc.b /\ j.n = lr.n /\ Atomic(j, "amocas")
    BY <1>1 DEF Amocas, Insn, Atomic
<1>5. Meets(j, d, m) <=> v = x[e]
    <2> DEFINE n == lr.n
               u == m[c]
               w == x[e]
    <2>1. n \in {WORD, XLEN} /\ u \in Int /\ w \in Words /\ (n = WORD => w = 0)
        BY <1>1, <1>2
    <2> HIDE DEF n, u, w, d, j, c
    <2>2. Low(n, u) = Low(n, w) <=> Sext(n, u) = w
        BY <2>1, Compared
    <2>3. Loc(j, d) = c
        BY <1>3, <1>4 DEF Loc, c
    <2>4. Meets(j, d, m) = (Low(n, u) = Low(n, w))
        BY <1>3, <1>4, <2>3 DEF Meets, n, u, w
    <2>5. v = Sext(n, u)
        BY DEF Got, n, u, c
    <2> QED
        BY <2>2, <2>4, <2>5 DEF w
<1> HIDE DEF d, i, j, q0, v, y, mm, c
<1>6. ExecAll(Hart4(x, m, p, q0), <<i, j, out>>) = Exec(Exec(Exec(Hart4(x, m, p, q0), i), j), out)
    BY ExecThree
<1>7. Exec(Hart4(x, m, p, q0), i) = Hart4(d, m, p, q0)
    <2> DEFINE r == lr.rd
    <2>1. r # 0
        BY <1>1
    <2> HIDE DEF r
    <2>2. Exec(Hart4(x, m, p, q0), I("add", r, e, 0)) = Hart4(Put(x, r, x[e]), m, p, q0)
        BY <1>1, <2>1, ExecMv
    <2> QED
        BY <2>2 DEF r, i, d, MoveIn
<1>8. Got(j, d, m) = v /\ Loc(j, d) = c
    BY <1>3, <1>4 DEF Got, Loc, v, c
<1>9. Exec(Hart4(d, m, p, q0), j) = IF v = x[e] THEN Hart4(y, Put(m, c, Laid(j, d)), p, {})
                                              ELSE Hart4(y, m, p, q0)
    <2>1. Exec(Hart4(d, m, p, q0), j) =
               IF Meets(j, d, m)
               THEN Hart4(Put(d, j.rd, Got(j, d, m)), Put(m, Loc(j, d), Laid(j, d)), p, {})
               ELSE Hart4(Put(d, j.rd, Got(j, d, m)), m, p, q0)
        BY <1>4, ExecAmocas
    <2> QED
        BY <1>3, <1>4, <1>5, <1>8, <2>1
<1>10. v = x[e] => Put(m, c, Laid(j, d)) = mm
    <2>1. v = x[e] => d = y
        BY DEF d, y, v, Seen
    <2>2. Laid(j, y) = Laid(sc, y)
        BY <1>1, <1>4 DEF Laid
    <2>3. mm = Put(m, c, Laid(sc, y))
        BY DEF mm, c, y, Kept
    <2> QED
        BY <2>1, <2>2, <2>3
<1> DEFINE o == Goes(lr, out, e, x, m, p)
<1>11. o = (IF v # x[e] THEN out.to ELSE p) /\ Got(lr, x, m) \in Words
    BY DEF Goes, v
<1> HIDE DEF o
<1>12. ASSUME v # x[e]
       PROVE  ExecAll(Hart4(x, m, p, q0), <<i, j, out>>) = Hart4(y, m, out.to, q0)
    <2>1. Exec(Hart4(y, m, p, q0), out) = Hart4(y, m, out.to, q0)
        BY <1>11, <1>12, CasOut DEF y, o
    <2> QED
        BY <1>6, <1>7, <1>9, <1>12, <2>1
<1>13. ASSUME v = x[e]
       PROVE  ExecAll(Hart4(x, m, p, q0), <<i, j, out>>) = Hart4(y, mm, p, {})
    <2>1. Exec(Hart4(y, mm, p, {}), out) = Hart4(y, mm, p, {})
        BY <1>11, <1>13, CasOut DEF y, o
    <2> QED
        BY <1>6, <1>7, <1>9, <1>10, <1>13, <2>1
<1> DEFINE z == ExecAll(Hart4(x, m, p, q0), <<i, j, out>>)
<1>14. z = IF v # x[e] THEN Hart4(y, m, out.to, q0) ELSE Hart4(y, mm, p, {})
    <2> HIDE DEF z
    <2> QED
        BY <1>12, <1>13 DEF z
<1> QED
    BY <1>14 DEF i, j, q0, v, y, mm

\* What a machine starts with in its memory.
Begun(s, m) == [c \in DOMAIN m |-> IF c \in DOMAIN s.note.pool THEN s.note.pool[c] ELSE m[c]]

\* A machine that starts, by its parts.
LEMMA StartIs ==
    ASSUME NEW s, NEW x, NEW m \in Memory, NEW p, Constants(s)
    PROVE  Start(s, x, m, p) = Hart4(x, Begun(s, m), p, {}) /\ Begun(s, m) \in Memory
    BY DEF Start, Hart4, Begun, Memory, Constants

\* What is in the cell of an atomic is a word.
LEMMA LocIs ==
    ASSUME NEW i, NEW x \in [Regs -> Words], i.a \in Regs, NEW m \in Memory
    PROVE  m[Loc(i, x)] \in Words
<1> DEFINE u == x[i.a]
<1>0. u \in Words
    OBVIOUS
<1> HIDE DEF u
<1>1. u \in Int /\ ADDR \in 0 .. XLEN
    BY <1>0, HalfLemma, HartAssumption
<1>2. Cell(u) \in 0 .. 2^ADDR - 1
    BY <1>1, LowIs DEF Cell
<1> QED
    BY <1>2 DEF Loc, Memory, u

\* A step of a machine, in the code and in the patch.
LEMMA HartSteps ==
    ASSUME NEW s, NEW S, NEW x, NEW m, NEW p \in Int, NEW q, p \in S, p \in DOMAIN s.code
    PROVE  Step(Plain(s), S, Hart4(x, m, p, q)) = Exec(Hart4(x, m, p + 1, q), s.code[p])
<1> DEFINE h == Hart4(x, m, p, q)
<1>1. h.pc = p
    BY DEF Hart4
<1>2. Skip(h) = Hart4(x, m, p + 1, q)
    BY HartSkips
<1> HIDE DEF h
<1>3. Step(Plain(s), S, h) = Ran(h, s.code[h.pc])
    BY <1>1, PlainStep
<1> QED
    BY <1>1, <1>2, <1>3 DEF Ran, h

\* A step of a machine, in the patch.
LEMMA HartPatched ==
    ASSUME NEW s, NEW f, NEW x, NEW m, NEW p \in Int, NEW q, p \in DOMAIN f.patch, p \in DOMAIN s.code
    PROVE  Step(Patched(s, f), DOMAIN f.patch, Hart4(x, m, p, q)) =
                ExecAll(Hart4(x, m, p + 1, q), f.patch[p])
<1> DEFINE h == Hart4(x, m, p, q)
           is == f.patch[p]
<1>1. h.pc = p
    BY DEF Hart4
<1>2. Skip(h) = Hart4(x, m, p + 1, q)
    BY HartSkips
<1>3. Patched(s, f)[p] = is
    BY DEF Patched
<1> HIDE DEF h, is
<1>4. Step(Patched(s, f), DOMAIN f.patch, h) = ExecAll(Skip(h), Patched(s, f)[h.pc])
    BY <1>1 DEF Step, Skip
<1> QED
    BY <1>1, <1>2, <1>3, <1>4 DEF h, is

\* A step over a place that is left empty.
LEMMA HartGone ==
    ASSUME NEW s, NEW f, NEW x, NEW m, NEW p \in Int, NEW q, p \in DOMAIN f.patch, p \in DOMAIN s.code,
           f.patch[p] = Gone
    PROVE  Step(Patched(s, f), DOMAIN f.patch, Hart4(x, m, p, q)) = Hart4(x, m, p + 1, q)
    BY HartPatched, ExecNone DEF Gone

\* The four places of the loop.
IsLoop(s, f, a, lr, out, sc, back, e) ==
    /\ DOMAIN f.patch = a .. a + 3 /\ a .. a + 3 \subseteq DOMAIN s.code
    /\ s.code[a] = lr /\ s.code[a + 1] = out /\ s.code[a + 2] = sc /\ s.code[a + 3] = back
    /\ f.patch[a] = <<MoveIn(lr, e), Amocas(lr, sc), out>>
    /\ f.patch[a + 1] = Gone /\ f.patch[a + 2] = Gone /\ f.patch[a + 3] = Gone
    /\ out.to \notin a .. a + 3

\* Out of the loop at once, in the code and in the patch.
LEMMA CasLeaves ==
    ASSUME NEW s, NEW f, NEW a \in Nat \ {0}, NEW lr, NEW out, NEW sc, NEW back, NEW e,
           NEW x \in [Regs -> Words], NEW m, NEW fuel \in Nat, 4 <= fuel,
           IsLoop(s, f, a, lr, out, sc, back, e), IsCas(lr, out, sc, back, e), x[0] = 0,
           Got(lr, x, m) \in Words, m[Loc(lr, x)] \in Int, Got(lr, x, m) # x[e]
    PROVE  Outcome(s, f, Hart4(x, m, a, {}), fuel)
<1> DEFINE S == DOMAIN f.patch
           P == Plain(s)
           Q == Patched(s, f)
           y == Seen(lr, x, m)
           h == Hart4(x, m, a, {})
           c == {Loc(lr, x)}
           g1 == Hart4(y, m, a + 1, c)
           g2 == Hart4(y, m, out.to, c)
           k == Hart4(y, m, out.to, {})
<1>1. a \in Int /\ a + 1 \in Int /\ a \in S /\ a + 1 \in S /\ a \in DOMAIN s.code /\ a + 1 \in DOMAIN s.code
      /\ out.to \notin S
    BY SMTT(30) DEF IsLoop
<1>2. s.code[a] = lr /\ s.code[a + 1] = out /\ f.patch[a] = <<MoveIn(lr, e), Amocas(lr, sc), out>>
    BY DEF IsLoop
<1>3. Atomic(lr, "lr")
    BY CasAtomics
<1>4. Step(P, S, h) = g1
    <2>1. Step(P, S, h) = Exec(Hart4(x, m, a + 1, {}), lr)
        BY <1>1, <1>2, HartSteps
    <2>2. Exec(Hart4(x, m, a + 1, {}), lr) = g1
        BY <1>3, ExecLr DEF Seen
    <2> QED
        BY <2>1, <2>2
<1>5. Step(P, S, g1) = g2
    <2>1. Step(P, S, g1) = Exec(Hart4(y, m, a + 1 + 1, c), out)
        <3> HIDE DEF S, y, c
        <3> QED
            BY <1>1, <1>2, HartSteps
    <2> DEFINE p == a + 1 + 1
    <2> HIDE DEF c, p
    <2>2. Exec(Hart4(y, m, p, c), out) = Hart4(y, m, Goes(lr, out, e, x, m, p), c)
        BY CasOut
    <2>3. Goes(lr, out, e, x, m, p) = out.to
        BY DEF Goes
    <2> QED
        BY <2>1, <2>2, <2>3 DEF p
<1>6. Step(Q, S, h) = k
    <2> DEFINE p == a + 1
               is == <<MoveIn(lr, e), Amocas(lr, sc), out>>
               z == ExecAll(Hart4(x, m, p, {}), is)
    <2>1. Step(Q, S, h) = z
        <3>1. Step(Q, S, h) = ExecAll(Hart4(x, m, a + 1, {}), f.patch[a])
            BY <1>1, HartPatched
        <3> QED
            BY <1>2, <3>1
    <2> HIDE DEF p
    <2>2. z = IF Got(lr, x, m) # x[e] THEN Hart4(y, m, out.to, {}) ELSE Hart4(y, Kept(lr, sc, x, m), p, {})
        BY CasPatch
    <2> HIDE DEF z
    <2> QED
        BY <2>1, <2>2
<1>7. g2.pc = out.to /\ k.pc = out.to /\ g2.m = m /\ k.m = m /\ g2.x = y /\ k.x = y
    BY DEF Hart4
<1> HIDE DEF S, P, Q, h, g1, g2, k, y, c
<1>8. Leaving(P, S, h, fuel) = g2
    <2>1. Step(P, S, g1).pc \notin S /\ 2 <= fuel
        BY <1>1, <1>5, <1>7
    <2> QED
        BY <1>4, <1>5, <2>1, LeavingTwo
<1>9. Leaving(Q, S, h, fuel) = k
    <2>1. Step(Q, S, h).pc \notin S /\ 1 <= fuel
        BY <1>1, <1>6, <1>7
    <2> QED
        BY <1>6, <2>1, LeavingOne
<1>10. Agree(s, g2, k)
    BY <1>7 DEF Agree
<1> QED
    BY <1>8, <1>9, <1>10 DEF Outcome, S, P, Q, h

\* Through the loop, and past what took its place.
LEMMA CasPasses ==
    ASSUME NEW s, NEW f, NEW a \in Nat \ {0}, NEW lr, NEW out, NEW sc, NEW back, NEW e,
           NEW x \in [Regs -> Words], NEW m, NEW fuel \in Nat, 4 <= fuel,
           IsLoop(s, f, a, lr, out, sc, back, e), IsCas(lr, out, sc, back, e), x[0] = 0,
           Got(lr, x, m) \in Words, m[Loc(lr, x)] \in Int, Got(lr, x, m) = x[e],
           DeadAt(s, a + 4, sc.rd)
    PROVE  Outcome(s, f, Hart4(x, m, a, {}), fuel)
<1> DEFINE S == DOMAIN f.patch
           P == Plain(s)
           Q == Patched(s, f)
           y == Seen(lr, x, m)
           w == Kept(lr, sc, x, m)
           z == Put(y, sc.rd, 0)
           c == {Loc(lr, x)}
           h == Hart4(x, m, a, {})
           g1 == Hart4(y, m, a + 1, c)
           g2 == Hart4(y, m, a + 2, c)
           g3 == Hart4(z, w, a + 3, {})
           g4 == Hart4(z, w, a + 4, {})
           k1 == Hart4(y, w, a + 1, {})
           k2 == Hart4(y, w, a + 2, {})
           k3 == Hart4(y, w, a + 3, {})
           k4 == Hart4(y, w, a + 4, {})
<1>1. /\ a \in Int /\ a + 1 \in Int /\ a + 2 \in Int /\ a + 3 \in Int
      /\ a \in S /\ a + 1 \in S /\ a + 2 \in S /\ a + 3 \in S /\ a + 4 \notin S
      /\ a + 1 + 1 = a + 2 /\ a + 2 + 1 = a + 3 /\ a + 3 + 1 = a + 4
    BY DEF IsLoop
<1>2. S \subseteq DOMAIN s.code
    BY DEF IsLoop
<1>3. /\ s.code[a] = lr /\ s.code[a + 1] = out /\ s.code[a + 2] = sc /\ s.code[a + 3] = back
      /\ f.patch[a] = <<MoveIn(lr, e), Amocas(lr, sc), out>>
      /\ f.patch[a + 1] = Gone /\ f.patch[a + 2] = Gone /\ f.patch[a + 3] = Gone
    BY DEF IsLoop
<1>4. Atomic(lr, "lr") /\ sc.rd \in Regs
    BY CasAtomics
<1>5. y \in [Regs -> Words] /\ y[0] = 0
    <2> DEFINE v == Got(lr, x, m)
    <2>1. y = Put(x, lr.rd, v)
        BY DEF Seen
    <2> HIDE DEF y, v
    <2>2. v \in Words
        BY DEF v
    <2>3. IsSeen(lr, out, e, x, v, y)
        BY <2>1, <2>2, CasRegisters
    <2> QED
        BY <2>3 DEF IsSeen
<1>6. \A q \in Regs : q # sc.rd => z[q] = y[q]
    <2> HIDE DEF y
    <2> QED
        BY <1>4, <1>5, PutIs
<1>7. \A p : Goes(lr, out, e, x, m, p) = p
    BY DEF Goes
<1>8. Step(P, S, h) = g1
    <2>1. Step(P, S, h) = Exec(Hart4(x, m, a + 1, {}), lr)
        BY <1>1, <1>2, <1>3, HartSteps
    <2>2. Exec(Hart4(x, m, a + 1, {}), lr) = g1
        BY <1>4, ExecLr DEF Seen
    <2> QED
        BY <2>1, <2>2
<1>9. Step(P, S, g1) = g2
    <2> DEFINE p == a + 2
    <2>1. Step(P, S, g1) = Exec(Hart4(y, m, a + 1 + 1, c), out)
        <3> HIDE DEF S, y, c
        <3> QED
            BY <1>1, <1>2, <1>3, HartSteps
    <2>2. Step(P, S, g1) = Exec(Hart4(y, m, p, c), out)
        BY <1>1, <2>1
    <2> HIDE DEF c, p
    <2>3. Exec(Hart4(y, m, p, c), out) = Hart4(y, m, Goes(lr, out, e, x, m, p), c)
        BY CasOut
    <2> QED
        BY <1>7, <2>2, <2>3 DEF p
<1>10. Step(P, S, g2) = g3
    <2> DEFINE p == a + 3
    <2>1. Step(P, S, g2) = Exec(Hart4(y, m, a + 2 + 1, c), sc)
        <3> HIDE DEF S, y, c
        <3> QED
            BY <1>1, <1>2, <1>3, HartSteps
    <2>2. Step(P, S, g2) = Exec(Hart4(y, m, p, c), sc)
        BY <1>1, <2>1
    <2> HIDE DEF p
    <2>3. Exec(Hart4(y, m, p, c), sc) = Hart4(z, w, p, {})
        BY CasSc
    <2> QED
        BY <2>2, <2>3 DEF p
<1>11. Step(P, S, g3) = g4
    <2> DEFINE p == a + 4
               q == {}
    <2>1. Step(P, S, Hart4(z, w, a + 3, q)) = Exec(Hart4(z, w, a + 3 + 1, q), back)
        <3> HIDE DEF S, z, w, q
        <3> QED
            BY <1>1, <1>2, <1>3, HartSteps
    <2>2. Step(P, S, g3) = Exec(Hart4(z, w, p, q), back)
        BY <1>1, <2>1
    <2> HIDE DEF p, q, y, w
    <2>3. Exec(Hart4(z, w, p, q), back) = Hart4(z, w, p, q)
        BY <1>5, CasBack
    <2> QED
        BY <2>2, <2>3 DEF p, q
<1>12. Step(Q, S, h) = k1
    <2> DEFINE p == a + 1
               is == <<MoveIn(lr, e), Amocas(lr, sc), out>>
               t == ExecAll(Hart4(x, m, p, {}), is)
    <2>1. Step(Q, S, h) = t
        <3>1. Step(Q, S, h) = ExecAll(Hart4(x, m, a + 1, {}), f.patch[a])
            BY <1>1, <1>2, HartPatched
        <3> QED
            BY <1>3, <3>1
    <2> HIDE DEF p
    <2>2. t = IF Got(lr, x, m) # x[e] THEN Hart4(y, m, out.to, {}) ELSE Hart4(y, w, p, {})
        BY CasPatch
    <2>3. Got(lr, x, m) = x[e]
        OBVIOUS
    <2> HIDE DEF t, y, w
    <2> QED
        BY <2>1, <2>2, <2>3 DEF p
<1> HIDE DEF y, w, z
<1>13. ASSUME NEW p \in Int, p \in S, f.patch[p] = Gone
       PROVE  Step(Q, S, Hart4(y, w, p, {})) = Hart4(y, w, p + 1, {})
    <2> DEFINE q == {}
    <2> HIDE DEF q
    <2>1. p \in DOMAIN s.code
        BY <1>2, <1>13
    <2>2. Step(Q, S, Hart4(y, w, p, q)) = Hart4(y, w, p + 1, q)
        BY <1>13, <2>1, HartGone
    <2> QED
        BY <2>2 DEF q
<1>14. Step(Q, S, k1) = k2 /\ Step(Q, S, k2) = k3 /\ Step(Q, S, k3) = k4
    <2> HIDE DEF S, Q
    <2> QED
        BY <1>1, <1>3, <1>13
<1>15. g4.pc = a + 4 /\ k4.pc = a + 4 /\ g4.m = w /\ k4.m = w /\ g4.x = z /\ k4.x = y
    BY DEF Hart4
<1> HIDE DEF S, P, Q, h, g1, g2, g3, g4, k1, k2, k3, k4
<1>16. Leaving(P, S, h, fuel) = g4
    <2>1. Step(P, S, g3).pc \notin S
        BY <1>1, <1>11, <1>15
    <2> QED
        BY <1>8, <1>9, <1>10, <1>11, <2>1, LeavingFour
<1>17. Leaving(Q, S, h, fuel) = k4
    <2>1. Step(Q, S, k3).pc \notin S
        BY <1>1, <1>14, <1>15
    <2> QED
        BY <1>12, <1>14, <2>1, LeavingFour
<1>18. Agree(s, g4, k4)
    <2>1. \A q \in Regs : g4.x[q] = k4.x[q] \/ DeadAt(s, g4.pc, q)
        BY <1>6, <1>15
    <2> QED
        BY <1>15, <2>1 DEF Agree
<1> QED
    BY <1>16, <1>17, <1>18 DEF Outcome, S, P, Q, h

\* The first of an interval is its lower end (FirstOf).
LEMMA FirstOfRange ==
    ASSUME NEW a \in Int, NEW b \in Int, a <= b
    PROVE  FirstOf(a .. b) = a
<1> DEFINE P(p) == \A q \in a .. b : p <= q
<1>1. a \in a .. b /\ P(a)
    OBVIOUS
<1>2. \A p \in a .. b : P(p) => p = a
    OBVIOUS
<1>3. FirstOf(a .. b) = CHOOSE p \in a .. b : P(p)
    BY DEF FirstOf
<1> HIDE DEF P
<1> QED
    BY <1>1, <1>2, <1>3

\* check_cas_loop_to_amocas.
LEMMA CasHolds ==
    ASSUME NEW s, NEW a \in Nat \ {0}, NEW f, NEW x \in [Regs -> Words], NEW m \in Memory,
           NEW fuel \in Nat, IsSection(s), Constants(s), f \in check_cas_loop_to_amocas(s, a), x[0] = 0,
           4 <= fuel
    PROVE  Known(s, f) \/ Holds(s, f, x, m, fuel)
<1> DEFINE lr == s.code[a]
           out == s.code[a + 1]
           sc == s.code[a + 2]
           back == s.code[a + 3]
           e == Beside(out, lr.rd)
<1>1. /\ Window(s, a, 4)
      /\ lr.op = "lr" /\ lr.rd # 0 /\ lr.a # 0
      /\ out.op = "bne" /\ lr.rd \in {out.a, out.b} /\ out.to \notin a .. a + 3
      /\ sc.op = "sc" /\ sc.a = lr.a /\ sc.n = lr.n /\ sc.rd # 0
      /\ back.op = "bne" /\ {back.a, back.b} = {sc.rd, 0} /\ back.to = a
      /\ DeadAt(s, a + 4, sc.rd) /\ DeadAt(s, out.to, sc.rd)
      /\ f = Finding("cas_loop_to_amocas",
                [p \in a .. a + 3 |-> IF p = a THEN <<MoveIn(lr, e), Amocas(lr, sc), out>> ELSE Gone])
    BY DEF check_cas_loop_to_amocas, When, MoveIn, Amocas, Gone, Beside
<1>2. a .. a + 3 \subseteq DOMAIN s.code /\ DOMAIN f.patch = a .. a + 3 /\ f.rule = "cas_loop_to_amocas"
    <2> DEFINE n == 4
    <2>1. Window(s, a, n) /\ n \in Nat \ {0} /\ a + n - 1 = a + 3
        BY <1>1
    <2> HIDE DEF n
    <2>2. a .. a + n - 1 \subseteq DOMAIN s.code
        BY <2>1, WindowEntry
    <2> QED
        BY <1>1, <2>1, <2>2 DEF Finding
<1>3. /\ f.patch[a] = <<MoveIn(lr, e), Amocas(lr, sc), out>>
      /\ f.patch[a + 1] = Gone /\ f.patch[a + 2] = Gone /\ f.patch[a + 3] = Gone
    <2> DEFINE is == <<MoveIn(lr, e), Amocas(lr, sc), out>>
    <2> DEFINE g == [p \in a .. a + 3 |-> IF p = a THEN is ELSE Gone]
    <2>0. f = Finding("cas_loop_to_amocas", g)
        BY <1>1
    <2> HIDE DEF is, g
    <2>1. f.patch = [p \in a .. a + 3 |-> IF p = a THEN is ELSE Gone]
        BY <2>0 DEF Finding, g
    <2>2. /\ a \in a .. a + 3 /\ a + 1 \in a .. a + 3 /\ a + 2 \in a .. a + 3 /\ a + 3 \in a .. a + 3
          /\ a + 1 # a /\ a + 2 # a /\ a + 3 # a
        OBVIOUS
    <2>3. f.patch[a] = is /\ f.patch[a + 1] = Gone /\ f.patch[a + 2] = Gone /\ f.patch[a + 3] = Gone
        BY <2>1, <2>2
    <2> QED
        BY <2>3 DEF is
<1>4. IsLoop(s, f, a, lr, out, sc, back, e)
    BY <1>1, <1>2, <1>3 DEF IsLoop
<1>5. lr \in Insns /\ out \in Insns /\ sc \in Insns /\ back \in Insns
    <2>1. a \in DOMAIN s.code /\ a + 1 \in DOMAIN s.code /\ a + 2 \in DOMAIN s.code /\ a + 3 \in DOMAIN s.code
        BY <1>2
    <2> QED
        BY <2>1 DEF IsSection
<1>6. /\ lr.rd \in Regs /\ lr.a \in Regs /\ lr.n \in {WORD, XLEN}
      /\ out.a \in Regs /\ out.b \in Regs /\ out.b # Imm /\ back.b \in Regs /\ back.b # Imm
      /\ sc.rd \in Regs /\ sc.b \in Regs
    <2>1. Imm \notin Regs
        BY HartAssumption DEF Imm
    <2> QED
        BY <1>1, <1>5, <2>1 DEF Insns, Branches
<1>7. FirstOf(DOMAIN f.patch) = a
    <2>1. a \in Int /\ a + 3 \in Int /\ a <= a + 3
        OBVIOUS
    <2> QED
        BY <1>2, <2>1, FirstOfRange
<1>8. CASE (lr.n = WORD /\ e # 0) \/ lr.rd \in {e, lr.a}
    BY <1>2, <1>7, <1>8 DEF Known
<1>9. CASE ~(lr.n = WORD /\ e # 0) /\ lr.rd \notin {e, lr.a}
    <2>1. e \in Regs /\ ((out.a = lr.rd /\ out.b = e) \/ (out.a = e /\ out.b = lr.rd))
        BY <1>1, <1>6 DEF Beside
    <2>2. back.a \in {sc.rd, 0} /\ back.b \in {sc.rd, 0}
        BY <1>1
    <2> HIDE DEF lr, out, sc, back, e
    <2>3. IsCas(lr, out, sc, back, e)
        BY <1>1, <1>6, <1>9, <2>1, <2>2 DEF IsCas
    <2> DEFINE mm == Begun(s, m)
               h == Hart4(x, mm, a, {})
    <2>4. Start(s, x, m, a) = h /\ mm \in Memory
        BY StartIs
    <2> HIDE DEF mm
    <2>5. mm[Loc(lr, x)] \in Words
        BY <1>6, <2>4, LocIs
    <2>6. mm[Loc(lr, x)] \in Int /\ Got(lr, x, mm) \in Words
        <3> DEFINE u == mm[Loc(lr, x)]
                   n == lr.n
        <3>1. u \in Int
            BY <2>5, HalfLemma
        <3>2. n \in 1 .. XLEN
            BY <1>6, HalfLemma, HartAssumption
        <3> HIDE DEF u, n
        <3>3. Sext(n, u) \in Words
            BY <3>1, <3>2, NarrowWord
        <3> QED
            BY <3>1, <3>3 DEF Got, u, n
    <2>7. Outcome(s, f, h, fuel)
        <3>1. CASE Got(lr, x, mm) # x[e]
            BY <1>4, <2>3, <2>6, <3>1, CasLeaves
        <3>2. CASE Got(lr, x, mm) = x[e]
            BY <1>1, <1>4, <2>3, <2>6, <3>2, CasPasses
        <3> QED
            BY <3>1, <3>2
    <2>8. DOMAIN f.patch = a .. a + 4 - 1 /\ 4 \in Nat \ {0}
        BY <1>2
    <2>9. Outcome(s, f, Start(s, x, m, a), fuel)
        BY <2>4, <2>7
    <2> QED
        BY <1>1, <2>8, <2>9, WindowHolds
<1> QED
    BY <1>8, <1>9

-------------------------------------------------------------------------------
(* Every finding of the checks of accesses.                                *)

\* Whatever a check of accesses reports holds, or is one of the two kinds known not to.
LEMMA MemoryHolds ==
    ASSUME NEW s, NEW a \in Nat \ {0}, NEW folded, NEW f, NEW x \in [Regs -> Words], NEW m \in Memory,
           NEW fuel \in Nat, IsSection(s), Constants(s), a \in DOMAIN s.code,
           f \in MemoryFindings(s, a, folded), x[0] = 0, 4 <= fuel
    PROVE  Known(s, f) \/ Holds(s, f, x, m, fuel)
<1>1. CASE f \in check_base_add_to_offset(s, a)
    BY <1>1, BaseAddHolds
<1>2. CASE f \in check_indexed_load(s, a, folded)
    BY <1>2, IndexedHolds
<1>3. CASE f \in check_scaled_indexed_load(s, a)
    BY <1>3, ScaledHolds
<1>4. CASE f \in check_zext_indexed_load(s, a)
    <2> DEFINE up == s.code[a]
               down == s.code[a + 1]
               add == s.code[a + 2]
    <2>1. CASE up.rd = down.rd \/ up.rd \notin {add.a, add.b}
        BY <1>4, <2>1, ZextHolds
    <2>2. CASE up.rd # down.rd /\ up.rd \in {add.a, add.b}
        <3>1. PICK is : f \in Fold("zext_indexed_load", a, 4, is)
            BY <1>4 DEF check_zext_indexed_load, When
        <3>2. f.rule = "zext_indexed_load" /\ DOMAIN f.patch = a .. a + 3
            <4>1. a + 4 - 1 = a + 3
                OBVIOUS
            <4> QED
                BY <3>1, <4>1 DEF Fold, Finding
        <3>3. FirstOf(DOMAIN f.patch) = a
            <4>1. a \in Int /\ a + 3 \in Int /\ a <= a + 3
                OBVIOUS
            <4> QED
                BY <3>2, <4>1, FirstOfRange
        <3> QED
            BY <2>2, <3>2, <3>3 DEF Known
    <2> QED
        BY <2>1, <2>2
<1>5. CASE f \in check_fp_pool_to_fli(s, a)
    BY <1>5, PoolHolds
<1>6. CASE f \in check_fp_int_to_fli(s, a)
    BY <1>6, FpIntHolds
<1>7. CASE f \in check_cas_loop_to_amocas(s, a)
    BY <1>7, CasHolds
<1> QED
    BY <1>1, <1>2, <1>3, <1>4, <1>5, <1>6, <1>7 DEF MemoryFindings, DeeperFolds

\* A finding with the name of an access check comes from one.
LEMMA MemoryFound ==
    ASSUME NEW s, NEW a \in Int, NEW folded, NEW f \in Findings(s, a, folded),
           f.rule \in MemoryRulesNames
    PROVE  f \in MemoryFindings(s, a, folded)
<1>1. f \notin BranchFindings(s, a)
    BY BranchesOther DEF MemoryRulesNames, BranchRulesNames
<1>2. f \notin ValueFindings(s, a)
    BY ValuesOther DEF MemoryRulesNames, ValueRulesNames
<1>3. f \notin ConstFindings(s, a)
    BY ConstsOther DEF MemoryRulesNames, ConstRulesNames
<1>4. f \notin JumpFindings(s, a)
    BY JumpsOther DEF MemoryRulesNames, JumpRulesNames, ThreadRulesNames, TailRulesNames
<1> QED
    BY <1>1, <1>2, <1>3, <1>4 DEF Findings

\* The theorem of accesses: beside the section, what its constants are.
MemoryInv == SectionInv /\ Constants(sec) /\ MemoryAgrees

\* The constants of a section are words once it is mapped.
LEMMA MappedConstants ==
    ASSUME NEW s, Given(s)
    PROVE  Constants(SetSection(s.code, s.note))
    BY DEF Given, Constants, SetSection

\* The invariant of the checks of accesses is inductive.
LEMMA MemoryInductive ==
    /\ Init => MemoryInv
    /\ MemoryInv /\ [Next]_vars => MemoryInv'
<1>1. ASSUME Init
      PROVE  MemoryInv
    <2>1. PICK n \in DOMAIN Sections : \E s \in Sections[n] : sec = SetSection(s.code, s.note)
        BY <1>1 DEF Init
    <2>2. PICK s \in Sections[n] : sec = SetSection(s.code, s.note)
        BY <2>1
    <2>3. Constants(sec)
        BY <2>2, SectionsAssumption, MappedConstants
    <2> QED
        BY <1>1, <2>3, SectionInductive DEF Init, MemoryInv, MemoryAgrees, Sound
<1>2. ASSUME MemoryInv, Scan
      PROVE  MemoryAgrees' /\ Constants(sec)'
    <2>1. sec' = sec /\ found' = Findings(sec, at, zilx_folded) /\ at \in DOMAIN sec.code
        BY <1>2 DEF Scan, InSection
    <2>2. ASSUME NEW f \in found', f.rule \in MemoryRulesNames, NEW c \in Contents
          PROVE  Known(sec, f) \/ Holds(sec, f, c.x, c.m, Steps)
        <3>1. f \in MemoryFindings(sec, at, zilx_folded)
            BY <1>2, <2>1, <2>2, MemoryFound DEF MemoryInv, SectionInv
        <3>2. c.x \in [Regs -> Words] /\ c.x[0] = 0 /\ c.m \in Memory /\ Steps \in Nat /\ 4 <= Steps
            BY MachinesAssumption
        <3>3. IsSection(sec) /\ Constants(sec) /\ at \in Nat \ {0}
            BY <1>2 DEF MemoryInv, SectionInv
        <3> QED
            BY <2>1, <3>1, <3>2, <3>3, MemoryHolds
    <2> QED
        BY <1>2, <2>1, <2>2 DEF MemoryInv, MemoryAgrees, Sound, Constants
<1>3. ASSUME MemoryInv, NextSection
      PROVE  MemoryAgrees' /\ Constants(sec)'
    <2>1. PICK s \in Seconds : sec' = SetSection(s.code, s.note)
        BY <1>3 DEF NextSection
    <2>2. Constants(SetSection(s.code, s.note))
        BY SectionsAssumption, MappedConstants
    <2> QED
        BY <1>3, <2>1, <2>2 DEF NextSection, MemoryAgrees, Sound, Constants
<1>4. ASSUME MemoryInv, UNCHANGED vars
      PROVE  MemoryAgrees' /\ Constants(sec)'
    BY <1>4 DEF vars, MemoryInv, MemoryAgrees, Sound, Constants
<1> QED
    BY <1>1, <1>2, <1>3, <1>4, SectionInductive DEF Next, MemoryInv

\* Whatever the section, the word, the registers and the memory: what is reported to load
\* or to store, to be a constant of fli or a compare-exchange in place of what the code
\* has does what the code did, unless it is of the two kinds that are known not to:
\* an indexed load whose add reads the index as it was shifted up, a compare-exchange of
\* WORD bits or one whose registers overlap (check_base_add_to_offset to
\* check_cas_loop_to_amocas).
THEOREM MemoryAreSound == Spec => []MemoryAgrees
<1>1. MemoryInv => MemoryAgrees
    BY DEF MemoryInv
<1> QED
    BY MemoryInductive, <1>1, PTL DEF Spec

-------------------------------------------------------------------------------
(* The theorem of constants.                                               *)

\* A finding with the name of a check about constants comes from one.
LEMMA ConstFound ==
    ASSUME NEW s, NEW a \in Int, NEW folded, NEW f \in Findings(s, a, folded),
           f.rule \in ConstRulesNames
    PROVE  f \in ConstFindings(s, a)
<1>1. f \notin BranchFindings(s, a)
    BY BranchesOther DEF ConstRulesNames, BranchRulesNames
<1>2. f \notin ValueFindings(s, a)
    BY ValuesOther DEF ConstRulesNames, ValueRulesNames
<1>3. f \notin MemoryFindings(s, a, folded)
    BY MemoryNames DEF ConstRulesNames, MemoryRulesNames
<1>4. f \notin JumpFindings(s, a)
    BY JumpsOther DEF ConstRulesNames, JumpRulesNames, ThreadRulesNames, TailRulesNames
<1> QED
    BY <1>1, <1>2, <1>3, <1>4 DEF Findings

\* The invariant of the checks about constants: beside the section, what its constants
\* are.
ConstInv == SectionInv /\ Constants(sec) /\ ConstantsAgree

\* The invariant of the checks about constants is inductive.
LEMMA ConstInductive ==
    /\ Init => ConstInv
    /\ ConstInv /\ [Next]_vars => ConstInv'
<1>1. ASSUME Init
      PROVE  ConstInv
    <2>1. PICK n \in DOMAIN Sections : \E s \in Sections[n] : sec = SetSection(s.code, s.note)
        BY <1>1 DEF Init
    <2>2. PICK s \in Sections[n] : sec = SetSection(s.code, s.note)
        BY <2>1
    <2>3. Constants(sec)
        BY <2>2, SectionsAssumption, MappedConstants
    <2> QED
        BY <1>1, <2>3, SectionInductive DEF Init, ConstInv, ConstantsAgree, Sound
<1>2. ASSUME ConstInv, Scan
      PROVE  ConstantsAgree' /\ Constants(sec)'
    <2>1. sec' = sec /\ found' = Findings(sec, at, zilx_folded) /\ at \in DOMAIN sec.code
        BY <1>2 DEF Scan, InSection
    <2>2. ASSUME NEW f \in found', f.rule \in ConstRulesNames, NEW c \in Contents
          PROVE  Known(sec, f) \/ Holds(sec, f, c.x, c.m, Steps)
        <3>1. f \in ConstFindings(sec, at)
            BY <1>2, <2>1, <2>2, ConstFound DEF ConstInv, SectionInv
        <3>2. c.x \in [Regs -> Words] /\ c.x[0] = 0 /\ c.m \in Memory /\ Steps \in Nat /\ 4 <= Steps
            BY MachinesAssumption
        <3>3. IsSection(sec) /\ Constants(sec) /\ at \in Nat \ {0}
            BY <1>2 DEF ConstInv, SectionInv
        <3> QED
            BY <2>1, <3>1, <3>2, <3>3, ConstHolds
    <2> QED
        BY <1>2, <2>1, <2>2 DEF ConstInv, ConstantsAgree, Sound, Constants
<1>3. ASSUME ConstInv, NextSection
      PROVE  ConstantsAgree' /\ Constants(sec)'
    <2>1. PICK s \in Seconds : sec' = SetSection(s.code, s.note)
        BY <1>3 DEF NextSection
    <2>2. Constants(SetSection(s.code, s.note))
        BY SectionsAssumption, MappedConstants
    <2> QED
        BY <1>3, <2>1, <2>2 DEF NextSection, ConstantsAgree, Sound, Constants
<1>4. ASSUME ConstInv, UNCHANGED vars
      PROVE  ConstantsAgree' /\ Constants(sec)'
    BY <1>4 DEF vars, ConstInv, ConstantsAgree, Sound, Constants
<1> QED
    BY <1>1, <1>2, <1>3, <1>4, SectionInductive DEF Next, ConstInv

\* Whatever the section, the word, the registers and the memory: a chain of instructions
\* that loads a constant is replaced by a plan that loads the same one, and the uses of
\* a constant, of a mask and of a zero do without the register what they did with it,
\* up to where it is written again or nothing reads it (check_long_li to
\* check_zero_for_store).
THEOREM ConstantsAreSound == Spec => []ConstantsAgree
<1>1. ConstInv => ConstantsAgree
    BY DEF ConstInv
<1> QED
    BY ConstInductive, <1>1, PTL DEF Spec

-------------------------------------------------------------------------------
(* What the checks report is about the section they were asked about.    *)

\* A finding is about instructions of the section.
Within(s, f) == DOMAIN f.patch \subseteq DOMAIN s.code

\* So is one whose instructions are an interval with both ends in the section.
LEMMA IntervalWithin ==
    ASSUME NEW s, IsSection(s), NEW a \in Nat \ {0}, NEW b \in Int, a <= b => InSection(s, b),
           NEW f, DOMAIN f.patch = a .. b
    PROVE  Within(s, f)
<1>1. DOMAIN s.code = 1 .. Len(s.code) /\ Len(s.code) \in Nat
    BY DEF IsSection
<1> QED
    BY <1>1 DEF Within, InSection

\* A fold in a window is.
LEMMA FoldWithin ==
    ASSUME NEW s, IsSection(s), NEW a \in Nat \ {0}, NEW n \in Nat \ {0}, InSection(s, a + n - 1),
           NEW rule, NEW is, NEW f \in Fold(rule, a, n, is)
    PROVE  Within(s, f)
<1>1. DOMAIN f.patch = a .. a + n - 1
    BY DEF Fold, Finding
<1> DEFINE b == a + n - 1
<1>2. b \in Int /\ InSection(s, b) /\ DOMAIN f.patch = a .. b
    BY <1>1
<1> HIDE DEF b
<1> QED
    BY <1>2, IntervalWithin

\* The findings of branches are about instructions of the section.
LEMMA BranchesWithin ==
    ASSUME NEW s, IsSection(s), NEW a \in Nat \ {0}, NEW f \in BranchFindings(s, a)
    PROVE  Within(s, f)
<1>0. ASSUME NEW rule, NEW is, NEW n \in {1, 2}, f \in Fold(rule, a, n, is), Window(s, a, n)
      PROVE  Within(s, f)
    <2>1. n \in Nat \ {0} /\ InSection(s, a + n - 1)
        BY <1>0 DEF Window
    <2> QED
        BY <1>0, <2>1, FoldWithin
<1>1. CASE f \in check_cond_to_branch(s, a)
    <2>1. Window(s, a, 2) /\ \E is : f \in Fold("cond_to_branch", a, 2, is)
        BY <1>1 DEF check_cond_to_branch, When
    <2> QED
        BY <1>0, <2>1
<1>2. CASE f \in check_branch_over_jump(s, a)
    <2>1. Window(s, a, 2)
        BY <1>2 DEF check_branch_over_jump, When
    <2>2. DOMAIN f.patch = {a, a + 1}
        BY <1>2 DEF check_branch_over_jump, When, Finding
    <2>3. DOMAIN f.patch = a .. a + 1
        BY <2>2
    <2> QED
        BY <2>1, <2>3, IntervalWithin DEF Window
<1>3. CASE f \in check_transfer_to_next(s, a)
    <2>1. Window(s, a, 1) /\ \E is : f \in Fold("transfer_to_next", a, 1, is)
        BY <1>3 DEF check_transfer_to_next, When
    <2> QED
        BY <1>0, <2>1
<1>4. CASE f \in check_const_eq_branch(s, a)
    <2>1. Window(s, a, 2) /\ \E is : f \in Fold("const_eq_branch", a, 2, is)
        BY <1>4 DEF check_const_eq_branch, ConstBranch, When
    <2> QED
        BY <1>0, <2>1
<1>5. CASE f \in check_const_ord_branch(s, a)
    <2>1. Window(s, a, 2) /\ \E is : f \in Fold("const_ord_branch", a, 2, is)
        BY <1>5 DEF check_const_ord_branch, ConstBranch, When
    <2> QED
        BY <1>0, <2>1
<1>6. CASE f \in check_zero_eq_branch(s, a)
    <2>1. Window(s, a, 2) /\ \E is : f \in Fold("zero_eq_branch", a, 2, is)
        BY <1>6 DEF check_zero_eq_branch, ConstBranch, When
    <2> QED
        BY <1>0, <2>1
<1>7. CASE f \in check_branch_to_minmax(s, a)
    <2>1. PICK lead \in {0, 1} : f \in MinMax(s, a, lead)
        BY <1>7 DEF check_branch_to_minmax
    <2>2. Window(s, a, lead + 2) /\ \E patch : DOMAIN patch = a .. a + lead + 1 /\ f = Finding("branch_to_minmax", patch)
        BY <2>1 DEF MinMax, When
    <2> DEFINE b == a + lead + 1
    <2>3. b \in Int /\ InSection(s, b)
        BY <2>2 DEF Window
    <2>4. DOMAIN f.patch = a .. b
        BY <2>2 DEF Finding
    <2> HIDE DEF b
    <2> QED
        BY <2>3, <2>4, IntervalWithin
<1>8. CASE f \in check_call_pair_to_jal(s, a)
    <2>1. Window(s, a, 2) /\ \E is : f \in Fold("call_pair_to_jal", a, 2, is)
        BY <1>8 DEF check_call_pair_to_jal, JumpPair, When
    <2> QED
        BY <1>0, <2>1
<1>9. CASE f \in check_jump_pair_to_j(s, a)
    <2>1. Window(s, a, 2) /\ \E is : f \in Fold("jump_pair_to_j", a, 2, is)
        BY <1>9 DEF check_jump_pair_to_j, JumpPair, When
    <2> QED
        BY <1>0, <2>1
<1>10. CASE f \in check_scratch_call_to_jal(s, a)
    <2>1. Window(s, a, 2) /\ \E is : f \in Fold("scratch_call_to_jal", a, 2, is)
        BY <1>10 DEF check_scratch_call_to_jal, JumpPair, When
    <2> QED
        BY <1>0, <2>1
<1> QED
    BY <1>1, <1>2, <1>3, <1>4, <1>5, <1>6, <1>7, <1>8, <1>9, <1>10 DEF BranchFindings

\* The findings of values are.
LEMMA ValuesWithin ==
    ASSUME NEW s, IsSection(s), NEW a \in Nat \ {0}, NEW f \in ValueFindings(s, a)
    PROVE  Within(s, f)
<1>0. ASSUME NEW rule, NEW is, NEW n \in {1, 2}, f \in Fold(rule, a, n, is), Window(s, a, n)
      PROVE  Within(s, f)
    <2>1. n \in Nat \ {0} /\ InSection(s, a + n - 1)
        BY <1>0 DEF Window
    <2> QED
        BY <1>0, <2>1, FoldWithin
<1>1. CASE f \in check_slli_add_to_shadd(s, a)
    <2>1. Window(s, a, 2) /\ \E is : f \in Fold("slli_add_to_shadd", a, 2, is)
        BY <1>1 DEF check_slli_add_to_shadd, When
    <2> QED
        BY <1>0, <2>1
<1>2. CASE f \in check_slli_srli_to_zext(s, a)
    <2>1. Window(s, a, 2) /\ \E is : f \in Fold("slli_srli_to_zext", a, 2, is)
        BY <1>2 DEF check_slli_srli_to_zext, Shifts, Pair, When
    <2> QED
        BY <1>0, <2>1
<1>3. CASE f \in check_slli_srli_to_zexth(s, a)
    <2>1. Window(s, a, 2) /\ \E is : f \in Fold("slli_srli_to_zexth", a, 2, is)
        BY <1>3 DEF check_slli_srli_to_zexth, Shifts, Pair, When
    <2> QED
        BY <1>0, <2>1
<1>4. CASE f \in check_slli_srai_to_sext(s, a)
    <2>1. Window(s, a, 2) /\ \E is : f \in Fold("slli_srai_to_sext", a, 2, is)
        BY <1>4 DEF check_slli_srai_to_sext, Shifts, Pair, When
    <2> QED
        BY <1>0, <2>1
<1>5. CASE f \in check_slli_srli_to_andi(s, a)
    <2>1. Window(s, a, 2) /\ \E is : f \in Fold("slli_srli_to_andi", a, 2, is)
        BY <1>5 DEF check_slli_srli_to_andi, Shifts, Pair, When
    <2> QED
        BY <1>0, <2>1
<1>6. CASE f \in check_const_mul_to_shadd(s, a)
    <2>1. Window(s, a, 2) /\ \E is : f \in Fold("const_mul_to_shadd", a, 2, is)
        BY <1>6 DEF check_const_mul_to_shadd, ConstPair, Pair, When
    <2> QED
        BY <1>0, <2>1
<1>7. CASE f \in check_udiv_pow2(s, a)
    <2>1. Window(s, a, 2) /\ \E is : f \in Fold("udiv_pow2", a, 2, is)
        BY <1>7 DEF check_udiv_pow2, ConstPair, Pair, When
    <2> QED
        BY <1>0, <2>1
<1>8. CASE f \in check_not_logic_fold(s, a)
    <2>1. Window(s, a, 2) /\ \E is : f \in Fold("not_logic_fold", a, 2, is)
        BY <1>8 DEF check_not_logic_fold, Pair, When
    <2> QED
        BY <1>0, <2>1
<1>9. CASE f \in check_dead_def(s, a)
    <2>1. Window(s, a, 1) /\ \E is : f \in Fold("dead_def", a, 1, is)
        BY <1>9 DEF check_dead_def, When
    <2> QED
        BY <1>0, <2>1
<1>10. CASE f \in check_no_effect(s, a)
    <2>1. Window(s, a, 1) /\ \E is : f \in Fold("no_effect", a, 1, is)
        BY <1>10 DEF check_no_effect, When
    <2> QED
        BY <1>0, <2>1
<1> QED
    BY <1>1, <1>2, <1>3, <1>4, <1>5, <1>6, <1>7, <1>8, <1>9, <1>10 DEF ValueFindings

\* Where a constant is folded into its uses, from its first instruction to the last use.
LEMMA FoldedWithin ==
    ASSUME NEW s, IsSection(s), NEW a \in Nat \ {0}, a \in DOMAIN s.code, NEW rule, NEW from \in Nat,
           a < from, NEW walk \in Nat, NEW r, NEW becomes,
           NEW f \in Folded(rule, s, a, from, walk, r, becomes)
    PROVE  Within(s, f)
<1> DEFINE U == Uses(s, from, walk, r, becomes)
           last == LastOf(U)
<1>1. U # {} /\ DOMAIN f.patch = a .. last
    BY DEF Folded, When, Finding
<1>2. last \in U
    <2>1. from \in Nat \ {0}
        OBVIOUS
    <2> HIDE DEF last
    <2>2. last = LastOf(Uses(s, from, walk, r, becomes)) /\ Uses(s, from, walk, r, becomes) # {}
        BY <1>1 DEF last
    <2> QED
        BY <2>1, <2>2, UsesWalk
<1>3. last \in DOMAIN s.code
    BY <1>2 DEF Uses
<1>4. last \in Int
    BY <1>3 DEF IsSection
<1> HIDE DEF last
<1> QED
    BY <1>1, <1>3, <1>4, IntervalWithin DEF InSection

\* The findings of constants are.
LEMMA ConstsWithin ==
    ASSUME NEW s, IsSection(s), NEW a \in Nat \ {0}, a \in DOMAIN s.code, NEW f \in ConstFindings(s, a)
    PROVE  Within(s, f)
<1>0. PICK e \in Nat : Chain(s, a) = a .. a + e /\ ChainEnd(s, a) = a + e
    BY ChainInterval
<1>1. CASE f \in check_long_li(s, a)
    <2>1. DOMAIN f.patch = a .. ChainEnd(s, a)
        BY <1>1 DEF check_long_li, When, Finding
    <2>2. a + e \in Chain(s, a) /\ a + e \in Int
        BY <1>0
    <2>3. a + e \in DOMAIN s.code
        BY <2>2 DEF Chain
    <2> DEFINE b == a + e
    <2>4. b \in Int /\ InSection(s, b) /\ DOMAIN f.patch = a .. b
        BY <1>0, <2>1, <2>2, <2>3 DEF InSection
    <2> HIDE DEF b
    <2> QED
        BY <2>4, IntervalWithin
<1>2. CASE f \in check_const_for_imm(s, a)
    <2>1. \E r, becomes : f \in Folded("const_for_imm", s, a, a + 1, CONST_WALK, r, becomes)
        BY <1>2 DEF check_const_for_imm
    <2>2. a + 1 \in Nat /\ a < a + 1 /\ CONST_WALK \in Nat
        BY WalkAssumption
    <2> QED
        BY <2>1, <2>2, FoldedWithin
<1>3. CASE f \in check_mask_for_zext(s, a)
    <2>1. \E r, becomes : f \in Folded("mask_for_zext", s, a, ChainEnd(s, a) + 1, CONST_WALK, r, becomes)
        BY <1>3 DEF check_mask_for_zext
    <2>2. ChainEnd(s, a) + 1 \in Nat /\ a < ChainEnd(s, a) + 1 /\ CONST_WALK \in Nat
        BY <1>0, WalkAssumption
    <2> QED
        BY <2>1, <2>2, FoldedWithin
<1>4. CASE f \in check_zero_for_store(s, a)
    <2>1. \E r, becomes : f \in Folded("zero_for_store", s, a, a + 1, ZSTORE_WALK, r, becomes)
        BY <1>4 DEF check_zero_for_store
    <2>2. a + 1 \in Nat /\ a < a + 1 /\ ZSTORE_WALK \in Nat
        BY WalkAssumption
    <2> QED
        BY <2>1, <2>2, FoldedWithin
<1> QED
    BY <1>1, <1>2, <1>3, <1>4 DEF ConstFindings

\* The findings of accesses are.
LEMMA MemoryWithin ==
    ASSUME NEW s, IsSection(s), NEW a \in Nat \ {0}, a \in DOMAIN s.code, NEW folded,
           NEW f \in MemoryFindings(s, a, folded)
    PROVE  Within(s, f)
<1>0. ASSUME NEW rule, NEW is, NEW n \in {2, 3, 4}, f \in Fold(rule, a, n, is), Window(s, a, n)
      PROVE  Within(s, f)
    <2>1. n \in Nat \ {0} /\ InSection(s, a + n - 1)
        BY <1>0 DEF Window
    <2> QED
        BY <1>0, <2>1, FoldWithin
<1>1. CASE f \in check_base_add_to_offset(s, a)
    <2>1. Window(s, a, 2) /\ \E is : f \in Fold("base_add_to_offset", a, 2, is)
        BY <1>1 DEF check_base_add_to_offset, When
    <2> QED
        BY <1>0, <2>1
<1>2. CASE f \in check_indexed_load(s, a, folded)
    <2>1. Window(s, a, 2) /\ \E is : f \in Fold("indexed_load", a, 2, is)
        BY <1>2 DEF check_indexed_load, When
    <2> QED
        BY <1>0, <2>1
<1>3. CASE f \in check_scaled_indexed_load(s, a)
    <2>1. Window(s, a, 3) /\ \E is : f \in Fold("scaled_indexed_load", a, 3, is)
        BY <1>3 DEF check_scaled_indexed_load, When
    <2> QED
        BY <1>0, <2>1
<1>4. CASE f \in check_zext_indexed_load(s, a)
    <2>1. Window(s, a, 4) /\ \E is : f \in Fold("zext_indexed_load", a, 4, is)
        BY <1>4 DEF check_zext_indexed_load, When
    <2> QED
        BY <1>0, <2>1
<1>5. CASE f \in check_fp_pool_to_fli(s, a)
    <2> DEFINE j == s.code[a + 1]
               c == Cell(a + s.code[a].k + j.k)
               P == /\ Window(s, a, 2)
                    /\ rv_decode_auipc(s.code[a]) /\ s.code[a].rd # 0
                    /\ rv_decode_fp_load(j) /\ j.a = s.code[a].rd
                    /\ c \in DOMAIN s.note.pool
                    /\ DeadAt(s, a + 2, s.code[a].rd)
               F(entry) == Fold("fp_pool_to_fli", a, 2, Fli(WidthOf(j), j.rd, entry))
               S == rv_fli_entry(Low(WidthOf(j), s.note.pool[c]), WidthOf(j))
    <2>1. check_fp_pool_to_fli(s, a) = IF P THEN UNION {F(entry) : entry \in S} ELSE {}
        BY DEF check_fp_pool_to_fli
    <2>2. P => Window(s, a, 2)
        OBVIOUS
    <2> HIDE DEF P, S
    <2>3. Window(s, a, 2) /\ \E entry \in S : f \in F(entry)
        BY <1>5, <2>1, <2>2
    <2> QED
        BY <1>0, <2>3
<1>6. CASE f \in check_fp_int_to_fli(s, a)
    <2> DEFINE last == ChainEnd(s, a) + 1
               n == last - a + 1
    <2>1. InSection(s, last) /\ \E is : f \in Fold("fp_int_to_fli", a, n, is)
        BY <1>6 DEF check_fp_int_to_fli
    <2>0. PICK e \in Nat : Chain(s, a) = a .. a + e /\ ChainEnd(s, a) = a + e
        BY ChainInterval
    <2>2. last = a + e + 1
        BY <2>0
    <2> HIDE DEF last
    <2>3. n \in Nat \ {0} /\ a + n - 1 = last
        BY <2>2
    <2> HIDE DEF n
    <2> QED
        BY <2>1, <2>3, FoldWithin
<1>7. CASE f \in check_cas_loop_to_amocas(s, a)
    <2>1. Window(s, a, 4)
        BY <1>7 DEF check_cas_loop_to_amocas, When
    <2>2. DOMAIN f.patch = a .. a + 3
        BY <1>7 DEF check_cas_loop_to_amocas, When, Finding
    <2> DEFINE b == a + 3
    <2>3. b \in Int /\ InSection(s, b) /\ DOMAIN f.patch = a .. b
        BY <2>1, <2>2 DEF Window
    <2> HIDE DEF b
    <2> QED
        BY <2>3, IntervalWithin
<1> QED
    BY <1>1, <1>2, <1>3, <1>4, <1>5, <1>6, <1>7 DEF MemoryFindings, DeeperFolds

\* One hop of threading, from where the transfer at a goes by now.
Hopped(s, a, t) ==
    LET on == {j \in thread_jump_at(s, t.at) : j.to # t.at /\ GoesOn(s, a, j, t.regs)}
    IN  IF on = {} THEN t
        ELSE LET j == CHOOSE k \in on : TRUE
             IN  [at |-> j.to, regs |-> t.regs \cup j.wrote,
                  passed |-> t.passed \cup {t.at, IF j.wrote = {} THEN t.at ELSE t.at + 1}]

\* What n hops come to, one after another.
Hopping(s, a, n, f) ==
    f = [h \in 0 .. n |-> IF h = 0 THEN [at |-> s.code[a].to, regs |-> {}, passed |-> {}]
                          ELSE Hopped(s, a, f[h - 1])]

\* However many hops there are, they come to something.
LEMMA HoppingExists ==
    ASSUME NEW s, NEW a, NEW n \in Nat
    PROVE  \E f : Hopping(s, a, n, f)
<1> DEFINE T == {k \in Nat : \E f : Hopping(s, a, k, f)}
           A == [at |-> s.code[a].to, regs |-> {}, passed |-> {}]
           St(v) == Hopped(s, a, v)
<1>1. ASSUME NEW k \in Nat, \A m \in Nat : m < k => m \in T PROVE k \in T
    <2>1. CASE k = 0
        <3> DEFINE f == [h \in 0 .. 0 |-> A]
        <3>1. \A h \in 0 .. 0 : h = 0
            OBVIOUS
        <3>2. Hopping(s, a, 0, f)
            BY <3>1 DEF Hopping
        <3> QED
            BY <2>1, <3>2
    <2>2. CASE k # 0
        <3>1. k - 1 \in Nat /\ k - 1 < k
            BY <2>2
        <3>2. PICK g : Hopping(s, a, k - 1, g)
            BY <1>1, <3>1
        <3> DEFINE f == [h \in 0 .. k |-> IF h < k THEN g[h] ELSE St(g[h - 1])]
        <3>3. ASSUME NEW h \in 0 .. k
              PROVE  f[h] = IF h = 0 THEN A ELSE St(f[h - 1])
            <4>1. CASE h < k
                <5>1. h \in 0 .. k - 1 /\ (h # 0 => h - 1 \in 0 .. k /\ h - 1 < k)
                    BY <4>1
                <5>2. g[h] = IF h = 0 THEN A ELSE St(g[h - 1])
                    BY <3>2, <5>1 DEF Hopping
                <5> QED
                    BY <4>1, <5>1, <5>2
            <4>2. CASE h = k
                <5>1. h # 0 /\ h - 1 \in 0 .. k /\ h - 1 < k
                    BY <2>2, <4>2
                <5> QED
                    BY <4>2, <5>1
            <4> QED
                BY <4>1, <4>2
        <3>4. f = [h \in 0 .. k |-> f[h]]
            OBVIOUS
        <3>5. Hopping(s, a, k, f)
            <4> HIDE DEF f
            <4>1. f = [h \in 0 .. k |-> IF h = 0 THEN A ELSE St(f[h - 1])]
                BY <3>3, <3>4
            <4> QED
                BY <4>1 DEF Hopping
        <3> QED
            BY <3>5
    <2> QED
        BY <2>1, <2>2
<1>2. Nat \subseteq T
    <2> HIDE DEF T
    <2> QED
        BY <1>1, SetInduction
<1> QED
    BY <1>2

\* Where a threaded transfer ends up is what the last of the hops came to.
LEMMA ThreadedHops ==
    ASSUME NEW s, NEW a
    PROVE  \E f : Hopping(s, a, THREAD_HOPS, f) /\ Threaded(s, a) = f[THREAD_HOPS]
<1> DEFINE f == CHOOSE g : Hopping(s, a, THREAD_HOPS, g)
<1>1. Hopping(s, a, THREAD_HOPS, f)
    BY HoppingExists, JumpAssumption
<1>2. Threaded(s, a) = f[THREAD_HOPS]
    BY DEF Threaded, Hopping, Hopped
<1> QED
    BY <1>1, <1>2

\* The jumps a threaded transfer passes are in the section.
LEMMA PassedWithin ==
    ASSUME NEW s, NEW a
    PROVE  Threaded(s, a).passed \subseteq DOMAIN s.code
<1> DEFINE H == THREAD_HOPS
<1>0. H \in Nat
    BY JumpAssumption
<1>1. PICK f : Hopping(s, a, H, f) /\ Threaded(s, a) = f[H]
    BY ThreadedHops
<1> HIDE DEF H
<1> DEFINE T == {k \in Nat : k <= H => f[k].passed \subseteq DOMAIN s.code}
<1>2. ASSUME NEW t, t.passed \subseteq DOMAIN s.code
      PROVE  Hopped(s, a, t).passed \subseteq DOMAIN s.code
    <2> DEFINE on == {j \in thread_jump_at(s, t.at) : j.to # t.at /\ GoesOn(s, a, j, t.regs)}
               j == CHOOSE k \in on : TRUE
    <2>1. CASE on = {}
        BY <1>2, <2>1 DEF Hopped
    <2>2. CASE on # {}
        <3>1. Hopped(s, a, t).passed = t.passed \cup {t.at, IF j.wrote = {} THEN t.at ELSE t.at + 1}
            BY <2>2 DEF Hopped
        <3>2. j \in thread_jump_at(s, t.at)
            BY <2>2
        <3> HIDE DEF j
        <3>3. t.at \in DOMAIN s.code
            BY <3>2 DEF thread_jump_at, InSection
        <3>4. j.wrote # {} => t.at + 1 \in DOMAIN s.code
            BY <3>2 DEF thread_jump_at, When, IsPair
        <3> QED
            BY <1>2, <3>1, <3>3, <3>4
    <2> QED
        BY <2>1, <2>2
<1>3. ASSUME NEW k \in Nat, \A m \in Nat : m < k => m \in T PROVE k \in T
    <2>1. CASE k = 0
        BY <1>0, <1>1, <2>1 DEF Hopping
    <2>2. CASE k # 0 /\ k <= H
        <3>1. k - 1 \in Nat /\ k - 1 < k /\ k - 1 <= H /\ k \in 0 .. H
            BY <1>0, <2>2
        <3>2. f[k] = Hopped(s, a, f[k - 1])
            BY <1>1, <2>2, <3>1 DEF Hopping
        <3>3. f[k - 1].passed \subseteq DOMAIN s.code
            BY <1>3, <3>1
        <3> QED
            BY <1>2, <3>2, <3>3
    <2>3. CASE ~(k <= H)
        BY <2>3
    <2> QED
        BY <2>1, <2>2, <2>3
<1>4. Nat \subseteq T
    <2> HIDE DEF T
    <2> QED
        BY <1>3, SetInduction
<1> QED
    BY <1>0, <1>1, <1>4

\* The instructions of a tail are in the section, in front of every jump to its label.
LEMMA TailWithin ==
    ASSUME NEW s, IsSection(s), NEW sites
    PROVE  /\ TailLength(s, sites) \in Nat
           /\ \A p \in sites : \A j \in 1 .. TailLength(s, sites) : InSection(s, p - j)
<1> DEFINE D(j) == (\A p \in sites : InSection(s, p - j)) /\ TailStep(s, sites, j)
           C == {k \in 1 .. CROSS_TAIL : \A j \in 1 .. k : D(j)}
           N == Cardinality(C)
<1>1. CROSS_TAIL \in Nat
    BY JumpAssumption
<1>2. TailLength(s, sites) = N
    BY DEF TailLength
<1>3. ASSUME NEW k \in C, NEW j \in 1 .. k
      PROVE  j \in C /\ D(j)
    <2> HIDE DEF D
    <2>1. j \in 1 .. CROSS_TAIL /\ 1 .. j \subseteq 1 .. k
        BY <1>1, <1>3
    <2> QED
        BY <1>3, <2>1
<1>4. C \subseteq 1 .. CROSS_TAIL /\ IsFiniteSet(C)
    <2>1. IsFiniteSet(1 .. CROSS_TAIL)
        BY <1>1, FS_Interval
    <2> HIDE DEF D
    <2> QED
        BY <2>1, FS_Subset
<1>5. N \in Nat
    BY <1>4, FS_CardinalityType
<1>6. ASSUME NEW j \in 1 .. N
      PROVE  j \in C
    <2> HIDE DEF D
    <2>1. SUFFICES ASSUME j \notin C PROVE FALSE
        OBVIOUS
    <2>2. C \subseteq 1 .. j - 1
        <3> SUFFICES ASSUME NEW k \in C PROVE k \in 1 .. j - 1
            OBVIOUS
        <3>1. k \in 1 .. CROSS_TAIL
            BY <1>4
        <3>2. ~(j <= k)
            BY <1>1, <1>3, <1>5, <2>1, <3>1
        <3> QED
            BY <1>1, <1>5, <3>1, <3>2
    <2> HIDE DEF C
    <2>3. j - 1 \in Nat /\ IsFiniteSet(1 .. j - 1) /\ Cardinality(1 .. j - 1) = j - 1
        <3>1. j - 1 \in Nat
            BY <1>5
        <3>2. 1 \in Int /\ j - 1 \in Int /\ (1 <= j - 1 \/ j - 1 = 0)
            BY <3>1
        <3>3. IsFiniteSet(1 .. j - 1) /\ Cardinality(1 .. j - 1) = IF 1 > j - 1 THEN 0 ELSE j - 1 - 1 + 1
            BY <3>2, FS_Interval
        <3> QED
            BY <3>1, <3>2, <3>3
    <2>4. N <= j - 1
        BY <2>2, <2>3, FS_Subset
    <2> QED
        BY <1>5, <2>3, <2>4
<1>7. ASSUME NEW p \in sites, NEW j \in 1 .. N
      PROVE  InSection(s, p - j)
    <2>1. j \in C /\ j \in 1 .. j
        BY <1>5, <1>6
    <2>2. D(j)
        BY <1>3, <2>1
    <2> QED
        BY <2>2
<1> HIDE DEF N
<1> QED
    BY <1>2, <1>5, <1>7

\* The findings of the checks of jumps are about instructions of the section.
LEMMA JumpsWithin ==
    ASSUME NEW s, IsSection(s), NEW a \in DOMAIN s.code, NEW f \in JumpFindings(s, a)
    PROVE  Within(s, f)
<1>1. CASE f \in check_transfer_to_jump(s, a)
    <2>1. DOMAIN f.patch = {a} \cup Threaded(s, a).passed
        BY <1>1 DEF check_transfer_to_jump, When, Finding
    <2> QED
        BY <2>1, PassedWithin DEF Within
<1>2. CASE f \in check_cross_jump(s, a)
    <2> DEFINE label == CHOOSE p \in LabelOf(s, a) : TRUE
               sites == Sites(s, label)
               k == TailLength(s, sites)
               tails == UNION {p - k .. p - 1 : p \in sites}
               jumps == UNION {IF rv_decode_jump(s.code[p]) THEN {p} ELSE {p, p + 1} : p \in sites}
    <2>1. LabelOf(s, a) # {} /\ DOMAIN f.patch = {label} \cup tails \cup jumps
        BY <1>2 DEF check_cross_jump, When, Finding, Moved
    <2>2. label \in DOMAIN s.code
        BY <2>1 DEF LabelOf, InSection
    <2>3. k \in Nat /\ \A p \in sites : \A j \in 1 .. k : p - j \in DOMAIN s.code
        BY TailWithin DEF InSection
    <2>4. ASSUME NEW p \in sites
          PROVE  /\ p \in DOMAIN s.code /\ p \in Int
                 /\ ~rv_decode_jump(s.code[p]) => p + 1 \in DOMAIN s.code
        <3>1. PICK t \in s.preds : p = t.site
            BY <2>4 DEF Sites
        <3>2. t \in Relatives(s.code) \cup Veneers(s.code) /\ t.jump
            <4> DEFINE L == Listed(s.code, s.note.room)
            <4>1. s.preds = L
                BY DEF IsSection, SetSection
            <4>2. L \subseteq Jumps(s.code)
                BY DEF Listed
            <4> HIDE DEF L
            <4> QED
                BY <3>1, <4>1, <4>2 DEF Jumps
        <3>3. CASE t \in Relatives(s.code)
            <4>1. PICK q \in {u \in DOMAIN s.code : s.code[u].op \in Relative} :
                    t = [site |-> q, target |-> s.code[q].to,
                         jump |-> rv_decode_jump(s.code[q]) /\ s.code[q].rd = 0]
                BY <3>3 DEF Relatives
            <4>2. t.site = q /\ (t.jump <=> rv_decode_jump(s.code[q]) /\ s.code[q].rd = 0)
                BY <4>1
            <4>3. rv_decode_jump(s.code[p])
                BY <3>1, <3>2, <4>2
            <4> QED
                BY <3>1, <4>1, <4>2, <4>3 DEF IsSection
        <3>4. CASE t \in Veneers(s.code)
            BY <3>1, <3>4 DEF Veneers, IsPair, IsSection
        <3> QED
            BY <3>2, <3>3, <3>4
    <2> HIDE DEF label, sites, k
    <2>5. tails \subseteq DOMAIN s.code
        <3> SUFFICES ASSUME NEW p \in sites, NEW q \in p - k .. p - 1
                     PROVE  q \in DOMAIN s.code
            OBVIOUS
        <3>1. p \in Int
            BY <2>4
        <3>2. p - q \in 1 .. k /\ q = p - (p - q)
            BY <2>3, <3>1
        <3> QED
            BY <2>3, <3>2
    <2>6. jumps \subseteq DOMAIN s.code
        <3> SUFFICES ASSUME NEW p \in sites,
                            NEW q \in IF rv_decode_jump(s.code[p]) THEN {p} ELSE {p, p + 1}
                     PROVE  q \in DOMAIN s.code
            OBVIOUS
        <3> QED
            BY <2>4
    <2> HIDE DEF tails, jumps
    <2> QED
        BY <2>1, <2>2, <2>5, <2>6 DEF Within
<1> QED
    BY <1>1, <1>2 DEF JumpFindings

\* Every finding is.
LEMMA FindingsWithin ==
    ASSUME NEW s, IsSection(s), NEW a \in DOMAIN s.code, NEW folded, NEW f \in Findings(s, a, folded)
    PROVE  Within(s, f)
<1>1. a \in Nat \ {0}
    BY DEF IsSection
<1> QED
    BY <1>1, BranchesWithin, ValuesWithin, ConstsWithin, MemoryWithin, JumpsWithin DEF Findings

\* The add that is spoken for is one in front of the scan, of the section.
LEMMA ClaimsWithin ==
    ASSUME NEW s, IsSection(s), NEW a \in DOMAIN s.code, NEW folded,
           folded \in {None} \cup DOMAIN s.code, folded <= a + 1
    PROVE  /\ Claims(s, a, folded) \in {None} \cup DOMAIN s.code
           /\ Claims(s, a, folded) <= a + 2
<1>0. a \in Nat \ {0}
    BY DEF IsSection
<1> DEFINE F == DeeperFolds(s, a)
<1>3. DOMAIN s.code = 1 .. Len(s.code) /\ Len(s.code) \in Nat
    BY DEF IsSection
<1>1. CASE F = {}
    <2>1. Claims(s, a, folded) = folded
        BY <1>1 DEF Claims
    <2>2. folded \in Int
        BY DEF None, IsSection
    <2> QED
        BY <1>0, <2>1, <2>2 DEF None
<1>2. CASE F # {}
    <2>1. PICK f \in F : Claims(s, a, folded) = AddOf(f)
        BY <1>2 DEF Claims
    <2>2. a \in Int
        BY <1>0
    <2>3. CASE f \in check_scaled_indexed_load(s, a)
        <3>1. AddOf(f) = a + 1
            BY <2>2, <2>3, ScaledClaims
        <3>2. Window(s, a, 3)
            BY <2>3 DEF check_scaled_indexed_load, When
        <3>3. a + 2 \in DOMAIN s.code
            BY <3>2 DEF Window, InSection
        <3> QED
            BY <1>0, <1>3, <2>1, <3>1, <3>3
    <2>4. CASE f \in check_zext_indexed_load(s, a)
        <3>1. AddOf(f) = a + 2
            BY <2>2, <2>4, ZextClaims
        <3>2. Window(s, a, 4)
            BY <2>4 DEF check_zext_indexed_load, When
        <3>3. a + 3 \in DOMAIN s.code
            BY <3>2 DEF Window, InSection
        <3> QED
            BY <1>0, <1>3, <2>1, <3>1, <3>3
    <2> QED
        BY <2>1, <2>3, <2>4 DEF DeeperFolds
<1> QED
    BY <1>1, <1>2

-------------------------------------------------------------------------------
(* The table of the popcount matcher.                                      *)

\* The parts of what is known of a sequence, and of a register when n is the next
\* instruction: where a sequence started is behind it.
Stage(q) == DOMAIN q = {"stage", "src", "wide", "clob", "insn", "base", "start"}

Entry(e, n) ==
    /\ DOMAIN e = {"known", "seq"} /\ Stage(e.seq)
    /\ e.seq.stage # "none" => e.seq.start \in 1 .. n - 1
Table(tab, n) == DOMAIN tab = Regs /\ \A r \in Regs : Entry(tab[r], n)

\* Nothing is known of any register in the empty table.
LEMMA NoTableIs ==
    ASSUME NEW n
    PROVE  Table(NoTable, n) /\ Entry(Nothing, n) /\ Stage(NoStage) /\ NoStage.stage = "none"
<1>1. Stage(NoStage) /\ NoStage.stage = "none"
    BY DEF Stage, NoStage
<1>2. Entry(Nothing, n)
    BY <1>1 DEF Nothing, Entry
<1> QED
    BY <1>1, <1>2 DEF Table, NoTable

\* A table stays one as the scan goes on, and when what is computed from a register is
\* lost.
LEMMA TableKill ==
    ASSUME NEW tab, NEW n \in Nat, Table(tab, n), NEW rd
    PROVE  Table(tab, n + 1) /\ Table(pc_kill(tab, rd), n)
<1>1. Table(tab, n + 1)
    BY DEF Table, Entry
<1>2. ASSUME NEW q \in Regs
      PROVE  Entry(pc_clear(tab, q)[q], n)
    <2>1. pc_clear(tab, q)[q] = [tab[q] EXCEPT !.seq = NoStage]
        BY DEF pc_clear, Table
    <2> QED
        BY <2>1, NoTableIs DEF Table, Entry
<1>3. Table(pc_kill(tab, rd), n)
    BY <1>2, NoTableIs DEF pc_kill, Table
<1> QED
    BY <1>1, <1>3

\* When a register comes to hold a stage that started earlier.
LEMMA TableWrite ==
    ASSUME NEW tab, NEW n \in Nat, Table(tab, n), NEW rd \in Regs, NEW q, Stage(q),
           q.start \in 1 .. n - 1, NEW stage
    PROVE  Table(pc_write(tab, rd, q, stage), n)
<1> DEFINE new == [q EXCEPT !.stage = stage, !.clob = q.clob \/ rd = q.src,
                            !.insn = q.insn + 1,
                            !.base = IF stage = "stage1" THEN q.insn + 1 ELSE q.base]
           cleared == pc_clear_dst(tab, rd)
<1>1. Stage(new) /\ new.start = q.start
    BY DEF Stage
<1>2. Table(cleared, n)
    BY NoTableIs DEF pc_clear_dst, Table
<1>3. pc_write(tab, rd, q, stage) = [cleared EXCEPT ![rd].seq = new]
    BY DEF pc_write
<1> HIDE DEF new, cleared
<1>4. Entry([cleared[rd] EXCEPT !.seq = new], n)
    BY <1>1, <1>2 DEF Table, Entry
<1> QED
    BY <1>2, <1>3, <1>4 DEF Table

\* When it comes to hold a constant.
LEMMA TableConstant ==
    ASSUME NEW tab, NEW n \in Nat, Table(tab, n), NEW rd \in Regs, NEW v
    PROVE  Table(Constant(tab, rd, v), n)
<1> DEFINE killed == pc_kill(tab, rd)
<1>1. Table(killed, n)
    BY TableKill
<1>2. Constant(tab, rd, v) = [killed EXCEPT ![rd].known = {v}]
    BY DEF Constant
<1> HIDE DEF killed
<1>3. Entry([killed[rd] EXCEPT !.known = {v}], n)
    BY <1>1 DEF Table, Entry
<1> QED
    BY <1>1, <1>2, <1>3 DEF Table

\* A shift.
LEMMA TableShift ==
    ASSUME NEW tab, NEW p \in Nat \ {0}, Table(tab, p), NEW i, i.rd \in Regs, i.a \in Regs
    PROVE  Table(AfterShift(tab, i, p), p + 1)
<1> DEFINE q == tab[i.a].seq
           killed == pc_kill(tab, i.rd)
           new == [NoStage EXCEPT !.stage = "shr1", !.src = i.a, !.insn = 1, !.start = p]
           C1 == i.k = 1 /\ i.n = XLEN
           C2 == i.k = 2 /\ i.n = XLEN /\ q.stage = "stage1"
           C3 == i.k = 4 /\ i.n = XLEN /\ q.stage = "stage2"
           V1 == IF i.rd = i.a THEN killed ELSE [killed EXCEPT ![i.rd].seq = new]
           V2 == pc_write(tab, i.rd, q, "shr2")
           V3 == pc_write(tab, i.rd, q, "shr4")
<1>1. AfterShift(tab, i, p) = CASE C1 -> V1 [] C2 -> V2 [] C3 -> V3 [] OTHER -> killed
    BY DEF AfterShift
<1>2. p + 1 \in Nat /\ Table(tab, p + 1) /\ Table(killed, p + 1)
    <2>1. p \in Nat /\ p + 1 \in Nat
        OBVIOUS
    <2>2. Table(tab, p + 1)
        BY <2>1, TableKill
    <2> DEFINE n == p + 1
    <2>3. n \in Nat /\ Table(tab, n)
        BY <2>1, <2>2
    <2> HIDE DEF n
    <2>4. Table(pc_kill(tab, i.rd), n)
        BY <2>3, TableKill
    <2> QED
        BY <2>1, <2>2, <2>4 DEF n
<1>3. Stage(new) /\ new.start = p
    BY NoTableIs DEF Stage
<1>4. Stage(q) /\ (q.stage # "none" => q.start \in 1 .. p)
    BY DEF Table, Entry
<1>5. C2 => ~C1
    OBVIOUS
<1>6. C3 => ~C1 /\ ~C2
    OBVIOUS
<1>7. C2 \/ C3 => q.stage # "none"
    OBVIOUS
<1> HIDE DEF killed, new, C1, C2, C3, q
<1>8. Table(V1, p + 1)
    <2>1. Entry([killed[i.rd] EXCEPT !.seq = new], p + 1)
        BY <1>2, <1>3 DEF Table, Entry
    <2> QED
        BY <1>2, <2>1 DEF Table
<1>9. ASSUME NEW stage, C2 \/ C3
      PROVE  Table(pc_write(tab, i.rd, q, stage), p + 1)
    <2> DEFINE n == p + 1
    <2>1. n \in Nat /\ Table(tab, n) /\ q.start \in 1 .. n - 1
        BY <1>2, <1>4, <1>7, <1>9
    <2> HIDE DEF n
    <2>2. Table(pc_write(tab, i.rd, q, stage), n)
        BY <1>4, <2>1, TableWrite
    <2> QED
        BY <2>2 DEF n
<1> HIDE DEF V1
<1>10. CASE C1
    BY <1>1, <1>5, <1>6, <1>8, <1>10
<1>11. CASE C2
    BY <1>1, <1>5, <1>6, <1>9, <1>11
<1>12. CASE C3
    BY <1>1, <1>5, <1>6, <1>9, <1>12
<1>13. CASE ~C1 /\ ~C2 /\ ~C3
    BY <1>1, <1>2, <1>13
<1> QED
    BY <1>10, <1>11, <1>12, <1>13

\* A stage and a mask.
LEMMA TableAnd ==
    ASSUME NEW tab, NEW n \in Nat, Table(tab, n), NEW i, {i.rd, i.a, i.b} \subseteq Regs
    PROVE  Table(AfterAnd(tab, i), n)
<1> DEFINE use(arm) == IF tab[i.a].seq.stage = arm[1] THEN <<i.a, i.b>> ELSE <<i.b, i.a>>
           widths(arm) == IF arm[1] = "shr1" THEN BOOLEAN ELSE {tab[use(arm)[1]].seq.wide}
           fits == {f \in Arms \X BOOLEAN :
                        /\ tab[use(f[1])[1]].seq.stage = f[1][1] /\ f[2] \in widths(f[1])
                        /\ pc_is_mask(tab, use(f[1])[2], f[1][2], f[2])}
           g == CHOOSE f \in fits : TRUE
<1>1. CASE fits = {}
    <2>1. AfterAnd(tab, i) = pc_kill(tab, i.rd)
        BY <1>1 DEF AfterAnd
    <2> QED
        BY <2>1, TableKill
<1>2. CASE fits # {}
    <2> DEFINE r == use(g[1])[1]
               q == [tab[r].seq EXCEPT !.wide = g[2]]
    <2>1. AfterAnd(tab, i) = pc_write(tab, i.rd, q, g[1][3])
        BY <1>2 DEF AfterAnd
    <2>2. g \in Arms \X BOOLEAN /\ tab[r].seq.stage = g[1][1]
        <3>1. g \in fits
            BY <1>2
        <3> HIDE DEF g
        <3> QED
            BY <3>1
    <2>3. r \in Regs
        <3> HIDE DEF g
        <3> QED
            OBVIOUS
    <2> HIDE DEF g, r
    <2>4. tab[r].seq.stage # "none"
        BY <2>2 DEF Arms
    <2>5. Stage(tab[r].seq) /\ tab[r].seq.start \in 1 .. n - 1
        BY <2>3, <2>4 DEF Table, Entry
    <2>6. Stage(q) /\ q.start \in 1 .. n - 1
        BY <2>5 DEF Stage
    <2> HIDE DEF q
    <2> QED
        BY <2>1, <2>6, TableWrite
<1> QED
    BY <1>1, <1>2

\* What was counted in pairs.
LEMMA TableSub ==
    ASSUME NEW tab, NEW n \in Nat, Table(tab, n), NEW i, {i.rd, i.a, i.b} \subseteq Regs
    PROVE  Table(AfterSub(tab, i), n)
<1> DEFINE q == tab[i.b].seq
           C == q.stage = "and55" /\ q.src = i.a
<1>1. AfterSub(tab, i) = IF C THEN pc_write(tab, i.rd, q, "stage1") ELSE pc_kill(tab, i.rd)
    BY DEF AfterSub
<1>2. Stage(q) /\ (C => q.start \in 1 .. n - 1)
    BY DEF Table, Entry
<1> HIDE DEF q, C
<1>3. C => Table(pc_write(tab, i.rd, q, "stage1"), n)
    BY <1>2, TableWrite
<1> QED
    BY <1>1, <1>3, TableKill

\* Two halves.
LEMMA TableAdd ==
    ASSUME NEW tab, NEW n \in Nat, Table(tab, n), NEW i, {i.rd, i.a, i.b} \subseteq Regs
    PROVE  Table(AfterAdd(tab, i), n)
<1> DEFINE a == tab[i.a].seq
           b == tab[i.b].seq
           alike == a.src = b.src /\ a.wide = b.wide
           lower == IF a.start < b.start THEN a.start ELSE b.start
           longer == IF a.insn > b.insn THEN a ELSE b
           either == a.clob \/ b.clob
           C1 == {a.stage, b.stage} = {"and33", "and33s"} /\ alike /\ a.base = b.base
           C2 == {a.stage, b.stage} = {"stage2", "shr4"} /\ alike
           q1 == [a EXCEPT !.insn = a.insn + b.insn - a.base, !.clob = either, !.start = lower]
           q2 == [longer EXCEPT !.clob = either]
           V1 == pc_write(tab, i.rd, q1, "stage2")
           V2 == pc_write(tab, i.rd, q2, "sum4")
<1>1. AfterAdd(tab, i) = CASE C1 -> V1 [] C2 -> V2 [] OTHER -> pc_kill(tab, i.rd)
    BY DEF AfterAdd
<1>2. /\ Stage(a) /\ (a.stage # "none" => a.start \in 1 .. n - 1)
      /\ Stage(b) /\ (b.stage # "none" => b.start \in 1 .. n - 1)
    BY DEF Table, Entry
<1>3. C1 \/ C2 => a.stage # "none" /\ b.stage # "none"
    <2> HIDE DEF a, b, alike
    <2> QED
        OBVIOUS
<1>4. C2 => ~C1
    <2> HIDE DEF a, b, alike
    <2> QED
        OBVIOUS
<1> HIDE DEF C1, C2, a, b
<1>5. C1 => Stage(q1) /\ q1.start \in 1 .. n - 1
    <2>1. C1 => lower \in 1 .. n - 1
        BY <1>2, <1>3
    <2> HIDE DEF lower, either
    <2> QED
        BY <1>2, <2>1 DEF Stage
<1>6. C2 => Stage(q2) /\ q2.start \in 1 .. n - 1
    <2>1. C2 => Stage(longer) /\ longer.start \in 1 .. n - 1
        BY <1>2, <1>3
    <2> HIDE DEF longer, either
    <2> QED
        BY <2>1 DEF Stage
<1> HIDE DEF q1, q2
<1>7. C1 => Table(V1, n)
    BY <1>5, TableWrite
<1>8. C2 => Table(V2, n)
    BY <1>6, TableWrite
<1> HIDE DEF V1, V2
<1>9. CASE C1
    BY <1>1, <1>4, <1>7, <1>9
<1>10. CASE C2
    BY <1>1, <1>4, <1>8, <1>10
<1>11. CASE ~C1 /\ ~C2
    BY <1>1, <1>11, TableKill
<1> QED
    BY <1>9, <1>10, <1>11

\* The sum of all the bytes.
LEMMA TableMul ==
    ASSUME NEW tab, NEW n \in Nat, Table(tab, n), NEW i, {i.rd, i.a, i.b} \subseteq Regs
    PROVE  Table(AfterMul(tab, i), n)
<1> DEFINE use == IF tab[i.a].seq.stage = "stage3" THEN <<i.a, i.b>> ELSE <<i.b, i.a>>
           r == use[1]
           q == tab[r].seq
           C == q.stage = "stage3" /\ pc_is_mask(tab, use[2], "m01", q.wide)
<1>1. AfterMul(tab, i) = IF C THEN pc_write(tab, i.rd, q, "mul") ELSE pc_kill(tab, i.rd)
    BY DEF AfterMul
<1>2. r \in Regs
    OBVIOUS
<1>3. C => q.stage = "stage3"
    OBVIOUS
<1> HIDE DEF r, C
<1>4. Stage(q) /\ (C => q.start \in 1 .. n - 1)
    BY <1>2, <1>3 DEF Table, Entry
<1> HIDE DEF q
<1>5. C => Table(pc_write(tab, i.rd, q, "mul"), n)
    BY <1>4, TableWrite
<1> QED
    BY <1>1, <1>5, TableKill

\* Whatever the instruction, the table stays one.
LEMMA TableObserve ==
    ASSUME NEW tab, NEW p \in Nat \ {0}, Table(tab, p), NEW i \in Insns
    PROVE  Table(pc_observe(tab, i, p), p + 1)
<1> DEFINE n == p + 1
           constant == KnownConstant(tab, i)
           and == i.op = "and"
           sub == i.op = "sub"
           add == i.op = "add"
           mul == i.op = "mul"
           V1 == Constant(tab, i.rd, CHOOSE v \in constant : TRUE)
           V2 == AfterShift(tab, i, p)
           V3 == IF i.rd # 0 /\ ~IsF(i.rd) THEN pc_kill(tab, i.rd) ELSE tab
           V4 == CASE and -> AfterAnd(tab, i) [] sub -> AfterSub(tab, i)
                   [] add -> AfterAdd(tab, i) [] mul -> AfterMul(tab, i)
<1>1. pc_observe(tab, i, p) = IF constant # {} THEN V1
                             ELSE IF pc_decode_srl(i) THEN V2
                             ELSE IF ~decode_rrr(i) THEN V3
                             ELSE V4
    BY DEF pc_observe
<1>2. i.rd \in Regs /\ i.a \in Regs /\ i.b \in Regs \cup {Imm}
    BY DEF Insns
<1>3. p \in Nat /\ n \in Nat /\ Table(tab, n)
    BY TableKill
<1>4. Table(V2, n)
    BY <1>2, TableShift
<1>5. decode_rrr(i) => i.b \in Regs /\ (and \/ sub \/ add \/ mul)
    BY <1>2 DEF decode_rrr
<1>6. (and => ~sub /\ ~add /\ ~mul) /\ (sub => ~add /\ ~mul) /\ (add => ~mul)
    OBVIOUS
<1> HIDE DEF n, constant, and, sub, add, mul, V2
<1>7. Table(V1, n)
    BY <1>2, <1>3, TableConstant
<1>8. Table(V3, n)
    BY <1>3, TableKill
<1>9. decode_rrr(i) => Table(V4, n)
    <2> SUFFICES ASSUME decode_rrr(i) PROVE Table(V4, n)
        OBVIOUS
    <2>1. {i.rd, i.a, i.b} \subseteq Regs /\ (and \/ sub \/ add \/ mul)
        BY <1>2, <1>5
    <2>2. CASE and
        <3>1. V4 = AfterAnd(tab, i)
            BY <1>6, <2>2
        <3> QED
            BY <1>3, <2>1, <3>1, TableAnd
    <2>3. CASE sub
        <3>1. V4 = AfterSub(tab, i)
            BY <1>6, <2>3
        <3> QED
            BY <1>3, <2>1, <3>1, TableSub
    <2>4. CASE add
        <3>1. V4 = AfterAdd(tab, i)
            BY <1>6, <2>4
        <3> QED
            BY <1>3, <2>1, <3>1, TableAdd
    <2>5. CASE mul
        <3>1. V4 = AfterMul(tab, i)
            BY <1>6, <2>5
        <3> QED
            BY <1>3, <2>1, <3>1, TableMul
    <2> QED
        BY <2>1, <2>2, <2>3, <2>4, <2>5
<1> HIDE DEF V1, V3, V4
<1>10. Table(pc_observe(tab, i, p), n)
    BY <1>1, <1>4, <1>7, <1>8, <1>9
<1> QED
    BY <1>10 DEF n

-------------------------------------------------------------------------------
(* Type correctness.                                                     *)

\* The scan between its instructions, with the matcher's table and the add spoken for.
\* At the end of the section that another follows the table is empty.
TypeInv ==
    /\ AllEnded /\ SectionInv
    /\ at <= Len(sec.code) + 1
    /\ again => Ended(sec)
    /\ again /\ at = Len(sec.code) + 1 => pc = NoTable
    /\ Table(pc, at)
    /\ zilx_folded \in {None} \cup DOMAIN sec.code /\ zilx_folded <= at + 1
    /\ \A f \in found : Within(sec, f)

\* It holds where the scan starts.
LEMMA TypeInit == AllEnded /\ Init => TypeInv
<1> SUFFICES ASSUME AllEnded, Init PROVE TypeInv
    OBVIOUS
<1>1. PICK n \in DOMAIN Sections : \E s \in Sections[n] : sec = SetSection(s.code, s.note)
    BY DEF Init
<1>2. PICK s \in Sections[n] : sec = SetSection(s.code, s.note)
    BY <1>1
<1>3. Ended(sec)
    BY <1>2 DEF AllEnded, Ended, SetSection
<1>4. SectionInv
    BY SectionInductive
<1>5. Len(sec.code) \in Nat
    BY <1>4 DEF SectionInv, IsSection
<1>6. Table(pc, at) /\ pc = NoTable
    BY NoTableIs DEF Init
<1>7. at = 1 /\ zilx_folded = 0 /\ found = {}
    BY DEF Init, None
<1> QED
    BY <1>3, <1>4, <1>5, <1>6, <1>7 DEF TypeInv, None

\* An instruction keeps it.
LEMMA TypeScan ==
    ASSUME TypeInv, Scan
    PROVE  TypeInv'
<1>1. SectionInv' /\ AllEnded'
    BY SectionInductive DEF TypeInv, AllEnded, Next
<1>2. /\ sec' = sec /\ again' = again /\ at' = at + 1
      /\ at \in DOMAIN sec.code /\ IsSection(sec) /\ at \in Nat \ {0}
    BY DEF Scan, TypeInv, SectionInv, InSection
<1>3. DOMAIN sec.code = 1 .. Len(sec.code) /\ Len(sec.code) \in Nat /\ sec.code[at] \in Insns
    BY <1>2 DEF IsSection
<1>4. at' <= Len(sec'.code) + 1
    BY <1>2, <1>3
<1>5. pc' = pc_after(pc, sec, at)
    BY DEF Scan
<1>6. Table(pc', at')
    <2>1. Table(pc_observe(pc, sec.code[at], at), at + 1)
        BY <1>2, <1>3, TableObserve DEF TypeInv
    <2>2. Table(NoTable, at + 1)
        BY NoTableIs
    <2> QED
        BY <1>2, <1>5, <2>1, <2>2 DEF pc_after
<1>7. again' /\ at' = Len(sec'.code) + 1 => pc' = NoTable
    <2> SUFFICES ASSUME again', at' = Len(sec'.code) + 1 PROVE pc' = NoTable
        OBVIOUS
    <2>1. at = Len(sec.code) /\ sec.code # <<>>
        BY <1>2, <1>3
    <2>2. rv_ends_region(sec.code[at])
        BY <1>2, <2>1 DEF TypeInv, Ended
    <2> QED
        BY <1>5, <2>2 DEF pc_after
<1>8. /\ zilx_folded' \in {None} \cup DOMAIN sec'.code
      /\ zilx_folded' <= at' + 1
    <2>1. zilx_folded' = Claims(sec, at, zilx_folded)
        BY DEF Scan
    <2>2. Claims(sec, at, zilx_folded) \in {None} \cup DOMAIN sec.code
          /\ Claims(sec, at, zilx_folded) <= at + 2
        BY <1>2, ClaimsWithin DEF TypeInv
    <2>3. at' + 1 = at + 2
        BY <1>2
    <2> QED
        BY <1>2, <2>1, <2>2, <2>3
<1>9. \A f \in found' : Within(sec', f)
    <2>1. found' = Findings(sec, at, zilx_folded)
        BY DEF Scan
    <2> QED
        BY <1>2, <2>1, FindingsWithin
<1>10. again' => Ended(sec')
    BY <1>2 DEF TypeInv
<1> QED
    BY <1>1, <1>4, <1>6, <1>7, <1>8, <1>9, <1>10 DEF TypeInv, None

\* So does the next section, at the end of one that leaves the table empty.
LEMMA TypeNext ==
    ASSUME TypeInv, NextSection
    PROVE  TypeInv'
<1>1. SectionInv' /\ AllEnded'
    BY SectionInductive DEF TypeInv, AllEnded, Next
<1>2. at' = 1 /\ zilx_folded' = 0 /\ found' = {} /\ again' = FALSE /\ pc' = pc
    BY DEF NextSection, Reset, None
<1>3. pc = NoTable
    <2>1. again /\ at \notin DOMAIN sec.code
        BY DEF NextSection, InSection
    <2>2. DOMAIN sec.code = 1 .. Len(sec.code) /\ Len(sec.code) \in Nat
        BY DEF TypeInv, SectionInv, IsSection
    <2>3. at \in Nat \ {0} /\ at <= Len(sec.code) + 1
        BY DEF TypeInv, SectionInv
    <2>4. at = Len(sec.code) + 1
        BY <2>1, <2>2, <2>3
    <2> QED
        BY <2>1, <2>4 DEF TypeInv
<1>4. Table(pc', at')
    BY <1>2, <1>3, NoTableIs
<1>5. Len(sec'.code) \in Nat
    BY <1>1 DEF SectionInv, IsSection
<1> QED
    BY <1>1, <1>2, <1>4, <1>5 DEF TypeInv, None

\* The invariant is inductive.
LEMMA TypeInductive ==
    /\ AllEnded /\ Init => TypeInv
    /\ TypeInv /\ [Next]_vars => TypeInv'
<1>1. ASSUME TypeInv, UNCHANGED vars
      PROVE  TypeInv'
    BY <1>1 DEF vars, TypeInv, SectionInv, AllEnded, Within, None
<1> QED
    BY <1>1, TypeInit, TypeScan, TypeNext DEF Next

\* Wherever the first sections end in a transfer: the scan stays in the section or stops
\* behind it, the add that is spoken for and where a count of bits began are addresses of
\* this section that the scan has been to or is about to reach, and a finding is about
\* instructions of this section (the ranges riscvlint_checks and pc_observe index by).
THEOREM TypeCorrect == AllEnded /\ Spec => []TypeOK
<1>1. TypeInv => TypeOK
    <2> SUFFICES ASSUME TypeInv PROVE TypeOK
        OBVIOUS
    <2>1. Len(sec.code) \in Nat /\ at \in Nat \ {0} /\ at <= Len(sec.code) + 1
        BY DEF TypeInv, SectionInv, IsSection
    <2>2. \A r \in Regs : pc[r].seq.stage # "none" => pc[r].seq.start \in 1 .. at - 1
        BY DEF TypeInv, Table, Entry
    <2>3. \A f \in found : DOMAIN f.patch \subseteq DOMAIN sec.code
        BY DEF TypeInv, Within
    <2>4. zilx_folded \in {None} \cup DOMAIN sec.code /\ zilx_folded <= at + 1
        BY DEF TypeInv
    <2> QED
        BY <2>1, <2>2, <2>3, <2>4 DEF TypeOK
<1> QED
    BY TypeInductive, <1>1, PTL DEF Spec

-------------------------------------------------------------------------------
(* Threaded transfers.                                                  *)

\* A run of no steps stays where it is.
LEMMA LeavingZero ==
    ASSUME NEW prog, NEW S, NEW h
    PROVE  Leaving(prog, S, h, 0) = h
<1> DEFINE z == 0
<1>1. z \in Nat /\ z = 0
    OBVIOUS
<1> HIDE DEF z
<1>2. PICK F : /\ \A k \in 0 .. z : F[k] = IF k = 0 THEN h ELSE Step(prog, S, F[k - 1])
               /\ Leaving(prog, S, h, z) = F[z]
    BY <1>1, LeavingRun
<1> QED
    BY <1>1, <1>2

\* A run goes on from where its first steps lead.
LEMMA LeavingSum ==
    ASSUME NEW prog, NEW S, NEW h, NEW n \in Nat, NEW k \in Nat
    PROVE  Leaving(prog, S, h, n + k) = Leaving(prog, S, Leaving(prog, S, h, n), k)
<1> DEFINE T == {j \in Nat : \A g : Leaving(prog, S, g, j + k) =
                                        Leaving(prog, S, Leaving(prog, S, g, j), k)}
<1>1. ASSUME NEW j \in Nat, \A i \in Nat : i < j => i \in T
      PROVE  j \in T
    <2>1. CASE j = 0
        <3>1. \A g : Leaving(prog, S, g, 0) = g
            BY LeavingZero
        <3> QED
            BY <2>1, <3>1
    <2>2. CASE j # 0
        <3> DEFINE i == j - 1
        <3>1. i \in Nat /\ i < j /\ j = i + 1 /\ j + k = (i + k) + 1 /\ i + k \in Nat
            BY <2>2
        <3> HIDE DEF i
        <3>2. i \in T
            BY <1>1, <3>1
        <3>3. ASSUME NEW g
              PROVE  Leaving(prog, S, g, j + k) = Leaving(prog, S, Leaving(prog, S, g, j), k)
            <4> DEFINE h1 == Step(prog, S, g)
            <4>1. Leaving(prog, S, g, (i + k) + 1) = Leaving(prog, S, h1, i + k)
                BY <3>1, LeavingNext
            <4>2. Leaving(prog, S, g, i + 1) = Leaving(prog, S, h1, i)
                BY <3>1, LeavingNext
            <4> HIDE DEF h1
            <4>3. Leaving(prog, S, h1, i + k) = Leaving(prog, S, Leaving(prog, S, h1, i), k)
                BY <3>2
            <4> QED
                BY <3>1, <4>1, <4>2, <4>3
        <3> QED
            BY <3>3
    <2> QED
        BY <2>1, <2>2
<1>2. Nat \subseteq T
    <2> HIDE DEF T
    <2> QED
        BY <1>1, SetInduction
<1> QED
    BY <1>2

\* A machine with the registers x at p whose memory stays m; nothing is reserved.
On(x, p, m) == Hart4(x, m, p, {})

\* Whoever is in W and stays in it never leaves.
Closed(prog, S, W, m) ==
    \A y, q : <<y, q>> \in W =>
        /\ q \in S
        /\ \E z, t : <<z, t>> \in W /\ Step(prog, S, On(y, q, m)) = On(z, t, m)

\* A run that starts in such a set stays in its places.
LEMMA LeavingStays ==
    ASSUME NEW prog, NEW S, NEW W, NEW m, NEW x, NEW p, <<x, p>> \in W, NEW n \in Nat,
           Closed(prog, S, W, m)
    PROVE  Leaving(prog, S, On(x, p, m), n).pc \in S
<1>1. PICK F : /\ \A k \in 0 .. n : F[k] = IF k = 0 THEN On(x, p, m) ELSE Step(prog, S, F[k - 1])
               /\ Leaving(prog, S, On(x, p, m), n) = F[n]
    BY LeavingRun
<1> DEFINE T == {k \in Nat : k <= n => \E y, q : <<y, q>> \in W /\ F[k] = On(y, q, m)}
<1>2. ASSUME NEW k \in Nat, \A j \in Nat : j < k => j \in T
      PROVE  k \in T
    <2> SUFFICES ASSUME k <= n
                 PROVE  \E y, q : <<y, q>> \in W /\ F[k] = On(y, q, m)
        OBVIOUS
    <2>1. k \in 0 .. n /\ (k # 0 => k - 1 \in Nat /\ k - 1 < k /\ k - 1 <= n)
        OBVIOUS
    <2>2. CASE k = 0
        BY <1>1, <2>1, <2>2
    <2>3. CASE k # 0
        <3>1. PICK y, q : <<y, q>> \in W /\ F[k - 1] = On(y, q, m)
            BY <1>2, <2>1, <2>3
        <3>2. F[k] = Step(prog, S, On(y, q, m))
            BY <1>1, <2>1, <2>3, <3>1
        <3>3. PICK z, t : <<z, t>> \in W /\ Step(prog, S, On(y, q, m)) = On(z, t, m)
            BY <3>1 DEF Closed
        <3>4. F[k] = On(z, t, m)
            BY <3>2, <3>3
        <3> QED
            BY <3>3, <3>4
    <2> QED
        BY <2>2, <2>3
<1>3. Nat \subseteq T
    <2> HIDE DEF T
    <2> QED
        BY <1>2, SetInduction
<1>4. PICK y, q : <<y, q>> \in W /\ F[n] = On(y, q, m)
    BY <1>3
<1>5. On(y, q, m).pc = q
    BY DEF On, Hart4
<1> QED
    BY <1>1, <1>4, <1>5 DEF Closed

-------------------------------------------------------------------------------
(* What the transfers do.                                                  *)

Files == [Regs -> Int]
LinkFile(x, r, v) == IF r = 0 THEN x ELSE Put(x, r, v)

\* What a jal does.
LEMMA ExecJal ==
    ASSUME NEW x, NEW m, NEW p, NEW q, NEW i, i.op = "jal"
    PROVE  Exec(Hart4(x, m, p, q), i) = Hart4(LinkFile(x, i.rd, p), m, i.to, q)
<1> DEFINE h == Hart4(x, m, p, q)
<1>1. Exec(h, i) = [SetX(h, i.rd, h.pc) EXCEPT !.pc = i.to]
    BY DEF Exec, Branches, Atomics
<1>2. SetX(h, i.rd, h.pc) = Hart4(LinkFile(x, i.rd, p), m, p, q)
    BY DEF SetX, LinkFile, Put, Hart4
<1> HIDE DEF h
<1> DEFINE y == LinkFile(x, i.rd, p)
<1>3. [Hart4(y, m, p, q) EXCEPT !.pc = i.to] = Hart4(y, m, i.to, q)
    BY DEF Hart4
<1> QED
    BY <1>1, <1>2, <1>3 DEF h

\* What a jalr does that does not link.
LEMMA ExecJalr ==
    ASSUME NEW x, NEW m, NEW p, NEW q, NEW i, i.op = "jalr", i.rd = 0
    PROVE  Exec(Hart4(x, m, p, q), i) = Hart4(x, m, x[i.a] + i.k, q)
<1> DEFINE h == Hart4(x, m, p, q)
<1>1. Exec(h, i) = [SetX(h, i.rd, h.pc) EXCEPT !.pc = h.x[i.a] + i.k]
    BY DEF Exec, Branches, Atomics
<1>2. SetX(h, i.rd, h.pc) = h /\ h.x = x
    BY DEF SetX, Hart4
<1>3. [h EXCEPT !.pc = x[i.a] + i.k] = Hart4(x, m, x[i.a] + i.k, q)
    BY DEF Hart4
<1> HIDE DEF h
<1> QED
    BY <1>1, <1>2, <1>3 DEF h

\* What an auipc does.
LEMMA ExecAuipc ==
    ASSUME NEW x, NEW m, NEW p, NEW q, NEW i, i.op = "auipc", i.rd # 0
    PROVE  Exec(Hart4(x, m, p, q), i) = Hart4(Put(x, i.rd, p - 1 + i.k), m, p, q)
<1> DEFINE h == Hart4(x, m, p, q)
<1>1. Exec(h, i) = SetX(h, i.rd, h.pc - 1 + i.k)
    BY DEF Exec, Branches, Atomics
<1>2. SetX(h, i.rd, h.pc - 1 + i.k) = Hart4(Put(x, i.rd, p - 1 + i.k), m, p, q)
    BY DEF SetX, Put, Hart4
<1> QED
    BY <1>1, <1>2

\* What a branch of two registers does.
LEMMA ExecBranch ==
    ASSUME NEW x, NEW m, NEW p, NEW q, NEW i, i.op \in Branches, i.b # Imm
    PROVE  Exec(Hart4(x, m, p, q), i) =
                Hart4(x, m, IF Taken(i.op, x[i.a], x[i.b]) THEN i.to ELSE p, q)
<1> DEFINE h == Hart4(x, m, p, q)
           t == Taken(i.op, x[i.a], x[i.b])
<1>1. h.x = x
    BY DEF Hart4
<1>3. Exec(h, i) = IF Taken(i.op, h.x[i.a], Operand(i, h)) THEN [h EXCEPT !.pc = i.to] ELSE h
    BY DEF Exec, Branches, Atomics
<1>4. Operand(i, h) = x[i.b]
    BY <1>1 DEF Operand
<1>5. Exec(h, i) = IF t THEN [h EXCEPT !.pc = i.to] ELSE h
    <2> HIDE DEF h
    <2> QED
        BY <1>1, <1>3, <1>4
<1>6. [h EXCEPT !.pc = i.to] = Hart4(x, m, i.to, q)
    BY DEF Hart4
<1> HIDE DEF h, t
<1>7. CASE t
    BY <1>5, <1>6, <1>7 DEF h, t
<1>8. CASE ~t
    BY <1>5, <1>8 DEF h, t
<1> QED
    BY <1>7, <1>8

\* The code of s is what prog has at the places in Z.
Like(s, prog, S, Z) ==
    /\ Z \subseteq S
    /\ \A p \in Z : p \in DOMAIN s.code /\ prog[p] = Alone(s.code[p])

\* What a step is there.
LEMMA LikeStep ==
    ASSUME NEW s, NEW prog, NEW S, NEW Z, Like(s, prog, S, Z), NEW p \in Z, p \in Int,
           NEW x, NEW m
    PROVE  Step(prog, S, On(x, p, m)) = Exec(On(x, p + 1, m), s.code[p])
<1> DEFINE g == On(x, p, m)
           g1 == On(x, p + 1, m)
           i == s.code[p]
<1>1. g.pc = p /\ [g EXCEPT !.pc = g.pc + 1] = g1
    BY DEF On, Hart4
<1>2. p \in S /\ prog[p] = Alone(i)
    BY DEF Like
<1>3. Step(prog, S, g) = ExecAll([g EXCEPT !.pc = g.pc + 1], prog[g.pc])
    BY <1>1, <1>2 DEF Step
<1> HIDE DEF g, g1, i
<1> QED
    BY <1>1, <1>2, <1>3, ExecOne DEF Alone, g, g1, i

\* The two kinds of jumps that are passed.
ShortLink(s, q, l) ==
    /\ s.code[q].op = "jal" /\ s.code[q].rd = 0
    /\ l.to = s.code[q].to /\ l.wrote = {}
LongLink(s, q, l) ==
    /\ q + 1 \in DOMAIN s.code
    /\ s.code[q].op = "auipc" /\ s.code[q].rd # 0
    /\ s.code[q + 1].op = "jalr" /\ s.code[q + 1].rd = 0 /\ s.code[q + 1].a = s.code[q].rd
    /\ l.to = q + s.code[q].k + s.code[q + 1].k /\ l.wrote = {s.code[q].rd}
Spots(q, l) == {q, IF l.wrote = {} THEN q ELSE q + 1}

\* A jump that threading finds is of one of the two kinds.
LEMMA LinkKinds ==
    ASSUME NEW s, IsSection(s), NEW q, NEW l \in thread_jump_at(s, q)
    PROVE  /\ q \in DOMAIN s.code /\ q \in Nat \ {0} /\ s.code[q] \in Insns
           /\ Spots(q, l) \subseteq DOMAIN s.code
           /\ l.to \in Int /\ l.wrote \subseteq Regs
           /\ ShortLink(s, q, l) \/ (LongLink(s, q, l) /\ s.code[q + 1] \in Insns)
           /\ thread_jump_at(s, q) = {l}
<1>1. q \in DOMAIN s.code /\ q \in Nat \ {0} /\ s.code[q] \in Insns
    BY DEF thread_jump_at, InSection, IsSection
<1>2. CASE rv_decode_jump(s.code[q])
    <2>1. thread_jump_at(s, q) = When(s.code[q].rd = 0, {[to |-> s.code[q].to, wrote |-> {}]})
        BY <1>2, <1>1 DEF thread_jump_at, InSection
    <2>2. l = [to |-> s.code[q].to, wrote |-> {}] /\ s.code[q].rd = 0 /\ thread_jump_at(s, q) = {l}
        BY <2>1 DEF When
    <2>3. s.code[q].to \in Int
        BY <1>1 DEF Insns
    <2> QED
        BY <1>1, <1>2, <2>2, <2>3 DEF ShortLink, Spots, rv_decode_jump
<1>3. CASE ~rv_decode_jump(s.code[q])
    <2> DEFINE r == s.code[q].rd
               l0 == [to |-> PairGoes(s.code, q), wrote |-> {r}]
    <2>1. IsPair(s.code, q) /\ thread_jump_at(s, q) =
                When(~is_relocated(s, q + 1) /\ s.code[q + 1].rd = 0, {l0})
        BY <1>3, <1>1 DEF thread_jump_at, InSection
    <2>2. l = l0 /\ s.code[q + 1].rd = 0 /\ thread_jump_at(s, q) = {l}
        BY <2>1 DEF When
    <2>3. s.code[q + 1] \in Insns /\ q + 1 \in DOMAIN s.code
        BY <2>1 DEF IsPair, IsSection
    <2>4. s.code[q].k \in Int /\ s.code[q + 1].k \in Int /\ r \in Regs
        BY <1>1, <2>3 DEF Insns
    <2>5. l.to = q + s.code[q].k + s.code[q + 1].k /\ l.wrote = {r}
        BY <2>2 DEF PairGoes
    <2>6. LongLink(s, q, l)
        BY <2>1, <2>2, <2>3, <2>5 DEF LongLink, IsPair, rv_decode_auipc, rv_decode_jalr
    <2> QED
        BY <1>1, <2>2, <2>3, <2>4, <2>5, <2>6 DEF Spots
<1> QED
    BY <1>2, <1>3

\* Two files of registers that differ in Wr at most.
AlikeBut(Wr, x, y) == \A r \in Regs : r \in Wr \/ x[r] = y[r]

\* From x at q it is y at e in j steps, whatever has the code at Z.
Way(s, Z, x, q, y, e, m, j) ==
    \A prog, S : Like(s, prog, S, Z) => Leaving(prog, S, On(x, q, m), j) = On(y, e, m)

\* The steps of a jump that is passed.
LEMMA ShortStep ==
    ASSUME NEW s, IsSection(s), NEW q, NEW l \in thread_jump_at(s, q), ShortLink(s, q, l),
           NEW prog, NEW S, Like(s, prog, S, Spots(q, l)), NEW x, NEW m
    PROVE  Step(prog, S, On(x, q, m)) = On(x, l.to, m)
<1> DEFINE i == s.code[q]
           q1 == q + 1
           e == l.to
           Z == Spots(q, l)
<1>1. i.op = "jal" /\ i.rd = 0 /\ e = i.to /\ q \in Z /\ q \in Int
    BY LinkKinds DEF ShortLink, Spots
<1> HIDE DEF Z, e
<1>2. Step(prog, S, On(x, q, m)) = Exec(On(x, q + 1, m), i)
    BY <1>1, LikeStep DEF Z
<1> HIDE DEF i, q1
<1>3. Exec(Hart4(x, m, q1, {}), i) = Hart4(LinkFile(x, i.rd, q1), m, i.to, {})
    BY <1>1, ExecJal
<1> QED
    BY <1>1, <1>2, <1>3 DEF On, LinkFile, q1, e

\* What is known of the pair of an auipc and a jalr.
LEMMA LongFacts ==
    ASSUME NEW s, IsSection(s), NEW q, NEW l \in thread_jump_at(s, q), LongLink(s, q, l)
    PROVE  /\ s.code[q].rd \in Regs \ {0} /\ l.wrote = {s.code[q].rd}
           /\ s.code[q].k \in Int /\ s.code[q + 1].k \in Int /\ q \in Int
           /\ l.to = (q + s.code[q].k) + s.code[q + 1].k
           /\ {q, q + 1} \subseteq Spots(q, l)
<1>1. s.code[q] \in Insns /\ q \in Nat
    BY LinkKinds
<1>2. s.code[q + 1] \in Insns
    BY DEF LongLink, IsSection
<1>3. s.code[q].k \in Int /\ s.code[q + 1].k \in Int /\ s.code[q].rd \in Regs
    BY <1>1, <1>2 DEF Insns
<1>4. l.wrote = {s.code[q].rd} /\ s.code[q].rd # 0
    BY DEF LongLink
<1>5. {q, q + 1} \subseteq Spots(q, l)
    BY <1>4 DEF Spots
<1> QED
    BY <1>1, <1>3, <1>4, <1>5 DEF LongLink

\* Its auipc.
LEMMA LongStep1 ==
    ASSUME NEW s, IsSection(s), NEW q, NEW l \in thread_jump_at(s, q), LongLink(s, q, l),
           NEW prog, NEW S, Like(s, prog, S, Spots(q, l)), NEW x, NEW m
    PROVE  Step(prog, S, On(x, q, m)) = On(Put(x, s.code[q].rd, q + s.code[q].k), q + 1, m)
<1> DEFINE i == s.code[q]
           q1 == q + 1
           Z == Spots(q, l)
<1>1. i.op = "auipc" /\ i.rd # 0 /\ q \in Z /\ q \in Int /\ q1 - 1 + i.k = q + i.k
    BY LongFacts DEF LongLink
<1> HIDE DEF Z
<1>2. Step(prog, S, On(x, q, m)) = Exec(On(x, q1, m), i)
    BY <1>1, LikeStep DEF Z
<1> HIDE DEF i, q1
<1>3. Exec(Hart4(x, m, q1, {}), i) = Hart4(Put(x, i.rd, q1 - 1 + i.k), m, q1, {})
    BY <1>1, ExecAuipc
<1>4. Step(prog, S, On(x, q, m)) = On(Put(x, i.rd, q + i.k), q1, m)
    BY <1>1, <1>2, <1>3 DEF On
<1> QED
    BY <1>4 DEF i, q1

\* A jalr that does not link.
LEMMA JalrStep ==
    ASSUME NEW s, NEW p \in Int, s.code[p].op = "jalr", s.code[p].rd = 0,
           NEW prog, NEW S, NEW Z, Like(s, prog, S, Z), p \in Z, NEW y, NEW m
    PROVE  Step(prog, S, On(y, p, m)) = On(y, y[s.code[p].a] + s.code[p].k, m)
<1> DEFINE i == s.code[p]
           p1 == p + 1
<1>1. i.op = "jalr" /\ i.rd = 0 /\ p1 \in Int
    OBVIOUS
<1>2. Step(prog, S, On(y, p, m)) = Exec(On(y, p1, m), i)
    BY LikeStep
<1> HIDE DEF i, p1
<1>3. Exec(Hart4(y, m, p1, {}), i) = Hart4(y, m, y[i.a] + i.k, {})
    BY <1>1, ExecJalr
<1> QED
    BY <1>2, <1>3 DEF On, i

\* Its jalr, behind it.
LEMMA LongStep2 ==
    ASSUME NEW s, IsSection(s), NEW q, NEW l \in thread_jump_at(s, q), LongLink(s, q, l),
           NEW prog, NEW S, Like(s, prog, S, Spots(q, l)), NEW y, NEW m,
           y[s.code[q].rd] = q + s.code[q].k
    PROVE  Step(prog, S, On(y, q + 1, m)) = On(y, l.to, m)
<1> DEFINE p == q + 1
           Z == Spots(q, l)
           e == l.to
<1>1. /\ p \in Int /\ p \in Z /\ s.code[p].op = "jalr" /\ s.code[p].rd = 0
      /\ s.code[p].a = s.code[q].rd /\ e = (q + s.code[q].k) + s.code[p].k
    BY LongFacts DEF LongLink
<1> HIDE DEF p, Z, e
<1>2. Step(prog, S, On(y, p, m)) = On(y, y[s.code[p].a] + s.code[p].k, m)
    BY <1>1, JalrStep DEF Z
<1>3. Step(prog, S, On(y, p, m)) = On(y, e, m)
    BY <1>1, <1>2
<1> QED
    BY <1>3 DEF p, e

\* Two steps are one behind another.
LEMMA LeavingSteps ==
    ASSUME NEW prog, NEW S, NEW h
    PROVE  /\ Leaving(prog, S, h, 1) = Step(prog, S, h)
           /\ Leaving(prog, S, h, 2) = Step(prog, S, Step(prog, S, h))
<1> DEFINE z == 0
           o == 1
<1>0. z \in Nat /\ z + 1 = 1 /\ z = 0 /\ o \in Nat /\ o = 1 /\ o + 1 = 2
    OBVIOUS
<1> HIDE DEF z, o
<1>1. \A g : Leaving(prog, S, g, z + 1) = Leaving(prog, S, Step(prog, S, g), z)
    BY <1>0, LeavingNext
<1>2. \A g : Leaving(prog, S, g, 0) = g
    BY LeavingZero
<1>3. \A g : Leaving(prog, S, g, 1) = Step(prog, S, g)
    BY <1>0, <1>1, <1>2
<1>4. Leaving(prog, S, h, o + 1) = Leaving(prog, S, Step(prog, S, h), o)
    BY <1>0, LeavingNext
<1> QED
    BY <1>0, <1>3, <1>4

\* A jump that is passed is: on a stretch of the code that has it.
LEMMA LinkLeads ==
    ASSUME NEW s, IsSection(s), NEW q, NEW l \in thread_jump_at(s, q),
           NEW x \in Files, NEW m
    PROVE  \E y \in Files, j \in 1 .. 2 :
                Way(s, Spots(q, l), x, q, y, l.to, m, j) /\ AlikeBut(l.wrote, x, y)
<1>1. ShortLink(s, q, l) \/ LongLink(s, q, l)
    BY LinkKinds
<1> DEFINE e == l.to
           Z == Spots(q, l)
<1>2. CASE ShortLink(s, q, l)
    <2>1. ASSUME NEW prog, NEW S, Like(s, prog, S, Z)
          PROVE  Leaving(prog, S, On(x, q, m), 1) = On(x, e, m)
        BY <1>2, <2>1, ShortStep, LeavingSteps
    <2>2. Way(s, Z, x, q, x, e, m, 1)
        BY <2>1 DEF Way
    <2>3. AlikeBut(l.wrote, x, x)
        BY DEF AlikeBut
    <2> QED
        BY <2>2, <2>3
<1>3. CASE LongLink(s, q, l)
    <2> DEFINE r == s.code[q].rd
               v == q + s.code[q].k
               y == Put(x, r, v)
    <2>1. r \in Regs \ {0} /\ l.wrote = {r} /\ v \in Int
        BY <1>3, LongFacts
    <2>2. y \in Files /\ y[r] = v /\ AlikeBut({r}, x, y)
        <3> HIDE DEF r, v
        <3> QED
            BY <2>1 DEF Files, Put, AlikeBut
    <2>3. ASSUME NEW prog, NEW S, Like(s, prog, S, Z)
          PROVE  Leaving(prog, S, On(x, q, m), 2) = On(y, e, m)
        <3>1. Step(prog, S, On(x, q, m)) = On(y, q + 1, m)
            BY <1>3, <2>3, LongStep1
        <3>2. Step(prog, S, On(y, q + 1, m)) = On(y, e, m)
            <4> HIDE DEF y
            <4> QED
                BY <1>3, <2>2, <2>3, LongStep2
        <3> QED
            BY <3>1, <3>2, LeavingSteps
    <2>4. Way(s, Z, x, q, y, e, m, 2)
        BY <2>3 DEF Way
    <2> HIDE DEF y
    <2> QED
        BY <2>1, <2>2, <2>4
<1> QED
    BY <1>1, <1>2, <1>3

\* One way behind another, and one of fewer places.
LEMMA LeadsOn ==
    ASSUME NEW s, NEW Z, NEW x, NEW q, NEW y, NEW e, NEW m, NEW j \in Nat,
           Way(s, Z, x, q, y, e, m, j),
           NEW z, NEW t, NEW k \in Nat, Way(s, Z, y, e, z, t, m, k)
    PROVE  Way(s, Z, x, q, z, t, m, j + k)
<1>1. ASSUME NEW prog, NEW S, Like(s, prog, S, Z)
      PROVE  Leaving(prog, S, On(x, q, m), j + k) = On(z, t, m)
    <2>1. Leaving(prog, S, On(x, q, m), j) = On(y, e, m)
        BY <1>1 DEF Way
    <2>2. Leaving(prog, S, On(y, e, m), k) = On(z, t, m)
        BY <1>1 DEF Way
    <2>3. Leaving(prog, S, On(x, q, m), j + k)
                = Leaving(prog, S, Leaving(prog, S, On(x, q, m), j), k)
        BY LeavingSum
    <2> QED
        BY <2>1, <2>2, <2>3
<1> QED
    BY <1>1 DEF Way

\* A way is one among more places.
LEMMA LeadsMore ==
    ASSUME NEW s, NEW Z, NEW x, NEW q, NEW y, NEW e, NEW m, NEW j,
           Way(s, Z, x, q, y, e, m, j), NEW Y, Z \subseteq Y
    PROVE  Way(s, Y, x, q, y, e, m, j)
    BY DEF Way, Like

\* What is known of the jumps that n hops from a have passed: the first instructions of
\* them are heads, and the others are the jalr behind a head.
Passes(s, a, t, n, heads) ==
    /\ t.at \in Int /\ t.regs \subseteq Regs
    /\ IsFiniteSet(heads) /\ Cardinality(heads) <= n
    /\ IF t.passed = {} THEN s.code[a].to = t.at ELSE s.code[a].to \in heads
    /\ a \in heads => t.at \in heads
    /\ \A r \in t.regs : DeadAt(s, t.at, r)

\* Where a head leads, and what the passed places are.
Heads(s, t, heads) ==
    \A q \in heads :
        \E l \in thread_jump_at(s, q) :
            l.to \in heads \cup {t.at} /\ l.wrote \subseteq t.regs /\ Spots(q, l) \subseteq t.passed
Tails(s, t, heads) ==
    /\ heads \subseteq t.passed
    /\ \A p \in t.passed \ heads :
        /\ p - 1 \in heads /\ p \in DOMAIN s.code
        /\ s.code[p].op = "jalr" /\ s.code[p].rd = 0 /\ s.code[p].a \in t.regs

\* How far it is from a head to the end.
Arrives(s, t, n, heads, m) ==
    \A x \in Files, q \in heads :
        \E y \in Files, j \in 0 .. 2 * n :
            Way(s, t.passed, x, q, y, t.at, m, j) /\ AlikeBut(t.regs, x, y)

ThreadChain(s, a, t, n, heads, m) ==
    Passes(s, a, t, n, heads) /\ Heads(s, t, heads) /\ Tails(s, t, heads) /\ Arrives(s, t, n, heads, m)

\* Registers that differ in two sets, one after the other.
LEMMA ApartOn ==
    ASSUME NEW Q, NEW Wr, NEW x, NEW y, NEW z, AlikeBut(Q, x, y), AlikeBut(Wr, y, z)
    PROVE  AlikeBut(Q \cup Wr, x, z)
    BY DEF AlikeBut

\* Before the first hop.
LEMMA ChainFirst ==
    ASSUME NEW s, IsSection(s), NEW a \in DOMAIN s.code, NEW m
    PROVE  ThreadChain(s, a, [at |-> s.code[a].to, regs |-> {}, passed |-> {}], 0, {}, m)
<1> DEFINE t == [at |-> s.code[a].to, regs |-> {}, passed |-> {}]
<1>1. s.code[a] \in Insns
    BY DEF IsSection
<1>2. s.code[a].to \in Int
    BY <1>1 DEF Insns
<1>3. Passes(s, a, t, 0, {})
    BY <1>2, FS_EmptySet DEF Passes
<1> QED
    BY <1>3 DEF ThreadChain, Heads, Tails, Arrives

\* One hop more.
LEMMA ChainHop ==
    ASSUME NEW s, IsSection(s), NEW a \in DOMAIN s.code, NEW t, NEW n \in Nat, NEW heads,
           NEW m, ThreadChain(s, a, t, n, heads, m), s.code[a].op \in Relative
    PROVE  \E more : ThreadChain(s, a, Hopped(s, a, t), n + 1, more, m)
<1> DEFINE on == {j \in thread_jump_at(s, t.at) : j.to # t.at /\ GoesOn(s, a, j, t.regs)}
<1>0. 0 .. 2 * n \subseteq 0 .. 2 * (n + 1)
    OBVIOUS
<1>1. CASE on = {}
    <2>1. Hopped(s, a, t) = t
        BY <1>1 DEF Hopped
    <2>2. Cardinality(heads) \in Nat
        BY FS_CardinalityType DEF ThreadChain, Passes
    <2>3. Passes(s, a, t, n + 1, heads)
        BY <2>2 DEF ThreadChain, Passes
    <2>4. Arrives(s, t, n + 1, heads, m)
        BY <1>0 DEF ThreadChain, Arrives
    <2> QED
        BY <2>1, <2>3, <2>4 DEF ThreadChain
<1>2. CASE on # {}
    <2> DEFINE l == CHOOSE j \in on : TRUE
               q0 == t.at
               S0 == Spots(q0, l)
               u == [at |-> l.to, regs |-> t.regs \cup l.wrote, passed |-> t.passed \cup S0]
               more == heads \cup {q0}
    <2>1. Hopped(s, a, t) = u
        BY <1>2 DEF Hopped, Spots
    <2>2. l \in thread_jump_at(s, q0) /\ GoesOn(s, a, l, t.regs)
        BY <1>2
    <2> HIDE DEF l, on
    <2>3. /\ q0 \in DOMAIN s.code /\ q0 \in Nat \ {0} /\ s.code[q0] \in Insns
          /\ Spots(q0, l) \subseteq DOMAIN s.code
          /\ l.to \in Int /\ l.wrote \subseteq Regs
          /\ ShortLink(s, q0, l) \/ (LongLink(s, q0, l) /\ s.code[q0 + 1] \in Insns)
          /\ thread_jump_at(s, q0) = {l}
        BY <2>2, LinkKinds
    <2>4. Passes(s, a, u, n + 1, more)
        <3>1. IsFiniteSet(more) /\ Cardinality(more) <= n + 1
            <4>1. IsFiniteSet(heads) /\ Cardinality(heads) <= n /\ Cardinality(heads) \in Nat
                BY FS_CardinalityType DEF ThreadChain, Passes
            <4>2. IsFiniteSet(more) /\ Cardinality(more) =
                        IF q0 \in heads THEN Cardinality(heads) ELSE Cardinality(heads) + 1
                BY <4>1, FS_AddElement
            <4> QED
                BY <4>1, <4>2
        <3>2. s.code[a].to \in more /\ u.passed # {}
            BY DEF ThreadChain, Passes, Spots
        <3>3. ASSUME a \in more
              PROVE  u.at \in more
            <4>1. CASE a \in heads
                <5>1. q0 \in heads
                    BY <4>1 DEF ThreadChain, Passes
                <5> QED
                    BY <5>1, <2>3 DEF ThreadChain, Heads
            <4>2. CASE a = q0 /\ a \notin heads
                <5>1. CASE ShortLink(s, q0, l)
                    BY <3>2, <4>2, <5>1 DEF ShortLink
                <5>2. CASE LongLink(s, q0, l)
                    BY <4>2, <5>2 DEF LongLink, Relative, Branches
                <5> QED
                    BY <2>3, <5>1, <5>2
            <4> QED
                BY <3>3, <4>1, <4>2
        <3>4. \A r \in u.regs : DeadAt(s, u.at, r)
            BY <2>2 DEF GoesOn
        <3>5. u.regs \subseteq Regs
            BY <2>3 DEF ThreadChain, Passes
        <3> HIDE DEF more
        <3> QED
            BY <2>3, <3>1, <3>2, <3>3, <3>4, <3>5 DEF Passes
    <2>5. Heads(s, u, more)
        <3>1. ASSUME NEW q \in heads
              PROVE  \E k \in thread_jump_at(s, q) :
                        k.to \in more \cup {u.at} /\ k.wrote \subseteq u.regs /\ Spots(q, k) \subseteq u.passed
            BY DEF ThreadChain, Heads
        <3>2. l.to \in more \cup {u.at} /\ l.wrote \subseteq u.regs /\ Spots(q0, l) \subseteq u.passed
            OBVIOUS
        <3> QED
            BY <2>2, <3>1, <3>2 DEF Heads
    <2>6. Tails(s, u, more)
        <3>1. heads \subseteq t.passed
            BY DEF ThreadChain, Tails
        <3>2. q0 \in S0
            BY DEF Spots
        <3>3. ASSUME NEW p \in u.passed \ more
              PROVE  /\ p - 1 \in more /\ p \in DOMAIN s.code
                     /\ s.code[p].op = "jalr" /\ s.code[p].rd = 0 /\ s.code[p].a \in u.regs
            <4>1. CASE p \in t.passed
                BY <4>1 DEF ThreadChain, Tails
            <4>2. CASE p \in S0
                <5>1. p = q0 + 1 /\ l.wrote # {}
                    BY <3>3, <4>2 DEF Spots
                <5>2. LongLink(s, q0, l)
                    BY <2>3, <5>1 DEF ShortLink
                <5>3. p - 1 = q0
                    BY <2>3, <5>1
                <5> QED
                    BY <5>1, <5>2, <5>3 DEF LongLink
            <4> QED
                BY <3>3, <4>1, <4>2
        <3> QED
            BY <3>1, <3>2, <3>3 DEF Tails
    <2>7. Arrives(s, u, n + 1, more, m)
        <3> SUFFICES ASSUME NEW x \in Files, NEW q \in more
                     PROVE  \E y \in Files, j \in 0 .. 2 * (n + 1) :
                                Way(s, u.passed, x, q, y, u.at, m, j) /\ AlikeBut(u.regs, x, y)
            BY DEF Arrives
        <3>1. \E y \in Files, j \in 0 .. 2 * n :
                    Way(s, u.passed, x, q, y, q0, m, j) /\ AlikeBut(t.regs, x, y)
            <4>1. CASE q \in heads
                <5>1. PICK y \in Files, j \in 0 .. 2 * n :
                            Way(s, t.passed, x, q, y, q0, m, j) /\ AlikeBut(t.regs, x, y)
                    BY <4>1 DEF ThreadChain, Arrives
                <5>2. Way(s, u.passed, x, q, y, q0, m, j)
                    <6>1. t.passed \subseteq u.passed
                        OBVIOUS
                    <6> HIDE DEF u, q0
                    <6> QED
                        BY <5>1, <6>1, LeadsMore
                <5> QED
                    BY <5>1, <5>2
            <4>2. CASE q = q0
                <5>1. Way(s, u.passed, x, q, x, q0, m, 0)
                    BY <4>2, LeavingZero DEF Way
                <5>2. AlikeBut(t.regs, x, x)
                    BY DEF AlikeBut
                <5>3. 0 \in 0 .. 2 * n
                    OBVIOUS
                <5> QED
                    BY <5>1, <5>2, <5>3
            <4> QED
                BY <4>1, <4>2
        <3>2. PICK y \in Files, j \in 0 .. 2 * n :
                    Way(s, u.passed, x, q, y, q0, m, j) /\ AlikeBut(t.regs, x, y)
            BY <3>1
        <3>3. PICK z \in Files, k \in 1 .. 2 :
                    Way(s, S0, y, q0, z, l.to, m, k) /\ AlikeBut(l.wrote, y, z)
            BY <2>2, LinkLeads
        <3>4. S0 \subseteq u.passed /\ j \in Nat /\ k \in Nat /\ j + k \in 0 .. 2 * (n + 1)
            BY <3>2, <3>3
        <3> DEFINE Z == u.passed
                   e == l.to
        <3>5. u.at = e /\ u.regs = t.regs \cup l.wrote
            OBVIOUS
        <3> HIDE DEF u, q0, S0, Z, e
        <3>6. Way(s, Z, y, q0, z, e, m, k)
            BY <3>3, <3>4, LeadsMore DEF Z, e
        <3>7. Way(s, Z, x, q, y, q0, m, j)
            BY <3>2 DEF Z
        <3>8. Way(s, Z, x, q, z, e, m, j + k)
            BY <3>4, <3>6, <3>7, LeadsOn
        <3>9. AlikeBut(u.regs, x, z)
            BY <3>2, <3>3, <3>5, ApartOn
        <3> QED
            BY <3>4, <3>5, <3>8, <3>9 DEF Z
    <2> HIDE DEF u, more
    <2> QED
        BY <2>1, <2>4, <2>5, <2>6, <2>7 DEF ThreadChain
<1> QED
    BY <1>1, <1>2

\* What threading comes to.
LEMMA ChainOf ==
    ASSUME NEW s, IsSection(s), NEW a \in DOMAIN s.code, NEW m, s.code[a].op \in Relative
    PROVE  \E heads : ThreadChain(s, a, Threaded(s, a), THREAD_HOPS, heads, m)
<1> DEFINE H == THREAD_HOPS
           A == [at |-> s.code[a].to, regs |-> {}, passed |-> {}]
<1>0. H \in Nat
    BY JumpAssumption
<1>1. PICK f : Hopping(s, a, H, f) /\ Threaded(s, a) = f[H]
    BY ThreadedHops
<1>2. ThreadChain(s, a, A, 0, {}, m)
    BY ChainFirst
<1> HIDE DEF H
<1>3. \A h \in 0 .. H : f[h] = IF h = 0 THEN A ELSE Hopped(s, a, f[h - 1])
    BY <1>1, <1>0 DEF Hopping
<1> HIDE DEF A
<1> DEFINE T == {k \in Nat : k <= H => \E heads : ThreadChain(s, a, f[k], k, heads, m)}
<1>4. ASSUME NEW k \in Nat, \A j \in Nat : j < k => j \in T PROVE k \in T
    <2>1. CASE k = 0
        BY <1>0, <1>2, <1>3, <2>1
    <2>2. CASE k # 0 /\ k <= H
        <3> DEFINE j == k - 1
        <3>1. j \in Nat /\ j < k /\ j <= H /\ k \in 0 .. H /\ k = j + 1
            BY <1>0, <2>2
        <3>2. f[k] = Hopped(s, a, f[j])
            BY <1>3, <2>2, <3>1
        <3> HIDE DEF j
        <3>3. PICK heads : ThreadChain(s, a, f[j], j, heads, m)
            BY <1>4, <3>1
        <3>4. \E more : ThreadChain(s, a, Hopped(s, a, f[j]), j + 1, more, m)
            BY <3>1, <3>3, ChainHop
        <3> QED
            BY <3>1, <3>2, <3>4
    <2>3. CASE ~(k <= H)
        BY <2>3
    <2> QED
        BY <2>1, <2>2, <2>3
<1>5. Nat \subseteq T
    <2> HIDE DEF T
    <2> QED
        BY <1>4, SetInduction
<1>6. \E heads : ThreadChain(s, a, f[H], H, heads, m)
    BY <1>0, <1>5
<1> QED
    BY <1>1, <1>6 DEF H

\* In prog the jump at q is there and goes to one of places, and writes in Wr at most.
Linking(s, prog, S, places, Wr, q, l) ==
    /\ l \in thread_jump_at(s, q) /\ Like(s, prog, S, Spots(q, l))
    /\ l.to \in places /\ l.wrote \subseteq Wr

\* Between the two instructions of such a jump.
Between(s, prog, S, places, Wr, y, p) ==
    \E q \in Int : \E l \in thread_jump_at(s, q) :
        /\ Linking(s, prog, S, places, Wr, q, l) /\ LongLink(s, q, l)
        /\ p = q + 1 /\ y[s.code[q].rd] = q + s.code[q].k

\* The places are such jumps, but for a, where another transfer may stand.
Linkings(s, prog, S, places, Wr, a) ==
    \A q \in places \ {a} : \E l \in thread_jump_at(s, q) : Linking(s, prog, S, places, Wr, q, l)

\* That goes to one of them as well, as long as the registers are x0 outside Wr.
Turning(prog, S, places, Wr, a, x0, m) ==
    /\ a \in S
    /\ \A y \in Files : AlikeBut(Wr, x0, y) =>
            \E z \in Files, t \in places :
                AlikeBut(Wr, x0, z) /\ Step(prog, S, On(y, a, m)) = On(z, t, m)

\* Jumps that lead to each other are never left.
LEMMA Rounds ==
    ASSUME NEW s, IsSection(s), NEW prog, NEW S, NEW places, places \subseteq Int, NEW Wr,
           NEW a, NEW x0, NEW m, Linkings(s, prog, S, places, Wr, a),
           a \in places => Turning(prog, S, places, Wr, a, x0, m),
           NEW x \in Files, AlikeBut(Wr, x0, x), NEW p \in places, NEW n \in Nat
    PROVE  Leaving(prog, S, On(x, p, m), n).pc \in S
<1> DEFINE W == {w \in Files \X Int :
                    /\ AlikeBut(Wr, x0, w[1])
                    /\ w[2] \in places \/ Between(s, prog, S, places, Wr, w[1], w[2])}
<1>0. ASSUME NEW y, NEW q
      PROVE  <<y, q>> \in W <=>
                /\ y \in Files /\ q \in Int /\ AlikeBut(Wr, x0, y)
                /\ q \in places \/ Between(s, prog, S, places, Wr, y, q)
    OBVIOUS
<1> HIDE DEF W
<1>1. <<x, p>> \in W
    BY <1>0
<1>2. ASSUME NEW y, NEW q, <<y, q>> \in W
      PROVE  q \in S /\ \E z, t : <<z, t>> \in W /\ Step(prog, S, On(y, q, m)) = On(z, t, m)
    <2>0. /\ y \in Files /\ q \in Int /\ AlikeBut(Wr, x0, y)
          /\ q \in places \/ Between(s, prog, S, places, Wr, y, q)
        BY <1>0, <1>2
    <2>1. CASE q \in places /\ q = a
        <3>1. PICK z \in Files, t \in places :
                    AlikeBut(Wr, x0, z) /\ Step(prog, S, On(y, a, m)) = On(z, t, m)
            BY <2>0, <2>1 DEF Turning
        <3>2. <<z, t>> \in W
            BY <1>0, <3>1
        <3> QED
            BY <2>1, <3>1, <3>2 DEF Turning
    <2>2. CASE q \in places \ {a}
        <3>1. PICK l \in thread_jump_at(s, q) : Linking(s, prog, S, places, Wr, q, l)
            BY <2>2 DEF Linkings
        <3>2. Like(s, prog, S, Spots(q, l)) /\ l.to \in places /\ l.wrote \subseteq Wr
            BY <3>1 DEF Linking
        <3>3. q \in S
            BY <3>2 DEF Like, Spots
        <3>4. CASE ShortLink(s, q, l)
            <4>1. Step(prog, S, On(y, q, m)) = On(y, l.to, m)
                BY <3>2, <3>4, ShortStep
            <4>2. <<y, l.to>> \in W
                BY <1>0, <2>0, <3>2
            <4> QED
                BY <3>3, <4>1, <4>2
        <3>5. CASE LongLink(s, q, l)
            <4> DEFINE r == s.code[q].rd
                       v == q + s.code[q].k
                       z == Put(y, r, v)
                       t == q + 1
            <4>1. Step(prog, S, On(y, q, m)) = On(z, t, m)
                BY <3>2, <3>5, LongStep1
            <4>2. r \in Regs \ {0} /\ l.wrote = {r} /\ v \in Int
                BY <3>5, LongFacts
            <4>3. z \in Files /\ z[r] = v /\ AlikeBut({r}, y, z) /\ t \in Int
                <5> HIDE DEF r, v
                <5> QED
                    BY <2>0, <4>2 DEF Files, Put, AlikeBut
            <4>4. Between(s, prog, S, places, Wr, z, t)
                <5> HIDE DEF z
                <5> QED
                    BY <2>0, <3>1, <3>5, <4>3 DEF Between
            <4>5. AlikeBut(Wr, x0, z)
                <5> HIDE DEF z, r
                <5> QED
                    BY <2>0, <3>2, <4>2, <4>3 DEF AlikeBut
            <4> HIDE DEF z, t
            <4>6. <<z, t>> \in W
                BY <1>0, <4>3, <4>4, <4>5
            <4> QED
                BY <3>3, <4>1, <4>6
        <3> QED
            BY <3>4, <3>5, LinkKinds
    <2>3. CASE Between(s, prog, S, places, Wr, y, q)
        <3>1. PICK h \in Int : \E l \in thread_jump_at(s, h) :
                /\ Linking(s, prog, S, places, Wr, h, l) /\ LongLink(s, h, l)
                /\ q = h + 1 /\ y[s.code[h].rd] = h + s.code[h].k
            BY <2>3 DEF Between
        <3>2. PICK l \in thread_jump_at(s, h) :
                /\ Linking(s, prog, S, places, Wr, h, l) /\ LongLink(s, h, l)
                /\ q = h + 1 /\ y[s.code[h].rd] = h + s.code[h].k
            BY <3>1
        <3>3. Like(s, prog, S, Spots(h, l)) /\ l.to \in places
            BY <3>2 DEF Linking
        <3>4. h + 1 \in Spots(h, l)
            BY <3>2, LongFacts
        <3>5. Step(prog, S, On(y, h + 1, m)) = On(y, l.to, m)
            BY <3>2, <3>3, LongStep2
        <3>6. <<y, l.to>> \in W
            BY <1>0, <2>0, <3>3
        <3> QED
            BY <3>2, <3>3, <3>4, <3>5, <3>6 DEF Like
    <2> QED
        BY <2>0, <2>1, <2>2, <2>3
<1>3. Closed(prog, S, W, m)
    BY <1>2 DEF Closed
<1> QED
    BY <1>1, <1>3, LeavingStays

-------------------------------------------------------------------------------
(* The code and what is proposed, side by side.                            *)

\* What is claimed of two machines, of the code and of what is proposed, in n steps.
Alike(s, f, g, h, n) ==
    LET g1 == Leaving(Plain(s), DOMAIN f.patch, g, n)
        h1 == Leaving(Patched(s, f), DOMAIN f.patch, h, n)
    IN  {g1.pc, h1.pc} \subseteq DOMAIN f.patch \/ Agree(s, g1, h1)

\* It holds of two machines if it does of what they come to.
LEMMA AlikeAfter ==
    ASSUME NEW s, NEW f, NEW g, NEW h, NEW j \in Nat, NEW k \in Nat,
           Alike(s, f, Leaving(Plain(s), DOMAIN f.patch, g, j),
                       Leaving(Patched(s, f), DOMAIN f.patch, h, j), k)
    PROVE  Alike(s, f, g, h, j + k)
<1> DEFINE D == DOMAIN f.patch
           P == Plain(s)
           Q == Patched(s, f)
<1>1. Leaving(P, D, g, j + k) = Leaving(P, D, Leaving(P, D, g, j), k)
    BY LeavingSum
<1>2. Leaving(Q, D, h, j + k) = Leaving(Q, D, Leaving(Q, D, h, j), k)
    BY LeavingSum
<1> QED
    BY <1>1, <1>2 DEF Alike

\* It does if both have left for the same place by then, and differ in what is dead there.
LEMMA AlikeOut ==
    ASSUME NEW s, NEW f, NEW g, NEW h, NEW n \in Nat, NEW j \in Nat, NEW k \in Nat,
           j <= n, k <= n, NEW x, NEW y, NEW e, NEW m, e \notin DOMAIN f.patch,
           Leaving(Plain(s), DOMAIN f.patch, g, j) = On(x, e, m),
           Leaving(Patched(s, f), DOMAIN f.patch, h, k) = On(y, e, m),
           NEW Wr, AlikeBut(Wr, x, y), \A r \in Wr : DeadAt(s, e, r)
    PROVE  Alike(s, f, g, h, n)
<1> DEFINE D == DOMAIN f.patch
           P == Plain(s)
           Q == Patched(s, f)
           jj == n - j
           kk == n - k
<1>1. jj \in Nat /\ kk \in Nat /\ n = j + jj /\ n = k + kk
    OBVIOUS
<1>2. On(x, e, m).pc = e /\ On(y, e, m).pc = e
    BY DEF On, Hart4
<1> HIDE DEF jj, kk
<1>3. Leaving(P, D, g, j + jj) = Leaving(P, D, Leaving(P, D, g, j), jj)
    BY <1>1, LeavingSum
<1>4. Leaving(Q, D, h, k + kk) = Leaving(Q, D, Leaving(Q, D, h, k), kk)
    BY <1>1, LeavingSum
<1>5. Leaving(P, D, On(x, e, m), jj) = On(x, e, m)
    BY <1>1, <1>2, LeavingOut
<1>6. Leaving(Q, D, On(y, e, m), kk) = On(y, e, m)
    BY <1>1, <1>2, LeavingOut
<1>7. Leaving(P, D, g, n) = On(x, e, m) /\ Leaving(Q, D, h, n) = On(y, e, m)
    BY <1>1, <1>3, <1>4, <1>5, <1>6
<1>8. Agree(s, On(x, e, m), On(y, e, m))
    BY DEF Agree, AlikeBut, On, Hart4
<1> QED
    BY <1>7, <1>8 DEF Alike

\* What is left of the transfer at a, which is threaded to e.
Instead(s, a, e) == IF e = a + 1 THEN Gone ELSE Alone([s.code[a] EXCEPT !.to = e])

\* A transfer at a that is threaded past heads, as t says, and the finding that says so.
Thread(s, a, f, t, heads, m) ==
    /\ IsSection(s) /\ Honest(s)
    /\ a \in DOMAIN s.code /\ s.code[a].op \in Relative
    /\ t.passed # {} /\ (t.at = a + 1 => s.code[a].rd = 0)
    /\ ThreadChain(s, a, t, THREAD_HOPS, heads, m)
    /\ f.patch = [p \in {a} \cup t.passed |->
                    IF p = a THEN Instead(s, a, t.at) ELSE Alone(s.code[p])]

\* Where the places are.
LEMMA ThreadPlaces ==
    ASSUME NEW s, NEW a, NEW f, NEW t, NEW heads, NEW m, Thread(s, a, f, t, heads, m)
    PROVE  /\ DOMAIN f.patch = {a} \cup t.passed
           /\ DOMAIN f.patch \subseteq DOMAIN s.code /\ DOMAIN s.code \subseteq Nat \ {0}
           /\ heads \subseteq t.passed /\ s.code[a].to \in heads
           /\ a \in Nat \ {0} /\ t.at \in Int /\ t.regs \subseteq Regs
           /\ s.code[a] \in Insns
           /\ a \in t.passed => a \in heads
           /\ t.at \in DOMAIN f.patch => t.at \in heads \/ t.at = a
<1>1. DOMAIN f.patch = {a} \cup t.passed
    BY DEF Thread
<1>2. DOMAIN s.code \subseteq Nat \ {0} /\ s.code[a] \in Insns /\ a \in DOMAIN s.code
    BY DEF Thread, IsSection
<1>3. Passes(s, a, t, THREAD_HOPS, heads) /\ Heads(s, t, heads) /\ Tails(s, t, heads)
    BY DEF Thread, ThreadChain
<1>4. heads \subseteq DOMAIN s.code
    BY <1>3 DEF Heads, thread_jump_at, InSection
<1>5. heads \subseteq t.passed /\ t.passed \subseteq DOMAIN s.code
    BY <1>3, <1>4 DEF Tails
<1>6. s.code[a].to \in heads /\ t.at \in Int /\ t.regs \subseteq Regs
    BY <1>3 DEF Thread, Passes
<1>7. a \in t.passed => a \in heads
    BY <1>3 DEF Tails, Thread, Relative, Branches
<1>8. ASSUME t.at \in t.passed \ heads
      PROVE  FALSE
    <2>1. s.code[t.at].a \in t.regs
        BY <1>3, <1>8 DEF Tails
    <2>2. DeadAt(s, t.at, s.code[t.at].a)
        BY <1>3, <2>1 DEF Passes
    <2> QED
        BY <2>2 DEF DeadAt, InSection, Thread, Honest
<1> QED
    BY <1>1, <1>2, <1>5, <1>6, <1>7, <1>8

\* What the code and what is proposed have there.
LEMMA ThreadLike ==
    ASSUME NEW s, NEW a, NEW f, NEW t, NEW heads, NEW m, Thread(s, a, f, t, heads, m)
    PROVE  /\ Like(s, Plain(s), DOMAIN f.patch, DOMAIN f.patch)
           /\ Like(s, Patched(s, f), DOMAIN f.patch, DOMAIN f.patch \ {a})
<1>1. DOMAIN f.patch = {a} \cup t.passed /\ DOMAIN f.patch \subseteq DOMAIN s.code
    BY ThreadPlaces
<1>2. Like(s, Plain(s), DOMAIN f.patch, DOMAIN f.patch)
    BY <1>1 DEF Like, Plain, Alone
<1>3. \A p \in DOMAIN f.patch \ {a} : f.patch[p] = Alone(s.code[p])
    BY <1>1 DEF Thread
<1>4. Like(s, Patched(s, f), DOMAIN f.patch, DOMAIN f.patch \ {a})
    BY <1>1, <1>3 DEF Like, Patched
<1> QED
    BY <1>2, <1>4

\* What has the code somewhere has it in a part of that.
LEMMA LikeLess ==
    ASSUME NEW s, NEW prog, NEW S, NEW Y, Like(s, prog, S, Y), NEW Z, Z \subseteq Y
    PROVE  Like(s, prog, S, Z)
    BY DEF Like

\* A head is a jump in both, unless it is the transfer itself.
LEMMA ThreadLinkings ==
    ASSUME NEW s, NEW a, NEW f, NEW t, NEW heads, NEW m, Thread(s, a, f, t, heads, m),
           NEW prog \in {Plain(s), Patched(s, f)}, NEW places, heads \cup {t.at} \subseteq places,
           places \subseteq heads \cup {a}, NEW Wr, t.regs \subseteq Wr
    PROVE  Linkings(s, prog, DOMAIN f.patch, places, Wr, a)
<1>1. ASSUME NEW q \in places \ {a}
      PROVE  \E l \in thread_jump_at(s, q) : Linking(s, prog, DOMAIN f.patch, places, Wr, q, l)
    <2>1. PICK l \in thread_jump_at(s, q) :
                l.to \in heads \cup {t.at} /\ l.wrote \subseteq t.regs /\ Spots(q, l) \subseteq t.passed
        BY DEF Thread, ThreadChain, Heads
    <2>2. a \notin Spots(q, l)
        <3>1. ShortLink(s, q, l) \/ LongLink(s, q, l)
            BY LinkKinds DEF Thread
        <3>2. ShortLink(s, q, l) => Spots(q, l) = {q}
            BY DEF ShortLink, Spots
        <3>3. LongLink(s, q, l) => Spots(q, l) = {q, q + 1} /\ s.code[q + 1].op = "jalr"
            BY DEF LongLink, Spots
        <3> QED
            BY <3>1, <3>2, <3>3 DEF Thread, Relative, Branches
    <2>3. Spots(q, l) \subseteq DOMAIN f.patch \ {a}
        BY <2>1, <2>2, ThreadPlaces
    <2>4. Spots(q, l) \subseteq DOMAIN f.patch
        BY <2>3
    <2>5. CASE prog = Plain(s)
        <3>1. Like(s, prog, DOMAIN f.patch, DOMAIN f.patch)
            BY <2>5, ThreadLike
        <3>2. Like(s, prog, DOMAIN f.patch, Spots(q, l))
            BY <2>4, <3>1, LikeLess
        <3> QED
            BY <2>1, <3>2 DEF Linking
    <2>6. CASE prog = Patched(s, f)
        <3> DEFINE Y == DOMAIN f.patch \ {a}
        <3>1. Like(s, prog, DOMAIN f.patch, Y)
            BY <2>6, ThreadLike
        <3>3. Spots(q, l) \subseteq Y
            BY <2>3
        <3> HIDE DEF Y
        <3>2. Like(s, prog, DOMAIN f.patch, Spots(q, l))
            BY <3>1, <3>3, LikeLess
        <3> QED
            BY <2>1, <3>2 DEF Linking
    <2> QED
        BY <2>5, <2>6
<1> QED
    BY <1>1 DEF Linkings

\* Whether a transfer is taken, and what it leaves in the registers.
Turns(i, x) == i.op = "jal" \/ Taken(i.op, x[i.a], x[i.b])
Turned(i, x, p) == IF i.op = "jal" THEN LinkFile(x, i.rd, p + 1) ELSE x

\* What a transfer does that may be threaded.
LEMMA TurnExec ==
    ASSUME NEW i \in Insns, i.op \in Relative, NEW x, NEW m, NEW p
    PROVE  Exec(On(x, p + 1, m), i) =
                On(Turned(i, x, p), IF Turns(i, x) THEN i.to ELSE p + 1, m)
<1> DEFINE p1 == p + 1
<1>1. CASE i.op = "jal"
    <2>1. Exec(Hart4(x, m, p1, {}), i) = Hart4(LinkFile(x, i.rd, p1), m, i.to, {})
        BY <1>1, ExecJal
    <2> QED
        BY <1>1, <2>1 DEF On, Turned, Turns
<1>2. CASE i.op \in Branches
    <2>1. i.b # Imm /\ i.op # "jal"
        BY <1>2 DEF Insns, Branches
    <2> HIDE DEF p1
    <2>2. Exec(Hart4(x, m, p1, {}), i) =
                Hart4(x, m, IF Taken(i.op, x[i.a], x[i.b]) THEN i.to ELSE p1, {})
        BY <1>2, <2>1, ExecBranch
    <2>3. Turned(i, x, p) = x /\ (Turns(i, x) <=> Taken(i.op, x[i.a], x[i.b]))
        BY <2>1 DEF Turned, Turns
    <2> QED
        BY <2>2, <2>3 DEF On, p1
<1> QED
    BY <1>1, <1>2 DEF Relative

\* What the transfer does in both.
LEMMA ThreadStep ==
    ASSUME NEW s, NEW a, NEW f, NEW t, NEW heads, NEW m, Thread(s, a, f, t, heads, m),
           NEW x \in Files, NEW i, i = s.code[a], NEW z, z = Turned(i, x, a)
    PROVE  /\ z \in Files
           /\ Step(Plain(s), DOMAIN f.patch, On(x, a, m)) =
                    On(z, IF Turns(i, x) THEN i.to ELSE a + 1, m)
           /\ Step(Patched(s, f), DOMAIN f.patch, On(x, a, m)) =
                    On(z, IF Turns(i, x) THEN t.at ELSE a + 1, m)
<1>1. /\ a \in DOMAIN f.patch /\ a \in DOMAIN s.code /\ a \in Int /\ t.at \in Int /\ i \in Insns
      /\ i.op \in Relative
    <2>1. /\ DOMAIN f.patch = {a} \cup t.passed /\ DOMAIN f.patch \subseteq DOMAIN s.code
          /\ a \in Nat \ {0} /\ t.at \in Int /\ s.code[a] \in Insns
        BY ThreadPlaces
    <2>2. s.code[a].op \in Relative
        BY DEF Thread
    <2> QED
        BY <2>1, <2>2
<1>2. i.rd \in Regs /\ (i.op \in Branches => i.rd = 0 /\ i.b # Imm)
    BY <1>1 DEF Insns
<1>3. z \in Files
    BY <1>1, <1>2 DEF Turned, LinkFile, Put, Files
<1>4. Step(Plain(s), DOMAIN f.patch, On(x, a, m)) = Exec(On(x, a + 1, m), i)
    <2> DEFINE D == DOMAIN f.patch
    <2>1. Like(s, Plain(s), D, D) /\ a \in D
        BY <1>1, ThreadLike
    <2> HIDE DEF D
    <2>2. Step(Plain(s), D, On(x, a, m)) = Exec(On(x, a + 1, m), s.code[a])
        BY <1>1, <2>1, LikeStep
    <2> QED
        BY <2>2 DEF D
<1>5. Exec(On(x, a + 1, m), i) = On(z, IF Turns(i, x) THEN i.to ELSE a + 1, m)
    BY <1>1, TurnExec
<1>6. CASE t.at = a + 1
    <2> DEFINE g == On(x, a, m)
    <2>1. f.patch[a] = Gone /\ i.rd = 0
        BY <1>1, <1>6 DEF Thread, Instead
    <2>2. z = x
        BY <2>1 DEF Turned, LinkFile
    <2>3. g.pc = a
        BY DEF On, Hart4
    <2>4. Skip(Hart4(x, m, a, {})) = Hart4(x, m, a + 1, {})
        BY <1>1, HartSkips
    <2>5. Skip(g) = On(x, a + 1, m)
        BY <2>4 DEF On
    <2> HIDE DEF g
    <2>6. Step(Patched(s, f), DOMAIN f.patch, g) = Skip(g)
        BY <1>1, <2>1, <2>3, SkipStep
    <2> QED
        BY <1>3, <1>4, <1>5, <1>6, <2>2, <2>5, <2>6 DEF g
<1>7. CASE t.at # a + 1
    <2> DEFINE j == [i EXCEPT !.to = t.at]
               g == On(x, a, m)
               a1 == a + 1
    <2>1. f.patch[a] = Alone(j)
        BY <1>1, <1>7 DEF Thread, Instead
    <2>2. j.op = i.op /\ j.rd = i.rd /\ j.a = i.a /\ j.b = i.b /\ j.to = t.at /\ j \in Insns
        BY <1>1 DEF Insns
    <2>3. g.pc = a /\ Skip(g) = On(x, a1, m)
        <3>1. Skip(Hart4(x, m, a, {})) = Hart4(x, m, a + 1, {})
            BY <1>1, HartSkips
        <3> QED
            BY <3>1 DEF On, Hart4
    <2> HIDE DEF j, g
    <2>4. Step(Patched(s, f), DOMAIN f.patch, g) = Ran(g, j)
        BY <1>1, <2>1, <2>3, PatchStep
    <2>5. Ran(g, j) = Exec(On(x, a1, m), j)
        BY <2>3 DEF Ran
    <2>6. Exec(On(x, a + 1, m), j) = On(Turned(j, x, a), IF Turns(j, x) THEN j.to ELSE a + 1, m)
        BY <1>1, <2>2, TurnExec
    <2>7. Turned(j, x, a) = z /\ (Turns(j, x) <=> Turns(i, x))
        BY <2>2 DEF Turned, Turns
    <2> QED
        BY <1>3, <1>4, <1>5, <2>2, <2>4, <2>5, <2>6, <2>7 DEF g
<1> QED
    BY <1>6, <1>7

\* The transfer that is not taken goes on out of the finding or to a jump that is passed.
LEMMA ThreadFalls ==
    ASSUME NEW s, NEW a, NEW f, NEW t, NEW heads, NEW m, Thread(s, a, f, t, heads, m),
           NEW x, ~Turns(s.code[a], x)
    PROVE  a + 1 \notin DOMAIN f.patch \/ a + 1 \in heads
<1>1. a + 1 # a /\ (a + 1) - 1 = a /\ DOMAIN f.patch = {a} \cup t.passed
    BY ThreadPlaces
<1>2. ASSUME a + 1 \in t.passed \ heads
      PROVE  FALSE
    <2>1. a \in heads
        BY <1>1, <1>2 DEF Thread, ThreadChain, Tails
    <2>2. PICK l : l \in thread_jump_at(s, a)
        BY <2>1 DEF Thread, ThreadChain, Heads
    <2>3. s.code[a].op \in {"jal", "auipc"}
        BY <2>2, LinkKinds DEF ShortLink, LongLink, Thread
    <2> QED
        BY <2>3 DEF Turns, Thread, Relative, Branches
<1> QED
    BY <1>1, <1>2

\* A head that is the transfer itself is a jump and always taken.
LEMMA ThreadOwn ==
    ASSUME NEW s, NEW a, NEW f, NEW t, NEW heads, NEW m, Thread(s, a, f, t, heads, m),
           a \in heads
    PROVE  t.at \in heads /\ \A x : Turns(s.code[a], x)
<1>1. PICK l : l \in thread_jump_at(s, a)
    BY DEF Thread, ThreadChain, Heads
<1>2. s.code[a].op \in {"jal", "auipc"}
    BY <1>1, LinkKinds DEF ShortLink, LongLink, Thread
<1> QED
    BY <1>2 DEF Turns, Thread, Relative, Branches, ThreadChain, Passes

\* Where the transfer goes, in both.
LEMMA ThreadGoes ==
    ASSUME NEW s, NEW a, NEW f, NEW t, NEW heads, NEW m, Thread(s, a, f, t, heads, m),
           NEW prog \in {Plain(s), Patched(s, f)}, NEW y \in Files
    PROVE  /\ Turned(s.code[a], y, a) \in Files
           /\ \E u \in {s.code[a].to, t.at} :
                Step(prog, DOMAIN f.patch, On(y, a, m)) =
                    On(Turned(s.code[a], y, a), IF Turns(s.code[a], y) THEN u ELSE a + 1, m)
<1> DEFINE z == Turned(s.code[a], y, a)
           i == s.code[a]
           D == DOMAIN f.patch
<1>1. /\ z \in Files
      /\ Step(Plain(s), D, On(y, a, m)) = On(z, IF Turns(i, y) THEN i.to ELSE a + 1, m)
      /\ Step(Patched(s, f), D, On(y, a, m)) = On(z, IF Turns(i, y) THEN t.at ELSE a + 1, m)
    BY ThreadStep
<1> HIDE DEF z, D
<1> QED
    BY <1>1 DEF z, D

\* Jumps that lead back to themselves are never left, in the code or in what is proposed.
LEMMA ThreadCircles ==
    ASSUME NEW s, NEW a, NEW f, NEW t, NEW heads, NEW m, Thread(s, a, f, t, heads, m),
           t.at \in heads, NEW prog \in {Plain(s), Patched(s, f)},
           NEW x \in Files, NEW p \in heads, NEW n \in Nat
    PROVE  Leaving(prog, DOMAIN f.patch, On(x, p, m), n).pc \in DOMAIN f.patch
<1> DEFINE D == DOMAIN f.patch
           i == s.code[a]
<1>1. IsSection(s) /\ heads \subseteq Int /\ t.regs \subseteq Regs /\ a \in D /\ i.to \in heads
    <2>1. IsSection(s)
        BY DEF Thread
    <2>2. heads \subseteq Int
        BY ThreadPlaces
    <2> QED
        BY <2>1, <2>2, ThreadPlaces
<1>2. Linkings(s, prog, D, heads, Regs, a)
    <2>1. heads \cup {t.at} \subseteq heads /\ heads \subseteq heads \cup {a}
        OBVIOUS
    <2> QED
        BY <1>1, <2>1, ThreadLinkings
<1>3. \A y, z : AlikeBut(Regs, y, z)
    BY DEF AlikeBut
<1>4. ASSUME a \in heads
      PROVE  Turning(prog, D, heads, Regs, a, x, m)
    <2>1. ASSUME NEW y \in Files
          PROVE  \E z \in Files, u \in heads :
                    AlikeBut(Regs, x, z) /\ Step(prog, D, On(y, a, m)) = On(z, u, m)
        <3>1. Turns(i, y)
            BY <1>4, ThreadOwn
        <3>2. /\ Turned(i, y, a) \in Files
              /\ \E u \in {i.to, t.at} : Step(prog, D, On(y, a, m)) =
                    On(Turned(i, y, a), IF Turns(i, y) THEN u ELSE a + 1, m)
            BY ThreadGoes
        <3> HIDE DEF i, D
        <3> QED
            BY <1>1, <1>3, <3>1, <3>2
    <2> QED
        BY <1>1, <2>1 DEF Turning
<1> HIDE DEF D
<1>5. AlikeBut(Regs, x, x)
    BY <1>3
<1>6. Leaving(prog, D, On(x, p, m), n).pc \in D
    BY <1>1, <1>2, <1>4, <1>5, Rounds
<1> QED
    BY <1>6 DEF D

\* The same with the transfer among them, where they lead back to it and it goes on as it
\* does now.
LEMMA ThreadReturns ==
    ASSUME NEW s, NEW a, NEW f, NEW t, NEW heads, NEW m, Thread(s, a, f, t, heads, m),
           t.at = a, NEW prog \in {Plain(s), Patched(s, f)}, NEW x \in Files,
           Turns(s.code[a], x) \/ a + 1 \in heads, NEW n \in Nat
    PROVE  Leaving(prog, DOMAIN f.patch, On(x, a, m), n).pc \in DOMAIN f.patch
<1> DEFINE D == DOMAIN f.patch
           i == s.code[a]
           places == heads \cup {a}
           Wr == IF i.op = "jal" THEN Regs ELSE t.regs
<1>1. /\ heads \subseteq Int /\ t.regs \subseteq Regs /\ a \in D /\ i.to \in heads
      /\ a \in Int /\ i \in Insns
    <2>1. heads \subseteq Int
        BY ThreadPlaces
    <2> QED
        BY <2>1, ThreadPlaces
<1>0. IsSection(s) /\ i.op \in Relative
    BY DEF Thread
<1>2. Linkings(s, prog, D, places, Wr, a)
    <2>1. heads \cup {t.at} \subseteq places /\ places \subseteq heads \cup {a} /\ t.regs \subseteq Wr
        BY <1>1
    <2> HIDE DEF places, Wr
    <2> QED
        BY <2>1, ThreadLinkings
<1>3. AlikeBut(Wr, x, x)
    BY DEF AlikeBut
<1>4. ASSUME NEW y \in Files, AlikeBut(Wr, x, y)
      PROVE  \E z \in Files, u \in places :
                AlikeBut(Wr, x, z) /\ Step(prog, D, On(y, a, m)) = On(z, u, m)
    <2> DEFINE z == Turned(i, y, a)
    <2>1. /\ z \in Files
          /\ \E u \in {i.to, t.at} : Step(prog, D, On(y, a, m)) =
                    On(z, IF Turns(i, y) THEN u ELSE a + 1, m)
        BY ThreadGoes
    <2>2. Turns(i, y) \/ a + 1 \in heads
        <3>1. CASE i.op = "jal"
            BY <3>1 DEF Turns
        <3>2. CASE i.op # "jal"
            <4>1. i.op \in Branches
                BY <1>0, <3>2 DEF Relative
            <4>2. i.a \in Regs /\ i.b \in Regs
                BY <1>1, <4>1 DEF Insns
            <4>3. Wr = t.regs
                BY <3>2
            <4>4. \A r \in t.regs : r \notin {i.a, i.b}
                BY DEF Thread, ThreadChain, Passes, DeadAt, InSection, Honest
            <4>5. x[i.a] = y[i.a] /\ x[i.b] = y[i.b]
                BY <1>4, <4>2, <4>3, <4>4 DEF AlikeBut
            <4>6. Turns(i, y) <=> Turns(i, x)
                BY <4>5 DEF Turns
            <4> QED
                BY <4>6
        <3> QED
            BY <3>1, <3>2
    <2>3. AlikeBut(Wr, x, z)
        <3>1. CASE i.op = "jal"
            BY <3>1 DEF AlikeBut
        <3>2. CASE i.op # "jal"
            BY <1>4, <3>2 DEF Turned
        <3> QED
            BY <3>1, <3>2
    <2> HIDE DEF z, i, D, Wr
    <2> QED
        BY <1>1, <2>1, <2>2, <2>3
<1>5. a \in places /\ places \subseteq Int
    BY <1>1
<1>7. Turning(prog, D, places, Wr, a, x, m)
    BY <1>1, <1>4 DEF Turning
<1> HIDE DEF D, places, Wr
<1>6. Leaving(prog, D, On(x, a, m), n).pc \in D
    BY <1>0, <1>2, <1>3, <1>5, <1>7, Rounds
<1> QED
    BY <1>6 DEF D

\* Both from one of the jumps that are passed, where those lead back to each other.
LEMMA CirclesAlike ==
    ASSUME NEW s, NEW a, NEW f, NEW t, NEW heads, NEW m, Thread(s, a, f, t, heads, m),
           t.at \in heads, NEW x \in Files, NEW y \in Files, NEW p \in heads, NEW q \in heads,
           NEW n \in Nat
    PROVE  Alike(s, f, On(x, p, m), On(y, q, m), n)
    BY ThreadCircles DEF Alike

\* Both from one place outside.
LEMMA OutAlike ==
    ASSUME NEW s, NEW f, NEW x, NEW e, NEW m, e \notin DOMAIN f.patch, NEW n \in Nat
    PROVE  Alike(s, f, On(x, e, m), On(x, e, m), n)
<1> DEFINE z == 0
<1>1. z \in Nat /\ z <= n /\ z = 0
    OBVIOUS
<1> HIDE DEF z
<1>2. /\ Leaving(Plain(s), DOMAIN f.patch, On(x, e, m), z) = On(x, e, m)
      /\ Leaving(Patched(s, f), DOMAIN f.patch, On(x, e, m), z) = On(x, e, m)
    BY <1>1, LeavingZero
<1>3. AlikeBut({}, x, x)
    BY DEF AlikeBut
<1> QED
    BY <1>1, <1>2, <1>3, AlikeOut

\* Both from one place inside, in no steps.
LEMMA InAlike ==
    ASSUME NEW s, NEW f, NEW x, NEW p, NEW m, p \in DOMAIN f.patch
    PROVE  Alike(s, f, On(x, p, m), On(x, p, m), 0)
    BY LeavingZero DEF Alike, On, Hart4

\* From one of the jumps that are passed both come to where they lead.
LEMMA ThreadLeads ==
    ASSUME NEW s, NEW a, NEW f, NEW t, NEW heads, NEW m, Thread(s, a, f, t, heads, m),
           a \notin heads, NEW x \in Files, NEW p \in heads
    PROVE  \E y \in Files, j \in 0 .. 2 * THREAD_HOPS :
                /\ AlikeBut(t.regs, x, y)
                /\ Leaving(Plain(s), DOMAIN f.patch, On(x, p, m), j) = On(y, t.at, m)
                /\ Leaving(Patched(s, f), DOMAIN f.patch, On(x, p, m), j) = On(y, t.at, m)
<1>1. PICK y \in Files, j \in 0 .. 2 * THREAD_HOPS :
            Way(s, t.passed, x, p, y, t.at, m, j) /\ AlikeBut(t.regs, x, y)
    BY DEF Thread, ThreadChain, Arrives
<1>2. t.passed \subseteq DOMAIN f.patch /\ t.passed \subseteq DOMAIN f.patch \ {a}
    BY ThreadPlaces
<1>3. Like(s, Plain(s), DOMAIN f.patch, t.passed)
    BY <1>2, ThreadLike DEF Like
<1>4. Like(s, Patched(s, f), DOMAIN f.patch, t.passed)
    BY <1>2, ThreadLike DEF Like
<1> QED
    BY <1>1, <1>3, <1>4 DEF Way

\* One step of both, and what is left.
LEMMA AlikeStep ==
    ASSUME NEW s, NEW f, NEW g, NEW h, NEW n \in Nat, 1 <= n,
           NEW g1, g1 = Step(Plain(s), DOMAIN f.patch, g),
           NEW h1, h1 = Step(Patched(s, f), DOMAIN f.patch, h), Alike(s, f, g1, h1, n - 1)
    PROVE  Alike(s, f, g, h, n)
<1> DEFINE o == 1
           k == n - 1
<1>1. o \in Nat /\ k \in Nat /\ o + k = n /\ o = 1
    OBVIOUS
<1> HIDE DEF o
<1>2. Leaving(Plain(s), DOMAIN f.patch, g, o) = g1
    BY <1>1, LeavingSteps
<1>3. Leaving(Patched(s, f), DOMAIN f.patch, h, o) = h1
    BY <1>1, LeavingSteps
<1>4. Alike(s, f, Leaving(Plain(s), DOMAIN f.patch, g, o),
                  Leaving(Patched(s, f), DOMAIN f.patch, h, o), k)
    BY <1>2, <1>3
<1> HIDE DEF k
<1>5. Alike(s, f, g, h, o + k)
    BY <1>1, <1>4, AlikeAfter
<1> QED
    BY <1>1, <1>5

\* From the transfer, where it is not taken.
LEMMA ThreadPast ==
    ASSUME NEW s, NEW a, NEW f, NEW t, NEW heads, NEW m, Thread(s, a, f, t, heads, m),
           NEW x \in Files, ~Turns(s.code[a], x), a + 1 \notin heads, NEW n \in Nat
    PROVE  Alike(s, f, On(x, a, m), On(x, a, m), n)
<1> DEFINE z == Turned(s.code[a], x, a)
           D == DOMAIN f.patch
           b == a + 1
<1>1. b \notin D /\ a \in D
    BY ThreadFalls, ThreadPlaces
<1>2. Step(Plain(s), D, On(x, a, m)) = On(z, b, m) /\ Step(Patched(s, f), D, On(x, a, m)) = On(z, b, m)
    BY ThreadStep
<1> HIDE DEF z, b, D
<1>3. CASE n = 0
    BY <1>1, <1>3, InAlike DEF D
<1>4. CASE n # 0
    <2>1. 1 <= n /\ n - 1 \in Nat
        BY <1>4
    <2>2. Alike(s, f, On(z, b, m), On(z, b, m), n - 1)
        BY <1>1, <2>1, OutAlike DEF D
    <2> QED
        BY <1>2, <2>1, <2>2, AlikeStep DEF D
<1> QED
    BY <1>3, <1>4

\* From the transfer, where the jumps lead back to it.
LEMMA ThreadBack ==
    ASSUME NEW s, NEW a, NEW f, NEW t, NEW heads, NEW m, Thread(s, a, f, t, heads, m),
           t.at = a, NEW x \in Files, NEW n \in Nat
    PROVE  Alike(s, f, On(x, a, m), On(x, a, m), n)
<1>1. CASE Turns(s.code[a], x) \/ a + 1 \in heads
    <2>1. \A prog \in {Plain(s), Patched(s, f)} :
                Leaving(prog, DOMAIN f.patch, On(x, a, m), n).pc \in DOMAIN f.patch
        BY <1>1, ThreadReturns
    <2> QED
        BY <2>1 DEF Alike
<1>2. CASE ~Turns(s.code[a], x) /\ a + 1 \notin heads
    BY <1>2, ThreadPast
<1> QED
    BY <1>1, <1>2

\* From a jump that is passed.
LEMMA ThreadHead ==
    ASSUME NEW s, NEW a, NEW f, NEW t, NEW heads, NEW m, Thread(s, a, f, t, heads, m),
           NEW x \in Files, NEW p \in heads, NEW n \in Nat, 2 * THREAD_HOPS <= n
    PROVE  Alike(s, f, On(x, p, m), On(x, p, m), n)
<1> DEFINE D == DOMAIN f.patch
           e == t.at
<1>1. CASE e \in heads
    BY <1>1, CirclesAlike
<1>2. CASE e \notin heads
    <2>1. a \notin heads
        BY <1>2, ThreadOwn
    <2>2. PICK y \in Files, j \in 0 .. 2 * THREAD_HOPS :
                /\ AlikeBut(t.regs, x, y)
                /\ Leaving(Plain(s), DOMAIN f.patch, On(x, p, m), j) = On(y, t.at, m)
                /\ Leaving(Patched(s, f), DOMAIN f.patch, On(x, p, m), j) = On(y, t.at, m)
        BY <2>1, ThreadLeads
    <2> DEFINE k == n - j
    <2>3. j \in Nat /\ k \in Nat /\ n = j + k /\ j <= n
        BY JumpAssumption
    <2>4. CASE e = a
        <3>1. Alike(s, f, On(y, a, m), On(y, a, m), k)
            BY <2>3, <2>4, ThreadBack
        <3> HIDE DEF k
        <3>2. Alike(s, f, Leaving(Plain(s), DOMAIN f.patch, On(x, p, m), j),
                          Leaving(Patched(s, f), DOMAIN f.patch, On(x, p, m), j), k)
            BY <2>2, <2>4, <3>1
        <3>3. Alike(s, f, On(x, p, m), On(x, p, m), j + k)
            BY <2>3, <3>2, AlikeAfter
        <3> QED
            BY <2>3, <3>3
    <2>5. CASE e # a
        <3>1. e \notin D
            BY <1>2, <2>5, ThreadPlaces
        <3>2. Alike(s, f, On(y, e, m), On(y, e, m), k)
            BY <2>3, <3>1, OutAlike
        <3> HIDE DEF k
        <3>3. Alike(s, f, Leaving(Plain(s), DOMAIN f.patch, On(x, p, m), j),
                          Leaving(Patched(s, f), DOMAIN f.patch, On(x, p, m), j), k)
            BY <2>2, <3>2
        <3>4. Alike(s, f, On(x, p, m), On(x, p, m), j + k)
            BY <2>3, <3>3, AlikeAfter
        <3> QED
            BY <2>3, <3>4
    <2> QED
        BY <2>4, <2>5
<1> QED
    BY <1>1, <1>2

\* From the transfer.
LEMMA ThreadHere ==
    ASSUME NEW s, NEW a, NEW f, NEW t, NEW heads, NEW m, Thread(s, a, f, t, heads, m),
           NEW x \in Files, NEW n \in Nat, 2 * THREAD_HOPS + 1 <= n
    PROVE  Alike(s, f, On(x, a, m), On(x, a, m), n)
<1> DEFINE D == DOMAIN f.patch
           e == t.at
           i == s.code[a]
           z == Turned(i, x, a)
           k == n - 1
<1>0. k \in Nat /\ 1 <= n /\ 2 * THREAD_HOPS <= k
    BY JumpAssumption
<1>1. /\ z \in Files
      /\ Step(Plain(s), D, On(x, a, m)) = On(z, IF Turns(i, x) THEN i.to ELSE a + 1, m)
      /\ Step(Patched(s, f), D, On(x, a, m)) = On(z, IF Turns(i, x) THEN e ELSE a + 1, m)
    BY ThreadStep
<1>2. i.to \in heads
    BY ThreadPlaces
<1> HIDE DEF z, k, i, D
<1>3. CASE e = a
    BY <1>3, ThreadBack
<1>4. CASE ~Turns(i, x) /\ a + 1 \notin heads
    BY <1>4, ThreadPast DEF i
<1>5. CASE ~Turns(i, x) /\ a + 1 \in heads
    <2> DEFINE b == a + 1
    <2>1. b \in heads
        BY <1>5
    <2>2. Step(Plain(s), D, On(x, a, m)) = On(z, b, m) /\ Step(Patched(s, f), D, On(x, a, m)) = On(z, b, m)
        BY <1>1, <1>5
    <2> HIDE DEF b
    <2>3. Alike(s, f, On(z, b, m), On(z, b, m), k)
        BY <1>0, <1>1, <2>1, ThreadHead
    <2> QED
        BY <1>0, <2>2, <2>3, AlikeStep DEF D, k
<1>6. CASE Turns(i, x) /\ e # a
    <2> DEFINE p == i.to
    <2>1. Step(Plain(s), D, On(x, a, m)) = On(z, p, m) /\ Step(Patched(s, f), D, On(x, a, m)) = On(z, e, m)
        BY <1>1, <1>6
    <2>2. Alike(s, f, On(z, p, m), On(z, e, m), k)
        <3>1. CASE e \in heads
            BY <1>0, <1>1, <1>2, <3>1, CirclesAlike
        <3>2. CASE e \notin heads
            <4>1. a \notin heads /\ e \notin DOMAIN f.patch
                BY <1>6, <3>2, ThreadOwn, ThreadPlaces
            <4>2. PICK y \in Files, j \in 0 .. 2 * THREAD_HOPS :
                        /\ AlikeBut(t.regs, z, y)
                        /\ Leaving(Plain(s), DOMAIN f.patch, On(z, p, m), j) = On(y, t.at, m)
                        /\ Leaving(Patched(s, f), DOMAIN f.patch, On(z, p, m), j) = On(y, t.at, m)
                BY <1>1, <1>2, <4>1, ThreadLeads
            <4> DEFINE o == 0
            <4>3. j \in Nat /\ j <= k /\ o \in Nat /\ o <= k /\ o = 0
                BY <1>0, JumpAssumption
            <4> HIDE DEF o
            <4>4. Leaving(Patched(s, f), DOMAIN f.patch, On(z, e, m), o) = On(z, e, m)
                BY <4>3, LeavingZero
            <4>5. AlikeBut(t.regs, y, z)
                BY <4>2 DEF AlikeBut
            <4>6. \A r \in t.regs : DeadAt(s, e, r)
                BY DEF Thread, ThreadChain, Passes
            <4>7. Leaving(Plain(s), DOMAIN f.patch, On(z, p, m), j) = On(y, e, m)
                BY <4>2
            <4> HIDE DEF e, p
            <4> QED
                BY <1>0, <4>1, <4>3, <4>4, <4>5, <4>6, <4>7, AlikeOut
        <3> QED
            BY <3>1, <3>2
    <2> HIDE DEF p, e
    <2> QED
        BY <1>0, <2>1, <2>2, AlikeStep DEF D, k
<1> QED
    BY <1>3, <1>4, <1>5, <1>6

\* The jalr of the jumps that are passed, and where they go when control comes to them
\* from elsewhere.
Landings(t, heads) == t.passed \ heads
Lands(s, x, b) == x[s.code[b].a] + s.code[b].k

\* Both go there.
LEMMA LandStep ==
    ASSUME NEW s, NEW a, NEW f, NEW t, NEW heads, NEW m, Thread(s, a, f, t, heads, m),
           NEW x \in Files, NEW b \in Landings(t, heads)
    PROVE  /\ b \in DOMAIN f.patch /\ b - 1 \in heads /\ b \in Int /\ Lands(s, x, b) \in Int
           /\ \A prog \in {Plain(s), Patched(s, f)} :
                Step(prog, DOMAIN f.patch, On(x, b, m)) = On(x, Lands(s, x, b), m)
<1> DEFINE D == DOMAIN f.patch
<1>1. /\ b - 1 \in heads /\ b \in DOMAIN s.code
      /\ s.code[b].op = "jalr" /\ s.code[b].rd = 0
    BY DEF Landings, Thread, ThreadChain, Tails
<1>2. b # a
    BY <1>1 DEF Thread, Relative, Branches
<1>3. b \in D /\ b \in Int /\ b \in D \ {a}
    BY <1>1, <1>2, ThreadPlaces DEF Landings
<1>4. s.code[b] \in Insns
    BY <1>1 DEF Thread, IsSection
<1>5. s.code[b].a \in Regs /\ s.code[b].k \in Int
    BY <1>4 DEF Insns
<1>6. Lands(s, x, b) \in Int
    BY <1>5 DEF Lands, Files
<1>7. Step(Plain(s), D, On(x, b, m)) = On(x, Lands(s, x, b), m)
    <2>1. Like(s, Plain(s), D, D)
        BY ThreadLike
    <2> HIDE DEF D
    <2>2. Step(Plain(s), D, On(x, b, m)) = On(x, x[s.code[b].a] + s.code[b].k, m)
        BY <1>1, <1>3, <2>1, JalrStep
    <2> QED
        BY <2>2 DEF Lands
<1>8. Step(Patched(s, f), D, On(x, b, m)) = On(x, Lands(s, x, b), m)
    <2> DEFINE Z == D \ {a}
    <2>1. Like(s, Patched(s, f), D, Z) /\ b \in Z
        BY <1>3, ThreadLike
    <2> HIDE DEF D, Z
    <2>2. Step(Patched(s, f), D, On(x, b, m)) = On(x, x[s.code[b].a] + s.code[b].k, m)
        BY <1>1, <1>3, <2>1, JalrStep
    <2> QED
        BY <2>2 DEF Lands
<1> QED
    BY <1>1, <1>3, <1>6, <1>7, <1>8

\* Both have been to the jalr behind each of V, once, and are at q.
Bounced(s, f, t, heads, m, x, p, j, q, V) ==
    /\ q \in Int /\ V \subseteq heads /\ Cardinality(V) = j
    /\ \A v \in V : v + 1 \in Landings(t, heads)
                        /\ (Lands(s, x, v + 1) = q \/ Lands(s, x, v + 1) - 1 \in V)
    /\ Leaving(Plain(s), DOMAIN f.patch, On(x, p, m), j) = On(x, q, m)
    /\ Leaving(Patched(s, f), DOMAIN f.patch, On(x, p, m), j) = On(x, q, m)

\* If that is where they have been, they go on like this for ever.
LEMMA BouncesOn ==
    ASSUME NEW s, NEW a, NEW f, NEW t, NEW heads, NEW m, Thread(s, a, f, t, heads, m),
           NEW x \in Files, NEW p, NEW j, NEW q, NEW V, q - 1 \in V,
           Bounced(s, f, t, heads, m, x, p, j, q, V), NEW n \in Nat
    PROVE  Alike(s, f, On(x, q, m), On(x, q, m), n)
<1> DEFINE W == {w \in {x} \X Int : w[2] - 1 \in V}
<1>0. ASSUME NEW y, NEW u
      PROVE  <<y, u>> \in W <=> y = x /\ u \in Int /\ u - 1 \in V
    OBVIOUS
<1> HIDE DEF W
<1>1. <<x, q>> \in W
    BY <1>0 DEF Bounced
<1>2. ASSUME NEW prog \in {Plain(s), Patched(s, f)}, NEW y, NEW u, <<y, u>> \in W
      PROVE  /\ u \in DOMAIN f.patch
             /\ \E z, v : <<z, v>> \in W /\ Step(prog, DOMAIN f.patch, On(y, u, m)) = On(z, v, m)
    <2> DEFINE v == Lands(s, x, u)
    <2>1. y = x /\ u \in Int /\ u - 1 \in V /\ u = (u - 1) + 1
        BY <1>0, <1>2
    <2>2. u \in Landings(t, heads) /\ (v = q \/ v - 1 \in V)
        BY <2>1 DEF Bounced
    <2>3. /\ u \in DOMAIN f.patch /\ v \in Int
          /\ Step(prog, DOMAIN f.patch, On(x, u, m)) = On(x, v, m)
        BY <2>2, LandStep
    <2> HIDE DEF v
    <2>4. <<x, v>> \in W
        BY <1>0, <2>2, <2>3
    <2> QED
        BY <2>1, <2>3, <2>4
<1>3. \A prog \in {Plain(s), Patched(s, f)} : Closed(prog, DOMAIN f.patch, W, m)
    BY <1>2 DEF Closed
<1>4. \A prog \in {Plain(s), Patched(s, f)} :
            Leaving(prog, DOMAIN f.patch, On(x, q, m), n).pc \in DOMAIN f.patch
    BY <1>1, <1>3, LeavingStays
<1> QED
    BY <1>4 DEF Alike

\* From wherever control comes in.
LEMMA ThreadAlike ==
    ASSUME NEW s, NEW a, NEW f, NEW t, NEW heads, NEW m, Thread(s, a, f, t, heads, m),
           NEW x \in Files, NEW p \in DOMAIN f.patch, NEW n \in Nat, 3 * THREAD_HOPS + 1 <= n
    PROVE  Alike(s, f, On(x, p, m), On(x, p, m), n)
<1> DEFINE H == THREAD_HOPS
           D == DOMAIN f.patch
           T == {j \in Nat : (\E q, V : Bounced(s, f, t, heads, m, x, p, j, q, V))
                                \/ Alike(s, f, On(x, p, m), On(x, p, m), n)}
<1>0. H \in Nat /\ p \in Int
    BY JumpAssumption, ThreadPlaces
<1>1. IsFiniteSet(heads) /\ Cardinality(heads) <= H /\ Cardinality(heads) \in Nat
    BY FS_CardinalityType DEF Thread, ThreadChain, Passes
<1>2. ASSUME NEW V, V \subseteq heads
      PROVE  IsFiniteSet(V) /\ Cardinality(V) \in Nat /\ Cardinality(V) <= H
    <2>1. V \in SUBSET heads
        BY <1>2
    <2>2. IsFiniteSet(V) /\ Cardinality(V) <= Cardinality(heads)
        BY <1>1, <2>1, FS_Subset
    <2>3. Cardinality(V) \in Nat
        BY <2>2, FS_CardinalityType
    <2> QED
        BY <1>0, <1>1, <2>2, <2>3
<1>3. Bounced(s, f, t, heads, m, x, p, 0, p, {})
    BY <1>0, LeavingZero, FS_EmptySet DEF Bounced
<1>4. ASSUME NEW j \in Nat, NEW q, NEW V, Bounced(s, f, t, heads, m, x, p, j, q, V),
             Alike(s, f, On(x, q, m), On(x, q, m), n - j)
      PROVE  Alike(s, f, On(x, p, m), On(x, p, m), n)
    <2> DEFINE k == n - j
    <2>1. j <= H
        BY <1>2, <1>4 DEF Bounced
    <2>2. k \in Nat /\ n = j + k
        BY <1>0, <2>1
    <2>3. Alike(s, f, Leaving(Plain(s), DOMAIN f.patch, On(x, p, m), j),
                      Leaving(Patched(s, f), DOMAIN f.patch, On(x, p, m), j), k)
        BY <1>4 DEF Bounced
    <2> HIDE DEF k
    <2>4. Alike(s, f, On(x, p, m), On(x, p, m), j + k)
        BY <2>2, <2>3, AlikeAfter
    <2> QED
        BY <2>2, <2>4
<1>5. ASSUME NEW j \in Nat, NEW q, NEW V, Bounced(s, f, t, heads, m, x, p, j, q, V)
      PROVE  \/ Alike(s, f, On(x, p, m), On(x, p, m), n)
             \/ \E r, U : Bounced(s, f, t, heads, m, x, p, j + 1, r, U)
    <2> DEFINE k == n - j
    <2>1. k \in Nat /\ 2 * H + 1 <= k /\ 2 * H <= k
        <3>1. j <= H
            BY <1>2, <1>5 DEF Bounced
        <3> QED
            BY <1>0, <3>1
    <2>2. CASE q \notin D
        <3> HIDE DEF k
        <3>1. Alike(s, f, On(x, q, m), On(x, q, m), k)
            BY <2>1, <2>2, OutAlike
        <3> QED
            BY <1>4, <1>5, <3>1 DEF k
    <2>3. CASE q \in heads
        <3> HIDE DEF k
        <3>1. Alike(s, f, On(x, q, m), On(x, q, m), k)
            BY <2>1, <2>3, ThreadHead
        <3> QED
            BY <1>4, <1>5, <3>1 DEF k
    <2>4. CASE q = a
        <3> HIDE DEF k
        <3>1. Alike(s, f, On(x, q, m), On(x, q, m), k)
            BY <2>1, <2>4, ThreadHere
        <3> QED
            BY <1>4, <1>5, <3>1 DEF k
    <2>5. CASE q - 1 \in V
        <3> HIDE DEF k
        <3>1. Alike(s, f, On(x, q, m), On(x, q, m), k)
            BY <1>5, <2>1, <2>5, BouncesOn
        <3> QED
            BY <1>4, <1>5, <3>1 DEF k
    <2>6. CASE q \in Landings(t, heads) /\ q - 1 \notin V
        <3> DEFINE r == Lands(s, x, q)
                   U == V \cup {q - 1}
                   o == 1
        <3>1. /\ q - 1 \in heads /\ q \in Int /\ (q - 1) + 1 = q /\ r \in Int
              /\ \A prog \in {Plain(s), Patched(s, f)} : Step(prog, D, On(x, q, m)) = On(x, r, m)
            BY <2>6, LandStep
        <3>2. /\ V \subseteq heads /\ Cardinality(V) = j
              /\ \A v \in V : v + 1 \in Landings(t, heads)
                                /\ (Lands(s, x, v + 1) = q \/ Lands(s, x, v + 1) - 1 \in V)
              /\ Leaving(Plain(s), D, On(x, p, m), j) = On(x, q, m)
              /\ Leaving(Patched(s, f), D, On(x, p, m), j) = On(x, q, m)
            BY <1>5 DEF Bounced
        <3>3. U \subseteq heads /\ Cardinality(U) = j + 1
            BY <1>2, <2>6, <3>1, <3>2, FS_AddElement
        <3>4. ASSUME NEW v \in U
              PROVE  v + 1 \in Landings(t, heads)
                        /\ (Lands(s, x, v + 1) = r \/ Lands(s, x, v + 1) - 1 \in U)
            <4>1. CASE v \in V
                <5>1. v + 1 \in Landings(t, heads)
                        /\ (Lands(s, x, v + 1) = q \/ Lands(s, x, v + 1) - 1 \in V)
                    BY <3>2, <4>1
                <5> QED
                    BY <5>1
            <4>2. CASE v = q - 1
                BY <2>6, <3>1, <4>2
            <4> QED
                BY <4>1, <4>2
        <3>0. o \in Nat /\ o = 1
            OBVIOUS
        <3> HIDE DEF o, r, D
        <3>5. ASSUME NEW prog \in {Plain(s), Patched(s, f)}
              PROVE  Leaving(prog, D, On(x, p, m), j + 1) = On(x, r, m)
            <4>1. Leaving(prog, D, On(x, p, m), j) = On(x, q, m)
                BY <3>2
            <4>2. Leaving(prog, D, On(x, q, m), o) = On(x, r, m)
                BY <3>0, <3>1, LeavingSteps
            <4>3. Leaving(prog, D, On(x, p, m), j + o)
                        = Leaving(prog, D, Leaving(prog, D, On(x, p, m), j), o)
                BY <3>0, LeavingSum
            <4> QED
                BY <3>0, <4>1, <4>2, <4>3
        <3> HIDE DEF U
        <3>6. Bounced(s, f, t, heads, m, x, p, j + 1, r, U)
            BY <3>1, <3>3, <3>4, <3>5 DEF Bounced, D
        <3> QED
            BY <3>6
    <2>7. q \in D => q \in heads \/ q = a \/ q \in Landings(t, heads)
        BY ThreadPlaces DEF Landings
    <2> QED
        BY <2>2, <2>3, <2>4, <2>5, <2>6, <2>7
<1>6. ASSUME NEW j \in Nat, \A i \in Nat : i < j => i \in T
      PROVE  j \in T
    <2>1. CASE j = 0
        BY <1>3, <2>1
    <2>2. CASE j # 0
        <3> DEFINE i == j - 1
        <3>1. i \in Nat /\ i < j /\ j = i + 1
            BY <2>2
        <3>2. i \in T
            BY <1>6, <3>1
        <3> HIDE DEF i
        <3>3. (\E q, V : Bounced(s, f, t, heads, m, x, p, i, q, V))
                    \/ Alike(s, f, On(x, p, m), On(x, p, m), n)
            BY <3>2
        <3> QED
            BY <1>5, <3>1, <3>3
    <2> QED
        BY <2>1, <2>2
<1>7. Nat \subseteq T
    <2> HIDE DEF T
    <2> QED
        BY <1>6, SetInduction
<1>8. H + 1 \in Nat /\ ~(H + 1 <= H)
    BY <1>0
<1>9. ASSUME NEW q, NEW V
      PROVE  ~Bounced(s, f, t, heads, m, x, p, H + 1, q, V)
    BY <1>2, <1>8 DEF Bounced
<1>10. H + 1 \in T
    BY <1>7, <1>8
<1> QED
    BY <1>9, <1>10

\* The theorem of threaded transfers.
ThreadInv == SectionInv /\ ThreadsAgree

\* What is reported of a transfer does what the code did.
LEMMA ThreadHolds ==
    ASSUME NEW s, IsSection(s), Honest(s), NEW a \in DOMAIN s.code,
           NEW f \in check_transfer_to_jump(s, a),
           NEW x \in [Regs -> Words], NEW m, NEW fuel \in Nat, 3 * THREAD_HOPS + 1 <= fuel
    PROVE  Holds(s, f, x, m, fuel)
<1> DEFINE t == Threaded(s, a)
           D == DOMAIN f.patch
           mm == [c \in DOMAIN m |-> IF c \in DOMAIN s.note.pool THEN s.note.pool[c] ELSE m[c]]
           instead == Instead(s, a, t.at)
           patch == [p \in {a} \cup t.passed |-> IF p = a THEN instead ELSE Alone(s.code[p])]
<1>1. /\ s.code[a].op \in Relative /\ ~is_relocated(s, a)
      /\ t.passed # {} /\ (t.at = a + 1 => s.code[a].rd = 0)
      /\ f = Finding("transfer_to_jump", patch)
    BY DEF check_transfer_to_jump, When, Instead, Gone, Alone
<1> HIDE DEF instead, patch, t
<1>2. f.patch = patch
    BY <1>1 DEF Finding
<1>3. PICK heads : ThreadChain(s, a, t, THREAD_HOPS, heads, mm)
    BY <1>1, ChainOf DEF t
<1>4. Thread(s, a, f, t, heads, mm)
    BY <1>1, <1>2, <1>3 DEF Thread, patch, instead
<1>5. DOMAIN f.patch = {a} \cup t.passed
    BY <1>2 DEF patch
<1>6. ASSUME NEW p \in DOMAIN f.patch, is_relocated(s, p)
      PROVE  \E n \in DOMAIN f.patch[p] : f.patch[p][n] = s.code[p]
    <2>1. f.patch[p] = Alone(s.code[p])
        BY <1>1, <1>2, <1>5, <1>6 DEF patch
    <2>2. 1 \in DOMAIN f.patch[p] /\ f.patch[p][1] = s.code[p]
        BY <2>1 DEF Alone
    <2> QED
        BY <2>2
<1>7. x \in Files
    BY HalfLemma, HartAssumption DEF Files, Words
<1> HIDE DEF mm
<1>8. ASSUME NEW p \in ComesIn(s, D)
      PROVE  LET g == Leaving(Plain(s), DOMAIN f.patch, Start(s, x, m, p), fuel)
                 h == Leaving(Patched(s, f), DOMAIN f.patch, Start(s, x, m, p), fuel)
             IN  {g.pc, h.pc} \subseteq DOMAIN f.patch \/ Agree(s, g, h)
    <2>1. p \in DOMAIN f.patch
        BY DEF ComesIn
    <2>2. Start(s, x, m, p) = On(x, p, mm)
        BY DEF Start, On, Hart4, mm
    <2>3. Alike(s, f, On(x, p, mm), On(x, p, mm), fuel)
        BY <1>4, <1>7, <2>1, ThreadAlike
    <2> QED
        BY <2>2, <2>3 DEF Alike
<1> QED
    BY <1>6, <1>8 DEF Holds

\* A finding with the name of that check comes from it.
LEMMA ThreadFound ==
    ASSUME NEW s, NEW a \in Int, NEW folded, NEW f \in Findings(s, a, folded),
           f.rule \in ThreadRulesNames
    PROVE  f \in check_transfer_to_jump(s, a)
<1>1. f \notin BranchFindings(s, a)
    BY BranchesOther DEF ThreadRulesNames, BranchRulesNames
<1>2. f \notin ValueFindings(s, a)
    BY ValuesOther DEF ThreadRulesNames, ValueRulesNames
<1>3. f \notin ConstFindings(s, a)
    BY ConstsOther DEF ThreadRulesNames, ConstRulesNames
<1>4. f \notin MemoryFindings(s, a, folded)
    BY MemoryNames DEF ThreadRulesNames, MemoryRulesNames
<1>5. f \notin check_cross_jump(s, a)
    BY DEF check_cross_jump, When, Finding, ThreadRulesNames
<1> QED
    BY <1>1, <1>2, <1>3, <1>4, <1>5 DEF Findings, JumpFindings

\* The invariant is inductive.
LEMMA ThreadInductive ==
    /\ Init => ThreadInv
    /\ ThreadInv /\ [Next]_vars => ThreadInv'
<1>1. ASSUME Init
      PROVE  ThreadInv
    BY <1>1, SectionInductive DEF Init, ThreadInv, ThreadsAgree, Sound
<1>2. ASSUME ThreadInv, Scan
      PROVE  ThreadsAgree'
    <2>1. sec' = sec /\ found' = Findings(sec, at, zilx_folded) /\ at \in DOMAIN sec.code
        BY <1>2 DEF Scan, InSection
    <2>2. ASSUME NEW f \in found', f.rule \in ThreadRulesNames, NEW c \in Contents
          PROVE  Holds(sec, f, c.x, c.m, Steps)
        <3>1. f \in check_transfer_to_jump(sec, at)
            BY <1>2, <2>1, <2>2, ThreadFound DEF ThreadInv, SectionInv
        <3>2. c.x \in [Regs -> Words] /\ Steps \in Nat /\ 3 * THREAD_HOPS + 1 <= Steps
            BY MachinesAssumption
        <3>3. IsSection(sec) /\ Honest(sec)
            BY <1>2 DEF ThreadInv, SectionInv
        <3> QED
            BY <2>1, <3>1, <3>2, <3>3, ThreadHolds
    <2> QED
        BY <1>2, <2>1, <2>2 DEF ThreadsAgree, Sound
<1>3. ASSUME ThreadInv, NextSection
      PROVE  ThreadsAgree'
    BY <1>3 DEF NextSection, ThreadsAgree, Sound
<1>4. ASSUME ThreadInv, UNCHANGED vars
      PROVE  ThreadsAgree'
    BY <1>4 DEF vars, ThreadInv, ThreadsAgree, Sound
<1> QED
    BY <1>1, <1>2, <1>3, <1>4, SectionInductive DEF Next, ThreadInv

\* Whatever the section and the registers, and however many jumps are looked past: a
\* transfer that is reported to go to a jump, threaded to where the jumps lead, leaves for
\* the place it left for, or, as in the code, never leaves them; with every register that
\* is read there as it was, from wherever control comes to it or to one of the jumps, and
\* although nothing keeps it from coming in between the two instructions of one
\* (check_transfer_to_jump).
THEOREM ThreadsAreSound == Spec => []ThreadsAgree
<1>1. ThreadInv => ThreadsAgree
    BY DEF ThreadInv
<1> QED
    BY ThreadInductive, <1>1, PTL DEF Spec
===============================================================================
