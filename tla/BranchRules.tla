------------------------------ MODULE BranchRules ------------------------------
(***************************************************************************)
(* The checks that end in a transfer: a comparison, a constant or a jump   *)
(* that a branch could have absorbed, a branch around a move, a transfer   *)
(* to where control goes anyway, and the pairs of auipc and jalr.          *)
(* check_*(s, a) gives the findings of the check at address a.             *)
(***************************************************************************)
EXTENDS Rules

CONSTANTS BranchReach, JalReach     \* how far a branch and a jal can go

Opposite(op) == CASE op = "beq"  -> "bne"  [] op = "bne"  -> "beq"
                 [] op = "blt"  -> "bge"  [] op = "bge"  -> "blt"
                 [] op = "bltu" -> "bgeu" [] op = "bgeu" -> "bltu"
Distance(p, q) == IF p < q THEN q - p ELSE p - q
rv_jal_reaches(p, q) == Distance(p, q) <= JalReach

\* r is dead where the branch at p falls through and where it goes.  Mutant: only
\* where it falls through.
DeadBelow(s, p, r) == DeadAt(s, p + 1, r)
DeadBothWays(s, p, r) == DeadAt(s, p + 1, r) /\ DeadAt(s, s.code[p].to, r)

\* The one register the branch b compares with c, 0 where there is none.
Against(b, c) == IF b.b = c /\ b.a # c THEN b.a
                 ELSE IF b.a = c /\ b.b # c THEN b.b ELSE 0

-------------------------------------------------------------------------------
folded_funct3(kind, onNonzero) ==
    CASE kind = "slt"  -> IF onNonzero THEN "blt"  ELSE "bge"
      [] kind = "sltu" -> IF onNonzero THEN "bltu" ELSE "bgeu"
      [] kind = "seqz" -> IF onNonzero THEN "beq"  ELSE "bne"
      [] OTHER         -> IF onNonzero THEN "bne"  ELSE "beq"

check_cond_to_branch(s, a) ==
    LET c == s.code[a]
        b == s.code[a + 1]
        tested == IF b.b = 0 THEN b.a ELSE b.b
        second == IF Kind(c) \in {"seqz", "snez"} THEN 0 ELSE c.b
    IN  When(/\ Window(s, a, 2)
             /\ rv_decode_condition(c)
             /\ b.op \in {"beq", "bne"} /\ 0 \in {b.a, b.b} /\ tested = c.rd
             /\ DeadBothWays(s, a + 1, c.rd),
             Fold("cond_to_branch", a, 2,
                  <<Br(folded_funct3(Kind(c), b.op = "bne"),
                       IF Kind(c) = "snez" THEN c.b ELSE c.a, second, b.to)>>))

check_branch_over_jump(s, a) ==
    LET b == s.code[a]
        j == s.code[a + 1]
    IN  When(/\ Window(s, a, 2)
             /\ rv_decode_cond_branch(b) /\ rv_decode_jump(j) /\ j.rd = 0
             /\ b.to = a + 2 /\ j.to # b.to
             /\ Distance(a, j.to) <= BranchReach,
             {Finding("branch_over_jump",
                [p \in {a, a + 1} |->
                    IF p = a THEN <<Br(Opposite(b.op), b.a, b.b, j.to)>> ELSE <<>>])})

check_transfer_to_next(s, a) ==
    LET t == s.code[a]
    IN  When(/\ Window(s, a, 1)
             /\ rv_decode_cond_branch(t) \/ (rv_decode_jump(t) /\ t.rd = 0)
             /\ t.to = a + 1,
             Fold("transfer_to_next", a, 1, <<>>))

-------------------------------------------------------------------------------
\* A constant loaded only for the branch behind it.
ConstBranch(s, a, ops) ==
    LET c == s.code[a]
        b == s.code[a + 1]
    IN  /\ Window(s, a, 2)
        /\ decode_const(c) /\ c.rd \notin Fixed
        /\ b.op \in ops /\ Against(b, c.rd) # 0
        /\ DeadBothWays(s, a + 1, c.rd)

zibi_immediate(v) == v = -1 \/ v \in 1 .. 31

check_const_eq_branch(s, a) ==
    LET b == s.code[a + 1]
    IN  When(/\ ConstBranch(s, a, {"beq", "bne"})
             /\ zibi_immediate(s.code[a].k),
             Fold("const_eq_branch", a, 2,
                  <<[b EXCEPT !.a = Against(b, s.code[a].rd), !.b = Imm, !.k = s.code[a].k]>>))

check_zero_eq_branch(s, a) ==
    LET b == s.code[a + 1]
    IN  When(/\ ConstBranch(s, a, {"beq", "bne"})
             /\ s.code[a].k = 0,
             Fold("zero_eq_branch", a, 2,
                  <<[b EXCEPT !.a = Against(b, s.code[a].rd), !.b = 0]>>))

\* The branch against x0 that op against k is, and whether the register is its first
\* operand; none where there is no such branch.
Form(op, first) == {[op |-> op, first |-> first]}
zero_branch_form(op, k, constIsSecond) ==
    CASE op \in {"blt", "bge"} /\ k = 0           -> Form(op, constIsSecond)
      [] op \in {"blt", "bge"} /\ k = 1 /\ constIsSecond -> Form(Opposite(op), FALSE)
      [] op \in {"bltu", "bgeu"} /\ k = 1 /\ constIsSecond ->
            Form(IF op = "bltu" THEN "beq" ELSE "bne", TRUE)
      [] op \in {"bltu", "bgeu"} /\ k = 0 /\ ~constIsSecond ->
            Form(IF op = "bltu" THEN "bne" ELSE "beq", TRUE)
      [] OTHER -> {}

check_const_ord_branch(s, a) ==
    LET c == s.code[a]
        b == s.code[a + 1]
        rx == Against(b, c.rd)
    IN  When(/\ ConstBranch(s, a, Branches \ {"beq", "bne"})
             /\ c.k \in {0, 1},
             UNION {Fold("const_ord_branch", a, 2,
                         <<Br(f.op, IF f.first THEN rx ELSE 0,
                                    IF f.first THEN 0 ELSE rx, b.to)>>) :
                    f \in zero_branch_form(b.op, c.k, b.b = c.rd)})

-------------------------------------------------------------------------------
\* The branch at br around the move or constant behind it, after lead instructions
\* that load what is compared.
MinMax(s, a, lead) ==
    LET br == a + lead
        b == s.code[br]
        mv == s.code[br + 1]
        rv == IF lead = 1 THEN s.code[a].rd
              ELSE IF rv_decode_mv(mv) THEN mv.a ELSE 0
        moves == IF lead = 1 THEN decode_const(mv) /\ mv.k = s.code[a].k
                 ELSE rv_decode_mv(mv) \/ (decode_const(mv) /\ mv.k = 0)
        isMax == (b.op \in {"bge", "bgeu"}) = (b.a = mv.rd)
        op == IF b.op \in {"bltu", "bgeu"} THEN (IF isMax THEN "maxu" ELSE "minu")
                                           ELSE (IF isMax THEN "max" ELSE "min")
    IN  When(/\ Window(s, a, lead + 2)
             /\ b.op \in Branches \ {"beq", "bne"} /\ b.to = br + 2
             /\ moves /\ mv.rd # rv
             /\ <<b.a, b.b>> \in {<<mv.rd, rv>>, <<rv, mv.rd>>},
             {Finding("branch_to_minmax",
                [p \in a .. br + 1 |-> IF p = br THEN <<R(op, mv.rd, mv.rd, rv)>>
                                      ELSE IF p < br THEN <<s.code[p]>> ELSE <<>>])})

check_branch_to_minmax(s, a) == MinMax(s, a, IF decode_const(s.code[a]) THEN 1 ELSE 0)

-------------------------------------------------------------------------------
\* auipc and the jalr behind it, when the pair is one jump within reach.
JumpPair(s, a) ==
    /\ Window(s, a, 2)
    /\ IsPair(s.code, a)
    /\ PairGoes(s.code, a) >= 0 /\ rv_jal_reaches(a, PairGoes(s.code, a))

check_call_pair_to_jal(s, a) ==
    When(JumpPair(s, a) /\ s.code[a + 1].rd = s.code[a].rd,
         Fold("call_pair_to_jal", a, 2, <<J(s.code[a].rd, PairGoes(s.code, a))>>))

check_jump_pair_to_j(s, a) ==
    When(/\ JumpPair(s, a) /\ s.code[a + 1].rd = 0
         /\ DeadAt(s, PairGoes(s.code, a), s.code[a].rd),
         Fold("jump_pair_to_j", a, 2, <<J(0, PairGoes(s.code, a))>>))

check_scratch_call_to_jal(s, a) ==
    When(/\ JumpPair(s, a) /\ s.code[a + 1].rd \notin {0, s.code[a].rd}
         /\ DeadAt(s, PairGoes(s.code, a), s.code[a].rd) /\ DeadAt(s, a + 2, s.code[a].rd),
         Fold("scratch_call_to_jal", a, 2, <<J(s.code[a + 1].rd, PairGoes(s.code, a))>>))

BranchFindings(s, a) ==
    check_cond_to_branch(s, a) \cup check_branch_over_jump(s, a)
        \cup check_transfer_to_next(s, a) \cup check_const_eq_branch(s, a)
        \cup check_const_ord_branch(s, a) \cup check_zero_eq_branch(s, a)
        \cup check_branch_to_minmax(s, a) \cup check_call_pair_to_jal(s, a)
        \cup check_jump_pair_to_j(s, a) \cup check_scratch_call_to_jal(s, a)
===============================================================================
