------------------------------ MODULE ValueRules ------------------------------
(***************************************************************************)
(* The checks that find a value computed in two instructions where one     *)
(* would do, or for nobody.                                                *)
(***************************************************************************)
EXTENDS Rules

\* Two instructions in a line, the second left alone: r is what the first wrote and
\* the rewrite no longer does.  Mutant: whoever reads it later is not asked.
PairUnread(s, a, r) == Window(s, a, 2)
Pair(s, a, r) ==
    /\ Window(s, a, 2)
    /\ s.code[a + 1].rd = r \/ DeadAt(s, a + 2, r)

-------------------------------------------------------------------------------
check_slli_add_to_shadd(s, a) ==
    LET i == s.code[a]
        j == s.code[a + 1]
    IN  When(/\ Window(s, a, 2)
             /\ rv_decode_slli(i) /\ i.k \in 1 .. 3 /\ i.rd # 0
             /\ rv_decode_add(j) /\ j.rd = i.rd /\ Once(j, i.rd),
             Fold("slli_add_to_shadd", a, 2, <<Shadd(i.k, j.rd, i.a, Beside(j, i.rd))>>))

\* Shifted up and down again by an amount of sh.
Shifts(s, a, down, sh) ==
    LET i == s.code[a]
        j == s.code[a + 1]
    IN  /\ Pair(s, a, i.rd)
        /\ rv_decode_slli(i) /\ i.rd # 0 /\ i.k \in sh
        /\ Immediate(j, down) /\ j.rd # 0 /\ j.k = i.k /\ j.a = i.rd

check_slli_srli_to_zext(s, a) ==
    LET i == s.code[a]
    IN  When(Shifts(s, a, "srl", {XLEN - WORD}) /\ s.code[a + 1].rd = i.rd,
             Fold("slli_srli_to_zext", a, 2, <<Ext("zext", WORD, i.rd, i.a)>>))

check_slli_srli_to_zexth(s, a) ==
    When(Shifts(s, a, "srl", {XLEN - HALF}),
         Fold("slli_srli_to_zexth", a, 2,
              <<Ext("zext", HALF, s.code[a + 1].rd, s.code[a].a)>>))

check_slli_srai_to_sext(s, a) ==
    When(Shifts(s, a, "sra", {XLEN - HALF, XLEN - BYTE}),
         Fold("slli_srai_to_sext", a, 2,
              <<Ext("sext", XLEN - s.code[a].k, s.code[a + 1].rd, s.code[a].a)>>))

check_slli_srli_to_andi(s, a) ==
    When(Shifts(s, a, "srl", XLEN - IMM + 1 .. XLEN - 1),
         Fold("slli_srli_to_andi", a, 2,
              <<I("and", s.code[a + 1].rd, s.code[a].a, 2^(XLEN - s.code[a].k) - 1)>>))

-------------------------------------------------------------------------------
rv_shadd_shift(v) == CASE v = 3 -> 1 [] v = 5 -> 2 [] v = 9 -> 3 [] OTHER -> 0

\* A constant in c for the second instruction only.
ConstPair(s, a) ==
    /\ Pair(s, a, s.code[a].rd)
    /\ decode_const(s.code[a]) /\ s.code[a].rd \notin Fixed

check_const_mul_to_shadd(s, a) ==
    LET c == s.code[a]
        j == s.code[a + 1]
        rx == Beside(j, c.rd)
    IN  When(/\ ConstPair(s, a) /\ rv_shadd_shift(c.k) # 0
             /\ decode_mul(j) /\ Once(j, c.rd) /\ rx # 0,
             Fold("const_mul_to_shadd", a, 2, <<Shadd(rv_shadd_shift(c.k), j.rd, rx, rx)>>))

\* What divides by 2^k in the width of op, none where k is too large for it.
ByPowerOfTwo(j, k) ==
    CASE j.op = "remu" /\ k < IMM               -> {I("and", j.rd, j.a, 2^k - 1)}
      [] j.op = "divu" /\ k < j.n               -> {Insn("srl", j.n, j.rd, j.a, Imm, k, 0)}
      [] OTHER                                  -> {}

check_udiv_pow2(s, a) ==
    LET c == s.code[a]
        j == s.code[a + 1]
    IN  When(/\ ConstPair(s, a)
             /\ decode_udiv(j) /\ j.b = c.rd /\ j.a \notin {0, c.rd},
             UNION {Fold("udiv_pow2", a, 2, <<i>>) :
                    i \in UNION {ByPowerOfTwo(j, k) : k \in {m \in 1 .. XLEN - 1 : 2^m = c.k}}})

-------------------------------------------------------------------------------
zbb_logic_name(op) == CASE op = "and" -> "andn" [] op = "or" -> "orn" [] op = "xor" -> "xnor"

check_not_logic_fold(s, a) ==
    LET i == s.code[a]
        j == s.code[a + 1]
        fold(op, ra, rb) == When(Pair(s, a, i.rd) /\ ra # 0 /\ rb # 0,
                                 Fold("not_logic_fold", a, 2,
                                      <<R(zbb_logic_name(op), j.rd, ra, rb)>>))
    IN  CASE rv_decode_not(i) -> When(decode_logic(j) /\ Once(j, i.rd),
                                      fold(j.op, Beside(j, i.rd), i.a))
          [] ~rv_decode_not(i) /\ decode_logic(i) /\ i.op = "xor" ->
                When(rv_decode_not(j) /\ j.a = i.rd, fold("xor", i.a, i.b))
          [] OTHER -> {}

-------------------------------------------------------------------------------
\* Deleted: nothing reads it.
check_dead_def(s, a) ==
    LET i == s.code[a]
    IN  When(/\ Window(s, a, 1)
             /\ rv_pure_def(i) /\ i.rd \notin Fixed /\ DeadAt(s, a + 1, i.rd),
             Fold("dead_def", a, 1, <<>>))

\* Instructions that leave everything as it is, apart from the hints with a meaning.
WritesX0(i) ==
    /\ Pure(i) /\ i.rd = 0
    /\ ~(rv_decode_addi(i) /\ i.a = 0 /\ i.k = 0)
    /\ ~Immediate(i, "or")
    /\ ~(rv_decode_add(i) /\ i.a = 0 /\ i.b \in 2 .. 5)
Itself(i) ==
    \/ /\ i.n = XLEN /\ i.a = i.rd
       /\ \/ i.b = Imm /\ i.op \in {"add", "sll", "srl", "sra", "xor", "or"} /\ i.k = 0
          \/ i.b = Imm /\ i.op = "and" /\ i.k = -1
          \/ i.b = 0 /\ i.op \in {"add", "sub", "xor", "or", "sll", "srl", "sra"}
          \/ i.b = i.rd /\ i.op \in {"and", "or"}
    \/ i.n = XLEN /\ i.b = i.rd /\ i.a = 0 /\ i.op \in {"add", "xor", "or"}
rv_decode_no_effect(i) == WritesX0(i) \/ (i.rd # 0 /\ Itself(i))

check_no_effect(s, a) ==
    When(Window(s, a, 1) /\ rv_decode_no_effect(s.code[a]), Fold("no_effect", a, 1, <<>>))

ValueFindings(s, a) ==
    check_slli_add_to_shadd(s, a) \cup check_slli_srli_to_zext(s, a)
        \cup check_slli_srli_to_zexth(s, a) \cup check_slli_srai_to_sext(s, a)
        \cup check_slli_srli_to_andi(s, a) \cup check_const_mul_to_shadd(s, a)
        \cup check_udiv_pow2(s, a) \cup check_not_logic_fold(s, a)
        \cup check_dead_def(s, a) \cup check_no_effect(s, a)
===============================================================================
