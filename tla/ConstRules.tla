------------------------------- MODULE ConstRules ------------------------------
(***************************************************************************)
(* The checks about constants: one built in more instructions than it      *)
(* takes, and one that is loaded for instructions that could have held it. *)
(***************************************************************************)
EXTENDS Rules

CONSTANTS CONST_WALK, ZSTORE_WALK       \* instructions the uses may span

ASSUME WalkAssumption == {CONST_WALK, ZSTORE_WALK} \subseteq Nat

-------------------------------------------------------------------------------
\* A constant started at a and built up in one register by the steps behind it.
StepOf(i) ==
    /\ i.b = Imm /\ i.a = i.rd /\ i.rd # 0
    /\ i.op = "add" \/ (i.op \in {"sll", "xor", "or"} /\ i.n = XLEN)
Link(s, a, p) ==
    /\ StepOf(s.code[p]) /\ s.code[p].rd = s.code[a].rd
    /\ ~is_branch_target(s, p)
Chain(s, a) == {p \in DOMAIN s.code : p >= a /\ \A q \in a + 1 .. p : Link(s, a, q)}
ChainEnd(s, a) == a + Cardinality(Chain(s, a)) - 1
IsChain(s, a) ==
    /\ decode_const(s.code[a])
    /\ \A p \in Chain(s, a) : ~is_relocated(s, p)

li_chain_step(i, cur) == Value(i.op, i.n, 0, cur, i.k)
ChainValue(s, a) ==
    LET after[p \in Chain(s, a)] ==
            IF p = a THEN s.code[a].k ELSE li_chain_step(s.code[p], after[p - 1])
    IN  after[ChainEnd(s, a)]

\* lui and addi, or what is above the low bits first, shifted into place behind its
\* last one.  The upper part is rounded up for an addi that subtracts.
IfNot(v, i) == IF v = 0 THEN <<>> ELSE <<i>>
Stripped(v) == CHOOSE u \in {v \div 2^j : j \in 0 .. XLEN - 1} :
                  u % 2 = 1 /\ \E j \in 0 .. XLEN - 1 : u * 2^j = v
Upper(v) == Sext(XLEN, v - Sext(IMM, v)) \div 2^IMM
Short(rd, v) ==
    LET lo == Sext(IMM, v)
        hi == Sext(WORD - IMM, Upper(v))
    IN  IfNot(hi, Li(rd, hi * 2^IMM)) \o
        (IF hi = 0 THEN <<Li(rd, lo)>>
                   ELSE IfNot(lo, Insn("add", WORD, rd, rd, Imm, lo, 0)))
li_plan(v, rd) ==
    LET plan[u \in Words] ==
            IF u \in -(2^(WORD - 1)) .. 2^(WORD - 1) - 1 THEN Short(rd, u)
            ELSE LET hi == Stripped(Upper(u))
                     up == CHOOSE j \in 0 .. XLEN - 1 : hi * 2^j = Upper(u)
                 IN  plan[hi] \o <<I("sll", rd, rd, IMM + up)>> \o
                     IfNot(Sext(IMM, u), I("add", rd, rd, Sext(IMM, u)))
    IN  plan[v]

check_long_li(s, a) ==
    LET last == ChainEnd(s, a)
        plan == li_plan(ChainValue(s, a), s.code[a].rd)
    IN  IF IsChain(s, a) /\ last > a
        THEN When(Len(plan) < last - a + 1,
                  {Finding("long_li", [p \in a .. last |-> IF p = a THEN plan ELSE <<>>])})
        ELSE {}

-------------------------------------------------------------------------------
\* The uses of r from at on, before anything else might name it: becomes[p] is
\* what takes the place of the instruction at p, empty where that is not such a use.
\* Mutant: the walk goes on through a side entry.
CrossedBlind(s, p, r, becomes) ==
    LET i == s.code[p]
    IN  IF becomes[p] # {} THEN ~is_relocated(s, p)
                           ELSE ~rv_may_name(i, r) /\ ~rv_stops_walk(i)
Crossed(s, p, r, becomes) ==
    LET i == s.code[p]
    IN  /\ ~is_branch_target(s, p)
        /\ IF becomes[p] # {} THEN ~is_relocated(s, p)
                              ELSE ~rv_may_name(i, r) /\ ~rv_stops_walk(i)
Ends(s, p, r, becomes) == becomes[p] # {} /\ s.code[p].rd = r
Uses(s, at, walk, r, becomes) ==
    {p \in DOMAIN s.code :
        /\ p \in at .. at + walk - 1 /\ becomes[p] # {}
        /\ \A q \in at .. p : Crossed(s, q, r, becomes)
        /\ \A q \in at .. p - 1 : ~Ends(s, q, r, becomes)}
LastOf(S) == CHOOSE p \in S : \A q \in S : q <= p

\* The uses rewritten and the instructions from a up to them that load r deleted.
Folded(rule, s, a, at, walk, r, becomes) ==
    LET uses == Uses(s, at, walk, r, becomes)
        last == LastOf(uses)
    IN  IF uses = {} THEN {}
        ELSE When(Ends(s, last, r, becomes) \/ DeadAt(s, last + 1, r),
                  {Finding(rule,
                     [p \in a .. last |->
                        IF p < at THEN <<>>
                        ELSE IF p \in uses THEN CHOOSE is \in becomes[p] : TRUE
                        ELSE <<s.code[p]>>])})

-------------------------------------------------------------------------------
Fits(k) == k \in ImmRange
\* The immediate form of i, where it reads r, holding k, where that form can.
imm_form(i, r, k) ==
    LET rx == Beside(i, r)
        form(op, imm) == {<<Insn(op, i.n, i.rd, rx, Imm, imm, 0)>>}
    IN  IF i.b = Imm \/ i.rd = 0 \/ ~Once(i, r) THEN {}
        ELSE CASE i.op = "sub" -> When(i.b = r /\ Fits(-k), form("add", -k))
               [] i.op \in {"sll", "srl", "sra"} -> When(i.b = r, form(i.op, k % i.n))
               [] i.op \in {"slt", "sltu"} -> When(i.b = r /\ Fits(k), form(i.op, k))
               [] i.op \in {"add", "and", "or", "xor"} -> When(Fits(k), form(i.op, k))
               [] OTHER -> {}

check_const_for_imm(s, a) ==
    LET c == s.code[a]
        becomes == [p \in DOMAIN s.code |-> imm_form(s.code[p], c.rd, c.k)]
    IN  IF decode_const(c) /\ c.rd \notin Fixed /\ ~is_relocated(s, a)
        THEN Folded("const_for_imm", s, a, a + 1, CONST_WALK, c.rd, becomes)
        ELSE {}

\* An and with a mask of the low n bits that andi cannot hold: an extension where there
\* is one, the pair of shifts otherwise.
MaskBits(k) == {n \in 1 .. XLEN - 1 : 2^n - 1 = k}
mask_form(i, r, k, extension) ==
    LET rx == Beside(i, r)
        n == CHOOSE m \in MaskBits(k) : TRUE
    IN  IF i.op # "and" \/ i.n # XLEN \/ i.b = Imm \/ i.rd = 0 \/ ~Once(i, r) THEN {}
        ELSE IF extension /\ n \in {HALF, WORD} THEN {<<Ext("zext", n, i.rd, rx)>>}
        ELSE {<<I("sll", i.rd, rx, XLEN - n), I("srl", i.rd, i.rd, XLEN - n)>>}

check_mask_for_zext(s, a) ==
    LET r == s.code[a].rd
        k == ChainValue(s, a)
        at == ChainEnd(s, a) + 1
        found(extension) ==
            LET becomes == [p \in DOMAIN s.code |-> mask_form(s.code[p], r, k, extension)]
            IN  Folded("mask_for_zext", s, a, at, CONST_WALK, r, becomes)
    IN  IF IsChain(s, a) /\ r \notin Fixed /\ at >= a + 2
        THEN IF k >= 2^(IMM - 1) /\ MaskBits(k) # {} THEN found(TRUE) \cup found(FALSE) ELSE {}
        ELSE {}

check_zero_for_store(s, a) ==
    LET c == s.code[a]
        store(i) == rv_mem_is_store(i) /\ i.b = c.rd /\ i.a # c.rd
        becomes == [p \in DOMAIN s.code |->
                       IF store(s.code[p]) THEN {<<[s.code[p] EXCEPT !.b = 0]>>} ELSE {}]
    IN  IF decode_const(c) /\ c.k = 0 /\ c.rd \notin Fixed /\ ~is_relocated(s, a)
        THEN Folded("zero_for_store", s, a, a + 1, ZSTORE_WALK, c.rd, becomes)
        ELSE {}

ConstFindings(s, a) ==
    check_long_li(s, a) \cup check_const_for_imm(s, a)
        \cup check_mask_for_zext(s, a) \cup check_zero_for_store(s, a)
===============================================================================
