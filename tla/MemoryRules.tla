------------------------------ MODULE MemoryRules ------------------------------
(***************************************************************************)
(* The checks that end in an access: an address computed for it, a         *)
(* floating-point constant it fetches, and a compare-exchange spelled out. *)
(***************************************************************************)
EXTENDS ConstRules

\* Killed: what i loads takes the place of r.
Loads(i) == i.op = "load" /\ ~IsF(i.rd)
Killed(i, r) == Loads(i) /\ i.rd = r

check_base_add_to_offset(s, a) ==
    LET i == s.code[a]
        j == s.code[a + 1]
    IN  When(/\ Window(s, a, 2)
             /\ rv_decode_base_add(i) /\ i.a # 0 /\ i.rd \notin {0} \cup Fixed
             /\ rv_decode_mem(j) /\ j.a = i.rd
             /\ i.k + j.k \in ImmRange
             /\ ~(rv_mem_is_store(j) /\ j.b = i.rd)
             /\ Killed(j, i.rd) \/ DeadAt(s, a + 2, i.rd),
             Fold("base_add_to_offset", a, 2, <<[j EXCEPT !.a = i.a, !.k = i.k + j.k]>>))

-------------------------------------------------------------------------------
\* Loads that add a register to their base, shifted by log2 of the width or not at
\* all, zero-extended from WORD bits first or not.
Lxs(j, base, index, scale, zero) ==
    <<Insn("lxs", j.n, j.rd, base, index, scale, IF zero THEN 1 ELSE 0)>>

\* The last of n instructions loads from what the add before it computed.
LoadsAt(s, a, n) ==
    LET j == s.code[a + n - 1]
    IN  Loads(j) /\ j.a = s.code[a + n - 2].rd /\ j.k = 0
Adds(i) == rv_decode_add(i) /\ i.rd \notin {0} \cup Fixed

\* r, written by the instruction at p, is written again by the end of the window or
\* dead behind it.
Rewritten(s, p, last, r) ==
    \/ \E q \in p + 1 .. last : s.code[q].rd = r
    \/ DeadAt(s, last + 1, r)

check_indexed_load(s, a, folded) ==
    LET i == s.code[a]
    IN  When(/\ a # folded /\ Window(s, a, 2)
             /\ Adds(i) /\ 0 \notin {i.a, i.b}
             /\ LoadsAt(s, a, 2)
             /\ Rewritten(s, a, a + 1, i.rd),
             Fold("indexed_load", a, 2, Lxs(s.code[a + 1], i.a, i.b, 0, FALSE)))

check_scaled_indexed_load(s, a) ==
    LET i == s.code[a]
        add == s.code[a + 1]
        j == s.code[a + 2]
    IN  When(/\ Window(s, a, 3)
             /\ rv_decode_slli(i) /\ i.rd \notin {0} \cup Fixed /\ i.a # 0
             /\ Adds(add) /\ Once(add, i.rd) /\ Beside(add, i.rd) # 0
             /\ LoadsAt(s, a, 3) /\ j.n \in 1 .. 3 /\ i.k = j.n
             /\ Rewritten(s, a + 1, a + 2, add.rd) /\ Rewritten(s, a, a + 2, i.rd),
             Fold("scaled_indexed_load", a, 3, Lxs(j, Beside(add, i.rd), i.a, j.n, FALSE)))

\* The zero-extension is the two shifts at a and a + 1.
check_zext_indexed_load(s, a) ==
    LET up == s.code[a]
        down == s.code[a + 1]
        add == s.code[a + 2]
        j == s.code[a + 3]
    IN  When(/\ Window(s, a, 4)
             /\ rv_decode_slli(up) /\ up.k = XLEN - WORD /\ up.rd \notin {0} \cup Fixed /\ up.a # 0
             /\ rv_decode_srli(down) /\ down.a = up.rd /\ down.rd \notin {0} \cup Fixed
             /\ Adds(add) /\ Once(add, down.rd) /\ Beside(add, down.rd) # 0
             /\ LoadsAt(s, a, 4) /\ down.k = XLEN - WORD - j.n
             /\ Rewritten(s, a + 2, a + 3, add.rd) /\ Rewritten(s, a + 1, a + 3, down.rd)
             /\ Rewritten(s, a, a + 3, up.rd),
             Fold("zext_indexed_load", a, 4, Lxs(j, Beside(add, down.rd), up.a, j.n, TRUE)))

\* The add a deeper fold has claimed, for the scan to leave alone.  Mutant: only the
\* scaled one claims it.
DeeperFolds(s, a) == check_scaled_indexed_load(s, a) \cup check_zext_indexed_load(s, a)
AddOf(f) == LastOf(DOMAIN f.patch) - 1
ClaimsScaled(s, a, folded) ==
    LET deeper == check_scaled_indexed_load(s, a)
    IN  IF deeper = {} THEN folded ELSE AddOf(CHOOSE f \in deeper : TRUE)
Claims(s, a, folded) ==
    LET deeper == DeeperFolds(s, a)
    IN  IF deeper = {} THEN folded ELSE AddOf(CHOOSE f \in deeper : TRUE)

-------------------------------------------------------------------------------
\* The entry of fli's table that is these bits, none where there is none.  A wide
\* value is looked up by what its exponent is in the narrow format.
rv_fli_entry(bits, n) ==
    LET mant == MantBits(n)
        sign == bits \div 2^(n - 1)
        field == (bits \div 2^mant) % 2^ExpBits(n)
        frac == bits % 2^mant
        special == field = 2^ExpBits(n) - 1
        exp == IF special THEN Special ELSE field - Bias(n)
        normal == special \/ exp + Bias(WORD) \in 1 .. 2^ExpBits(WORD) - 2
        found == {j \in DOMAIN FliTable : FliTable[j] = <<exp, frac \div 2^(mant - 2)>>}
    IN  IF bits = 2^mant THEN {1}
        ELSE IF frac % 2^(mant - 2) # 0 \/ ~normal THEN {}
        ELSE IF sign = 0 THEN {j + 1 : j \in found}
        ELSE {0 : j \in found \cap {One}}

Fli(n, rd, entry) == <<Insn("fli", n, rd, 0, 0, entry, 0)>>
WidthOf(i) == IF i.n = 2 THEN WORD ELSE XLEN
rv_decode_fp_load(i) == i.op = "load" /\ IsF(i.rd) /\ i.n \in {2, 3}
rv_decode_fmv_from_x(i) == i.op = "fmv" /\ IsF(i.rd)

check_fp_pool_to_fli(s, a) ==
    LET j == s.code[a + 1]
        c == Cell(a + s.code[a].k + j.k)
    IN  IF /\ Window(s, a, 2)
           /\ rv_decode_auipc(s.code[a]) /\ s.code[a].rd # 0
           /\ rv_decode_fp_load(j) /\ j.a = s.code[a].rd
           /\ c \in DOMAIN s.note.pool
           /\ DeadAt(s, a + 2, s.code[a].rd)
        THEN UNION {Fold("fp_pool_to_fli", a, 2, Fli(WidthOf(j), j.rd, entry)) :
                    entry \in rv_fli_entry(Low(WidthOf(j), s.note.pool[c]), WidthOf(j))}
        ELSE {}

check_fp_int_to_fli(s, a) ==
    LET last == ChainEnd(s, a) + 1
        j == s.code[last]
    IN  IF /\ IsChain(s, a)
           /\ InSection(s, last) /\ ~is_branch_target(s, last) /\ ~is_relocated(s, last)
           /\ rv_decode_fmv_from_x(j) /\ j.a = s.code[a].rd
           /\ DeadAt(s, last + 1, j.a)
        THEN UNION {Fold("fp_int_to_fli", a, last - a + 1, Fli(j.n, j.rd, entry)) :
                    entry \in rv_fli_entry(Low(j.n, ChainValue(s, a)), j.n)}
        ELSE {}

-------------------------------------------------------------------------------
\* lr, a branch out unless it is what was expected, sc, and back while that fails.
check_cas_loop_to_amocas(s, a) ==
    LET lr == s.code[a]
        out == s.code[a + 1]
        sc == s.code[a + 2]
        back == s.code[a + 3]
        expected == IF out.a = lr.rd THEN out.b ELSE out.a
    IN  When(/\ Window(s, a, 4)
             /\ lr.op = "lr" /\ 0 \notin {lr.rd, lr.a}
             /\ out.op = "bne" /\ lr.rd \in {out.a, out.b} /\ out.to \notin a .. a + 3
             /\ sc.op = "sc" /\ sc.a = lr.a /\ sc.n = lr.n /\ sc.rd # 0
             /\ back.op = "bne" /\ {back.a, back.b} = {sc.rd, 0} /\ back.to = a
             /\ DeadAt(s, a + 4, sc.rd) /\ DeadAt(s, out.to, sc.rd),
             {Finding("cas_loop_to_amocas",
                [p \in a .. a + 3 |->
                    IF p = a
                    THEN <<I("add", lr.rd, expected, 0),
                           Insn("amocas", lr.n, lr.rd, lr.a, sc.b, 0, 0), out>>
                    ELSE <<>>])})

MemoryFindings(s, a, folded) ==
    check_base_add_to_offset(s, a) \cup check_indexed_load(s, a, folded)
        \cup DeeperFolds(s, a) \cup check_fp_pool_to_fli(s, a)
        \cup check_fp_int_to_fli(s, a) \cup check_cas_loop_to_amocas(s, a)
===============================================================================
