------------------------------- MODULE Popcount --------------------------------
(***************************************************************************)
(* The matcher that recognises a bit count spelled out with masks and      *)
(* shifts.  It is dataflow, not a window: for every register it keeps the  *)
(* constant in it, where that is known, and how far into the sequence its  *)
(* value is.  A stage is made from earlier stages and from a mask.         *)
(***************************************************************************)
EXTENDS Rules

\* What is known of a register: its constant, the stage of its value, and of the
\* sequence it is a stage of: the register it started from, whether the masks are
\* those of the wide form, whether the source has been overwritten, how many
\* instructions there are and were at stage one, and where it started.
NoStage == [stage |-> "none", src |-> 0, wide |-> FALSE, clob |-> FALSE,
            insn |-> 0, base |-> 0, start |-> 0]
Nothing == [known |-> {}, seq |-> NoStage]
NoTable == [r \in Regs |-> Nothing]

\* The masks, of bits in pairs, fours and eights.
Repeated(byte, n) == IF n = XLEN THEN Sext(XLEN, byte * (2^(XLEN - 8) + 1)) ELSE byte
Masks == [m55 |-> 85, m33 |-> 51, m0f |-> 15, m01 |-> 1]
pc_is_mask(pc, r, m, wide) ==
    pc[r].known = {IF wide THEN Repeated(Masks[m], XLEN) ELSE Repeated(Masks[m], WORD)}

pc_clear(pc, r) == [pc EXCEPT ![r].seq = NoStage]
pc_clear_dst(pc, r) == [pc EXCEPT ![r] = Nothing]

\* What is computed from a register is lost when the register is written by anything
\* that is not a stage.  Mutant: only its own entry is.
pc_kill_own(pc, r) == pc_clear_dst(pc, r)
pc_kill(pc, r) ==
    [q \in Regs |-> IF q = r THEN Nothing
                    ELSE IF pc[q].seq.stage # "none" /\ pc[q].seq.src = r
                         THEN pc_clear(pc, q)[q] ELSE pc[q]]

\* rd becomes the stage after seq.
pc_write(pc, rd, seq, stage) ==
    [pc_clear_dst(pc, rd) EXCEPT ![rd].seq =
        [seq EXCEPT !.stage = stage, !.clob = seq.clob \/ rd = seq.src,
                    !.insn = seq.insn + 1,
                    !.base = IF stage = "stage1" THEN seq.insn + 1 ELSE seq.base]]
Constant(pc, rd, v) == [pc_kill(pc, rd) EXCEPT ![rd].known = {v}]

-------------------------------------------------------------------------------
pc_decode_srl(i) == i.op = "srl" /\ i.b = Imm

\* A constant made from known ones: by a step, or by the sum or union of two.
cchain_step_of(i) == i.b = Imm /\ (i.op = "add" \/ rv_decode_slli(i))
cchain_merge_of(i) == i.op \in {"add", "or"} /\ i.n = XLEN /\ i.b # Imm /\ 0 \notin {i.rd, i.a, i.b}
cchain_apply(i, v) == Value(i.op, i.n, 0, v, i.k)

KnownConstant(pc, i) ==
    IF decode_const(i) THEN {i.k}
    ELSE IF cchain_step_of(i) /\ i.rd # 0 THEN {cchain_apply(i, v) : v \in pc[i.a].known}
    ELSE IF cchain_merge_of(i)
         THEN {Value(i.op, i.n, 0, p[1], p[2]) : p \in pc[i.a].known \X pc[i.b].known}
    ELSE {}

AfterShift(pc, i, p) ==
    LET seq == pc[i.a].seq
    IN  CASE i.k = 1 /\ i.n = XLEN ->
                IF i.rd = i.a THEN pc_kill(pc, i.rd)
                ELSE [pc_kill(pc, i.rd) EXCEPT ![i.rd].seq =
                         [NoStage EXCEPT !.stage = "shr1", !.src = i.a, !.insn = 1, !.start = p]]
          [] i.k = 2 /\ i.n = XLEN /\ seq.stage = "stage1" -> pc_write(pc, i.rd, seq, "shr2")
          [] i.k = 4 /\ i.n = XLEN /\ seq.stage = "stage2" -> pc_write(pc, i.rd, seq, "shr4")
          [] OTHER -> pc_kill(pc, i.rd)

\* A stage and a mask make the next stage; the first mask decides the width.
Arms == {<<"shr1", "m55", "and55">>, <<"stage1", "m33", "and33">>,
         <<"shr2", "m33", "and33s">>, <<"sum4", "m0f", "stage3">>}
AfterAnd(pc, i) ==
    LET use(arm) == IF pc[i.a].seq.stage = arm[1] THEN <<i.a, i.b>> ELSE <<i.b, i.a>>
        widths(arm) == IF arm[1] = "shr1" THEN BOOLEAN ELSE {pc[use(arm)[1]].seq.wide}
        fits == {f \in Arms \X BOOLEAN :
                    /\ pc[use(f[1])[1]].seq.stage = f[1][1] /\ f[2] \in widths(f[1])
                    /\ pc_is_mask(pc, use(f[1])[2], f[1][2], f[2])}
    IN  IF fits = {} THEN pc_kill(pc, i.rd)
        ELSE LET f == CHOOSE g \in fits : TRUE
                 seq == [pc[use(f[1])[1]].seq EXCEPT !.wide = f[2]]
             IN  pc_write(pc, i.rd, seq, f[1][3])

AfterSub(pc, i) ==
    IF pc[i.b].seq.stage = "and55" /\ pc[i.b].seq.src = i.a
    THEN pc_write(pc, i.rd, pc[i.b].seq, "stage1")
    ELSE pc_kill(pc, i.rd)

\* The two halves of the middle stage share what came before stage one; a stage and
\* its own shift share everything before the shift.
AfterAdd(pc, i) ==
    LET a == pc[i.a].seq
        b == pc[i.b].seq
        alike == a.src = b.src /\ a.wide = b.wide
        lower == IF a.start < b.start THEN a.start ELSE b.start
        longer == IF a.insn > b.insn THEN a ELSE b
        either == a.clob \/ b.clob
    IN  CASE {a.stage, b.stage} = {"and33", "and33s"} /\ alike /\ a.base = b.base ->
                pc_write(pc, i.rd, [a EXCEPT !.insn = a.insn + b.insn - a.base,
                                             !.clob = either, !.start = lower], "stage2")
          [] {a.stage, b.stage} = {"stage2", "shr4"} /\ alike ->
                pc_write(pc, i.rd, [longer EXCEPT !.clob = either], "sum4")
          [] OTHER -> pc_kill(pc, i.rd)

AfterMul(pc, i) ==
    LET use == IF pc[i.a].seq.stage = "stage3" THEN <<i.a, i.b>> ELSE <<i.b, i.a>>
        seq == pc[use[1]].seq
    IN  IF seq.stage = "stage3" /\ pc_is_mask(pc, use[2], "m01", seq.wide)
        THEN pc_write(pc, i.rd, seq, "mul")
        ELSE pc_kill(pc, i.rd)

decode_rrr(i) == i.op \in {"add", "sub", "and", "mul"} /\ i.b # Imm /\ i.n = XLEN /\ i.rd # 0
pc_observe(pc, i, p) ==
    LET constant == KnownConstant(pc, i)
    IN  IF constant # {} THEN Constant(pc, i.rd, CHOOSE v \in constant : TRUE)
        ELSE IF pc_decode_srl(i) THEN AfterShift(pc, i, p)
        ELSE IF ~decode_rrr(i)
             THEN IF i.rd # 0 /\ ~IsF(i.rd) THEN pc_kill(pc, i.rd) ELSE pc
        ELSE CASE i.op = "and" -> AfterAnd(pc, i)
               [] i.op = "sub" -> AfterSub(pc, i)
               [] i.op = "add" -> AfterAdd(pc, i)
               [] i.op = "mul" -> AfterMul(pc, i)

\* riscvlint_state_observe forgets it all where the straight line ends, and
\* where other code joins it.
pc_after(pc, s, p) ==
    IF rv_ends_region(s.code[p]) \/ s.code[p].op = "ecall" \/ is_branch_target(s, p + 1)
    THEN NoTable
    ELSE pc_observe(pc, s.code[p], p)

-------------------------------------------------------------------------------
\* [at, start, rd, src, wide]: from start on, rd comes to count the bits of src.
check_swar_popcount(s, pc, a) ==
    LET i == s.code[a]
        seq == pc[i.a].seq
    IN  IF /\ pc_decode_srl(i) /\ seq.stage = "mul"
           /\ i.n = (IF seq.wide THEN XLEN ELSE WORD) /\ i.k = i.n - 8
           /\ ~is_branch_target(s, a)
           /\ seq.clob => DeadAt(s, a + 1, seq.src)
        THEN {[at |-> a, start |-> seq.start, rd |-> i.rd, src |-> seq.src, wide |-> seq.wide]}
        ELSE {}

Ones(v, n) == Cardinality({j \in 0 .. n - 1 : Bit(v, j) = 1})
\* Where the matcher is wrong: a stage writes the source, and a sub behind it reads the
\* register for what it held.  pc_clear_dst spares the stages of the source, and pc_write marks
\* only the one that it writes.
Tables(s) ==
    LET before[p \in 1 .. Len(s.code) + 1] ==
            IF p = 1 THEN NoTable ELSE pc_after(before[p - 1], s, p - 1)
    IN  before
Overtaken(s, f) ==
    \E q \in f.start .. f.at, p \in f.start .. f.at :
        /\ q < p /\ s.code[p].op = "sub" /\ s.code[p].a = f.src
        /\ s.code[q].rd = f.src /\ Tables(s)[q + 1][f.src].seq.stage \notin {"none", "shr1"}

\* The count is that of what the source held at the start, on every way in.
PopcountIs(s, f, x, m) ==
    \A p \in (s.note.entries \cup {1}) \cap (1 .. f.at) :
        LET from == Leaving(Plain(s), 1 .. f.start - 1, Start(s, x, m, p), f.start)
            to == Leaving(Plain(s), f.start .. f.at, from, f.at)
        IN  from.pc = f.start /\ to.pc = f.at + 1
                => to.x[f.rd] = Ones(from.x[f.src], IF f.wide THEN XLEN ELSE WORD)
===============================================================================
