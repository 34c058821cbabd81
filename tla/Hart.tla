--------------------------------- MODULE Hart ---------------------------------
(***************************************************************************)
(* The machine beside the checks that rewrite a few instructions: integer  *)
(* registers of XLEN bits, floating-point registers numbered from 32, a    *)
(* memory of cells, one address per instruction.  Words are signed.        *)
(*                                                                         *)
(* WORD, HALF, BYTE and IMM stand for 32, 16, 8 and 12 bits, and a cell is *)
(* named by the low ADDR bits of an address.                               *)
(***************************************************************************)
EXTENDS Integers, Sequences

CONSTANTS XLEN, WORD, HALF, BYTE, IMM, ADDR,
          Regs,     \* register numbers, 0 among them
          Arg       \* the register an environment call is seen to read

ASSUME HartAssumption ==
    /\ {XLEN, WORD, HALF, BYTE, IMM, ADDR} \subseteq Nat
    /\ 1 < BYTE /\ BYTE < HALF /\ HALF < WORD /\ WORD + 3 <= XLEN /\ 1 < IMM /\ IMM < WORD
    /\ 7 <= WORD
    /\ 0 < ADDR /\ ADDR <= XLEN
    /\ Regs \subseteq Nat /\ {0, Arg} \subseteq Regs
    /\ 31 < 2^(XLEN - 1)
\* What a power of two is, as the proofs use it.
ASSUME PowerAssumption ==
    \A n \in 0 .. XLEN - 1 : 2^n \in Nat \ {0} /\ 2^(n + 1) = 2 * 2^n

IsF(r) == r >= 32

Words == -(2^(XLEN - 1)) .. 2^(XLEN - 1) - 1
Low(n, v) == v % 2^n
Sext(n, v) == ((v + 2^(n - 1)) % 2^n) - 2^(n - 1)

\* The constants of fli: the exponent, less the bias, and two bits of the mantissa;
\* Special is the exponent of infinity and NaN.  Entry 0 is -1, entry 1 the smallest
\* positive normal number, and entry e the one at e - 1.
Special == 99
FliTable == << <<-4, 0>>, <<-3, 0>>, <<-2, 0>>, <<-2, 1>>, <<-2, 2>>, <<-2, 3>>, <<-1, 0>>,
               <<-1, 1>>, <<-1, 2>>, <<-1, 3>>, <<0, 0>>, <<0, 1>>, <<0, 2>>, <<0, 3>>, <<1, 0>>,
               <<1, 1>>, <<1, 2>>, <<2, 0>>, <<3, 0>>, <<4, 0>>, <<7, 0>>, <<Special, 0>>,
               <<Special, 2>> >>

\* An instruction: op on n bits of the registers a and b, or of a and the constant
\* k where b is Imm, into rd.  A transfer goes to to.  An access of 2^n bytes is
\* at k(a); a store's data is b.  A branch compares two registers.
Imm == -1
Branches == {"beq", "bne", "blt", "bge", "bltu", "bgeu"}
Insns ==
    {i \in [op : STRING, n : Nat, rd : Regs, a : Regs, b : Regs \cup {Imm}, k : Int, to : Int] :
        /\ i.b = Imm => i.k \in Words
        /\ i.op \in Branches \cup {"mul", "store", "sc", "amocas", "lxs"} => i.b # Imm
        /\ i.op \in Branches \cup {"store"} => i.rd = 0
        /\ i.op \in {"add", "divu", "remu", "fmv", "fli", "lr", "sc"} => i.n \in {WORD, XLEN}
        /\ IF i.op \in {"load", "store", "lxs"} THEN i.n \in 0 .. 3 ELSE i.n \in 1 .. XLEN
        /\ i.op \in {"shadd", "lxs"} => i.k \in 0 .. 3
        /\ i.op = "fli" => i.k \in 0 .. Len(FliTable) + 1}
Insn(op, n, rd, a, b, k, to) ==
    [op |-> op, n |-> n, rd |-> rd, a |-> a, b |-> b, k |-> k, to |-> to]
R(op, rd, a, b)  == Insn(op, XLEN, rd, a, b, 0, 0)
I(op, rd, a, k)  == Insn(op, XLEN, rd, a, Imm, k, 0)
Li(rd, k)        == I("add", rd, 0, k)
Shadd(k, rd, a, b) == Insn("shadd", XLEN, rd, a, b, k, 0)
Ext(op, n, rd, a) == Insn(op, n, rd, a, 0, 0, 0)
Br(op, a, b, to) == Insn(op, XLEN, 0, a, b, 0, to)
J(rd, to)        == Insn("jal", XLEN, rd, 0, 0, 0, to)
Load(n, rd, k, a)  == Insn("load", n, rd, a, 0, k, 0)
Store(n, b, k, a)  == Insn("store", n, 0, a, b, k, 0)
Auipc(rd, k)       == Insn("auipc", XLEN, rd, 0, 0, k, 0)
Jalr(rd, a, k)     == Insn("jalr", XLEN, rd, a, 0, k, 0)
Ecall            == Insn("ecall", XLEN, 0, 0, 0, 0, 0)
Other            == Insn("other", XLEN, 0, 0, 0, 0, 0)

Transfers == Branches \cup {"jal", "jalr"}
Accesses == {"load", "store"}
Atomics == {"lr", "sc", "amocas"}

Bit(v, i) == (v \div 2^i) % 2
BitAnd(u, v) ==
    LET from[i \in 0 .. XLEN - 1] ==
            Bit(u, i) * Bit(v, i) * 2^i + (IF i = XLEN - 1 THEN 0 ELSE from[i + 1])
    IN  Sext(XLEN, from[0])
Not(v) == -1 - v
BitXor(u, v) == Sext(XLEN, u + v - 2 * BitAnd(u, v))
BitOr(u, v) == Sext(XLEN, u + v - BitAnd(u, v))
Less(u, v) == IF u < v THEN 1 ELSE 0
Unsigned(v) == Low(XLEN, v)

\* A narrow floating-point value in a wide register.
Boxed(v) == Low(WORD, v) - 2^WORD

One == CHOOSE j \in DOMAIN FliTable : FliTable[j] = <<0, 0>>

\* Bits of the mantissa and of the exponent, and the bias, of a format of n bits.
MantBits(n) == IF n = WORD THEN WORD - 5 ELSE XLEN - 6
ExpBits(n) == IF n = WORD THEN 4 ELSE 5
Bias(n) == 2^(ExpBits(n) - 1) - 1
Pattern(n, entry) ==
    LET at(j) == LET x == FliTable[j][1]
                     field == IF x = Special THEN 2^ExpBits(n) - 1 ELSE x + Bias(n)
                 IN  field * 2^MantBits(n) + FliTable[j][2] * 2^(MantBits(n) - 2)
    IN  CASE entry = 0 -> 2^(n - 1) + at(One)
          [] entry = 1 -> 2^MantBits(n)
          [] OTHER     -> at(entry - 1)

Value(op, n, k, u, v) ==
    CASE op = "add"   -> Sext(n, u + v)
      [] op = "sub"   -> Sext(n, u - v)
      [] op = "mul"   -> Sext(n, u * v)
      [] op = "and"   -> BitAnd(u, v)
      [] op = "or"    -> BitOr(u, v)
      [] op = "xor"   -> BitXor(u, v)
      [] op = "andn"  -> BitAnd(u, Not(v))
      [] op = "orn"   -> BitOr(u, Not(v))
      [] op = "xnor"  -> BitXor(u, Not(v))
      [] op = "slt"   -> Less(u, v)
      [] op = "sltu"  -> Less(Unsigned(u), Unsigned(v))
      [] op = "sll"   -> Sext(n, u * 2^(v % n))
      [] op = "srl"   -> Sext(n, Low(n, u) \div 2^(v % n))
      [] op = "sra"   -> Sext(n, u) \div 2^(v % n)
      [] op = "divu"  -> IF Low(n, v) = 0 THEN -1 ELSE Sext(n, Low(n, u) \div Low(n, v))
      [] op = "remu"  -> IF Low(n, v) = 0 THEN Sext(n, u) ELSE Sext(n, Low(n, u) % Low(n, v))
      [] op = "min"   -> IF u < v THEN u ELSE v
      [] op = "max"   -> IF u < v THEN v ELSE u
      [] op = "minu"  -> IF Unsigned(u) < Unsigned(v) THEN u ELSE v
      [] op = "maxu"  -> IF Unsigned(u) < Unsigned(v) THEN v ELSE u
      [] op = "shadd" -> Sext(XLEN, u * 2^k + v)
      [] op = "sext"  -> Sext(n, u)
      [] op = "zext"  -> Low(n, u)
      [] op = "fmv"   -> IF n = WORD THEN Boxed(u) ELSE u
      [] op = "fli"   -> IF n = WORD THEN Boxed(Pattern(n, k)) ELSE Sext(n, Pattern(n, k))
      [] OTHER        -> 0

Taken(op, u, v) ==
    CASE op = "beq"  -> u = v
      [] op = "bne"  -> u # v
      [] op = "blt"  -> u < v
      [] op = "bge"  -> u >= v
      [] op = "bltu" -> Unsigned(u) < Unsigned(v)
      [] op = "bgeu" -> Unsigned(u) >= Unsigned(v)

-------------------------------------------------------------------------------
\* A machine is [x, m, pc, res]; res holds the cell that is reserved.  While it runs
\* the instruction at p its pc is p + 1.
Operand(i, h) == IF i.b = Imm THEN i.k ELSE h.x[i.b]
SetX(h, r, v) == IF r = 0 THEN h ELSE [h EXCEPT !.x[r] = v]
Cell(v) == Low(ADDR, v)
Memory == [0 .. 2^ADDR - 1 -> Words]

\* What a load makes of what is in a cell differs by width and register file.
Loaded(i, v) == IF ~IsF(i.rd) THEN Sext(XLEN, v + 2 * i.n)
                ELSE IF i.n = 2 THEN Boxed(v) ELSE v

Index(i, h) == (IF i.to = 1 THEN Low(WORD, h.x[i.b]) ELSE h.x[i.b]) * 2^i.k

ExecAtomic(h, i) ==
    LET c == Cell(h.x[i.a])
        put == [h EXCEPT !.m[c] = Sext(i.n, h.x[i.b]), !.res = {}]
    IN  CASE i.op = "lr" -> [SetX(h, i.rd, Sext(i.n, h.m[c])) EXCEPT !.res = {c}]
          [] i.op = "sc" -> IF c \in h.res THEN SetX(put, i.rd, 0)
                                           ELSE SetX([h EXCEPT !.res = {}], i.rd, 1)
          [] i.op = "amocas" ->
                SetX(IF Low(i.n, h.m[c]) = Low(i.n, h.x[i.rd]) THEN put ELSE h,
                     i.rd, Sext(i.n, h.m[c]))

Exec(h, i) ==
    CASE i.op \in Branches ->
            IF Taken(i.op, h.x[i.a], Operand(i, h)) THEN [h EXCEPT !.pc = i.to] ELSE h
      [] i.op = "jal"   -> [SetX(h, i.rd, h.pc) EXCEPT !.pc = i.to]
      [] i.op = "jalr"  -> [SetX(h, i.rd, h.pc) EXCEPT !.pc = h.x[i.a] + i.k]
      [] i.op = "auipc" -> SetX(h, i.rd, h.pc - 1 + i.k)
      [] i.op = "load"  -> SetX(h, i.rd, Loaded(i, h.m[Cell(h.x[i.a] + i.k)]))
      [] i.op = "store" -> [h EXCEPT !.m[Cell(h.x[i.a] + i.k)] = h.x[i.b]]
      [] i.op = "lxs"   -> SetX(h, i.rd, Loaded(i, h.m[Cell(h.x[i.a] + Index(i, h))]))
      [] i.op = "ecall" -> [h EXCEPT !.m[0] = h.x[Arg]]
      [] i.op = "other" -> h
      [] i.op \in Atomics -> ExecAtomic(h, i)
      [] OTHER -> SetX(h, i.rd, Value(i.op, i.n, i.k, h.x[i.a], Operand(i, h)))

ExecAll(h, is) ==
    LET after[n \in 0 .. Len(is)] == IF n = 0 THEN h ELSE Exec(after[n - 1], is[n])
    IN  after[Len(is)]

\* prog gives the instructions at each address.  Leaving runs it as long as it is
\* in S, at most fuel addresses.
Leaving(prog, S, h, fuel) ==
    LET after[n \in 0 .. fuel] ==
            IF n = 0 THEN h
            ELSE LET g == after[n - 1]
                 IN  IF g.pc \in S THEN ExecAll([g EXCEPT !.pc = g.pc + 1], prog[g.pc])
                                   ELSE g
    IN  after[fuel]
===============================================================================
