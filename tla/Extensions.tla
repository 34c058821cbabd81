------------------------------ MODULE Extensions ------------------------------
(***************************************************************************)
(* check_redundant_extension.  The check carries, for each register, what  *)
(* the last instruction that wrote it guarantees about its high bits       *)
(* (state->guarantees), and reports a sign or zero extension of a register *)
(* that has that form already.  The machine runs beside the scan.          *)
(*                                                                         *)
(* A register holds a signed doubleword.  Byte, Half, Word and Double are  *)
(* half the number of values of each width (2^7, 2^15, 2^31 and 2^63), Imm *)
(* that of an immediate (2^11): only their order matters.                  *)
(***************************************************************************)
EXTENDS Integers

CONSTANTS Byte, Imm, Half, Word, Double,
          Regs,     \* registers, 0 among them
          Code      \* the instructions of the section

Value == -Double .. Double - 1

\* Loads, materialised constants, 32-bit arithmetic, the extensions, the forms
\* of the 32-bit opcodes with 64-bit results (slli.uw, sh1add.uw and the like),
\* and what else can stand between them.  env is ecall or ebreak, bad a halfword
\* capstone cannot decode, end a call or an unconditional transfer.
Ops == {"lb", "lh", "lw", "lbu", "lhu", "lwu", "li", "lui", "andi", "addiw",
        "sext.b", "sext.h", "sext.w", "zext.b", "c.zext.b", "zext.h",
        "zext.w", "sll.uw", "other", "plain", "env", "bad", "end"}
Insn == [op : Ops, rd : Regs, rs1 : Regs, imm : Int, reloc : BOOLEAN]

\* The values an immediate can have, whatever the linker makes of it.
Immediates(op) == CASE op = "lui" -> -Word .. Word - 1
                    [] OTHER      -> -Imm .. Imm - 1

ASSUME ExtensionsAssumption ==
    /\ Byte \in Nat \ {0} /\ Imm \in Nat /\ Half \in Nat /\ Word \in Nat /\ Double \in Nat
    /\ 2 * Byte <= Imm /\ Imm <= Half /\ 2 * Half <= Word /\ 2 * Word <= Double
    /\ 0 \in Regs
    /\ Code \subseteq Insn
    /\ \A i \in Code : i.imm \in Immediates(i.op)

VARIABLES
    x,          \* the machine's registers
    guarantees, \* what the check knows of each
    joined,     \* whether another path can reach the instruction to come
    misled      \* history: registers changed by what the table cannot see

vars == <<x, guarantees, joined, misled>>

-------------------------------------------------------------------------------
\* A guarantee is a range.
Guarantees == {"S8", "S16", "S32", "Z8", "Z16", "Z32"}
Lo(q) == CASE q = "S8" -> -Byte [] q = "S16" -> -Half [] q = "S32" -> -Word
           [] OTHER -> 0
Hi(q) == CASE q = "S8" -> Byte - 1 [] q = "Z8" -> 2 * Byte - 1
           [] q = "S16" -> Half - 1 [] q = "Z16" -> 2 * Half - 1
           [] q = "S32" -> Word - 1 [] q = "Z32" -> 2 * Word - 1

G_LB == {"S8", "S16", "S32"}
G_LH == {"S16", "S32"}
G_LW == {"S32"}
G_LBU == {"Z8", "Z16", "Z32", "S32"}
G_LHU == {"Z16", "Z32", "S32"}
G_LWU == {"Z32"}

guarantees_for_range(lo, hi) == {q \in Guarantees : lo >= Lo(q) /\ hi <= Hi(q)}

rv_result_guarantees(i) ==
    CASE i.op \in {"lb", "sext.b"}  -> G_LB
      [] i.op \in {"lh", "sext.h"}  -> G_LH
      [] i.op \in {"lw", "sext.w", "addiw", "sll.uw"} -> G_LW
      [] i.op \in {"lbu", "c.zext.b"} -> G_LBU
      [] i.op \in {"lhu", "zext.h"} -> G_LHU
      [] i.op \in {"lwu", "zext.w"} -> G_LWU
      [] i.op \in {"li", "lui"}     -> guarantees_for_range(i.imm, i.imm)
      [] i.op = "andi" /\ i.imm >= 0 -> guarantees_for_range(0, i.imm)
      [] i.op = "zext.b"            -> guarantees_for_range(0, 2 * Byte - 1)
      [] OTHER                      -> {}

\* What each extension asks for, and makes.
Extends == {"sext.b", "sext.h", "sext.w", "zext.b", "c.zext.b", "zext.h", "zext.w"}
rv_decode_extension(op) ==
    CASE op = "sext.b" -> "S8"  [] op \in {"zext.b", "c.zext.b"} -> "Z8"
      [] op = "sext.h" -> "S16" [] op = "zext.h" -> "Z16"
      [] op = "sext.w" -> "S32" [] op = "zext.w" -> "Z32"
Size(op) == CASE op \in {"sext.b", "zext.b", "c.zext.b"} -> 2 * Byte
              [] op \in {"sext.h", "zext.h"} -> 2 * Half
              [] OTHER                       -> 2 * Word
Extended(op, v) == ((v - Lo(rv_decode_extension(op))) % Size(op))
                        + Lo(rv_decode_extension(op))

-------------------------------------------------------------------------------
\* The machine.  A relocated immediate is the linker's.
Imms(i) == IF i.reloc THEN Immediates(i.op) ELSE {i.imm}
Masked(i) == {v \in Value : \E m \in Imms(i) : m >= 0 => v \in 0 .. m}
Results(i) ==
    CASE i.op = "lb"  -> -Byte .. Byte - 1
      [] i.op = "lbu" -> 0 .. 2 * Byte - 1
      [] i.op = "lh"  -> -Half .. Half - 1
      [] i.op = "lhu" -> 0 .. 2 * Half - 1
      [] i.op \in {"lw", "addiw"} -> -Word .. Word - 1
      [] i.op = "lwu" -> 0 .. 2 * Word - 1
      [] i.op \in {"li", "lui"} -> Imms(i)
      [] i.op = "andi" -> Masked(i)
      [] i.op \in Extends -> {Extended(i.op, x[i.rs1])}
      [] OTHER -> Value

Writes(i) == i.op \notin {"plain", "env", "bad", "end"}
Set(r, v) == x' = IF r = 0 THEN x ELSE [x EXCEPT ![r] = v]
Disturb == UNCHANGED x \/ \E r \in Regs, v \in Value : Set(r, v)

Run(i) == IF Writes(i) THEN \E v \in Results(i) : Set(i.rd, v)
          ELSE IF i.op = "plain" THEN UNCHANGED x
          ELSE Disturb

-------------------------------------------------------------------------------
NoGuarantees == [r \in Regs |-> {}]

Init == /\ x \in {r \in [Regs -> Value] : r[0] = 0}
        /\ guarantees = NoGuarantees
        /\ joined = FALSE
        /\ misled = {}

\* What is known when the instruction is judged: nothing at a side entry.
\* Mutant: a side entry keeps the table.
KnownAnyway == guarantees
Known == IF joined THEN NoGuarantees ELSE guarantees

Fires(i) == /\ i.op \in Extends
            /\ i.rs1 # 0
            /\ rv_decode_extension(i.op) \in Known[i.rs1]
            /\ ~i.reloc

\* The guarantee the written register is left with.  Mutant: x0 gets one too.
LeftAnyway(i) == rv_result_guarantees(i)
Left(i) == IF i.rd = 0 THEN {} ELSE rv_result_guarantees(i)

\* Where the table is wrong about what i leaves: a 64-bit result taken for a
\* 32-bit one, a placeholder taken for the value.
Misjudged(i) == i.op = "sll.uw" \/ (i.reloc /\ i.op \in {"li", "lui", "andi"})
Trusted == IF joined THEN {} ELSE misled

\* The check on one instruction, and the machine running it.
Step(i) ==
    /\ i.op # "bad"
    /\ Run(i)
    /\ joined' \in (IF i.op = "end" THEN {TRUE} ELSE BOOLEAN)
    /\ guarantees' = IF i.op = "end" THEN NoGuarantees
                     ELSE IF Writes(i) THEN [Known EXCEPT ![i.rd] = Left(i)]
                     ELSE Known
    /\ misled' = CASE i.op = "end" -> {}
                   [] i.op = "env" -> Regs
                   [] OTHER -> IF ~Writes(i) THEN Trusted
                               ELSE IF Misjudged(i) THEN Trusted \cup {i.rd}
                               ELSE Trusted \ {i.rd}

\* riscvlint_scan steps over what does not decode, without the check.
Skip(i) == /\ i.op = "bad"
           /\ Run(i)
           /\ joined' \in BOOLEAN
           /\ misled' = Regs
           /\ UNCHANGED guarantees

\* Another path arrives, with a machine of its own.
Arrive == /\ joined
          /\ Disturb
          /\ UNCHANGED <<guarantees, joined, misled>>

Next == \/ \E i \in Code : Step(i) \/ Skip(i)
        \/ Arrive

Spec == Init /\ [][Next]_vars

-------------------------------------------------------------------------------
\* The state is well formed, and x0 is never guaranteed anything.
TypeOK == /\ x \in [Regs -> Value] /\ x[0] = 0
          /\ guarantees \in [Regs -> SUBSET Guarantees] /\ guarantees[0] = {}
          /\ joined \in BOOLEAN
          /\ misled \subseteq Regs

\* An extension that is reported leaves its register as it is ("deleting it
\* leaves that register bit-identical", riscvlint.h), but for registers that
\* slli.uw or its like, a relocated immediate, an environment call or a halfword
\* nothing decodes has written since.
ExtensionHolds ==
    \A i \in Code : Fires(i) /\ i.rs1 \notin Trusted
                        => Extended(i.op, x[i.rs1]) = x[i.rs1]

\* The same of every extension reported.
EveryExtensionHolds ==
    \A i \in Code : Fires(i) => Extended(i.op, x[i.rs1]) = x[i.rs1]
===============================================================================
