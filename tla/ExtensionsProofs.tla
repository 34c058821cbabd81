--------------------------- MODULE ExtensionsProofs ---------------------------
(***************************************************************************)
(* What check_redundant_extension carries is true of the machine, so that  *)
(* an extension it reports changes nothing.                                *)
(***************************************************************************)
EXTENDS Extensions, TLAPS

\* v is in the range of each guarantee of g.
Fits(v, g) == \A q \in g : Lo(q) <= v /\ v <= Hi(q)

\* Unless another path may have come in, each register fits what is known of it.
GuaranteesHold ==
    ~joined => \A r \in Regs \ misled : Fits(x[r], guarantees[r])

IInv == TypeOK /\ GuaranteesHold

-------------------------------------------------------------------------------
\* The constants, once.
LEMMA Widths ==
    /\ Byte \in Int /\ Imm \in Int /\ Half \in Int /\ Word \in Int /\ Double \in Int
    /\ 1 <= Byte /\ 2 * Byte <= Imm /\ Imm <= Half
    /\ 2 * Half <= Word /\ 2 * Word <= Double
BY ExtensionsAssumption

LEMMA CodeLemma ==
    ASSUME NEW i \in Code
    PROVE  /\ i \in Insn /\ i.op \in Ops /\ i.rd \in Regs /\ i.rs1 \in Regs
           /\ i.imm \in Int /\ i.reloc \in BOOLEAN /\ i.imm \in Immediates(i.op)
BY ExtensionsAssumption DEF Insn

\* Division leaves a remainder below the divisor, and small numbers alone.
LEMMA Remainder ==
    ASSUME NEW n \in Int, n >= 1, NEW v \in Int
    PROVE  /\ v % n \in 0 .. n - 1
           /\ v \in 0 .. n - 1 => v % n = v
OBVIOUS

\* The range an extension maps into is the one it asks for.
LEMMA ExtendLemma ==
    ASSUME NEW op \in Extends, NEW v \in Int
    PROVE  LET q == rv_decode_extension(op)
           IN  /\ q \in Guarantees
               /\ Lo(q) \in Int /\ Hi(q) \in Int
               /\ Extended(op, v) \in Lo(q) .. Hi(q)
               /\ v \in Lo(q) .. Hi(q) => Extended(op, v) = v
<1> DEFINE q == rv_decode_extension(op)
<1>1. /\ q \in Guarantees /\ Lo(q) \in Int /\ Hi(q) \in Int /\ Size(op) \in Int
      /\ Size(op) >= 1 /\ Hi(q) = Lo(q) + Size(op) - 1
  BY Widths DEF Extends, rv_decode_extension, Guarantees, Lo, Hi, Size
<1> DEFINE u == v - Lo(q)
<1>2. u \in Int
  BY <1>1
<1>3. /\ u % Size(op) \in 0 .. Size(op) - 1
      /\ u \in 0 .. Size(op) - 1 => u % Size(op) = u
  BY <1>1, <1>2, Remainder
<1>4. Extended(op, v) = (u % Size(op)) + Lo(q)
  BY DEF Extended
<1> QED
  BY <1>1, <1>2, <1>3, <1>4

\* A value in a range has the guarantees of the range.
LEMMA RangeLemma ==
    ASSUME NEW lo \in Int, NEW hi \in Int, NEW v \in lo .. hi
    PROVE  Fits(v, guarantees_for_range(lo, hi))
<1>1. \A q \in Guarantees : Lo(q) \in Int /\ Hi(q) \in Int
  BY Widths DEF Guarantees, Lo, Hi
<1> QED
  BY <1>1 DEF Fits, guarantees_for_range

\* What an instruction leaves is a register value, and of the kind
\* rv_result_guarantees says, unless the table misjudges it.
LEMMA ResultLemma ==
    ASSUME NEW i \in Code, Writes(i), NEW v \in Results(i), x[i.rs1] \in Value
    PROVE  /\ v \in Value
           /\ ~Misjudged(i) => Fits(v, rv_result_guarantees(i))
<1> USE Widths, CodeLemma
<1>1. CASE i.op \in {"lb", "lh", "lw", "lbu", "lhu", "lwu", "addiw"}
  <2>1. /\ i.op = "lb" => v \in -Byte .. Byte - 1
        /\ i.op = "lbu" => v \in 0 .. 2 * Byte - 1
        /\ i.op = "lh" => v \in -Half .. Half - 1
        /\ i.op = "lhu" => v \in 0 .. 2 * Half - 1
        /\ i.op \in {"lw", "addiw"} => v \in -Word .. Word - 1
        /\ i.op = "lwu" => v \in 0 .. 2 * Word - 1
    BY <1>1 DEF Results, Extends
  <2>2. /\ i.op = "lb" => rv_result_guarantees(i) = G_LB
        /\ i.op = "lbu" => rv_result_guarantees(i) = G_LBU
        /\ i.op = "lh" => rv_result_guarantees(i) = G_LH
        /\ i.op = "lhu" => rv_result_guarantees(i) = G_LHU
        /\ i.op \in {"lw", "addiw"} => rv_result_guarantees(i) = G_LW
        /\ i.op = "lwu" => rv_result_guarantees(i) = G_LWU
    BY <1>1 DEF rv_result_guarantees
  <2>3. v \in Value /\ v \in Int
    BY <1>1, <2>1 DEF Value
  <2> QED
    BY <1>1, <2>1, <2>2, <2>3 DEF Fits, Lo, Hi, G_LB, G_LH, G_LW, G_LBU, G_LHU, G_LWU
<1>2. CASE i.op \in {"li", "lui"}
  <2>0. v \in Imms(i)
    BY <1>2 DEF Results, Extends
  <2>1. v \in Immediates(i.op)
    BY <2>0 DEF Imms
  <2>2. v \in Value
    BY <1>2, <2>1 DEF Immediates, Value
  <2>3. ASSUME ~Misjudged(i) PROVE v = i.imm
    BY <1>2, <2>0, <2>3 DEF Misjudged, Imms
  <2>4. rv_result_guarantees(i) = guarantees_for_range(i.imm, i.imm)
    BY <1>2 DEF rv_result_guarantees
  <2> QED
    BY <2>2, <2>3, <2>4, RangeLemma
<1>3. CASE i.op = "andi"
  <2>0. v \in Masked(i)
    BY <1>3 DEF Results, Extends
  <2>1. v \in Value /\ \E m \in Imms(i) : m >= 0 => v \in 0 .. m
    BY <2>0 DEF Masked
  <2>2. ASSUME ~Misjudged(i), i.imm >= 0 PROVE v \in 0 .. i.imm
    BY <1>3, <2>1, <2>2 DEF Misjudged, Imms
  <2>3. CASE i.imm >= 0
    <3>1. rv_result_guarantees(i) = guarantees_for_range(0, i.imm)
      BY <1>3, <2>3 DEF rv_result_guarantees
    <3> QED
      BY <2>1, <2>2, <2>3, <3>1, RangeLemma
  <2>4. CASE ~(i.imm >= 0)
    BY <1>3, <2>1, <2>4 DEF rv_result_guarantees, Fits
  <2> QED
    BY <2>3, <2>4
<1>4. CASE i.op \in Extends
  <2> DEFINE q == rv_decode_extension(i.op)
  <2>1. v = Extended(i.op, x[i.rs1])
    BY <1>4 DEF Results, Extends
  <2>2. x[i.rs1] \in Int
    BY DEF Value
  <2>3. /\ q \in Guarantees /\ Lo(q) \in Int /\ Hi(q) \in Int
        /\ v \in Lo(q) .. Hi(q)
    BY <1>4, <2>1, <2>2, ExtendLemma
  <2>4. CASE i.op = "zext.b"
    <3>1. v \in 0 .. 2 * Byte - 1
      BY <2>3, <2>4 DEF rv_decode_extension, Lo, Hi
    <3>2. rv_result_guarantees(i) = guarantees_for_range(0, 2 * Byte - 1)
      BY <2>4 DEF rv_result_guarantees
    <3> QED
      BY <3>1, <3>2, RangeLemma DEF Value
  <2>5. CASE i.op # "zext.b"
    BY <1>4, <2>3, <2>5 DEF Extends, rv_decode_extension, Lo, Hi, Value, Fits,
        rv_result_guarantees, G_LB, G_LH, G_LW, G_LBU, G_LHU, G_LWU
  <2> QED
    BY <2>4, <2>5
<1>5. CASE i.op \in {"sll.uw", "other"}
  BY <1>5 DEF Results, Extends, Misjudged, rv_result_guarantees, Fits
<1> QED
  BY <1>1, <1>2, <1>3, <1>4, <1>5 DEF Writes, Ops, Extends

\* The guarantees are guarantees.
LEMMA GuaranteeType == \A i \in Code : rv_result_guarantees(i) \in SUBSET Guarantees
BY DEF rv_result_guarantees, guarantees_for_range, Guarantees, G_LB, G_LH, G_LW,
       G_LBU, G_LHU, G_LWU

-------------------------------------------------------------------------------
LEMMA InvInit == Init => IInv
BY ExtensionsAssumption DEF Init, IInv, TypeOK, GuaranteesHold, Fits, NoGuarantees

\* Setting a register changes that one.
LEMMA SetLemma ==
    ASSUME TypeOK, NEW r \in Regs, NEW v \in Value, Set(r, v)
    PROVE  /\ x' \in [Regs -> Value] /\ x'[0] = 0
           /\ \A s \in Regs \ {r} : x'[s] = x[s]
           /\ r # 0 => x'[r] = v
BY ExtensionsAssumption DEF TypeOK, Set

LEMMA DisturbLemma ==
    ASSUME TypeOK, Disturb
    PROVE  x' \in [Regs -> Value] /\ x'[0] = 0
BY SetLemma DEF Disturb, TypeOK

\* What is known when an instruction is judged is true, of the trusted.
LEMMA KnownLemma ==
    ASSUME IInv
    PROVE  /\ Known \in [Regs -> SUBSET Guarantees] /\ Known[0] = {}
           /\ Trusted \subseteq Regs
           /\ \A r \in Regs \ Trusted : Fits(x[r], Known[r])
<1>1. CASE joined
  BY <1>1, ExtensionsAssumption DEF IInv, TypeOK, Known, Trusted, NoGuarantees, Fits
<1>2. CASE ~joined
  BY <1>2 DEF IInv, TypeOK, GuaranteesHold, Known, Trusted
<1> QED
  BY <1>1, <1>2

LEMMA StepInv ==
    ASSUME IInv, NEW i \in Code, Step(i)
    PROVE  IInv'
<1>0. i \in Insn /\ i.op \in Ops /\ i.rd \in Regs /\ i.rs1 \in Regs
  BY CodeLemma
<1>1. /\ Known \in [Regs -> SUBSET Guarantees] /\ Known[0] = {}
      /\ Trusted \subseteq Regs
      /\ \A r \in Regs \ Trusted : Fits(x[r], Known[r])
  BY KnownLemma
<1>2. TypeOK /\ 0 \in Regs /\ joined' \in BOOLEAN
  BY ExtensionsAssumption DEF IInv, Step
<1>3. CASE Writes(i)
  <2>1. PICK v \in Results(i) : Set(i.rd, v)
    BY <1>3 DEF Step, Run
  <2>2. v \in Value /\ (~Misjudged(i) => Fits(v, rv_result_guarantees(i)))
    BY <1>0, <1>2, <1>3, ResultLemma DEF TypeOK
  <2>3. /\ x' \in [Regs -> Value] /\ x'[0] = 0
        /\ \A s \in Regs \ {i.rd} : x'[s] = x[s]
        /\ i.rd # 0 => x'[i.rd] = v
    BY <1>0, <1>2, <2>1, <2>2, SetLemma
  <2>4. /\ guarantees' = [Known EXCEPT ![i.rd] = Left(i)]
        /\ misled' = IF Misjudged(i) THEN Trusted \cup {i.rd} ELSE Trusted \ {i.rd}
    BY <1>3 DEF Step, Writes
  <2>5. Left(i) \in SUBSET Guarantees /\ (i.rd = 0 => Left(i) = {})
    BY GuaranteeType DEF Left
  <2>6. TypeOK'
    BY <1>0, <1>1, <1>2, <2>3, <2>4, <2>5 DEF TypeOK
  <2>7. ASSUME NEW r \in Regs, r \notin misled'
        PROVE  Fits(x'[r], guarantees'[r])
    <3>1. CASE r # i.rd
      BY <1>0, <1>1, <2>3, <2>4, <2>7, <3>1
    <3>2. CASE r = i.rd
      <4>1. ~Misjudged(i) /\ guarantees'[r] = Left(i)
        BY <1>0, <1>1, <2>4, <2>7, <3>2
      <4> QED
        BY <2>2, <2>3, <3>2, <4>1 DEF Left, Fits
    <3> QED
      BY <3>1, <3>2
  <2> QED
    BY <2>6, <2>7 DEF IInv, GuaranteesHold
<1>4. CASE i.op = "plain"
  <2>1. x' = x /\ guarantees' = Known /\ misled' = Trusted
    BY <1>4 DEF Step, Run, Writes
  <2> QED
    BY <1>1, <1>2, <2>1 DEF IInv, TypeOK, GuaranteesHold
<1>5. CASE i.op = "end"
  <2>1. Disturb /\ joined' = TRUE /\ guarantees' = NoGuarantees /\ misled' = {}
    BY <1>5 DEF Step, Run, Writes
  <2> QED
    BY <1>2, <2>1, DisturbLemma DEF IInv, TypeOK, GuaranteesHold, NoGuarantees
<1>6. CASE i.op = "env"
  <2>1. Disturb /\ guarantees' = Known /\ misled' = Regs
    BY <1>6 DEF Step, Run, Writes
  <2> QED
    BY <1>1, <1>2, <2>1, DisturbLemma DEF IInv, TypeOK, GuaranteesHold
<1> QED
  BY <1>3, <1>4, <1>5, <1>6 DEF Writes, Step

LEMMA InvStep == IInv /\ [Next]_vars => IInv'
<1> SUFFICES ASSUME IInv, [Next]_vars PROVE IInv'
  OBVIOUS
<1>1. ASSUME NEW i \in Code, Step(i) PROVE IInv'
  BY <1>1, StepInv
<1>2. ASSUME NEW i \in Code, Skip(i) PROVE IInv'
  <2>1. Disturb /\ joined' \in BOOLEAN /\ misled' = Regs /\ guarantees' = guarantees
    BY <1>2 DEF Skip, Run, Writes
  <2> QED
    BY <2>1, DisturbLemma DEF IInv, TypeOK, GuaranteesHold
<1>3. CASE Arrive
  <2>1. Disturb /\ joined /\ UNCHANGED <<guarantees, joined, misled>>
    BY <1>3 DEF Arrive
  <2> QED
    BY <2>1, DisturbLemma DEF IInv, TypeOK, GuaranteesHold
<1>4. CASE UNCHANGED vars
  BY <1>4 DEF vars, IInv, TypeOK, GuaranteesHold
<1> QED
  BY <1>1, <1>2, <1>3, <1>4 DEF Next

LEMMA InvAlways == Spec => []IInv
BY InvInit, InvStep, PTL DEF Spec

\* The registers and what is known of them stay well formed, whatever the widths.
THEOREM TypeCorrect == Spec => []TypeOK
BY InvAlways, PTL DEF IInv

\* A reported extension leaves its register as it is: what is carried forward is
\* true on every path that reaches it (check_redundant_extension).
THEOREM ExtensionSound == Spec => []ExtensionHolds
<1>1. IInv => ExtensionHolds
  <2> SUFFICES ASSUME IInv, NEW i \in Code, Fires(i), i.rs1 \notin Trusted
               PROVE  Extended(i.op, x[i.rs1]) = x[i.rs1]
    BY DEF ExtensionHolds
  <2> DEFINE q == rv_decode_extension(i.op)
  <2>1. i.op \in Extends /\ q \in Known[i.rs1] /\ i.rs1 \in Regs
    BY CodeLemma DEF Fires
  <2>2. Lo(q) <= x[i.rs1] /\ x[i.rs1] <= Hi(q)
    BY <2>1, KnownLemma DEF Fits
  <2>3. x[i.rs1] \in Int
    BY <2>1, Widths DEF IInv, TypeOK, Value
  <2> QED
    BY <2>1, <2>2, <2>3, ExtendLemma
<1> QED
  BY <1>1, InvAlways, PTL
===============================================================================
