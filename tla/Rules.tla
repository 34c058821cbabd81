--------------------------------- MODULE Rules --------------------------------
(***************************************************************************)
(* What the checks that judge a few instructions share: the section they   *)
(* read, the decoders they ask, and what a finding says.  A finding is a   *)
(* patch: what stands at each address it is about once it is rewritten.    *)
(*                                                                         *)
(* What a rewrite costs and which extensions the target has only keep      *)
(* findings back, and are left out.                                        *)
(***************************************************************************)
EXTENDS Hart, FiniteSets

Relative == Branches \cup {"jal"}

\* What is known of a section beside its code: where other code branches into it, what
\* is relocated, how many jumps the list of them has room for, what riscvlint_liveness
\* answers DEAD for at each address, and the cells of read-only data.
Note(entries, relocs, room, dead, pool) ==
    [entries |-> entries, relocs |-> relocs, room |-> room, dead |-> dead, pool |-> pool]

-------------------------------------------------------------------------------
\* What the decoders recognise.
Immediate(i, op) == i.op = op /\ i.b = Imm /\ i.n = XLEN
ImmRange == -(2^(IMM - 1)) .. 2^(IMM - 1) - 1
Pure(i) == i.op \notin Transfers \cup Accesses \cup Atomics \cup {"lxs", "other", "ecall"}
rv_decode_slli(i) == Immediate(i, "sll")
rv_decode_srli(i) == Immediate(i, "srl")
rv_decode_addi(i) == Immediate(i, "add")
rv_decode_not(i)  == Immediate(i, "xor") /\ i.k = -1 /\ i.rd # 0
rv_decode_add(i)  == i.op = "add" /\ i.b # Imm /\ i.n = XLEN
rv_decode_base_add(i) == rv_decode_addi(i)
rv_decode_mv(i)   == rv_decode_addi(i) /\ i.k = 0 /\ i.rd # 0 /\ i.a # 0
decode_const(i)   == rv_decode_addi(i) /\ i.a = 0 /\ i.rd # 0
decode_logic(i)   == i.op \in {"and", "or", "xor"} /\ i.b # Imm /\ i.rd # 0
decode_mul(i)     == i.op = "mul" /\ i.n = XLEN /\ i.rd # 0
decode_udiv(i)    == i.op \in {"divu", "remu"} /\ i.rd # 0
rv_decode_mem(i)  == i.op \in Accesses
rv_mem_is_store(i) == i.op = "store"
rv_decode_cond_branch(i) == i.op \in Branches
rv_decode_jump(i) == i.op = "jal"
rv_decode_auipc(i) == i.op = "auipc"
rv_decode_jalr(i) == i.op = "jalr"

\* rv_pure_def: writes an integer register and does nothing else.
rv_pure_def(i) == Pure(i) /\ i.rd # 0 /\ ~IsF(i.rd)

\* rv_decode_condition: what the branch on the result would compare.
rv_decode_condition(i) ==
    /\ i.rd # 0 /\ i.n = XLEN
    /\ \/ Immediate(i, "sltu") /\ i.k = 1
       \/ i.op \in {"sub", "xor", "slt", "sltu"} /\ i.b # Imm
Kind(i) == IF i.b = Imm THEN "seqz"
           ELSE IF i.op = "sltu" /\ i.a = 0 THEN "snez"
           ELSE IF i.op \in {"slt", "sltu"} THEN i.op ELSE "eq"

rv_ends_region(i) == i.op \in {"jal", "jalr"}
rv_stops_walk(i) == i.op \in Transfers \cup {"ecall"}
rv_may_name(i, r) == r \in {i.rd, i.a, i.b}

\* Never goes on to the next instruction.
rv_no_fall_through(i) == i.op \in {"jal", "jalr"} /\ i.rd = 0

-------------------------------------------------------------------------------
\* auipc and the jalr behind it: where the pair goes.
IsPair(code, a) ==
    /\ a + 1 \in DOMAIN code
    /\ rv_decode_auipc(code[a]) /\ code[a].rd # 0
    /\ rv_decode_jalr(code[a + 1]) /\ code[a + 1].a = code[a].rd
PairGoes(code, a) == a + code[a].k + code[a + 1].k

\* The transfers whose destination is known: [site, target, jump], jump where nothing
\* is linked.
Relatives(code) ==
    {[site |-> p, target |-> code[p].to, jump |-> rv_decode_jump(code[p]) /\ code[p].rd = 0] :
        p \in {q \in DOMAIN code : code[q].op \in Relative}}
Veneers(code) ==
    {[site |-> p, target |-> PairGoes(code, p), jump |-> code[p + 1].rd = 0] :
        p \in {q \in DOMAIN code : IsPair(code, q)}}

\* The section as riscvlint_state_set_section maps it.  A list of jumps that does not
\* fit is dropped whole.  Mutant: the part that fits is kept.
Jumps(code) == {t \in Relatives(code) \cup Veneers(code) : t.jump /\ t.target \in DOMAIN code}
ListedInPart(code, room) ==
    {t \in Jumps(code) : Cardinality({u \in Jumps(code) : u.site < t.site}) < room}
Listed(code, room) == IF Cardinality(Jumps(code)) > room THEN {} ELSE Jumps(code)
SetSection(code, note) ==
    [code    |-> code,
     note    |-> note,
     targets |-> note.entries \cup ({t.target : t \in Relatives(code)} \cap DOMAIN code),
     nonjump |-> note.entries \cup
                    ({t.target : t \in {u \in Relatives(code) \cup Veneers(code) : ~u.jump}}
                        \cap DOMAIN code),
     preds   |-> Listed(code, note.room)]

InSection(s, p) == p \in DOMAIN s.code
is_branch_target(s, p) == p \in s.targets
is_relocated(s, p) == p \in s.note.relocs
DeadAt(s, p, r) == InSection(s, p) /\ r \in s.note.dead[p]

\* The n instructions from a are one straight line that says what it means.  Mutant:
\* one that is relocated is one as well.
WindowRelocated(s, a, n) ==
    /\ InSection(s, a + n - 1)
    /\ \A p \in a + 1 .. a + n - 1 : ~is_branch_target(s, p)
Window(s, a, n) ==
    /\ InSection(s, a + n - 1)
    /\ \A p \in a + 1 .. a + n - 1 : ~is_branch_target(s, p)
    /\ \A p \in a .. a + n - 1 : ~is_relocated(s, p)

\* sp, gp and tp hold what the ABI says they hold.
Fixed == {2, 3, 4}

\* The operand of i that is not r, when r is exactly one of them.
Once(i, r) == (i.a = r) # (i.b = r)
Beside(i, r) == IF i.a = r THEN i.b ELSE i.a

-------------------------------------------------------------------------------
Finding(rule, patch) == [rule |-> rule, patch |-> patch]

\* n instructions from a become those of is, at the last of them.
Fold(rule, a, n, is) ==
    {Finding(rule, [p \in a .. a + n - 1 |-> IF p = a + n - 1 THEN is ELSE <<>>])}
When(condition, findings) == IF condition THEN findings ELSE {}

Plain(s) == [p \in DOMAIN s.code |-> <<s.code[p]>>]
Patched(s, f) == [p \in DOMAIN s.code |-> IF p \in DOMAIN f.patch THEN f.patch[p]
                                          ELSE <<s.code[p]>>]

\* Where control can come into S: over its edge, from a transfer outside, from other code.
ComesIn(s, S) ==
    {p \in S : p - 1 \notin S /\ (InSection(s, p - 1) => ~rv_no_fall_through(s.code[p - 1]))}
        \cup (S \cap s.note.entries)
        \cup (S \cap {t.target : t \in {u \in Relatives(s.code) : u.site \notin S}})

\* The machine whose registers are x, at p; read-only data is what the file says.
Start(s, x, m, p) ==
    [x |-> x, m |-> [c \in DOMAIN m |-> IF c \in DOMAIN s.note.pool THEN s.note.pool[c] ELSE m[c]],
     pc |-> p, res |-> {}]

\* What a finding claims: whoever comes in leaves for the same place with the same
\* memory and the same registers, apart from those nothing will read.  What stands at
\* a relocated address is not known, and nothing is claimed of it.
Agree(s, g, h) ==
    /\ g.pc = h.pc /\ g.m = h.m
    /\ \A r \in Regs : g.x[r] = h.x[r] \/ DeadAt(s, g.pc, r)
Holds(s, f, x, m, fuel) ==
    /\ \A p \in DOMAIN f.patch :
            is_relocated(s, p) => \E n \in DOMAIN f.patch[p] : f.patch[p][n] = s.code[p]
    /\ \A p \in ComesIn(s, DOMAIN f.patch) :
        LET g == Leaving(Plain(s), DOMAIN f.patch, Start(s, x, m, p), fuel)
            h == Leaving(Patched(s, f), DOMAIN f.patch, Start(s, x, m, p), fuel)
        IN  \/ {g.pc, h.pc} \subseteq DOMAIN f.patch
            \/ Agree(s, g, h)
===============================================================================
