-------------------------------- MODULE Window --------------------------------
(***************************************************************************)
(* The windowed tables of a riscvlint_state, stepped beside the machine    *)
(* that runs the code.  riscvlint_state_observe records, instruction by    *)
(* instruction, which memory slots a register still mirrors (slots), which *)
(* constants and which computations are in which register (consts, comps). *)
(* Eight checks read the tables and claim that the instruction under the   *)
(* cursor, or an earlier store, could be another one or none.              *)
(*                                                                         *)
(* The machine is RV64 in miniature: a register is a number of two bits,   *)
(* memory four cells of one bit, an access of the narrow kinds (lw, lwu,   *)
(* sw, flw, fsw, for every kind narrower than a doubleword) one cell and   *)
(* of the wide kinds two.  Addresses wrap at four.                         *)
(*                                                                         *)
(* A check's pricing (encoding sizes, extensions needed) only ever         *)
(* suppresses a finding and is left out, but for the c.li range, which     *)
(* also keeps a placeholder from being taken for a constant.               *)
(***************************************************************************)
EXTENDS Integers, Sequences

CONSTANTS
    Regions,    \* straight code to run: the instructions it is made of (insns)
                \* and the registers of each file it has (xregs, fregs)
    RVL_SLOTS,  \* records the slot table holds
    None        \* no record

Word == 0 .. 3
Cell == 0 .. 3

VARIABLES
    Insns,      \* the instructions of the region, which stay what they are
    x, f,       \* the machine's registers: [XRegs -> Word], [FRegs -> Word]
    mem,        \* its memory: [Cell -> {0, 1}]
    slots,      \* state->win.slots[0 .. nslots - 1]
    consts,     \* const_val where const_live, None elsewhere
    comps,      \* win.comp where live, None elsewhere
    atTarget    \* whether the instruction under the cursor is a side entry

machine == <<x, f, mem>>
window == <<slots, consts, comps>>
vars == <<Insns, machine, window, atTarget>>

XRegs == DOMAIN x   \* x0 among them where it is used
FRegs == DOMAIN f

-------------------------------------------------------------------------------
\* Memory accesses.
Stores == {"sd", "sw", "fsd", "fsw"}
Loads == {"ld", "lw", "lwu", "fld", "flw"}
FpKinds == {"fld", "flw", "fsd", "fsw"}

rv_mem_is_store(kind) == kind \in Stores
rv_mem_is_fp(kind) == kind \in FpKinds
mem_width(kind) == IF kind \in {"ld", "sd", "fld", "fsd"} THEN 2 ELSE 1

\* Mutant: a byte short at the end.
ranges_overlap_short(a, aw, b, bw) == a < b + bw - 1 /\ b < a + aw - 1
ranges_overlap(a, aw, b, bw) == a < b + bw /\ b < a + aw

\* The instructions rv_decode_mem places.  A relocated one has a displacement
\* the linker has yet to write, and 0 in its encoding.
IsMem(i) == i.op = "mem"
IsLoad(i) == IsMem(i) /\ i.kind \in Loads
IsStore(i) == IsMem(i) /\ i.kind \in Stores
LinkedDisp == 1
Disp(i) == IF i.reloc THEN LinkedDisp ELSE i.disp

\* What an instruction is.  A placeholder is 0, and the key of a computation names
\* registers of the region.
IsInsn(i, xregs, fregs) ==
    /\ i.op \in {"mem", "li", "comp", "other", "csr", "fother", "vector", "fence", "amo",
                 "branch", "region", "env", "unreadable"}
    /\ IsMem(i) => /\ i.kind \in Loads \cup Stores
                   /\ i.base \in xregs
                   /\ i.data \in (IF rv_mem_is_fp(i.kind) THEN fregs ELSE xregs)
                   /\ i.disp \in Int /\ i.reloc \in BOOLEAN
    /\ i.op = "li" => /\ i.rd \in xregs /\ i.val \in Word /\ i.reloc \in BOOLEAN
                      /\ i.reloc => i.val = 0
    /\ i.op = "comp" => /\ i.rd \in xregs /\ i.key # None
                        /\ {i.key.rs1, i.key.rs2} \subseteq xregs \cup {-1}
                        /\ i.key.imm \in Int
    /\ i.op \in {"other", "csr", "amo"} => i.rd \in xregs
    /\ i.op = "fother" => i.rd \in fregs

\* Two accesses through one base are less than the address space apart.
Near(i, j) == i.disp - j.disp + mem_width(i.kind) <= 4

ASSUME WindowAssumption ==
    /\ RVL_SLOTS \in Nat /\ None \notin Int
    /\ \A g \in Regions :
        /\ g.xregs \subseteq Nat /\ g.fregs \subseteq Nat
        /\ \A i \in g.insns : IsInsn(i, g.xregs, g.fregs)
        /\ \A i, j \in g.insns : IsMem(i) /\ IsMem(j) => Near(i, j)

Wrap(n) == n % 4
Touched(i) == {Wrap(x[i.base] + Disp(i) + k) : k \in 0 .. mem_width(i.kind) - 1}

\* A word's two cells, and the word a load of each kind makes of memory: lw
\* copies the sign upwards, lwu clears, flw boxes.
Part(v, k) == IF k = 0 THEN v % 2 ELSE v \div 2
Loaded(m, a, kind) ==
    CASE kind \in {"ld", "fld"} -> m[a] + 2 * m[Wrap(a + 1)]
      [] kind = "lw"            -> 3 * m[a]
      [] kind = "lwu"           -> m[a]
      [] kind = "flw"           -> m[a] + 2

\* The constant of an li; the linker's when the instruction is relocated.
LinkedVal == 2
Constant(i) == IF i.reloc THEN LinkedVal ELSE i.val

\* What a computation the table follows makes of its operands, -1 being one
\* that is absent or x0.
Operand(r) == IF r = -1 THEN 0 ELSE x[r]
Computed(k) == Wrap(Operand(k.rs1) + (IF k.mn = "sub" THEN 3 ELSE 1) * Operand(k.rs2)
                        + k.imm)

-------------------------------------------------------------------------------
\* What the machine does.  SetX writes an integer register, x0 excepted.
SetX(r, v) == x' = IF r = 0 THEN x ELSE [x EXCEPT ![r] = v]

RunMem(i) ==
    LET a == Wrap(x[i.base] + Disp(i))
    IN  CASE i.kind \in Loads \cap FpKinds ->
               /\ f' = [f EXCEPT ![i.data] = Loaded(mem, a, i.kind)]
               /\ UNCHANGED <<x, mem>>
          [] i.kind \in Loads \ FpKinds ->
               /\ SetX(i.data, Loaded(mem, a, i.kind))
               /\ UNCHANGED <<f, mem>>
          [] OTHER ->
               LET v == IF rv_mem_is_fp(i.kind) THEN f[i.data] ELSE x[i.data]
               IN  /\ mem' = [c \in Cell |->
                                IF c \in Touched(i)
                                THEN Part(v, IF c = a THEN 0 ELSE 1) ELSE mem[c]]
                   /\ UNCHANGED <<x, f>>

\* One place of the machine, or none, changes to anything: what another path,
\* a callee or the environment did.
Perturb(places) ==
    \/ UNCHANGED machine
    \/ "x" \in places /\ (\E r \in XRegs, v \in Word : SetX(r, v)) /\ UNCHANGED <<f, mem>>
    \/ /\ "f" \in places
       /\ \E r \in FRegs, v \in Word : f' = [f EXCEPT ![r] = v]
       /\ UNCHANGED <<x, mem>>
    \/ /\ "mem" \in places
       /\ \E c \in Cell, b \in {0, 1} : mem' = [mem EXCEPT ![c] = b]
       /\ UNCHANGED <<x, f>>

Run(i) ==
    CASE i.op = "mem"   -> RunMem(i)
      [] i.op = "li"    -> SetX(i.rd, Constant(i)) /\ UNCHANGED <<f, mem>>
      [] i.op = "comp"  -> SetX(i.rd, Computed(i.key)) /\ UNCHANGED <<f, mem>>
      [] i.op \in {"other", "csr"} ->
            (\E v \in Word : SetX(i.rd, v)) /\ UNCHANGED <<f, mem>>
      [] i.op = "fother" ->
            (\E v \in Word : f' = [f EXCEPT ![i.rd] = v]) /\ UNCHANGED <<x, mem>>
      [] i.op \in {"vector", "fence"} -> Perturb({"mem"})
      [] i.op = "amo"   -> /\ \E v \in Word : SetX(i.rd, v)
                           /\ \E c \in Cell, b \in {0, 1} :
                                mem' = [mem EXCEPT ![c] = b]
                           /\ UNCHANGED f
      [] i.op = "branch" -> UNCHANGED machine
      [] i.op \in {"region", "env", "unreadable"} -> Perturb({"x", "f", "mem"})

-------------------------------------------------------------------------------
\* riscvlint_state_observe.  The registers an instruction writes.
XWritten(i) == CASE IsLoad(i) /\ ~rv_mem_is_fp(i.kind) -> {i.data}
                 [] i.op \in {"li", "comp", "other", "csr", "amo"} -> {i.rd}
                 [] OTHER -> {}
FWritten(i) == CASE IsLoad(i) /\ rv_mem_is_fp(i.kind) -> {i.data}
                 [] i.op = "fother" -> {i.rd}
                 [] OTHER -> {}

NoConsts == [r \in XRegs |-> None]
NoComps == [r \in XRegs |-> None]

\* 1. Register writes: a record goes with its data register, and with its base.
\* Mutants: a write to the data register is missed, or one to an f register.
AfterBaseWrite(sl, i) ==
    LET baseLost == sl.base \in XWritten(i)
    IN  [sl EXCEPT !.held = @ /\ ~baseLost, !.unread = @ /\ ~baseLost]
AfterXWrite(sl, i) ==
    LET dataLost == ~rv_mem_is_fp(sl.kind) /\ sl.data \in XWritten(i)
        baseLost == sl.base \in XWritten(i)
    IN  [sl EXCEPT !.held = @ /\ ~dataLost /\ ~baseLost,
                   !.unread = @ /\ ~baseLost]
AfterWrite(sl, i) ==
    LET dataLost == sl.data \in (IF rv_mem_is_fp(sl.kind) THEN FWritten(i)
                                                          ELSE XWritten(i))
        baseLost == sl.base \in XWritten(i)
    IN  [sl EXCEPT !.held = @ /\ ~dataLost /\ ~baseLost,
                   !.unread = @ /\ ~baseLost]

\* Mutant: only the first source is looked at.
CompLostFirst(k, i) == k.rs1 \in XWritten(i)
CompLost(k, i) == k.rs1 \in XWritten(i) \/ k.rs2 \in XWritten(i)
CompsAfterWrite(i) ==
    [r \in XRegs |-> IF \/ r \in XWritten(i)
                        \/ comps[r] # None /\ CompLost(comps[r], i)
                     THEN None ELSE comps[r]]
ConstsAfterWrite(i) == [r \in XRegs |-> IF r \in XWritten(i) THEN None ELSE consts[r]]

\* 2. The access: what it does to a record already there.
\* Mutant: another base is another place.
MayTouchSameBase(sl, i) ==
    sl.base = i.base /\ ranges_overlap(sl.disp, sl.width, i.disp, mem_width(i.kind))
MayTouch(sl, i) ==
    sl.base # i.base \/ ranges_overlap(sl.disp, sl.width, i.disp, mem_width(i.kind))
SameBytes(sl, i) ==
    sl.base = i.base /\ sl.disp = i.disp /\ sl.width = mem_width(i.kind)
AfterAccess(sl, i) ==
    [sl EXCEPT !.held = @ /\ ~(IsStore(i) /\ MayTouch(sl, i)),
               !.unread = @ /\ IF IsStore(i) THEN ~SameBytes(sl, i)
                                             ELSE ~MayTouch(sl, i)]

\* 5. (second of two) a conditional branch ends every claim that a store is dead.
\* Mutant: a branch keeps the claim.
AcrossBranch(sl, i) == sl
AfterBranch(sl, i) == [sl EXCEPT !.unread = @ /\ i.op # "branch"]

\* History, not in the code: of the cells an unread store wrote, own are those
\* that still hold its bytes, and exposed says somebody may have read one; blurred
\* says that a relocated access made the record or came after it, somewhere that
\* only the linker knows.
Exposes(sl, i) == \/ IsLoad(i) /\ sl.own \cap Touched(i) # {}
                  \/ i.op \notin {"mem", "li", "comp", "other", "fother", "csr"}
Trail(sl, i) ==
    [sl EXCEPT !.own = IF ~sl.unread THEN {}
                       ELSE IF IsStore(i) THEN @ \ Touched(i) ELSE @,
               !.exposed = sl.unread /\ (@ \/ Exposes(sl, i)),
               !.blurred = @ \/ (IsMem(i) /\ i.reloc)]

Updated(sl, i) ==
    LET w == AfterWrite(sl, i)
        a == IF IsMem(i) THEN AfterAccess(w, i) ELSE w
    IN  Trail(AfterBranch(a, i), i)

\* The record the access leaves: in the slot of its base, displacement and kind,
\* or a new one while there is room; none when the base was overwritten.
Record(i) ==
    LET unread == IsStore(i) /\ i.base \in {2, 8}
    IN  [held |-> TRUE, unread |-> unread, base |-> i.base, disp |-> i.disp,
         width |-> mem_width(i.kind), kind |-> i.kind, data |-> i.data,
         own |-> IF unread THEN Touched(i) ELSE {}, exposed |-> FALSE,
         blurred |-> i.reloc]
SameSlot(sl, i) == sl.base = i.base /\ sl.disp = i.disp /\ sl.kind = i.kind
\* Mutant: a record past the end of a full table.
RoomOffByOne(ss) == Len(ss) <= RVL_SLOTS
Room(ss) == Len(ss) < RVL_SLOTS
Recorded(ss, i) ==
    IF i.base \in XWritten(i) THEN ss
    ELSE IF \E n \in DOMAIN ss : SameSlot(ss[n], i)
         THEN [n \in DOMAIN ss |-> IF SameSlot(ss[n], i) THEN Record(i) ELSE ss[n]]
    ELSE IF Room(ss) THEN Append(ss, Record(i)) ELSE ss

\* 2 and 6. Accesses nobody can place, and what changes memory behind our back.
EndsPlaces(i) == i.op \in {"vector", "amo", "fence", "csr", "env", "region"}
\* 6. A transfer or an environment call can change any register.
EndsAll(i) == i.op \in {"env", "region"}

Drop == /\ slots' = <<>>
        /\ consts' = NoConsts
        /\ comps' = NoComps

Observe(i, target) ==
    IF i.op = "unreadable" \/ target       \* 7. the next one is a side entry
    THEN Drop
    ELSE /\ slots' = IF EndsPlaces(i) THEN <<>>
                     ELSE LET ss == [n \in DOMAIN slots |-> Updated(slots[n], i)]
                          IN  IF IsMem(i) THEN Recorded(ss, i) ELSE ss
         /\ consts' = IF EndsPlaces(i) THEN NoConsts
                      ELSE IF i.op = "li" /\ i.rd # 0
                           THEN [ConstsAfterWrite(i) EXCEPT ![i.rd] = i.val]
                           ELSE ConstsAfterWrite(i)
         /\ comps' = IF EndsAll(i) THEN NoComps
                     ELSE IF i.op = "comp" /\ i.rd # 0 /\ ~CompLost(i.key, i)
                          THEN [CompsAfterWrite(i) EXCEPT ![i.rd] = i.key]
                          ELSE CompsAfterWrite(i)

-------------------------------------------------------------------------------
Init == /\ \E g \in Regions :
             /\ Insns = g.insns
             /\ x \in {r \in [g.xregs -> Word] : 0 \in g.xregs => r[0] = 0}
             /\ f \in [g.fregs -> Word]
        /\ mem \in [Cell -> {0, 1}]
        /\ slots = <<>>
        /\ consts = NoConsts
        /\ comps = NoComps
        /\ atTarget = FALSE

Step(i) == /\ Run(i)
           /\ atTarget' \in BOOLEAN
           /\ Observe(i, atTarget')
           /\ UNCHANGED Insns

\* Another path arrives at a side entry, with a machine of its own.
Arrive == /\ atTarget
          /\ Perturb({"x", "f", "mem"})
          /\ UNCHANGED <<Insns, window, atTarget>>

Next == \/ \E i \in Insns : Step(i)
        \/ Arrive

Spec == Init /\ [][Next]_vars

-------------------------------------------------------------------------------
\* The checks that read the window.  Each is the records it would fire on with
\* instruction i under the cursor.
Records == {slots[n] : n \in DOMAIN slots}
HeldAt(i) == {sl \in Records : sl.held /\ sl.base = i.base /\ sl.disp = i.disp}

Linked(i) == ~i.reloc
Sharp(S) == {sl \in S : ~sl.blurred}    \* what the properties are about
IntLoad(i) == IsLoad(i) /\ ~rv_mem_is_fp(i.kind) /\ i.data # 0 /\ Linked(i)
FrameStore(i) == IsStore(i) /\ i.base \in {2, 8} /\ Linked(i)

\* mv from the register an equal load filled.
check_redundant_reload(i) ==
    IF IntLoad(i)
    THEN {sl \in HeldAt(i) : sl.kind = i.kind /\ sl.data \notin {0, i.data}}
    ELSE {}

\* A move or an extension from the register that was just stored.  The first
\* held store of the place decides.
forward_form(st, ld) == CASE <<st, ld>> = <<"sd", "ld">>  -> "mv"
                          [] <<st, ld>> = <<"sw", "lw">>  -> "sext"
                          [] <<st, ld>> = <<"sw", "lwu">> -> "zext"
                          [] OTHER -> "none"
Extend(form, v) == CASE form = "mv"   -> v
                     [] form = "sext" -> 3 * Part(v, 0)
                     [] form = "zext" -> Part(v, 0)
HeldStore(n, i) == slots[n] \in HeldAt(i) /\ rv_mem_is_store(slots[n].kind)
check_store_to_load(i) ==
    IF IntLoad(i) /\ ~\E sl \in HeldAt(i) : sl.kind = i.kind
    THEN {n \in DOMAIN slots :
            /\ HeldStore(n, i) /\ ~\E m \in 1 .. n - 1 : HeldStore(m, i)
            /\ forward_form(slots[n].kind, i.kind) # "none"
            /\ slots[n].data \notin {0, i.data}}
    ELSE {}

\* The load goes: its destination still holds the value.
\* Mutant: a narrow store read back at its own width counts.
ReadsBackAnyWidth(st, ld) == st = ld \/ <<st, ld>> \in {<<"sd", "ld">>, <<"sw", "lw">>}
ReadsBack(st, ld) == st = ld \/ <<st, ld>> = <<"sd", "ld">>
check_redundant_load(i) ==
    IF IntLoad(i)
    THEN {sl \in HeldAt(i) : sl.data = i.data /\ ReadsBack(sl.kind, i.kind)}
    ELSE {}

\* The earlier store goes: this one overwrites it unread.
Superseded(i) == {sl \in Records : sl.unread /\ SameBytes(sl, i)}
check_dead_store(i) == IF FrameStore(i) /\ ~atTarget THEN Superseded(i) ELSE {}

\* This store goes: the slot already holds the value.
\* Mutants: the register file, or who left a record of x0, is not looked at.
IsXOrF(sl) == TRUE
IsX(sl) == ~rv_mem_is_fp(sl.kind)
AnyX0(sl, i) == TRUE
StoredX0(sl, i) == i.data = 0 => rv_mem_is_store(sl.kind)
check_silent_store(i) ==
    IF /\ FrameStore(i) /\ ~rv_mem_is_fp(i.kind)
       /\ atTarget \/ Superseded(i) = {}
    THEN {sl \in HeldAt(i) : /\ IsX(sl) /\ sl.data = i.data
                             /\ SameBytes(sl, i) /\ StoredX0(sl, i)}
    ELSE {}

\* mv from a register that holds the same constant, c.li's range excepted.
NoRange == {}    \* mutant: the range is not excepted
CLiRange == {0}
check_const_remat(i) ==
    IF i.op = "li" /\ i.val \notin CLiRange /\ i.rd \notin {0, 2, 3, 4} /\ Linked(i)
    THEN {r \in XRegs \ {0, i.rd} : consts[r] = i.val}
    ELSE {}

\* Deleted, or a mv from a register that holds the same computation.
check_comp_remat(i) ==
    IF i.op = "comp" /\ i.rd \notin {0, 2, 3, 4}
    THEN {r \in XRegs \ {0} : comps[r] = i.key}
    ELSE {}

\* A move between the register files.
Casts == ({"fsd", "fld"} \X {"ld"}) \cup ({"fsw", "flw"} \X {"lw"})
            \cup ({"sd", "ld"} \X {"fld"}) \cup ({"sw", "lw"} \X {"flw"})
check_bitcast_through_frame(i) ==
    IF IsLoad(i) /\ Linked(i)
    THEN {sl \in HeldAt(i) : <<sl.kind, i.kind>> \in Casts}
    ELSE {}
Cast(v, kind) == CASE kind \in {"ld", "fld"} -> v
                   [] kind = "lw"            -> 3 * Part(v, 0)
                   [] kind = "flw"           -> Part(v, 0) + 2

-------------------------------------------------------------------------------
\* The properties of places are about records that no relocated access has blurred:
\* the code keeps a placeholder displacement like any other, and may match it.
TypeOK ==
    /\ x \in [XRegs -> Word] /\ (0 \in XRegs => x[0] = 0)
    /\ f \in [FRegs -> Word]
    /\ mem \in [Cell -> {0, 1}]
    /\ DOMAIN slots = 1 .. Len(slots) /\ Len(slots) <= RVL_SLOTS
    /\ \A sl \in Records : /\ sl.base \in XRegs /\ sl.kind \in Loads \cup Stores
                           /\ sl.width = mem_width(sl.kind)
                           /\ sl.held \in BOOLEAN /\ sl.unread \in BOOLEAN
    /\ \A r \in XRegs : comps[r] # None => comps[r].rs1 # r /\ comps[r].rs2 # r

\* What the load under the cursor would read.
Loading(i) == Loaded(mem, Wrap(x[i.base] + Disp(i)), i.kind)

\* The mv a redundant reload becomes leaves in the destination what the load
\* would have: nothing since the earlier load changed the place or the register
\* (check_redundant_reload; "nothing in between that could have changed it").
ReloadHolds ==
    \A i \in Insns : \A sl \in Sharp(check_redundant_reload(i)) : x[sl.data] = Loading(i)

\* The move or extension a load of a just-stored value becomes computes exactly
\* what the load would read, signedness included (check_store_to_load).
ForwardHolds ==
    \A i \in Insns : \A n \in check_store_to_load(i) :
        slots[n].blurred
            \/ Extend(forward_form(slots[n].kind, i.kind), x[slots[n].data]) = Loading(i)

\* A load that check_redundant_load deletes would have left its destination
\* unchanged.
DeletedLoadHolds ==
    \A i \in Insns : Sharp(check_redundant_load(i)) # {} => x[i.data] = Loading(i)

\* A store that check_dead_store deletes has not been read, by this code or
\* anybody else, and every byte of it that is still in memory is about to be
\* overwritten.
DeletedStoreIsDead ==
    \A i \in Insns : \A sl \in Sharp(check_dead_store(i)) :
        ~sl.exposed /\ sl.own \subseteq Touched(i)

\* A store that check_silent_store deletes would not have changed memory.
SilentStoreHolds ==
    \A i \in Insns : Sharp(check_silent_store(i)) # {} =>
        \A k \in 0 .. mem_width(i.kind) - 1 :
            mem[Wrap(x[i.base] + i.disp + k)] = Part(x[i.data], k)

\* The register check_const_remat offers holds the constant, also where an
\* instruction that left a constant was only a placeholder for the linker.
ConstHolds == \A i \in Insns : \A r \in check_const_remat(i) : x[r] = i.val

\* The register check_comp_remat offers, the destination itself among them,
\* holds what the computation would yield now.
CompHolds == \A i \in Insns : \A r \in check_comp_remat(i) : x[r] = Computed(i.key)

\* The move between register files that replaces a load yields what the load
\* would, but for the records an integer load into x0 leaves.
CastHolds(i, sl) ==
    Cast(IF rv_mem_is_fp(sl.kind) THEN f[sl.data] ELSE x[sl.data], i.kind) = Loading(i)
LeftByX0Load(sl) == sl.data = 0 /\ sl.kind \in Loads \ FpKinds
BitcastHolds ==
    \A i \in Insns : \A sl \in Sharp(check_bitcast_through_frame(i)) :
        LeftByX0Load(sl) \/ CastHolds(i, sl)

\* Every bitcast, those x0 records included: "ld x0,K(sp) is a legal no-op ...
\* and the record would be claiming that x0 holds what is at K(sp). The
\* neighbouring checks refuse every x0 record" (comment in check_silent_store).
EveryBitcastHolds ==
    \A i \in Insns : \A sl \in check_bitcast_through_frame(i) : CastHolds(i, sl)

\* A place has one record of a kind, and at most one held store: what the first
\* match of check_store_to_load relies on, and the comment in
\* riscvlint_state_observe argues.
OneHeldStore ==
    \A m, n \in DOMAIN slots :
        m # n => LET a == slots[m]
                     b == slots[n]
                 IN  a.base = b.base /\ a.disp = b.disp =>
                       /\ a.kind # b.kind
                       /\ ~(a.held /\ b.held /\ {a.kind, b.kind} \subseteq Stores)
===============================================================================
