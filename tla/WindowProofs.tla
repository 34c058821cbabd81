----------------------------- MODULE WindowProofs -----------------------------
(***************************************************************************)
(* What riscvlint_state_observe remembers is true of the machine, so that  *)
(* what the eight checks that read the window say of it is true as well.   *)
(***************************************************************************)
EXTENDS Window, SequenceTheorems, TLAPS

\* The instructions, and what is assumed of them.
Region ==
    /\ XRegs \subseteq Nat /\ FRegs \subseteq Nat
    /\ \A i \in Insns : IsInsn(i, XRegs, FRegs)
    /\ \A i, j \in Insns : IsMem(i) /\ IsMem(j) => Near(i, j)

Machine ==
    /\ x \in [XRegs -> Word] /\ (0 \in XRegs => x[0] = 0)
    /\ f \in [FRegs -> Word]
    /\ mem \in [Cell -> {0, 1}]

\* A record, which an access of the region has left.
Rec == [held : BOOLEAN, unread : BOOLEAN, base : Nat, disp : Int, width : {1, 2},
        kind : Loads \cup Stores, data : Nat, own : SUBSET Cell, exposed : BOOLEAN,
        blurred : BOOLEAN]
LeftBy(sl, i) ==
    /\ IsMem(i)
    /\ SameSlot(sl, i) /\ sl.data = i.data /\ sl.width = mem_width(i.kind)
WellMade(sl) == sl \in Rec /\ \E i \in Insns : LeftBy(sl, i)

\* What a record says: of a register and the memory at its place, and of an unread
\* store's bytes.
Place(sl, k) == Wrap(x[sl.base] + sl.disp + k)
Holding(sl) == IF rv_mem_is_fp(sl.kind) THEN f[sl.data] ELSE x[sl.data]
Mirrors(sl) ==
    sl.held /\ ~sl.blurred =>
        IF rv_mem_is_store(sl.kind)
        THEN \A k \in 0 .. sl.width - 1 : mem[Place(sl, k)] = Part(Holding(sl), k)
        ELSE LeftByX0Load(sl) \/ Holding(sl) = Loaded(mem, Place(sl, 0), sl.kind)
Overwritable(sl) ==
    sl.unread /\ ~sl.blurred =>
        ~sl.exposed /\ sl.own \subseteq {Place(sl, k) : k \in 0 .. sl.width - 1}

SlotsTrue ==
    /\ slots \in Seq(Rec) /\ Len(slots) <= RVL_SLOTS
    /\ \A n \in DOMAIN slots :
        WellMade(slots[n]) /\ Mirrors(slots[n]) /\ Overwritable(slots[n])

\* What is said of a constant, but for a placeholder's, and of a computation.
ConstsTrue ==
    /\ DOMAIN consts = XRegs
    /\ \A r \in XRegs : consts[r] \in {None, 0, x[r]}
CompTrue(r, k) ==
    /\ k.rs1 # r /\ k.rs2 # r
    /\ {k.rs1, k.rs2} \subseteq XRegs \cup {-1} /\ k.imm \in Int
    /\ x[r] = Computed(k)
CompsTrue ==
    /\ DOMAIN comps = XRegs
    /\ \A r \in XRegs : comps[r] = None \/ CompTrue(r, comps[r])

\* Where another path may come in, nothing is said.
Forgotten == atTarget => slots = <<>> /\ consts = NoConsts /\ comps = NoComps

IInv ==
    /\ Region /\ Machine /\ atTarget \in BOOLEAN
    /\ SlotsTrue /\ OneHeldStore /\ ConstsTrue /\ CompsTrue /\ Forgotten
-------------------------------------------------------------------------------
\* Addresses wrap, and two places less than the address space apart are two cells.
LEMMA WrapLemma ==
    /\ \A n \in Int : Wrap(n) \in Cell
    /\ \A m, n \in Int : m - n \in -3 .. 3 /\ Wrap(m) = Wrap(n) => m = n
    /\ \A n \in Int : Wrap(Wrap(n) + 1) = Wrap(n + 1)
BY DEF Wrap, Cell

\* A word is its two cells, and the narrow loads and moves make of one what they should.
LEMMA WordLemma ==
    ASSUME NEW v \in Word
    PROVE  /\ Part(v, 0) \in {0, 1} /\ Part(v, 1) \in {0, 1}
           /\ v = Part(v, 0) + 2 * Part(v, 1)
<1>1. v = 0 \/ v = 1 \/ v = 2 \/ v = 3
  BY DEF Word
<1> QED
  BY <1>1 DEF Part

LEMMA CellsLemma ==
    ASSUME NEW b \in {0, 1}, NEW c \in {0, 1}
    PROVE  /\ b + 2 * c \in Word /\ Part(b + 2 * c, 0) = b /\ Part(b + 2 * c, 1) = c
           /\ 3 * b \in Word /\ Part(3 * b, 0) = b
           /\ b \in Word /\ Part(b, 0) = b
           /\ b + 2 \in Word /\ Part(b + 2, 0) = b
BY DEF Word, Part

\* Every load makes a word of memory.
LEMMA LoadedLemma ==
    ASSUME NEW m \in [Cell -> {0, 1}], NEW a \in Cell, NEW kind \in Loads
    PROVE  Loaded(m, a, kind) \in Word
<1>1. a \in Int /\ Wrap(a + 1) \in Cell
  BY WrapLemma DEF Cell
<1>2. m[a] \in {0, 1} /\ m[Wrap(a + 1)] \in {0, 1}
  BY <1>1
<1> QED
  BY <1>2, CellsLemma DEF Loaded, Loads

LEMMA KindLemma ==
    ASSUME NEW kind \in Loads \cup Stores
    PROVE  /\ mem_width(kind) \in {1, 2}
           /\ rv_mem_is_store(kind) <=> kind \notin Loads
           /\ kind \in Loads /\ ~rv_mem_is_fp(kind) <=> kind \in {"ld", "lw", "lwu"}
BY DEF Loads, Stores, FpKinds, mem_width, rv_mem_is_store, rv_mem_is_fp

\* A load writes its data register, of its file, and a store writes none.
LEMMA WrittenLemma ==
    ASSUME NEW i, IsMem(i), i.kind \in Loads \cup Stores
    PROVE  /\ IsLoad(i) /\ rv_mem_is_fp(i.kind) => XWritten(i) = {} /\ FWritten(i) = {i.data}
           /\ IsLoad(i) /\ ~rv_mem_is_fp(i.kind) => XWritten(i) = {i.data} /\ FWritten(i) = {}
           /\ ~IsLoad(i) => IsStore(i) /\ XWritten(i) = {} /\ FWritten(i) = {}
<1>1. i.op = "mem"
  BY DEF IsMem
<1> QED
  BY <1>1 DEF IsMem, IsLoad, IsStore, XWritten, FWritten, rv_mem_is_fp, FpKinds, Loads, Stores
-------------------------------------------------------------------------------
\* A write keeps registers words, and x0 zero.
LEMMA SetLemma ==
    ASSUME Machine, NEW r \in XRegs, NEW v \in Word, SetX(r, v)
    PROVE  /\ x' \in [XRegs -> Word] /\ (0 \in XRegs => x'[0] = 0)
           /\ \A s \in XRegs : s # r => x'[s] = x[s]
           /\ r # 0 => x'[r] = v
BY DEF Machine, SetX

LEMMA ComputedLemma ==
    ASSUME Region, Machine, NEW i \in Insns, i.op = "comp"
    PROVE  Computed(i.key) \in Word
<1>1. {i.key.rs1, i.key.rs2} \subseteq XRegs \cup {-1} /\ i.key.imm \in Int
  BY DEF Region, IsInsn
<1>2. \A r \in XRegs \cup {-1} : Operand(r) \in Int
  BY DEF Operand, Machine, Word
<1>3. Operand(i.key.rs1) + (IF i.key.mn = "sub" THEN 3 ELSE 1) * Operand(i.key.rs2)
        + i.key.imm \in Int
  BY <1>1, <1>2
<1> QED
  BY <1>3, WrapLemma DEF Computed, Cell, Word

\* Perturb keeps the machine a machine and leaves alone what is not named.
LEMMA PerturbLemma ==
    ASSUME Machine, NEW places, Perturb(places)
    PROVE  /\ Machine' /\ XRegs' = XRegs /\ FRegs' = FRegs
           /\ "x" \notin places => x' = x
           /\ "f" \notin places => f' = f
<1>1. CASE UNCHANGED machine
  BY <1>1 DEF machine, Machine, XRegs, FRegs
<1>2. CASE (\E r \in XRegs, v \in Word : SetX(r, v)) /\ "x" \in places /\ UNCHANGED <<f, mem>>
  <2>1. x' \in [XRegs -> Word] /\ (0 \in XRegs => x'[0] = 0)
    BY <1>2, SetLemma
  <2> QED
    BY <1>2, <2>1 DEF Machine, XRegs, FRegs
<1>3. CASE /\ "f" \in places
           /\ \E r \in FRegs, v \in Word : f' = [f EXCEPT ![r] = v]
           /\ UNCHANGED <<x, mem>>
  BY <1>3 DEF Machine, XRegs, FRegs
<1>4. CASE /\ "mem" \in places
           /\ \E c \in Cell, b \in {0, 1} : mem' = [mem EXCEPT ![c] = b]
           /\ UNCHANGED <<x, f>>
  BY <1>4 DEF Machine, XRegs, FRegs
<1> QED
  BY <1>1, <1>2, <1>3, <1>4 DEF Perturb

\* An instruction changes the registers it writes and no others, and memory only where
\* it says so.
LEMMA RunLemma ==
    ASSUME Region, Machine, NEW i \in Insns, Run(i)
    PROVE  /\ Machine' /\ XRegs' = XRegs /\ FRegs' = FRegs
           /\ i.op \notin {"region", "env", "unreadable"} =>
                /\ \A r \in XRegs : r \notin XWritten(i) => x'[r] = x[r]
                /\ \A r \in FRegs : r \notin FWritten(i) => f'[r] = f[r]
                /\ i.op \notin {"vector", "fence", "amo"} /\ ~IsStore(i) => mem' = mem
<1> DEFINE goal == /\ Machine' /\ XRegs' = XRegs /\ FRegs' = FRegs
                   /\ i.op \notin {"region", "env", "unreadable"} =>
                        /\ \A r \in XRegs : r \notin XWritten(i) => x'[r] = x[r]
                        /\ \A r \in FRegs : r \notin FWritten(i) => f'[r] = f[r]
                        /\ i.op \notin {"vector", "fence", "amo"} /\ ~IsStore(i) => mem' = mem
<1>1. IsInsn(i, XRegs, FRegs)
  BY DEF Region
<1>2. ASSUME NEW r \in XRegs, NEW v \in Word, SetX(r, v), UNCHANGED f, r \in XWritten(i),
             mem' \in [Cell -> {0, 1}],
             i.op \notin {"vector", "fence", "amo"} /\ ~IsStore(i) => mem' = mem
      PROVE  goal
  <2>1. /\ x' \in [XRegs -> Word] /\ (0 \in XRegs => x'[0] = 0)
        /\ \A s \in XRegs : s # r => x'[s] = x[s]
    BY <1>2, SetLemma
  <2>2. DOMAIN x' = XRegs /\ XRegs' = DOMAIN x' /\ FRegs' = DOMAIN f'
    BY <2>1 DEF XRegs, FRegs
  <2> QED
    BY <1>2, <2>1, <2>2 DEF Machine, FRegs
<1>3. CASE IsMem(i)
  <2> DEFINE a == Wrap(x[i.base] + Disp(i))
  <2>1. /\ i.kind \in Loads \cup Stores /\ i.base \in XRegs
        /\ i.data \in (IF rv_mem_is_fp(i.kind) THEN FRegs ELSE XRegs)
        /\ Disp(i) \in Int
    BY <1>1, <1>3 DEF IsInsn, Disp, LinkedDisp
  <2>2. a \in Cell
    BY <2>1, WrapLemma DEF Machine, Word
  <2>3. RunMem(i)
    BY <1>3 DEF Run, IsMem
  <2> HIDE DEF a
  <2>4. CASE IsLoad(i) /\ rv_mem_is_fp(i.kind)
    <3>1. Loaded(mem, a, i.kind) \in Word
      BY <2>2, <2>4, LoadedLemma DEF Machine, IsLoad
    <3>2. i.data \in FRegs /\ i.data \in FWritten(i)
      BY <1>3, <2>1, <2>4, WrittenLemma
    <3>3. f' = [f EXCEPT ![i.data] = Loaded(mem, a, i.kind)] /\ UNCHANGED <<x, mem>>
      BY <2>3, <2>4 DEF RunMem, IsLoad, rv_mem_is_fp, a
    <3> QED
      BY <3>1, <3>2, <3>3 DEF Machine, XRegs, FRegs
  <2>5. CASE IsLoad(i) /\ ~rv_mem_is_fp(i.kind)
    <3>1. Loaded(mem, a, i.kind) \in Word
      BY <2>2, <2>5, LoadedLemma DEF Machine, IsLoad
    <3>2. i.data \in XRegs /\ i.data \in XWritten(i)
      BY <1>3, <2>1, <2>5, WrittenLemma
    <3>3. SetX(i.data, Loaded(mem, a, i.kind)) /\ UNCHANGED <<f, mem>>
      BY <2>3, <2>5 DEF RunMem, IsLoad, rv_mem_is_fp, a
    <3> QED
      BY <1>2, <3>1, <3>2, <3>3 DEF Machine
  <2>6. CASE ~IsLoad(i)
    <3>1. IsStore(i) /\ i.kind \notin Loads
      BY <1>3, <2>1, <2>6 DEF IsLoad, IsStore
    <3>2. \E v \in Word : /\ mem' = [c \in Cell |-> IF c \in Touched(i)
                                       THEN Part(v, IF c = a THEN 0 ELSE 1) ELSE mem[c]]
                          /\ UNCHANGED <<x, f>>
      BY <2>1, <2>3, <3>1 DEF RunMem, Machine, rv_mem_is_fp, a
    <3>3. mem' \in [Cell -> {0, 1}]
      BY <3>2, WordLemma DEF Machine
    <3> QED
      BY <3>1, <3>2, <3>3 DEF Machine, XRegs, FRegs
  <2> QED
    BY <2>4, <2>5, <2>6
<1>4. CASE i.op = "li"
  <2>1. Constant(i) \in Word /\ i.rd \in XRegs
    BY <1>1, <1>4 DEF IsInsn, Constant, LinkedVal, Word
  <2>2. SetX(i.rd, Constant(i)) /\ UNCHANGED <<f, mem>>
    BY <1>4 DEF Run
  <2> QED
    BY <1>2, <1>4, <2>1, <2>2 DEF Machine, XWritten, IsLoad, IsMem
<1>5. CASE i.op = "comp"
  <2>1. i.rd \in XRegs
    BY <1>1, <1>5 DEF IsInsn
  <2>2. SetX(i.rd, Computed(i.key)) /\ UNCHANGED <<f, mem>>
    BY <1>5 DEF Run
  <2> QED
    BY <1>2, <1>5, <2>1, <2>2, ComputedLemma DEF Machine, XWritten, IsLoad, IsMem
<1>6. CASE i.op \in {"other", "csr"}
  <2>1. i.rd \in XRegs
    BY <1>1, <1>6 DEF IsInsn
  <2>2. PICK v \in Word : SetX(i.rd, v) /\ UNCHANGED <<f, mem>>
    BY <1>6 DEF Run
  <2> QED
    BY <1>2, <1>6, <2>1, <2>2 DEF Machine, XWritten, IsLoad, IsMem
<1>7. CASE i.op = "fother"
  <2>1. i.rd \in FRegs
    BY <1>1, <1>7 DEF IsInsn
  <2>2. PICK v \in Word : f' = [f EXCEPT ![i.rd] = v] /\ UNCHANGED <<x, mem>>
    BY <1>7 DEF Run
  <2> QED
    BY <1>7, <2>1, <2>2 DEF Machine, XRegs, FRegs, FWritten, IsLoad, IsMem
<1>8. CASE i.op \in {"vector", "fence"}
  <2>1. Perturb({"mem"})
    BY <1>8 DEF Run
  <2> QED
    BY <1>8, <2>1, PerturbLemma
<1>9. CASE i.op = "amo"
  <2>1. i.rd \in XRegs
    BY <1>1, <1>9 DEF IsInsn
  <2>2. PICK v \in Word : SetX(i.rd, v)
    BY <1>9 DEF Run
  <2>3. (\E c \in Cell, b \in {0, 1} : mem' = [mem EXCEPT ![c] = b]) /\ UNCHANGED f
    BY <1>9 DEF Run
  <2>4. mem' \in [Cell -> {0, 1}]
    BY <2>3 DEF Machine
  <2> QED
    BY <1>2, <1>9, <2>1, <2>2, <2>3, <2>4 DEF XWritten, IsLoad, IsMem
<1>10. CASE i.op = "branch"
  BY <1>10 DEF Run, machine, Machine, XRegs, FRegs
<1>11. CASE i.op \in {"region", "env", "unreadable"}
  <2>1. Perturb({"x", "f", "mem"})
    BY <1>11 DEF Run
  <2> QED
    BY <1>11, <2>1, PerturbLemma
<1> QED
  BY <1>1, <1>3, <1>4, <1>5, <1>6, <1>7, <1>8, <1>9, <1>10, <1>11 DEF IsInsn, IsMem
-------------------------------------------------------------------------------
\* What an instruction makes of a record: the place stays, held and unread only end.
Became(sl, i, r) ==
    /\ r \in Rec
    /\ r.base = sl.base /\ r.disp = sl.disp /\ r.width = sl.width
    /\ r.kind = sl.kind /\ r.data = sl.data
    /\ r.held => /\ sl.held /\ sl.base \notin XWritten(i)
                 /\ sl.data \notin (IF rv_mem_is_fp(sl.kind) THEN FWritten(i)
                                                             ELSE XWritten(i))
                 /\ IsStore(i) => ~MayTouch(sl, i)
    /\ r.unread => /\ sl.unread /\ sl.base \notin XWritten(i) /\ i.op # "branch"
                   /\ IsLoad(i) => ~MayTouch(sl, i)
    /\ r.own \subseteq sl.own
    /\ r.exposed => sl.exposed \/ Exposes(sl, i)
    /\ r.blurred = (sl.blurred \/ (IsMem(i) /\ i.reloc))

LEMMA UpdatedLemma ==
    ASSUME NEW sl \in Rec, NEW i
    PROVE  Became(sl, i, Updated(sl, i))
<1> DEFINE w == AfterWrite(sl, i)
           a == IF IsMem(i) THEN AfterAccess(w, i) ELSE w
           b == AfterBranch(a, i)
           Same(s) == /\ s.base = sl.base /\ s.disp = sl.disp /\ s.width = sl.width
                      /\ s.kind = sl.kind /\ s.data = sl.data /\ s.own = sl.own
                      /\ s.exposed = sl.exposed /\ s.blurred = sl.blurred
<1>1. /\ w \in Rec /\ Same(w)
      /\ w.held => /\ sl.held /\ sl.base \notin XWritten(i)
                   /\ sl.data \notin (IF rv_mem_is_fp(sl.kind) THEN FWritten(i)
                                                               ELSE XWritten(i))
      /\ w.unread => sl.unread /\ sl.base \notin XWritten(i)
  BY DEF AfterWrite, Rec
<1> HIDE DEF w
<1>2. /\ a \in Rec /\ Same(a)
      /\ a.held => w.held /\ (IsStore(i) => ~MayTouch(sl, i))
      /\ a.unread => /\ w.unread
                     /\ IsLoad(i) => ~MayTouch(sl, i)
  <2>1. CASE IsMem(i)
    <3>1. /\ AfterAccess(w, i) \in Rec /\ Same(AfterAccess(w, i))
          /\ AfterAccess(w, i).held => w.held /\ ~(IsStore(i) /\ MayTouch(w, i))
          /\ AfterAccess(w, i).unread =>
                w.unread /\ (IF IsStore(i) THEN ~SameBytes(w, i) ELSE ~MayTouch(w, i))
      BY <1>1 DEF AfterAccess, Rec
    <3>2. MayTouch(w, i) = MayTouch(sl, i)
      BY <1>1 DEF MayTouch
    <3>3. IsLoad(i) => ~IsStore(i)
      BY DEF IsLoad, IsStore, Loads, Stores
    <3> QED
      BY <2>1, <3>1, <3>2, <3>3
  <2>2. CASE ~IsMem(i)
    BY <1>1, <2>2 DEF IsLoad, IsStore
  <2> QED
    BY <2>1, <2>2
<1> HIDE DEF a
<1>3. /\ b \in Rec /\ Same(b) /\ b.held = a.held
      /\ b.unread => a.unread /\ i.op # "branch"
  BY <1>2 DEF AfterBranch, Rec
<1> HIDE DEF b
<1> DEFINE r == Updated(sl, i)
<1>4. r = Trail(b, i)
  BY DEF Updated, w, a, b
<1>5. Exposes(b, i) = Exposes(sl, i)
  BY <1>3 DEF Exposes
<1>6. /\ r.base = b.base /\ r.disp = b.disp /\ r.width = b.width
      /\ r.kind = b.kind /\ r.data = b.data /\ r.held = b.held /\ r.unread = b.unread
      /\ r.own = (IF ~b.unread THEN {} ELSE IF IsStore(i) THEN b.own \ Touched(i) ELSE b.own)
      /\ r.exposed = (b.unread /\ (b.exposed \/ Exposes(b, i)))
      /\ r.blurred = (b.blurred \/ (IsMem(i) /\ i.reloc))
      /\ DOMAIN r = DOMAIN b
  BY <1>3, <1>4 DEF Trail, Rec
<1>7. r \in Rec
  BY <1>3, <1>4 DEF Trail, Rec, Exposes
<1> HIDE DEF r
<1>8. Became(sl, i, r)
  BY <1>1, <1>2, <1>3, <1>5, <1>6, <1>7 DEF Became
<1> QED
  BY <1>8 DEF r
-------------------------------------------------------------------------------
\* Where an instruction of the region and a record of it are.
LEMMA PlaceLemma ==
    ASSUME Region, Machine, NEW sl, WellMade(sl)
    PROVE  /\ sl \in Rec /\ sl.base \in XRegs /\ x[sl.base] \in Int
           /\ sl.data \in (IF rv_mem_is_fp(sl.kind) THEN FRegs ELSE XRegs)
           /\ sl.width = mem_width(sl.kind)
           /\ \A k \in Int : Place(sl, k) \in Cell
<1>1. PICK j \in Insns : LeftBy(sl, j)
  BY DEF WellMade
<1>2. IsInsn(j, XRegs, FRegs)
  BY DEF Region
<1>3. /\ sl \in Rec /\ sl.base \in XRegs
      /\ sl.data \in (IF rv_mem_is_fp(sl.kind) THEN FRegs ELSE XRegs)
      /\ sl.width = mem_width(sl.kind)
  BY <1>1, <1>2 DEF IsInsn, LeftBy, SameSlot, WellMade
<1>4. x[sl.base] \in Int /\ sl.disp \in Int
  BY <1>3 DEF Machine, Word, Rec
<1>5. \A k \in Int : x[sl.base] + sl.disp + k \in Int
  BY <1>4
<1> QED
  BY <1>3, <1>4, <1>5, WrapLemma DEF Place

LEMMA AccessLemma ==
    ASSUME Region, Machine, NEW i \in Insns, IsMem(i)
    PROVE  /\ i.kind \in Loads \cup Stores /\ i.base \in XRegs /\ x[i.base] \in Int
           /\ i.data \in (IF rv_mem_is_fp(i.kind) THEN FRegs ELSE XRegs)
           /\ i.disp \in Int /\ Disp(i) \in Int /\ i.reloc \in BOOLEAN
           /\ mem_width(i.kind) \in {1, 2}
           /\ Wrap(x[i.base] + Disp(i)) \in Cell
           /\ Wrap(x[i.base] + Disp(i)) \in Touched(i) /\ Touched(i) \subseteq Cell
<1>1. IsInsn(i, XRegs, FRegs)
  BY DEF Region
<1>2. /\ i.kind \in Loads \cup Stores /\ i.base \in XRegs
      /\ i.data \in (IF rv_mem_is_fp(i.kind) THEN FRegs ELSE XRegs)
      /\ i.disp \in Int /\ Disp(i) \in Int /\ i.reloc \in BOOLEAN
  BY <1>1 DEF IsInsn, Disp, LinkedDisp
<1>3. x[i.base] \in Int
  BY <1>2 DEF Machine, Word
<1>4. mem_width(i.kind) \in {1, 2}
  BY <1>2, KindLemma
<1>5. 0 \in 0 .. mem_width(i.kind) - 1 /\ x[i.base] + Disp(i) + 0 = x[i.base] + Disp(i)
  BY <1>2, <1>3, <1>4
<1>6. \A k \in 0 .. mem_width(i.kind) - 1 : x[i.base] + Disp(i) + k \in Int
  BY <1>2, <1>3
<1> QED
  BY <1>2, <1>3, <1>4, <1>5, <1>6, WrapLemma DEF Touched

\* Two near accesses touch bytes less than the address space apart.
LEMMA SpreadLemma ==
    ASSUME NEW d \in Int, NEW v \in {1, 2}, NEW w \in {1, 2}, d + v <= 4, w - d <= 4,
           NEW k \in 0 .. v - 1, NEW l \in 0 .. w - 1
    PROVE  d + k - l \in -3 .. 3
<1>1. d + k - l <= 3 /\ -3 <= d + k - l
  OBVIOUS
<1> QED
  BY <1>1

\* An access that may not touch a record's place does not.
LEMMA ApartLemma ==
    ASSUME Region, Machine, NEW i \in Insns, IsMem(i), ~i.reloc,
           NEW sl, WellMade(sl), ~MayTouch(sl, i), NEW k \in 0 .. sl.width - 1
    PROVE  Place(sl, k) \notin Touched(i)
<1>1. SUFFICES ASSUME NEW l \in 0 .. mem_width(i.kind) - 1,
                      Place(sl, k) = Wrap(x[i.base] + Disp(i) + l)
               PROVE  FALSE
  BY DEF Touched
<1>2. PICK j \in Insns : LeftBy(sl, j)
  BY DEF WellMade
<1>3. Near(i, j) /\ Near(j, i)
  BY <1>2 DEF LeftBy, Region
<1>4. /\ sl.disp = j.disp /\ sl.width = mem_width(j.kind)
  BY <1>2 DEF LeftBy, SameSlot
<1>5. /\ i.disp \in Int /\ sl.disp \in Int /\ x[i.base] \in Int
      /\ mem_width(i.kind) \in {1, 2} /\ sl.width \in {1, 2}
  BY AccessLemma, PlaceLemma DEF Rec
<1>6. sl.base = i.base /\ ~ranges_overlap(sl.disp, sl.width, i.disp, mem_width(i.kind))
  BY DEF MayTouch
<1>7. Disp(i) = i.disp
  BY DEF Disp
<1> DEFINE m == x[i.base] + sl.disp + k
           n == x[i.base] + i.disp + l
<1>8. m - n \in -3 .. 3
  <2>1. /\ (sl.disp - i.disp) + sl.width <= 4
        /\ mem_width(i.kind) - (sl.disp - i.disp) <= 4
        /\ sl.disp - i.disp \in Int
    BY <1>3, <1>4, <1>5 DEF Near
  <2>2. (sl.disp - i.disp) + k - l \in -3 .. 3
    BY <1>5, <2>1, SpreadLemma
  <2>3. k \in Int /\ l \in Int
    BY <1>5
  <2>4. m - n = (sl.disp - i.disp) + k - l
    BY <1>5, <2>3
  <2> QED
    BY <2>2, <2>4
<1>9. m \in Int /\ n \in Int /\ Wrap(m) = Wrap(n)
  BY <1>1, <1>5, <1>6, <1>7 DEF Place
<1>10. m = n
  BY <1>8, <1>9, WrapLemma
<1> QED
  BY <1>5, <1>6, <1>10 DEF ranges_overlap
-------------------------------------------------------------------------------
\* What a store leaves in memory.
LEMMA StoreLemma ==
    ASSUME Region, Machine, NEW i \in Insns, IsStore(i), Run(i)
    PROVE  /\ x' = x /\ f' = f
           /\ mem' = [c \in Cell |->
                        IF c \in Touched(i)
                        THEN Part(IF rv_mem_is_fp(i.kind) THEN f[i.data] ELSE x[i.data],
                                  IF c = Wrap(x[i.base] + Disp(i)) THEN 0 ELSE 1)
                        ELSE mem[c]]
<1>1. IsMem(i) /\ i.kind \in Stores /\ i.kind \notin Loads
  BY DEF IsStore, Loads, Stores
<1>2. RunMem(i)
  BY <1>1 DEF Run, IsMem
<1> QED
  BY <1>1, <1>2 DEF RunMem

\* A record that is still held after an instruction is still true, and a store still
\* unread may still be dropped.
LEMMA UpdateLemma ==
    ASSUME Region, Machine, NEW i \in Insns, Run(i), Insns' = Insns,
           ~EndsPlaces(i), i.op # "unreadable",
           NEW sl, WellMade(sl), Mirrors(sl), Overwritable(sl),
           NEW r, r = Updated(sl, i)
    PROVE  WellMade(r)' /\ Mirrors(r)' /\ Overwritable(r)'
<1>0. Became(sl, i, r)
  BY UpdatedLemma DEF WellMade
<1>1. /\ sl \in Rec /\ r \in Rec
      /\ r.base = sl.base /\ r.disp = sl.disp /\ r.width = sl.width
      /\ r.kind = sl.kind /\ r.data = sl.data
  BY <1>0 DEF Became, WellMade
<1>2. PICK j \in Insns : LeftBy(sl, j)
  BY DEF WellMade
<1>3. WellMade(r)'
  BY <1>1, <1>2 DEF WellMade, LeftBy, SameSlot
<1>4. /\ sl.base \in XRegs /\ x[sl.base] \in Int
      /\ sl.data \in (IF rv_mem_is_fp(sl.kind) THEN FRegs ELSE XRegs)
  BY PlaceLemma
<1>5. /\ i.op \notin {"region", "env", "unreadable", "vector", "fence", "amo", "csr"}
      /\ i.op \in {"mem", "li", "comp", "other", "fother", "branch"}
  BY DEF EndsPlaces, Region, IsInsn
<1>6. /\ \A s \in XRegs : s \notin XWritten(i) => x'[s] = x[s]
      /\ \A s \in FRegs : s \notin FWritten(i) => f'[s] = f[s]
      /\ ~IsStore(i) => mem' = mem
  BY <1>5, RunLemma
<1>7. sl.base \notin XWritten(i) => \A k \in Int : Place(r, k)' = Place(sl, k)
  BY <1>1, <1>4, <1>6 DEF Place
<1>8. ASSUME r.held, ~r.blurred
      PROVE  Mirrors(r)'
  <2>1. /\ sl.held /\ ~sl.blurred /\ sl.base \notin XWritten(i)
        /\ sl.data \notin (IF rv_mem_is_fp(sl.kind) THEN FWritten(i) ELSE XWritten(i))
        /\ IsStore(i) => ~MayTouch(sl, i)
        /\ ~(IsMem(i) /\ i.reloc)
    BY <1>0, <1>8 DEF Became
  <2>2. Holding(r)' = Holding(sl)
    <3>1. CASE rv_mem_is_fp(sl.kind)
      <4>1. sl.data \in FRegs /\ sl.data \notin FWritten(i)
        BY <1>4, <2>1, <3>1
      <4> QED
        BY <1>1, <1>6, <3>1, <4>1 DEF Holding
    <3>2. CASE ~rv_mem_is_fp(sl.kind)
      <4>1. sl.data \in XRegs /\ sl.data \notin XWritten(i)
        BY <1>4, <2>1, <3>2
      <4> QED
        BY <1>1, <1>6, <3>2, <4>1 DEF Holding
    <3> QED
      BY <3>1, <3>2
  <2>3. \A k \in 0 .. sl.width - 1 : mem'[Place(sl, k)] = mem[Place(sl, k)]
    <3>1. CASE IsStore(i)
      <4>1. IsMem(i) /\ ~i.reloc /\ ~MayTouch(sl, i)
        BY <2>1, <3>1 DEF IsStore
      <4>2. \A k \in 0 .. sl.width - 1 : Place(sl, k) \notin Touched(i) /\ Place(sl, k) \in Cell
        BY <4>1, ApartLemma, PlaceLemma
      <4> QED
        BY <3>1, <4>2, StoreLemma
    <3>2. CASE ~IsStore(i)
      BY <1>6, <3>2
    <3> QED
      BY <3>1, <3>2
  <2>4. CASE rv_mem_is_store(sl.kind)
    <3>1. \A k \in 0 .. sl.width - 1 : mem[Place(sl, k)] = Part(Holding(sl), k)
      BY <2>1, <2>4 DEF Mirrors
    <3>2. \A k \in 0 .. sl.width - 1 : Place(r, k)' = Place(sl, k)
      BY <1>7, <2>1
    <3> QED
      BY <1>1, <2>2, <2>3, <2>4, <3>1, <3>2 DEF Mirrors
  <2>5. CASE ~rv_mem_is_store(sl.kind)
    <3>1. LeftByX0Load(sl) \/ Holding(sl) = Loaded(mem, Place(sl, 0), sl.kind)
      BY <2>1, <2>5 DEF Mirrors
    <3>2. Place(r, 0)' = Place(sl, 0) /\ LeftByX0Load(r) = LeftByX0Load(sl)
      BY <1>1, <1>7, <2>1 DEF LeftByX0Load
    <3>3. Loaded(mem', Place(sl, 0), sl.kind) = Loaded(mem, Place(sl, 0), sl.kind)
      <4>1. sl.kind \in Loads /\ sl.width = mem_width(sl.kind) /\ sl.width \in {1, 2}
        BY <1>1, <2>5, PlaceLemma DEF Rec, rv_mem_is_store
      <4>2. mem'[Place(sl, 0)] = mem[Place(sl, 0)]
        BY <2>3, <4>1
      <4>3. Wrap(Place(sl, 0) + 1) = Place(sl, 1)
        <5>1. x[sl.base] + sl.disp + 0 \in Int /\ x[sl.base] + sl.disp + 0 + 1 = x[sl.base] + sl.disp + 1
          BY <1>1, <1>4 DEF Rec
        <5> QED
          BY <5>1, WrapLemma DEF Place
      <4>4. sl.kind \in {"ld", "fld"} => mem'[Place(sl, 1)] = mem[Place(sl, 1)]
        BY <2>3, <4>1 DEF mem_width
      <4> QED
        BY <4>1, <4>2, <4>3, <4>4 DEF Loaded, Loads
    <3> QED
      BY <1>1, <2>2, <2>5, <3>1, <3>2, <3>3 DEF Mirrors
  <2> QED
    BY <2>4, <2>5
<1>9. ASSUME r.unread, ~r.blurred
      PROVE  Overwritable(r)'
  <2>1. /\ sl.unread /\ ~sl.blurred /\ sl.base \notin XWritten(i) /\ i.op # "branch"
        /\ IsLoad(i) => ~MayTouch(sl, i)
        /\ ~(IsMem(i) /\ i.reloc)
        /\ r.own \subseteq sl.own /\ (r.exposed => sl.exposed \/ Exposes(sl, i))
    BY <1>0, <1>9 DEF Became
  <2>2. ~sl.exposed /\ sl.own \subseteq {Place(sl, k) : k \in 0 .. sl.width - 1}
    BY <2>1 DEF Overwritable
  <2>3. ASSUME IsLoad(i) PROVE sl.own \cap Touched(i) = {}
    <3>1. IsMem(i) /\ ~i.reloc /\ ~MayTouch(sl, i)
      BY <2>1, <2>3 DEF IsLoad
    <3>2. \A k \in 0 .. sl.width - 1 : Place(sl, k) \notin Touched(i)
      BY <3>1, ApartLemma
    <3> QED
      BY <2>2, <3>2
  <2>4. ~Exposes(sl, i)
    BY <1>5, <2>1, <2>3 DEF Exposes
  <2>5. r.own \subseteq {Place(sl, k) : k \in 0 .. sl.width - 1}
    BY <2>1, <2>2
  <2>6. \A k \in 0 .. r.width - 1 : Place(r, k)' = Place(sl, k)
    BY <1>7, <2>1
  <2>7. r.own \subseteq {Place(r, k)' : k \in 0 .. r.width - 1}
    BY <1>1, <2>5, <2>6
  <2> QED
    BY <2>1, <2>2, <2>4, <2>7 DEF Overwritable
<1>10. (~r.held \/ r.blurred => Mirrors(r)') /\ (~r.unread \/ r.blurred => Overwritable(r)')
  BY DEF Mirrors, Overwritable
<1> QED
  BY <1>3, <1>8, <1>9, <1>10
-------------------------------------------------------------------------------
\* The record an access leaves says what is so after it.
LEMMA RecordLemma ==
    ASSUME Region, Machine, NEW i \in Insns, IsMem(i), Run(i), Insns' = Insns,
           i.base \notin XWritten(i),
           NEW r, r = Record(i)
    PROVE  WellMade(r)' /\ Mirrors(r)' /\ Overwritable(r)'
<1> DEFINE a == Wrap(x[i.base] + Disp(i))
           w == mem_width(i.kind)
<1>1. /\ i.kind \in Loads \cup Stores /\ i.base \in XRegs /\ x[i.base] \in Int
      /\ i.data \in (IF rv_mem_is_fp(i.kind) THEN FRegs ELSE XRegs)
      /\ i.disp \in Int /\ i.reloc \in BOOLEAN /\ w \in {1, 2}
      /\ a \in Cell /\ a \in Touched(i) /\ Touched(i) \subseteq Cell
  BY AccessLemma
<1>2. i.data \in Nat /\ i.base \in Nat
  BY <1>1 DEF Region
<1>3. /\ r.base = i.base /\ r.disp = i.disp /\ r.kind = i.kind /\ r.data = i.data
      /\ r.width = w /\ r.blurred = i.reloc /\ ~r.exposed
      /\ r.unread => IsStore(i) /\ r.own = Touched(i)
      /\ r.own \subseteq Cell
  BY <1>1 DEF Record
<1>4. WellMade(r)'
  <2>1. r \in Rec
    BY <1>1, <1>2 DEF Record, Rec, IsStore
  <2> QED
    BY <1>3, <2>1 DEF WellMade, LeftBy, SameSlot
<1>5. x'[i.base] = x[i.base]
  BY <1>1, RunLemma DEF IsMem
<1>6. ~i.reloc => \A k \in Int : Place(r, k)' = Wrap(x[i.base] + Disp(i) + k)
  BY <1>3, <1>5 DEF Place, Disp
<1>7. ~i.reloc => Place(r, 0)' = a
  <2>1. x[i.base] + Disp(i) + 0 = x[i.base] + Disp(i)
    BY AccessLemma
  <2> QED
    BY <1>6, <2>1
<1>8. Overwritable(r)'
  BY <1>3, <1>6 DEF Overwritable, Touched
<1>9. ASSUME ~i.reloc, IsStore(i)
      PROVE  Mirrors(r)'
  <2>1. rv_mem_is_store(r.kind)
    BY <1>3, <1>9 DEF IsStore, rv_mem_is_store
  <2>2. Holding(r)' = (IF rv_mem_is_fp(i.kind) THEN f[i.data] ELSE x[i.data])
    BY <1>3, <1>9, StoreLemma DEF Holding
  <2>3. mem'[a] = Part(Holding(r)', 0)
    BY <1>1, <1>9, <2>2, StoreLemma
  <2>4. ASSUME w = 2
        PROVE  mem'[Place(r, 1)'] = Part(Holding(r)', 1)
    <3> DEFINE c == Wrap(x[i.base] + Disp(i) + 1)
    <3>1. 1 \in 0 .. mem_width(i.kind) - 1
      BY <2>4
    <3>2. c \in Touched(i)
      BY <3>1 DEF Touched
    <3>3. x[i.base] + Disp(i) \in Int
      BY AccessLemma
    <3>4. c # a
      BY <3>3, WrapLemma
    <3> HIDE DEF a
    <3>5. mem'[c] = Part(IF rv_mem_is_fp(i.kind) THEN f[i.data] ELSE x[i.data], 1)
      BY <1>1, <1>9, <3>2, <3>4, StoreLemma DEF a
    <3> QED
      BY <1>6, <1>9, <2>2, <3>5
  <2>5. ASSUME NEW k \in 0 .. w - 1
        PROVE  mem'[Place(r, k)'] = Part(Holding(r)', k)
    <3>1. k = 0 \/ (k = 1 /\ w = 2)
      BY <1>1
    <3> QED
      BY <1>7, <1>9, <2>3, <2>4, <3>1
  <2> QED
    BY <1>3, <2>1, <2>5 DEF Mirrors
<1>10. ASSUME ~i.reloc, ~IsStore(i)
       PROVE  Mirrors(r)'
  <2>1. IsLoad(i) /\ i.kind \in Loads
    BY <1>1, <1>10 DEF IsLoad, IsStore
  <2>2. ~rv_mem_is_store(r.kind) /\ RunMem(i)
    BY <1>3, <2>1 DEF rv_mem_is_store, Loads, Stores, Run, IsMem
  <2>3. CASE rv_mem_is_fp(i.kind)
    <3>1. f' = [f EXCEPT ![i.data] = Loaded(mem, a, i.kind)] /\ mem' = mem
      BY <2>1, <2>2, <2>3 DEF RunMem, rv_mem_is_fp
    <3>2. Holding(r)' = Loaded(mem', a, i.kind)
      BY <1>1, <1>3, <2>3, <3>1 DEF Holding, Machine, FRegs
    <3> QED
      BY <1>3, <1>7, <1>10, <2>2, <3>2 DEF Mirrors
  <2>4. CASE ~rv_mem_is_fp(i.kind)
    <3>1. SetX(i.data, Loaded(mem, a, i.kind)) /\ mem' = mem
      BY <2>1, <2>2, <2>4 DEF RunMem, rv_mem_is_fp
    <3>2. Loaded(mem, a, i.kind) \in Word /\ i.data \in XRegs
      BY <1>1, <2>1, <2>4, LoadedLemma DEF Machine
    <3>3. CASE i.data = 0
      <4>1. LeftByX0Load(r)
        BY <1>3, <2>1, <2>4, <3>3 DEF LeftByX0Load, rv_mem_is_fp
      <4>2. LeftByX0Load(r)'
        BY <4>1 DEF LeftByX0Load
      <4> QED
        BY <2>2, <4>2 DEF Mirrors
    <3>4. CASE i.data # 0
      <4>1. x'[i.data] = Loaded(mem', a, i.kind)
        BY <3>1, <3>2, <3>4, SetLemma
      <4>2. Holding(r)' = Loaded(mem', a, i.kind)
        BY <1>3, <2>4, <4>1 DEF Holding
      <4> QED
        BY <1>3, <1>7, <1>10, <2>2, <4>2 DEF Mirrors
    <3> QED
      BY <3>3, <3>4
  <2> QED
    BY <2>3, <2>4
<1>11. i.reloc => Mirrors(r)'
  BY <1>3 DEF Mirrors
<1> QED
  BY <1>1, <1>4, <1>8, <1>9, <1>10, <1>11
-------------------------------------------------------------------------------
\* Two records of one place: of different kinds, and not both held stores.
Distinct(a, b) ==
    a.base = b.base /\ a.disp = b.disp =>
        a.kind # b.kind /\ ~(a.held /\ b.held /\ {a.kind, b.kind} \subseteq Stores)

\* A new record is distinct from the others its access has updated.
LEMMA NewLemma ==
    ASSUME Region, Machine, NEW i \in Insns, IsMem(i), NEW sl \in Rec,
           NEW r, Became(sl, i, r), ~SameSlot(r, i)
    PROVE  Distinct(Record(i), r) /\ Distinct(r, Record(i))
<1>1. /\ i.disp \in Int /\ mem_width(i.kind) \in {1, 2} /\ sl.disp \in Int /\ sl.width \in {1, 2}
  BY AccessLemma DEF Rec
<1>2. /\ Record(i).base = i.base /\ Record(i).disp = i.disp /\ Record(i).kind = i.kind
  BY DEF Record
<1>3. r.base = sl.base /\ r.disp = sl.disp /\ (r.held /\ IsStore(i) => ~MayTouch(sl, i))
  BY DEF Became
<1>4. ASSUME r.base = i.base, r.disp = i.disp
      PROVE  r.kind # i.kind /\ (i.kind \in Stores => ~r.held)
  <2>1. MayTouch(sl, i)
    BY <1>1, <1>3, <1>4 DEF MayTouch, ranges_overlap
  <2> QED
    BY <1>3, <1>4, <2>1 DEF SameSlot, IsStore
<1> QED
  BY <1>2, <1>4 DEF Distinct

\* What is remembered of memory stays true, and each place has one record of a kind.
LEMMA SlotsLemma ==
    ASSUME Region, Machine, SlotsTrue, OneHeldStore,
           NEW i \in Insns, Run(i), Insns' = Insns, ~EndsPlaces(i), i.op # "unreadable",
           slots' = LET ss == [n \in DOMAIN slots |-> Updated(slots[n], i)]
                    IN  IF IsMem(i) THEN Recorded(ss, i) ELSE ss
    PROVE  SlotsTrue' /\ OneHeldStore'
<1> DEFINE ss == [n \in DOMAIN slots |-> Updated(slots[n], i)]
           True(r) == WellMade(r) /\ Mirrors(r) /\ Overwritable(r)
<1>1. /\ slots \in Seq(Rec) /\ Len(slots) \in Nat /\ Len(slots) <= RVL_SLOTS
      /\ DOMAIN slots = 1 .. Len(slots)
      /\ \A n \in DOMAIN slots : slots[n] \in Rec
  BY DEF SlotsTrue
<1>2. \A n \in DOMAIN slots : ss[n] \in Rec /\ Became(slots[n], i, ss[n])
  <2>1. \A n \in DOMAIN slots : Became(slots[n], i, Updated(slots[n], i))
    BY <1>1, UpdatedLemma
  <2>2. \A n \in DOMAIN slots : ss[n] = Updated(slots[n], i)
    OBVIOUS
  <2> HIDE DEF ss
  <2>3. \A n \in DOMAIN slots : Became(slots[n], i, ss[n])
    BY <2>1, <2>2
  <2> QED
    BY <2>3 DEF Became
<1>3. ss \in Seq(Rec) /\ Len(ss) = Len(slots) /\ DOMAIN ss = DOMAIN slots
  <2>1. ss \in [1 .. Len(slots) -> Rec]
    BY <1>1, <1>2
  <2> QED
    BY <1>1, <2>1
<1>4. \A m, n \in DOMAIN ss : m # n => Distinct(ss[m], ss[n])
  <2>1. \A m, n \in DOMAIN slots : m # n => Distinct(slots[m], slots[n])
    BY DEF OneHeldStore, Distinct
  <2> QED
    BY <1>2, <1>3, <2>1 DEF Distinct, Became
<1>5. ASSUME NEW r, \E n \in DOMAIN ss : r = ss[n]
      PROVE  True(r)'
  <2>1. PICK n \in DOMAIN slots : r = Updated(slots[n], i)
    BY <1>3, <1>5
  <2>2. PICK sl : sl = slots[n]
    OBVIOUS
  <2>3. WellMade(sl) /\ Mirrors(sl) /\ Overwritable(sl)
    BY <2>2 DEF SlotsTrue, WellMade, Mirrors, Overwritable, Place, Holding
  <2> QED
    BY <2>1, <2>2, <2>3, UpdateLemma
<1> SUFFICES /\ slots' \in Seq(Rec) /\ Len(slots') <= RVL_SLOTS
             /\ \A r : (\E n \in DOMAIN slots' : r = slots'[n]) => True(r)'
             /\ \A m, n \in DOMAIN slots' : m # n => Distinct(slots'[m], slots'[n])
  <2>1. ASSUME \A r : (\E n \in DOMAIN slots' : r = slots'[n]) => True(r)'
        PROVE  \A n \in DOMAIN slots' :
                (WellMade(slots[n]) /\ Mirrors(slots[n]) /\ Overwritable(slots[n]))'
    BY <2>1 DEF WellMade, Mirrors, Overwritable, Place, Holding
  <2>2. (\A m, n \in DOMAIN slots' : m # n => Distinct(slots'[m], slots'[n])) => OneHeldStore'
    BY DEF OneHeldStore, Distinct
  <2> QED
    BY <2>1, <2>2 DEF SlotsTrue
<1> HIDE DEF ss, True
<1>6. CASE ~IsMem(i) \/ (IsMem(i) /\ i.base \in XWritten(i))
  <2>1. slots' = ss
    BY <1>6 DEF Recorded, ss
  <2> QED
    BY <1>1, <1>3, <1>4, <1>5, <2>1
<1>7. CASE IsMem(i) /\ i.base \notin XWritten(i)
  <2>1. PICK r : r = Record(i)
    OBVIOUS
  <2>2. True(r)'
    BY <1>7, <2>1, RecordLemma DEF True
  <2>3. r \in Rec
    BY <2>2 DEF True, WellMade
  <2>4. slots' = IF \E n \in DOMAIN ss : SameSlot(ss[n], i)
                 THEN [n \in DOMAIN ss |-> IF SameSlot(ss[n], i) THEN r ELSE ss[n]]
                 ELSE IF Room(ss) THEN Append(ss, r) ELSE ss
    BY <1>7, <2>1 DEF Recorded, ss
  <2>5. \A n \in DOMAIN ss : ~SameSlot(ss[n], i) => Distinct(r, ss[n]) /\ Distinct(ss[n], r)
    BY <1>1, <1>2, <1>3, <1>7, <2>1, NewLemma
  <2>6. CASE \E n \in DOMAIN ss : SameSlot(ss[n], i)
    <3>1. slots' = [n \in DOMAIN ss |-> IF SameSlot(ss[n], i) THEN r ELSE ss[n]]
      BY <2>4, <2>6
    <3>2. slots' \in [1 .. Len(slots) -> Rec] /\ DOMAIN slots' = DOMAIN ss
      BY <1>1, <1>2, <1>3, <2>3, <3>1
    <3>3. slots' \in Seq(Rec) /\ Len(slots') = Len(slots)
      BY <1>1, <3>2
    <3>4. \A s : (\E n \in DOMAIN slots' : s = slots'[n]) => True(s)'
      BY <1>5, <2>2, <3>1
    <3>5. \A m, n \in DOMAIN ss : SameSlot(ss[m], i) /\ SameSlot(ss[n], i) => m = n
      BY <1>4 DEF Distinct, SameSlot
    <3>6. \A m, n \in DOMAIN slots' : m # n => Distinct(slots'[m], slots'[n])
      BY <1>4, <2>5, <3>1, <3>5
    <3> QED
      BY <1>1, <3>3, <3>4, <3>6
  <2>7. CASE ~(\E n \in DOMAIN ss : SameSlot(ss[n], i)) /\ Room(ss)
    <3>1. slots' = Append(ss, r)
      BY <2>4, <2>7
    <3>2. /\ slots' \in Seq(Rec) /\ Len(slots') = Len(slots) + 1
          /\ DOMAIN slots' = 1 .. Len(slots) + 1
          /\ \A n \in 1 .. Len(slots) : slots'[n] = ss[n]
          /\ slots'[Len(slots) + 1] = r
      <4>1. /\ Append(ss, r) \in Seq(Rec) /\ Len(Append(ss, r)) = Len(ss) + 1
            /\ \A n \in 1 .. Len(ss) : Append(ss, r)[n] = ss[n]
            /\ Append(ss, r)[Len(ss) + 1] = r
        BY <1>3, <2>3, AppendProperties
      <4>2. DOMAIN Append(ss, r) = 1 .. Len(ss) + 1
        BY <1>1, <1>3, <4>1
      <4> QED
        BY <1>1, <1>3, <3>1, <4>1, <4>2
    <3>3. Len(slots') <= RVL_SLOTS
      BY <1>1, <1>3, <2>7, <3>2, WindowAssumption DEF Room
    <3>4. \A n \in DOMAIN slots' : \/ n \in DOMAIN ss /\ slots'[n] = ss[n]
                                   \/ n = Len(slots) + 1 /\ slots'[n] = r
      BY <1>1, <1>3, <3>2
    <3>5. \A s : (\E n \in DOMAIN slots' : s = slots'[n]) => True(s)'
      BY <1>5, <2>2, <3>4
    <3>6. \A m, n \in DOMAIN slots' : m # n => Distinct(slots'[m], slots'[n])
      BY <1>4, <2>5, <2>7, <3>4
    <3> QED
      BY <3>2, <3>3, <3>5, <3>6
  <2>8. CASE ~(\E n \in DOMAIN ss : SameSlot(ss[n], i)) /\ ~Room(ss)
    <3>1. slots' = ss
      BY <2>4, <2>8
    <3> QED
      BY <1>1, <1>3, <1>4, <1>5, <3>1
  <2> QED
    BY <2>6, <2>7, <2>8
<1> QED
  BY <1>6, <1>7
-------------------------------------------------------------------------------
\* A constant stays in its register until the register is written.
LEMMA ConstsLemma ==
    ASSUME Region, Machine, ConstsTrue,
           NEW i \in Insns, Run(i), i.op # "unreadable",
           consts' = IF EndsPlaces(i) THEN NoConsts
                     ELSE IF i.op = "li" /\ i.rd # 0
                          THEN [ConstsAfterWrite(i) EXCEPT ![i.rd] = i.val]
                          ELSE ConstsAfterWrite(i)
    PROVE  ConstsTrue'
<1>1. XRegs' = XRegs
  BY RunLemma
<1>2. CASE EndsPlaces(i)
  BY <1>1, <1>2 DEF NoConsts, ConstsTrue
<1>3. CASE ~EndsPlaces(i)
  <2>1. \A r \in XRegs : r \notin XWritten(i) => x'[r] = x[r]
    BY <1>3, RunLemma DEF EndsPlaces
  <2>2. /\ DOMAIN ConstsAfterWrite(i) = XRegs
        /\ \A r \in XRegs : ConstsAfterWrite(i)[r] \in {None, 0, x'[r]}
    BY <2>1 DEF ConstsAfterWrite, ConstsTrue
  <2>3. CASE i.op = "li" /\ i.rd # 0
    <3>1. i.rd \in XRegs /\ Constant(i) \in Word /\ i.val \in {0, Constant(i)}
      BY <2>3 DEF Region, IsInsn, Constant, LinkedVal, Word
    <3>2. SetX(i.rd, Constant(i))
      BY <2>3 DEF Run
    <3>3. x'[i.rd] = Constant(i)
      BY <2>3, <3>1, <3>2, SetLemma
    <3>4. consts' = [ConstsAfterWrite(i) EXCEPT ![i.rd] = i.val]
      BY <1>3, <2>3
    <3> QED
      BY <1>1, <2>2, <3>1, <3>3, <3>4 DEF ConstsTrue
  <2>4. CASE ~(i.op = "li" /\ i.rd # 0)
    BY <1>1, <1>3, <2>2, <2>4 DEF ConstsTrue
  <2> QED
    BY <2>3, <2>4
<1> QED
  BY <1>2, <1>3

\* A computation stays true while neither its register nor a source is written.
LEMMA CompKept ==
    ASSUME XRegs' = XRegs, NEW r \in XRegs, NEW k, CompTrue(r, k),
           \A s \in XRegs \cap {r, k.rs1, k.rs2} : x'[s] = x[s]
    PROVE  CompTrue(r, k)'
<1>1. x'[r] = x[r]
  OBVIOUS
<1>2. \A s \in {k.rs1, k.rs2} : (IF s = -1 THEN 0 ELSE x'[s]) = (IF s = -1 THEN 0 ELSE x[s])
  BY DEF CompTrue
<1> QED
  BY <1>1, <1>2 DEF CompTrue, Computed, Operand

LEMMA CompsLemma ==
    ASSUME Region, Machine, CompsTrue,
           NEW i \in Insns, Run(i), i.op # "unreadable",
           comps' = IF EndsAll(i) THEN NoComps
                    ELSE IF i.op = "comp" /\ i.rd # 0 /\ ~CompLost(i.key, i)
                         THEN [CompsAfterWrite(i) EXCEPT ![i.rd] = i.key]
                         ELSE CompsAfterWrite(i)
    PROVE  CompsTrue'
<1>1. XRegs' = XRegs
  BY RunLemma
<1>2. CASE EndsAll(i)
  BY <1>1, <1>2 DEF NoComps, CompsTrue
<1>3. CASE ~EndsAll(i)
  <2>1. \A r \in XRegs : r \notin XWritten(i) => x'[r] = x[r]
    BY <1>3, RunLemma DEF EndsAll
  <2>2. ASSUME NEW r \in XRegs, NEW k, k = CompsAfterWrite(i)[r], k # None
        PROVE  CompTrue(r, k)'
    <3>1. k = comps[r] /\ r \notin XWritten(i) /\ ~CompLost(k, i)
      BY <2>2 DEF CompsAfterWrite
    <3>2. CompTrue(r, k)
      BY <2>2, <3>1 DEF CompsTrue
    <3>3. \A s \in XRegs \cap {r, k.rs1, k.rs2} : x'[s] = x[s]
      BY <2>1, <3>1 DEF CompLost
    <3> QED
      BY <1>1, <3>2, <3>3, CompKept
  <2>3. DOMAIN CompsAfterWrite(i) = XRegs
    BY DEF CompsAfterWrite
  <2>4. ASSUME i.op = "comp", i.rd # 0, ~CompLost(i.key, i)
        PROVE  i.rd \in XRegs /\ CompTrue(i.rd, i.key)'
    <3>1. /\ i.rd \in XRegs /\ {i.key.rs1, i.key.rs2} \subseteq XRegs \cup {-1}
          /\ i.key.imm \in Int
      BY <2>4 DEF Region, IsInsn
    <3>2. XWritten(i) = {i.rd}
      BY <2>4 DEF XWritten, IsLoad, IsMem
    <3>3. i.key.rs1 # i.rd /\ i.key.rs2 # i.rd
      BY <2>4, <3>2 DEF CompLost
    <3>4. SetX(i.rd, Computed(i.key))
      BY <2>4 DEF Run
    <3>5. x'[i.rd] = Computed(i.key)
      BY <2>4, <3>1, <3>4, ComputedLemma, SetLemma
    <3>6. \A s \in {i.key.rs1, i.key.rs2} :
            (IF s = -1 THEN 0 ELSE x'[s]) = (IF s = -1 THEN 0 ELSE x[s])
      BY <2>1, <3>1, <3>2, <3>3
    <3>7. Computed(i.key)' = Computed(i.key)
      BY <3>6 DEF Computed, Operand
    <3> QED
      BY <1>1, <3>1, <3>3, <3>5, <3>7 DEF CompTrue
  <2>5. DOMAIN comps' = XRegs
    BY <1>3, <2>3
  <2>6. ASSUME NEW r \in XRegs, NEW k, k = comps'[r], k # None
        PROVE  CompTrue(r, k)'
    <3>1. CASE i.op = "comp" /\ i.rd # 0 /\ ~CompLost(i.key, i) /\ r = i.rd
      <4>1. k = i.key
        BY <1>3, <2>3, <2>6, <3>1
      <4> QED
        BY <2>4, <3>1, <4>1
    <3>2. CASE ~(i.op = "comp" /\ i.rd # 0 /\ ~CompLost(i.key, i) /\ r = i.rd)
      <4>1. k = CompsAfterWrite(i)[r]
        BY <1>3, <2>3, <2>6, <3>2
      <4> QED
        BY <2>2, <2>6, <4>1
    <3> QED
      BY <3>1, <3>2
  <2>7. \A r \in XRegs' : comps'[r] = None \/ CompTrue(r, comps[r])'
    <3>1. \A r \in XRegs : \A k : k = comps'[r] /\ k # None => CompTrue(r, k)'
      BY <2>6
    <3> QED
      BY <1>1, <3>1 DEF CompTrue, Computed, Operand
  <2> QED
    BY <1>1, <2>5, <2>7 DEF CompsTrue, CompTrue, Computed, Operand
<1> QED
  BY <1>2, <1>3
-------------------------------------------------------------------------------
\* Of empty tables everything is true.
LEMMA EmptyLemma ==
    ASSUME slots = <<>>, consts = NoConsts, comps = NoComps
    PROVE  SlotsTrue /\ OneHeldStore /\ ConstsTrue /\ CompsTrue /\ Forgotten
<1>1. slots \in Seq(Rec) /\ Len(slots) = 0 /\ DOMAIN slots = {}
  OBVIOUS
<1>2. Len(slots) <= RVL_SLOTS
  BY <1>1, WindowAssumption
<1> QED
  BY <1>1, <1>2 DEF SlotsTrue, OneHeldStore, ConstsTrue, CompsTrue, Forgotten, NoConsts, NoComps

LEMMA EmptyNext ==
    ASSUME slots' = <<>>, consts' = NoConsts', comps' = NoComps'
    PROVE  (SlotsTrue /\ OneHeldStore /\ ConstsTrue /\ CompsTrue /\ Forgotten)'
<1>1. slots' \in Seq(Rec) /\ Len(slots') = 0 /\ DOMAIN slots' = {}
  OBVIOUS
<1>2. Len(slots') <= RVL_SLOTS
  BY <1>1, WindowAssumption
<1> QED
  BY <1>1, <1>2 DEF SlotsTrue, OneHeldStore, ConstsTrue, CompsTrue, Forgotten, NoConsts, NoComps

LEMMA InitLemma == Init => IInv
<1> SUFFICES ASSUME Init PROVE IInv
  OBVIOUS
<1>1. PICK g \in Regions : /\ Insns = g.insns
                           /\ x \in {r \in [g.xregs -> Word] : 0 \in g.xregs => r[0] = 0}
                           /\ f \in [g.fregs -> Word]
  BY DEF Init
<1>2. XRegs = g.xregs /\ FRegs = g.fregs
  BY <1>1 DEF XRegs, FRegs
<1>3. Region
  BY <1>1, <1>2, WindowAssumption DEF Region
<1>4. Machine
  BY <1>1, <1>2 DEF Machine, Init
<1>5. atTarget \in BOOLEAN
  BY DEF Init
<1>6. SlotsTrue /\ OneHeldStore /\ ConstsTrue /\ CompsTrue /\ Forgotten
  BY EmptyLemma DEF Init
<1> QED
  BY <1>3, <1>4, <1>5, <1>6 DEF IInv

\* A step of the code and the observation of it.
LEMMA StepLemma ==
    ASSUME IInv, NEW i \in Insns, Step(i)
    PROVE  IInv'
<1>1. /\ Region /\ Machine /\ SlotsTrue /\ OneHeldStore /\ ConstsTrue /\ CompsTrue
      /\ Run(i) /\ Insns' = Insns /\ atTarget' \in BOOLEAN /\ Observe(i, atTarget')
  BY DEF IInv, Step
<1>2. Machine' /\ XRegs' = XRegs /\ FRegs' = FRegs
  BY <1>1, RunLemma
<1>3. Region'
  BY <1>1, <1>2 DEF Region
<1>4. CASE i.op = "unreadable" \/ atTarget'
  <2>1. slots' = <<>> /\ consts' = NoConsts' /\ comps' = NoComps'
    BY <1>1, <1>2, <1>4 DEF Observe, Drop, NoConsts, NoComps
  <2>2. (SlotsTrue /\ OneHeldStore /\ ConstsTrue /\ CompsTrue /\ Forgotten)'
    BY <2>1, EmptyNext
  <2> QED
    BY <1>1, <1>2, <1>3, <2>2 DEF IInv
<1>5. CASE ~(i.op = "unreadable" \/ atTarget')
  <2>1. SlotsTrue' /\ OneHeldStore'
    <3>1. CASE EndsPlaces(i)
      <4>1. slots' = <<>>
        BY <1>1, <1>5, <3>1 DEF Observe
      <4>2. slots' \in Seq(Rec) /\ Len(slots') = 0 /\ DOMAIN slots' = {}
        BY <4>1
      <4> QED
        BY <4>2, WindowAssumption DEF SlotsTrue, OneHeldStore
    <3>2. CASE ~EndsPlaces(i)
      <4>1. slots' = LET ss == [n \in DOMAIN slots |-> Updated(slots[n], i)]
                     IN  IF IsMem(i) THEN Recorded(ss, i) ELSE ss
        BY <1>1, <1>5, <3>2 DEF Observe
      <4> QED
        BY <1>1, <1>5, <3>2, <4>1, SlotsLemma
    <3> QED
      BY <3>1, <3>2
  <2>2. ConstsTrue'
    BY <1>1, <1>5, ConstsLemma DEF Observe
  <2>3. CompsTrue'
    BY <1>1, <1>5, CompsLemma DEF Observe
  <2>4. Forgotten'
    BY <1>5 DEF Forgotten
  <2> QED
    BY <1>1, <1>2, <1>3, <2>1, <2>2, <2>3, <2>4 DEF IInv
<1> QED
  BY <1>4, <1>5

LEMMA ArriveLemma ==
    ASSUME IInv, Arrive
    PROVE  IInv'
<1>1. /\ Region /\ Machine /\ atTarget \in BOOLEAN /\ Forgotten /\ atTarget
      /\ Perturb({"x", "f", "mem"}) /\ Insns' = Insns /\ atTarget' = atTarget
      /\ slots' = slots /\ consts' = consts /\ comps' = comps
  BY DEF IInv, Arrive, window
<1>2. Machine' /\ XRegs' = XRegs /\ FRegs' = FRegs
  BY <1>1, PerturbLemma
<1>3. Region'
  BY <1>1, <1>2 DEF Region
<1>4. slots' = <<>> /\ consts' = NoConsts' /\ comps' = NoComps'
  BY <1>1, <1>2 DEF Forgotten, NoConsts, NoComps
<1>5. (SlotsTrue /\ OneHeldStore /\ ConstsTrue /\ CompsTrue /\ Forgotten)'
  BY <1>4, EmptyNext
<1> QED
  BY <1>1, <1>2, <1>3, <1>5 DEF IInv

LEMMA InvLemma == IInv /\ [Next]_vars => IInv'
<1> SUFFICES ASSUME IInv, [Next]_vars PROVE IInv'
  OBVIOUS
<1>1. ASSUME NEW i \in Insns, Step(i) PROVE IInv'
  BY <1>1, StepLemma
<1>2. CASE Arrive
  BY <1>2, ArriveLemma
<1>3. CASE UNCHANGED vars
  <2>1. Region' /\ Machine' /\ atTarget' \in BOOLEAN
    BY <1>3 DEF vars, machine, window, IInv, Region, Machine, XRegs, FRegs
  <2>2. SlotsTrue' /\ OneHeldStore'
    BY <1>3 DEF vars, machine, window, IInv, SlotsTrue, OneHeldStore, WellMade, Mirrors,
                Overwritable, Place, Holding
  <2>3. ConstsTrue' /\ CompsTrue'
    BY <1>3 DEF vars, machine, window, IInv, ConstsTrue, CompsTrue, CompTrue, Computed,
                Operand, XRegs
  <2>4. Forgotten'
    BY <1>3 DEF vars, machine, window, IInv, Forgotten, NoConsts, NoComps, XRegs
  <2> QED
    BY <2>1, <2>2, <2>3, <2>4 DEF IInv
<1> QED
  BY <1>1, <1>2, <1>3 DEF Next

LEMMA InvHolds == Spec => []IInv
  BY InitLemma, InvLemma, PTL DEF Spec
-------------------------------------------------------------------------------
\* The cells under an access that the linker leaves alone, and what a record held of
\* its place says of them, unless a load of x0 left it: the register holds the first
\* and, of a wide record, both; after a load, just what the load would make of them.
Held(sl, i) ==
    LET a == Wrap(x[i.base] + Disp(i))
        b == Wrap(a + 1)
        v == Holding(sl)
    IN  /\ v \in Word /\ mem[a] \in {0, 1} /\ mem[b] \in {0, 1}
        /\ Part(v, 0) = mem[a]
        /\ sl.width = 2 => v = mem[a] + 2 * mem[b] /\ Part(v, 1) = mem[b]
        /\ sl.kind \in Loads => v = Loaded(mem, a, sl.kind)

LEMMA HeldLemma ==
    ASSUME IInv, NEW i \in Insns, IsMem(i), Linked(i),
           NEW sl \in HeldAt(i), ~sl.blurred, ~LeftByX0Load(sl)
    PROVE  /\ sl \in Rec /\ sl.width = mem_width(sl.kind) /\ sl.base = i.base
           /\ sl.data \in (IF rv_mem_is_fp(sl.kind) THEN FRegs ELSE XRegs)
           /\ Held(sl, i)
<1> DEFINE a == Wrap(x[i.base] + Disp(i))
           b == Wrap(a + 1)
           v == Holding(sl)
<1>1. PICK n \in DOMAIN slots : sl = slots[n]
  BY DEF HeldAt, Records
<1>2. WellMade(sl) /\ Mirrors(sl)
  BY <1>1 DEF IInv, SlotsTrue, WellMade, Mirrors, Place, Holding
<1>3. sl.held /\ sl.base = i.base /\ sl.disp = i.disp /\ Disp(i) = i.disp
  BY DEF HeldAt, Linked, Disp
<1>4. Region /\ Machine
  BY DEF IInv
<1>5. /\ sl \in Rec /\ x[sl.base] \in Int /\ sl.width = mem_width(sl.kind)
      /\ sl.data \in (IF rv_mem_is_fp(sl.kind) THEN FRegs ELSE XRegs)
  BY <1>2, <1>4, PlaceLemma
<1>6. x[i.base] + Disp(i) \in Int
  BY <1>4, AccessLemma
<1>7. a \in Cell /\ b \in Cell /\ b = Wrap(x[i.base] + Disp(i) + 1) /\ a \in Int
  BY <1>6, WrapLemma DEF Cell
<1>8. Place(sl, 0) = a /\ Place(sl, 1) = b
  <2>1. x[i.base] + Disp(i) + 0 = x[i.base] + Disp(i)
    BY <1>6
  <2> QED
    BY <1>3, <1>7, <2>1 DEF Place
<1>9. mem[a] \in {0, 1} /\ mem[b] \in {0, 1}
  BY <1>4, <1>7 DEF Machine
<1>10. v \in Word
  <2>1. CASE rv_mem_is_fp(sl.kind)
    BY <1>4, <1>5, <2>1 DEF Holding, Machine
  <2>2. CASE ~rv_mem_is_fp(sl.kind)
    BY <1>4, <1>5, <2>2 DEF Holding, Machine
  <2> QED
    BY <2>1, <2>2
<1> HIDE DEF a, b, v
<1>11. CASE rv_mem_is_store(sl.kind)
  <2>1. /\ \A k \in 0 .. sl.width - 1 : mem[Place(sl, k)] = Part(v, k)
        /\ sl.width \in {1, 2}
    BY <1>2, <1>3, <1>5, <1>11 DEF Mirrors, v, Rec
  <2>2. mem[a] = Part(v, 0) /\ (sl.width = 2 => mem[b] = Part(v, 1))
    BY <1>8, <2>1
  <2>3. sl.kind \notin Loads
    BY <1>11 DEF rv_mem_is_store, Stores, Loads
  <2>4. Held(sl, i)
    BY <1>9, <1>10, <2>2, <2>3, WordLemma DEF Held, a, b, v
  <2> QED
    BY <1>3, <1>5, <2>4
<1>12. CASE ~rv_mem_is_store(sl.kind)
  <2>1. v = Loaded(mem, a, sl.kind) /\ sl.kind \in Loads
    BY <1>2, <1>3, <1>5, <1>8, <1>12 DEF Mirrors, v, Rec, rv_mem_is_store
  <2>2. Loaded(mem, a, sl.kind) = (CASE sl.kind \in {"ld", "fld"} -> mem[a] + 2 * mem[b]
                                     [] sl.kind = "lw"            -> 3 * mem[a]
                                     [] sl.kind = "lwu"           -> mem[a]
                                     [] sl.kind = "flw"           -> mem[a] + 2)
    BY DEF Loaded, b
  <2>3. sl.width = 2 <=> sl.kind \in {"ld", "fld"}
    BY <1>5, <2>1 DEF mem_width, Loads
  <2>4. Part(v, 0) = mem[a] /\ (sl.width = 2 => v = mem[a] + 2 * mem[b] /\ Part(v, 1) = mem[b])
    BY <1>9, <2>1, <2>2, <2>3, CellsLemma DEF Loads
  <2>5. Held(sl, i)
    BY <1>9, <1>10, <2>1, <2>4 DEF Held, a, b, v
  <2> QED
    BY <1>3, <1>5, <2>5
<1> QED
  BY <1>11, <1>12
-------------------------------------------------------------------------------
\* The machine stays one, the table within its bound and every record one an access of
\* the region has left (riscvlint_state_observe).
THEOREM TypeCorrect == Spec => []TypeOK
<1>1. IInv => TypeOK
  <2> SUFFICES ASSUME IInv PROVE TypeOK
    OBVIOUS
  <2>1. Region /\ Machine /\ SlotsTrue /\ CompsTrue
    BY DEF IInv
  <2>2. DOMAIN slots = 1 .. Len(slots) /\ Len(slots) <= RVL_SLOTS
    BY <2>1 DEF SlotsTrue
  <2>3. ASSUME NEW sl \in Records
        PROVE  /\ sl.base \in XRegs /\ sl.kind \in Loads \cup Stores
               /\ sl.width = mem_width(sl.kind)
               /\ sl.held \in BOOLEAN /\ sl.unread \in BOOLEAN
    <3>1. WellMade(sl)
      BY <2>1 DEF Records, SlotsTrue, WellMade
    <3> QED
      BY <2>1, <3>1, PlaceLemma DEF Rec
  <2>4. \A r \in XRegs : comps[r] # None => comps[r].rs1 # r /\ comps[r].rs2 # r
    BY <2>1 DEF CompsTrue, CompTrue
  <2> QED
    BY <2>1, <2>2, <2>3, <2>4 DEF TypeOK, Machine
<1> QED
  BY <1>1, InvHolds, PTL

\* A place has one record of a kind, and at most one held store, so that the first match
\* of check_store_to_load is the only one.
THEOREM HeldStoreUnique == Spec => []OneHeldStore
<1>1. IInv => OneHeldStore
  BY DEF IInv
<1> QED
  BY <1>1, InvHolds, PTL

\* The mv a redundant reload becomes leaves what the load would have
\* (check_redundant_reload).
THEOREM ReloadSound == Spec => []ReloadHolds
<1>1. IInv => ReloadHolds
  <2> SUFFICES ASSUME IInv, NEW i \in Insns, NEW sl \in Sharp(check_redundant_reload(i))
               PROVE  x[sl.data] = Loading(i)
    BY DEF ReloadHolds
  <2>1. /\ IntLoad(i) /\ sl \in HeldAt(i) /\ ~sl.blurred
        /\ sl.kind = i.kind /\ sl.data # 0
    BY DEF Sharp, check_redundant_reload
  <2>2. IsMem(i) /\ Linked(i) /\ i.kind \in Loads /\ ~rv_mem_is_fp(i.kind)
    BY <2>1 DEF IntLoad, IsLoad
  <2>3. Held(sl, i)
    BY <2>1, <2>2, HeldLemma DEF LeftByX0Load
  <2> QED
    BY <2>1, <2>2, <2>3 DEF Held, Holding, Loading
<1> QED
  BY <1>1, InvHolds, PTL

\* The move or extension that replaces a load of a just-stored value yields what the load
\* would read (check_store_to_load).
THEOREM ForwardSound == Spec => []ForwardHolds
<1>1. IInv => ForwardHolds
  <2> SUFFICES ASSUME IInv, NEW i \in Insns, NEW n \in check_store_to_load(i), ~slots[n].blurred
               PROVE  Extend(forward_form(slots[n].kind, i.kind), x[slots[n].data]) = Loading(i)
    BY DEF ForwardHolds
  <2>1. PICK sl : sl = slots[n]
    OBVIOUS
  <2>2. /\ IntLoad(i) /\ sl \in HeldAt(i) /\ ~sl.blurred
        /\ forward_form(sl.kind, i.kind) # "none"
    BY <2>1 DEF check_store_to_load, HeldStore
  <2>3. IsMem(i) /\ Linked(i)
    BY <2>2 DEF IntLoad, IsLoad
  <2>4. \/ <<sl.kind, i.kind>> = <<"sd", "ld">> /\ forward_form(sl.kind, i.kind) = "mv"
        \/ <<sl.kind, i.kind>> = <<"sw", "lw">> /\ forward_form(sl.kind, i.kind) = "sext"
        \/ <<sl.kind, i.kind>> = <<"sw", "lwu">> /\ forward_form(sl.kind, i.kind) = "zext"
    BY <2>2 DEF forward_form
  <2>5. sl.kind \notin Loads /\ ~rv_mem_is_fp(sl.kind)
    BY <2>4 DEF Loads, rv_mem_is_fp, FpKinds
  <2>6. Held(sl, i) /\ sl.width = mem_width(sl.kind)
    BY <2>2, <2>3, <2>5, HeldLemma DEF LeftByX0Load
  <2>7. Holding(sl) = x[sl.data]
    BY <2>5 DEF Holding
  <2>8. CASE sl.kind = "sd" /\ i.kind = "ld"
    <3>1. forward_form(sl.kind, i.kind) = "mv" /\ sl.width = 2
      BY <2>4, <2>6, <2>8 DEF mem_width
    <3> QED
      BY <2>1, <2>6, <2>7, <2>8, <3>1 DEF Held, Extend, Loading, Loaded
  <2>9. CASE sl.kind = "sw" /\ i.kind \in {"lw", "lwu"}
    BY <2>1, <2>4, <2>6, <2>7, <2>9 DEF Held, Extend, Loading, Loaded
  <2> QED
    BY <2>4, <2>8, <2>9
<1> QED
  BY <1>1, InvHolds, PTL

\* A deleted load would have left its destination unchanged (check_redundant_load).
THEOREM DeletedLoadSound == Spec => []DeletedLoadHolds
<1>1. IInv => DeletedLoadHolds
  <2> SUFFICES ASSUME IInv, NEW i \in Insns, NEW sl \in Sharp(check_redundant_load(i))
               PROVE  x[i.data] = Loading(i)
    BY DEF DeletedLoadHolds
  <2>1. /\ IntLoad(i) /\ sl \in HeldAt(i) /\ ~sl.blurred
        /\ sl.data = i.data /\ ReadsBack(sl.kind, i.kind)
    BY DEF Sharp, check_redundant_load
  <2>2. IsMem(i) /\ Linked(i) /\ i.kind \in Loads /\ ~rv_mem_is_fp(i.kind) /\ i.data # 0
    BY <2>1 DEF IntLoad, IsLoad
  <2>3. Held(sl, i) /\ sl.width = mem_width(sl.kind)
    BY <2>1, <2>2, HeldLemma DEF LeftByX0Load
  <2>4. CASE sl.kind = i.kind
    BY <2>1, <2>2, <2>3, <2>4 DEF Held, Holding, Loading
  <2>5. CASE sl.kind = "sd" /\ i.kind = "ld"
    <3>1. ~rv_mem_is_fp(sl.kind) /\ sl.width = 2
      BY <2>3, <2>5 DEF rv_mem_is_fp, FpKinds, mem_width
    <3> QED
      BY <2>1, <2>3, <2>5, <3>1 DEF Held, Holding, Loading, Loaded
  <2> QED
    BY <2>1, <2>4, <2>5 DEF ReadsBack
<1> QED
  BY <1>1, InvHolds, PTL

\* A deleted store was not read, and what is left of it is about to be overwritten
\* (check_dead_store).
THEOREM DeletedStoreSound == Spec => []DeletedStoreIsDead
<1>1. IInv => DeletedStoreIsDead
  <2> SUFFICES ASSUME IInv, NEW i \in Insns, NEW sl \in Sharp(check_dead_store(i))
               PROVE  ~sl.exposed /\ sl.own \subseteq Touched(i)
    BY DEF DeletedStoreIsDead
  <2>1. /\ FrameStore(i) /\ sl \in Records /\ ~sl.blurred
        /\ sl.unread /\ SameBytes(sl, i)
    BY DEF Sharp, check_dead_store, Superseded
  <2>2. Overwritable(sl)
    BY <2>1 DEF IInv, SlotsTrue, Records, Overwritable, Place
  <2>3. ~sl.exposed /\ sl.own \subseteq {Place(sl, k) : k \in 0 .. sl.width - 1}
    BY <2>1, <2>2 DEF Overwritable
  <2>4. Disp(i) = sl.disp /\ sl.base = i.base /\ sl.width = mem_width(i.kind)
    BY <2>1 DEF FrameStore, Linked, Disp, SameBytes
  <2>5. Touched(i) = {Place(sl, k) : k \in 0 .. sl.width - 1}
    BY <2>4 DEF Touched, Place
  <2> QED
    BY <2>3, <2>5
<1> QED
  BY <1>1, InvHolds, PTL

\* A deleted silent store would not have changed memory (check_silent_store).
THEOREM SilentStoreSound == Spec => []SilentStoreHolds
<1>1. IInv => SilentStoreHolds
  <2> SUFFICES ASSUME IInv, NEW i \in Insns, NEW sl \in Sharp(check_silent_store(i)),
                      NEW k \in 0 .. mem_width(i.kind) - 1
               PROVE  mem[Wrap(x[i.base] + i.disp + k)] = Part(x[i.data], k)
    BY DEF SilentStoreHolds
  <2>1. /\ FrameStore(i) /\ sl \in HeldAt(i) /\ ~sl.blurred
        /\ ~rv_mem_is_fp(sl.kind) /\ sl.data = i.data /\ SameBytes(sl, i)
        /\ i.data = 0 => rv_mem_is_store(sl.kind)
    BY DEF Sharp, check_silent_store, IsX, StoredX0
  <2>2. IsMem(i) /\ Linked(i)
    BY <2>1 DEF FrameStore, IsStore
  <2>3. ~LeftByX0Load(sl)
    BY <2>1 DEF LeftByX0Load, rv_mem_is_store, Loads, Stores
  <2>4. Held(sl, i) /\ sl.width = mem_width(i.kind)
    BY <2>1, <2>2, <2>3, HeldLemma DEF SameBytes
  <2>5. x[i.base] \in Int /\ i.disp \in Int /\ Disp(i) = i.disp /\ mem_width(i.kind) \in {1, 2}
    BY <2>2, AccessLemma DEF IInv, Linked, Disp
  <2>6. Wrap(Wrap(x[i.base] + i.disp) + 1) = Wrap(x[i.base] + i.disp + 1)
    BY <2>5, WrapLemma
  <2>7. CASE k = 0
    <3>1. x[i.base] + i.disp + k = x[i.base] + i.disp
      BY <2>5, <2>7
    <3> QED
      BY <2>1, <2>4, <2>5, <2>7, <3>1 DEF Held, Holding
  <2>8. CASE k = 1 /\ sl.width = 2
    BY <2>1, <2>4, <2>5, <2>6, <2>8 DEF Held, Holding
  <2> QED
    BY <2>4, <2>5, <2>7, <2>8
<1> QED
  BY <1>1, InvHolds, PTL

\* The register check_const_remat offers holds the constant, the linker's constants
\* among those it is offered for excepted by the range of c.li.
THEOREM ConstSound == Spec => []ConstHolds
<1>1. IInv => ConstHolds
  <2> SUFFICES ASSUME IInv, NEW i \in Insns, NEW r \in check_const_remat(i)
               PROVE  x[r] = i.val
    BY DEF ConstHolds
  <2>1. i.op = "li" /\ i.val # 0 /\ r \in XRegs /\ consts[r] = i.val
    BY DEF check_const_remat, CLiRange
  <2>2. consts[r] \in {None, 0, x[r]}
    BY <2>1 DEF IInv, ConstsTrue
  <2>3. i.val # None
    BY <2>1, WindowAssumption DEF IInv, Region, IsInsn, Word
  <2> QED
    BY <2>1, <2>2, <2>3
<1> QED
  BY <1>1, InvHolds, PTL

\* The register check_comp_remat offers holds what the computation would yield.
THEOREM CompSound == Spec => []CompHolds
<1>1. IInv => CompHolds
  <2> SUFFICES ASSUME IInv, NEW i \in Insns, NEW r \in check_comp_remat(i)
               PROVE  x[r] = Computed(i.key)
    BY DEF CompHolds
  <2>1. i.op = "comp" /\ r \in XRegs /\ comps[r] = i.key
    BY DEF check_comp_remat
  <2>2. comps[r] # None
    BY <2>1 DEF IInv, Region, IsInsn
  <2>3. CompTrue(r, comps[r])
    BY <2>1, <2>2 DEF IInv, CompsTrue
  <2> QED
    BY <2>1, <2>3 DEF CompTrue
<1> QED
  BY <1>1, InvHolds, PTL

\* The move between register files that replaces a load yields what the load would, but
\* for the records an integer load into x0 leaves (check_bitcast_through_frame).
THEOREM BitcastSound == Spec => []BitcastHolds
<1>1. IInv => BitcastHolds
  <2> SUFFICES ASSUME IInv, NEW i \in Insns, NEW sl \in Sharp(check_bitcast_through_frame(i)),
                      ~LeftByX0Load(sl)
               PROVE  CastHolds(i, sl)
    BY DEF BitcastHolds
  <2>1. /\ IsLoad(i) /\ Linked(i) /\ sl \in HeldAt(i) /\ ~sl.blurred
        /\ <<sl.kind, i.kind>> \in Casts
    BY DEF Sharp, check_bitcast_through_frame
  <2>2. IsMem(i)
    BY <2>1 DEF IsLoad
  <2>3. Held(sl, i) /\ sl.width = mem_width(sl.kind)
    BY <2>1, <2>2, HeldLemma
  <2>4. \/ sl.kind \in {"fsd", "fld", "sd", "ld"} /\ i.kind \in {"ld", "fld"}
        \/ sl.kind \in {"fsw", "flw", "sw", "lw"} /\ i.kind \in {"lw", "flw"}
    BY <2>1 DEF Casts
  <2>5. Cast(Holding(sl), i.kind) = Loading(i)
    <3>1. CASE sl.kind \in {"fsd", "fld", "sd", "ld"} /\ i.kind \in {"ld", "fld"}
      BY <2>3, <3>1 DEF Held, Cast, Loading, Loaded, mem_width
    <3>2. CASE sl.kind \in {"fsw", "flw", "sw", "lw"} /\ i.kind \in {"lw", "flw"}
      BY <2>3, <3>2 DEF Held, Cast, Loading, Loaded
    <3> QED
      BY <2>4, <3>1, <3>2
  <2> QED
    BY <2>5 DEF CastHolds, Holding
<1> QED
  BY <1>1, InvHolds, PTL
===============================================================================
