# Verification of riscvlint

riscvlint reads the code sections of a RISC-V ELF file and reports
instructions that could be shorter, cheaper or absent. A finding is a claim
about every execution of the code: a report that is wrong invites somebody to
break a program. These TLA+ modules model the parts of riscvlint on which
that claim rests, check them with TLC against a small machine, and prove the
central ones with TLAPS.

The program is sequential: one thread, no signals, nothing kept between runs.
What makes it hard is *order over code*: one pass in address order makes
claims about control flow that need not follow addresses; tables carry facts
from one instruction to another and must lose each one in time; state survives
from one section to the next; every walk and table has a bound at which it must
give up rather than guess.

## The system

| part | state | operations | interacts with |
|---|---|---|---|
| section state (`riscvlint_state_set_section`, `_set_relocs`) | code, size, address; bitmaps `targets`, `relocs`, `starts`, `nonjump`; list `preds`; all marks and tables below | install a section; sweep it; answer `is_branch_target`, `is_relocated`, `word_at` | resets every other part |
| decode cache (`dec_*`, `live_decode`) | `dec` slots, `dec_cap`, `dec_gen`, `probe` | reserve, fill, read | the sweep, the scan, every walk; Capstone |
| liveness (`riscvlint_liveness`) | none between queries; per query a queue, the starts seen, a budget | one query | reads the cache; called by a dozen checks |
| window (`riscvlint_state_observe`) | `win.slots`, `const_*`, `comp`, popcount stages | observe an instruction, drop | read by eight checks and the popcount matcher |
| stack-pointer restore | `fp` | judge, carry forward | targets |
| redundant extensions | `guarantees` per register | judge, carry forward | targets, value ranges |
| run and fold checks | `zrun_end`, `push_end`, `release_end`, `release_last`, `zilx_folded` | judge a run at its first instruction | liveness, targets |
| branch and jump checks | none; `preds`, `nonjump`, `starts` are read | match, thread, merge tails | liveness |
| constant and arithmetic checks | none | rewrite a value computation | liveness, extensions of the object |
| popcount matcher (`pc_observe`) | `pc`: per register a constant, a stage and its source | step, forget, report | the window, which clears it |
| scan driver (`riscvlint_scan`) | address | run every check, then observe; step over what does not decode | all of the above |
| censuses, chains, audits | counters, two hash tables | count | insn_at, starts |
| `main.c` | symbols, tallies, options | open, scan each section, report, exit status | the library |

Calls are the only interaction, and shared state is the `riscvlint_state`.
What makes each part correct:

* liveness: an answer is true of the program; every query ends.
* cache: a reader gets what Capstone would say, from this section's bytes.
* window: whatever a check says about a register or about memory holds when
  the machine gets there, on every path.
* restore, extensions: what is carried forward still holds where it is used.
* runs: each run is found once and its rewrite leaves the same memory.
* branches, jumps, constants, arithmetic, accesses: the code proposed and the
  code it stands for leave for the same place with the same registers and
  memory, apart from what nothing reads.
* popcount: what is reported counts the bits of the register it names.
* driver: each instruction is judged once against what preceded it, and no
  section is skipped silently.

## The modules

| module | what it is |
|---|---|
| `Liveness` | the liveness walk, one action per exit or branch of its loops |
| `MCLiveness` | the programs TLC tries |
| `LivenessProofs` | four theorems about the walk |
| `Decoder` | what the cache promises: there is no cache |
| `DecodeCache` | the slots, generations and growth; the sweep of `set_section`; the readers |
| `CopyReader` | composes `DecodeCache` with the check that keeps a slot across a walk |
| `SmallSections`, `MCDecodeCache`, `MCCopyReader` | sections for TLC |
| `DecodeCacheProofs` | five theorems, the refinement of `Decoder` among them |
| `Window` | `riscvlint_state_observe` beside a machine that executes, and the eight checks |
| `MCWindow` | regions of code for it |
| `WindowProofs` | ten theorems: all nine properties, and type correctness |
| `SpRestore` | the linear scan of the restore check, and then the machine that runs the function |
| `MCSpRestore` | functions for it |
| `SpRestoreProofs` | three theorems |
| `Extensions` | `check_redundant_extension` over a scaled register, and the machine beside it |
| `MCExtensions` | code for it |
| `ExtensionsProofs` | two theorems |
| `Runs` | the zero-store, push and release runs and the seam between the last two; then the section and its rewritten form run side by side |
| `MCRuns` | sections for it |
| `RunsProofs` | five theorems: type correctness, which findings may meet, what the rewritten section does |
| `Hart` | a machine of XLEN-bit registers that runs code, one address per instruction |
| `Rules` | the section as mapped, the decoders the checks ask, what a finding is and what it claims |
| `BranchRules`, `ValueRules`, `ConstRules`, `MemoryRules`, `JumpRules` | 33 checks, each a function from a section and an address to findings |
| `Popcount` | the matcher's table, step by step, and its check |
| `Checks` | the scan with these checks, over one section after another; the properties |
| `MCChecks` | sections for it |
| `RulesProofs` | what the proofs about rewrites share: no theorem of its own |
| `ChecksProofs` | seven theorems: type correctness, the claim on an add, the rewrites of branches, of values, of accesses and of constants, and threaded transfers |

### Liveness

The state is the C function's locals: `queue` and `seen` (arrays of
`LIVE_PATHS`), `budget`, `cursor` (`a`), and where in the two loops it is
(`pc`). Each action is one way through the outer loop (`Duplicate`,
`PathsExhausted`, `OutsideSection`, `Enter`, `AllPathsDone`) or the inner one
(`BudgetExhausted`, `Undecodable`, `Reads`, `Redefines`, `CallOrReturn`,
`Indirect`, `QueueFull`, `Jump`, `Branch`, `FallThrough`), with the tests in
the code's order as guards. An instruction is a record of what the walk reads
of an `rvl_dec`; `dest` is where the hardware goes and `relative_target` what
the code makes of it.

The specification of the answer does not mention the walk. `DeadAt(a)` says
that there is a set of instructions containing `a` that execution cannot leave
without a write of the register and in which nothing reads it (a greatest fixed
point, so loops are included). `DeadIsSound`, `ReadIsSound` and
`UnknownIsJustified` relate the three answers to it.

### DecodeCache, Decoder, CopyReader

`rvl_dec` slots are a function on `0 .. dec_cap - 1`. `dec_reserve`,
`dec_fill`, `dec_slot`, `dec_holds` and `dec_insn` have the code's names.
`SetSection` installs a section up to its sweep; `SetSectionFailsEarly` and
`SetSectionFailsLate` are its failing allocations before and after the
generation moved on. Addresses count halfwords, so `dec_slot` is the address
modulo the power of two. `LiveDecode` includes the detour through
`state->probe` that works out what a walk needs and marks the slot `walked`.
`Decoder` is the same interface without a cache, and
`Abstract == INSTANCE Decoder WITH open <- Readable` the refinement; the
property `Transparent` is its specification.

`CopyReader` adds the pointer that `check_copy_for_reader` keeps.

### Window

The tables and the machine advance together: `Step(i)` runs instruction `i`
and observes it. Memory is four one-bit cells and a register a two-bit word;
narrow accesses touch one cell and wide ones two, so overlap, truncation, sign
extension and boxing all exist in the small. The instructions come in any
order, which is any straight code, and at any point the next instruction may be
a side entry: then `observe` drops the window, and `Arrive` lets another path
bring a different machine. An operator `check_*` gives the records its check
would fire on, and a property says that the claim holds of the machine now.
`own` and `exposed` of a record are history: which bytes of an unread store
are still in memory, and whether anything may have read them. So is `blurred`:
a relocated access made the record or came after it. Such an access is recorded
with the 0 of its encoding, and plain accesses of 0(base) match it although the
linker will put it elsewhere; the properties are about the records that are not
blurred, which must stand in the same code.

`WindowAssumption` says what the proofs need of a region: its instructions name
registers of the region, a relocated one holds the 0 the assembler leaves there, and
two accesses through one base are less than the address space apart, so that they
meet exactly if their ranges do.

The pricing of a rewrite (encoded sizes, extensions) only suppresses findings
and is left out, which makes the checked claims stronger, except for the c.li
range in `check_const_remat`: there it also keeps a placeholder from being
taken for a constant.

### SpRestore

`Scan` and `Skip` are `riscvlint_scan` for this check, one instruction each, in
address order. Then the machine starts at the first instruction and runs, with
branches in both directions, while `findings` stays what it is. Execution
starts at the function's first instruction. `FindingsExact`
compares the carried state with a search backward; `RestoreIsRedundant` is what
a finding claims of executions.

### Extensions

As in `Window`, the table (`guarantees`) and the machine (`x`) advance together,
one instruction of straight code at a time, and `joined` says that the next
instruction is a branch target: the check forgets the table there, and `Arrive`
lets another path bring other registers. A guarantee is a range, which is all
the code knows of it, so the widths become five constants in the right order
(`Byte`, `Imm`, `Half`, `Word`, `Double`) and a register one signed number.
An extension is the residue in the range it names. Code is any set of
instructions; `rv_result_guarantees` is the code's table by operation, for
instructions of both sizes. cs_regs_access is taken to succeed and to name the
destination.

`misled` is history: the registers written by something the table gets wrong
or does not see. There are four such things. `sll.uw` stands for slli.uw and
sh1add.uw to sh3add.uw, which have 64-bit results under 32-bit opcodes. A
relocated li, lui or andi is given the range of its placeholder. An environment
call returns values in registers Capstone does not list. A halfword nothing
decodes is stepped over by `Skip` with the table kept. `ExtensionHolds` is what a finding
claims apart from these; `EveryExtensionHolds` has no exception.

What the check misses is not a matter of these properties. The comment at
riscvlint.c:900 says that of the ranges only zext32 in sext32 does not hold, whereas
`G_LBU` (riscvlint.c:907) lacks the sign extension from 16 bits, which
`guarantees_for_range(0, 255)` has. So a sext.h after lbu or c.zext.b is not reported,
and one after andi rd,rs,255 is.

### Runs

`check_zero_store_run`, `check_push_run`, `check_release_run` and
`check_release_reserve` judge an instruction by walking ahead of it. Each walk
is an operator of the section (`ZeroRun`, `Run`), and each finding a record or a
function that says what becomes of the instructions it covers (`ZeroFinding`,
`Push`, `Release`, `Reserve`). `Scan` is `riscvlint_scan` for these four, in the
order of its table, with the watermarks `zrun_end`, `push_end`, `release_end`
and `release_last`; the seam asks `PushFound` of the next address, which is the
probe of the code with its mark put back.

When the scan is over `Enter` starts two machines at the top or at a side entry,
one on the section and one with all findings of one family applied ("zero" or
"fold"). `SameBehaviour` says who may not notice: what reads sp, transfers and
labels see the same sp and memory, any other instruction that may read memory
the same memory. A finding is reported only where it pays; `dear` names the
addresses where it does not, whichever, in place of encoded sizes. Instructions
take one address each. Halfwords that do not decode inside a run, and the reset
of the watermarks between sections, are not modelled.

### Checks and its rules

These checks keep nothing between instructions, but for the add that
`zilx_folded` names and the popcount table. `Scan` is one instruction of
`riscvlint_scan`: all checks see it with what the instructions before have left,
then the claim and the table are brought up to date. `NextSection` is
`set_section` on the next one.

A check is an operator with the name of the C function, its conditions in the
order of the C. A finding is a patch: what stands at each address it is about
after the rewrite, nothing where an instruction goes. So `cross_jump`, which
moves a tail, `transfer_to_jump`, which retargets, and a fold of two to six
instructions are the same kind of thing, and there is one statement of what they
claim, `Rules!Holds`: for everybody who comes into the patched addresses, over
the edge, from a branch elsewhere or from other code, run the code as it is and
as proposed until it leaves; then the destination and the memory agree, and each
register agrees or is one `riscvlint_liveness` answers DEAD for. That answer is
part of a section (`note.dead`): `Liveness` is where it is shown to be true, and
MCChecks computes it from the code.

`Hart` has every operation the rewrites come to: arithmetic on words and
narrow words, min and max, the Zb and Zilx forms, transfers, loads of all widths,
lr, sc and amocas, and fli with its table. XLEN, WORD, HALF, BYTE and IMM stand
for 64, 32, 16, 8 and 12 bits. A shift by XLEN - WORD, the range of an addi, the mask
85 repeated over a word keep what they are in that scale.

`SetSection` maps a section like the sweep does: targets of branches and jumps
inside it, what something other than a jump goes to (`nonjump`), and the jumps,
veneers of auipc and jalr among them, or no jumps at all when the list could not
grow. Addresses count instructions: the lengths of encodings, whether a
rewrite is shorter and whether the target has the extension only keep findings
back, and are left out, so more is claimed in the model than by the program.
`rv_prev_insn` walks back through `starts`; here it is the address before.

`Popcount` keeps, like `pc_observe`, which constant and which stage each register
holds, when the sequence started, and whether it overwrote its own source.
`PopcountIs` runs the section from each way in to where the sequence starts, and
from there to its end, and compares with the number of ones. `Overtaken` names where
the code counts wrong, and `PopcountHolds` is about all other sequences:

* `pc_clear_dst` (riscvlint.c:4233) spares the stages made from a source that a stage
  overwrites. That is right from the `sub` on, for which the comment at
  riscvlint.c:4225 gives the reason. In front of it `sub` still reads the register, and
  `AfterSub` (riscvlint.c:4436) only asks that it has the source's number: `srli a0,a5,1;
  and a5,a0,m55; sub a5,a5,a5` and the usual rest is reported as `cpop` of a5, and
  computes 0. The same happens when the stage that writes the source belongs to another
  count, or to a second count of the same register begun while the first is under
  way; then the entries that were there before are not even marked (`pcclob`).
  riscvlint.h:1084 says that the sequence is abandoned the moment anything writes that
  register. The run has all three forms, and in each section of it the exempted
  report is wrong for one of the contents of the registers at least.

`Known` names four shapes in which the code reports what it must not; the
properties `MemoryAgrees`, `BranchesAgree` and `TailsAgree` are about all others:

* `check_zext_indexed_load` (riscvlint.c:4051) lets the add's other operand be
  the register the slli wrote, when the srli went to another register: `slli
  a5,a6,32; srli a7,a5,29; add a7,a7,a5` reads the shifted a5, the load proposed
  the a5 of before.
* `check_cas_loop_to_amocas` (riscvlint.c:5353): for lr.w, the branch compares
  64 bits and amocas.w 32; and where lr loads into the register it compares with,
  or into its own address, the mv put in front destroys what amocas needs.
* `check_call_pair_to_jal` (riscvlint.c:1802): a pair that calls its own jalr. The
  code goes there with ra behind the pair and jumps off through ra's old value plus
  the offset; the jal proposed goes to itself. No compiler writes it, and it is the one
  case in which the proof of `BranchesAgree` does not go through.
* `check_cross_jump` (riscvlint.c:7315 to 7455): a tail that names the register of
  a veneer standing behind it. The jump to the shared tail is the veneer, its auipc
  writes that register, and the tail, which ran in front of it, now runs behind.

Outside the properties' reach, and seen while reading: a branch target known only
through an auipc and a jr is in no bitmap of targets (riscvlint.c:1661 on), so code
entered there counts as straight, and `Rules!ComesIn` does not count such a pair
outside of a patch as a way in. `set_section` does not reset `state->pc`:
the table is empty at the end of a section that ends in a transfer, as those of
the run do.

## The runs

| run | states | what it shows |
|---|---|---|
| `LivenessAll` | 175,406 | all four properties of the walk and that it ends |
| `LivenessZero` | stops | `DeadMeansDead` fails in a section at address 0 |
| `DecodeCache` | 15,598 | the cache implements the decoder; nothing stale; small sections held whole; the sweep ends |
| `CopyReaderEvicted` | stops | `ReaderStands` fails where a section does not fit |
| `Window` | 492,608 | nine properties of the eight checks |
| `WindowX0Load` | stops | `EveryBitcastHolds` fails after a load into x0 |
| `Extensions` | 173,456 | an extension reported changes nothing |
| `ExtensionsUw` | stops | `EveryExtensionHolds` fails after slli.uw |
| `SpRestore` | 2,057,085 | findings exact, and sound for frames with one entry |
| `Runs` | 2,300,116 | no adjustment in two findings; rewritten runs behave the same; covers minimal |
| `Checks` | 262,177 | rewrites of 33 checks agree with the code; an add is folded once; bits are counted |
| `SpRestoreSideEntry` | stops | `EveryRestoreIsRedundant` fails for a frame entered from the side |

The bounds, and why they are enough to meet the hard cases:

* `LivenessAll`: sections of three halfwords at address 1 have loops, joins,
  instructions of both lengths, jumps into the middle of one, fall-through off
  the end, and transfers out of the section. `LIVE_BUDGET = 5` and
  `LIVE_PATHS = 3` are below what such programs can need, so both limits are
  reached. The proofs cover all other values.
* `DecodeCache`: at most four slots (`DEC_MAX`) and sections of two, three and
  five halfwords: a cache that grows, one that is shared, two sections at one
  address with different code. `GEN_MOD = 3` makes the generation wrap.
* `CopyReaderEvicted`: two slots and a section of three halfwords.
* `Window`: `RVL_SLOTS = 2`, so the table is full in every region. Five
  regions keep the alphabets small: aliasing bases; overlapping frame slots
  with x0 and branches; constants and computations; both register files;
  relocated accesses.
  All initial values of registers and memory are tried.
* `Extensions`: a register of 16 values has the order of all borders with
  `Byte = 1`, `Imm = Half = 2`, `Word = 4`, `Double = 8`: every range has
  values inside it, at its borders and outside. Registers 1 and 2 hold what is extended, with x0. The proofs
  cover the real widths.
* `SpRestore`: four instructions are a setup, a disturbance and two restores;
  sp and s0 are counted modulo 3. The side entry takes five.

* `Runs`: sections of five instructions hold a run of each kind with a seam, or
  four zero stores. `PUSH_WALK = 3` and `PUSH_ACCESSES = 1` end runs early,
  `MaxDown = 3`, `MaxUp = 2` and `MaxOff = 1` refuse totals and offsets, and the
  widths and offsets of zero stores abut, overlap and leave gaps. At most one
  side entry, one relocation or one rewrite that does not pay is in a section.
* `Checks`: `XLEN = 16`, `WORD = 8`, `HALF = 4`, `BYTE = 2`, `IMM = 4`, and 64
  cells of memory (`ADDR = 6`), in which sums overflow, constants miss the range of
  an immediate by one, and shifts reach each width. `BranchReach = 5` and
  `JalReach = 20` put targets out of reach; `CONST_WALK`, `ZSTORE_WALK`,
  `THREAD_HOPS` and `CROSS_TAIL` are 3, below what the sections have. Each of 22
  families is the shape one or several checks look for with operands, widths,
  targets and constants around it, and each section as it is, with one address
  entered, one relocated, or one register more alive: each condition of a check is
  met and missed in some section, and each of the 33 checks and both widths of the
  count report. Of counts there are all ways to give three registers to the first three
  stages, the source among them, and one count beside or inside another. `Contents` are eight settings of the registers, chosen at the
  borders of words and of signs: a rewrite that differs on one of them is found,
  one that differs nowhere on them is not. `Steps = 16` runs through every patch;
  a section of jumps that never leave counts as agreeing if both stay.

`CHECK_DEADLOCK FALSE` is set where the system stops: a query is answered, a
function returns.

Fairness. `Liveness!FairSpec` is weak fairness of `Next`: the loop is one
thread that runs until it answers. `DecodeCache!FairSpec` is weak fairness of
the sweep only: `set_section` does not return before it is done, whereas
nothing obliges anybody to install another section or to read.

### What the failing runs say

* `LivenessZero`: `relative_target` uses 0 for "none" (riscvlint.c:2042 and
  2147). In a relocatable object every section is at 0. `DeadIsSound` is the
  same property for programs without a conditional branch to 0.
* `CopyReaderEvicted`: riscvlint.c:7624 to 7657 read through a slot pointer
  taken before a walk. In a section the cache holds whole the slot stays.
* `WindowX0Load`: `check_bitcast_through_frame` lacks the test of x0 that its
  neighbours have; `BitcastHolds` is the property without such records.
* `ExtensionsUw`: `rv_result_guarantees` has one line for a whole opcode
  (riscvlint.c:954 and 964), and the .uw shifts are in it.
* `SpRestoreSideEntry`: a branch into the middle of a frame is not a branch
  to the restore, and the finding stands. `RestoreIsRedundant` assumes that
  the frame is entered at its setup only and that it decodes:
  `riscvlint_scan` keeps `state->fp` over a halfword it cannot read.

## What is proved

Every theorem is for all values of the constants under the named assumptions
(`LivenessAssumption`, `DecodeCacheAssumption`, `WindowAssumption`,
`SpRestoreAssumption`, `ExtensionsAssumption`, `RunsAssumption`), which say no more
than that sizes are positive, limits natural numbers, widths in order and programs
made of instructions. The theorems about rewrites, in `ChecksProofs`, have six, and one hypothesis:

* `HartAssumption`: the widths are natural numbers in the order RISC-V has them, a
  register has three bits more than a narrow word and the narrow word at least seven
  (scaled exponents have four and five bits), and a register is wide enough for the
  immediates of fli. Instructions (`Insns`) are those that exist: an immediate is a
  word, a store and a branch have no immediate operand and no destination, an access
  has one of four sizes, a shift-and-add one of four, and fli has an entry.
* `PowerAssumption`: powers of two are positive and `2^(n+1) = 2 * 2^n`. The standard
  module defines powers by recursion, which the provers do not unfold; it is true of
  them, and TLC evaluates it.
* `SectionsAssumption`: sections are made of instructions, read-only data is words, and `note.dead`, the answer
  of the liveness walk, is honest about the instruction it is asked at: what that
  reads is not dead. Nothing is assumed about what lies behind it, since both sides
  of a rewrite are only compared up to where they leave.
* `WalkAssumption`, `JumpAssumption`: the walks over the uses of a constant, CONST_WALK
  and ZSTORE_WALK, have some length; THREAD_HOPS and CROSS_TAIL are natural numbers.
* `MachinesAssumption`: registers hold words, x0 holds 0, memory holds words, and
  machines are given four steps at least, the longest window there is, and
  3 * THREAD_HOPS + 1, in which control that comes in between threaded jumps has left
  or goes round for ever.
* `AllEnded`, the hypothesis of `TypeCorrect` alone and no assumption on the constants:
  a section that another may follow is empty or ends in jal or jalr. TLC evaluates it for
  the sections of the run.

* `LivenessProofs`: `TypeCorrect`, `DeadSound`, `ReadSound`,
  `UnknownJustified`. Type correctness alone does not carry the answers. The
  inductive invariant adds two parts. `Covered`: every instruction passed so
  far that did not write the register has each successor passed, at the cursor,
  on the queue or among the starts seen, so that when the queue runs empty the
  instructions passed form a set as in `DeadAt`. `Reached`: any such set that
  contains the start also contains the cursor and the queue, as long as no
  write was met, so that a read, a call or an edge of the section refutes
  `DeadAt(start)`.
* `DecodeCacheProofs`: `CacheTypeCorrect`, `NeverStale`, `CacheTransparent`,
  `WholeSectionHeld`. The invariant is that a slot of the current generation is
  faithful to the installed section and no slot is of a later one; a wrap
  clears them all, which is what makes "later" meaningful. `CacheTransparent`
  maps each step to a step of `Decoder` or a stutter. `WholeSectionHeld` needs
  that two addresses of a section that fits never share a slot (`OneToOne`).
  `ReaderSlotStands` is about `CopyReader`: in such a section the slot the check
  keeps is still the reader's when the finding is written, which is just what
  the run `CopyReaderEvicted` refutes of a larger one.
* `WindowProofs`: `TypeCorrect`, `HeldStoreUnique` and one theorem for each of the
  eight checks: `ReloadSound`, `ForwardSound`, `DeletedLoadSound`,
  `DeletedStoreSound`, `SilentStoreSound`, `ConstSound`, `CompSound`,
  `BitcastSound`. The invariant says of each record what makes it true now: a
  record is one an access has left; while it is held and not blurred its register
  mirrors the memory of its place, but for records a load into x0 left; while a
  store is unread and not blurred, what is left of it lies in its place and nobody
  has had a chance to read it; a place has at most one held store; a register's
  constant is what it holds, or the 0 of a placeholder, which is not offered; a
  computation on record still yields what its register holds and reads other
  registers; and the tables are empty where another path may come in. An access is
  compared with every record, which is where two displacements from one base must
  not wrap around.
* `SpRestoreProofs`: `TypeCorrect`, `FindingsCorrect`, `RestoreSound`. The
  scan's invariant is that `armed` holds exactly while a setup lies behind with
  no write of s0 since, and `spMoved` tells whether sp was written. For the
  machine: while it is between a setup and its restore in a frame entered at the
  setup only, sp and s0 differ by the frame size. Scan and machine never
  overlap, so the findings are fixed while it runs.

* `ExtensionsProofs`: `TypeCorrect`, `ExtensionSound`. The
  invariant is that, unless another path may have come in, each register
  outside `misled` is in every range it is guaranteed. `ResultLemma` shows it
  of what one instruction writes, for all widths in the assumed order, and
  `ExtendLemma` that an extension is the identity on the range it names.
* `RunsProofs`: `TypeCorrect`, `NoAdjustTwice`. That findings do not overlap
  needs to know where each came from (`Findings`): a fold lies between the
  address it was found at and its watermark, up to any of its instructions all
  adjustments go its way, a pair of the seam is a release and a reservation,
  and a fold that ends at a release before a reservation has left
  `release_last` there until the scan is past it. `NewApart` compares a
  finding with every earlier one, `OneFinding` those of one address.
  `BehaviourKept`, `ReservedStays`, `CoverLeast` are about the rewritten section. Every fold
  fits a plan (`Fits`): from its first adjustment to its last nobody looks at sp,
  and at each address in between the rewritten sp is off by what the adjustments
  still to come, or already merged, add up to, an amount that is never positive and by which the accesses
  in between are moved. The machines of a fold are therefore equal outside of all
  folds, and inside one they differ by that amount (`FoldMachine`); no two folds
  overlap, so one plan applies at a time. The stores of a zero run are contiguous
  in the code and in the range they fill, and nothing else happens between them;
  the cover fills exactly what they zero, at once, so inside a run the rewritten
  memory is ahead by zeroes the section is about to write (`ZeroMachine`).
  That the greedy cover is least (`GreedyIsLeast`) rests on naturally aligned
  blocks being nested or disjoint: the block of another cover at the low end lies
  inside the greedy one, and with it all blocks that start in the greedy one, so
  removing them leaves a cover of the rest.
  Induction over lengths and addresses is by a least counterexample
  (`SetInduction`): the induction is over the members of a set.
* `ChecksProofs`: `TypeCorrect`, `AddBelongsOnce`, `BranchesAreSound`, `ValuesAreSound`,
  `MemoryAreSound`, `ConstantsAreSound`, `ThreadsAreSound`. Type correctness is that what the scan remembers
  are addresses of this section it has been to: the claim on an add, which may be one
  ahead, the stages in the popcount table, and the places of every finding. It needs that every stage
  the matcher builds on starts where one before it did or at the instruction itself
  (`Table`), through each of its nine rules, that a threaded transfer and a moved tail only
  touch what they have passed, and, since the table is not reset between sections, that it
  is empty behind a jal or jalr; that is where `AllEnded` comes in. A load with an index alone is reported exactly
  where it would be and no deeper fold of the section has its add. The invariant
  (`ClaimsKept`) is that the add that is spoken for is one that a fold the scan has
  been to claims, and that a claim on what lies ahead is the one remembered. A
  fold with a zero-extension claims two instructions ahead of where it is found,
  and what it needs there, a shift down, is where no other fold begins, so nothing
  takes the claim away before the scan gets to the add.
  The others say that whatever is found, for whoever comes in, the code as it is
  and as proposed leave for the same place in agreement, by one lemma for each check:
  `Sound` is inductive since `found` is what one `Scan` finds. A window is entered
  at its first instruction only, which is what the code's tests of branch targets are
  for (`WindowEntry`); a stretch of instructions that do not transfer is folded
  into one state (`FoldHolds`, `ToNextHolds`), and a branch splits the case. What is left is that
  two terms are the same word. `RulesProofs` has it for every XLEN: shifts are
  products and quotients by powers (`UpDownLow`, `UpDownSext`), masks of low ones
  remainders (`AndMask`), a logic operation is decided bit by bit, by induction
  on a set of bit numbers (`XorNot`), and multiplication by a constant is the
  sum its shadds build, whatever overflows (`PowerWorth`). A deleted definition
  (`DeletedHolds`) needs the register dead where the next instruction stands, and
  `Honest` that this one does not read it. An access is shown to be at the cell it
  was at, whatever overflows in its address. fli is taken apart as the code does it:
  each of the three shapes of bits `rv_fli_entry` accepts is the pattern of the entry it
  names (`FormatIs`, `PatternIs`), both widths, and a constant of the section is
  what is in memory (`Constants`). The compare-exchange loop has four ways through,
  and on each the amocas leaves the memory, the register and the place it left.
  A rewrite of constants is of a stretch of any length, and the code and what is proposed
  do not agree within it: the register that held the constant is no longer loaded.
  So both are run side by side (`TrackHolds`), apart in that one register and with what it
  may hold in each given for every address. An instruction that does not name the register
  keeps them so (`CrossApart`, over all of `Exec`, accesses and atomics too), a use is
  served by its replacement (`ImmServes`, `ZeroServes`, `MaskServes`), and behind the last
  one they agree, because it overwrites the register or because nobody reads it. What a
  chain loads is known at each of its instructions (`ChainLeads`). `li_plan` is a
  recursive function on words: that what it strips of a word is nearer to 0 (`LongStep`)
  gives the function and, once more by induction on the distance from 0, that the plan
  puts the word in the register (`PlanPuts`).
  For a threaded transfer, the jumps passed form a chain (`ThreadChain`, by induction on
  the hops): each leads to another of them or to the end, in two steps at most, and what
  it writes is dead there. So from each the code and what is proposed come to the end
  with registers that differ where nobody reads them. Where the jumps lead back to each
  other, or to the transfer, neither machine ever leaves (`Rounds`). The hard case is
  control that comes in between the two instructions of a veneer with any register at all:
  both go where the register says. That may be another such place, and as
  nothing is written on the way, after as many landings as there are such places
  both have left for the same place, are at one of the jumps, or repeat themselves for
  ever (`Bounced`). It is this case that makes the number of steps matter.

Only model-checked: `Terminates` and `SweepFinishes` (liveness is outside the
prover's reach); the violations; and of `Checks`:

* `TailsAgree`: a tail is moved away from where it stood. Code that comes in between
  the two instructions of a veneer in front of the label goes where its register
  says, and that may be the middle of where the tail was. Of all contents of
  registers it is therefore not true; it needs a condition on what a register may hold
  when somebody enters there, which the code does not state. Of the contents of the
  run it holds.
* `PopcountHolds`: that the sequence counts bits is an induction over the bits of
  a word, four times over, along with what the table holds of each register; and the
  masks (`Repeated`) are those of words of one and two bytes.

## Plan

Modelled, in this order: `Liveness`, `DecodeCache` with `Decoder` and
`CopyReader`, `Window`, `SpRestore`, `Extensions`, `Runs`, then `Checks` with its
rules and `Popcount`. Proved, in this order: the first two, `SpRestore`, `Extensions`,
the findings of `Runs`, `Window`, the behaviour of `Runs`, the claims of `Checks`, its
branches, its values, its accesses, its constants, its types and its threaded transfers.
What is left are merged tails.

Runs are few on purpose: new properties join an existing run where the module is
the same, and the numbers of states leave room for it.

## Not modelled

* Bit fields of instructions: `rv_decode_*` take one encoding apart at a time, and
  the test suite sweeps the encoding space. Models take decoded instructions; which
  of them a decoder accepts is in `Rules`.
* `check_c_compressible` and `check_zcb_compressible` ask whether one encoding
  has a shorter one: bit fields again.
* Lengths of encodings in `Runs`, `Checks` and `Window`, and with them prices
  and the walk back through `starts`. `Liveness` and `DecodeCache` have both lengths.
* Placeholder targets of relocated jumps in the liveness walk: the walk does not
  know of relocations (riscvlint.c:2149), and its theorems are about the code as
  encoded.
* Censuses and audits count; they license no rewrite. The hash tables of the
  chain census and of the function tally (riscvlint.c:8259) grow by rehashing.
* `main.c`'s ELF and pclntab parsing, symbolisation, options and formatting
  are I/O, and so is which section it leaves out when one cannot be set
  (main.c:1171).
* Capstone is external: an address and a section determine what it decodes.
* Wording, prices and extension gates of findings, except as said above.
* `tools/`, `scripts/`, `fixtures/`: outside the program.
