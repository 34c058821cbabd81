-------------------------------- MODULE Checks ---------------------------------
(***************************************************************************)
(* The scan with the checks that judge a few instructions, over one        *)
(* section after another.  Every step is one instruction: the checks see   *)
(* it with what the instructions before it have left behind, the claim on  *)
(* an add (zilx_folded) and the popcount matcher's table, and only then is *)
(* the table brought up to date.                                           *)
(***************************************************************************)
EXTENDS ValueRules, MemoryRules, JumpRules, Popcount

CONSTANTS
    Sections,       \* families of [code, note]: what is scanned first
    Seconds,        \* what may be scanned next
    Contents,       \* [x, m]: what registers and memory may hold
    Steps           \* instructions a machine runs inside a rewrite

\* What the answers of the liveness walk come to for one instruction: what it reads is
\* not dead in front of it (riscvlint_liveness asks the first instruction first).
Honest(s) == \A p \in DOMAIN s.code : \A r \in s.note.dead[p] : r \notin {s.code[p].a, s.code[p].b}
Given(s) ==
    /\ s.code \in Seq(Insns) /\ Honest(s)
    /\ \A c \in DOMAIN s.note.pool : s.note.pool[c] \in Words

ASSUME SectionsAssumption ==
    /\ \A n \in DOMAIN Sections : \A s \in Sections[n] : Given(s)
    /\ \A s \in Seconds : Given(s)

\* A section ends in a transfer.  Nothing in the code asks for it: the scan of one that
\* does not leaves the matcher's table to the next.
Ended(s) == s.code # <<>> => rv_ends_region(s.code[Len(s.code)])
AllEnded == \A n \in DOMAIN Sections : \A s \in Sections[n] : Ended(s)

\* The longest ways round before leaving: that of a compare-exchange, four, and that of
\* whoever comes in between two instructions of a jump that is passed, which may go to
\* all such places, then to the transfer, and then past every jump.
ASSUME MachinesAssumption ==
    /\ \A c \in Contents : c.x \in [Regs -> Words] /\ c.x[0] = 0 /\ c.m \in Memory
    /\ Steps \in Nat /\ 4 <= Steps /\ 3 * THREAD_HOPS + 1 <= Steps

VARIABLES
    sec,            \* the section
    at,             \* the instruction the scan is at
    zilx_folded,    \* the add that is spoken for
    pc,             \* the popcount matcher's table
    found,          \* the findings at the instruction before
    counts,         \* and the popcounts
    again           \* whether another section follows

vars == <<sec, at, zilx_folded, pc, found, counts, again>>

None == 0           \* UINT64_MAX in the code

Init ==
    /\ \E n \in DOMAIN Sections : \E s \in Sections[n] : sec = SetSection(s.code, s.note)
    /\ at = 1
    /\ zilx_folded = None
    /\ pc = NoTable
    /\ found = {} /\ counts = {}
    /\ again = TRUE

\* riscvlint_checks, in any order: a check reads only what the instructions before
\* this one left.
Findings(s, a, folded) ==
    BranchFindings(s, a) \cup ValueFindings(s, a) \cup ConstFindings(s, a)
        \cup MemoryFindings(s, a, folded) \cup JumpFindings(s, a)

Scan ==
    /\ InSection(sec, at)
    /\ found' = Findings(sec, at, zilx_folded)
    /\ counts' = check_swar_popcount(sec, pc, at)
    /\ zilx_folded' = Claims(sec, at, zilx_folded)
    /\ pc' = pc_after(pc, sec, at)
    /\ at' = at + 1
    /\ UNCHANGED <<sec, again>>

\* The next section of the file.  The claim is reset and the table is not: it is empty
\* where the section before ended in a transfer.  Mutant: the claim is kept too.
ResetNot(folded) == folded
Reset(folded) == None
NextSection ==
    /\ ~InSection(sec, at) /\ again
    /\ \E s \in Seconds : sec' = SetSection(s.code, s.note)
    /\ at' = 1
    /\ zilx_folded' = Reset(zilx_folded)
    /\ found' = {} /\ counts' = {}
    /\ again' = FALSE
    /\ UNCHANGED pc

Next == Scan \/ NextSection

Spec == Init /\ [][Next]_vars

-------------------------------------------------------------------------------
\* The scan is at an instruction or behind the last, and what it remembers are addresses
\* of this section that it has been to, or that it is about to reach.
TypeOK ==
    /\ at \in 1 .. Len(sec.code) + 1
    /\ zilx_folded \in {None} \cup DOMAIN sec.code /\ zilx_folded <= at + 1
    /\ \A r \in Regs : pc[r].seq.stage # "none" => pc[r].seq.start \in 1 .. at - 1
    /\ \A f \in found : DOMAIN f.patch \subseteq DOMAIN sec.code

\* Where the checks report what is not so: an add that reads the index as it was shifted
\* up, beside the one that was shifted back; a compare-exchange of WORD bits that may be
\* compared with more, or whose expected value or address is what it loads; a call that
\* goes to its own jalr; a tail that names the register of a veneer behind it.
Known(s, f) ==
    LET a == FirstOf(DOMAIN f.patch)
        add == s.code[a + 2]
        expected == Beside(s.code[a + 1], s.code[a].rd)
    IN  \/ /\ f.rule = "zext_indexed_load"
           /\ s.code[a].rd # s.code[a + 1].rd /\ s.code[a].rd \in {add.a, add.b}
        \/ /\ f.rule = "cas_loop_to_amocas"
           /\ \/ s.code[a].n = WORD /\ expected # 0
              \/ s.code[a].rd \in {expected, s.code[a].a}
        \/ /\ f.rule = "call_pair_to_jal"
           /\ PairGoes(s.code, a) = a + 1
        \/ /\ f.rule = "cross_jump"
           /\ \E p, q \in DOMAIN f.patch :
                /\ IsPair(s.code, p) /\ p + 1 \in DOMAIN f.patch
                /\ f.patch[q] = <<>> /\ rv_may_name(s.code[q], s.code[p].rd)

Sound(rules) ==
    \A f \in found :
        f.rule \in rules =>
            Known(sec, f) \/ \A c \in Contents : Holds(sec, f, c.x, c.m, Steps)

\* What the checks of branches, of pairs of auipc and jalr, and of moves under a branch
\* say (check_cond_to_branch and on) does what the code did: on both ways out of the
\* branch, for whoever comes in from elsewhere, whatever the registers hold.
BranchRulesNames == {"cond_to_branch", "branch_over_jump", "transfer_to_next",
    "const_eq_branch", "zero_eq_branch", "const_ord_branch", "branch_to_minmax",
    "call_pair_to_jal", "jump_pair_to_j", "scratch_call_to_jal"}
BranchesAgree == Sound(BranchRulesNames)

\* The same of the checks that fold two instructions into one or delete one
\* (check_slli_add_to_shadd to check_no_effect).
ValueRulesNames == {"slli_add_to_shadd", "slli_srli_to_zext", "slli_srli_to_zexth",
    "slli_srai_to_sext", "slli_srli_to_andi", "const_mul_to_shadd", "udiv_pow2",
    "not_logic_fold", "dead_def", "no_effect"}
ValuesAgree == Sound(ValueRulesNames)

\* The same of the checks that rebuild a constant or do without it, over a walk of
\* uses that nothing may enter and nothing else may read from (const_use_walk).
ConstRulesNames == {"long_li", "const_for_imm", "mask_for_zext", "zero_for_store"}
ConstantsAgree == Sound(ConstRulesNames)

\* The same of the checks of accesses, of fli and of the compare-exchange loop.
MemoryRulesNames == {"base_add_to_offset", "indexed_load", "scaled_indexed_load",
    "zext_indexed_load", "fp_pool_to_fli", "fp_int_to_fli", "cas_loop_to_amocas"}
MemoryAgrees == Sound(MemoryRulesNames)

\* The same of the transfers that are threaded (check_transfer_to_jump): from every place
\* control can come from it ends up where it did, also where jumps lead back to themselves.
ThreadRulesNames == {"transfer_to_jump"}
ThreadsAgree == Sound(ThreadRulesNames)

\* The same of the tails that are merged (check_cross_jump): every jump to the label has
\* run the same instructions by then, and nothing else has.
TailRulesNames == {"cross_jump"}
TailsAgree == Sound(TailRulesNames)

\* The add in front of a load belongs to one finding: the load with an index alone is
\* reported unless, in this section, a deeper fold has the add, and then it is not
\* (zilx_folded, which the scan of one section leaves to the next).
ClaimedHere(a) == \E q \in 1 .. a - 1 : \E f \in DeeperFolds(sec, q) : AddOf(f) = a
IndexedOnce ==
    at > 1 =>
        ((\E f \in found : f.rule = "indexed_load")
            <=> /\ check_indexed_load(sec, at - 1, None) # {}
                /\ ~ClaimedHere(at - 1))

\* What is reported as a count of bits counts the bits the source held where the sequence
\* starts, on every way into the section (pc_observe, check_swar_popcount), unless a
\* stage has overwritten that source before the sequence subtracts from it.
PopcountHolds ==
    \A f \in counts :
        Overtaken(sec, f) \/ \A c \in Contents : PopcountIs(sec, f, c.x, c.m)
===============================================================================
