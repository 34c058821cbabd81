------------------------------- MODULE MCWindow -------------------------------
(***************************************************************************)
(* Regions of code for Window.  Register 2 is sp, the others are plain.    *)
(***************************************************************************)
EXTENDS Window

MCMem(kinds, datas, bases, disps) ==
    [op : {"mem"}, kind : kinds, data : datas, base : bases, disp : disps,
     reloc : {FALSE}]
MCOther(r) == [op |-> "other", rd |-> r]
MCPlain(op) == [op |-> op]
MCLi(r, v, rel) == [op |-> "li", rd |-> r, val |-> v, reloc |-> rel]
MCKey(mn, a, b, imm) == [mn |-> mn, rs1 |-> a, rs2 |-> b, imm |-> imm]
MCComp(r, key) == [op |-> "comp", rd |-> r, key |-> key]

\* Loads and stores of two widths, through two bases that may alias, one of
\* which is also loaded into.
MCAliasing ==
    MCMem({"lw"}, {10, 11}, {2}, {0})
        \cup MCMem({"ld", "lwu", "sw", "sd"}, {11}, {2}, {0})
        \cup MCMem({"sw"}, {11}, {10}, {0})
        \cup {MCOther(11), MCPlain("vector")}

\* Frame slots that overlap, stored, read and stored again, x0 included, on
\* paths that branch away or join.
MCFrame ==
    MCMem({"sw"}, {0, 10}, {2}, {0, 1})
        \cup MCMem({"sd"}, {10}, {2}, {0})
        \cup MCMem({"lw"}, {0, 10}, {2}, {0})
        \cup MCMem({"lw"}, {0}, {10}, {0})
        \cup {MCPlain("branch"), MCPlain("fence"), MCPlain("region"),
              MCPlain("unreadable"), MCOther(2)}

\* Constants and computations, and what changes a register behind them.
MCValues ==
    {MCLi(r, v, FALSE) : r \in {0, 10, 11}, v \in {0, 1}}
        \cup {MCLi(10, 0, TRUE)}
        \cup {MCComp(r, k) : r \in {10, 11}, k \in {MCKey("add", 10, 12, 0),
                                                  MCKey("sub", 12, -1, 0),
                                                  MCKey("add", 12, -1, 1)}}
        \cup {MCOther(12), MCPlain("env"), MCPlain("fence"),
              [op |-> "csr", rd |-> 12], [op |-> "amo", rd |-> 12]}

\* Both register files through one slot.
MCBitcast ==
    MCMem({"ld"}, {0, 10}, {2}, {0})
        \cup MCMem({"sd", "sw", "lw"}, {10}, {2}, {0})
        \cup MCMem({"fsd", "fld", "fsw", "flw"}, {10}, {2}, {0})
        \cup {[op |-> "fother", rd |-> 10]}

\* One slot, and accesses the linker has yet to place, at first its neighbour's.
MCRelocated ==
    MCMem({"lw"}, {10, 11}, {2}, {0})
        \cup MCMem({"sw"}, {10}, {2}, {0, 1})
        \cup {[i EXCEPT !.reloc = TRUE] : i \in MCMem({"lw", "sw"}, {10}, {2}, {0})}

MCRegion(insns, xregs, fregs) == [insns |-> insns, xregs |-> xregs, fregs |-> fregs]

MCRegions == {MCRegion(MCAliasing, {2, 10, 11}, {}),
              MCRegion(MCFrame, {0, 2, 10}, {}),
              MCRegion(MCValues, {0, 10, 11, 12}, {}),
              MCRegion(MCBitcast, {0, 2, 10}, {10}),
              MCRegion(MCRelocated, {2, 10, 11}, {})}
MCBitcastRegion == {MCRegion(MCBitcast, {0, 2, 10}, {10})}
===============================================================================
