-------------------------------- MODULE MCChecks -------------------------------
(***************************************************************************)
(* Small sections for Checks: the shapes the checks look for and what is   *)
(* next to them, each with at most one thing that is not as it should be.  *)
(***************************************************************************)
EXTENDS Checks

MCRegs == {0, 1, 2, 5, 6, 7, 40}
Ret == Jalr(0, 1, 0)

\* A register nobody reads before it is written again, where behind the section all
\* but live are dead.  Where control goes back nothing is known.
MCReads(i) == {i.a, i.b} \cup (IF i.op = "amocas" THEN {i.rd} ELSE {})
                        \cup (IF i.op = "ecall" THEN {Arg} ELSE {})
MCDead(code, live) ==
    LET dead[p \in 1 .. Len(code) + 1] ==
            IF p > Len(code) THEN {5, 7} \ live
            ELSE LET i == code[p]
                     to == IF i.to \in p + 1 .. Len(code) THEN dead[i.to] ELSE {}
                     on == CASE i.op \in Branches -> to \cap dead[p + 1]
                             [] i.op = "jal"      -> to
                             [] i.op = "jalr"     -> {5, 7} \ live
                             [] OTHER             -> dead[p + 1] \cup ({i.rd} \cap {5, 7})
                 IN  on \ MCReads(i)
    IN  [p \in DOMAIN code |-> dead[p]]
MCNote(code, entries, relocs, live) == Note(entries, relocs, 9, MCDead(code, live), <<>>)
\* Each code with what may be noted of it: nothing, that one register more is read
\* behind it, that it is entered at p, that it is relocated at p.  All are n long.
MCNoteBy(code, v) ==
    CASE v[1] = "plain" -> MCNote(code, {}, {}, {})
      [] v[1] = "live"  -> MCNote(code, {}, {}, {v[2]})
      [] v[1] = "entry" -> MCNote(code, {v[2]}, {}, {})
      [] v[1] = "reloc" -> MCNote(code, {}, {v[2]}, {})
MCNoted(codes, n) ==
    {[code |-> c, note |-> MCNoteBy(c, v)] :
        c \in codes, v \in {<<"plain", 0>>, <<"live", 5>>} \cup ({"entry"} \X (2 .. n))
                               \cup ({"reloc"} \X (1 .. n - 1))}

-------------------------------------------------------------------------------
\* A comparison or a constant, and a branch to 4.
MCTests == {I("sltu", 5, 6, 1), R("sltu", 5, 0, 6), R("slt", 5, 6, 1), R("sltu", 5, 1, 6),
            R("sub", 5, 6, 1), R("xor", 5, 5, 6), Li(5, 0), Li(5, 1), Li(5, -1), Li(5, 3), Li(2, 1)}
MCBranches == {<<t, Br(op, o[1], o[2], 4), below, Ret>> :
    t \in MCTests, below \in {Other, Li(5, 2)}, op \in Branches, o \in {<<5, 0>>, <<0, 5>>, <<5, 6>>, <<6, 5>>, <<2, 6>>}}
MCOver == {<<Br(op, 6, 1, b), J(r, to), Other, Ret>> :
    op \in {"beq", "bltu"}, b \in {2, 3, 4}, r \in {0, 1}, to \in {1, 2, 3, 4}}
MCMinMax ==
    {<<Br(op, o[1], o[2], b), m, Other, Ret>> :
        op \in Branches, o \in {<<6, 1>>, <<1, 6>>, <<6, 0>>}, b \in {3, 4},
        m \in {I("add", 6, 1, 0), Li(6, 0), Li(6, 1)}}
    \cup
    {<<Li(5, 3), Br(op, o[1], o[2], 4), Li(6, k), Ret>> :
        op \in Branches, o \in {<<5, 6>>, <<6, 5>>}, k \in {2, 3}}
MCPairs == {<<Auipc(r, k), Jalr(l, b, 1), Other, Ret>> :
    r \in {1, 5, 6}, l \in {0, 1, 5}, b \in {1, 5}, k \in {-4, 0, 1, 2, 30}}

\* A shift, a constant or an operation, and what is made of it.
MCFirst == {I("sll", 5, 6, k) : k \in {1, 3, 8, 12, 13, 14}} \cup {I("sll", 1, 6, 1)}
              \cup {Li(5, k) : k \in {1, 2, 3, 4, 8, 9, 16, 256}}
              \cup {I("xor", 5, 6, -1), R("xor", 5, 6, 1), I("add", 5, 6, 0), R("add", 2, 2, 6)}
MCSecond == {R(op, r, o[1], o[2]) : op \in {"add", "mul", "and", "xor"}, r \in {1, 5},
                                    o \in {<<5, 1>>, <<1, 5>>, <<5, 5>>, <<6, 1>>}}
               \cup {I(op, r, 5, k) : op \in {"srl", "sra"}, r \in {1, 5, 6}, k \in {8, 12, 13, 14}}
               \cup {Insn(op, n, 1, o[1], o[2], 0, 0) : op \in {"divu", "remu"}, n \in {WORD, XLEN},
                                                  o \in {<<6, 5>>, <<5, 6>>, <<0, 5>>}}
               \cup {I("xor", r, 5, -1) : r \in {1, 5}}
MCValues == {<<i, j, Ret>> : i \in MCFirst, j \in MCSecond}
MCNothing == {<<i, Ret>> : i \in
    {I(op, 6, 6, k) : op \in {"add", "and", "or", "xor", "sll", "sra"}, k \in {0, -1, 1}}
    \cup {R(op, 6, o[1], o[2]) : op \in {"add", "and", "sub", "or", "xor"},
                                 o \in {<<6, 0>>, <<0, 6>>, <<6, 6>>, <<6, 1>>}}
    \cup {I("add", 0, 6, 3), R("add", 0, 0, 2), Insn("add", WORD, 6, 6, Imm, 0, 0), Load(3, 0, 0, 6)}}

-------------------------------------------------------------------------------
\* A constant and two instructions behind it.
MCUses == {R(op, 6, o[1], o[2]) : op \in {"sub", "sltu", "sra"}, o \in {<<6, 5>>, <<5, 6>>}}
             \cup {R("and", 6, 6, 5), R("add", 5, 5, 6), R("or", 6, 5, 5), Store(3, 5, 0, 6),
                   Insn("sll", WORD, 6, 6, 5, 0, 0), Store(3, 5, 0, 5), Store(2, 6, 1, 1), Ecall,
                   Br("beq", 6, 1, 4), Other}
MCConstants == {<<Li(5, k), u, v, Ret>> : k \in {0, -8, 18}, u \in MCUses, v \in MCUses}

\* Constants built up, and masks.
MCSteps == {I("add", 6, 6, -1), I("add", 6, 6, 7), I("sll", 6, 6, 4), I("xor", 6, 6, -3),
            Insn("add", WORD, 6, 6, Imm, -8, 0)}
MCChains == {<<Li(6, k), s, t, u, Ret>> : k \in {1, -112}, s \in MCSteps, t \in MCSteps, u \in MCSteps}
MCMasks == {<<Li(5, 1), I("sll", 5, 5, k), I("add", 5, 5, d), u, v, Ret>> :
    k \in {3, 4, 7, 8}, d \in {-1, -2}, u \in {R("and", 6, 6, 5), R("and", 6, 5, 1), R("or", 6, 6, 5)},
    v \in {R("and", 5, 5, 6), R("sub", 1, 6, 5), Other}}

-------------------------------------------------------------------------------
\* An address and what is accessed there.
MCBases == {<<I("add", r, a, k), x, Ret>> :
    r \in {5, 2}, a \in {0, 5, 6}, k \in {0, 7, -8},
    x \in {Load(n, d, j, 5) : n \in {1, 3}, d \in {5, 6, 40}, j \in {0, 1, -8}}
             \cup {Store(3, d, j, 5) : d \in {5, 6, 40}, j \in {0, 1}}}
MCIndexed == {<<R("add", r, o[1], o[2]), Load(3, d, j, 5), Ret>> :
    r \in {5, 6}, o \in {<<6, 1>>, <<5, 6>>, <<6, 0>>}, d \in {5, 6, 40}, j \in {0, 1}}
MCScaled == {<<I("sll", r, 6, k), R("add", q, o[1], o[2]), Load(n, d, 0, q), Ret>> :
    r \in {5, 7}, k \in {1, 3}, q \in {5, 7}, o \in {<<5, 1>>, <<1, 7>>, <<7, 7>>},
    n \in {0, 1, 3}, d \in {1, 5, 7}}
MCZero == {<<I("sll", r, 6, 8), I("srl", t, r, k), R("add", q, o[1], o[2]), Load(n, d, 0, q), Ret>> :
    r \in {5, 7}, t \in {5, 7}, k \in {5, 7, 8}, q \in {5, 7}, o \in {<<5, 1>>, <<6, 7>>, <<5, 7>>},
    n \in {0, 3}, d \in {1, 5}}

\* A compare-exchange, and a constant fetched or moved to a floating-point register.
MCCas == {<<Insn("lr", n, 6, a, 0, 0, 0), Br(op, o[1], o[2], to), Insn("sc", n, r, a, new, 0, 0),
            Br("bne", r, 0, 1), Other, Ret>> :
    n \in {WORD, XLEN}, a \in {2, 6}, op \in {"beq", "bne"}, o \in {<<6, 1>>, <<1, 6>>, <<6, 0>>, <<6, 6>>},
    to \in {3, 6}, r \in {5, 6}, new \in {2, 6}}
MCMoved == {<<Li(5, k), I("sll", 5, 5, j), Ext("fmv", n, 40, 5), Ret>> :
    k \in {1, 3, 8, 15, -17}, j \in {3, 6, 8, 10, 11}, n \in {WORD, XLEN}}
MCPool == [c \in {20, 21, 22, 23, 24} |->
    CASE c = 20 -> Sext(XLEN, Pattern(XLEN, One + 1)) [] c = 21 -> Sext(XLEN, Pattern(XLEN, 0))
      [] c = 22 -> Pattern(WORD, 9) [] c = 23 -> 2^WORD + Pattern(WORD, 0) [] c = 24 -> 15 * 2^10 + 3]
MCFetched ==
    {[code |-> s.code, note |-> [s.note EXCEPT !.pool = MCPool]] :
        s \in MCNoted({<<Auipc(r, k), Load(n, 40, 4, r), Ret>> :
                          r \in {5, 6}, k \in 14 .. 19, n \in {2, 3}}, 3)}

-------------------------------------------------------------------------------
\* Jumps to jumps: 1 to 3, on to 5 and from there to 8, with veneers at 5 among them.
MCThreads == {<<t, Other, h, Other, v[1], v[2], Other, Ret>> :
    t \in {Br("beq", 6, 1, 3), J(0, 3), J(1, 3), Br("bne", 6, 1, 2)},
    h \in {J(0, 5), J(0, 2), J(0, 1), J(0, 3), J(1, 5), J(0, 9)},
    v \in {<<J(0, 8), Other>>, <<J(0, 3), Other>>, <<Auipc(5, 1), Jalr(0, 5, 2)>>,
           <<Auipc(7, 1), Jalr(0, 7, -3)>>, <<Auipc(6, 1), Jalr(0, 6, 2)>>}}

\* Tails before jumps to 8, and what is in front of that label.
MCTails == {<<x, y, J(0, to), z, y, J(0, 8), t, I("add", 1, 1, 1), Ret>> :
    x \in {I("add", 6, 6, 1), Store(3, 6, 0, 1)}, y \in {I("add", 6, 6, 2), Auipc(6, 1), Ecall},
    z \in {I("add", 6, 6, 1), Store(3, 6, 0, 1), J(0, 1)}, to \in {7, 8},
    t \in {Ret, J(0, 1), J(1, 1), Other, Br("beq", 6, 6, 8)}}
MCVeneers == {<<x, Auipc(5, k), Jalr(0, 5, 2), x, J(0, 8), y, Ret, I("add", 1, 1, 1), Ret>> :
    x \in {I("add", 6, 6, 1), I("add", 5, 5, 1), R("add", 6, 6, 5)}, y \in {J(0, 2), Other}, k \in {3, 4}}
\* The list of jumps has room for all three of these, or for two.
MCThreeJumps == {<<x, J(0, 8), x, J(0, 8), y, J(0, 8), Ret, I("add", 1, 1, 1), Ret>> :
    x \in {I("add", 6, 6, 1)}, y \in {I("add", 6, 6, 1), I("add", 6, 6, 2)}}
MCThree == {[code |-> c, note |-> [MCNote(c, {}, {}, {}) EXCEPT !.room = room]] :
    c \in MCThreeJumps, room \in {2, 3}}

-------------------------------------------------------------------------------
\* The bits of src counted, wide and not, with the masks one after another in 1: t, u and
\* v get the source shifted, masked and subtracted.  Any of them may be src, which is then
\* overwritten before or as it is read for the last time.
MCCountIn(wide, src, t, u, v) ==
    LET n == IF wide THEN XLEN ELSE WORD
        mask(byte) == Li(1, Repeated(byte, n))
        w == IF v = 5 THEN 7 ELSE 5
        y == IF v = 5 THEN 5 ELSE 7
    IN  <<mask(85), I("srl", t, src, 1), R("and", u, t, 1), R("sub", v, src, u),
          mask(51), R("and", w, v, 1), I("srl", y, v, 2), R("and", y, y, 1), R("add", 7, w, y),
          I("srl", 5, 7, 4), R("add", 7, 7, 5), mask(15), R("and", 7, 7, 1),
          mask(1), R("mul", 7, 7, 1), Insn("srl", n, 5, 7, Imm, n - 8, 0), Ret>>
MCCount(wide, src) == MCCountIn(wide, src, 5, 5, 7)
MCCounts == {MCCount(w, src) : w \in BOOLEAN, src \in {6, 7}}
MCAlloc == {5, 6, 7}
MCAllocated == {MCCountIn(w, src, t, u, v) :
    w \in BOOLEAN, src \in MCAlloc, t \in MCAlloc, u \in MCAlloc, v \in MCAlloc}

\* The same with one more instruction somewhere, with the first stages of another count
\* that write the source of this one, or begun anew while the first is under way.
MCOne == {Li(1, 3), I("add", 5, 5, 0), I("srl", 1, 6, 2), I("add", 1, 1, 1), Ecall,
          Br("beq", 2, 1, 20)}
            \cup {I(op, r, r, 1) : op \in {"add", "srl"}, r \in {6, 7}}
            \cup {R(op, r, r, b) : op \in {"add", "xor"}, r \in {6, 7}, b \in {1, 6}}
MCPut(code, p, is) == SubSeq(code, 1, p) \o is \o SubSeq(code, p + 1, Len(code))
MCOther(q, r) == <<I("srl", q, 2, 1), R("and", r, q, 1)>>
MCAgain(v) == <<I("srl", 5, 7, 1), R("and", 5, 5, 1), R("sub", v, 7, 5)>>
MCPopcounts ==
    {[code |-> c, note |-> MCNote(c, {}, {}, {})] :
        c \in MCAllocated
                \cup {MCPut(d, p, <<i>>) : d \in MCCounts, p \in 0 .. 15, i \in MCOne}
                \cup {MCPut(MCCountIn(w, 7, 5, 5, v), p, MCOther(q, 7)) :
                        w \in BOOLEAN, v \in {6, 7}, p \in 1 .. 4, q \in {2, 6}}
                \cup {MCPut([MCCount(w, 7) EXCEPT ![7] = I("srl", 7, v, 2)], 4, MCAgain(v)) :
                        w \in BOOLEAN, v \in {6, 7}}}

-------------------------------------------------------------------------------
MCSections ==
    <<MCNoted(MCBranches, 4), MCNoted(MCOver, 4), MCNoted(MCMinMax, 4), MCNoted(MCPairs, 4),
      MCNoted(MCValues, 3), MCNoted(MCNothing, 2), MCNoted(MCConstants, 4),
      MCNoted(MCChains, 5), MCNoted(MCMasks, 6), MCNoted(MCBases, 3), MCNoted(MCIndexed, 3),
      MCNoted(MCScaled, 4), MCNoted(MCZero, 5), MCNoted(MCCas, 6), MCNoted(MCMoved, 4),
      MCFetched, MCNoted(MCThreads, 8), MCNoted(MCTails, 9), MCNoted(MCVeneers, 8), MCThree,
      MCNoted(MCCounts, 17), MCPopcounts>>
MCSeconds ==
    {[code |-> c, note |-> MCNote(c, {}, {}, {})] :
        c \in {<<R("add", 5, 6, 1), Load(3, 5, 0, 5), Ret>>,
               <<Other, R("add", 5, 6, 1), Load(3, 5, 0, 5), Ret>>}}

MCX(a, b, c, d, e) ==
    [r \in MCRegs |-> CASE r = 0 -> 0 [] r = 1 -> a [] r = 2 -> 30 [] r = 5 -> b
                        [] r = 6 -> c [] r = 7 -> d [] r = 40 -> e]
MCM(k) == [c \in 0 .. 2^ADDR - 1 |-> Sext(XLEN, 977 * c + k)]
MCContents ==
    {[x |-> x, m |-> MCM(5)] :
        x \in {MCX(0, 0, 0, 0, 0), MCX(3, 1, 3, 9, 7), MCX(-1, 5, 20000, -9, 1),
               MCX(-32768, 2, -2, 3, -1), MCX(5, -1, -32768, 11, 2), MCX(260, 3, 255, -70, 3),
               MCX(Sext(XLEN, 977 * 30 + 5), 0, 1, 0, 4), MCX(1, 1, 4660, 18, 5)}}
\* The hypothesis of TypeCorrect, of the sections above.
ASSUME MCEnded == AllEnded
===============================================================================
