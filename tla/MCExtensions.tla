----------------------------- MODULE MCExtensions -----------------------------
(***************************************************************************)
(* Sections for Extensions.  With Byte 1, Imm 2, Half 2, Word 4 and Double *)
(* 8, lui makes multiples of twice Imm.                                    *)
(***************************************************************************)
EXTENDS Extensions

MCIn(op, rd, rs, imm, rel) == [op |-> op, rd |-> rd, rs1 |-> rs, imm |-> imm, reloc |-> rel]

\* Everything that writes register 1 by itself, x0 once, extensions of 1 into 1
\* and 2 and of 2, and what disturbs the table.
MCMakers == {"lb", "lh", "lw", "lbu", "lhu", "lwu", "addiw", "other"}
MCCode ==
    {MCIn(op, 1, 0, 0, FALSE) : op \in MCMakers \cup {"sll.uw"}}
        \cup {MCIn("li", 1, 0, v, FALSE) : v \in {-2, -1, 1}}
        \cup {MCIn("li", 0, 0, 1, FALSE), MCIn("li", 1, 0, 0, TRUE)}
        \cup {MCIn("lui", 1, 0, v, FALSE) : v \in {-4, 0}}
        \cup {MCIn("andi", 1, 1, v, FALSE) : v \in {-1, 1}}
        \cup {MCIn(op, 1, 1, 0, FALSE) : op \in Extends}
        \cup {MCIn(op, 2, 1, 0, FALSE) : op \in Extends \ {"c.zext.b"}}
        \cup {MCIn("sext.b", 1, 2, 0, FALSE), MCIn("zext.w", 2, 2, 0, FALSE)}
        \cup {MCIn(op, 0, 0, 0, FALSE) : op \in {"plain", "env", "bad", "end"}}

\* A 64-bit result of a 32-bit opcode, and an extension.
MCUwCode == {MCIn("sll.uw", 1, 0, 0, FALSE), MCIn("lw", 1, 0, 0, FALSE),
             MCIn("sext.w", 1, 1, 0, FALSE)}
===============================================================================
