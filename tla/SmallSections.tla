---------------------------- MODULE SmallSections ----------------------------
(***************************************************************************)
(* Sections of a few halfwords, spelled out for TLC.                       *)
(***************************************************************************)
EXTENDS Naturals, Sequences

CONSTANTS i1, i2, i3    \* instructions, as model values

MCInsns == {i1, i2, i3}

One(i) == [ok |-> TRUE, len |-> 1, insn |-> i]
Two(i) == [ok |-> TRUE, len |-> 2, insn |-> i]
Bad == [ok |-> FALSE, len |-> 1, insn |-> i1]

MCSection(v, code) == [vaddr |-> v, size |-> Len(code),
                       code |-> [a \in v .. v + Len(code) - 1 |-> code[a - v + 1]]]

\* Two sections at one address with different code, one at an odd halfword, one
\* larger than a cache of four slots, and halfwords nothing decodes.
MCSections == {MCSection(0, <<Two(i1), One(i2)>>),
               MCSection(0, <<One(i2), Bad>>),
               MCSection(1, <<One(i3), Two(i1), One(i2)>>),
               MCSection(1, <<Two(i2), One(i1), Bad, Two(i3), One(i2)>>)}

\* A section that fits a cache of two slots and one that does not.
MCTwoSizes == {MCSection(0, <<Two(i1), One(i2)>>),
               MCSection(1, <<Two(i1), One(i2), One(i3)>>)}
===============================================================================
