-------------------------- MODULE MCPeripheralBlock --------------------------
(***************************************************************************)
(* The blocks of MCBlockItems, which differ in names and derivation, and   *)
(* those of MCRegisterBlock, which differ in offsets and sizes.            *)
(***************************************************************************)
EXTENDS PeripheralBlock, MCBlockItems, MCRegisterBlock

Stems == <<"P", "Q", "S">>

\* An erc of MCRegisterBlock; an array with indexes from 0, and a cluster of a
\* u32 and, if it has room, a u8.
Word == Child(0, "", 0)
Byte == [Child(4, "", 0) EXCEPT !.name = N("", "B", ""), !.bits = 8]

AsItem(e, stem) ==
  [kind     |-> e.kind,
   name     |-> N("", stem, IF ~e.array THEN "" ELSE IF e.convert THEN "[%s]" ELSE "%s"),
   indexes  |-> IF e.array THEN SubSeq(Numerals, 1, e.dim) ELSE <<>>,
   dimIndex |-> FALSE, content |-> IF e.kind = "register" THEN "a" ELSE "none", from |-> {},
   offset   |-> e.offset, bits |-> IF e.kind = "register" THEN e.bits ELSE 0,
   increment |-> IF e.array THEN e.increment ELSE 0,
   children |-> IF e.kind = "register" THEN <<>> ELSE IF e.bits = 32 THEN <<Word>> ELSE <<Word, Byte>>]

\* A stable sort makes one of those in another order.
Sorted(s) == \A i, j \in DOMAIN s : i < j => s[i].offset <= s[j].offset

LaidBlocks == {[k \in DOMAIN s |-> AsItem(s[k], Stems[k])] : s \in {s \in Inputs : Sorted(s)}}

MCAllBlocks == MCBlocks \cup LaidBlocks
=============================================================================
