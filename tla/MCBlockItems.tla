---------------------------- MODULE MCBlockItems ----------------------------
(***************************************************************************)
(* Blocks of up to four registers and clusters of a menu.                  *)
(***************************************************************************)
EXTENDS BlockItems

N(group, stem, tail) == [group |-> group, stem |-> stem, tail |-> tail]

Reg(name, indexes, dimIndex, content, from) ==
  [kind |-> "register", name |-> name, indexes |-> indexes, dimIndex |-> dimIndex,
   content |-> content, from |-> from, offset |-> 0, bits |-> 32, increment |-> 4, children |-> <<>>]

FromX == {[block |-> "here", name |-> N("", "X", "")]}
FromThere == {[block |-> "there", name |-> N("", "X", "")]}

X == Reg(N("", "X", ""), <<>>, FALSE, "a", {})
MCElsewhere == {[X EXCEPT !.content = "b"], [X EXCEPT !.name = N("", "Y", "")]}

Given(name, indexes, dimIndex) ==
  {Reg(name, indexes, dimIndex, "a", {}), Reg(name, indexes, dimIndex, "b", {})}
  \cup {Reg(name, indexes, dimIndex, "none", from) : from \in {FromX, FromThere}}

FromY == {[block |-> "there", name |-> N("", "Y", "")]}
Singles == {Reg(N("", "R", "0"), <<>>, FALSE, "none", FromY)} \cup Given(N("", "R", "0"), <<>>, FALSE) \cup Given(N("", "R", "1"), <<>>, FALSE)
Arrays  == Given(N("", "R", "%s"), <<"2", "3">>, TRUE) \cup Given(N("", "R", "%s"), <<"4", "5">>, TRUE)
           \cup Given(N("", "R", "%s"), <<"0", "1">>, FALSE)
Bracketed == Given(N("", "R", "[%s]"), <<"0", "1">>, FALSE)
  \cup Given(N("", "R", "[%s]"), <<"2", "3">>, TRUE)
Grouped == Given(N("G", "R", "0"), <<>>, FALSE) \cup Given(N("G", "R", "%s"), <<"0", "1">>, FALSE)

\* Lists and arrays with gaps or overlaps, and clusters.
Gapped == {[e EXCEPT !.increment = i] : i \in {2, 8}, e \in {a \in Arrays \cup Bracketed : a.content # "b"}}

Child(offset, tail, increment) ==
  [Reg(N("", "R", tail), IF tail = "" THEN <<>> ELSE <<"0", "1">>, FALSE, "a", {})
     EXCEPT !.offset = offset, !.increment = increment]

Cl(name, indexes, increment, children, from) ==
  [kind |-> "cluster", name |-> name, indexes |-> indexes, dimIndex |-> FALSE, content |-> "none",
   from |-> from, offset |-> 0, bits |-> 0, increment |-> increment, children |-> children]

FromC == {[block |-> "here", name |-> N("", "C", "")]}
FromD == {[block |-> "there", name |-> N("", "D", "")]}
FromA(tail) == {[block |-> "here", name |-> N("", "A", tail)]}
Clusters ==
  {Cl(N("", "C", ""), <<>>, 0, c, {}) : c \in {<<Child(0, "", 0)>>, <<Child(0, "%s", 4), Child(8, "", 0)>>}}
  \cup {Cl(N("", "A", tail), <<"0", "1">>, i, c, {}) : tail \in {"%s", "[%s]"}, i \in {4, 8},
          c \in {<<Child(0, "", 0)>>, <<Child(0, "%s", 4)>>}}
  \cup {Cl(N("", "B", "[%s]"), <<"0", "1">>, 8, <<>>, f) : f \in {FromC, FromD, FromA("%s"), FromA("[%s]")}}

Menu == Singles \cup Arrays \cup Bracketed \cup Grouped

PlacedAt(e, k) == [e EXCEPT !.offset = 16 * (k - 1)]
Placed(s) == [k \in DOMAIN s |-> PlacedAt(s[k], k)]
MCBlocks == {Placed(s) : s \in {<<X>> \o t : t \in (Menu \X Menu) \cup (Singles \X Singles \X Arrays)
       \cup (Singles \X Arrays \X Arrays) \cup (Singles \X Arrays \X Singles)}
       \cup (Clusters \X (Clusters \cup Gapped)) \cup ({X} \X Gapped)}

\* Those with gaps alone.
MCGappedBlocks == {Placed(s) : s \in {X} \X {e \in Gapped : e.increment = 8}}
=============================================================================
