----------------------------- MODULE MCFieldApi -----------------------------
(***************************************************************************)
(* Registers of eight bits whose fields differ in each of the ways that    *)
(* their API depends on.                                                   *)
(***************************************************************************)
EXTENDS FieldApi

F(name, off, width, access, mwv) ==
  [name |-> name, off |-> off, width |-> width, dim |-> 0, inc |-> 0, range |-> {},
   evs |-> <<>>, base |-> {}, bits |-> off .. off + width - 1, access |-> access,
   mwv |-> mwv, reserved |-> FALSE, hw |-> FALSE]

Array(f, dim, inc) ==
  [f EXCEPT !.dim = dim, !.inc = inc,
            !.bits = UNION {f.off + n * inc .. f.off + n * inc + f.width - 1 : n \in 0 .. dim - 1}]

Enum(usage, name, values, reserved, default) ==
  [usage |-> usage, name |-> name, values |-> values, reserved |-> reserved, default |-> default]

R(reset, mwv, fields) ==
  [readable |-> TRUE, writable |-> TRUE, resettable |-> TRUE, reset |-> reset, mwv |-> mwv,
   fields |-> fields, size |-> 8, protected |-> FALSE]

\* Two flags of every kind next to a field.
Kinds == {"none", "oneToSet", "oneToClear", "oneToToggle", "zeroToSet", "zeroToClear", "zeroToToggle", "set", "clear"}
Flagged ==
  {R({0, 3}, "none", {F("A", 0, 1, "rw", k), F("B", 1, 1, "w", k), F("C", 3, 2, "rw", "none")}) : k \in Kinds}
  \cup {R({}, k, {Array(F("A", 1, 1, "rw", "none"), 3, 2), F("C", 6, 2, "rw", "modify")}) : k \in Kinds}

\* A field with an enumeration of its values, for reading, writing or both.
Enums(width) ==
  {Enum("both", "E", vs, rs, d) :
     vs \in {{}, {0}, {0, 2^width - 1}, 0 .. 2^width - 2, 0 .. 2^width - 1},
     rs \in {{}, {1} \ {2^width - 1}, {2^width - 1}}, d \in BOOLEAN}
Apart(e) == e.values \cap e.reserved = {}
Enumerated ==
  {R({1}, "none", {[F("A", 1, w_, "rw", "none") EXCEPT !.evs = <<e>>]}) :
     <<w_, e>> \in {1, 2} \X {e \in Enums(1) \cup Enums(2) : Apart(e)}}

WellEnumerated(r) == \A f \in r.fields : \A k \in DOMAIN f.evs :
  f.evs[k].values \cup f.evs[k].reserved \subseteq Values(f.width)

TwoEnums ==
  {R({}, "none", {[F("A", 0, 2, a, "none") EXCEPT
       !.evs = <<Enum("read", "ER", {0, 1}, {}, FALSE), Enum("write", "EW", {2}, {}, d)>>]}) :
     a \in {"r", "w", "rw"}, d \in BOOLEAN}

\* Constraints, with and without an enumeration.
Constrained ==
  {R({}, "none", {[F("A", 1, 2, "rw", "none") EXCEPT !.range = {c}, !.evs = e]}) :
     c \in {<<0, 3>>, <<0, 2>>, <<1, 3>>, <<1, 2>>, <<2, 2>>},
     e \in {<<>>, <<Enum("both", "", {1}, {}, FALSE)>>, <<Enum("both", "", {1}, {}, TRUE)>>}}

\* Fields derived from one before, from one after and from another register.
Derived ==
  {R({}, k, {[F("A", 0, 1, a, k) EXCEPT !.evs = <<Enum("both", n, {0, 1}, {}, FALSE)>>, !.base = {"B"} \cap {x}],
                  [F("B", 2, 1, b, "none") EXCEPT !.evs = <<Enum("both", n, {0, 1}, {}, FALSE)>>, !.base = {"A", "Z"} \cap {x}]}) :
     k \in {"none", "oneToClear"}, a \in {"r", "rw"}, b \in {"rw", "w"}, n \in {"", "E"}, x \in {"A", "B", "Z"}}

Odd ==
  {[R({}, "none", {F("A", 0, 1, "r", "none"), F("B", 1, 1, "rw", "none")}) EXCEPT !.readable = FALSE],
   R({0}, "none", {[F("A", 0, 2, "rw", "none") EXCEPT !.reserved = TRUE], F("B", 2, 6, "rw", "none")}),
   R({}, "none", {F("A", 0, 8, "rw", "none")})}

Locked ==
  {[r EXCEPT !.protected = TRUE] :
     r \in {R({0}, "none", {F("A", 0, 1, "rw", "none"), F("B", 1, 2, "rw", "none")}),
            R({}, "none", {F("A", 0, 1, "rw", "oneToClear"), Array(F("B", 1, 1, "rw", "none"), 2, 3)})}}

MCDescriptions ==
  Flagged \cup {r \in Enumerated : WellEnumerated(r)} \cup TwoEnums \cup Constrained
  \cup Derived \cup Odd \cup Locked
=============================================================================
