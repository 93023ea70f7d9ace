--------------------------- MODULE MCDeviceAccess ---------------------------
(***************************************************************************)
(* Two contexts and registers of three bits, one for each way in which the *)
(* fields of a register can differ.                                        *)
(***************************************************************************)
EXTENDS DeviceAccess

Field(bits, access, mwv) ==
  [bits |-> bits, access |-> access, mwv |-> mwv, reserved |-> FALSE,
   hw |-> mwv \notin {"none", "modify"}]

Register(reset, mwv, fields) ==
  [readable |-> TRUE, writable |-> TRUE, resettable |-> TRUE,
   reset |-> reset, mwv |-> mwv, fields |-> fields]

\* A control field and two flags; the flags are of every kind.
WithFlags ==
  {Register(reset, "none", {Field({0}, "rw", "none"), Field({1}, "rw", k), Field({2}, "rw", l)}) :
     <<reset, k, l>> \in {<<{},        "oneToClear",  "zeroToSet">>,
                         <<{0, 1},    "oneToSet",    "zeroToToggle">>,
                         <<{0, 1, 2}, "oneToToggle", "zeroToClear">>}}

\* The register's kind, which one field overrides.
Inherited ==
  {Register({2}, "oneToClear", {Field({0, 1}, "rw", "none"), Field({2}, "rw", "modify")})}

\* Read-only, write-only and reserved fields, a counter, a clear-on-write field.
Odd ==
  {Register({1}, "none", {Field({0}, "r", "none"), Field({1}, "w", "none"), Field({2}, "rw", "none")}),
   Register({1}, "none", {Field({0}, "w", "oneToClear"), Field({1, 2}, "rw", "none")}),
   Register({0}, "zeroToClear",
            {[Field({0}, "rw", "none") EXCEPT !.reserved = TRUE], Field({1}, "rw", "none")}),
   Register({}, "none", {[Field({0, 1}, "rw", "none") EXCEPT !.hw = TRUE], Field({2}, "rw", "clear")}),
   [Register({}, "none", {Field({0}, "w", "oneToSet"), Field({1}, "w", "none")})
      EXCEPT !.readable = FALSE],
   [Register({}, "none", {Field({0}, "rw", "none"), Field({1}, "rw", "oneToClear")})
      EXCEPT !.resettable = FALSE],
   Register({}, "oneToClear", {})}

MCOwned == WithFlags \cup Inherited \cup Odd

MCShared ==
  {Register({0}, "none", {Field({0}, "rw", "none"), Field({1, 2}, "rw", "none")}),
   Register({0}, "none", {Field({0, 1}, "rw", "none"), Field({2}, "rw", "oneToClear")})}
=============================================================================
