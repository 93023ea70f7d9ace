----------------------------- MODULE Registers -----------------------------
(***************************************************************************)
(* What generate/register.rs makes of the description of a register: which *)
(* methods it gets and the two bitmaps of the bits whose untouched value   *)
(* is not the one they read as.                                            *)
(*                                                                         *)
(* A value of a register is the set of its bits that are 1.  A register is *)
(* a record:                                                               *)
(*   readable, writable   its access;                                      *)
(*   resettable, reset    whether it has a resetValue, and which;          *)
(*   mwv                  its modifiedWriteValues, or "none";              *)
(*   fields               a set of records: the bits of the field, its     *)
(*                        access ("r", "w" or "rw"), its own mwv, whether  *)
(*                        its name is `reserved', and hw: whether the      *)
(*                        hardware changes it by itself.                   *)
(***************************************************************************)
CONSTANT Bits

OneKinds  == {"oneToClear", "oneToSet", "oneToToggle"}
ZeroKinds == {"zeroToClear", "zeroToSet", "zeroToToggle"}

\* f.modified_write_values.or(rmwv).unwrap_or_default()
FieldMwv(r, f) == IF f.mwv # "none" THEN f.mwv
                  ELSE IF r.mwv # "none" THEN r.mwv
                  ELSE "modify"

\* The fields that code is generated for, and those that get a writer.
Rendered(r) == {f \in r.fields : ~f.reserved}
Written(r)  == {f \in Rendered(r) : f.access # "r"}

BitsOf(fields) == UNION {f.bits : f \in fields}

ONE_TO_MODIFY(r)  == BitsOf({f \in Written(r) : FieldMwv(r, f) \in OneKinds})
ZERO_TO_MODIFY(r) == BitsOf({f \in Written(r) : FieldMwv(r, f) \in ZeroKinds})

\* The methods of Reg, by the traits the register type implements.
Methods(r) ==
       {m \in {"reset", "write"} : r.writable /\ r.resettable}
  \cup {m \in {"write_with_zero"} : r.writable}
  \cup {m \in {"modify", "set_bits", "clear_bits", "toggle_bits"} : r.writable /\ r.readable}

Atomics == {"set_bits", "clear_bits", "toggle_bits"}

----------------------------------------------------------------------------
(* The device *)

\* How the hardware takes a write to bit b: the field's modifiedWriteValues as
\* the SVD format defines them, whether or not code was generated for the field.
\* A bit of no field keeps its value.
Kind(r, b) ==
  IF \E f \in r.fields : b \in f.bits /\ f.access # "r"
  THEN FieldMwv(r, CHOOSE f \in r.fields : b \in f.bits /\ f.access # "r")
  ELSE "read-only"

\* The value of a bit that was `was' after `one' is written to it.
Becomes(kind, was, one) ==
  CASE kind = "modify"       -> one
    [] kind = "set"          -> TRUE
    [] kind = "clear"        -> FALSE
    [] kind = "oneToClear"   -> was /\ ~one
    [] kind = "oneToSet"     -> was \/ one
    [] kind = "oneToToggle"  -> was # one
    [] kind = "zeroToClear"  -> was /\ one
    [] kind = "zeroToSet"    -> was \/ ~one
    [] kind = "zeroToToggle" -> was = one
    [] OTHER                 -> was

\* The register after `bits' are written to it.
Store(r, value, bits) == {b \in Bits : Becomes(Kind(r, b), b \in value, b \in bits)}

\* The bits that may change without a write.
Volatile(r) == BitsOf({f \in r.fields : f.hw})

\* What a read may return: a field that cannot be read can read as anything.
Unreadable(r) == BitsOf({f \in r.fields : f.access = "w"})
Reads(r, value) == {(value \ Unreadable(r)) \cup any : any \in SUBSET Unreadable(r)}

----------------------------------------------------------------------------
(* The bits that software may rely on *)

\* A plain field that can be read back and that only software changes.
Plain(r) == BitsOf({f \in Rendered(r) : /\ f.access = "rw" /\ ~f.hw
                                        /\ FieldMwv(r, f) = "modify"})

\* A field for which one of 0 and 1 means `leave it alone'.
Flags(r) == ONE_TO_MODIFY(r) \cup ZERO_TO_MODIFY(r)

\* Fields are apart from each other.
WellFormed(r) ==
  /\ r.reset \subseteq Bits
  /\ \A f \in r.fields : f.bits \subseteq Bits
  /\ \A f, g \in r.fields : f # g => f.bits \cap g.bits = {}
=============================================================================
