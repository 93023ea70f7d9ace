-------------------------- MODULE RegistersProofs --------------------------
(***************************************************************************)
(* Facts about the bitmaps that generate/register.rs computes, for every   *)
(* register whose fields are apart from each other.                        *)
(***************************************************************************)
EXTENDS Registers, TLAPS

\* The hardware takes a write to a field's bit as the field says.
LEMMA FieldKind ==
  ASSUME NEW r, WellFormed(r), NEW f \in Written(r), NEW b \in f.bits
  PROVE  Kind(r, b) = FieldMwv(r, f) /\ b \in Bits
<1>1. f \in r.fields /\ f.access # "r"
  BY DEF Written, Rendered
<1>2. \A g \in r.fields : b \in g.bits => g = f
  BY <1>1 DEF WellFormed
<1>3. (CHOOSE g \in r.fields : b \in g.bits /\ g.access # "r") = f
  BY <1>1, <1>2
<1> QED BY <1>1, <1>3 DEF Kind, WellFormed

LEMMA PlainKind ==
  ASSUME NEW r, WellFormed(r), NEW b \in Plain(r)
  PROVE  Kind(r, b) = "modify" /\ b \in Bits
<1>1. PICK f \in Written(r) : b \in f.bits /\ FieldMwv(r, f) = "modify"
  BY DEF Plain, BitsOf, Written
<1> QED BY <1>1, FieldKind

LEMMA OneKind ==
  ASSUME NEW r, WellFormed(r), NEW b \in ONE_TO_MODIFY(r)
  PROVE  Kind(r, b) \in OneKinds /\ b \in Bits
<1>1. PICK f \in Written(r) : b \in f.bits /\ FieldMwv(r, f) \in OneKinds
  BY DEF ONE_TO_MODIFY, BitsOf
<1> QED BY <1>1, FieldKind

LEMMA ZeroKind ==
  ASSUME NEW r, WellFormed(r), NEW b \in ZERO_TO_MODIFY(r)
  PROVE  Kind(r, b) \in ZeroKinds /\ b \in Bits
<1>1. PICK f \in Written(r) : b \in f.bits /\ FieldMwv(r, f) \in ZeroKinds
  BY DEF ZERO_TO_MODIFY, BitsOf
<1> QED BY <1>1, FieldKind

\* Plain bits, bits that 1 modifies and bits that 0 modifies are apart.
LEMMA BitsApart ==
  ASSUME NEW r, WellFormed(r)
  PROVE  /\ Plain(r) \cap Flags(r) = {}
         /\ ONE_TO_MODIFY(r) \cap ZERO_TO_MODIFY(r) = {}
         /\ Plain(r) \cup Flags(r) \subseteq Bits
<1>1. "modify" \notin OneKinds \cup ZeroKinds /\ OneKinds \cap ZeroKinds = {}
  BY DEF OneKinds, ZeroKinds
<1> QED BY <1>1, PlainKind, OneKind, ZeroKind DEF Flags

\* Nothing but a write changes a plain bit, and a read returns it.
LEMMA PlainIsQuiet ==
  ASSUME NEW r, WellFormed(r), NEW b \in Plain(r)
  PROVE  b \notin Volatile(r) /\ b \notin Unreadable(r)
<1>1. PICK f \in r.fields : b \in f.bits /\ f.access = "rw" /\ ~f.hw
  BY DEF Plain, BitsOf, Rendered
<1>2. \A g \in r.fields : b \in g.bits => g = f
  BY <1>1 DEF WellFormed
<1> QED BY <1>1, <1>2 DEF Volatile, Unreadable, BitsOf

LEMMA ReadsPlain ==
  ASSUME NEW r, WellFormed(r), NEW value, NEW bits \in Reads(r, value), NEW b \in Plain(r)
  PROVE  b \in bits <=> b \in value
  BY PlainIsQuiet DEF Reads

(***************************************************************************)
(* What a write does to one bit.                                           *)
(***************************************************************************)

LEMMA StorePlain ==
  ASSUME NEW r, WellFormed(r), NEW value, NEW bits, NEW b \in Plain(r)
  PROVE  b \in Store(r, value, bits) <=> b \in bits
  BY PlainKind DEF Store, Becomes

\* 0 leaves the bits of ONE_TO_MODIFY alone, and 1 those of ZERO_TO_MODIFY.
LEMMA StoreOne ==
  ASSUME NEW r, WellFormed(r), NEW value, NEW bits, NEW b \in ONE_TO_MODIFY(r), b \notin bits
  PROVE  b \in Store(r, value, bits) <=> b \in value
<1>1. b \in Bits /\ Kind(r, b) \in {"oneToClear", "oneToSet", "oneToToggle"}
  BY OneKind DEF OneKinds
<1> QED BY <1>1 DEF Store, Becomes

LEMMA StoreZero ==
  ASSUME NEW r, WellFormed(r), NEW value, NEW bits, NEW b \in ZERO_TO_MODIFY(r), b \in bits
  PROVE  b \in Store(r, value, bits) <=> b \in value
<1>1. b \in Bits /\ Kind(r, b) \in {"zeroToClear", "zeroToSet", "zeroToToggle"}
  BY ZeroKind DEF ZeroKinds
<1> QED BY <1>1 DEF Store, Becomes

\* What becomes of a bit depends on what it was and what is written to it only.
LEMMA StoreLocal ==
  ASSUME NEW r, NEW v, NEW w, NEW x, NEW y, NEW b, b \in v <=> b \in w, b \in x <=> b \in y
  PROVE  b \in Store(r, v, x) <=> b \in Store(r, w, y)
<1>1. (b \in v) = (b \in w) /\ (b \in x) = (b \in y)
  OBVIOUS
<1>2. Becomes(Kind(r, b), b \in v, b \in x) = Becomes(Kind(r, b), b \in w, b \in y)
  BY <1>1
<1> QED BY <1>2 DEF Store
=============================================================================
