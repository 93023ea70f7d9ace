---------------------------- MODULE FieldProxies ----------------------------
(***************************************************************************)
(* The readers and writers of fields, from generate/generic.rs, and the    *)
(* accessors that generate/register.rs renders for them in R and W.        *)
(*                                                                         *)
(* A field has, besides what Registers says of it,                         *)
(*   name, off, width                                                      *)
(*   dim, inc   the number of elements, 0 if it is no array, and the bits  *)
(*              from one to the next                                       *)
(*   range      its writeConstraint, {} or {<<min, max>>}                  *)
(*   evs        its enumeratedValues                                       *)
(*   base       the name of the field that these are derived from          *)
(* and the register a size, and whether it is protected.                   *)
(***************************************************************************)
EXTENDS Registers, EnumeratedValues

VARIABLE reg

CanRead(f)  == reg.readable /\ f.access # "w"
CanWrite(f) == reg.writable /\ f.access # "r"

ReadEnum(f)  == IF CanRead(f) THEN Lookup(f.evs, "read") ELSE {}
WriteEnum(f) == IF CanWrite(f) THEN Lookup(f.evs, "write") ELSE {}

\* The field whose writer a derived one re-exports; one of another
\* register is described alike.
Original(f) ==
  IF \E b \in reg.fields : b.name \in f.base
  THEN CHOOSE b \in reg.fields : b.name \in f.base
  ELSE f

WriterOf(f) == IF WriteEnum(f) = {} THEN f ELSE Original(f)

Elements(f) == IF f.dim = 0 THEN {0} ELSE 0 .. f.dim - 1
Offset(f, n) == f.off + n * f.inc
ElementBits(f, n) == Offset(f, n) .. Offset(f, n) + f.width - 1

----------------------------------------------------------------------------
(* Values as numbers *)

BitsOfValue(v) == {b \in Bits : (v \div Pow2[b]) % 2 = 1}

\* The register's type has as many bits as the register.
Number(bits) ==
  LET Upto[k \in Nat] ==
        IF k = 0 THEN 0 ELSE Upto[k - 1] + (IF k - 1 \in bits THEN Pow2[k - 1] ELSE 0)
  IN  Upto[reg.size]

ShiftRight(bits, o) == {b - o : b \in {c \in bits : c >= o}}
Masked(bits, width) == bits \cap (0 .. width - 1)

----------------------------------------------------------------------------
(* R *)

\* fn field(&self, n) and fn field_n(&self), whose mask is left out when the
\* field is as wide as the register.
ReadIndexed(bits, f, n) == Number(Masked(ShiftRight(bits, Offset(f, n)), f.width))

ReadNamed(bits, f, n) ==
  Number(IF reg.size = f.width THEN ShiftRight(bits, Offset(f, n))
         ELSE Masked(ShiftRight(bits, Offset(f, n)), f.width))

----------------------------------------------------------------------------
(* W *)

\* A slip: the value is not masked.
AssignUnmasked(bits, o, width, v) == (bits \ (o .. o + width - 1)) \cup {b + o : b \in BitsOfValue(v)}

\* FieldWriter::bits and BitWriter::bit.
Assign(bits, o, width, v) ==
  (bits \ (o .. o + width - 1)) \cup {b + o : b \in Masked(BitsOfValue(v), width)}

\* A slip: the range only has to start at zero.
IsSafeFromZero(f) ==
  \/ \E c \in f.range : c[1] = 0
  \/ f.range = {} /\ f.width = 1
  \/ \E e \in WriteEnum(f) : AnyValue(e, f.width)

\* Safety::get, and what the enumeration makes of it. Of the parameters that
\* FieldWriter has for Safety only Safe is ever rendered, so the impls of set()
\* for Range, RangeFrom and RangeTo are of no use.
IsSafe(f) ==
  \/ f.range = {<<0, Pow2[f.width] - 1>>}
  \/ f.range = {} /\ f.width = 1
  \/ \E e \in WriteEnum(f) : AnyValue(e, f.width)

\* The proxy for one bit, by its modifiedWriteValues.
BitMethods(f) ==
  LET kind == FieldMwv(reg, f) IN
  {"bit"} \cup
  CASE kind \in {"modify", "set", "clear"}    -> {"set_bit", "clear_bit"}
    [] kind = "oneToSet"                      -> {"set_bit"}
    [] kind = "zeroToClear"                   -> {"clear_bit"}
    [] kind = "oneToClear"                    -> {"clear_bit_by_one"}
    [] kind = "zeroToSet"                     -> {"set_bit_by_zero"}
    [] kind \in {"oneToToggle", "zeroToToggle"} -> {"toggle_bit"}

WriterMethods(f) ==
  (IF f.width = 1 THEN BitMethods(f)
   ELSE {"bits"} \cup (IF IsSafe(f) THEN {"set"} ELSE {}))
  \cup (IF \E e \in WriteEnum(f) : WriteVariants(e, f.width) # {} THEN {"variant"} ELSE {})

\* The arguments: for a number the first and last, and ones too large for the field.
Arguments(f, method) ==
  CASE method = "variant" -> UNION {WriteVariants(e, f.width) : e \in WriteEnum(f)}
    [] method \in {"bits", "set"} ->
         {0, 1, Pow2[f.width] - 2, Pow2[f.width] - 1, Pow2[f.width], Pow2[f.width] + 1}
    [] method = "bit"     -> {0, 1}
    [] OTHER              -> {0}

\* A slip: the bit that is toggled by a zero is toggled by a one.
RaisesAll(f, method) == method \in {"set_bit", "clear_bit_by_one", "toggle_bit"}

\* Whether a method without an argument writes a one.
Raises(f, method) ==
  \/ method \in {"set_bit", "clear_bit_by_one"}
  \/ method = "toggle_bit" /\ FieldMwv(reg, f) = "oneToToggle"

\* A call of a method of the writer that the accessor for element n returns.
Called(bits, f, n, method, v) ==
  IF method \in {"variant", "bits", "set", "bit"} THEN Assign(bits, Offset(f, n), WriterOf(f).width, v)
  ELSE IF Raises(WriterOf(f), method) THEN bits \cup {Offset(f, n)}
  ELSE bits \ {Offset(f, n)}
=============================================================================
