-------------------------- MODULE EnumeratedValues --------------------------
(***************************************************************************)
(* What generate/register.rs makes of the enumeratedValues of a field: the *)
(* variants of the Rust enum, those with a method of the field writer, and *)
(* the match of the reader's variant().                                    *)
(*                                                                         *)
(* An enumeratedValues e has                                               *)
(*   usage     "read", "write" or "both"                                   *)
(*   name      its name, or that of its field                              *)
(*   values    the values of its entries                                   *)
(*   reserved  the values of the entries that are named `reserved'         *)
(*   default   whether it has an isDefault entry                           *)
(* A variant is known by its value.                                        *)
(***************************************************************************)
EXTENDS Integers, FiniteSets, Sequences

Pow2[n \in Nat] == IF n = 0 THEN 1 ELSE 2 * Pow2[n - 1]

Values(width) == 0 .. Pow2[width] - 1

\* lookup_filter: the entry for a usage, or the first of any.
Lookup(evs, usage) ==
  IF \E k \in DOMAIN evs : evs[k].usage = usage
  THEN {evs[CHOOSE k \in DOMAIN evs : /\ evs[k].usage = usage
                                      /\ \A j \in 1..(k - 1) : evs[j].usage # usage]}
  ELSE {evs[k] : k \in DOMAIN evs \cap {1}}

\* The value that the default entry is given: the least that is free.
MinimalHole(e, width) ==
  {v \in Values(width) \ (e.values \cup e.reserved) :
     \A u \in Values(width) \ (e.values \cup e.reserved) : v <= u}

Default(e, width) == IF e.default THEN MinimalHole(e, width) ELSE {}

----------------------------------------------------------------------------
(* Reading *)

\* A default that stands for one value becomes a variant like the others.
LastOne(e, width) == Cardinality(e.values) = Pow2[width] - 1

ReadVariants(e, width) ==
  e.values \cup (IF LastOne(e, width) THEN Default(e, width) ELSE {})

ReadDefault(e, width) ==
  IF LastOne(e, width) \/ Cardinality(e.values) = Pow2[width] THEN {} ELSE Default(e, width)

\* evs.values counts all entries, the reserved ones and the default too.
Entries(e) == Cardinality(e.values) + Cardinality(e.reserved) + (IF e.default THEN 1 ELSE 0)

HasReservedVariant(e, width) == ReadDefault(e, width) = {} /\ Entries(e) # Pow2[width]

\* Without variants there is a newtype, and no variant().
HasVariants(e, width) == ReadVariants(e, width) \cup ReadDefault(e, width) # {}

\* A slip: the default is dropped when it stands for one value.
VariantOfListed(e, width, v) == IF v \in e.values THEN {v} ELSE {}

\* variant(): a variant, none or a panic.
Variant(e, width, v) ==
  IF v \in ReadVariants(e, width) THEN {v} ELSE ReadDefault(e, width)

Panics(e, width, v) == Variant(e, width, v) = {} /\ ~HasReservedVariant(e, width)

----------------------------------------------------------------------------
(* Writing *)

WriteVariants(e, width) ==
  e.values \cup (IF Cardinality(e.values) = Pow2[width] THEN {} ELSE Default(e, width))

\* The write structure is finite.
AnyValue(e, width) ==
  Cardinality(e.values) = Pow2[width] \/ Default(e, width) # {}
=============================================================================
