----------------------------- MODULE Expansion -----------------------------
(***************************************************************************)
(* expand, expand_register and expand_cluster of generate/peripheral.rs:   *)
(* how the registers and clusters (ercs) of a block become register block  *)
(* fields (rbfs).                                                          *)
(*                                                                         *)
(* An erc is a record:                                                     *)
(*   kind       "register" or "cluster";                                   *)
(*   offset     its addressOffset, in bytes;                               *)
(*   bits       the size of one element: a register's <size>, or what      *)
(*              cluster_info_size_in_bits says of a cluster;               *)
(*   bytes      for a cluster, size_of and align_of of the struct that is  *)
(*   align      generated for it (those of a register follow from bits);   *)
(*   array      whether it has <dim>; if so, dim and increment;            *)
(*   convert    whether the configuration (keep_list) and the derivation   *)
(*              of the register allow an array to stay an array.           *)
(*                                                                         *)
(* An rbf is a record:                                                     *)
(*   offset, size         the fields of RegisterBlockField, size in bits;  *)
(*   count, bytes, align  the Rust type of the member: count elements of   *)
(*                        that size and alignment, none for a zero-sized   *)
(*                        proxy;                                           *)
(*   raw, base, step      its main accessor: whether it is a RawRef, and   *)
(*                        the offset and increment a RawRef adds to the    *)
(*                        address of the block;                            *)
(*   svd                  the addresses that the SVD file gives to the     *)
(*                        elements the accessor reaches.                   *)
(***************************************************************************)
LOCAL INSTANCE Integers
LOCAL INSTANCE Sequences

CONSTANT MaxClusterSize     \* the option max_cluster_size

ASSUME MaxClusterSizeAssumption == MaxClusterSize \in BOOLEAN

\* The least multiple of align from x on.
AlignUp(x, align) == IF x % align = 0 THEN x ELSE x + (align - (x % align))

----------------------------------------------------------------------------
(* The Rust type of one element *)

\* The size of the least of u8, u16, u32 and u64 that holds the bits.
RustBytes(bits) == CHOOSE n \in {1, 2, 4, 8} :
                     /\ bits <= 8 * n
                     /\ n = 1 \/ bits > 4 * n

ElementBytes(e) == IF e.kind = "register" THEN RustBytes(e.bits) ELSE e.bytes
ElementAlign(e) == IF e.kind = "register" THEN RustBytes(e.bits) ELSE e.align

\* expand_cluster takes an element of an array to be as large as the increment
\* if max_cluster_size is set.
Padded(e) == MaxClusterSize /\ e.kind = "cluster" /\ e.array

ElementBits(e) == IF Padded(e) THEN 8 * e.increment ELSE e.bits

----------------------------------------------------------------------------
(* Expansion *)

\* expand_cluster refuses an array whose elements would overlap.
Expands(e) == e.kind = "cluster" /\ e.array => e.bits <= 8 * e.increment

Sequential(e) == e.dim = 1 \/ ElementBits(e) = 8 * e.increment
Disjoint(e)   == e.dim = 1 \/ ElementBits(e) <= 8 * e.increment

Address(e, n) == e.offset + n * e.increment
Addresses(e)  == [n \in 1..e.dim |-> Address(e, n - 1)]

Single(e) ==
  [offset |-> e.offset, size |-> e.bits,
   count |-> 1, bytes |-> ElementBytes(e), align |-> ElementAlign(e),
   raw |-> FALSE, base |-> e.offset, step |-> 0, svd |-> <<e.offset>>]

\* A Rust array as the member.
Array(e) ==
  [offset |-> e.offset, size |-> ElementBits(e) * e.dim,
   count |-> e.dim, bytes |-> ElementBytes(e), align |-> ElementAlign(e),
   raw |-> FALSE, base |-> e.offset, step |-> e.increment, svd |-> Addresses(e)]

\* A zero-sized member, and an accessor that computes the address of element n.
Proxy(e) ==
  [offset |-> e.offset, size |-> 0,
   count |-> 0, bytes |-> ElementBytes(e), align |-> 1,
   raw |-> TRUE, base |-> e.offset, step |-> e.increment, svd |-> Addresses(e)]

\* Element n as a member of its own.  The accessor of each of them is built
\* with the offset of the whole array.
ListElement(e, n) ==
  [offset |-> Address(e, n), size |-> ElementBits(e),
   count |-> 1, bytes |-> ElementBytes(e), align |-> ElementAlign(e),
   raw |-> FALSE, base |-> e.offset, step |-> 0, svd |-> <<Address(e, n)>>]

ExpandErc(e) ==
  IF ~e.array THEN <<Single(e)>>
  ELSE IF e.convert /\ Sequential(e) THEN <<Array(e)>>
  ELSE IF e.convert /\ Disjoint(e) THEN <<Proxy(e)>>
  ELSE [n \in 1..e.dim |-> ListElement(e, n - 1)]

\* The rbfs of a block, named by the place of their erc and their place in its
\* expansion.
Expand(ercs) ==
  [f \in UNION {{i} \X DOMAIN ExpandErc(ercs[i]) : i \in DOMAIN ercs} |->
     ExpandErc(ercs[f[1]])[f[2]]]
=============================================================================
