--------------------------- MODULE RegisterBlock ---------------------------
(***************************************************************************)
(* register_or_cluster_block of generate/peripheral.rs: the struct that    *)
(* stands for the memory of a peripheral or a cluster, and the accessor    *)
(* methods that reach its registers.                                       *)
(*                                                                         *)
(* The rbfs are sorted by offset and added to the regions one by one; then *)
(* each region, in order, becomes padding up to its offset and a member,   *)
(* or, when it holds several rbfs, bytes that only raw accessors look at.  *)
(* The struct is repr(C): the compiler puts each member at the next offset *)
(* that its alignment allows.  `pos' and `place' are what it will do with  *)
(* the members emitted so far; the code knows nothing but `last_end'.      *)
(***************************************************************************)
EXTENDS FieldRegions, Expansion

CONSTANT BlockSizes   \* the values of `size': {} for None, {n} for Some(n)

\* Only the struct of a cluster array is given a size, and only if the option
\* max_cluster_size is set.
ASSUME BlockSizesAssumption ==
  \A s \in BlockSizes : \/ s = {}
                        \/ MaxClusterSize /\ \E n \in s : n \in Nat /\ s = {n}

\* The type of an rbf is that of a member, and the elements of a member whose
\* Rust type has the size the SVD file gives it are where the file says: so it
\* is for what Expand returns (RegisterBlockProofs).
ElementsFollow(x) ==
  ~x.raw /\ x.size = BitsPerByte * (x.count * x.bytes) =>
     \A n \in DOMAIN x.svd : x.svd[n] = x.offset + (n - 1) * x.bytes

ASSUME RbfAssumption ==
  \A l \in Layouts : \A f \in DOMAIN l :
     /\ l[f].count \in Nat /\ l[f].bytes \in Nat /\ l[f].align \in Nat \ {0}
     /\ ElementsFollow(l[f])

VARIABLES
  size,       \* the parameter `size', in bytes
  emitted,    \* the regions that have been emitted
  last_end,   \* the end of the last of them
  pos,        \* the size of the struct so far, without trailing padding
  place,      \* the offset of the member of each rbf in the struct
  status      \* how the generation of the block stands

emitVars == <<size, emitted, last_end, pos, place, status>>
vars == <<regionVars, emitVars>>

Statuses == {"generating", "done", "underflow", "incorrect_size"}

----------------------------------------------------------------------------
(* Adding the rbfs *)

\* The order of a stable sort by offset.
Before(f, g) ==
  \/ rbf[f].offset < rbf[g].offset
  \/ /\ rbf[f].offset = rbf[g].offset
     /\ f[1] < g[1] \/ (f[1] = g[1] /\ f[2] < g[2])

AddNext(f) ==
  /\ \A g \in pending \ {f} : Before(f, g)
  /\ Add(f)
  /\ UNCHANGED emitVars

----------------------------------------------------------------------------
(* Emitting the regions *)

IsUnion(r) == \E f, g \in r.rbfs : f # g

\* The order of the Vec of regions: proxies come before the region that shares
\* their offset.
IsNextRegion(r) ==
  \A s \in regions \ emitted :
     r.offset < s.offset \/ (r.offset = s.offset /\ r.end <= s.end)

Emitting(r) ==
  /\ status = "generating" /\ ~bailed /\ pending = {}
  /\ r \in regions \ emitted
  /\ IsNextRegion(r)

\* The padding region.offset - last_end is subtracted as u32: a debug build
\* panics, a release build wraps to padding of some 4 GiB.
EmitUnderflow(r) ==
  /\ Emitting(r)
  /\ r.offset < last_end
  /\ status' = "underflow"
  /\ UNCHANGED <<regionVars, size, emitted, last_end, pos, place>>

\* The position after the padding.
Pad(r) == pos + (r.offset - last_end)

\* A mutant of EmitUnion: the gap before the union is not padded.
EmitUnionUnpadded(r) ==
  /\ Emitting(r)
  /\ r.offset >= last_end
  /\ IsUnion(r)
  /\ pos' = pos + (r.end - r.offset)
  /\ last_end' = r.end
  /\ emitted' = emitted \cup {r}
  /\ UNCHANGED <<regionVars, size, place, status>>

EmitUnion(r) ==
  /\ Emitting(r)
  /\ r.offset >= last_end
  /\ IsUnion(r)
  /\ pos' = Pad(r) + (r.end - r.offset)
  /\ last_end' = r.end
  /\ emitted' = emitted \cup {r}
  /\ UNCHANGED <<regionVars, size, place, status>>

EmitMember(r) ==
  /\ Emitting(r)
  /\ r.offset >= last_end
  /\ ~IsUnion(r)
  /\ \E f \in r.rbfs :
       LET at == AlignUp(Pad(r), rbf[f].align)
       IN  /\ place' = [place EXCEPT ![f] = at]
           /\ pos' = at + rbf[f].count * rbf[f].bytes
  /\ last_end' = r.end
  /\ emitted' = emitted \cup {r}
  /\ UNCHANGED <<regionVars, size, status>>

\* A mutant of Fits: no room left is an error.
FitsWithRoom == \A n \in size : last_end < n

\* size.checked_sub(last_end)
Fits == \A n \in size : last_end <= n

\* A mutant of Finish: no padding at the end.
FinishUnpadded ==
  /\ status = "generating" /\ ~bailed /\ pending = {} /\ emitted = regions
  /\ status' = IF Fits THEN "done" ELSE "incorrect_size"
  /\ UNCHANGED <<regionVars, size, emitted, last_end, pos, place>>

Finish ==
  /\ status = "generating" /\ ~bailed /\ pending = {} /\ emitted = regions
  /\ status' = IF Fits THEN "done" ELSE "incorrect_size"
  /\ pos' \in IF Fits /\ size # {} THEN {pos + (n - last_end) : n \in size} ELSE {pos}
  /\ UNCHANGED <<regionVars, size, emitted, last_end, place>>

BlockInit ==
  /\ Init
  /\ size \in BlockSizes
  /\ emitted = {}
  /\ last_end = 0
  /\ pos = 0
  /\ place = [f \in DOMAIN rbf |-> 0]
  /\ status = "generating"

Ended == bailed \/ status # "generating"

BlockNext ==
  \/ \E f \in pending : AddNext(f)
  \/ \E r \in regions : EmitUnderflow(r) \/ EmitUnion(r) \/ EmitMember(r)
  \/ Finish
  \/ Ended /\ UNCHANGED vars

BlockSpec == BlockInit /\ [][BlockNext]_vars

----------------------------------------------------------------------------
(* The generated accessors *)

\* Accessors are made raw when they are of a proxy or their rbf is in a union.
IsRaw(f) == rbf[f].raw \/ \E r \in regions : f \in r.rbfs /\ IsUnion(r)

\* The offset from the start of the struct that element n (from 1) is read at.
AccessedAt(f, n) ==
  IF IsRaw(f) THEN rbf[f].base  + (n - 1) * rbf[f].step
              ELSE place[f] + (n - 1) * rbf[f].bytes

RightAddresses(f) ==
  \A n \in DOMAIN rbf[f].svd : AccessedAt(f, n) = rbf[f].svd[n]

----------------------------------------------------------------------------
(* Properties *)

BlockTypeOK ==
  /\ TypeOK
  /\ size \in BlockSizes
  /\ emitted \subseteq regions
  /\ last_end \in Nat
  /\ pos \in Nat
  /\ place \in [DOMAIN rbf -> Nat]
  /\ status \in Statuses

\* An rbf whose Rust type has the size that the SVD file gives it, at an offset
\* that its alignment allows.  Nothing in the code checks this of its input.
Natural(f) == /\ rbf[f].size = BitsPerByte * (rbf[f].count * rbf[f].bytes)
              /\ rbf[f].offset % rbf[f].align = 0

AllNatural == \A f \in DOMAIN rbf : Natural(f)

\* In the finished struct of a block of natural rbfs every accessor that goes
\* through a member reaches the addresses of the SVD file, whatever unions,
\* proxies and gaps come before that member.
MembersAtTheirAddress ==
  status = "done" /\ AllNatural =>
     \A f \in DOMAIN rbf : ~IsRaw(f) => RightAddresses(f)

\* ... and the struct of a cluster padded with max_cluster_size has the size of
\* the array increment, so that the elements of a Rust array of it are right.
StructHasItsSize ==
  status = "done" /\ AllNatural => \A n \in size : pos = n

\* A block can be generated unless a proxy starts within the bytes of another
\* rbf: neither the error of add() nor the underflow of the padding is met.
FailsOnlyOnBuriedProxies ==
  bailed \/ status = "underflow" => \E f \in DOMAIN rbf : Buried(f)

\* The size given for the block is refused exactly when some rbf ends after it.
SizeIsChecked ==
  /\ status = "incorrect_size" => \E n \in size, f \in DOMAIN rbf : RegionOf(f).end > n
  /\ status = "done" => \A n \in size, f \in DOMAIN rbf : RegionOf(f).end <= n

\* What add() says when it fails: `we shouldn't exist in the vec'.
NeverInTheVec == ~bailed

\* A union gives access to each of the registers that overlap.
UnionMembersAtTheirAddress ==
  status = "done" => \A f \in DOMAIN rbf : IsRaw(f) => RightAddresses(f)
=============================================================================
