---------------------------- MODULE FieldRegions ----------------------------
(***************************************************************************)
(* The struct FieldRegions of generate/peripheral.rs: it collects the      *)
(* register block fields (rbfs) of one block and merges those that share   *)
(* bytes into one region, so that the caller knows where a struct member   *)
(* is enough and where the block needs a union.                            *)
(*                                                                         *)
(* A layout gives each rbf its byte offset and its size in bits.  An rbf   *)
(* of size 0 is an array proxy: a member of a zero-sized type that reserves*)
(* no memory and reaches its elements through a raw pointer.               *)
(*                                                                         *)
(* The Vec of regions, sorted by offset, is the set `regions'; the Vec of  *)
(* rbfs of a region is a set too, for nothing below depends on its order.  *)
(* Offsets are taken to be far below 2^32, so that additions do not wrap.  *)
(***************************************************************************)
EXTENDS Integers, FiniteSets

CONSTANT Layouts    \* the layouts to consider: functions from rbfs to records

ASSUME LayoutsAssumption ==
  \A l \in Layouts : \A f \in DOMAIN l : l[f].offset \in Nat /\ l[f].size \in Nat

VARIABLES
  rbf,       \* the layout of this block, which no step changes
  pending,   \* the rbfs that have not been added yet
  regions,   \* the regions made so far
  bailed     \* add() returned its error, and the generation of the block ended

regionVars == <<rbf, pending, regions, bailed>>

----------------------------------------------------------------------------
(* Bytes *)

BitsPerByte == 8

DivCeil(bits) == (bits + BitsPerByte - 1) \div BitsPerByte

\* The region that rbf f makes on its own.
RegionOf(f) == [rbfs   |-> {f},
                offset |-> rbf[f].offset,
                end    |-> rbf[f].offset + DivCeil(rbf[f].size)]

\* A mutant of Intersects: regions that merely touch.
Touches(a, b) == a.offset <= b.end /\ b.offset <= a.end

\* max(a.offset, b.offset) < min(a.end, b.end): a and b share a byte.
Intersects(a, b) ==
  /\ a.offset < a.end /\ a.offset < b.end
  /\ b.offset < a.end /\ b.offset < b.end

----------------------------------------------------------------------------
(* add *)

Hits(new) == {r \in regions : Intersects(r, new)}

\* new and the regions it hits, which become one region.
Parts(new) == Hits(new) \cup {new}

\* A mutant of Merge: the first region grows, but the rbfs of the others are lost.
MergeBounds(parts, lo, hi) == [rbfs   |-> (CHOOSE r \in parts : r.offset = lo).rbfs,
                               offset |-> lo,
                               end    |-> hi]

Merge(parts, lo, hi) == [rbfs   |-> UNION {r.rbfs : r \in parts},
                         offset |-> lo,
                         end    |-> hi]

\* A mutant of HasPlace: proxies are no exception.
HasOwnOffset(m, left) == \A r \in left : r.offset # m.offset

\* binary_search_by_key finds no region at the offset of m among those left, or
\* m is a proxy: a proxy may share its offset with the regions that are there, a
\* region of some size may not.
HasPlace(m, left) == m.offset = m.end \/ \A r \in left : r.offset # m.offset

Insert(m, left) ==
  /\ bailed' = ~HasPlace(m, left)
  /\ regions' = IF HasPlace(m, left) THEN left \cup {m} ELSE left

\* The next rbf, which is added once.  A mutant: it may come again.
TakeAgain(f) == f \in pending /\ pending' = pending
Take(f) == f \in pending /\ pending' = pending \ {f}

Add(f) ==
  LET parts == Parts(RegionOf(f))
  IN  /\ ~bailed
      /\ Take(f)
      /\ \E lo \in {r.offset : r \in parts}, hi \in {r.end : r \in parts} :
            /\ \A r \in parts : lo <= r.offset /\ r.end <= hi
            /\ Insert(Merge(parts, lo, hi), regions \ parts)
      /\ UNCHANGED rbf

Init ==
  /\ rbf \in Layouts
  /\ pending = DOMAIN rbf
  /\ regions = {}
  /\ bailed = FALSE

Next == \E f \in pending : Add(f)

Spec == Init /\ [][Next]_regionVars

----------------------------------------------------------------------------
(* Properties *)

Added == DOMAIN rbf \ pending

TypeOK ==
  /\ \A f \in DOMAIN rbf : rbf[f].offset \in Nat /\ rbf[f].size \in Nat
  /\ pending \subseteq DOMAIN rbf
  /\ bailed \in BOOLEAN
  /\ regions \subseteq [rbfs : SUBSET Added, offset : Nat, end : Nat]

\* Every rbf that was added is in exactly one region: merging loses and
\* duplicates no register.
EachInOneRegion ==
  ~bailed => \A f \in Added : \E r \in regions :
                /\ f \in r.rbfs
                /\ \A s \in regions : f \in s.rbfs => s = r

\* The bounds of a region are those of its rbfs: the least offset and the
\* greatest end.
IsHull(r) ==
  /\ \A f \in r.rbfs : r.offset <= RegionOf(f).offset /\ RegionOf(f).end <= r.end
  /\ \E f \in r.rbfs : RegionOf(f).offset = r.offset
  /\ \E f \in r.rbfs : RegionOf(f).end = r.end

\* No cut leaves a region in two: some rbf spans every byte boundary inside it.
IsConnected(r) ==
  \A x \in (r.offset + 1)..(r.end - 1) :
     \E f \in r.rbfs : RegionOf(f).offset < x /\ x < RegionOf(f).end

\* A proxy overlaps nothing and is in no union.
ProxiesAlone(r) == \A f \in r.rbfs : rbf[f].size = 0 => r.rbfs = {f}

\* Two regions never share a byte, whatever the order in which add() saw the
\* rbfs: a struct member emitted for one does not cover the other.
RegionsDisjoint == \A r, s \in regions : r # s => ~Intersects(r, s)

\* Together with RegionsDisjoint: the regions are the connected components of
\* the overlap relation, so a union holds only registers that overlap, and all
\* of them, as `if the field overlaps with 1 or more existing entries, they
\* will be merged together' promises.
RegionsAreComponents ==
  \A r \in regions : IsHull(r) /\ IsConnected(r) /\ ProxiesAlone(r)

\* All of it, for every order in which the rbfs come: the regions are a partition
\* of the rbfs into those that overlap.
OverlapsPartitioned == EachInOneRegion /\ RegionsDisjoint /\ RegionsAreComponents

\* An array proxy that starts within the bytes of another rbf.
Buried(f) == /\ rbf[f].size = 0
             /\ \E g \in DOMAIN rbf : /\ RegionOf(g).offset <= rbf[f].offset
                                      /\ rbf[f].offset < RegionOf(g).end

\* `we shouldn't exist in the vec': add() fails for no other reason than a
\* buried proxy.
BailsOnlyOnBuriedProxies == bailed => \E f \in DOMAIN rbf : Buried(f)
=============================================================================
