------------------------ MODULE RegisterBlockProofs ------------------------
(***************************************************************************)
(* FieldRegions::add and register_or_cluster_block, proved for every set   *)
(* of layouts and every order in which the rbfs are added: the regions are *)
(* always the connected components of the overlap relation, and only array *)
(* proxies can make add() fail; the blocks generated from natural rbfs put *)
(* every member where the SVD file has it, and nothing fails but blocks    *)
(* with a buried proxy or too small a size.                                *)
(***************************************************************************)
EXTENDS RegisterBlock, TLAPS

(***************************************************************************)
(* The bytes of a bit count.                                               *)
(***************************************************************************)

\* div_ceil returns a number of bytes, and no bytes for no bits only.
LEMMA DivCeilNat ==
  ASSUME NEW n \in Nat
  PROVE  DivCeil(n) \in Nat /\ (DivCeil(n) = 0 <=> n = 0)
  BY DEF DivCeil, BitsPerByte

\* An rbf on its own spans an interval of bytes, empty for a proxy only.
LEMMA RegionOfSpan ==
  ASSUME TypeOK, NEW f \in DOMAIN rbf
  PROVE  /\ RegionOf(f) \in [rbfs : {{f}}, offset : Nat, end : Nat]
         /\ RegionOf(f).offset <= RegionOf(f).end
         /\ RegionOf(f).offset = RegionOf(f).end <=> rbf[f].size = 0
<1>1. rbf[f].offset \in Nat /\ rbf[f].size \in Nat
  BY DEF TypeOK
<1>2. DivCeil(rbf[f].size) \in Nat /\ (DivCeil(rbf[f].size) = 0 <=> rbf[f].size = 0)
  BY <1>1, DivCeilNat
<1> QED BY <1>1, <1>2 DEF RegionOf

(***************************************************************************)
(* The inductive invariant: every property of the component at once.  That *)
(* regions are disjoint needs that no part of them is missing, and that    *)
(* they are connected needs that they are hulls.                           *)
(***************************************************************************)
Inv == /\ TypeOK
       /\ EachInOneRegion
       /\ RegionsDisjoint
       /\ RegionsAreComponents
       /\ BailsOnlyOnBuriedProxies

\* A region spans an interval of bytes, empty for the region of a proxy only.
LEMMA RegionSpan ==
  ASSUME Inv, NEW r \in regions
  PROVE  /\ r.rbfs \subseteq DOMAIN rbf /\ r.offset \in Nat /\ r.end \in Nat
         /\ r.offset <= r.end
<1>1. r \in [rbfs : SUBSET Added, offset : Nat, end : Nat] /\ IsHull(r)
  BY DEF Inv, TypeOK, RegionsAreComponents
<1>2. PICK f \in r.rbfs : RegionOf(f).offset = r.offset
  BY <1>1 DEF IsHull
<1>3. f \in DOMAIN rbf /\ RegionOf(f).end <= r.end
  BY <1>1 DEF IsHull, Added
<1>4. RegionOf(f) \in [rbfs : {{f}}, offset : Nat, end : Nat]
      /\ RegionOf(f).offset <= RegionOf(f).end
      /\ (RegionOf(f).offset = RegionOf(f).end <=> rbf[f].size = 0)
  BY <1>3, RegionOfSpan DEF Inv
<1> QED BY <1>1, <1>2, <1>3, <1>4 DEF Added

\* Every byte of a region belongs to one of its rbfs.
LEMMA BytesCovered ==
  ASSUME Inv, NEW r, r.rbfs \subseteq DOMAIN rbf, r.offset \in Nat, r.end \in Nat,
         IsHull(r), IsConnected(r), ProxiesAlone(r),
         NEW x \in r.offset..(r.end - 1)
  PROVE  \E f \in r.rbfs : RegionOf(f).offset <= x /\ x < RegionOf(f).end
<1>1. \A f \in r.rbfs : /\ RegionOf(f).offset \in Nat /\ RegionOf(f).end \in Nat
                        /\ RegionOf(f).offset <= RegionOf(f).end
                        /\ RegionOf(f).offset = RegionOf(f).end <=> rbf[f].size = 0
  BY RegionOfSpan DEF Inv
<1>2. CASE x = r.offset
  <2>1. PICK f \in r.rbfs : RegionOf(f).offset = r.offset
    BY DEF IsHull
  <2>2. ASSUME RegionOf(f).offset = RegionOf(f).end
        PROVE  FALSE
    <3>1. r.rbfs = {f}
      BY <1>1, <2>2 DEF ProxiesAlone
    <3>2. RegionOf(f).end = r.end
      BY <3>1 DEF IsHull
    <3>3. r.offset < r.end
      OBVIOUS
    <3> QED BY <2>1, <2>2, <3>2, <3>3
  <2> QED BY <1>1, <1>2, <2>1, <2>2
<1>3. CASE x # r.offset
  <2>1. x \in (r.offset + 1)..(r.end - 1)
    BY <1>3
  <2>2. PICK f \in r.rbfs : RegionOf(f).offset < x /\ x < RegionOf(f).end
    BY <2>1 DEF IsConnected
  <2> QED BY <1>1, <2>2
<1> QED BY <1>2, <1>3

(***************************************************************************)
(* One call of add(f) that merges the regions f hits into [lo, hi).        *)
(***************************************************************************)
Merging(f, lo, hi) ==
  LET parts == Parts(RegionOf(f))
  IN  /\ lo \in {r.offset : r \in parts}
      /\ hi \in {r.end : r \in parts}
      /\ \A r \in parts : lo <= r.offset /\ r.end <= hi

\* The merged region shares no byte with a region that f does not hit.
LEMMA MergeIsDisjoint ==
  ASSUME Inv, NEW f \in pending, NEW lo, NEW hi, Merging(f, lo, hi),
         NEW r \in regions \ Parts(RegionOf(f))
  PROVE  ~Intersects(r, Merge(Parts(RegionOf(f)), lo, hi))
<1> DEFINE new == RegionOf(f)
<1>1. PICK a \in Parts(new) : lo = a.offset
  BY DEF Merging
<1>2. PICK b \in Parts(new) : hi = b.end
  BY DEF Merging
<1>3. /\ new.offset \in Nat /\ new.end \in Nat /\ new.offset <= new.end
      /\ r.offset \in Nat /\ r.end \in Nat /\ r.offset <= r.end
      /\ a.offset \in Nat /\ a.end \in Nat /\ a.offset <= a.end
      /\ b.offset \in Nat /\ b.end \in Nat /\ b.offset <= b.end
  BY <1>1, <1>2, RegionOfSpan, RegionSpan DEF Parts, Hits, Inv, TypeOK
<1>4. ~Intersects(r, new)
  BY DEF Parts, Hits
<1>5. a = new \/ (Intersects(a, new) /\ ~Intersects(r, a))
  BY <1>1 DEF Parts, Hits, Inv, RegionsDisjoint
<1>6. b = new \/ (Intersects(b, new) /\ ~Intersects(r, b))
  BY <1>2 DEF Parts, Hits, Inv, RegionsDisjoint
<1>7. lo <= new.offset /\ new.end <= hi
  BY DEF Merging, Parts
<1> HIDE DEF new
<1>8. \A m : m.offset = lo /\ m.end = hi => ~Intersects(r, m)
  BY <1>1, <1>2, <1>3, <1>4, <1>5, <1>6, <1>7 DEF Intersects
<1> QED BY <1>8 DEF Merge

\* The merged region is the hull of its rbfs, and it is connected.
LEMMA MergeIsComponent ==
  ASSUME Inv, NEW f \in pending, NEW lo, NEW hi, Merging(f, lo, hi)
  PROVE  LET m == Merge(Parts(RegionOf(f)), lo, hi)
         IN  /\ m \in [rbfs : SUBSET (Added \cup {f}), offset : Nat, end : Nat]
             /\ IsHull(m) /\ IsConnected(m) /\ ProxiesAlone(m)
<1> DEFINE new == RegionOf(f)
           m == Merge(Parts(new), lo, hi)
<1>1. PICK a \in Parts(new) : lo = a.offset
  BY DEF Merging
<1>2. PICK b \in Parts(new) : hi = b.end
  BY DEF Merging
<1>3. f \in DOMAIN rbf /\ new.rbfs = {f}
  BY DEF Inv, TypeOK, RegionOf
<1>4. new.offset \in Nat /\ new.end \in Nat /\ new.offset <= new.end
  BY <1>3, RegionOfSpan DEF Inv
<1>5. ASSUME NEW r \in Parts(new)
      PROVE  /\ r.rbfs \subseteq Added \cup {f} /\ r.offset \in Nat /\ r.end \in Nat
             /\ IsHull(r) /\ IsConnected(r) /\ ProxiesAlone(r)
  <2>1. CASE r = new
    <3>1. \A g \in new.rbfs : g = f
      BY <1>3
    <3>2. IsHull(new)
      BY <1>3, <1>4 DEF IsHull
    <3>3. IsConnected(new)
      BY <1>3, <1>4 DEF IsConnected
    <3>4. ProxiesAlone(new)
      BY <1>3, <3>1 DEF ProxiesAlone
    <3> QED BY <2>1, <1>3, <1>4, <3>2, <3>3, <3>4
  <2>2. CASE r \in regions
    BY <2>2, RegionSpan DEF Inv, TypeOK, RegionsAreComponents
  <2> QED BY <2>1, <2>2 DEF Parts, Hits
<1>6. /\ m.rbfs = UNION {r.rbfs : r \in Parts(new)}
      /\ m.offset = lo /\ m.end = hi
  BY DEF Merge
<1>7. m \in [rbfs : SUBSET (Added \cup {f}), offset : Nat, end : Nat]
  <2>1. m.rbfs \subseteq Added \cup {f}
    BY <1>5, <1>6
  <2>2. lo \in Nat /\ hi \in Nat
    BY <1>1, <1>2, <1>5
  <2> QED BY <2>1, <2>2 DEF Merge
<1>8. \A r \in Parts(new) : lo <= r.offset /\ r.end <= hi
  BY DEF Merging
<1>9. IsHull(m)
  <2>1. ASSUME NEW g \in m.rbfs
        PROVE  lo <= RegionOf(g).offset /\ RegionOf(g).end <= hi
    <3>1. PICK r \in Parts(new) : g \in r.rbfs
      BY <1>6
    <3>2. r.offset <= RegionOf(g).offset /\ RegionOf(g).end <= r.end
      BY <1>5, <3>1 DEF IsHull
    <3>3. g \in DOMAIN rbf
      BY <1>3, <1>5, <3>1 DEF Added
    <3>4. RegionOf(g).offset \in Nat /\ RegionOf(g).end \in Nat
      BY <3>3, RegionOfSpan DEF Inv
    <3>5. lo <= r.offset /\ r.end <= hi /\ lo \in Nat /\ hi \in Nat
          /\ r.offset \in Nat /\ r.end \in Nat
      BY <1>5, <1>7, <1>8, <1>6
    <3> QED BY <3>2, <3>4, <3>5
  <2>2. PICK g \in a.rbfs : RegionOf(g).offset = a.offset
    BY <1>5 DEF IsHull
  <2>3. PICK h \in b.rbfs : RegionOf(h).end = b.end
    BY <1>5 DEF IsHull
  <2>4. g \in m.rbfs /\ h \in m.rbfs
    BY <1>6, <2>2, <2>3
  <2> QED BY <1>1, <1>2, <1>6, <2>1, <2>2, <2>3, <2>4 DEF IsHull
<1>10. IsConnected(m)
  <2> SUFFICES ASSUME NEW x \in (lo + 1)..(hi - 1)
               PROVE  \E g \in m.rbfs : RegionOf(g).offset < x /\ x < RegionOf(g).end
    BY <1>6 DEF IsConnected
  <2>1. x \in Int /\ lo < x /\ x < hi /\ lo \in Nat /\ hi \in Nat
    BY <1>6, <1>7
  <2>2. ASSUME NEW r \in Parts(new), r.offset < x, x < r.end
        PROVE  \E g \in r.rbfs : RegionOf(g).offset < x /\ x < RegionOf(g).end
    <3>1. x \in (r.offset + 1)..(r.end - 1)
      BY <1>5, <2>1, <2>2
    <3> QED BY <1>5, <2>2, <3>1 DEF IsConnected
  <2>3. \E r \in Parts(new) : r.offset < x /\ x < r.end
    <3>1. new \in Parts(new)
      BY DEF Parts
    <3>2. a = new \/ Intersects(a, new)
      BY <1>1 DEF Parts, Hits
    <3>3. b = new \/ Intersects(b, new)
      BY <1>2 DEF Parts, Hits
    <3>4. /\ a.offset \in Nat /\ a.end \in Nat
          /\ b.offset \in Nat /\ b.end \in Nat
      BY <1>5
    <3>5. CASE new.offset < x /\ x < new.end
      BY <3>1, <3>5
    <3>6. CASE x <= new.offset
      <4>1. a.offset < x /\ x < a.end
        BY <1>1, <1>4, <2>1, <3>2, <3>4, <3>6 DEF Intersects
      <4> QED BY <4>1
    <3>7. CASE new.end <= x
      <4>1. b.offset < x /\ x < b.end
        BY <1>2, <1>4, <2>1, <3>3, <3>4, <3>7 DEF Intersects
      <4> QED BY <4>1
    <3> QED BY <1>4, <2>1, <3>5, <3>6, <3>7
  <2> QED BY <1>6, <2>2, <2>3
<1>11. ProxiesAlone(m)
  <2> SUFFICES ASSUME NEW g \in m.rbfs, rbf[g].size = 0
               PROVE  m.rbfs = {g}
    BY DEF ProxiesAlone
  <2>1. PICK r \in Parts(new) : g \in r.rbfs
    BY <1>6
  <2>2. r.rbfs = {g}
    BY <1>5, <2>1 DEF ProxiesAlone
  <2>3. g \in DOMAIN rbf
    BY <1>3, <1>5, <2>1 DEF Added
  <2>4. RegionOf(g).offset = RegionOf(g).end
    BY <2>3, RegionOfSpan DEF Inv
  <2>5. r.offset = RegionOf(g).offset /\ r.end = RegionOf(g).end
    BY <1>5, <2>2 DEF IsHull
  <2>6. ~Intersects(r, new) /\ ~Intersects(new, r)
    BY <1>4, <1>5, <2>4, <2>5 DEF Intersects
  <2>7. r = new
    BY <2>6 DEF Parts, Hits
  <2>8. Hits(new) = {}
    <3>1. new.offset = new.end
      BY <2>4, <2>5, <2>7
    <3> HIDE DEF new
    <3> QED BY <1>4, <3>1 DEF Hits, Intersects
  <2>9. Parts(new) = {new}
    BY <2>8 DEF Parts
  <2> QED BY <1>6, <2>2, <2>7, <2>9
<1> QED BY <1>7, <1>9, <1>10, <1>11

(***************************************************************************)
(* The theorems.                                                           *)
(***************************************************************************)

\* add() preserves the invariant.
LEMMA AddPreservesInv ==
  ASSUME Inv, NEW f \in pending, Add(f)
  PROVE  Inv'
<1> DEFINE new == RegionOf(f)
           parts == Parts(new)
           left == regions \ parts
<1>0. PICK lo \in {r.offset : r \in parts}, hi \in {r.end : r \in parts} :
         /\ \A r \in parts : lo <= r.offset /\ r.end <= hi
         /\ Insert(Merge(parts, lo, hi), left)
  BY DEF Add, Take
<1> DEFINE m == Merge(parts, lo, hi)
<1>1. Merging(f, lo, hi) /\ Insert(m, left)
  BY <1>0 DEF Merging
<1>2. /\ m \in [rbfs : SUBSET (Added \cup {f}), offset : Nat, end : Nat]
      /\ IsHull(m) /\ IsConnected(m) /\ ProxiesAlone(m)
  BY <1>1, MergeIsComponent
<1>3. ~bailed /\ rbf' = rbf /\ pending' = pending \ {f}
  BY DEF Add, Take
<1>4. f \in DOMAIN rbf /\ Added' = Added \cup {f} /\ f \notin Added
  BY <1>3 DEF Added, Inv, TypeOK
<1>5. \/ /\ regions' = left \cup {m}
         /\ bailed' = FALSE
      \/ /\ regions' = left
         /\ bailed' = TRUE
         /\ m.offset # m.end
         /\ \E r \in left : r.offset = m.offset
  BY <1>1 DEF Insert, HasPlace
<1>6. \A r \in left : ~Intersects(r, m)
  BY <1>1, MergeIsDisjoint
<1>7. TypeOK'
  <2>1. regions' \subseteq [rbfs : SUBSET Added', offset : Nat, end : Nat]
    <3>1. \A r \in regions : r \in [rbfs : SUBSET Added', offset : Nat, end : Nat]
      BY <1>4 DEF Inv, TypeOK
    <3> QED BY <1>2, <1>4, <1>5, <3>1
  <2> QED BY <1>3, <1>5, <2>1 DEF Inv, TypeOK
<1>8. EachInOneRegion'
  <2> SUFFICES ASSUME ~bailed', NEW g \in Added'
               PROVE  \E r \in regions' : /\ g \in r.rbfs
                                          /\ \A s \in regions' : g \in s.rbfs => s = r
    BY DEF EachInOneRegion
  <2>1. regions' = left \cup {m}
    BY <1>5
  <2>2. m.rbfs = UNION {r.rbfs : r \in parts}
    BY DEF Merge
  <2>3. new.rbfs = {f} /\ new \in parts /\ parts \subseteq regions \cup {new}
    BY DEF RegionOf, Parts, Hits
  <2>4. \A r \in regions : f \notin r.rbfs
    BY <1>4 DEF Inv, TypeOK
  <2>5. CASE g = f
    <3>1. g \in m.rbfs
      BY <2>2, <2>3, <2>5
    <3> QED BY <2>1, <2>4, <2>5, <3>1
  <2>6. CASE g # f
    <3>1. PICK r \in regions : g \in r.rbfs /\ \A s \in regions : g \in s.rbfs => s = r
      BY <1>3, <1>4, <2>6 DEF Inv, EachInOneRegion
    <3>2. CASE r \in parts
      <4>1. g \in m.rbfs
        BY <2>2, <3>1, <3>2
      <4> QED BY <2>1, <3>1, <3>2, <4>1
    <3>3. CASE r \notin parts
      <4>1. g \notin m.rbfs
        BY <2>2, <2>3, <2>6, <3>1, <3>3
      <4> QED BY <2>1, <3>1, <3>3, <4>1
    <3> QED BY <3>2, <3>3
  <2> QED BY <2>5, <2>6
<1>9. RegionsDisjoint'
  <2>1. \A r, s : Intersects(r, s) <=> Intersects(s, r)
    BY DEF Intersects
  <2> QED BY <1>5, <1>6, <2>1 DEF Inv, RegionsDisjoint
<1>10. RegionsAreComponents'
  <2>1. \A r : /\ IsHull(r) => IsHull(r)'
               /\ IsConnected(r) => IsConnected(r)'
               /\ ProxiesAlone(r) => ProxiesAlone(r)'
    BY <1>3 DEF IsHull, IsConnected, ProxiesAlone, RegionOf
  <2> QED BY <1>2, <1>5, <2>1 DEF Inv, RegionsAreComponents
<1>11. BailsOnlyOnBuriedProxies'
  <2> SUFFICES ASSUME bailed'
               PROVE  \E g \in DOMAIN rbf : Buried(g)
    BY <1>3 DEF BailsOnlyOnBuriedProxies, Buried, RegionOf
  <2>1. PICK r \in left : r.offset = m.offset
    BY <1>5
  <2>2. m.offset # m.end /\ m.offset \in Nat /\ m.end \in Nat
    BY <1>2, <1>5
  <2>3. r.offset \in Nat /\ r.end \in Nat /\ r.offset <= r.end
        /\ IsHull(r) /\ IsConnected(r) /\ ProxiesAlone(r)
    BY RegionSpan DEF Inv, RegionsAreComponents
  <2>4. m.rbfs \subseteq DOMAIN rbf /\ r.rbfs \subseteq DOMAIN rbf
    BY <1>2, <1>4, RegionSpan DEF Added
  <2>5. m.offset < m.end
    <3>1. PICK g \in m.rbfs : RegionOf(g).offset = m.offset
      BY <1>2 DEF IsHull
    <3>2. g \in DOMAIN rbf /\ RegionOf(g).end <= m.end
      BY <1>2, <2>4 DEF IsHull
    <3>3. /\ RegionOf(g) \in [rbfs : {{g}}, offset : Nat, end : Nat]
          /\ RegionOf(g).offset <= RegionOf(g).end
      BY <3>2, RegionOfSpan DEF Inv
    <3> HIDE DEF m
    <3> QED BY <2>2, <3>1, <3>2, <3>3
  <2>6. r.end = m.offset
    <3>1. ~Intersects(r, m)
      BY <1>6
    <3> HIDE DEF m
    <3> QED BY <2>1, <2>2, <2>3, <2>5, <3>1 DEF Intersects
  <2>7. PICK g \in r.rbfs : RegionOf(g).offset = r.offset
    BY <2>3 DEF IsHull
  <2>8. g \in DOMAIN rbf /\ rbf[g].size = 0 /\ rbf[g].offset = m.offset
    <3>1. g \in DOMAIN rbf /\ RegionOf(g).end <= r.end
      BY <2>3, <2>4, <2>7 DEF IsHull
    <3>2. /\ RegionOf(g) \in [rbfs : {{g}}, offset : Nat, end : Nat]
          /\ RegionOf(g).offset <= RegionOf(g).end
          /\ RegionOf(g).offset = RegionOf(g).end <=> rbf[g].size = 0
      BY <3>1, RegionOfSpan DEF Inv
    <3>3. RegionOf(g).offset = rbf[g].offset
      BY DEF RegionOf
    <3> HIDE DEF m
    <3> QED BY <2>1, <2>2, <2>6, <2>7, <3>1, <3>2, <3>3
  <2>9. PICK h \in m.rbfs : RegionOf(h).offset <= m.offset /\ m.offset < RegionOf(h).end
    <3>1. m.offset \in m.offset..(m.end - 1)
      BY <2>2, <2>5
    <3> HIDE DEF m
    <3> QED BY <1>2, <2>2, <2>4, <2>5, <3>1, BytesCovered
  <2> QED BY <2>4, <2>8, <2>9 DEF Buried
<1> QED BY <1>7, <1>8, <1>9, <1>10, <1>11 DEF Inv

\* Every state of FieldRegions, in whatever order add() sees the rbfs of a
\* block, satisfies the inductive invariant.
THEOREM Invariance == Spec => []Inv
<1>1. Init => Inv
  BY LayoutsAssumption DEF Init, Inv, TypeOK, EachInOneRegion, RegionsDisjoint, RegionsAreComponents,
         BailsOnlyOnBuriedProxies, Added
<1>2. Inv /\ [Next]_regionVars => Inv'
  <2> SUFFICES ASSUME Inv, [Next]_regionVars
               PROVE  Inv'
    OBVIOUS
  <2>1. CASE Next
    BY <2>1, AddPreservesInv DEF Next
  <2>2. CASE UNCHANGED regionVars
    <3>1. \A r : /\ IsHull(r) => IsHull(r)'
                 /\ IsConnected(r) => IsConnected(r)'
                 /\ ProxiesAlone(r) => ProxiesAlone(r)'
      BY <2>2 DEF regionVars, IsHull, IsConnected, ProxiesAlone, RegionOf
    <3>2. \A f : Buried(f) => Buried(f)'
      BY <2>2 DEF regionVars, Buried, RegionOf
    <3> QED BY <2>2, <3>1, <3>2 DEF regionVars, Inv, TypeOK, EachInOneRegion, RegionsDisjoint,
                              RegionsAreComponents, BailsOnlyOnBuriedProxies, Added
  <2> QED BY <2>1, <2>2
<1> QED BY <1>1, <1>2, PTL DEF Spec

\* The variables keep their types: regions are made of rbfs that were added.
THEOREM TypeCorrect == Spec => []TypeOK
  BY Invariance, PTL DEF Inv

\* Merging never loses or duplicates a register, never leaves two regions that
\* share a byte, and never joins registers that do not overlap.
THEOREM RegionsCorrect == Spec => []OverlapsPartitioned
  BY Invariance, PTL DEF Inv, OverlapsPartitioned

\* A block in which no array proxy starts within the bytes of another register
\* never meets the error of add().
THEOREM NoBailWithoutBuriedProxies == Spec => []BailsOnlyOnBuriedProxies
  BY Invariance, PTL DEF Inv

----------------------------------------------------------------------------
(***************************************************************************)
(* Adding the rbfs is FieldRegions: what is proved there holds here.       *)
(***************************************************************************)

\* Every step of the generation is a call of add() or leaves the regions alone.
LEMMA BlockStepsAreRegionSteps ==
  ASSUME [BlockNext]_vars
  PROVE  [Next]_regionVars
<1>1. CASE \E f \in pending : AddNext(f)
  BY <1>1 DEF AddNext, Next
<1>2. CASE \E r \in regions : EmitUnderflow(r) \/ EmitUnion(r) \/ EmitMember(r)
  BY <1>2 DEF EmitUnderflow, EmitUnion, EmitMember
<1>3. CASE Finish
  BY <1>3 DEF Finish
<1>4. CASE UNCHANGED vars
  BY <1>4 DEF vars
<1> QED BY <1>1, <1>2, <1>3, <1>4 DEF BlockNext

\* The generation of a block implements FieldRegions.
THEOREM BlockImplementsRegions == BlockSpec => Spec
<1>1. BlockInit => Init
  BY DEF BlockInit
<1>2. [BlockNext]_vars => [Next]_regionVars
  BY BlockStepsAreRegionSteps
<1> QED BY <1>1, <1>2, PTL DEF BlockSpec, Spec

(***************************************************************************)
(* The inductive invariant of the emission.                                *)
(***************************************************************************)

\* What the layouts are assumed to be, as a fact about rbf.
RbfTyped == \A f \in DOMAIN rbf :
               /\ rbf[f].count \in Nat /\ rbf[f].bytes \in Nat /\ rbf[f].align \in Nat \ {0}
               /\ ElementsFollow(rbf[f])

\* Emission starts after the last call of add().
Started == emitted # {} \/ status # "generating" => pending = {} /\ ~bailed

\* last_end is the end of an emitted region and of none that comes later.
LastEnd == /\ emitted = {} => last_end = 0
           /\ emitted # {} => \E e \in emitted : e.end = last_end
           /\ \A e \in emitted : e.end <= last_end
           /\ \A e \in emitted, r \in regions \ emitted : e.offset <= r.offset

\* The struct is as long as the code believes, and its members are in place.
InStep == AllNatural =>
            /\ status \in {"generating", "underflow"} => pos = last_end
            /\ status = "done" => \A n \in size : pos = n
            /\ \A r \in emitted : ~IsUnion(r) =>
                  \A f \in r.rbfs : place[f] = rbf[f].offset

\* How the generation can have ended.
Outcome == /\ status = "done" => emitted = regions /\ Fits
           /\ status = "incorrect_size" => emitted = regions /\ ~Fits
           /\ status = "underflow" => \E f \in DOMAIN rbf : Buried(f)

BlockInv == /\ BlockTypeOK
            /\ RbfTyped
            /\ Started
            /\ LastEnd
            /\ InStep
            /\ Outcome

(***************************************************************************)
(* Arithmetic.                                                             *)
(***************************************************************************)

\* Aligning a position yields a position, and leaves an aligned one alone.
LEMMA AlignUpNat ==
  ASSUME NEW x \in Nat, NEW a \in Nat \ {0}
  PROVE  AlignUp(x, a) \in Nat /\ (x % a = 0 => AlignUp(x, a) = x)
<1>1. x % a \in 0..(a - 1)
  OBVIOUS
<1> QED BY <1>1 DEF AlignUp

\* Whole bytes are not rounded up.
LEMMA DivCeilBytes ==
  ASSUME NEW k \in Nat
  PROVE  DivCeil(BitsPerByte * k) = k
  BY DEF DivCeil, BitsPerByte

(***************************************************************************)
(* Regions of a block in which emission has started.                       *)
(***************************************************************************)

\* A region that is no union holds one rbf and has its bounds.
LEMMA SingleRegion ==
  ASSUME Inv, NEW r \in regions, ~IsUnion(r), NEW f \in r.rbfs
  PROVE  /\ r.rbfs = {f} /\ f \in DOMAIN rbf
         /\ r.offset = rbf[f].offset /\ r.end = RegionOf(f).end
<1>1. r.rbfs = {f}
  BY DEF IsUnion
<1>2. IsHull(r) /\ f \in DOMAIN rbf
  BY RegionSpan DEF Inv, RegionsAreComponents
<1>3. r.offset = RegionOf(f).offset /\ r.end = RegionOf(f).end
  BY <1>1, <1>2 DEF IsHull
<1> QED BY <1>1, <1>2, <1>3 DEF RegionOf

\* The bytes that the emission has covered, and what is still to come.
LEMMA EmittingFacts ==
  ASSUME Inv, BlockInv, NEW r, Emitting(r)
  PROVE  /\ pending = {} /\ ~bailed /\ status = "generating" /\ Added = DOMAIN rbf
         /\ r \in regions /\ r \notin emitted
         /\ r.offset \in Nat /\ r.end \in Nat /\ r.offset <= r.end
         /\ last_end \in Nat /\ pos \in Nat
         /\ \A s \in regions \ (emitted \cup {r}) : r.offset <= s.offset
<1>1. r \in regions /\ r \notin emitted /\ IsNextRegion(r)
  BY DEF Emitting
<1>2. \A s \in regions : s.offset \in Nat /\ s.end \in Nat /\ s.offset <= s.end
  BY RegionSpan
<1>3. \A s \in regions \ (emitted \cup {r}) : r.offset <= s.offset
  BY <1>1, <1>2 DEF IsNextRegion
<1> QED BY <1>1, <1>2, <1>3 DEF Emitting, BlockInv, BlockTypeOK, Added

\* Emitting r keeps track of the end of the struct.
LEMMA LastEndStep ==
  ASSUME Inv, BlockInv, NEW r, Emitting(r), r.offset >= last_end,
         last_end' = r.end, emitted' = emitted \cup {r}, regions' = regions
  PROVE  LastEnd'
<1>1. /\ r \in regions
      /\ r.offset \in Nat /\ r.end \in Nat /\ r.offset <= r.end /\ last_end \in Nat
      /\ \A s \in regions \ (emitted \cup {r}) : r.offset <= s.offset
  BY EmittingFacts
<1>2. \A e \in emitted : e.end \in Nat /\ e.end <= last_end
  BY RegionSpan DEF BlockInv, BlockTypeOK, LastEnd
<1>3. \A e \in emitted : e.end <= r.end
  BY <1>1, <1>2
<1>4. \A e \in emitted, s \in regions \ (emitted \cup {r}) : e.offset <= s.offset
  BY DEF BlockInv, LastEnd
<1> QED BY <1>1, <1>3, <1>4 DEF LastEnd

\* The members that were placed stay where they are when region r is emitted.
LEMMA OthersStayInPlace ==
  ASSUME Inv, BlockInv, NEW r, Emitting(r), AllNatural,
         NEW e \in emitted, ~IsUnion(e), NEW f \in e.rbfs
  PROVE  f \notin r.rbfs /\ place[f] = rbf[f].offset
<1>1. /\ ~bailed /\ Added = DOMAIN rbf /\ r \in regions /\ r \notin emitted
  BY EmittingFacts
<1>2. e \in regions /\ f \in DOMAIN rbf
  BY RegionSpan DEF BlockInv, BlockTypeOK
<1>3. f \notin r.rbfs
  BY <1>1, <1>2 DEF Inv, EachInOneRegion
<1> QED BY <1>3 DEF BlockInv, InStep

(***************************************************************************)
(* Each action preserves the invariant.                                    *)
(***************************************************************************)

\* Naturalness, unions and spans are read from rbf and regions alone.
LEMMA LayoutUnchanged ==
  ASSUME rbf' = rbf
  PROVE  /\ AllNatural' <=> AllNatural
         /\ RbfTyped' <=> RbfTyped
         /\ \A f : RegionOf(f)' = RegionOf(f) /\ (Buried(f)' <=> Buried(f))
  BY DEF AllNatural, Natural, RbfTyped, RegionOf, Buried

LEMMA AddNextPreserves ==
  ASSUME Inv', BlockInv, NEW f \in pending, AddNext(f)
  PROVE  BlockInv'
<1>1. /\ rbf' = rbf /\ UNCHANGED emitVars
  BY DEF AddNext, Add, Take
<1>2. emitted = {} /\ status = "generating"
  BY DEF BlockInv, Started
<1>3. BlockTypeOK'
  BY <1>1, <1>2 DEF Inv, BlockInv, BlockTypeOK, emitVars
<1>4. RbfTyped'
  BY <1>1, LayoutUnchanged DEF BlockInv
<1>5. Started' /\ LastEnd' /\ Outcome'
  BY <1>1, <1>2 DEF BlockInv, Started, LastEnd, Outcome, emitVars
<1>6. InStep'
  BY <1>1, <1>2, LayoutUnchanged DEF BlockInv, InStep, emitVars
<1> QED BY <1>3, <1>4, <1>5, <1>6 DEF BlockInv

LEMMA EmitUnderflowPreserves ==
  ASSUME Inv, BlockInv, NEW r, EmitUnderflow(r)
  PROVE  BlockInv'
<1>1. Emitting(r) /\ r.offset < last_end /\ status' = "underflow"
      /\ UNCHANGED <<regionVars, size, emitted, last_end, pos, place>>
  BY DEF EmitUnderflow
<1>2. /\ pending = {} /\ ~bailed /\ status = "generating" /\ Added = DOMAIN rbf
      /\ r \in regions /\ r \notin emitted
      /\ r.offset \in Nat /\ r.end \in Nat /\ r.offset <= r.end
      /\ last_end \in Nat /\ pos \in Nat
  BY <1>1, EmittingFacts
<1>3. \E f \in DOMAIN rbf : Buried(f)
  <2>1. PICK e \in emitted : e.end = last_end /\ e.offset <= r.offset
    BY <1>1, <1>2 DEF BlockInv, LastEnd
  <2>2. /\ e \in regions /\ e # r
        /\ e.offset \in Nat /\ e.end \in Nat
        /\ e.rbfs \subseteq DOMAIN rbf /\ r.rbfs \subseteq DOMAIN rbf
        /\ IsHull(e) /\ IsConnected(e) /\ ProxiesAlone(e) /\ IsHull(r)
    BY <1>2, RegionSpan DEF Inv, BlockInv, BlockTypeOK, RegionsAreComponents
  <2>3. ~Intersects(e, r)
    BY <1>2, <2>2 DEF Inv, RegionsDisjoint
  <2>4. r.offset = r.end
    BY <1>1, <1>2, <2>1, <2>2, <2>3 DEF Intersects
  <2>5. PICK f \in r.rbfs : RegionOf(f).offset = r.offset
    BY <2>2 DEF IsHull
  <2>6. f \in DOMAIN rbf /\ rbf[f].size = 0 /\ rbf[f].offset = r.offset
    <3>1. f \in DOMAIN rbf /\ RegionOf(f).end <= r.end
      BY <2>2, <2>5 DEF IsHull
    <3>2. /\ RegionOf(f) \in [rbfs : {{f}}, offset : Nat, end : Nat]
          /\ RegionOf(f).offset <= RegionOf(f).end
          /\ RegionOf(f).offset = RegionOf(f).end <=> rbf[f].size = 0
      BY <3>1, RegionOfSpan DEF Inv
    <3>3. RegionOf(f).offset = rbf[f].offset
      BY DEF RegionOf
    <3> QED BY <1>2, <2>4, <2>5, <3>1, <3>2, <3>3
  <2>7. PICK g \in e.rbfs : RegionOf(g).offset <= r.offset /\ r.offset < RegionOf(g).end
    <3>1. r.offset \in e.offset..(e.end - 1)
      BY <1>1, <1>2, <2>1, <2>2
    <3> QED BY <2>2, <3>1, BytesCovered
  <2> QED BY <2>2, <2>6, <2>7 DEF Buried
<1>4. rbf' = rbf /\ regions' = regions /\ pending' = pending /\ bailed' = bailed
  BY <1>1 DEF regionVars
<1>5. BlockTypeOK' /\ RbfTyped'
  BY <1>1, <1>4, LayoutUnchanged DEF BlockInv, BlockTypeOK, TypeOK, Statuses, Added
<1>6. Started' /\ LastEnd'
  BY <1>1, <1>2, <1>4 DEF BlockInv, Started, LastEnd
<1>7. InStep'
  BY <1>1, <1>2, <1>4, LayoutUnchanged DEF BlockInv, InStep, IsUnion
<1>8. Outcome'
  BY <1>1, <1>3, <1>4, LayoutUnchanged DEF Outcome
<1> QED BY <1>5, <1>6, <1>7, <1>8 DEF BlockInv

LEMMA EmitUnionPreserves ==
  ASSUME Inv, BlockInv, NEW r, EmitUnion(r)
  PROVE  BlockInv'
<1>1. /\ Emitting(r) /\ r.offset >= last_end /\ IsUnion(r)
      /\ pos' = Pad(r) + (r.end - r.offset) /\ last_end' = r.end
      /\ emitted' = emitted \cup {r}
      /\ UNCHANGED <<regionVars, size, place, status>>
  BY DEF EmitUnion
<1>2. /\ pending = {} /\ ~bailed /\ status = "generating" /\ Added = DOMAIN rbf
      /\ r \in regions /\ r \notin emitted
      /\ r.offset \in Nat /\ r.end \in Nat /\ r.offset <= r.end
      /\ last_end \in Nat /\ pos \in Nat
  BY <1>1, EmittingFacts
<1>3. rbf' = rbf /\ regions' = regions /\ pending' = pending /\ bailed' = bailed
  BY <1>1 DEF regionVars
<1>4. Pad(r) \in Nat /\ (pos = last_end => Pad(r) = r.offset)
  BY <1>1, <1>2 DEF Pad
<1>5. BlockTypeOK' /\ RbfTyped'
  <2>1. pos' \in Nat /\ last_end' \in Nat
    BY <1>1, <1>2, <1>4
  <2> QED BY <1>1, <1>2, <1>3, <2>1, LayoutUnchanged DEF BlockInv, BlockTypeOK, TypeOK, Added
<1>6. Started' /\ Outcome'
  BY <1>1, <1>2, <1>3 DEF Started, Outcome
<1>7. LastEnd'
  BY <1>1, <1>3, LastEndStep
<1>8. InStep'
  <2> SUFFICES ASSUME AllNatural
               PROVE  /\ pos' = last_end'
                      /\ \A e \in emitted' : ~IsUnion(e) =>
                            \A f \in e.rbfs : place'[f] = rbf'[f].offset
    BY <1>1, <1>2, <1>3, LayoutUnchanged DEF InStep, IsUnion
  <2>1. pos = last_end
    BY <1>2 DEF BlockInv, InStep
  <2>2. pos' = last_end'
    BY <1>1, <1>2, <1>4, <2>1
  <2>3. \A e \in emitted : ~IsUnion(e) => \A f \in e.rbfs : place[f] = rbf[f].offset
    BY DEF BlockInv, InStep
  <2> QED BY <1>1, <1>3, <2>2, <2>3
<1> QED BY <1>5, <1>6, <1>7, <1>8 DEF BlockInv

LEMMA EmitMemberPreserves ==
  ASSUME Inv, BlockInv, NEW r, EmitMember(r)
  PROVE  BlockInv'
<1>1. /\ Emitting(r) /\ r.offset >= last_end /\ ~IsUnion(r)
      /\ last_end' = r.end
      /\ emitted' = emitted \cup {r}
      /\ UNCHANGED <<regionVars, size, status>>
  BY DEF EmitMember
<1>2. /\ pending = {} /\ ~bailed /\ status = "generating" /\ Added = DOMAIN rbf
      /\ r \in regions /\ r \notin emitted
      /\ r.offset \in Nat /\ r.end \in Nat /\ r.offset <= r.end
      /\ last_end \in Nat /\ pos \in Nat
  BY <1>1, EmittingFacts
<1>3. rbf' = rbf /\ regions' = regions /\ pending' = pending /\ bailed' = bailed
  BY <1>1 DEF regionVars
<1>4. Pad(r) \in Nat /\ (pos = last_end => Pad(r) = r.offset)
  BY <1>1, <1>2 DEF Pad
<1>5. PICK f \in r.rbfs :
         /\ place' = [place EXCEPT ![f] = AlignUp(Pad(r), rbf[f].align)]
         /\ pos' = AlignUp(Pad(r), rbf[f].align) + rbf[f].count * rbf[f].bytes
  BY DEF EmitMember
<1>6. /\ r.rbfs = {f} /\ f \in DOMAIN rbf
      /\ r.offset = rbf[f].offset /\ r.end = RegionOf(f).end
  BY <1>1, <1>2, SingleRegion
<1>7. /\ rbf[f].align \in Nat \ {0}
      /\ rbf[f].count * rbf[f].bytes \in Nat
  BY <1>6 DEF BlockInv, RbfTyped
<1>8. /\ AlignUp(Pad(r), rbf[f].align) \in Nat
      /\ Pad(r) % rbf[f].align = 0 => AlignUp(Pad(r), rbf[f].align) = Pad(r)
  BY <1>4, <1>7, AlignUpNat
<1>9. BlockTypeOK' /\ RbfTyped'
  <2>1. pos' \in Nat /\ last_end' \in Nat
    BY <1>1, <1>2, <1>5, <1>7, <1>8
  <2>2. place' \in [DOMAIN rbf -> Nat]
    BY <1>5, <1>8 DEF BlockInv, BlockTypeOK
  <2> QED BY <1>1, <1>2, <1>3, <2>1, <2>2, LayoutUnchanged
          DEF BlockInv, BlockTypeOK, TypeOK, Added
<1>10. Started' /\ Outcome'
  BY <1>1, <1>2, <1>3 DEF Started, Outcome
<1>11. LastEnd'
  BY <1>1, <1>3, LastEndStep
<1>12. InStep'
  <2> SUFFICES ASSUME AllNatural
               PROVE  /\ pos' = last_end'
                      /\ \A e \in emitted' : ~IsUnion(e) =>
                            \A g \in e.rbfs : place'[g] = rbf'[g].offset
    BY <1>1, <1>2, <1>3, LayoutUnchanged DEF InStep, IsUnion
  <2>1. Pad(r) = rbf[f].offset
    BY <1>2, <1>4, <1>6 DEF BlockInv, InStep
  <2>2. /\ rbf[f].size = BitsPerByte * (rbf[f].count * rbf[f].bytes)
        /\ rbf[f].offset % rbf[f].align = 0
    BY <1>6 DEF AllNatural, Natural
  <2>3. AlignUp(Pad(r), rbf[f].align) = rbf[f].offset
    BY <1>8, <2>1, <2>2
  <2>4. RegionOf(f).end = rbf[f].offset + rbf[f].count * rbf[f].bytes
    BY <1>7, <2>2, DivCeilBytes DEF RegionOf
  <2>5. pos' = last_end'
    BY <1>1, <1>5, <1>6, <2>3, <2>4
  <2>6. place'[f] = rbf[f].offset
    BY <1>5, <1>6, <2>3 DEF BlockInv, BlockTypeOK
  <2>7. ASSUME NEW e \in emitted, ~IsUnion(e), NEW g \in e.rbfs
        PROVE  place'[g] = rbf[g].offset
    <3>1. g # f /\ place[g] = rbf[g].offset
      BY <1>1, <1>5, <2>7, OthersStayInPlace
    <3>2. g \in DOMAIN rbf
      BY RegionSpan DEF BlockInv, BlockTypeOK
    <3> QED BY <1>5, <3>1, <3>2 DEF BlockInv, BlockTypeOK
  <2> QED BY <1>1, <1>3, <1>6, <2>5, <2>6, <2>7
<1> QED BY <1>9, <1>10, <1>11, <1>12 DEF BlockInv

LEMMA FinishPreserves ==
  ASSUME Inv, BlockInv, Finish
  PROVE  BlockInv'
<1>1. /\ status = "generating" /\ ~bailed /\ pending = {} /\ emitted = regions
      /\ status' = (IF Fits THEN "done" ELSE "incorrect_size")
      /\ pos' \in IF Fits /\ size # {} THEN {pos + (n - last_end) : n \in size} ELSE {pos}
      /\ UNCHANGED <<regionVars, size, emitted, last_end, place>>
  BY DEF Finish
<1>2. rbf' = rbf /\ regions' = regions /\ pending' = pending /\ bailed' = bailed
  BY <1>1 DEF regionVars
<1>3. last_end \in Nat /\ pos \in Nat
  BY DEF BlockInv, BlockTypeOK
<1>4. size = {} \/ \E n \in size : n \in Nat /\ size = {n}
  BY BlockSizesAssumption DEF BlockInv, BlockTypeOK
<1>5. /\ pos' \in Nat
      /\ Fits /\ pos = last_end => \A n \in size : pos' = n
  <2>1. CASE size = {} \/ ~Fits
    BY <1>1, <1>3, <2>1
  <2>2. CASE size # {} /\ Fits
    <3>1. PICK n \in size : n \in Nat /\ size = {n}
      BY <1>4, <2>2
    <3>2. last_end <= n
      BY <2>2, <3>1 DEF Fits
    <3>3. pos' = pos + (n - last_end)
      BY <1>1, <2>2, <3>1
    <3> QED BY <1>3, <3>1, <3>2, <3>3
  <2> QED BY <2>1, <2>2
<1>6. Fits' <=> Fits
  BY <1>1 DEF Fits
<1>7. BlockTypeOK' /\ RbfTyped'
  BY <1>1, <1>2, <1>5, LayoutUnchanged DEF BlockInv, BlockTypeOK, TypeOK, Statuses, Added
<1>8. Started' /\ LastEnd' /\ Outcome'
  BY <1>1, <1>2, <1>6 DEF BlockInv, Started, LastEnd, Outcome
<1>9. InStep'
  BY <1>1, <1>2, <1>5, LayoutUnchanged DEF BlockInv, InStep, IsUnion
<1> QED BY <1>7, <1>8, <1>9 DEF BlockInv

LEMMA BlockStutterPreserves ==
  ASSUME BlockInv, UNCHANGED vars
  PROVE  BlockInv'
<1>1. /\ rbf' = rbf /\ pending' = pending /\ regions' = regions /\ bailed' = bailed
      /\ size' = size /\ emitted' = emitted /\ last_end' = last_end /\ pos' = pos
      /\ place' = place /\ status' = status
  BY DEF vars, regionVars, emitVars
<1>2. BlockTypeOK' /\ RbfTyped' /\ Started' /\ LastEnd'
  BY <1>1, LayoutUnchanged DEF BlockInv, BlockTypeOK, TypeOK, Added, Started, LastEnd
<1>3. InStep' /\ Outcome'
  BY <1>1, LayoutUnchanged DEF BlockInv, InStep, IsUnion, Outcome, Fits
<1> QED BY <1>2, <1>3 DEF BlockInv

(***************************************************************************)
(* The theorems.                                                           *)
(***************************************************************************)

\* The inductive invariant of the emission, next to that of the regions.
THEOREM BlockInvariance == BlockSpec => [](Inv /\ BlockInv)
<1>1. BlockInit => BlockInv
  <2> SUFFICES ASSUME BlockInit
               PROVE  BlockInv
    OBVIOUS
  <2>1. /\ rbf \in Layouts /\ pending = DOMAIN rbf /\ regions = {} /\ bailed = FALSE
        /\ size \in BlockSizes /\ emitted = {} /\ last_end = 0 /\ pos = 0
        /\ place = [f \in DOMAIN rbf |-> 0] /\ status = "generating"
    BY DEF BlockInit, Init
  <2>2. BlockTypeOK
    BY <2>1, LayoutsAssumption DEF BlockTypeOK, TypeOK, Statuses
  <2>3. RbfTyped
    BY <2>1, RbfAssumption DEF RbfTyped
  <2>4. Started /\ LastEnd /\ InStep /\ Outcome
    BY <2>1 DEF Started, LastEnd, InStep, Outcome
  <2> QED BY <2>2, <2>3, <2>4 DEF BlockInv
<1>2. Inv /\ Inv' /\ BlockInv /\ [BlockNext]_vars => BlockInv'
  <2> SUFFICES ASSUME Inv, Inv', BlockInv, [BlockNext]_vars
               PROVE  BlockInv'
    OBVIOUS
  <2>1. ASSUME NEW f \in pending, AddNext(f)
        PROVE  BlockInv'
    BY <2>1, AddNextPreserves
  <2>2. ASSUME NEW r \in regions, EmitUnderflow(r) \/ EmitUnion(r) \/ EmitMember(r)
        PROVE  BlockInv'
    BY <2>2, EmitUnderflowPreserves, EmitUnionPreserves, EmitMemberPreserves
  <2>3. CASE Finish
    BY <2>3, FinishPreserves
  <2>4. CASE UNCHANGED vars
    BY <2>4, BlockStutterPreserves
  <2> QED BY <2>1, <2>2, <2>3, <2>4 DEF BlockNext
<1> QED BY <1>1, <1>2, BlockImplementsRegions, Invariance, PTL DEF BlockSpec

\* The variables of the generation keep their types.
THEOREM BlockTypeCorrect == BlockSpec => []BlockTypeOK
  BY BlockInvariance, PTL DEF BlockInv

\* In every block of natural rbfs that is generated, with whatever unions,
\* proxies and gaps, each member accessor reaches the addresses of the SVD file.
THEOREM MembersCorrect == BlockSpec => []MembersAtTheirAddress
<1>1. Inv /\ BlockInv => MembersAtTheirAddress
  <2> SUFFICES ASSUME Inv, BlockInv, status = "done", AllNatural,
                      NEW f \in DOMAIN rbf, ~IsRaw(f), NEW n \in DOMAIN rbf[f].svd
               PROVE  AccessedAt(f, n) = rbf[f].svd[n]
    BY DEF MembersAtTheirAddress, RightAddresses
  <2>1. emitted = regions /\ pending = {} /\ ~bailed /\ f \in Added
    BY DEF BlockInv, Outcome, Started, Added
  <2>2. PICK r \in regions : f \in r.rbfs
    BY <2>1 DEF Inv, EachInOneRegion
  <2>3. ~IsUnion(r) /\ ~rbf[f].raw
    BY <2>2 DEF IsRaw
  <2>4. place[f] = rbf[f].offset
    BY <2>1, <2>2, <2>3 DEF BlockInv, InStep
  <2>5. rbf[f].size = BitsPerByte * (rbf[f].count * rbf[f].bytes)
    BY DEF AllNatural, Natural
  <2>6. rbf[f].svd[n] = rbf[f].offset + (n - 1) * rbf[f].bytes
    BY <2>3, <2>5 DEF BlockInv, RbfTyped, ElementsFollow
  <2> QED BY <2>4, <2>6 DEF AccessedAt
<1> QED BY <1>1, BlockInvariance, PTL

\* A cluster struct padded to a size has that size, if its rbfs are natural.
THEOREM StructSizeCorrect == BlockSpec => []StructHasItsSize
<1>1. BlockInv => StructHasItsSize
  BY DEF BlockInv, InStep, StructHasItsSize
<1> QED BY <1>1, BlockInvariance, PTL

\* Neither the error of add() nor the underflow of the padding is met in a
\* block in which no proxy starts within the bytes of another register.
THEOREM FailuresCorrect == BlockSpec => []FailsOnlyOnBuriedProxies
<1>1. Inv /\ BlockInv => FailsOnlyOnBuriedProxies
  BY DEF Inv, BailsOnlyOnBuriedProxies, BlockInv, Outcome, FailsOnlyOnBuriedProxies
<1> QED BY <1>1, BlockInvariance, PTL

\* The option max_cluster_size accepts a block just when its rbfs end in time.
THEOREM SizeCheckCorrect == BlockSpec => []SizeIsChecked
<1>1. Inv /\ BlockInv => SizeIsChecked
  <2> SUFFICES ASSUME Inv, BlockInv
               PROVE  SizeIsChecked
    OBVIOUS
  <2>1. \A n \in size : n \in Nat
    BY BlockSizesAssumption DEF BlockInv, BlockTypeOK
  <2>2. ASSUME status = "incorrect_size"
        PROVE  \E n \in size, f \in DOMAIN rbf : RegionOf(f).end > n
    <3>1. PICK n \in size : n < last_end
      BY <2>1, <2>2 DEF BlockInv, BlockTypeOK, Outcome, Fits
    <3>2. PICK r \in regions : r.end = last_end
      BY <2>1, <3>1 DEF BlockInv, BlockTypeOK, LastEnd
    <3>3. PICK f \in r.rbfs : RegionOf(f).end = r.end
      BY DEF Inv, RegionsAreComponents, IsHull
    <3>4. f \in DOMAIN rbf
      BY RegionSpan DEF Inv
    <3> QED BY <2>1, <3>1, <3>2, <3>3, <3>4 DEF BlockInv, BlockTypeOK
  <2>3. ASSUME status = "done", NEW n \in size, NEW f \in DOMAIN rbf
        PROVE  RegionOf(f).end <= n
    <3>1. emitted = regions /\ last_end <= n /\ f \in Added /\ ~bailed
      BY <2>3 DEF BlockInv, Outcome, Fits, Started, Added
    <3>2. PICK r \in regions : f \in r.rbfs
      BY <3>1 DEF Inv, EachInOneRegion
    <3>3. RegionOf(f).end <= r.end /\ r.end <= last_end
      BY <3>1, <3>2 DEF Inv, RegionsAreComponents, IsHull, BlockInv, LastEnd
    <3>4. r.end \in Nat
      BY RegionSpan
    <3>5. RegionOf(f).end \in Nat
      BY RegionOfSpan DEF Inv
    <3> QED BY <2>1, <3>1, <3>3, <3>4, <3>5 DEF BlockInv, BlockTypeOK
  <2> QED BY <2>2, <2>3 DEF SizeIsChecked
<1> QED BY <1>1, BlockInvariance, PTL

\* What Expand makes of an erc satisfies RbfAssumption's ElementsFollow: a Rust
\* array is chosen only where its elements are as far apart as the increment.
THEOREM ExpansionFollows ==
  ASSUME NEW e, e.offset \in Nat, e.bits \in Nat, ElementBytes(e) \in Nat,
         e.array => e.dim \in Nat /\ e.increment \in Nat,
         NEW k \in DOMAIN ExpandErc(e)
  PROVE  ElementsFollow(ExpandErc(e)[k])
<1>1. CASE ~e.array
  BY <1>1 DEF ExpandErc, Single, ElementsFollow
<1>2. CASE e.array /\ e.convert /\ Sequential(e)
  <2>1. k = 1 /\ ExpandErc(e)[k] = Array(e)
    BY <1>2 DEF ExpandErc
  <2>2. ASSUME ElementBits(e) * e.dim = BitsPerByte * (e.dim * ElementBytes(e)),
               NEW n \in 1..e.dim
        PROVE  e.offset + (n - 1) * e.increment = e.offset + (n - 1) * ElementBytes(e)
    <3>1. CASE e.dim = 1
      BY <1>2, <2>2, <3>1
    <3>2. CASE ElementBits(e) = 8 * e.increment
      <4>1. e.dim * e.increment = e.dim * ElementBytes(e) /\ e.dim > 0
        BY <1>2, <2>2, <3>2 DEF BitsPerByte
      <4>2. e.increment = ElementBytes(e)
        BY <1>2, <4>1
      <4> QED BY <4>2
    <3> QED BY <1>2, <3>1, <3>2 DEF Sequential
  <2> QED BY <1>2, <2>1, <2>2 DEF ElementsFollow, Array, Addresses, Address
<1>3. CASE e.array /\ e.convert /\ ~Sequential(e) /\ Disjoint(e)
  BY <1>3 DEF ExpandErc, Proxy, ElementsFollow
<1>4. CASE e.array /\ ~(e.convert /\ Sequential(e)) /\ ~(e.convert /\ Disjoint(e))
  <2>1. ExpandErc(e)[k] = ListElement(e, k - 1)
    BY <1>4 DEF ExpandErc
  <2>2. k \in Int /\ e.offset + (k - 1) * e.increment \in Int
    BY <1>4 DEF ExpandErc
  <2>3. ListElement(e, k - 1).svd[1] = ListElement(e, k - 1).offset
    BY DEF ListElement
  <2>4. DOMAIN ListElement(e, k - 1).svd = {1}
    BY DEF ListElement
  <2>5. ListElement(e, k - 1).offset \in Int /\ ListElement(e, k - 1).bytes \in Int
    BY <2>2 DEF ListElement, Address
  <2> QED BY <2>1, <2>3, <2>4, <2>5 DEF ElementsFollow
<1> QED BY <1>1, <1>2, <1>3, <1>4
=============================================================================
