-------------------------- MODULE BlockItemsProofs --------------------------
(***************************************************************************)
(* The module of a block, for every block of an SVD file that the code     *)
(* expects: what the scan writes into the derive infos and rewrites again  *)
(* is what the rendering of types and of members needs to agree on.  The   *)
(* conditions on the SVD file that a property names are those of the       *)
(* theorem; the order of registers is one of them for the last two.        *)
(***************************************************************************)
EXTENDS BlockItems, Induction, FiniteSetTheorems, TLAPS

----------------------------------------------------------------------------
(* find_root *)

LEMMA EntriesFrom ==
  ASSUME NEW es, NEW kind, NEW path, NEW e \in EntriesIn(es, kind, path)
  PROVE  e \in Elsewhere \/ \E k \in DOMAIN es : e = es[k]
<1>1. CASE path.block = "here"
  BY <1>1 DEF EntriesIn
<1>2. CASE path.block # "here"
  BY <1>2 DEF EntriesIn
<1> QED BY <1>1, <1>2

LEMMA AlongIn ==
  ASSUME NEW es, NEW kind, NEW paths, NEW p \in Along(es, kind, paths)
  PROVE  \E q \in paths : \E e \in EntriesIn(es, kind, q) :
           (e.from = {} /\ p = q) \/ p \in e.from
BY DEF Along

AlongIs(f, es, kind, path) ==
  f = [n \in Nat |-> IF n = 0 THEN {path} ELSE Along(es, kind, f[n - 1])]

\* The sets of Links follow each other, from the path on.
LEMMA LinksDef ==
  ASSUME NEW es, NEW kind, NEW path
  PROVE  /\ Links(es, kind, path)[0] = {path}
         /\ \A n \in Nat : Links(es, kind, path)[n + 1] = Along(es, kind, Links(es, kind, path)[n])
<1> DEFINE Froms == {es[k].from : k \in DOMAIN es} \cup {d.from : d \in Elsewhere}
           U == {path} \cup UNION Froms
           S == SUBSET U
           start == {path}
           step == [p \in Nat \X S |-> Along(es, kind, p[2])]
           l == CHOOSE f : AlongIs(f, es, kind, path)
<1>1. step \in [Nat \X S -> S] /\ start \in S
  <2>1. ASSUME NEW A \in S, NEW p \in Along(es, kind, A) PROVE p \in U
    <3>1. PICK q \in A : \E e \in EntriesIn(es, kind, q) : (e.from = {} /\ p = q) \/ p \in e.from
      BY AlongIn
    <3>2. PICK e \in EntriesIn(es, kind, q) : (e.from = {} /\ p = q) \/ p \in e.from
      BY <3>1
    <3>3. e \in Elsewhere \/ \E k \in DOMAIN es : e = es[k]
      BY EntriesFrom
    <3>4. e.from \in Froms
      BY <3>3
    <3>5. A \subseteq U
      OBVIOUS
    <3> HIDE DEF Froms
    <3> QED BY <3>2, <3>4, <3>5
  <2>2. \A A \in S : Along(es, kind, A) \in S
    BY <2>1
  <2> HIDE DEF U
  <2> QED BY <2>2 DEF U
<1>2. PICK f : Recursion(f, S, start, step)
  <2> HIDE DEF S, step, start
  <2> QED BY <1>1, RecursionHasSolution
<1>3. f \in [Nat -> S] /\ f[0] = {path} /\ \A n \in Nat : f[n + 1] = Along(es, kind, f[n])
  <2>1. f \in [Nat -> S] /\ f[0] = {path} /\ \A n \in Nat : f[n + 1] = step[<<n, f[n]>>]
    BY <1>2 DEF Recursion
  <2>2. \A n \in Nat : <<n, f[n]>> \in Nat \X S
    <3> HIDE DEF S, step
    <3> QED BY <2>1
  <2> HIDE DEF S
  <2> QED BY <2>1, <2>2
<1>4. AlongIs(f, es, kind, path)
  <2>1. ASSUME NEW n \in Nat PROVE f[n] = IF n = 0 THEN {path} ELSE Along(es, kind, f[n - 1])
    <3>1. CASE n # 0
      <4>1. n - 1 \in Nat /\ (n - 1) + 1 = n
        BY <3>1
      <4> QED BY <4>1, <3>1, <1>3
    <3> QED BY <3>1, <1>3
  <2> HIDE DEF S
  <2> QED BY <2>1, <1>3 DEF AlongIs
<1>5. AlongIs(l, es, kind, path)
  BY <1>4
<1>6. Links(es, kind, path) = l
  BY DEF Links, AlongIs
<1> HIDE DEF l
<1>7. \A n \in Nat : l[n] = IF n = 0 THEN {path} ELSE Along(es, kind, l[n - 1])
  BY <1>5 DEF AlongIs
<1>8. \A n \in Nat : (n + 1) - 1 = n /\ n + 1 # 0 /\ n + 1 \in Nat
  OBVIOUS
<1> QED BY <1>6, <1>7, <1>8

LEMMA BlockDomain ==
  ASSUME NEW es \in Blocks
  PROVE  Len(es) \in Nat /\ DOMAIN es = 1 .. Len(es)
BY BlocksAssumption DEF ErcsAsExpected

\* The index has at most one register of a name, and the links that it has.
LEMMA EntriesOne ==
  ASSUME NEW es \in Blocks, NEW kind, NEW path
  PROVE  /\ \A d, e \in EntriesIn(es, kind, path) : d = e
         /\ \A e \in EntriesIn(es, kind, path) : e.from \subseteq Paths /\ \A p, q \in e.from : p = q
<1>1. CASE path.block = "here"
  <2> DEFINE ks == {k \in DOMAIN es : es[k].kind = kind /\ path.name \in NamesOf(es[k])}
             last == {k \in ks : \A j \in ks : j <= k}
  <2>1. EntriesIn(es, kind, path) = {es[k] : k \in last}
    BY <1>1 DEF EntriesIn
  <2>2. DOMAIN es \subseteq Nat
    BY BlockDomain
  <2>3. \A j, k \in last : j = k
    BY <2>2
  <2>4. last \subseteq DOMAIN es
    OBVIOUS
  <2> HIDE DEF last
  <2>5. \A k \in DOMAIN es : es[k].from \subseteq Paths /\ \A p, q \in es[k].from : p = q
    BY BlocksAssumption DEF ErcsAsExpected
  <2> QED BY <2>1, <2>3, <2>4, <2>5
<1>2. CASE path.block # "here"
  <2>1. \A e \in EntriesIn(es, kind, path) : e \in Elsewhere /\ e.kind = kind /\ path.name \in NamesOf(e)
    BY <1>2 DEF EntriesIn
  <2>2. \A d, e \in EntriesIn(es, kind, path) : NamesOf(d) \cap NamesOf(e) # {}
    BY <2>1
  <2> QED BY <2>1, <2>2, ElsewhereAssumption
<1> QED BY <1>1, <1>2

\* It has one of each name of a register.
LEMMA EntryOfName ==
  ASSUME NEW es \in Blocks, NEW j \in DOMAIN es, NEW path, path.block = "here", path.name \in NamesOf(es[j])
  PROVE  \E k \in DOMAIN es : /\ EntriesIn(es, es[j].kind, path) = {es[k]}
                              /\ es[k].kind = es[j].kind /\ path.name \in NamesOf(es[k])
<1> DEFINE kind == es[j].kind
           ks == {k \in DOMAIN es : es[k].kind = kind /\ path.name \in NamesOf(es[k])}
<1>1. Len(es) \in Nat /\ DOMAIN es = 1 .. Len(es)
  BY BlockDomain
<1>2. ks \in SUBSET (1 .. Len(es)) /\ ks # {}
  BY <1>1
<1>3. PICK k \in ks : \A i \in ks : i <= k
  <2> HIDE DEF ks
  <2> QED BY <1>1, <1>2, LargestOf
<1>4. {i \in ks : \A l \in ks : l <= i} = {k}
  <2>1. \A i \in ks : i <= k /\ k <= i => i = k
    BY <1>1
  <2> QED BY <1>3, <2>1
<1>5. EntriesIn(es, kind, path) = {es[k]}
  BY <1>4 DEF EntriesIn
<1> QED BY <1>5

LEMMA EntryHere ==
  ASSUME NEW es, NEW kind, NEW path, path.block = "here", NEW e \in EntriesIn(es, kind, path)
  PROVE  \E k \in DOMAIN es : e = es[k] /\ es[k].kind = kind /\ path.name \in NamesOf(es[k])
BY DEF EntriesIn

\* A chain does not branch.
LEMMA LinksOne ==
  ASSUME NEW es \in Blocks, NEW kind, NEW path \in Paths, NEW n \in Nat
  PROVE  /\ Links(es, kind, path)[n] \subseteq Paths
         /\ \A p, q \in Links(es, kind, path)[n] : p = q
<1> DEFINE l == Links(es, kind, path)
           One(A) == A \subseteq Paths /\ \A p, q \in A : p = q
           I == {m \in Nat : One(l[m])}
<1>1. l[0] = {path} /\ \A m \in Nat : l[m + 1] = Along(es, kind, l[m])
  BY LinksDef
<1>2. ASSUME NEW A, One(A) PROVE One(Along(es, kind, A))
  <2>1. ASSUME NEW p \in Along(es, kind, A), NEW r \in Along(es, kind, A) PROVE p \in Paths /\ p = r
    <3>1. PICK q \in A : \E e \in EntriesIn(es, kind, q) : (e.from = {} /\ p = q) \/ p \in e.from
      BY AlongIn
    <3>2. PICK t \in A : \E e \in EntriesIn(es, kind, t) : (e.from = {} /\ r = t) \/ r \in e.from
      BY AlongIn
    <3>3. q = t
      BY <1>2
    <3>4. PICK e \in EntriesIn(es, kind, q) : (e.from = {} /\ p = q) \/ p \in e.from
      BY <3>1
    <3>5. (e.from = {} /\ r = q) \/ r \in e.from
      BY <3>2, <3>3, EntriesOne
    <3>6. e.from \subseteq Paths /\ (\A x, y \in e.from : x = y) /\ q \in Paths
      BY <1>2, EntriesOne
    <3> QED BY <3>4, <3>5, <3>6
  <2> QED BY <2>1
<1> HIDE DEF l, One
<1>3. 0 \in I
  BY <1>1 DEF One
<1>4. \A m \in Nat : m \in I => m + 1 \in I
  BY <1>1, <1>2
<1>5. \A m \in Nat : m \in I
  <2> HIDE DEF I
  <2> QED BY <1>3, <1>4, NatInductionOnSet
<1> QED BY <1>5 DEF One, l

LEMMA LongestNat ==
  ASSUME NEW es \in Blocks
  PROVE  Longest(es) \in Nat /\ (DOMAIN es # {} => Longest(es) - 1 \in Nat)
<1>1. Cardinality(Elsewhere) \in Nat
  BY ElsewhereAssumption, FS_CardinalityType
<1>2. Len(es) \in Nat /\ (DOMAIN es # {} => Len(es) >= 1)
  BY BlockDomain
<1> QED BY <1>1, <1>2 DEF Longest

\* find_root ends at a register without derivedFrom.
LEMMA RootEnds ==
  ASSUME NEW es \in Blocks, NEW kind, NEW p, NEW e \in EntriesIn(es, kind, p), e.from = {}
  PROVE  RootIn(es, kind, p) = {p}
<1> DEFINE l == Links(es, kind, p)
           I == {m \in Nat : l[m] = {p}}
<1>1. l[0] = {p} /\ \A m \in Nat : l[m + 1] = Along(es, kind, l[m])
  BY LinksDef
<1>2. \A d \in EntriesIn(es, kind, p) : d = e
  BY EntriesOne
<1>3. Along(es, kind, {p}) = {p}
  BY <1>2 DEF Along
<1> HIDE DEF l
<1>4. 0 \in I /\ \A m \in Nat : m \in I => m + 1 \in I
  BY <1>1, <1>3
<1>5. \A m \in Nat : m \in I
  <2> HIDE DEF I
  <2> QED BY <1>4, NatInductionOnSet
<1>6. l[Longest(es)] = {p}
  BY <1>5, LongestNat
<1> QED BY <1>6 DEF RootIn, l

\* It finds nothing under a name that is not there.
LEMMA RootMissing ==
  ASSUME NEW es \in Blocks, NEW kind, NEW path, EntriesIn(es, kind, path) = {}
  PROVE  RootIn(es, kind, path) = {}
<1> DEFINE l == Links(es, kind, path)
           I == {m \in Nat : l[m] \subseteq {path}}
<1>1. l[0] = {path} /\ \A m \in Nat : l[m + 1] = Along(es, kind, l[m])
  BY LinksDef
<1>2. \A A : A \subseteq {path} => Along(es, kind, A) \subseteq {path}
  BY AlongIn
<1> HIDE DEF l
<1>3. 0 \in I /\ \A m \in Nat : m \in I => m + 1 \in I
  BY <1>1, <1>2
<1>4. \A m \in Nat : m \in I
  <2> HIDE DEF I
  <2> QED BY <1>3, NatInductionOnSet
<1>5. l[Longest(es)] \subseteq {path}
  BY <1>4, LongestNat
<1> QED BY <1>5 DEF RootIn, l

\* It goes on where a register is derived from.
LEMMA RootGoesOn ==
  ASSUME NEW es \in Blocks, NEW k \in DOMAIN es, NEW path, es[k] \in EntriesIn(es, es[k].kind, path),
         NEW q \in es[k].from
  PROVE  RootIn(es, es[k].kind, path) = RootIn(es, es[k].kind, q)
<1> DEFINE kind == es[k].kind
           l == Links(es, kind, path)
           h == Links(es, kind, q)
           n == Longest(es) - 1
           I == {m \in Nat : l[m + 1] = h[m]}
           Ends(p) == \E e \in EntriesIn(es, kind, p) : e.from = {}
<1>1. l[0] = {path} /\ \A m \in Nat : l[m + 1] = Along(es, kind, l[m])
  BY LinksDef
<1>2. h[0] = {q} /\ \A m \in Nat : h[m + 1] = Along(es, kind, h[m])
  BY LinksDef
<1>3. Along(es, kind, {path}) = {q}
  <2>1. \A d \in EntriesIn(es, kind, path) : d = es[k]
    BY EntriesOne
  <2>2. es[k].from = {q}
    BY EntriesOne
  <2> QED BY <2>1, <2>2 DEF Along
<1>4. n \in Nat /\ Longest(es) = n + 1
  BY LongestNat
<1>5. ASSUME NEW p \in h[n], NEW e \in EntriesIn(es, kind, p) PROVE e.from = {}
  BY BlocksAssumption, <1>4 DEF NoCircle
<1> HIDE DEF l, h, n
<1>6. 0 \in I
  BY <1>1, <1>2, <1>3
<1>7. ASSUME NEW m \in Nat, m \in I PROVE m + 1 \in I
  <2>1. m + 1 \in Nat
    OBVIOUS
  <2> QED BY <2>1, <1>1, <1>2, <1>7
<1>8. \A m \in Nat : m \in I
  <2> HIDE DEF I
  <2> QED BY <1>6, <1>7, NatInductionOnSet
<1>9. l[n + 1] = h[n] /\ h[n + 1] = Along(es, kind, h[n])
  BY <1>2, <1>4, <1>8
<1>10. ASSUME NEW p, Ends(p) PROVE p \in h[n] <=> p \in Along(es, kind, h[n])
  <2>1. p \in h[n] => p \in Along(es, kind, h[n])
    <3>1. PICK e \in EntriesIn(es, kind, p) : e.from = {}
      BY <1>10
    <3> QED BY <3>1 DEF Along
  <2>2. ASSUME p \in Along(es, kind, h[n]) PROVE p \in h[n]
    BY <2>2, AlongIn, <1>5
  <2> QED BY <2>1, <2>2
<1>11. RootIn(es, kind, path) = {p \in l[n + 1] : Ends(p)} /\ RootIn(es, kind, q) = {p \in h[n + 1] : Ends(p)}
  BY <1>4 DEF RootIn, l, h
<1> HIDE DEF Ends
<1> QED BY <1>9, <1>10, <1>11

\* It returns one register at most.
LEMMA RootOne ==
  ASSUME NEW es \in Blocks, NEW kind, NEW path \in Paths
  PROVE  /\ RootIn(es, kind, path) \subseteq Paths
         /\ \A p, q \in RootIn(es, kind, path) : p = q
         /\ \A p \in RootIn(es, kind, path) : RootIn(es, kind, p) = {p}
         /\ \A p \in RootIn(es, kind, path) : \A e \in EntriesIn(es, kind, p) : e.from = {}
<1> DEFINE l == Links(es, kind, path)[Longest(es)]
<1>1. l \subseteq Paths /\ \A p, q \in l : p = q
  BY LinksOne, LongestNat
<1>2. RootIn(es, kind, path) \subseteq l
  BY DEF RootIn
<1>3. \A p \in RootIn(es, kind, path) : \E e \in EntriesIn(es, kind, p) : e.from = {}
  BY DEF RootIn
<1> HIDE DEF l
<1> QED BY <1>1, <1>2, <1>3, RootEnds, EntriesOne

----------------------------------------------------------------------------
(* The invariant of the scan *)

Infos == [kind : {"Root", "Cluster", "Implicit", "Explicit"}, path : SUBSET Paths]

\* A path of an info is one that find_root returned.
IsEnd(p) ==
  IF p.block = "here" THEN FindRoot(p) = {p}
  ELSE \E k \in Registers : \E q \in ercs[k].from : p \in FindRoot(q)

PartOf(j, k) ==
  j \in Registers /\ IsArray(ercs[j]) /\ RemoveDim(FullName(ercs[j])) = RemoveDim(FullName(ercs[k]))

\* Kind and path go with each other, and with the register.
Typed(k, i) ==
  /\ i.kind = "Cluster" <=> ercs[k].kind = "cluster"
  /\ i.path = {} <=> i.kind \in {"Root", "Cluster"}
  /\ i.kind = "Explicit" <=> ercs[k].kind = "register" /\ ercs[k].from # {}
  /\ \A p \in i.path : IsEnd(p) /\ \A q \in i.path : p = q
  /\ IsArray(ercs[k]) /\ i.kind = "Explicit" => i.path \subseteq UNION {FindRoot(q) : q \in ercs[k].from}

\* Of the parts of a disjoint array, only the first has a type of its own.
LaterParts(k, i) ==
  ercs[k].kind = "register" /\ IsArray(ercs[k]) /\ ercs[k].from = {} /\ (\E j \in 1 .. k - 1 : PartOf(j, k)) =>
    i.kind = "Implicit" /\ \A p \in i.path : p.block = "here"

\* What is found to be alike has the same fields, and is in this block unless
\* an array is derived from another one.
AlikeInfo(k, i) ==
  i.kind = "Implicit" => \A p \in i.path :
    IF p.block = "here" THEN \A e \in Entries("register", p) : e.from = {} /\ e.content = ercs[k].content
    ELSE \E j \in Registers : IsArray(ercs[j]) /\ ercs[j].from # {} /\ Matches(ercs[j], FullName(ercs[k]))

Holds(k, i) ==
  /\ Typed(k, i)
  /\ NamedApart /\ IndexApart => LaterParts(k, i)
  /\ NamedApart /\ IndexApart /\ Namesakes => AlikeInfo(k, i)

\* The infos that a register may have.
Fitting == {p \in (DOMAIN ercs) \X Infos : Holds(p[1], p[2])}

\* The array that is compared has no derivedFrom and is like no array before it.
Comparing ==
  stage = "scanning" /\ against # {} =>
    /\ Turn \in DOMAIN ercs /\ <<Turn, mine>> \in Fitting
    /\ \E j \in 1 .. Turn : against = {j}
    /\ Current.kind = "register" /\ IsArray(Current) /\ Current.from = {}
    /\ mine.kind \in {"Root", "Implicit"}

ScanInv ==
  /\ ercs \in Blocks
  /\ infos \in Seq(Infos) /\ Len(infos) <= Len(ercs)
  /\ \A k \in DOMAIN infos : <<k, infos[k]>> \in Fitting
  /\ Comparing

----------------------------------------------------------------------------
(* What find_root returns for this block *)

LEMMA ErcTyped ==
  ASSUME ercs \in Blocks, NEW k \in DOMAIN ercs
  PROVE  /\ ercs[k].kind \in {"register", "cluster"} /\ ercs[k].name \in Names
         /\ ercs[k].kind = "cluster" => ercs[k].name.group = ""
         /\ ercs[k].from \subseteq Paths /\ \A p, q \in ercs[k].from : p = q
         /\ ercs[k].kind = "register" /\ ercs[k].from # {} => ercs[k].content = "none"
         /\ FullName(ercs[k]) \in Names /\ OwnName(ercs[k]) \in Names
<1>1. ErcsAsExpected(ercs)
  BY BlocksAssumption
<1>2. ercs[k].name \in Names
  BY <1>1 DEF ErcsAsExpected
<1>3. FullName(ercs[k]) \in Names /\ OwnName(ercs[k]) \in Names
  <2>1. ASSUME NEW n \in Names PROVE [n EXCEPT !.group = ""] \in Names
    <3>1. "" \in Texts
      BY DEF Texts
    <3> QED BY <3>1 DEF Names
  <2> QED BY <2>1, <1>2 DEF FullName, OwnName
<1> QED BY <1>1, <1>3 DEF ErcsAsExpected

LEMMA ArrayTyped ==
  ASSUME ercs \in Blocks, NEW k \in DOMAIN ercs, IsArray(ercs[k])
  PROVE  /\ Len(ercs[k].indexes) \in Nat \ {0} /\ DOMAIN ercs[k].indexes = 1 .. Len(ercs[k].indexes)
         /\ \A n \in DOMAIN ercs[k].indexes : ercs[k].indexes[n] \in Tails
         /\ ercs[k].dimIndex \/ FromZero(ercs[k])
BY BlocksAssumption DEF ErcsAsExpected, AllLaidOut, LaidOut

LEMMA HereRoot ==
  ASSUME NEW name
  PROVE  Here(name) = RootIn(ercs, "register", Path("here", name)) /\ Path("here", name).block = "here"
                      /\ Path("here", name).name = name
BY DEF Here, FindRoot, Root, Path

LEMMA HereTyped ==
  ASSUME ercs \in Blocks, NEW name \in Names
  PROVE  /\ Here(name) \subseteq Paths
         /\ \A p, q \in Here(name) : p = q
         /\ \A p \in Here(name) : \A e \in Entries("register", p) : e.from = {}
<1>1. Path("here", name) \in Paths
  BY DEF Path, Paths
<1> QED BY <1>1, RootOne, HereRoot DEF Entries

\* Where a derivedFrom ends is an end.
LEMMA FromEnds ==
  ASSUME ercs \in Blocks, NEW k \in Registers, NEW q \in ercs[k].from, NEW p \in FindRoot(q)
  PROVE  p \in Paths /\ IsEnd(p) /\ \A r \in FindRoot(q) : p = r
<1>1. k \in DOMAIN ercs /\ q \in Paths
  BY ErcTyped DEF Registers
<1>2. p \in Paths /\ FindRoot(p) = {p} /\ \A r \in FindRoot(q) : p = r
  BY <1>1, RootOne DEF FindRoot, Root
<1> QED BY <1>2 DEF IsEnd

LEMMA HereEnds ==
  ASSUME ercs \in Blocks, NEW name \in Names, NEW p \in Here(name)
  PROVE  IsEnd(p)
<1> DEFINE path == Path("here", name)
<1>1. path \in Paths /\ path.block = "here"
  BY DEF Path, Paths
<1>2. p \in RootIn(ercs, "register", path)
  BY HereRoot
<1>3. RootIn(ercs, "register", p) = {p}
  BY <1>1, <1>2, RootOne
<1>4. PICK e \in EntriesIn(ercs, "register", path) : TRUE
  BY <1>2, RootMissing
<1>5. PICK k \in DOMAIN ercs : e = ercs[k] /\ ercs[k].kind = "register"
  BY <1>1, EntryHere
<1>6. CASE p.block = "here"
  BY <1>3, <1>6 DEF IsEnd, FindRoot, Root
<1>7. CASE p.block # "here"
  <2>1. e.from # {}
    <3>1. SUFFICES ASSUME e.from = {} PROVE FALSE
      OBVIOUS
    <3>2. RootIn(ercs, "register", path) = {path}
      BY <3>1, RootEnds
    <3> QED BY <1>1, <1>2, <1>7, <3>2
  <2>2. PICK q \in ercs[k].from : TRUE
    BY <2>1, <1>5
  <2>3. RootIn(ercs, "register", path) = RootIn(ercs, "register", q)
    BY <1>5, RootGoesOn
  <2>4. p \in FindRoot(q)
    BY <1>2, <2>3 DEF FindRoot, Root
  <2>5. k \in Registers
    BY <1>5 DEF Registers
  <2> QED BY <1>7, <2>4, <2>5 DEF IsEnd
<1> QED BY <1>6, <1>7

\* An end in this block is found by its name.
LEMMA EndFound ==
  ASSUME NEW p \in Paths, IsEnd(p), p.block = "here"
  PROVE  Here(p.name) = {p} /\ p = Path("here", p.name)
<1>1. p = Path("here", p.name)
  BY DEF Path, Paths
<1> QED BY <1>1 DEF IsEnd, Here

LEMMA TailsPlain ==
  /\ Tails \subseteq Texts /\ "0" \in Tails
  /\ "" \notin Tails /\ "%s" \notin Tails /\ "[%s]" \notin Tails
<1>1. DOMAIN Numerals = 1 .. 6
  BY DEF Numerals
<1>2. \A n \in 1 .. 6 : Numerals[n] \in {"0", "1", "2", "3", "4", "5"}
  BY DEF Numerals
<1>3. Numerals[1] = "0" /\ 1 \in 1 .. 6
  BY DEF Numerals
<1>4. Tails \subseteq {"0", "1", "2", "3", "4", "5"}
  BY <1>1, <1>2 DEF Tails
<1>5. "0" \in Tails
  BY <1>1, <1>3 DEF Tails
<1>6. Tails \subseteq Texts
  BY DEF Texts
<1> QED BY <1>4, <1>5, <1>6

LEMMA NamesOfTyped ==
  ASSUME ercs \in Blocks, NEW k \in DOMAIN ercs, NEW n \in NamesOf(ercs[k])
  PROVE  n \in Names /\ n.group = "" /\ (n = OwnName(ercs[k]) \/ n.tail \in Tails)
<1> DEFINE own == OwnName(ercs[k])
<1>1. own \in Names /\ own.group = ""
  BY ErcTyped DEF OwnName, Names
<1>2. CASE n = own
  BY <1>1, <1>2
<1>3. CASE n # own
  <2>1. PICK i \in DOMAIN ercs[k].indexes : IsArray(ercs[k]) /\ n = ExpandDim(own, ercs[k].indexes[i])
    BY <1>3 DEF NamesOf
  <2>2. own.tail \in {"%s", "[%s]"}
    BY <2>1, ErcTyped DEF OwnName, IsArray, Names
  <2>3. n = [own EXCEPT !.tail = ercs[k].indexes[i]]
    BY <2>1, <2>2 DEF ExpandDim
  <2>4. ercs[k].indexes[i] \in Tails /\ Tails \subseteq Texts
    BY <2>1, ArrayTyped, TailsPlain
  <2> HIDE DEF own
  <2> QED BY <1>1, <2>3, <2>4 DEF Names
<1> QED BY <1>2, <1>3

\* A full name without a group is the name in the index.
LEMMA FullIsOwn ==
  ASSUME ercs \in Blocks, NEW k \in DOMAIN ercs, FullName(ercs[k]).group = ""
  PROVE  FullName(ercs[k]) = OwnName(ercs[k])
BY ErcTyped DEF FullName, OwnName, Names

\* What the index knows by the name of an array is the array, or a part that is
\* like it.
LEMMA PartEntry ==
  ASSUME ercs \in Blocks, NamedApart, IndexApart, NEW j \in Registers,
         Here(FullName(ercs[j])) # {}, IsArray(ercs[j])
  PROVE  \E m \in Registers :
           /\ Entries("register", Path("here", FullName(ercs[j]))) = {ercs[m]}
           /\ ercs[m].from = ercs[j].from /\ ercs[m].content = ercs[j].content
<1> DEFINE name == FullName(ercs[j])
           path == Path("here", name)
<1>1. path.block = "here" /\ path.name = name /\ j \in DOMAIN ercs /\ ercs[j].kind = "register"
  BY DEF Path, Registers
<1>2. PICK e \in EntriesIn(ercs, "register", path) : TRUE
  BY HereRoot, RootMissing
<1>3. PICK m \in DOMAIN ercs : e = ercs[m] /\ ercs[m].kind = "register" /\ name \in NamesOf(ercs[m])
  BY <1>1, EntryHere
<1>4. m \in Registers
  BY <1>3 DEF Registers
<1>5. name = OwnName(ercs[j])
  BY <1>1, <1>3, NamesOfTyped, FullIsOwn
<1>6. name \in NamesOf(ercs[j])
  BY <1>5 DEF NamesOf
<1>7. EntriesIn(ercs, "register", path) = {ercs[m]}
  BY <1>2, <1>3, EntriesOne
<1>8. ercs[m].from = ercs[j].from /\ ercs[m].content = ercs[j].content
  <2>1. CASE m = j
    BY <2>1
  <2>2. CASE m # j
    <3>1. RemoveDim(FullName(ercs[m])) = RemoveDim(FullName(ercs[j]))
      BY <2>2, <1>3, <1>4, <1>6 DEF IndexApart
    <3> QED BY <2>2, <3>1, <1>1, <1>3 DEF NamedApart
  <2> QED BY <2>1, <2>2
<1> QED BY <1>4, <1>7, <1>8 DEF Entries

\* If it has no derivedFrom, it is found by its name.
LEMMA PartFound ==
  ASSUME ercs \in Blocks, NamedApart, IndexApart, NEW j \in Registers, IsArray(ercs[j]),
         Here(FullName(ercs[j])) # {}, ercs[j].from = {}
  PROVE  /\ Here(FullName(ercs[j])) = {Path("here", FullName(ercs[j]))}
         /\ \E e \in Entries("register", Path("here", FullName(ercs[j]))) : e.content = ercs[j].content
         /\ \A e \in Entries("register", Path("here", FullName(ercs[j]))) :
              e.from = {} /\ e.content = ercs[j].content
<1>1. PICK m \in Registers :
           /\ Entries("register", Path("here", FullName(ercs[j]))) = {ercs[m]}
           /\ ercs[m].from = ercs[j].from /\ ercs[m].content = ercs[j].content
  BY PartEntry
<1>2. RootIn(ercs, "register", Path("here", FullName(ercs[j]))) = {Path("here", FullName(ercs[j]))}
  BY <1>1, RootEnds DEF Entries
<1> QED BY <1>1, <1>2, HereRoot

\* Two arrays of one group and stem have one name but for the indexes.
LEMMA SameRemoved ==
  ASSUME ercs \in Blocks, NEW j \in DOMAIN ercs, NEW k \in DOMAIN ercs, IsArray(ercs[j]), IsArray(ercs[k]),
         FullName(ercs[j]).group = FullName(ercs[k]).group, FullName(ercs[j]).stem = FullName(ercs[k]).stem
  PROVE  RemoveDim(FullName(ercs[j])) = RemoveDim(FullName(ercs[k]))
<1> DEFINE J == FullName(ercs[j])
           K == FullName(ercs[k])
<1>1. J \in Names /\ K \in Names /\ J.group = K.group /\ J.stem = K.stem
  BY ErcTyped
<1>2. J.tail \in {"%s", "[%s]"} /\ K.tail \in {"%s", "[%s]"}
  BY ErcTyped DEF IsArray, FullName, Names
<1>3. RemoveDim(J) = [J EXCEPT !.tail = ""] /\ RemoveDim(K) = [K EXCEPT !.tail = ""]
  BY <1>2 DEF RemoveDim, ExpandDim
<1> HIDE DEF J, K
<1>4. [J EXCEPT !.tail = ""] = [K EXCEPT !.tail = ""]
  BY <1>1 DEF Names
<1> QED BY <1>3, <1>4 DEF J, K

----------------------------------------------------------------------------
(* Each info that the scan decides on fits *)

LEMMA FittingIs ==
  ASSUME NEW k, NEW i
  PROVE  <<k, i>> \in Fitting <=> k \in DOMAIN ercs /\ i \in Infos /\ Holds(k, i)
BY DEF Fitting

LEMMA InfosAre ==
  /\ IsRoot \in Infos /\ IsRoot.kind = "Root" /\ IsRoot.path = {}
  /\ Info("Cluster", {}) \in Infos /\ Info("Cluster", {}).kind = "Cluster" /\ Info("Cluster", {}).path = {}
  /\ \A p \in Paths : /\ Implicit(p) \in Infos /\ Implicit(p).kind = "Implicit" /\ Implicit(p).path = {p}
                      /\ Explicit(p) \in Infos /\ Explicit(p).kind = "Explicit" /\ Explicit(p).path = {p}
BY DEF IsRoot, Info, Implicit, Explicit, Infos

LEMMA ClusterFits ==
  ASSUME NEW k \in DOMAIN ercs, ercs[k].kind = "cluster"
  PROVE  <<k, Info("Cluster", {})>> \in Fitting
<1> DEFINE i == Info("Cluster", {})
<1>1. i \in Infos /\ i.kind = "Cluster" /\ i.path = {}
  BY InfosAre
<1> HIDE DEF i
<1>2. Typed(k, i) /\ LaterParts(k, i) /\ AlikeInfo(k, i)
  BY <1>1 DEF Typed, LaterParts, AlikeInfo
<1> QED BY <1>1, <1>2, FittingIs DEF Holds, i

LEMMA ExplicitFits ==
  ASSUME ercs \in Blocks, NEW k \in Registers, NEW q \in ercs[k].from, NEW p \in FindRoot(q)
  PROVE  <<k, Explicit(p)>> \in Fitting
<1> DEFINE i == Explicit(p)
<1>1. p \in Paths /\ IsEnd(p)
  BY FromEnds
<1>2. i \in Infos /\ i.kind = "Explicit" /\ i.path = {p}
  BY <1>1, InfosAre
<1>3. k \in DOMAIN ercs /\ ercs[k].kind = "register" /\ ercs[k].from # {}
  BY DEF Registers
<1>4. i.path \subseteq UNION {FindRoot(r) : r \in ercs[k].from}
  BY <1>2
<1> HIDE DEF i
<1>5. Typed(k, i)
  BY <1>1, <1>2, <1>3, <1>4 DEF Typed
<1>6. LaterParts(k, i) /\ AlikeInfo(k, i)
  BY <1>2, <1>3 DEF LaterParts, AlikeInfo
<1> QED BY <1>2, <1>3, <1>5, <1>6, FittingIs DEF Holds, i

\* A single register that is derived from nothing.
LEMMA SingleFits ==
  ASSUME NEW k \in Registers, ercs[k].from = {}, ~IsArray(ercs[k])
  PROVE  <<k, IsRoot>> \in Fitting
<1> DEFINE i == IsRoot
<1>1. i \in Infos /\ i.kind = "Root" /\ i.path = {}
  BY InfosAre
<1>2. k \in DOMAIN ercs /\ ercs[k].kind = "register"
  BY DEF Registers
<1> HIDE DEF i
<1>3. Typed(k, i) /\ LaterParts(k, i) /\ AlikeInfo(k, i)
  BY <1>1, <1>2 DEF Typed, LaterParts, AlikeInfo
<1> QED BY <1>1, <1>2, <1>3, FittingIs DEF Holds, i

\* The register that is looked at, and those before it.
LEMMA TurnTyped ==
  ASSUME ercs \in Blocks, infos \in Seq(Infos), Turn \in DOMAIN ercs
  PROVE  /\ Turn \in Nat /\ Turn = Len(infos) + 1 /\ DOMAIN infos = 1 .. Len(infos)
         /\ \A j \in 1 .. Len(infos) : j \in DOMAIN ercs /\ j # Turn /\ j < Turn
         /\ \A j \in PrevArrays : j \in Registers /\ IsArray(ercs[j]) /\ Matches(ercs[j], FullName(Current))
                                  /\ j \in 1 .. Len(infos)
<1>1. Len(ercs) \in Nat /\ DOMAIN ercs = 1 .. Len(ercs)
  BY BlockDomain
<1>2. Len(infos) \in Nat /\ DOMAIN infos = 1 .. Len(infos) /\ Turn = Len(infos) + 1
  BY DEF Turn
<1>3. \A j \in 1 .. Len(infos) : j \in DOMAIN ercs /\ j # Turn /\ j < Turn
  BY <1>1, <1>2
<1>4. \A j \in PrevArrays : j \in Registers /\ IsArray(ercs[j]) /\ Matches(ercs[j], FullName(Current))
                            /\ j \in 1 .. Len(infos)
  BY <1>3 DEF PrevArrays, Registers
<1> QED BY <1>2, <1>3, <1>4

\* What an array that a register suits returns, is the register's type.
LEMMA PrevFits ==
  ASSUME ercs \in Blocks, infos \in Seq(Infos), Turn \in Registers, Current.from = {},
         NEW j \in First, NEW p \in Here(FullName(ercs[j]))
  PROVE  <<Turn, OfPrev(p)>> \in Fitting
<1>1. Turn \in DOMAIN ercs /\ Current.kind = "register"
  BY DEF Registers, Current
<1>2. OfPrev(p) = IsRoot => ~IsArray(Current)
  <2>1. SUFFICES ASSUME IsArray(Current) PROVE OfPrev(p) # IsRoot
    OBVIOUS
  <2>2. OfPrev(p) = Implicit(p)
    BY <2>1 DEF OfPrev
  <2> QED BY <2>2 DEF Implicit, IsRoot, Info
<1>3. CASE OfPrev(p) = IsRoot
  BY <1>2, <1>3, SingleFits DEF Current
<1>4. CASE OfPrev(p) # IsRoot
  <2>1. OfPrev(p) = Implicit(p)
    BY <1>4 DEF OfPrev
  <2>2. j \in PrevArrays /\ Suits(j)
    BY DEF First
  <2>3. j \in Registers /\ IsArray(ercs[j]) /\ Matches(ercs[j], FullName(Current)) /\ j \in DOMAIN ercs /\ j # Turn
    BY <1>1, <2>2, TurnTyped DEF Registers
  <2>4. FullName(ercs[j]) \in Names
    BY <2>3, ErcTyped
  <2>5. p \in Paths /\ IsEnd(p) /\ \A q \in Here(FullName(ercs[j])) : q = p
    BY <2>4, HereTyped, HereEnds
  <2> DEFINE i == Implicit(p)
  <2>6. i \in Infos /\ i.kind = "Implicit" /\ i.path = {p}
    BY <2>5, InfosAre
  <2> HIDE DEF i
  <2>7. Typed(Turn, i)
    BY <1>1, <2>5, <2>6 DEF Typed, Current
  <2>8. ASSUME NamedApart, IndexApart PROVE ercs[j].from = {} => p.block = "here"
    BY <2>3, <2>8, PartFound, HereRoot
  <2>9. ASSUME NamedApart, IndexApart PROVE LaterParts(Turn, i)
    <3>1. SUFFICES ASSUME IsArray(Current) PROVE p.block = "here"
      BY <2>6 DEF LaterParts, Current
    <3>2. RemoveDim(FullName(ercs[j])) = RemoveDim(FullName(Current))
      BY <2>3, <1>1, <3>1, SameRemoved DEF Matches, Current
    <3>3. ercs[j].from = {}
      BY <3>2, <2>3, <2>9, <1>1 DEF NamedApart, Current
    <3> QED BY <3>3, <2>8, <2>9
  <2>10. ASSUME NamedApart, IndexApart PROVE AlikeInfo(Turn, i)
    <3>1. CASE p.block = "here"
      <4>1. PICK q \in Here(FullName(ercs[j])) : Derivable(q, Current)
        BY <2>2 DEF Suits
      <4>2. PICK d \in Entries("register", p) : d.content = Current.content
        BY <4>1, <2>5 DEF Derivable
      <4>3. \A e \in Entries("register", p) : e.from = {} /\ e = d
        BY <2>4, HereTyped, EntriesOne DEF Entries
      <4> QED BY <4>2, <4>3, <3>1, <2>6 DEF AlikeInfo, Current
    <3>2. CASE p.block # "here"
      BY <3>2, <2>3, <2>6, <2>8, <2>10 DEF AlikeInfo, Current
    <3> QED BY <3>1, <3>2
  <2>11. Holds(Turn, i)
    BY <2>7, <2>9, <2>10 DEF Holds
  <2> QED BY <1>1, <2>1, <2>6, <2>11, FittingIs DEF i
<1> QED BY <1>3, <1>4

\* Two arrays that match one name are of one name but for the indexes.
LEMMA SameParts ==
  ASSUME ercs \in Blocks, NamedApart, NEW j \in Registers, NEW k \in Registers,
         RemoveDim(FullName(ercs[j])) = RemoveDim(FullName(ercs[k]))
  PROVE  ercs[j].from = ercs[k].from /\ ercs[j].content = ercs[k].content
BY DEF NamedApart, Registers

\* An array that suits none before it is no part of an earlier one.
LEMMA ArrayFits ==
  ASSUME ercs \in Blocks, infos \in Seq(Infos), Turn \in Registers, Current.from = {}, IsArray(Current),
         First = {}, ~Fails
  PROVE  <<Turn, IsRoot>> \in Fitting
<1> DEFINE i == IsRoot
<1>1. i \in Infos /\ i.kind = "Root" /\ i.path = {}
  BY InfosAre
<1>2. Turn \in DOMAIN ercs /\ Current.kind = "register" /\ Current = ercs[Turn]
  BY DEF Registers, Current
<1> HIDE DEF i
<1>3. Typed(Turn, i) /\ AlikeInfo(Turn, i)
  BY <1>1, <1>2 DEF Typed, AlikeInfo
<1>4. ASSUME NamedApart, IndexApart, NEW j \in 1 .. Turn - 1, PartOf(j, Turn) PROVE FALSE
  <2>1. j \in Registers /\ IsArray(ercs[j]) /\ RemoveDim(FullName(ercs[j])) = RemoveDim(FullName(Current))
    BY <1>2, <1>4 DEF PartOf
  <2>2. j \in 1 .. Len(infos) /\ j \in DOMAIN ercs /\ j # Turn /\ Turn \in Nat
    BY <1>2, TurnTyped
  <2>3. Current.name.tail = "%s" /\ ercs[j].from = {} /\ ercs[j].content = Current.content
    BY <2>1, <2>2, <1>2, <1>4 DEF NamedApart
  <2>4. Matches(ercs[j], FullName(Current))
    <3> DEFINE J == FullName(ercs[j])
               K == FullName(Current)
    <3>1. J \in Names /\ K \in Names /\ J.tail \in {"%s", "[%s]"} /\ K.tail = "%s"
      BY <2>1, <2>2, <2>3, <1>2, ErcTyped DEF IsArray, FullName, Names
    <3>2. [J EXCEPT !.tail = ""] = [K EXCEPT !.tail = ""]
      BY <2>1, <3>1 DEF RemoveDim, ExpandDim
    <3> HIDE DEF J, K
    <3>3. J.group = K.group /\ J.stem = K.stem
      BY <3>1, <3>2 DEF Names
    <3> QED BY <3>1, <3>3 DEF Matches, J, K
  <2>5. j \in PrevArrays
    BY <2>1, <2>2, <2>4 DEF PrevArrays, Registers
  <2>6. Here(FullName(ercs[j])) # {}
    BY <2>5 DEF Fails
  <2>7. Suits(j)
    BY <2>1, <2>3, <2>6, <1>4, PartFound DEF Suits, Derivable
  <2>8. {l \in PrevArrays : Suits(l)} \in SUBSET Nat
    BY <1>2, TurnTyped
  <2>9. \E x \in {l \in PrevArrays : Suits(l)} : \A y \in {l \in PrevArrays : Suits(l)} : x <= y
    <3> DEFINE T == {l \in PrevArrays : Suits(l)}
    <3>1. T \in SUBSET Nat /\ T # {}
      BY <2>5, <2>7, <2>8
    <3> HIDE DEF T
    <3>2. \E x \in T : \A y \in T : x <= y
      BY <3>1, SmallestOf
    <3> QED BY <3>2 DEF T
  <2> QED BY <2>9 DEF First
<1>5. NamedApart /\ IndexApart => LaterParts(Turn, i)
  BY <1>4 DEF LaterParts
<1> QED BY <1>1, <1>2, <1>3, <1>5, FittingIs DEF Holds, i

\* While an array is compared with the register j.
At(j) ==
  ScanInv /\ stage = "scanning" /\ against = {j} /\ j \in 1 .. Len(infos)

LEMMA AtTyped ==
  ASSUME NEW j, At(j)
  PROVE  /\ ercs \in Blocks /\ infos \in Seq(Infos) /\ Turn \in DOMAIN ercs /\ Turn \in Registers
         /\ j \in DOMAIN ercs /\ j # Turn /\ infos[j] \in Infos
         /\ Typed(j, infos[j]) /\ (NamedApart /\ IndexApart /\ Namesakes => AlikeInfo(j, infos[j]))
         /\ mine \in Infos /\ Typed(Turn, mine)
         /\ (NamedApart /\ IndexApart => LaterParts(Turn, mine))
         /\ (NamedApart /\ IndexApart /\ Namesakes => AlikeInfo(Turn, mine))
         /\ Current = ercs[Turn] /\ IsArray(Current) /\ Current.from = {} /\ Current.kind = "register"
         /\ FullName(Current) \in Names /\ mine.kind \in {"Root", "Implicit"}
<1>1. ercs \in Blocks /\ infos \in Seq(Infos) /\ Turn \in DOMAIN ercs
  BY DEF At, ScanInv, Comparing
<1>2. j \in DOMAIN ercs /\ j # Turn /\ j \in DOMAIN infos
  BY <1>1, TurnTyped DEF At
<1>3. <<j, infos[j]>> \in Fitting /\ <<Turn, mine>> \in Fitting
  BY <1>2 DEF At, ScanInv, Comparing
<1>4. Current = ercs[Turn] /\ IsArray(Current) /\ Current.from = {} /\ Current.kind = "register"
      /\ mine.kind \in {"Root", "Implicit"}
  BY DEF At, ScanInv, Comparing, Current
<1>5. infos[j] \in Infos /\ Holds(j, infos[j]) /\ mine \in Infos /\ Holds(Turn, mine)
  BY <1>3, FittingIs
<1>6. Turn \in Registers /\ FullName(Current) \in Names
  BY <1>1, <1>4, ErcTyped DEF Registers
<1> QED BY <1>1, <1>2, <1>4, <1>5, <1>6 DEF Holds

\* What is looked up for a register is one end.
LEMMA LookedEnds ==
  ASSUME NEW j, At(j), Compared(j)
  PROVE  /\ Looked(j) \subseteq Paths
         /\ \A p \in Looked(j) : IsEnd(p) /\ \A q \in Looked(j) : p = q
<1>1. \A p \in infos[j].path : p.name \in Names /\ \A q \in infos[j].path : p = q
  BY AtTyped DEF Infos, Paths, Typed
<1>2. CASE infos[j].kind = "Root"
  BY <1>2, AtTyped, HereTyped, HereEnds DEF Looked
<1>3. CASE infos[j].kind # "Root"
  <2>1. Looked(j) = UNION {Here(p.name) : p \in infos[j].path}
    BY <1>3 DEF Looked
  <2>2. ASSUME NEW r \in Looked(j) PROVE r \in Paths /\ IsEnd(r) /\ \A s \in Looked(j) : r = s
    <3>1. PICK p \in infos[j].path : r \in Here(p.name)
      BY <2>1
    <3>2. \A s \in Looked(j) : s \in Here(p.name)
      BY <1>1, <2>1
    <3>3. r \in Paths /\ IsEnd(r) /\ \A s \in Here(p.name) : r = s
      BY <1>1, <3>1, AtTyped, HereTyped, HereEnds
    <3> QED BY <3>2, <3>3
  <2> QED BY <2>2
<1> QED BY <1>2, <1>3

\* A register that is alike becomes part of the array.
LEMMA TheirsFits ==
  ASSUME NEW j, At(j), Compared(j), Hit(j) => Looked(j) # {}
  PROVE  <<j, Theirs(j)>> \in Fitting
<1> DEFINE i == Info("Implicit", Looked(j))
<1>1. CASE Theirs(j) = infos[j]
  <2>1. j \in DOMAIN infos
    BY DEF At
  <2> QED BY <1>1, <2>1 DEF At, ScanInv
<1>2. CASE Theirs(j) # infos[j]
  <2>1. Theirs(j) = i /\ Hit(j) /\ infos[j].kind = "Root" /\ ercs[j].content = Current.content
    BY <1>2 DEF Theirs
  <2>2. Looked(j) = Here(FullName(Current)) /\ Looked(j) # {}
    BY <2>1 DEF Looked
  <2>3. i.kind = "Implicit" /\ i.path = Looked(j) /\ i \in Infos
    BY LookedEnds DEF Info, Infos
  <2>4. ercs[j].kind = "register" /\ ~IsArray(ercs[j]) /\ ercs[j].from = {}
    BY <2>1, AtTyped DEF Compared, Typed
  <2> HIDE DEF i
  <2>5. Typed(j, i) /\ LaterParts(j, i)
    BY <2>2, <2>3, <2>4, LookedEnds DEF Typed, LaterParts
  <2>6. ASSUME NamedApart, IndexApart PROVE AlikeInfo(j, i)
    <3>1. /\ Looked(j) = {Path("here", FullName(Current))}
          /\ \A e \in Entries("register", Path("here", FullName(Current))) :
               e.from = {} /\ e.content = Current.content
      BY <2>2, <2>6, AtTyped, PartFound
    <3>2. Path("here", FullName(Current)).block = "here"
      BY DEF Path
    <3> QED BY <2>1, <2>3, <3>1, <3>2 DEF AlikeInfo
  <2> QED BY <2>1, <2>3, <2>5, <2>6, AtTyped, FittingIs DEF Holds
<1> QED BY <1>1, <1>2

\* An array that matches what the compared array matches has no derivedFrom.
LEMMA NoneDerived ==
  ASSUME NEW j, At(j), NamedApart, NEW k \in Registers, IsArray(ercs[k]), NEW name,
         Matches(ercs[k], name), Matches(Current, name)
  PROVE  ercs[k].from = {}
<1>1. k \in DOMAIN ercs
  BY DEF Registers
<1>2. RemoveDim(FullName(ercs[k])) = RemoveDim(FullName(ercs[Turn]))
  BY <1>1, AtTyped, SameRemoved DEF Matches
<1> QED BY <1>2, AtTyped, SameParts

\* So what the array takes over from a register is alike, and in this block.
LEMMA MineFits ==
  ASSUME NEW j, At(j), Compared(j)
  PROVE  <<Turn, Mine(j)>> \in Fitting
<1>1. CASE Mine(j) = mine
  BY <1>1 DEF At, ScanInv, Comparing
<1>2. CASE Mine(j) # mine
  <2> DEFINE path == IF infos[j].kind = "Explicit" THEN Looked(j) ELSE infos[j].path
             i == Info("Implicit", path)
  <2>1. Mine(j) = i /\ mine = IsRoot /\ Hit(j) /\ infos[j].kind # "Root"
    BY <1>2 DEF Mine
  <2>2. PICK d \in Looked(j) : Derivable(d, Current)
    BY <1>2 DEF Mine
  <2>3. ercs[j].kind = "register" /\ ~IsArray(ercs[j]) /\ infos[j].kind \in {"Implicit", "Explicit"}
    BY <2>1, AtTyped DEF Compared, Typed, Infos
  <2>4. /\ path \subseteq Paths /\ path # {}
        /\ \A p \in path : IsEnd(p) /\ \A q \in path : p = q
    <3>1. CASE infos[j].kind = "Explicit"
      BY <3>1, <2>2, LookedEnds
    <3>2. CASE infos[j].kind # "Explicit"
      BY <3>2, <2>3, AtTyped DEF Typed, Infos
    <3> QED BY <3>1, <3>2
  <2>5. i.kind = "Implicit" /\ i.path = path /\ i \in Infos
    BY <2>4 DEF Info, Infos
  <2>6. Looked(j) = UNION {Here(p.name) : p \in infos[j].path}
    BY <2>1 DEF Looked
  <2>7. infos[j].path \subseteq Paths /\ \A p \in infos[j].path : IsEnd(p) /\ \A q \in infos[j].path : p = q
    BY AtTyped DEF Typed, Infos
  <2>8. \A p \in infos[j].path : p.block = "here" => Looked(j) = {p}
    BY <2>6, <2>7, EndFound
  <2>9. ASSUME NEW p \in path, p \in Looked(j), NEW e \in Entries("register", p)
        PROVE  e.from = {} /\ e.content = Current.content
    <3>1. p = d
      BY <2>9, LookedEnds
    <3>2. e.content = Current.content
      BY <3>1, <2>2, <2>9, AtTyped, EntriesOne DEF Derivable, Entries
    <3>3. PICK q \in infos[j].path : p \in Here(q.name)
      BY <2>6, <2>9
    <3>4. e.from = {}
      BY <3>3, <2>7, <2>9, AtTyped, HereTyped DEF Paths
    <3> QED BY <3>2, <3>4
  <2>10. ASSUME NamedApart, IndexApart, Namesakes, NEW p \in path
         PROVE  p.block = "here" /\ p \in Looked(j)
    <3>1. CASE infos[j].kind = "Explicit"
      <4>1. p \in Looked(j)
        BY <3>1, <2>10
      <4>2. PICK q \in infos[j].path : p \in Here(q.name)
        BY <4>1, <2>6
      <4>3. CASE q.block = "here"
        BY <4>1, <4>3, <2>8
      <4>4. CASE q.block # "here"
        <5>1. PICK k \in Registers : \E r \in ercs[k].from : q \in FindRoot(r)
          BY <4>4, <2>7 DEF IsEnd
        <5>2. q.block = "there"
          BY <4>4, <2>7 DEF Paths
        <5> QED BY <4>1, <4>2, <5>1, <5>2, <2>10 DEF Namesakes
      <4> QED BY <4>3, <4>4
    <3>2. CASE infos[j].kind # "Explicit"
      <4>1. p \in infos[j].path /\ infos[j].kind = "Implicit"
        BY <3>2, <2>3, <2>10
      <4>2. CASE p.block = "here"
        BY <4>1, <4>2, <2>8
      <4>3. CASE p.block # "here"
        <5>1. PICK k \in Registers : IsArray(ercs[k]) /\ ercs[k].from # {} /\ Matches(ercs[k], FullName(ercs[j]))
          BY <4>1, <4>3, <2>10, AtTyped DEF AlikeInfo
        <5>2. Matches(Current, FullName(ercs[j]))
          BY <2>1 DEF Hit
        <5> QED BY <5>1, <5>2, <2>10, NoneDerived
      <4> QED BY <4>2, <4>3
    <3> QED BY <3>1, <3>2
  <2> HIDE DEF i, path
  <2>11. Typed(Turn, i)
    BY <2>4, <2>5, AtTyped DEF Typed
  <2>12. ASSUME NamedApart, IndexApart PROVE LaterParts(Turn, i)
    BY <2>1, <2>12, AtTyped, InfosAre DEF LaterParts
  <2>13. ASSUME NamedApart, IndexApart, Namesakes PROVE AlikeInfo(Turn, i)
    BY <2>5, <2>9, <2>10, <2>13, AtTyped DEF AlikeInfo
  <2> QED BY <2>1, <2>5, <2>11, <2>12, <2>13, AtTyped, FittingIs DEF Holds
<1> QED BY <1>1, <1>2

\* A register that would be derived from the array is derived from the array's
\* own type, which is alike.
LEMMA RedirectedFits ==
  ASSUME NEW j, At(j), Compared(j), Hit(j) => Looked(j) # {}, Dangles(j) => MyRoot(j) # {}
  PROVE  <<j, Redirected(j)>> \in Fitting
<1>1. CASE ~Dangles(j)
  BY <1>1, TheirsFits DEF Redirected
<1>2. CASE Dangles(j)
  <2> DEFINE t == Theirs(j)
             m == Mine(j)
             i == Info(t.kind, MyRoot(j))
  <2>1. t \in Infos /\ Holds(j, t) /\ m \in Infos /\ Holds(Turn, m) /\ j \in DOMAIN ercs
    BY TheirsFits, MineFits, FittingIs
  <2>2. m.kind = "Implicit" /\ MyRoot(j) = UNION {Here(p.name) : p \in m.path} /\ MyRoot(j) # {}
    BY <1>2 DEF Dangles, MyRoot
  <2>3. PICK q \in t.path : q.name = FullName(Current)
    BY <1>2 DEF Dangles
  <2>4. Redirected(j) = i
    BY <1>2 DEF Redirected
  <2> HIDE DEF t, m
  <2>5. m.path \subseteq Paths /\ \A p \in m.path : IsEnd(p) /\ \A r \in m.path : p = r
    BY <2>1 DEF Holds, Typed, Infos
  <2>6. ASSUME NEW r \in MyRoot(j) PROVE r \in Paths /\ IsEnd(r) /\ \A s \in MyRoot(j) : r = s
    <3>1. PICK p \in m.path : r \in Here(p.name)
      BY <2>2, <2>6
    <3>2. p.name \in Names
      BY <2>5 DEF Paths
    <3>3. \A s \in MyRoot(j) : s \in Here(p.name)
      BY <2>2, <2>5
    <3> QED BY <3>1, <3>2, <3>3, AtTyped, HereTyped, HereEnds
  <2>7. i \in Infos /\ i.kind = t.kind /\ i.path = MyRoot(j)
    BY <2>1, <2>6 DEF Info, Infos
  <2>8. t.kind \in {"Implicit", "Explicit"} /\ ~IsArray(ercs[j]) /\ ercs[j].kind = "register"
    BY <2>1, <2>3 DEF Holds, Typed, Infos, Compared
  <2> HIDE DEF i
  <2>9. Typed(j, i) /\ LaterParts(j, i)
    BY <2>1, <2>2, <2>6, <2>7, <2>8 DEF Holds, Typed, LaterParts
  <2>10. ASSUME NamedApart, IndexApart, Namesakes, t.kind = "Implicit" PROVE AlikeInfo(j, i)
    <3>1. q \in Paths /\ IsEnd(q)
      BY <2>1, <2>3 DEF Holds, Typed, Infos
    <3>2. q.block = "here"
      <4>1. SUFFICES ASSUME q.block # "here" PROVE FALSE
        OBVIOUS
      <4>2. PICK k \in Registers : \E r \in ercs[k].from : q \in FindRoot(r)
        BY <3>1, <4>1 DEF IsEnd
      <4>3. q.block = "there"
        BY <3>1, <4>1 DEF Paths
      <4> QED BY <4>2, <4>3, <2>3, <2>10, AtTyped DEF Namesakes
    <3>3. Here(FullName(Current)) = {q} /\ q = Path("here", FullName(Current))
      BY <3>1, <3>2, <2>3, EndFound
    <3>4. PICK e \in Entries("register", q) : e.content = Current.content
      BY <3>3, <2>10, AtTyped, PartFound
    <3>5. ercs[j].content = Current.content
      BY <3>2, <3>4, <2>1, <2>3, <2>10 DEF Holds, AlikeInfo
    <3>6. \A p \in m.path : p.block = "here"
      <4>1. SUFFICES ASSUME NEW p \in m.path, p.block # "here" PROVE FALSE
        OBVIOUS
      <4>2. PICK k \in Registers : IsArray(ercs[k]) /\ ercs[k].from # {} /\ Matches(ercs[k], FullName(ercs[Turn]))
        BY <4>1, <2>1, <2>2, <2>10 DEF Holds, AlikeInfo
      <4>3. k \in DOMAIN ercs
        BY DEF Registers
      <4>4. RemoveDim(FullName(ercs[k])) = RemoveDim(FullName(ercs[Turn]))
        BY <4>2, <4>3, AtTyped, SameRemoved DEF Matches
      <4> QED BY <4>2, <4>4, <2>10, AtTyped, SameParts
    <3>7. ASSUME NEW r \in MyRoot(j) PROVE r \in m.path
      BY <3>6, <2>2, <2>5, EndFound
    <3>8. \A r \in MyRoot(j) : r.block = "here" /\ \A d \in Entries("register", r) :
            d.from = {} /\ d.content = ercs[j].content
      BY <3>5, <3>6, <3>7, <2>1, <2>2, <2>10, AtTyped DEF Holds, AlikeInfo
    <3> QED BY <3>8, <2>7 DEF AlikeInfo
  <2>11. t.kind # "Implicit" => AlikeInfo(j, i)
    BY <2>7 DEF AlikeInfo
  <2> QED BY <2>1, <2>4, <2>7, <2>9, <2>10, <2>11, FittingIs DEF Holds
<1> QED BY <1>1, <1>2

----------------------------------------------------------------------------
(* What depends on the block and the options alone stays as it is *)

LEMMA FullNameStays ==
  ASSUME UNCHANGED <<config, ercs>>
  PROVE  \A e : FullName(e)' = FullName(e)
BY DEF FullName

LEMMA EntriesStay ==
  ASSUME UNCHANGED <<config, ercs>>
  PROVE  \A kind, p : Entries(kind, p)' = Entries(kind, p) /\ Root(kind, p)' = Root(kind, p)
BY DEF Entries, Root

LEMMA HereStays ==
  ASSUME UNCHANGED <<config, ercs>>
  PROVE  /\ \A p : FindRoot(p)' = FindRoot(p)
         /\ \A n : Here(n)' = Here(n)
BY DEF FindRoot, Here, Root

LEMMA PremisesStay ==
  ASSUME UNCHANGED <<config, ercs>>
  PROVE  Registers' = Registers /\ NamedApart' = NamedApart /\ IndexApart' = IndexApart /\ Namesakes' = Namesakes
<1>1. Registers' = Registers
  BY DEF Registers
<1>2. NamedApart' = NamedApart
  BY DEF NamedApart, Elements, FullName, FindRoot, Root
<1>3. IndexApart' = IndexApart
  BY <1>1 DEF IndexApart, FullName
<1>4. Namesakes' = Namesakes
  BY <1>1 DEF Namesakes, FullName, FindRoot, Root, Here
<1> QED BY <1>1, <1>2, <1>3, <1>4

LEMMA FittingStays ==
  ASSUME UNCHANGED <<config, ercs>>
  PROVE  Fitting' = Fitting
BY PremisesStay DEF Fitting, Holds, Typed, LaterParts, AlikeInfo, IsEnd, PartOf, FullName, FindRoot, Root, Entries, Matches

----------------------------------------------------------------------------
(* The scan keeps its invariant, and fails only for a reason *)

Missing == \E k \in DOMAIN ercs : \E q \in ercs[k].from : Root(ercs[k].kind, q) = {}

Grouped == \E k \in Registers : FullName(ercs[k]) # OwnName(ercs[k])

Elsewise == \E k \in Registers : \E q \in ercs[k].from : \E p \in FindRoot(q) :
              p.block = "there" /\ Here(p.name) = {}

Reason == Missing \/ Grouped \/ Elsewise

\* A name of this block leads nowhere only for a reason.
LEMMA HereMissing ==
  ASSUME ercs \in Blocks, NEW j \in Registers, Here(FullName(ercs[j])) = {}
  PROVE  Reason
<1> DEFINE name == FullName(ercs[j])
           path == Path("here", name)
<1>1. SUFFICES ASSUME name = OwnName(ercs[j]) PROVE Missing
  BY DEF Reason, Grouped
<1>2. path.block = "here" /\ path.name \in NamesOf(ercs[j]) /\ j \in DOMAIN ercs /\ ercs[j].kind = "register"
  BY <1>1 DEF Path, NamesOf, Registers
<1>3. PICK k \in DOMAIN ercs : EntriesIn(ercs, "register", path) = {ercs[k]} /\ ercs[k].kind = "register"
  <2>1. \E k \in DOMAIN ercs : /\ EntriesIn(ercs, ercs[j].kind, path) = {ercs[k]}
                                /\ ercs[k].kind = ercs[j].kind /\ path.name \in NamesOf(ercs[k])
    <3>1. ercs \in Blocks /\ j \in DOMAIN ercs /\ path.block = "here" /\ path.name \in NamesOf(ercs[j])
      BY <1>2
    <3> HIDE DEF path, name
    <3> QED BY <3>1, EntryOfName
  <2> QED BY <1>2, <2>1
<1>4. RootIn(ercs, "register", path) = {}
  BY HereRoot
<1>5. ercs[k].from # {}
  BY <1>3, <1>4, RootEnds
<1>6. PICK q \in ercs[k].from : TRUE
  BY <1>5
<1>7. RootIn(ercs, "register", q) = {}
  BY <1>3, <1>4, RootGoesOn
<1> QED BY <1>3, <1>7 DEF Missing, Root

LEMMA EndMissing ==
  ASSUME NEW p \in Paths, IsEnd(p), Here(p.name) = {}
  PROVE  Reason
<1>1. p.block # "here"
  BY EndFound
<1>2. p.block = "there"
  BY <1>1 DEF Paths
<1>3. PICK k \in Registers : \E q \in ercs[k].from : p \in FindRoot(q)
  BY <1>1 DEF IsEnd
<1> QED BY <1>2, <1>3 DEF Reason, Elsewise

LEMMA FailedScan ==
  ASSUME ScanInv, Fail
  PROVE  ScanInv' /\ stage' = "failed"
<1>1. UNCHANGED <<config, ercs, infos, mine, against>> /\ stage' = "failed"
  BY DEF Fail
<1>2. Fitting' = Fitting
  BY <1>1, FittingStays
<1>3. Comparing'
  BY <1>1 DEF Comparing
<1> QED BY <1>1, <1>2, <1>3 DEF ScanInv

LEMMA Decided ==
  ASSUME ScanInv, stage = "scanning", against = {}, Turn \in DOMAIN ercs, NEW i, <<Turn, i>> \in Fitting, Decide(i)
  PROVE  ScanInv' /\ stage' = "scanning"
<1>1. UNCHANGED <<config, ercs, mine, against, stage>> /\ infos' = Append(infos, i)
  BY DEF Decide
<1>2. Fitting' = Fitting
  BY <1>1, FittingStays
<1>3. Comparing'
  BY <1>1 DEF Comparing
<1>4. ercs \in Blocks /\ infos \in Seq(Infos) /\ i \in Infos
  BY FittingIs DEF ScanInv
<1>5. Turn = Len(infos) + 1 /\ Turn <= Len(ercs)
  BY <1>4, TurnTyped, BlockDomain
<1>6. infos' \in Seq(Infos) /\ Len(infos') = Turn /\ DOMAIN infos' = 1 .. Turn
  BY <1>1, <1>4, <1>5
<1>7. \A k \in DOMAIN infos' : infos'[k] = IF k = Turn THEN i ELSE infos[k]
  BY <1>1, <1>4, <1>5, <1>6
<1>8. \A k \in DOMAIN infos' : k # Turn => k \in DOMAIN infos
  BY <1>4, <1>5, <1>6
<1>9. \A k \in DOMAIN infos' : <<k, infos'[k]>> \in Fitting
  BY <1>7, <1>8 DEF ScanInv
<1> QED BY <1>1, <1>2, <1>3, <1>4, <1>5, <1>6, <1>9 DEF ScanInv

LEMMA ScanClusterStep ==
  ASSUME ScanInv, ScanCluster
  PROVE  ScanInv' /\ stage' = "scanning"
<1>1. Turn \in DOMAIN ercs /\ ercs[Turn].kind = "cluster" /\ stage = "scanning" /\ against = {}
  BY DEF ScanCluster, Scanning, Current
<1>2. <<Turn, Info("Cluster", {})>> \in Fitting
  BY <1>1, ClusterFits
<1>3. Decide(Info("Cluster", {}))
  BY DEF ScanCluster
<1> QED BY <1>1, <1>2, <1>3, Decided

LEMMA ScanExplicitStep ==
  ASSUME ScanInv, ScanExplicit
  PROVE  ScanInv' /\ (stage' = "scanning" \/ (stage' = "failed" /\ Reason))
<1> DEFINE roots == UNION {FindRoot(p) : p \in Current.from}
<1>1. Turn \in Registers /\ Turn \in DOMAIN ercs /\ stage = "scanning" /\ against = {} /\ Current.from # {}
      /\ Current = ercs[Turn] /\ Current.kind = "register"
  BY DEF ScanExplicit, Scanning, Current, Registers
<1>2. CASE roots = {}
  <2>1. Fail
    BY <1>2 DEF ScanExplicit
  <2>2. \A q \in Current.from : FindRoot(q) = {}
    BY <1>2
  <2>3. Reason
    BY <1>1, <2>2 DEF Reason, Missing, FindRoot
  <2> QED BY <2>1, <2>3, FailedScan
<1>3. CASE roots # {}
  <2>1. PICK p \in roots : Decide(Explicit(p))
    BY <1>3 DEF ScanExplicit
  <2>2. PICK q \in ercs[Turn].from : p \in FindRoot(q)
    BY <1>1
  <2>3. <<Turn, Explicit(p)>> \in Fitting
    BY <1>1, <2>2, ExplicitFits DEF ScanInv
  <2>4. ScanInv' /\ stage' = "scanning"
    <3> DEFINE i == Explicit(p)
    <3>1. <<Turn, i>> \in Fitting /\ Decide(i)
      BY <2>1, <2>3
    <3> HIDE DEF i, roots
    <3> QED BY <1>1, <3>1, Decided
  <2> QED BY <2>4
<1> QED BY <1>2, <1>3

LEMMA ScanAgainstPrevStep ==
  ASSUME ScanInv, ScanAgainstPrev
  PROVE  ScanInv' /\ (stage' = "scanning" \/ (stage' = "failed" /\ Reason))
<1>1. /\ Turn \in Registers /\ Turn \in DOMAIN ercs /\ stage = "scanning" /\ against = {} /\ Current.from = {}
      /\ Current = ercs[Turn] /\ Current.kind = "register" /\ ercs \in Blocks /\ infos \in Seq(Infos)
  BY DEF ScanAgainstPrev, Scanning, Current, Registers, ScanInv
<1>2. CASE Fails
  <2>1. Fail
    BY <1>2 DEF ScanAgainstPrev
  <2>2. Reason
    BY <1>1, <1>2, TurnTyped, HereMissing DEF Fails
  <2> QED BY <2>1, <2>2, FailedScan
<1>3. ASSUME ~Fails, NEW j \in First, NEW p \in Here(FullName(ercs[j])), Decide(OfPrev(p))
      PROVE  ScanInv' /\ stage' = "scanning"
  BY <1>1, <1>3, PrevFits, Decided
<1>4. ASSUME ~IsArray(Current), Decide(IsRoot) PROVE ScanInv' /\ stage' = "scanning"
  BY <1>1, <1>4, SingleFits, Decided
<1>5. ASSUME ~Fails, First = {}, IsArray(Current), against' = {1}, mine' = IsRoot,
             UNCHANGED <<config, ercs, infos, stage>>
      PROVE  ScanInv' /\ stage' = "scanning"
  <2>1. <<Turn, IsRoot>> \in Fitting
    BY <1>1, <1>5, ArrayFits
  <2>2. Fitting' = Fitting
    BY <1>5, FittingStays
  <2>3. 1 \in 1 .. Turn /\ Turn' = Turn /\ Current' = Current
    BY <1>1, <1>5, TurnTyped DEF Turn, Current
  <2>4. Comparing'
    BY <1>1, <1>5, <2>1, <2>2, <2>3, InfosAre DEF Comparing
  <2> QED BY <1>1, <1>5, <2>2, <2>4 DEF ScanInv
<1>6. CASE ~Fails
  <2>1. \/ \E j \in First : \E p \in Here(FullName(ercs[j])) : Decide(OfPrev(p))
        \/ ~IsArray(Current) /\ Decide(IsRoot)
        \/ /\ First = {} /\ IsArray(Current) /\ against' = {1} /\ mine' = IsRoot
           /\ UNCHANGED <<config, ercs, infos, stage>>
    BY <1>6 DEF ScanAgainstPrev
  <2> QED BY <2>1, <1>3, <1>4, <1>5, <1>6
<1> QED BY <1>2, <1>6

LEMMA CompareStep ==
  ASSUME ScanInv, NEW j \in against, Compare(j)
  PROVE  ScanInv' /\ (stage' = "scanning" \/ (stage' = "failed" /\ Reason))
<1>1. stage = "scanning" /\ j <= Len(infos)
  BY DEF Compare
<1>2. against = {j} /\ j \in 1 .. Turn
  BY <1>1 DEF ScanInv, Comparing
<1>3. ercs \in Blocks /\ infos \in Seq(Infos) /\ Turn \in DOMAIN ercs
  BY <1>1, <1>2 DEF ScanInv, Comparing
<1>4. At(j)
  BY <1>1, <1>2, <1>3, TurnTyped DEF At
<1>5. CASE (Hit(j) /\ Looked(j) = {}) \/ (Dangles(j) /\ MyRoot(j) = {})
  <2>1. Fail
    BY <1>5 DEF Compare
  <2>2. ASSUME Hit(j), Looked(j) = {} PROVE Reason
    <3>1. CASE infos[j].kind = "Root"
      BY <3>1, <2>2, <1>4, AtTyped, HereMissing DEF Looked
    <3>2. CASE infos[j].kind # "Root"
      <4>1. Looked(j) = UNION {Here(p.name) : p \in infos[j].path}
        BY <3>2 DEF Looked
      <4>2. PICK p \in infos[j].path : TRUE
        BY <2>2, <3>2, <1>4, AtTyped DEF Hit, Compared, Typed
      <4>3. p \in Paths /\ IsEnd(p)
        BY <1>4, <4>2, AtTyped DEF Typed, Infos
      <4>4. Here(p.name) = {}
        BY <2>2, <4>1, <4>2
      <4> QED BY <4>3, <4>4, EndMissing
    <3> QED BY <3>1, <3>2
  <2>3. ASSUME Dangles(j), MyRoot(j) = {} PROVE Reason
    <3>1. Mine(j) \in Infos /\ Typed(Turn, Mine(j)) /\ Mine(j).kind = "Implicit"
      BY <1>4, <2>3, MineFits, FittingIs DEF Dangles, Holds
    <3>2. PICK p \in Mine(j).path : TRUE
      BY <3>1 DEF Typed
    <3>3. p \in Paths /\ IsEnd(p)
      BY <3>1, <3>2 DEF Typed, Infos
    <3>4. Here(p.name) = {}
      BY <2>3, <3>2 DEF MyRoot
    <3> QED BY <3>3, <3>4, EndMissing
  <2> QED BY <1>5, <2>1, <2>2, <2>3, FailedScan
<1>6. CASE ~((Hit(j) /\ Looked(j) = {}) \/ (Dangles(j) /\ MyRoot(j) = {}))
  <2>1. infos' = [infos EXCEPT ![j] = Redirected(j)] /\ mine' = Mine(j) /\ against' = {j + 1}
        /\ UNCHANGED <<config, ercs, stage>>
    BY <1>6 DEF Compare
  <2>2. Fitting' = Fitting
    BY <2>1, FittingStays
  <2>3. <<j, Redirected(j)>> \in Fitting /\ <<Turn, Mine(j)>> \in Fitting
    <3>1. CASE Compared(j)
      BY <3>1, <1>4, <1>6, RedirectedFits, MineFits
    <3>2. CASE ~Compared(j)
      <4>1. ~Hit(j) /\ ~Dangles(j)
        BY <3>2 DEF Hit, Dangles
      <4>2. Redirected(j) = infos[j] /\ Mine(j) = mine
        BY <4>1 DEF Redirected, Theirs, Mine
      <4>3. j \in DOMAIN infos
        BY <1>4 DEF At
      <4> QED BY <4>2, <4>3, <1>1, <1>2 DEF ScanInv, Comparing
    <3> QED BY <3>1, <3>2
  <2>4. Redirected(j) \in Infos /\ Mine(j) \in Infos
    BY <2>3, FittingIs
  <2>5. Mine(j).kind \in {"Root", "Implicit"}
    BY <1>4, AtTyped DEF Mine, Info
  <2>6. infos' \in Seq(Infos) /\ Len(infos') = Len(infos) /\ DOMAIN infos' = DOMAIN infos
        /\ \A k \in DOMAIN infos : infos'[k] = IF k = j THEN Redirected(j) ELSE infos[k]
    <3>1. j \in DOMAIN infos
      BY <1>4, <1>3 DEF At
    <3> QED BY <3>1, <2>1, <2>4, <1>3
  <2>7. Turn' = Turn /\ Current' = Current /\ j + 1 \in 1 .. Turn
    BY <2>1, <2>6, <1>3, <1>4, TurnTyped DEF Turn, Current, At
  <2>8. Comparing'
    BY <2>1, <2>2, <2>3, <2>5, <2>7, <1>1, <1>2 DEF Comparing, ScanInv
  <2>9. \A k \in DOMAIN infos' : <<k, infos'[k]>> \in Fitting
    BY <2>3, <2>6 DEF ScanInv
  <2>10. \A k \in DOMAIN infos' : <<k, infos'[k]>> \in Fitting'
    BY <2>2, <2>9
  <2>11. ercs' \in Blocks /\ Len(infos') <= Len(ercs') /\ stage' = "scanning"
    BY <2>1, <2>6, <1>1 DEF ScanInv
  <2> QED BY <2>6, <2>8, <2>10, <2>11 DEF ScanInv
<1> QED BY <1>5, <1>6

LEMMA EndCompareStep ==
  ASSUME ScanInv, EndCompare
  PROVE  ScanInv' /\ stage' = "scanning"
<1>1. stage = "scanning" /\ against # {} /\ infos' = Append(infos, mine) /\ against' = {}
      /\ UNCHANGED <<config, ercs, mine, stage>>
  BY DEF EndCompare
<1>2. Fitting' = Fitting
  BY <1>1, FittingStays
<1>3. Comparing'
  BY <1>1 DEF Comparing
<1>4. ercs \in Blocks /\ infos \in Seq(Infos) /\ Turn \in DOMAIN ercs /\ <<Turn, mine>> \in Fitting
  BY <1>1 DEF ScanInv, Comparing
<1>5. Turn = Len(infos) + 1 /\ Turn <= Len(ercs) /\ mine \in Infos
  BY <1>4, TurnTyped, BlockDomain, FittingIs
<1>6. infos' \in Seq(Infos) /\ Len(infos') = Turn /\ DOMAIN infos' = 1 .. Turn
  BY <1>1, <1>4, <1>5
<1>7. \A k \in DOMAIN infos' : infos'[k] = IF k = Turn THEN mine ELSE infos[k]
  BY <1>1, <1>4, <1>5, <1>6
<1>8. \A k \in DOMAIN infos' : k # Turn => k \in DOMAIN infos
  BY <1>4, <1>5, <1>6
<1>9. \A k \in DOMAIN infos' : <<k, infos'[k]>> \in Fitting
  BY <1>4, <1>7, <1>8 DEF ScanInv
<1> QED BY <1>1, <1>2, <1>3, <1>4, <1>5, <1>6, <1>9 DEF ScanInv

LEMMA ScanStep ==
  ASSUME ScanInv, ScanNext
  PROVE  ScanInv' /\ stage = "scanning" /\ (stage' = "scanning" \/ (stage' = "failed" /\ Reason))
<1>1. stage = "scanning"
  BY DEF ScanNext, ScanCluster, ScanExplicit, ScanAgainstPrev, Scanning, Compare, EndCompare
<1>2. CASE ScanCluster
  BY <1>1, <1>2, ScanClusterStep
<1>3. CASE ScanExplicit
  BY <1>1, <1>3, ScanExplicitStep
<1>4. CASE ScanAgainstPrev
  BY <1>1, <1>4, ScanAgainstPrevStep
<1>5. CASE \E j \in against : Compare(j)
  BY <1>1, <1>5, CompareStep
<1>6. CASE EndCompare
  BY <1>1, <1>6, EndCompareStep
<1> QED BY <1>2, <1>3, <1>4, <1>5, <1>6 DEF ScanNext

----------------------------------------------------------------------------
(* The invariant of the whole generation *)

AllItems   == [k \in DOMAIN ercs |-> Item(k)]
AllMembers == [k \in DOMAIN ercs |-> Member(k)]

Before(n) == {k \in DOMAIN ercs : k < n}
Everything == Len(ercs) + 1

\* The types of the ercs before n are rendered, and what they are derived from
\* is there.
Rendered(n) ==
  /\ items = {AllItems[k] : k \in Before(n)}
  /\ \A k \in Before(n) : \A q \in ercs[k].from : Root(ercs[k].kind, q) # {}

Expanded(n) == members = {AllMembers[k] : k \in Before(n)}

Staged ==
  \/ stage = "scanning" /\ next = 1 /\ items = {} /\ members = {}
  \/ stage = "rendering" /\ Rendered(next) /\ members = {}
  \/ stage = "expanding" /\ Rendered(Everything) /\ Expanded(next)
  \/ stage = "done" /\ Rendered(Everything) /\ Expanded(Everything)
  \/ stage = "failed" /\ (Reason \/ \E k \in DOMAIN ercs : Overlaps(k))

BlockInv ==
  /\ ScanInv /\ Staged
  /\ next \in 1 .. Everything
  /\ stage \in {"rendering", "expanding", "done"} => against = {} /\ Len(infos) = Len(ercs)

LEMMA ReasonStays ==
  ASSUME UNCHANGED <<config, ercs>>
  PROVE  Reason' = Reason /\ Everything' = Everything /\ \A n : Before(n)' = Before(n)
BY PremisesStay, HereStays DEF Reason, Missing, Grouped, Elsewise, Everything, Before, Root, FullName

LEMMA SizesStay ==
  ASSUME UNCHANGED <<config, ercs>>
  PROVE  /\ \A e : SumOfSizes(e)' = SumOfSizes(e)
         /\ \A e : Children(e)' = Children(e)
         /\ \A c : InfoSize(c)' = InfoSize(c)
         /\ \A k : Overlaps(k)' = Overlaps(k)
         /\ \A e : Struct(e)' = Struct(e)
<1>1. \A e : ConvertList(e)' = ConvertList(e)
  BY DEF ConvertList
<1>2. \A e : SumOfSizes(e)' = SumOfSizes(e)
  BY <1>1 DEF SumOfSizes
<1>3. \A e : Base(e)' = Base(e) /\ Children(e)' = Children(e)
  BY DEF Children, Base, Entries, Root
<1>4. \A c : InfoSize(c)' = InfoSize(c)
  BY <1>2 DEF InfoSize
<1>5. \A k : Overlaps(k)' = Overlaps(k)
  BY <1>3, <1>4 DEF Overlaps
<1>6. \A e : Struct(e)' = Struct(e)
  BY <1>3, <1>4 DEF Struct
<1> QED BY <1>2, <1>3, <1>4, <1>5, <1>6

LEMMA ItemsStay ==
  ASSUME UNCHANGED <<config, ercs, infos>>
  PROVE  AllItems' = AllItems /\ AllMembers' = AllMembers
<1>1. \A k : Item(k)' = Item(k)
  BY DEF Item, Target, Derive, RenderedAs, NameAt, FullName, Entries, Root
<1>2. \A k : Apart(k)' = Apart(k) /\ TypeOf(k)' = TypeOf(k)
  BY DEF Apart, TypeOf, FullName
<1>3. \A k : Rbfs(k)' = Rbfs(k)
  BY <1>2, SizesStay DEF Rbfs, MemberErc, ConvertList
<1>4. \A k : Methods(k)' = Methods(k)
  BY <1>2 DEF Methods, IsList, ConvertList, FullName
<1>5. \A k : Member(k)' = Member(k)
  BY <1>2, <1>3, <1>4 DEF Member
<1> QED BY <1>1, <1>5 DEF AllItems, AllMembers

LEMMA BlockInit ==
  ItemsInit => BlockInv
<1> SUFFICES ASSUME ItemsInit PROVE BlockInv
  OBVIOUS
<1>1. /\ ercs \in Blocks /\ infos = <<>> /\ against = {} /\ stage = "scanning"
      /\ next = 1 /\ items = {} /\ members = {}
  BY DEF ItemsInit, ScanInit
<1>2. Len(ercs) \in Nat
  BY <1>1, BlockDomain
<1>3. infos \in Seq(Infos) /\ Len(infos) = 0 /\ DOMAIN infos = {}
  BY <1>1
<1> QED BY <1>1, <1>2, <1>3 DEF BlockInv, ScanInv, Comparing, Staged, Everything

\* A step that leaves the scan alone.
LEMMA ScanStays ==
  ASSUME BlockInv, UNCHANGED <<config, ercs, infos, mine, against>>, stage' # "scanning"
  PROVE  ScanInv'
<1>1. Fitting' = Fitting
  BY FittingStays
<1> QED BY <1>1 DEF BlockInv, ScanInv, Comparing

LEMMA LastErc ==
  ASSUME BlockInv, next \notin DOMAIN ercs, stage \in {"rendering", "expanding"}
  PROVE  Before(next) = Before(Everything)
<1>1. Len(ercs) \in Nat /\ DOMAIN ercs = 1 .. Len(ercs) /\ next \in 1 .. Everything
  BY BlockDomain DEF BlockInv, ScanInv
<1>2. next = Everything
  BY <1>1 DEF Everything
<1> QED BY <1>2

LEMMA RenderStep ==
  ASSUME BlockInv, NEW k \in DOMAIN ercs, RenderErc(k)
  PROVE  BlockInv'
<1>1. /\ stage = "rendering" /\ k = next
      /\ \A q \in ercs[k].from : Root(ercs[k].kind, q) # {}
      /\ items' = items \cup {AllItems[k]} /\ next' = next + 1 /\ UNCHANGED <<scanVars, members>>
  BY DEF RenderErc, Rendering, AllItems
<1>2. UNCHANGED <<config, ercs, infos, mine, against, stage>>
  BY <1>1 DEF scanVars
<1>3. ScanInv'
  BY <1>1, <1>2, ScanStays
<1>4. Len(ercs) \in Nat /\ DOMAIN ercs = 1 .. Len(ercs) /\ next \in 1 .. Everything /\ Rendered(next)
  BY <1>1, BlockDomain DEF BlockInv, ScanInv, Staged
<1>5. Before(next + 1) = Before(next) \cup {k}
  BY <1>1, <1>4 DEF Before
<1>6. items' = {AllItems[l] : l \in Before(next + 1)}
  BY <1>1, <1>4, <1>5 DEF Rendered
<1>7. \A l \in Before(next + 1) : \A q \in ercs[l].from : Root(ercs[l].kind, q) # {}
  BY <1>1, <1>4, <1>5 DEF Rendered
<1>8. AllItems' = AllItems
  BY <1>2, ItemsStay
<1>9. Before(next)' = Before(next + 1)
  BY <1>1, <1>2 DEF Before
<1>10. Rendered(next)'
  BY <1>1, <1>2, <1>6, <1>7, <1>8, <1>9 DEF Rendered, Root
<1>11. Staged' /\ next' \in 1 .. Everything'
  BY <1>1, <1>2, <1>4, <1>10 DEF Staged, Everything, BlockInv
<1> QED BY <1>2, <1>3, <1>11 DEF BlockInv

LEMMA ExpandStep ==
  ASSUME BlockInv, NEW k \in DOMAIN ercs, ExpandMember(k)
  PROVE  BlockInv'
<1>1. /\ stage = "expanding" /\ k = next
      /\ members' = members \cup {AllMembers[k]} /\ next' = next + 1 /\ UNCHANGED <<scanVars, items>>
  BY DEF ExpandMember, Expanding, AllMembers
<1>2. UNCHANGED <<config, ercs, infos, mine, against, stage>>
  BY <1>1 DEF scanVars
<1>3. ScanInv'
  BY <1>1, <1>2, ScanStays
<1>4. Len(ercs) \in Nat /\ DOMAIN ercs = 1 .. Len(ercs) /\ next \in 1 .. Everything
      /\ Rendered(Everything) /\ Expanded(next)
  BY <1>1, BlockDomain DEF BlockInv, ScanInv, Staged
<1>5. Before(next + 1) = Before(next) \cup {k}
  BY <1>1, <1>4 DEF Before
<1>6. members' = {AllMembers[l] : l \in Before(next + 1)}
  BY <1>1, <1>4, <1>5 DEF Expanded
<1>7. AllItems' = AllItems /\ AllMembers' = AllMembers
  BY <1>2, ItemsStay
<1>8. Before(next)' = Before(next + 1) /\ Before(Everything)' = Before(Everything)
  BY <1>1, <1>2 DEF Before, Everything
<1>9. Expanded(next)'
  BY <1>6, <1>7, <1>8 DEF Expanded
<1>10. Rendered(Everything)'
  BY <1>1, <1>2, <1>4, <1>7, <1>8 DEF Rendered, Root
<1>11. Staged' /\ next' \in 1 .. Everything'
  BY <1>1, <1>2, <1>4, <1>9, <1>10 DEF Staged, Everything, BlockInv
<1> QED BY <1>2, <1>3, <1>11 DEF BlockInv

LEMMA FailStep ==
  ASSUME BlockInv, NEW k \in DOMAIN ercs, FailErc(k) \/ FailExpand(k)
  PROVE  BlockInv'
<1>1. stage' = "failed" /\ UNCHANGED <<config, ercs, infos, mine, against, next, items, members>>
  BY DEF FailErc, FailExpand
<1>2. ScanInv'
  BY <1>1, ScanStays
<1>3. Reason \/ \E l \in DOMAIN ercs : Overlaps(l)
  BY DEF FailErc, FailExpand, Reason, Missing
<1>4. Reason' \/ \E l \in DOMAIN ercs : Overlaps(l)'
  BY <1>1, <1>3, ReasonStays, SizesStay
<1>5. Staged' /\ next' \in 1 .. Everything'
  BY <1>1, <1>4, ReasonStays DEF Staged, BlockInv
<1> QED BY <1>1, <1>2, <1>5 DEF BlockInv

LEMMA StageStep ==
  ASSUME BlockInv, StartRendering \/ StartExpanding \/ FinishExpanding
  PROVE  BlockInv'
<1>1. UNCHANGED <<config, ercs, infos, mine, against, items, members>> /\ stage' # "scanning"
  BY DEF StartRendering, StartExpanding, FinishExpanding
<1>2. ScanInv' /\ Len(ercs) \in Nat /\ DOMAIN ercs = 1 .. Len(ercs) /\ next \in 1 .. Everything
  BY <1>1, ScanStays, BlockDomain DEF BlockInv, ScanInv
<1>3. AllItems' = AllItems /\ AllMembers' = AllMembers /\ Before(Everything)' = Before(Everything) /\ Everything' = Everything
  BY <1>1, ItemsStay DEF Before, Everything
<1>4. CASE StartRendering
  <2>1. stage = "scanning" /\ against = {} /\ Turn \notin DOMAIN ercs /\ stage' = "rendering" /\ next' = next
    BY <1>4 DEF StartRendering
  <2>2. next = 1 /\ items = {} /\ members = {}
    BY <2>1 DEF BlockInv, Staged
  <2>3. Len(infos) = Len(ercs)
    <3>1. Len(infos) \in Nat /\ Len(infos) <= Len(ercs)
      BY DEF BlockInv, ScanInv
    <3> QED BY <3>1, <2>1, <1>2 DEF Turn
  <2>4. Before(next)' = {}
    BY <1>1, <1>2, <2>1, <2>2 DEF Before
  <2>5. Rendered(next)'
    BY <1>1, <2>2, <2>4 DEF Rendered
  <2> QED BY <1>1, <1>2, <1>3, <2>1, <2>2, <2>3, <2>5 DEF BlockInv, Staged
<1>5. CASE StartExpanding
  <2>1. stage = "rendering" /\ next \notin DOMAIN ercs /\ stage' = "expanding" /\ next' = 1
    BY <1>5 DEF StartExpanding
  <2>2. Rendered(next) /\ members = {} /\ Before(next) = Before(Everything)
    BY <2>1, LastErc DEF BlockInv, Staged
  <2>3. Rendered(Everything)'
    BY <1>1, <1>3, <2>2 DEF Rendered, Root
  <2>4. Before(next)' = {}
    BY <1>1, <1>2, <2>1 DEF Before
  <2>5. Expanded(next)'
    BY <1>1, <2>2, <2>4 DEF Expanded
  <2>6. next' \in 1 .. Everything'
    BY <1>2, <1>3, <2>1 DEF Everything
  <2> QED BY <1>1, <1>2, <2>1, <2>3, <2>5, <2>6 DEF BlockInv, Staged
<1>6. CASE FinishExpanding
  <2>1. stage = "expanding" /\ next \notin DOMAIN ercs /\ stage' = "done" /\ next' = next
    BY <1>6 DEF FinishExpanding
  <2>2. Rendered(Everything) /\ Expanded(next) /\ Before(next) = Before(Everything)
    BY <2>1, LastErc DEF BlockInv, Staged
  <2>3. Rendered(Everything)'
    BY <1>1, <1>3, <2>2 DEF Rendered, Root
  <2>4. Expanded(Everything)'
    BY <1>1, <1>3, <2>2 DEF Expanded
  <2> QED BY <1>1, <1>2, <1>3, <2>1, <2>3, <2>4 DEF BlockInv, Staged
<1> QED BY <1>4, <1>5, <1>6

LEMMA BlockStep ==
  BlockInv /\ [ItemsNext]_itemVars => BlockInv'
<1> SUFFICES ASSUME BlockInv, [ItemsNext]_itemVars PROVE BlockInv'
  OBVIOUS
<1>1. CASE ScanNext /\ UNCHANGED <<next, items, members>>
  <2>1. ScanInv' /\ stage = "scanning" /\ (stage' = "scanning" \/ (stage' = "failed" /\ Reason))
    BY <1>1, ScanStep DEF BlockInv
  <2>2. UNCHANGED <<config, ercs>>
    BY <1>1 DEF ScanNext, ScanCluster, ScanExplicit, ScanAgainstPrev, Compare, EndCompare, Decide, Fail
  <2>3. Reason' = Reason /\ Everything' = Everything
    BY <2>2, ReasonStays
  <2>4. next = 1 /\ items = {} /\ members = {}
    BY <2>1 DEF BlockInv, Staged
  <2>5. Staged'
    BY <1>1, <2>1, <2>3, <2>4 DEF Staged
  <2> QED BY <1>1, <2>1, <2>3, <2>5 DEF BlockInv
<1>2. CASE StartRendering \/ StartExpanding \/ FinishExpanding
  BY <1>2, StageStep
<1>3. ASSUME NEW k \in DOMAIN ercs, RenderErc(k) \/ FailErc(k) \/ ExpandMember(k) \/ FailExpand(k)
      PROVE  BlockInv'
  BY <1>3, RenderStep, ExpandStep, FailStep
<1>4. CASE UNCHANGED itemVars
  <2>1. UNCHANGED <<config, ercs, infos, mine, against, stage, next, items, members>>
    BY <1>4 DEF itemVars, scanVars
  <2>2. Fitting' = Fitting /\ Reason' = Reason /\ Everything' = Everything
    BY <2>1, FittingStays, ReasonStays
  <2>3. ScanInv'
    BY <2>1, <2>2 DEF ScanInv, Comparing, BlockInv, Turn, Current
  <2>4. AllItems' = AllItems /\ AllMembers' = AllMembers
    BY <2>1, ItemsStay
  <2>5. Before(next)' = Before(next) /\ Before(Everything)' = Before(Everything)
    BY <2>1 DEF Before, Everything
  <2>6. (\E k \in DOMAIN ercs : Overlaps(k))' <=> \E k \in DOMAIN ercs : Overlaps(k)
    BY <2>1, SizesStay
  <2>7. /\ Rendered(next)' = Rendered(next) /\ Rendered(Everything)' = Rendered(Everything)
        /\ Expanded(next)' = Expanded(next) /\ Expanded(Everything)' = Expanded(Everything)
    BY <2>1, <2>4, <2>5 DEF Rendered, Expanded, Root
  <2>8. Staged'
    BY <2>1, <2>2, <2>6, <2>7 DEF Staged, BlockInv
  <2> QED BY <2>1, <2>2, <2>3, <2>8 DEF BlockInv
<1> QED BY <1>1, <1>2, <1>3, <1>4 DEF ItemsNext, ItemsEnded

LEMMA BlockCorrect ==
  ItemsSpec => []BlockInv
BY BlockInit, BlockStep, PTL DEF ItemsSpec

----------------------------------------------------------------------------
(* Why a block fails *)

\* Every failure has one of the three reasons: each lookup by name that
\* check_erc_derive_infos makes, of a register before or after or of one that
\* is already in a derive info, succeeds unless the SVD file is wrong, has
\* alternate groups or a base in another block.
THEOREM FailureHasAReason ==
  ItemsSpec => []FailsForAReason
<1>1. BlockInv => FailsForAReason
  BY DEF BlockInv, Staged, FailsForAReason, Reason, Missing, Grouped, Elsewise
<1> QED BY <1>1, BlockCorrect, PTL

----------------------------------------------------------------------------
(* The types of the members *)

LEMMA DoneInfos ==
  ASSUME BlockInv, stage = "done", NEW k \in DOMAIN ercs
  PROVE  /\ k \in DOMAIN infos /\ infos[k] \in Infos /\ Holds(k, infos[k])
         /\ \A q \in ercs[k].from : Root(ercs[k].kind, q) # {}
<1>1. ercs \in Blocks /\ infos \in Seq(Infos) /\ Len(infos) = Len(ercs)
  BY DEF BlockInv, ScanInv
<1>2. k \in 1 .. Len(ercs) /\ Len(ercs) \in Nat
  BY <1>1, BlockDomain
<1>3. k \in DOMAIN infos /\ k < Everything
  BY <1>1, <1>2 DEF Everything
<1>4. <<k, infos[k]>> \in Fitting /\ k \in Before(Everything) /\ Rendered(Everything)
  BY <1>3 DEF BlockInv, ScanInv, Staged, Before
<1> QED BY <1>3, <1>4, FittingIs DEF Rendered

\* What is done: one item and one member of each erc.
LEMMA DoneItems ==
  ASSUME BlockInv, stage = "done"
  PROVE  /\ ercs \in Blocks
         /\ \A i \in items : \E k \in DOMAIN ercs : i = Item(k)
         /\ \A m \in members : \E k \in DOMAIN ercs : m = Member(k)
         /\ \A k \in DOMAIN ercs : Item(k) \in items /\ Member(k) \in members
<1>1. ercs \in Blocks /\ Rendered(Everything) /\ Expanded(Everything)
  BY DEF BlockInv, ScanInv, Staged
<1>2. Before(Everything) = DOMAIN ercs
  <2>1. Len(ercs) \in Nat /\ DOMAIN ercs = 1 .. Len(ercs)
    BY <1>1, BlockDomain
  <2>2. \A k \in 1 .. Len(ercs) : k < Len(ercs) + 1
    BY <2>1
  <2> QED BY <2>1, <2>2 DEF Before, Everything
<1>3. items = {AllItems[k] : k \in DOMAIN ercs} /\ members = {AllMembers[k] : k \in DOMAIN ercs}
  BY <1>1, <1>2 DEF Rendered, Expanded
<1>4. \A k \in DOMAIN ercs : AllItems[k] = Item(k) /\ AllMembers[k] = Member(k)
  BY DEF AllItems, AllMembers
<1> QED BY <1>1, <1>3, <1>4

\* A register re-exports what its derive info says.
LEMMA TargetIsPath ==
  ASSUME BlockInv, stage = "done", NEW k \in Registers, IsArray(ercs[k])
  PROVE  Target(k) = infos[k].path
<1>1. k \in DOMAIN ercs /\ ercs[k].kind = "register"
  BY DEF Registers
<1>2. Typed(k, infos[k]) /\ infos[k] \in Infos /\ \A q \in ercs[k].from : Root(ercs[k].kind, q) # {}
  BY <1>1, DoneInfos DEF Holds
<1>3. ercs \in Blocks
  BY DEF BlockInv, ScanInv
<1>4. CASE infos[k].kind = "Implicit"
  BY <1>4 DEF Target
<1>5. CASE infos[k].kind \in {"Root", "Cluster"}
  <2>1. infos[k].path = {} /\ ercs[k].from = {}
    BY <1>1, <1>2, <1>5 DEF Typed
  <2> QED BY <1>1, <1>5, <2>1 DEF Target, Derive
<1>6. CASE infos[k].kind = "Explicit"
  <2>1. ercs[k].content = "none" /\ ercs[k].from # {} /\ \A p, q \in ercs[k].from : p = q
    BY <1>1, <1>2, <1>3, <1>6, ErcTyped DEF Typed
  <2>2. PICK q \in ercs[k].from : ercs[k].from = {q}
    BY <2>1
  <2>3. Target(k) = FindRoot(q)
    BY <1>1, <1>6, <2>1, <2>2 DEF Target, Derive, FindRoot
  <2>4. infos[k].path # {} /\ infos[k].path \subseteq FindRoot(q)
    BY <1>2, <1>6, <2>2 DEF Typed
  <2>5. \A p, r \in FindRoot(q) : p = r
    BY <1>3, <2>2, FromEnds
  <2> QED BY <2>3, <2>4, <2>5
<1> QED BY <1>2, <1>4, <1>5, <1>6 DEF Infos

\* expand_register and register::render agree on the name of each type if they
\* agree on the arrays that are given indexes (IndexesGiven, which nothing in the
\* code sees to): the infos and paths that they go by are never in the way.
THEOREM TypesCorrect ==
  ItemsSpec => []TypesThere
<1>1. ASSUME BlockInv, stage = "done", IndexesGiven, NEW k \in DOMAIN ercs
      PROVE  RenderedAs(ercs[k], Target(k)) = TypeOf(k)
  <2>1. CASE k \in Registers /\ IsArray(ercs[k])
    <3>1. Target(k) = infos[k].path /\ ercs[k].kind = "register"
      BY <1>1, <2>1, TargetIsPath DEF Registers
    <3>2. (\E p \in infos[k].path : p.block = "here") => (ercs[k].dimIndex <=> ercs[k].name.tail = "%s")
      BY <1>1, <2>1 DEF IndexesGiven
    <3>3. ercs[k].name.tail \in {"%s", "[%s]"}
      BY <2>1 DEF IsArray
    <3> QED BY <2>1, <3>1, <3>2, <3>3 DEF RenderedAs, TypeOf, Apart
  <2>2. CASE ~(k \in Registers /\ IsArray(ercs[k]))
    BY <2>2 DEF RenderedAs, TypeOf, Apart, Registers
  <2> QED BY <2>1, <2>2
<1>2. BlockInv => TypesThere
  <2> SUFFICES ASSUME BlockInv, stage = "done", IndexesGiven, NEW m \in members
               PROVE  \E i \in items : i.kind = m.kind /\ i.name = m.type
    BY DEF TypesThere
  <2>1. PICK k \in DOMAIN ercs : m = Member(k)
    BY DoneItems
  <2>2. Item(k) \in items
    BY DoneItems
  <2>3. Item(k).kind = m.kind /\ Item(k).name = m.type
    BY <1>1, <2>1 DEF Item, Member
  <2> QED BY <2>2, <2>3
<1> QED BY <1>2, BlockCorrect, PTL

----------------------------------------------------------------------------
(* The names *)

\* A name that is given to an element has a number.
LEMMA ElementName ==
  ASSUME ercs \in Blocks, NEW k \in DOMAIN ercs, IsArray(ercs[k]), NEW n \in Elements(k)
  PROVE  n.tail \in Tails
<1>1. PICK i \in DOMAIN ercs[k].indexes : n = ExpandDim(FullName(ercs[k]), ercs[k].indexes[i])
  BY DEF Elements, ElementNames
<1>2. FullName(ercs[k]) \in Names /\ FullName(ercs[k]).tail = ercs[k].name.tail
  BY ErcTyped DEF FullName, Names
<1>3. ercs[k].indexes[i] \in Tails
  BY ArrayTyped
<1> QED BY <1>1, <1>2, <1>3 DEF ExpandDim, IsArray, Names

LEMMA FirstElement ==
  ASSUME ercs \in Blocks, NEW k \in DOMAIN ercs, IsArray(ercs[k])
  PROVE  ExpandDim(FullName(ercs[k]), ercs[k].indexes[1]) \in Elements(k)
<1>1. 1 \in DOMAIN ercs[k].indexes
  BY ArrayTyped
<1> QED BY <1>1 DEF Elements, ElementNames

LEMMA SingleName ==
  ASSUME ercs \in Blocks, NEW k \in DOMAIN ercs, ~IsArray(ercs[k])
  PROVE  RemoveDim(FullName(ercs[k])) = FullName(ercs[k]) /\ Elements(k) = {FullName(ercs[k])}
<1>1. FullName(ercs[k]).tail = ercs[k].name.tail
  BY ErcTyped DEF FullName, Names
<1> QED BY <1>1 DEF RemoveDim, ExpandDim, IsArray, Elements

\* The name of an array without its dimension is that of no element.
LEMMA NoElement ==
  ASSUME ercs \in Blocks, NamedApart, NEW j \in DOMAIN ercs, NEW k \in DOMAIN ercs, j # k,
         RemoveDim(FullName(ercs[j])) \in Elements(k)
  PROVE  FALSE
<1>1. CASE ~IsArray(ercs[j])
  <2>1. RemoveDim(FullName(ercs[j])) \in Elements(j)
    BY <1>1, SingleName
  <2> QED BY <2>1 DEF NamedApart
<1>2. CASE IsArray(ercs[j]) /\ IsArray(ercs[k])
  <2>1. RemoveDim(FullName(ercs[j])).tail \in Tails
    BY <1>2, ElementName
  <2>2. FullName(ercs[j]) \in Names /\ FullName(ercs[j]).tail = ercs[j].name.tail
    BY ErcTyped DEF FullName, Names
  <2>3. RemoveDim(FullName(ercs[j])).tail = ""
    BY <1>2, <2>2 DEF RemoveDim, ExpandDim, IsArray, Names
  <2> QED BY <2>1, <2>3, TailsPlain
<1>3. CASE IsArray(ercs[j]) /\ ~IsArray(ercs[k])
  <2>1. RemoveDim(FullName(ercs[j])) = RemoveDim(FullName(ercs[k]))
    BY <1>3, SingleName
  <2>2. ercs[k].name.tail = "%s"
    BY <2>1 DEF NamedApart
  <2> QED BY <1>3, <2>2 DEF IsArray
<1> QED BY <1>1, <1>2, <1>3

\* The parts of a disjoint array.
LEMMA PartsAlike ==
  ASSUME ercs \in Blocks, NamedApart, NEW j \in DOMAIN ercs, NEW k \in DOMAIN ercs, j # k,
         RemoveDim(FullName(ercs[j])) = RemoveDim(FullName(ercs[k]))
  PROVE  /\ j \in Registers /\ k \in Registers /\ IsArray(ercs[j]) /\ IsArray(ercs[k])
         /\ ercs[j].name.tail = "%s" /\ ercs[k].name.tail = "%s"
         /\ ercs[j].content = ercs[k].content /\ ercs[j].from = ercs[k].from
         /\ ercs[j].dimIndex
<1>1. /\ ercs[j].kind = "register" /\ ercs[k].kind = "register"
      /\ ercs[j].name.tail = "%s" /\ ercs[k].name.tail = "%s"
      /\ ercs[j].content = ercs[k].content /\ ercs[j].from = ercs[k].from
      /\ ercs[j].dimIndex = ercs[k].dimIndex /\ Elements(j) \cap Elements(k) = {}
  BY DEF NamedApart
<1>2. IsArray(ercs[j]) /\ IsArray(ercs[k])
  BY <1>1 DEF IsArray
<1>3. SUFFICES ASSUME ~ercs[j].dimIndex PROVE FALSE
  BY <1>1, <1>2 DEF Registers
<1>4. ercs[j].indexes[1] = Numerals[1] /\ ercs[k].indexes[1] = Numerals[1]
  <2>1. FromZero(ercs[j]) /\ FromZero(ercs[k])
    BY <1>1, <1>2, <1>3, ArrayTyped
  <2>2. 1 \in DOMAIN ercs[j].indexes /\ 1 \in DOMAIN ercs[k].indexes
    BY <1>2, ArrayTyped
  <2> QED BY <2>1, <2>2 DEF FromZero
<1>5. FullName(ercs[j]) = FullName(ercs[k])
  <2>1. /\ FullName(ercs[j]) \in Names /\ FullName(ercs[j]).tail = "%s"
        /\ FullName(ercs[k]) \in Names /\ FullName(ercs[k]).tail = "%s"
    BY <1>1, ErcTyped DEF FullName, Names
  <2>2. ASSUME NEW a \in Names, a.tail = "%s" PROVE RemoveDim(a).group = a.group /\ RemoveDim(a).stem = a.stem
    BY <2>2 DEF RemoveDim, ExpandDim, Names
  <2>3. FullName(ercs[j]).group = FullName(ercs[k]).group /\ FullName(ercs[j]).stem = FullName(ercs[k]).stem
    BY <2>1, <2>2
  <2> QED BY <2>1, <2>3 DEF Names
<1>6. ExpandDim(FullName(ercs[j]), Numerals[1]) \in Elements(j) \cap Elements(k)
  BY <1>2, <1>4, <1>5, FirstElement
<1> QED BY <1>1, <1>6

\* The later of two parts re-exports a register of this block.
LEMMA LaterPartDerived ==
  ASSUME BlockInv, stage = "done", NamedApart, IndexApart, NEW j \in DOMAIN ercs, NEW k \in DOMAIN ercs, j < k,
         RemoveDim(FullName(ercs[j])) = RemoveDim(FullName(ercs[k]))
  PROVE  \E p \in infos[k].path : p.block = "here"
<1>1. ercs \in Blocks /\ DOMAIN ercs = 1 .. Len(ercs) /\ Len(ercs) \in Nat
  BY BlockDomain DEF BlockInv, ScanInv
<1>2. /\ j \in Registers /\ k \in Registers /\ IsArray(ercs[j]) /\ IsArray(ercs[k])
  BY <1>1, PartsAlike
<1>3. Typed(k, infos[k]) /\ LaterParts(k, infos[k])
  BY DoneInfos DEF Holds
<1>4. CASE ercs[k].from = {}
  <2>1. j \in 1 .. k - 1 /\ PartOf(j, k)
    BY <1>1, <1>2 DEF PartOf
  <2>2. infos[k].kind = "Implicit" /\ \A p \in infos[k].path : p.block = "here"
    BY <1>2, <1>3, <1>4, <2>1 DEF LaterParts, Registers
  <2> QED BY <1>3, <2>2 DEF Typed
<1>5. CASE ercs[k].from # {}
  <2>1. infos[k].kind = "Explicit" /\ infos[k].path # {}
        /\ infos[k].path \subseteq UNION {FindRoot(q) : q \in ercs[k].from}
    BY <1>2, <1>3, <1>5 DEF Typed, Registers
  <2>2. \A q \in ercs[k].from : \A p \in FindRoot(q) : p.block = "here"
    BY <1>1 DEF NamedApart
  <2> QED BY <2>1, <2>2
<1> QED BY <1>4, <1>5

\* What an item is called.
LEMMA ItemName ==
  ASSUME BlockInv, stage = "done", NEW k \in DOMAIN ercs
  PROVE  \/ Item(k).name = RemoveDim(FullName(ercs[k]))
            /\ (k \in Registers /\ IsArray(ercs[k]) /\ ercs[k].dimIndex => \A p \in infos[k].path : p.block # "here")
         \/ k \in Registers /\ IsArray(ercs[k]) /\ Item(k).name \in Elements(k)
<1>1. ercs \in Blocks
  BY DEF BlockInv, ScanInv
<1>2. k \in Registers /\ IsArray(ercs[k]) => Target(k) = infos[k].path
  BY TargetIsPath
<1>3. IsArray(ercs[k]) => ExpandDim(FullName(ercs[k]), ercs[k].indexes[1]) \in Elements(k)
  BY <1>1, FirstElement
<1>4. Item(k).name = RenderedAs(ercs[k], Target(k))
  BY DEF Item
<1> QED BY <1>2, <1>3, <1>4 DEF RenderedAs, Registers

LEMMA ItemsApart ==
  ASSUME BlockInv, stage = "done", NamedApart, IndexApart, NEW j \in DOMAIN ercs, NEW k \in DOMAIN ercs, j < k,
         Item(j).name = Item(k).name
  PROVE  FALSE
<1>1. ercs \in Blocks /\ j # k
  BY BlockDomain DEF BlockInv, ScanInv
<1>2. CASE Item(j).name \in Elements(j) /\ Item(k).name \in Elements(k)
  BY <1>1, <1>2 DEF NamedApart
<1>3. CASE Item(j).name \in Elements(j) /\ Item(k).name = RemoveDim(FullName(ercs[k]))
  BY <1>1, <1>3, NoElement
<1>4. CASE Item(j).name = RemoveDim(FullName(ercs[j])) /\ Item(k).name \in Elements(k)
  BY <1>1, <1>4, NoElement
<1>5. CASE /\ Item(j).name = RemoveDim(FullName(ercs[j]))
           /\ Item(k).name = RemoveDim(FullName(ercs[k]))
           /\ k \in Registers /\ IsArray(ercs[k]) /\ ercs[k].dimIndex => \A p \in infos[k].path : p.block # "here"
  <2>1. RemoveDim(FullName(ercs[j])) = RemoveDim(FullName(ercs[k]))
    BY <1>5
  <2>2. k \in Registers /\ IsArray(ercs[k]) /\ ercs[k].dimIndex
    BY <1>1, <2>1, PartsAlike
  <2>3. \E p \in infos[k].path : p.block = "here"
    BY <2>1, LaterPartDerived
  <2> QED BY <1>5, <2>2, <2>3
<1> QED BY <1>2, <1>3, <1>4, <1>5, ItemName

\* The methods of a member are the elements, and for an array its name.
LEMMA MethodsAre ==
  ASSUME ercs \in Blocks, ListsUngrouped, NEW k \in DOMAIN ercs, NEW n \in Methods(k)
  PROVE  n \in Elements(k) \/ (IsArray(ercs[k]) /\ ~IsList(k) /\ n = RemoveDim(FullName(ercs[k])))
<1>1. CASE ~IsArray(ercs[k])
  BY <1>1 DEF Methods, Elements
<1>2. CASE IsArray(ercs[k]) /\ IsList(k)
  <2>1. FullName(ercs[k]) = OwnName(ercs[k])
    <3>1. CASE ercs[k].kind = "register"
      BY <1>2, <3>1 DEF ListsUngrouped, Registers
    <3>2. CASE ercs[k].kind = "cluster"
      <4>1. ercs[k].name \in Names /\ ercs[k].name.group = ""
        BY <3>2, ErcTyped
      <4> QED BY <4>1 DEF FullName, OwnName, Names
    <3> QED BY <3>1, <3>2, ErcTyped
  <2> QED BY <1>2, <2>1 DEF Methods, Elements
<1>3. CASE IsArray(ercs[k]) /\ ~IsList(k)
  BY <1>3 DEF Methods, Elements
<1> QED BY <1>1, <1>2, <1>3

LEMMA MethodsApart ==
  ASSUME BlockInv, stage = "done", NamedApart, IndexApart, ListsUngrouped, NEW j \in DOMAIN ercs, NEW k \in DOMAIN ercs,
         j < k, NEW n \in Methods(j) \cap Methods(k)
  PROVE  FALSE
<1>1. ercs \in Blocks /\ j # k
  BY BlockDomain DEF BlockInv, ScanInv
<1>2. n \in Elements(j) \/ (IsArray(ercs[j]) /\ ~IsList(j) /\ n = RemoveDim(FullName(ercs[j])))
  BY <1>1, MethodsAre
<1>3. n \in Elements(k) \/ (IsArray(ercs[k]) /\ ~IsList(k) /\ n = RemoveDim(FullName(ercs[k])))
  BY <1>1, MethodsAre
<1>4. CASE n \in Elements(j) /\ n \in Elements(k)
  BY <1>1, <1>4 DEF NamedApart
<1>5. CASE n \in Elements(j) /\ n = RemoveDim(FullName(ercs[k]))
  BY <1>1, <1>5, NoElement
<1>6. CASE n = RemoveDim(FullName(ercs[j])) /\ n \in Elements(k)
  BY <1>1, <1>6, NoElement
<1>7. CASE n = RemoveDim(FullName(ercs[j])) /\ n = RemoveDim(FullName(ercs[k])) /\ ~IsList(k)
  <2>1. k \in Registers /\ IsArray(ercs[k]) /\ ercs[k].name.tail = "%s"
    BY <1>1, <1>7, PartsAlike
  <2>2. \E p \in infos[k].path : p.block = "here"
    BY <1>7, LaterPartDerived
  <2>3. Apart(k)
    BY <2>1, <2>2 DEF Apart, Registers
  <2> QED BY <1>7, <2>1, <2>3 DEF IsList
<1> QED BY <1>2, <1>3, <1>4, <1>5, <1>6, <1>7

\* In a block whose names are apart (NamedApart, IndexApart), no two types,
\* members or methods have one name: what the scan
\* finds out about the parts of a disjoint array is what keeps apart the names
\* that two other parts of the program give to them.
THEOREM NamesCorrect ==
  ItemsSpec => []NamesUnique
<1>1. BlockInv => NamesUnique
  <2> SUFFICES ASSUME BlockInv, stage = "done", NamedApart, IndexApart
               PROVE  /\ \A i, j \in items : i.kind = j.kind /\ i.name = j.name => i = j
                      /\ ListsUngrouped => \A a, b \in members : a # b => a.methods \cap b.methods = {}
    BY DEF NamesUnique
  <2>1. \A j, k \in DOMAIN ercs : j # k => j < k \/ k < j
    BY BlockDomain DEF BlockInv, ScanInv
  <2>2. ASSUME NEW i \in items, NEW j \in items, i.name = j.name PROVE i = j
    <3>1. PICK k \in DOMAIN ercs : i = Item(k)
      BY DoneItems
    <3>2. PICK l \in DOMAIN ercs : j = Item(l)
      BY DoneItems
    <3> QED BY <2>1, <2>2, <3>1, <3>2, ItemsApart
  <2>3. ASSUME ListsUngrouped, NEW a \in members, NEW b \in members, a # b PROVE a.methods \cap b.methods = {}
    <3>1. PICK k \in DOMAIN ercs : a = Member(k)
      BY DoneItems
    <3>2. PICK l \in DOMAIN ercs : b = Member(l)
      BY DoneItems
    <3>3. a.methods = Methods(k) /\ b.methods = Methods(l)
      BY <3>1, <3>2 DEF Member
    <3>4. k < l \/ l < k
      BY <2>1, <2>3, <3>1, <3>2
    <3> QED BY <2>3, <3>3, <3>4, MethodsApart
  <2> QED BY <2>2, <2>3
<1> QED BY <1>1, BlockCorrect, PTL

----------------------------------------------------------------------------
(* The contents *)

\* What is re-exported: the end of a chain, a register with fields of its own.
LEMMA TargetEnds ==
  ASSUME BlockInv, stage = "done", NEW k \in Registers, NEW p \in Target(k)
  PROVE  p \in Paths /\ IsEnd(p)
<1>1. k \in DOMAIN ercs /\ ercs[k].kind = "register" /\ ercs \in Blocks
  BY DEF Registers, BlockInv, ScanInv
<1>2. CASE infos[k].kind = "Implicit"
  BY <1>1, <1>2, DoneInfos DEF Target, Holds, Typed, Infos
<1>3. CASE infos[k].kind # "Implicit"
  <2>1. p \in UNION {FindRoot(q) : q \in ercs[k].from}
    BY <1>1, <1>3 DEF Target, Derive, FindRoot
  <2>2. PICK q \in ercs[k].from : p \in FindRoot(q)
    BY <2>1
  <2> QED BY <1>1, <2>2, FromEnds
<1> QED BY <1>2, <1>3

\* In this block, it is a register without derivedFrom, by one of its names.
LEMMA EndHere ==
  ASSUME ercs \in Blocks, NEW p \in Paths, IsEnd(p), p.block = "here"
  PROVE  \E m \in Registers : /\ Entries("register", p) = {ercs[m]} /\ ercs[m].from = {}
                              /\ p.name \in NamesOf(ercs[m])
<1>1. RootIn(ercs, "register", p) = {p}
  BY DEF IsEnd, FindRoot, Root
<1>2. PICK e \in EntriesIn(ercs, "register", p) : e.from = {}
  BY <1>1 DEF RootIn
<1>3. PICK m \in DOMAIN ercs : e = ercs[m] /\ ercs[m].kind = "register" /\ p.name \in NamesOf(ercs[m])
  BY <1>2, EntryHere
<1>4. EntriesIn(ercs, "register", p) = {ercs[m]}
  BY <1>2, <1>3, EntriesOne
<1> QED BY <1>2, <1>3, <1>4 DEF Registers, Entries

\* The name that the items of others know it by.
LEMMA NameIs ==
  ASSUME ercs \in Blocks, NEW kind, NEW p \in Paths, NEW m \in DOMAIN ercs, Entries(kind, p) = {ercs[m]},
         p.name \in NamesOf(ercs[m])
  PROVE  \/ NameAt(kind, p) = RemoveDim(FullName(ercs[m]))
         \/ IsArray(ercs[m]) /\ NameAt(kind, p) \in Elements(m)
<1> DEFINE full == FullName(ercs[m])
           own == OwnName(ercs[m])
<1>1. NameAt(kind, p) = RemoveDim([p.name EXCEPT !.group = full.group])
  BY DEF NameAt
<1>2. full \in Names /\ own \in Names /\ full = [own EXCEPT !.group = full.group] /\ full.tail = ercs[m].name.tail
      /\ own.tail = ercs[m].name.tail
  BY ErcTyped DEF FullName, OwnName, Names
<1>3. CASE p.name = own
  BY <1>1, <1>2, <1>3
<1>4. CASE p.name # own
  <2>1. PICK n \in DOMAIN ercs[m].indexes : IsArray(ercs[m]) /\ p.name = ExpandDim(own, ercs[m].indexes[n])
    BY <1>4 DEF NamesOf
  <2>2. ercs[m].indexes[n] \in Tails /\ ercs[m].indexes[n] \in Texts
    BY <2>1, ArrayTyped, TailsPlain
  <2>3. p.name = [own EXCEPT !.tail = ercs[m].indexes[n]] /\ ExpandDim(full, ercs[m].indexes[n]) = [full EXCEPT !.tail = ercs[m].indexes[n]]
    BY <1>2, <2>1 DEF ExpandDim, IsArray
  <2>4. [p.name EXCEPT !.group = full.group] = ExpandDim(full, ercs[m].indexes[n])
    <3> HIDE DEF full, own
    <3> QED BY <1>2, <2>2, <2>3 DEF Names
  <2>5. ExpandDim(full, ercs[m].indexes[n]) \in Elements(m)
    BY <2>1 DEF Elements, ElementNames
  <2>6. RemoveDim(ExpandDim(full, ercs[m].indexes[n])) = ExpandDim(full, ercs[m].indexes[n])
    <3>1. ExpandDim(full, ercs[m].indexes[n]).tail = ercs[m].indexes[n]
      BY <1>2, <2>3 DEF Names
    <3> QED BY <3>1, <2>2, TailsPlain DEF RemoveDim, ExpandDim
  <2> QED BY <1>1, <2>1, <2>4, <2>5, <2>6
<1> QED BY <1>3, <1>4

\* An item of that name is that of the same register, or of a part that is like it.
LEMMA ItemOfName ==
  ASSUME BlockInv, stage = "done", NamedApart, NEW m \in DOMAIN ercs, NEW l \in DOMAIN ercs,
         \/ Item(l).name = RemoveDim(FullName(ercs[m]))
         \/ IsArray(ercs[m]) /\ Item(l).name \in Elements(m)
  PROVE  \/ l = m
         \/ ercs[l].content = ercs[m].content /\ ercs[l].from = ercs[m].from /\ l \in Registers
            /\ RemoveDim(FullName(ercs[l])) = RemoveDim(FullName(ercs[m]))
<1>1. ercs \in Blocks
  BY DEF BlockInv, ScanInv
<1>2. SUFFICES ASSUME l # m
               PROVE  ercs[l].content = ercs[m].content /\ ercs[l].from = ercs[m].from /\ l \in Registers
                      /\ RemoveDim(FullName(ercs[l])) = RemoveDim(FullName(ercs[m]))
  OBVIOUS
<1>3. CASE Item(l).name \in Elements(l) /\ Item(l).name \in Elements(m)
  BY <1>2, <1>3 DEF NamedApart
<1>4. CASE Item(l).name \in Elements(l) /\ Item(l).name = RemoveDim(FullName(ercs[m]))
  BY <1>1, <1>2, <1>4, NoElement
<1>5. CASE Item(l).name = RemoveDim(FullName(ercs[l])) /\ Item(l).name \in Elements(m)
  BY <1>1, <1>2, <1>5, NoElement
<1>6. CASE Item(l).name = RemoveDim(FullName(ercs[l])) /\ Item(l).name = RemoveDim(FullName(ercs[m]))
  BY <1>1, <1>2, <1>6, PartsAlike
<1> QED BY <1>3, <1>4, <1>5, <1>6, ItemName

\* What a register re-exports has its properties and fields.
LEMMA TargetAlike ==
  ASSUME BlockInv, stage = "done", NamedApart, IndexApart, Namesakes, NEW k \in Registers, NEW p \in Target(k),
         NEW m \in DOMAIN ercs, Entries("register", p) = {ercs[m]}, ercs[m].from = {}, p.block = "here"
  PROVE  Contents(ercs[k]) = {ercs[m].content}
<1>1. k \in DOMAIN ercs /\ ercs[k].kind = "register" /\ ercs \in Blocks
  BY DEF Registers, BlockInv, ScanInv
<1>2. Typed(k, infos[k]) /\ AlikeInfo(k, infos[k])
  BY <1>1, DoneInfos DEF Holds
<1>3. CASE infos[k].kind = "Implicit"
  <2>1. p \in infos[k].path /\ ercs[k].from = {}
    BY <1>1, <1>2, <1>3 DEF Target, Typed
  <2>2. ercs[m].content = ercs[k].content
    BY <1>2, <1>3, <2>1 DEF AlikeInfo
  <2> QED BY <2>1, <2>2 DEF Contents
<1>4. CASE infos[k].kind # "Implicit"
  <2>1. p \in Derive(ercs[k])
    BY <1>4 DEF Target
  <2>2. ercs[k].content = "none" /\ p \in UNION {FindRoot(q) : q \in ercs[k].from}
    BY <1>1, <2>1 DEF Derive, FindRoot
  <2>3. PICK q \in ercs[k].from : p \in FindRoot(q)
    BY <2>2
  <2>4. ercs[k].from = {q} /\ FindRoot(q) = {p}
    BY <1>1, <2>3, ErcTyped, FromEnds
  <2>5. Contents(ercs[k]) = UNION {{d.content : d \in Entries("register", r)} : r \in {p}}
    BY <2>2, <2>4 DEF Contents
  <2>6. UNION {{d.content : d \in Entries("register", r)} : r \in {p}} = {ercs[m].content}
    OBVIOUS
  <2> QED BY <2>5, <2>6
<1> QED BY <1>3, <1>4

\* A type that is re-exported is that of a register with the same properties and
\* fields, in whatever order its derive info was found and rewritten; where names
\* are told apart as NamedApart, IndexApart and Namesakes say.
THEOREM SameContentCorrect ==
  ItemsSpec => []SameContent
<1>1. BlockInv => SameContent
  <2> SUFFICES ASSUME BlockInv, stage = "done", NamedApart, IndexApart, Namesakes,
                      NEW i \in items, NEW j \in items, NEW t \in HereTargets(i),
                      i.kind = "register", TargetOf(i, t, j)
               PROVE  Contents(ercs[j.erc]) = Contents(ercs[i.erc])
    BY DEF SameContent
  <2>1. PICK k \in DOMAIN ercs : i = Item(k)
    BY DoneItems
  <2>2. PICK l \in DOMAIN ercs : j = Item(l)
    BY DoneItems
  <2>3. ercs \in Blocks /\ k \in Registers /\ i.erc = k /\ j.erc = l /\ j.name = t.name
        /\ t \in {[block |-> p.block, name |-> NameAt("register", p)] : p \in Target(k)} /\ t.block = "here"
    BY <2>1, <2>2 DEF Item, Registers, TargetOf, HereTargets, BlockInv, ScanInv
  <2>4. PICK p \in Target(k) : t = [block |-> p.block, name |-> NameAt("register", p)]
    BY <2>3
  <2>5. p \in Paths /\ IsEnd(p) /\ p.block = "here" /\ t.name = NameAt("register", p)
    BY <2>3, <2>4, TargetEnds
  <2>6. PICK m \in Registers : /\ Entries("register", p) = {ercs[m]} /\ ercs[m].from = {}
                               /\ p.name \in NamesOf(ercs[m])
    BY <2>3, <2>5, EndHere
  <2>7. m \in DOMAIN ercs
    BY DEF Registers
  <2>8. Contents(ercs[k]) = {ercs[m].content}
    BY <2>3, <2>5, <2>6, <2>7, TargetAlike
  <2>9. \/ Item(l).name = RemoveDim(FullName(ercs[m]))
        \/ IsArray(ercs[m]) /\ Item(l).name \in Elements(m)
    BY <2>2, <2>3, <2>5, <2>6, <2>7, NameIs
  <2>10. l = m \/ (ercs[l].content = ercs[m].content /\ ercs[l].from = ercs[m].from)
    BY <2>7, <2>9, ItemOfName
  <2>11. Contents(ercs[l]) = {ercs[m].content}
    BY <2>6, <2>10 DEF Contents
  <2> QED BY <2>3, <2>8, <2>11
<1> QED BY <1>1, BlockCorrect, PTL

----------------------------------------------------------------------------
(* The size of a block *)

LEMMA LayoutTyped ==
  ASSUME ercs \in Blocks, NEW k \in DOMAIN ercs
  PROVE  AllLaidOut(ercs[k])
BY BlocksAssumption DEF ErcsAsExpected

LEMMA LargestValue ==
  ASSUME NEW n \in Nat, NEW f, \A i \in 1 .. n : f[i] \in Nat
  PROVE  \E m \in Nat : (\A i \in 1 .. n : f[i] <= m) /\ (m = 0 \/ \E i \in 1 .. n : f[i] = m)
<1> DEFINE Bounds(m, k) == (\A i \in 1 .. k : f[i] <= m) /\ (m = 0 \/ \E i \in 1 .. k : f[i] = m)
           I == {k \in Nat : k <= n => \E m \in Nat : Bounds(m, k)}
<1>1. 0 \in I
  <2>1. Bounds(0, 0)
    OBVIOUS
  <2> QED BY <2>1
<1>2. ASSUME NEW k \in Nat, k \in I PROVE k + 1 \in I
  <2> SUFFICES ASSUME k + 1 <= n PROVE \E m \in Nat : Bounds(m, k + 1)
    OBVIOUS
  <2>1. PICK m \in Nat : Bounds(m, k)
    BY <1>2
  <2>2. f[k + 1] \in Nat /\ \A i \in 1 .. k + 1 : i = k + 1 \/ i \in 1 .. k
    OBVIOUS
  <2>3. CASE f[k + 1] <= m
    <3>1. Bounds(m, k + 1)
      BY <2>1, <2>2, <2>3
    <3> QED BY <3>1
  <2>4. CASE m <= f[k + 1]
    <3>1. \A i \in 1 .. k : f[i] <= f[k + 1]
      <4>1. \A i \in 1 .. k : f[i] \in Nat /\ f[i] <= m
        BY <2>1
      <4> QED BY <4>1, <2>2, <2>4
    <3>2. Bounds(f[k + 1], k + 1)
      BY <2>2, <3>1
    <3> QED BY <3>2, <2>2
  <2> QED BY <2>2, <2>3, <2>4
<1>3. \A k \in Nat : k \in I
  <2> HIDE DEF I
  <2> QED BY <1>1, <1>2, NatInductionOnSet
<1> QED BY <1>3

LEMMA MaxIs ==
  ASSUME NEW S \in SUBSET Nat, NEW m \in S \cup {0}, \A x \in S : x <= m
  PROVE  MaxOf(S) = m
<1>1. m \in Nat /\ \A x \in S \cup {0} : x <= m /\ x \in Nat
  OBVIOUS
<1>2. \A x \in S \cup {0} : (\A y \in S \cup {0} : x >= y) => x = m
  BY <1>1
<1>3. \A y \in S \cup {0} : m >= y
  BY <1>1
<1> QED BY <1>2, <1>3 DEF MaxOf, Max

SumIs(f, rbfs) == f = [n \in 0 .. Len(rbfs) |-> IF n = 0 THEN 0 ELSE f[n - 1] + rbfs[n].size]

\* Rbfs of one size.
LEMMA TotalIs ==
  ASSUME NEW rbfs, Len(rbfs) \in Nat, NEW b \in Nat, \A i \in 1 .. Len(rbfs) : rbfs[i].size = b
  PROVE  TotalSize(rbfs) = Len(rbfs) * b
<1> DEFINE N == Len(rbfs)
           f == [n \in 0 .. N |-> n * b]
           g == CHOOSE h : SumIs(h, rbfs)
<1>1. SumIs(f, rbfs)
  <2>1. ASSUME NEW n \in 0 .. N PROVE n * b = IF n = 0 THEN 0 ELSE f[n - 1] + rbfs[n].size
    <3>1. CASE n = 0
      BY <3>1
    <3>2. CASE n # 0
      <4>1. n - 1 \in 0 .. N /\ n \in 1 .. N /\ n \in Nat
        BY <3>2
      <4>2. f[n - 1] = (n - 1) * b /\ rbfs[n].size = b
        BY <4>1
      <4>3. n * b = (n - 1) * b + b
        BY <4>1
      <4> QED BY <3>2, <4>2, <4>3
    <3> QED BY <3>1, <3>2
  <2> QED BY <2>1 DEF SumIs
<1>2. SumIs(g, rbfs)
  <2> HIDE DEF f
  <2> QED BY <1>1
<1>3. TotalSize(rbfs) = g[N]
  BY DEF TotalSize, SumIs
<1> HIDE DEF f, g
<1>4. \A n \in 0 .. N : g[n] = IF n = 0 THEN 0 ELSE g[n - 1] + rbfs[n].size
  BY <1>2 DEF SumIs
<1> DEFINE I == {n \in Nat : n <= N => g[n] = n * b}
<1>5. 0 \in I
  BY <1>4
<1>6. ASSUME NEW n \in Nat, n \in I PROVE n + 1 \in I
  <2> SUFFICES ASSUME n + 1 <= N PROVE g[n + 1] = (n + 1) * b
    OBVIOUS
  <2>1. n + 1 \in 0 .. N /\ n + 1 \in 1 .. N /\ n + 1 # 0 /\ (n + 1) - 1 = n /\ n <= N
    OBVIOUS
  <2>2. g[n + 1] = g[n] + rbfs[n + 1].size /\ rbfs[n + 1].size = b
    BY <1>4, <2>1
  <2>3. g[n] = n * b
    BY <1>6, <2>1
  <2>4. (n + 1) * b = n * b + b
    OBVIOUS
  <2> QED BY <2>2, <2>3, <2>4
<1>7. \A n \in Nat : n \in I
  <2> HIDE DEF I
  <2> QED BY <1>5, <1>6, NatInductionOnSet
<1> QED BY <1>3, <1>7

Measured(e) ==
  /\ e.offset \in Nat /\ e.bits \in Nat
  /\ e.array \in BOOLEAN /\ (e.array => e.dim \in Nat \ {0} /\ e.increment \in Nat)

IsListErc(e) == e.array /\ ~(e.convert /\ Sequential(e)) /\ ~(e.convert /\ Disjoint(e))

LEMMA ListIs ==
  ASSUME NEW e, Measured(e), IsListErc(e)
  PROVE  /\ Len(ExpandErc(e)) = e.dim /\ DOMAIN ExpandErc(e) = 1 .. e.dim
         /\ \A n \in 1 .. e.dim : /\ ExpandErc(e)[n].offset = e.offset + (n - 1) * e.increment
                                  /\ ExpandErc(e)[n].size = ElementBits(e)
<1>1. ExpandErc(e) = [n \in 1 .. e.dim |-> ListElement(e, n - 1)]
  BY DEF ExpandErc, IsListErc
<1>2. e.dim \in Nat
  BY DEF Measured, IsListErc
<1>3. \A n : ListElement(e, n).offset = e.offset + n * e.increment /\ ListElement(e, n).size = ElementBits(e)
  BY DEF ListElement, Address
<1> QED BY <1>1, <1>2, <1>3

LEMMA OneIs ==
  ASSUME NEW e, Measured(e), ~IsListErc(e)
  PROVE  /\ Len(ExpandErc(e)) = 1 /\ DOMAIN ExpandErc(e) = 1 .. 1
         /\ ExpandErc(e)[1].offset = e.offset
         /\ ~e.array => ExpandErc(e)[1].size = e.bits
         /\ e.array => ExpandErc(e)[1].size = IF Sequential(e) THEN ElementBits(e) * e.dim ELSE 0
<1>1. ~e.array => ExpandErc(e) = <<Single(e)>>
  BY DEF ExpandErc
<1>2. e.array => ExpandErc(e) = IF Sequential(e) THEN <<Array(e)>> ELSE <<Proxy(e)>>
  BY DEF ExpandErc, IsListErc
<1>3. Single(e).offset = e.offset /\ Array(e).offset = e.offset /\ Proxy(e).offset = e.offset
      /\ Single(e).size = e.bits /\ Array(e).size = ElementBits(e) * e.dim /\ Proxy(e).size = 0
  BY DEF Single, Array, Proxy
<1>4. CASE ~e.array
  BY <1>1, <1>3, <1>4
<1>5. CASE e.array
  BY <1>2, <1>3, <1>5
<1> QED BY <1>4, <1>5

LEMMA ElementBitsTyped ==
  ASSUME NEW e, Measured(e)
  PROVE  ElementBits(e) \in Nat
BY DEF Measured, ElementBits, Padded

\* The sum of the sizes of what an erc becomes.
LEMMA ExpandedTotal ==
  ASSUME NEW e, Measured(e)
  PROVE  /\ TotalSize(ExpandErc(e)) \in Nat
         /\ ~e.array => TotalSize(ExpandErc(e)) = e.bits
         /\ e.array /\ (Sequential(e) \/ IsListErc(e)) => TotalSize(ExpandErc(e)) = e.dim * ElementBits(e)
         /\ e.array /\ ~Sequential(e) /\ ~IsListErc(e) => TotalSize(ExpandErc(e)) = 0
<1> DEFINE rbfs == ExpandErc(e)
<1>1. ElementBits(e) \in Nat
  BY ElementBitsTyped
<1>2. CASE IsListErc(e)
  <2>1. Len(rbfs) = e.dim /\ e.dim \in Nat /\ \A i \in 1 .. Len(rbfs) : rbfs[i].size = ElementBits(e)
    <3>1. e.dim \in Nat
      BY <1>2 DEF Measured, IsListErc
    <3> QED BY <3>1, <1>2, ListIs
  <2> HIDE DEF rbfs
  <2>2. TotalSize(rbfs) = e.dim * ElementBits(e)
    BY <1>1, <2>1, TotalIs
  <2>3. e.dim * ElementBits(e) \in Nat
    BY <1>1, <2>1
  <2> QED BY <1>2, <2>2, <2>3 DEF rbfs, IsListErc
<1>3. ASSUME ~IsListErc(e) PROVE rbfs[1].size \in Nat => TotalSize(rbfs) = rbfs[1].size
  <2>1. Len(rbfs) = 1
    BY <1>3, OneIs
  <2> HIDE DEF rbfs
  <2> SUFFICES ASSUME rbfs[1].size \in Nat PROVE TotalSize(rbfs) = rbfs[1].size
    OBVIOUS
  <2> DEFINE b == rbfs[1].size
  <2>2. b \in Nat /\ Len(rbfs) \in Nat /\ \A i \in 1 .. Len(rbfs) : rbfs[i].size = b
    BY <2>1
  <2> HIDE DEF b
  <2>3. TotalSize(rbfs) = Len(rbfs) * b
    BY <2>2, TotalIs
  <2>4. Len(rbfs) * b = b
    BY <2>1, <2>2
  <2> QED BY <2>3, <2>4 DEF b
<1>4. CASE ~e.array
  <2>1. ~IsListErc(e)
    BY <1>4 DEF IsListErc
  <2>2. rbfs[1].size = e.bits /\ e.bits \in Nat
    BY <1>4, <2>1, OneIs DEF Measured
  <2> QED BY <1>3, <1>4, <2>1, <2>2
<1>5. CASE e.array /\ ~IsListErc(e) /\ Sequential(e)
  <2>1. e.dim \in Nat
    BY <1>5 DEF Measured
  <2>2. rbfs[1].size = ElementBits(e) * e.dim
    BY <1>5, OneIs
  <2>3. ElementBits(e) * e.dim \in Nat /\ ElementBits(e) * e.dim = e.dim * ElementBits(e)
    BY <1>1, <2>1
  <2> QED BY <1>3, <1>5, <2>2, <2>3
<1>6. CASE e.array /\ ~IsListErc(e) /\ ~Sequential(e)
  <2>1. rbfs[1].size = 0
    BY <1>6, OneIs
  <2> QED BY <1>3, <1>6, <2>1
<1> QED BY <1>2, <1>4, <1>5, <1>6 DEF Measured, IsListErc

\* If the elements of a list follow each other, it ends where their sizes say.
LEMMA ExpandedEnd ==
  ASSUME NEW e, Measured(e), IsListErc(e) => ElementBits(e) = 8 * e.increment
  PROVE  /\ \A n \in DOMAIN ExpandErc(e) :
              /\ ExpandErc(e)[n].offset * 8 + ExpandErc(e)[n].size \in Nat
              /\ ExpandErc(e)[n].offset * 8 + ExpandErc(e)[n].size <= e.offset * 8 + TotalSize(ExpandErc(e))
         /\ \E n \in DOMAIN ExpandErc(e) :
              ExpandErc(e)[n].offset * 8 + ExpandErc(e)[n].size = e.offset * 8 + TotalSize(ExpandErc(e))
<1> DEFINE rbfs == ExpandErc(e)
           total == TotalSize(rbfs)
<1>1. total \in Nat /\ e.offset \in Nat
  BY ExpandedTotal DEF Measured
<1>2. CASE ~IsListErc(e)
  <2>1. DOMAIN rbfs = 1 .. 1 /\ rbfs[1].offset = e.offset
    BY <1>2, OneIs
  <2>2. rbfs[1].size = total
    <3>1. CASE ~e.array
      BY <3>1, <1>2, OneIs, ExpandedTotal
    <3>2. CASE e.array /\ Sequential(e)
      <4>1. rbfs[1].size = ElementBits(e) * e.dim /\ total = e.dim * ElementBits(e)
        BY <3>2, <1>2, OneIs, ExpandedTotal
      <4>2. ElementBits(e) \in Nat /\ e.dim \in Nat
        BY <3>2, ElementBitsTyped DEF Measured
      <4> HIDE DEF rbfs, total
      <4> QED BY <4>1, <4>2
    <3>3. CASE e.array /\ ~Sequential(e)
      BY <3>3, <1>2, OneIs, ExpandedTotal
    <3> QED BY <3>1, <3>2, <3>3
  <2> HIDE DEF rbfs, total
  <2> QED BY <1>1, <2>1, <2>2 DEF rbfs, total
<1>3. CASE IsListErc(e)
  <2> DEFINE b == ElementBits(e)
  <2>1. b \in Nat /\ b = 8 * e.increment /\ e.dim \in Nat \ {0} /\ e.increment \in Nat /\ total = e.dim * b
    BY <1>3, ElementBitsTyped, ExpandedTotal DEF Measured, IsListErc
  <2>2. DOMAIN rbfs = 1 .. e.dim /\ \A n \in 1 .. e.dim : rbfs[n].offset = e.offset + (n - 1) * e.increment /\ rbfs[n].size = b
    BY <1>3, ListIs
  <2> HIDE DEF rbfs, total, b
  <2>3. ASSUME NEW n \in 1 .. e.dim PROVE rbfs[n].offset * 8 + rbfs[n].size = e.offset * 8 + n * b
    <3> DEFINE x == (n - 1) * e.increment
    <3>1. x * 8 + b = n * b /\ x \in Nat /\ n * b \in Nat
      BY <2>1
    <3>2. rbfs[n].offset = e.offset + x /\ rbfs[n].size = b
      BY <2>2
    <3> HIDE DEF x
    <3> DEFINE y == n * b
    <3>3. x * 8 + b = y /\ y \in Nat /\ x \in Nat
      BY <3>1
    <3> HIDE DEF y
    <3>4. rbfs[n].offset * 8 + rbfs[n].size = e.offset * 8 + y
      BY <1>1, <3>2, <3>3, <2>1
    <3> QED BY <3>4 DEF y
  <2>4. ASSUME NEW n \in 1 .. e.dim PROVE n * b \in Nat /\ n * b <= e.dim * b
    <3>1. (e.dim - n) * b \in Nat /\ e.dim * b = n * b + (e.dim - n) * b
      BY <2>1
    <3> QED BY <3>1, <2>1
  <2>5. e.dim \in 1 .. e.dim
    BY <2>1
  <2>6. ASSUME NEW n \in DOMAIN rbfs
        PROVE  /\ rbfs[n].offset * 8 + rbfs[n].size \in Nat
               /\ rbfs[n].offset * 8 + rbfs[n].size <= e.offset * 8 + total
    <3>1. n \in 1 .. e.dim
      BY <2>2
    <3> DEFINE y == n * b
               z == e.dim * b
    <3>2. y \in Nat /\ y <= z /\ rbfs[n].offset * 8 + rbfs[n].size = e.offset * 8 + y /\ total = z /\ z \in Nat
      BY <2>1, <2>3, <2>4, <2>5, <3>1
    <3> HIDE DEF y, z
    <3>3. e.offset * 8 + y \in Nat /\ e.offset * 8 + y <= e.offset * 8 + z
      BY <1>1, <3>2
    <3> QED BY <3>2, <3>3
  <2>7. \E n \in DOMAIN rbfs : rbfs[n].offset * 8 + rbfs[n].size = e.offset * 8 + total
    <3>1. e.dim \in DOMAIN rbfs
      BY <2>2, <2>5
    <3> QED BY <2>1, <2>3, <2>5, <3>1
  <2> QED BY <2>6, <2>7 DEF rbfs, total
<1> QED BY <1>2, <1>3

LEMMA AsErcIs ==
  ASSUME NEW e, LaidOut(e), NEW bits \in Nat, NEW struct, NEW convert
  PROVE  /\ Measured(AsErc(e, bits, struct, convert))
         /\ AsErc(e, bits, struct, convert).offset = e.offset
         /\ AsErc(e, bits, struct, convert).bits = bits
         /\ AsErc(e, bits, struct, convert).kind = e.kind
         /\ AsErc(e, bits, struct, convert).convert = convert
         /\ AsErc(e, bits, struct, convert).array = IsArray(e)
         /\ AsErc(e, bits, struct, convert).dim = Len(e.indexes)
         /\ AsErc(e, bits, struct, convert).increment = e.increment
<1>1. IsArray(e) \in BOOLEAN
  BY DEF IsArray
<1> QED BY <1>1 DEF AsErc, LaidOut, Measured

LEMMA MaxTyped ==
  ASSUME NEW n \in Nat, NEW f, \A i \in 1 .. n : f[i] \in Nat
  PROVE  MaxOf({f[i] : i \in 1 .. n}) \in Nat
<1> DEFINE S == {f[i] : i \in 1 .. n}
<1>1. PICK m \in Nat : (\A i \in 1 .. n : f[i] <= m) /\ (m = 0 \/ \E i \in 1 .. n : f[i] = m)
  BY LargestValue
<1>2. S \in SUBSET Nat /\ m \in S \cup {0} /\ \A x \in S : x <= m
  BY <1>1
<1> HIDE DEF S
<1>3. MaxOf(S) = m
  BY <1>2, MaxIs
<1> QED BY <1>3 DEF S

LEMMA InfoSizeTyped ==
  ASSUME NEW c, Len(c) \in Nat, DOMAIN c = 1 .. Len(c), \A n \in DOMAIN c : LaidOut(c[n])
  PROVE  InfoSize(c) \in Nat
<1> DEFINE f == [n \in 1 .. Len(c) |-> c[n].offset * 8 + SumOfSizes(c[n])]
<1>1. ASSUME NEW n \in 1 .. Len(c) PROVE c[n].offset * 8 + SumOfSizes(c[n]) \in Nat
  <2> DEFINE erc == AsErc(c[n], c[n].bits, NoStruct, ConvertList(c[n]))
  <2>1. LaidOut(c[n]) /\ c[n].offset \in Nat /\ c[n].bits \in Nat
    BY DEF LaidOut
  <2>2. Measured(erc)
    BY <2>1, AsErcIs
  <2> HIDE DEF erc
  <2>3. TotalSize(ExpandErc(erc)) \in Nat
    BY <2>2, ExpandedTotal
  <2>4. SumOfSizes(c[n]) \in Nat
    BY <2>3 DEF SumOfSizes, erc
  <2> QED BY <2>1, <2>4
<1>2. {c[n].offset * 8 + SumOfSizes(c[n]) : n \in DOMAIN c} = {f[n] : n \in 1 .. Len(c)}
  OBVIOUS
<1>3. \A n \in 1 .. Len(c) : f[n] \in Nat
  BY <1>1
<1> HIDE DEF f
<1>4. MaxOf({f[n] : n \in 1 .. Len(c)}) \in Nat
  BY <1>3, MaxTyped
<1> QED BY <1>2, <1>4 DEF InfoSize

LEMMA ChildrenLaidOut ==
  ASSUME ercs \in Blocks, NEW k \in DOMAIN ercs
  PROVE  InfoSize(Children(ercs[k])) \in Nat
<1> DEFINE bases == UNION {Entries("cluster", q) : q \in UNION {Root("cluster", p) : p \in ercs[k].from}}
           Fine(c) == Len(c) \in Nat /\ DOMAIN c = 1 .. Len(c) /\ \A n \in DOMAIN c : LaidOut(c[n])
<1>1. \A e \in bases : AllLaidOut(e)
  <2> SUFFICES ASSUME NEW e \in bases PROVE AllLaidOut(e)
    OBVIOUS
  <2>1. PICK q : e \in Entries("cluster", q)
    OBVIOUS
  <2>2. e \in Elsewhere \/ \E j \in DOMAIN ercs : e = ercs[j]
    BY <2>1, EntriesFrom DEF Entries
  <2> QED BY <2>2, LayoutTyped, ElsewhereAssumption
<1>2. AllLaidOut(ercs[k])
  BY LayoutTyped
<1>3. Len(<<>>) = 0 /\ DOMAIN <<>> = 1 .. 0
  OBVIOUS
<1>4. Fine(<<>>)
  BY <1>3
<1>5. Children(ercs[k]) = IF ercs[k].children # <<>> THEN ercs[k].children
                          ELSE IF bases = {} THEN <<>> ELSE (CHOOSE c \in bases : TRUE).children
  BY DEF Children, Base
<1> HIDE DEF bases
<1>6. Fine(Children(ercs[k]))
  <2>1. CASE ercs[k].children # <<>>
    BY <2>1, <1>2, <1>5 DEF AllLaidOut
  <2>2. CASE ercs[k].children = <<>> /\ bases = {}
    BY <2>2, <1>4, <1>5
  <2>3. CASE ercs[k].children = <<>> /\ bases # {}
    <3>1. (CHOOSE c \in bases : TRUE) \in bases
      BY <2>3
    <3> QED BY <2>3, <3>1, <1>1, <1>5 DEF AllLaidOut
  <2> QED BY <2>1, <2>2, <2>3
<1> QED BY <1>6, InfoSizeTyped

SizeOf(k) == IF ercs[k].kind = "register" THEN SumOfSizes(ercs[k]) ELSE ClusterSize(ercs[k])

\* What is counted as if the register was not derived is what its rbfs take.
LEMMA RegisterSize ==
  ASSUME ercs \in Blocks, NEW k \in Registers, Gapless(k)
  PROVE  /\ SizeOf(k) = TotalSize(Rbfs(k)) /\ Measured(MemberErc(k))
         /\ IsListErc(MemberErc(k)) => ElementBits(MemberErc(k)) = 8 * MemberErc(k).increment
<1> DEFINE e == ercs[k]
           a == AsErc(e, e.bits, NoStruct, ConvertList(e))
           b == MemberErc(k)
<1>1. k \in DOMAIN ercs /\ e.kind = "register"
  BY DEF Registers
<1>2. LaidOut(e) /\ e.bits \in Nat
  BY <1>1, LayoutTyped DEF AllLaidOut, LaidOut
<1>3. /\ Measured(a) /\ a.bits = e.bits /\ a.array = IsArray(e) /\ a.kind = "register"
      /\ a.dim = Len(e.indexes) /\ a.increment = e.increment /\ a.convert = ConvertList(e)
  BY <1>1, <1>2, AsErcIs
<1>4. /\ Measured(b) /\ b.bits = e.bits /\ b.array = IsArray(e) /\ b.kind = "register"
      /\ b.dim = Len(e.indexes) /\ b.increment = e.increment /\ b.convert = (~Apart(k) /\ ConvertList(e))
  BY <1>1, <1>2, AsErcIs DEF MemberErc
<1>5. SizeOf(k) = TotalSize(ExpandErc(a)) /\ Rbfs(k) = ExpandErc(b)
  BY <1>1 DEF SizeOf, SumOfSizes, Rbfs, MemberErc
<1>6. ElementBits(a) = e.bits /\ ElementBits(b) = e.bits
  BY <1>3, <1>4 DEF ElementBits, Padded
<1>7. IsArray(e) /\ IsList(k) => 8 * e.increment = e.bits
  BY <1>1 DEF Gapless
<1>8. CASE ~IsArray(e)
  <2>1. ~IsListErc(b)
    BY <1>4, <1>8 DEF IsListErc
  <2> HIDE DEF a, b
  <2> QED BY <1>3, <1>4, <1>5, <1>8, <2>1, ExpandedTotal DEF a, b
<1>9. CASE IsArray(e) /\ IsList(k)
  <2>1. ElementBits(a) = 8 * a.increment /\ ElementBits(b) = 8 * b.increment
    BY <1>3, <1>4, <1>6, <1>7, <1>9
  <2>2. Sequential(a) /\ Sequential(b)
    BY <2>1 DEF Sequential
  <2> HIDE DEF a, b
  <2>3. TotalSize(ExpandErc(a)) = a.dim * ElementBits(a) /\ TotalSize(ExpandErc(b)) = b.dim * ElementBits(b)
    BY <1>3, <1>4, <1>9, <2>2, ExpandedTotal
  <2> QED BY <1>3, <1>4, <1>5, <1>6, <2>1, <2>3 DEF b
<1>10. CASE IsArray(e) /\ ~IsList(k)
  <2>1. ~Apart(k) /\ ConvertList(e) /\ Disjoint(AsErc(e, e.bits, NoStruct, TRUE))
    BY <1>1, <1>10 DEF IsList
  <2>2. b = AsErc(e, e.bits, NoStruct, TRUE) /\ a = AsErc(e, e.bits, NoStruct, TRUE)
    <3>1. ConvertList(e) = TRUE /\ (~Apart(k) /\ ConvertList(e)) = TRUE
      BY <2>1 DEF ConvertList
    <3> QED BY <1>1, <3>1 DEF MemberErc
  <2>3. ~IsListErc(b)
    BY <2>1, <2>2, <1>4 DEF IsListErc
  <2> QED BY <1>4, <1>5, <2>2, <2>3
<1> QED BY <1>8, <1>9, <1>10

LEMMA ClusterErcSize ==
  ASSUME ercs \in Blocks, NEW k \in DOMAIN ercs, ercs[k].kind = "cluster", Gapless(k)
  PROVE  /\ SizeOf(k) = TotalSize(Rbfs(k)) /\ Measured(MemberErc(k))
         /\ IsListErc(MemberErc(k)) => ElementBits(MemberErc(k)) = 8 * MemberErc(k).increment
<1> DEFINE e == ercs[k]
           bits == InfoSize(Children(e))
           b == MemberErc(k)
<1>1. LaidOut(e) /\ bits \in Nat
  BY LayoutTyped, ChildrenLaidOut DEF AllLaidOut
<1>2. /\ Measured(b) /\ b.bits = bits /\ b.array = IsArray(e) /\ b.kind = "cluster"
      /\ b.dim = Len(e.indexes) /\ b.increment = e.increment
  <2> HIDE DEF bits
  <2>1. b = AsErc(e, bits, Struct(e), ConvertList(e))
    BY DEF MemberErc, bits
  <2> HIDE DEF b
  <2> QED BY <1>1, <2>1, AsErcIs
<1>3. SizeOf(k) = ClusterSize(e) /\ Rbfs(k) = ExpandErc(b)
  BY DEF SizeOf, Rbfs, MemberErc
<1>4. CASE ~IsArray(e)
  <2>1. ~IsListErc(b) /\ ClusterSize(e) = bits
    BY <1>2, <1>4 DEF IsListErc, ClusterSize
  <2>2. TotalSize(ExpandErc(b)) = b.bits
    <3> HIDE DEF b
    <3> QED BY <1>2, <1>4, ExpandedTotal
  <2> QED BY <1>2, <1>3, <2>1, <2>2
<1>5. CASE IsArray(e)
  <2>1. 8 * e.increment = bits
    BY <1>5 DEF Gapless
  <2>2. ElementBits(b) = bits /\ ElementBits(b) = 8 * b.increment
    BY <1>2, <2>1 DEF ElementBits
  <2>3. TotalSize(ExpandErc(b)) = b.dim * ElementBits(b)
    <3>1. Sequential(b)
      BY <2>2 DEF Sequential
    <3> HIDE DEF b
    <3> QED BY <1>2, <1>5, <3>1, ExpandedTotal
  <2>4. ClusterSize(e) = (Len(e.indexes) - 1) * e.increment * 8 + bits
    BY <1>5 DEF ClusterSize
  <2>5. Len(e.indexes) \in Nat /\ e.increment \in Nat
    BY <1>1, <1>5 DEF LaidOut
  <2>6. ClusterSize(e) = Len(e.indexes) * bits
    <3> DEFINE d == Len(e.indexes)
               i == e.increment
               c == ClusterSize(e)
    <3>1. d \in Nat /\ i \in Nat /\ bits = 8 * i /\ c = (d - 1) * i * 8 + bits
      BY <2>1, <2>4, <2>5
    <3> HIDE DEF d, i, c, bits
    <3>2. c = d * bits
      BY <3>1
    <3> QED BY <3>2 DEF c, d
  <2> QED BY <1>2, <1>3, <2>2, <2>3, <2>6
<1> QED BY <1>4, <1>5

\* cluster_info_size_in_bits, which does not know what is derived, counts the
\* bits up to the end of the struct that is generated.
THEOREM SizeCorrect ==
  ItemsSpec => []SizeIsEnd
<1>1. BlockInv => SizeIsEnd
  <2> SUFFICES ASSUME BlockInv, stage = "done", \A k \in DOMAIN ercs : Gapless(k)
               PROVE  BlockSize = End
    BY DEF SizeIsEnd
  <2>1. ercs \in Blocks /\ Len(ercs) \in Nat /\ DOMAIN ercs = 1 .. Len(ercs)
    BY BlockDomain DEF BlockInv, ScanInv
  <2> DEFINE N == Len(ercs)
             f == [k \in 1 .. N |-> ercs[k].offset * 8 + SizeOf(k)]
             S == {f[k] : k \in 1 .. N}
             E == UNION {{m.rbfs[n].offset * 8 + m.rbfs[n].size : n \in DOMAIN m.rbfs} : m \in members}
  <2>2. ASSUME NEW k \in 1 .. N
        PROVE  /\ f[k] \in Nat
               /\ \A n \in DOMAIN Rbfs(k) : Rbfs(k)[n].offset * 8 + Rbfs(k)[n].size \in Nat
                                            /\ Rbfs(k)[n].offset * 8 + Rbfs(k)[n].size <= f[k]
               /\ \E n \in DOMAIN Rbfs(k) : Rbfs(k)[n].offset * 8 + Rbfs(k)[n].size = f[k]
    <3> DEFINE b == MemberErc(k)
    <3>1. k \in DOMAIN ercs /\ ercs[k].kind \in {"register", "cluster"} /\ Gapless(k)
      BY <2>1, ErcTyped
    <3>2. SizeOf(k) = TotalSize(Rbfs(k)) /\ Measured(b) /\ (IsListErc(b) => ElementBits(b) = 8 * b.increment)
      BY <2>1, <3>1, RegisterSize, ClusterErcSize DEF Registers
    <3>3. Rbfs(k) = ExpandErc(b) /\ b.offset = ercs[k].offset
      BY DEF Rbfs, MemberErc, AsErc
    <3>4. f[k] = b.offset * 8 + TotalSize(ExpandErc(b))
      BY <3>2, <3>3
    <3> HIDE DEF b, f
    <3> QED BY <3>2, <3>3, <3>4, ExpandedEnd
  <2>3. BlockSize = MaxOf(S)
    <3>1. {ercs[k].offset * 8 + (IF ercs[k].kind = "register" THEN SumOfSizes(ercs[k])
                                 ELSE ClusterSize(ercs[k])) : k \in DOMAIN ercs} = S
      BY <2>1 DEF SizeOf
    <3> HIDE DEF S
    <3> QED BY <3>1 DEF BlockSize
  <2>4. End = MaxOf(E)
    BY DEF End
  <2> HIDE DEF f
  <2>5. PICK m \in Nat : (\A k \in 1 .. N : f[k] <= m) /\ (m = 0 \/ \E k \in 1 .. N : f[k] = m)
    BY <2>1, <2>2, LargestValue
  <2>6. S \in SUBSET Nat /\ m \in S \cup {0} /\ \A x \in S : x <= m
    BY <2>2, <2>5
  <2>7. ASSUME NEW x \in E PROVE x \in Nat /\ x <= m
    <3>1. PICK a \in members : \E n \in DOMAIN a.rbfs : x = a.rbfs[n].offset * 8 + a.rbfs[n].size
      OBVIOUS
    <3>2. PICK k \in 1 .. N : a = Member(k)
      BY <2>1, DoneItems
    <3>3. a.rbfs = Rbfs(k)
      BY <3>2 DEF Member
    <3>4. x \in Nat /\ x <= f[k] /\ f[k] <= m /\ f[k] \in Nat
      BY <2>2, <2>5, <3>1, <3>3
    <3> HIDE DEF E
    <3> QED BY <3>4
  <2>8. ASSUME NEW k \in 1 .. N PROVE f[k] \in E
    <3>1. Member(k) \in members /\ Member(k).rbfs = Rbfs(k)
      BY <2>1, DoneItems DEF Member
    <3>2. PICK n \in DOMAIN Rbfs(k) : Rbfs(k)[n].offset * 8 + Rbfs(k)[n].size = f[k]
      BY <2>2
    <3> QED BY <3>1, <3>2
  <2>9. E \in SUBSET Nat /\ m \in E \cup {0} /\ \A x \in E : x <= m
    <3> HIDE DEF E
    <3> QED BY <2>5, <2>7, <2>8
  <2>10. MaxOf(S) = m /\ MaxOf(E) = m
    <3> HIDE DEF S, E
    <3> QED BY <2>6, <2>9, MaxIs
  <2> QED BY <2>3, <2>4, <2>10
<1> QED BY <1>1, BlockCorrect, PTL

----------------------------------------------------------------------------
(* Where the scan leads *)

Plain == NamedApart /\ IndexApart /\ InOrder /\ BasesPlain

\* The name of what a register of the block is derived from.
BaseName(n) == \E k \in Registers : \E q \in ercs[k].from : \E p \in FindRoot(q) : p.name = n

\* Some of those numbered like it have a derivedFrom.
Mixed(k) == \E e \in Registers : ercs[e].from # {} /\ SameStem(e, k)

\* The parts of the disjoint array that a register may belong to.
ArraysLike(k) ==
  {f \in Registers : /\ IsArray(ercs[f]) /\ ercs[f].from = {}
                     /\ FullName(ercs[f]).group = FullName(ercs[k]).group
                     /\ FullName(ercs[f]).stem = FullName(ercs[k]).stem}

InfoOf(f) == IF f \in DOMAIN infos THEN infos[f] ELSE mine

\* A register is part of an array with a type of its own; or of one that took the
\* type that those before it are derived from, and then so did the register.
LeadsTo(p, k, f) ==
  /\ p.block = "here" /\ f \in ArraysLike(k)
  /\ (p.name = FullName(ercs[f]) /\ InfoOf(f).kind = "Root") \/ (BaseName(p.name) /\ Mixed(f))

Settled(k, i, n) ==
  /\ i.kind = "Implicit" => \A p \in i.path : \E f \in Registers : f < n /\ LeadsTo(p, k, f)
  /\ i.kind = "Explicit" => \A p \in i.path : BaseName(p.name)

\* While an array is compared, those after the current one do not know of it yet.
Reached(k) == IF against # {} /\ \A c \in against : k < c THEN Turn + 1 ELSE Turn

Leading ==
  Plain =>
    /\ \A k \in DOMAIN infos : Settled(k, infos[k], Reached(k))
    /\ against # {} =>
         /\ \A f \in ArraysLike(Turn) : Turn <= f
         /\ mine.kind = "Implicit" => \A p \in mine.path : p.block = "here" /\ BaseName(p.name) /\ Mixed(Turn)

LEMMA LeadingStays ==
  ASSUME UNCHANGED <<config, ercs>>
  PROVE  /\ Plain' = Plain
         /\ \A n : BaseName(n)' = BaseName(n)
         /\ \A k : Mixed(k)' = Mixed(k) /\ ArraysLike(k)' = ArraysLike(k)
<1>1. Registers' = Registers /\ NamedApart' = NamedApart /\ IndexApart' = IndexApart
  BY PremisesStay
<1>2. \A j, k : SameStem(j, k)' = SameStem(j, k)
  BY DEF SameStem
<1>3. \A n : BaseName(n)' = BaseName(n)
  BY <1>1, HereStays DEF BaseName
<1>4. \A k : Mixed(k)' = Mixed(k)
  BY <1>1, <1>2 DEF Mixed
<1>5. \A k : ArraysLike(k)' = ArraysLike(k)
  BY <1>1 DEF ArraysLike, FullName
<1>6. InOrder' = InOrder
  BY <1>1, <1>2 DEF InOrder
<1>7. BasesPlain' = BasesPlain
  BY <1>1, <1>2 DEF BasesPlain, Root
<1> QED BY <1>1, <1>3, <1>4, <1>5, <1>6, <1>7 DEF Plain

LEMMA LeadsStay ==
  ASSUME UNCHANGED <<config, ercs>>, NEW p, NEW k, NEW f, LeadsTo(p, k, f), InfoOf(f)'.kind = InfoOf(f).kind
  PROVE  LeadsTo(p, k, f)'
BY LeadingStays DEF LeadsTo, FullName

\* Arrays of one group and stem have one name.
LEMMA OneArray ==
  ASSUME ercs \in Blocks, NamedApart, NEW j \in Registers, NEW k \in Registers, IsArray(ercs[j]), IsArray(ercs[k]),
         FullName(ercs[j]).group = FullName(ercs[k]).group, FullName(ercs[j]).stem = FullName(ercs[k]).stem
  PROVE  FullName(ercs[j]) = FullName(ercs[k])
<1>1. CASE j = k
  BY <1>1
<1>2. CASE j # k
  <2>1. j \in DOMAIN ercs /\ k \in DOMAIN ercs
    BY DEF Registers
  <2>2. RemoveDim(FullName(ercs[j])) = RemoveDim(FullName(ercs[k]))
    BY <2>1, SameRemoved
  <2>3. ercs[j].name.tail = "%s" /\ ercs[k].name.tail = "%s"
    BY <1>2, <2>1, <2>2, PartsAlike
  <2>4. FullName(ercs[j]) \in Names /\ FullName(ercs[j]).tail = "%s" /\ FullName(ercs[k]) \in Names /\ FullName(ercs[k]).tail = "%s"
    BY <2>1, <2>3, ErcTyped DEF FullName, Names
  <2> QED BY <2>4 DEF Names
<1> QED BY <1>1, <1>2

\* The register with a base's name, if it is here, is plain.
LEMMA BaseIsPlain ==
  ASSUME ercs \in Blocks, BasesPlain, NEW n, BaseName(n), NEW m \in Registers, n \in NamesOf(ercs[m])
  PROVE  n = OwnName(ercs[m]) /\ ercs[m].from = {} /\ ~Mixed(m)
<1>1. PICK k \in Registers : \E q \in ercs[k].from : \E p \in FindRoot(q) : p.name = n
  BY DEF BaseName
<1>2. PICK q \in ercs[k].from : \E p \in FindRoot(q) : p.name = n
  BY <1>1
<1>3. PICK p \in Root("register", q) : p.name = n
  BY <1>2 DEF FindRoot
<1>4. /\ k \in DOMAIN ercs /\ m \in DOMAIN ercs /\ ercs[k].kind = "register" /\ ercs[m].kind = "register"
  BY DEF Registers
<1>5. n = OwnName(ercs[m]) /\ \A l \in Registers : SameStem(l, m) => ercs[l].from = {}
  BY <1>2, <1>3, <1>4 DEF BasesPlain
<1>6. SameStem(m, m)
  BY DEF SameStem
<1> QED BY <1>5, <1>6 DEF Mixed

LEMMA BaseFound ==
  ASSUME ercs \in Blocks, BasesPlain, NEW n, BaseName(n), NEW r \in Here(n)
  PROVE  r.block = "here" /\ r.name = n
<1> DEFINE path == Path("here", n)
<1>1. r \in RootIn(ercs, "register", path) /\ path.block = "here" /\ path.name = n
  BY HereRoot
<1>2. PICK e \in EntriesIn(ercs, "register", path) : TRUE
  BY <1>1, RootMissing
<1>3. PICK m \in DOMAIN ercs : e = ercs[m] /\ ercs[m].kind = "register" /\ n \in NamesOf(ercs[m])
  BY <1>1, EntryHere
<1>4. m \in Registers
  BY <1>3 DEF Registers
<1>5. ercs[m].from = {}
  BY <1>3, <1>4, BaseIsPlain
<1>6. RootIn(ercs, "register", path) = {path}
  BY <1>2, <1>3, <1>5, RootEnds
<1> QED BY <1>1, <1>6

\* The stem of a part that a register comes after has no derivedFrom.
LEMMA PartBefore ==
  ASSUME InOrder, NEW j \in Registers, NEW k \in Registers, ~(k <= j), IsArray(ercs[j]), SameStem(j, k), ercs[k].from = {}
  PROVE  ~Mixed(j) /\ ercs[j].from = {}
<1>1. ASSUME NEW e \in Registers, ercs[e].from # {}, SameStem(e, j) PROVE FALSE
  <2>1. SameStem(k, e) /\ SameStem(j, k) /\ SameStem(k, k)
    BY <1>1 DEF SameStem
  <2> QED BY <1>1, <2>1 DEF InOrder
<1>2. SameStem(j, j)
  BY DEF SameStem
<1> QED BY <1>1, <1>2 DEF Mixed

LEMMA LikeStem ==
  ASSUME ercs \in Blocks, NEW j \in DOMAIN ercs, NEW k \in DOMAIN ercs, FullName(ercs[j]).stem = FullName(ercs[k]).stem
  PROVE  SameStem(j, k)
<1>1. ercs[j].name \in Names /\ ercs[k].name \in Names
  BY ErcTyped
<1>2. FullName(ercs[j]).stem = ercs[j].name.stem /\ FullName(ercs[k]).stem = ercs[k].name.stem
  BY <1>1 DEF FullName, Names
<1> QED BY <1>2 DEF SameStem

\* What a register is derived from by name: the array, or what the array is
\* derived from itself.
LEMMA PrevLeads ==
  ASSUME ScanInv, Leading, Plain, against = {}, Turn \in Registers, Current.from = {},
         NEW j \in First, NEW p \in Here(FullName(ercs[j]))
  PROVE  \E f \in Registers : f < Turn /\ LeadsTo(p, Turn, f)
<1>1. ercs \in Blocks /\ infos \in Seq(Infos) /\ Turn \in DOMAIN ercs /\ Current = ercs[Turn]
  BY DEF ScanInv, Registers, Current
<1>2. j \in Registers /\ IsArray(ercs[j]) /\ Matches(ercs[j], FullName(Current)) /\ j \in 1 .. Len(infos)
  BY <1>1, TurnTyped DEF First
<1>3. j \in DOMAIN infos /\ j < Turn /\ j \in DOMAIN ercs /\ Turn \in Nat /\ j \in Nat
  BY <1>1, <1>2, TurnTyped
<1>4. FullName(ercs[j]).group = FullName(ercs[Turn]).group /\ FullName(ercs[j]).stem = FullName(ercs[Turn]).stem
  BY <1>1, <1>2 DEF Matches
<1>5. SameStem(j, Turn)
  BY <1>1, <1>3, <1>4, LikeStem
<1>6. ~Mixed(j) /\ ercs[j].from = {}
  BY <1>1, <1>2, <1>3, <1>5, PartBefore DEF Plain
<1>7. p = Path("here", FullName(ercs[j]))
  BY <1>1, <1>2, <1>6, PartFound DEF Plain
<1>8. p.block = "here" /\ p.name = FullName(ercs[j])
  BY <1>7 DEF Path
<1>9. infos[j] \in Infos /\ Typed(j, infos[j]) /\ Settled(j, infos[j], Turn)
  <2>1. <<j, infos[j]>> \in Fitting
    BY <1>3 DEF ScanInv
  <2>2. Reached(j) = Turn
    BY DEF Reached
  <2> QED BY <1>3, <2>1, <2>2, FittingIs DEF Holds, Leading
<1>10. CASE infos[j].kind = "Root"
  <2>1. j \in ArraysLike(Turn) /\ InfoOf(j).kind = "Root"
    BY <1>2, <1>3, <1>4, <1>6, <1>10 DEF ArraysLike, InfoOf
  <2> QED BY <1>2, <1>3, <1>8, <2>1 DEF LeadsTo
<1>11. CASE infos[j].kind = "Implicit"
  <2>1. PICK r \in infos[j].path : TRUE
    BY <1>9, <1>11 DEF Typed
  <2>2. PICK f \in Registers : f < Turn /\ LeadsTo(r, j, f)
    BY <1>9, <1>11, <2>1 DEF Settled
  <2>3. f \in ArraysLike(j) /\ f \in DOMAIN ercs
    BY <2>2 DEF LeadsTo, Registers
  <2>4. SameStem(f, j)
    BY <1>1, <1>3, <2>3, LikeStem DEF ArraysLike
  <2>5. ~Mixed(f)
    BY <1>6, <2>4 DEF Mixed, SameStem
  <2>6. InfoOf(f).kind = "Root"
    BY <2>2, <2>5 DEF LeadsTo
  <2>7. FullName(ercs[f]) = FullName(ercs[j])
    BY <1>1, <1>2, <2>3, OneArray DEF ArraysLike, Plain
  <2>8. f \in ArraysLike(Turn)
    BY <1>4, <2>3 DEF ArraysLike
  <2> QED BY <1>8, <2>2, <2>6, <2>7, <2>8 DEF LeadsTo
<1>12. infos[j].kind \in {"Root", "Implicit"}
  BY <1>2, <1>6, <1>9 DEF Typed, Infos, Registers
<1> QED BY <1>10, <1>11, <1>12

\* A decision about the current register leaves the others alone.
LEMMA DecidedLeads ==
  ASSUME ScanInv, Leading, stage = "scanning", against = {}, Turn \in DOMAIN ercs, NEW i \in Infos, Decide(i),
         Plain => Settled(Turn, i, Turn)
  PROVE  Leading'
<1>1. UNCHANGED <<config, ercs, mine, against, stage>> /\ infos' = Append(infos, i)
  BY DEF Decide
<1>2. ercs \in Blocks /\ infos \in Seq(Infos)
  BY DEF ScanInv
<1>3. Turn \in Nat /\ Turn = Len(infos) + 1 /\ DOMAIN infos = 1 .. Len(infos)
  BY <1>2, TurnTyped
<1>4. Len(infos') = Turn /\ DOMAIN infos' = 1 .. Turn /\ \A k \in DOMAIN infos' : infos'[k] = IF k = Turn THEN i ELSE infos[k]
  BY <1>1, <1>2, <1>3
<1>5. Turn' = Turn + 1 /\ against' = {} /\ \A k : Reached(k)' = Turn + 1
  BY <1>1, <1>4 DEF Turn, Reached
<1>6. \A f \in Registers : f < Turn => f \in DOMAIN infos /\ InfoOf(f)' = InfoOf(f)
  <2> SUFFICES ASSUME NEW f \in Registers, f < Turn PROVE f \in DOMAIN infos /\ InfoOf(f)' = InfoOf(f)
    OBVIOUS
  <2>1. f \in Nat /\ f >= 1
    BY <1>2, BlockDomain DEF Registers
  <2>2. f \in DOMAIN infos /\ f \in DOMAIN infos' /\ infos'[f] = infos[f]
    BY <1>3, <1>4, <2>1
  <2> QED BY <2>2 DEF InfoOf
<1>7. ASSUME Plain, NEW k \in DOMAIN infos'
      PROVE  /\ infos'[k].kind = "Implicit" =>
                  \A p \in infos'[k].path : \E f \in Registers : f < Turn + 1 /\ LeadsTo(p, k, f)'
             /\ infos'[k].kind = "Explicit" => \A p \in infos'[k].path : BaseName(p.name)
  <2>1. Settled(k, infos'[k], Turn)
    <3>1. CASE k = Turn
      BY <1>4, <1>7, <3>1
    <3>2. CASE k # Turn
      <4>1. k \in DOMAIN infos /\ infos'[k] = infos[k] /\ Reached(k) = Turn
        BY <1>3, <1>4, <1>7, <3>2 DEF Reached
      <4> QED BY <1>7, <4>1 DEF Leading
    <3> QED BY <3>1, <3>2
  <2>2. ASSUME NEW p, NEW f \in Registers, f < Turn, LeadsTo(p, k, f) PROVE f < Turn + 1 /\ LeadsTo(p, k, f)'
    <3>1. f \in Nat
      BY <1>2, BlockDomain DEF Registers
    <3> QED BY <1>1, <1>3, <1>6, <2>2, <3>1, LeadsStay
  <2> QED BY <2>1, <2>2 DEF Settled
<1>8. Plain' = Plain /\ Registers' = Registers /\ \A n : BaseName(n)' = BaseName(n)
  BY <1>1, LeadingStays, PremisesStay
<1> QED BY <1>5, <1>7, <1>8 DEF Leading, Settled

LEMMA LeadingUnchanged ==
  ASSUME Leading, UNCHANGED <<config, ercs, infos, mine, against>>
  PROVE  Leading'
<1>1. Plain' = Plain /\ Registers' = Registers /\ (\A n : BaseName(n)' = BaseName(n))
      /\ \A k : Mixed(k)' = Mixed(k) /\ ArraysLike(k)' = ArraysLike(k)
  BY LeadingStays, PremisesStay
<1>2. Turn' = Turn /\ \A f : InfoOf(f)' = InfoOf(f)
  BY DEF Turn, InfoOf
<1>3. \A k : Reached(k)' = Reached(k)
  BY <1>2 DEF Reached
<1>4. \A p, k, f : LeadsTo(p, k, f) => LeadsTo(p, k, f)'
  BY <1>2, LeadsStay
<1> QED BY <1>1, <1>2, <1>3, <1>4 DEF Leading, Settled

\* What the array takes is the type of one before with derivedFrom.
LEMMA MineLeads ==
  ASSUME NEW j, At(j), Leading, Plain, Mine(j).kind = "Implicit"
  PROVE  /\ \A p \in Mine(j).path : p.block = "here" /\ BaseName(p.name) /\ Mixed(Turn)
         /\ mine.kind = "Root" => j \in Registers /\ ercs[j].from # {} /\ SameStem(j, Turn)
<1>1. /\ ercs \in Blocks /\ infos \in Seq(Infos) /\ Turn \in Registers /\ Turn \in DOMAIN ercs
      /\ Current = ercs[Turn] /\ IsArray(Current) /\ j \in DOMAIN ercs /\ infos[j] \in Infos /\ Typed(j, infos[j])
      /\ against = {j} /\ j \in DOMAIN infos /\ mine.kind \in {"Root", "Implicit"}
  BY AtTyped DEF At
<1>2. /\ \A f \in ArraysLike(Turn) : Turn <= f
      /\ mine.kind = "Implicit" => \A p \in mine.path : p.block = "here" /\ BaseName(p.name) /\ Mixed(Turn)
      /\ Settled(j, infos[j], Reached(j))
  BY <1>1 DEF Leading
<1>3. CASE Mine(j) = mine
  BY <1>2, <1>3
<1>4. CASE Mine(j) # mine
  <2>1. mine = IsRoot /\ Hit(j) /\ infos[j].kind # "Root"
        /\ Mine(j) = Info("Implicit", IF infos[j].kind = "Explicit" THEN Looked(j) ELSE infos[j].path)
    BY <1>4 DEF Mine
  <2>2. Compared(j) /\ Matches(Current, FullName(ercs[j])) /\ j \in Registers
    BY <1>1, <2>1 DEF Hit, Compared, Registers
  <2>3. FullName(ercs[j]).group = FullName(ercs[Turn]).group /\ FullName(ercs[j]).stem = FullName(ercs[Turn]).stem
    BY <1>1, <2>2 DEF Matches
  <2>4. SameStem(j, Turn)
    BY <1>1, <2>3, LikeStem
  <2>5. infos[j].kind # "Cluster"
    BY <1>1, <2>2 DEF Typed, Compared
  <2>6. CASE infos[j].kind = "Explicit"
    <3>1. ercs[j].from # {} /\ Mixed(Turn)
      BY <1>1, <2>2, <2>4, <2>6 DEF Typed, Mixed
    <3>2. Mine(j).path = Looked(j) /\ Looked(j) = UNION {Here(p.name) : p \in infos[j].path}
      BY <2>1, <2>6 DEF Info, Looked
    <3>3. ASSUME NEW r \in Mine(j).path PROVE r.block = "here" /\ BaseName(r.name)
      <4>1. PICK p \in infos[j].path : r \in Here(p.name)
        BY <3>2
      <4>2. BaseName(p.name)
        BY <1>2, <2>6, <4>1 DEF Settled
      <4>3. r.block = "here" /\ r.name = p.name
        BY <1>1, <4>1, <4>2, BaseFound DEF Plain
      <4> QED BY <4>2, <4>3
    <3> QED BY <2>2, <2>4, <3>1, <3>3
  <2>7. CASE infos[j].kind = "Implicit"
    <3>1. Reached(j) = Turn
      <4>1. j \in Nat
        BY <1>1, BlockDomain
      <4> QED BY <1>1, <4>1 DEF Reached
    <3>2. PICK p \in infos[j].path : TRUE
      BY <1>1, <2>7 DEF Typed
    <3>3. PICK f \in Registers : f < Turn /\ LeadsTo(p, j, f)
      BY <1>2, <2>7, <3>1, <3>2 DEF Settled
    <3>4. f \in ArraysLike(Turn)
      BY <2>3, <3>3 DEF LeadsTo, ArraysLike
    <3>5. f \in Nat /\ Turn \in Nat /\ Turn <= f
      BY <1>1, <1>2, <3>4, BlockDomain DEF Registers
    <3> QED BY <3>3, <3>5
  <2> QED BY <1>1, <2>1, <2>5, <2>6, <2>7 DEF Infos
<1> QED BY <1>3, <1>4

\* A register before that is given the name of this array, or the type that the
\* array takes instead.
LEMMA TheirsLead ==
  ASSUME NEW j, At(j), Leading, Plain, Compared(j), Hit(j) => Looked(j) # {}
  PROVE  /\ Redirected(j).kind = "Implicit" => \A p \in Redirected(j).path :
              \/ \E f \in Registers : f < Turn /\ LeadsTo(p, j, f)
              \/ /\ p.block = "here" /\ Turn \in ArraysLike(j)
                 /\ (p.name = FullName(ercs[Turn]) /\ Mine(j).kind = "Root") \/ (BaseName(p.name) /\ Mixed(Turn))
         /\ Redirected(j).kind = "Explicit" => \A p \in Redirected(j).path : BaseName(p.name)
<1>1. /\ ercs \in Blocks /\ infos \in Seq(Infos) /\ Turn \in Registers /\ Turn \in DOMAIN ercs
      /\ Current = ercs[Turn] /\ IsArray(Current) /\ j \in DOMAIN ercs /\ infos[j] \in Infos /\ Typed(j, infos[j])
      /\ against = {j} /\ j \in DOMAIN infos /\ mine.kind \in {"Root", "Implicit"} /\ Current.from = {}
  BY AtTyped DEF At
<1>2. /\ \A f \in ArraysLike(Turn) : Turn <= f
      /\ Settled(j, infos[j], Turn)
  <2>1. j \in Nat
    BY <1>1, BlockDomain
  <2>2. Reached(j) = Turn
    BY <1>1, <2>1 DEF Reached
  <2> QED BY <1>1, <2>2 DEF Leading
<1>3. Mine(j).kind \in {"Root", "Implicit"}
  BY <1>1 DEF Mine, Info
<1>4. Mine(j).kind = "Implicit" => \A r \in MyRoot(j) : r.block = "here" /\ BaseName(r.name) /\ Mixed(Turn)
  <2> SUFFICES ASSUME Mine(j).kind = "Implicit", NEW r \in MyRoot(j) PROVE r.block = "here" /\ BaseName(r.name) /\ Mixed(Turn)
    OBVIOUS
  <2>1. PICK p \in Mine(j).path : r \in Here(p.name)
    BY DEF MyRoot
  <2>2. BaseName(p.name) /\ Mixed(Turn)
    BY <2>1, MineLeads
  <2>3. r.block = "here" /\ r.name = p.name
    BY <1>1, <2>1, <2>2, BaseFound DEF Plain
  <2> QED BY <2>2, <2>3
<1>5. Dangles(j) => Mine(j).kind = "Implicit"
  BY DEF Dangles
<1>6. Redirected(j).kind = Theirs(j).kind /\ Redirected(j).path = IF Dangles(j) THEN MyRoot(j) ELSE Theirs(j).path
  BY DEF Redirected, Info
<1>7. CASE Theirs(j) # infos[j]
  <2>1. Hit(j) /\ infos[j].kind = "Root" /\ Theirs(j) = Info("Implicit", Looked(j))
    BY <1>7 DEF Theirs
  <2>2. Theirs(j).kind = "Implicit" /\ Theirs(j).path = Here(FullName(Current)) /\ Here(FullName(Current)) # {}
    BY <2>1 DEF Info, Looked
  <2>3. Theirs(j).path = {Path("here", FullName(ercs[Turn]))}
    BY <1>1, <2>2, PartFound DEF Plain
  <2>4. \A p \in Theirs(j).path : p.block = "here" /\ p.name = FullName(ercs[Turn])
    BY <2>3 DEF Path
  <2>5. Turn \in ArraysLike(j)
    BY <1>1, <2>1 DEF Hit, Matches, ArraysLike
  <2>6. Mine(j).kind = "Implicit" => Dangles(j)
    BY <1>1, <2>3, <2>4 DEF Dangles
  <2> QED BY <1>3, <1>4, <1>5, <1>6, <2>2, <2>4, <2>5, <2>6
<1>8. CASE Theirs(j) = infos[j] /\ ~Dangles(j)
  BY <1>2, <1>6, <1>8 DEF Settled
<1>9. CASE Theirs(j) = infos[j] /\ Dangles(j)
  <2>1. ASSUME infos[j].kind = "Implicit", NEW r \in MyRoot(j)
        PROVE  \E f \in Registers : f < Turn /\ LeadsTo(r, j, f)
    <3>1. PICK p \in infos[j].path : p.name = FullName(Current)
      BY <1>9 DEF Dangles
    <3>2. PICK f \in Registers : f < Turn /\ LeadsTo(p, j, f)
      BY <1>2, <2>1, <3>1 DEF Settled
    <3>3. p.name # FullName(ercs[f])
      <4>1. SUFFICES ASSUME FullName(ercs[Turn]) = FullName(ercs[f]) PROVE FALSE
        BY <1>1, <3>1
      <4>2. f \in ArraysLike(Turn)
        BY <3>2, <4>1 DEF LeadsTo, ArraysLike
      <4>3. f \in Nat /\ Turn \in Nat /\ Turn <= f
        BY <1>1, <1>2, <4>2, BlockDomain DEF Registers
      <4> QED BY <3>2, <4>3
    <3>4. Mixed(f) /\ f \in ArraysLike(j)
      BY <3>2, <3>3 DEF LeadsTo
    <3>5. r.block = "here" /\ BaseName(r.name)
      BY <1>4, <1>5, <1>9
    <3>6. LeadsTo(r, j, f)
      BY <3>4, <3>5 DEF LeadsTo
    <3> QED BY <3>2, <3>6
  <2> QED BY <1>4, <1>5, <1>6, <1>9, <2>1
<1> QED BY <1>7, <1>8, <1>9

\* What a comparison that does not fail changes.
LEMMA ComparedOnce ==
  ASSUME NEW j, At(j), Compare(j), ~((Hit(j) /\ Looked(j) = {}) \/ (Dangles(j) /\ MyRoot(j) = {}))
  PROVE  /\ UNCHANGED <<config, ercs, stage>> /\ against' = {j + 1} /\ mine' = Mine(j)
         /\ DOMAIN infos' = DOMAIN infos /\ Turn' = Turn
         /\ \A k \in DOMAIN infos : infos'[k] = IF k = j THEN Redirected(j) ELSE infos[k]
         /\ ~Compared(j) => Redirected(j) = infos[j]
<1>1. infos' = [infos EXCEPT ![j] = Redirected(j)] /\ mine' = Mine(j) /\ against' = {j + 1}
      /\ UNCHANGED <<config, ercs, stage>>
  BY DEF Compare
<1>2. infos \in Seq(Infos) /\ j \in DOMAIN infos
  BY AtTyped DEF At
<1>3. DOMAIN infos' = DOMAIN infos /\ \A k \in DOMAIN infos : infos'[k] = IF k = j THEN Redirected(j) ELSE infos[k]
  BY <1>1, <1>2
<1>4. Len(infos') = Len(infos)
  <2>1. DOMAIN infos = 1 .. Len(infos) /\ Len(infos) \in Nat
    BY <1>2
  <2>2. Redirected(j) \in Infos
    <3>1. CASE Compared(j)
      <4>1. <<j, Redirected(j)>> \in Fitting
        BY <3>1, RedirectedFits
      <4> QED BY <4>1, FittingIs
    <3>2. CASE ~Compared(j)
      BY <3>2, AtTyped DEF Hit, Dangles, Redirected, Theirs
    <3> QED BY <3>1, <3>2
  <2>3. infos' \in Seq(Infos)
    BY <1>1, <1>2, <2>2
  <2> QED BY <1>3, <2>1, <2>3
<1>5. ~Compared(j) => Redirected(j) = infos[j]
  BY DEF Hit, Dangles, Redirected, Theirs
<1> QED BY <1>1, <1>3, <1>4, <1>5 DEF Turn

\* An array that took the type of one after a register is not what that register
\* is part of.
LEMMA NotTaken ==
  ASSUME NEW j, At(j), Leading, Plain, mine.kind = "Root", Mine(j).kind = "Implicit",
         NEW k \in Registers, ercs[k].from = {}, Turn \in ArraysLike(k)
  PROVE  j < k
<1>1. j \in Registers /\ ercs[j].from # {} /\ SameStem(j, Turn)
  BY MineLeads
<1>2. ercs \in Blocks /\ Turn \in DOMAIN ercs /\ k \in DOMAIN ercs
  BY AtTyped DEF Registers
<1>3. SameStem(Turn, k)
  BY <1>2, LikeStem DEF ArraysLike
<1>4. SameStem(k, j)
  BY <1>1, <1>3 DEF SameStem
<1> QED BY <1>1, <1>4 DEF Plain, InOrder

LEMMA CompareLeads ==
  ASSUME ScanInv, Leading, NEW j \in against, Compare(j)
  PROVE  Leading'
<1>1. stage = "scanning" /\ j <= Len(infos)
  BY DEF Compare
<1>2. against = {j} /\ j \in 1 .. Turn
  BY <1>1 DEF ScanInv, Comparing
<1>3. ercs \in Blocks /\ infos \in Seq(Infos) /\ Turn \in DOMAIN ercs
  BY <1>1, <1>2 DEF ScanInv, Comparing
<1>4. At(j)
  BY <1>1, <1>2, <1>3, TurnTyped DEF At
<1>5. CASE (Hit(j) /\ Looked(j) = {}) \/ (Dangles(j) /\ MyRoot(j) = {})
  BY <1>5, LeadingUnchanged DEF Compare, Fail
<1>6. CASE ~((Hit(j) /\ Looked(j) = {}) \/ (Dangles(j) /\ MyRoot(j) = {}))
  <2>1. /\ UNCHANGED <<config, ercs, stage>> /\ against' = {j + 1} /\ mine' = Mine(j)
        /\ DOMAIN infos' = DOMAIN infos /\ Turn' = Turn
        /\ \A k \in DOMAIN infos : infos'[k] = IF k = j THEN Redirected(j) ELSE infos[k]
        /\ ~Compared(j) => Redirected(j) = infos[j]
    BY <1>4, <1>6, ComparedOnce
  <2>2. /\ DOMAIN infos = 1 .. Len(infos) /\ Turn = Len(infos) + 1 /\ Turn \notin DOMAIN infos /\ j \in Nat /\ Turn \in Nat
        /\ j \in DOMAIN infos
    BY <1>1, <1>2, <1>3, TurnTyped
  <2>3. \A k \in DOMAIN infos : Reached(k) = (IF k < j THEN Turn + 1 ELSE Turn)
                             /\ Reached(k)' = (IF k < j + 1 THEN Turn + 1 ELSE Turn)
    BY <1>2, <2>1 DEF Reached
  <2>4. \A f \in Registers : f < Turn /\ IsArray(ercs[f]) => InfoOf(f)' = InfoOf(f)
    <3> SUFFICES ASSUME NEW f \in Registers, f < Turn, IsArray(ercs[f]) PROVE InfoOf(f)' = InfoOf(f)
      OBVIOUS
    <3>1. f \in DOMAIN infos
      <4>1. f \in Nat /\ f >= 1
        BY <1>3, BlockDomain DEF Registers
      <4> QED BY <2>2, <4>1
    <3>2. f = j => ~Compared(j)
      BY DEF Compared
    <3>3. infos'[f] = infos[f]
      BY <2>1, <3>1, <3>2
    <3> QED BY <2>1, <3>1, <3>3 DEF InfoOf
  <2>5. InfoOf(Turn) = mine /\ InfoOf(Turn)' = Mine(j)
    BY <2>1, <2>2 DEF InfoOf
  <2>6. ASSUME NEW p, NEW k, NEW f \in Registers, f < Turn, LeadsTo(p, k, f) PROVE LeadsTo(p, k, f)'
    <3>1. IsArray(ercs[f])
      BY <2>6 DEF LeadsTo, ArraysLike
    <3> QED BY <2>1, <2>4, <2>6, <3>1, LeadsStay
  <2>7. ASSUME Plain, NEW k \in DOMAIN infos, k # j, infos[k].kind = "Implicit", NEW p \in infos[k].path
        PROVE  \E f \in Registers : f < (IF k < j + 1 THEN Turn + 1 ELSE Turn) /\ LeadsTo(p, k, f)'
    <3>1. k \in Nat /\ Turn \in Nat
      BY <2>2
    <3>2. PICK f \in Registers : f < (IF k < j THEN Turn + 1 ELSE Turn) /\ LeadsTo(p, k, f)
      BY <2>3, <2>7 DEF Leading, Settled
    <3>3. f \in Nat
      BY <1>3, BlockDomain DEF Registers
    <3>4. CASE f < Turn
      BY <2>6, <3>1, <3>2, <3>3, <3>4
    <3>5. CASE f = Turn
      <4>1. k < j
        BY <3>1, <3>2, <3>5
      <4>2. k \in Registers /\ ercs[k].from = {}
        <5>1. <<k, infos[k]>> \in Fitting
          BY DEF ScanInv
        <5>2. Typed(k, infos[k]) /\ k \in DOMAIN ercs
          BY <5>1, FittingIs DEF Holds
        <5>3. ercs[k].kind \in {"register", "cluster"}
          BY <1>3, <5>2, ErcTyped
        <5> QED BY <2>7, <5>2, <5>3 DEF Typed, Registers
      <4>3. Turn \in ArraysLike(k)
        BY <3>2, <3>5 DEF LeadsTo
      <4>4. ~(mine.kind = "Root" /\ Mine(j).kind = "Implicit")
        BY <1>4, <2>2, <2>7, <3>1, <4>1, <4>2, <4>3, NotTaken
      <4>5. mine.kind \in {"Root", "Implicit"} /\ Mine(j).kind \in {"Root", "Implicit"}
        BY <1>4, AtTyped DEF Mine, Info
      <4>6. Mine(j).kind = mine.kind
        BY <4>4, <4>5 DEF Mine, IsRoot, Info
      <4>7. LeadsTo(p, k, Turn) /\ InfoOf(Turn)'.kind = InfoOf(Turn).kind
        BY <2>5, <3>2, <3>5, <4>6
      <4>8. LeadsTo(p, k, f) /\ InfoOf(f)'.kind = InfoOf(f).kind
        BY <2>1, <3>5, <4>7
      <4>9. LeadsTo(p, k, f)'
        BY <2>1, <4>8, LeadsStay
      <4> QED BY <3>1, <3>5, <4>1, <4>9, <2>2
    <3> QED BY <3>1, <3>2, <3>3, <3>4, <3>5
  <2>8. ASSUME Plain
        PROVE  /\ Redirected(j).kind = "Implicit" => \A p \in Redirected(j).path :
                    \E f \in Registers : f < Turn + 1 /\ LeadsTo(p, j, f)'
               /\ Redirected(j).kind = "Explicit" => \A p \in Redirected(j).path : BaseName(p.name)
    <3>1. \A f \in Registers : f < Turn => f < Turn + 1
      BY <1>3, <2>2, BlockDomain DEF Registers
    <3>2. CASE Compared(j)
      <4>1. ASSUME NEW p, p.block = "here", Turn \in ArraysLike(j),
                   (p.name = FullName(ercs[Turn]) /\ Mine(j).kind = "Root") \/ (BaseName(p.name) /\ Mixed(Turn))
            PROVE  \E f \in Registers : f < Turn + 1 /\ LeadsTo(p, j, f)'
        <5>1. PICK f \in Registers : f = Turn
          BY <1>4, AtTyped
        <5>2. InfoOf(f)' = Mine(j)
          BY <2>1, <2>2, <5>1 DEF InfoOf
        <5>3. f \in ArraysLike(j)' /\ BaseName(p.name)' = BaseName(p.name) /\ Mixed(f)' = Mixed(f)
              /\ FullName(ercs[f])' = FullName(ercs[f])
          BY <2>1, <4>1, <5>1, LeadingStays DEF FullName
        <5>4. (p.name = FullName(ercs[f]) /\ Mine(j).kind = "Root") \/ (BaseName(p.name) /\ Mixed(f))
          BY <4>1, <5>1
        <5>5. LeadsTo(p, j, f)'
          BY <4>1, <5>2, <5>3, <5>4 DEF LeadsTo
        <5> QED BY <2>2, <5>1, <5>5
      <4>2. Hit(j) => Looked(j) # {}
        BY <1>6
      <4> QED BY <1>4, <2>6, <2>8, <3>1, <3>2, <4>1, <4>2, TheirsLead
    <3>3. CASE ~Compared(j)
      <4>1. Redirected(j) = infos[j] /\ Settled(j, infos[j], Turn)
        BY <2>1, <2>2, <2>3, <2>8, <3>3 DEF Leading
      <4> QED BY <2>6, <3>1, <4>1 DEF Settled
    <3> QED BY <3>2, <3>3
  <2>9. ASSUME Plain, NEW k \in DOMAIN infos
        PROVE  /\ infos'[k].kind = "Implicit" => \A p \in infos'[k].path :
                    \E f \in Registers : f < (IF k < j + 1 THEN Turn + 1 ELSE Turn) /\ LeadsTo(p, k, f)'
               /\ infos'[k].kind = "Explicit" => \A p \in infos'[k].path : BaseName(p.name)
    <3>1. CASE k = j
      <4>1. j < j + 1
        BY <2>2
      <4> QED BY <2>1, <2>8, <2>9, <3>1, <4>1
    <3>2. CASE k # j
      BY <2>1, <2>7, <2>9, <3>2 DEF Leading, Settled
    <3> QED BY <3>1, <3>2
  <2>10. Plain' = Plain /\ Registers' = Registers /\ (\A n : BaseName(n)' = BaseName(n))
         /\ (\A k : Mixed(k)' = Mixed(k) /\ ArraysLike(k)' = ArraysLike(k))
    BY <2>1, LeadingStays, PremisesStay
  <2>11. \A k \in DOMAIN infos' : Reached(k)' = (IF k < j + 1 THEN Turn + 1 ELSE Turn)
    BY <2>1, <2>3
  <2>12. ASSUME Plain
         PROVE  /\ \A f \in ArraysLike(Turn) : Turn <= f
                /\ Mine(j).kind = "Implicit" => \A p \in Mine(j).path : p.block = "here" /\ BaseName(p.name) /\ Mixed(Turn)
    BY <1>2, <1>4, <2>12, MineLeads DEF Leading
  <2>13. \A f : ArraysLike(Turn)' = ArraysLike(Turn) /\ Mixed(Turn)' = Mixed(Turn)
    BY <2>1, <2>10
  <2> QED BY <2>1, <2>9, <2>10, <2>11, <2>12, <2>13 DEF Leading, Settled
<1> QED BY <1>5, <1>6

LEMMA EndCompareLeads ==
  ASSUME ScanInv, Leading, EndCompare
  PROVE  Leading'
<1>1. stage = "scanning" /\ against # {} /\ Turn \in against /\ infos' = Append(infos, mine) /\ against' = {}
      /\ UNCHANGED <<config, ercs, mine, stage>>
  BY DEF EndCompare
<1>2. /\ ercs \in Blocks /\ infos \in Seq(Infos) /\ Turn \in DOMAIN ercs /\ against = {Turn} /\ mine \in Infos
      /\ Current.kind = "register" /\ IsArray(Current) /\ Current.from = {} /\ mine.kind \in {"Root", "Implicit"}
  BY <1>1, FittingIs DEF ScanInv, Comparing
<1>3. Turn \in Nat /\ Turn = Len(infos) + 1 /\ DOMAIN infos = 1 .. Len(infos)
  BY <1>2, TurnTyped
<1>4. Len(infos') = Turn /\ DOMAIN infos' = 1 .. Turn /\ \A k \in DOMAIN infos' : infos'[k] = IF k = Turn THEN mine ELSE infos[k]
  BY <1>1, <1>2, <1>3
<1>5. Turn' = Turn + 1 /\ \A k : Reached(k)' = Turn + 1
  BY <1>1, <1>4 DEF Turn, Reached
<1>6. \A f \in Registers : f < Turn + 1 => InfoOf(f)' = InfoOf(f)
  <2> SUFFICES ASSUME NEW f \in Registers, f < Turn + 1 PROVE InfoOf(f)' = InfoOf(f)
    OBVIOUS
  <2>1. f \in Nat /\ f >= 1
    BY <1>2, BlockDomain DEF Registers
  <2>2. f \in DOMAIN infos' /\ (f # Turn => f \in DOMAIN infos) /\ (f = Turn => f \notin DOMAIN infos)
    BY <1>3, <1>4, <2>1
  <2> QED BY <1>4, <2>2 DEF InfoOf
<1>7. ASSUME Plain, NEW k \in DOMAIN infos'
      PROVE  /\ infos'[k].kind = "Implicit" =>
                  \A p \in infos'[k].path : \E f \in Registers : f < Turn + 1 /\ LeadsTo(p, k, f)'
             /\ infos'[k].kind = "Explicit" => \A p \in infos'[k].path : BaseName(p.name)
  <2>1. ASSUME NEW p, NEW f \in Registers, f < Turn + 1, LeadsTo(p, k, f) PROVE LeadsTo(p, k, f)'
    BY <1>1, <1>6, <2>1, LeadsStay
  <2>2. CASE k # Turn
    <3>1. k \in DOMAIN infos /\ infos'[k] = infos[k] /\ Reached(k) = Turn + 1
      BY <1>2, <1>3, <1>4, <1>7, <2>2 DEF Reached
    <3>2. Settled(k, infos[k], Turn + 1)
      BY <1>7, <3>1 DEF Leading
    <3> QED BY <2>1, <3>1, <3>2 DEF Settled
  <2>3. CASE k = Turn
    <3>1. infos'[k] = mine /\ k \in Registers /\ ercs[k] = Current /\ k < Turn + 1
      BY <1>2, <1>3, <1>4, <2>3 DEF Current, Registers
    <3>2. k \in ArraysLike(k)
      BY <1>2, <3>1 DEF ArraysLike
    <3>3. ASSUME mine.kind = "Implicit", NEW p \in mine.path PROVE LeadsTo(p, k, k)
      BY <1>1, <1>7, <2>3, <3>2, <3>3 DEF Leading, LeadsTo
    <3> QED BY <1>2, <2>1, <3>1, <3>3
  <2> QED BY <2>2, <2>3
<1>8. Plain' = Plain /\ Registers' = Registers /\ \A n : BaseName(n)' = BaseName(n)
  BY <1>1, LeadingStays, PremisesStay
<1> QED BY <1>1, <1>5, <1>7, <1>8 DEF Leading, Settled

LEMMA ScanClusterLeads ==
  ASSUME ScanInv, Leading, ScanCluster
  PROVE  Leading'
<1> DEFINE i == Info("Cluster", {})
<1>1. Turn \in DOMAIN ercs /\ stage = "scanning" /\ against = {} /\ Decide(i)
  BY DEF ScanCluster, Scanning
<1>2. i \in Infos /\ Settled(Turn, i, Turn)
  BY DEF Infos, Info, Settled
<1> HIDE DEF i
<1> QED BY <1>1, <1>2, DecidedLeads

LEMMA ScanExplicitLeads ==
  ASSUME ScanInv, Leading, ScanExplicit
  PROVE  Leading'
<1> DEFINE roots == UNION {FindRoot(p) : p \in Current.from}
<1>1. Turn \in Registers /\ Turn \in DOMAIN ercs /\ stage = "scanning" /\ against = {} /\ Current = ercs[Turn]
  BY DEF ScanExplicit, Scanning, Current, Registers
<1>2. CASE roots = {}
  BY <1>2, LeadingUnchanged DEF ScanExplicit, Fail
<1>3. CASE roots # {}
  <2>1. PICK p \in roots : Decide(Explicit(p))
    BY <1>3 DEF ScanExplicit
  <2>2. PICK q \in ercs[Turn].from : p \in FindRoot(q)
    BY <1>1
  <2>3. BaseName(p.name)
    BY <1>1, <2>2 DEF BaseName
  <2> DEFINE i == Explicit(p)
  <2>4. i.kind = "Explicit" /\ i.path = {p}
    BY DEF Explicit, Info
  <2>5. i \in Infos
    <3>1. p \in Paths
      BY <1>1, <2>2, FromEnds DEF ScanInv
    <3> QED BY <3>1 DEF Explicit, Info, Infos
  <2>6. Decide(i)
    BY <2>1
  <2> HIDE DEF i, roots
  <2>7. Settled(Turn, i, Turn)
    BY <2>3, <2>4 DEF Settled
  <2> QED BY <1>1, <2>5, <2>6, <2>7, DecidedLeads
<1> QED BY <1>2, <1>3

\* An array that suits none before it is the first part.
LEMMA FirstPart ==
  ASSUME ScanInv, Plain, Turn \in Registers, Current.from = {}, IsArray(Current), First = {}, ~Fails,
         NEW f \in ArraysLike(Turn)
  PROVE  Turn <= f
<1>1. ercs \in Blocks /\ infos \in Seq(Infos) /\ Turn \in DOMAIN ercs /\ Current = ercs[Turn]
  BY DEF ScanInv, Registers, Current
<1>2. <<Turn, IsRoot>> \in Fitting
  BY <1>1, ArrayFits
<1>3. LaterParts(Turn, IsRoot) /\ ercs[Turn].kind = "register"
  BY <1>2, FittingIs DEF Holds, Plain, Registers
<1>4. f \in Registers /\ IsArray(ercs[f]) /\ f \in Nat /\ f >= 1 /\ Turn \in Nat
  BY <1>1, BlockDomain DEF ArraysLike, Registers
<1>5. FullName(ercs[f]) = FullName(ercs[Turn])
  BY <1>1, <1>4, OneArray DEF ArraysLike, Plain
<1>6. PartOf(f, Turn)
  BY <1>4, <1>5 DEF PartOf
<1>7. f \notin 1 .. Turn - 1
  BY <1>1, <1>3, <1>6 DEF LaterParts, IsRoot, Info
<1> QED BY <1>4, <1>7

LEMMA ScanAgainstPrevLeads ==
  ASSUME ScanInv, Leading, ScanAgainstPrev
  PROVE  Leading'
<1>1. /\ Turn \in Registers /\ Turn \in DOMAIN ercs /\ stage = "scanning" /\ against = {} /\ Current.from = {}
      /\ Current = ercs[Turn] /\ Current.kind = "register" /\ ercs \in Blocks /\ infos \in Seq(Infos)
  BY DEF ScanAgainstPrev, Scanning, Current, Registers, ScanInv
<1>2. Turn \in Nat /\ DOMAIN infos = 1 .. Len(infos) /\ Turn = Len(infos) + 1
  BY <1>1, TurnTyped
<1>3. CASE Fails
  BY <1>3, LeadingUnchanged DEF ScanAgainstPrev, Fail
<1>4. ASSUME Decide(IsRoot) PROVE Leading'
  <2> DEFINE i == IsRoot
  <2>1. i \in Infos /\ i.kind = "Root" /\ Decide(i)
    BY <1>4, InfosAre
  <2> HIDE DEF i
  <2>2. Settled(Turn, i, Turn)
    BY <2>1 DEF Settled
  <2> QED BY <1>1, <2>1, <2>2, DecidedLeads
<1>5. ASSUME NEW j \in First, NEW p \in Here(FullName(ercs[j])), Decide(OfPrev(p)) PROVE Leading'
  <2>1. CASE OfPrev(p) = IsRoot
    BY <1>4, <1>5, <2>1
  <2>2. CASE OfPrev(p) # IsRoot
    <3> DEFINE i == Implicit(p)
    <3>1. Decide(i)
      BY <1>5, <2>2 DEF OfPrev
    <3>2. i.kind = "Implicit" /\ i.path = {p}
      BY DEF Implicit, Info
    <3>3. i \in Infos
      <4>1. j \in DOMAIN ercs
        BY <1>1, TurnTyped DEF First
      <4>2. p \in Paths
        BY <1>1, <4>1, ErcTyped, HereTyped
      <4> QED BY <4>2 DEF Implicit, Info, Infos
    <3> HIDE DEF i
    <3>4. Plain => Settled(Turn, i, Turn)
      BY <1>1, <1>5, <3>2, PrevLeads DEF Settled
    <3> QED BY <1>1, <3>1, <3>3, <3>4, DecidedLeads
  <2> QED BY <2>1, <2>2
<1>6. ASSUME ~Fails, First = {}, IsArray(Current), against' = {1}, mine' = IsRoot,
             UNCHANGED <<config, ercs, infos, stage>>
      PROVE  Leading'
  <2>1. Turn' = Turn /\ \A k \in DOMAIN infos : Reached(k) = Turn /\ Reached(k)' = Turn
    BY <1>1, <1>2, <1>6 DEF Turn, Reached
  <2>2. Plain' = Plain /\ Registers' = Registers /\ (\A n : BaseName(n)' = BaseName(n))
        /\ (\A k : Mixed(k)' = Mixed(k) /\ ArraysLike(k)' = ArraysLike(k))
    BY <1>6, LeadingStays, PremisesStay
  <2>3. mine'.kind = "Root"
    BY <1>6, InfosAre
  <2>4. ASSUME NEW p, NEW k, NEW f \in Registers, f < Turn, LeadsTo(p, k, f) PROVE LeadsTo(p, k, f)'
    <3>1. f \in DOMAIN infos
      <4>1. f \in Nat /\ f >= 1
        BY <1>1, BlockDomain DEF Registers
      <4> QED BY <1>2, <2>4, <4>1
    <3>2. InfoOf(f)' = InfoOf(f)
      BY <1>6, <3>1 DEF InfoOf
    <3> QED BY <1>6, <2>4, <3>2, LeadsStay
  <2>5. Plain => \A f \in ArraysLike(Turn) : Turn <= f
    BY <1>1, <1>6, FirstPart
  <2>6. ASSUME Plain, NEW k \in DOMAIN infos
        PROVE  /\ infos[k].kind = "Implicit" => \A p \in infos[k].path :
                    \E f \in Registers : f < Turn /\ LeadsTo(p, k, f)'
               /\ infos[k].kind = "Explicit" => \A p \in infos[k].path : BaseName(p.name)
    BY <2>1, <2>4, <2>6 DEF Leading, Settled
  <2>7. ArraysLike(Turn)' = ArraysLike(Turn)
    BY <2>1, <2>2
  <2> QED BY <1>6, <2>1, <2>2, <2>3, <2>5, <2>6, <2>7 DEF Leading, Settled
<1>7. CASE ~Fails
  <2>1. \/ \E j \in First : \E p \in Here(FullName(ercs[j])) : Decide(OfPrev(p))
        \/ Decide(IsRoot)
        \/ /\ First = {} /\ IsArray(Current) /\ against' = {1} /\ mine' = IsRoot
           /\ UNCHANGED <<config, ercs, infos, stage>>
    BY <1>7 DEF ScanAgainstPrev
  <2> QED BY <2>1, <1>4, <1>5, <1>6, <1>7
<1> QED BY <1>3, <1>7

LEMMA LeadingStep ==
  ASSUME BlockInv, Leading, [ItemsNext]_itemVars
  PROVE  Leading'
<1>1. CASE ScanNext
  <2>1. ScanInv
    BY <1>1 DEF BlockInv
  <2> QED BY <1>1, <2>1, ScanClusterLeads, ScanExplicitLeads, ScanAgainstPrevLeads, CompareLeads, EndCompareLeads
      DEF ScanNext
<1>2. CASE UNCHANGED <<config, ercs, infos, mine, against>>
  BY <1>2, LeadingUnchanged
<1>3. ScanNext \/ UNCHANGED <<config, ercs, infos, mine, against>>
  BY DEF ItemsNext, itemVars, scanVars, StartRendering, StartExpanding, FinishExpanding, RenderErc, FailErc, ExpandMember, FailExpand, ItemsEnded
<1> QED BY <1>1, <1>2, <1>3

\* In the blocks of Plain, which NamedApart, IndexApart, InOrder and BasesPlain
\* describe, a register is at each step of the scan derived from an array that has
\* a type of its own, or from a base that the SVD file names, though the infos
\* before an array are rewritten while it is compared, and its own at the same
\* time.  In another order of the registers it need not be.
THEOREM LeadsCorrect == ItemsSpec => []Leading
<1>1. ItemsInit => Leading
  <2>1. ItemsInit => infos = <<>> /\ against = {}
    BY DEF ItemsInit, ScanInit
  <2> QED BY <2>1 DEF Leading
<1>2. BlockInv /\ Leading /\ [ItemsNext]_itemVars => Leading'
  BY LeadingStep
<1> QED BY <1>1, <1>2, BlockCorrect, PTL DEF ItemsSpec

----------------------------------------------------------------------------
(* Where the items lead *)

LEMMA DoneLeads ==
  ASSUME BlockInv, Leading, stage = "done", Plain, NEW k \in Registers, infos[k].kind = "Implicit", NEW p \in infos[k].path
  PROVE  \E f \in Registers : /\ p.block = "here" /\ f \in ArraysLike(k)
                              /\ \/ p.name = FullName(ercs[f]) /\ infos[f].kind = "Root"
                                 \/ BaseName(p.name) /\ Mixed(f)
<1>1. k \in DOMAIN infos /\ against = {} /\ \A f \in Registers : f \in DOMAIN infos
  BY DoneInfos DEF BlockInv, Registers
<1>2. PICK f \in Registers : LeadsTo(p, k, f)
  BY <1>1 DEF Leading, Settled
<1>3. InfoOf(f) = infos[f]
  BY <1>1 DEF InfoOf
<1> QED BY <1>2, <1>3 DEF LeadsTo

\* A register or cluster that is derived from nothing keeps its name.
LEMMA AloneItem ==
  ASSUME NEW k \in DOMAIN ercs, ercs[k].from = {}, infos[k].kind # "Implicit"
  PROVE  Item(k).target = {} /\ Item(k).name = RemoveDim(FullName(ercs[k])) /\ Item(k).kind = ercs[k].kind
<1>1. Target(k) = {}
  BY DEF Target, Derive
<1> QED BY <1>1 DEF Item, RenderedAs

\* What is derived from an array by its name, has the name of its item.
LEMMA ArrayNameAt ==
  ASSUME ercs \in Blocks, NamedApart, IndexApart, NEW f \in Registers, IsArray(ercs[f]),
         NEW p \in Paths, IsEnd(p), p.block = "here", p.name = FullName(ercs[f])
  PROVE  NameAt("register", p) = RemoveDim(FullName(ercs[f]))
<1>1. PICK m \in Registers : Entries("register", p) = {ercs[m]} /\ p.name \in NamesOf(ercs[m])
  BY EndHere
<1>2. f \in DOMAIN ercs /\ m \in DOMAIN ercs
  BY DEF Registers
<1>3. p.name = OwnName(ercs[f]) /\ p.name \in NamesOf(ercs[f]) /\ p.name \in Names
  <2>1. p.name.group = "" /\ p.name \in Names
    BY <1>1, <1>2, NamesOfTyped
  <2> QED BY <1>2, <2>1, FullIsOwn DEF NamesOf
<1>4. FullName(ercs[m]).group = FullName(ercs[f]).group
  <2>1. CASE m = f
    BY <2>1
  <2>2. CASE m # f
    <3> DEFINE M == FullName(ercs[m])
               F == FullName(ercs[f])
    <3>1. RemoveDim(M) = RemoveDim(F)
      BY <1>1, <1>3, <2>2 DEF IndexApart
    <3>2. M \in Names /\ F \in Names
      BY <1>2, ErcTyped
    <3> HIDE DEF M, F
    <3>3. \A n \in Names : RemoveDim(n).group = n.group
      BY DEF RemoveDim, ExpandDim, Names
    <3> QED BY <3>1, <3>2, <3>3 DEF M, F
  <2> QED BY <2>1, <2>2
<1>5. NameAt("register", p) = RemoveDim([p.name EXCEPT !.group = FullName(ercs[m]).group])
  BY <1>1 DEF NameAt
<1>6. [p.name EXCEPT !.group = FullName(ercs[m]).group] = p.name
  BY <1>3, <1>4 DEF Names
<1> QED BY <1>5, <1>6

\* The items that lead to those of a set.
Onto(S) == {i \in items : \A t \in HereTargets(i) : \E j \in S : TargetOf(i, t, j)}

\* A register that is derived from by name has an item, whose type is its own or
\* that of an array.
LEMMA BaseLeads ==
  ASSUME BlockInv, Leading, stage = "done", Plain, NEW p \in Paths, IsEnd(p), p.block = "here", BaseName(p.name)
  PROVE  \E j \in Onto(Onto({})) : j.kind = "register" /\ j.name = NameAt("register", p)
<1>1. ercs \in Blocks
  BY DEF BlockInv, ScanInv
<1>2. PICK m \in Registers : Entries("register", p) = {ercs[m]} /\ ercs[m].from = {} /\ p.name \in NamesOf(ercs[m])
  BY <1>1, EndHere
<1>3. m \in DOMAIN ercs /\ ercs[m].kind = "register"
  BY DEF Registers
<1>4. p.name = OwnName(ercs[m]) /\ ~Mixed(m)
  BY <1>1, <1>2, BaseIsPlain DEF Plain
<1>5. NameAt("register", p) = RemoveDim(FullName(ercs[m]))
  <2>1. NameAt("register", p) = RemoveDim([p.name EXCEPT !.group = FullName(ercs[m]).group])
    BY <1>2 DEF NameAt
  <2>2. [p.name EXCEPT !.group = FullName(ercs[m]).group] = FullName(ercs[m])
    BY <1>1, <1>3, <1>4, ErcTyped DEF FullName, OwnName, Names
  <2> QED BY <2>1, <2>2
<1>6. ASSUME NEW f \in Registers, ercs[f].from = {}, infos[f].kind = "Root"
      PROVE  /\ Item(f) \in items /\ Item(f) \in Onto({}) /\ Item(f) \in Onto(Onto({}))
             /\ Item(f).kind = "register" /\ Item(f).name = RemoveDim(FullName(ercs[f]))
  <2>1. f \in DOMAIN ercs /\ ercs[f].kind = "register"
    BY DEF Registers
  <2>2. Item(f).target = {} /\ Item(f).name = RemoveDim(FullName(ercs[f])) /\ Item(f).kind = "register"
    BY <1>6, <2>1, AloneItem
  <2>3. Item(f) \in items /\ HereTargets(Item(f)) = {}
    BY <2>1, <2>2, DoneItems DEF HereTargets
  <2> QED BY <2>2, <2>3 DEF Onto
<1>7. CASE infos[m].kind = "Root"
  BY <1>2, <1>5, <1>6, <1>7
<1>8. CASE infos[m].kind = "Implicit"
  <2>1. infos[m].path # {} /\ \A r, s \in infos[m].path : r = s
    BY <1>3, <1>8, DoneInfos DEF Holds, Typed
  <2>2. PICK r \in infos[m].path : infos[m].path = {r}
    BY <2>1
  <2>3. PICK f \in Registers : /\ r.block = "here" /\ f \in ArraysLike(m)
                               /\ \/ r.name = FullName(ercs[f]) /\ infos[f].kind = "Root"
                                  \/ BaseName(r.name) /\ Mixed(f)
    BY <1>8, <2>2, DoneLeads
  <2>4. f \in DOMAIN ercs /\ IsArray(ercs[f]) /\ ercs[f].from = {}
    BY <2>3 DEF ArraysLike, Registers
  <2>5. r.name = FullName(ercs[f]) /\ infos[f].kind = "Root"
    <3>1. SameStem(f, m)
      BY <1>1, <1>3, <2>3, <2>4, LikeStem DEF ArraysLike
    <3>2. ~Mixed(f)
      BY <1>4, <3>1 DEF Mixed, SameStem
    <3> QED BY <2>3, <3>2
  <2>6. CASE IsArray(ercs[m])
    <3>1. FullName(ercs[f]) = FullName(ercs[m])
      BY <1>1, <2>3, <2>4, <2>6, OneArray DEF ArraysLike, Plain
    <3> QED BY <1>5, <1>6, <2>4, <2>5, <3>1
  <2>7. CASE ~IsArray(ercs[m])
    <3>1. Target(m) = {r}
      BY <1>8, <2>2 DEF Target
    <3>2. r \in Paths /\ IsEnd(r)
      BY <3>1, TargetEnds
    <3>3. NameAt("register", r) = RemoveDim(FullName(ercs[f]))
      BY <1>1, <2>3, <2>4, <2>5, <3>2, ArrayNameAt DEF Plain
    <3>4. Item(m).kind = "register" /\ Item(m).name = RemoveDim(FullName(ercs[m])) /\ Item(m) \in items
          /\ Item(m).target = {[block |-> r.block, name |-> NameAt("register", r)]}
      BY <1>3, <2>7, <3>1, DoneItems DEF Item, RenderedAs
    <3>5. Item(f) \in Onto({}) /\ Item(f).kind = "register" /\ Item(f).name = RemoveDim(FullName(ercs[f]))
      BY <1>6, <2>4, <2>5
    <3>6. \A t \in HereTargets(Item(m)) : TargetOf(Item(m), t, Item(f))
      BY <3>3, <3>4, <3>5 DEF HereTargets, TargetOf
    <3>7. Item(m) \in Onto(Onto({}))
      BY <3>4, <3>5, <3>6 DEF Onto
    <3> QED BY <1>5, <3>4, <3>7
  <2> QED BY <2>6, <2>7
<1>9. infos[m].kind \in {"Root", "Implicit"}
  BY <1>2, <1>3, DoneInfos DEF Holds, Typed, Infos
<1> QED BY <1>7, <1>8, <1>9

LEMMA OntoGrows ==
  ASSUME NEW S, NEW T, S \subseteq T
  PROVE  Onto(S) \subseteq Onto(T) /\ Onto(S) \subseteq items
BY DEF Onto

LEMMA RegisterLeads ==
  ASSUME BlockInv, Leading, stage = "done", Plain, NEW k \in Registers, NEW p \in Target(k), p.block = "here"
  PROVE  \E j \in Onto(Onto({})) : j.kind = "register" /\ j.name = NameAt("register", p)
<1>1. ercs \in Blocks /\ k \in DOMAIN ercs /\ ercs[k].kind = "register" /\ p \in Paths /\ IsEnd(p)
  BY TargetEnds DEF BlockInv, ScanInv, Registers
<1>2. CASE BaseName(p.name)
  BY <1>1, <1>2, BaseLeads
<1>3. CASE infos[k].kind = "Implicit" /\ ~BaseName(p.name)
  <2>1. p \in infos[k].path
    BY <1>3 DEF Target
  <2>2. PICK f \in Registers : f \in ArraysLike(k) /\ p.name = FullName(ercs[f]) /\ infos[f].kind = "Root"
    BY <1>3, <2>1, DoneLeads
  <2>3. f \in DOMAIN ercs /\ IsArray(ercs[f]) /\ ercs[f].from = {} /\ ercs[f].kind = "register"
    BY <2>2 DEF ArraysLike, Registers
  <2>4. NameAt("register", p) = RemoveDim(FullName(ercs[f]))
    BY <1>1, <2>2, <2>3, ArrayNameAt DEF Plain
  <2>5. Item(f).target = {} /\ Item(f).name = RemoveDim(FullName(ercs[f])) /\ Item(f).kind = "register"
    BY <2>2, <2>3, AloneItem
  <2>6. Item(f) \in Onto(Onto({}))
    BY <2>3, <2>5, DoneItems DEF Onto, HereTargets
  <2> QED BY <2>4, <2>5, <2>6
<1>4. CASE infos[k].kind # "Implicit"
  <2>1. p \in UNION {FindRoot(q) : q \in ercs[k].from}
    BY <1>1, <1>4 DEF Target, Derive, FindRoot
  <2>2. BaseName(p.name)
    BY <2>1 DEF BaseName
  <2> QED BY <1>1, <2>2, BaseLeads
<1> QED BY <1>2, <1>3, <1>4

LEMMA ClusterLeads ==
  ASSUME BlockInv, stage = "done", Plain, NEW k \in DOMAIN ercs, ercs[k].kind = "cluster",
         NEW p \in Target(k), p.block = "here"
  PROVE  \E j \in Onto({}) : j.kind = "cluster" /\ j.name = NameAt("cluster", p)
<1>1. ercs \in Blocks /\ infos[k].kind = "Cluster"
  BY DoneInfos DEF BlockInv, ScanInv, Holds, Typed
<1>2. PICK q \in ercs[k].from : p \in Root("cluster", q)
  BY <1>1 DEF Target, Derive
<1>3. PICK e \in EntriesIn(ercs, "cluster", p) : e.from = {}
  BY <1>2 DEF Root, RootIn
<1>4. PICK m \in DOMAIN ercs : e = ercs[m] /\ ercs[m].kind = "cluster" /\ p.name \in NamesOf(ercs[m])
  BY <1>3, EntryHere
<1>5. Entries("cluster", p) = {ercs[m]}
  BY <1>1, <1>3, <1>4, EntriesOne DEF Entries
<1>6. p.name = OwnName(ercs[m])
  BY <1>2, <1>4 DEF Plain, BasesPlain
<1>7. NameAt("cluster", p) = RemoveDim(FullName(ercs[m]))
  <2>1. NameAt("cluster", p) = RemoveDim([p.name EXCEPT !.group = FullName(ercs[m]).group])
    BY <1>5 DEF NameAt
  <2>2. [p.name EXCEPT !.group = FullName(ercs[m]).group] = FullName(ercs[m])
    BY <1>1, <1>4, <1>6, ErcTyped DEF FullName, OwnName, Names
  <2> QED BY <2>1, <2>2
<1>8. infos[m].kind = "Cluster"
  BY <1>4, DoneInfos DEF Holds, Typed
<1>9. Item(m).target = {} /\ Item(m).name = RemoveDim(FullName(ercs[m])) /\ Item(m).kind = "cluster"
  BY <1>3, <1>4, <1>8, AloneItem
<1>10. Item(m) \in Onto({})
  BY <1>4, <1>9, DoneItems DEF Onto, HereTargets
<1> QED BY <1>7, <1>9, <1>10

\* In three steps every item is at the end.
LEMMA ItemsLead ==
  ASSUME BlockInv, Leading, stage = "done", Plain
  PROVE  Onto(Onto(Onto({}))) = items
<1>1. ASSUME NEW i \in items, NEW t \in HereTargets(i) PROVE \E j \in Onto(Onto({})) : TargetOf(i, t, j)
  <2>1. PICK k \in DOMAIN ercs : i = Item(k)
    BY DoneItems
  <2>2. /\ i.kind = ercs[k].kind /\ t.block = "here"
        /\ t \in {[block |-> p.block, name |-> NameAt(ercs[k].kind, p)] : p \in Target(k)}
    BY <1>1, <2>1 DEF HereTargets, Item
  <2>3. PICK p \in Target(k) : t = [block |-> p.block, name |-> NameAt(ercs[k].kind, p)]
    BY <2>2
  <2>4. p.block = "here" /\ t.name = NameAt(ercs[k].kind, p)
    BY <2>2, <2>3
  <2>5. CASE ercs[k].kind = "register"
    <3>1. k \in Registers
      BY <2>5 DEF Registers
    <3> QED BY <2>2, <2>4, <2>5, <3>1, RegisterLeads DEF TargetOf
  <2>6. CASE ercs[k].kind = "cluster"
    <3>1. PICK j \in Onto({}) : j.kind = "cluster" /\ j.name = NameAt("cluster", p)
      BY <2>4, <2>6, ClusterLeads
    <3>2. j \in Onto(Onto({}))
      BY <3>1, OntoGrows
    <3> QED BY <2>2, <2>4, <2>6, <3>1, <3>2 DEF TargetOf
  <2>7. ercs[k].kind \in {"register", "cluster"}
    BY ErcTyped, DoneItems
  <2> QED BY <2>5, <2>6, <2>7
<1> QED BY <1>1 DEF Onto

\* A step further needs one item more.
LEMMA StepsNeedItems ==
  ASSUME Onto(Onto(Onto({}))) = items
  PROVE  /\ Onto({}) # items => \E i, j \in items : i # j
         /\ Onto(Onto({})) # items => \E i, j, l \in items : i # j /\ i # l /\ j # l
<1> DEFINE A == Onto({})
           B == Onto(A)
<1>1. A \subseteq items /\ B \subseteq items /\ A \subseteq B
  BY OntoGrows
<1>2. ASSUME NEW j \in B, j \notin A PROVE \E l \in A : l # j
  <2>1. PICK t \in HereTargets(j) : TRUE
    BY <1>1, <1>2 DEF Onto
  <2>2. PICK l \in A : TRUE
    <3> HIDE DEF A
    <3> QED BY <1>2, <2>1 DEF Onto
  <2> QED BY <1>2, <2>2
<1>3. ASSUME NEW i \in items, i \notin B PROVE \E j \in B : j \notin A
  <2>1. PICK t \in HereTargets(i) : \A j \in A : ~TargetOf(i, t, j)
    BY <1>3 DEF Onto
  <2>2. i \in Onto(B)
    OBVIOUS
  <2>3. PICK j \in B : TargetOf(i, t, j)
    <3> HIDE DEF B
    <3> QED BY <2>1, <2>2 DEF Onto
  <2> QED BY <2>1, <2>3
<1> HIDE DEF A, B
<1>4. ASSUME A # items PROVE \E i, j \in items : i # j
  <2>1. PICK i \in items : i \notin A
    BY <1>1, <1>4
  <2>2. CASE i \in B
    BY <1>1, <1>2, <2>1, <2>2
  <2>3. CASE i \notin B
    BY <1>1, <1>3, <2>3
  <2> QED BY <2>2, <2>3
<1>5. ASSUME B # items PROVE \E i, j, l \in items : i # j /\ i # l /\ j # l
  <2>1. PICK i \in items : i \notin B
    BY <1>1, <1>5
  <2>2. PICK j \in B : j \notin A
    BY <1>3, <2>1
  <2>3. PICK l \in A : l # j
    BY <1>2, <2>2
  <2> QED BY <1>1, <2>1, <2>2, <2>3
<1> QED BY <1>4, <1>5 DEF A, B

OntoIs(f) == f = [n \in 0 .. Len(ercs) |-> IF n = 0 THEN {} ELSE Onto(f[n - 1])]

\* If it takes three steps, that is what Resolved comes to.
LEMMA ResolvedIs ==
  ASSUME Len(ercs) \in Nat, Onto(Onto(Onto({}))) = items
  PROVE  Resolved = IF Len(ercs) = 0 THEN {} ELSE IF Len(ercs) = 1 THEN Onto({})
                    ELSE IF Len(ercs) = 2 THEN Onto(Onto({})) ELSE items
<1> DEFINE N == Len(ercs)
           A == Onto({})
           B == Onto(A)
           v(n) == IF n = 0 THEN {} ELSE IF n = 1 THEN A ELSE IF n = 2 THEN B ELSE items
           f == [n \in 0 .. N |-> v(n)]
           g == CHOOSE h : OntoIs(h)
<1>1. A = Onto({}) /\ B = Onto(A) /\ items = Onto(B) /\ items = Onto(items)
  <2>1. B \subseteq items
    BY OntoGrows
  <2>2. Onto(B) \subseteq Onto(items) /\ Onto(items) \subseteq items
    BY <2>1, OntoGrows
  <2> QED BY <2>2
<1> HIDE DEF A, B
<1>2. \A n \in Nat : v(n + 1) = Onto(v(n))
  BY <1>1
<1>3. OntoIs(f)
  <2>1. ASSUME NEW n \in 0 .. N PROVE v(n) = IF n = 0 THEN {} ELSE Onto(f[n - 1])
    <3>1. CASE n = 0
      BY <3>1
    <3>2. CASE n # 0
      <4>1. n - 1 \in 0 .. N /\ n - 1 \in Nat /\ (n - 1) + 1 = n
        BY <3>2
      <4>2. f[n - 1] = v(n - 1)
        BY <4>1
      <4> HIDE DEF f, v
      <4>3. v((n - 1) + 1) = Onto(v(n - 1))
        BY <1>2, <4>1
      <4> QED BY <3>2, <4>1, <4>2, <4>3
    <3> QED BY <3>1, <3>2
  <2> HIDE DEF v
  <2> QED BY <2>1 DEF OntoIs
<1>4. OntoIs(g)
  <2> HIDE DEF f
  <2> QED BY <1>3
<1>5. Resolved = g[N]
  BY DEF Resolved, OntoIs, Onto
<1> HIDE DEF f, g
<1>6. \A n \in 0 .. N : g[n] = IF n = 0 THEN {} ELSE Onto(g[n - 1])
  BY <1>4 DEF OntoIs
<1> DEFINE I == {n \in Nat : n <= N => g[n] = v(n)}
<1>7. 0 \in I
  BY <1>6
<1>8. ASSUME NEW n \in Nat, n \in I PROVE n + 1 \in I
  <2> SUFFICES ASSUME n + 1 <= N PROVE g[n + 1] = v(n + 1)
    OBVIOUS
  <2>1. n + 1 \in 0 .. N /\ n + 1 # 0 /\ (n + 1) - 1 = n /\ n <= N
    OBVIOUS
  <2>2. g[n + 1] = Onto(g[n])
    BY <1>6, <2>1
  <2>3. g[n] = v(n)
    BY <1>8, <2>1
  <2>4. v(n + 1) = Onto(v(n))
    BY <1>2
  <2> QED BY <2>2, <2>3, <2>4
<1>9. \A n \in Nat : n \in I
  <2> HIDE DEF I
  <2> QED BY <1>7, <1>8, NatInductionOnSet
<1>10. Resolved = v(N)
  <2> HIDE DEF v
  <2>1. N \in Nat
    OBVIOUS
  <2> HIDE DEF N
  <2>2. g[N] = v(N)
    BY <1>9, <2>1
  <2> QED BY <1>5, <2>2
<1> QED BY <1>10 DEF A, B

\* In a block in the order of InOrder with the bases of BasesPlain, whatever
\* re-exports a type of the module gets to one in two steps: the array that it is
\* part of, or the base, which may be part of an array itself.
THEOREM TargetsCorrect ==
  ItemsSpec => []TargetsThere
<1>1. BlockInv /\ Leading => TargetsThere
  <2> SUFFICES ASSUME BlockInv, Leading, stage = "done", Plain PROVE Resolved = items
    BY DEF TargetsThere, Plain
  <2>1. ercs \in Blocks /\ Len(ercs) \in Nat /\ DOMAIN ercs = 1 .. Len(ercs)
    BY BlockDomain DEF BlockInv, ScanInv
  <2>2. Onto(Onto(Onto({}))) = items
    BY ItemsLead
  <2>3. Len(ercs) = 0 => items = {}
    BY <2>1, DoneItems
  <2>4. Len(ercs) = 1 => \A i, j \in items : i = j
    <3>1. Len(ercs) = 1 => \A a, b \in DOMAIN ercs : a = b
      BY <2>1
    <3> QED BY <3>1, DoneItems
  <2>5. Len(ercs) = 2 => \A i, j, l \in items : i = j \/ i = l \/ j = l
    <3>1. Len(ercs) = 2 => \A a, b, c \in DOMAIN ercs : a = b \/ a = c \/ b = c
      BY <2>1
    <3> QED BY <3>1, DoneItems
  <2>6. /\ Onto({}) # items => \E i, j \in items : i # j
        /\ Onto(Onto({})) # items => \E i, j, l \in items : i # j /\ i # l /\ j # l
    BY <2>2, StepsNeedItems
  <2>7. Resolved = IF Len(ercs) = 0 THEN {} ELSE IF Len(ercs) = 1 THEN Onto({})
                   ELSE IF Len(ercs) = 2 THEN Onto(Onto({})) ELSE items
    BY <2>1, <2>2, ResolvedIs
  <2>8. Len(ercs) = 1 => Onto({}) = items
    BY <2>4, <2>6
  <2>9. Len(ercs) = 2 => Onto(Onto({})) = items
    BY <2>5, <2>6
  <2> QED BY <2>3, <2>7, <2>8, <2>9
<1> QED BY <1>1, BlockCorrect, LeadsCorrect, PTL

=============================================================================
