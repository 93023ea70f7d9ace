---------------------------- MODULE DeriveInfos ----------------------------
(***************************************************************************)
(* check_erc_derive_infos of generate/peripheral.rs: which registers of a  *)
(* block use the type of another one, since the SVD file says so           *)
(* (derivedFrom) or because they are parts of one disjoint array, such as  *)
(* R0 and R%s with the indexes 1 to 3.                                     *)
(*                                                                         *)
(* A name has a group (alternateGroup, "" if none), a stem and a tail: a   *)
(* number or nothing, or "%s" or "[%s]" if it is that of an array.  A path *)
(* is a block with a name.  A register or cluster (erc) has                *)
(*   kind       "register" or "cluster"                                    *)
(*   name                                                                  *)
(*   indexes    of the elements if it is an array                          *)
(*   dimIndex   whether the SVD file gives them, or they go from 0         *)
(*   content    its properties and fields, "none" if it has no own fields  *)
(*   from       {} or {the path that it is derived from}                   *)
(* and, for its layout, what Expansion says.                               *)
(***************************************************************************)
EXTENDS Integers, Sequences, FiniteSetsExt

CONSTANTS
  Blocks,         \* the sequences of ercs to consider
  Elsewhere       \* the registers and clusters of the block "there": a set

VARIABLES
  config,   \* the options ignore_groups and keep_list
  ercs,     \* the registers and clusters of this block, "here"
  infos,    \* the derive infos of those that have been looked at
  mine,     \* that of the array which is compared with those before it
  against,  \* {} or {the one that it is compared with next}
  stage     \* "scanning" or what comes after it

scanVars == <<config, ercs, infos, mine, against, stage>>

----------------------------------------------------------------------------
(* Names *)

Numerals == <<"0", "1", "2", "3", "4", "5">>
Tails == {Numerals[n] : n \in DOMAIN Numerals}

\* The provers know no member of STRING, so those that matter are listed.
Texts == STRING \cup {""} \cup Tails
Names == [group : Texts, stem : Texts, tail : Texts]

IsArray(e) == e.name.tail \in {"%s", "[%s]"}

ExpandDim(name, index) == IF name.tail \in {"%s", "[%s]"} THEN [name EXCEPT !.tail = index] ELSE name
RemoveDim(name) == ExpandDim(name, "")

\* fullname: the group is a prefix; the index knows the names without it.
FullName(e) == IF config.ignore_groups THEN [e.name EXCEPT !.group = ""] ELSE e.name
OwnName(e)  == [e.name EXCEPT !.group = ""]

\* A slip: without the name of an array.
MatchesNumbers(e, name) ==
  name.group = FullName(e).group /\ name.stem = FullName(e).stem /\ name.tail \in Tails

\* The regular expression of an array, ^R([0-9]+|%s)$ for R%s.
Matches(e, name) ==
  /\ name.group = FullName(e).group /\ name.stem = FullName(e).stem
  /\ name.tail \in Tails \cup {"%s"}

\* Whether the elements are numbered from 0.
FromZero(e) == \A n \in DOMAIN e.indexes : e.indexes[n] = Numerals[n]

----------------------------------------------------------------------------
(* The index of the SVD file: the registers by path, elements of arrays too.
   Of several with one path it has the last. *)

Path(block, name) == [block |-> block, name |-> name]

Paths == [block : {"here", "there"}, name : Names]

NamesOf(e) ==
  {OwnName(e)} \cup
  IF IsArray(e) THEN {ExpandDim(OwnName(e), e.indexes[n]) : n \in DOMAIN e.indexes} ELSE {}

EntriesIn(es, kind, path) ==
  IF path.block = "here"
  THEN LET ks == {k \in DOMAIN es : es[k].kind = kind /\ path.name \in NamesOf(es[k])}
       IN  {es[k] : k \in {k \in ks : \A j \in ks : j <= k}}
  ELSE {e \in Elsewhere : e.kind = kind /\ path.name \in NamesOf(e)}

Entries(kind, path) == EntriesIn(ercs, kind, path)

\* One link further from some paths: it stays at the end of a chain, and is
\* nowhere if the link is missing.
Along(es, kind, paths) ==
  UNION {UNION {IF e.from = {} THEN {p} ELSE e.from : e \in EntriesIn(es, kind, p)} : p \in paths}

\* find_root: where the chain of derivedFrom is after n links.
Links(es, kind, path) ==
  LET At[n \in Nat] == IF n = 0 THEN {path} ELSE Along(es, kind, At[n - 1])
  IN  At

\* No chain has more links.
Longest(es) == Len(es) + Cardinality(Elsewhere)

RootIn(es, kind, path) ==
  {p \in Links(es, kind, path)[Longest(es)] : \E e \in EntriesIn(es, kind, p) : e.from = {}}

Root(kind, path) == RootIn(ercs, kind, path)

\* The places and sizes of a register or cluster, and of those in it.
LaidOut(e) ==
  /\ e.offset \in Nat /\ e.bits \in Nat
  /\ IsArray(e) =>
       /\ Len(e.indexes) \in Nat \ {0} /\ DOMAIN e.indexes = 1 .. Len(e.indexes)
       /\ e.increment \in Nat

AllLaidOut(e) ==
  /\ LaidOut(e)
  /\ Len(e.children) \in Nat /\ DOMAIN e.children = 1 .. Len(e.children)
  /\ \A n \in DOMAIN e.children : LaidOut(e.children[n])

\* The SVD files that the code expects.  Each register has at most one
\* derivedFrom, and if so no fields of its own; an array has elements, which are
\* counted from 0 unless their indexes are given.
ErcsAsExpected(es) ==
  /\ Len(es) \in Nat /\ DOMAIN es = 1 .. Len(es)
  /\ \A k \in DOMAIN es :
       /\ es[k].kind \in {"register", "cluster"} /\ es[k].name \in Names
       /\ es[k].kind = "cluster" => es[k].name.group = ""
       /\ es[k].from \subseteq Paths /\ \A p, q \in es[k].from : p = q
       /\ es[k].kind = "register" /\ es[k].from # {} => es[k].content = "none"
       /\ AllLaidOut(es[k])
       /\ IsArray(es[k]) =>
            /\ \A n \in DOMAIN es[k].indexes : es[k].indexes[n] \in Tails
            /\ es[k].dimIndex \/ FromZero(es[k])

\* No derivedFrom leads in a circle, which find_root would never leave: before
\* it has used every link, it is at a register without derivedFrom.
NoCircle(es) ==
  \A k \in DOMAIN es : \A q \in es[k].from :
    \A p \in Links(es, es[k].kind, q)[Longest(es) - 1] :
      \A e \in EntriesIn(es, es[k].kind, p) : e.from = {}

ASSUME BlocksAssumption ==
  /\ \A es \in Blocks : ErcsAsExpected(es)
  /\ \A es \in Blocks : NoCircle(es)

\* A block has one register or cluster of a name.
ASSUME ElsewhereAssumption ==
  /\ IsFiniteSet(Elsewhere)
  /\ \A d, e \in Elsewhere : d.kind = e.kind /\ NamesOf(d) \cap NamesOf(e) # {} => d = e
  /\ \A e \in Elsewhere : e.from \subseteq Paths /\ (\A p, q \in e.from : p = q) /\ AllLaidOut(e)

FindRoot(path) == Root("register", path)
Here(name) == FindRoot(Path("here", name))

\* is_derivable: the same properties and fields.
Derivable(path, e) == \E d \in Entries("register", path) : d.content = e.content

----------------------------------------------------------------------------
(* Derive infos *)

Info(kind, path) == [kind |-> kind, path |-> path]
IsRoot   == Info("Root", {})
Implicit(p) == Info("Implicit", {p})
Explicit(p) == Info("Explicit", {p})

Turn == Len(infos) + 1
Current == ercs[Turn]

Scanning(kind) ==
  /\ stage = "scanning" /\ against = {} /\ Turn \in DOMAIN ercs
  /\ Current.kind = kind

Fail == stage' = "failed" /\ UNCHANGED <<config, ercs, infos, mine, against>>

Decide(info) ==
  /\ infos' = Append(infos, info)
  /\ UNCHANGED <<config, ercs, mine, against, stage>>

ScanCluster == Scanning("cluster") /\ Decide(Info("Cluster", {}))

ScanExplicit ==
  /\ Scanning("register") /\ Current.from # {}
  /\ LET roots == UNION {FindRoot(p) : p \in Current.from}
     IN  IF roots = {} THEN Fail ELSE \E p \in roots : Decide(Explicit(p))

\* compare_this_against_prev: the arrays before this register whose regular
\* expression it matches, up to the first that it can be derived from.
PrevArrays ==
  {j \in 1 .. Len(infos) :
     ercs[j].kind = "register" /\ IsArray(ercs[j]) /\ Matches(ercs[j], FullName(Current))}

Suits(j) == \E p \in Here(FullName(ercs[j])) : Derivable(p, Current)
First == {j \in PrevArrays : Suits(j) /\ \A i \in PrevArrays : Suits(i) => j <= i}

\* A slip: a register that is not alike is an error.
FailsUnlike == \E j \in PrevArrays : ~Suits(j)

Fails == \E j \in PrevArrays : Here(FullName(ercs[j])) = {} /\ \A i \in First : j < i

\* A single register is not derived from an array that is derived from it.
OfPrev(p) == IF ~IsArray(Current) /\ p.name = FullName(Current) THEN IsRoot ELSE Implicit(p)

ScanAgainstPrev ==
  /\ Scanning("register") /\ Current.from = {}
  /\ IF Fails THEN Fail
     ELSE \/ \E j \in First : \E p \in Here(FullName(ercs[j])) : Decide(OfPrev(p))
          \/ First = {} /\ ~IsArray(Current) /\ Decide(IsRoot)
          \/ /\ First = {} /\ IsArray(Current)
             /\ against' = {1} /\ mine' = IsRoot
             /\ UNCHANGED <<config, ercs, infos, stage>>

----------------------------------------------------------------------------
(* compare_prev_against_this: one register before this array at a time *)

Compared(j) == ercs[j].kind = "register" /\ ~IsArray(ercs[j])
Hit(j) == Compared(j) /\ Matches(Current, FullName(ercs[j]))

\* A slip: the name of the other register is looked up.
LookedOther(j) ==
  IF infos[j].kind = "Root" THEN Here(FullName(ercs[j]))
  ELSE UNION {Here(p.name) : p \in infos[j].path}

\* The register that is looked up for the info of one before: by its name, in
\* this block, whatever block it is in.
Looked(j) ==
  IF infos[j].kind = "Root" THEN Here(FullName(Current))
  ELSE UNION {Here(p.name) : p \in infos[j].path}

\* A slip: one with other fields is taken too.
TheirsAny(j) ==
  IF Hit(j) /\ infos[j].kind = "Root" THEN Info("Implicit", Looked(j)) ELSE infos[j]

\* One that is no part of another yet becomes part of this array.
Theirs(j) ==
  IF Hit(j) /\ infos[j].kind = "Root" /\ ercs[j].content = Current.content
  THEN Info("Implicit", Looked(j)) ELSE infos[j]

\* The array takes the type that one before has by derivation.
Mine(j) ==
  IF /\ mine = IsRoot /\ Hit(j) /\ infos[j].kind # "Root"
     /\ \E p \in Looked(j) : Derivable(p, Current)
  THEN Info("Implicit", IF infos[j].kind = "Explicit" THEN Looked(j) ELSE infos[j].path)
  ELSE mine

\* Then one that would be derived from this array is derived from that type.
Dangles(j) ==
  /\ Compared(j) /\ Mine(j).kind = "Implicit"
  /\ \E p \in Theirs(j).path : p.name = FullName(Current)
MyRoot(j) == UNION {Here(p.name) : p \in Mine(j).path}

Redirected(j) == IF Dangles(j) THEN Info(Theirs(j).kind, MyRoot(j)) ELSE Theirs(j)

Compare(j) ==
  /\ stage = "scanning" /\ j \in against /\ j <= Len(infos)
  /\ IF (Hit(j) /\ Looked(j) = {}) \/ (Dangles(j) /\ MyRoot(j) = {}) THEN Fail
     ELSE /\ infos' = [infos EXCEPT ![j] = Redirected(j)]
          /\ mine' = Mine(j)
          /\ against' = {j + 1}
          /\ UNCHANGED <<config, ercs, stage>>

EndCompare ==
  /\ stage = "scanning" /\ Turn \in against
  /\ infos' = Append(infos, mine)
  /\ against' = {}
  /\ UNCHANGED <<config, ercs, mine, stage>>

ScanInit ==
  /\ config \in [ignore_groups : BOOLEAN, keep_list : BOOLEAN]
  /\ ercs \in Blocks
  /\ infos = <<>> /\ mine = IsRoot /\ against = {}
  /\ stage = "scanning"

ScanNext ==
  \/ ScanCluster \/ ScanExplicit \/ ScanAgainstPrev
  \/ \E j \in against : Compare(j)
  \/ EndCompare
=============================================================================
