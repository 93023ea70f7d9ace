----------------------------- MODULE BlockItems -----------------------------
(***************************************************************************)
(* The module of a block, as render_ercs, register::render, cluster_block  *)
(* and expand leave it: after the derive infos, the types of the registers *)
(* and clusters are rendered one by one, and then the members and methods  *)
(* of the struct, which name those types.  Two parts of the program decide *)
(* on each name: nothing but their agreement makes the crate compile.      *)
(*                                                                         *)
(* A cluster has children, which are registers; further down it is another *)
(* block.                                                                  *)
(***************************************************************************)
EXTENDS DeriveInfos, Expansion

VARIABLES
  next,     \* the erc that is rendered or expanded next
  items,    \* the types of the module: their names, and what they re-export
  members   \* the methods of the struct: their names and types, and the rbfs

itemVars == <<scanVars, next, items, members>>

----------------------------------------------------------------------------
(* render_ercs *)

\* derive_register and derive_cluster fill in what e leaves out, and tell the
\* root, unless e has fields or children of its own.
Derive(e) ==
  IF e.kind = "register" /\ e.content # "none" THEN {}
  ELSE IF e.kind = "cluster" /\ e.children # <<>> THEN {}
  ELSE UNION {Root(e.kind, p) : p \in e.from}

\* What a register or cluster re-exports.
Target(k) == IF infos[k].kind = "Implicit" THEN infos[k].path ELSE Derive(ercs[k])

\* name_of: that of the item of the register at a path.
NameAt(kind, path) ==
  CHOOSE name \in {RemoveDim([path.name EXCEPT !.group = FullName(e).group]) : e \in Entries(kind, path)} : TRUE

\* A slip: an array that is derived keeps its name.
RenderedAsOne(e, target) == RemoveDim(FullName(e))

\* The name of the type and the module of e.
RenderedAs(e, target) ==
  IF /\ e.kind = "register" /\ IsArray(e) /\ e.dimIndex
     /\ \E p \in target : p.block = "here"
  THEN ExpandDim(FullName(e), e.indexes[1])
  ELSE RemoveDim(FullName(e))

Item(k) ==
  [erc |-> k, kind |-> ercs[k].kind, name |-> RenderedAs(ercs[k], Target(k)),
   target |-> {[block |-> p.block, name |-> NameAt(ercs[k].kind, p)] : p \in Target(k)}]

Rendering(k) == stage = "rendering" /\ k = next /\ k \in DOMAIN ercs

StartRendering ==
  /\ stage = "scanning" /\ against = {} /\ Turn \notin DOMAIN ercs
  /\ stage' = "rendering"
  /\ UNCHANGED <<config, ercs, infos, mine, against, next, items, members>>

RenderErc(k) ==
  /\ Rendering(k)
  /\ \A p \in ercs[k].from : Root(ercs[k].kind, p) # {}
  /\ items' = items \cup {Item(k)}
  /\ next' = next + 1
  /\ UNCHANGED <<scanVars, members>>

\* The path that a cluster is derived from is looked up only now.
FailErc(k) ==
  /\ Rendering(k)
  /\ \E p \in ercs[k].from : Root(ercs[k].kind, p) = {}
  /\ stage' = "failed"
  /\ UNCHANGED <<config, ercs, infos, mine, against, next, items, members>>

----------------------------------------------------------------------------
(* Sizes of clusters *)

ConvertList(e) == config.keep_list => e.name.tail # "%s"

\* What expand_register and expand_cluster look at, and the struct of a cluster;
\* the Rust type of a register follows from its bits.
AsErc(e, bits, struct, convert) ==
  [kind |-> e.kind, offset |-> e.offset, bits |-> bits, bytes |-> struct.bytes, align |-> struct.align,
   array |-> IsArray(e), dim |-> Len(e.indexes), increment |-> e.increment, convert |-> convert]

NoStruct == [bytes |-> 0, align |-> 1]

MaxOf(s) == Max(s \cup {0})

TotalSize(rbfs) ==
  LET Sum[n \in 0 .. Len(rbfs)] == IF n = 0 THEN 0 ELSE Sum[n - 1] + rbfs[n].size
  IN  Sum[Len(rbfs)]

\* A slip: an array counts as one of its elements.
SumOfOne(e) == e.bits

\* The bits of a register as cluster_info_size_in_bits counts them, as if it was
\* not derived: the sum of the sizes of its rbfs.
SumOfSizes(e) == TotalSize(ExpandErc(AsErc(e, e.bits, NoStruct, ConvertList(e))))

\* The cluster whose struct is that of e: the root it is derived from.
Base(e) ==
  LET bases == UNION {Entries("cluster", q) : q \in UNION {Root("cluster", p) : p \in e.from}}
  IN  IF e.children # <<>> \/ bases = {} THEN e ELSE CHOOSE c \in bases : TRUE

\* The children that a cluster has after derive_cluster.
Children(e) == Base(e).children

InfoSize(children) ==
  MaxOf({children[n].offset * 8 + SumOfSizes(children[n]) : n \in DOMAIN children})

\* cluster_size_in_bits
ClusterSize(e) ==
  IF IsArray(e) THEN (Len(e.indexes) - 1) * e.increment * 8 + InfoSize(Children(e))
  ELSE InfoSize(Children(e))

\* cluster_info_size_in_bits of this block, if it is that of a cluster.
BlockSize ==
  MaxOf({ercs[k].offset * 8 + (IF ercs[k].kind = "register" THEN SumOfSizes(ercs[k])
                               ELSE ClusterSize(ercs[k])) : k \in DOMAIN ercs})

\* cluster_block: the struct of a cluster, whose registers follow each other. It
\* is padded if it is that of an array and max_cluster_size is set.
Struct(e) ==
  LET base  == Base(e)
      bytes == IF MaxClusterSize /\ IsArray(base) THEN base.increment
               ELSE (InfoSize(Children(e)) + 7) \div 8
      align == MaxOf({1} \cup {RustBytes(Children(e)[n].bits) : n \in DOMAIN Children(e)})
  IN  [bytes |-> AlignUp(bytes, align), align |-> align]

----------------------------------------------------------------------------
(* expand *)

\* A register that re-exports one of this block; [%s] keeps an array one.
Apart(k) ==
  /\ ercs[k].kind = "register" /\ IsArray(ercs[k]) /\ ercs[k].name.tail # "[%s]"
  /\ \E p \in infos[k].path : p.block = "here"

TypeOf(k) ==
  IF Apart(k)
  THEN ExpandDim(FullName(ercs[k]), IF ercs[k].dimIndex THEN ercs[k].indexes[1] ELSE "0")
  ELSE RemoveDim(FullName(ercs[k]))

MemberErc(k) ==
  LET e == ercs[k]
  IN  IF e.kind = "register" THEN AsErc(e, e.bits, NoStruct, ~Apart(k) /\ ConvertList(e))
      ELSE AsErc(e, InfoSize(Children(e)), Struct(e), ConvertList(e))

Rbfs(k) == ExpandErc(MemberErc(k))

\* An array that stays one has a method for itself and, unless its elements are
\* R0, R1, ..., one for each; a list, which an array becomes too whose elements
\* overlap, has the methods of its elements, without the group.
IsList(k) ==
  IsArray(ercs[k]) /\ (\/ Apart(k) \/ ~ConvertList(ercs[k])
                       \/ ercs[k].kind = "register" /\ ~Disjoint(AsErc(ercs[k], ercs[k].bits, NoStruct, TRUE)))

ElementNames(name, e) == {ExpandDim(name, e.indexes[n]) : n \in DOMAIN e.indexes}

Methods(k) ==
  LET e == ercs[k] IN
  IF ~IsArray(e) THEN {FullName(e)}
  ELSE IF IsList(k) THEN ElementNames(OwnName(e), e)
  ELSE {RemoveDim(FullName(e))} \cup (IF FromZero(e) THEN {} ELSE ElementNames(FullName(e), e))

StartExpanding ==
  /\ stage = "rendering" /\ next \notin DOMAIN ercs
  /\ stage' = "expanding" /\ next' = 1
  /\ UNCHANGED <<config, ercs, infos, mine, against, items, members>>

Expanding(k) == stage = "expanding" /\ k = next /\ k \in DOMAIN ercs

\* The elements of a cluster array are refused if they overlap.
Overlaps(k) ==
  ercs[k].kind = "cluster" /\ IsArray(ercs[k]) /\ InfoSize(Children(ercs[k])) > 8 * ercs[k].increment

FailExpand(k) ==
  /\ Expanding(k) /\ Overlaps(k)
  /\ stage' = "failed"
  /\ UNCHANGED <<config, ercs, infos, mine, against, next, items, members>>

Member(k) ==
  [erc |-> k, methods |-> Methods(k), kind |-> ercs[k].kind, type |-> TypeOf(k), rbfs |-> Rbfs(k)]

ExpandMember(k) ==
  /\ Expanding(k) /\ ~Overlaps(k)
  /\ members' = members \cup {Member(k)}
  /\ next' = next + 1
  /\ UNCHANGED <<scanVars, items>>

FinishExpanding ==
  /\ stage = "expanding" /\ next \notin DOMAIN ercs
  /\ stage' = "done"
  /\ UNCHANGED <<config, ercs, infos, mine, against, next, items, members>>

ItemsInit == ScanInit /\ next = 1 /\ items = {} /\ members = {}

ItemsEnded == stage \in {"done", "failed"} /\ UNCHANGED itemVars

ItemsNext ==
  \/ ScanNext /\ UNCHANGED <<next, items, members>>
  \/ StartRendering \/ StartExpanding \/ FinishExpanding
  \/ \E k \in DOMAIN ercs : RenderErc(k) \/ FailErc(k) \/ ExpandMember(k) \/ FailExpand(k)
  \/ ItemsEnded

ItemsSpec == ItemsInit /\ [][ItemsNext]_itemVars

----------------------------------------------------------------------------
(* What the SVD files are like that the properties are for; the README says
   what becomes of others. *)

Registers == {k \in DOMAIN ercs : ercs[k].kind = "register"}

Elements(k) ==
  IF IsArray(ercs[k]) THEN ElementNames(FullName(ercs[k]), ercs[k]) ELSE {FullName(ercs[k])}

SameStem(j, k) == ercs[j].name.stem = ercs[k].name.stem

\* The names of a block are different, and arrays of one name, the parts of a
\* disjoint array, are alike and their type is not in another block.
NamedApart ==
  \A j, k \in DOMAIN ercs : j # k =>
    /\ Elements(j) \cap Elements(k) = {}
    /\ RemoveDim(FullName(ercs[j])) = RemoveDim(FullName(ercs[k])) =>
         /\ ercs[j].kind = "register" /\ ercs[j].name.tail = "%s"
         /\ \A q \in ercs[j].from : \A p \in FindRoot(q) : p.block = "here"
         /\ ercs[j].content = ercs[k].content /\ ercs[j].from = ercs[k].from
         /\ ercs[j].dimIndex = ercs[k].dimIndex

\* Registers whose names meet in the index, which leaves the group out, are
\* parts of one disjoint array.
IndexApart ==
  \A j, k \in Registers : j # k /\ NamesOf(ercs[j]) \cap NamesOf(ercs[k]) # {} =>
    RemoveDim(FullName(ercs[j])) = RemoveDim(FullName(ercs[k]))

\* A register with the name of one of another block, which is derived from, is
\* single, and the type of that name is in this block.
Namesakes ==
  \A k \in Registers : \A q \in ercs[k].from : \A p \in FindRoot(q) : p.block = "there" =>
    /\ \A r \in Here(p.name) : r.block = "here"
    /\ \A j \in Registers : FullName(ercs[j]) = p.name => ~IsArray(ercs[j])

\* Of the parts of a disjoint array, those with derivedFrom come before those
\* that are found to be alike; if there are both, the array comes last.
InOrder ==
  \A j, k \in Registers : SameStem(j, k) /\ ercs[j].from = {} /\ ercs[k].from # {} =>
    /\ k < j
    /\ \A l, i \in Registers : SameStem(l, j) /\ SameStem(i, j) /\ IsArray(ercs[l]) => i <= l

\* What is derived from is a whole register or cluster, no element of an array,
\* and none of the registers numbered like it has a derivedFrom; nor those of
\* this block with the name of one of another block that is derived from.
BasesPlain ==
  \A k \in DOMAIN ercs : \A q \in ercs[k].from : \A p \in Root(ercs[k].kind, q) :
    \A m \in DOMAIN ercs : ercs[m].kind = ercs[k].kind /\ p.name \in NamesOf(ercs[m]) =>
      /\ p.name = OwnName(ercs[m])
      /\ ercs[m].kind = "register" => \A l \in Registers : SameStem(l, m) => ercs[l].from = {}

\* An array that re-exports a register of this block is given its indexes if it
\* is a list, and only then.
IndexesGiven ==
  \A k \in Registers : IsArray(ercs[k]) /\ (\E p \in infos[k].path : p.block = "here") =>
    (ercs[k].dimIndex <=> ercs[k].name.tail = "%s")

\* No list is in an alternate group.
ListsUngrouped == \A k \in Registers : IsList(k) => FullName(ercs[k]) = OwnName(ercs[k])

\* The elements of a list or a cluster array follow each other.
Gapless(k) ==
  IsArray(ercs[k]) /\ (ercs[k].kind = "cluster" \/ IsList(k)) =>
    8 * ercs[k].increment = (IF ercs[k].kind = "register" THEN ercs[k].bits
                             ELSE InfoSize(Children(ercs[k])))

----------------------------------------------------------------------------
(* Properties *)

\* The module of a block defines or re-exports no type twice, and no two members
\* or methods of the struct have one name: what the code calls `force expansion
\* and rename ... so we don't get name collisions'.
NamesUnique ==
  stage = "done" /\ NamedApart /\ IndexApart =>
    /\ \A i, j \in items : i.kind = j.kind /\ i.name = j.name => i = j
    /\ ListsUngrouped => \A a, b \in members : a # b => a.methods \cap b.methods = {}

\* The types of the members, whose names expand_register makes up by the derive
\* infos, are those that register::render makes up by the paths; for blocks in
\* which IndexesGiven holds.  What each asks besides, for [%s] and for the indexes,
\* differs, and an array for which the answers differ has no type.
TypesThere ==
  stage = "done" /\ IndexesGiven =>
    \A m \in members : \E i \in items : i.kind = m.kind /\ i.name = m.type

HereTargets(i) == {t \in i.target : t.block = "here"}
TargetOf(i, t, j) == j.kind = i.kind /\ j.name = t.name

\* The items that are defined, or re-export one that is in the end.
Resolved ==
  LET Within[n \in 0 .. Len(ercs)] ==
        IF n = 0 THEN {}
        ELSE {i \in items : \A t \in HereTargets(i) : \E j \in Within[n - 1] : TargetOf(i, t, j)}
  IN  Within[Len(ercs)]

\* No register is derived from a type that is not there, or from itself by way
\* of others, though infos are rewritten while later registers are scanned; for
\* blocks in the order of InOrder with the bases of BasesPlain.  In another order
\* an array that has become derived may be re-exported by a name no one defines.
TargetsThere ==
  stage = "done" /\ NamedApart /\ IndexApart /\ InOrder /\ BasesPlain => Resolved = items

\* The properties and fields that the SVD file gives to a register.
Contents(e) ==
  IF e.from = {} \/ e.content # "none" THEN {e.content}
  ELSE UNION {{d.content : d \in Entries("register", q)} : q \in UNION {FindRoot(p) : p \in e.from}}

\* A register whose type is that of another one has the same properties and
\* fields, though its derive info is written by one step of the scan and
\* rewritten by later ones; for names that are told apart as Namesakes and
\* IndexApart say.
SameContent ==
  stage = "done" /\ NamedApart /\ IndexApart /\ Namesakes =>
    \A i, j \in items : \A t \in HereTargets(i) :
      i.kind = "register" /\ TargetOf(i, t, j) => Contents(ercs[j.erc]) = Contents(ercs[i.erc])

\* The generation of a block fails only if a derivedFrom leads nowhere, the
\* elements of a cluster array overlap, there is an alternate group, whose
\* registers find_root does not know by their full names, or the type of a
\* register is in another block and find_root looks for its name in this one.
FailsForAReason ==
  stage = "failed" =>
    \/ \E k \in DOMAIN ercs : Overlaps(k) \/ \E p \in ercs[k].from : Root(ercs[k].kind, p) = {}
    \/ \E k \in Registers : FullName(ercs[k]) # OwnName(ercs[k])
    \/ \E k \in Registers : \E q \in ercs[k].from : \E p \in FindRoot(q) :
         p.block = "there" /\ Here(p.name) = {}

\* The end of the block as its struct has it.
End == MaxOf(UNION {{m.rbfs[n].offset * 8 + m.rbfs[n].size : n \in DOMAIN m.rbfs} : m \in members})

\* The size of a cluster, which another part of the code computes as if nothing
\* was derived in it, is that of its struct, which depends on what is.
SizeIsEnd == stage = "done" /\ (\A k \in DOMAIN ercs : Gapless(k)) => BlockSize = End

\* The comment on cluster_info_size_in_bits (peripheral.rs:917): "A cluster's size
\* is the maximum end position of its recursive children."
ClusterSizeIsEnd == stage = "done" => BlockSize = End
=============================================================================
