------------------------- MODULE DeviceCrateProofs -------------------------
(***************************************************************************)
(* What features leave in a device crate, proved for all devices, settings *)
(* and sets of features.                                                   *)
(***************************************************************************)
EXTENDS DeviceCrate, Induction, FiniteSetTheorems, TLAPS

\* The peripherals among the first n that are rendered.
RenderedOf(n) == {i \in DOMAIN svd : i <= n /\ HasType(i)}

\* What stands for each path of the settings: a plain peripheral with registers.
Found(p) ==
  /\ p.module \in DOMAIN svd /\ ~svd[p.module].array
  /\ svd[Root(p.module)].registers # {}

Inputs == svd \in Devices /\ config \in Configs

\* The crate holds what the peripherals passed so far have, and no more.
Emitted ==
  /\ rendered \in 0 .. Len(svd)
  /\ stage \in {"written", "built"} => rendered = Len(svd)
  /\ types = UNION {TypesOf(i) : i \in RenderedOf(rendered)}
  /\ members = UNION {MembersOf(i) : i \in RenderedOf(rendered)}
  /\ modules = {ModuleOf(i) : i \in {j \in RenderedOf(rendered) : ~IsRiscv(j)}}

Resolved ==
  /\ protected \in Seq(Range(protected))
  /\ \A k \in DOMAIN protected : config.target = "Avr" /\ Found(protected[k])

Unlocked == \A u \in unlock : config.shift = 0 => u.addr < 64

CrateInv == Inputs /\ Emitted /\ Resolved /\ Unlocked

----------------------------------------------------------------------------
(* Devices *)

\* Peripherals are a sequence, and one that is derived has a base that is not.
LEMMA DeviceShape ==
  ASSUME Inputs
  PROVE  /\ svd \in Seq(Range(svd)) /\ DOMAIN svd = 1 .. Len(svd) /\ Len(svd) \in Nat
         /\ \A i \in DOMAIN svd :
              /\ svd[i].names \in Seq(Range(svd[i].names)) /\ svd[i].names # <<>>
              /\ ~svd[i].array => Len(svd[i].names) = 1
              /\ Root(i) \in DOMAIN svd /\ svd[Root(i)].base = {}
              /\ svd[i].base = {} => Root(i) = i
              /\ svd[i].base # {} => Root(i) \in svd[i].base
<1>1. /\ svd \in Seq(Range(svd))
      /\ \A i \in DOMAIN svd :
           /\ svd[i].names \in Seq(Range(svd[i].names)) /\ svd[i].names # <<>>
           /\ ~svd[i].array => Len(svd[i].names) = 1
           /\ \A b \in svd[i].base : b \in 1 .. i - 1 /\ svd[b].base = {} /\ svd[i].registers = {}
  BY DevicesAssumption DEF Inputs
<1>2. DOMAIN svd = 1 .. Len(svd) /\ Len(svd) \in Nat
  BY <1>1
<1>3. ASSUME NEW i \in DOMAIN svd
      PROVE  /\ Root(i) \in DOMAIN svd /\ svd[Root(i)].base = {}
             /\ svd[i].base = {} => Root(i) = i
             /\ svd[i].base # {} => Root(i) \in svd[i].base
  <2>1. CASE svd[i].base = {}
    BY <2>1, <1>3 DEF Root
  <2>2. CASE svd[i].base # {}
    <3>1. Root(i) \in svd[i].base
      BY <2>2 DEF Root
    <3> QED BY <3>1, <2>2, <1>1, <1>2, <1>3
  <2> QED BY <2>1, <2>2
<1> QED BY <1>1, <1>2, <1>3

----------------------------------------------------------------------------
(* The invariant *)

LEMMA InitInv == Init => CrateInv
<1> SUFFICES ASSUME Init PROVE CrateInv
  OBVIOUS
<1>1. Inputs
  BY DEF Init, Inputs
<1>2. RenderedOf(0) = {}
  BY <1>1, DeviceShape DEF RenderedOf
<1>3. Emitted
  BY <1>1, <1>2, DeviceShape DEF Init, Emitted
<1>4. Resolved /\ Unlocked
  BY DEF Init, Resolved, Unlocked
<1> QED BY <1>1, <1>3, <1>4 DEF CrateInv

\* The peripherals up to the next one.
LEMMA NextRendered ==
  ASSUME Inputs, NEW i \in DOMAIN svd, rendered \in 0 .. Len(svd), i = rendered + 1
  PROVE  RenderedOf(i) = RenderedOf(rendered) \cup (IF HasType(i) THEN {i} ELSE {})
BY DeviceShape DEF RenderedOf

LEMMA SkipKeeps ==
  ASSUME CrateInv, NEW i \in DOMAIN svd, SkipPeripheral(i)
  PROVE  Emitted'
<1> USE DEF CrateInv, SkipPeripheral, Rendering
<1>1. RenderedOf(i) = RenderedOf(rendered)
  BY NextRendered DEF Emitted
<1>2. i \in 0 .. Len(svd)
  BY DeviceShape
<1>3. RenderedOf(rendered)' = RenderedOf(i)
  BY DEF RenderedOf, HasType, IsCore, IsRiscv, IsEmpty
<1>4. UNION {TypesOf(j)' : j \in RenderedOf(i)} = UNION {TypesOf(j) : j \in RenderedOf(i)}
  BY DEF TypesOf, Root, IsRiscv, GroupGate, GroupOf, OwnGate, Names
<1>5. UNION {MembersOf(j)' : j \in RenderedOf(i)} = UNION {MembersOf(j) : j \in RenderedOf(i)}
  BY DEF MembersOf, GroupGate, OwnGate
<1>6. {ModuleOf(j)' : j \in {k \in RenderedOf(i) : ~IsRiscv(k)'}}
        = {ModuleOf(j) : j \in {k \in RenderedOf(i) : ~IsRiscv(k)}}
  BY DEF ModuleOf, GroupGate, OwnGate, GroupOf, Root, Names, IsRiscv
<1> QED BY <1>1, <1>2, <1>3, <1>4, <1>5, <1>6 DEF Emitted

LEMMA RenderKeeps ==
  ASSUME CrateInv, NEW i \in DOMAIN svd, RenderPeripheral(i)
  PROVE  Emitted'
<1> USE DEF CrateInv, RenderPeripheral, Rendering
<1>1. RenderedOf(i) = RenderedOf(rendered) \cup {i}
  BY NextRendered DEF Emitted
<1>2. i \in 0 .. Len(svd)
  BY DeviceShape
<1>3. RenderedOf(rendered)' = RenderedOf(i)
  BY DEF RenderedOf, HasType, IsCore, IsRiscv, IsEmpty
<1>4. types' = UNION {TypesOf(j) : j \in RenderedOf(i)}
  BY <1>1 DEF Emitted
<1>5. members' = UNION {MembersOf(j) : j \in RenderedOf(i)}
  BY <1>1 DEF Emitted
<1>6. modules' = {ModuleOf(j) : j \in {k \in RenderedOf(i) : ~IsRiscv(k)}}
  BY <1>1 DEF Emitted
<1>7. UNION {TypesOf(j)' : j \in RenderedOf(i)} = UNION {TypesOf(j) : j \in RenderedOf(i)}
  BY DEF TypesOf, Root, IsRiscv, GroupGate, GroupOf, OwnGate, Names
<1>8. UNION {MembersOf(j)' : j \in RenderedOf(i)} = UNION {MembersOf(j) : j \in RenderedOf(i)}
  BY DEF MembersOf, GroupGate, OwnGate
<1>9. {ModuleOf(j)' : j \in {k \in RenderedOf(i) : ~IsRiscv(k)'}}
        = {ModuleOf(j) : j \in {k \in RenderedOf(i) : ~IsRiscv(k)}}
  BY DEF ModuleOf, GroupGate, OwnGate, GroupOf, Root, Names, IsRiscv
<1> QED BY <1>2, <1>3, <1>4, <1>5, <1>6, <1>7, <1>8, <1>9 DEF Emitted

\* The steps that touch neither the peripherals nor what was emitted for them.
LEMMA EmittedStays ==
  ASSUME CrateInv, UNCHANGED <<svd, config, rendered, types, modules, members>>,
         stage' \in {"written", "built"} => rendered = Len(svd)
  PROVE  Inputs' /\ Emitted'
<1> USE DEF CrateInv
<1>1. Inputs'
  BY DEF Inputs
<1>2. RenderedOf(rendered)' = RenderedOf(rendered)
  BY DEF RenderedOf, HasType, IsCore, IsRiscv, IsEmpty
<1>3. UNION {TypesOf(j)' : j \in RenderedOf(rendered)} = UNION {TypesOf(j) : j \in RenderedOf(rendered)}
  BY DEF TypesOf, Root, IsRiscv, GroupGate, GroupOf, OwnGate, Names
<1>4. UNION {MembersOf(j)' : j \in RenderedOf(rendered)} = UNION {MembersOf(j) : j \in RenderedOf(rendered)}
  BY DEF MembersOf, GroupGate, OwnGate
<1>5. {ModuleOf(j)' : j \in {k \in RenderedOf(rendered) : ~IsRiscv(k)'}}
        = {ModuleOf(j) : j \in {k \in RenderedOf(rendered) : ~IsRiscv(k)}}
  BY DEF ModuleOf, GroupGate, OwnGate, GroupOf, Root, Names, IsRiscv
<1> QED BY <1>1, <1>2, <1>3, <1>4, <1>5 DEF Emitted

LEMMA ProtectionStays ==
  ASSUME CrateInv, UNCHANGED <<svd, config, protectionVars>>
  PROVE  Resolved' /\ Unlocked'
BY DEF CrateInv, protectionVars, Resolved, Found, Root, Unlocked

\* What Resolve finds is in the file, in a plain peripheral with registers.
LEMMA ResolveFinds ==
  ASSUME Inputs, NEW path, NEW found \in Resolve(path)
  PROVE  /\ found[1] \in DOMAIN svd /\ ~svd[found[1]].array
         /\ found[2] \in svd[Root(found[1])].registers
BY DEF Resolve

\* The address of the unlock register is cut to a byte only after the check.
LEMMA UnlockKeeps ==
  ASSUME CrateInv, NEW ccp, RenderUnlock(ccp), UNCHANGED config
  PROVE  Unlocked'
<1> USE DEF CrateInv
<1>1. PICK found \in Resolve(ccp.unlock) :
        /\ UnlockOk(found)
        /\ unlock' = {[path |-> SpecPath(found),
                       addr |-> ((svd[found[1]].address + config.shift) % 256) + found[2].offset]}
  BY DEF RenderUnlock
<1>2. Root(found[1]) \in DOMAIN svd /\ found[1] \in DOMAIN svd /\ found[2] \in svd[Root(found[1])].registers
  BY ResolveFinds, DeviceShape
<1>3. svd[found[1]].address \in Nat /\ found[2].offset \in Nat
  BY <1>2, DevicesAssumption DEF Inputs
<1>4. svd[found[1]].address + found[2].offset < 64
  BY <1>1 DEF UnlockOk, Address
<1>5. ASSUME config.shift = 0
      PROVE  ((svd[found[1]].address + config.shift) % 256) + found[2].offset < 64
  <2> DEFINE a == svd[found[1]].address
  <2>1. a \in 0 .. 63
    BY <1>3, <1>4
  <2>2. (a + config.shift) % 256 = a
    BY <2>1, <1>5
  <2> QED BY <2>2, <1>4
<1> QED BY <1>1, <1>5 DEF Unlocked

LEMMA ProtectedKeeps ==
  ASSUME CrateInv, NEW ccp, RenderProtected(ccp), UNCHANGED <<svd, config>>, config.target = "Avr"
  PROVE  Resolved'
<1> USE DEF CrateInv
<1>1. PICK found \in Resolve(ccp.protected[Len(protected) + 1]) :
        protected' = Append(protected, SpecPath(found))
  BY DEF RenderProtected
<1>2. Found(SpecPath(found))
  BY ResolveFinds DEF SpecPath, Found
<1>3. protected \in Seq(Range(protected)) /\ Range(protected) \subseteq Range(protected')
  <2>1. protected \in Seq(Range(protected))
    BY DEF Resolved
  <2> QED BY <2>1, <1>1 DEF Range
<1>4. protected' \in Seq(Range(protected'))
  <2>1. SpecPath(found) \in Range(protected')
    BY <1>1, <1>3 DEF Range
  <2>2. protected \in Seq(Range(protected'))
    BY <1>3
  <2> QED BY <2>1, <2>2, <1>1
<1>5. ASSUME NEW k \in DOMAIN protected' PROVE Found(protected'[k])
  <2>1. k \in DOMAIN protected \/ k = Len(protected) + 1
    BY <1>1, <1>3
  <2> QED BY <2>1, <1>1, <1>2, <1>3 DEF Resolved
<1>6. ASSUME NEW p PROVE Found(p) <=> Found(p)'
  BY DEF Found, Root
<1> QED BY <1>4, <1>5, <1>6 DEF Resolved

LEMMA NextInv == CrateInv /\ [Next]_vars => CrateInv'
<1> SUFFICES ASSUME CrateInv, [Next]_vars PROVE CrateInv'
  OBVIOUS
<1> USE DEF CrateInv
<1>1. CASE RenderInterrupts
  BY <1>1, EmittedStays, ProtectionStays DEF RenderInterrupts
<1>2. ASSUME NEW i \in DOMAIN svd, SkipPeripheral(i) PROVE CrateInv'
  BY <1>2, SkipKeeps, ProtectionStays DEF SkipPeripheral, Inputs
<1>3. ASSUME NEW i \in DOMAIN svd, RenderPeripheral(i) PROVE CrateInv'
  BY <1>3, RenderKeeps, ProtectionStays DEF RenderPeripheral, Inputs
<1>4. CASE RenderCcp
  <2>1. PICK ccp \in Ccp : RenderUnlock(ccp) \/ RenderProtected(ccp)
    BY <1>4 DEF RenderCcp
  <2>2. config.target = "Avr" /\ UNCHANGED <<svd, config, crateVars>>
    BY <2>1, <1>4 DEF Ccp, RenderCcp
  <2>3. Inputs' /\ Emitted'
    BY <2>2, EmittedStays DEF crateVars, Emitted
  <2>4. CASE RenderUnlock(ccp)
    BY <2>2, <2>3, <2>4, UnlockKeeps DEF RenderUnlock, Resolved, Found, Root
  <2>5. CASE RenderProtected(ccp)
    BY <2>2, <2>3, <2>5, ProtectedKeeps DEF RenderProtected, Unlocked
  <2> QED BY <2>1, <2>4, <2>5
<1>5. CASE FailCcp
  BY <1>5, EmittedStays, ProtectionStays DEF FailCcp
<1>6. CASE WriteCrate
  BY <1>6, EmittedStays, ProtectionStays DEF WriteCrate
<1>7. CASE Build
  BY <1>7, EmittedStays, ProtectionStays DEF Build, Emitted
<1>8. CASE UNCHANGED vars
  BY <1>8, EmittedStays, ProtectionStays DEF vars, crateVars, Emitted
<1> QED BY <1>1, <1>2, <1>3, <1>4, <1>5, <1>6, <1>7, <1>8 DEF Next, Ended

\* The crate holds exactly what its peripherals have, whatever the device.
THEOREM CrateCorrect == Spec => []CrateInv
BY InitInv, NextInv, PTL DEF Spec

----------------------------------------------------------------------------
(* Properties *)

\* An element is a member if its features and those of all before it are on.
LEMMA MemberIff ==
  ASSUME CrateInv, stage = "built", NEW i \in DOMAIN svd, HasType(i),
         NEW k \in DOMAIN svd[i].names
  PROVE  (\A j \in 1 .. k : IsOn(i, svd[i].names[j])) <=> IsMember(svd[i].names[k])
<1> USE DEF CrateInv
<1>1. i \in RenderedOf(rendered)
  BY DeviceShape DEF Emitted, RenderedOf
<1>2. DOMAIN svd[i].names = 1 .. Len(svd[i].names) /\ Len(svd[i].names) \in Nat
  BY DeviceShape
<1> DEFINE gate == GroupGate(svd[i].group) \cup UNION {OwnGate(svd[i].names[j]) : j \in 1 .. k}
           member == [name |-> svd[i].names[k], gate |-> gate]
<1>3. member \in members
  <2>1. member \in MembersOf(i)
    BY DEF MembersOf
  <2>2. MembersOf(i) \subseteq members
    BY <1>1 DEF Emitted
  <2> QED BY <2>1, <2>2
<1>4. ASSUME NEW m \in members, m.name = svd[i].names[k] PROVE m = member
  <2>1. PICK j \in RenderedOf(rendered) : m \in MembersOf(j)
    BY DEF Emitted
  <2>2. PICK l \in DOMAIN svd[j].names :
          m = [name |-> svd[j].names[l],
               gate |-> GroupGate(svd[j].group) \cup UNION {OwnGate(svd[j].names[n]) : n \in 1 .. l}]
    BY <2>1 DEF MembersOf
  <2>3. i = j /\ k = l
    BY <2>1, <2>2, <1>4, DevicesAssumption DEF Inputs, RenderedOf
  <2> QED BY <2>2, <2>3
<1>5. (\A j \in 1 .. k : IsOn(i, svd[i].names[j])) <=> gate \subseteq enabled
  BY <1>2 DEF IsOn
<1>6. Present(member, enabled) <=> gate \subseteq enabled
  BY DEF Present
<1> QED BY <1>3, <1>4, <1>5, <1>6 DEF IsMember

\* No instance is a member whose features are off, and all of a peripheral are
\* members if all of them are enabled.
THEOREM EnabledCorrect == Spec => []EnabledIsMember
<1>1. ASSUME CrateInv, stage = "built", NEW i \in DOMAIN svd, HasType(i)
      PROVE  /\ \A n \in Names(i) : IsMember(n) => IsOn(i, n)
             /\ (\A n \in Names(i) : IsOn(i, n)) => \A n \in Names(i) : IsMember(n)
  <2>1. DOMAIN svd[i].names = 1 .. Len(svd[i].names) /\ Len(svd[i].names) \in Nat
    BY <1>1, DeviceShape DEF CrateInv
  <2>2. ASSUME NEW n \in Names(i)
        PROVE  \E k \in DOMAIN svd[i].names : n = svd[i].names[k]
    BY DEF Names, Range
  <2>3. \A k \in DOMAIN svd[i].names : svd[i].names[k] \in Names(i)
    BY DEF Names, Range
  <2>4. ASSUME NEW n \in Names(i), IsMember(n) PROVE IsOn(i, n)
    <3>1. PICK k \in DOMAIN svd[i].names : n = svd[i].names[k]
      BY <2>2
    <3>2. k \in 1 .. k
      BY <2>1, <3>1
    <3> QED BY <1>1, <2>4, <3>1, <3>2, MemberIff
  <2>5. ASSUME \A n \in Names(i) : IsOn(i, n), NEW n \in Names(i) PROVE IsMember(n)
    <3>1. PICK k \in DOMAIN svd[i].names : n = svd[i].names[k]
      BY <2>2
    <3>2. \A j \in 1 .. k : svd[i].names[j] \in Names(i)
      BY <2>1, <2>3, <3>1
    <3> QED BY <1>1, <2>5, <3>1, <3>2, MemberIff
  <2> QED BY <2>4, <2>5
<1>2. CrateInv => EnabledIsMember
  BY <1>1 DEF EnabledIsMember
<1> QED BY <1>2, CrateCorrect, PTL

\* The block of an enabled peripheral is there: its own module, or that of the
\* base, which is an array or not.
LEMMA BlockThere ==
  ASSUME CrateInv, stage = "built", BasesOn,
         NEW i \in RenderedOf(rendered), ~IsRiscv(i), HasBlock(Root(i)),
         NEW n \in Names(i), GroupGate(GroupOf(i)) \cup OwnGate(n) \subseteq enabled
  PROVE  \E m \in modules : m.module = Root(i) /\ ModulePresent(m, enabled)
<1> USE DEF CrateInv
<1> DEFINE b == Root(i)
<1>1. /\ i \in DOMAIN svd /\ b \in DOMAIN svd /\ svd[b].base = {} /\ Root(b) = b
      /\ svd[i].base = {} => b = i
      /\ svd[i].base # {} => b \in svd[i].base
  BY DeviceShape DEF RenderedOf
<1>2. b \in RenderedOf(rendered) /\ ~IsRiscv(b)
  <2>1. HasType(b) /\ ~IsRiscv(b)
    BY DEF HasBlock, HasType, IsCore, IsRiscv, IsEmpty
  <2> QED BY <1>1, <2>1, DeviceShape DEF RenderedOf, Emitted
<1>3. ModuleOf(b) \in modules
  BY <1>2 DEF Emitted
<1>4. ModuleOf(b) = IF svd[b].array THEN [module |-> b, gate |-> GroupGate(GroupOf(b)), any |-> {}]
                    ELSE [module |-> b, any |-> {},
                          gate |-> GroupGate(GroupOf(b)) \cup UNION {OwnGate(x) : x \in Names(b)}]
  BY <1>1 DEF ModuleOf
<1>5. GroupGate(GroupOf(b)) \subseteq enabled /\ \A x \in Names(b) : svd[b].array \/ OwnGate(x) \subseteq enabled
  <2>1. CASE svd[i].base = {}
    <3>1. ~svd[b].array => Names(b) = {n}
      <4> SUFFICES ASSUME ~svd[b].array PROVE Names(b) = {n}
        OBVIOUS
      <4>1. Len(svd[b].names) = 1 /\ DOMAIN svd[b].names = {1}
        BY <1>1, DeviceShape
      <4> QED BY <4>1, <2>1, <1>1 DEF Names, Range
    <3> QED BY <3>1, <2>1, <1>1
  <2>2. CASE svd[i].base # {}
    <3>1. GroupOf(b) = svd[b].group
      BY <1>1 DEF GroupOf
    <3>2. GroupGate(svd[i].group) \subseteq GroupGate(GroupOf(i))
      BY DEF GroupGate, GroupOf
    <3>3. IsOn(i, n)
      BY <3>2 DEF IsOn
    <3>4. \A x \in Names(b) : IsOn(b, x)
      BY <3>3, <2>2, <1>1 DEF BasesOn
    <3>5. Names(b) # {}
      <4>1. svd[b].names \in Seq(Range(svd[b].names)) /\ svd[b].names # <<>>
        BY <1>1, DeviceShape
      <4>2. 1 \in DOMAIN svd[b].names
        BY <4>1
      <4> QED BY <4>2 DEF Names, Range
    <3> QED BY <3>1, <3>4, <3>5 DEF IsOn
  <2> QED BY <2>1, <2>2
<1>6. ModulePresent(ModuleOf(b), enabled) /\ ModuleOf(b).module = b
  BY <1>4, <1>5 DEF ModulePresent, Present
<1> QED BY <1>3, <1>6

\* Types find their register blocks, and members their types.
THEOREM TypesCorrect == Spec => []TypesResolve
<1>1. CrateInv => TypesResolve
  <2> SUFFICES ASSUME CrateInv, stage = "built" PROVE TypesResolve
    BY DEF TypesResolve
  <2> USE DEF CrateInv
  <2>1. ASSUME BasesOn, NEW t \in types, Present(t, enabled), HasBlock(t.module)
        PROVE  \E m \in modules : m.module = t.module /\ ModulePresent(m, enabled)
    <3>1. PICK i \in RenderedOf(rendered) : t \in TypesOf(i)
      BY DEF Emitted
    <3>2. PICK n \in Names(i) :
            t = [name |-> n, module |-> IF IsRiscv(i) THEN i ELSE Root(i),
                 gate |-> IF IsRiscv(i) THEN {} ELSE GroupGate(GroupOf(i)) \cup OwnGate(n)]
      BY <3>1 DEF TypesOf
    <3>3. ~IsRiscv(i)
      BY <3>2, <2>1 DEF IsRiscv, HasBlock
    <3>4. t.module = Root(i) /\ GroupGate(GroupOf(i)) \cup OwnGate(n) \subseteq enabled
      BY <3>2, <3>3, <2>1 DEF Present
    <3> QED BY <3>3, <3>4, <2>1, BlockThere
  <2>2. ASSUME \A i \in DOMAIN svd : config.feature_group => svd[i].group = GroupOf(i),
               NEW m \in members, Present(m, enabled)
        PROVE  \E t \in types : t.name = m.name /\ Present(t, enabled)
    <3>1. PICK i \in RenderedOf(rendered) : m \in MembersOf(i)
      BY DEF Emitted
    <3>2. PICK k \in DOMAIN svd[i].names :
            m = [name |-> svd[i].names[k],
                 gate |-> GroupGate(svd[i].group) \cup UNION {OwnGate(svd[i].names[j]) : j \in 1 .. k}]
      BY <3>1 DEF MembersOf
    <3> DEFINE n == svd[i].names[k]
               t == [name |-> n, module |-> IF IsRiscv(i) THEN i ELSE Root(i),
                     gate |-> IF IsRiscv(i) THEN {} ELSE GroupGate(GroupOf(i)) \cup OwnGate(n)]
    <3>3. i \in DOMAIN svd /\ k \in 1 .. k
      BY <3>1, DeviceShape DEF RenderedOf
    <3>4. t \in types
      <4>1. n \in Names(i)
        BY DEF Names, Range
      <4>2. t \in TypesOf(i)
        BY <4>1 DEF TypesOf
      <4> QED BY <4>2, <3>1 DEF Emitted
    <3>5. GroupGate(svd[i].group) = GroupGate(GroupOf(i))
      BY <2>2, <3>3 DEF GroupGate
    <3>6. GroupGate(svd[i].group) \cup OwnGate(n) \subseteq enabled
      BY <3>2, <3>3, <2>2 DEF Present
    <3>7. Present(t, enabled)
      BY <3>5, <3>6 DEF Present
    <3> QED BY <3>2, <3>4, <3>7
  <2> QED BY <2>1, <2>2 DEF TypesResolve
<1> QED BY <1>1, CrateCorrect, PTL

\* The unlock register of a crate without a shifted base is within reach of `out'.
THEOREM UnlockCorrect == Spec => []UnlockInReach
<1>1. CrateInv => UnlockInReach
  BY DEF CrateInv, Unlocked, UnlockInReach
<1> QED BY <1>1, CrateCorrect, PTL

\* Protected registers are implemented for types in modules that are there.
THEOREM ProtectionCorrect == Spec => []ProtectionResolves
<1>1. CrateInv => ProtectionResolves
  <2> SUFFICES ASSUME CrateInv, stage = "built", NEW k \in DOMAIN protected,
                      \A n \in Names(protected[k].module) : IsOn(protected[k].module, n),
                      GroupGate(GroupOf(protected[k].module)) \subseteq enabled
               PROVE  \E m \in modules : m.module = protected[k].module /\ ModulePresent(m, enabled)
    BY DEF ProtectionResolves
  <2> USE DEF CrateInv
  <2> DEFINE i == protected[k].module
  <2>1. config.target = "Avr" /\ i \in DOMAIN svd /\ ~svd[i].array /\ svd[Root(i)].registers # {}
    BY DEF Resolved, Found
  <2>2. ~IsRiscv(i) /\ ~IsCore(i)
    BY <2>1, DevicesAssumption DEF IsRiscv, IsCore, Inputs
  <2>3. HasType(i)
    BY <2>1, <2>2, DeviceShape DEF HasType, IsEmpty
  <2>4. ModuleOf(i) \in modules
    BY <2>1, <2>2, <2>3, DeviceShape DEF Emitted, RenderedOf
  <2>5. ModuleOf(i) = [module |-> i, any |-> {},
                       gate |-> GroupGate(GroupOf(i)) \cup UNION {OwnGate(n) : n \in Names(i)}]
    BY <2>1 DEF ModuleOf
  <2>6. ModulePresent(ModuleOf(i), enabled)
    BY <2>5 DEF ModulePresent, Present, IsOn
  <2> QED BY <2>4, <2>5, <2>6
<1> QED BY <1>1, CrateCorrect, PTL

----------------------------------------------------------------------------
(* Features *)

\* The HashMap of interrupts has for each number one that the file lists.
LEMMA ListingChosen ==
  ASSUME Inputs, NEW v \in Numbers
  PROVE  (CHOOSE l \in Listings(v) : IsLast(l, v)) \in Listings(v)
<1> DEFINE I == {i \in DOMAIN svd : \E k \in DOMAIN svd[i].interrupts : svd[i].interrupts[k].value = v}
<1>1. I \in SUBSET (1 .. Len(svd)) /\ I # {} /\ Len(svd) \in Nat
  BY DeviceShape DEF Numbers
<1>2. PICK a \in I : \A i \in I : i <= a
  <2> HIDE DEF I
  <2> QED BY <1>1, LargestOf
<1> DEFINE ints == svd[a].interrupts
           K == {k \in DOMAIN ints : ints[k].value = v}
<1>3. ints \in Seq(Range(ints))
  BY DevicesAssumption DEF Inputs
<1>4. K \in SUBSET (1 .. Len(ints)) /\ K # {} /\ Len(ints) \in Nat
  BY <1>3
<1>5. PICK b \in K : \A k \in K : k <= b
  <2> HIDE DEF K, ints
  <2> QED BY <1>4, LargestOf
<1>6. <<a, b>> \in Listings(v)
  BY DEF Listings
<1>7. IsLast(<<a, b>>, v)
  <2> SUFFICES ASSUME NEW m \in Listings(v) PROVE m[1] < a \/ (m[1] = a /\ m[2] <= b)
    BY DEF IsLast
  <2>1. m[1] \in I /\ m[2] \in DOMAIN svd[m[1]].interrupts /\ svd[m[1]].interrupts[m[2]].value = v
    BY DEF Listings
  <2>2. m[1] \in Nat /\ a \in Nat /\ m[1] <= a
    BY <2>1, <1>1, <1>2
  <2>3. m[1] = a => m[2] \in K
    BY <2>1
  <2> QED BY <2>2, <2>3, <1>5
<1> QED BY <1>6, <1>7

\* An interrupt takes the gate of a peripheral of the file.
GatedByFile(e) ==
  \E i \in DOMAIN svd : e.gate \subseteq GroupGate(svd[i].group) \cup OwnGate(svd[i].names[1])

LEMMA InterruptGated ==
  ASSUME Inputs, NEW v \in Numbers
  PROVE  GatedByFile(Interrupt(v))
<1> DEFINE l == CHOOSE l \in Listings(v) : IsLast(l, v)
<1>1. l[1] \in DOMAIN svd
  <2>1. l \in Listings(v)
    BY ListingChosen
  <2> HIDE DEF l
  <2> QED BY <2>1 DEF Listings
<1>2. Interrupt(v).gate \subseteq GroupGate(svd[l[1]].group) \cup OwnGate(svd[l[1]].names[1])
  BY DEF Interrupt
<1> QED BY <1>1, <1>2 DEF GatedByFile

\* Every interrupt rendered is one of the file.
EntriesInv == Inputs /\ \A e \in entries : GatedByFile(e)

LEMMA EntriesStay ==
  ASSUME EntriesInv, UNCHANGED <<svd, config, entries>>
  PROVE  EntriesInv'
BY DEF EntriesInv, Inputs, GatedByFile, GroupGate, OwnGate

LEMMA EntriesKeep == EntriesInv /\ [Next]_vars => EntriesInv'
<1> SUFFICES ASSUME EntriesInv, [Next]_vars PROVE EntriesInv'
  OBVIOUS
<1>1. CASE RenderInterrupts
  <2>1. CASE \E v \in Numbers : RenderInterrupt(v) \/ RenderExternalInterrupt(v)
    <3>1. PICK v \in Numbers : entries' = entries \cup {Interrupt(v)}
      BY <2>1 DEF RenderInterrupt, RenderExternalInterrupt
    <3>2. GatedByFile(Interrupt(v))
      BY InterruptGated DEF EntriesInv
    <3>3. \A e \in entries' : GatedByFile(e)
      BY <3>1, <3>2 DEF EntriesInv
    <3>4. UNCHANGED <<svd, config>>
      BY <1>1 DEF RenderInterrupts
    <3> QED BY <3>3, <3>4 DEF EntriesInv, Inputs, GatedByFile, GroupGate, OwnGate
  <2>2. CASE RenderTarget
    BY <1>1, <2>2, EntriesStay DEF RenderInterrupts, RenderTarget
  <2> QED BY <1>1, <2>1, <2>2 DEF RenderInterrupts
<1>2. CASE \E i \in DOMAIN svd : SkipPeripheral(i) \/ RenderPeripheral(i)
  BY <1>2, EntriesStay DEF SkipPeripheral, RenderPeripheral, tableVars
<1>3. CASE RenderCcp \/ FailCcp \/ WriteCrate \/ Build
  BY <1>3, EntriesStay DEF RenderCcp, FailCcp, WriteCrate, Build, tableVars
<1>4. CASE UNCHANGED vars
  BY <1>4, EntriesStay DEF vars, tableVars
<1> QED BY <1>1, <1>2, <1>3, <1>4 DEF Next, Ended

\* What features.toml counts: an instance has a name of its own.
LEMMA InstancesCounted ==
  ASSUME Inputs, NEW f
  PROVE  /\ Cardinality(InstancesNamed(f)) \in Nat
         /\ \A i \in DOMAIN svd : f \in Names(i) => Cardinality(InstancesNamed(f)) > 0
<1>1. ASSUME NEW i \in DOMAIN svd, f \in Names(i)
      PROVE  Cardinality(InstancesNamed(f)) = 1
  <2>1. PICK k \in DOMAIN svd[i].names : svd[i].names[k] = f
    BY <1>1 DEF Names, Range
  <2>2. \A j \in DOMAIN svd : \A l \in DOMAIN svd[j].names : svd[j].names[l] = f => j = i /\ l = k
    BY <2>1, DevicesAssumption DEF Inputs
  <2>3. InstancesNamed(f) = {<<i, k>>}
    BY <2>1, <2>2 DEF InstancesNamed
  <2> QED BY <2>3, FS_Singleton
<1>2. CASE \A i \in DOMAIN svd : f \notin Names(i)
  <2>1. InstancesNamed(f) = {}
    BY <1>2 DEF InstancesNamed, Names, Range
  <2> QED BY <2>1, <1>2, FS_EmptySet
<1> QED BY <1>1, <1>2

LEMMA GatesDeclared ==
  ASSUME Inputs, NEW i \in DOMAIN svd
  PROVE  /\ GroupGate(svd[i].group) \subseteq Declared
         /\ \A n \in Names(i) : OwnGate(n) \subseteq Declared
         /\ config.feature_peripheral => Names(i) \subseteq Declared
<1>1. ASSUME NEW f \in svd[i].group, config.feature_group PROVE f \in Declared
  <2>1. f \in GroupNames
    BY DEF GroupNames
  <2>2. Declarations(f) > 0
    BY <1>1, <2>1, InstancesCounted DEF Declarations
  <2> QED BY <2>1, <2>2 DEF Declared
<1>2. ASSUME NEW f \in Names(i), config.feature_peripheral PROVE f \in Declared
  <2>1. Declarations(f) > 0
    BY <1>2, InstancesCounted DEF Declarations
  <2> QED BY <2>1 DEF Declared
<1> QED BY <1>1, <1>2 DEF GroupGate, OwnGate

\* No gate asks for a feature that features.toml does not declare, so there is a
\* build for everything that is generated.
THEOREM GatesCorrect == Spec => []EveryItemCanBeBuilt
<1>1. Init => EntriesInv
  BY DEF Init, TableInit, EntriesInv, Inputs
<1>2. CrateInv /\ EntriesInv => EveryItemCanBeBuilt
  <2> SUFFICES ASSUME CrateInv, EntriesInv
               PROVE  /\ \A x \in types \cup members \cup entries : x.gate \subseteq Declared
                      /\ \A m \in modules :
                           \/ ModulePresent(m, Declared)
                           \/ svd[m.module].array /\ svd[m.module].base # {} /\ ~config.feature_peripheral
    BY DEF EveryItemCanBeBuilt, Present
  <2>1. Inputs /\ \A i \in RenderedOf(rendered) : i \in DOMAIN svd /\ Root(i) \in DOMAIN svd
    BY DeviceShape DEF CrateInv, RenderedOf
  <2>2. \A i \in DOMAIN svd : Root(i) \in DOMAIN svd => GroupGate(GroupOf(i)) \subseteq Declared
    BY <2>1, GatesDeclared DEF GroupOf
  <2>3. \A i \in DOMAIN svd : DOMAIN svd[i].names = 1 .. Len(svd[i].names) /\ 1 \in DOMAIN svd[i].names
    BY <2>1, DeviceShape
  <2>4. \A i \in DOMAIN svd : \A k \in DOMAIN svd[i].names : svd[i].names[k] \in Names(i)
    BY DEF Names, Range
  <2>5. ASSUME NEW x \in types PROVE x.gate \subseteq Declared
    <3>1. PICK i \in RenderedOf(rendered) : x \in TypesOf(i)
      BY DEF CrateInv, Emitted
    <3> QED BY <3>1, <2>1, <2>2, GatesDeclared DEF TypesOf
  <2>6. ASSUME NEW x \in members PROVE x.gate \subseteq Declared
    <3>1. PICK i \in RenderedOf(rendered) : x \in MembersOf(i)
      BY DEF CrateInv, Emitted
    <3>2. PICK k \in DOMAIN svd[i].names :
            x.gate = GroupGate(svd[i].group) \cup UNION {OwnGate(svd[i].names[j]) : j \in 1..k}
      BY <3>1 DEF MembersOf
    <3>3. \A j \in 1..k : svd[i].names[j] \in Names(i)
      BY <2>1, <2>3, <2>4, DeviceShape
    <3> QED BY <3>2, <3>3, <2>1, GatesDeclared
  <2>7. ASSUME NEW x \in entries PROVE x.gate \subseteq Declared
    <3>1. PICK i \in DOMAIN svd : x.gate \subseteq GroupGate(svd[i].group) \cup OwnGate(svd[i].names[1])
      BY DEF EntriesInv, GatedByFile
    <3> QED BY <3>1, <2>1, <2>3, <2>4, GatesDeclared
  <2>8. ASSUME NEW m \in modules
        PROVE  \/ ModulePresent(m, Declared)
               \/ svd[m.module].array /\ svd[m.module].base # {} /\ ~config.feature_peripheral
    <3>1. PICK i \in RenderedOf(rendered) : m = ModuleOf(i)
      BY DEF CrateInv, Emitted
    <3>2. GroupGate(GroupOf(i)) \cup UNION {OwnGate(n) : n \in Names(i)} \subseteq Declared
      BY <2>1, <2>2, GatesDeclared
    <3>3. m.module = i
      BY <3>1 DEF ModuleOf
    <3>4. CASE svd[i].array /\ svd[i].base # {}
      BY <3>1, <3>3, <3>4, <2>1, <2>3, <2>4, GatesDeclared DEF ModuleOf, ModulePresent, Present
    <3>5. CASE ~(svd[i].array /\ svd[i].base # {})
      BY <3>1, <3>2, <3>5 DEF ModuleOf, ModulePresent, Present
    <3> QED BY <3>4, <3>5
  <2> QED BY <2>5, <2>6, <2>7, <2>8
<1> QED BY <1>1, <1>2, EntriesKeep, CrateCorrect, PTL DEF Spec

----------------------------------------------------------------------------
(* The interrupt table *)

\* f[k] is what the first k elements of seq leave in a build.
KeptAt(f, seq, on, k) ==
  IF k = 0 THEN <<>>
  ELSE IF k \in DOMAIN seq /\ InBuild(seq[k], on) THEN Append(f[k - 1], seq[k])
  ELSE f[k - 1]
IsKept(f, seq, on) == f = [k \in Nat |-> KeptAt(f, seq, on, k)]

KeptBy(f, S, seq, on) ==
  /\ f \in [Nat -> Seq(S)] /\ (\A k \in Nat : f[k] = KeptAt(f, seq, on, k))
  /\ Compiled(seq, on) = f[Len(seq)]

LEMMA KeptSolves ==
  ASSUME NEW S, NEW seq \in Seq(S), NEW on
  PROVE  \E f : KeptBy(f, S, seq, on)
<1> DEFINE step == [p \in Nat \X Seq(S) |->
                      IF p[1] + 1 \in DOMAIN seq /\ InBuild(seq[p[1] + 1], on)
                      THEN Append(p[2], seq[p[1] + 1]) ELSE p[2]]
           base == <<>>
           T == Seq(S)
           l == CHOOSE f : IsKept(f, seq, on)
<1>1. step \in [Nat \X T -> T] /\ base \in T
  OBVIOUS
<1>2. \E f : Recursion(f, T, base, step)
  <2> HIDE DEF T, base, step
  <2> QED BY <1>1, RecursionHasSolution
<1>3. PICK f : Recursion(f, T, base, step)
  <2> HIDE DEF T, base, step
  <2> QED BY <1>2
<1>4. f \in [Nat -> T] /\ f[0] = <<>> /\ \A n \in Nat : f[n + 1] = step[<<n, f[n]>>]
  BY <1>3 DEF Recursion
<1>5. \A n \in Nat : f[n + 1] = IF n + 1 \in DOMAIN seq /\ InBuild(seq[n + 1], on)
                                THEN Append(f[n], seq[n + 1]) ELSE f[n]
  BY <1>4
<1>6. IsKept(f, seq, on)
  <2>1. ASSUME NEW k \in Nat PROVE f[k] = KeptAt(f, seq, on, k)
    <3>1. CASE k # 0
      <4>1. k - 1 \in Nat /\ (k - 1) + 1 = k
        BY <3>1
      <4> QED BY <4>1, <3>1, <1>5 DEF KeptAt
    <3> QED BY <3>1, <1>4 DEF KeptAt
  <2>2. f = [k \in Nat |-> f[k]]
    BY <1>4
  <2> QED BY <2>1, <2>2 DEF IsKept
<1>7. IsKept(l, seq, on)
  BY <1>6
<1>8. Compiled(seq, on) = l[Len(seq)]
  BY DEF Compiled, IsKept, KeptAt
<1>9. l \in [Nat -> T]
  <2> DEFINE I == {n \in Nat : l[n] \in T}
  <2> HIDE DEF l
  <2>1. \A n \in Nat : l[n] = KeptAt(l, seq, on, n)
    BY <1>7 DEF IsKept
  <2>2. 0 \in I
    <3>1. l[0] = <<>>
      BY <2>1 DEF KeptAt
    <3>2. <<>> \in T
      OBVIOUS
    <3> HIDE DEF T
    <3> QED BY <3>1, <3>2
  <2>3. ASSUME NEW n \in Nat, n \in I PROVE n + 1 \in I
    <3>1. l[n + 1] = IF n + 1 \in DOMAIN seq /\ InBuild(seq[n + 1], on)
                     THEN Append(l[n], seq[n + 1]) ELSE l[n]
      BY <2>1 DEF KeptAt
    <3>2. l[n] \in Seq(S) /\ \A k \in DOMAIN seq : seq[k] \in S
      BY <2>3
    <3>3. l[n + 1] \in Seq(S)
      <4>1. CASE n + 1 \in DOMAIN seq /\ InBuild(seq[n + 1], on)
        BY <3>1, <3>2, <4>1
      <4> QED BY <3>1, <3>2, <4>1
    <3> QED BY <3>3
  <2>4. \A n \in Nat : n \in I
    <3> HIDE DEF I
    <3> QED BY <2>2, <2>3, NatInductionOnSet
  <2>5. l = [k \in Nat |-> l[k]]
    BY <1>7 DEF IsKept
  <2> QED BY <2>4, <2>5
<1>10. \A k \in Nat : l[k] = KeptAt(l, seq, on, k)
  <2> HIDE DEF l
  <2> QED BY <1>7 DEF IsKept
<1> HIDE DEF l
<1> QED BY <1>8, <1>9, <1>10 DEF KeptBy

\* What a build keeps of one element more.
LEMMA KeptAppend ==
  ASSUME NEW S, NEW seq \in Seq(S), NEW x \in S, NEW on
  PROVE  /\ Compiled(seq, on) \in Seq(S)
         /\ Compiled(Append(seq, x), on) =
              IF InBuild(x, on) THEN Append(Compiled(seq, on), x) ELSE Compiled(seq, on)
<1> DEFINE n == Len(seq)
           more == Append(seq, x)
<1>1. more \in Seq(S) /\ Len(more) = n + 1 /\ n \in Nat /\ more[n + 1] = x
  OBVIOUS
<1>2. \A k \in 1 .. n : k \in DOMAIN seq /\ k \in DOMAIN more /\ more[k] = seq[k]
  OBVIOUS
<1>3. n + 1 \in DOMAIN more
  OBVIOUS
<1>4. PICK f : KeptBy(f, S, seq, on)
  BY KeptSolves
<1> HIDE DEF more
<1>5. PICK g : KeptBy(g, S, more, on)
  BY <1>1, KeptSolves
<1> USE DEF KeptBy
<1> DEFINE I == {k \in Nat : k <= n => f[k] = g[k]}
<1>6. 0 \in I
  BY <1>4, <1>5 DEF KeptAt
<1>7. ASSUME NEW k \in Nat, k \in I PROVE k + 1 \in I
  <2> SUFFICES ASSUME k + 1 <= n PROVE f[k + 1] = g[k + 1]
    OBVIOUS
  <2>1. f[k] = g[k] /\ k + 1 \in 1 .. n
    BY <1>7, <1>1
  <2>2. f[k + 1] = KeptAt(f, seq, on, k + 1) /\ g[k + 1] = KeptAt(g, more, on, k + 1)
    BY <1>4, <1>5
  <2>3. KeptAt(f, seq, on, k + 1) = KeptAt(g, more, on, k + 1)
    <3>1. (k + 1) - 1 = k /\ k + 1 # 0
      OBVIOUS
    <3>2. k + 1 \in DOMAIN seq /\ k + 1 \in DOMAIN more /\ more[k + 1] = seq[k + 1]
      BY <2>1, <1>2
    <3> QED BY <2>1, <3>1, <3>2, Zenon DEF KeptAt
  <2> QED BY <2>2, <2>3
<1>8. f[n] = g[n]
  <2>1. n \in I
    <3> HIDE DEF I
    <3> QED BY <1>1, <1>6, <1>7, NatInductionOnSet
  <2> QED BY <2>1, <1>1
<1>9. g[n + 1] = IF InBuild(x, on) THEN Append(g[n], x) ELSE g[n]
  <2>1. g[n + 1] = KeptAt(g, more, on, n + 1)
    BY <1>1, <1>5
  <2> QED BY <2>1, <1>1, <1>3 DEF KeptAt
<1> QED BY <1>4, <1>5, <1>8, <1>9 DEF more

LEMMA KeptEmpty ==
  ASSUME NEW on
  PROVE  Compiled(<<>>, on) = <<>>
<1>1. <<>> \in Seq({}) /\ Len(<<>>) = 0
  OBVIOUS
<1> DEFINE none == <<>>
<1>2. \E f : KeptBy(f, {}, none, on)
  <2> HIDE DEF none
  <2>1. none \in Seq({})
    BY <1>1 DEF none
  <2> QED BY <2>1, KeptSolves
<1> QED BY <1>1, <1>2 DEF KeptBy, KeptAt

\* Reserved vectors are in every build.
LEMMA KeptGap ==
  ASSUME NEW S, Reserved \in S, NEW seq \in Seq(S), NEW on, NEW m \in Nat
  PROVE  Compiled(seq \o [n \in 1 .. m |-> Reserved], on) = Compiled(seq, on) \o [n \in 1 .. m |-> Reserved]
<1> DEFINE Filler(k) == [n \in 1 .. k |-> Reserved]
           I == {k \in Nat : Compiled(seq \o Filler(k), on) = Compiled(seq, on) \o Filler(k)}
<1>1. Compiled(seq, on) \in Seq(S)
  BY KeptAppend
<1>2. \A k \in Nat : Filler(k) \in Seq(S) /\ Len(Filler(k)) = k
  OBVIOUS
<1>3. ASSUME NEW t \in Seq(S), NEW k \in Nat PROVE t \o Filler(k + 1) = Append(t \o Filler(k), Reserved)
  OBVIOUS
<1>4. 0 \in I
  <2>1. \A t \in Seq(S) : t \o Filler(0) = t
    OBVIOUS
  <2> QED BY <2>1, <1>1
<1>5. ASSUME NEW k \in Nat, k \in I PROVE k + 1 \in I
  <2>1. InBuild(Reserved, on)
    BY DEF InBuild, Reserved, Vector
  <2> HIDE DEF Filler
  <2>2. seq \o Filler(k) \in Seq(S)
    BY <1>2
  <2>3. Compiled(Append(seq \o Filler(k), Reserved), on) = Append(Compiled(seq \o Filler(k), on), Reserved)
    BY <2>1, <2>2, KeptAppend
  <2>4. seq \o Filler(k + 1) = Append(seq \o Filler(k), Reserved)
    BY <1>3
  <2>5. Compiled(seq, on) \o Filler(k + 1) = Append(Compiled(seq, on) \o Filler(k), Reserved)
    BY <1>1, <1>3
  <2>6. Compiled(seq \o Filler(k), on) = Compiled(seq, on) \o Filler(k)
    BY <1>5
  <2>7. Compiled(seq \o Filler(k + 1), on) = Compiled(seq, on) \o Filler(k + 1)
    BY <2>3, <2>4, <2>5, <2>6
  <2> QED BY <2>7
<1> QED
  <2>1. m \in I
    <3> HIDE DEF I
    <3> QED BY <1>4, <1>5, NatInductionOnSet
  <2> QED BY <2>1
\* The elements of an interrupt leave one vector in every build.
LEMMA KeptVectors ==
  ASSUME NEW S, NEW seq \in Seq(S), NEW e, Range(VectorsOf(e)) \subseteq S, NEW on
  PROVE  \E x \in S :
           /\ Compiled(seq \o VectorsOf(e), on) = Append(Compiled(seq, on), x)
           /\ x.handler = IF Present(e, on) THEN {e.name} ELSE {}
<1> DEFINE open == Vector({e.name}, e.gate, FALSE)
           closed == Vector({}, e.gate, TRUE)
<1>1. /\ open.handler = {e.name} /\ closed.handler = {}
      /\ InBuild(open, on) <=> Present(e, on)
      /\ InBuild(closed, on) <=> ~Present(e, on)
  BY DEF Vector, InBuild, Present
<1>2. CASE e.gate = {}
  <2>1. VectorsOf(e) = <<open>>
    BY <1>2 DEF VectorsOf
  <2> HIDE DEF open
  <2>2. open \in S
    <3>1. 1 \in DOMAIN VectorsOf(e) /\ VectorsOf(e)[1] = open
      BY <2>1
    <3> QED BY <3>1 DEF Range
  <2>3. seq \o <<open>> = Append(seq, open)
    BY <2>2
  <2>4. Present(e, on)
    BY <1>2 DEF Present
  <2> QED BY <1>1, <2>1, <2>2, <2>3, <2>4, KeptAppend
<1>3. CASE e.gate # {}
  <2>1. VectorsOf(e) = <<closed, open>>
    BY <1>3 DEF VectorsOf
  <2> HIDE DEF open, closed
  <2>2. open \in S /\ closed \in S
    <3>1. /\ 1 \in DOMAIN VectorsOf(e) /\ VectorsOf(e)[1] = closed
          /\ 2 \in DOMAIN VectorsOf(e) /\ VectorsOf(e)[2] = open
      BY <2>1
    <3> QED BY <3>1 DEF Range
  <2>3. seq \o <<closed, open>> = Append(Append(seq, closed), open) /\ Append(seq, closed) \in Seq(S)
    BY <2>2
  <2>4. Compiled(Append(Append(seq, closed), open), on) =
          IF InBuild(open, on) THEN Append(Compiled(Append(seq, closed), on), open)
          ELSE Compiled(Append(seq, closed), on)
    <3> DEFINE one == Append(seq, closed)
    <3>1. one \in Seq(S)
      BY <2>3
    <3> HIDE DEF one
    <3>2. Compiled(Append(one, open), on) =
            IF InBuild(open, on) THEN Append(Compiled(one, on), open) ELSE Compiled(one, on)
      BY <3>1, <2>2, KeptAppend
    <3> QED BY <3>2 DEF one
  <2>5. Compiled(Append(seq, closed), on) =
          IF InBuild(closed, on) THEN Append(Compiled(seq, on), closed) ELSE Compiled(seq, on)
    BY <2>2, KeptAppend
  <2>6. CASE Present(e, on)
    BY <1>1, <2>1, <2>2, <2>3, <2>4, <2>5, <2>6
  <2>7. CASE ~Present(e, on)
    BY <1>1, <2>1, <2>2, <2>3, <2>4, <2>5, <2>7
  <2> QED BY <2>6, <2>7
<1> QED BY <1>2, <1>3

\* The vectors that this device can have.
Vectors == {Reserved} \cup UNION {Range(VectorsOf(Interrupt(v))) : v \in Numbers}

\* The handlers of number n in a build.
Filled(n, on) == {e.name : e \in {d \in entries : d.value = n /\ Present(d, on)}}

\* What is rendered is the interrupts below the position, each as the file has it last.
Sorted ==
  /\ pos \in Nat
  /\ \A e \in entries : e.value \in Numbers /\ e = Interrupt(e.value)
  /\ ~config.riscv =>
       /\ \A v \in RenderedNumbers : v < pos
       /\ \A v \in Numbers \ RenderedNumbers : v >= pos
  /\ stage # "interrupts" =>
       /\ RenderedNumbers = Numbers
       /\ HasTable => provided = {e.name : e \in entries}

\* Whatever a build has, its table is as long as the position, and each vector
\* has the handlers of its number.
InPlace ==
  /\ elements \in Seq(Vectors)
  /\ ~config.riscv => \A on :
       /\ Len(Table(on)) = pos
       /\ \A n \in 1 .. pos : Table(on)[n].handler = Filled(n - 1, on)

TableInv == Inputs /\ Sorted /\ InPlace

\* Interrupts have numbers.
LEMMA NumbersNat == Inputs => Numbers \subseteq Nat
<1> SUFFICES ASSUME Inputs, NEW i \in DOMAIN svd, NEW k \in DOMAIN svd[i].interrupts
             PROVE  svd[i].interrupts[k].value \in Nat
  BY DEF Numbers
<1>1. svd[i].interrupts[k] \in Range(svd[i].interrupts)
  BY DEF Range
<1> QED BY <1>1, DevicesAssumption DEF Inputs

LEMMA InterruptHas ==
  ASSUME NEW v
  PROVE  Interrupt(v).value = v
BY DEF Interrupt

\* One iteration of the loop fills the gap and adds one vector.
LEMMA TableGrows ==
  ASSUME TableInv, NEW v \in Numbers, RenderInterrupt(v), NEW on
  PROVE  \E x :
           /\ Compiled(elements', on) = Append(Table(on) \o Gap(v), x)
           /\ Table(on) \in Seq(Vectors) /\ v - pos \in Nat
           /\ x \in Vectors
           /\ x.handler = IF Present(Interrupt(v), on) THEN {Interrupt(v).name} ELSE {}
<1> DEFINE e == Interrupt(v)
           m == v - pos
<1>1. m \in Nat
  BY NumbersNat DEF TableInv, Sorted, RenderInterrupt
<1>2. elements \in Seq(Vectors) /\ Reserved \in Vectors /\ Gap(v) = [n \in 1 .. m |-> Reserved]
  BY DEF TableInv, InPlace, Vectors, Gap
<1> HIDE DEF m
<1>3. Compiled(elements \o Gap(v), on) = Table(on) \o Gap(v)
  BY <1>1, <1>2, KeptGap DEF Table
<1>4. Gap(v) \in Seq(Vectors) /\ elements \o Gap(v) \in Seq(Vectors)
  BY <1>1, <1>2
<1>5. Range(VectorsOf(e)) \subseteq Vectors
  BY DEF Vectors
<1>6. elements' = (elements \o Gap(v)) \o VectorsOf(e)
  BY DEF RenderInterrupt
<1>7. Table(on) \in Seq(Vectors)
  BY <1>2, KeptAppend DEF Table
<1> HIDE DEF e
<1>8. PICK x \in Vectors :
        /\ Compiled((elements \o Gap(v)) \o VectorsOf(e), on) = Append(Compiled(elements \o Gap(v), on), x)
        /\ x.handler = IF Present(e, on) THEN {e.name} ELSE {}
  BY <1>4, <1>5, KeptVectors
<1> QED BY <1>1, <1>3, <1>6, <1>7, <1>8 DEF e, m

LEMMA InterruptsStay ==
  ASSUME UNCHANGED <<svd, config>>
  PROVE  /\ Numbers' = Numbers /\ Vectors' = Vectors
         /\ \A u : Interrupt(u)' = Interrupt(u) /\ Listings(u)' = Listings(u)
<1>1. Numbers' = Numbers
  BY DEF Numbers
<1>2. \A u : Listings(u)' = Listings(u)
  BY DEF Listings
<1>3. \A u, l : IsLast(l, u)' <=> IsLast(l, u)
  BY <1>2 DEF IsLast
<1>4. ASSUME NEW u PROVE Interrupt(u)' = Interrupt(u)
  <2>1. (CHOOSE l \in Listings(u) : IsLast(l, u))' = CHOOSE l \in Listings(u) : IsLast(l, u)
    BY <1>2, <1>3
  <2> QED BY <2>1 DEF Interrupt, GroupGate, OwnGate
<1>5. Vectors' = Vectors
  BY <1>1, <1>4 DEF Vectors, Reserved, Vector, VectorsOf
<1> QED BY <1>1, <1>2, <1>4, <1>5

\* Numbers are visited in order.
LEMMA SortedGrows ==
  ASSUME TableInv, NEW v \in Numbers, RenderInterrupt(v), UNCHANGED <<svd, config, stage>>,
         stage = "interrupts"
  PROVE  Sorted'
<1> USE DEF TableInv, Sorted
<1>1. pos' = v + 1 /\ v \in Nat /\ entries' = entries \cup {Interrupt(v)} /\ v >= pos
  BY NumbersNat DEF RenderInterrupt, After
<1>2. Numbers' = Numbers /\ \A u : Interrupt(u)' = Interrupt(u)
  BY InterruptsStay
<1>3. RenderedNumbers' = RenderedNumbers \cup {v}
  BY <1>1, InterruptHas DEF RenderedNumbers
<1>4. \A e \in entries' : e.value \in Numbers' /\ e = Interrupt(e.value)'
  BY <1>1, <1>2, InterruptHas
<1>5. \A u \in RenderedNumbers' : u < pos'
  <2>1. \A u \in RenderedNumbers : u < pos /\ u \in Nat
    BY NumbersNat DEF RenderedNumbers, RenderInterrupt
  <2> QED BY <2>1, <1>1, <1>3
<1>6. \A u \in Numbers \ RenderedNumbers' : u >= pos'
  <2>1. \A u \in Numbers \ RenderedNumbers' : u >= v /\ u # v /\ u \in Nat
    BY <1>3, NumbersNat DEF RenderInterrupt
  <2> QED BY <2>1, <1>1
<1> QED BY <1>1, <1>2, <1>4, <1>5, <1>6

LEMMA InPlaceGrows ==
  ASSUME TableInv, NEW v \in Numbers, RenderInterrupt(v), UNCHANGED <<svd, config>>
  PROVE  InPlace'
<1> DEFINE e == Interrupt(v)
<1>1. /\ pos' = v + 1 /\ v \in Nat /\ entries' = entries \cup {e} /\ v >= pos /\ pos \in Nat /\ ~config.riscv
      /\ \A d \in entries : d.value < pos /\ d.value \in Nat
  BY NumbersNat DEF RenderInterrupt, After, TableInv, Sorted, RenderedNumbers
<1>2. Vectors' = Vectors
  BY InterruptsStay
<1>3. elements' \in Seq(Vectors)
  <2>1. elements \in Seq(Vectors) /\ Gap(v) \in Seq(Vectors)
    BY <1>1 DEF TableInv, InPlace, Gap, Vectors
  <2>2. VectorsOf(e) \in Seq(Vectors)
    <3>1. Range(VectorsOf(e)) \subseteq Vectors
      BY DEF Vectors
    <3>2. VectorsOf(e) \in Seq(Range(VectorsOf(e)))
      <4> DEFINE open == Vector({e.name}, e.gate, FALSE)
                 closed == Vector({}, e.gate, TRUE)
      <4>1. VectorsOf(e) = <<open>> \/ VectorsOf(e) = <<closed, open>> \/ VectorsOf(e) = <<Vector({e.name}, {}, FALSE)>>
        BY DEF VectorsOf
      <4>2. \A a, b : <<a>> \in Seq(Range(<<a>>)) /\ <<a, b>> \in Seq(Range(<<a, b>>))
        BY DEF Range
      <4> QED BY <4>1, <4>2
    <3> QED BY <3>1, <3>2
  <2> QED BY <2>1, <2>2 DEF RenderInterrupt
<1>4. ASSUME NEW on
      PROVE  /\ Len(Compiled(elements', on)) = pos'
             /\ \A n \in 1 .. pos' : Compiled(elements', on)[n].handler = Filled(n - 1, on)'
  <2>1. PICK x :
          /\ Compiled(elements', on) = Append(Table(on) \o Gap(v), x)
          /\ Table(on) \in Seq(Vectors) /\ v - pos \in Nat
          /\ x \in Vectors
          /\ x.handler = IF Present(e, on) THEN {e.name} ELSE {}
    BY TableGrows
  <2> DEFINE t == Table(on)
             m == v - pos
  <2>2. Len(t) = pos /\ \A n \in 1 .. pos : t[n].handler = Filled(n - 1, on)
    BY <1>1 DEF TableInv, InPlace
  <2>3. Gap(v) \in Seq(Vectors) /\ Len(Gap(v)) = m /\ \A n \in 1 .. m : Gap(v)[n] = Reserved
    BY <2>1 DEF Gap, Vectors
  <2> HIDE DEF t
  <2>4. /\ Len(t \o Gap(v)) = v /\ t \o Gap(v) \in Seq(Vectors)
        /\ \A n \in 1 .. pos : (t \o Gap(v))[n] = t[n]
        /\ \A n \in pos + 1 .. v : (t \o Gap(v))[n] = Reserved
    <3>1. Len(t \o Gap(v)) = v /\ t \o Gap(v) \in Seq(Vectors)
      <4>1. t \in Seq(Vectors)
        BY <2>1 DEF t
      <4>2. t \o Gap(v) \in Seq(Vectors) /\ Len(t \o Gap(v)) = Len(t) + Len(Gap(v))
        BY <4>1, <2>3
      <4> QED BY <4>2, <2>2, <2>3, <1>1
    <3>2. \A n \in 1 .. pos : (t \o Gap(v))[n] = t[n]
      <4>1. t \in Seq(Vectors)
        BY <2>1 DEF t
      <4> QED BY <4>1, <2>2, <2>3, <1>1
    <3>3. \A n \in pos + 1 .. v : (t \o Gap(v))[n] = Reserved
      <4> SUFFICES ASSUME NEW n \in pos + 1 .. v PROVE (t \o Gap(v))[n] = Reserved
        OBVIOUS
      <4>1. n - pos \in 1 .. m
        BY <1>1
      <4>2. t \in Seq(Vectors)
        BY <2>1 DEF t
      <4>3. n > Len(t) /\ n \in 1 .. Len(t) + Len(Gap(v)) /\ n - Len(t) = n - pos
        BY <4>1, <2>2, <2>3, <1>1
      <4>4. (t \o Gap(v))[n] = Gap(v)[n - pos]
        BY <4>2, <4>3, <2>3
      <4> QED BY <4>1, <4>4, <2>3
    <3> QED BY <3>1, <3>2, <3>3
  <2> DEFINE u == t \o Gap(v)
             w == Append(u, x)
  <2> HIDE DEF u
  <2>5. /\ Len(w) = v + 1 /\ w[v + 1] = x
        /\ \A n \in 1 .. v : w[n] = u[n]
    BY <2>1, <2>4, <1>1 DEF u
  <2>6. Compiled(elements', on) = w
    BY <2>1 DEF u, t
  <2> HIDE DEF w
  <2>7. \A n : Filled(n, on)' = {d.name : d \in {d \in entries \cup {e} : d.value = n /\ Present(d, on)}}
    BY <1>1 DEF Filled, Present
  <2>8. e.value = v
    BY InterruptHas
  <2> HIDE DEF e, m
  <2>9. ASSUME NEW n \in 1 .. v + 1 PROVE w[n].handler = Filled(n - 1, on)'
    <3>1. CASE n \in 1 .. pos
      <4>1. w[n] = t[n] /\ n - 1 # v
        BY <3>1, <2>4, <2>5, <1>1 DEF u
      <4>2. Filled(n - 1, on)' = Filled(n - 1, on)
        BY <4>1, <2>7, <2>8 DEF Filled
      <4> QED BY <4>1, <4>2, <3>1, <2>2
    <3>2. CASE n \in pos + 1 .. v
      <4>1. w[n] = Reserved /\ n - 1 # v /\ n - 1 >= pos
        BY <3>2, <2>4, <2>5, <1>1 DEF u
      <4>2. \A d \in entries \cup {e} : d.value # n - 1
        BY <4>1, <1>1, <2>8
      <4>3. Filled(n - 1, on)' = {}
        BY <4>2, <2>7
      <4> QED BY <4>1, <4>3 DEF Reserved, Vector
    <3>3. CASE n = v + 1
      <4>1. w[n] = x /\ n - 1 = v
        BY <3>3, <2>5, <1>1
      <4>2. \A d \in entries \cup {e} : d.value = v <=> d = e
        BY <1>1, <2>8
      <4>3. Filled(v, on)' = IF Present(e, on) THEN {e.name} ELSE {}
        BY <4>2, <2>7
      <4> QED BY <4>1, <4>3, <2>1
    <3> QED BY <3>1, <3>2, <3>3, <1>1
  <2> QED BY <2>5, <2>6, <2>9, <1>1
<1> QED BY <1>2, <1>3, <1>4 DEF InPlace, Table
\* The steps after the table, and those for the peripherals.
LEMMA TableStays ==
  ASSUME TableInv, UNCHANGED <<svd, config, tableVars>>,
         stage = "interrupts" => UNCHANGED stage
  PROVE  TableInv'
<1> USE DEF TableInv, tableVars
<1>1. Inputs'
  BY DEF Inputs
<1>2. Numbers' = Numbers /\ Vectors' = Vectors /\ \A u : Interrupt(u)' = Interrupt(u)
  BY InterruptsStay
<1>3. Sorted'
  BY <1>2 DEF Sorted, RenderedNumbers, HasTable
<1>4. InPlace'
  <2>1. \A on : Table(on)' = Table(on)
    BY DEF Table
  <2>2. \A n, on : Filled(n, on)' = Filled(n, on)
    BY DEF Filled, Present
  <2> QED BY <1>2, <2>1, <2>2 DEF InPlace
<1> QED BY <1>1, <1>3, <1>4

LEMMA ExternalKeeps ==
  ASSUME TableInv, NEW v \in Numbers, RenderExternalInterrupt(v), UNCHANGED <<svd, config, stage>>,
         stage = "interrupts"
  PROVE  TableInv'
<1> USE DEF TableInv, RenderExternalInterrupt
<1>1. Numbers' = Numbers /\ Vectors' = Vectors /\ \A u : Interrupt(u)' = Interrupt(u)
  BY InterruptsStay
<1>2. \A e \in entries' : e.value \in Numbers' /\ e = Interrupt(e.value)'
  BY <1>1, InterruptHas DEF Sorted
<1>3. Sorted'
  BY <1>2 DEF Sorted
<1> QED BY <1>1, <1>3 DEF InPlace, Inputs

LEMMA TargetKeeps ==
  ASSUME TableInv, RenderTarget, UNCHANGED <<svd, config>>
  PROVE  TableInv'
<1> USE DEF TableInv, RenderTarget
<1>1. Numbers' = Numbers /\ Vectors' = Vectors /\ \A u : Interrupt(u)' = Interrupt(u)
  BY InterruptsStay
<1>2. Sorted'
  BY <1>1 DEF Sorted, RenderedNumbers, HasTable
<1>3. InPlace'
  <2>1. \A on : Table(on)' = Table(on)
    BY DEF Table
  <2>2. \A n, on : Filled(n, on)' = Filled(n, on)
    BY DEF Filled, Present
  <2> QED BY <1>1, <2>1, <2>2 DEF InPlace
<1> QED BY <1>2, <1>3 DEF Inputs

LEMMA TableKeep == TableInv /\ [Next]_vars => TableInv'
<1> SUFFICES ASSUME TableInv, [Next]_vars PROVE TableInv'
  OBVIOUS
<1>1. CASE RenderInterrupts
  <2>1. UNCHANGED <<svd, config>> /\ stage = "interrupts"
    BY <1>1 DEF RenderInterrupts
  <2>2. CASE \E v \in Numbers : RenderInterrupt(v) /\ UNCHANGED stage
    BY <2>1, <2>2, SortedGrows, InPlaceGrows DEF TableInv, Inputs
  <2>3. CASE \E v \in Numbers : RenderExternalInterrupt(v) /\ UNCHANGED stage
    BY <2>1, <2>3, ExternalKeeps
  <2>4. CASE RenderTarget
    BY <2>1, <2>4, TargetKeeps
  <2> QED BY <1>1, <2>2, <2>3, <2>4 DEF RenderInterrupts
<1>2. CASE \E i \in DOMAIN svd : SkipPeripheral(i) \/ RenderPeripheral(i)
  BY <1>2, TableStays DEF SkipPeripheral, RenderPeripheral
<1>3. CASE RenderCcp
  BY <1>3, TableStays DEF RenderCcp, crateVars
<1>4. CASE FailCcp
  <2>1. stage # "interrupts"
    BY <1>4 DEF FailCcp, Ccp
  <2> QED BY <1>4, <2>1, TableStays DEF FailCcp
<1>5. CASE WriteCrate \/ Build
  BY <1>5, TableStays DEF WriteCrate, Build
<1>6. CASE UNCHANGED vars
  BY <1>6, TableStays DEF vars, crateVars
<1> QED BY <1>1, <1>2, <1>3, <1>4, <1>5, <1>6 DEF Next, Ended

\* Whatever the interrupts of a device, its table is in place in every build.
THEOREM TableCorrect == Spec => []TableInv
<1>1. Init => TableInv
  <2> SUFFICES ASSUME Init PROVE TableInv
    OBVIOUS
  <2>1. Inputs
    BY DEF Init, Inputs
  <2>2. Sorted
    BY NumbersNat, <2>1 DEF Init, TableInit, Sorted, RenderedNumbers
  <2>3. InPlace
    <3>1. \A on : Table(on) = <<>>
      BY KeptEmpty DEF Init, TableInit, Table
    <3> QED BY <3>1 DEF Init, TableInit, InPlace
  <2> QED BY <2>1, <2>2, <2>3 DEF TableInv
<1> QED BY <1>1, TableKeep, PTL DEF Spec

\* The vector of a number is in its place with every set of features, and not
\* reserved if the peripherals that list the number are enabled.
THEOREM VectorsCorrect == Spec => []VectorsInPlace
<1>1. TableInv => VectorsInPlace
  <2> SUFFICES ASSUME TableInv, stage = "built", HasTable
               PROVE  /\ Len(Table(enabled)) = pos
                      /\ \A n \in 1..pos :
                           /\ Table(enabled)[n].handler \subseteq Listed(n - 1)
                           /\ Listings(n - 1) # {} /\ (\A l \in Listings(n - 1) : IsOn(l[1], svd[l[1]].names[1])) =>
                                Table(enabled)[n].handler # {}
    BY DEF VectorsInPlace
  <2>1. Inputs /\ RenderedNumbers = Numbers /\ \A e \in entries : e.value \in Numbers /\ e = Interrupt(e.value)
    BY DEF TableInv, Sorted
  <2>2. Len(Table(enabled)) = pos /\ \A n \in 1 .. pos : Table(enabled)[n].handler = Filled(n - 1, enabled)
    BY DEF TableInv, InPlace, HasTable
  <2>3. ASSUME NEW v \in Numbers
        PROVE  \E l \in Listings(v) :
                 /\ Interrupt(v).name = svd[l[1]].interrupts[l[2]].name
                 /\ Interrupt(v).gate \subseteq GroupGate(svd[l[1]].group) \cup OwnGate(svd[l[1]].names[1])
    <3> DEFINE l == CHOOSE l \in Listings(v) : IsLast(l, v)
    <3>1. l \in Listings(v)
      BY <2>1, ListingChosen
    <3>2. Interrupt(v) = [value |-> v, name |-> svd[l[1]].interrupts[l[2]].name,
                          gate |-> IF config.riscv THEN {}
                                   ELSE GroupGate(svd[l[1]].group) \cup OwnGate(svd[l[1]].names[1])]
      BY DEF Interrupt
    <3> HIDE DEF l
    <3> QED BY <3>1, <3>2
  <2>4. ASSUME NEW n \in 1 .. pos PROVE Table(enabled)[n].handler \subseteq Listed(n - 1)
    <3>1. Filled(n - 1, enabled) \subseteq Listed(n - 1)
      BY <2>1, <2>3 DEF Filled, Listed
    <3> QED BY <3>1, <2>2
  <2>5. ASSUME NEW n \in 1 .. pos, Listings(n - 1) # {},
               \A l \in Listings(n - 1) : IsOn(l[1], svd[l[1]].names[1])
        PROVE  Table(enabled)[n].handler # {}
    <3>1. n - 1 \in Numbers
      BY <2>5 DEF Listings, Numbers
    <3>2. PICK e \in entries : e.value = n - 1
      BY <3>1, <2>1 DEF RenderedNumbers
    <3>3. Present(e, enabled)
      BY <3>1, <3>2, <2>1, <2>3, <2>5 DEF Present, IsOn
    <3>4. e.name \in Filled(n - 1, enabled)
      BY <3>2, <3>3 DEF Filled
    <3> QED BY <3>4, <2>2
  <2> QED BY <2>2, <2>4, <2>5
<1> QED BY <1>1, TableCorrect, PTL

\* The handlers in the table are those declared, and each has a default.
THEOREM HandlersCorrect == Spec => []HandlersHaveDefaults
<1>1. TableInv => HandlersHaveDefaults
  <2> SUFFICES ASSUME TableInv, stage = "built", HasTable
               PROVE  /\ UNION {x.handler : x \in Range(Table(enabled))} = ExternFns(enabled)
                      /\ ExternFns(enabled) \subseteq provided
    BY DEF HandlersHaveDefaults
  <2> DEFINE t == Table(enabled)
  <2>1. /\ pos \in Nat /\ provided = {e.name : e \in entries}
        /\ \A e \in entries : e.value < pos /\ e.value \in Nat
    BY NumbersNat DEF TableInv, Sorted, HasTable, RenderedNumbers
  <2>2. Len(t) = pos /\ \A n \in 1 .. pos : t[n].handler = Filled(n - 1, enabled)
    BY DEF TableInv, InPlace, HasTable
  <2>3. t \in Seq(Vectors)
    <3>1. elements \in Seq(Vectors) /\ Reserved \in Vectors
      BY DEF TableInv, InPlace, Vectors
    <3> QED BY <3>1, KeptAppend DEF Table
  <2> HIDE DEF t
  <2>4. DOMAIN t = 1 .. pos
    BY <2>2, <2>3
  <2>5. ASSUME NEW n \in 1 .. pos PROVE t[n].handler \subseteq ExternFns(enabled)
    BY <2>2 DEF Filled, ExternFns
  <2>6. ASSUME NEW e \in entries, Present(e, enabled)
        PROVE  \E x \in Range(t) : e.name \in x.handler
    <3> DEFINE n == e.value + 1
    <3>1. n \in 1 .. pos /\ n - 1 = e.value
      BY <2>1
    <3>2. e.name \in Filled(n - 1, enabled)
      BY <3>1, <2>6 DEF Filled
    <3> HIDE DEF n
    <3> QED BY <3>1, <3>2, <2>2, <2>4 DEF Range
  <2>7. UNION {x.handler : x \in Range(t)} \subseteq ExternFns(enabled)
    BY <2>4, <2>5 DEF Range
  <2>8. ExternFns(enabled) \subseteq UNION {x.handler : x \in Range(t)}
    BY <2>6 DEF ExternFns
  <2>9. ExternFns(enabled) \subseteq provided
    BY <2>1 DEF ExternFns
  <2> QED BY <2>7, <2>8, <2>9 DEF t
<1> QED BY <1>1, TableCorrect, PTL

\* A number converts to what its vector is for.
THEOREM ConversionCorrect == Spec => []NumbersConvert
<1>1. TableInv => NumbersConvert
  <2> SUFFICES ASSUME TableInv, stage = "built", HasTable, NEW n \in 0 .. pos - 1
               PROVE  FromNumber(n, enabled) = Table(enabled)[n + 1].handler
    BY DEF NumbersConvert
  <2>1. pos \in Nat
    BY DEF TableInv, Sorted
  <2>2. ~(n > MaxInterruptNumber) /\ n + 1 \in 1 .. pos /\ (n + 1) - 1 = n
    BY <2>1 DEF MaxInterruptNumber
  <2>3. Table(enabled)[n + 1].handler = Filled(n, enabled)
    BY <2>2 DEF TableInv, InPlace, HasTable
  <2> QED BY <2>2, <2>3 DEF FromNumber, Filled
<1> QED BY <1>1, TableCorrect, PTL
=============================================================================
