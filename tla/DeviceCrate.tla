---------------------------- MODULE DeviceCrate ----------------------------
(***************************************************************************)
(* The generation of a device crate by generate/device.rs and main.rs, and *)
(* a build of it with a choice of Cargo features: first the interrupts,    *)
(* then each peripheral with its types, module and members of struct       *)
(* Peripherals, for AVR the protected registers, then the list of          *)
(* features.  Whoever builds the crate enables any of them.                *)
(***************************************************************************)
EXTENDS InterruptTable, Protection

VARIABLES
  stage,      \* "interrupts", "peripherals", "written", "built"
              \* or "failed"
  rendered,   \* how many peripherals have been rendered
  types, modules, members,   \* what was emitted for them
  enabled     \* the features of the build

crateVars == <<stage, rendered, types, modules, members, enabled>>
vars == <<svd, config, tableVars, protectionVars, crateVars>>

RenderInterrupts ==
  /\ stage = "interrupts"
  /\ \/ /\ \E v \in Numbers : RenderInterrupt(v) \/ RenderExternalInterrupt(v)
        /\ UNCHANGED stage
     \/ /\ RenderTarget
        /\ stage' = "peripherals"
  /\ UNCHANGED <<svd, config, protectionVars, rendered, types, modules, members, enabled>>

\* One iteration of the loop over the peripherals.
Rendering(i) == stage = "peripherals" /\ i = rendered + 1 /\ i \in DOMAIN svd

SkipPeripheral(i) ==
  /\ Rendering(i) /\ ~HasType(i)
  /\ rendered' = i
  /\ UNCHANGED <<svd, config, tableVars, protectionVars, stage, types, modules, members, enabled>>

\* A slip: no alias for the module of the base, so that none can be derived from
\* a derived peripheral nor name its module.
RenderPeripheralOnly(i) ==
  /\ Rendering(i) /\ HasType(i)
  /\ rendered' = i
  /\ types' = types \cup TypesOf(i)
  /\ modules' = modules \cup (IF IsRiscv(i) \/ Root(i) # i THEN {} ELSE {ModuleOf(i)})
  /\ members' = members \cup MembersOf(i)
  /\ UNCHANGED <<svd, config, tableVars, protectionVars, stage, enabled>>

RenderPeripheral(i) ==
  /\ Rendering(i) /\ HasType(i)
  /\ rendered' = i
  /\ types' = types \cup TypesOf(i)
  /\ modules' = modules \cup (IF IsRiscv(i) THEN {} ELSE {ModuleOf(i)})
  /\ members' = members \cup MembersOf(i)
  /\ UNCHANGED <<svd, config, tableVars, protectionVars, stage, enabled>>

\* avr::render, the last part of the crate.
Ccp == IF stage = "peripherals" /\ rendered = Len(svd) /\ config.target = "Avr" THEN config.ccp ELSE {}

RenderCcp ==
  /\ \E ccp \in Ccp : RenderUnlock(ccp) \/ RenderProtected(ccp)
  /\ UNCHANGED <<svd, config, tableVars, crateVars>>

FailCcp ==
  /\ \E ccp \in Ccp : CcpFails(ccp)
  /\ stage' = "failed"
  /\ UNCHANGED <<svd, config, tableVars, protectionVars, rendered, types, modules, members, enabled>>

WriteCrate ==
  /\ stage = "peripherals" /\ rendered = Len(svd)
  /\ \A ccp \in Ccp : CcpDone(ccp)
  /\ stage' = "written"
  /\ UNCHANGED <<svd, config, tableVars, protectionVars, rendered, types, modules, members, enabled>>

\* Cargo takes no features.toml that declares a feature twice.
Build ==
  /\ stage = "written"
  /\ \A f \in Declared : Declarations(f) = 1
  /\ enabled' \in SUBSET Declared
  /\ stage' = "built"
  /\ UNCHANGED <<svd, config, tableVars, protectionVars, rendered, types, modules, members>>

Init ==
  /\ svd \in Devices /\ config \in Configs
  /\ TableInit /\ unlock = {} /\ protected = <<>>
  /\ stage = "interrupts" /\ rendered = 0
  /\ types = {} /\ modules = {} /\ members = {} /\ enabled = {}

Ended ==
  /\ \/ stage \in {"built", "failed"}
     \/ stage = "written" /\ (\E f \in Declared : Declarations(f) > 1)
  /\ UNCHANGED vars

Next ==
  \/ RenderInterrupts
  \/ \E i \in DOMAIN svd : SkipPeripheral(i) \/ RenderPeripheral(i)
  \/ RenderCcp \/ FailCcp
  \/ WriteCrate
  \/ Build
  \/ Ended

Spec == Init /\ [][Next]_vars

----------------------------------------------------------------------------
(* Properties *)

Listed(v) == {svd[l[1]].interrupts[l[2]].name : l \in Listings(v)}

\* Whether the features of an instance are enabled: its group's and its own.
IsOn(i, name) == GroupGate(svd[i].group) \cup OwnGate(name) \subseteq enabled

\* The vector table has the length it is declared with, whatever features are
\* enabled; the vector of a number is a handler of that number or reserved; and
\* it is not reserved if all peripherals that list the number are enabled. (An
\* array lists its interrupts under its first name.)
VectorsInPlace ==
  stage = "built" /\ HasTable =>
    LET t == Table(enabled) IN
    /\ Len(t) = pos
    /\ \A n \in 1..pos :
         /\ t[n].handler \subseteq Listed(n - 1)
         /\ Listings(n - 1) # {} /\ (\A l \in Listings(n - 1) : IsOn(l[1], svd[l[1]].names[1])) =>
              t[n].handler # {}

\* The handlers in the table are those declared to the linker, and device.x has
\* a default for each, so that a crate without handlers links.
HandlersHaveDefaults ==
  stage = "built" /\ HasTable =>
    /\ UNION {x.handler : x \in Range(Table(enabled))} = ExternFns(enabled)
    /\ ExternFns(enabled) \subseteq provided

\* A number converts to the interrupt that its vector is for, and the number of
\* a vector that is reserved to none: on Cortex-M in spite of the bound that is
\* checked first. With numbers above what the argument holds nothing compiles.
NumbersConvert ==
  stage = "built" /\ HasTable /\ HasConversion =>
    LET t == Table(enabled) IN
    \A n \in 0..pos - 1 : pos <= ArgumentMax + 1 => FromNumber(n, enabled) = t[n + 1].handler

\* Enabling a derived peripheral takes enabling its base: the features do not
\* imply each other.
BasesOn ==
  \A i \in DOMAIN svd : \A b \in svd[i].base :
     (\E n \in Names(i) : IsOn(i, n)) => \A n \in Names(b) : IsOn(b, n)

\* A core peripheral, a CLINT or a PLIC has its registers in another crate.
HasBlock(i) == svd[i].kind = "plain" /\ svd[i].registers # {}

\* The register block of every type is there if the bases are enabled; and so is
\* the type of each member of Peripherals if all groups are stated: one that a
\* peripheral inherits gates its type and not its member.
TypesResolve ==
  stage = "built" =>
    /\ BasesOn => \A t \in types : Present(t, enabled) /\ HasBlock(t.module) =>
         \E m \in modules : m.module = t.module /\ ModulePresent(m, enabled)
    /\ (\A i \in DOMAIN svd : config.feature_group => svd[i].group = GroupOf(i)) =>
         \A m \in members : Present(m, enabled) =>
           \E t \in types : t.name = m.name /\ Present(t, enabled)

\* Whatever was generated is in some build: no gate asks for a feature that
\* features.toml does not declare. The one exception is the alias for the module
\* of a derived array, which asks for them although feature_peripheral is off.
EveryItemCanBeBuilt ==
  stage = "written" =>
    /\ \A x \in types \cup members \cup entries : Present(x, Declared)
    /\ \A m \in modules :
         \/ ModulePresent(m, Declared)
         \/ svd[m.module].array /\ svd[m.module].base # {} /\ ~config.feature_peripheral

IsMember(name) == \E m \in members : m.name = name /\ Present(m, enabled)

\* Peripherals has no member for an instance whose features are off, and has all
\* those of a peripheral that is enabled, each instance of it if it is an array.
\* (For an array of which some are enabled see FeaturesIndependent.)
EnabledIsMember ==
  stage = "built" =>
    \A i \in DOMAIN svd : HasType(i) =>
      /\ \A n \in Names(i) : IsMember(n) => IsOn(i, n)
      /\ (\A n \in Names(i) : IsOn(i, n)) => \A n \in Names(i) : IsMember(n)

\* main.rs (line 173) says of the option feature_peripheral: `Use independent cfg
\* feature flags for each peripheral': one that is enabled is in Peripherals,
\* whether or not others are.
FeaturesIndependent ==
  stage = "built" =>
    \A i \in DOMAIN svd : HasType(i) => \A n \in Names(i) : IsOn(i, n) => IsMember(n)

\* The register that unlocks protected writes is where `out' reaches it, also
\* when it is found through a derived peripheral. (The check does not know of
\* base_address_shift.)
UnlockInReach == \A u \in unlock : config.shift = 0 => u.addr < 64

\* The implementations of Protected name types that are there, also through the
\* alias of a derived peripheral: if their peripherals and the bases of these
\* are enabled, since the implementations themselves are not gated.
ProtectionResolves ==
  stage = "built" /\ BasesOn
  /\ (\A k \in DOMAIN protected :
        /\ \A n \in Names(protected[k].module) : IsOn(protected[k].module, n)
        /\ GroupGate(GroupOf(protected[k].module)) \subseteq enabled)
  => \A k \in DOMAIN protected :
       \E m \in modules : m.module = protected[k].module /\ ModulePresent(m, enabled)
=============================================================================
