---------------------------- MODULE FeatureGates ----------------------------
(***************************************************************************)
(* The parts of a device crate that Cargo features take in and out: the    *)
(* types, modules and Peripherals members that generate/device.rs and      *)
(* generate/peripheral.rs emit for each peripheral, and the features that  *)
(* main.rs declares.                                                       *)
(*                                                                         *)
(* A feature is known by its name; optional names are sets of at most one. *)
(* A peripheral p of the SVD file has                                      *)
(*   names       the names of its instances, one unless p is an array      *)
(*   array       whether it is one                                         *)
(*   kind        "core" for one that cortex-m provides, "riscv" for a      *)
(*               CLINT or PLIC of the settings, else "plain"               *)
(*   group       its groupName                                             *)
(*   base        the place in the file of the one it is derived from       *)
(*   address     its base address                                          *)
(*   registers   its own registers, as a set of records of a name, an       *)
(*               offset, and the size and access if they are stated        *)
(*   interrupts  its interrupts, by name and value                         *)
(***************************************************************************)
EXTENDS Naturals, Sequences, FiniteSets, Functions

CONSTANTS Devices,   \* SVD files, as sequences of peripherals
          Configs    \* settings: target, riscv, feature_group, feature_peripheral,
                     \* shift (base_address_shift) and ccp

Targets == {"CortexM", "Msp430", "RISCV", "XtensaLX", "Mips", "Avr", "None"}

\* A peripheral is derived from an earlier one, which is not derived itself, and
\* no two instances have one name. riscv says that the settings have a
\* riscv_config.
ASSUME DevicesAssumption ==
  /\ \A d \in Devices : d \in Seq(Range(d)) /\ \A i \in DOMAIN d :
        /\ d[i].names \in Seq(Range(d[i].names)) /\ d[i].names # <<>> /\ (~d[i].array => Len(d[i].names) = 1)
        /\ d[i].interrupts \in Seq(Range(d[i].interrupts)) /\ d[i].address \in Nat
        /\ \A e \in Range(d[i].interrupts) : e.value \in Nat
        /\ \A r \in d[i].registers : r.offset \in Nat
        /\ \A j \in DOMAIN d : \A k \in DOMAIN d[i].names, l \in DOMAIN d[j].names :
             d[i].names[k] = d[j].names[l] => i = j /\ k = l
        /\ \A b \in d[i].base : b \in 1 .. i - 1 /\ d[b].base = {} /\ d[i].registers = {}
  /\ \A c \in Configs : c.target \in Targets /\ c.shift \in Nat /\ (c.riscv => c.target = "RISCV")

VARIABLES svd, config

GroupGate(group) == IF config.feature_group THEN group ELSE {}
OwnGate(name)    == IF config.feature_peripheral THEN {name} ELSE {}

\* derive_peripheral copies what a derived peripheral does not state, its group
\* too, and returns where its registers are.
Root(i)    == IF svd[i].base = {} THEN i ELSE CHOOSE b \in svd[i].base : TRUE
GroupOf(i) == IF svd[i].group = {} THEN svd[Root(i)].group ELSE svd[i].group

Names(i) == Range(svd[i].names)

\* A core peripheral is left to cortex-m, and only there; a CLINT or PLIC to
\* riscv-peripheral.
IsCore(i)  == svd[i].kind = "core" /\ config.target = "CortexM"
IsRiscv(i) == svd[i].kind = "riscv" /\ config.riscv
IsEmpty(i) == svd[i].registers = {} /\ svd[i].base = {}
HasType(i) == ~IsCore(i) /\ (IsRiscv(i) \/ ~IsEmpty(i))

\* The type of each instance, with the module that its RegisterBlock is in; a
\* CLINT or PLIC has none.
TypesOf(i) ==
  {[name |-> n, module |-> IF IsRiscv(i) THEN i ELSE Root(i),
    gate |-> IF IsRiscv(i) THEN {} ELSE GroupGate(GroupOf(i)) \cup OwnGate(n)] : n \in Names(i)}

\* A slip: the module of an array takes the attribute of its first type.
ModuleOfFirst(i) ==
  [module |-> i, any |-> {}, gate |-> GroupGate(GroupOf(i)) \cup OwnGate(svd[i].names[1])]

\* The module of a peripheral, or the alias for the module of its base. `any'
\* are features one of which must be there.
ModuleOf(i) ==
  IF svd[i].array
  THEN IF svd[i].base = {} THEN [module |-> i, gate |-> GroupGate(GroupOf(i)), any |-> {}]
                           ELSE [module |-> i, gate |-> {}, any |-> Names(i)]
  ELSE [module |-> i, any |-> {},
        gate |-> GroupGate(GroupOf(i)) \cup UNION {OwnGate(n) : n \in Names(i)}]

\* A slip: the members without the attribute of the group.
MembersOfAnyGroup(i) ==
  {[name |-> svd[i].names[k], gate |-> OwnGate(svd[i].names[k])] : k \in DOMAIN svd[i].names}

\* The members of struct Peripherals. device.rs has the peripheral as it stands
\* in the file, and extends one attribute from element to element of an array.
MembersOf(i) ==
  {[name |-> svd[i].names[k],
    gate |-> GroupGate(svd[i].group) \cup UNION {OwnGate(svd[i].names[j]) : j \in 1..k}] :
      k \in DOMAIN svd[i].names}

\* A slip: features.toml has only the first element of an array.
InstancesNamedFirst(f) == {<<i, 1>> : i \in {j \in DOMAIN svd : svd[j].names[1] = f}}

\* features.toml: how many lines declare feature f.
GroupNames == UNION {svd[i].group : i \in DOMAIN svd}
InstancesNamed(f) == UNION {{<<i, k>> : k \in {j \in DOMAIN svd[i].names : svd[i].names[j] = f}} :
                              i \in DOMAIN svd}
Declarations(f) ==
    (IF config.feature_group /\ f \in GroupNames THEN 1 ELSE 0)
  + (IF config.feature_peripheral THEN Cardinality(InstancesNamed(f)) ELSE 0)
Declared ==
  {f \in GroupNames \cup UNION {Names(i) : i \in DOMAIN svd} : Declarations(f) > 0}

Present(item, enabled) == item.gate \subseteq enabled
ModulePresent(m, enabled) ==
  Present(m, enabled) /\ (m.any = {} \/ m.any \cap enabled # {})
=============================================================================
