--------------------------- MODULE MCDeviceCrate ---------------------------
(***************************************************************************)
(* Small devices for DeviceCrate.                                          *)
(***************************************************************************)
EXTENDS DeviceCrate

Reg(name, offset, size, access) ==
  [name |-> name, offset |-> offset, size |-> size, access |-> access]

Block == {Reg("CCP", 4, {}, {}), Reg("R", 5, {8}, {"read-write"}),
          Reg("Wide", 6, {16}, {}), Reg("Status", 8, {8}, {"read-only"})}

Per(names, kind, group, base, registers, interrupts) ==
  [names |-> names, array |-> Len(names) > 1, kind |-> kind, group |-> group,
   base |-> base, registers |-> registers, interrupts |-> interrupts,
   address |-> IF base = {} THEN 48 ELSE 80]

Irq(name, value) == [name |-> name, value |-> value]

\* Peripherals for the first, second and third place. B may be in the group that
\* has the name of peripheral A.
Firsts ==
  {Per(<<"A">>, "plain", g, {}, r, is) :
     g \in {{}, {"G"}}, r \in {{}, Block}, is \in {<<>>, <<Irq("a0", 0), Irq("a3", 3)>>}}
  \cup {Per(<<"A0", "A1">>, "plain", g, {}, Block, <<Irq("a1", 1)>>) : g \in {{}, {"G"}}}
  \cup {Per(<<"A">>, k, {"G"}, {}, Block, <<Irq("a1", 1)>>) : k \in {"core", "riscv"}}

Seconds ==
  {Per(<<"B">>, "plain", g, b, IF b = {} THEN Block ELSE {}, <<Irq("b1", 1)>>) :
     g \in {{}, {"G"}, {"A"}}, b \in {{}, {1}}}
  \cup {Per(<<"B0", "B1">>, "plain", g, b, IF b = {} THEN Block ELSE {}, <<Irq("b4", 4), Irq("b256", 256)>>) :
          g \in {{}, {"H"}}, b \in {{}, {1}}}

Thirds == {Per(<<"C">>, "plain", {}, {2}, {}, <<Irq("c1", 1)>>),
           Per(<<"C">>, "plain", {"H"}, {}, Block, <<Irq("c5", 5)>>)}

WellDerived(d) == \A i \in DOMAIN d : \A b \in d[i].base : d[b].base = {}

MCDevices ==
  {<<a, b>> : a \in Firsts, b \in Seconds}
  \cup {d \in {<<a, b, c>> : a \in Firsts, b \in {x \in Seconds : Len(x.interrupts) < 2}, c \in Thirds} :
          WellDerived(d)}
  \cup {<<>>}

\* Settings of AVR devices.
Protections ==
  {[unlock |-> <<p, "CCP">>, protected |-> rs] :
     p \in {"A", "B"}, rs \in {<<>>, <<<<"A", "R">>, <<"B", "R">>>>, <<<<"B", "R">>>>,
                              <<<<"B", "Wide">>>>, <<<<"A", "Status">>>>}}

Setting(target, riscv, ccp, shift) ==
  {[target |-> target, riscv |-> riscv, ccp |-> ccp, shift |-> shift,
    feature_group |-> g, feature_peripheral |-> p] : g, p \in BOOLEAN}

MCConfigs ==
  UNION {Setting(t, FALSE, {}, 0) : t \in {"CortexM", "XtensaLX", "RISCV", "Mips"}}
  \cup Setting("RISCV", TRUE, {}, 0)
  \cup {c \in UNION {Setting("Avr", FALSE, {ccp}, s) : ccp \in Protections, s \in {0, 16}} :
          c.feature_group = c.feature_peripheral /\ (c.shift > 0 => c.feature_group)}
=============================================================================
