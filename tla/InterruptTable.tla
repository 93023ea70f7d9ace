--------------------------- MODULE InterruptTable ---------------------------
(***************************************************************************)
(* generate/interrupt.rs: the vector table of a device, the enumeration of *)
(* its interrupts, and the conversion of a number to an interrupt.  Each   *)
(* part is gated by the features of the peripheral that lists the          *)
(* interrupt, so the table is a different one for each set of features,    *)
(* while its length is the same for all.                                   *)
(***************************************************************************)
EXTENDS FeatureGates

VARIABLES
  pos,        \* current position in the vector table
  elements,   \* of the table
  entries,    \* the interrupts rendered, with value, name and gate
  provided    \* the handlers that device.x gives a default

tableVars == <<pos, elements, entries, provided>>

\* The HashMap of interrupts has one for each number: the last in the file,
\* with the group and the first name of the peripheral that lists it.
Listings(v) == UNION {{<<i, k>> : k \in {j \in DOMAIN svd[i].interrupts :
                                            svd[i].interrupts[j].value = v}} : i \in DOMAIN svd}
IsLast(l, v) == \A m \in Listings(v) : m[1] < l[1] \/ (m[1] = l[1] /\ m[2] <= l[2])
Interrupt(v) ==
  LET l == CHOOSE l \in Listings(v) : IsLast(l, v) IN
  [value |-> v, name |-> svd[l[1]].interrupts[l[2]].name,
   gate |-> IF config.riscv THEN {}
            ELSE GroupGate(svd[l[1]].group) \cup OwnGate(svd[l[1]].names[1])]

Numbers == UNION {{svd[i].interrupts[k].value : k \in DOMAIN svd[i].interrupts} : i \in DOMAIN svd}
RenderedNumbers == {e.value : e \in entries}

\* An element is there if its gate is open or, when it is `absent', if it is not.
Vector(handler, gate, absent) == [handler |-> handler, gate |-> gate, absent |-> absent]
Reserved == Vector({}, {}, FALSE)

\* A slip: no filler for a vector whose feature is off.
VectorsOfWithoutFiller(e) == <<Vector({e.name}, e.gate, FALSE)>>

VectorsOf(e) ==
  IF e.gate = {} THEN <<Vector({e.name}, {}, FALSE)>>
  ELSE <<Vector({}, e.gate, TRUE), Vector({e.name}, e.gate, FALSE)>>

After(v) == v + 1

Gap(v) == [n \in 1..(v - pos) |-> Reserved]

\* One iteration of the loop over the interrupts, which are sorted by number.
RenderInterrupt(v) ==
  /\ v \in Numbers \ RenderedNumbers /\ \A u \in Numbers \ RenderedNumbers : v <= u
  /\ ~config.riscv
  /\ elements' = elements \o Gap(v) \o VectorsOf(Interrupt(v))
  /\ pos' = After(v)
  /\ entries' = entries \cup {Interrupt(v)}
  /\ UNCHANGED provided

\* riscv::render, which leaves the table to the macro riscv::pac_enum.
RenderExternalInterrupt(v) ==
  /\ v \in Numbers \ RenderedNumbers /\ \A u \in Numbers \ RenderedNumbers : v <= u
  /\ config.riscv
  /\ entries' = entries \cup {Interrupt(v)}
  /\ provided' = provided \cup {Interrupt(v).name}
  /\ UNCHANGED <<pos, elements>>

\* After the loop, what the target asks for.
HasTable == ~config.riscv /\ config.target \in {"CortexM", "Msp430", "RISCV", "XtensaLX"}

\* A slip: only the targets with a section name of their own write to device.x.
RenderTargetSection ==
  /\ Numbers = RenderedNumbers
  /\ provided' = IF config.target \in {"CortexM", "Msp430"} THEN {e.name : e \in entries} ELSE provided
  /\ UNCHANGED <<pos, elements, entries>>

RenderTarget ==
  /\ Numbers = RenderedNumbers
  /\ provided' = IF HasTable THEN {e.name : e \in entries} ELSE provided
  /\ UNCHANGED <<pos, elements, entries>>

TableInit == pos = 0 /\ elements = <<>> /\ entries = {} /\ provided = {}

----------------------------------------------------------------------------
(* What a build with the features `enabled' makes of it *)

InBuild(x, enabled) == (x.gate \subseteq enabled) # x.absent

Compiled(seq, enabled) ==
  LET Upto[k \in Nat] ==
        IF k = 0 THEN <<>>
        ELSE IF k \in DOMAIN seq /\ InBuild(seq[k], enabled) THEN Append(Upto[k - 1], seq[k])
        ELSE Upto[k - 1]
  IN  Upto[Len(seq)]

Table(enabled) == Compiled(elements, enabled)

ExternFns(enabled) == {e.name : e \in {d \in entries : HasTable /\ Present(d, enabled)}}

\* A slip: the position taken for the last number.
MaxInterruptNumberShort == IF pos < 2 THEN 0 ELSE pos - 2

\* The conversion from a number. Its argument is a u8 on the targets of the
\* last arm, a u16 on Xtensa; the compiler rejects a pattern
\* that is larger.
MaxInterruptNumber == IF pos = 0 THEN 0 ELSE pos - 1
HasConversion == config.target # "Msp430"
ArgumentMax ==
  IF config.target \in {"CortexM", "XtensaLX"} \/ config.riscv THEN 65535 ELSE 255

FromNumber(n, enabled) ==
  IF config.target = "CortexM" /\ n > MaxInterruptNumber THEN {}
  ELSE {e.name : e \in {d \in entries : d.value = n /\ Present(d, enabled)}}
=============================================================================
