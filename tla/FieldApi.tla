------------------------------ MODULE FieldApi ------------------------------
(***************************************************************************)
(* The API of the fields of one register: its rendering, one field after   *)
(* the other, by generate/register.rs, and then a use of it: a write or    *)
(* modify, protected or not, whose closure calls methods of field writers, *)
(* and reads of the fields before and after.                               *)
(***************************************************************************)
EXTENDS FieldProxies

CONSTANTS
  Descriptions,   \* registers
  MaxCalls,       \* in a closure
  Window          \* the instructions for which CCP leaves a register unlocked

MwvKinds == OneKinds \cup ZeroKinds \cup {"modify", "set", "clear"}

\* The elements of a field, and different fields, are apart, within the register
\* and have names of their own; enumeratedValues are of values of the field.
ASSUME FieldApiAssumption ==
  /\ MaxCalls \in Nat /\ Window \in Nat \ {0} /\ Bits \subseteq Nat
  /\ \A r \in Descriptions :
       /\ WellFormed(r) /\ r.mwv \in MwvKinds \cup {"none"}
       /\ r.size \in Nat /\ 0 .. r.size - 1 \subseteq Bits
       /\ \A f \in r.fields :
            /\ f.off \in Nat /\ f.width \in Nat \ {0} /\ f.dim \in Nat /\ f.inc \in Nat
            /\ f.mwv \in MwvKinds \cup {"none"}
            /\ f.bits = UNION {ElementBits(f, n) : n \in Elements(f)}
            /\ f.bits \subseteq 0 .. r.size - 1
            /\ \A n, m \in Elements(f) : n # m => ElementBits(f, n) \cap ElementBits(f, m) = {}
            /\ f.evs \in Seq({f.evs[k] : k \in DOMAIN f.evs})
            /\ \A k \in DOMAIN f.evs :
                 /\ f.evs[k].values \cup f.evs[k].reserved \subseteq Values(f.width)
                 /\ f.evs[k].values \cap f.evs[k].reserved = {}
            /\ \A g \in r.fields : f.name = g.name => f = g

\* A field that is derived has one base, is as wide as it and has its enumeratedValues.
ASSUME DerivedAssumption ==
  \A r \in Descriptions : \A f, g \in r.fields :
    /\ \A x, y \in f.base : x = y
    /\ g.name \in f.base => f.width = g.width /\ f.evs = g.evs

VARIABLES
  stage,     \* "fields", "failed", "idle", "closure", "ended", "stored" or "panicked"
  rendered,  \* the fields rendered
  items,     \* the enums, readers and writers in the module of the register
  known,     \* the names in the five sets of derives
  op,        \* the method called on the register
  before,    \* the value of the register before it
  value,     \* its value
  w,         \* the bits of W
  called,    \* the last call for each element of a field
  window     \* {} or {the instructions left in which a protected write counts}

renderVars == <<rendered, items, known>>
useVars == <<op, before, value, w, called, window>>
vars == <<reg, stage, renderVars, useVars>>

----------------------------------------------------------------------------
(* Rendering *)

EnumName(f, e) == IF e.name = "" THEN f.name ELSE e.name

\* The set that an enum goes to, by side: one for both unless they differ.
EnumKind(f, side) == IF ReadEnum(f) # {} /\ WriteEnum(f) # {} /\ ReadEnum(f) # WriteEnum(f)
                     THEN side ELSE "enum"

Item(f, kind, name, target) == [field |-> f.name, kind |-> kind, name |-> name, target |-> target]

\* A slip: the name is used again.
NewOrUseAgain(f, kind, name, baseName) ==
  {Item(f, kind, name, IF f.base = {} THEN {} ELSE {baseName})}

\* pub enum or pub type, or else pub use of what the base has, unless that name
\* is known.
NewOrUse(f, kind, name, baseName) ==
  IF f.base = {} THEN {Item(f, kind, name, {})}
  ELSE {i \in {Item(f, kind, name, {baseName})} : <<kind, name>> \notin known}

EnumItems(f, side, enum) ==
  UNION {NewOrUse(f, EnumKind(f, side), EnumName(f, e),
                  EnumName([name |-> CHOOSE b \in f.base : TRUE], e)) : e \in enum}

ProxyItem(f, kind, enum) ==
  IF enum = {} THEN {Item(f, kind, f.name, {})}
  ELSE NewOrUse(f, kind, f.name, CHOOSE b \in f.base : TRUE)

\* The enum of a field that is read too is only rendered for writing if it is
\* another one.
ItemsOf(f) ==
  EnumItems(f, "read_enum", ReadEnum(f))
  \cup (IF CanRead(f) THEN ProxyItem(f, "reader", ReadEnum(f)) ELSE {})
  \cup (IF ReadEnum(f) = WriteEnum(f) THEN {} ELSE EnumItems(f, "write_enum", WriteEnum(f)))
  \cup (IF CanWrite(f) THEN ProxyItem(f, "writer", WriteEnum(f)) ELSE {})

KnownBy(f) ==
  {<<EnumKind(f, "read_enum"), EnumName(f, e)>> : e \in ReadEnum(f)}
  \cup {<<EnumKind(f, "write_enum"), EnumName(f, e)>> : e \in WriteEnum(f)}
  \cup {<<i.kind, i.name>> : i \in {j \in ItemsOf(f) : j.kind \in {"reader", "writer"} /\ j.target # {}}}

\* The loop goes through the fields by offset.
Turn(f) == stage = "fields" /\ f \in Rendered(reg) \ rendered
           /\ \A g \in Rendered(reg) \ rendered : f.off <= g.off

RenderField(f) ==
  /\ Turn(f) /\ (CanRead(f) \/ CanWrite(f))
  /\ rendered' = rendered \cup {f}
  /\ items' = items \cup ItemsOf(f)
  /\ known' = known \cup KnownBy(f)
  /\ UNCHANGED <<reg, stage, useVars>>

\* Field is not writtable or readable
FailField(f) ==
  /\ Turn(f) /\ ~CanRead(f) /\ ~CanWrite(f)
  /\ stage' = "failed"
  /\ UNCHANGED <<reg, renderVars, useVars>>

Finish ==
  /\ stage = "fields" /\ rendered = Rendered(reg)
  /\ stage' = "idle"
  /\ UNCHANGED <<reg, renderVars, useVars>>

----------------------------------------------------------------------------
(* Use *)

Plainly  == {"write", "modify"}
Securely == {"write_protected", "modify_protected"}

\* write starts from the reset value, modify from what it read.
Proxy(o) ==
  LET from == IF o \in {"write", "write_protected"} THEN reg.reset ELSE value
  IN  (from \ ONE_TO_MODIFY(reg)) \cup ZERO_TO_MODIFY(reg)

Open(o) ==
  /\ stage = "idle" /\ o \in Plainly \cup Securely
  /\ reg.writable /\ (o \in {"write", "write_protected"} \/ reg.readable)
  /\ o \in Securely <=> reg.protected
  /\ op' = o /\ w' = Proxy(o) /\ stage' = "closure"
  /\ UNCHANGED <<reg, renderVars, before, value, called, window>>

\* A call takes two instructions at least.
Tick(n) == {IF left < n THEN 0 ELSE left - n : left \in window}

CallWriter(f, n, method, v) ==
  /\ stage = "closure" /\ Cardinality(called) < MaxCalls
  /\ w' = Called(w, f, n, method, v)
  /\ called' = {c \in called : c.field # f.name \/ c.n # n}
               \cup {[field |-> f.name, n |-> n, method |-> method, v |-> v]}
  /\ window' = Tick(2)
  /\ UNCHANGED <<reg, stage, renderVars, op, before, value>>

\* The bounds check of the accessor of an array.
Panic(f) ==
  /\ stage = "closure" /\ f.dim > 0
  /\ stage' = "panicked"
  /\ UNCHANGED <<reg, renderVars, useVars>>

EndClosure ==
  /\ stage = "closure"
  /\ stage' = "ended"
  /\ UNCHANGED <<reg, renderVars, useVars>>

\* A slip: the unlock may come before the closure is called.
UnlockEarly ==
  /\ stage \in {"closure", "ended"} /\ op \in Securely /\ window = {}
  /\ window' = {Window}
  /\ UNCHANGED <<reg, stage, renderVars, op, before, value, w, called>>

\* out
Unlock ==
  /\ stage = "ended" /\ op \in Securely /\ window = {}
  /\ window' = {Window}
  /\ UNCHANGED <<reg, stage, renderVars, op, before, value, w, called>>

\* st, which the CPU ignores for a protected register that is locked.
Set ==
  /\ stage = "ended" /\ (op \in Securely => window # {})
  /\ value' = IF reg.protected /\ window \subseteq {0} THEN value ELSE Store(reg, value, w)
  /\ stage' = "stored" /\ window' = Tick(1)
  /\ UNCHANGED <<reg, renderVars, op, before, w, called>>

Init ==
  /\ reg \in Descriptions
  /\ stage = "fields" /\ rendered = {} /\ items = {} /\ known = {}
  /\ value \in {reg.reset, Bits \ reg.reset, {}} /\ before = value
  /\ op = "none" /\ w = {} /\ called = {} /\ window = {}

Ended == stage \in {"failed", "stored", "panicked"} /\ UNCHANGED vars

Next ==
  \/ \E f \in Rendered(reg) : RenderField(f) \/ FailField(f)
  \/ Finish
  \/ \E o \in Plainly \cup Securely : Open(o)
  \/ \E f \in Written(reg) : \E n \in Elements(f), method \in WriterMethods(WriterOf(f)) :
       \E v \in Arguments(f, method) : CallWriter(f, n, method, v)
  \/ \E f \in Written(reg) : Panic(f)
  \/ EndClosure \/ Unlock \/ Set
  \/ Ended

Spec == Init /\ [][Next]_vars

----------------------------------------------------------------------------
(* Properties *)

Field(name) == CHOOSE f \in reg.fields : f.name = name

FieldEnums(f) == ReadEnum(f) \cup WriteEnum(f)

\* The names of the register's enums can be told apart: a field that is derived
\* from another of the register is as accessible as it and has one enum, and the
\* name of an enum is that of no other field but one that is derived and comes after.
Derivable ==
  /\ \A f \in Rendered(reg), b \in reg.fields : b.name \in f.base =>
       ~b.reserved /\ b.base = {} /\ f.access = b.access /\ Len(f.evs) <= 1
  /\ \A f, g \in Rendered(reg) : f # g /\ f.base = {} =>
       \A d \in FieldEnums(f), e \in FieldEnums(g) :
         EnumName(f, d) = EnumName(g, e) => g.base # {} /\ f.off < g.off

\* The module of a register defines no name twice, and what is re-exported from
\* a field of the register is there and is something else.
ItemsResolve ==
  stage = "idle" /\ Derivable =>
    \A i, j \in items :
      /\ i.kind = j.kind /\ i.name = j.name => i = j
      /\ i.target # {} /\ (\E b \in reg.fields : b.name \in Field(i.field).base) =>
           \E k \in items : k.kind = i.kind /\ k.name \in i.target /\ k.target = {}

\* A field that is derived keeps the methods of its base: that they say what
\* they do takes that both are modified by a write in the same way.
SameKind(f) == FieldMwv(reg, f) = FieldMwv(reg, WriterOf(f))

\* Methods of one bit do what they are named for to the value, given what it was.
Switches == {"set_bit", "set_bit_by_zero", "clear_bit", "clear_bit_by_one", "toggle_bit"}

Switched(c, f) ==
  LET bit == Offset(f, c.n) IN
  /\ c.method \in {"set_bit", "set_bit_by_zero"}    => bit \in value
  /\ c.method \in {"clear_bit", "clear_bit_by_one"} => bit \notin value
  /\ c.method = "toggle_bit" => (bit \in value <=> bit \notin before)

\* The SVD kinds `set' and `clear' leave no choice to a write, but get set_bit
\* and clear_bit both.
FlagsTakeEffect ==
  stage = "stored" =>
    \A c \in called : LET f == Field(c.field) IN
      c.method \in Switches /\ SameKind(f) /\ FieldMwv(reg, f) \notin {"set", "clear"} => Switched(c, f)

\* A value that is written to a plain field reads back, and as its variant.
ReadsBack(c, f) ==
  /\ ReadIndexed(value, f, c.n) = c.v % Pow2[f.width]
  /\ ReadNamed(value, f, c.n) = c.v % Pow2[f.width]
  /\ c.method = "variant" => \A e \in ReadEnum(f) \cap WriteEnum(f) : Variant(e, f.width, c.v) = {c.v}

ValuesReadBack ==
  stage = "stored" =>
    \A c \in called : LET f == Field(c.field) IN
      c.method \notin Switches /\ f.access = "rw" /\ FieldMwv(reg, f) = "modify" => ReadsBack(c, f)

\* Calls of field writers in a closure do what they are named for, to what the
\* readers of the fields then return: across the methods of each kind of flag,
\* the bitmaps that write and modify start from, the elements of arrays and the
\* unlocking of a protected register.
CallsTakeEffect == FlagsTakeEffect /\ ValuesReadBack

\* A call changes W in the bits of the element that its accessor is for, and in
\* no others, whatever the argument.
CallsStayInField ==
  [][stage = "closure" /\ stage' = "closure" =>
       /\ called' = called => w' = w
       /\ \A c \in called' \ called : \A b \in Bits \ ElementBits(Field(c.field), c.n) :
            b \in w' <=> b \in w]_vars

\* variant() returns the variant of the value if the SVD file lists it, else the
\* default if that is free, and never another one; and it panics on no value but
\* one whose entry is named `reserved': the entries are counted as if these, too,
\* became variants.  That it does panic on such a value is left to it here,
\* although a comment (register.rs:867) says that unsafe code alone gets there.
VariantsFaithful ==
  stage = "idle" =>
    \A f \in Rendered(reg) : \A e \in ReadEnum(f), n \in Elements(f) :
      LET v == ReadIndexed(value, f, n)
          r == Variant(e, f.width, v)
      IN  /\ v \in e.values => r = {v}
          /\ v \notin e.values /\ Default(e, f.width) # {} => r = Default(e, f.width)
          /\ v \notin e.values /\ ~e.default => r = {}
          /\ HasVariants(e, f.width) /\ Panics(e, f.width, v) => v \in e.reserved

\* What the SVD file lets a program write to a field of several bits: no value
\* outside the writeConstraint, and of an enumeration none but those that are
\* listed or, if it has a default, not reserved.
Allowed(f, v) ==
  /\ \A r \in f.range : r[1] <= v /\ v <= r[2]
  /\ \A e \in WriteEnum(f) : v \in e.values \/ (e.default /\ v \notin e.reserved)

SafeCall(c) == c.method \in {"set", "variant"} /\ WriterOf(Field(c.field)).width > 1

\* The file limits the values of f in one way: by a range, or by an enumeration
\* that does not tell reserved values from a default.
OneLimit(f) ==
  /\ f.range = {} \/ WriteEnum(f) = {}
  /\ \A e \in WriteEnum(f) : e.default => e.reserved = {}

\* The methods that are not unsafe, set() and those of the variants, leave in
\* the field a value that the file allows, also when the argument is cut to the
\* width of the field; if the file limits the values in one way.
SafeCallsInLimit ==
  \A c \in called : LET f == WriterOf(Field(c.field)) IN
    SafeCall(c) /\ OneLimit(f) => Allowed(f, c.v % Pow2[f.width])

\* lib.rs (line 645): a method `will become safe if it's impossible to write a
\* reserved bit pattern into the register'; register.rs (line 1395): `if a
\* writeConstraint exists then respect it'.
SafeCallsAllowed ==
  \A c \in called : LET f == WriterOf(Field(c.field)) IN
    SafeCall(c) => Allowed(f, c.v % Pow2[f.width])
=============================================================================
