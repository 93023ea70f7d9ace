--------------------------- MODULE FieldApiProofs ---------------------------
(***************************************************************************)
(* The API of the fields of a register, for every register whose fields    *)
(* are apart, any number of calls and any arguments: calls of field        *)
(* writers change their own element, and their effect lasts until the      *)
(* register is stored and is what its readers return; the enumerations     *)
(* tell the truth about it; and the module of the register names each item *)
(* once.                                                                   *)
(***************************************************************************)
EXTENDS FieldApi, RegistersProofs, Induction, FiniteSetTheorems, TLAPS

----------------------------------------------------------------------------
(* Numbers and their bits *)

Doubling(f) == f = [n \in Nat |-> IF n = 0 THEN 1 ELSE 2 * f[n - 1]]

\* Powers of two are positive and double.
LEMMA Pow2Def ==
  /\ \A n \in Nat : Pow2[n] \in Nat \ {0} /\ Pow2[n + 1] = 2 * Pow2[n]
  /\ Pow2[0] = 1
<1> DEFINE P == Nat \ {0}
           step == [p \in Nat \X P |-> 2 * p[2]]
           one == 1
<1>1. step \in [Nat \X P -> P] /\ one \in P
  OBVIOUS
<1>2. PICK f : Recursion(f, P, one, step)
  <2> HIDE DEF step, P, one
  <2> QED BY <1>1, RecursionHasSolution
<1>3. f \in [Nat -> P] /\ f[0] = 1 /\ \A n \in Nat : f[n + 1] = 2 * f[n]
  BY <1>2 DEF Recursion
<1>4. Doubling(f)
  <2>1. ASSUME NEW n \in Nat PROVE f[n] = IF n = 0 THEN 1 ELSE 2 * f[n - 1]
    <3>1. CASE n # 0
      <4>1. n - 1 \in Nat /\ (n - 1) + 1 = n
        BY <3>1
      <4> QED BY <4>1, <3>1, <1>3
    <3> QED BY <3>1, <1>3
  <2> QED BY <2>1, <1>3 DEF Doubling
<1>5. Doubling(Pow2)
  <2>1. Pow2 = CHOOSE g : Doubling(g)
    BY DEF Pow2, Doubling
  <2> QED BY <1>4, <2>1
<1>6. Pow2[0] = 1 /\ \A n \in Nat : Pow2[n + 1] = 2 * Pow2[n]
  BY <1>5 DEF Doubling
<1> DEFINE I == {n \in Nat : Pow2[n] \in P}
<1>7. 0 \in I /\ \A n \in Nat : n \in I => n + 1 \in I
  BY <1>6
<1>8. \A n \in Nat : n \in I
  <2> HIDE DEF I
  <2> QED BY <1>7, NatInductionOnSet
<1> QED BY <1>6, <1>8

\* Quotient and remainder are unique.
LEMMA Division ==
  ASSUME NEW a \in Nat, NEW p \in Nat \ {0}, NEW q \in Nat, NEW r \in 0 .. p - 1, a = q * p + r
  PROVE  a \div p = q /\ a % p = r
<1> DEFINE x == a \div p
           y == a % p
<1>1. x \in Int /\ y \in 0 .. p - 1 /\ a = x * p + y
  OBVIOUS
<1> HIDE DEF x, y
<1>2. (x - q) * p = r - y
  BY <1>1
<1>3. ~(x > q)
  <2> SUFFICES ASSUME x > q PROVE FALSE
    OBVIOUS
  <2>1. (x - q) * p >= p
    BY <1>1
  <2> QED BY <2>1, <1>1, <1>2
<1>4. ~(x < q)
  <2> SUFFICES ASSUME x < q PROVE FALSE
    OBVIOUS
  <2>1. (x - q) * p <= -p
    BY <1>1
  <2> QED BY <2>1, <1>1, <1>2
<1>5. x = q
  BY <1>1, <1>3, <1>4
<1>6. y = r
  BY <1>1, <1>2, <1>5
<1> QED BY <1>5, <1>6 DEF x, y

\* One more bit of a number.
LEMMA OneBitMore ==
  ASSUME NEW v \in Nat, NEW p \in Nat \ {0}
  PROVE  v % (2 * p) = (v % p) + (IF (v \div p) % 2 = 1 THEN p ELSE 0)
<1> DEFINE q == v \div p
           r == v % p
           h == q \div 2
           b == q % 2
<1>1. q \in Nat /\ r \in 0 .. p - 1 /\ v = q * p + r
  OBVIOUS
<1> HIDE DEF q, r
<1>2. h \in Nat /\ b \in 0 .. 1 /\ q = 2 * h + b
  BY <1>1
<1> HIDE DEF h, b
<1>3. v = h * (2 * p) + (b * p + r)
  BY <1>1, <1>2
<1>4. b * p + r \in 0 .. 2 * p - 1
  <2>1. CASE b = 0
    BY <2>1, <1>1
  <2>2. CASE b = 1
    BY <2>2, <1>1
  <2> QED BY <2>1, <2>2, <1>2
<1>5. v % (2 * p) = b * p + r
  <2>1. 2 * p \in Nat \ {0}
    OBVIOUS
  <2> DEFINE m == 2 * p
             s == b * p + r
  <2>2. m \in Nat \ {0} /\ s \in 0 .. m - 1 /\ v = h * m + s
    BY <2>1, <1>3, <1>4
  <2> HIDE DEF m, s
  <2>3. v % m = s
    BY <2>2, <1>2, Division
  <2> QED BY <2>3 DEF m, s
<1>6. b * p = IF b = 1 THEN p ELSE 0
  BY <1>2
<1>7. v % (2 * p) = r + (IF b = 1 THEN p ELSE 0)
  BY <1>1, <1>5, <1>6
<1> QED BY <1>7 DEF q, r, b

\* f[k] is the number of the first k bits.
SumOf(f, bits, k) == IF k = 0 THEN 0 ELSE f[k - 1] + (IF k - 1 \in bits THEN Pow2[k - 1] ELSE 0)
Sums(f, bits) == f = [k \in Nat |-> SumOf(f, bits, k)]

SumsTo(f, bits) ==
  /\ f \in [Nat -> Nat] /\ f[0] = 0
  /\ \A k \in Nat : f[k + 1] = f[k] + (IF k \in bits THEN Pow2[k] ELSE 0)

\* A number is the last of the sums of its bits.
LEMMA NumberSums ==
  ASSUME NEW bits
  PROVE  \E f : SumsTo(f, bits) /\ Number(bits) = f[reg.size]
<1> DEFINE step == [p \in Nat \X Nat |-> p[2] + (IF p[1] \in bits THEN Pow2[p[1]] ELSE 0)]
           N == Nat
           zero == 0
           l == CHOOSE f : Sums(f, bits)
<1>1. step \in [Nat \X N -> N] /\ zero \in N
  BY Pow2Def
<1>2. PICK f : Recursion(f, N, zero, step)
  <2> HIDE DEF N, zero, step
  <2> QED BY <1>1, RecursionHasSolution
<1>3. f \in [Nat -> Nat] /\ f[0] = 0 /\ \A k \in Nat : f[k + 1] = step[<<k, f[k]>>]
  BY <1>2 DEF Recursion
<1>4. \A k \in Nat : f[k + 1] = f[k] + (IF k \in bits THEN Pow2[k] ELSE 0)
  BY <1>3
<1>5. Sums(f, bits)
  <2>1. ASSUME NEW k \in Nat PROVE f[k] = SumOf(f, bits, k)
    <3>1. CASE k # 0
      <4>1. k - 1 \in Nat /\ (k - 1) + 1 = k
        BY <3>1
      <4>2. f[k] = f[k - 1] + (IF k - 1 \in bits THEN Pow2[k - 1] ELSE 0)
        BY <4>1, <1>4
      <4> QED BY <4>2, <3>1 DEF SumOf
    <3> QED BY <3>1, <1>3 DEF SumOf
  <2>2. f = [k \in Nat |-> f[k]]
    BY <1>3
  <2> QED BY <2>1, <2>2 DEF Sums
<1>6. Sums(l, bits)
  BY <1>5
<1>7. Number(bits) = l[reg.size]
  BY DEF Number, Sums, SumOf
<1> HIDE DEF l
<1>8. \A k \in Nat : l[k] = SumOf(l, bits, k)
  BY <1>6 DEF Sums
<1>9. l[0] = 0
  BY <1>8 DEF SumOf
<1>10. ASSUME NEW k \in Nat PROVE l[k + 1] = l[k] + (IF k \in bits THEN Pow2[k] ELSE 0)
  <2>1. l[k + 1] = SumOf(l, bits, k + 1)
    BY <1>8
  <2>2. (k + 1) - 1 = k /\ k + 1 # 0
    OBVIOUS
  <2> QED BY <2>1, <2>2 DEF SumOf
<1> DEFINE I == {k \in Nat : l[k] \in Nat}
<1>11. 0 \in I /\ \A k \in Nat : k \in I => k + 1 \in I
  BY <1>9, <1>10, Pow2Def
<1>12. \A k \in Nat : k \in I
  <2> HIDE DEF I
  <2> QED BY <1>11, NatInductionOnSet
<1>13. l = [k \in Nat |-> l[k]]
  BY <1>6 DEF Sums
<1> QED BY <1>7, <1>9, <1>10, <1>12, <1>13 DEF SumsTo

\* Bits that are not there add nothing.
LEMMA SumEnds ==
  ASSUME NEW bits, NEW f, NEW n \in Nat, NEW m \in Nat
  PROVE  SumsTo(f, bits) /\ n <= m /\ (\A k \in n .. m - 1 : k \notin bits) => f[m] = f[n]
<1> SUFFICES ASSUME SumsTo(f, bits), n <= m, \A k \in n .. m - 1 : k \notin bits PROVE f[m] = f[n]
  OBVIOUS
<1> DEFINE I == {k \in Nat : n + k <= m => f[n + k] = f[n]}
<1>1. 0 \in I
  OBVIOUS
<1>2. ASSUME NEW k \in Nat, k \in I PROVE k + 1 \in I
  <2> SUFFICES ASSUME n + (k + 1) <= m PROVE f[n + (k + 1)] = f[n]
    OBVIOUS
  <2>1. n + k \in n .. m - 1 /\ n + k \in Nat /\ f[n + k] = f[n]
    BY <1>2
  <2>2. f[(n + k) + 1] = f[n + k]
    BY <2>1 DEF SumsTo
  <2>3. (n + k) + 1 = n + (k + 1)
    OBVIOUS
  <2> QED BY <2>1, <2>2, <2>3
<1>3. m - n \in I
  <2>1. m - n \in Nat
    OBVIOUS
  <2> HIDE DEF I
  <2> QED BY <1>1, <1>2, <2>1, NatInductionOnSet
<1> QED BY <1>3

\* The number of some bits is less than the power of two above them.
LEMMA NumberBelow ==
  ASSUME reg.size \in Nat, NEW n \in 0 .. reg.size, NEW bits \in SUBSET (0 .. n - 1)
  PROVE  Number(bits) \in 0 .. Pow2[n] - 1
<1>1. PICK f : SumsTo(f, bits) /\ Number(bits) = f[reg.size]
  BY NumberSums
<1> DEFINE I == {k \in Nat : f[k] < Pow2[k]}
<1>2. 0 \in I
  BY <1>1, Pow2Def DEF SumsTo
<1>3. ASSUME NEW k \in Nat, k \in I PROVE k + 1 \in I
  <2>1. f[k + 1] = f[k] + (IF k \in bits THEN Pow2[k] ELSE 0) /\ f[k] \in Nat
    BY <1>1 DEF SumsTo
  <2>2. Pow2[k + 1] = 2 * Pow2[k] /\ Pow2[k] \in Nat \ {0}
    BY Pow2Def
  <2> QED BY <1>3, <2>1, <2>2
<1>4. f[n] < Pow2[n]
  <2>1. n \in I
    <3> HIDE DEF I
    <3> QED BY <1>2, <1>3, NatInductionOnSet
  <2> QED BY <2>1
<1>5. f[reg.size] = f[n]
  <2>1. n \in Nat /\ n <= reg.size /\ \A k \in n .. reg.size - 1 : k \notin bits
    OBVIOUS
  <2> HIDE DEF I
  <2> QED BY <1>1, <2>1, SumEnds
<1> QED BY <1>1, <1>4, <1>5, Pow2Def DEF SumsTo

\* The bits of a value make up its number, cut to the width.
LEMMA NumberOfValue ==
  ASSUME reg.size \in Nat, NEW n \in 0 .. reg.size, NEW v \in Nat, NEW bits
  PROVE  /\ \A k \in 0 .. n - 1 : k \in bits <=> (v \div Pow2[k]) % 2 = 1
         /\ \A k \in n .. reg.size - 1 : k \notin bits
         => Number(bits) = v % Pow2[n]
<1> SUFFICES ASSUME \A k \in 0 .. n - 1 : k \in bits <=> (v \div Pow2[k]) % 2 = 1,
                    \A k \in n .. reg.size - 1 : k \notin bits
             PROVE  Number(bits) = v % Pow2[n]
  OBVIOUS
<1>1. PICK f : SumsTo(f, bits) /\ Number(bits) = f[reg.size]
  BY NumberSums
<1> DEFINE I == {k \in Nat : k <= n => f[k] = v % Pow2[k]}
<1>4. 0 \in I
  BY <1>1, Pow2Def DEF SumsTo
<1>5. ASSUME NEW k \in Nat, k \in I PROVE k + 1 \in I
  <2> SUFFICES ASSUME k + 1 <= n PROVE f[k + 1] = v % Pow2[k + 1]
    OBVIOUS
  <2>1. f[k] = v % Pow2[k] /\ k \in 0 .. n - 1
    BY <1>5
  <2>2. f[k + 1] = f[k] + (IF (v \div Pow2[k]) % 2 = 1 THEN Pow2[k] ELSE 0)
    BY <1>1, <2>1 DEF SumsTo
  <2>3. v % (2 * Pow2[k]) = (v % Pow2[k]) + (IF (v \div Pow2[k]) % 2 = 1 THEN Pow2[k] ELSE 0)
    BY Pow2Def, OneBitMore
  <2>4. Pow2[k + 1] = 2 * Pow2[k]
    BY Pow2Def
  <2> QED BY <2>1, <2>2, <2>3, <2>4
<1>6. f[n] = v % Pow2[n]
  <2>1. n \in I
    <3> HIDE DEF I
    <3> QED BY <1>4, <1>5, NatInductionOnSet
  <2> QED BY <2>1
<1>7. f[reg.size] = f[n]
  <2>1. n \in Nat /\ n <= reg.size
    OBVIOUS
  <2> HIDE DEF I
  <2> QED BY <1>1, <2>1, SumEnds
<1> QED BY <1>1, <1>6, <1>7
----------------------------------------------------------------------------
(* Enumerations *)

\* The values of a field are as many as its bits can tell apart.
LEMMA ValuesFinite ==
  ASSUME NEW n \in Nat
  PROVE  /\ Values(n) \subseteq Nat
         /\ \A T : T \subseteq Values(n) =>
              /\ IsFiniteSet(T) /\ Cardinality(T) \in 0 .. Pow2[n]
              /\ Cardinality(T) = Pow2[n] => T = Values(n)
<1>1. Pow2[n] \in Nat \ {0}
  BY Pow2Def
<1>2. IsFiniteSet(Values(n)) /\ Cardinality(Values(n)) = Pow2[n]
  <2> SUFFICES ASSUME NEW p \in Nat \ {0} PROVE IsFiniteSet(0 .. p - 1) /\ Cardinality(0 .. p - 1) = p
    BY <1>1 DEF Values
  <2>1. p - 1 \in Int /\ 0 \in Int
    OBVIOUS
  <2>2. IsFiniteSet(0 .. p - 1) /\ Cardinality(0 .. p - 1) = IF 0 > p - 1 THEN 0 ELSE (p - 1) - 0 + 1
    BY <2>1, FS_Interval
  <2> QED BY <2>2
<1>3. ASSUME NEW T, T \subseteq Values(n)
      PROVE  /\ IsFiniteSet(T) /\ Cardinality(T) \in 0 .. Pow2[n]
             /\ Cardinality(T) = Pow2[n] => T = Values(n)
  <2>1. T \in SUBSET Values(n)
    BY <1>3
  <2>2. IsFiniteSet(T) /\ Cardinality(T) <= Pow2[n] /\ (Pow2[n] = Cardinality(T) => Values(n) = T)
    BY <1>2, <2>1, FS_Subset
  <2>3. Cardinality(T) \in Nat
    BY <2>2, FS_CardinalityType
  <2> QED BY <1>1, <2>2, <2>3
<1> QED BY <1>1, <1>3 DEF Values

\* When one value is left it is the only one.
LEMMA OneLeft ==
  ASSUME NEW n \in Nat, NEW e, e.values \subseteq Values(n), LastOne(e, n),
         NEW u \in Values(n) \ e.values, NEW v \in Values(n) \ e.values
  PROVE  u = v
<1>1. IsFiniteSet(e.values) /\ Cardinality(e.values) = Pow2[n] - 1 /\ Pow2[n] \in Nat
  BY ValuesFinite, Pow2Def DEF LastOne
<1>2. Cardinality(e.values \cup {v}) = Pow2[n]
  <2>1. Cardinality(e.values \cup {v}) = Cardinality(e.values) + 1
    BY <1>1, FS_AddElement
  <2> QED BY <2>1, <1>1
<1>3. e.values \cup {v} = Values(n)
  BY <1>2, ValuesFinite
<1> QED BY <1>3

\* The default has at most one value, which is free, and has one if any is.
LEMMA DefaultShape ==
  ASSUME NEW n \in Nat, NEW e
  PROVE  /\ Default(e, n) \subseteq Values(n) \ (e.values \cup e.reserved)
         /\ \A u, v \in Default(e, n) : u = v
         /\ ~e.default => Default(e, n) = {}
         /\ e.default /\ Values(n) \ (e.values \cup e.reserved) # {} => Default(e, n) # {}
<1> DEFINE Free == Values(n) \ (e.values \cup e.reserved)
<1>1. Free \in SUBSET Nat
  BY ValuesFinite
<1>2. MinimalHole(e, n) = {v \in Free : \A u \in Free : v <= u}
  BY DEF MinimalHole
<1>3. Free # {} => \E v \in Free : \A u \in Free : v <= u
  <2> HIDE DEF Free
  <2> QED BY <1>1, SmallestOf
<1> HIDE DEF Free
<1>4. ASSUME NEW u \in MinimalHole(e, n), NEW v \in MinimalHole(e, n) PROVE u = v
  <2>1. u \in Free /\ v \in Free /\ u <= v /\ v <= u
    BY <1>2
  <2> QED BY <2>1, <1>1
<1>5. MinimalHole(e, n) \subseteq Free /\ (Free # {} => MinimalHole(e, n) # {})
  BY <1>2, <1>3
<1> QED BY <1>4, <1>5 DEF Default, Free

\* variant() is right for every value of the field, and panics on reserved ones only.
LEMMA VariantRight ==
  ASSUME NEW n \in Nat, NEW e, e.values \cup e.reserved \subseteq Values(n), e.values \cap e.reserved = {},
         NEW v \in Values(n)
  PROVE  /\ v \in e.values => Variant(e, n, v) = {v}
         /\ v \notin e.values /\ Default(e, n) # {} => Variant(e, n, v) = Default(e, n)
         /\ v \notin e.values /\ ~e.default => Variant(e, n, v) = {}
         /\ HasVariants(e, n) /\ Panics(e, n, v) => v \in e.reserved
<1>1. \A x \in Default(e, n) : x \in Values(n) \ e.values /\ Default(e, n) = {x}
  BY DefaultShape
<1>2. /\ IsFiniteSet(e.values) /\ Cardinality(e.values) \in Nat /\ Pow2[n] \in Nat \ {0}
      /\ IsFiniteSet(e.reserved) /\ Cardinality(e.reserved) \in Nat
  BY ValuesFinite, Pow2Def
<1>3. v \in e.values => Variant(e, n, v) = {v}
  BY DEF Variant, ReadVariants
<1>4. ASSUME v \notin e.values, Default(e, n) # {}
      PROVE  Variant(e, n, v) = Default(e, n)
  <2>1. PICK x : x \in Default(e, n)
    BY <1>4
  <2>2. CASE LastOne(e, n)
    <3>1. x = v
      BY <1>1, <1>4, <2>1, <2>2, OneLeft
    <3> QED BY <3>1, <1>1, <2>1, <2>2 DEF Variant, ReadVariants
  <2>3. CASE ~LastOne(e, n)
    <3>1. Cardinality(e.values) # Pow2[n]
      BY <1>4, ValuesFinite
    <3> QED BY <3>1, <1>4, <2>3 DEF Variant, ReadVariants, ReadDefault
  <2> QED BY <2>2, <2>3
<1>5. ASSUME v \notin e.values, ~e.default PROVE Variant(e, n, v) = {}
  BY <1>5 DEF Variant, ReadVariants, ReadDefault, Default
<1>6. ASSUME HasVariants(e, n), v \notin e.reserved, Variant(e, n, v) = {} PROVE HasReservedVariant(e, n)
  <2>1. v \notin e.values /\ Default(e, n) = {}
    BY <1>3, <1>4, <1>6
  <2>2. ~e.default
    BY <2>1, <1>6, DefaultShape
  <2>3. Entries(e) = Cardinality(e.values \cup e.reserved)
    <3>1. Cardinality(e.values \cap e.reserved) = 0
      BY FS_EmptySet
    <3>2. Cardinality(e.values \cup e.reserved) =
            Cardinality(e.values) + Cardinality(e.reserved) - Cardinality(e.values \cap e.reserved)
      BY <1>2, FS_Union
    <3> QED BY <1>2, <2>2, <3>1, <3>2 DEF Entries
  <2>4. Cardinality(e.values \cup e.reserved) # Pow2[n]
    BY <1>6, <2>1, ValuesFinite
  <2>5. ReadDefault(e, n) = {}
    BY <2>1 DEF ReadDefault
  <2> QED BY <2>3, <2>4, <2>5 DEF HasReservedVariant
<1> QED BY <1>3, <1>4, <1>5, <1>6 DEF Panics

\* The entry that lookup_filter finds is one of the field's, and only one.
LEMMA LookupFinds ==
  ASSUME NEW evs, evs \in Seq({evs[k] : k \in DOMAIN evs}), NEW usage
  PROVE  /\ \A e \in Lookup(evs, usage) : \E k \in DOMAIN evs : e = evs[k]
         /\ \A d, e \in Lookup(evs, usage) : d = e
<1> DEFINE T == {k \in DOMAIN evs : evs[k].usage = usage}
<1>1. DOMAIN evs = 1 .. Len(evs) /\ Len(evs) \in Nat
  OBVIOUS
<1>2. T \in SUBSET Nat
  BY <1>1
<1>3. CASE T # {}
  <2>1. PICK x \in T : \A y \in T : x <= y
    <3> HIDE DEF T
    <3> QED BY <1>2, <1>3, SmallestOf
  <2>2. \A j \in 1 .. (x - 1) : evs[j].usage # usage
    BY <1>1, <2>1
  <2> DEFINE k == CHOOSE k \in DOMAIN evs : /\ evs[k].usage = usage
                                            /\ \A j \in 1..(k - 1) : evs[j].usage # usage
  <2>3. k \in DOMAIN evs
    BY <2>1, <2>2
  <2>4. Lookup(evs, usage) = {evs[k]}
    BY <1>3 DEF Lookup
  <2> HIDE DEF k
  <2> QED BY <2>3, <2>4
<1>4. CASE T = {}
  <2>1. Lookup(evs, usage) = {evs[k] : k \in DOMAIN evs \cap {1}}
    BY <1>4 DEF Lookup
  <2> QED BY <2>1
<1> QED BY <1>3, <1>4

----------------------------------------------------------------------------
(* The calls of the closure *)

\* A call in the closure is of an element of a field, and to make it once more
\* would change nothing: no later call has undone it.
Stands(c) ==
  \E f \in Written(reg) : \E n \in Elements(f) :
    /\ c.field = f.name /\ c.n = n
    /\ c.method \in Switches => c.method \in BitMethods(WriterOf(f))
    /\ Called(w, f, n, c.method, c.v) = w

InClosure == stage \in {"closure", "ended"}

ApiInv ==
  /\ reg \in Descriptions
  /\ stage \in {"fields", "failed", "idle"} => called = {}
  /\ \A c \in called : Stands(c)
  /\ InClosure => (op \in Securely <=> reg.protected)
  /\ stage \in {"fields", "idle", "closure"} => window = {}
  /\ stage = "ended" => window \subseteq {Window}
  /\ stage # "stored" => value = before
  /\ stage = "stored" => value = Store(reg, before, w)

----------------------------------------------------------------------------
(* Registers *)

LEMMA RegisterShape ==
  ASSUME reg \in Descriptions, NEW f \in Written(reg)
  PROVE  /\ f \in reg.fields /\ WellFormed(reg)
         /\ f.off \in Nat /\ f.width \in Nat \ {0} /\ f.inc \in Nat
         /\ WriterOf(f).width = f.width
         /\ Field(f.name) = f
         /\ \A n \in Elements(f) : n \in Nat /\ ElementBits(f, n) \subseteq f.bits
         /\ \A n, m \in Elements(f) : n # m => ElementBits(f, n) \cap ElementBits(f, m) = {}
<1>1. /\ WellFormed(reg)
      /\ \A g \in reg.fields :
           /\ g.off \in Nat /\ g.width \in Nat \ {0} /\ g.dim \in Nat /\ g.inc \in Nat
           /\ g.bits = UNION {ElementBits(g, n) : n \in Elements(g)}
           /\ \A n, m \in Elements(g) : n # m => ElementBits(g, n) \cap ElementBits(g, m) = {}
           /\ \A h \in reg.fields : (g.name = h.name => g = h) /\ (h.name \in g.base => g.width = h.width)
  BY FieldApiAssumption, DerivedAssumption
<1>2. f \in reg.fields
  BY DEF Written, Rendered
<1>3. WriterOf(f).width = f.width
  <2>1. CASE \E b \in reg.fields : b.name \in f.base
    <3>1. Original(f) \in reg.fields /\ Original(f).name \in f.base
      BY <2>1 DEF Original
    <3> QED BY <3>1, <1>1, <1>2 DEF WriterOf
  <2>2. CASE ~\E b \in reg.fields : b.name \in f.base
    BY <2>2 DEF WriterOf, Original
  <2> QED BY <2>1, <2>2
<1>4. Field(f.name) = f
  BY <1>1, <1>2 DEF Field
<1>5. \A n \in Elements(f) : n \in Nat
  BY <1>1, <1>2 DEF Elements
<1> QED BY <1>1, <1>2, <1>3, <1>4, <1>5

\* Two elements, of one field or of two, have no bit in common.
LEMMA ElementsApart ==
  ASSUME reg \in Descriptions, NEW f \in Written(reg), NEW g \in Written(reg),
         NEW n \in Elements(f), NEW m \in Elements(g), f # g \/ n # m
  PROVE  ElementBits(f, n) \cap ElementBits(g, m) = {}
<1>1. CASE f = g
  BY <1>1, RegisterShape
<1>2. CASE f # g
  <2>1. f.bits \cap g.bits = {}
    BY <1>2, RegisterShape DEF WellFormed
  <2>2. ElementBits(f, n) \subseteq f.bits /\ ElementBits(g, m) \subseteq g.bits
    BY RegisterShape
  <2> QED BY <2>1, <2>2
<1> QED BY <1>1, <1>2

\* A call replaces some bits of its element, whatever the others are.
LEMMA CalledForm ==
  ASSUME reg \in Descriptions, NEW f \in Written(reg), NEW n \in Elements(f), NEW method, NEW v
  PROVE  \E region, val \in SUBSET ElementBits(f, n) :
           \A bits : Called(bits, f, n, method, v) = (bits \ region) \cup val
<1> DEFINE o == Offset(f, n)
<1>1. /\ f.width \in Nat \ {0} /\ o \in Int /\ WriterOf(f).width = f.width
  BY RegisterShape DEF Offset
<1>2. ElementBits(f, n) = o .. o + f.width - 1 /\ o \in ElementBits(f, n)
  BY <1>1 DEF ElementBits
<1>3. CASE method \in {"variant", "bits", "set", "bit"}
  <2> DEFINE val == {b + o : b \in Masked(BitsOfValue(v), f.width)}
  <2>1. val \in SUBSET ElementBits(f, n)
    BY <1>1, <1>2 DEF Masked
  <2>2. \A bits : Called(bits, f, n, method, v) = (bits \ ElementBits(f, n)) \cup val
    BY <1>1, <1>2, <1>3 DEF Called, Assign
  <2> HIDE DEF val
  <2>3. ElementBits(f, n) \in SUBSET ElementBits(f, n)
    OBVIOUS
  <2> QED BY <2>1, <2>2, <2>3
<1>4. CASE method \notin {"variant", "bits", "set", "bit"} /\ Raises(WriterOf(f), method)
  <2>1. \A bits : Called(bits, f, n, method, v) = (bits \ {}) \cup {o}
    BY <1>4 DEF Called
  <2>2. {} \in SUBSET ElementBits(f, n) /\ {o} \in SUBSET ElementBits(f, n)
    BY <1>2
  <2> QED BY <2>1, <2>2
<1>5. CASE method \notin {"variant", "bits", "set", "bit"} /\ ~Raises(WriterOf(f), method)
  <2>1. \A bits : Called(bits, f, n, method, v) = (bits \ {o}) \cup {}
    BY <1>5 DEF Called
  <2>2. {} \in SUBSET ElementBits(f, n) /\ {o} \in SUBSET ElementBits(f, n)
    BY <1>2
  <2> QED BY <2>1, <2>2
<1> QED BY <1>3, <1>4, <1>5

\* A call leaves the other bits alone, and made twice is as good as once.
LEMMA CallIsLocal ==
  ASSUME reg \in Descriptions, NEW f \in Written(reg), NEW n \in Elements(f), NEW method, NEW v, NEW bits
  PROVE  LET after == Called(bits, f, n, method, v) IN
         /\ \A b : b \notin ElementBits(f, n) => (b \in after <=> b \in bits)
         /\ Called(after, f, n, method, v) = after
<1>1. PICK region, val \in SUBSET ElementBits(f, n) :
        \A x : Called(x, f, n, method, v) = (x \ region) \cup val
  BY CalledForm
<1>2. Called(bits, f, n, method, v) = (bits \ region) \cup val
  BY <1>1
<1>3. Called((bits \ region) \cup val, f, n, method, v) = (((bits \ region) \cup val) \ region) \cup val
  BY <1>1
<1> QED BY <1>2, <1>3

\* A call of another element does not undo one.
LEMMA OtherCallsKeep ==
  ASSUME reg \in Descriptions, NEW f \in Written(reg), NEW n \in Elements(f), NEW method, NEW v,
         NEW bits, NEW after
  PROVE  Called(bits, f, n, method, v) = bits /\ (\A b \in ElementBits(f, n) : b \in after <=> b \in bits)
         => Called(after, f, n, method, v) = after
<1>1. PICK region, val \in SUBSET ElementBits(f, n) :
        \A x : Called(x, f, n, method, v) = (x \ region) \cup val
  BY CalledForm
<1>2. Called(bits, f, n, method, v) = (bits \ region) \cup val
  BY <1>1
<1>3. Called(after, f, n, method, v) = (after \ region) \cup val
  BY <1>1
<1> QED BY <1>2, <1>3

----------------------------------------------------------------------------
(* The invariant *)

\* Nothing has been called in the beginning.
LEMMA InitInv == Init => ApiInv
BY DEF Init, ApiInv, InClosure

\* Calls stand as long as the register is the same and W too.
LEMMA StandsStays ==
  ASSUME reg' = reg, NEW c
  PROVE  Stands(c)' <=> \E g \in Written(reg) : \E m \in Elements(g) :
                          /\ c.field = g.name /\ c.n = m
                          /\ c.method \in Switches => c.method \in BitMethods(WriterOf(g))
                          /\ Called(w', g, m, c.method, c.v) = w'
BY DEF Stands, Called, WriterOf, Original, WriteEnum, CanWrite, Lookup, Raises, BitMethods, FieldMwv, Assign,
       Masked, BitsOfValue, Offset, Elements, Written, Rendered

\* A call leaves the calls of other elements standing, and stands itself.
LEMMA CallKeepsCalls ==
  ASSUME ApiInv, NEW f \in Written(reg), NEW n \in Elements(f), NEW method, NEW v,
         method \in Switches => method \in BitMethods(WriterOf(f)),
         CallWriter(f, n, method, v), NEW c \in called'
  PROVE  Stands(c)'
<1> DEFINE new == [field |-> f.name, n |-> n, method |-> method, v |-> v]
<1>1. /\ reg \in Descriptions /\ w' = Called(w, f, n, method, v) /\ reg' = reg
      /\ called' = {d \in called : d.field # f.name \/ d.n # n} \cup {new}
  BY DEF ApiInv, CallWriter
<1>2. CASE c = new
  <2>1. Called(w', f, n, method, v) = w'
    BY <1>1, CallIsLocal
  <2> QED BY <1>1, <1>2, <2>1, StandsStays
<1>3. CASE c \in called /\ (c.field # f.name \/ c.n # n)
  <2>1. Stands(c)
    BY <1>3 DEF ApiInv
  <2>2. PICK g \in Written(reg) : \E m \in Elements(g) :
          /\ c.field = g.name /\ c.n = m
          /\ c.method \in Switches => c.method \in BitMethods(WriterOf(g))
          /\ Called(w, g, m, c.method, c.v) = w
    BY <2>1 DEF Stands
  <2>3. PICK m \in Elements(g) :
          /\ c.field = g.name /\ c.n = m
          /\ c.method \in Switches => c.method \in BitMethods(WriterOf(g))
          /\ Called(w, g, m, c.method, c.v) = w
    BY <2>2
  <2>4. ElementBits(g, m) \cap ElementBits(f, n) = {}
    BY <1>1, <1>3, <2>3, ElementsApart
  <2>5. \A b : b \notin ElementBits(f, n) => (b \in w' <=> b \in w)
    BY <1>1, CallIsLocal
  <2>6. \A b \in ElementBits(g, m) : b \in w' <=> b \in w
    BY <2>4, <2>5
  <2>7. Called(w', g, m, c.method, c.v) = w'
    BY <1>1, <2>3, <2>6, OtherCallsKeep
  <2> QED BY <1>1, <2>3, <2>7, StandsStays
<1> QED BY <1>1, <1>2, <1>3

\* The window is still open for the protected store: nothing comes in between.
LEMMA SetKeeps ==
  ASSUME ApiInv, Set
  PROVE  value' = Store(reg, before, w)
<1>1. value = before /\ InClosure
  BY DEF ApiInv, Set, InClosure
<1>2. ASSUME reg.protected PROVE ~(window \subseteq {0})
  <2>1. op \in Securely
    BY <1>1, <1>2 DEF ApiInv
  <2>2. window = {Window}
    BY <2>1 DEF Set, ApiInv
  <2> QED BY <2>2, FieldApiAssumption
<1> QED BY <1>1, <1>2 DEF Set

\* Every step leaves the calls standing.
LEMMA NextInv == ApiInv /\ [Next]_vars => ApiInv'
<1> SUFFICES ASSUME ApiInv, [Next]_vars PROVE ApiInv'
  OBVIOUS
<1>1. ASSUME UNCHANGED <<reg, w, called>> PROVE \A c \in called' : Stands(c)'
  BY <1>1, StandsStays DEF ApiInv, Stands
<1>2. ASSUME NEW f \in Rendered(reg), RenderField(f) \/ FailField(f) PROVE ApiInv'
  BY <1>1, <1>2 DEF RenderField, FailField, Turn, useVars, ApiInv, InClosure
<1>3. CASE Finish
  BY <1>1, <1>3 DEF Finish, renderVars, useVars, ApiInv, InClosure
<1>4. ASSUME NEW o \in Plainly \cup Securely, Open(o) PROVE ApiInv'
  <2>1. called' = {} /\ called = {}
    BY <1>4 DEF Open, ApiInv
  <2> QED BY <1>4, <2>1 DEF Open, renderVars, ApiInv, InClosure
<1>5. ASSUME NEW f \in Written(reg), NEW n \in Elements(f), NEW method \in WriterMethods(WriterOf(f)),
             NEW v, CallWriter(f, n, method, v)
      PROVE  ApiInv'
  <2>0. method \in Switches => method \in BitMethods(WriterOf(f))
    BY DEF WriterMethods, Switches
  <2>1. \A c \in called' : Stands(c)'
    BY <1>5, <2>0, CallKeepsCalls
  <2>2. window' = {}
    BY <1>5 DEF CallWriter, Tick, ApiInv
  <2> QED BY <1>5, <2>1, <2>2 DEF CallWriter, renderVars, ApiInv, InClosure
<1>6. ASSUME NEW f \in Written(reg), Panic(f) PROVE ApiInv'
  BY <1>1, <1>6 DEF Panic, renderVars, useVars, ApiInv, InClosure
<1>7. CASE EndClosure
  BY <1>1, <1>7 DEF EndClosure, renderVars, useVars, ApiInv, InClosure
<1>8. CASE Unlock
  BY <1>1, <1>8 DEF Unlock, renderVars, ApiInv, InClosure
<1>9. CASE Set
  <2>1. value' = Store(reg, before, w)
    BY <1>9, SetKeeps
  <2>2. Store(reg, before, w)' = Store(reg, before, w)
    BY <1>9 DEF Set, Store, Becomes, Kind, FieldMwv
  <2> QED BY <1>1, <1>9, <2>1, <2>2 DEF Set, renderVars, ApiInv, InClosure
<1>10. CASE UNCHANGED vars
  <2>1. Store(reg, before, w)' = Store(reg, before, w)
    BY <1>10 DEF vars, useVars, Store, Becomes, Kind, FieldMwv
  <2> QED BY <1>1, <1>10, <2>1 DEF vars, useVars, ApiInv, InClosure
<1> QED BY <1>2, <1>3, <1>4, <1>5, <1>6, <1>7, <1>8, <1>9, <1>10 DEF Next, Ended

\* Calls are never undone before the register is written.
THEOREM CallsStandCorrect == Spec => []ApiInv
BY InitInv, NextInv, PTL DEF Spec

----------------------------------------------------------------------------
(* Properties *)

\* A call changes the bits of its element only, and a call that is made again
\* changes none.
THEOREM CallsStayCorrect == Spec => CallsStayInField
<1> DEFINE Stay == stage = "closure" /\ stage' = "closure" =>
       /\ called' = called => w' = w
       /\ \A c \in called' \ called : \A b \in Bits \ ElementBits(Field(c.field), c.n) :
            b \in w' <=> b \in w
<1>1. ApiInv /\ [Next]_vars => Stay
  <2> SUFFICES ASSUME ApiInv, [Next]_vars, stage = "closure", stage' = "closure"
               PROVE  /\ called' = called => w' = w
                      /\ \A c \in called' \ called : \A b \in Bits \ ElementBits(Field(c.field), c.n) :
                           b \in w' <=> b \in w
    OBVIOUS
  <2>1. CASE UNCHANGED vars
    BY <2>1 DEF vars, useVars
  <2>2. CASE \E f \in Written(reg) : \E n \in Elements(f), method \in WriterMethods(WriterOf(f)) :
               \E v \in Arguments(f, method) : CallWriter(f, n, method, v)
    <3>f. PICK f \in Written(reg) : \E n \in Elements(f) : \E method, v : CallWriter(f, n, method, v)
      BY <2>2
    <3>n. PICK n \in Elements(f) : \E method, v : CallWriter(f, n, method, v)
      BY <3>f
    <3>1. PICK method, v : CallWriter(f, n, method, v)
      BY <3>n
    <3> DEFINE new == [field |-> f.name, n |-> n, method |-> method, v |-> v]
    <3>2. /\ reg \in Descriptions /\ w' = Called(w, f, n, method, v)
          /\ called' = {d \in called : d.field # f.name \/ d.n # n} \cup {new}
      BY <3>1 DEF ApiInv, CallWriter
    <3>3. ASSUME called' = called PROVE w' = w
      <4>1. Stands(new)
        BY <3>2, <3>3 DEF ApiInv
      <4>2. PICK g \in Written(reg) : \E m \in Elements(g) :
              new.field = g.name /\ new.n = m /\ Called(w, g, m, new.method, new.v) = w
        BY <4>1 DEF Stands
      <4>3. g = f
        BY <3>2, <4>2, RegisterShape
      <4> QED BY <3>2, <4>2, <4>3
    <3>4. ASSUME NEW c \in called' \ called, NEW b \in Bits \ ElementBits(Field(c.field), c.n)
          PROVE  b \in w' <=> b \in w
      <4>1. c = new /\ Field(f.name) = f
        BY <3>2, <3>4, RegisterShape
      <4>2. b \notin ElementBits(f, n)
        BY <4>1
      <4> QED BY <3>2, <4>2, CallIsLocal
    <3> QED BY <3>3, <3>4
  <2>3. CASE \E f \in Rendered(reg) : RenderField(f) \/ FailField(f)
    BY <2>3 DEF RenderField, FailField, Turn
  <2>4. CASE \/ Finish \/ \E o \in Plainly \cup Securely : Open(o)
             \/ \E f \in Written(reg) : Panic(f)
             \/ EndClosure \/ Unlock \/ Set
    BY <2>4 DEF Finish, Open, Panic, EndClosure, Unlock, Set
  <2> QED BY <2>1, <2>2, <2>3, <2>4 DEF Next, Ended
<1> QED BY <1>1, CallsStandCorrect, PTL DEF Spec, CallsStayInField

\* The element that a call which stands was made for, and its bits in the register.
LEMMA CallOfField ==
  ASSUME ApiInv, NEW c \in called
  PROVE  LET f == Field(c.field) IN
         /\ f \in Written(reg) /\ c.n \in Elements(f) /\ WellFormed(reg)
         /\ c.method \in Switches => c.method \in BitMethods(WriterOf(f))
         /\ Called(w, f, c.n, c.method, c.v) = w
         /\ f.width \in Nat \ {0} /\ WriterOf(f).width = f.width /\ Offset(f, c.n) \in Int
         /\ ElementBits(f, c.n) = Offset(f, c.n) .. Offset(f, c.n) + f.width - 1
         /\ \A b \in ElementBits(f, c.n) : b \in f.bits /\ b \in Bits /\ Kind(reg, b) = FieldMwv(reg, f)
<1>1. PICK f \in Written(reg) : \E n \in Elements(f) :
        /\ c.field = f.name /\ c.n = n
        /\ c.method \in Switches => c.method \in BitMethods(WriterOf(f))
        /\ Called(w, f, n, c.method, c.v) = w
  BY DEF ApiInv, Stands
<1>2. reg \in Descriptions
  BY DEF ApiInv
<1>3. /\ Field(c.field) = f /\ WellFormed(reg)
      /\ f.width \in Nat \ {0} /\ WriterOf(f).width = f.width /\ f.off \in Nat /\ f.inc \in Nat
      /\ c.n \in Nat /\ ElementBits(f, c.n) \subseteq f.bits
  BY <1>1, <1>2, RegisterShape
<1>4. \A b \in f.bits : b \in Bits /\ Kind(reg, b) = FieldMwv(reg, f)
  BY <1>3, FieldKind
<1>5. Offset(f, c.n) \in Int
  BY <1>3 DEF Offset
<1> QED BY <1>1, <1>3, <1>4, <1>5 DEF ElementBits

\* A flag is set, cleared or toggled as the method says, by whatever bit its kind
\* takes for that, in a register that is protected or not.
THEOREM FlagsCorrect == Spec => []FlagsTakeEffect
<1>1. ApiInv => FlagsTakeEffect
  <2> SUFFICES ASSUME ApiInv, stage = "stored", NEW c \in called, c.method \in Switches,
                      SameKind(Field(c.field)), FieldMwv(reg, Field(c.field)) \notin {"set", "clear"}
               PROVE  Switched(c, Field(c.field))
    BY DEF FlagsTakeEffect
  <2> DEFINE f == Field(c.field)
             bit == Offset(f, c.n)
             kind == FieldMwv(reg, f)
  <2>1. /\ Called(w, f, c.n, c.method, c.v) = w /\ c.method \in BitMethods(WriterOf(f))
        /\ bit \in Bits /\ Kind(reg, bit) = kind
    BY CallOfField
  <2>2. bit \in value <=> Becomes(kind, bit \in before, bit \in w)
    BY <2>1 DEF ApiInv, Store
  <2>3. bit \in w <=> Raises(WriterOf(f), c.method)
    BY <2>1 DEF Called, Switches
  <2>4. Raises(WriterOf(f), c.method) <=>
          \/ c.method \in {"set_bit", "clear_bit_by_one"}
          \/ c.method = "toggle_bit" /\ kind = "oneToToggle"
    BY DEF Raises, SameKind
  <2>5. /\ c.method = "set_bit" => kind \in {"modify", "oneToSet"}
        /\ c.method = "clear_bit" => kind \in {"modify", "zeroToClear"}
        /\ c.method = "clear_bit_by_one" => kind = "oneToClear"
        /\ c.method = "set_bit_by_zero" => kind = "zeroToSet"
        /\ c.method = "toggle_bit" => kind \in {"oneToToggle", "zeroToToggle"}
    <3>1. FieldMwv(reg, WriterOf(f)) = kind
      BY DEF SameKind
    <3>2. c.method \in {"bit"} \cup
            CASE kind \in {"modify", "set", "clear"}    -> {"set_bit", "clear_bit"}
              [] kind = "oneToSet"                      -> {"set_bit"}
              [] kind = "zeroToClear"                   -> {"clear_bit"}
              [] kind = "oneToClear"                    -> {"clear_bit_by_one"}
              [] kind = "zeroToSet"                     -> {"set_bit_by_zero"}
              [] kind \in {"oneToToggle", "zeroToToggle"} -> {"toggle_bit"}
      BY <2>1, <3>1 DEF BitMethods
    <3>3. kind \in {"modify", "oneToSet", "zeroToClear", "oneToClear", "zeroToSet", "oneToToggle", "zeroToToggle"}
      <4>1. f \in reg.fields /\ reg \in Descriptions
        BY CallOfField DEF Written, Rendered, ApiInv
      <4> QED BY <4>1, FieldApiAssumption DEF FieldMwv, MwvKinds, OneKinds, ZeroKinds
    <3> HIDE DEF kind
    <3> QED BY <3>2, <3>3
  <2> QED BY <2>2, <2>3, <2>4, <2>5 DEF Switched, Becomes, Switches
<1> QED BY <1>1, CallsStandCorrect, PTL

\* The bits of a value that is written to an element of a plain field.
Lands(c, f) ==
  \A b \in 0 .. f.width - 1 : Offset(f, c.n) + b \in value <=> b \in BitsOfValue(c.v)

\* What is written to a plain field is in the register afterwards, cut to the
\* width of the field and at the place of the element.
THEOREM ValuesLand ==
  Spec => [](stage = "stored" =>
               \A c \in called : LET f == Field(c.field) IN
                 c.method \in {"variant", "bits", "set", "bit"} /\ FieldMwv(reg, f) = "modify" => Lands(c, f))
<1> DEFINE Landed == stage = "stored" =>
               \A c \in called : LET f == Field(c.field) IN
                 c.method \in {"variant", "bits", "set", "bit"} /\ FieldMwv(reg, f) = "modify" => Lands(c, f)
<1>1. ApiInv => Landed
  <2> SUFFICES ASSUME ApiInv, stage = "stored", NEW c \in called,
                      c.method \in {"variant", "bits", "set", "bit"}, FieldMwv(reg, Field(c.field)) = "modify"
               PROVE  Lands(c, Field(c.field))
    OBVIOUS
  <2> DEFINE f == Field(c.field)
             o == Offset(f, c.n)
  <2>1. /\ Called(w, f, c.n, c.method, c.v) = w
        /\ f.width \in Nat \ {0} /\ WriterOf(f).width = f.width /\ o \in Int
        /\ \A b \in o .. o + f.width - 1 : b \in Bits /\ Kind(reg, b) = "modify"
    BY CallOfField
  <2>2. SUFFICES ASSUME NEW b \in 0 .. f.width - 1 PROVE o + b \in value <=> b \in BitsOfValue(c.v)
    BY DEF Lands
  <2>3. o + b \in value <=> o + b \in w
    <3>1. o + b \in o .. o + f.width - 1
      BY <2>1
    <3> QED BY <2>1, <3>1 DEF ApiInv, Store, Becomes
  <2>4. w = (w \ (o .. o + f.width - 1)) \cup {x + o : x \in Masked(BitsOfValue(c.v), f.width)}
    BY <2>1 DEF Called, Assign
  <2>5. o + b \in w <=> \E x \in Masked(BitsOfValue(c.v), f.width) : x + o = o + b
    BY <2>1, <2>4
  <2>6. \A x \in Masked(BitsOfValue(c.v), f.width) : x + o = o + b => x = b
    BY <2>1 DEF Masked
  <2> QED BY <2>1, <2>3, <2>5, <2>6 DEF Masked
<1> QED BY <1>1, CallsStandCorrect, PTL

----------------------------------------------------------------------------
(* What is read and what may be written *)

\* A field lies within its register, and its enumerations are of its values.
LEMMA FieldShape ==
  ASSUME reg \in Descriptions, NEW f \in reg.fields
  PROVE  /\ f.width \in Nat \ {0} /\ reg.size \in Nat
         /\ \A n \in Elements(f) :
              /\ Offset(f, n) \in Nat /\ Offset(f, n) + f.width <= reg.size
         /\ \A e \in ReadEnum(f) \cup WriteEnum(f) :
              e.values \cup e.reserved \subseteq Values(f.width) /\ e.values \cap e.reserved = {}
         /\ \A d, e \in ReadEnum(f) : d = e
         /\ \A d, e \in WriteEnum(f) : d = e
<1>1. /\ f.off \in Nat /\ f.width \in Nat \ {0} /\ f.dim \in Nat /\ f.inc \in Nat /\ reg.size \in Nat
      /\ f.bits = UNION {ElementBits(f, n) : n \in Elements(f)}
      /\ f.bits \subseteq 0 .. reg.size - 1
      /\ f.evs \in Seq({f.evs[k] : k \in DOMAIN f.evs})
      /\ \A k \in DOMAIN f.evs : /\ f.evs[k].values \cup f.evs[k].reserved \subseteq Values(f.width)
                                 /\ f.evs[k].values \cap f.evs[k].reserved = {}
  BY FieldApiAssumption
<1>2. ASSUME NEW n \in Elements(f) PROVE Offset(f, n) \in Nat /\ Offset(f, n) + f.width <= reg.size
  <2>1. n \in Nat
    BY <1>1 DEF Elements
  <2>2. n * f.inc \in Nat
    BY <1>1, <2>1
  <2>3. Offset(f, n) \in Nat
    BY <1>1, <2>2 DEF Offset
  <2> DEFINE top == Offset(f, n) + f.width - 1
  <2>4. top \in ElementBits(f, n)
    BY <1>1, <2>3 DEF ElementBits
  <2>5. top \in 0 .. reg.size - 1
    BY <1>1, <2>4
  <2> QED BY <1>1, <2>3, <2>5
<1>3. ASSUME NEW e \in ReadEnum(f) \cup WriteEnum(f)
      PROVE  e.values \cup e.reserved \subseteq Values(f.width) /\ e.values \cap e.reserved = {}
  <2>1. e \in Lookup(f.evs, "read") \cup Lookup(f.evs, "write")
    BY DEF ReadEnum, WriteEnum
  <2>2. PICK k \in DOMAIN f.evs : e = f.evs[k]
    BY <1>1, <2>1, LookupFinds
  <2> QED BY <1>1, <2>2
<1>4. \A d, e \in ReadEnum(f) : d = e
  BY <1>1, LookupFinds DEF ReadEnum
<1>5. \A d, e \in WriteEnum(f) : d = e
  BY <1>1, LookupFinds DEF WriteEnum
<1> QED BY <1>1, <1>2, <1>3, <1>4, <1>5

\* The variant of a value that is read is that of the file, and variant() panics
\* on no value but one whose entry is named `reserved'.
THEOREM VariantsCorrect == Spec => []VariantsFaithful
<1>1. ApiInv => VariantsFaithful
  <2> SUFFICES ASSUME reg \in Descriptions, NEW f \in Rendered(reg), NEW e \in ReadEnum(f), NEW n \in Elements(f)
               PROVE  LET v == ReadIndexed(value, f, n)
                          r == Variant(e, f.width, v)
                      IN  /\ v \in e.values => r = {v}
                          /\ v \notin e.values /\ Default(e, f.width) # {} => r = Default(e, f.width)
                          /\ v \notin e.values /\ ~e.default => r = {}
                          /\ HasVariants(e, f.width) /\ Panics(e, f.width, v) => v \in e.reserved
    BY DEF ApiInv, VariantsFaithful
  <2>1. /\ f.width \in Nat /\ e.values \cup e.reserved \subseteq Values(f.width) /\ e.values \cap e.reserved = {}
        /\ reg.size \in Nat /\ f.width \in 0 .. reg.size
    <3>1. f \in reg.fields
      BY DEF Rendered
    <3> QED BY <3>1, FieldShape
  <2>2. ReadIndexed(value, f, n) \in Values(f.width)
    <3> DEFINE bits == Masked(ShiftRight(value, Offset(f, n)), f.width)
    <3>1. bits \in SUBSET (0 .. f.width - 1)
      BY DEF Masked
    <3> HIDE DEF bits
    <3>2. Number(bits) \in 0 .. Pow2[f.width] - 1
      BY <2>1, <3>1, NumberBelow
    <3> QED BY <3>2 DEF bits, ReadIndexed, Values
  <2> QED BY <2>1, <2>2, VariantRight
<1> QED BY <1>1, CallsStandCorrect, PTL

\* A call is one that the API has, with an argument that the program may pass.
Fits(c) ==
  \E f \in Written(reg) : \E n \in Elements(f) :
    /\ c.field = f.name /\ c.n = n
    /\ c.method \in WriterMethods(WriterOf(f)) /\ c.v \in Arguments(f, c.method)

CallsFit == reg \in Descriptions /\ \A c \in called : Fits(c)

\* Calls fit for good: rendering and the register's description are over.
LEMMA FitsStays ==
  ASSUME reg' = reg, NEW c
  PROVE  Fits(c)' <=> Fits(c)
<1>1. \A f : CanRead(f)' <=> CanRead(f)
  BY DEF CanRead
<1>2. \A f : CanWrite(f)' <=> CanWrite(f)
  BY DEF CanWrite
<1>3. \A f : WriteEnum(f)' = WriteEnum(f)
  BY <1>2 DEF WriteEnum
<1>4. \A f : WriterOf(f)' = WriterOf(f)
  BY <1>3 DEF WriterOf, Original
<1>5. \A f : IsSafe(f)' <=> IsSafe(f)
  BY <1>3 DEF IsSafe
<1>6. \A f : BitMethods(f)' = BitMethods(f)
  BY DEF BitMethods
<1>7. \A f : WriterMethods(f)' = WriterMethods(f)
  BY <1>3, <1>5, <1>6 DEF WriterMethods
<1>8. \A f, method : Arguments(f, method)' = Arguments(f, method)
  BY <1>3 DEF Arguments
<1>9. Written(reg)' = Written(reg)
  OBVIOUS
<1> QED BY <1>4, <1>7, <1>8, <1>9 DEF Fits

\* Every step keeps it: only a call adds one, and that is of the API.
LEMMA CallsFitKeep == CallsFit /\ [Next]_vars => CallsFit'
<1> SUFFICES ASSUME CallsFit, [Next]_vars PROVE CallsFit'
  OBVIOUS
<1>1. ASSUME reg' = reg, called' \in SUBSET called PROVE CallsFit'
  BY <1>1, FitsStays DEF CallsFit
<1>2. ASSUME NEW f \in Written(reg), NEW n \in Elements(f), NEW method \in WriterMethods(WriterOf(f)),
             NEW v \in Arguments(f, method), CallWriter(f, n, method, v)
      PROVE  CallsFit'
  <2> DEFINE new == [field |-> f.name, n |-> n, method |-> method, v |-> v]
  <2>1. reg' = reg /\ \A c \in called' : c \in called \/ c = new
    BY <1>2 DEF CallWriter
  <2>2. Fits(new)
    BY DEF Fits
  <2> QED BY <2>1, <2>2, FitsStays DEF CallsFit
<1>3. CASE \E f \in Rendered(reg) : RenderField(f) \/ FailField(f)
  BY <1>1, <1>3 DEF RenderField, FailField, useVars
<1>4. CASE Finish \/ EndClosure \/ Unlock \/ Set
  BY <1>1, <1>4 DEF Finish, EndClosure, Unlock, Set, useVars
<1>5. CASE \E o \in Plainly \cup Securely : Open(o)
  BY <1>1, <1>5 DEF Open
<1>6. CASE \E f \in Written(reg) : Panic(f)
  BY <1>1, <1>6 DEF Panic, useVars
<1>7. CASE UNCHANGED vars
  BY <1>1, <1>7 DEF vars, useVars
<1> QED BY <1>2, <1>3, <1>4, <1>5, <1>6, <1>7 DEF Next, Ended

\* Every call of every closure is of the API.
LEMMA CallsFitCorrect == Spec => []CallsFit
<1>1. Init => CallsFit
  BY DEF Init, CallsFit
<1> QED BY <1>1, CallsFitKeep, PTL DEF Spec

\* What fits, of the field that the call names.
LEMMA FitsField ==
  ASSUME CallsFit, NEW c \in called
  PROVE  LET f == Field(c.field) IN
         /\ f \in reg.fields /\ WriterOf(f) \in reg.fields
         /\ WriterOf(f).width = f.width /\ WriterOf(f).evs = f.evs
         /\ c.n \in Elements(f)
         /\ c.method \in WriterMethods(WriterOf(f)) /\ c.v \in Arguments(f, c.method)
<1>1. PICK f \in Written(reg) : \E n \in Elements(f) :
        /\ c.field = f.name /\ c.n = n
        /\ c.method \in WriterMethods(WriterOf(f)) /\ c.v \in Arguments(f, c.method)
  BY DEF CallsFit, Fits
<1>2. reg \in Descriptions
  BY DEF CallsFit
<1>3. Field(c.field) = f /\ f \in reg.fields
  BY <1>1, <1>2, RegisterShape
<1>4. /\ WriterOf(f) \in reg.fields
      /\ WriterOf(f).width = f.width /\ WriterOf(f).evs = f.evs
  <2>1. CASE \E b \in reg.fields : b.name \in f.base
    <3>1. Original(f) \in reg.fields /\ Original(f).name \in f.base
      BY <2>1 DEF Original
    <3>2. \A g \in reg.fields : g.name \in f.base => f.width = g.width /\ f.evs = g.evs
      BY <1>2, <1>3, DerivedAssumption
    <3>3. Original(f).width = f.width /\ Original(f).evs = f.evs
      BY <3>1, <3>2
    <3> QED BY <3>1, <3>3, <1>3 DEF WriterOf
  <2>2. CASE ~\E b \in reg.fields : b.name \in f.base
    BY <2>2, <1>3 DEF WriterOf, Original
  <2> QED BY <2>1, <2>2
<1> QED BY <1>1, <1>3, <1>4

\* Arguments are unsigned, and variants are values of the field.
LEMMA ArgumentShape ==
  ASSUME reg \in Descriptions, NEW f \in reg.fields, NEW method, NEW v \in Arguments(f, method)
  PROVE  /\ method \in {"variant", "bits", "set", "bit"} /\ (method \in {"bits", "set"} => f.width > 1) => v \in Nat
         /\ method = "variant" => \E e \in WriteEnum(f) : v \in WriteVariants(e, f.width) /\ v \in Values(f.width)
<1>1. f.width \in Nat \ {0}
  BY FieldShape
<1>2. Pow2[f.width] \in Nat /\ (f.width > 1 => Pow2[f.width] >= 2)
  <2>1. CASE f.width > 1
    <3>1. f.width - 1 \in Nat /\ (f.width - 1) + 1 = f.width
      BY <1>1, <2>1
    <3>2. Pow2[f.width] = 2 * Pow2[f.width - 1] /\ Pow2[f.width - 1] \in Nat \ {0}
      BY <3>1, Pow2Def
    <3> QED BY <3>2
  <2> QED BY <1>1, <2>1, Pow2Def
<1>3. CASE method = "variant"
  <2>1. PICK e \in WriteEnum(f) : v \in WriteVariants(e, f.width)
    BY <1>3 DEF Arguments
  <2>2. e.values \subseteq Values(f.width) /\ Default(e, f.width) \subseteq Values(f.width)
    BY <1>1, FieldShape, DefaultShape
  <2>3. v \in Values(f.width)
    BY <2>1, <2>2 DEF WriteVariants
  <2> QED BY <1>1, <1>3, <2>1, <2>3, ValuesFinite
<1>4. CASE method \in {"bits", "set"}
  <2>1. v \in {0, 1, Pow2[f.width] - 2, Pow2[f.width] - 1, Pow2[f.width], Pow2[f.width] + 1}
    BY <1>4 DEF Arguments
  <2> QED BY <2>1, <1>2, <1>4
<1>5. CASE method = "bit"
  BY <1>5 DEF Arguments
<1> QED BY <1>3, <1>4, <1>5

\* lookup_filter finds one enumeration at most.
LEMMA OneLookup ==
  ASSUME NEW evs, NEW usage
  PROVE  \A d, e \in Lookup(evs, usage) : d = e
BY DEF Lookup

\* The methods that are not unsafe leave a value that the file allows, if it
\* limits the values in one way (OneLimit): by a range and no enumeration, or by an
\* enumeration without reserved values next to a default.
THEOREM SafeCallsCorrect == Spec => []SafeCallsInLimit
<1>1. CallsFit => SafeCallsInLimit
  <2> SUFFICES ASSUME CallsFit, NEW c \in called, c.method \in {"set", "variant"},
                      WriterOf(Field(c.field)).width > 1, OneLimit(WriterOf(Field(c.field)))
               PROVE  Allowed(WriterOf(Field(c.field)), c.v % Pow2[WriterOf(Field(c.field)).width])
    BY DEF SafeCallsInLimit, SafeCall
  <2> DEFINE g == Field(c.field)
             f == WriterOf(g)
             n == f.width
             u == c.v % Pow2[n]
  <2>0. SUFFICES Allowed(f, u)
    OBVIOUS
  <2>1. /\ g \in reg.fields /\ f \in reg.fields /\ g.width = n /\ f.evs = g.evs
        /\ c.method \in WriterMethods(f) /\ c.v \in Arguments(g, c.method) /\ reg \in Descriptions
        /\ f.width > 1 /\ OneLimit(f)
    BY FitsField DEF CallsFit
  <2> HIDE DEF g, f
  <2>2. /\ n \in Nat \ {0} /\ Pow2[n] \in Nat \ {0}
        /\ \A e \in WriteEnum(f) : e.values \subseteq Values(n)
    BY <2>1, FieldShape, Pow2Def
  <2>3. c.v \in Nat
    BY <2>1, ArgumentShape DEF f, g
  <2>4. u \in Values(n) /\ (c.v \in Values(n) => u = c.v)
    <3>1. ASSUME NEW v \in Nat, NEW p \in Nat \ {0} PROVE v % p \in 0 .. p - 1 /\ (v \in 0 .. p - 1 => v % p = v)
      OBVIOUS
    <3> QED BY <3>1, <2>2, <2>3 DEF Values
  <2> HIDE DEF u
  <2>7. \A d, e \in WriteEnum(f) : d = e
    BY OneLookup DEF WriteEnum
  <2>5. CASE c.method = "variant"
    <3>1. PICK e \in WriteEnum(g) : c.v \in WriteVariants(e, n) /\ c.v \in Values(n)
      BY <2>1, <2>5, ArgumentShape
    <3>2. \E d : d \in WriteEnum(f)
      BY <2>1, <2>5 DEF WriterMethods
    <3>3. e \in WriteEnum(f)
      <4>1. WriteEnum(g) = Lookup(g.evs, "write") /\ WriteEnum(f) = Lookup(g.evs, "write")
        BY <2>1, <3>1, <3>2 DEF WriteEnum
      <4> QED BY <4>1, <3>1
    <3>4. c.v \in e.values \/ (e.default /\ c.v \notin e.reserved)
      BY <2>1, <3>1, <3>3 DEF WriteVariants, Default, OneLimit
    <3>5. f.range = {} /\ \A d \in WriteEnum(f) : d = e
      BY <2>1, <2>7, <3>3 DEF OneLimit
    <3> QED BY <2>4, <3>1, <3>4, <3>5 DEF Allowed
  <2>6. CASE c.method = "set"
    <3>1. IsSafe(f)
      BY <2>1, <2>6 DEF WriterMethods
    <3>2. CASE WriteEnum(f) = {}
      <4>1. f.range = {<<0, Pow2[n] - 1>>}
        BY <2>1, <3>1, <3>2 DEF IsSafe
      <4>2. 0 <= u /\ u <= Pow2[n] - 1
        BY <2>2, <2>4 DEF Values
      <4> QED BY <3>2, <4>1, <4>2 DEF Allowed
    <3>3. CASE WriteEnum(f) # {}
      <4>1. f.range = {}
        BY <2>1, <3>3 DEF OneLimit
      <4>2. PICK e \in WriteEnum(f) : AnyValue(e, n)
        <5>1. \A full : f.range # {full}
          BY <4>1
        <5>2. f.width # 1
          BY <2>1, <2>2
        <5>3. f.range # {<<0, Pow2[f.width] - 1>>}
          BY <5>1
        <5> QED BY <2>1, <3>1, <3>3, <5>2, <5>3, Zenon DEF IsSafe
      <4>3. e.values = Values(n) \/ (e.default /\ e.reserved = {})
        BY <2>1, <2>2, <4>2, ValuesFinite DEF AnyValue, Default, OneLimit
      <4>4. \A d \in WriteEnum(f) : d = e
        BY <2>7, <4>2
      <4> QED BY <2>4, <4>1, <4>3, <4>4 DEF Allowed
    <3> QED BY <3>2, <3>3
  <2> QED BY <2>5, <2>6
<1> QED BY <1>1, CallsFitCorrect, PTL

\* A method that does not switch one bit has a number as its argument.
LEMMA ArgumentIsNumber ==
  ASSUME CallsFit, NEW c \in called, c.method \notin Switches
  PROVE  c.method \in {"variant", "bits", "set", "bit"} /\ c.v \in Nat
<1> DEFINE f == Field(c.field)
           g == WriterOf(f)
<1>1. /\ reg \in Descriptions /\ f \in reg.fields /\ g \in reg.fields /\ g.width = f.width
      /\ c.method \in WriterMethods(g) /\ c.v \in Arguments(f, c.method)
  BY FitsField DEF CallsFit
<1>2. f.width \in Nat \ {0}
  BY <1>1, FieldShape
<1>3. BitMethods(g) \subseteq {"bit"} \cup Switches
  <2> DEFINE kind == FieldMwv(reg, g)
  <2>1. kind \in MwvKinds
    BY <1>1, FieldApiAssumption DEF FieldMwv, MwvKinds
  <2> HIDE DEF g
  <2>2. BitMethods(g) = {"bit"} \cup
            CASE kind \in {"modify", "set", "clear"}    -> {"set_bit", "clear_bit"}
              [] kind = "oneToSet"                      -> {"set_bit"}
              [] kind = "zeroToClear"                   -> {"clear_bit"}
              [] kind = "oneToClear"                    -> {"clear_bit_by_one"}
              [] kind = "zeroToSet"                     -> {"set_bit_by_zero"}
              [] kind \in {"oneToToggle", "zeroToToggle"} -> {"toggle_bit"}
    BY DEF BitMethods
  <2> HIDE DEF kind
  <2> QED BY <2>1, <2>2 DEF Switches, MwvKinds, OneKinds, ZeroKinds
<1> HIDE DEF f, g
<1>4. /\ c.method \in {"variant", "bits", "set", "bit"}
      /\ c.method \in {"bits", "set"} => f.width > 1
  <2>1. CASE g.width = 1
    BY <1>1, <1>3, <2>1 DEF WriterMethods
  <2>2. CASE g.width # 1
    BY <1>1, <1>2, <2>2 DEF WriterMethods
  <2> QED BY <2>1, <2>2
<1>5. c.v \in Nat
  BY <1>1, <1>4, ArgumentShape
<1> QED BY <1>4, <1>5

\* The bits of an element read back as the number that they were written from,
\* by the accessor of an array and by that of a name.
LEMMA BitsReadBack ==
  ASSUME reg \in Descriptions, NEW f \in reg.fields, NEW n \in Elements(f), NEW v \in Nat, NEW bits
  PROVE  /\ bits \subseteq Bits
         /\ \A k \in 0 .. f.width - 1 : Offset(f, n) + k \in bits <=> k \in BitsOfValue(v)
         => /\ ReadIndexed(bits, f, n) = v % Pow2[f.width]
            /\ ReadNamed(bits, f, n) = v % Pow2[f.width]
<1> SUFFICES ASSUME bits \subseteq Bits,
                    \A k \in 0 .. f.width - 1 : Offset(f, n) + k \in bits <=> k \in BitsOfValue(v)
             PROVE  /\ ReadIndexed(bits, f, n) = v % Pow2[f.width]
                    /\ ReadNamed(bits, f, n) = v % Pow2[f.width]
  OBVIOUS
<1> DEFINE o == Offset(f, n)
           m == f.width
           size == reg.size
           down == ShiftRight(bits, o)
<1>1. m \in Nat \ {0} /\ size \in Nat /\ o \in Nat /\ m <= size
  BY FieldShape
<1>2. bits \subseteq Nat /\ 0 .. m - 1 \subseteq Bits
  <2>1. Bits \subseteq Nat /\ 0 .. size - 1 \subseteq Bits
    BY FieldApiAssumption
  <2> HIDE DEF m, size
  <2> QED BY <1>1, <2>1
<1>3. \A k \in 0 .. m - 1 : o + k \in bits <=> (v \div Pow2[k]) % 2 = 1
  BY <1>2 DEF BitsOfValue
<1> HIDE DEF o, m
<1>4. \A k \in 0 .. m - 1 : k \in down <=> (v \div Pow2[k]) % 2 = 1
  <2> SUFFICES ASSUME NEW k \in 0 .. m - 1 PROVE k \in down <=> o + k \in bits
    BY <1>3
  <2>1. k \in down <=> \E b \in bits : b >= o /\ b - o = k
    BY DEF ShiftRight
  <2>2. \A b \in bits : b >= o /\ b - o = k <=> b = o + k
    BY <1>1, <1>2
  <2> QED BY <2>1, <2>2
<1> HIDE DEF down
<1>5. \A k \in 0 .. m - 1 : k \in Masked(down, m) <=> (v \div Pow2[k]) % 2 = 1
  BY <1>4 DEF Masked
<1>6. Number(Masked(down, m)) = v % Pow2[m]
  <2>1. m \in 0 .. reg.size /\ \A k \in m .. reg.size - 1 : k \notin Masked(down, m)
    BY <1>1 DEF Masked
  <2> QED BY <1>1, <1>5, <2>1, NumberOfValue
<1>7. ASSUME size = m PROVE Number(down) = v % Pow2[m]
  <2>1. m \in 0 .. reg.size /\ \A k \in m .. reg.size - 1 : k \notin down
    BY <1>1, <1>7
  <2> QED BY <1>1, <1>4, <2>1, NumberOfValue
<1> QED BY <1>6, <1>7 DEF ReadIndexed, ReadNamed, o, m, down

\* What is written to a plain field is what its reader returns afterwards, and
\* what a flag is switched to stays so: calls do what they are named for.
THEOREM CallsTakeEffectCorrect == Spec => []CallsTakeEffect
<1> DEFINE Landed == stage = "stored" =>
             \A c \in called : LET f == Field(c.field) IN
               c.method \in {"variant", "bits", "set", "bit"} /\ FieldMwv(reg, f) = "modify" => Lands(c, f)
<1>1. ApiInv /\ CallsFit /\ Landed => ValuesReadBack
  <2> SUFFICES ASSUME ApiInv, CallsFit, Landed, stage = "stored", NEW c \in called, c.method \notin Switches,
                      FieldMwv(reg, Field(c.field)) = "modify"
               PROVE  ReadsBack(c, Field(c.field))
    BY DEF ValuesReadBack
  <2> DEFINE f == Field(c.field)
  <2>1. c.method \in {"variant", "bits", "set", "bit"} /\ c.v \in Nat
    BY ArgumentIsNumber
  <2>2. Lands(c, f)
    BY <2>1
  <2>3. reg \in Descriptions /\ f \in reg.fields /\ c.n \in Elements(f) /\ c.v \in Arguments(f, c.method)
    BY FitsField DEF CallsFit
  <2>4. value \subseteq Bits
    BY DEF ApiInv, Store
  <2> HIDE DEF f
  <2>5. ReadIndexed(value, f, c.n) = c.v % Pow2[f.width] /\ ReadNamed(value, f, c.n) = c.v % Pow2[f.width]
    BY <2>1, <2>2, <2>3, <2>4, BitsReadBack DEF Lands
  <2>6. ASSUME c.method = "variant", NEW e \in ReadEnum(f) \cap WriteEnum(f)
        PROVE  Variant(e, f.width, c.v) = {c.v}
    <3>1. /\ f.width \in Nat /\ e.values \subseteq Values(f.width)
          /\ e.values \cup e.reserved \subseteq Values(f.width) /\ e.values \cap e.reserved = {}
          /\ \A d \in WriteEnum(f) : d = e
      BY <2>3, FieldShape
    <3>2. c.v \in WriteVariants(e, f.width) /\ c.v \in Values(f.width)
      BY <2>3, <2>6, <3>1, ArgumentShape
    <3>3. CASE c.v \in e.values
      BY <3>1, <3>2, <3>3, VariantRight
    <3>4. CASE c.v \notin e.values
      <4>1. c.v \in Default(e, f.width)
        BY <3>2, <3>4 DEF WriteVariants
      <4>2. Default(e, f.width) = {c.v}
        BY <3>1, <4>1, DefaultShape
      <4> QED BY <3>1, <3>2, <3>4, <4>2, VariantRight
    <3> QED BY <3>3, <3>4
  <2> QED BY <2>5, <2>6 DEF ReadsBack, f
<1>2. Spec => []Landed
  BY ValuesLand
<1> HIDE DEF Landed
<1>3. FlagsTakeEffect /\ ValuesReadBack => CallsTakeEffect
  BY DEF CallsTakeEffect
<1> QED BY <1>1, <1>2, <1>3, CallsStandCorrect, CallsFitCorrect, FlagsCorrect, PTL

----------------------------------------------------------------------------
(* The module of a register *)

Sides == {"read_enum", "write_enum"}
SideEnum(f, side) == IF side = "read_enum" THEN ReadEnum(f) ELSE WriteEnum(f)
BaseName(f) == CHOOSE b \in f.base : TRUE

EnumItem(f, side, e) ==
  Item(f, EnumKind(f, side), EnumName(f, e), IF f.base = {} THEN {} ELSE {EnumName([name |-> BaseName(f)], e)})

DerivedProxy(f, kind, enum) ==
  Item(f, kind, f.name, IF f.base = {} \/ enum = {} THEN {} ELSE {BaseName(f)})

\* What the rendering of a field may define, whatever is known.
Made(i, f) ==
  \/ \E side \in Sides : \E e \in SideEnum(f, side) : i = EnumItem(f, side, e)
  \/ CanRead(f) /\ i = DerivedProxy(f, "reader", ReadEnum(f))
  \/ CanWrite(f) /\ i = DerivedProxy(f, "writer", WriteEnum(f))

Knows(f) == \A side \in Sides : \A e \in SideEnum(f, side) : <<EnumKind(f, side), EnumName(f, e)>> \in known

NamedApart == \A i, j \in items : i.kind = j.kind /\ i.name = j.name => i = j

\* Fields are rendered by offset, each leaves its names in the sets of derives,
\* and one that is not derived defines all that there is to define.
ItemsInv ==
  /\ reg \in Descriptions
  /\ rendered \subseteq Rendered(reg)
  /\ stage = "idle" => rendered = Rendered(reg)
  /\ \A f \in rendered, g \in Rendered(reg) \ rendered : f.off <= g.off
  /\ \A i \in items : \E f \in rendered : Made(i, f)
  /\ \A f \in rendered : f.base = {} => \A i : Made(i, f) => i \in items
  /\ \A f \in rendered : Knows(f)
  /\ Derivable => NamedApart

\* What a field makes, and what only a field makes that is not known.
LEMMA ItemsMade ==
  ASSUME NEW f, NEW i \in ItemsOf(f)
  PROVE  /\ Made(i, f)
         /\ f.base # {} /\ i.kind \notin {"reader", "writer"} => <<i.kind, i.name>> \notin known
<1>1. ASSUME NEW side \in Sides, i \in EnumItems(f, side, SideEnum(f, side))
      PROVE  /\ Made(i, f)
             /\ f.base # {} => <<i.kind, i.name>> \notin known
  <2>1. PICK e \in SideEnum(f, side) :
          i \in NewOrUse(f, EnumKind(f, side), EnumName(f, e), EnumName([name |-> BaseName(f)], e))
    BY <1>1 DEF EnumItems, BaseName
  <2>2. i = EnumItem(f, side, e) /\ (f.base # {} => <<EnumKind(f, side), EnumName(f, e)>> \notin known)
    BY <2>1 DEF NewOrUse, EnumItem
  <2>3. i.kind = EnumKind(f, side) /\ i.name = EnumName(f, e)
    BY <2>2 DEF EnumItem, Item
  <2> QED BY <2>2, <2>3 DEF Made
<1>2. ASSUME NEW kind \in {"reader", "writer"}, NEW enum, i \in ProxyItem(f, kind, enum)
      PROVE  i = DerivedProxy(f, kind, enum) /\ i.kind = kind
  <2>1. i = DerivedProxy(f, kind, enum)
    BY <1>2 DEF ProxyItem, NewOrUse, DerivedProxy, BaseName
  <2> QED BY <2>1 DEF DerivedProxy, Item
<1>3. CASE i \in EnumItems(f, "read_enum", ReadEnum(f))
  BY <1>1, <1>3 DEF Sides, SideEnum
<1>4. CASE CanRead(f) /\ i \in ProxyItem(f, "reader", ReadEnum(f))
  BY <1>2, <1>4 DEF Made
<1>5. CASE i \in EnumItems(f, "write_enum", WriteEnum(f))
  BY <1>1, <1>5 DEF Sides, SideEnum
<1>6. CASE CanWrite(f) /\ i \in ProxyItem(f, "writer", WriteEnum(f))
  BY <1>2, <1>6 DEF Made
<1> QED BY <1>3, <1>4, <1>5, <1>6 DEF ItemsOf

\* A field that is not derived leaves nothing out.
LEMMA UnderivedMakesAll ==
  ASSUME NEW f, f.base = {}, NEW i, Made(i, f)
  PROVE  i \in ItemsOf(f)
<1>1. ASSUME NEW side \in Sides, NEW e \in SideEnum(f, side), i = EnumItem(f, side, e)
      PROVE  i \in ItemsOf(f)
  <2>1. i \in EnumItems(f, side, SideEnum(f, side))
    BY <1>1 DEF EnumItem, EnumItems, NewOrUse
  <2>2. CASE side = "read_enum"
    BY <2>1, <2>2 DEF SideEnum, ItemsOf
  <2>3. CASE side = "write_enum" /\ ReadEnum(f) # WriteEnum(f)
    BY <2>1, <2>3 DEF SideEnum, ItemsOf
  <2>4. CASE side = "write_enum" /\ ReadEnum(f) = WriteEnum(f)
    <3>1. EnumKind(f, side) = EnumKind(f, "read_enum") /\ e \in ReadEnum(f)
      BY <2>4 DEF EnumKind, SideEnum
    <3>2. i \in EnumItems(f, "read_enum", ReadEnum(f))
      BY <1>1, <3>1 DEF EnumItem, EnumItems, NewOrUse
    <3> QED BY <3>2 DEF ItemsOf
  <2> QED BY <2>2, <2>3, <2>4 DEF Sides
<1>2. ASSUME CanRead(f), i = DerivedProxy(f, "reader", ReadEnum(f)) PROVE i \in ItemsOf(f)
  <2>1. i \in ProxyItem(f, "reader", ReadEnum(f))
    BY <1>2 DEF DerivedProxy, ProxyItem, NewOrUse
  <2> QED BY <1>2, <2>1 DEF ItemsOf
<1>3. ASSUME CanWrite(f), i = DerivedProxy(f, "writer", WriteEnum(f)) PROVE i \in ItemsOf(f)
  <2>1. i \in ProxyItem(f, "writer", WriteEnum(f))
    BY <1>3 DEF DerivedProxy, ProxyItem, NewOrUse
  <2> QED BY <1>3, <2>1 DEF ItemsOf
<1> QED BY <1>1, <1>2, <1>3 DEF Made

\* A field makes one item of a kind.
LEMMA OneOfAKind ==
  ASSUME reg \in Descriptions, NEW f \in reg.fields, NEW i, NEW j, Made(i, f), Made(j, f), i.kind = j.kind
  PROVE  i = j
<1>1. \A side \in Sides : \A e \in SideEnum(f, side) :
        /\ EnumItem(f, side, e).kind = EnumKind(f, side)
        /\ EnumKind(f, side) \notin {"reader", "writer"}
  BY DEF EnumItem, Item, EnumKind, Sides
<1>2. \A kind, enum : DerivedProxy(f, kind, enum).kind = kind
  BY DEF DerivedProxy, Item
<1>3. ASSUME NEW s \in Sides, NEW d \in SideEnum(f, s), NEW t \in Sides, NEW e \in SideEnum(f, t),
             EnumKind(f, s) = EnumKind(f, t)
      PROVE  EnumItem(f, s, d) = EnumItem(f, t, e)
  <2>1. d = e
    <3>1. (\A x, y \in ReadEnum(f) : x = y) /\ (\A x, y \in WriteEnum(f) : x = y)
      BY FieldShape
    <3>2. SideEnum(f, s) = SideEnum(f, t)
      BY <1>3 DEF Sides, SideEnum, EnumKind
    <3> QED BY <3>1, <3>2 DEF SideEnum
  <2> QED BY <1>3, <2>1 DEF EnumItem
<1>4. CASE i.kind \in {"reader", "writer"}
  BY <1>1, <1>2, <1>4 DEF Made
<1>5. CASE i.kind \notin {"reader", "writer"}
  <2>1. PICK s \in Sides : \E d \in SideEnum(f, s) : i = EnumItem(f, s, d)
    BY <1>2, <1>5 DEF Made
  <2>2. PICK t \in Sides : \E e \in SideEnum(f, t) : j = EnumItem(f, t, e)
    BY <1>2, <1>5 DEF Made
  <2> QED BY <1>1, <1>3, <2>1, <2>2
<1> QED BY <1>4, <1>5

\* An item of a field has the name of the field or of one of its enums.
LEMMA MadeName ==
  ASSUME NEW f, NEW i, Made(i, f)
  PROVE  /\ i.field = f.name
         /\ i.kind \in {"reader", "writer"} => i.name = f.name
         /\ i.kind \notin {"reader", "writer"} =>
              \E side \in Sides : \E e \in SideEnum(f, side) :
                i.kind = EnumKind(f, side) /\ i.name = EnumName(f, e) /\ e \in FieldEnums(f)
<1>1. CASE \E side \in Sides : \E e \in SideEnum(f, side) : i = EnumItem(f, side, e)
  <2>1. PICK side \in Sides : \E e \in SideEnum(f, side) : i = EnumItem(f, side, e)
    BY <1>1
  <2>2. PICK e \in SideEnum(f, side) : i = EnumItem(f, side, e)
    BY <2>1
  <2>3. i.field = f.name /\ i.kind = EnumKind(f, side) /\ i.name = EnumName(f, e)
    BY <2>2 DEF EnumItem, Item
  <2>4. i.kind \notin {"reader", "writer"}
    BY <2>3 DEF EnumKind, Sides
  <2>5. e \in FieldEnums(f)
    BY <2>2 DEF SideEnum, FieldEnums
  <2> QED BY <2>3, <2>4, <2>5
<1>2. CASE ~\E side \in Sides : \E e \in SideEnum(f, side) : i = EnumItem(f, side, e)
  BY <1>2 DEF Made, DerivedProxy, Item
<1> QED BY <1>1, <1>2

\* Nothing that a later field defines has the name of what is there.
LEMMA NewApartFromOld ==
  ASSUME ItemsInv, Derivable, NEW f \in Rendered(reg) \ rendered,
         NEW i \in ItemsOf(f), NEW j \in items
  PROVE  ~(i.kind = j.kind /\ i.name = j.name)
<1> SUFFICES ASSUME i.kind = j.kind, i.name = j.name PROVE FALSE
  OBVIOUS
<1>1. PICK g \in rendered : Made(j, g)
  BY DEF ItemsInv
<1>2. Made(i, f) /\ f # g /\ f \in reg.fields /\ g \in reg.fields /\ g \in Rendered(reg) /\ reg \in Descriptions
      /\ g.off <= f.off /\ Knows(g)
  BY <1>1, ItemsMade DEF ItemsInv, Rendered
<1>3. g.off \in Nat /\ f.off \in Nat /\ f.name # g.name
  BY <1>2, FieldApiAssumption
<1>4. CASE i.kind \in {"reader", "writer"}
  BY <1>1, <1>2, <1>3, <1>4, MadeName
<1>5. CASE i.kind \notin {"reader", "writer"}
  <2>1. PICK s \in Sides : \E d \in SideEnum(g, s) :
          j.kind = EnumKind(g, s) /\ j.name = EnumName(g, d) /\ d \in FieldEnums(g)
    BY <1>1, <1>5, MadeName
  <2>2. PICK d \in SideEnum(g, s) : j.kind = EnumKind(g, s) /\ j.name = EnumName(g, d) /\ d \in FieldEnums(g)
    BY <2>1
  <2>3. <<i.kind, i.name>> \in known
    BY <1>2, <2>2 DEF Knows
  <2>4. f.base = {}
    BY <1>5, <2>3, ItemsMade
  <2>5. \E e \in FieldEnums(f) : EnumName(f, e) = EnumName(g, d)
    BY <1>2, <1>5, <2>2, MadeName
  <2>6. f.off < g.off
    BY <1>2, <2>2, <2>4, <2>5 DEF Derivable
  <2> QED BY <1>2, <1>3, <2>6
<1> QED BY <1>4, <1>5
\* What a field makes depends on the register only.
LEMMA MadeStays ==
  ASSUME reg' = reg
  PROVE  /\ \A i, f : Made(i, f)' <=> Made(i, f)
         /\ Derivable' <=> Derivable
         /\ \A f, side : SideEnum(f, side)' = SideEnum(f, side)
         /\ \A f, side : EnumKind(f, side)' = EnumKind(f, side)
<1>1. \A f : (CanRead(f)' <=> CanRead(f)) /\ (CanWrite(f)' <=> CanWrite(f))
  BY DEF CanRead, CanWrite
<1>2. \A f : ReadEnum(f)' = ReadEnum(f) /\ WriteEnum(f)' = WriteEnum(f)
  BY <1>1 DEF ReadEnum, WriteEnum
<1>3. \A f, side : SideEnum(f, side)' = SideEnum(f, side) /\ EnumKind(f, side)' = EnumKind(f, side)
  BY <1>2 DEF SideEnum, EnumKind
<1>4. \A f, side, e : EnumItem(f, side, e)' = EnumItem(f, side, e)
  BY <1>3 DEF EnumItem
<1>5. \A f : FieldEnums(f)' = FieldEnums(f)
  BY <1>2 DEF FieldEnums
<1>6. Derivable' <=> Derivable
  BY <1>5 DEF Derivable
<1>7. \A i, f : Made(i, f)' <=> Made(i, f)
  BY <1>1, <1>2, <1>3, <1>4 DEF Made
<1> QED BY <1>3, <1>6, <1>7

\* The use of the register leaves the module as it was rendered.
LEMMA ItemsInvStays ==
  ASSUME ItemsInv, reg' = reg, UNCHANGED renderVars, stage' = "idle" => rendered = Rendered(reg)
  PROVE  ItemsInv'
<1>1. \A f : Knows(f)' <=> Knows(f)
  BY MadeStays DEF Knows, renderVars
<1>2. NamedApart' <=> NamedApart
  BY DEF NamedApart, renderVars
<1>3. rendered' = rendered /\ items' = items /\ known' = known
  BY DEF renderVars
<1> QED BY <1>1, <1>2, <1>3, MadeStays DEF ItemsInv

\* The next field by offset keeps the names apart and leaves its own.
LEMMA RenderKeepsItems ==
  ASSUME ItemsInv, NEW f \in Rendered(reg), RenderField(f)
  PROVE  ItemsInv'
<1>1. /\ reg' = reg /\ f \in Rendered(reg) \ rendered /\ stage' = "fields"
      /\ \A g \in Rendered(reg) \ rendered : f.off <= g.off
      /\ rendered' = rendered \cup {f} /\ items' = items \cup ItemsOf(f) /\ known' = known \cup KnownBy(f)
  BY DEF RenderField, Turn
<1>2. reg \in Descriptions /\ f \in reg.fields
  BY DEF ItemsInv, Rendered
<1>3. \A i \in items' : \E g \in rendered' : Made(i, g)'
  BY <1>1, ItemsMade, MadeStays DEF ItemsInv
<1>4. \A g \in rendered', h \in Rendered(reg) \ rendered' : g.off <= h.off
  BY <1>1 DEF ItemsInv
<1>5. \A g \in rendered' : g.base = {} => \A i : Made(i, g)' => i \in items'
  BY <1>1, UnderivedMakesAll, MadeStays DEF ItemsInv
<1>6. \A g \in rendered' : Knows(g)'
  <2>1. \A side \in Sides : \A e \in SideEnum(f, side) : <<EnumKind(f, side), EnumName(f, e)>> \in KnownBy(f)
    BY DEF Sides, SideEnum, KnownBy
  <2>2. \A g \in rendered' : \A side \in Sides : \A e \in SideEnum(g, side) :
          <<EnumKind(g, side), EnumName(g, e)>> \in known'
    BY <1>1, <2>1 DEF ItemsInv, Knows
  <2> QED BY <1>1, <2>2, MadeStays DEF Knows
<1>7. ASSUME Derivable PROVE NamedApart'
  <2>1. SUFFICES ASSUME NEW i \in items', NEW j \in items', i.kind = j.kind, i.name = j.name PROVE i = j
    BY DEF NamedApart
  <2>2. CASE i \in items /\ j \in items
    BY <1>7, <2>1, <2>2 DEF ItemsInv, NamedApart
  <2>3. CASE i \in ItemsOf(f) /\ j \in ItemsOf(f)
    BY <1>2, <2>1, <2>3, ItemsMade, OneOfAKind
  <2>4. CASE i \in ItemsOf(f) /\ j \in items
    BY <1>1, <1>7, <2>1, <2>4, NewApartFromOld
  <2>5. CASE i \in items /\ j \in ItemsOf(f)
    BY <1>1, <1>7, <2>1, <2>5, NewApartFromOld
  <2> QED BY <1>1, <2>1, <2>2, <2>3, <2>4, <2>5
<1>8. rendered' \subseteq Rendered(reg)
  BY <1>1 DEF ItemsInv
<1> QED BY <1>1, <1>2, <1>3, <1>4, <1>5, <1>6, <1>7, <1>8, MadeStays DEF ItemsInv

\* Every step keeps the module in order.
LEMMA ItemsNext == ItemsInv /\ [Next]_vars => ItemsInv'
<1> SUFFICES ASSUME ItemsInv, [Next]_vars PROVE ItemsInv'
  OBVIOUS
<1>1. CASE \E f \in Rendered(reg) : RenderField(f)
  BY <1>1, RenderKeepsItems
<1>2. CASE \E f \in Rendered(reg) : FailField(f)
  BY <1>2, ItemsInvStays DEF FailField
<1>3. CASE Finish \/ EndClosure \/ Unlock \/ Set
  BY <1>3, ItemsInvStays DEF Finish, EndClosure, Unlock, Set
<1>4. CASE \E o \in Plainly \cup Securely : Open(o)
  BY <1>4, ItemsInvStays DEF Open
<1>5. CASE \E f \in Written(reg) : \E n \in Elements(f), method \in WriterMethods(WriterOf(f)) :
             \E v \in Arguments(f, method) : CallWriter(f, n, method, v)
  <2>1. reg' = reg /\ UNCHANGED renderVars /\ stage' = "closure"
    BY <1>5 DEF CallWriter
  <2> QED BY <2>1, ItemsInvStays
<1>6. CASE \E f \in Written(reg) : Panic(f)
  BY <1>6, ItemsInvStays DEF Panic
<1>7. CASE UNCHANGED vars
  <2>1. reg' = reg /\ UNCHANGED renderVars /\ stage' = stage
    BY <1>7 DEF vars
  <2> QED BY <2>1, ItemsInvStays DEF ItemsInv
<1> QED BY <1>1, <1>2, <1>3, <1>4, <1>5, <1>6, <1>7 DEF Next, Ended

\* A field that re-exports what a field of the register has finds it there.
LEMMA TargetThere ==
  ASSUME ItemsInv, stage = "idle", Derivable, NEW i \in items, i.target # {},
         \E b \in reg.fields : b.name \in Field(i.field).base
  PROVE  \E k \in items : k.kind = i.kind /\ k.name \in i.target /\ k.target = {}
<1>1. PICK f \in rendered : Made(i, f)
  BY DEF ItemsInv
<1>2. f \in reg.fields /\ reg \in Descriptions /\ rendered = Rendered(reg) /\ f \in Rendered(reg)
  BY DEF ItemsInv, Rendered
<1>3. Field(i.field) = f
  <2>1. i.field = f.name
    BY <1>1, MadeName
  <2> QED BY <1>2, <2>1, FieldApiAssumption DEF Field
<1>4. PICK b \in reg.fields : b.name \in f.base
  BY <1>3
<1>5. b \in rendered /\ b.base = {} /\ f.access = b.access /\ f.evs = b.evs
  <2>1. f.evs = b.evs
    BY <1>2, <1>4, DerivedAssumption
  <2> QED BY <1>2, <1>4, <2>1 DEF Derivable, Rendered
<1>6. f.base # {} /\ BaseName(f) = b.name
  BY <1>2, <1>4, DerivedAssumption DEF BaseName
<1>7. (CanRead(f) <=> CanRead(b)) /\ (CanWrite(f) <=> CanWrite(b))
  BY <1>5 DEF CanRead, CanWrite
<1>8. ReadEnum(f) = ReadEnum(b) /\ WriteEnum(f) = WriteEnum(b)
  BY <1>5, <1>7 DEF ReadEnum, WriteEnum
<1>9. SUFFICES \E k : Made(k, b) /\ k.kind = i.kind /\ k.name \in i.target /\ k.target = {}
  BY <1>5 DEF ItemsInv
<1>10. ASSUME NEW side \in Sides, NEW e \in SideEnum(f, side), i = EnumItem(f, side, e)
       PROVE  \E k : Made(k, b) /\ k.kind = i.kind /\ k.name \in i.target /\ k.target = {}
  <2> DEFINE k == EnumItem(b, side, e)
  <2>1. Made(k, b)
    BY <1>8 DEF Made, SideEnum
  <2>2. k.kind = EnumKind(b, side) /\ k.name = EnumName(b, e) /\ k.target = {}
    BY <1>5 DEF EnumItem, Item
  <2>3. i.kind = EnumKind(f, side) /\ i.target = {EnumName([name |-> BaseName(f)], e)}
    BY <1>6, <1>10 DEF EnumItem, Item
  <2>4. EnumKind(b, side) = EnumKind(f, side) /\ EnumName(b, e) = EnumName([name |-> BaseName(f)], e)
    BY <1>6, <1>8 DEF EnumKind, EnumName
  <2> QED BY <2>1, <2>2, <2>3, <2>4
<1>11. ASSUME CanRead(f), i = DerivedProxy(f, "reader", ReadEnum(f))
       PROVE  \E k : Made(k, b) /\ k.kind = i.kind /\ k.name \in i.target /\ k.target = {}
  <2> DEFINE k == DerivedProxy(b, "reader", ReadEnum(b))
  <2>1. Made(k, b) /\ k.kind = "reader" /\ k.name = b.name /\ k.target = {}
    BY <1>5, <1>7, <1>11 DEF Made, DerivedProxy, Item
  <2>2. i.kind = "reader" /\ i.target = {b.name}
    BY <1>6, <1>11 DEF DerivedProxy, Item
  <2> QED BY <2>1, <2>2
<1>12. ASSUME CanWrite(f), i = DerivedProxy(f, "writer", WriteEnum(f))
       PROVE  \E k : Made(k, b) /\ k.kind = i.kind /\ k.name \in i.target /\ k.target = {}
  <2> DEFINE k == DerivedProxy(b, "writer", WriteEnum(b))
  <2>1. Made(k, b) /\ k.kind = "writer" /\ k.name = b.name /\ k.target = {}
    BY <1>5, <1>7, <1>12 DEF Made, DerivedProxy, Item
  <2>2. i.kind = "writer" /\ i.target = {b.name}
    BY <1>6, <1>12 DEF DerivedProxy, Item
  <2> QED BY <2>1, <2>2
<1> QED BY <1>1, <1>10, <1>11, <1>12 DEF Made

\* The module of a register defines no name twice, and what it re-exports from a
\* field of the register is there, if the names of its enums can be told apart as
\* Derivable says: where a field comes before the one that it shares a named enum
\* with, they cannot.
THEOREM ItemsResolveCorrect == Spec => []ItemsResolve
<1>1. Init => ItemsInv
  BY DEF Init, ItemsInv, NamedApart
<1>2. ItemsInv => ItemsResolve
  <2> SUFFICES ASSUME ItemsInv, stage = "idle", Derivable
               PROVE  \A i, j \in items :
                        /\ i.kind = j.kind /\ i.name = j.name => i = j
                        /\ i.target # {} /\ (\E b \in reg.fields : b.name \in Field(i.field).base) =>
                             \E k \in items : k.kind = i.kind /\ k.name \in i.target /\ k.target = {}
    BY DEF ItemsResolve
  <2>1. NamedApart
    BY DEF ItemsInv
  <2> QED BY <2>1, TargetThere DEF NamedApart
<1> QED BY <1>1, <1>2, ItemsNext, PTL DEF Spec
=============================================================================
