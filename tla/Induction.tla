----------------------------- MODULE Induction -----------------------------
(***************************************************************************)
(* Induction and recursion over the naturals, stated for sets and          *)
(* functions.  (The provers cannot instantiate the library's theorems,     *)
(* which are stated for operators, except the one that the naturals are    *)
(* well-founded.)                                                          *)
(***************************************************************************)
EXTENDS Integers, WellFoundedInduction, TLAPS

\* A set that has 0, and with each number the next, has all.
LEMMA NatInductionOnSet ==
  ASSUME NEW S, 0 \in S, \A n \in Nat : n \in S => n + 1 \in S
  PROVE  Nat \subseteq S
<1> DEFINE R == {ss \in Nat \X Nat : ss[1] < ss[2]}
           T == Nat \ S
<1>1. IsWellFoundedOn(R, Nat)
  BY NatLessThanWellFounded DEF OpToRel
<1>2. SUFFICES ASSUME T # {} PROVE FALSE
  OBVIOUS
<1>3. PICK x \in T : \A y \in T : <<y, x>> \notin R
  <2>1. T \subseteq Nat
    OBVIOUS
  <2> HIDE DEF T, R
  <2> QED BY <1>1, <1>2, <2>1, WFMin
<1>4. x \in Nat /\ x # 0
  OBVIOUS
<1>5. x - 1 \in Nat /\ x - 1 < x /\ x = (x - 1) + 1
  BY <1>4
<1>6. x - 1 \notin T
  BY <1>3, <1>4, <1>5
<1> QED BY <1>4, <1>5, <1>6

\* f is the function with f[0] = base and f[n + 1] = step[<<n, f[n]>>].
Recursion(f, S, base, step) ==
  f \in [Nat -> S] /\ f[0] = base /\ \A n \in Nat : f[n + 1] = step[<<n, f[n]>>]

\* There is one, whatever the step: of the functions that satisfy the equations
\* up to n, each agrees with the later ones up to there.
LEMMA RecursionHasSolution ==
  ASSUME NEW S, NEW base \in S, NEW step \in [Nat \X S -> S]
  PROVE  \E f : Recursion(f, S, base, step)
<1> DEFINE Upto(n, f) == f[0] = base /\ \A m \in Nat : m < n => f[m + 1] = step[<<m, f[m]>>]
           Good == {n \in Nat : \E f \in [Nat -> S] : Upto(n, f)}
<1>1. 0 \in Good
  <2> DEFINE f == [n \in Nat |-> base]
  <2>1. f \in [Nat -> S] /\ Upto(0, f)
    OBVIOUS
  <2> HIDE DEF f
  <2> QED BY <2>1
<1>2. ASSUME NEW n \in Nat, n \in Good PROVE n + 1 \in Good
  <2>1. PICK f \in [Nat -> S] : Upto(n, f)
    BY <1>2
  <2> DEFINE g == [m \in Nat |-> IF m = n + 1 THEN step[<<n, f[n]>>] ELSE f[m]]
  <2>2. step[<<n, f[n]>>] \in S
    OBVIOUS
  <2>3. g \in [Nat -> S]
    BY <2>2
  <2>4. g[n + 1] = step[<<n, f[n]>>] /\ \A m \in Nat : m # n + 1 => g[m] = f[m]
    OBVIOUS
  <2> HIDE DEF g
  <2>5. Upto(n + 1, g)
    <3>1. ASSUME NEW m \in Nat, m < n + 1 PROVE g[m + 1] = step[<<m, g[m]>>]
      <4>1. CASE m = n
        BY <4>1, <2>4
      <4>2. CASE m # n
        <5>1. m < n /\ m + 1 # n + 1 /\ m # n + 1
          BY <3>1, <4>2
        <5> QED BY <5>1, <2>1, <2>4
      <4> QED BY <4>1, <4>2
    <3> QED BY <2>1, <2>4, <3>1
  <2> QED BY <2>3, <2>5
<1>3. \A n \in Nat : n \in Good
  <2> HIDE DEF Good
  <2> QED BY <1>1, <1>2, NatInductionOnSet
<1>4. \A n \in Nat : \E f \in [Nat -> S] : Upto(n, f)
  BY <1>3
<1>5. ASSUME NEW f \in [Nat -> S], NEW g \in [Nat -> S], NEW n \in Nat, NEW m \in Nat, n <= m,
             Upto(n, f), Upto(m, g)
      PROVE  f[n] = g[n]
  <2> DEFINE Same == {k \in Nat : k <= n => f[k] = g[k]}
  <2>1. 0 \in Same
    BY <1>5
  <2>2. ASSUME NEW k \in Nat, k \in Same PROVE k + 1 \in Same
    <3>1. k + 1 <= n => k <= n /\ k < n /\ k < m
      BY <1>5
    <3>2. CASE k + 1 <= n
      <4>1. f[k] = g[k]
        BY <2>2, <3>1, <3>2
      <4>2. f[k + 1] = step[<<k, f[k]>>] /\ g[k + 1] = step[<<k, g[k]>>]
        BY <1>5, <3>1, <3>2
      <4> QED BY <4>1, <4>2
    <3> QED BY <3>2
  <2>3. \A k \in Nat : k \in Same
    <3> HIDE DEF Same
    <3> QED BY <2>1, <2>2, NatInductionOnSet
  <2> QED BY <2>3
<1> DEFINE some == [n \in Nat |-> CHOOSE f \in [Nat -> S] : Upto(n, f)]
           h == [n \in Nat |-> some[n][n]]
<1>6. ASSUME NEW n \in Nat PROVE some[n] \in [Nat -> S] /\ Upto(n, some[n])
  BY <1>4
<1>7. \A n \in Nat : h[n] = some[n][n]
  OBVIOUS
<1>8. h \in [Nat -> S]
  <2> HIDE DEF some, Upto
  <2> QED BY <1>6
<1> HIDE DEF some, h
<1>9. h[0] = base
  BY <1>6, <1>7
<1>10. ASSUME NEW n \in Nat PROVE h[n + 1] = step[<<n, h[n]>>]
  <2>1. some[n + 1][n + 1] = step[<<n, some[n + 1][n]>>]
    BY <1>6
  <2>2. some[n][n] = some[n + 1][n]
    <3>1. n <= n + 1 /\ n + 1 \in Nat
      OBVIOUS
    <3> HIDE DEF Upto
    <3> QED BY <1>5, <1>6, <3>1
  <2> QED BY <2>1, <2>2, <1>7
<1> QED BY <1>8, <1>9, <1>10 DEF Recursion

\* Numbers have a smallest.
LEMMA SmallestOf ==
  ASSUME NEW T \in SUBSET Nat, T # {}
  PROVE  \E x \in T : \A y \in T : x <= y
<1> DEFINE R == {ss \in Nat \X Nat : ss[1] < ss[2]}
<1>1. IsWellFoundedOn(R, Nat)
  BY NatLessThanWellFounded DEF OpToRel
<1>2. \E x \in T : \A y \in T : <<y, x>> \notin R
  <2> HIDE DEF R
  <2> QED BY <1>1, WFMin
<1>3. \A x, y \in T : <<y, x>> \notin R => x <= y
  OBVIOUS
<1> HIDE DEF R
<1> QED BY <1>2, <1>3

\* Numbers up to a bound have a largest.
LEMMA LargestOf ==
  ASSUME NEW n \in Nat, NEW T \in SUBSET (1 .. n), T # {}
  PROVE  \E x \in T : \A y \in T : y <= x
<1> DEFINE D == {n - x : x \in T}
<1>1. D \in SUBSET Nat /\ D # {}
  <2>1. PICK t : t \in T
    OBVIOUS
  <2>2. n - t \in D
    BY <2>1
  <2>3. \A x \in T : n - x \in Nat
    OBVIOUS
  <2>4. D \subseteq Nat
    BY <2>3
  <2> QED BY <2>2, <2>4
<1>2. PICK d \in D : \A e \in D : d <= e
  <2> HIDE DEF D
  <2> QED BY <1>1, SmallestOf
<1>3. PICK x \in T : d = n - x
  OBVIOUS
<1>4. ASSUME NEW y \in T PROVE y <= x
  <2>1. n - y \in D
    OBVIOUS
  <2>2. n - x <= n - y
    <3> HIDE DEF D
    <3> QED BY <2>1, <1>2, <1>3
  <2>3. n \in Int /\ x \in Int /\ y \in Int
    OBVIOUS
  <2> QED BY <2>2, <2>3
<1> QED BY <1>4
=============================================================================
