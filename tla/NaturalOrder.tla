----------------------------- MODULE NaturalOrder -----------------------------
(***************************************************************************)
(* The least-number principle and induction for SETS of naturals, derived  *)
(* from the well-foundedness of the strict subset ordering on finite sets. *)
(* (Stated for sets, not for predicates, they can be cited in a proof.)    *)
(***************************************************************************)
EXTENDS FiniteSetTheorems, WellFoundedInduction, Integers, TLAPS

(* Every non-empty set of naturals has a least element: among the intervals  *)
(* 0 .. x with x in the set one includes no other.                           *)
LEMMA LeastNatural ==
  ASSUME NEW T \in SUBSET Nat, T # {}
  PROVE  \E x \in T : \A y \in T : x <= y
<1> DEFINE below == {0 .. x : x \in T}
<1>1. IsWellFoundedOn(StrictSubsetOrdering(Nat), FiniteSubsetsOf(Nat))
  BY FS_StrictSubsetOrderingWellFounded, Zenon
<1>2. below \subseteq FiniteSubsetsOf(Nat) /\ below # {}
  <2>1. ASSUME NEW x \in T
        PROVE  0 .. x \in FiniteSubsetsOf(Nat)
    <3>1. IsFiniteSet(0 .. x) /\ 0 .. x \in SUBSET Nat
      BY FS_Interval
    <3> QED BY <3>1 DEF FiniteSubsetsOf
  <2> QED BY <2>1
<1>3. PICK s \in below : \A u \in below : <<u, s>> \notin StrictSubsetOrdering(Nat)
  <2> HIDE DEF below
  <2> QED BY <1>1, <1>2, WFMin
<1>4. PICK x \in T : s = 0 .. x
  OBVIOUS
<1>5. ASSUME NEW y \in T, y < x
      PROVE  FALSE
  <2>1. 0 .. y \in below /\ 0 .. y \subseteq 0 .. x /\ x \in 0 .. x /\ x \notin 0 .. y
    BY <1>5
  <2>2. 0 .. y # 0 .. x
    BY <2>1
  <2>3. 0 .. y \in SUBSET Nat /\ 0 .. x \in SUBSET Nat
    OBVIOUS
  <2>4. <<0 .. y, 0 .. x>> \in StrictSubsetOrdering(Nat)
    BY <2>1, <2>2, <2>3 DEF StrictSubsetOrdering
  <2> QED BY <1>3, <1>4, <2>1, <2>4
<1> QED BY <1>4, <1>5

(* Every non-empty set of indices of a sequence has a greatest element.      *)
LEMMA GreatestIndex ==
  ASSUME NEW n \in Nat, NEW T \in SUBSET (1 .. n), T # {}
  PROVE  \E x \in T : \A y \in T : y <= x
<1> DEFINE mirror == {n - x : x \in T}
<1>1. PICK m \in mirror : \A k \in mirror : m <= k
  <2>1. mirror \in SUBSET Nat /\ mirror # {}
    <3>1. \A x \in T : x \in 1 .. n /\ n - x \in Nat
      OBVIOUS
    <3>2. PICK x \in T : TRUE
      OBVIOUS
    <3>3. n - x \in mirror
      OBVIOUS
    <3> QED BY <3>1, <3>3
  <2> HIDE DEF mirror
  <2> QED BY <2>1, LeastNatural
<1>2. PICK x \in T : m = n - x
  OBVIOUS
<1>3. ASSUME NEW y \in T
      PROVE  y <= x
  <2>1. n - y \in mirror /\ x \in 1 .. n /\ y \in 1 .. n
    OBVIOUS
  <2>2. n - x <= n - y
    BY <1>1, <1>2, <2>1
  <2> QED BY <2>1, <2>2
<1> QED BY <1>3

(* A set of naturals that holds 0 and with n also n + 1 holds them all.      *)
LEMMA NaturalInduction ==
  ASSUME NEW T \in SUBSET Nat, 0 \in T, \A n \in T : n + 1 \in T
  PROVE  T = Nat
<1>1. SUFFICES ASSUME Nat \ T # {} PROVE FALSE
  OBVIOUS
<1>2. PICK x \in Nat \ T : \A y \in Nat \ T : x <= y
  BY <1>1, LeastNatural
<1>3. x # 0 /\ x - 1 \in Nat /\ x - 1 < x
  BY <1>2
<1>4. x - 1 \in T
  BY <1>2, <1>3
<1>5. (x - 1) + 1 = x
  BY <1>2
<1> QED BY <1>2, <1>4, <1>5

\* The function f that starts with e and goes on with what next makes of the
\* argument and of the value before it.
Recursion(f, S, e, next) ==
  /\ f \in [Nat -> S]
  /\ f[0] = e
  /\ \A n \in Nat : f[n + 1] = next[<<n + 1, f[n]>>]

(* A recursive definition on the naturals, whose step is a function, defines *)
(* a function: the first n values exist for every n and are the same in all  *)
(* partial solutions that reach n.                                           *)
LEMMA RecursiveFunction ==
  ASSUME NEW S, NEW e \in S, NEW next \in [Nat \X S -> S]
  PROVE  \E f : Recursion(f, S, e, next)
<1> DEFINE Solves(g, n) == /\ g[0] = e
                           /\ \A i \in 1 .. n : g[i] = next[<<i, g[i - 1]>>]
           Partial(n) == {g \in [0 .. n -> S] : Solves(g, n)}
           known == {n \in Nat : Partial(n) # {}}
<1>1. known = Nat
  <2>1. 0 \in known
    <3>1. [i \in 0 .. 0 |-> e] \in Partial(0)
      OBVIOUS
    <3> QED BY <3>1
  <2>2. ASSUME NEW n \in known PROVE n + 1 \in known
    <3>1. PICK g \in [0 .. n -> S] : Solves(g, n)
      OBVIOUS
    <3> DEFINE h == [i \in 0 .. n + 1 |-> IF i = n + 1 THEN next[<<n + 1, g[n]>>] ELSE g[i]]
    <3>2. n \in Nat /\ n \in 0 .. n /\ g[n] \in S
      BY <3>1
    <3>3. h \in [0 .. n + 1 -> S]
      BY <3>1, <3>2
    <3>4. /\ h[0] = e /\ \A i \in 0 .. n : h[i] = g[i]
          /\ h[n + 1] = next[<<n + 1, g[n]>>]
      BY <3>1, <3>2
    <3> HIDE DEF h
    <3>5. ASSUME NEW i \in 1 .. n + 1 PROVE h[i] = next[<<i, h[i - 1]>>]
      <4>1. CASE i = n + 1
        <5>1. h[n] = g[n] /\ i - 1 = n
          BY <3>2, <3>4, <4>1
        <5> QED BY <3>4, <4>1, <5>1
      <4>2. CASE i # n + 1
        <5>1. i \in 1 .. n /\ i - 1 \in 0 .. n /\ i \in 0 .. n
          BY <3>2, <4>2
        <5> QED BY <3>1, <3>4, <5>1
      <4> QED BY <4>1, <4>2
    <3>6. h \in Partial(n + 1)
      BY <3>3, <3>4, <3>5
    <3>7. n + 1 \in Nat
      BY <3>2
    <3> HIDE DEF Partial
    <3> QED BY <3>6, <3>7
  <2> HIDE DEF known
  <2>3. known \in SUBSET Nat
    BY DEF known
  <2> QED BY <2>1, <2>2, <2>3, NaturalInduction
<1> DEFINE some == [n \in Nat |-> CHOOSE g : g \in Partial(n)]
           f == [n \in Nat |-> some[n][n]]
<1>2. ASSUME NEW n \in Nat PROVE some[n] \in [0 .. n -> S] /\ Solves(some[n], n)
  BY <1>1
<1> HIDE DEF some
<1>3. ASSUME NEW n \in Nat, NEW m \in Nat, m <= n PROVE some[n][m] = some[m][m]
  <2> DEFINE same == {i \in Nat : i <= m => some[n][i] = some[m][i]}
  <2>1. 0 \in same
    BY <1>2
  <2>2. ASSUME NEW i \in same PROVE i + 1 \in same
    <3>1. SUFFICES ASSUME i + 1 <= m PROVE some[n][i + 1] = some[m][i + 1]
      OBVIOUS
    <3>2. i \in Nat /\ i + 1 \in 1 .. n /\ i + 1 \in 1 .. m /\ (i + 1) - 1 = i
      BY <1>3, <3>1
    <3>3. some[n][i + 1] = next[<<i + 1, some[n][i]>>] /\ some[m][i + 1] = next[<<i + 1, some[m][i]>>]
      BY <1>2, <3>2
    <3> QED BY <3>1, <3>2, <3>3
  <2> HIDE DEF same
  <2>3. same \in SUBSET Nat
    BY DEF same
  <2>4. m \in same
    BY <2>1, <2>2, <2>3, NaturalInduction
  <2> QED BY <2>4 DEF same
<1>4. f \in [Nat -> S]
  BY <1>2
<1>5. f[0] = e
  BY <1>2
<1>6. ASSUME NEW n \in Nat PROVE f[n + 1] = next[<<n + 1, f[n]>>]
  <2>1. n + 1 \in 1 .. n + 1 /\ (n + 1) - 1 = n /\ n <= n + 1 /\ n + 1 \in Nat
    OBVIOUS
  <2>2. some[n + 1][n + 1] = next[<<n + 1, some[n + 1][n]>>]
    BY <1>2, <2>1
  <2>3. some[n + 1][n] = some[n][n]
    BY <1>3, <2>1
  <2> QED BY <2>1, <2>2, <2>3
<1> HIDE DEF f
<1>7. Recursion(f, S, e, next)
  BY <1>4, <1>5, <1>6 DEF Recursion
<1> QED BY <1>7

(* So many different values as there are arguments.                          *)
LEMMA DistinctValues ==
  ASSUME NEW f, NEW n \in Nat, \A i, j \in 0 .. n : f[i] = f[j] => i = j
  PROVE  IsFiniteSet({f[i] : i \in 0 .. n}) /\ Cardinality({f[i] : i \in 0 .. n}) = n + 1
<1> DEFINE values == {f[i] : i \in 0 .. n}
           g == [i \in 0 .. n |-> f[i]]
<1>1. g \in Bijection(0 .. n, values)
  BY DEF Bijection, Injection, Surjection, IsInjective
<1>2. ExistsBijection(0 .. n, values)
  BY <1>1 DEF ExistsBijection
<1>3. IsFiniteSet(0 .. n) /\ Cardinality(0 .. n) = n + 1
  BY FS_Interval
<1> HIDE DEF values
<1>4. IsFiniteSet(values) /\ Cardinality(values) = Cardinality(0 .. n)
  BY <1>2, <1>3, FS_Bijection
<1> QED BY <1>3, <1>4 DEF values
=============================================================================
