---------------------------- MODULE FunctionProofs ----------------------------
(***************************************************************************)
(* Proofs about functions: those defined by a formula, for every text      *)
(* (FunctionDefinitions), by a table, for every text and number (Tables,   *)
(* as Table), and the built-in ones, for every argument (Builtins, as Builtin).      *)
(***************************************************************************)
EXTENDS FunctionDefinitions, NaturalOrder, SequenceTheorems

CONSTANTS TableTexts, NotANumber, Inputs, Outputs, Numbers, Infinite
VARIABLES tableText, points, tableStage, query, answer, call, radianKnown, result

Table == INSTANCE Tables WITH Texts <- TableTexts, text <- tableText, stage <- tableStage
Builtin == INSTANCE Builtins WITH answer <- result

-----------------------------------------------------------------------------
\* What the keywords at the places ks of a text give: the last one that gives something
\* counts.
Latest(G) == CHOOSE i \in G : \A j \in G : j <= i

GivingUnit(s, ks, i) == {j \in DOMAIN ks : s[ks[j]] = "units" /\ Part(s, ks[j], i) \notin {<<>>, <<"*">>}}
GivingInverse(s, ks) == {j \in DOMAIN ks : s[ks[j]] = "units" /\ InversePart(s, ks[j]) \notin {<<>>, <<"*">>}}
GivingGroup(s, ks, i) == {j \in DOMAIN ks : s[ks[j]] = "domain" /\ IsGroup(s, Groups(s, ks[j] + 1)[i - 1])}
GivingRange(s, ks) == {j \in DOMAIN ks : s[ks[j]] = "range"}

UnitIn(s, ks, i) == LET G == GivingUnit(s, ks, i) IN IF G = {} THEN Nothing ELSE Part(s, ks[Latest(G)], i)
InverseIn(s, ks) == LET G == GivingInverse(s, ks) IN IF G = {} THEN Nothing ELSE InversePart(s, ks[Latest(G)])
GroupIn(s, ks, i) == LET G == GivingGroup(s, ks, i) IN IF G = {} THEN Nothing ELSE Groups(s, ks[Latest(G)] + 1)[i - 1]
RangeAt(s, k) == IF IsGroup(s, k + 1) THEN k + 1 ELSE Nothing
RangeIn(s, ks) == LET G == GivingRange(s, ks) IN IF G = {} THEN Nothing ELSE RangeAt(s, ks[Latest(G)])
SaysNoerror(s, ks) == \E j \in DOMAIN ks : s[ks[j]] = "noerror"

ParsedIf(s, k) == IF k = Nothing THEN Nothing ELSE Parsed(s, k)

MetaInv ==
  /\ units = [i \in 1 .. arity |-> UnitIn(text, keywords, i)] /\ inverseUnit = InverseIn(text, keywords)
  /\ domain = [i \in 1 .. arity |-> ParsedIf(text, GroupIn(text, keywords, i))]
  /\ range = ParsedIf(text, RangeIn(text, keywords))
  /\ noerror \in BOOLEAN /\ (noerror <=> SaysNoerror(text, keywords))

\* The keywords stand one behind the other, each with what it takes; m is the number of
\* parameters.
Most(s, m, k) == CASE s[k] = "domain" -> m [] s[k] = "range" -> 1 [] OTHER -> 0
End(s, m, k) == IF s[k] = "units" THEN ListEnd(s, k) + 1 ELSE Groups(s, k + 1)[Most(s, m, k)]
Start(s, m, ks, j) == IF j = 1 THEN 1 ELSE End(s, m, ks[j - 1])
PlaceInv ==
  /\ keywords \in Seq(Nat) /\ at \in Nat \ {0} /\ at = Start(text, arity, keywords, Len(keywords) + 1)
  /\ \A j \in DOMAIN keywords : keywords[j] = Start(text, arity, keywords, j) /\ Keyword(text, keywords[j])

Splits(s, f, r) ==
  LET i == Separator(s) IN
  /\ f = IF i = 0 THEN s ELSE SubSeq(s, 1, i - 1)
  /\ r = IF i = 0 THEN Nothing ELSE SubSeq(s, i + 1, Len(s))

FunctionInv ==
  /\ text \in Texts /\ arity \in Arities /\ stage \in {"metadata", "inserted", "refused"}
  /\ PlaceInv /\ MetaInv
  /\ stage # "metadata" => ~ Keyword(text, at) /\ Splits(SubSeq(text, at, Len(text)), forward, reverse)

-----------------------------------------------------------------------------
\* The properties in these terms.
LEMMA LastGivenIs ==
  /\ \A i : UnitOf(i) = UnitIn(text, keywords, i)
  /\ InverseUnit = InverseIn(text, keywords)
  /\ \A i : GroupOf(i) = GroupIn(text, keywords, i)
  /\ RangeGroup = RangeIn(text, keywords)
  /\ \A j : Begins(j) = Start(text, arity, keywords, j)
<1>1. \A i : UnitOf(i) = UnitIn(text, keywords, i)
  BY DEF UnitOf, LastGiven, UnitIn, GivingUnit, Latest
<1>2. InverseUnit = InverseIn(text, keywords)
  BY DEF InverseUnit, LastGiven, InverseIn, GivingInverse, Latest
<1>3. \A i : GroupOf(i) = GroupIn(text, keywords, i)
  BY DEF GroupOf, LastGiven, GroupIn, GivingGroup, Latest
<1>4. RangeGroup = RangeIn(text, keywords)
  BY DEF RangeGroup, LastGiven, RangeIn, GivingRange, Latest, RangeAt
<1>5. \A j : Begins(j) = Start(text, arity, keywords, j)
  BY DEF Begins, PieceEnd, MostGroups, Start, End, Most
<1> QED BY <1>1, <1>2, <1>3, <1>4, <1>5

LEMMA LatestGrows ==
  ASSUME NEW n \in Nat, NEW G \in SUBSET (1 .. n)
  PROVE  Latest(G \cup {n + 1}) = n + 1
<1> DEFINE H == G \cup {n + 1}
<1>1. n + 1 \in H /\ \A j \in H : j <= n + 1
  OBVIOUS
<1>2. \A i \in H : (\A j \in H : j <= i) => i = n + 1
  OBVIOUS
<1> HIDE DEF H
<1> QED BY <1>1, <1>2 DEF Latest, H

LEMMA LatestIsGiven ==
  ASSUME NEW n \in Nat, NEW G \in SUBSET (1 .. n), G # {}
  PROVE  Latest(G) \in G
<1>1. \E i \in G : \A j \in G : j <= i
  BY GreatestIndex
<1> QED BY <1>1 DEF Latest

LEMMA OneMore ==
  ASSUME NEW ks \in Seq(Nat), NEW k \in Nat
  PROVE  /\ Append(ks, k) \in Seq(Nat) /\ Len(ks) \in Nat /\ Len(Append(ks, k)) = Len(ks) + 1
         /\ DOMAIN ks = 1 .. Len(ks) /\ DOMAIN Append(ks, k) = (1 .. Len(ks)) \cup {Len(ks) + 1}
         /\ \A j \in 1 .. Len(ks) : Append(ks, k)[j] = ks[j]
         /\ Append(ks, k)[Len(ks) + 1] = k
<1>1. Append(ks, k) \in Seq(Nat) /\ Len(ks) \in Nat /\ Len(Append(ks, k)) = Len(ks) + 1
  OBVIOUS
<1>2. DOMAIN ks = 1 .. Len(ks) /\ DOMAIN Append(ks, k) = 1 .. Len(ks) + 1
  BY <1>1
<1>3. 1 .. Len(ks) + 1 = (1 .. Len(ks)) \cup {Len(ks) + 1}
  BY <1>1
<1>4. \A j \in 1 .. Len(ks) : Append(ks, k)[j] = ks[j]
  OBVIOUS
<1>5. Append(ks, k)[Len(ks) + 1] = k
  OBVIOUS
<1> QED BY <1>1, <1>2, <1>3, <1>4, <1>5

\* One more keyword: what it gives counts from then on, everything else stays.
LEMMA MoreGiven ==
  ASSUME NEW s, NEW ks \in Seq(Nat), NEW k \in Nat
  PROVE  LET more == Append(ks, k) IN
         /\ \A i : UnitIn(s, more, i) = IF s[k] = "units" THEN Given(Part(s, k, i), UnitIn(s, ks, i)) ELSE UnitIn(s, ks, i)
         /\ InverseIn(s, more) = IF s[k] = "units" THEN Given(InversePart(s, k), InverseIn(s, ks)) ELSE InverseIn(s, ks)
         /\ \A i : GroupIn(s, more, i) = IF s[k] = "domain" /\ IsGroup(s, Groups(s, k + 1)[i - 1])
                                         THEN Groups(s, k + 1)[i - 1] ELSE GroupIn(s, ks, i)
         /\ RangeIn(s, more) = IF s[k] = "range" THEN RangeAt(s, k) ELSE RangeIn(s, ks)
         /\ SaysNoerror(s, more) <=> s[k] = "noerror" \/ SaysNoerror(s, ks)
<1> DEFINE more == Append(ks, k)
           n == Len(ks)
<1>1. /\ n \in Nat /\ DOMAIN ks = 1 .. n /\ DOMAIN more = (1 .. n) \cup {n + 1}
      /\ \A j \in 1 .. n : more[j] = ks[j]
      /\ more[n + 1] = k
  BY OneMore
<1> HIDE DEF more, n
<1>2. ASSUME NEW G \in SUBSET (1 .. n) PROVE Latest(G \cup {n + 1}) = n + 1 /\ (G # {} => Latest(G) \in 1 .. n)
  BY <1>1, LatestGrows, LatestIsGiven
<1>3. ASSUME NEW i
      PROVE  UnitIn(s, more, i) = IF s[k] = "units" THEN Given(Part(s, k, i), UnitIn(s, ks, i)) ELSE UnitIn(s, ks, i)
  <2> DEFINE G == GivingUnit(s, ks, i)
             gives == s[k] = "units" /\ Part(s, k, i) \notin {<<>>, <<"*">>}
  <2>1. G \in SUBSET (1 .. n) /\ GivingUnit(s, more, i) = IF gives THEN G \cup {n + 1} ELSE G
    BY <1>1 DEF GivingUnit
  <2> HIDE DEF G
  <2>2. /\ gives => G \cup {n + 1} # {} /\ Latest(G \cup {n + 1}) = n + 1
        /\ G # {} => more[Latest(G)] = ks[Latest(G)]
    BY <1>1, <1>2, <2>1
  <2>3. UnitIn(s, more, i) = IF gives THEN Part(s, k, i) ELSE UnitIn(s, ks, i)
    BY <1>1, <2>1, <2>2 DEF UnitIn, G
  <2> QED BY <2>3 DEF Given
<1>4. InverseIn(s, more) = IF s[k] = "units" THEN Given(InversePart(s, k), InverseIn(s, ks)) ELSE InverseIn(s, ks)
  <2> DEFINE G == GivingInverse(s, ks)
             gives == s[k] = "units" /\ InversePart(s, k) \notin {<<>>, <<"*">>}
  <2>1. G \in SUBSET (1 .. n) /\ GivingInverse(s, more) = IF gives THEN G \cup {n + 1} ELSE G
    BY <1>1 DEF GivingInverse
  <2> HIDE DEF G
  <2>2. /\ gives => G \cup {n + 1} # {} /\ Latest(G \cup {n + 1}) = n + 1
        /\ G # {} => more[Latest(G)] = ks[Latest(G)]
    BY <1>1, <1>2, <2>1
  <2>3. InverseIn(s, more) = IF gives THEN InversePart(s, k) ELSE InverseIn(s, ks)
    BY <1>1, <2>1, <2>2 DEF InverseIn, G
  <2> QED BY <2>3 DEF Given
<1>5. ASSUME NEW i
      PROVE  GroupIn(s, more, i) = IF s[k] = "domain" /\ IsGroup(s, Groups(s, k + 1)[i - 1])
                                   THEN Groups(s, k + 1)[i - 1] ELSE GroupIn(s, ks, i)
  <2> DEFINE G == GivingGroup(s, ks, i)
             gives == s[k] = "domain" /\ IsGroup(s, Groups(s, k + 1)[i - 1])
  <2>1. G \in SUBSET (1 .. n) /\ GivingGroup(s, more, i) = IF gives THEN G \cup {n + 1} ELSE G
    BY <1>1 DEF GivingGroup
  <2> HIDE DEF G
  <2>2. /\ gives => G \cup {n + 1} # {} /\ Latest(G \cup {n + 1}) = n + 1
        /\ G # {} => more[Latest(G)] = ks[Latest(G)]
    BY <1>1, <1>2, <2>1
  <2> QED BY <1>1, <2>1, <2>2 DEF GroupIn, G
<1>6. RangeIn(s, more) = IF s[k] = "range" THEN RangeAt(s, k) ELSE RangeIn(s, ks)
  <2> DEFINE G == GivingRange(s, ks)
             gives == s[k] = "range"
  <2>1. G \in SUBSET (1 .. n) /\ GivingRange(s, more) = IF gives THEN G \cup {n + 1} ELSE G
    BY <1>1 DEF GivingRange
  <2> HIDE DEF G
  <2>2. /\ gives => G \cup {n + 1} # {} /\ Latest(G \cup {n + 1}) = n + 1
        /\ G # {} => more[Latest(G)] = ks[Latest(G)]
    BY <1>1, <1>2, <2>1
  <2> QED BY <1>1, <2>1, <2>2 DEF RangeIn, G
<1>7. SaysNoerror(s, more) <=> s[k] = "noerror" \/ SaysNoerror(s, ks)
  BY <1>1 DEF SaysNoerror
<1> QED BY <1>3, <1>4, <1>5, <1>6, <1>7 DEF more

-----------------------------------------------------------------------------
\* Groups of brackets.
LEMMA FirstIs ==
  ASSUME NEW s, NEW k \in Nat, NEW n \in Nat, NEW T
  PROVE  First(s, k, n, T) = 0 \/ (First(s, k, n, T) \in k .. n /\ Is(s, First(s, k, n, T), T))
<1> DEFINE found == {i \in k .. n : Is(s, i, T)}
<1>1. found \in SUBSET Nat /\ found \in SUBSET (k .. n) /\ \A i \in found : Is(s, i, T)
  OBVIOUS
<1>2. First(s, k, n, T) = IF found = {} THEN 0 ELSE CHOOSE i \in found : \A j \in found : i <= j
  BY DEF First
<1> HIDE DEF found
<1>3. found # {} => First(s, k, n, T) \in found
  <2>1. found # {} => \E i \in found : \A j \in found : i <= j
    BY <1>1, LeastNatural
  <2> QED BY <1>2, <2>1
<1> QED BY <1>1, <1>2, <1>3

Further(s, k) == IF IsGroup(s, k) THEN Behind(s, k) ELSE k

LEMMA GroupsAre ==
  ASSUME NEW s, Len(s) \in Nat, NEW k \in Nat \ {0}
  PROVE  /\ \A n \in Nat : Groups(s, k)[n] \in Nat \ {0}
         /\ Groups(s, k)[0] = k
         /\ \A n \in Nat : Groups(s, k)[n + 1] = Further(s, Groups(s, k)[n])
<1> DEFINE S == Nat \ {0}
           next == [p \in Nat \X S |-> Further(s, p[2])]
           Solution(f) == f = [n \in Nat |-> IF n = 0 THEN k ELSE Further(s, f[n - 1])]
           g == Groups(s, k)
<1>1. \A p \in S : Further(s, p) \in S
  <2> SUFFICES ASSUME NEW p \in S PROVE Further(s, p) \in S
    OBVIOUS
  <2>1. p \in Nat
    OBVIOUS
  <2>2. Closer(s, p) \in Nat
    BY <2>1, FirstIs DEF Closer
  <2>3. Behind(s, p) = Closer(s, p) + 1 \/ Behind(s, p) = (Closer(s, p) + 1) + 1
    BY Zenon DEF Behind
  <2> QED BY <2>2, <2>3 DEF Further
<1>2. next \in [Nat \X S -> S]
  BY <1>1
<1>3. PICK f : Recursion(f, S, k, next)
  <2> HIDE DEF next, S
  <2>1. k \in S
    BY DEF S
  <2> QED BY <1>2, <2>1, RecursiveFunction
<1>4. f \in [Nat -> S] /\ f[0] = k /\ \A n \in Nat : f[n + 1] = Further(s, f[n])
  <2>1. f \in [Nat -> S] /\ f[0] = k /\ \A n \in Nat : f[n + 1] = next[<<n + 1, f[n]>>]
    BY <1>3 DEF Recursion
  <2>2. ASSUME NEW n \in Nat PROVE next[<<n + 1, f[n]>>] = Further(s, f[n])
    <3>1. n + 1 \in Nat /\ f[n] \in S
      BY <2>1
    <3> HIDE DEF S
    <3>2. <<n + 1, f[n]>> \in Nat \X S
      BY <3>1
    <3> QED BY <3>2
  <2> QED BY <2>1, <2>2
<1>5. Solution(f)
  <2>1. ASSUME NEW n \in Nat PROVE f[n] = IF n = 0 THEN k ELSE Further(s, f[n - 1])
    <3>1. n # 0 => n - 1 \in Nat /\ (n - 1) + 1 = n
      OBVIOUS
    <3> QED BY <1>4, <3>1
  <2> QED BY <1>4, <2>1
<1>6. g = CHOOSE h : Solution(h)
  BY DEF Groups, Further
<1>7. Solution(g)
  <2> HIDE DEF Solution, g
  <2> QED BY <1>5, <1>6
<1> HIDE DEF g
<1>8. g[0] = k /\ \A n \in Nat : g[n + 1] = Further(s, g[n])
  <2>1. ASSUME NEW n \in Nat PROVE g[n + 1] = Further(s, g[n])
    <3>1. n + 1 \in Nat /\ n + 1 # 0 /\ (n + 1) - 1 = n
      OBVIOUS
    <3>2. g[n + 1] = IF n + 1 = 0 THEN k ELSE Further(s, g[(n + 1) - 1])
      BY <1>7, <3>1
    <3> QED BY <3>1, <3>2
  <2> QED BY <1>7, <2>1
<1> DEFINE good == {n \in Nat : g[n] \in S}
<1>9. good = Nat
  <2>1. 0 \in good
    BY <1>8
  <2>2. ASSUME NEW n \in good PROVE n + 1 \in good
    <3>1. n \in Nat /\ n + 1 \in Nat /\ g[n] \in S
      OBVIOUS
    <3> HIDE DEF S
    <3> QED BY <1>1, <1>8, <3>1
  <2>3. good \in SUBSET Nat
    OBVIOUS
  <2> HIDE DEF good
  <2> QED BY <2>1, <2>2, <2>3, NaturalInduction
<1> QED BY <1>8, <1>9 DEF g

\* Where a piece ends there is still a place of the text, or the place behind it.
LEMMA EndIs ==
  ASSUME NEW s, Len(s) \in Nat, NEW m \in Nat, NEW k \in Nat \ {0}
  PROVE  End(s, m, k) \in Nat \ {0}
<1>1. ListEnd(s, k) \in Nat
  BY FirstIs DEF ListEnd
<1>2. Most(s, m, k) \in Nat /\ k + 1 \in Nat \ {0}
  BY DEF Most
<1>3. Groups(s, k + 1)[Most(s, m, k)] \in Nat \ {0}
  BY <1>2, GroupsAre
<1> QED BY <1>1, <1>3 DEF End

-----------------------------------------------------------------------------
\* Brackets.
Deeper(s, i, d) == IF s[i] \in Opens THEN d + 1 ELSE IF s[i] \in Closes THEN Greater(0, d - 1) ELSE d

LEMMA DepthsAre ==
  ASSUME NEW s, Len(s) \in Nat
  PROVE  /\ \A i \in 0 .. Len(s) : Depths(s)[i] \in Nat
         /\ Depths(s)[0] = 0
         /\ \A i \in 1 .. Len(s) : Depths(s)[i] = Deeper(s, i, Depths(s)[i - 1])
<1> DEFINE N == Len(s)
           next == [p \in Nat \X Nat |-> Deeper(s, p[1], p[2])]
           Solution(f) == f = [i \in 0 .. N |-> IF i = 0 THEN 0 ELSE Deeper(s, i, f[i - 1])]
           d == Depths(s)
<1>1. \A i, n \in Nat : Deeper(s, i, n) \in Nat
  BY DEF Deeper, Greater
<1>2. next \in [Nat \X Nat -> Nat] /\ 0 \in Nat
  BY <1>1
<1>3. PICK f : Recursion(f, Nat, 0, next)
  <2> HIDE DEF next
  <2> QED BY <1>2, RecursiveFunction
<1>4. f \in [Nat -> Nat] /\ f[0] = 0 /\ \A n \in Nat : f[n + 1] = Deeper(s, n + 1, f[n])
  <2>1. f \in [Nat -> Nat] /\ f[0] = 0 /\ \A n \in Nat : f[n + 1] = next[<<n + 1, f[n]>>]
    BY <1>3 DEF Recursion
  <2>2. ASSUME NEW n \in Nat PROVE next[<<n + 1, f[n]>>] = Deeper(s, n + 1, f[n])
    <3>1. n + 1 \in Nat /\ f[n] \in Nat
      BY <2>1
    <3>2. <<n + 1, f[n]>> \in Nat \X Nat
      BY <3>1
    <3> QED BY <3>2
  <2> QED BY <2>1, <2>2
<1> DEFINE g == [i \in 0 .. N |-> f[i]]
<1>5. Solution(g)
  <2>1. ASSUME NEW i \in 0 .. N PROVE g[i] = IF i = 0 THEN 0 ELSE Deeper(s, i, g[i - 1])
    <3>1. CASE i = 0
      BY <1>4, <3>1
    <3>2. CASE i # 0
      <4>1. i - 1 \in Nat /\ i - 1 \in 0 .. N /\ (i - 1) + 1 = i
        BY <3>2
      <4> QED BY <1>4, <3>2, <4>1
    <3> QED BY <3>1, <3>2
  <2> HIDE DEF N
  <2> QED BY <2>1
<1>6. d = CHOOSE h : Solution(h)
  BY DEF Depths, Deeper
<1>7. Solution(d)
  <2> HIDE DEF Solution, g, d
  <2> QED BY <1>5, <1>6
<1> HIDE DEF d
<1>8. d[0] = 0 /\ \A i \in 1 .. N : d[i] = Deeper(s, i, d[i - 1])
  <2>1. 0 \in 0 .. N /\ \A i \in 1 .. N : i \in 0 .. N /\ i # 0
    OBVIOUS
  <2> QED BY <1>7, <2>1
<1> DEFINE good == {n \in Nat : n <= N => d[n] \in Nat}
<1>9. good = Nat
  <2>1. 0 \in good
    BY <1>8
  <2>2. ASSUME NEW n \in good PROVE n + 1 \in good
    <3>1. SUFFICES ASSUME n + 1 <= N PROVE d[n + 1] \in Nat
      OBVIOUS
    <3>2. n \in Nat /\ n + 1 \in 1 .. N /\ (n + 1) - 1 = n /\ d[n] \in Nat /\ n + 1 \in Nat
      BY <3>1
    <3> QED BY <1>1, <1>8, <3>2
  <2>3. good \in SUBSET Nat
    OBVIOUS
  <2> HIDE DEF good
  <2> QED BY <2>1, <2>2, <2>3, NaturalInduction
<1>10. \A i \in 0 .. N : d[i] \in Nat
  BY <1>9
<1> QED BY <1>8, <1>10 DEF d

LEMMA CountedGrows ==
  ASSUME NEW s, NEW t, NEW i \in Nat, NEW j \in Nat, i <= j + 1
  PROVE  /\ Counted(s, t, i, j) \in Nat
         /\ Counted(s, t, i, j + 1) = Counted(s, t, i, j) + (IF s[j + 1] \in t THEN 1 ELSE 0)
<1> DEFINE A == {k \in i .. j : s[k] \in t}
           B == {k \in i .. j + 1 : s[k] \in t}
<1>1. IsFiniteSet(A)
  <2>1. IsFiniteSet(i .. j) /\ A \in SUBSET (i .. j)
    BY FS_Interval
  <2> HIDE DEF A
  <2> QED BY <2>1, FS_Subset
<1>2. B = IF s[j + 1] \in t THEN A \cup {j + 1} ELSE A
  <2>1. i .. j + 1 = (i .. j) \cup {j + 1}
    OBVIOUS
  <2> QED BY <2>1
<1>3. j + 1 \notin A
  OBVIOUS
<1> HIDE DEF A, B
<1>4. Cardinality(A) \in Nat /\ Cardinality(A \cup {j + 1}) = Cardinality(A) + 1
  BY <1>1, <1>3, FS_CardinalityType, FS_AddElement
<1>5. Counted(s, t, i, j) = Cardinality(A) /\ Counted(s, t, i, j + 1) = Cardinality(B)
  BY DEF Counted, A, B
<1> QED BY <1>2, <1>4, <1>5

LEMMA NothingCounted ==
  ASSUME NEW s, NEW t, NEW j \in Nat
  PROVE  Counted(s, t, j + 1, j) = 0
<1>1. {k \in j + 1 .. j : s[k] \in t} = {}
  OBVIOUS
<1> QED BY <1>1, FS_EmptySet DEF Counted

\* How much deeper a text gets from position i on: exactly by the brackets, while none is
\* closed that was not opened there, and never less than by the brackets.
LEMMA DepthCounts ==
  ASSUME NEW s, Len(s) \in Nat, NEW i \in 1 .. Len(s), NEW n \in i .. Len(s)
  PROVE  LET balance(j) == Counted(s, Opens, i, j) - Counted(s, Closes, i, j) IN
         /\ Depths(s)[n] >= balance(n) /\ balance(n) \in Int
         /\ Depths(s)[i - 1] = 0 /\ (\A j \in i .. n : Depths(s)[j] > 0) => Depths(s)[n] = balance(n)
<1> DEFINE balance(j) == Counted(s, Opens, i, j) - Counted(s, Closes, i, j)
           d == Depths(s)
           N == Len(s)
           k == i - 1
           free == d[k] = 0 /\ \A j \in i .. n : d[j] > 0
           good == {m \in Nat : k + m <= n => /\ balance(k + m) \in Int /\ d[k + m] >= balance(k + m)
                                              /\ free => d[k + m] = balance(k + m)}
<1>1. k \in Nat /\ k + 1 = i /\ N \in Nat /\ n \in 1 .. N /\ n - k \in Nat /\ k + (n - k) = n
  OBVIOUS
<1>2. /\ \A j \in 0 .. N : d[j] \in Nat
      /\ \A j \in 1 .. N : d[j] = Deeper(s, j, d[j - 1])
  BY DepthsAre
<1> HIDE DEF d, N, k
<1>3. 0 \in good
  <2>1. balance(k + 0) = 0
    BY <1>1, NothingCounted
  <2>2. d[k + 0] \in Nat /\ k + 0 = k
    BY <1>1, <1>2
  <2> QED BY <2>1, <2>2
<1>4. ASSUME NEW m \in good PROVE m + 1 \in good
  <2> DEFINE j == k + m
  <2>1. SUFFICES ASSUME k + (m + 1) <= n
                 PROVE  balance(j + 1) \in Int /\ d[j + 1] >= balance(j + 1) /\ (free => d[j + 1] = balance(j + 1))
    <3>1. m \in Nat /\ k + (m + 1) = j + 1
      BY <1>1
    <3> QED BY <2>1, <3>1
  <2>2. /\ m \in Nat /\ j \in Nat /\ i <= j + 1 /\ i \in Nat /\ j \in 0 .. N /\ j + 1 \in 1 .. N /\ (j + 1) - 1 = j
        /\ j + 1 \in i .. n /\ j <= n
    BY <1>1, <2>1
  <2>3. balance(j) \in Int /\ d[j] >= balance(j) /\ (free => d[j] = balance(j))
    BY <2>2
  <2>4. d[j] \in Nat /\ d[j + 1] = Deeper(s, j + 1, d[j])
    BY <1>2, <2>2
  <2> DEFINE p == s[j + 1]
  <2> HIDE DEF j
  <2>5. /\ Counted(s, Opens, i, j) \in Nat /\ Counted(s, Closes, i, j) \in Nat
        /\ Counted(s, Opens, i, j + 1) = Counted(s, Opens, i, j) + (IF p \in Opens THEN 1 ELSE 0)
        /\ Counted(s, Closes, i, j + 1) = Counted(s, Closes, i, j) + (IF p \in Closes THEN 1 ELSE 0)
    BY <2>2, CountedGrows
  <2>6. ~ (p \in Opens /\ p \in Closes)
    BY DEF Opens, Closes
  <2>7. d[j + 1] = IF p \in Opens THEN d[j] + 1 ELSE IF p \in Closes THEN Greater(0, d[j] - 1) ELSE d[j]
    BY <2>4 DEF Deeper
  <2>8. free => d[j + 1] > 0
    BY <2>2
  <2> HIDE DEF free, p
  <2>9. CASE p \in Opens
    <3>1. balance(j + 1) = balance(j) + 1 /\ d[j + 1] = d[j] + 1
      BY <2>5, <2>6, <2>7, <2>9
    <3> QED BY <2>3, <2>4, <2>5, <3>1
  <2>10. CASE p \in Closes
    <3>1. balance(j + 1) = balance(j) - 1 /\ d[j + 1] = Greater(0, d[j] - 1)
      BY <2>5, <2>6, <2>7, <2>10
    <3>2. d[j + 1] >= d[j] - 1 /\ (free => d[j + 1] = d[j] - 1) /\ d[j + 1] \in Nat
      BY <2>4, <2>8, <3>1 DEF Greater
    <3> QED BY <2>3, <2>4, <2>5, <3>1, <3>2
  <2>11. CASE p \notin Opens /\ p \notin Closes
    <3>1. balance(j + 1) = balance(j) /\ d[j + 1] = d[j]
      BY <2>5, <2>6, <2>7, <2>11
    <3> QED BY <2>3, <2>4, <2>5, <3>1
  <2> QED BY <2>9, <2>10, <2>11
<1>5. good \in SUBSET Nat
  OBVIOUS
<1> HIDE DEF good
<1>6. n - k \in good
  BY <1>1, <1>3, <1>4, <1>5, NaturalInduction
<1>7. balance(n) \in Int /\ d[n] >= balance(n) /\ (free => d[n] = balance(n))
  BY <1>1, <1>6 DEF good
<1> QED BY <1>7 DEF d, k

\* A piece is in brackets iff the depth in front of it is not zero.
LEMMA BracketsAreDepth ==
  ASSUME NEW s, Len(s) \in Nat, NEW n \in 1 .. Len(s)
  PROVE  InBrackets(s, n) <=> Depths(s)[n - 1] > 0
<1> DEFINE d == Depths(s)
<1>1. /\ \A j \in 0 .. Len(s) : d[j] \in Nat
      /\ d[0] = 0
      /\ \A j \in 1 .. Len(s) : d[j] = Deeper(s, j, d[j - 1])
  BY DepthsAre
<1>2. n - 1 \in 0 .. Len(s)
  OBVIOUS
<1>3. ASSUME InBrackets(s, n) PROVE d[n - 1] > 0
  <2>1. PICK i \in 1 .. n - 1 :
          \A j \in i .. n - 1 : Counted(s, Opens, i, j) > Counted(s, Closes, i, j)
    BY <1>3 DEF InBrackets
  <2>2. i \in 1 .. Len(s) /\ n - 1 \in i .. n - 1 /\ n - 1 \in i .. Len(s) /\ i \in Nat /\ n - 1 \in Nat /\ i <= (n - 1) + 1
    OBVIOUS
  <2>3. d[n - 1] >= Counted(s, Opens, i, n - 1) - Counted(s, Closes, i, n - 1)
    BY <2>2, DepthCounts
  <2>4. Counted(s, Opens, i, n - 1) \in Nat /\ Counted(s, Closes, i, n - 1) \in Nat
    BY <2>2, CountedGrows
  <2>5. Counted(s, Opens, i, n - 1) > Counted(s, Closes, i, n - 1)
    BY <2>1, <2>2
  <2>6. d[n - 1] \in Nat
    BY <1>1, <1>2
  <2> HIDE DEF d
  <2> QED BY <2>3, <2>4, <2>5, <2>6
<1>4. ASSUME d[n - 1] > 0 PROVE InBrackets(s, n)
  <2> DEFINE T == {k \in 1 .. n : d[k - 1] = 0}
  <2>1. 1 \in T /\ T \in SUBSET (1 .. n) /\ n \in Nat
    BY <1>1
  <2>2. PICK i \in T : \A k \in T : k <= i
    <3> HIDE DEF T
    <3> QED BY <2>1, GreatestIndex
  <2> HIDE DEF d
  <2>3. d[i - 1] = 0 /\ i \in 1 .. n /\ i # n
    BY <1>4
  <2>4. i \in 1 .. n - 1 /\ i \in 1 .. Len(s)
    BY <2>3
  <2>5. ASSUME NEW j \in i .. n - 1 PROVE d[j] > 0
    <3>1. j + 1 \in 1 .. n /\ ~ j + 1 <= i /\ (j + 1) - 1 = j /\ j \in 0 .. Len(s)
      BY <2>4
    <3>2. d[j] # 0
      BY <2>2, <3>1
    <3> QED BY <1>1, <3>1, <3>2
  <2>6. s[i] \in Opens
    <3>1. d[i] > 0 /\ d[i] = Deeper(s, i, 0)
      BY <1>1, <2>3, <2>4, <2>5
    <3>2. Greater(0, 0 - 1) = 0
      BY DEF Greater
    <3> QED BY <3>1, <3>2 DEF Deeper
  <2>7. ASSUME NEW j \in i .. n - 1 PROVE Counted(s, Opens, i, j) > Counted(s, Closes, i, j)
    <3>1. j \in i .. Len(s) /\ j \in Nat /\ i \in Nat /\ i <= j + 1 /\ j \in 0 .. Len(s)
      BY <2>4
    <3>2. \A m \in i .. j : d[m] > 0
      BY <2>5
    <3>3. d[j] = Counted(s, Opens, i, j) - Counted(s, Closes, i, j)
      BY <2>3, <2>4, <3>1, <3>2, DepthCounts DEF d
    <3>4. Counted(s, Opens, i, j) \in Nat /\ Counted(s, Closes, i, j) \in Nat
      BY <3>1, CountedGrows
    <3>5. d[j] > 0 /\ d[j] \in Nat
      BY <1>1, <2>5, <3>1
    <3> QED BY <3>3, <3>4, <3>5
  <2> QED BY <2>4, <2>6, <2>7 DEF InBrackets
<1> QED BY <1>3, <1>4

\* What is in brackets depends on what is in front only.
LEMMA SamePrefix ==
  ASSUME NEW r, NEW s, NEW n \in Nat, \A k \in 1 .. n - 1 : r[k] = s[k]
  PROVE  InBrackets(r, n) <=> InBrackets(s, n)
<1>1. ASSUME NEW i \in 1 .. n - 1, NEW j \in i .. n - 1, NEW t
      PROVE  Counted(r, t, i, j) = Counted(s, t, i, j)
  <2>1. \A k \in i .. j : k \in 1 .. n - 1
    OBVIOUS
  <2>2. {k \in i .. j : r[k] \in t} = {k \in i .. j : s[k] \in t}
    BY <2>1
  <2> QED BY <2>2 DEF Counted
<1> QED BY <1>1 DEF InBrackets

LEMMA SeparatorIs ==
  ASSUME NEW s, Len(s) \in Nat, DOMAIN s = 1 .. Len(s)
  PROVE  /\ Separator(s) \in 0 .. Len(s)
         /\ Separator(s) # 0 => s[Separator(s)] = ";" /\ ~ InBrackets(s, Separator(s))
         /\ \A i \in 1 .. Len(s) : s[i] = ";" /\ (Separator(s) # 0 => i < Separator(s)) => InBrackets(s, i)
<1> DEFINE semi(i) == s[i] = ";"
           found == {i \in DOMAIN s : s[i] = ";" /\ Depths(s)[i - 1] = 0}
<1> SUFFICES /\ Separator(s) \in 0 .. Len(s)
             /\ Separator(s) # 0 => semi(Separator(s)) /\ ~ InBrackets(s, Separator(s))
             /\ \A i \in 1 .. Len(s) : semi(i) /\ (Separator(s) # 0 => i < Separator(s)) => InBrackets(s, i)
  BY Zenon
<1>1. /\ found \in SUBSET (1 .. Len(s)) /\ found \in SUBSET Nat
      /\ \A i \in found : semi(i) /\ ~ InBrackets(s, i)
      /\ \A i \in 1 .. Len(s) : semi(i) /\ i \notin found => InBrackets(s, i)
  <2>1. ASSUME NEW i \in 1 .. Len(s) PROVE Depths(s)[i - 1] \in Nat /\ (InBrackets(s, i) <=> Depths(s)[i - 1] > 0)
    <3>1. i - 1 \in 0 .. Len(s)
      OBVIOUS
    <3> QED BY <3>1, DepthsAre, BracketsAreDepth
  <2>2. found = {i \in 1 .. Len(s) : semi(i) /\ Depths(s)[i - 1] = 0}
    OBVIOUS
  <2> HIDE DEF found, semi
  <2> QED BY <2>1, <2>2
<1>2. Separator(s) = IF found = {} THEN 0 ELSE CHOOSE i \in found : \A j \in found : i <= j
  BY DEF Separator
<1> HIDE DEF found, semi
<1>3. CASE found = {}
  BY <1>1, <1>2, <1>3
<1>4. CASE found # {}
  <2>1. \E i \in found : \A j \in found : i <= j
    BY <1>1, <1>4, LeastNatural
  <2>2. Separator(s) \in found /\ \A j \in found : Separator(s) <= j
    BY <1>2, <1>4, <2>1
  <2> DEFINE sep == Separator(s)
  <2>3. sep \in found /\ \A j \in found : sep <= j
    BY <2>2
  <2> HIDE DEF sep
  <2>4. sep \in 1 .. Len(s) /\ sep # 0 /\ sep \in Nat
    BY <1>1, <2>3
  <2>5. ASSUME NEW i \in 1 .. Len(s), semi(i), i < sep PROVE InBrackets(s, i)
    <3>1. i \notin found
      BY <2>3, <2>4, <2>5
    <3> QED BY <1>1, <2>5, <3>1
  <2>6. semi(sep) /\ ~ InBrackets(s, sep)
    BY <1>1, <2>3
  <2> QED BY <2>4, <2>5, <2>6 DEF sep
<1> QED BY <1>3, <1>4

-----------------------------------------------------------------------------
LEMMA SliceIs ==
  ASSUME NEW S, NEW s \in Seq(S), NEW m \in Nat \ {0}, NEW n \in Nat, n <= Len(s)
  PROVE  /\ SubSeq(s, m, n) \in Seq(S) /\ Len(s) \in Nat
         /\ Len(SubSeq(s, m, n)) = IF m <= n THEN n - m + 1 ELSE 0
         /\ \A i \in 1 .. n - m + 1 : SubSeq(s, m, n)[i] = s[m + i - 1]
<1>1. Len(s) \in Nat /\ \A i \in 1 .. Len(s) : s[i] \in S
  BY ElementOfSeq, LenProperties
<1>2. m \in Int /\ n \in Int /\ \A i \in m .. n : s[i] \in S
  BY <1>1
<1> QED BY <1>1, <1>2, SubSeqProperties

\* Forward and reverse put together again are what was split, and the separator is where it
\* should be.
LEMMA WholeFormula ==
  ASSUME NEW S, NEW s \in Seq(S), NEW f, NEW r, Splits(s, f, r), Nothing \notin Seq(S)
  PROVE  LET all == IF r = Nothing THEN f ELSE f \o <<";">> \o r IN
         /\ all = s
         /\ \A i \in DOMAIN f : f[i] = ";" => InBrackets(f, i)
         /\ r # Nothing => ~ InBrackets(all, Len(f) + 1)
<1> DEFINE N == Len(s)
           sep == Separator(s)
           c == ";"
           all == IF r = Nothing THEN f ELSE f \o <<c>> \o r
<1> SUFFICES /\ all = s
             /\ \A i \in DOMAIN f : f[i] = c => InBrackets(f, i)
             /\ r # Nothing => ~ InBrackets(s, Len(f) + 1)
  BY Zenon
<1>1. N \in Nat /\ DOMAIN s = 1 .. N /\ \A i \in 1 .. N : s[i] \in S
  BY ElementOfSeq, LenProperties
<1>2. /\ sep \in 0 .. N
      /\ sep # 0 => s[sep] = c /\ ~ InBrackets(s, sep)
      /\ \A i \in 1 .. N : s[i] = c /\ (sep # 0 => i < sep) => InBrackets(s, i)
  BY <1>1, SeparatorIs, Zenon
<1>3. /\ f = IF sep = 0 THEN s ELSE SubSeq(s, 1, sep - 1)
      /\ r = IF sep = 0 THEN Nothing ELSE SubSeq(s, sep + 1, N)
  BY DEF Splits
<1> HIDE DEF sep, c
<1>4. CASE sep = 0
  <2>1. f = s /\ r = Nothing /\ all = s
    BY <1>3, <1>4
  <2>2. ASSUME NEW i \in DOMAIN s, s[i] = c PROVE InBrackets(s, i)
    BY <1>1, <1>2, <1>4, <2>2, Zenon
  <2> QED BY <2>1, <2>2, Zenon
<1>5. CASE sep # 0
  <2>1. sep \in 1 .. N /\ s[sep] = c /\ c \in S
    BY <1>1, <1>2, <1>5
  <2>2. /\ f \in Seq(S) /\ Len(f) = sep - 1 /\ DOMAIN f = 1 .. sep - 1
        /\ \A i \in 1 .. sep - 1 : f[i] = s[i]
    <3>1. f = SubSeq(s, 1, sep - 1) /\ sep - 1 \in Nat /\ sep - 1 <= N
      BY <1>1, <1>3, <1>5, <2>1
    <3>2. /\ f \in Seq(S) /\ Len(f) = IF 1 <= sep - 1 THEN sep - 1 - 1 + 1 ELSE 0
          /\ \A i \in 1 .. sep - 1 - 1 + 1 : f[i] = s[1 + i - 1]
      BY <3>1, SliceIs
    <3>3. Len(f) = sep - 1 /\ sep - 1 - 1 + 1 = sep - 1 /\ \A i \in 1 .. sep - 1 : 1 + i - 1 = i
      BY <2>1, <3>2
    <3> QED BY <3>2, <3>3
  <2>3. /\ r \in Seq(S) /\ Len(r) = N - sep
        /\ \A i \in 1 .. N - sep : r[i] = s[sep + i]
    <3>1. r = SubSeq(s, sep + 1, N) /\ sep + 1 \in Nat \ {0} /\ N <= N
      BY <1>1, <1>3, <1>5, <2>1
    <3>2. /\ r \in Seq(S) /\ Len(r) = IF sep + 1 <= N THEN N - (sep + 1) + 1 ELSE 0
          /\ \A i \in 1 .. N - (sep + 1) + 1 : r[i] = s[sep + 1 + i - 1]
      BY <1>1, <3>1, SliceIs
    <3> HIDE DEF N
    <3>3. Len(r) = N - sep /\ N - (sep + 1) + 1 = N - sep /\ \A i \in 1 .. N - sep : sep + 1 + i - 1 = sep + i
      BY <1>1, <2>1, <3>2
    <3> QED BY <3>2, <3>3
  <2>4. r # Nothing
    BY <2>3
  <2> DEFINE mid == <<c>>
             front == f \o mid
  <2>5. mid \in Seq(S) /\ Len(mid) = 1 /\ mid[1] = c
    BY <2>1
  <2> HIDE DEF mid
  <2>6. /\ front \in Seq(S) /\ Len(front) = sep
        /\ \A i \in 1 .. sep : front[i] = s[i]
    <3>1. front \in Seq(S) /\ Len(front) = Len(f) + Len(mid)
      BY <2>2, <2>5, ConcatProperties
    <3>2. \A i \in 1 .. Len(f) + Len(mid) : front[i] = IF i <= Len(f) THEN f[i] ELSE mid[i - Len(f)]
      BY <2>2, <2>5, ConcatProperties, Zenon
    <3> HIDE DEF front
    <3>3. ASSUME NEW i \in 1 .. sep PROVE front[i] = s[i]
      <4>1. CASE i <= sep - 1
        <5>1. i \in 1 .. sep - 1 /\ i \in 1 .. Len(f) + Len(mid) /\ i <= Len(f)
          BY <2>1, <2>2, <2>5, <4>1
        <5> QED BY <2>2, <3>2, <5>1
      <4>2. CASE i = sep
        <5>1. i \in 1 .. Len(f) + Len(mid) /\ ~ i <= Len(f) /\ i - Len(f) = 1
          BY <2>1, <2>2, <2>5, <4>2
        <5> QED BY <2>1, <2>5, <3>2, <4>2, <5>1
      <4> QED BY <2>1, <4>1, <4>2
    <3> QED BY <2>1, <2>2, <2>5, <3>1, <3>3
  <2> HIDE DEF front
  <2>7. front \o r = s
    <3>1. front \o r \in Seq(S) /\ Len(front \o r) = Len(front) + Len(r)
      BY <2>3, <2>6, ConcatProperties
    <3>2. \A i \in 1 .. Len(front) + Len(r) :
            (front \o r)[i] = IF i <= Len(front) THEN front[i] ELSE r[i - Len(front)]
      BY <2>3, <2>6, ConcatProperties, Zenon
    <3> DEFINE both == front \o r
    <3>3. both \in Seq(S) /\ Len(both) = N
      BY <1>1, <2>1, <2>3, <2>6, <3>1
    <3> HIDE DEF both
    <3>4. ASSUME NEW i \in 1 .. N PROVE both[i] = s[i]
      <4>0. i \in 1 .. Len(front) + Len(r)
        BY <1>1, <2>1, <2>3, <2>6
      <4>1. both[i] = IF i <= Len(front) THEN front[i] ELSE r[i - Len(front)]
        BY <3>2, <4>0 DEF both
      <4>2. CASE i <= sep
        BY <2>1, <2>6, <4>1, <4>2
      <4>3. CASE ~ i <= sep
        <5>1. i - sep \in 1 .. N - sep /\ sep + (i - sep) = i
          BY <1>1, <2>1, <4>3
        <5> QED BY <2>3, <2>6, <4>1, <4>3, <5>1
      <4> QED BY <4>2, <4>3
    <3>5. both = s
      BY <3>3, <3>4, SeqEqual
    <3> QED BY <3>5 DEF both
  <2>8. all = s
    BY <2>4, <2>7 DEF front, mid
  <2>9. ASSUME NEW i \in DOMAIN f, f[i] = c PROVE InBrackets(f, i)
    <3>1. i \in 1 .. N /\ i < sep /\ f[i] = s[i] /\ i \in Nat
      BY <2>1, <2>2
    <3>2. InBrackets(s, i)
      BY <1>2, <2>9, <3>1, Zenon
    <3>3. \A k \in 1 .. i - 1 : f[k] = s[k]
      BY <2>2, <3>1
    <3> QED BY <3>1, <3>2, <3>3, SamePrefix
  <2>10. ~ InBrackets(s, Len(f) + 1)
    <3>1. Len(f) + 1 = sep
      BY <2>1, <2>2
    <3> QED BY <1>2, <1>5, <3>1
  <2> QED BY <2>8, <2>9, <2>10, Zenon
<1> QED BY <1>4, <1>5

-----------------------------------------------------------------------------
LEMMA Typed ==
  ASSUME FunctionsAssumption, text \in Texts, arity \in Arities
  PROVE  text \in Seq(Token) /\ Len(text) \in Nat /\ arity \in Nat
<1>1. text \in Seq(Token) /\ arity \in Nat
  BY DEF FunctionsAssumption
<1> QED BY <1>1, LenProperties

LEMMA InitFunctionInv == ASSUME FunctionsAssumption, Init PROVE FunctionInv
<1>1. text \in Texts /\ arity \in Arities /\ at = 1 /\ keywords = <<>> /\ stage = "metadata"
  BY DEF Init
<1>2. keywords \in Seq(Nat) /\ Len(keywords) = 0 /\ DOMAIN keywords = {}
  BY <1>1
<1>3. PlaceInv
  BY <1>1, <1>2 DEF PlaceInv, Start
<1>4. /\ \A i : UnitIn(text, keywords, i) = Nothing /\ GroupIn(text, keywords, i) = Nothing
      /\ InverseIn(text, keywords) = Nothing /\ RangeIn(text, keywords) = Nothing /\ ~ SaysNoerror(text, keywords)
  BY <1>2 DEF UnitIn, GivingUnit, GroupIn, GivingGroup, InverseIn, GivingInverse, RangeIn, GivingRange, SaysNoerror
<1>5. MetaInv
  BY <1>4 DEF MetaInv, Init, ParsedIf
<1> QED BY <1>1, <1>3, <1>5 DEF FunctionInv

\* The next keyword begins where the last one ends.
LEMMA NextPlace ==
  ASSUME FunctionsAssumption, FunctionInv, keywords' = Append(keywords, at), Keyword(text, at),
         UNCHANGED <<text, arity>>, at' = End(text, arity, at)
  PROVE  PlaceInv'
<1> DEFINE n == Len(keywords)
<1>1. /\ keywords \in Seq(Nat) /\ at \in Nat \ {0} /\ at = Start(text, arity, keywords, n + 1)
      /\ \A j \in DOMAIN keywords : keywords[j] = Start(text, arity, keywords, j) /\ Keyword(text, keywords[j])
  BY DEF FunctionInv, PlaceInv
<1>2. /\ keywords' \in Seq(Nat) /\ n \in Nat /\ Len(keywords') = n + 1
      /\ DOMAIN keywords = 1 .. n /\ DOMAIN keywords' = (1 .. n) \cup {n + 1}
      /\ \A j \in 1 .. n : keywords'[j] = keywords[j]
      /\ keywords'[n + 1] = at
  BY <1>1, OneMore
<1>3. ASSUME NEW j \in 1 .. n + 1 PROVE Start(text, arity, keywords', j) = Start(text, arity, keywords, j)
  <2>1. j # 1 => j - 1 \in 1 .. n
    BY <1>2
  <2> QED BY <1>2, <2>1 DEF Start
<1>4. at' = Start(text, arity, keywords', Len(keywords') + 1)
  <2>1. (n + 1) + 1 # 1 /\ ((n + 1) + 1) - 1 = n + 1
    BY <1>2
  <2> HIDE DEF n
  <2> QED BY <1>2, <2>1 DEF Start
<1>5. at' \in Nat \ {0}
  BY <1>1, EndIs, Typed DEF FunctionInv
<1>6. ASSUME NEW j \in DOMAIN keywords'
      PROVE  keywords'[j] = Start(text, arity, keywords', j) /\ Keyword(text, keywords'[j])
  <2>1. j \in 1 .. n + 1
    BY <1>2
  <2>2. Start(text, arity, keywords', j) = Start(text, arity, keywords, j)
    BY <1>3, <2>1
  <2>3. CASE j \in 1 .. n
    BY <1>1, <1>2, <2>2, <2>3
  <2>4. CASE j = n + 1
    BY <1>1, <1>2, <2>2, <2>4
  <2> QED BY <1>2, <2>3, <2>4
<1> QED BY <1>2, <1>4, <1>5, <1>6 DEF PlaceInv

\* Every keyword that is read adds what it gives and moves on behind its piece.
LEMMA KeywordStep ==
  ASSUME FunctionsAssumption, FunctionInv, Noerror \/ Units \/ Domain \/ Range_
  PROVE  FunctionInv'
<1>1. PICK t \in {"noerror", "units", "domain", "range"} : Reads(t)
  BY DEF Noerror, Units, Domain, Range_
<1>2. /\ UNCHANGED <<text, arity, stage>> /\ stage = "metadata" /\ Keyword(text, at)
      /\ keywords' = Append(keywords, at)
  BY <1>1 DEF Reads
<1>3. /\ text \in Texts /\ arity \in Arities /\ keywords \in Seq(Nat) /\ at \in Nat \ {0}
      /\ text \in Seq(Token) /\ Len(text) \in Nat /\ arity \in Nat
  BY Typed DEF FunctionInv, PlaceInv
<1>4. /\ units = [i \in 1 .. arity |-> UnitIn(text, keywords, i)] /\ inverseUnit = InverseIn(text, keywords)
      /\ domain = [i \in 1 .. arity |-> ParsedIf(text, GroupIn(text, keywords, i))]
      /\ range = ParsedIf(text, RangeIn(text, keywords))
      /\ noerror \in BOOLEAN /\ (noerror <=> SaysNoerror(text, keywords))
  BY DEF FunctionInv, MetaInv
<1>5. /\ \A i : UnitIn(text, keywords', i) = IF text[at] = "units" THEN Given(Part(text, at, i), UnitIn(text, keywords, i))
                                             ELSE UnitIn(text, keywords, i)
      /\ InverseIn(text, keywords') = IF text[at] = "units" THEN Given(InversePart(text, at), InverseIn(text, keywords))
                                      ELSE InverseIn(text, keywords)
      /\ \A i : GroupIn(text, keywords', i) = IF text[at] = "domain" /\ IsGroup(text, Groups(text, at + 1)[i - 1])
                                              THEN Groups(text, at + 1)[i - 1] ELSE GroupIn(text, keywords, i)
      /\ RangeIn(text, keywords') = IF text[at] = "range" THEN RangeAt(text, at) ELSE RangeIn(text, keywords)
      /\ SaysNoerror(text, keywords') <=> text[at] = "noerror" \/ SaysNoerror(text, keywords)
  BY <1>2, <1>3, MoreGiven
<1>6. \A k : IsGroup(text, k) => k # Nothing
  BY <1>3 DEF IsGroup, Is, FunctionsAssumption
<1> DEFINE Meta == /\ units' = [i \in 1 .. arity |-> UnitIn(text, keywords', i)] /\ inverseUnit' = InverseIn(text, keywords')
                   /\ domain' = [i \in 1 .. arity |-> ParsedIf(text, GroupIn(text, keywords', i))]
                   /\ range' = ParsedIf(text, RangeIn(text, keywords'))
                   /\ noerror' \in BOOLEAN /\ (noerror' <=> SaysNoerror(text, keywords'))
<1>7. SUFFICES at' = End(text, arity, at) /\ Meta
  <2>1. ASSUME at' = End(text, arity, at), Meta PROVE PlaceInv' /\ MetaInv'
    BY <1>2, <2>1, NextPlace DEF MetaInv
  <2> QED BY <1>2, <1>3, <2>1 DEF FunctionInv
<1> DEFINE word == text[at]
<1>8. CASE Noerror
  <2>1. /\ word = "noerror" /\ at' = at + 1 /\ noerror' = TRUE
        /\ UNCHANGED <<units, inverseUnit, domain, range>>
    BY <1>8 DEF Noerror, Reads
  <2>2. at' = End(text, arity, at)
    <3>1. at + 1 \in Nat \ {0} /\ Most(text, arity, at) = 0 /\ word # "units"
      BY <1>3, <2>1 DEF Most
    <3> QED BY <1>3, <2>1, <3>1, GroupsAre DEF End
  <2> QED BY <1>4, <1>5, <2>1, <2>2
<1>9. CASE Units
  <2>1. /\ word = "units" /\ at' = ListEnd(text, at) + 1
        /\ units' = [i \in 1 .. arity |-> Given(Part(text, at, i), units[i])]
        /\ inverseUnit' = Given(InversePart(text, at), inverseUnit)
        /\ UNCHANGED <<domain, range, noerror>>
    BY <1>9 DEF Units, Reads
  <2>2. units' = [i \in 1 .. arity |-> UnitIn(text, keywords', i)]
    BY <1>4, <1>5, <2>1
  <2> QED BY <1>4, <1>5, <2>1, <2>2 DEF End
<1>10. CASE Domain
  <2>1. /\ word = "domain" /\ at' = Groups(text, at + 1)[arity]
        /\ domain' = [i \in 1 .. arity |-> IF IsGroup(text, Groups(text, at + 1)[i - 1])
                                           THEN Parsed(text, Groups(text, at + 1)[i - 1]) ELSE domain[i]]
        /\ UNCHANGED <<units, inverseUnit, range, noerror>>
    BY <1>10 DEF Domain, Reads
  <2>2. domain' = [i \in 1 .. arity |-> ParsedIf(text, GroupIn(text, keywords', i))]
    <3>1. ASSUME NEW i \in 1 .. arity
          PROVE  (IF IsGroup(text, Groups(text, at + 1)[i - 1]) THEN Parsed(text, Groups(text, at + 1)[i - 1]) ELSE domain[i])
                 = ParsedIf(text, GroupIn(text, keywords', i))
      BY <1>4, <1>5, <1>6, <2>1 DEF ParsedIf
    <3> QED BY <2>1, <3>1
  <2>3. at' = End(text, arity, at)
    BY <2>1 DEF End, Most
  <2> QED BY <1>4, <1>5, <2>1, <2>2, <2>3
<1>11. CASE Range_
  <2>1. /\ word = "range" /\ at' = Groups(text, at + 1)[1]
        /\ range' = IF IsGroup(text, at + 1) THEN Parsed(text, at + 1) ELSE Nothing
        /\ UNCHANGED <<units, inverseUnit, domain, noerror>>
    BY <1>11 DEF Range_, Reads
  <2>2. range' = ParsedIf(text, RangeIn(text, keywords'))
    BY <1>5, <1>6, <2>1 DEF ParsedIf, RangeAt
  <2>3. at' = End(text, arity, at)
    BY <2>1 DEF End, Most
  <2> QED BY <1>4, <1>5, <2>1, <2>2, <2>3
<1> QED BY <1>8, <1>9, <1>10, <1>11

LEMMA InsertStep == ASSUME FunctionInv, Insert PROVE FunctionInv'
<1>1. /\ UNCHANGED <<text, arity, at, keywords, units, inverseUnit, domain, range, noerror>>
      /\ ~ Keyword(text, at) /\ stage' \in {"inserted", "refused"}
      /\ Splits(Formula, forward', reverse')
  BY DEF Insert, meta, Splits
<1>2. PlaceInv' /\ MetaInv'
  BY <1>1 DEF FunctionInv, PlaceInv, MetaInv
<1> QED BY <1>1, <1>2 DEF FunctionInv, Formula

LEMMA NothingChanges == ASSUME FunctionInv, UNCHANGED vars PROVE FunctionInv'
<1>1. UNCHANGED <<text, arity, at, keywords, units, inverseUnit, domain, range, noerror, stage, forward, reverse>>
  BY DEF vars, meta
<1>2. PlaceInv' /\ MetaInv'
  BY <1>1 DEF FunctionInv, PlaceInv, MetaInv
<1> QED BY <1>1, <1>2 DEF FunctionInv

LEMMA FunctionStep == ASSUME FunctionsAssumption, FunctionInv, [Next]_vars PROVE FunctionInv'
<1>1. CASE Noerror \/ Units \/ Domain \/ Range_
  BY <1>1, KeywordStep
<1>2. CASE Insert
  BY <1>2, InsertStep
<1>3. CASE Done
  BY <1>3, NothingChanges DEF Done
<1>4. CASE UNCHANGED vars
  BY <1>4, NothingChanges
<1> QED BY <1>1, <1>2, <1>3, <1>4 DEF Next

-----------------------------------------------------------------------------
\* Places of the text that are given to a parameter, or to the inverse, are places of groups.
LEMMA GroupsAreGroups ==
  ASSUME FunctionsAssumption, NEW s \in Seq(Token), NEW ks \in Seq(Nat)
  PROVE  /\ \A i : GroupIn(s, ks, i) = Nothing \/ IsGroup(s, GroupIn(s, ks, i))
         /\ RangeIn(s, ks) = Nothing \/ IsGroup(s, RangeIn(s, ks))
<1> DEFINE n == Len(ks)
<1>1. n \in Nat /\ DOMAIN ks = 1 .. n
  OBVIOUS
<1> HIDE DEF n
<1>2. ASSUME NEW i PROVE GroupIn(s, ks, i) = Nothing \/ IsGroup(s, GroupIn(s, ks, i))
  <2> DEFINE G == GivingGroup(s, ks, i)
  <2>1. G \in SUBSET (1 .. n) /\ \A j \in G : IsGroup(s, Groups(s, ks[j] + 1)[i - 1])
    BY <1>1 DEF GivingGroup
  <2>2. GroupIn(s, ks, i) = IF G = {} THEN Nothing ELSE Groups(s, ks[Latest(G)] + 1)[i - 1]
    BY DEF GroupIn
  <2> HIDE DEF G
  <2>3. G # {} => Latest(G) \in G
    BY <1>1, <2>1, LatestIsGiven
  <2> QED BY <2>1, <2>2, <2>3
<1>3. RangeIn(s, ks) = Nothing \/ IsGroup(s, RangeIn(s, ks))
  BY DEF RangeIn, RangeAt
<1> QED BY <1>2, <1>3

OnlyHas(s, a, b, n) == SubSeq(s, a, b) = <<n>>

\* Between two places there is one token iff they are the same.
LEMMA OneToken ==
  ASSUME NEW s \in Seq(Token), NEW a \in Nat \ {0}, NEW b \in Nat, b <= Len(s), NEW n
  PROVE  OnlyHas(s, a, b, n) <=> a = b /\ s[a] = n
<1> DEFINE t == SubSeq(s, a, b)
<1>1. /\ t \in Seq(Token) /\ Len(t) = IF a <= b THEN b - a + 1 ELSE 0
      /\ \A i \in 1 .. b - a + 1 : t[i] = s[a + i - 1]
  BY SliceIs
<1> HIDE DEF t
<1>2. ASSUME t = <<n>> PROVE a = b /\ s[a] = n
  <2>1. Len(t) = 1 /\ t[1] = n
    BY <1>2
  <2>2. a = b
    <3>1. (IF a <= b THEN b - a + 1 ELSE 0) = 1
      BY <1>1, <2>1
    <3> QED BY <3>1
  <2>3. 1 \in 1 .. b - a + 1 /\ a + 1 - 1 = a
    BY <2>2
  <2>4. t[1] = s[a]
    BY <1>1, <2>3
  <2> QED BY <2>1, <2>2, <2>4
<1>3. ASSUME a = b, s[a] = n PROVE t = <<n>>
  <2>1. Len(t) = 1 /\ 1 \in 1 .. b - a + 1 /\ a + 1 - 1 = a
    BY <1>1, <1>3
  <2>2. t[1] = n
    BY <1>1, <1>3, <2>1
  <2> QED BY <1>1, <2>1, <2>2
<1> QED BY <1>2, <1>3 DEF t, OnlyHas

LEMMA BoundIs ==
  ASSUME FunctionsAssumption, NEW s \in Seq(Token), NEW a \in Nat \ {0}, NEW b \in Nat, b <= Len(s)
  PROVE  /\ Bound(s, a, b) \in Int \cup {NoBound}
         /\ \A n \in DOMAIN Number : OnlyHas(s, a, b, n) => Bound(s, a, b) = Number[n]
         /\ Bound(s, a, b) # NoBound =>
              \E n \in DOMAIN Number : OnlyHas(s, a, b, n) /\ Bound(s, a, b) = Number[n]
<1>1. \A n \in DOMAIN Number : Number[n] \in Int
  BY DEF FunctionsAssumption
<1>2. ASSUME NEW n PROVE OnlyHas(s, a, b, n) <=> a = b /\ s[a] = n
  BY OneToken
<1>3. a = b => a \in DOMAIN s
  BY LenProperties
<1>4. CASE a = b /\ s[a] \in DOMAIN Number
  <2>1. Bound(s, a, b) = Number[s[a]]
    BY <1>3, <1>4 DEF Bound, Is
  <2> QED BY <1>1, <1>2, <1>4, <2>1, Zenon
<1>5. CASE ~ (a = b /\ s[a] \in DOMAIN Number)
  <2>1. Bound(s, a, b) = NoBound
    BY <1>5 DEF Bound, Is
  <2>2. \A n \in DOMAIN Number : ~ OnlyHas(s, a, b, n)
    BY <1>2, <1>5, Zenon
  <2> QED BY <2>1, <2>2, Zenon
<1> QED BY <1>4, <1>5

LEMMA ParsedChecks ==
  ASSUME FunctionsAssumption, text \in Texts, NEW k, k = Nothing \/ IsGroup(text, k), NEW v \in Values
  PROVE  Checks(ParsedIf(text, k), k, v)
<1>1. CASE k = Nothing
  BY <1>1 DEF Checks, ParsedIf
<1>2. CASE k # Nothing
  <2> DEFINE close == Closer(text, k)
             comma == First(text, k, close, {","})
             low == Bound(text, k + 1, comma - 1)
             high == Bound(text, comma + 1, close - 1)
             lowOpen == text[k] = "("
             highOpen == text[close] = ")"
             interval == [min |-> low, max |-> high, minOpen |-> lowOpen, maxOpen |-> highOpen]
  <2>1. text \in Seq(Token) /\ Len(text) \in Nat /\ v \in Int /\ NoBound \notin Int /\ Nothing \notin Interval
    BY Typed, LenProperties DEF FunctionsAssumption
  <2>2. k \in 1 .. Len(text) /\ close # 0
    BY <1>2, <2>1 DEF IsGroup, Is
  <2>3. close \in k .. Len(text)
    BY <2>1, <2>2, FirstIs DEF Closer
  <2>4. ParsedIf(text, k) = IF comma = 0 THEN Nothing ELSE interval
    BY <1>2 DEF ParsedIf, Parsed
  <2>5. CASE comma = 0
    BY <1>2, <2>4, <2>5 DEF Checks, Keeps
  <2>6. CASE comma # 0
    <3>1. comma \in k .. close
      <4>1. k \in Nat /\ close \in Nat
        BY <2>1, <2>2, <2>3
      <4> HIDE DEF close
      <4> QED BY <2>6, <4>1, FirstIs
    <3>2. /\ k + 1 \in Nat \ {0} /\ comma - 1 \in Nat /\ comma - 1 <= Len(text)
          /\ comma + 1 \in Nat \ {0} /\ close - 1 \in Nat /\ close - 1 <= Len(text)
      <4> HIDE DEF close, comma
      <4> QED BY <2>1, <2>2, <2>3, <3>1
    <3> DEFINE keepsLow == \A n \in DOMAIN Number : OnlyHas(text, k + 1, comma - 1, n) =>
                             v > Number[n] \/ (v = Number[n] /\ ~ lowOpen)
               keepsHigh == \A n \in DOMAIN Number : OnlyHas(text, comma + 1, close - 1, n) =>
                              v < Number[n] \/ (v = Number[n] /\ ~ highOpen)
    <3>3. Keeps(v, k) <=> keepsLow /\ keepsHigh
      BY <2>6, Zenon DEF Keeps, OnlyHas
    <3>4. /\ low \in Int \cup {NoBound}
          /\ \A n \in DOMAIN Number : OnlyHas(text, k + 1, comma - 1, n) => low = Number[n]
          /\ low # NoBound => \E n \in DOMAIN Number : OnlyHas(text, k + 1, comma - 1, n) /\ low = Number[n]
      BY <2>1, <3>2, BoundIs
    <3>5. /\ high \in Int \cup {NoBound}
          /\ \A n \in DOMAIN Number : OnlyHas(text, comma + 1, close - 1, n) => high = Number[n]
          /\ high # NoBound => \E n \in DOMAIN Number : OnlyHas(text, comma + 1, close - 1, n) /\ high = Number[n]
      BY <2>1, <3>2, BoundIs
    <3>6. \A n \in DOMAIN Number : Number[n] \in Int
      BY DEF FunctionsAssumption
    <3>7. lowOpen \in BOOLEAN /\ highOpen \in BOOLEAN
      OBVIOUS
    <3>8. interval \in Interval
      BY <3>4, <3>5, <3>7 DEF Interval
    <3>9. Contains(interval, v) <=>
            /\ low # NoBound => IF lowOpen THEN v > low ELSE v >= low
            /\ high # NoBound => IF highOpen THEN v < high ELSE v <= high
      BY DEF Contains
    <3> HIDE DEF low, high, lowOpen, highOpen, interval, close, comma
    <3>10. keepsLow <=> (low # NoBound => IF lowOpen THEN v > low ELSE v >= low)
      BY <2>1, <3>4, <3>6, <3>7
    <3>11. keepsHigh <=> (high # NoBound => IF highOpen THEN v < high ELSE v <= high)
      BY <2>1, <3>5, <3>6, <3>7
    <3>12. Contains(interval, v) <=> Keeps(v, k)
      BY <3>3, <3>9, <3>10, <3>11
    <3>13. interval # Nothing
      BY <2>1, <3>8
    <3> QED BY <1>2, <2>4, <2>6, <3>12, <3>13 DEF Checks
  <2> QED BY <2>5, <2>6
<1> QED BY <1>1, <1>2

-----------------------------------------------------------------------------
\* Whatever a text begins with, a function that is inserted has the units that its keywords
\* gave last, its checks keep the bounds in the groups of brackets that count, and its
\* formula is everything behind the keywords and what belongs to them, cut at its one
\* separator (insert_function, parse_func_metadata, parse_intervals_multi).
THEOREM FunctionsAreAsWritten ==
  ASSUME FunctionsAssumption
  PROVE  Spec => [](UnitsAreLastGiven /\ BoundsAreKept /\ FormulaIsWhole)
<1>1. Init => FunctionInv
  BY InitFunctionInv
<1>2. FunctionInv /\ [Next]_vars => FunctionInv'
  BY FunctionStep
<1>3. FunctionInv => UnitsAreLastGiven /\ BoundsAreKept /\ FormulaIsWhole
  <2> SUFFICES ASSUME FunctionInv, stage = "inserted"
               PROVE  UnitsAreLastGiven /\ BoundsAreKept /\ FormulaIsWhole
    BY DEF UnitsAreLastGiven, BoundsAreKept, FormulaIsWhole
  <2>1. /\ MetaInv /\ PlaceInv /\ text \in Texts /\ text \in Seq(Token) /\ Len(text) \in Nat /\ arity \in Nat
        /\ ~ Keyword(text, at) /\ Splits(SubSeq(text, at, Len(text)), forward, reverse)
    BY Typed DEF FunctionInv
  <2>2. UnitsAreLastGiven
    BY <2>1, LastGivenIs DEF MetaInv, UnitsAreLastGiven, SaysNoerror
  <2>3. BoundsAreKept
    <3>1. /\ \A i : GroupOf(i) = Nothing \/ IsGroup(text, GroupOf(i))
          /\ RangeGroup = Nothing \/ IsGroup(text, RangeGroup)
      BY <2>1, LastGivenIs, GroupsAreGroups DEF PlaceInv
    <3>2. range = ParsedIf(text, RangeGroup) /\ \A i \in 1 .. arity : domain[i] = ParsedIf(text, GroupOf(i))
      BY <2>1, LastGivenIs DEF MetaInv
    <3> QED BY <2>1, <3>1, <3>2, ParsedChecks DEF BoundsAreKept
  <2>4. FormulaIsWhole
    <3> DEFINE rest == SubSeq(text, at, Len(text))
    <3>1. rest \in Seq(Token)
      BY <2>1, SliceIs DEF PlaceInv
    <3>2. Nothing \notin Seq(Token)
      BY DEF FunctionsAssumption
    <3>3. LET all == IF reverse = Nothing THEN forward ELSE forward \o <<";">> \o reverse IN
          /\ all = rest
          /\ \A i \in DOMAIN forward : forward[i] = ";" => InBrackets(forward, i)
          /\ reverse # Nothing => ~ InBrackets(all, Len(forward) + 1)
      <4> HIDE DEF rest
      <4>1. Splits(rest, forward, reverse)
        BY <2>1 DEF rest
      <4> QED BY <3>1, <3>2, <4>1, WholeFormula
    <3>4. /\ at = Begins(Len(keywords) + 1)
          /\ \A j \in 1 .. Len(keywords) : keywords[j] = Begins(j) /\ Keyword(text, keywords[j])
      <4>1. DOMAIN keywords = 1 .. Len(keywords)
        BY <2>1 DEF PlaceInv
      <4> QED BY <2>1, <4>1, LastGivenIs DEF PlaceInv
    <3> QED BY <2>1, <3>3, <3>4, Zenon DEF FormulaIsWhole
  <2> QED BY <2>2, <2>3, <2>4
<1> QED BY <1>1, <1>2, <1>3, PTL DEF Spec

-----------------------------------------------------------------------------
(* Tables.                                                                 *)

\* Tables counts as FiniteSets does.
LEMMA SameSizes ==
  \A S : Table!Cardinality(S) = Cardinality(S) /\ (Table!IsFiniteSet(S) <=> IsFiniteSet(S))
  BY DEF Table!Cardinality, Cardinality, Table!IsFiniteSet, IsFiniteSet

\* Points of a text.
Point == [x : Int, y : Int]
Ratio == [num : Int, den : Nat \ {0}]

LEMMA NumbersAre ==
  ASSUME Table!TablesAssumption, NEW t \in TableTexts
  PROVE  Table!NumbersIn(t) \in Seq(Int)
<1> DEFINE N == Len(t)
           S == Seq(Int)
           one(i, v) == IF Table!IsNumber(t[i]) THEN Append(v, t[i]) ELSE v
           step(i, v) == IF i \in 1 .. N THEN one(i, v) ELSE v
           next == [p \in Nat \X S |-> step(p[1], p[2])]
           Solution(f) == f = [i \in 0 .. N |-> IF i = 0 THEN <<>> ELSE one(i, f[i - 1])]
           d == CHOOSE h : Solution(h)
<1>1. N \in Nat /\ \A i \in 1 .. N : t[i] \in Int \cup {NotANumber}
  <2>1. t \in Seq(Int \cup {NotANumber})
    BY DEF Table!TablesAssumption
  <2> QED BY <2>1
<1>2. ASSUME NEW i \in 1 .. N, NEW v \in S PROVE one(i, v) \in S
  <2>1. Table!IsNumber(t[i]) => t[i] \in Int
    BY <1>1 DEF Table!IsNumber
  <2> QED BY <2>1
<1>3. next \in [Nat \X S -> S] /\ <<>> \in S
  <2>1. \A i \in Nat, v \in S : step(i, v) \in S
    BY <1>2
  <2> HIDE DEF step
  <2> QED BY <2>1
<1> HIDE DEF S
<1>4. PICK f : Recursion(f, S, <<>>, next)
  <2> HIDE DEF next
  <2> QED BY <1>3, RecursiveFunction
<1>5. f \in [Nat -> S] /\ f[0] = <<>> /\ \A n \in Nat : f[n + 1] = step(n + 1, f[n])
  <2>1. f \in [Nat -> S] /\ f[0] = <<>> /\ \A n \in Nat : f[n + 1] = next[<<n + 1, f[n]>>]
    BY <1>4 DEF Recursion
  <2> HIDE DEF step
  <2>2. ASSUME NEW n \in Nat PROVE next[<<n + 1, f[n]>>] = step(n + 1, f[n])
    <3>1. n + 1 \in Nat /\ f[n] \in S
      BY <2>1
    <3>2. <<n + 1, f[n]>> \in Nat \X S
      BY <3>1
    <3> QED BY <3>2
  <2> QED BY <2>1, <2>2
<1> DEFINE g == [i \in 0 .. N |-> f[i]]
<1>6. Solution(g)
  <2>1. ASSUME NEW i \in 0 .. N PROVE g[i] = IF i = 0 THEN <<>> ELSE one(i, g[i - 1])
    <3>1. CASE i = 0
      BY <1>5, <3>1
    <3>2. CASE i # 0
      <4>1. i - 1 \in Nat /\ i - 1 \in 0 .. N /\ (i - 1) + 1 = i /\ i \in 1 .. N
        BY <1>1, <3>2
      <4>2. f[i] = step(i, f[i - 1]) /\ step(i, f[i - 1]) = one(i, f[i - 1])
        BY <1>5, <4>1
      <4> HIDE DEF one, step
      <4> QED BY <3>2, <4>1, <4>2
    <3> QED BY <3>1, <3>2
  <2> HIDE DEF N, one
  <2> QED BY <2>1
<1>7. Solution(d)
  <2> HIDE DEF Solution, g
  <2> QED BY <1>6
<1>8. Table!NumbersIn(t) = d[N]
  BY DEF Table!NumbersIn
<1> HIDE DEF d
<1> DEFINE good == {n \in Nat : n <= N => d[n] \in S}
<1>9. good = Nat
  <2>1. d[0] = <<>> /\ \A i \in 1 .. N : d[i] = one(i, d[i - 1])
    <3>1. 0 \in 0 .. N /\ \A i \in 1 .. N : i \in 0 .. N /\ i # 0
      BY <1>1
    <3> HIDE DEF N, one
    <3> QED BY <1>7, <3>1
  <2> HIDE DEF one, N
  <2>2. 0 \in good
    BY <1>3, <2>1
  <2>3. ASSUME NEW n \in good PROVE n + 1 \in good
    <3>1. SUFFICES ASSUME n + 1 <= N PROVE d[n + 1] \in S
      OBVIOUS
    <3>2. n \in Nat /\ n + 1 \in 1 .. N /\ (n + 1) - 1 = n /\ d[n] \in S
      BY <1>1, <3>1
    <3> QED BY <1>2, <2>1, <3>2 DEF S
  <2>4. good \in SUBSET Nat
    OBVIOUS
  <2> HIDE DEF good
  <2> QED BY <2>2, <2>3, <2>4, NaturalInduction
<1>10. d[N] \in S
  <2>1. N \in good
    BY <1>1, <1>9
  <2> QED BY <1>1, <2>1
<1> QED BY <1>8, <1>10 DEF S

LEMMA PairsAre ==
  ASSUME Table!TablesAssumption, NEW t \in TableTexts
  PROVE  /\ Table!Pairs(t) \in Seq(Point) /\ Len(Table!Pairs(t)) \in Nat /\ DOMAIN Table!Pairs(t) = 1 .. Len(Table!Pairs(t))
         /\ \A i \in 1 .. Len(Table!Pairs(t)) : Table!Pairs(t)[i] \in Point /\ Table!Pairs(t)[i].x \in Int /\ Table!Pairs(t)[i].y \in Int
<1> DEFINE nums == Table!NumbersIn(t)
           n == Len(nums) \div 2
<1>1. Len(nums) \in Nat /\ \A i \in 1 .. Len(nums) : nums[i] \in Int
  <2>1. nums \in Seq(Int)
    BY NumbersAre
  <2> HIDE DEF nums
  <2> QED BY <2>1
<1> HIDE DEF nums
<1>2. n \in Nat /\ 2 * n <= Len(nums)
  BY <1>1
<1>3. ASSUME NEW i \in 1 .. n PROVE [x |-> nums[2 * i - 1], y |-> nums[2 * i]] \in Point
  <2>1. 2 * i - 1 \in 1 .. Len(nums) /\ 2 * i \in 1 .. Len(nums)
    BY <1>1, <1>2
  <2> QED BY <1>1, <2>1 DEF Point
<1>4. Table!Pairs(t) = [i \in 1 .. n |-> [x |-> nums[2 * i - 1], y |-> nums[2 * i]]]
  BY DEF Table!Pairs, nums
<1> HIDE DEF n
<1>5. Table!Pairs(t) \in Seq(Point)
  BY <1>2, <1>3, <1>4, IsASeq
<1>6. /\ Len(Table!Pairs(t)) \in Nat /\ DOMAIN Table!Pairs(t) = 1 .. Len(Table!Pairs(t))
      /\ \A i \in 1 .. Len(Table!Pairs(t)) : Table!Pairs(t)[i] \in Point
  <2> HIDE DEF Table!Pairs
  <2> QED BY ONLY <1>5
<1>7. \A p \in Point : p.x \in Int /\ p.y \in Int
  BY DEF Point
<1> QED BY <1>5, <1>6, <1>7

-----------------------------------------------------------------------------
\* The sort: every position of the table is the place of one point of the text.
Before(ps, j, i) == ps[j].x < ps[i].x \/ (ps[j].x = ps[i].x /\ j < i)
Place(ps, i) == 1 + Table!Cardinality({j \in DOMAIN ps : Before(ps, j, i)})
Origin(ps, k) == CHOOSE i \in DOMAIN ps : Place(ps, i) = k

LEMMA PlacesAreDifferent ==
  ASSUME NEW ps \in Seq(Point), NEW i \in DOMAIN ps
  PROVE  /\ Place(ps, i) \in DOMAIN ps
         /\ \A j \in DOMAIN ps : Before(ps, i, j) => Place(ps, i) < Place(ps, j)
         /\ \A j \in DOMAIN ps : i = j \/ Before(ps, i, j) \/ Before(ps, j, i)
<1> DEFINE n == Len(ps)
           before(k) == {j \in DOMAIN ps : Before(ps, j, k)}
<1>1. n \in Nat /\ DOMAIN ps = 1 .. n /\ \A k \in 1 .. n : ps[k].x \in Int
  <2>1. \A k \in 1 .. n : ps[k] \in Point
    OBVIOUS
  <2> QED BY <2>1 DEF Point
<1> HIDE DEF n
<1>2. IsFiniteSet(1 .. n) /\ Cardinality(1 .. n) = n
  <2>1. IsFiniteSet(1 .. n) /\ Cardinality(1 .. n) = (IF 1 > n THEN 0 ELSE n - 1 + 1)
    BY <1>1, FS_Interval
  <2> QED BY <1>1, <2>1
<1>3. ASSUME NEW k \in 1 .. n
      PROVE  /\ before(k) \in SUBSET ((1 .. n) \ {k}) /\ IsFiniteSet(before(k)) /\ Cardinality(before(k)) \in Nat
             /\ Cardinality(before(k)) < n
  <2>1. before(k) \in SUBSET ((1 .. n) \ {k})
    BY <1>1 DEF Before
  <2>2. IsFiniteSet((1 .. n) \ {k}) /\ Cardinality((1 .. n) \ {k}) = n - 1
    BY <1>2, FS_RemoveElement
  <2> HIDE DEF before
  <2>3. IsFiniteSet(before(k)) /\ Cardinality(before(k)) <= n - 1 /\ Cardinality(before(k)) \in Nat
    BY <2>1, <2>2, FS_Subset, FS_CardinalityType
  <2> QED BY <1>1, <2>1, <2>3
<1>4. \A k : Place(ps, k) = 1 + Cardinality(before(k))
  BY SameSizes DEF Place
<1>5. ASSUME NEW j \in 1 .. n, Before(ps, i, j) PROVE Place(ps, i) < Place(ps, j)
  <2>1. before(i) \subseteq before(j) /\ i \in before(j) /\ i \notin before(i)
    <3>1. i \in before(j) /\ i \notin before(i)
      BY <1>1, <1>5 DEF Before
    <3>2. ASSUME NEW k \in before(i) PROVE k \in before(j)
      BY <1>1, <1>5, <3>2 DEF Before
    <3> QED BY <3>1, <3>2
  <2>2. IsFiniteSet(before(j)) /\ IsFiniteSet(before(i)) /\ Cardinality(before(i)) \in Nat /\ Cardinality(before(j)) \in Nat
    BY <1>1, <1>3
  <2> HIDE DEF before
  <2>3. Cardinality(before(i)) <= Cardinality(before(j)) /\ Cardinality(before(i)) # Cardinality(before(j))
    BY <2>1, <2>2, FS_Subset
  <2> QED BY <1>4, <2>2, <2>3
<1>6. \A j \in DOMAIN ps : i = j \/ Before(ps, i, j) \/ Before(ps, j, i)
  BY <1>1 DEF Before
<1>7. Place(ps, i) \in DOMAIN ps
  <2>1. Cardinality(before(i)) \in Nat /\ Cardinality(before(i)) < n
    BY <1>1, <1>3
  <2> HIDE DEF before
  <2> QED BY <1>1, <1>4, <2>1
<1> QED BY <1>1, <1>5, <1>6, <1>7

LEMMA PlacesAreTaken ==
  ASSUME NEW ps \in Seq(Point)
  PROVE  \A k \in DOMAIN ps : \E i \in DOMAIN ps : Place(ps, i) = k
<1> DEFINE n == Len(ps)
           D == DOMAIN ps
           f == [i \in D |-> Place(ps, i)]
           taken == {f[i] : i \in D}
<1>1. n \in Nat /\ D = 1 .. n
  OBVIOUS
<1>2. IsFiniteSet(D) /\ Cardinality(D) = n
  BY <1>1, FS_Interval
<1> HIDE DEF D
<1>3. \A i \in D : f[i] \in D
  BY PlacesAreDifferent DEF D
<1>4. ASSUME NEW i \in D, NEW j \in D, f[i] = f[j] PROVE i = j
  <2>1. Place(ps, i) = Place(ps, j) /\ Place(ps, i) \in Nat /\ Place(ps, j) \in Nat
    BY <1>1, <1>3, <1>4
  <2>2. /\ Before(ps, i, j) => Place(ps, i) < Place(ps, j)
        /\ Before(ps, j, i) => Place(ps, j) < Place(ps, i)
        /\ i = j \/ Before(ps, i, j) \/ Before(ps, j, i)
    BY PlacesAreDifferent DEF D
  <2> QED BY <2>1, <2>2
<1>5. f \in Bijection(D, taken)
  <2>1. f \in [D -> taken]
    OBVIOUS
  <2>2. f \in Surjection(D, taken)
    BY <2>1 DEF Surjection
  <2>3. f \in Injection(D, taken)
    BY <1>4, <2>1 DEF Injection, IsInjective
  <2> QED BY <2>2, <2>3 DEF Bijection
<1>6. taken \in SUBSET D
  BY <1>3
<1> HIDE DEF taken
<1>7. IsFiniteSet(taken) /\ Cardinality(taken) = Cardinality(D)
  <2>1. ExistsBijection(D, taken)
    BY <1>5 DEF ExistsBijection
  <2> QED BY <1>2, <2>1, FS_Bijection
<1>8. taken = D
  BY <1>2, <1>6, <1>7, FS_Subset
<1> QED BY <1>8 DEF taken, D

\* A sorted table: the points of the text in the order of Before.
LEMMA SortedIs ==
  ASSUME NEW ps \in Seq(Point)
  PROVE  LET s == Table!Sorted(ps) IN
         /\ s \in Seq(Point) /\ Len(s) = Len(ps) /\ DOMAIN s = DOMAIN ps
         /\ \A k \in DOMAIN ps : Origin(ps, k) \in DOMAIN ps /\ s[k] = ps[Origin(ps, k)]
         /\ \A k, l \in DOMAIN ps : k < l => Before(ps, Origin(ps, k), Origin(ps, l))
         /\ \A i \in DOMAIN ps : \E k \in DOMAIN ps : Origin(ps, k) = i
<1> DEFINE s == Table!Sorted(ps)
           D == DOMAIN ps
<1>1. Len(ps) \in Nat /\ D = 1 .. Len(ps) /\ \A i \in D : ps[i] \in Point
  OBVIOUS
<1>2. s = [k \in D |-> ps[Origin(ps, k)]]
  BY DEF Table!Sorted, Origin, Place, Before
<1>3. \A k \in D : Origin(ps, k) \in D /\ Place(ps, Origin(ps, k)) = k
  BY PlacesAreTaken DEF Origin
<1>4. s \in Seq(Point) /\ Len(s) = Len(ps)
  <2>1. \A k \in 1 .. Len(ps) : ps[Origin(ps, k)] \in Point
    BY <1>1, <1>3
  <2> HIDE DEF s
  <2> QED BY <1>1, <1>2, <2>1, IsASeq
<1> HIDE DEF D, s
<1>5. ASSUME NEW k \in D, NEW l \in D, k < l PROVE Before(ps, Origin(ps, k), Origin(ps, l))
  <2> DEFINE i == Origin(ps, k)
             j == Origin(ps, l)
  <2>1. i \in D /\ j \in D /\ Place(ps, i) = k /\ Place(ps, j) = l
    BY <1>3
  <2> HIDE DEF i, j
  <2>2. /\ Before(ps, j, i) => Place(ps, j) < Place(ps, i)
        /\ i = j \/ Before(ps, i, j) \/ Before(ps, j, i)
    BY <2>1, PlacesAreDifferent DEF D
  <2>3. k \in Int /\ l \in Int
    BY <1>1
  <2> QED BY <1>5, <2>1, <2>2, <2>3 DEF i, j
<1>6. ASSUME NEW i \in D PROVE \E k \in D : Origin(ps, k) = i
  <2> DEFINE k == Place(ps, i)
             j == Origin(ps, k)
  <2>1. k \in D /\ j \in D /\ Place(ps, j) = Place(ps, i)
    BY <1>3, PlacesAreDifferent DEF D
  <2> HIDE DEF j, k
  <2>2. /\ Before(ps, j, i) => Place(ps, j) < Place(ps, i)
        /\ Before(ps, i, j) => Place(ps, i) < Place(ps, j)
        /\ i = j \/ Before(ps, i, j) \/ Before(ps, j, i)
    BY <2>1, PlacesAreDifferent DEF D
  <2>3. Place(ps, i) \in Int
    BY <1>1, <2>1, PlacesAreDifferent DEF D
  <2> QED BY <2>1, <2>2, <2>3 DEF j, k
<1>7. DOMAIN s = D
  BY <1>2
<1> QED BY <1>2, <1>3, <1>4, <1>5, <1>6, <1>7 DEF D, s

-----------------------------------------------------------------------------
\* Arithmetic of interpolation: n / m is between c and d, and num / den as far from a to b.
LEMMA Slope ==
  ASSUME NEW a \in Int, NEW b \in Int, NEW c \in Int, NEW d \in Int, NEW n \in Int, NEW m \in Int,
         m > 0, c < d, c * m <= n, n <= d * m,
         NEW num, NEW den, num = a * m * (d - c) + (n - c * m) * (b - a), den = m * (d - c)
  PROVE  /\ num \in Int /\ den \in Int /\ den > 0
         /\ a <= b => a * den <= num /\ num <= b * den
         /\ b <= a => b * den <= num /\ num <= a * den
         /\ num - a * den = (n - c * m) * (b - a)
<1> DEFINE e == n - c * m
           g == d * m - n
           h == b - a
           w == d - c
<1>1. c * m \in Int /\ d * m \in Int
  OBVIOUS
<1>2. e \in Int /\ g \in Int /\ h \in Int /\ w \in Int /\ e >= 0 /\ g >= 0 /\ w > 0
  BY <1>1
<1>3. m * w = e + g
  <2>1. m * w = d * m - c * m
    OBVIOUS
  <2> QED BY <1>1, <2>1
<1>4. num = a * m * w + e * h /\ den = m * w /\ b = a + h
  OBVIOUS
<1> HIDE DEF e, g, h, w
<1>5. a * m \in Int /\ m * w \in Int /\ e * h \in Int /\ g * h \in Int
  BY <1>2
<1>6. den \in Int /\ num \in Int
  <2>1. a * m * w \in Int
    BY <1>2, <1>5
  <2> QED BY <1>4, <1>5, <2>1
<1>7. den > 0
  BY <1>2, <1>4
<1>8. num = a * den + e * h
  <2>1. a * m * w = a * (m * w)
    BY <1>2
  <2> QED BY <1>4, <2>1
<1>9. b * den = num + g * h
  <2>1. b * den = a * den + h * den
    BY <1>2, <1>4, <1>6
  <2>2. h * den = h * e + h * g
    BY <1>2, <1>3, <1>4
  <2>3. h * e = e * h /\ h * g = g * h
    BY <1>2
  <2>4. a * den \in Int /\ b * den \in Int /\ h * den \in Int
    BY <1>2, <1>6
  <2> QED BY <1>5, <1>6, <1>8, <2>1, <2>2, <2>3, <2>4
<1>10. a * den \in Int /\ b * den \in Int
  BY <1>6
<1>11. ASSUME a <= b PROVE a * den <= num /\ num <= b * den
  <2>1. h >= 0
    BY <1>2, <1>4, <1>11
  <2>2. e * h >= 0 /\ g * h >= 0
    BY <1>2, <2>1
  <2> QED BY <1>5, <1>6, <1>8, <1>9, <1>10, <2>2
<1>12. ASSUME b <= a PROVE b * den <= num /\ num <= a * den
  <2>1. h <= 0
    BY <1>2, <1>4, <1>12
  <2>2. e * h <= 0 /\ g * h <= 0
    BY <1>2, <2>1
  <2> QED BY <1>5, <1>6, <1>8, <1>9, <1>10, <2>2
<1>13. num - a * den = e * h
  BY <1>5, <1>6, <1>8, <1>10
<1> QED BY <1>6, <1>7, <1>11, <1>12, <1>13 DEF e, h

LEMMA Products ==
  ASSUME NEW e \in Int, NEW h \in Int, NEW w \in Int, NEW m \in Int
  PROVE  e * h * (m * w) = e * h * w * m /\ e * h * (m * w) = e * w * m * h /\ e * w * (m * h) = e * h * w * m
         /\ (e * h) * w * m = e * h * (m * w)
  OBVIOUS

LEMMA OnSegmentForward ==
  ASSUME NEW p \in Point, NEW q \in Point, NEW v \in Ratio, p.x < q.x,
         Table!AtMost(Table!Whole(p.x), v), Table!AtMost(v, Table!Whole(q.x))
  PROVE  Table!OnSegment(p, q, v, Table!Between(v, p.x, q.x, p.y, q.y))
<1> DEFINE c == p.x  d == q.x  a == p.y  b == q.y  n == v.num  m == v.den
           num == a * m * (d - c) + (n - c * m) * (b - a)
           den == m * (d - c)
<1>1. /\ a \in Int /\ b \in Int /\ c \in Int /\ d \in Int /\ n \in Int /\ m \in Int /\ m > 0 /\ c < d
  BY DEF Point, Ratio
<1>2. c * m <= n /\ n <= d * m
  <2>1. c * m <= n * 1 /\ n * 1 <= d * m
    BY <1>1 DEF Table!AtMost, Table!Whole, Table!Fraction
  <2> QED BY <1>1, <2>1
<1>3. Table!Between(v, p.x, q.x, p.y, q.y) = Table!Fraction(num, den)
  BY DEF Table!Between
<1> HIDE DEF a, b, c, d, n, m
<1>4. /\ num \in Int /\ den \in Int /\ den > 0
      /\ a <= b => a * den <= num /\ num <= b * den
      /\ b <= a => b * den <= num /\ num <= a * den
      /\ num - a * den = (n - c * m) * (b - a)
  BY <1>1, <1>2, Slope
<1> DEFINE y == [num |-> num, den |-> den]
<1>5. den = m * (d - c)
  OBVIOUS
<1> HIDE DEF num, den
<1>6. Table!Fraction(num, den) = y
  BY <1>4 DEF Table!Fraction
<1>7. Table!Within(c, v, d)
  BY DEF Table!Within, c, d
<1>8. Table!Within(a, y, b)
  <2>1. a <= b => a * den <= num * 1 /\ num * 1 <= b * den
    BY <1>4
  <2>2. b <= a => b * den <= num * 1 /\ num * 1 <= a * den
    BY <1>4
  <2>3. \A k \in Int : Table!Whole(k).num = k /\ Table!Whole(k).den = 1
    BY DEF Table!Whole, Table!Fraction
  <2>4. a <= b \/ b <= a
    BY <1>1
  <2> QED BY <1>1, <2>1, <2>2, <2>3, <2>4 DEF Table!Within, Table!AtMost
<1>9. (n - c * m) * (b - a) * den = (num - a * den) * (d - c) * m
  <2> DEFINE e == n - c * m  h == b - a  w == d - c
  <2>1. e \in Int /\ h \in Int /\ w \in Int
    BY <1>1
  <2>2. den = m * w /\ num - a * den = e * h
    BY <1>4, <1>5
  <2> HIDE DEF e, h, w
  <2>3. e * h * den = (num - a * den) * w * m
    BY <1>1, <2>1, <2>2, Products
  <2> QED BY <2>3 DEF e, h, w
<1> QED BY <1>3, <1>6, <1>7, <1>8, <1>9 DEF Table!OnSegment, y, a, b, c, d, n, m

\* The same for outputs, which may fall where inputs rise.
LEMMA OnSegmentReverse ==
  ASSUME NEW p \in Point, NEW q \in Point, NEW v \in Ratio, p.y # q.y,
         p.y < q.y => Table!AtMost(Table!Whole(p.y), v) /\ Table!AtMost(v, Table!Whole(q.y)),
         q.y < p.y => Table!AtMost(Table!Whole(q.y), v) /\ Table!AtMost(v, Table!Whole(p.y))
  PROVE  Table!OnSegment(p, q, Table!Between(v, p.y, q.y, p.x, q.x), v)
<1> DEFINE c == p.y  d == q.y  a == p.x  b == q.x  n == v.num  m == v.den
           num == a * m * (d - c) + (n - c * m) * (b - a)
           den == m * (d - c)
           x == Table!Fraction(num, den)
<1>1. /\ a \in Int /\ b \in Int /\ c \in Int /\ d \in Int /\ n \in Int /\ m \in Int /\ m > 0 /\ c # d
  BY DEF Point, Ratio
<1>2. /\ c < d => c * m <= n /\ n <= d * m
      /\ d < c => d * m <= n /\ n <= c * m
  <2>1. /\ c < d => c * m <= n * 1 /\ n * 1 <= d * m
        /\ d < c => d * m <= n * 1 /\ n * 1 <= c * m
    BY <1>1 DEF Table!AtMost, Table!Whole, Table!Fraction
  <2> QED BY <1>1, <2>1
<1>3. Table!Between(v, p.y, q.y, p.x, q.x) = x
  BY DEF Table!Between
<1>4. Table!Within(c, v, d)
  BY <1>1 DEF Table!Within, c, d
<1>5. den \in Int /\ num \in Int
  <2>1. m * (d - c) \in Int /\ c * m \in Int /\ a * m \in Int
    BY <1>1
  <2>2. a * m * (d - c) \in Int /\ (n - c * m) * (b - a) \in Int
    BY <1>1, <2>1
  <2> QED BY <2>1, <2>2
<1> HIDE DEF a, b, c, d, n, m
<1>6. /\ x.num \in Int /\ x.den \in Int /\ x.den > 0
      /\ a <= b => a * x.den <= x.num /\ x.num <= b * x.den
      /\ b <= a => b * x.den <= x.num /\ x.num <= a * x.den
      /\ (x.num - a * x.den) * (d - c) * m = (n - c * m) * (b - a) * x.den
  <2> DEFINE e == n - c * m  h == b - a  w == d - c
  <2>1. e \in Int /\ h \in Int /\ w \in Int
    BY <1>1
  <2>2. CASE c < d
    <3>1. /\ den > 0
          /\ a <= b => a * den <= num /\ num <= b * den
          /\ b <= a => b * den <= num /\ num <= a * den
          /\ num - a * den = e * h
      BY <1>1, <1>2, <2>2, Slope
    <3>2. x.num = num /\ x.den = den
      BY <1>5, <3>1 DEF Table!Fraction
    <3>3. (num - a * den) * w * m = e * h * den
      <4>1. den = m * w
        OBVIOUS
      <4> HIDE DEF e, h, w, den, num
      <4> QED BY <1>1, <2>1, <3>1, <4>1, Products
    <3> HIDE DEF num, den
    <3> QED BY <1>5, <3>1, <3>2, <3>3
  <2>3. CASE d < c
    \* Mirrored, the outputs rise.
    <3> DEFINE num2 == b * m * (c - d) + (n - d * m) * (a - b)
               den2 == m * (c - d)
    <3>1. /\ num2 \in Int /\ den2 \in Int /\ den2 > 0
          /\ b <= a => b * den2 <= num2 /\ num2 <= a * den2
          /\ a <= b => a * den2 <= num2 /\ num2 <= b * den2
          /\ num2 - b * den2 = (n - d * m) * (a - b)
      BY <1>1, <1>2, <2>3, Slope
    <3>2. den2 = 0 - den /\ num2 = 0 - num
      <4>1. m * (c - d) = 0 - m * (d - c)
        BY <1>1
      <4>2. b * m * (c - d) + (n - d * m) * (a - b) = 0 - (a * m * (d - c) + (n - c * m) * (b - a))
        <5>1. /\ b * m * (c - d) = b * m * c - b * m * d
              /\ (n - d * m) * (a - b) = n * a - n * b - d * m * a + d * m * b
              /\ a * m * (d - c) = a * m * d - a * m * c
              /\ (n - c * m) * (b - a) = n * b - n * a - c * m * b + c * m * a
          BY <1>1
        <5>2. /\ b * m * c = c * m * b /\ b * m * d = d * m * b /\ a * m * d = d * m * a /\ a * m * c = c * m * a
          BY <1>1
        <5>3. /\ c * m * b \in Int /\ d * m * b \in Int /\ d * m * a \in Int /\ c * m * a \in Int /\ n * a \in Int /\ n * b \in Int
          BY <1>1
        <5> QED BY <5>1, <5>2, <5>3
      <4> QED BY <4>1, <4>2
    <3>3. x.num = num2 /\ x.den = den2
      <4> HIDE DEF num, den, num2, den2
      <4>1. den < 0 /\ -num = num2 /\ -den = den2
        BY <1>5, <3>1, <3>2
      <4> QED BY <4>1 DEF Table!Fraction
    <3>4. num2 - a * den2 = 0 - e * h
      <4>1. num - a * den = e * h
        <5>1. a * m * (d - c) = a * (m * (d - c))
          BY <1>1
        <5>2. a * (m * (d - c)) \in Int /\ e * h \in Int
          BY <1>1, <2>1
        <5> QED BY <5>1, <5>2
      <4> HIDE DEF num, den, num2, den2, e, h
      <4>2. a * den2 = 0 - a * den /\ a * den \in Int
        BY <1>1, <1>5, <3>2
      <4>3. e * h \in Int
        BY <2>1
      <4> QED BY <1>5, <3>2, <4>1, <4>2, <4>3
    <3>5. (num2 - a * den2) * w * m = e * h * den2
      <4>1. den2 = m * (0 - w)
        BY <1>1
      <4> HIDE DEF num, den, num2, den2, e, h, w
      <4>2. (0 - e * h) * w * m = e * h * (m * (0 - w))
        BY <1>1, <2>1
      <4> QED BY <3>4, <4>1, <4>2
    <3> HIDE DEF num, den, num2, den2, e, h, w
    <3>6. (x.num - a * x.den) * w * m = e * h * x.den
      BY <3>3, <3>5
    <3> QED BY <3>1, <3>3, <3>6 DEF e, h, w
  <2> QED BY <1>1, <2>2, <2>3
<1> HIDE DEF x, num, den
<1>7. Table!Within(a, x, b)
  <2>1. a <= b => a * x.den <= x.num * 1 /\ x.num * 1 <= b * x.den
    BY <1>6
  <2>2. b <= a => b * x.den <= x.num * 1 /\ x.num * 1 <= a * x.den
    BY <1>6
  <2>3. \A k \in Int : Table!Whole(k).num = k /\ Table!Whole(k).den = 1
    BY DEF Table!Whole, Table!Fraction
  <2>4. a <= b \/ b <= a
    BY <1>1
  <2> QED BY <1>1, <2>1, <2>2, <2>3, <2>4 DEF Table!Within, Table!AtMost
<1> QED BY <1>3, <1>4, <1>6, <1>7 DEF Table!OnSegment, a, b, c, d, n, m
-----------------------------------------------------------------------------
\* Fractions compared with whole numbers.
LEMMA Compared ==
  ASSUME NEW v \in Ratio, NEW a \in Int, NEW b \in Int
  PROVE  /\ Table!AtMost(Table!Whole(a), v) <=> a * v.den <= v.num
         /\ Table!AtMost(v, Table!Whole(a)) <=> v.num <= a * v.den
         /\ Table!Same(v, Table!Whole(a)) <=> v.num = a * v.den
         /\ a <= b => a * v.den <= b * v.den
         /\ a * v.den <= b * v.den => a <= b
         /\ a * v.den \in Int /\ b * v.den \in Int /\ v.num \in Int
<1>1. v.num \in Int /\ v.den \in Int /\ v.den > 0
  BY DEF Ratio
<1>2. Table!Whole(a).num = a /\ Table!Whole(a).den = 1
  BY DEF Table!Whole, Table!Fraction
<1>3. v.num * 1 = v.num
  BY <1>1
<1>4. a <= b => a * v.den <= b * v.den
  <2>1. a <= b => (b - a) * v.den >= 0
    BY <1>1
  <2>2. (b - a) * v.den = b * v.den - a * v.den /\ a * v.den \in Int /\ b * v.den \in Int
    BY <1>1
  <2> QED BY <2>1, <2>2
<1>5. b < a => b * v.den < a * v.den
  <2>1. b < a => (a - b) * v.den > 0
    BY <1>1
  <2>2. (a - b) * v.den = a * v.den - b * v.den /\ a * v.den \in Int /\ b * v.den \in Int
    BY <1>1
  <2> QED BY <2>1, <2>2
<1>6. a * v.den \in Int /\ b * v.den \in Int
  BY <1>1
<1>7. a * v.den <= b * v.den => a <= b
  BY <1>5, <1>6
<1>8. /\ Table!AtMost(Table!Whole(a), v) <=> a * v.den <= v.num
      /\ Table!AtMost(v, Table!Whole(a)) <=> v.num <= a * v.den
      /\ Table!Same(v, Table!Whole(a)) <=> v.num = a * v.den
  BY <1>2, <1>3 DEF Table!AtMost, Table!Same
<1> QED BY <1>1, <1>4, <1>6, <1>7, <1>8

\* Both ends of a segment are on it.
LEMMA Ends ==
  ASSUME NEW p \in Point, NEW q \in Point, NEW e \in {p, q}, NEW x \in Ratio, NEW y \in Ratio,
         Table!Same(x, Table!Whole(e.x)), Table!Same(y, Table!Whole(e.y))
  PROVE  Table!OnSegment(p, q, x, y)
<1>1. /\ p.x \in Int /\ p.y \in Int /\ q.x \in Int /\ q.y \in Int
      /\ x.den \in Int /\ y.den \in Int /\ e.x \in Int /\ e.y \in Int
  BY DEF Point, Ratio
<1>2. /\ x.num = e.x * x.den /\ Table!AtMost(Table!Whole(e.x), x) /\ Table!AtMost(x, Table!Whole(e.x))
      /\ y.num = e.y * y.den /\ Table!AtMost(Table!Whole(e.y), y) /\ Table!AtMost(y, Table!Whole(e.y))
  <2>1. \A v \in Ratio, a \in Int :
          Table!Same(v, Table!Whole(a)) => v.num = a * v.den /\ Table!AtMost(Table!Whole(a), v) /\ Table!AtMost(v, Table!Whole(a))
    BY Compared
  <2> HIDE DEF Ratio
  <2> QED BY <1>1, <2>1
<1>3. Table!Within(p.x, x, q.x)
  <2>1. Table!AtMost(Table!Whole(e.x), x) /\ Table!AtMost(x, Table!Whole(e.x))
    BY <1>2
  <2>2. p.x <= q.x \/ q.x <= p.x
    BY <1>1
  <2>3. /\ Table!AtMost(Table!Whole(p.x), x) <=> p.x * x.den <= x.num
        /\ Table!AtMost(x, Table!Whole(p.x)) <=> x.num <= p.x * x.den
        /\ p.x <= q.x => p.x * x.den <= q.x * x.den
        /\ p.x * x.den \in Int /\ q.x * x.den \in Int /\ x.num \in Int
    BY <1>1, Compared
  <2>4. /\ Table!AtMost(Table!Whole(q.x), x) <=> q.x * x.den <= x.num
        /\ Table!AtMost(x, Table!Whole(q.x)) <=> x.num <= q.x * x.den
        /\ q.x <= p.x => q.x * x.den <= p.x * x.den
    BY <1>1, Compared
  <2> QED BY <1>2, <2>1, <2>2, <2>3, <2>4 DEF Table!Within
<1>4. Table!Within(p.y, y, q.y)
  <2>1. Table!AtMost(Table!Whole(e.y), y) /\ Table!AtMost(y, Table!Whole(e.y))
    BY <1>2
  <2>2. p.y <= q.y \/ q.y <= p.y
    BY <1>1
  <2>3. /\ Table!AtMost(Table!Whole(p.y), y) <=> p.y * y.den <= y.num
        /\ Table!AtMost(y, Table!Whole(p.y)) <=> y.num <= p.y * y.den
        /\ p.y <= q.y => p.y * y.den <= q.y * y.den
        /\ p.y * y.den \in Int /\ q.y * y.den \in Int /\ y.num \in Int
    BY <1>1, Compared
  <2>4. /\ Table!AtMost(Table!Whole(q.y), y) <=> q.y * y.den <= y.num
        /\ Table!AtMost(y, Table!Whole(q.y)) <=> y.num <= q.y * y.den
        /\ q.y <= p.y => q.y * y.den <= p.y * y.den
    BY <1>1, Compared
  <2> QED BY <1>2, <2>1, <2>2, <2>3, <2>4 DEF Table!Within
<1>5. (x.num - p.x * x.den) * (q.y - p.y) * y.den = (y.num - p.y * y.den) * (q.x - p.x) * x.den
  <2> DEFINE m == x.den  n == y.den  w == q.x - p.x  h == q.y - p.y
  <2>1. m \in Int /\ n \in Int /\ w \in Int /\ h \in Int
    BY <1>1
  <2>2. (e.x - p.x = 0 /\ e.y - p.y = 0) \/ (e.x - p.x = w /\ e.y - p.y = h)
    BY <1>1
  <2>3. x.num - p.x * m = (e.x - p.x) * m /\ y.num - p.y * n = (e.y - p.y) * n
    BY <1>1, <1>2
  <2> HIDE DEF m, n, w, h
  <2>4. (w * m) * h * n = (h * n) * w * m /\ (0 * m) * h * n = 0 /\ (0 * n) * w * m = 0
    BY <2>1
  <2>5. (x.num - p.x * m) * h * n = (y.num - p.y * n) * w * m
    BY <2>2, <2>3, <2>4
  <2> QED BY <2>5 DEF m, n, w, h
<1> QED BY <1>3, <1>4, <1>5 DEF Table!OnSegment

\* A segment between neighbours of the table is one of the line that the text draws.
LEMMA NeighboursAreJoined ==
  ASSUME Table!TablesAssumption, tableText \in TableTexts, points = Table!Sorted(Table!Pairs(tableText)),
         NEW k \in 1 .. Len(points) - 1, NEW x, NEW y, Table!OnSegment(points[k], points[k + 1], x, y)
  PROVE  Table!OnLine(x, y)
<1> DEFINE ps == Table!Pairs(tableText)
           D == DOMAIN ps
<1>1. ps \in Seq(Point) /\ Len(ps) \in Nat /\ D = 1 .. Len(ps) /\ \A i \in D : ps[i].x \in Int
  BY PairsAre
<1> HIDE DEF ps
<1>2. /\ Len(points) = Len(ps)
      /\ \A l \in D : Origin(ps, l) \in D /\ points[l] = ps[Origin(ps, l)]
      /\ \A l, m \in D : l < m => Before(ps, Origin(ps, l), Origin(ps, m))
      /\ \A i \in D : \E l \in D : Origin(ps, l) = i
  BY <1>1, SortedIs DEF ps
<1> DEFINE i == Origin(ps, k)
           j == Origin(ps, k + 1)
<1>3. k \in D /\ k + 1 \in D /\ k < k + 1
  BY <1>1, <1>2
<1>4. i \in D /\ j \in D /\ points[k] = ps[i] /\ points[k + 1] = ps[j] /\ Before(ps, i, j)
  BY <1>2, <1>3
<1> HIDE DEF i, j, D
<1>5. ASSUME NEW l \in D PROVE ps[l].x <= ps[i].x \/ ps[l].x >= ps[j].x
  <2>1. PICK m \in D : Origin(ps, m) = l
    BY <1>2
  <2>2. m \in Int /\ k \in Int
    BY <1>1, <1>3
  <2>3. m = k \/ m = k + 1 \/ m < k \/ k + 1 < m
    BY <2>2
  <2>4. l = i \/ l = j \/ Before(ps, l, i) \/ Before(ps, j, l)
    BY <1>2, <1>3, <2>1, <2>3 DEF i, j
  <2>5. ps[l].x \in Int /\ ps[i].x \in Int /\ ps[j].x \in Int
    BY <1>1, <1>4
  <2> QED BY <2>4, <2>5 DEF Before
<1>6. ps[i].x < ps[j].x \/ (ps[i].x = ps[j].x /\ i <= j)
  <2>1. i \in Int /\ j \in Int
    BY <1>1, <1>4
  <2> QED BY <1>4, <2>1 DEF Before
<1>7. Table!OnSegment(ps[i], ps[j], x, y)
  BY <1>4
<1> QED BY <1>4, <1>5, <1>6, <1>7 DEF Table!OnLine, ps, D

\* Where one half of the neighbours is entered and the other left, a window lies between.
LEMMA Crossing ==
  ASSUME NEW n \in Nat, n > 1, NEW enters, NEW leaves, enters \cup leaves = 1 .. n, 1 \in enters, n \in leaves
  PROVE  \E i \in 1 .. n - 1 : i \in enters /\ i + 1 \in leaves
<1> DEFINE T == {i \in 1 .. n - 1 : i \in enters}
<1>1. n - 1 \in Nat /\ 1 \in T
  OBVIOUS
<1>2. PICK i \in T : \A j \in T : j <= i
  <2>1. T \in SUBSET (1 .. n - 1) /\ T # {}
    BY <1>1
  <2> HIDE DEF T
  <2> QED BY <1>1, <2>1, GreatestIndex
<1>3. CASE i = n - 1
  BY <1>3
<1>4. CASE i # n - 1
  <2>1. i + 1 \in 1 .. n - 1 /\ i + 1 \in 1 .. n /\ i + 1 > i
    BY <1>4
  <2>2. i + 1 \notin enters
    BY <1>2, <2>1
  <2> QED BY <2>1, <2>2
<1> QED BY <1>3, <1>4

LEMMA FirstWindow ==
  ASSUME NEW found \in SUBSET Nat, found # {}
  PROVE  LET i == CHOOSE i \in found : \A j \in found : i <= j IN i \in found /\ \A j \in found : i <= j
<1>1. \E i \in found : \A j \in found : i <= j
  BY LeastNatural
<1> QED BY <1>1

-----------------------------------------------------------------------------
\* What both directions do with a table of several points.
Windows(ps, v) == {i \in 1 .. Len(ps) - 1 : Table!AtMost(Table!Whole(ps[i].x), v) /\ Table!AtMost(v, Table!Whole(ps[i + 1].x))}
Forwards(ps) == IF Table!Last(ps).y > Table!First(ps).y THEN 1 ELSE -1
UpTo(ps, f, g) == IF Forwards(ps) = 1 THEN Table!AtMost(f, g) ELSE Table!AtMost(g, f)
ReverseWindows(ps, v) ==
  {i \in 1 .. Len(ps) - 1 : UpTo(ps, Table!Whole(ps[i].y), v) /\ UpTo(ps, v, Table!Whole(ps[i + 1].y))}
Earliest(found, i) == i \in found /\ \A j \in found : i <= j

LEMMA InterpolateIs ==
  ASSUME NEW ps \in Seq(Point), Len(ps) > 1, NEW v \in Ratio
  PROVE  LET a == Table!Interpolate(ps, v) IN
         \/ Table!Same(v, Table!Whole(Table!Last(ps).x)) /\ a = Table!Some(Table!Whole(Table!Last(ps).y))
         \/ Table!Same(v, Table!Whole(Table!First(ps).x)) /\ a = Table!Some(Table!Whole(Table!First(ps).y))
         \/ Windows(ps, v) = {} /\ a = Table!None
         \/ \E i \in 1 .. Len(ps) - 1 :
              /\ Earliest(Windows(ps, v), i) /\ ~(Table!ToleratesBelow(Table!First(ps).x) /\ Table!Same(v, Table!Whole(Table!First(ps).x)))
              /\ \/ ps[i].x = ps[i + 1].x /\ a = Table!NaN
                 \/ ps[i].x # ps[i + 1].x /\ a = Table!Some(Table!Between(v, ps[i].x, ps[i + 1].x, ps[i].y, ps[i + 1].y))
<1> DEFINE atLast == Table!ToleratesAbove(Table!Last(ps).x) /\ Table!Same(v, Table!Whole(Table!Last(ps).x))
           atFirst == Table!ToleratesBelow(Table!First(ps).x) /\ Table!Same(v, Table!Whole(Table!First(ps).x))
           W == Windows(ps, v)
           i == IF W = {} THEN 0 ELSE CHOOSE k \in W : \A j \in W : k <= j
           a == Table!Interpolate(ps, v)
<1>1. Len(ps) \in Nat /\ Len(ps) # 0 /\ Len(ps) # 1
  OBVIOUS
<1>2. a = IF atLast THEN Table!Some(Table!Whole(Table!Last(ps).y))
          ELSE IF atFirst THEN Table!Some(Table!Whole(Table!First(ps).y))
          ELSE IF i = 0 THEN Table!None
          ELSE IF ps[i].x = ps[i + 1].x THEN Table!NaN
          ELSE Table!Some(Table!Between(v, ps[i].x, ps[i + 1].x, ps[i].y, ps[i + 1].y))
  <2>1. a = LET k == Table!Window(ps, LAMBDA p, q : Table!AtMost(Table!Whole(p.x), v) /\ Table!AtMost(v, Table!Whole(q.x))) IN
            IF atLast THEN Table!Some(Table!Whole(Table!Last(ps).y))
            ELSE IF atFirst THEN Table!Some(Table!Whole(Table!First(ps).y))
            ELSE IF k = 0 THEN Table!None
            ELSE IF ps[k].x = ps[k + 1].x THEN Table!NaN
            ELSE Table!Some(Table!Between(v, ps[k].x, ps[k + 1].x, ps[k].y, ps[k + 1].y))
    BY <1>1 DEF Table!Interpolate
  <2>2. Table!Window(ps, LAMBDA p, q : Table!AtMost(Table!Whole(p.x), v) /\ Table!AtMost(v, Table!Whole(q.x))) = i
    BY DEF Table!Window, Windows
  <2> HIDE DEF i, W, a
  <2> QED BY <2>1, <2>2
<1>3. W # {} => Earliest(W, i) /\ i \in 1 .. Len(ps) - 1 /\ i # 0
  <2>1. W \in SUBSET (1 .. Len(ps) - 1)
    BY DEF Windows
  <2>2. \A k \in 1 .. Len(ps) - 1 : k \in Nat /\ k # 0
    BY <1>1
  <2>3. W \in SUBSET Nat
    BY <2>1, <2>2
  <2> HIDE DEF W
  <2> QED BY <2>1, <2>2, <2>3, FirstWindow DEF Earliest
<1>4. W = {} => i = 0
  OBVIOUS
<1> HIDE DEF i, a, W
<1>5. CASE atLast
  BY <1>2, <1>5 DEF a
<1>6. CASE ~atLast /\ atFirst
  BY <1>2, <1>6 DEF a
<1>7. CASE ~atLast /\ ~atFirst /\ W = {}
  BY <1>2, <1>4, <1>7 DEF a, W
<1>8. CASE ~atLast /\ ~atFirst /\ W # {}
  BY <1>2, <1>3, <1>8 DEF a, W
<1> QED BY <1>5, <1>6, <1>7, <1>8

LEMMA ReverseIs ==
  ASSUME NEW ps \in Seq(Point), Len(ps) > 1, NEW v \in Ratio
  PROVE  LET a == Table!ReverseInterpolate(ps, v) IN
         \/ Table!Same(v, Table!Whole(Table!Last(ps).y)) /\ a = Table!Some(Table!Whole(Table!Last(ps).x))
         \/ Table!Same(v, Table!Whole(Table!First(ps).y)) /\ a = Table!Some(Table!Whole(Table!First(ps).x))
         \/ ReverseWindows(ps, v) = {} /\ a = Table!None
         \/ \E i \in 1 .. Len(ps) - 1 :
              /\ i \in ReverseWindows(ps, v)
              /\ \/ ps[i].y = ps[i + 1].y /\ a = Table!Some(Table!Whole(ps[i].x))
                 \/ ps[i].y # ps[i + 1].y /\ a = Table!Some(Table!Between(v, ps[i].y, ps[i + 1].y, ps[i].x, ps[i + 1].x))
<1> DEFINE dir == Forwards(ps)
           atLast == Table!ToleratesAbove(dir * Table!Last(ps).y) /\ Table!Same(v, Table!Whole(Table!Last(ps).y))
           atFirst == Table!ToleratesBelow(dir * Table!First(ps).y) /\ Table!Same(v, Table!Whole(Table!First(ps).y))
           W == ReverseWindows(ps, v)
           i == IF W = {} THEN 0 ELSE CHOOSE k \in W : \A j \in W : k <= j
           a == Table!ReverseInterpolate(ps, v)
<1>1. Len(ps) \in Nat /\ Len(ps) # 0 /\ Len(ps) # 1
  OBVIOUS
<1>2. a = IF atLast THEN Table!Some(Table!Whole(Table!Last(ps).x))
          ELSE IF atFirst THEN Table!Some(Table!Whole(Table!First(ps).x))
          ELSE IF i = 0 THEN Table!None
          ELSE IF ps[i].y = ps[i + 1].y THEN Table!Some(Table!Whole(ps[i].x))
          ELSE Table!Some(Table!Between(v, ps[i].y, ps[i + 1].y, ps[i].x, ps[i + 1].x))
  <2>1. a = LET k == Table!Window(ps, LAMBDA p, q : UpTo(ps, Table!Whole(p.y), v) /\ UpTo(ps, v, Table!Whole(q.y))) IN
            IF atLast THEN Table!Some(Table!Whole(Table!Last(ps).x))
            ELSE IF atFirst THEN Table!Some(Table!Whole(Table!First(ps).x))
            ELSE IF k = 0 THEN Table!None
            ELSE IF ps[k].y = ps[k + 1].y THEN Table!Some(Table!Whole(ps[k].x))
            ELSE Table!Some(Table!Between(v, ps[k].y, ps[k + 1].y, ps[k].x, ps[k + 1].x))
    BY <1>1 DEF Table!ReverseInterpolate, Forwards, UpTo
  <2>2. Table!Window(ps, LAMBDA p, q : UpTo(ps, Table!Whole(p.y), v) /\ UpTo(ps, v, Table!Whole(q.y))) = i
    BY DEF Table!Window, ReverseWindows
  <2> HIDE DEF i, W, a
  <2> QED BY <2>1, <2>2
<1>3. W # {} => i \in W /\ i \in 1 .. Len(ps) - 1 /\ i # 0
  <2>1. W \in SUBSET (1 .. Len(ps) - 1)
    BY DEF ReverseWindows
  <2>2. \A k \in 1 .. Len(ps) - 1 : k \in Nat /\ k # 0
    BY <1>1
  <2>3. W \in SUBSET Nat
    BY <2>1, <2>2
  <2> HIDE DEF W
  <2> QED BY <2>1, <2>2, <2>3, FirstWindow
<1>4. W = {} => i = 0
  OBVIOUS
<1> HIDE DEF i, a, W, dir
<1>5. CASE atLast
  BY <1>2, <1>5 DEF a
<1>6. CASE ~atLast /\ atFirst
  BY <1>2, <1>6 DEF a
<1>7. CASE ~atLast /\ ~atFirst /\ W = {}
  BY <1>2, <1>4, <1>7 DEF a, W
<1>8. CASE ~atLast /\ ~atFirst /\ W # {}
  BY <1>2, <1>3, <1>8 DEF a, W
<1> QED BY <1>5, <1>6, <1>7, <1>8

-----------------------------------------------------------------------------
\* The answers to a number v, forwards.
LEMMA ForwardAnswers ==
  ASSUME Table!TablesAssumption, tableText \in TableTexts, points = Table!Sorted(Table!Pairs(tableText)), Len(points) > 1,
         NEW v \in Ratio, NEW a, a = Table!Interpolate(points, v)
  PROVE  /\ a.found /\ a.number => Table!OnLine(v, a.value)
         /\ Table!AtMost(Table!Whole(Table!First(points).x), v) /\ Table!AtMost(v, Table!Whole(Table!Last(points).x)) => a.found
         /\ a.found /\ ~a.number =>
              points[1].x = points[2].x /\ ~Table!ToleratesBelow(points[1].x) /\ Table!Same(v, Table!Whole(points[1].x))
<1> DEFINE n == Len(points)
           W == Windows(points, v)
<1>1. /\ points \in Seq(Point) /\ n \in Nat /\ n > 1
      /\ \A i \in 1 .. n : points[i] \in Point /\ points[i].x \in Int /\ points[i].y \in Int
  <2>1. points \in Seq(Point) /\ n \in Nat
    BY PairsAre, SortedIs
  <2>2. \A p \in Point : p.x \in Int /\ p.y \in Int
    BY DEF Point
  <2>3. \A i \in 1 .. n : points[i] \in Point
    BY <2>1
  <2> QED BY <2>1, <2>2, <2>3
<1>2. Table!First(points) = points[1] /\ Table!Last(points) = points[n]
  BY DEF Table!First, Table!Last
<1> HIDE DEF n
<1>3. ASSUME NEW i \in 1 .. n - 1 PROVE points[i].x <= points[i + 1].x
  <2> DEFINE ps == Table!Pairs(tableText)
  <2>1. ps \in Seq(Point) /\ Len(ps) \in Nat /\ DOMAIN ps = 1 .. Len(ps) /\ \A k \in 1 .. Len(ps) : ps[k].x \in Int
    BY PairsAre
  <2> HIDE DEF ps
  <2>2. /\ n = Len(ps)
        /\ \A k \in DOMAIN ps : Origin(ps, k) \in DOMAIN ps /\ points[k] = ps[Origin(ps, k)]
        /\ \A k, l \in DOMAIN ps : k < l => Before(ps, Origin(ps, k), Origin(ps, l))
    BY <2>1, SortedIs DEF ps, n
  <2>3. i \in DOMAIN ps /\ i + 1 \in DOMAIN ps /\ i < i + 1
    BY <2>1, <2>2
  <2>4. Before(ps, Origin(ps, i), Origin(ps, i + 1))
    BY <2>2, <2>3
  <2>5. Origin(ps, i) \in DOMAIN ps /\ Origin(ps, i + 1) \in DOMAIN ps
    BY <2>2, <2>3
  <2> QED BY <2>1, <2>2, <2>3, <2>4, <2>5 DEF Before
<1>4. \A i : i \in W <=> i \in 1 .. n - 1 /\ Table!AtMost(Table!Whole(points[i].x), v) /\ Table!AtMost(v, Table!Whole(points[i + 1].x))
  BY DEF Windows, n
<1>5. \/ Table!Same(v, Table!Whole(points[n].x)) /\ a = Table!Some(Table!Whole(points[n].y))
      \/ Table!Same(v, Table!Whole(points[1].x)) /\ a = Table!Some(Table!Whole(points[1].y))
      \/ W = {} /\ a = Table!None
      \/ \E i \in 1 .. n - 1 :
           /\ Earliest(W, i) /\ ~(Table!ToleratesBelow(points[1].x) /\ Table!Same(v, Table!Whole(points[1].x)))
           /\ \/ points[i].x = points[i + 1].x /\ a = Table!NaN
              \/ points[i].x # points[i + 1].x /\ a = Table!Some(Table!Between(v, points[i].x, points[i + 1].x, points[i].y, points[i + 1].y))
  <2>1. Len(points) > 1
    OBVIOUS
  <2> QED BY <1>1, <1>2, <2>1, InterpolateIs DEF n
<1> HIDE DEF W
<1>6. 1 \in 1 .. n - 1 /\ n - 1 \in 1 .. n - 1 /\ (n - 1) + 1 = n /\ 1 \in 1 .. n /\ n \in 1 .. n
  BY <1>1
<1>7. ASSUME NEW k \in 1 .. n - 1, NEW e \in {points[k], points[k + 1]}, Table!Same(v, Table!Whole(e.x))
      PROVE  Table!OnLine(v, Table!Whole(e.y))
  <2>1. k \in 1 .. n /\ k + 1 \in 1 .. n
    BY <1>1
  <2>2. points[k] \in Point /\ points[k + 1] \in Point /\ e.y \in Int
    BY <1>1, <2>1
  <2>3. Table!Whole(e.y) \in Ratio /\ Table!Same(Table!Whole(e.y), Table!Whole(e.y))
    BY <2>2 DEF Table!Whole, Table!Fraction, Ratio, Table!Same
  <2>4. Table!OnSegment(points[k], points[k + 1], v, Table!Whole(e.y))
    BY <1>7, <2>2, <2>3, Ends
  <2> QED BY <2>4, NeighboursAreJoined DEF n
<1>8. a.found /\ a.number => Table!OnLine(v, a.value)
  <2>1. CASE Table!Same(v, Table!Whole(points[n].x)) /\ a = Table!Some(Table!Whole(points[n].y))
    <3>1. Table!OnLine(v, Table!Whole(points[n].y))
      BY <1>6, <1>7, <2>1
    <3> QED BY <2>1, <3>1 DEF Table!Some
  <2>2. CASE Table!Same(v, Table!Whole(points[1].x)) /\ a = Table!Some(Table!Whole(points[1].y))
    <3>1. Table!OnLine(v, Table!Whole(points[1].y))
      BY <1>6, <1>7, <2>2
    <3> QED BY <2>2, <3>1 DEF Table!Some
  <2>3. CASE a = Table!None \/ a = Table!NaN
    BY <2>3 DEF Table!None, Table!NaN
  <2>4. ASSUME NEW i \in 1 .. n - 1, i \in W, points[i].x # points[i + 1].x,
               a = Table!Some(Table!Between(v, points[i].x, points[i + 1].x, points[i].y, points[i + 1].y))
        PROVE  Table!OnLine(v, a.value)
    <3>1. i \in 1 .. n /\ i + 1 \in 1 .. n
      BY <1>1
    <3>2. points[i] \in Point /\ points[i + 1] \in Point /\ points[i].x < points[i + 1].x
      BY <1>1, <1>3, <2>4, <3>1
    <3>3. Table!OnSegment(points[i], points[i + 1], v, Table!Between(v, points[i].x, points[i + 1].x, points[i].y, points[i + 1].y))
      BY <1>4, <2>4, <3>2, OnSegmentForward
    <3>4. Table!OnLine(v, Table!Between(v, points[i].x, points[i + 1].x, points[i].y, points[i + 1].y))
      BY <3>3, NeighboursAreJoined DEF n
    <3> QED BY <2>4, <3>4 DEF Table!Some
  <2> QED BY <1>5, <2>1, <2>2, <2>3, <2>4 DEF Earliest
<1>9. Table!AtMost(Table!Whole(points[1].x), v) /\ Table!AtMost(v, Table!Whole(points[n].x)) => a.found
  <2>1. SUFFICES ASSUME Table!AtMost(Table!Whole(points[1].x), v), Table!AtMost(v, Table!Whole(points[n].x)) PROVE W # {}
    BY <1>5 DEF Table!Some, Table!NaN
  <2> DEFINE enters == {i \in 1 .. n : Table!AtMost(Table!Whole(points[i].x), v)}
             leaves == {i \in 1 .. n : Table!AtMost(v, Table!Whole(points[i].x))}
  <2>2. enters \cup leaves = 1 .. n
    <3>1. ASSUME NEW i \in 1 .. n PROVE Table!AtMost(Table!Whole(points[i].x), v) \/ Table!AtMost(v, Table!Whole(points[i].x))
      <4>1. points[i].x \in Int
        BY <1>1
      <4> QED BY <4>1, Compared
    <3> QED BY <3>1
  <2>3. 1 \in enters /\ n \in leaves
    BY <1>6, <2>1
  <2>4. PICK i \in 1 .. n - 1 : i \in enters /\ i + 1 \in leaves
    <3> HIDE DEF enters, leaves
    <3> QED BY <1>1, <2>2, <2>3, Crossing
  <2> QED BY <1>4, <2>4
<1>10. ASSUME a.found, ~a.number
       PROVE  points[1].x = points[2].x /\ ~Table!ToleratesBelow(points[1].x) /\ Table!Same(v, Table!Whole(points[1].x))
  <2>1. PICK i \in 1 .. n - 1 :
          /\ Earliest(W, i) /\ ~(Table!ToleratesBelow(points[1].x) /\ Table!Same(v, Table!Whole(points[1].x)))
          /\ points[i].x = points[i + 1].x
    BY <1>5, <1>10 DEF Table!Some, Table!None
  <2>2. i \in W /\ Table!AtMost(Table!Whole(points[i].x), v) /\ Table!AtMost(v, Table!Whole(points[i].x))
    BY <1>4, <2>1 DEF Earliest
  <2>3. i = 1
    <3>1. SUFFICES ASSUME i # 1 PROVE FALSE
      OBVIOUS
    <3>2. i - 1 \in 1 .. n - 1 /\ (i - 1) + 1 = i /\ i - 1 < i /\ i \in 1 .. n /\ i - 1 \in 1 .. n
      BY <1>1, <3>1
    <3>3. points[i - 1].x <= points[i].x /\ points[i - 1].x \in Int /\ points[i].x \in Int
      BY <1>1, <1>3, <3>2
    <3>4. Table!AtMost(Table!Whole(points[i - 1].x), v)
      <4>1. \A b, c \in Int : b <= c /\ Table!AtMost(Table!Whole(c), v) => Table!AtMost(Table!Whole(b), v)
        <5> TAKE b, c \in Int
        <5>1. /\ Table!AtMost(Table!Whole(b), v) <=> b * v.den <= v.num
              /\ b <= c => b * v.den <= c * v.den
              /\ b * v.den \in Int /\ c * v.den \in Int /\ v.num \in Int
          BY Compared
        <5>2. Table!AtMost(Table!Whole(c), v) <=> c * v.den <= v.num
          BY Compared
        <5> QED BY <5>1, <5>2
      <4> QED BY <2>2, <3>3, <4>1
    <3>5. i - 1 \in W
      BY <1>4, <2>2, <3>2, <3>4
    <3> QED BY <2>1, <3>2, <3>5 DEF Earliest
  <2>4. points[1].x \in Int
    BY <1>1, <1>6
  <2>5. Table!Same(v, Table!Whole(points[1].x))
    <3>1. /\ Table!AtMost(Table!Whole(points[1].x), v) <=> points[1].x * v.den <= v.num
          /\ Table!AtMost(v, Table!Whole(points[1].x)) <=> v.num <= points[1].x * v.den
          /\ Table!Same(v, Table!Whole(points[1].x)) <=> v.num = points[1].x * v.den
          /\ points[1].x * v.den \in Int /\ v.num \in Int
      BY <2>4, Compared
    <3> QED BY <2>2, <2>3, <3>1
  <2> QED BY <2>1, <2>3, <2>5
<1> QED BY <1>2, <1>8, <1>9, <1>10

\* The answers to a number v, backwards.
LEMMA BackwardAnswers ==
  ASSUME Table!TablesAssumption, tableText \in TableTexts, points = Table!Sorted(Table!Pairs(tableText)), Len(points) > 1,
         NEW v \in Ratio, NEW a, a = Table!ReverseInterpolate(points, v)
  PROVE  /\ a.found => a.number /\ Table!OnLine(a.value, v)
         /\ Table!Within(Table!First(points).y, v, Table!Last(points).y) => a.found
<1> DEFINE n == Len(points)
           W == ReverseWindows(points, v)
           up(f, g) == UpTo(points, f, g)
<1>1. /\ points \in Seq(Point) /\ n \in Nat /\ n > 1
      /\ \A i \in 1 .. n : points[i] \in Point /\ points[i].x \in Int /\ points[i].y \in Int
  <2>1. points \in Seq(Point) /\ n \in Nat
    BY PairsAre, SortedIs
  <2>2. \A p \in Point : p.x \in Int /\ p.y \in Int
    BY DEF Point
  <2>3. \A i \in 1 .. n : points[i] \in Point
    BY <2>1
  <2> QED BY <2>1, <2>2, <2>3
<1>2. Table!First(points) = points[1] /\ Table!Last(points) = points[n]
  BY DEF Table!First, Table!Last
<1> HIDE DEF n
<1>3. /\ points[n].y > points[1].y => \A f, g : up(f, g) <=> Table!AtMost(f, g)
      /\ ~(points[n].y > points[1].y) => \A f, g : up(f, g) <=> Table!AtMost(g, f)
  BY <1>2 DEF UpTo, Forwards
<1>4. \A i : i \in W <=> i \in 1 .. n - 1 /\ up(Table!Whole(points[i].y), v) /\ up(v, Table!Whole(points[i + 1].y))
  BY DEF ReverseWindows, n
<1>5. \/ Table!Same(v, Table!Whole(points[n].y)) /\ a = Table!Some(Table!Whole(points[n].x))
      \/ Table!Same(v, Table!Whole(points[1].y)) /\ a = Table!Some(Table!Whole(points[1].x))
      \/ W = {} /\ a = Table!None
      \/ \E i \in 1 .. n - 1 :
           /\ i \in W
           /\ \/ points[i].y = points[i + 1].y /\ a = Table!Some(Table!Whole(points[i].x))
              \/ points[i].y # points[i + 1].y /\ a = Table!Some(Table!Between(v, points[i].y, points[i + 1].y, points[i].x, points[i + 1].x))
  <2>1. Len(points) > 1
    OBVIOUS
  <2> QED BY <1>1, <1>2, <2>1, ReverseIs DEF n
<1> HIDE DEF W, up
<1>6. 1 \in 1 .. n - 1 /\ n - 1 \in 1 .. n - 1 /\ (n - 1) + 1 = n /\ 1 \in 1 .. n /\ n \in 1 .. n
  BY <1>1
<1>7. ASSUME NEW k \in 1 .. n - 1, NEW e \in {points[k], points[k + 1]}, Table!Same(v, Table!Whole(e.y))
      PROVE  Table!OnLine(Table!Whole(e.x), v)
  <2>1. k \in 1 .. n /\ k + 1 \in 1 .. n
    BY <1>1
  <2>2. points[k] \in Point /\ points[k + 1] \in Point /\ e.x \in Int
    BY <1>1, <2>1
  <2>3. Table!Whole(e.x) \in Ratio /\ Table!Same(Table!Whole(e.x), Table!Whole(e.x))
    BY <2>2 DEF Table!Whole, Table!Fraction, Ratio, Table!Same
  <2>4. Table!OnSegment(points[k], points[k + 1], Table!Whole(e.x), v)
    BY <1>7, <2>2, <2>3, Ends
  <2> QED BY <2>4, NeighboursAreJoined DEF n
\* In a window, v is between the outputs of its ends.
<1>8. ASSUME NEW i \in W
      PROVE  /\ i \in 1 .. n - 1 /\ points[i] \in Point /\ points[i + 1] \in Point
             /\ points[i].y <= points[i + 1].y => Table!AtMost(Table!Whole(points[i].y), v) /\ Table!AtMost(v, Table!Whole(points[i + 1].y))
             /\ points[i + 1].y <= points[i].y => Table!AtMost(Table!Whole(points[i + 1].y), v) /\ Table!AtMost(v, Table!Whole(points[i].y))
  <2> DEFINE c == points[i].y
             d == points[i + 1].y
  <2>1. i \in 1 .. n - 1 /\ i \in 1 .. n /\ i + 1 \in 1 .. n
    BY <1>1, <1>4
  <2>2. c \in Int /\ d \in Int
    BY <1>1, <2>1
  <2>3. (Table!AtMost(Table!Whole(c), v) /\ Table!AtMost(v, Table!Whole(d))) \/ (Table!AtMost(v, Table!Whole(c)) /\ Table!AtMost(Table!Whole(d), v))
    BY <1>3, <1>4
  <2> HIDE DEF c, d
  <2>4. /\ Table!AtMost(Table!Whole(c), v) <=> c * v.den <= v.num
        /\ Table!AtMost(v, Table!Whole(c)) <=> v.num <= c * v.den
        /\ c <= d => c * v.den <= d * v.den
        /\ c * v.den \in Int /\ d * v.den \in Int /\ v.num \in Int
    BY <2>2, Compared
  <2>5. /\ Table!AtMost(Table!Whole(d), v) <=> d * v.den <= v.num
        /\ Table!AtMost(v, Table!Whole(d)) <=> v.num <= d * v.den
        /\ d <= c => d * v.den <= c * v.den
    BY <2>2, Compared
  <2>6. /\ c <= d => Table!AtMost(Table!Whole(c), v) /\ Table!AtMost(v, Table!Whole(d))
        /\ d <= c => Table!AtMost(Table!Whole(d), v) /\ Table!AtMost(v, Table!Whole(c))
    BY <2>3, <2>4, <2>5
  <2> QED BY <1>1, <2>1, <2>6 DEF c, d
<1>9. a.found => a.number /\ Table!OnLine(a.value, v)
  <2>1. CASE Table!Same(v, Table!Whole(points[n].y)) /\ a = Table!Some(Table!Whole(points[n].x))
    <3>1. Table!OnLine(Table!Whole(points[n].x), v)
      BY <1>6, <1>7, <2>1
    <3> QED BY <2>1, <3>1 DEF Table!Some
  <2>2. CASE Table!Same(v, Table!Whole(points[1].y)) /\ a = Table!Some(Table!Whole(points[1].x))
    <3>1. Table!OnLine(Table!Whole(points[1].x), v)
      BY <1>6, <1>7, <2>2
    <3> QED BY <2>2, <3>1 DEF Table!Some
  <2>3. CASE a = Table!None
    BY <2>3 DEF Table!None
  <2>4. ASSUME NEW i \in W, points[i].y = points[i + 1].y, a = Table!Some(Table!Whole(points[i].x))
        PROVE  a.number /\ Table!OnLine(a.value, v)
    <3>1. points[i].y \in Int /\ i \in 1 .. n - 1
      BY <1>8 DEF Point
    <3>2. Table!AtMost(Table!Whole(points[i].y), v) /\ Table!AtMost(v, Table!Whole(points[i].y))
      BY <1>8, <2>4, <3>1
    <3>3. Table!Same(v, Table!Whole(points[i].y))
      <4>1. /\ Table!AtMost(Table!Whole(points[i].y), v) <=> points[i].y * v.den <= v.num
            /\ Table!AtMost(v, Table!Whole(points[i].y)) <=> v.num <= points[i].y * v.den
            /\ Table!Same(v, Table!Whole(points[i].y)) <=> v.num = points[i].y * v.den
            /\ points[i].y * v.den \in Int /\ v.num \in Int
        BY <3>1, Compared
      <4> QED BY <3>2, <4>1
    <3>4. Table!OnLine(Table!Whole(points[i].x), v)
      BY <1>7, <3>1, <3>3
    <3> QED BY <2>4, <3>4 DEF Table!Some
  <2>5. ASSUME NEW i \in W, points[i].y # points[i + 1].y,
               a = Table!Some(Table!Between(v, points[i].y, points[i + 1].y, points[i].x, points[i + 1].x))
        PROVE  a.number /\ Table!OnLine(a.value, v)
    <3>1. i \in 1 .. n - 1 /\ points[i] \in Point /\ points[i + 1] \in Point
      BY <1>8
    <3>2. points[i].y \in Int /\ points[i + 1].y \in Int
      BY <3>1 DEF Point
    <3>3. Table!OnSegment(points[i], points[i + 1], Table!Between(v, points[i].y, points[i + 1].y, points[i].x, points[i + 1].x), v)
      BY <1>8, <2>5, <3>1, <3>2, OnSegmentReverse
    <3>4. Table!OnLine(Table!Between(v, points[i].y, points[i + 1].y, points[i].x, points[i + 1].x), v)
      BY <3>1, <3>3, NeighboursAreJoined DEF n
    <3> QED BY <2>5, <3>4 DEF Table!Some
  <2> QED BY <1>5, <2>1, <2>2, <2>3, <2>4, <2>5
<1>10. Table!Within(points[1].y, v, points[n].y) => a.found
  <2>1. SUFFICES ASSUME Table!Within(points[1].y, v, points[n].y) PROVE W # {}
    BY <1>5 DEF Table!Some
  <2> DEFINE enters == {i \in 1 .. n : up(Table!Whole(points[i].y), v)}
             leaves == {i \in 1 .. n : up(v, Table!Whole(points[i].y))}
  <2>2. enters \cup leaves = 1 .. n
    <3>1. ASSUME NEW i \in 1 .. n PROVE Table!AtMost(Table!Whole(points[i].y), v) \/ Table!AtMost(v, Table!Whole(points[i].y))
      <4>1. points[i].y \in Int
        BY <1>1
      <4> QED BY <4>1, Compared
    <3> QED BY <1>3, <3>1
  <2>3. up(Table!Whole(points[1].y), v) /\ up(v, Table!Whole(points[n].y))
    <3> DEFINE c == points[1].y
               d == points[n].y
    <3>1. c \in Int /\ d \in Int
      BY <1>1, <1>6
    <3>2. /\ d > c => \A f, g : up(f, g) <=> Table!AtMost(f, g)
          /\ ~(d > c) => \A f, g : up(f, g) <=> Table!AtMost(g, f)
      BY <1>3
    <3>3. Table!Within(c, v, d)
      BY <2>1
    <3> HIDE DEF c, d
    <3>4. /\ Table!AtMost(Table!Whole(c), v) <=> c * v.den <= v.num
          /\ Table!AtMost(v, Table!Whole(c)) <=> v.num <= c * v.den
          /\ c <= d => c * v.den <= d * v.den
          /\ c * v.den \in Int /\ d * v.den \in Int /\ v.num \in Int
      BY <3>1, Compared
    <3>5. /\ Table!AtMost(Table!Whole(d), v) <=> d * v.den <= v.num
          /\ Table!AtMost(v, Table!Whole(d)) <=> v.num <= d * v.den
          /\ d <= c => d * v.den <= c * v.den
      BY <3>1, Compared
    <3>6. CASE d > c
      <4>1. Table!AtMost(Table!Whole(c), v) /\ Table!AtMost(v, Table!Whole(d))
        BY <3>1, <3>3, <3>4, <3>5, <3>6 DEF Table!Within
      <4> QED BY <3>2, <3>6, <4>1 DEF c, d
    <3>7. CASE ~(d > c)
      <4>1. Table!AtMost(v, Table!Whole(c)) /\ Table!AtMost(Table!Whole(d), v)
        BY <3>1, <3>3, <3>4, <3>5, <3>7 DEF Table!Within
      <4> QED BY <3>2, <3>7, <4>1 DEF c, d
    <3> QED BY <3>6, <3>7
  <2>4. 1 \in enters /\ n \in leaves
    BY <1>6, <2>3
  <2>5. PICK i \in 1 .. n - 1 : i \in enters /\ i + 1 \in leaves
    <3> HIDE DEF enters, leaves
    <3> QED BY <1>1, <2>2, <2>4, Crossing
  <2> QED BY <1>4, <2>5
<1> QED BY <1>2, <1>9, <1>10

-----------------------------------------------------------------------------
\* The inductive invariant: the table is the sorted text once inserted, and the answer
\* what one of the two directions says of the number asked for.
TablesInv ==
  /\ tableText \in TableTexts
  /\ tableStage # "text" => points = Table!Sorted(Table!Pairs(tableText))
  /\ tableStage = "answered" =>
       /\ query.from \in Ratio /\ query.forward \in BOOLEAN
       /\ answer = IF query.forward THEN Table!Interpolate(points, query.from) ELSE Table!ReverseInterpolate(points, query.from)

\* Every table answers with points of the line its text draws, misses none between its
\* ends, and answers with no number only where it begins with a vertical piece
\* (TableDef::interpolate, reverse_interpolate and insert_table).
THEOREM TablesAnswer ==
  ASSUME Table!TablesAssumption
  PROVE  Table!Spec => [](Table!AnswersAreOnTheLine /\ Table!NothingIsMissed /\ Table!NotANumberOnlyAtTheStart)
<1>1. Table!Init => TablesInv
  BY DEF Table!Init, TablesInv
<1>2. TablesInv /\ [Table!Next]_Table!vars => TablesInv'
  <2> SUFFICES ASSUME TablesInv, [Table!Next]_Table!vars PROVE TablesInv'
    OBVIOUS
  <2>1. CASE Table!Insert
    BY <2>1 DEF Table!Insert, TablesInv
  <2>2. ASSUME NEW i \in Inputs, Table!LookUp(i) PROVE TablesInv'
    <3>1. i \in Ratio
      BY DEF Table!TablesAssumption, Ratio
    <3>2. /\ tableStage # "text" /\ tableText' = tableText /\ points' = points /\ tableStage' = "answered"
          /\ query' = [forward |-> TRUE, from |-> i] /\ answer' = Table!Interpolate(points, i)
      BY <2>2 DEF Table!LookUp, Table!Answer
    <3> QED BY <3>1, <3>2 DEF TablesInv
  <2>3. ASSUME NEW o \in Outputs, Table!LookUpInverse(o) PROVE TablesInv'
    <3>1. o \in Ratio
      BY DEF Table!TablesAssumption, Ratio
    <3>2. /\ tableStage # "text" /\ tableText' = tableText /\ points' = points /\ tableStage' = "answered"
          /\ query' = [forward |-> FALSE, from |-> o] /\ answer' = Table!ReverseInterpolate(points, o)
      BY <2>3 DEF Table!LookUpInverse, Table!Answer
    <3> QED BY <3>1, <3>2 DEF TablesInv
  <2>4. CASE UNCHANGED Table!vars
    BY <2>4 DEF Table!vars, TablesInv
  <2> QED BY <2>1, <2>2, <2>3, <2>4 DEF Table!Next, Table!Done
<1>3. TablesInv => Table!AnswersAreOnTheLine /\ Table!NothingIsMissed /\ Table!NotANumberOnlyAtTheStart
  <2> SUFFICES ASSUME TablesInv PROVE Table!AnswersAreOnTheLine /\ Table!NothingIsMissed /\ Table!NotANumberOnlyAtTheStart
    OBVIOUS
  <2> USE DEF Table!Answered, Table!Given
  <2>1. CASE tableStage # "answered"
    BY <2>1 DEF Table!AnswersAreOnTheLine, Table!NothingIsMissed, Table!NotANumberOnlyAtTheStart
  <2>2. CASE tableStage = "answered" /\ query.forward = TRUE
    <3>1. tableText \in TableTexts /\ points = Table!Sorted(Table!Pairs(tableText)) /\ query.from \in Ratio /\ answer = Table!Interpolate(points, query.from)
      BY <2>2 DEF TablesInv
    <3>2. CASE Len(points) > 1
      BY <2>2, <3>1, <3>2, ForwardAnswers DEF Table!AnswersAreOnTheLine, Table!NothingIsMissed, Table!NotANumberOnlyAtTheStart
    <3>3. CASE ~(Len(points) > 1)
      <4>1. Len(points) = 0 \/ Len(points) = 1
        <5> DEFINE n == Len(points)
        <5>1. Table!Pairs(tableText) \in Seq(Point)
          BY <3>1, PairsAre
        <5>2. n \in Nat
          BY <3>1, <5>1, SortedIs
        <5>3. ~(n > 1)
          BY <3>3
        <5> HIDE DEF n
        <5>4. n = 0 \/ n = 1
          BY <5>2, <5>3
        <5> QED BY <5>4 DEF n
      <4>2. ~answer.found \/ answer.number
        BY <3>1, <4>1 DEF Table!Interpolate, Table!None, Table!Some
      <4> QED BY <2>2, <3>3, <4>2 DEF Table!AnswersAreOnTheLine, Table!NothingIsMissed, Table!NotANumberOnlyAtTheStart
    <3> QED BY <3>2, <3>3
  <2>3. CASE tableStage = "answered" /\ query.forward = FALSE
    <3>1. tableText \in TableTexts /\ points = Table!Sorted(Table!Pairs(tableText)) /\ query.from \in Ratio
          /\ answer = Table!ReverseInterpolate(points, query.from)
      BY <2>3 DEF TablesInv
    <3>2. CASE Len(points) > 1
      BY <2>3, <3>1, <3>2, BackwardAnswers DEF Table!AnswersAreOnTheLine, Table!NothingIsMissed, Table!NotANumberOnlyAtTheStart
    <3>3. CASE ~(Len(points) > 1)
      BY <2>3, <3>3 DEF Table!AnswersAreOnTheLine, Table!NothingIsMissed, Table!NotANumberOnlyAtTheStart
    <3> QED BY <3>2, <3>3
  <2> QED BY <2>1, <2>2, <2>3 DEF TablesInv
<1> QED BY <1>1, <1>2, <1>3, PTL DEF Table!Spec

-----------------------------------------------------------------------------
(* Built-in functions.                                                     *)

\* What is computed of a moderate argument that is not refused.
LEMMA ModerateSeries ==
  ASSUME Builtin!NumbersAssumption, NEW x \in Int, x <= 284, -282 <= x, ~Builtin!IsPole(x)
  PROVE  Builtin!GammaLanczos(x) = "finite" /\ ~Builtin!IsInfinite(x)
<1>1. x # NotANumber /\ ~Builtin!IsInfinite(x)
  BY DEF Builtin!NumbersAssumption, Builtin!IsInfinite, Builtin!Magnitude
<1>2. Builtin!Series(x) = "finite"
  BY <1>1 DEF Builtin!Series
<1>3. x < 1 => Builtin!Series(2 - x) = "finite"
  <2>1. 2 - x \in Int /\ (x < 1 => 2 - x <= 284 /\ 2 - x >= 0)
    OBVIOUS
  <2>2. x < 1 => ~Builtin!IsInfinite(2 - x)
    BY <2>1 DEF Builtin!NumbersAssumption, Builtin!IsInfinite, Builtin!Magnitude
  <2> QED BY <2>1, <2>2 DEF Builtin!Series
<1>4. CASE x < 1
  <2>1. x # 0 /\ ~Builtin!IsInteger(x)
    BY <1>1, <1>4 DEF Builtin!IsPole, Builtin!IsInteger
  <2> QED BY <1>1, <1>3, <1>4, <2>1 DEF Builtin!GammaLanczos
<1>5. CASE x >= 1
  BY <1>1, <1>2, <1>5 DEF Builtin!GammaLanczos
<1> QED BY <1>4, <1>5

LEMMA AcceptedOutcome ==
  ASSUME Builtin!NumbersAssumption, NEW f \in Builtin!Functions, NEW x \in Int, Builtin!Magnitude(x) <= 280, ~Builtin!Refuses(f, x),
         ~(f = "Gamma" /\ Builtin!IsPole(x) /\ x # 0), ~(f = "lnGamma" /\ Builtin!IsPole(x))
  PROVE  Builtin!Outcome(f, x) \notin {"infinite", "nan", "noise"}
<1>1. x # NotANumber /\ x <= 280 /\ -280 <= x /\ ~Builtin!IsInfinite(x) /\ x > -Infinite
  BY DEF Builtin!NumbersAssumption, Builtin!IsInfinite, Builtin!Magnitude
<1>2. /\ ~Builtin!RefusesRoot(f, x) /\ ~Builtin!RefusesLogarithm(f, x) /\ ~Builtin!RefusesAngle(f, x) /\ ~Builtin!RefusesArc(f, x)
      /\ ~Builtin!RefusesHyperbolic(f, x) /\ ~Builtin!RefusesSpecial(f, x)
  BY DEF Builtin!Refuses
<1> DEFINE m == Builtin!Magnitude(x)
<1>m. m \in Int /\ m >= 0 /\ (x < 0 => m = 0 - x) /\ (x >= 0 => m = x) /\ ~(m > 1420)
  BY <1>1 DEF Builtin!Magnitude
<1>n. m # NotANumber
  BY <1>m DEF Builtin!NumbersAssumption
<1> HIDE DEF m
<1>3. CASE f \in Builtin!Logarithms
  <2>1. Builtin!Outcome(f, x) = Builtin!LogarithmOf(x)
    BY <1>1, <1>3 DEF Builtin!Outcome, Builtin!Logarithms, Builtin!Roots
  <2>2. x > 0
    BY <1>1, <1>2, <1>3 DEF Builtin!RefusesLogarithm, Builtin!AtMost
  <2> QED BY <1>1, <2>1, <2>2 DEF Builtin!LogarithmOf
<1>4. CASE f \in {"exp", "sinh", "cosh"}
  <2>1. Builtin!Outcome(f, x) = IF x > 1418 \/ (f # "exp" /\ x < -1418) \/ (f = "sinh" /\ x <= -Infinite) THEN "infinite" ELSE "finite"
    BY <1>1, <1>4 DEF Builtin!Outcome, Builtin!Logarithms, Builtin!Roots
  <2>2. ~(x > 1418) /\ ~(x < -1418) /\ ~(x <= -Infinite)
    BY <1>1 DEF Builtin!NumbersAssumption
  <2> QED BY <2>1, <2>2
<1>5. CASE f \in {"round", "floor", "ceil", "abs", "asinh"} \cup Builtin!Roots
  BY <1>1, <1>2, <1>5 DEF Builtin!Outcome, Builtin!Logarithms, Builtin!Roots, Builtin!RefusesRoot, Builtin!Less
<1>6. CASE f \in {"sin", "cos", "tan", "secant"}
  BY <1>1, <1>6 DEF Builtin!Outcome, Builtin!Logarithms, Builtin!Roots, Builtin!WaveOf
<1>7. CASE f \in {"csc", "cot"}
  BY <1>1, <1>2, <1>7 DEF Builtin!Outcome, Builtin!Logarithms, Builtin!Roots, Builtin!WaveOf, Builtin!RefusesAngle, Builtin!Is
<1>8. CASE f \in {"csch", "coth"}
  <2>1. x # 0
    BY <1>1, <1>2, <1>8 DEF Builtin!RefusesHyperbolic, Builtin!Is
  <2>2. ~(Builtin!Magnitude(x) > 1420)
    BY <1>1 DEF Builtin!Magnitude
  <2> QED BY <1>1, <1>8, <2>1, <2>2 DEF Builtin!Outcome, Builtin!Logarithms, Builtin!Roots
<1>9. CASE f \in {"asin", "acos", "asecant", "acsc"}
  <2>1. CASE f \in {"asin", "acos"}
    <3>1. Builtin!Outcome(f, x) = Builtin!ArcOf(x)
      BY <1>1, <2>1 DEF Builtin!Outcome, Builtin!Logarithms, Builtin!Roots
    <3>2. m <= 2
      BY <1>1, <1>2, <1>m, <2>1 DEF Builtin!RefusesArc, Builtin!AtMost, m
    <3> QED BY <1>1, <1>m, <3>1, <3>2 DEF Builtin!ArcOf, m
  <2>2. CASE f \in {"asecant", "acsc"}
    <3>1. Builtin!Outcome(f, x) = Builtin!InverseArcOf(x)
      BY <1>1, <2>2 DEF Builtin!Outcome, Builtin!Logarithms, Builtin!Roots
    <3>2. m >= 2
      BY <1>1, <1>2, <1>m, <2>2, <1>n DEF Builtin!RefusesArc, Builtin!Less, m
    <3> QED BY <1>1, <1>m, <3>1, <3>2 DEF Builtin!InverseArcOf, m
  <2> QED BY <1>9, <2>1, <2>2
<1>10. CASE f \in {"acosh", "atanh", "acoth", "asech", "acsch"}
  <2>1. CASE f = "acosh"
    <3>1. Builtin!Outcome(f, x) = IF x < 2 THEN "nan" ELSE IF Builtin!IsInfinite(x) THEN "infinite" ELSE "finite"
      BY <1>1, <2>1 DEF Builtin!Outcome, Builtin!Logarithms, Builtin!Roots
    <3> QED BY <1>1, <1>2, <2>1, <3>1 DEF Builtin!RefusesHyperbolic, Builtin!Less
  <2>2. CASE f = "atanh"
    <3>1. Builtin!Outcome(f, x) = IF m = 2 THEN "infinite" ELSE Builtin!ArcOf(x)
      BY <1>1, <2>2 DEF Builtin!Outcome, Builtin!Logarithms, Builtin!Roots, m
    <3>2. m < 2
      BY <1>1, <1>2, <1>m, <2>2, <1>n DEF Builtin!RefusesHyperbolic, Builtin!Less, m
    <3> QED BY <1>1, <1>m, <3>1, <3>2 DEF Builtin!ArcOf, m
  <2>3. CASE f = "acoth"
    <3>1. Builtin!Outcome(f, x) = IF m = 2 THEN "infinite" ELSE Builtin!InverseArcOf(x)
      BY <1>1, <2>3 DEF Builtin!Outcome, Builtin!Logarithms, Builtin!Roots, m
    <3>2. m > 2
      BY <1>1, <1>2, <1>m, <2>3, <1>n DEF Builtin!RefusesHyperbolic, Builtin!AtMost, m
    <3> QED BY <1>1, <1>m, <3>1, <3>2 DEF Builtin!InverseArcOf, m
  <2>4. CASE f \in {"asech", "acsch"}
    BY <1>1, <1>2, <2>4 DEF Builtin!Outcome, Builtin!Logarithms, Builtin!Roots, Builtin!RefusesHyperbolic, Builtin!AtMost, Builtin!Is
  <2> QED BY <1>10, <2>1, <2>2, <2>3, <2>4
<1>11. CASE f = "Gamma"
  <2>1. Builtin!Outcome(f, x) = Builtin!GammaLanczos(x)
    BY <1>1, <1>11 DEF Builtin!Outcome, Builtin!Logarithms, Builtin!Roots
  <2>2. x # 0
    BY <1>1, <1>2, <1>11 DEF Builtin!RefusesSpecial, Builtin!GammaLanczos
  <2>3. Builtin!GammaLanczos(x) = "finite"
    BY <1>1, <1>11, <2>2, ModerateSeries
  <2> QED BY <2>1, <2>3
<1>12. CASE f = "factorial"
  <2>1. Builtin!Outcome(f, x) = Builtin!GammaLanczos(x + 2)
    BY <1>1, <1>12 DEF Builtin!Outcome, Builtin!Logarithms, Builtin!Roots
  <2>2. x >= 0
    BY <1>1, <1>2, <1>12 DEF Builtin!RefusesSpecial, Builtin!Less
  <2>3. ~Builtin!IsPole(x + 2)
    BY <2>2 DEF Builtin!IsPole
  <2>4. Builtin!GammaLanczos(x + 2) = "finite"
    BY <1>1, <2>2, <2>3, ModerateSeries
  <2> QED BY <2>1, <2>4
<1>13. CASE f = "lnGamma"
  <2>1. Builtin!Outcome(f, x) = IF Builtin!GammaLanczos(x) = "zero" THEN "infinite" ELSE Builtin!GammaLanczos(x)
    BY <1>1, <1>13 DEF Builtin!Outcome, Builtin!Logarithms, Builtin!Roots
  <2>2. Builtin!GammaLanczos(x) = "finite"
    BY <1>1, <1>13, ModerateSeries
  <2> QED BY <2>1, <2>2
<1>14. CASE f \in {"tanh", "sech", "erf", "erfc", "atan", "acot"}
  BY <1>1, <1>14 DEF Builtin!Outcome, Builtin!Logarithms, Builtin!Roots
<1> QED BY <1>3, <1>4, <1>5, <1>6, <1>7, <1>8, <1>9, <1>10, <1>11, <1>12, <1>13, <1>14
        DEF Builtin!Functions, Builtin!Roots, Builtin!AngleIn, Builtin!AngleOut, Builtin!Logarithms, Builtin!Plain

LEMMA OutcomesAre ==
  ASSUME Builtin!NumbersAssumption, NEW f, NEW x \in Int, NEW dims
  PROVE  /\ Builtin!CallFunction(f, dims, x) \in Builtin!Refusals <=> ~Builtin!DimensionsFit(f, dims) \/ Builtin!Refuses(f, x)
         /\ Builtin!CallFunction(f, dims, x) # "none"
         /\ Builtin!CallFunction(f, dims, x) \notin Builtin!Refusals => Builtin!CallFunction(f, dims, x) = Builtin!Outcome(f, x)
<1> DEFINE Kinds == {"finite", "infinite", "nan", "zero", "noise"}
<1>1. x # NotANumber /\ x + 2 \in Int /\ x + 2 # NotANumber
  BY DEF Builtin!NumbersAssumption
<1>2. \A y : Builtin!Series(y) \in Kinds
  BY DEF Builtin!Series
<1>3. ASSUME NEW y \in Int, y # NotANumber PROVE Builtin!GammaLanczos(y) \in Kinds
  <2>1. CASE Builtin!IsInfinite(y) /\ y < 0
    BY <1>3, <2>1 DEF Builtin!GammaLanczos
  <2>2. CASE ~(Builtin!IsInfinite(y) /\ y < 0) /\ y < 1
    BY <1>2, <1>3, <2>2 DEF Builtin!GammaLanczos
  <2>3. CASE y >= 1
    BY <1>2, <1>3, <2>3 DEF Builtin!GammaLanczos
  <2> QED BY <1>3, <2>1, <2>2, <2>3
<1>4. Builtin!GammaLanczos(x) \in Kinds /\ Builtin!GammaLanczos(x + 2) \in Kinds
  BY <1>1, <1>3
<1>5. Builtin!LogarithmOf(x) \in Kinds /\ Builtin!WaveOf(x) \in Kinds /\ Builtin!ArcOf(x) \in Kinds /\ Builtin!InverseArcOf(x) \in Kinds
  BY DEF Builtin!LogarithmOf, Builtin!WaveOf, Builtin!ArcOf, Builtin!InverseArcOf
<1>6. Builtin!Outcome(f, x) \in Kinds
  BY <1>1, <1>4, <1>5 DEF Builtin!Outcome
<1>7. Builtin!CallFunction(f, dims, x) = Builtin!Outcome(f, x) \/ Builtin!CallFunction(f, dims, x) \in Builtin!Refusals
  BY DEF Builtin!CallFunction, Builtin!Refusals
<1>8. Builtin!Outcome(f, x) \notin Builtin!Refusals /\ Builtin!Outcome(f, x) # "none" /\ "none" \notin Builtin!Refusals
  BY <1>6 DEF Builtin!Refusals
<1>9. ~Builtin!DimensionsFit(f, dims) \/ Builtin!Refuses(f, x) => Builtin!CallFunction(f, dims, x) \in Builtin!Refusals
  BY DEF Builtin!CallFunction, Builtin!Refusals
<1>10. Builtin!DimensionsFit(f, dims) /\ ~Builtin!Refuses(f, x) => Builtin!CallFunction(f, dims, x) = Builtin!Outcome(f, x)
  BY DEF Builtin!CallFunction
<1> QED BY <1>7, <1>8, <1>9, <1>10

LEMMA AcceptsValues ==
  ASSUME Builtin!NumbersAssumption, NEW f \in DOMAIN Builtin!Inverses, NEW x \in Numbers
  PROVE  ~Builtin!Refuses(f, x) <=> x \in Builtin!Takes(Builtin!Inverses[f])
<1>1. x \in Int /\ x # NotANumber
  BY DEF Builtin!NumbersAssumption
<1> DEFINE m == Builtin!Magnitude(x)
<1>m. m \in Int /\ m # NotANumber /\ (x < 0 => m = 0 - x) /\ (x >= 0 => m = x)
  BY <1>1 DEF Builtin!Magnitude, Builtin!NumbersAssumption
<1>2. DOMAIN Builtin!Inverses = {"asin", "acos", "atan", "asecant", "acsc", "acot", "asinh", "acosh", "atanh", "asech", "acsch", "acoth", "ln"}
  BY DEF Builtin!Inverses
<1> USE DEF Builtin!RefusesRoot, Builtin!RefusesLogarithm, Builtin!RefusesAngle, Builtin!RefusesArc, Builtin!RefusesHyperbolic, Builtin!RefusesSpecial, Builtin!Roots, Builtin!Logarithms
<1>3. CASE f \in {"asin", "acos"}
  <2>1. ~Builtin!Refuses(f, x) <=> m <= 2
    BY <1>1, <1>m, <1>3 DEF Builtin!Refuses, Builtin!Less, Builtin!AtMost, Builtin!Is, m
  <2>2. Builtin!Inverses[f] \in {"sin", "cos"}
    BY <1>3 DEF Builtin!Inverses
  <2>3. x \in Builtin!Takes(Builtin!Inverses[f]) <=> m <= 2
    BY <1>1, <1>m, <2>2 DEF Builtin!Takes, m
  <2> QED BY <2>1, <2>3
<1>4. CASE f \in {"asecant", "acsc"}
  <2>1. ~Builtin!Refuses(f, x) <=> m >= 2
    BY <1>1, <1>m, <1>4 DEF Builtin!Refuses, Builtin!Less, Builtin!AtMost, Builtin!Is, m
  <2>2. Builtin!Inverses[f] \in {"secant", "csc"}
    BY <1>4 DEF Builtin!Inverses
  <2>3. x \in Builtin!Takes(Builtin!Inverses[f]) <=> m >= 2
    BY <1>1, <1>m, <2>2 DEF Builtin!Takes, m
  <2> QED BY <2>1, <2>3
<1>5. CASE f \in {"atan", "acot", "asinh"}
  <2>1. ~Builtin!Refuses(f, x) <=> TRUE
    BY <1>1, <1>m, <1>5 DEF Builtin!Refuses, Builtin!Less, Builtin!AtMost, Builtin!Is, m
  <2>2. Builtin!Inverses[f] \in {"tan", "cot", "sinh"}
    BY <1>5 DEF Builtin!Inverses
  <2>3. x \in Builtin!Takes(Builtin!Inverses[f]) <=> TRUE
    BY <1>1, <1>m, <2>2 DEF Builtin!Takes, m
  <2> QED BY <2>1, <2>3
<1>6. CASE f \in {"acosh"}
  <2>1. ~Builtin!Refuses(f, x) <=> x >= 2
    BY <1>1, <1>m, <1>6 DEF Builtin!Refuses, Builtin!Less, Builtin!AtMost, Builtin!Is, m
  <2>2. Builtin!Inverses[f] \in {"cosh"}
    BY <1>6 DEF Builtin!Inverses
  <2>3. x \in Builtin!Takes(Builtin!Inverses[f]) <=> x >= 2
    BY <1>1, <1>m, <2>2 DEF Builtin!Takes, m
  <2> QED BY <2>1, <2>3
<1>7. CASE f \in {"atanh"}
  <2>1. ~Builtin!Refuses(f, x) <=> m < 2
    BY <1>1, <1>m, <1>7 DEF Builtin!Refuses, Builtin!Less, Builtin!AtMost, Builtin!Is, m
  <2>2. Builtin!Inverses[f] \in {"tanh"}
    BY <1>7 DEF Builtin!Inverses
  <2>3. x \in Builtin!Takes(Builtin!Inverses[f]) <=> m < 2
    BY <1>1, <1>m, <2>2 DEF Builtin!Takes, m
  <2> QED BY <2>1, <2>3
<1>8. CASE f \in {"acoth"}
  <2>1. ~Builtin!Refuses(f, x) <=> m > 2
    BY <1>1, <1>m, <1>8 DEF Builtin!Refuses, Builtin!Less, Builtin!AtMost, Builtin!Is, m
  <2>2. Builtin!Inverses[f] \in {"coth"}
    BY <1>8 DEF Builtin!Inverses
  <2>3. x \in Builtin!Takes(Builtin!Inverses[f]) <=> m > 2
    BY <1>1, <1>m, <2>2 DEF Builtin!Takes, m
  <2> QED BY <2>1, <2>3
<1>9. CASE f \in {"acsch"}
  <2>1. ~Builtin!Refuses(f, x) <=> x # 0
    BY <1>1, <1>m, <1>9 DEF Builtin!Refuses, Builtin!Less, Builtin!AtMost, Builtin!Is, m
  <2>2. Builtin!Inverses[f] \in {"csch"}
    BY <1>9 DEF Builtin!Inverses
  <2>3. x \in Builtin!Takes(Builtin!Inverses[f]) <=> x # 0
    BY <1>1, <1>m, <2>2 DEF Builtin!Takes, m
  <2> QED BY <2>1, <2>3
<1>10. CASE f \in {"asech"}
  <2>1. ~Builtin!Refuses(f, x) <=> 0 < x /\ x <= 2
    BY <1>1, <1>m, <1>10 DEF Builtin!Refuses, Builtin!Less, Builtin!AtMost, Builtin!Is, m
  <2>2. Builtin!Inverses[f] \in {"sech"}
    BY <1>10 DEF Builtin!Inverses
  <2>3. x \in Builtin!Takes(Builtin!Inverses[f]) <=> 0 < x /\ x <= 2
    BY <1>1, <1>m, <2>2 DEF Builtin!Takes, m
  <2> QED BY <2>1, <2>3
<1>11. CASE f \in {"ln"}
  <2>1. ~Builtin!Refuses(f, x) <=> x > 0
    BY <1>1, <1>m, <1>11 DEF Builtin!Refuses, Builtin!Less, Builtin!AtMost, Builtin!Is, m
  <2>2. Builtin!Inverses[f] \in {"exp"}
    BY <1>11 DEF Builtin!Inverses
  <2>3. x \in Builtin!Takes(Builtin!Inverses[f]) <=> x > 0
    BY <1>1, <1>m, <2>2 DEF Builtin!Takes, m
  <2> QED BY <2>1, <2>3
<1> QED BY <1>2, <1>3, <1>4, <1>5, <1>6, <1>7, <1>8, <1>9, <1>10, <1>11

\* What is asked is asked once: an answer is the one to the call.
BuiltinsInv ==
  /\ call \in [function : Builtin!Functions, dims : {"none", "angle", "square"}, x : Numbers \cup {NotANumber}]
  /\ result \in {"none", Builtin!CallFunction(call.function, call.dims, call.x)}

\* Of every moderate number that the checks of call_function let through the machine computes
\* a finite value that is not noise, with the poles of Gamma excepted, where Gamma and lnGamma
\* check too little; and the inverse of a function accepts its values and no others.
THEOREM BuiltinsAreDefined ==
  ASSUME Builtin!NumbersAssumption
  PROVE  Builtin!Spec => [](Builtin!AcceptedIsDefined /\ Builtin!InversesAcceptValues)
<1>1. Builtin!Init => BuiltinsInv
  BY DEF Builtin!Init, BuiltinsInv
<1>2. BuiltinsInv /\ [Builtin!Next]_Builtin!vars => BuiltinsInv'
  BY DEF BuiltinsInv, Builtin!Next, Builtin!Answer, Builtin!Done, Builtin!vars, Builtin!CallFunction, Builtin!DimensionsFit
<1>3. BuiltinsInv => Builtin!AcceptedIsDefined /\ Builtin!InversesAcceptValues
  <2> SUFFICES ASSUME BuiltinsInv PROVE Builtin!AcceptedIsDefined /\ Builtin!InversesAcceptValues
    OBVIOUS
  <2> DEFINE f == call.function
             x == call.x
             dims == call.dims
  <2>1. f \in Builtin!Functions /\ x \in Numbers \cup {NotANumber} /\ result \in {"none", Builtin!CallFunction(f, dims, x)}
    BY DEF BuiltinsInv
  <2> HIDE DEF f, x, dims
  <2>2. CASE x \notin Numbers
    BY <2>1, <2>2 DEF Builtin!AcceptedIsDefined, Builtin!InversesAcceptValues, x
  <2>3. CASE x \in Numbers
    <3>1. x \in Int
      BY <2>3 DEF Builtin!NumbersAssumption
    <3>2. /\ Builtin!CallFunction(f, dims, x) \in Builtin!Refusals <=> ~Builtin!DimensionsFit(f, dims) \/ Builtin!Refuses(f, x)
          /\ Builtin!CallFunction(f, dims, x) # "none"
          /\ Builtin!CallFunction(f, dims, x) \notin Builtin!Refusals => Builtin!CallFunction(f, dims, x) = Builtin!Outcome(f, x)
      BY <3>1, OutcomesAre
    <3>3. Builtin!AcceptedIsDefined
      <4> SUFFICES ASSUME Builtin!Magnitude(x) <= 280, ~(f = "Gamma" /\ Builtin!IsPole(x) /\ x # 0),
                          ~(f = "lnGamma" /\ Builtin!IsPole(x)), result = Builtin!CallFunction(f, dims, x)
                   PROVE  result \notin {"infinite", "nan", "noise"}
        BY <2>1 DEF Builtin!AcceptedIsDefined, f, x
      <4>1. CASE result \in Builtin!Refusals
        BY <4>1 DEF Builtin!Refusals
      <4>2. CASE result \notin Builtin!Refusals
        BY <2>1, <3>1, <3>2, <4>2, AcceptedOutcome
      <4> QED BY <4>1, <4>2
    <3>4. Builtin!InversesAcceptValues
      <4> SUFFICES ASSUME result = Builtin!CallFunction(f, dims, x), f \in DOMAIN Builtin!Inverses, dims = "none"
                   PROVE  result \notin Builtin!Refusals <=> x \in Builtin!Takes(Builtin!Inverses[f])
        BY <2>1 DEF Builtin!InversesAcceptValues, f, x, dims
      <4>1. Builtin!DimensionsFit(f, dims)
        BY DEF Builtin!DimensionsFit
      <4>2. ~Builtin!Refuses(f, x) <=> x \in Builtin!Takes(Builtin!Inverses[f])
        BY <2>3, AcceptsValues
      <4> QED BY <3>2, <4>1, <4>2
    <3> QED BY <3>3, <3>4
  <2> QED BY <2>2, <2>3
<1> QED BY <1>1, <1>2, <1>3, PTL DEF Builtin!Spec
=============================================================================
