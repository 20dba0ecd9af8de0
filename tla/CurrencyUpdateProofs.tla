------------------------ MODULE CurrencyUpdateProofs -------------------------
(***************************************************************************)
(* Proofs about CurrencyUpdate for any templates, bases, answers of the    *)
(* providers and numbers of updates: a rate that was fetched counts after  *)
(* the reload, definitions of currencies never close a circle, and after   *)
(* an update with all rates every currency converts into every other one.  *)
(***************************************************************************)
EXTENDS CurrencyUpdate, NaturalOrder, SequenceTheorems

\* What is written for template t, rates r and base b, apart from the state.
Indices(t) == DOMAIN t.codes
CodeAt(t, i) == t.codes[i][1]
UnitAt(t, i) == t.codes[i][2]
KnowsBase(t, b) == \E i \in Indices(t) : CodeAt(t, i) = b
BaseIndex(t, b) == CHOOSE i \in Indices(t) : CodeAt(t, i) = b /\ \A j \in 1 .. i - 1 : CodeAt(t, j) # b
UnitOfBase(t, b) == UnitAt(t, BaseIndex(t, b))
Covers(t, r, b, i) == CodeAt(t, i) = b \/ CodeAt(t, i) \in DOMAIN r \/ UnitAt(t, i) \in DOMAIN t.existing
DefinitionAt(t, r, b, i) ==
  IF CodeAt(t, i) = b THEN Primitive
  ELSE IF CodeAt(t, i) \in DOMAIN r THEN [by |-> r[CodeAt(t, i)], unit |-> UnitOfBase(t, b)]
  ELSE t.existing[UnitAt(t, i)]
Entry(t, r, b, i) == [name |-> UnitAt(t, i), def |-> DefinitionAt(t, r, b, i)]

\* The output o has a line for every pair that is covered, and no others.
Written(o, t, r, b) ==
  /\ o \in Seq([name : UnitName, def : Definition])
  /\ \A k \in DOMAIN o : \E i \in Indices(t) : Covers(t, r, b, i) /\ o[k] = Entry(t, r, b, i)
  /\ \A i \in Indices(t) : Covers(t, r, b, i) => \E k \in DOMAIN o : o[k] = Entry(t, r, b, i)

RatesType(r) == \A c \in DOMAIN r : r[c] \in 0 .. MaxUpdates

-----------------------------------------------------------------------------
\* build_currency_template.

LEMMA PairFields ==
  ASSUME CurrencyAssumption, NEW t \in Templates
  PROVE  /\ Len(t.codes) \in Nat /\ Indices(t) = 1 .. Len(t.codes)
         /\ \A i \in Indices(t) : UnitAt(t, i) \in UnitName
<1>1. t.codes \in Seq(Code \X UnitName)
  BY DEF CurrencyAssumption
<1>2. Len(t.codes) \in Nat /\ DOMAIN t.codes = 1 .. Len(t.codes)
  BY <1>1
<1>3. ASSUME NEW i \in Indices(t) PROVE UnitAt(t, i) \in UnitName
  <2>1. t.codes[i] \in Code \X UnitName
    BY <1>1, <1>2, ElementOfSeq DEF Indices
  <2> QED BY <2>1 DEF UnitAt
<1> QED BY <1>2, <1>3 DEF Indices

\* find: the first pair with the code of the base.
LEMMA FirstPair ==
  ASSUME CurrencyAssumption, NEW t \in Templates, NEW b, KnowsBase(t, b)
  PROVE  BaseIndex(t, b) \in Indices(t) /\ CodeAt(t, BaseIndex(t, b)) = b
<1> DEFINE found == {i \in Indices(t) : CodeAt(t, i) = b}
<1>1. found # {} /\ found \in SUBSET Nat
  BY PairFields DEF KnowsBase
<1> HIDE DEF found
<1>2. PICK i \in found : \A j \in found : i <= j
  BY <1>1, LeastNatural
<1>3. i \in Indices(t) /\ CodeAt(t, i) = b
  BY <1>2 DEF found
<1>4. ASSUME NEW j \in 1 .. i - 1 PROVE CodeAt(t, j) # b
  <2>1. j \in Indices(t) /\ j \in Int /\ i \in Int /\ ~ (i <= j)
    BY <1>3, PairFields
  <2>2. j \notin found
    BY <1>2, <2>1
  <2> QED BY <2>1, <2>2 DEF found
<1> QED BY <1>3, <1>4 DEF BaseIndex

LEMMA EntryType ==
  ASSUME CurrencyAssumption, NEW t \in Templates, NEW r, RatesType(r), NEW b, KnowsBase(t, b),
         NEW i \in Indices(t), Covers(t, r, b, i)
  PROVE  Entry(t, r, b, i) \in [name : UnitName, def : Definition]
<1>1. UnitAt(t, i) \in UnitName /\ UnitOfBase(t, b) \in UnitName
  BY PairFields, FirstPair DEF UnitOfBase
<1>2. DefinitionAt(t, r, b, i) \in Definition
  <2>1. CASE CodeAt(t, i) = b
    BY <2>1 DEF DefinitionAt, Definition
  <2>2. CASE CodeAt(t, i) # b /\ CodeAt(t, i) \in DOMAIN r
    <3>1. r[CodeAt(t, i)] \in 0 .. MaxUpdates
      BY <2>2 DEF RatesType
    <3> QED BY <1>1, <2>2, <3>1 DEF DefinitionAt, Definition
  <2>3. CASE CodeAt(t, i) # b /\ CodeAt(t, i) \notin DOMAIN r
    BY <2>3 DEF DefinitionAt, Covers, CurrencyAssumption
  <2> QED BY <2>1, <2>2, <2>3
<1> QED BY <1>1, <1>2 DEF Entry

LEMMA LineIs ==
  ASSUME NEW i
  PROVE  LineOf(Pairs[i][1], Pairs[i][2]) =
           IF Covers(template, rates, Base, i) THEN <<Entry(template, rates, Base, i)>> ELSE <<>>
<1>1. BaseUnit = UnitOfBase(template, Base)
  BY DEF BaseUnit, UnitOfBase, UnitAt, BaseIndex, Indices, CodeAt, Pairs
<1> QED BY <1>1 DEF LineOf, Covers, Entry, DefinitionAt, CodeAt, UnitAt, Pairs

\* The lines of the first pairs, one pair more at a time.
LEMMA LinesGrow ==
  ASSUME CurrencyAssumption, template \in Templates, RatesType(rates), KnowsBase(template, Base)
  PROVE  /\ LinesUpTo[0] = <<>>
         /\ \A n \in 1 .. Len(Pairs) : LinesUpTo[n] = LinesUpTo[n - 1] \o LineOf(Pairs[n][1], Pairs[n][2])
<1> DEFINE N == Len(Pairs)
           L == [name : UnitName, def : Definition]
           S == Seq(L)
           line(n) == IF n \in 1 .. N THEN LineOf(Pairs[n][1], Pairs[n][2]) ELSE <<>>
           next == [p \in Nat \X S |-> p[2] \o line(p[1])]
           Solution(f) == f = [i \in 0 .. N |-> IF i = 0 THEN <<>> ELSE f[i - 1] \o LineOf(Pairs[i][1], Pairs[i][2])]
<1>1. N \in Nat /\ \A n \in 1 .. N : n \in Indices(template)
  BY PairFields DEF Pairs
<1>2. ASSUME NEW n \in Nat PROVE line(n) \in S
  <2>1. CASE n \in 1 .. N /\ Covers(template, rates, Base, n)
    <3>1. Entry(template, rates, Base, n) \in L
      BY <1>1, <2>1, EntryType
    <3>2. <<Entry(template, rates, Base, n)>> \in S
      BY <3>1
    <3> QED BY <2>1, <3>2, LineIs
  <2>2. CASE n \in 1 .. N /\ ~ Covers(template, rates, Base, n)
    <3>1. line(n) = <<>>
      BY <2>2, LineIs
    <3> QED BY <3>1, EmptySeq
  <2>3. CASE n \notin 1 .. N
    <3>1. line(n) = <<>>
      BY <2>3
    <3> QED BY <3>1, EmptySeq
  <2> QED BY <2>1, <2>2, <2>3
<1>3. next \in [Nat \X S -> S] /\ <<>> \in S
  <2> HIDE DEF line, L
  <2>1. \A n \in Nat, s \in S : s \o line(n) \in S
    BY <1>2, ConcatProperties
  <2> QED BY <2>1
<1>4. PICK f : Recursion(f, S, <<>>, next)
  <2> HIDE DEF next, S
  <2> QED BY <1>3, RecursiveFunction
<1>5. f \in [Nat -> S] /\ f[0] = <<>> /\ \A n \in Nat : f[n + 1] = f[n] \o line(n + 1)
  <2>1. f \in [Nat -> S] /\ f[0] = <<>> /\ \A n \in Nat : f[n + 1] = next[<<n + 1, f[n]>>]
    BY <1>4 DEF Recursion
  <2> HIDE DEF line, S
  <2>2. ASSUME NEW n \in Nat PROVE next[<<n + 1, f[n]>>] = f[n] \o line(n + 1)
    <3>1. n + 1 \in Nat /\ f[n] \in S
      BY <2>1
    <3>2. <<n + 1, f[n]>> \in Nat \X S
      BY <3>1
    <3> QED BY <3>2
  <2> QED BY <2>1, <2>2
<1> DEFINE g == [i \in 0 .. N |-> f[i]]
<1>6. Solution(g)
  <2>1. ASSUME NEW i \in 0 .. N
        PROVE  g[i] = IF i = 0 THEN <<>> ELSE g[i - 1] \o LineOf(Pairs[i][1], Pairs[i][2])
    <3>1. CASE i = 0
      BY <1>5, <3>1
    <3>2. CASE i # 0
      <4>1. i - 1 \in Nat /\ i - 1 \in 0 .. N /\ (i - 1) + 1 = i /\ i \in 1 .. N
        BY <1>1, <3>2
      <4>2. f[i] = f[i - 1] \o line(i)
        BY <1>5, <4>1
      <4>3. line(i) = LineOf(Pairs[i][1], Pairs[i][2])
        BY <4>1
      <4> HIDE DEF line
      <4> QED BY <3>2, <4>1, <4>2, <4>3
    <3> QED BY <3>1, <3>2
  <2> HIDE DEF N
  <2> QED BY <2>1
<1>7. LinesUpTo = CHOOSE h : Solution(h)
  BY DEF LinesUpTo
<1>8. Solution(LinesUpTo)
  <2> HIDE DEF Solution, g
  <2> QED BY <1>6, <1>7
<1>9. LinesUpTo[0] = <<>>
  <2>1. 0 \in 0 .. N
    BY <1>1
  <2> HIDE DEF N
  <2> QED BY <1>8, <2>1
<1>10. ASSUME NEW n \in 1 .. N
       PROVE  LinesUpTo[n] = LinesUpTo[n - 1] \o LineOf(Pairs[n][1], Pairs[n][2])
  <2>1. n \in 0 .. N /\ n # 0
    BY <1>1
  <2> HIDE DEF N
  <2> QED BY <1>8, <2>1
<1> QED BY <1>9, <1>10

\* The lines that are written are those of the pairs that are covered.
LEMMA LinesAreWritten ==
  ASSUME CurrencyAssumption, template \in Templates, RatesType(rates), KnowsBase(template, Base)
  PROVE  Written(Lines, template, rates, Base)
<1> DEFINE t == template
           r == rates
           b == Base
           N == Len(Pairs)
           L == [name : UnitName, def : Definition]
           Good(o, n) == /\ o \in Seq(L)
                         /\ \A k \in DOMAIN o : \E i \in Indices(t) : Covers(t, r, b, i) /\ o[k] = Entry(t, r, b, i)
                         /\ \A i \in 1 .. n : Covers(t, r, b, i) => \E k \in DOMAIN o : o[k] = Entry(t, r, b, i)
           good == {n \in Nat : n <= N => Good(LinesUpTo[n], n)}
<1>1. N \in Nat /\ Indices(t) = 1 .. N
  BY PairFields DEF Pairs
<1>2. 0 \in good
  <2>1. Good(<<>>, 0)
    OBVIOUS
  <2> HIDE DEF Good
  <2> QED BY <2>1, LinesGrow
<1>3. ASSUME NEW n \in good PROVE n + 1 \in good
  <2>1. SUFFICES ASSUME n + 1 <= N PROVE Good(LinesUpTo[n + 1], n + 1)
    BY DEF Good
  <2> DEFINE o == LinesUpTo[n]
             p == LinesUpTo[n + 1]
             line == LineOf(Pairs[n + 1][1], Pairs[n + 1][2])
  <2>2. n \in Nat /\ n + 1 \in 1 .. N /\ (n + 1) - 1 = n /\ n <= N
    BY <1>1, <2>1
  <2>3. Good(o, n)
    BY <2>2
  <2>4. p = o \o line
    BY <2>2, LinesGrow
  <2>5. line = IF Covers(t, r, b, n + 1) THEN <<Entry(t, r, b, n + 1)>> ELSE <<>>
    BY LineIs
  <2> HIDE DEF o, p, line, N
  <2>6. CASE ~ Covers(t, r, b, n + 1)
    <3>1. p = o
      BY <2>3, <2>4, <2>5, <2>6, ConcatEmptySeq
    <3>2. \A i \in 1 .. n + 1 : i \in 1 .. n \/ i = n + 1
      BY <2>2
    <3> QED BY <2>3, <2>6, <3>1, <3>2 DEF p
  <2>7. CASE Covers(t, r, b, n + 1)
    <3> DEFINE e == Entry(t, r, b, n + 1)
    <3>1. e \in L
      BY <1>1, <2>2, <2>7, EntryType
    <3>2. o \in Seq(L)
      BY <2>3
    <3>3. p = Append(o, e)
      <4> HIDE DEF e, L
      <4> QED BY <2>4, <2>5, <2>7, <3>1, <3>2, AppendIsConcat DEF e
    <3> HIDE DEF e
    <3>4. /\ p \in Seq(L) /\ DOMAIN p = 1 .. Len(o) + 1 /\ DOMAIN o = 1 .. Len(o) /\ Len(o) \in Nat
          /\ \A i \in 1 .. Len(o) : p[i] = o[i]
          /\ p[Len(o) + 1] = e
      <4> HIDE DEF L
      <4> QED BY <3>1, <3>2, <3>3, AppendProperties
    <3>5. ASSUME NEW k \in DOMAIN p
          PROVE  \E i \in Indices(t) : Covers(t, r, b, i) /\ p[k] = Entry(t, r, b, i)
      <4>1. CASE k \in DOMAIN o
        BY <2>3, <3>4, <4>1
      <4>2. CASE k = Len(o) + 1
        BY <1>1, <2>2, <2>7, <3>4, <4>2 DEF e
      <4> QED BY <3>4, <4>1, <4>2
    <3>6. ASSUME NEW i \in 1 .. n + 1, Covers(t, r, b, i)
          PROVE  \E k \in DOMAIN p : p[k] = Entry(t, r, b, i)
      <4>1. CASE i \in 1 .. n
        <5>1. PICK k \in DOMAIN o : o[k] = Entry(t, r, b, i)
          BY <2>3, <3>6, <4>1
        <5> QED BY <3>4, <5>1
      <4>2. CASE i = n + 1
        BY <3>4, <4>2 DEF e
      <4> QED BY <2>2, <4>1, <4>2
    <3> QED BY <3>4, <3>5, <3>6 DEF p
  <2> QED BY <2>6, <2>7
<1>4. N \in good
  <2> HIDE DEF good, N
  <2>1. good \in SUBSET Nat
    BY DEF good
  <2> QED BY <1>1, <1>2, <1>3, <2>1, NaturalInduction
<1>5. Good(Lines, N)
  BY <1>1, <1>4 DEF Lines
<1> QED BY <1>1, <1>5 DEF Written

-----------------------------------------------------------------------------
\* Where definitions lead to.

Database == database \in [UnitName -> Definition \cup {Absent}]

LEMMA OnwardType ==
  ASSUME CurrencyAssumption, Database, NEW u \in UnitName
  PROVE  Onward(u) \in UnitName
<1>1. CASE database[u] \in {Primitive, Absent}
  BY <1>1 DEF Onward
<1>2. CASE database[u] \notin {Primitive, Absent}
  <2>1. database[u] \in [by : 0 .. MaxUpdates, unit : UnitName]
    BY <1>2 DEF Database, Definition
  <2> QED BY <1>2, <2>1 DEF Onward
<1> QED BY <1>1, <1>2

LEMMA PathSteps ==
  ASSUME CurrencyAssumption, Database, NEW u \in UnitName
  PROVE  /\ Cardinality(UnitName) \in Nat
         /\ Path(u)[0] = u
         /\ \A n \in 1 .. Cardinality(UnitName) : Path(u)[n] = Onward(Path(u)[n - 1])
         /\ \A n \in 0 .. Cardinality(UnitName) : Path(u)[n] \in UnitName
<1> DEFINE N == Cardinality(UnitName)
           next == [p \in Nat \X UnitName |-> Onward(p[2])]
           Solution(f) == f = [n \in 0 .. N |-> IF n = 0 THEN u ELSE Onward(f[n - 1])]
<1>1. N \in Nat
  BY FS_CardinalityType DEF CurrencyAssumption
<1>2. next \in [Nat \X UnitName -> UnitName]
  BY OnwardType
<1>3. PICK f : Recursion(f, UnitName, u, next)
  <2> HIDE DEF next
  <2> QED BY <1>2, RecursiveFunction
<1>4. f \in [Nat -> UnitName] /\ f[0] = u /\ \A n \in Nat : f[n + 1] = Onward(f[n])
  <2>1. f \in [Nat -> UnitName] /\ f[0] = u /\ \A n \in Nat : f[n + 1] = next[<<n + 1, f[n]>>]
    BY <1>3 DEF Recursion
  <2>2. ASSUME NEW n \in Nat PROVE next[<<n + 1, f[n]>>] = Onward(f[n])
    <3>1. <<n + 1, f[n]>> \in Nat \X UnitName
      BY <2>1
    <3> QED BY <3>1
  <2> QED BY <2>1, <2>2
<1> DEFINE g == [n \in 0 .. N |-> f[n]]
<1>5. Solution(g)
  <2>1. ASSUME NEW n \in 0 .. N PROVE g[n] = IF n = 0 THEN u ELSE Onward(g[n - 1])
    <3>1. CASE n = 0
      BY <1>4, <3>1
    <3>2. CASE n # 0
      <4>1. n - 1 \in Nat /\ n - 1 \in 0 .. N /\ (n - 1) + 1 = n
        BY <1>1, <3>2
      <4>2. f[n] = Onward(f[n - 1])
        BY <1>4, <4>1
      <4> QED BY <3>2, <4>1, <4>2
    <3> QED BY <3>1, <3>2
  <2> HIDE DEF N
  <2> QED BY <2>1
<1>6. Path(u) = CHOOSE h : Solution(h)
  BY DEF Path
<1>7. Solution(Path(u))
  <2> HIDE DEF Solution, g
  <2> QED BY <1>5, <1>6
<1> HIDE DEF N
<1>8. Path(u)[0] = u
  <2>1. 0 \in 0 .. N
    BY <1>1
  <2> QED BY <1>7, <2>1
<1>9. ASSUME NEW n \in 1 .. N PROVE Path(u)[n] = Onward(Path(u)[n - 1])
  <2>1. n \in 0 .. N /\ n # 0
    BY <1>1
  <2> QED BY <1>7, <2>1
<1> DEFINE named == {n \in Nat : n <= N => Path(u)[n] \in UnitName}
<1>10. 0 \in named
  BY <1>8
<1>11. ASSUME NEW n \in named PROVE n + 1 \in named
  <2>1. ASSUME n + 1 <= N PROVE Path(u)[n + 1] \in UnitName
    <3>1. n + 1 \in 1 .. N /\ (n + 1) - 1 = n /\ n <= N
      BY <1>1, <2>1
    <3>2. Path(u)[n] \in UnitName /\ Path(u)[n + 1] = Onward(Path(u)[n])
      BY <1>9, <3>1
    <3> QED BY <3>2, OnwardType
  <2> QED BY <2>1
<1>12. named = Nat
  <2>1. named \in SUBSET Nat
    OBVIOUS
  <2> HIDE DEF named
  <2> QED BY <1>10, <1>11, <2>1, NaturalInduction
<1>13. \A n \in 0 .. N : Path(u)[n] \in UnitName
  BY <1>1, <1>12
<1> QED BY <1>1, <1>8, <1>9, <1>13 DEF N

\* Every definition by a rate leads to a unit that is defined and of smaller rank.
Ranks(db, rank) ==
  /\ rank \in [UnitName -> Nat]
  /\ \A u \in UnitName : db[u] \notin {Primitive, Absent} =>
       db[u].unit \in UnitName /\ db[db[u].unit] # Absent /\ rank[db[u].unit] < rank[u]

\* Where ranks go down there are not more steps than units.
LEMMA RanksEnd ==
  ASSUME CurrencyAssumption, Database, NEW rank, Ranks(database, rank)
  PROVE  DefinitionsEnd
<1> DEFINE N == Cardinality(UnitName)
<1> SUFFICES ASSUME NEW u \in UnitName, database[u] # Absent, database[Reached(u)] # Primitive
             PROVE  FALSE
  BY DEF DefinitionsEnd
<1> DEFINE p == Path(u)
<1>1. /\ N \in Nat /\ p[0] = u
      /\ \A n \in 1 .. N : p[n] = Onward(p[n - 1])
      /\ \A n \in 0 .. N : p[n] \in UnitName
  BY PathSteps
<1>2. database[p[N]] # Primitive
  BY DEF Reached
<1> HIDE DEF N, p
<1>3. ASSUME NEW n \in Nat, n + 1 <= N PROVE p[n + 1] = Onward(p[n]) /\ p[n] \in UnitName
  <2>1. n + 1 \in 1 .. N /\ (n + 1) - 1 = n /\ n \in 0 .. N
    BY <1>1, <1>3
  <2> QED BY <1>1, <2>1
<1> DEFINE defined == {n \in Nat : n <= N => database[p[n]] # Absent}
<1>4. defined = Nat
  <2>1. 0 \in defined
    BY <1>1
  <2>2. ASSUME NEW n \in defined PROVE n + 1 \in defined
    <3>1. ASSUME n + 1 <= N PROVE database[p[n + 1]] # Absent
      <4>1. n <= N /\ database[p[n]] # Absent
        BY <1>1, <3>1
      <4>2. p[n + 1] = Onward(p[n]) /\ p[n] \in UnitName
        BY <1>3, <3>1
      <4> QED BY <4>1, <4>2 DEF Onward, Ranks
    <3> QED BY <3>1
  <2>3. defined \in SUBSET Nat
    OBVIOUS
  <2> HIDE DEF defined
  <2> QED BY <2>1, <2>2, <2>3, NaturalInduction
<1> DEFINE short == {n \in Nat : n <= N => database[p[N - n]] # Primitive}
<1>5. short = Nat
  <2>1. 0 \in short
    BY <1>1, <1>2
  <2>2. ASSUME NEW n \in short PROVE n + 1 \in short
    <3>1. ASSUME n + 1 <= N PROVE database[p[N - (n + 1)]] # Primitive
      <4> DEFINE m == N - (n + 1)
      <4>1. m \in Nat /\ m + 1 = N - n /\ m + 1 <= N /\ n <= N
        BY <1>1, <3>1
      <4>2. database[p[m + 1]] # Primitive
        BY <4>1
      <4> HIDE DEF m
      <4>3. p[m + 1] = Onward(p[m])
        BY <1>3, <4>1
      <4>4. database[p[m]] # Primitive
        BY <4>2, <4>3 DEF Onward
      <4> QED BY <4>4 DEF m
    <3> QED BY <3>1
  <2>3. short \in SUBSET Nat
    OBVIOUS
  <2> HIDE DEF short
  <2> QED BY <2>1, <2>2, <2>3, NaturalInduction
<1>6. ASSUME NEW n \in Nat, n <= N PROVE database[p[n]] \notin {Primitive, Absent}
  <2>1. N - n \in Nat /\ N - n <= N /\ N - (N - n) = n
    BY <1>1, <1>6
  <2>2. N - n \in short /\ n \in defined
    BY <1>4, <1>5, <2>1
  <2>3. database[p[N - (N - n)]] # Primitive /\ database[p[n]] # Absent
    BY <1>6, <2>1, <2>2
  <2> QED BY <2>1, <2>3
<1> DEFINE down == {n \in Nat : n <= N => \A i \in 0 .. n - 1 : rank[p[n]] < rank[p[i]]}
<1>7. down = Nat
  <2>1. 0 \in down
    OBVIOUS
  <2>2. ASSUME NEW n \in down PROVE n + 1 \in down
    <3>1. ASSUME n + 1 <= N, NEW i \in 0 .. n PROVE rank[p[n + 1]] < rank[p[i]]
      <4>1. n <= N /\ i \in 0 .. N /\ n \in Nat /\ n \in 0 .. N /\ n + 1 \in 0 .. N
        BY <1>1, <3>1
      <4>2. p[n + 1] = Onward(p[n]) /\ p[n] \in UnitName
        BY <1>3, <3>1
      <4>3. database[p[n]] \notin {Primitive, Absent}
        BY <1>6, <4>1
      <4>4. rank[p[n + 1]] < rank[p[n]]
        BY <4>2, <4>3 DEF Onward, Ranks
      <4>5. i = n \/ rank[p[n]] < rank[p[i]]
        BY <4>1
      <4>6. rank[p[i]] \in Nat /\ rank[p[n]] \in Nat /\ rank[p[n + 1]] \in Nat
        BY <1>1, <4>1 DEF Ranks
      <4> QED BY <4>4, <4>5, <4>6
    <3> QED BY <3>1
  <2>3. down \in SUBSET Nat
    OBVIOUS
  <2> HIDE DEF down
  <2> QED BY <2>1, <2>2, <2>3, NaturalInduction
<1>8. ASSUME NEW i \in 0 .. N, NEW j \in 0 .. N, p[i] = p[j] PROVE i = j
  <2>1. rank[p[i]] \in Nat /\ rank[p[j]] \in Nat /\ i \in Nat /\ j \in Nat /\ i <= N /\ j <= N
    BY <1>1 DEF Ranks
  <2>2. i \in down /\ j \in down
    BY <1>7, <2>1
  <2>3. (i < j => rank[p[j]] < rank[p[i]]) /\ (j < i => rank[p[i]] < rank[p[j]])
    BY <2>1, <2>2
  <2>4. ~ (i < j) /\ ~ (j < i)
    BY <1>8, <2>1, <2>3
  <2> QED BY <2>1, <2>4
<1> DEFINE on == {p[i] : i \in 0 .. N}
<1>9. IsFiniteSet(on) /\ Cardinality(on) = N + 1
  <2> HIDE DEF down, short, defined
  <2> QED BY <1>1, <1>8, DistinctValues
<1>10. on \subseteq UnitName
  BY <1>1
<1>11. Cardinality(on) <= N
  <2> HIDE DEF on
  <2> QED BY <1>10, FS_Subset DEF N, CurrencyAssumption
<1> QED
  <2> HIDE DEF on
  <2> QED BY <1>1, <1>9, <1>11

-----------------------------------------------------------------------------
\* reload_currency of what was written.

Loads(o, db, new) ==
  new = [u \in UnitName |->
          LET of == {k \in DOMAIN o : o[k].name = u}
          IN  IF of = {} THEN db[u] ELSE o[CHOOSE k \in of : \A j \in of : j <= k].def]

\* Every unit with a line gets the definition of it, all others keep theirs.
LEMMA LoadsWritten ==
  ASSUME CurrencyAssumption, NamesUnitsOnce, NEW t \in Templates, NEW r, NEW b, NEW o,
         Written(o, t, r, b), NEW db, NEW new, Loads(o, db, new)
  PROVE  /\ \A i \in Indices(t) : Covers(t, r, b, i) => new[UnitAt(t, i)] = DefinitionAt(t, r, b, i)
         /\ \A u \in UnitName :
              (\A i \in Indices(t) : Covers(t, r, b, i) => UnitAt(t, i) # u) => new[u] = db[u]
<1> DEFINE of(u) == {k \in DOMAIN o : o[k].name = u}
<1>1. Len(o) \in Nat /\ DOMAIN o = 1 .. Len(o)
  BY DEF Written
<1>2. \A u \in UnitName :
        new[u] = IF of(u) = {} THEN db[u] ELSE o[CHOOSE k \in of(u) : \A j \in of(u) : j <= k].def
  BY DEF Loads
<1>3. ASSUME NEW i \in Indices(t), Covers(t, r, b, i)
      PROVE  new[UnitAt(t, i)] = DefinitionAt(t, r, b, i)
  <2> DEFINE u == UnitAt(t, i)
             last == CHOOSE k \in of(u) : \A j \in of(u) : j <= k
  <2>1. PICK k \in DOMAIN o : o[k] = Entry(t, r, b, i)
    BY <1>3 DEF Written
  <2>2. k \in of(u)
    BY <2>1 DEF Entry
  <2>3. of(u) \in SUBSET (1 .. Len(o)) /\ of(u) # {}
    BY <1>1, <2>2
  <2>4. \E m \in of(u) : \A j \in of(u) : j <= m
    <3> HIDE DEF of, u
    <3> QED BY <1>1, <2>3, GreatestIndex
  <2>5. last \in of(u)
    <3> HIDE DEF of, u
    <3> QED BY <2>4
  <2>6. last \in DOMAIN o /\ o[last].name = u
    <3> HIDE DEF last
    <3> QED BY <2>5
  <2>7. PICK m \in Indices(t) : Covers(t, r, b, m) /\ o[last] = Entry(t, r, b, m)
    <3> HIDE DEF last
    <3> QED BY <2>6 DEF Written
  <2>8. UnitAt(t, m) = UnitAt(t, i)
    <3> HIDE DEF last
    <3> QED BY <2>6, <2>7 DEF Entry
  <2>9. m = i
    BY <2>8 DEF NamesUnitsOnce, Indices, UnitAt
  <2>10. o[last].def = DefinitionAt(t, r, b, i)
    <3> HIDE DEF last
    <3> QED BY <2>7, <2>9 DEF Entry
  <2>11. u \in UnitName
    BY PairFields
  <2>12. new[u] = o[last].def
    <3> HIDE DEF of, u
    <3> QED BY <1>2, <2>3, <2>11
  <2> QED BY <2>10, <2>12
<1>4. ASSUME NEW u \in UnitName, \A i \in Indices(t) : Covers(t, r, b, i) => UnitAt(t, i) # u
      PROVE  new[u] = db[u]
  <2>1. ASSUME NEW k \in of(u) PROVE FALSE
    <3>1. k \in DOMAIN o /\ o[k].name = u
      OBVIOUS
    <3>2. PICK i \in Indices(t) : Covers(t, r, b, i) /\ o[k] = Entry(t, r, b, i)
      BY <3>1 DEF Written
    <3>3. UnitAt(t, i) = u
      BY <3>1, <3>2 DEF Entry
    <3> QED BY <1>4, <3>2, <3>3
  <2>2. of(u) = {}
    BY <2>1
  <2> HIDE DEF of
  <2> QED BY <1>2, <2>2
<1> QED BY <1>3, <1>4

\* The new database is one again.
LEMMA LoadsType ==
  ASSUME CurrencyAssumption, NamesUnitsOnce, NEW t \in Templates, NEW r, RatesType(r), NEW b, KnowsBase(t, b),
         NEW o, Written(o, t, r, b),
         NEW db \in [UnitName -> Definition \cup {Absent}], NEW new, Loads(o, db, new)
  PROVE  new \in [UnitName -> Definition \cup {Absent}]
<1>1. ASSUME NEW u \in UnitName PROVE new[u] \in Definition \cup {Absent}
  <2>1. CASE \E i \in Indices(t) : Covers(t, r, b, i) /\ UnitAt(t, i) = u
    <3>1. PICK i \in Indices(t) : Covers(t, r, b, i) /\ UnitAt(t, i) = u
      BY <2>1
    <3>2. new[u] = DefinitionAt(t, r, b, i)
      BY <3>1, LoadsWritten
    <3>3. Entry(t, r, b, i) \in [name : UnitName, def : Definition]
      BY <3>1, EntryType
    <3> QED BY <3>2, <3>3 DEF Entry
  <2>2. CASE \A i \in Indices(t) : Covers(t, r, b, i) => UnitAt(t, i) # u
    <3>1. new[u] = db[u]
      BY <2>2, LoadsWritten
    <3> QED BY <3>1
  <2> QED BY <2>1, <2>2
<1>2. new = [u \in UnitName |-> new[u]]
  BY DEF Loads
<1> QED BY <1>1, <1>2

\* The base is primitive afterwards.
LEMMA LoadsBase ==
  ASSUME CurrencyAssumption, NamesUnitsOnce, NEW t \in Templates, NEW r, NEW b, KnowsBase(t, b),
         NEW o, Written(o, t, r, b), NEW db, NEW new, Loads(o, db, new)
  PROVE  UnitOfBase(t, b) \in UnitName /\ new[UnitOfBase(t, b)] = Primitive
<1>1. BaseIndex(t, b) \in Indices(t) /\ CodeAt(t, BaseIndex(t, b)) = b
  BY FirstPair
<1>2. Covers(t, r, b, BaseIndex(t, b)) /\ DefinitionAt(t, r, b, BaseIndex(t, b)) = Primitive
  BY <1>1 DEF Covers, DefinitionAt
<1> QED BY <1>1, <1>2, LoadsWritten, PairFields DEF UnitOfBase

\* Definitions go on leading downwards: a new line leads to the base or to the currency the
\* template is relative to, and an old one to what was there.
LEMMA LoadsRanks ==
  ASSUME CurrencyAssumption, NamesUnitsOnce, RatesAreRelative,
         NEW t \in Templates, NEW r, RatesType(r), NEW b, KnowsBase(t, b),
         NEW o, Written(o, t, r, b),
         NEW db \in [UnitName -> Definition \cup {Absent}], NEW new, Loads(o, db, new),
         NEW rank, Ranks(db, rank)
  PROVE  \E higher : Ranks(new, higher)
<1> DEFINE D(i) == DefinitionAt(t, r, b, i)
           hub == UnitOfBase(t, b)
           Has(u) == \E i \in Indices(t) : Covers(t, r, b, i) /\ UnitAt(t, i) = u
           higher == [u \in UnitName |->
                       IF ~ Has(u) THEN rank[u] + 3
                       ELSE IF new[u] = Primitive THEN 0
                       ELSE IF new[new[u].unit] = Primitive THEN 1 ELSE 2]
<1>1. \A u \in UnitName : rank[u] \in Nat
  BY DEF Ranks
<1>2. higher \in [UnitName -> Nat]
  BY <1>1
<1>3. \A i \in Indices(t) : Covers(t, r, b, i) => new[UnitAt(t, i)] = D(i)
  BY LoadsWritten
<1>4. \A u \in UnitName : ~ Has(u) => new[u] = db[u]
  BY LoadsWritten
<1>5. hub \in UnitName /\ new[hub] = Primitive
  BY LoadsBase
<1>6. new \in [UnitName -> Definition \cup {Absent}]
  BY LoadsType
<1>7. ASSUME NEW u \in UnitName, Has(u) PROVE new[u] # Absent
  <2>1. PICK i \in Indices(t) : Covers(t, r, b, i) /\ UnitAt(t, i) = u
    BY <1>7
  <2>2. Entry(t, r, b, i) \in [name : UnitName, def : Definition]
    BY <2>1, EntryType
  <2>3. D(i) \in Definition
    BY <2>2 DEF Entry
  <2> QED BY <1>3, <2>1, <2>3 DEF CurrencyAssumption
<1>8. Absent # Primitive
  BY DEF CurrencyAssumption, Definition
<1>9. Has(hub)
  <2>1. BaseIndex(t, b) \in Indices(t) /\ CodeAt(t, BaseIndex(t, b)) = b
    BY FirstPair
  <2> QED BY <2>1 DEF Covers, UnitOfBase
<1>10. ASSUME NEW i \in Indices(t), Covers(t, r, b, i), D(i) # Primitive
       PROVE  D(i).unit = hub \/
                \E j \in Indices(t) : /\ Covers(t, r, b, j) /\ UnitAt(t, j) = D(i).unit
                                      /\ D(j) = Primitive \/ D(j).unit = hub
  <2>1. CodeAt(t, i) # b
    BY <1>10 DEF DefinitionAt
  <2>2. CASE CodeAt(t, i) \in DOMAIN r
    BY <2>1, <2>2 DEF DefinitionAt
  <2>3. CASE CodeAt(t, i) \notin DOMAIN r
    <3>1. UnitAt(t, i) \in DOMAIN t.existing /\ D(i) = t.existing[UnitAt(t, i)]
      BY <1>10, <2>1, <2>3 DEF Covers, DefinitionAt
    <3>2. PICK j \in DOMAIN t.codes : t.codes[j][2] = D(i).unit
      BY <1>10, <3>1 DEF RatesAreRelative
    <3>3. D(i).unit \in DOMAIN t.existing /\ t.existing[D(i).unit] = Primitive
      BY <1>10, <3>1 DEF RatesAreRelative
    <3>4. j \in Indices(t) /\ UnitAt(t, j) = D(i).unit
      BY <3>2 DEF Indices, UnitAt
    <3> HIDE DEF D
    <3>5. Covers(t, r, b, j)
      BY <3>3, <3>4 DEF Covers
    <3>6. D(j) = Primitive \/ D(j).unit = hub
      BY <3>3, <3>4 DEF D, DefinitionAt
    <3> QED BY <3>4, <3>5, <3>6
  <2> QED BY <2>2, <2>3
<1>11. ASSUME NEW u \in UnitName, new[u] \notin {Primitive, Absent}
       PROVE  new[u].unit \in UnitName /\ new[new[u].unit] # Absent /\ higher[new[u].unit] < higher[u]
  <2> DEFINE v == new[u].unit
  <2>1. v \in UnitName
    BY <1>6, <1>11 DEF Definition
  <2>2. higher[u] = (IF ~ Has(u) THEN rank[u] + 3 ELSE IF new[v] = Primitive THEN 1 ELSE 2)
    BY <1>11
  <2>3. higher[v] = (IF ~ Has(v) THEN rank[v] + 3
                     ELSE IF new[v] = Primitive THEN 0
                     ELSE IF new[new[v].unit] = Primitive THEN 1 ELSE 2)
    BY <2>1
  <2> HIDE DEF D, hub, Has, higher
  <2>4. CASE Has(u)
    <3>1. PICK i \in Indices(t) : Covers(t, r, b, i) /\ UnitAt(t, i) = u
      BY <2>4 DEF Has
    <3>2. new[u] = D(i) /\ D(i) # Primitive
      BY <1>3, <1>11, <3>1
    <3>3. CASE v = hub
      BY <1>1, <1>5, <1>8, <1>9, <2>2, <2>3, <2>4, <3>3
    <3>4. CASE v # hub
      <4>1. PICK j \in Indices(t) : /\ Covers(t, r, b, j) /\ UnitAt(t, j) = v
                                    /\ D(j) = Primitive \/ D(j).unit = hub
        BY <1>10, <3>1, <3>2, <3>4
      <4>2. new[v] = D(j) /\ Has(v)
        BY <1>3, <4>1 DEF Has
      <4>3. new[v] # Absent
        BY <1>7, <2>1, <4>2
      <4>4. new[v] = Primitive \/ new[new[v].unit] = Primitive
        BY <1>5, <4>1, <4>2
      <4>5. higher[v] < higher[u]
        <5> HIDE DEF v
        <5> QED BY <2>2, <2>3, <2>4, <4>2, <4>4
      <4> QED BY <2>1, <4>3, <4>5
    <3> QED BY <3>3, <3>4
  <2>5. CASE ~ Has(u)
    <3>1. new[u] = db[u]
      BY <1>4, <2>5
    <3>2. db[v] # Absent /\ rank[v] < rank[u]
      BY <1>11, <3>1 DEF Ranks
    <3>3. new[v] # Absent
      BY <1>4, <1>7, <2>1, <3>2
    <3>4. rank[u] \in Nat /\ rank[v] \in Nat
      BY <1>1, <2>1
    <3>5. higher[v] < higher[u]
      <4> HIDE DEF v
      <4> QED BY <2>2, <2>3, <2>5, <3>2, <3>4
    <3> QED BY <2>1, <3>3, <3>5
  <2> QED BY <2>4, <2>5
<1>12. Ranks(new, higher)
  <2> HIDE DEF higher
  <2> QED BY <1>2, <1>11 DEF Ranks
<1> QED BY <1>12

-----------------------------------------------------------------------------
\* The inductive invariant.

TypeInv == template \in Templates /\ Database /\ update \in 0 .. MaxUpdates /\ RatesType(rates)

\* What is built from was fetched by this update; what was written last belongs to the rates,
\* the options and the template that are still there.
RatesInv == stage \in {"build", "built"} => \A c \in DOMAIN rates : rates[c] = update
OutputInv ==
  /\ stage \in {"options", "template", "request", "build"} => output = <<>>
  /\ stage = "built" \/ output # <<>> =>
       KnowsBase(template, Base) /\ Written(output, template, rates, Base)

\* Only units of the template are ever defined here.
Named(t, db) == \A u \in UnitName : db[u] # Absent => \E i \in Indices(t) : UnitAt(t, i) = u

UpdateInv == TypeInv /\ RatesInv /\ OutputInv /\ Named(template, database)

LEMMA InitUpdateInv ==
  ASSUME CurrencyAssumption, Init
  PROVE  UpdateInv /\ \E rank : Ranks(database, rank)
<1>1. TypeInv
  BY DEF Init, TypeInv, Database, RatesType, CurrencyAssumption
<1>2. RatesInv /\ OutputInv /\ Named(template, database)
  BY DEF Init, RatesInv, OutputInv, Named
<1>3. Ranks(database, [u \in UnitName |-> 0])
  BY DEF Init, Ranks
<1> QED BY <1>1, <1>2, <1>3 DEF UpdateInv

LEMMA ReloadLoads ==
  ASSUME CurrencyAssumption, NamesUnitsOnce, UpdateInv, Reload
  PROVE  /\ KnowsBase(template, Base) /\ Written(output, template, rates, Base)
         /\ Loads(output, database, database')
         /\ database' \in [UnitName -> Definition \cup {Absent}]
<1>1. KnowsBase(template, Base) /\ Written(output, template, rates, Base)
  BY DEF UpdateInv, OutputInv, Reload
<1>2. Loads(output, database, database')
  BY DEF Reload, Loads
<1>3. template \in Templates /\ RatesType(rates) /\ database \in [UnitName -> Definition \cup {Absent}]
  BY DEF UpdateInv, TypeInv, Database
<1>4. database' \in [UnitName -> Definition \cup {Absent}]
  BY <1>1, <1>2, <1>3, LoadsType
<1> QED BY <1>1, <1>2, <1>4

\* What a step keeps when it writes nothing.
LEMMA OutputStays ==
  ASSUME OutputInv, UNCHANGED <<template, options, rates, output>>,
         stage' \in {"options", "template", "request", "build"} => output = <<>>,
         stage' = "built" => stage = "built"
  PROVE  OutputInv'
<1>1. Base' = Base
  BY DEF Base
<1>2. KnowsBase(template, Base)' <=> KnowsBase(template, Base)
  BY <1>1 DEF KnowsBase, Indices, CodeAt
<1>3. CASE stage' = "built" \/ output # <<>>
  <2>1. KnowsBase(template, Base) /\ Written(output, template, rates, Base)
    BY <1>3 DEF OutputInv
  <2>2. KnowsBase(template', Base') /\ Written(output', template', rates', Base')
    BY <1>1, <2>1
  <2> QED BY <2>2 DEF OutputInv
<1>4. CASE ~ (stage' = "built" \/ output # <<>>)
  BY <1>4 DEF OutputInv
<1> QED BY <1>3, <1>4

LEMMA UpdateInvStep ==
  ASSUME CurrencyAssumption, NamesUnitsOnce, UpdateInv, [Next]_vars
  PROVE  UpdateInv'
<1> USE DEF UpdateInv
<1>1. ASSUME NEW s \in Sources, NEW b \in Bases, NEW k \in BOOLEAN, Fetch(s, b, k) PROVE UpdateInv'
  <2>1. update + 1 \in 0 .. MaxUpdates
    BY <1>1 DEF Fetch, TypeInv, CurrencyAssumption
  <2>2. TypeInv'
    BY <1>1, <2>1 DEF Fetch, TypeInv, Database
  <2>3. RatesInv' /\ OutputInv'
    BY <1>1 DEF Fetch, RatesInv, OutputInv
  <2>4. Named(template, database)'
    BY <1>1 DEF Fetch, Named
  <2> QED BY <2>2, <2>3, <2>4
<1>2. ASSUME RefuseBase \/ AcceptBase \/ ParseTemplate \/ RequestFails \/ Unreadable \/ ProviderRefuses
      PROVE  UpdateInv'
  <2>1. /\ UNCHANGED <<template, database, update, options, rates, output>>
        /\ stage \in {"options", "template", "request"} /\ stage' \in {"template", "request", "failed"}
    BY <1>2 DEF RefuseBase, AcceptBase, ParseTemplate, RequestFails, Unreadable, ProviderRefuses, Fail, Goes
  <2>2. TypeInv' /\ RatesInv' /\ Named(template, database)'
    BY <2>1 DEF TypeInv, Database, RatesInv, Named
  <2>3. output = <<>>
    BY <2>1 DEF OutputInv
  <2>4. OutputInv'
    BY <2>1, <2>3, OutputStays
  <2> QED BY <2>2, <2>4
<1>3. ASSUME NEW codes \in SUBSET Code, Receives(codes) PROVE UpdateInv'
  <2>1. /\ UNCHANGED <<template, database, update, options, output>>
        /\ stage = "request" /\ stage' = "build"
    BY <1>3 DEF Receives, Goes
  <2>2. \A c \in DOMAIN rates' : rates'[c] = update
    BY <1>3 DEF Receives
  <2>3. TypeInv' /\ RatesInv' /\ Named(template, database)'
    BY <2>1, <2>2 DEF TypeInv, Database, RatesType, RatesInv, Named
  <2>4. output = <<>>
    BY <2>1 DEF OutputInv
  <2>5. OutputInv'
    BY <2>1, <2>4 DEF OutputInv
  <2> QED BY <2>3, <2>5
<1>4. ASSUME Build PROVE UpdateInv'
  <2>1. UNCHANGED <<template, database, update, options, rates>> /\ stage = "build"
    BY <1>4 DEF Build, Goes, Fail
  <2>2. TypeInv' /\ RatesInv' /\ Named(template, database)'
    BY <2>1 DEF TypeInv, Database, RatesInv, Named
  <2>3. CASE HasBase
    <3>1. KnowsBase(template, Base)
      BY <2>3 DEF HasBase, KnowsBase, Indices, CodeAt, Pairs
    <3>2. Written(Lines, template, rates, Base)
      BY <3>1, LinesAreWritten DEF TypeInv
    <3>3. output' = Lines /\ stage' = "built" /\ Base' = Base
      BY <1>4, <2>1, <2>3 DEF Build, Goes, Base
    <3>4. KnowsBase(template', Base') /\ Written(output', template', rates', Base')
      BY <2>1, <3>1, <3>2, <3>3
    <3>5. OutputInv'
      BY <3>3, <3>4 DEF OutputInv
    <3> QED BY <2>2, <3>5
  <2>4. CASE ~ HasBase
    <3>1. UNCHANGED output /\ stage' = "failed"
      BY <1>4, <2>4 DEF Build, Fail
    <3>2. OutputInv'
      BY <2>1, <3>1, OutputStays
    <3> QED BY <2>2, <3>2
  <2> QED BY <2>3, <2>4
<1>5. ASSUME Reload PROVE UpdateInv'
  <2>1. UNCHANGED <<template, update, options, rates, output>> /\ stage = "built" /\ stage' = "idle"
    BY <1>5 DEF Reload
  <2>2. /\ KnowsBase(template, Base) /\ Written(output, template, rates, Base)
        /\ Loads(output, database, database')
        /\ database' \in [UnitName -> Definition \cup {Absent}]
    BY <1>5, ReloadLoads
  <2>3. TypeInv' /\ RatesInv'
    BY <2>1, <2>2 DEF TypeInv, Database, RatesInv, RatesType
  <2>4. OutputInv'
    BY <2>1, OutputStays
  <2>5. ASSUME NEW u \in UnitName, database'[u] # Absent
        PROVE  \E i \in Indices(template) : UnitAt(template, i) = u
    <3>1. CASE \A i \in Indices(template) : Covers(template, rates, Base, i) => UnitAt(template, i) # u
      <4>1. template \in Templates
        BY DEF TypeInv
      <4>2. database'[u] = database[u]
        BY <2>2, <3>1, <4>1, LoadsWritten
      <4> QED BY <2>5, <4>2 DEF Named
    <3> QED BY <3>1
  <2>6. Named(template, database')
    BY <2>5 DEF Named
  <2>7. Named(template, database)'
    BY <2>1, <2>6
  <2> QED BY <2>3, <2>4, <2>7
<1>6. ASSUME GiveUp \/ Done \/ UNCHANGED vars PROVE UpdateInv'
  <2>1. /\ UNCHANGED <<template, database, update, options, rates, output>>
        /\ stage' = "idle" \/ stage' = stage
    BY <1>6 DEF GiveUp, Goes, Done, vars
  <2>2. TypeInv' /\ RatesInv' /\ Named(template, database)'
    BY <2>1 DEF TypeInv, Database, RatesInv, Named
  <2>3. OutputInv'
    BY <2>1, OutputStays DEF OutputInv
  <2> QED BY <2>2, <2>3
<1> QED BY <1>1, <1>2, <1>3, <1>4, <1>5, <1>6 DEF Next

\* What was fetched counts after the reload, relative to the base that was asked for, however
\* often the currencies were updated before and whatever was loaded (build_currency_template,
\* reload_currency).
THEOREM FetchedRatesAlwaysCount ==
  ASSUME CurrencyAssumption, NamesUnitsOnce
  PROVE  Spec => FetchedRatesCount
<1>1. Init => UpdateInv
  BY InitUpdateInv
<1>2. UpdateInv /\ [Next]_vars => UpdateInv'
  BY UpdateInvStep
<1>3. UpdateInv /\ [Next]_vars => [LoadsFetchedRates]_vars
  <2> SUFFICES ASSUME UpdateInv, Reload PROVE LoadsFetchedRates
    BY DEF LoadsFetchedRates
  <2>1. /\ KnowsBase(template, Base) /\ Written(output, template, rates, Base)
        /\ Loads(output, database, database') /\ template \in Templates
    BY ReloadLoads DEF UpdateInv, TypeInv
  <2>2. BaseUnit = UnitOfBase(template, Base)
    BY DEF BaseUnit, UnitOfBase, UnitAt, BaseIndex, Indices, CodeAt, Pairs
  <2>3. database'[BaseUnit] = Primitive
    BY <2>1, <2>2, LoadsBase
  <2>4. ASSUME NEW i \in DOMAIN Pairs, Pairs[i][1] \in DOMAIN rates /\ Pairs[i][1] # Base
        PROVE  database'[Pairs[i][2]] = [by |-> update, unit |-> BaseUnit]
    <3>1. i \in Indices(template) /\ CodeAt(template, i) = Pairs[i][1] /\ UnitAt(template, i) = Pairs[i][2]
      BY DEF Indices, CodeAt, UnitAt, Pairs
    <3>2. Covers(template, rates, Base, i)
      BY <2>4, <3>1 DEF Covers
    <3>3. database'[UnitAt(template, i)] = DefinitionAt(template, rates, Base, i)
      BY <2>1, <3>1, <3>2, LoadsWritten
    <3>4. rates[CodeAt(template, i)] = update
      BY <2>4, <3>1 DEF UpdateInv, RatesInv, Reload
    <3> QED BY <2>2, <2>4, <3>1, <3>3, <3>4 DEF DefinitionAt
  <2> QED BY <2>3, <2>4 DEF LoadsFetchedRates
<1> QED BY <1>1, <1>2, <1>3, PTL DEF Spec, FetchedRatesCount

\* No sequence of updates, complete or not, with whatever bases, makes the definitions of
\* currencies lead anywhere but to a primitive one (build_currency_template, reload_currency).
THEOREM DefinitionsAlwaysEnd ==
  ASSUME CurrencyAssumption, NamesUnitsOnce, RatesAreRelative
  PROVE  Spec => []DefinitionsEnd
<1> DEFINE Ranked == \E rank : Ranks(database, rank)
           Inv == UpdateInv /\ Ranked
<1>1. Init => Inv
  BY InitUpdateInv
<1>2. Inv /\ [Next]_vars => Inv'
  <2> SUFFICES ASSUME UpdateInv, Ranked, [Next]_vars PROVE Inv'
    OBVIOUS
  <2>1. UpdateInv'
    BY UpdateInvStep
  <2>2. CASE Reload
    <3>1. /\ KnowsBase(template, Base) /\ Written(output, template, rates, Base)
          /\ Loads(output, database, database')
      BY <2>2, ReloadLoads
    <3>2. /\ template \in Templates /\ RatesType(rates)
          /\ database \in [UnitName -> Definition \cup {Absent}]
      BY DEF UpdateInv, TypeInv, Database
    <3>3. \E higher : Ranks(database', higher)
      <4>1. PICK rank : Ranks(database, rank)
        OBVIOUS
      <4> QED BY <3>1, <3>2, <4>1, LoadsRanks
    <3> QED BY <2>1, <3>3
  <2>3. CASE ~ Reload
    <3>1. UNCHANGED database
      BY <2>3 DEF Next, Fetch, RefuseBase, AcceptBase, ParseTemplate, RequestFails, Unreadable,
                  ProviderRefuses, Receives, Build, GiveUp, Done, Fail, Goes, vars
    <3>2. PICK rank : Ranks(database, rank)
      OBVIOUS
    <3>3. Ranks(database', rank)
      BY <3>1, <3>2
    <3> QED BY <2>1, <3>3
  <2> QED BY <2>2, <2>3
<1>3. Inv => DefinitionsEnd
  BY RanksEnd DEF UpdateInv, TypeInv
<1> QED BY <1>1, <1>2, <1>3, PTL DEF Spec

\* Once every unit leads to the base in one step, all of them reach it.
LEMMA AllReachBase ==
  ASSUME CurrencyAssumption, Database, NEW base \in UnitName, database[base] = Primitive,
         NEW u \in UnitName, Onward(u) = base
  PROVE  Reached(u) = base
<1> DEFINE N == Cardinality(UnitName)
           p == Path(u)
           there == {n \in Nat : n + 1 <= N => p[n + 1] = base}
<1>1. /\ N \in Nat /\ p[0] = u
      /\ \A n \in 1 .. N : p[n] = Onward(p[n - 1])
  BY PathSteps
<1>2. N # 0
  BY FS_EmptySet DEF CurrencyAssumption
<1> HIDE DEF N, p
<1>3. Onward(base) = base
  BY DEF Onward
<1>4. 0 \in there
  <2>1. 1 \in 1 .. N /\ 1 - 1 = 0 /\ 0 + 1 = 1
    BY <1>1, <1>2
  <2>2. p[1] = Onward(p[0])
    BY <1>1, <2>1
  <2> QED BY <1>1, <2>1, <2>2
<1>5. ASSUME NEW n \in there PROVE n + 1 \in there
  <2>1. ASSUME (n + 1) + 1 <= N PROVE p[(n + 1) + 1] = base
    <3>1. (n + 1) + 1 \in 1 .. N /\ ((n + 1) + 1) - 1 = n + 1 /\ n + 1 <= N
      BY <1>1, <2>1
    <3>2. p[n + 1] = base
      BY <3>1
    <3>3. p[(n + 1) + 1] = Onward(p[n + 1])
      BY <1>1, <3>1
    <3> QED BY <1>3, <3>2, <3>3
  <2> QED BY <2>1
<1>6. there = Nat
  <2>1. there \in SUBSET Nat
    OBVIOUS
  <2> HIDE DEF there
  <2> QED BY <1>4, <1>5, <2>1, NaturalInduction
<1>7. N - 1 \in Nat /\ (N - 1) + 1 = N
  BY <1>1, <1>2
<1>8. p[N] = base
  <2>1. N - 1 \in there
    BY <1>6, <1>7
  <2> QED BY <1>1, <1>7, <2>1
<1> QED BY <1>8 DEF Reached, N, p

\* After an update with all rates every currency reaches the base, whatever was there before:
\* from then on any of them converts into any other (build_currency_template, reload_currency).
THEOREM CompleteUpdatesConvert ==
  ASSUME CurrencyAssumption, NamesUnitsOnce, NamesCodesOnce
  PROVE  Spec => []CompleteUpdateConverts
<1>1. Init => UpdateInv
  BY InitUpdateInv
<1>2. UpdateInv /\ [Next]_vars => UpdateInv'
  BY UpdateInvStep
<1>3. UpdateInv => CompleteUpdateConverts
  <2> SUFFICES ASSUME UpdateInv, output # <<>>,
                      \A i \in DOMAIN Pairs : Pairs[i][1] \in DOMAIN rates \cup {Base},
                      \A k \in DOMAIN output : database[output[k].name] = output[k].def,
                      NEW u \in UnitName, NEW v \in UnitName, database[u] # Absent, database[v] # Absent
               PROVE  Reached(u) = Reached(v)
    BY DEF CompleteUpdateConverts
  <2> DEFINE t == template
             hub == UnitOfBase(t, Base)
  <2>1. /\ t \in Templates /\ Database
        /\ KnowsBase(t, Base) /\ Written(output, t, rates, Base) /\ Named(t, database)
    BY DEF UpdateInv, TypeInv, OutputInv
  <2>2. ASSUME NEW i \in Indices(t)
        PROVE  /\ CodeAt(t, i) = Base \/ CodeAt(t, i) \in DOMAIN rates
               /\ database[UnitAt(t, i)] = DefinitionAt(t, rates, Base, i)
    <3>1. CodeAt(t, i) = Base \/ CodeAt(t, i) \in DOMAIN rates
      BY DEF Indices, CodeAt, Pairs
    <3>2. PICK k \in DOMAIN output : output[k] = Entry(t, rates, Base, i)
      BY <2>1, <3>1 DEF Written, Covers
    <3>3. database[output[k].name] = output[k].def
      BY <3>2
    <3> QED BY <3>1, <3>2, <3>3 DEF Entry
  <2>3. BaseIndex(t, Base) \in Indices(t) /\ CodeAt(t, BaseIndex(t, Base)) = Base
    BY <2>1, FirstPair
  <2>4. hub \in UnitName /\ database[hub] = Primitive
    BY <2>1, <2>2, <2>3, PairFields DEF UnitOfBase, DefinitionAt
  <2>5. ASSUME NEW w \in UnitName, database[w] # Absent PROVE Onward(w) = hub
    <3>1. PICK i \in Indices(t) : UnitAt(t, i) = w
      BY <2>1, <2>5 DEF Named
    <3>2. database[w] = DefinitionAt(t, rates, Base, i)
      BY <2>2, <3>1
    <3>3. CASE CodeAt(t, i) = Base
      <4>1. t.codes[i][1] = t.codes[BaseIndex(t, Base)][1]
        BY <2>3, <3>3 DEF CodeAt
      <4>2. i = BaseIndex(t, Base)
        BY <2>1, <2>3, <4>1 DEF NamesCodesOnce, Indices
      <4>3. w = hub
        BY <3>1, <4>2 DEF UnitOfBase
      <4> QED BY <2>4, <4>3 DEF Onward
    <3>4. CASE CodeAt(t, i) # Base
      <4>1. CodeAt(t, i) \in DOMAIN rates /\ rates[CodeAt(t, i)] \in 0 .. MaxUpdates
        BY <2>2, <3>4 DEF UpdateInv, TypeInv, RatesType
      <4>2. database[w] = [by |-> rates[CodeAt(t, i)], unit |-> hub]
        BY <3>2, <3>4, <4>1 DEF DefinitionAt
      <4>3. database[w] \in [by : 0 .. MaxUpdates, unit : UnitName]
        BY <2>4, <4>1, <4>2
      <4>4. Primitive \notin [by : 0 .. MaxUpdates, unit : UnitName]
        BY ONLY CurrencyAssumption DEF CurrencyAssumption
      <4>5. database[w] \notin {Primitive, Absent}
        BY <2>5, <4>3, <4>4
      <4> QED BY <4>2, <4>5 DEF Onward
    <3> QED BY <3>3, <3>4
  <2> HIDE DEF hub
  <2> QED BY <2>1, <2>4, <2>5, AllReachBase
<1> QED BY <1>1, <1>2, <1>3, PTL DEF Spec
=============================================================================
