---------------------------- MODULE LoaderProofs -----------------------------
(***************************************************************************)
(* Proofs about Loader for any text, environment and depth of includes:    *)
(* the flags stand for the blocks that are open, so that exactly the lines *)
(* that count are loaded.                                                  *)
(***************************************************************************)
EXTENDS Loader, NaturalOrder, SequenceTheorems

\* The flags of a file that is read, and a block that is open in it.
Flags == [wrongLocale : BOOLEAN, wrongVar : BOOLEAN]
Block == [sort : {"locale", "var"}, holds : BOOLEAN]

\* Flags f stand for the open blocks b of one file: a flag is up iff a block of its sort
\* does not hold, and there is one block of a sort at most.
Fails(b, sort) == \E j \in DOMAIN b : b[j].sort = sort /\ ~ b[j].holds
StandFor(f, b) ==
  /\ f.wrongLocale <=> Fails(b, "locale")
  /\ f.wrongVar <=> Fails(b, "var")
  /\ \A j, k \in DOMAIN b : b[j].sort = b[k].sort => j = k

\* So they do in every file, and a file that includes another one skips nothing there.
FilesInv(fs, bs) ==
  /\ fs \in Seq(Flags) /\ bs \in Seq(Seq(Block))
  /\ Len(fs) = Len(bs) /\ Len(fs) > 0
  /\ \A i \in 1 .. Len(fs) : StandFor(fs[i], bs[i])
  /\ \A i \in 1 .. Len(fs) - 1 : ~ Skips(fs[i])

Environment == [Variables -> VariableValues \cup {Unset}]
ValuesInv ==
  /\ process \in Environment /\ env \in Environment /\ values \in Environment
  /\ \A v \in Variables : LookupVar(v) = values[v]

LoadedInv ==
  /\ effective \in Seq(Line) /\ listed = effective
  /\ db = LoadAll(EmptyDatabase, effective)

LoaderInv == plain => FilesInv(frames, blocks) /\ ValuesInv /\ LoadedInv

-----------------------------------------------------------------------------
\* Sequences whose last element changes.

LEMMA LastElement ==
  ASSUME NEW S, NEW s \in Seq(S), Len(s) > 0, NEW x \in S
  PROVE  /\ Last(s) \in S
         /\ ReplaceLast(s, x) \in Seq(S) /\ Len(ReplaceLast(s, x)) = Len(s)
         /\ \A i \in 1 .. Len(s) - 1 : ReplaceLast(s, x)[i] = s[i]
         /\ ReplaceLast(s, x)[Len(s)] = x
<1>1. Len(s) \in 1 .. Len(s) /\ DOMAIN s = 1 .. Len(s)
  OBVIOUS
<1>2. Last(s) \in S
  BY <1>1, ElementOfSeq DEF Last
<1> QED BY <1>1, <1>2 DEF ReplaceLast

LEMMA FrontElements ==
  ASSUME NEW S, NEW s \in Seq(S), Len(s) > 1
  PROVE  /\ Front(s) \in Seq(S) /\ Len(Front(s)) = Len(s) - 1
         /\ \A i \in 1 .. Len(s) - 1 : Front(s)[i] = s[i]
<1>1. Len(s) \in Nat /\ \A i \in 1 .. Len(s) - 1 : s[i] \in S
  BY ElementOfSeq
<1>2. 1 <= Len(s) - 1 /\ Len(s) - 1 \in Int
  BY <1>1
<1> QED BY <1>1, <1>2, SubSeqProperties DEF Front

-----------------------------------------------------------------------------
\* The flags of one file.

LEMMA NoBlocks == <<>> \in Seq(Block) /\ Opened \in Flags /\ StandFor(Opened, <<>>)
BY DEF Opened, Flags, StandFor, Fails

\* A flag follows the block that begins, the other flag stays.
LEMMA BlockBegins ==
  ASSUME NEW f \in Flags, NEW b \in Seq(Block), StandFor(f, b),
         NEW sort \in {"locale", "var"}, NEW holds \in BOOLEAN,
         \A j \in DOMAIN b : b[j].sort # sort
  PROVE  LET c == Append(b, [sort |-> sort, holds |-> holds])
         IN  /\ c \in Seq(Block)
             /\ sort = "locale" => StandFor([f EXCEPT !.wrongLocale = ~ holds], c)
             /\ sort = "var" => StandFor([f EXCEPT !.wrongVar = ~ holds], c)
<1> DEFINE block == [sort |-> sort, holds |-> holds]
           c == Append(b, block)
<1>1. block \in Block /\ block.sort = sort /\ block.holds = holds
  BY DEF Block
<1>2. /\ c \in Seq(Block) /\ DOMAIN b = 1 .. Len(b) /\ DOMAIN c = 1 .. Len(b) + 1 /\ Len(b) \in Nat
      /\ \A j \in 1 .. Len(b) : c[j] = b[j]
      /\ c[Len(b) + 1] = block
  BY <1>1, AppendProperties
<1> HIDE DEF c, block
<1>3. \A s \in {"locale", "var"} : Fails(c, s) <=> Fails(b, s) \/ (s = sort /\ ~ holds)
  <2>1. \A j \in DOMAIN c : j \in DOMAIN b \/ j = Len(b) + 1
    BY <1>2
  <2>2. \A j \in DOMAIN b : j \in DOMAIN c /\ c[j] = b[j]
    BY <1>2
  <2>3. Len(b) + 1 \in DOMAIN c
    BY <1>2
  <2> QED BY <1>1, <1>2, <2>1, <2>2, <2>3 DEF Fails
<1>4. ~ Fails(b, sort)
  BY DEF Fails
<1>5. \A j, k \in DOMAIN c : c[j].sort = c[k].sort => j = k
  BY <1>1, <1>2 DEF StandFor
<1>6. CASE sort = "locale"
  BY <1>2, <1>3, <1>4, <1>5, <1>6 DEF StandFor, Flags, c, block
<1>7. CASE sort = "var"
  BY <1>2, <1>3, <1>4, <1>5, <1>7 DEF StandFor, Flags, c, block
<1> QED BY <1>2, <1>6, <1>7 DEF c, block

\* What Ends leaves of the blocks b of a file.
Open(b, sort) == {j \in DOMAIN b : b[j].sort = sort}
LastOpen(b, sort) == CHOOSE j \in Open(b, sort) : \A k \in Open(b, sort) : k <= j
Left(b, sort) ==
  IF Open(b, sort) = {} THEN b
  ELSE SubSeq(b, 1, LastOpen(b, sort) - 1) \o SubSeq(b, LastOpen(b, sort) + 1, Len(b))

LEMMA ElementRemoved ==
  ASSUME NEW b \in Seq(Block), NEW m \in DOMAIN b
  PROVE  LET c == SubSeq(b, 1, m - 1) \o SubSeq(b, m + 1, Len(b))
         IN  /\ c \in Seq(Block) /\ DOMAIN c = 1 .. Len(b) - 1
             /\ \A i \in DOMAIN c : c[i] = IF i < m THEN b[i] ELSE b[i + 1]
<1> DEFINE before == SubSeq(b, 1, m - 1)
           after == SubSeq(b, m + 1, Len(b))
<1>1. Len(b) \in Nat /\ m \in 1 .. Len(b) /\ \A i \in 1 .. Len(b) : b[i] \in Block
  BY ElementOfSeq
<1>2. /\ before \in Seq(Block) /\ Len(before) = m - 1
      /\ \A i \in 1 .. m - 1 : before[i] = b[i]
  <2>1. 1 \in Int /\ m - 1 \in Int /\ \A i \in 1 .. m - 1 : b[i] \in Block
    BY <1>1
  <2>2. /\ before \in Seq(Block) /\ Len(before) = (IF 1 <= m - 1 THEN (m - 1) - 1 + 1 ELSE 0)
        /\ \A i \in 1 .. (m - 1) - 1 + 1 : before[i] = b[1 + i - 1]
    BY ONLY <2>1, SubSeqProperties
  <2> HIDE DEF before
  <2> QED BY <1>1, <2>2
<1>3. /\ after \in Seq(Block) /\ Len(after) = Len(b) - m
      /\ \A i \in 1 .. Len(b) - m : after[i] = b[m + i]
  <2>1. m + 1 \in Int /\ Len(b) \in Int /\ \A i \in m + 1 .. Len(b) : b[i] \in Block
    BY <1>1
  <2>2. /\ after \in Seq(Block) /\ Len(after) = (IF m + 1 <= Len(b) THEN Len(b) - (m + 1) + 1 ELSE 0)
        /\ \A i \in 1 .. Len(b) - (m + 1) + 1 : after[i] = b[m + 1 + i - 1]
    BY ONLY <2>1, SubSeqProperties
  <2> HIDE DEF after
  <2> QED BY <1>1, <2>2
<1>4. /\ before \o after \in Seq(Block) /\ Len(before \o after) = Len(before) + Len(after)
      /\ \A i \in 1 .. Len(before) + Len(after) :
           (before \o after)[i] = IF i <= Len(before) THEN before[i] ELSE after[i - Len(before)]
  <2> HIDE DEF before, after
  <2> QED BY <1>2, <1>3, ConcatProperties
<1> HIDE DEF before, after
<1>5. DOMAIN (before \o after) = 1 .. Len(b) - 1
  BY <1>1, <1>2, <1>3, <1>4
<1>6. ASSUME NEW i \in 1 .. Len(b) - 1
      PROVE  (before \o after)[i] = IF i < m THEN b[i] ELSE b[i + 1]
  <2>1. CASE i < m
    BY <1>1, <1>2, <1>3, <1>4, <2>1
  <2>2. CASE ~ (i < m)
    <3>1. /\ i \in Int /\ m \in Int /\ i - (m - 1) \in 1 .. Len(b) - m /\ ~ (i <= m - 1)
          /\ m + (i - (m - 1)) = i + 1 /\ i \in 1 .. (m - 1) + (Len(b) - m)
      BY <1>1, <2>2
    <3>2. (before \o after)[i] = after[i - (m - 1)]
      BY <1>2, <1>3, <1>4, <3>1
    <3>3. after[i - (m - 1)] = b[m + (i - (m - 1))]
      BY <1>3, <3>1
    <3> QED BY <2>2, <3>1, <3>2, <3>3
  <2> QED BY <2>1, <2>2
<1> QED BY <1>4, <1>5, <1>6 DEF before, after

\* The flag of the sort goes down with the block that ends, the other one stays.
LEMMA BlockEnds ==
  ASSUME NEW f \in Flags, NEW b \in Seq(Block), StandFor(f, b), NEW sort \in {"locale", "var"}
  PROVE  /\ Left(b, sort) \in Seq(Block)
         /\ sort = "locale" => StandFor([f EXCEPT !.wrongLocale = FALSE], Left(b, sort))
         /\ sort = "var" => StandFor([f EXCEPT !.wrongVar = FALSE], Left(b, sort))
<1> DEFINE c == Left(b, sort)
<1>1. /\ c \in Seq(Block)
      /\ \A s \in {"locale", "var"} : Fails(c, s) <=> s # sort /\ Fails(b, s)
      /\ \A j, k \in DOMAIN c : c[j].sort = c[k].sort => j = k
  <2>1. CASE Open(b, sort) = {}
    <3>1. c = b
      BY <2>1 DEF Left
    <3> QED BY <2>1, <3>1 DEF StandFor, Fails, Open
  <2>2. CASE Open(b, sort) # {}
    <3> DEFINE m == LastOpen(b, sort)
    <3>1. m \in Open(b, sort)
      <4>1. \A j, k \in Open(b, sort) : j = k
        BY DEF StandFor, Open
      <4>2. \A j \in Open(b, sort) : j \in 1 .. Len(b)
        BY DEF Open
      <4>3. \E j \in Open(b, sort) : \A k \in Open(b, sort) : k <= j
        BY <2>2, <4>1, <4>2
      <4> QED BY <4>3 DEF LastOpen
    <3>2. c = SubSeq(b, 1, m - 1) \o SubSeq(b, m + 1, Len(b))
      BY <2>2 DEF Left
    <3> HIDE DEF m, c
    <3>3. /\ m \in DOMAIN b /\ b[m].sort = sort
          /\ \A j \in DOMAIN b : b[j].sort = sort => j = m
      BY <3>1 DEF StandFor, Open
    <3>4. /\ c \in Seq(Block) /\ DOMAIN c = 1 .. Len(b) - 1
          /\ \A i \in DOMAIN c : c[i] = IF i < m THEN b[i] ELSE b[i + 1]
      BY <3>2, <3>3, ElementRemoved
    <3>5. Len(b) \in Nat /\ DOMAIN b = 1 .. Len(b) /\ m \in 1 .. Len(b)
      BY <3>3
    <3> DEFINE old(i) == IF i < m THEN i ELSE i + 1
    <3>6. \A i \in DOMAIN c : old(i) \in DOMAIN b /\ old(i) # m /\ c[i] = b[old(i)]
      BY <3>4, <3>5
    <3>7. \A j \in DOMAIN b : j # m => \E i \in DOMAIN c : old(i) = j
      <4> SUFFICES ASSUME NEW j \in DOMAIN b, j # m PROVE \E i \in DOMAIN c : old(i) = j
        OBVIOUS
      <4>1. CASE j < m
        <5>1. j \in DOMAIN c /\ old(j) = j
          BY <3>4, <3>5, <4>1
        <5> QED BY <5>1
      <4>2. CASE j > m
        <5>1. j - 1 \in DOMAIN c /\ old(j - 1) = j
          BY <3>4, <3>5, <4>2
        <5> QED BY <5>1
      <4> QED BY <3>5, <4>1, <4>2
    <3>8. \A i, k \in DOMAIN c : old(i) = old(k) => i = k
      BY <3>4, <3>5
    <3> HIDE DEF old
    <3>9. \A s \in {"locale", "var"} : Fails(c, s) <=> s # sort /\ Fails(b, s)
      BY <3>3, <3>6, <3>7 DEF Fails
    <3>10. \A j, k \in DOMAIN c : c[j].sort = c[k].sort => j = k
      BY <3>6, <3>8 DEF StandFor
    <3> QED BY <3>4, <3>9, <3>10
  <2> QED BY <2>1, <2>2
<1> HIDE DEF c
<1>2. CASE sort = "locale"
  BY <1>1, <1>2 DEF StandFor, Flags, c
<1>3. CASE sort = "var"
  BY <1>1, <1>3 DEF StandFor, Flags, c
<1> QED BY <1>1, <1>2, <1>3 DEF c

-----------------------------------------------------------------------------
\* The files that are open.

LEMMA TopFile ==
  ASSUME NEW fs, NEW bs, FilesInv(fs, bs)
  PROVE  /\ Last(fs) \in Flags /\ Last(bs) \in Seq(Block) /\ StandFor(Last(fs), Last(bs))
         /\ Len(fs) \in Nat /\ Len(fs) \in 1 .. Len(fs) /\ DOMAIN fs = 1 .. Len(fs)
         /\ DOMAIN bs = 1 .. Len(fs)
         /\ \A i \in 1 .. Len(fs) : fs[i] \in Flags /\ bs[i] \in Seq(Block)
<1>1. fs \in Seq(Flags) /\ bs \in Seq(Seq(Block)) /\ Len(fs) = Len(bs) /\ Len(fs) > 0
  BY DEF FilesInv
<1>2. Len(fs) \in Nat /\ Len(fs) \in 1 .. Len(fs) /\ DOMAIN fs = 1 .. Len(fs) /\ DOMAIN bs = 1 .. Len(fs)
  BY <1>1
<1>3. Last(fs) \in Flags /\ Last(bs) \in Seq(Block)
  BY <1>1, LastElement
<1>4. StandFor(Last(fs), Last(bs))
  BY <1>1, <1>2 DEF FilesInv, Last
<1>5. \A i \in 1 .. Len(fs) : fs[i] \in Flags /\ bs[i] \in Seq(Block)
  BY <1>1, ElementOfSeq
<1> QED BY <1>2, <1>3, <1>4, <1>5

LEMMA TopChanges ==
  ASSUME NEW fs, NEW bs, FilesInv(fs, bs), NEW f \in Flags, NEW b \in Seq(Block), StandFor(f, b)
  PROVE  FilesInv(ReplaceLast(fs, f), ReplaceLast(bs, b))
<1> DEFINE fsNew == ReplaceLast(fs, f)
           bsNew == ReplaceLast(bs, b)
<1>1. fs \in Seq(Flags) /\ bs \in Seq(Seq(Block)) /\ Len(fs) = Len(bs) /\ Len(fs) > 0 /\ Len(fs) \in Nat
  BY TopFile DEF FilesInv
<1>2. /\ fsNew \in Seq(Flags) /\ Len(fsNew) = Len(fs) /\ fsNew[Len(fs)] = f
      /\ \A i \in 1 .. Len(fs) - 1 : fsNew[i] = fs[i]
  <2>1. fs \in Seq(Flags) /\ Len(fs) > 0 /\ f \in Flags
    BY <1>1
  <2> QED BY ONLY <2>1 DEF ReplaceLast
<1>3. /\ bsNew \in Seq(Seq(Block)) /\ Len(bsNew) = Len(fs) /\ bsNew[Len(fs)] = b
      /\ \A i \in 1 .. Len(fs) - 1 : bsNew[i] = bs[i]
  <2>1. bs \in Seq(Seq(Block)) /\ Len(bs) > 0 /\ b \in Seq(Block)
    BY <1>1
  <2>2. /\ bsNew \in Seq(Seq(Block)) /\ Len(bsNew) = Len(bs) /\ bsNew[Len(bs)] = b
        /\ \A i \in 1 .. Len(bs) - 1 : bsNew[i] = bs[i]
    BY ONLY <2>1 DEF ReplaceLast
  <2> QED BY <1>1, <2>2
<1> HIDE DEF fsNew, bsNew
<1>4. ASSUME NEW i \in 1 .. Len(fs) PROVE StandFor(fsNew[i], bsNew[i])
  <2>1. CASE i = Len(fs)
    BY <1>2, <1>3, <2>1
  <2>2. CASE i # Len(fs)
    <3>1. i \in 1 .. Len(fs) - 1
      BY <1>1, <2>2
    <3> QED BY <1>2, <1>3, <3>1 DEF FilesInv
  <2> QED BY <2>1, <2>2
<1>5. \A i \in 1 .. Len(fs) - 1 : ~ Skips(fsNew[i])
  BY <1>2 DEF FilesInv
<1>6. FilesInv(fsNew, bsNew)
  BY <1>1, <1>2, <1>3, <1>4, <1>5 DEF FilesInv
<1> QED BY <1>6 DEF fsNew, bsNew

LEMMA FileIncluded ==
  ASSUME NEW fs, NEW bs, FilesInv(fs, bs), ~ Skips(Last(fs))
  PROVE  FilesInv(Append(fs, Opened), Append(bs, <<>>))
<1> DEFINE fsNew == Append(fs, Opened)
           bsNew == Append(bs, <<>>)
<1>1. fs \in Seq(Flags) /\ bs \in Seq(Seq(Block)) /\ Len(fs) = Len(bs) /\ Len(fs) > 0 /\ Len(fs) \in Nat
  BY TopFile DEF FilesInv
<1>2. /\ fsNew \in Seq(Flags) /\ Len(fsNew) = Len(fs) + 1 /\ fsNew[Len(fs) + 1] = Opened
      /\ \A i \in 1 .. Len(fs) : fsNew[i] = fs[i]
  BY <1>1, NoBlocks, AppendProperties
<1>3. /\ bsNew \in Seq(Seq(Block)) /\ Len(bsNew) = Len(fs) + 1 /\ bsNew[Len(fs) + 1] = <<>>
      /\ \A i \in 1 .. Len(fs) : bsNew[i] = bs[i]
  BY <1>1, NoBlocks, AppendProperties
<1> HIDE DEF fsNew, bsNew
<1>4. ASSUME NEW i \in 1 .. Len(fs) + 1 PROVE StandFor(fsNew[i], bsNew[i])
  <2>1. CASE i = Len(fs) + 1
    BY <1>2, <1>3, <2>1, NoBlocks
  <2>2. CASE i # Len(fs) + 1
    <3>1. i \in 1 .. Len(fs)
      BY <1>1, <2>2
    <3> QED BY <1>2, <1>3, <3>1 DEF FilesInv
  <2> QED BY <2>1, <2>2
<1>5. ASSUME NEW i \in 1 .. (Len(fs) + 1) - 1 PROVE ~ Skips(fsNew[i])
  <2>1. i \in 1 .. Len(fs) /\ fsNew[i] = fs[i]
    BY <1>1, <1>2
  <2>2. CASE i = Len(fs)
    BY <2>1, <2>2 DEF Last
  <2>3. CASE i # Len(fs)
    <3>1. i \in 1 .. Len(fs) - 1
      BY <1>1, <2>1, <2>3
    <3> QED BY <2>1, <3>1 DEF FilesInv
  <2> QED BY <2>2, <2>3
<1>6. FilesInv(fsNew, bsNew)
  BY <1>1, <1>2, <1>3, <1>4, <1>5 DEF FilesInv
<1> QED BY <1>6 DEF fsNew, bsNew

LEMMA FileLeft ==
  ASSUME NEW fs, NEW bs, FilesInv(fs, bs), Len(fs) > 1
  PROVE  FilesInv(Front(fs), Front(bs))
<1>1. fs \in Seq(Flags) /\ bs \in Seq(Seq(Block)) /\ Len(fs) = Len(bs) /\ Len(fs) \in Nat
  BY TopFile DEF FilesInv
<1>2. /\ Front(fs) \in Seq(Flags) /\ Len(Front(fs)) = Len(fs) - 1
      /\ \A i \in 1 .. Len(fs) - 1 : Front(fs)[i] = fs[i]
  BY <1>1, FrontElements
<1>3. /\ Front(bs) \in Seq(Seq(Block)) /\ Len(Front(bs)) = Len(fs) - 1
      /\ \A i \in 1 .. Len(fs) - 1 : Front(bs)[i] = bs[i]
  BY <1>1, FrontElements
<1>4. \A i \in 1 .. Len(fs) - 1 : i \in 1 .. Len(fs)
  BY <1>1
<1>5. \A i \in 1 .. (Len(fs) - 1) - 1 : i \in 1 .. Len(fs) - 1
  BY <1>1
<1> QED BY <1>1, <1>2, <1>3, <1>4, <1>5 DEF FilesInv

\* A line counts iff the flags of the innermost file are down.
LEMMA FlagsTell ==
  ASSUME FilesInv(frames, blocks)
  PROVE  Counts <=> ~ Skips(Top)
<1>1. ASSUME NEW i \in DOMAIN blocks, NEW j \in DOMAIN blocks[i]
      PROVE  blocks[i][j].sort \in {"locale", "var"}
  <2>1. blocks[i] \in Seq(Block)
    BY TopFile
  <2>2. blocks[i][j] \in Block
    BY <2>1, ElementOfSeq
  <2> QED BY <2>2 DEF Block
<1>2. ASSUME NEW i \in DOMAIN blocks
      PROVE  Skips(frames[i]) <=> \E j \in DOMAIN blocks[i] : ~ blocks[i][j].holds
  <2>1. StandFor(frames[i], blocks[i])
    BY TopFile DEF FilesInv
  <2> QED BY <1>1, <2>1 DEF StandFor, Fails, Skips
<1>3. Counts <=> \A i \in DOMAIN blocks : ~ Skips(frames[i])
  BY <1>2 DEF Counts
<1>4. \A i \in DOMAIN blocks : i = Len(frames) \/ i \in 1 .. Len(frames) - 1
  BY TopFile
<1>5. Len(frames) \in DOMAIN blocks
  BY TopFile
<1> QED BY <1>3, <1>4, <1>5 DEF FilesInv, Top, Last

-----------------------------------------------------------------------------
\* One line more is loaded.

LEMMA LineLoads ==
  ASSUME NEW content \in Seq(Line), NEW l \in Line
  PROVE  LoadAll(EmptyDatabase, Append(content, l)) = InsertLine(LoadAll(EmptyDatabase, content), l)
<1> DEFINE n == Len(content)
           longer == Append(content, l)
           Sets(c, k) == {i \in DOMAIN c : Inserts(c[i]) /\ KeyOf(c[i]) = k}
           Latest(c, k) == CHOOSE i \in Sets(c, k) : \A j \in Sets(c, k) : j <= i
<1>1. /\ n \in Nat /\ DOMAIN content = 1 .. n /\ DOMAIN longer = 1 .. n + 1
      /\ longer[n + 1] = l /\ \A i \in 1 .. n : longer[i] = content[i]
  BY AppendProperties
<1>2. \A c, k : LoadAll(EmptyDatabase, c) =
                  [key \in Key |-> IF Sets(c, key) = {} THEN Absent ELSE c[Latest(c, key)].def]
  BY DEF LoadAll, EmptyDatabase
<1> HIDE DEF longer, n
<1>3. ASSUME NEW k \in Key
      PROVE  LoadAll(EmptyDatabase, longer)[k] = InsertLine(LoadAll(EmptyDatabase, content), l)[k]
  <2>1. CASE Inserts(l) /\ KeyOf(l) = k
    <3>1. n + 1 \in Sets(longer, k) /\ \A j \in Sets(longer, k) : j \in 1 .. n + 1
      BY <1>1, <2>1
    <3>2. Latest(longer, k) \in Sets(longer, k) /\ \A j \in Sets(longer, k) : j <= Latest(longer, k)
      <4>1. \E i \in Sets(longer, k) : \A j \in Sets(longer, k) : j <= i
        BY <1>1, <3>1
      <4> HIDE DEF Sets
      <4> QED BY <4>1
    <3> HIDE DEF Latest, Sets
    <3>3. Latest(longer, k) = n + 1
      <4>1. Latest(longer, k) \in 1 .. n + 1 /\ n + 1 <= Latest(longer, k)
        BY <3>1, <3>2
      <4> QED BY <1>1, <4>1
    <3>4. LoadAll(EmptyDatabase, longer)[k] = l.def
      BY <1>1, <1>2, <3>1, <3>3
    <3> QED BY <1>2, <2>1, <3>4 DEF InsertLine
  <2>2. CASE ~ (Inserts(l) /\ KeyOf(l) = k)
    <3>1. Sets(longer, k) = Sets(content, k)
      BY <1>1, <2>2
    <3>2. Latest(longer, k) = Latest(content, k)
      BY <3>1
    <3>3. Sets(content, k) # {} => Latest(content, k) \in 1 .. n
      <4> SUFFICES ASSUME Sets(content, k) # {} PROVE Latest(content, k) \in 1 .. n
        OBVIOUS
      <4>1. Sets(content, k) \in SUBSET (1 .. n)
        BY <1>1
      <4> HIDE DEF Sets
      <4>2. \E i \in Sets(content, k) : \A j \in Sets(content, k) : j <= i
        BY <1>1, <4>1, GreatestIndex
      <4> QED BY <4>1, <4>2
    <3> HIDE DEF Latest, Sets
    <3>4. LoadAll(EmptyDatabase, longer)[k] = LoadAll(EmptyDatabase, content)[k]
      BY <1>1, <1>2, <3>1, <3>2, <3>3
    <3>5. InsertLine(LoadAll(EmptyDatabase, content), l)[k] = LoadAll(EmptyDatabase, content)[k]
      BY <1>2, <2>2 DEF InsertLine
    <3> QED BY <3>4, <3>5
  <2> QED BY <2>1, <2>2
<1>4. LoadAll(EmptyDatabase, longer) = [k \in Key |-> LoadAll(EmptyDatabase, longer)[k]]
  BY <1>2
<1>5. InsertLine(LoadAll(EmptyDatabase, content), l) =
        [k \in Key |-> InsertLine(LoadAll(EmptyDatabase, content), l)[k]]
  BY <1>2 DEF InsertLine
<1>6. LoadAll(EmptyDatabase, longer) = InsertLine(LoadAll(EmptyDatabase, content), l)
  BY <1>3, <1>4, <1>5
<1> QED BY <1>6 DEF longer

-----------------------------------------------------------------------------
\* The invariant holds at first and every step preserves it.

LEMMA LoaderInit == ASSUME LoaderAssumption, Init PROVE LoaderInv
<1>1. FilesInv(frames, blocks)
  <2>1. frames = <<Opened>> /\ blocks = <<<<>>>>
    BY DEF Init
  <2>2. frames \in Seq(Flags) /\ blocks \in Seq(Seq(Block)) /\ Len(frames) = 1 /\ Len(blocks) = 1
    BY <2>1, NoBlocks
  <2>3. frames[1] = Opened /\ blocks[1] = <<>>
    BY <2>1
  <2> QED BY <2>2, <2>3, NoBlocks DEF FilesInv
<1>2. ValuesInv
  BY DEF Init, ValuesInv, Environment, LoaderAssumption, LookupVar
<1>3. LoadedInv
  <2>1. effective = <<>> /\ listed = <<>> /\ db = EmptyDatabase
    BY DEF Init
  <2>2. LoadAll(EmptyDatabase, <<>>) = EmptyDatabase
    BY DEF LoadAll, EmptyDatabase
  <2> QED BY <2>1, <2>2 DEF LoadedInv
<1> QED BY <1>1, <1>2, <1>3 DEF LoaderInv

LEMMA NothingLoads ==
  ASSUME ValuesInv, LoadedInv, NothingLoaded, UNCHANGED process
  PROVE  ValuesInv' /\ LoadedInv'
BY DEF ValuesInv, LoadedInv, NothingLoaded, LookupVar

\* A directive that begins a block puts up the flag of its sort if the block does not hold.
LEMMA BeginSteps ==
  ASSUME LoaderInv, NEW sort \in {"locale", "var"}, NEW holds \in BOOLEAN, Begins(sort, holds), plain',
         frames' = ReplaceLast(frames, IF sort = "locale" THEN [Top EXCEPT !.wrongLocale = ~ holds]
                                       ELSE [Top EXCEPT !.wrongVar = ~ holds])
  PROVE  plain /\ FilesInv(frames', blocks')
<1> DEFINE b == Append(Last(blocks), [sort |-> sort, holds |-> holds])
           f == IF sort = "locale" THEN [Top EXCEPT !.wrongLocale = ~ holds] ELSE [Top EXCEPT !.wrongVar = ~ holds]
<1>1. plain /\ \A j \in DOMAIN Last(blocks) : Last(blocks)[j].sort # sort
  BY DEF Begins
<1>2. FilesInv(frames, blocks)
  BY <1>1 DEF LoaderInv
<1>3. Top \in Flags /\ Last(blocks) \in Seq(Block) /\ StandFor(Top, Last(blocks))
  BY <1>2, TopFile DEF Top
<1>4. b \in Seq(Block) /\ StandFor(f, b)
  BY <1>1, <1>3, BlockBegins
<1>5. f \in Flags
  BY <1>3 DEF Flags
<1>6. frames' = ReplaceLast(frames, f) /\ blocks' = ReplaceLast(blocks, b)
  BY DEF Begins
<1> HIDE DEF f, b
<1> QED BY <1>1, <1>2, <1>4, <1>5, <1>6, TopChanges

LEMMA EndSteps ==
  ASSUME LoaderInv, NEW sort \in {"locale", "var"}, Ends(sort), plain' = plain, plain',
         frames' = ReplaceLast(frames, IF sort = "locale" THEN [Top EXCEPT !.wrongLocale = FALSE]
                                       ELSE [Top EXCEPT !.wrongVar = FALSE])
  PROVE  plain /\ FilesInv(frames', blocks')
<1> DEFINE b == Last(blocks)
           f == IF sort = "locale" THEN [Top EXCEPT !.wrongLocale = FALSE] ELSE [Top EXCEPT !.wrongVar = FALSE]
<1>1. plain /\ FilesInv(frames, blocks)
  BY DEF LoaderInv
<1>2. Top \in Flags /\ b \in Seq(Block) /\ StandFor(Top, b)
  BY <1>1, TopFile DEF Top
<1>3. Left(b, sort) \in Seq(Block) /\ StandFor(f, Left(b, sort))
  BY <1>2, BlockEnds
<1>4. f \in Flags
  BY <1>2 DEF Flags
<1>5. frames' = ReplaceLast(frames, f)
  OBVIOUS
<1>6. FilesInv(frames', ReplaceLast(blocks, Left(b, sort)))
  <2> HIDE DEF f, b
  <2> QED BY <1>1, <1>3, <1>4, <1>5, TopChanges
<1>7. blocks' = ReplaceLast(blocks, Left(b, sort))
  <2>1. CASE Open(b, sort) = {}
    <3>1. blocks' = blocks /\ Left(b, sort) = b
      BY <2>1 DEF Ends, Left, Open
    <3>2. ReplaceLast(blocks, Last(blocks)) = blocks
      <4>1. blocks \in Seq(Seq(Block))
        BY <1>1 DEF FilesInv
      <4> QED BY <4>1 DEF ReplaceLast, Last
    <3> QED BY <3>1, <3>2
  <2>2. CASE Open(b, sort) # {}
    BY <2>2 DEF Ends, Left, Open, LastOpen
  <2> QED BY <2>1, <2>2
<1> QED BY <1>1, <1>6, <1>7

LEMMA VariableSet ==
  ASSUME LoaderAssumption, LoaderInv, NEW l \in Lines, Set(l), plain'
  PROVE  LoaderInv'
<1> DEFINE x == CHOOSE x \in l.vals : TRUE
<1>1. plain /\ FilesInv(frames, blocks) /\ ValuesInv /\ LoadedInv /\ UNCHANGED <<frames, blocks>>
  BY DEF LoaderInv, Set
<1>2. l.var \in Variables /\ x \in VariableValues /\ x # Unset
  <2>1. l.var \in Variables /\ l.vals # {} /\ l.vals \subseteq VariableValues
    BY DEF Set, Reads, LoaderAssumption
  <2>2. \E y : y \in l.vals
    BY <2>1
  <2>3. x \in l.vals
    BY <2>2
  <2> QED BY <2>1, <2>3 DEF LoaderAssumption
<1>3. Counts <=> ~ Skips(Top)
  BY <1>1, FlagsTell
<1>4. LookupVar(l.var) = values[l.var] /\ LookupVar(l.var) = IF env[l.var] # Unset THEN env[l.var] ELSE process[l.var]
  BY <1>1, <1>2 DEF ValuesInv, LookupVar
<1>5. ValuesInv'
  <2>1. CASE Counts /\ values[l.var] = Unset
    <3>1. env' = [env EXCEPT ![l.var] = x] /\ values' = [values EXCEPT ![l.var] = x] /\ process' = process
      BY <1>3, <1>4, <2>1 DEF Set, Reads
    <3> HIDE DEF x
    <3>2. env' \in Environment /\ values' \in Environment /\ process' \in Environment
      BY <1>1, <1>2, <3>1 DEF ValuesInv, Environment
    <3>3. ASSUME NEW v \in Variables PROVE LookupVar(v)' = values'[v]
      <4>1. CASE v = l.var
        BY <1>1, <1>2, <3>1, <4>1 DEF ValuesInv, Environment, LookupVar
      <4>2. CASE v # l.var
        BY <1>1, <1>2, <3>1, <4>2 DEF ValuesInv, Environment, LookupVar
      <4> QED BY <4>1, <4>2
    <3> QED BY <3>2, <3>3 DEF ValuesInv
  <2>2. CASE ~ (Counts /\ values[l.var] = Unset)
    <3>1. UNCHANGED <<process, env, values>>
      BY <1>3, <1>4, <2>2 DEF Set, Reads
    <3> QED BY <1>1, <3>1 DEF ValuesInv, LookupVar
  <2> QED BY <2>1, <2>2
<1>6. LoadedInv'
  BY <1>1 DEF Set, LoadedInv
<1> QED BY <1>1, <1>5, <1>6 DEF LoaderInv

LEMMA LineAdded ==
  ASSUME LoaderAssumption, LoaderInv, NEW l \in Lines, UnitList(l) \/ Definition(l), plain'
  PROVE  LoaderInv'
<1>1. plain /\ FilesInv(frames, blocks) /\ ValuesInv /\ LoadedInv /\ UNCHANGED <<process, env, values, frames, blocks>>
  BY DEF LoaderInv, UnitList, Definition, Reads
<1>2. Counts <=> ~ Skips(Top)
  BY <1>1, FlagsTell
<1>3. Entry(l) \in Line /\ (l.d = "unitlist" => ~ Inserts(Entry(l)))
  BY DEF UnitList, Definition, Reads, LoaderAssumption, Entry, Line, Inserts
<1>4. ValuesInv'
  BY <1>1 DEF ValuesInv, LookupVar
<1>5. LoadedInv'
  <2>1. CASE ~ Counts
    BY <1>1, <1>2, <2>1 DEF UnitList, Definition, Effect, LoadedInv
  <2>2. CASE Counts
    <3>1. effective' = Append(effective, Entry(l)) /\ listed' = Append(listed, Entry(l))
      BY <1>2, <2>2 DEF UnitList, Definition, Effect
    <3>2. db' = InsertLine(db, Entry(l))
      BY <1>2, <1>3, <2>2 DEF UnitList, Definition, Reads, InsertLine
    <3>3. effective \in Seq(Line) /\ listed = effective /\ db = LoadAll(EmptyDatabase, effective)
      BY <1>1 DEF LoadedInv
    <3>4. Append(effective, Entry(l)) \in Seq(Line)
      BY <1>3, <3>3, AppendProperties
    <3>5. db' = LoadAll(EmptyDatabase, Append(effective, Entry(l)))
      BY <1>3, <3>2, <3>3, LineLoads
    <3> QED BY <3>1, <3>3, <3>4, <3>5 DEF LoadedInv
  <2> QED BY <2>1, <2>2
<1> QED BY <1>1, <1>4, <1>5 DEF LoaderInv

LEMMA LoaderStep == ASSUME LoaderAssumption, LoaderInv, [Next]_vars PROVE LoaderInv'
<1> SUFFICES ASSUME plain' PROVE LoaderInv'
  BY DEF LoaderInv
<1>1. ASSUME NEW l \in Lines, Locale(l) PROVE LoaderInv'
  <2>1. frames' = ReplaceLast(frames, [Top EXCEPT !.wrongLocale = ~ (l.name = "en_US")])
    BY <1>1 DEF Locale
  <2>2. Begins("locale", l.name = "en_US") /\ NothingLoaded /\ UNCHANGED process
    BY <1>1 DEF Locale, Reads
  <2>3. plain /\ FilesInv(frames', blocks')
    BY <2>1, <2>2, BeginSteps
  <2> QED BY <2>2, <2>3, NothingLoads DEF LoaderInv
<1>2. ASSUME NEW l \in Lines, EndLocale(l) PROVE LoaderInv'
  <2>1. /\ frames' = ReplaceLast(frames, [Top EXCEPT !.wrongLocale = FALSE])
        /\ Ends("locale") /\ NothingLoaded /\ UNCHANGED plain /\ UNCHANGED process
    BY <1>2 DEF EndLocale, Reads
  <2>2. plain /\ FilesInv(frames', blocks')
    BY <2>1, EndSteps
  <2> QED BY <2>1, <2>2, NothingLoads DEF LoaderInv
<1>3. ASSUME NEW l \in Lines, Utf8(l) PROVE LoaderInv'
  <2>1. UNCHANGED <<frames, blocks, plain, process>> /\ NothingLoaded
    BY <1>3 DEF Utf8, Reads
  <2> QED BY <2>1, NothingLoads DEF LoaderInv
<1>4. ASSUME NEW l \in Lines, Var(l) PROVE LoaderInv'
  <2> DEFINE holds == values[l.var] # Unset /\ values[l.var] \in l.vals
  <2>1. plain
    BY <1>4 DEF Var, Begins
  <2>2. LookupVar(l.var) = values[l.var]
    BY <1>4, <2>1 DEF Var, Reads, LoaderAssumption, LoaderInv, ValuesInv
  <2>3. frames' = ReplaceLast(frames, [Top EXCEPT !.wrongVar = ~ holds])
    <3>1. (LookupVar(l.var) = Unset \/ LookupVar(l.var) \notin l.vals) = ~ holds
      BY <2>2
    <3> QED BY <1>4, <3>1 DEF Var
  <2>4. Begins("var", holds) /\ NothingLoaded /\ UNCHANGED process /\ holds \in BOOLEAN
    BY <1>4 DEF Var, Reads
  <2> HIDE DEF holds
  <2>5. FilesInv(frames', blocks')
    BY <2>3, <2>4, BeginSteps
  <2> QED BY <2>1, <2>4, <2>5, NothingLoads DEF LoaderInv
<1>5. ASSUME NEW l \in Lines, VarNot(l) PROVE LoaderInv'
  <2> DEFINE holds == values[l.var] # Unset /\ values[l.var] \notin l.vals
  <2>1. plain
    BY <1>5 DEF VarNot, Begins
  <2>2. LookupVar(l.var) = values[l.var]
    BY <1>5, <2>1 DEF VarNot, Reads, LoaderAssumption, LoaderInv, ValuesInv
  <2>3. frames' = ReplaceLast(frames, [Top EXCEPT !.wrongVar = ~ holds])
    <3>1. (LookupVar(l.var) = Unset \/ LookupVar(l.var) \in l.vals) = ~ holds
      BY <2>2
    <3> QED BY <1>5, <3>1 DEF VarNot
  <2>4. Begins("var", holds) /\ NothingLoaded /\ UNCHANGED process /\ holds \in BOOLEAN
    BY <1>5 DEF VarNot, Reads
  <2> HIDE DEF holds
  <2>5. FilesInv(frames', blocks')
    BY <2>3, <2>4, BeginSteps
  <2> QED BY <2>1, <2>4, <2>5, NothingLoads DEF LoaderInv
<1>6. ASSUME NEW l \in Lines, EndVar(l) PROVE LoaderInv'
  <2>1. /\ frames' = ReplaceLast(frames, [Top EXCEPT !.wrongVar = FALSE])
        /\ Ends("var") /\ NothingLoaded /\ UNCHANGED plain /\ UNCHANGED process
    BY <1>6 DEF EndVar, Reads
  <2>2. plain /\ FilesInv(frames', blocks')
    BY <2>1, EndSteps
  <2> QED BY <2>1, <2>2, NothingLoads DEF LoaderInv
<1>7. ASSUME NEW l \in Lines, Set(l) PROVE LoaderInv'
  BY <1>7, VariableSet
<1>8. ASSUME NEW l \in Lines, UnitList(l) \/ Definition(l) PROVE LoaderInv'
  BY <1>8, LineAdded
<1>9. ASSUME NEW l \in Lines, Include(l) PROVE LoaderInv'
  <2>1. plain /\ NothingLoaded /\ UNCHANGED process
    BY <1>9 DEF Include, Reads
  <2>2. FilesInv(frames, blocks)
    BY <2>1 DEF LoaderInv
  <2>3. FilesInv(frames', blocks')
    <3>1. CASE Skips(Top)
      BY <1>9, <2>2, <3>1 DEF Include
    <3>2. CASE ~ Skips(Top)
      <4>1. frames' = Append(frames, Opened) /\ blocks' = Append(blocks, <<>>)
        BY <1>9, <3>2 DEF Include
      <4> QED BY <2>2, <3>2, <4>1, FileIncluded DEF Top
    <3> QED BY <3>1, <3>2
  <2> QED BY <2>1, <2>3, NothingLoads DEF LoaderInv
<1>10. CASE EndOfFile
  <2>1. plain /\ NothingLoaded /\ UNCHANGED process /\ Len(frames) > 1
        /\ frames' = Front(frames) /\ blocks' = Front(blocks)
    BY <1>10 DEF EndOfFile
  <2>2. FilesInv(frames', blocks')
    BY <2>1, FileLeft DEF LoaderInv
  <2> QED BY <2>1, <2>2, NothingLoads DEF LoaderInv
<1>11. CASE UNCHANGED vars
  BY <1>11 DEF vars, LoaderInv, ValuesInv, LoadedInv, LookupVar
<1> QED BY <1>1, <1>2, <1>3, <1>4, <1>5, <1>6, <1>7, <1>8, <1>9, <1>10, <1>11 DEF Next, Done

-----------------------------------------------------------------------------
\* Whatever the text says and however deep its includes go, while no block is opened inside
\* one of its own sort exactly the lines are loaded whose blocks all hold, and the database
\* and the variables are what those lines make of them (load_core).
THEOREM LoadsExactly ==
  ASSUME LoaderAssumption
  PROVE  Spec => [](LoadsWhatCounts /\ DatabaseMatches)
<1>1. Init => LoaderInv
  BY LoaderInit
<1>2. LoaderInv /\ [Next]_vars => LoaderInv'
  BY LoaderStep
<1>3. LoaderInv => LoadsWhatCounts /\ DatabaseMatches
  BY DEF LoaderInv, LoadsWhatCounts, DatabaseMatches, LoadedInv, ValuesInv
<1> QED BY <1>1, <1>2, <1>3, PTL DEF Spec
=============================================================================
