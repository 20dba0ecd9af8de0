------------------------- MODULE FunctionDefinitions -------------------------
(***************************************************************************)
(* How the text of a nonlinear function becomes a FunctionDef (database.rs:*)
(* insert_function, parse_func_metadata, parse_intervals_multi,            *)
(* parse_function_def).                                                    *)
(*                                                                         *)
(* A text is a sequence of tokens without the space around them: brackets, *)
(* commas, semicolons, stars, the keywords noerror, units (for "units=["), *)
(* domain and range (for "domain=" and "range="), numbers and words.  It   *)
(* is read in place: at is where the unread rest begins, keywords (a       *)
(* history of the run, the program has none) the places of the keywords    *)
(* read so far.                                                            *)
(***************************************************************************)
EXTENDS Integers, Sequences, FiniteSets

CONSTANTS Texts,      \* sequences of tokens
          Token,
          Number,     \* the value of each token that str::parse takes for a number
          Arities,    \* numbers of parameters
          NoBound, Nothing,
          Values      \* numbers to test intervals with

VARIABLES text, arity, at, keywords, units, inverseUnit, domain, range, noerror, stage, forward, reverse
meta == <<units, inverseUnit, domain, range, noerror>>
vars == <<text, arity, at, keywords, meta, stage, forward, reverse>>

Opening == {"[", "("}
Closing == {"]", ")"}
Interval == [min : Int \cup {NoBound}, max : Int \cup {NoBound}, minOpen : BOOLEAN, maxOpen : BOOLEAN]
FunctionsAssumption ==
  /\ Texts \subseteq Seq(Token) /\ Arities \subseteq Nat /\ Values \subseteq Int
  /\ DOMAIN Number \subseteq Token /\ \A n \in DOMAIN Number : Number[n] \in Int
  /\ NoBound \notin Int /\ Nothing \notin Nat \cup Interval \cup Seq(Token)

Greater(m, n) == IF m >= n THEN m ELSE n
Is(s, k, T) == k \in DOMAIN s /\ s[k] \in T

\* The first place in k .. n that holds a token of T; 0 if there is none.
First(s, k, n, T) ==
  LET found == {i \in k .. n : Is(s, i, T)} IN
  IF found = {} THEN 0 ELSE CHOOSE i \in found : \A j \in found : i <= j

-----------------------------------------------------------------------------
\* parse_intervals_multi.  A group is an opening bracket with everything up to the first
\* closing bracket of any kind: [sqrt(2),3] ends behind the 2.
Closer(s, k) == First(s, k, Len(s), Closing)
IsGroup(s, k) == Is(s, k, Opening) /\ Closer(s, k) # 0

\* A comma behind a group goes with it when another bracket opens behind the comma.
Behind(s, k) ==
  LET next == Closer(s, k) + 1 IN IF Is(s, next, {","}) /\ Is(s, next + 1, Opening) THEN next + 1 ELSE next

\* Where the text goes on behind n groups from k on, or behind all of them if there are
\* fewer: groups are taken as long as there are any, whatever they belong to.
Groups(s, k) ==
  LET g[n \in Nat] == IF n = 0 THEN k ELSE IF IsGroup(s, g[n - 1]) THEN Behind(s, g[n - 1]) ELSE g[n - 1] IN g

\* A bound that is no number counts as a missing one; brackets without a comma give no
\* interval.
Bound(s, a, b) == IF a = b /\ Is(s, a, DOMAIN Number) THEN Number[s[a]] ELSE NoBound
Parsed(s, k) ==
  LET close == Closer(s, k)
      comma == First(s, k, close, {","})
  IN  IF comma = 0 THEN Nothing
      ELSE [min |-> Bound(s, k + 1, comma - 1), max |-> Bound(s, comma + 1, close - 1),
            minOpen |-> s[k] = "(", maxOpen |-> s[close] = ")"]

\* Variant: open lower bounds are taken for closed ones.
ContainsLowest(interval, value) ==
  /\ interval.min # NoBound => value >= interval.min
  /\ interval.max # NoBound => IF interval.maxOpen THEN value < interval.max ELSE value <= interval.max

Contains(interval, value) ==
  /\ interval.min # NoBound => IF interval.minOpen THEN value > interval.min ELSE value >= interval.min
  /\ interval.max # NoBound => IF interval.maxOpen THEN value < interval.max ELSE value <= interval.max

-----------------------------------------------------------------------------
\* The list of units=[..] at k: its end, the semicolon in front of the unit of the inverse
\* (or its end), where its parts end, and the parts.
ListEnd(s, k) == First(s, k, Len(s), {"]"})
UnitsEnd(s, k) == LET semicolon == First(s, k, ListEnd(s, k), {";"}) IN IF semicolon = 0 THEN ListEnd(s, k) ELSE semicolon
PartEnds(s, k) ==
  LET e[i \in Nat] == IF i = 0 THEN k
                      ELSE LET comma == First(s, e[i - 1] + 1, UnitsEnd(s, k), {","}) IN
                           IF comma = 0 THEN UnitsEnd(s, k) ELSE comma
  IN  e
Part(s, k, i) == SubSeq(s, PartEnds(s, k)[i - 1] + 1, PartEnds(s, k)[i] - 1)
InversePart(s, k) == SubSeq(s, UnitsEnd(s, k) + 1, ListEnd(s, k) - 1)

\* Variant: a star takes the unit away.
GivenAnew(part, unit) == IF part = <<>> THEN unit ELSE IF part = <<"*">> THEN Nothing ELSE part

\* A blank or a star keeps the unit there is.
Given(part, unit) == IF part \in {<<>>, <<"*">>} THEN unit ELSE part

-----------------------------------------------------------------------------
Init ==
  /\ text \in Texts /\ arity \in Arities /\ at = 1 /\ keywords = <<>>
  /\ units = [i \in 1 .. arity |-> Nothing] /\ inverseUnit = Nothing
  /\ domain = [i \in 1 .. arity |-> Nothing] /\ range = Nothing /\ noerror = FALSE
  /\ stage = "metadata" /\ forward = <<>> /\ reverse = <<>>

\* units=[ that is never closed is no keyword.
Keyword(s, k) == Is(s, k, {"noerror", "domain", "range"}) \/ (Is(s, k, {"units"}) /\ ListEnd(s, k) # 0)

Reads(t) ==
  /\ stage = "metadata" /\ Keyword(text, at) /\ text[at] = t /\ keywords' = Append(keywords, at)
  /\ UNCHANGED <<text, arity, stage, forward, reverse>>

Noerror ==
  /\ Reads("noerror") /\ at' = at + 1 /\ noerror' = TRUE
  /\ UNCHANGED <<units, inverseUnit, domain, range>>

Units ==
  /\ Reads("units") /\ at' = ListEnd(text, at) + 1
  /\ units' = [i \in 1 .. arity |-> Given(Part(text, at, i), units[i])]
  /\ inverseUnit' = Given(InversePart(text, at), inverseUnit)
  /\ UNCHANGED <<domain, range, noerror>>

\* A parameter for which there is a group gets what that says, even if it is no interval.
Domain ==
  /\ Reads("domain") /\ at' = Groups(text, at + 1)[arity]
  /\ domain' = [i \in 1 .. arity |-> LET k == Groups(text, at + 1)[i - 1] IN IF IsGroup(text, k) THEN Parsed(text, k) ELSE domain[i]]
  /\ UNCHANGED <<units, inverseUnit, range, noerror>>

Range_ ==
  /\ Reads("range") /\ at' = Groups(text, at + 1)[1]
  /\ range' = IF IsGroup(text, at + 1) THEN Parsed(text, at + 1) ELSE Nothing
  /\ UNCHANGED <<units, inverseUnit, domain, noerror>>

\* find_formula_sep: the first semicolon outside of square brackets; one that closes
\* nothing does not count.
Opens == {"[", "units"}
Closes == {"]"}
Depths(s) ==
  LET d[i \in 0 .. Len(s)] ==
        IF i = 0 THEN 0
        ELSE IF s[i] \in Opens THEN d[i - 1] + 1
        ELSE IF s[i] \in Closes THEN Greater(0, d[i - 1] - 1) ELSE d[i - 1]
  IN  d

\* Variant: brackets are not looked at.
SeparatorAnywhere(s) ==
  LET found == {i \in DOMAIN s : s[i] = ";"} IN
  IF found = {} THEN 0 ELSE CHOOSE i \in found : \A j \in found : i <= j

Separator(s) ==
  LET found == {i \in DOMAIN s : s[i] = ";" /\ Depths(s)[i - 1] = 0} IN
  IF found = {} THEN 0 ELSE CHOOSE i \in found : \A j \in found : i <= j

\* parse_function_def: a function without a formula is not inserted; what its name had
\* before stays.
Formula == SubSeq(text, at, Len(text))
Insert ==
  /\ stage = "metadata" /\ ~Keyword(text, at)
  /\ LET i == Separator(Formula) IN
     /\ forward' = IF i = 0 THEN Formula ELSE SubSeq(Formula, 1, i - 1)
     /\ reverse' = IF i = 0 THEN Nothing ELSE SubSeq(Formula, i + 1, Len(Formula))
  /\ stage' = IF forward' = <<>> THEN "refused" ELSE "inserted"
  /\ UNCHANGED <<text, arity, at, keywords, meta>>

Done == stage # "metadata" /\ UNCHANGED vars

Next == Noerror \/ Units \/ Domain \/ Range_ \/ Insert \/ Done
Spec == Init /\ [][Next]_vars

-----------------------------------------------------------------------------
\* What the last keyword that gives something gives.
LastGiven(Gives(_), Value(_)) ==
  LET giving == {j \in DOMAIN keywords : Gives(keywords[j])} IN
  IF giving = {} THEN Nothing ELSE Value(keywords[CHOOSE j \in giving : \A l \in giving : l <= j])

UnitOf(i) == LET gives(k) == text[k] = "units" /\ Part(text, k, i) \notin {<<>>, <<"*">>}
                 value(k) == Part(text, k, i)
             IN  LastGiven(gives, value)
InverseUnit == LET gives(k) == text[k] = "units" /\ InversePart(text, k) \notin {<<>>, <<"*">>}
                   value(k) == InversePart(text, k)
               IN  LastGiven(gives, value)

\* The group that counts for a parameter, and for the inverse.
GroupOf(i) == LET gives(k) == text[k] = "domain" /\ IsGroup(text, Groups(text, k + 1)[i - 1])
                  value(k) == Groups(text, k + 1)[i - 1]
              IN  LastGiven(gives, value)
RangeGroup == LET gives(k) == text[k] = "range"
                  value(k) == IF IsGroup(text, k + 1) THEN k + 1 ELSE Nothing
              IN  LastGiven(gives, value)

\* Keywords may come in any order and repeatedly (parse_func_metadata): a parameter has the
\* unit that was last given to it, and so has the inverse.
UnitsAreLastGiven ==
  stage = "inserted" => /\ \A i \in 1 .. arity : units[i] = UnitOf(i)
                        /\ inverseUnit = InverseUnit
                        /\ noerror <=> \E j \in DOMAIN keywords : text[keywords[j]] = "noerror"

\* A value passes the check of a parameter iff it keeps every bound that is a number in the
\* group of brackets that counts for it: the one that stands in its place behind the last
\* domain= with so many groups behind it, be they meant as intervals or the beginning of
\* the formula; likewise for the inverse and the one behind the last range=.  Open bounds
\* exclude; bounds that are no number exclude nothing, nor does a group without a comma
\* (parse_intervals_multi, Interval::contains).
Keeps(value, k) ==
  LET close == Closer(text, k)
      comma == First(text, k, close, {","})
  IN  comma # 0 =>
        /\ \A n \in DOMAIN Number : SubSeq(text, k + 1, comma - 1) = <<n>> =>
             value > Number[n] \/ (value = Number[n] /\ text[k] # "(")
        /\ \A n \in DOMAIN Number : SubSeq(text, comma + 1, close - 1) = <<n>> =>
             value < Number[n] \/ (value = Number[n] /\ text[close] # ")")
Checks(interval, group, value) == (interval = Nothing \/ Contains(interval, value)) <=> (group = Nothing \/ Keeps(value, group))

BoundsAreKept ==
  stage = "inserted" => \A v \in Values : /\ \A i \in 1 .. arity : Checks(domain[i], GroupOf(i), v)
                                         /\ Checks(range, RangeGroup, v)

\* What a keyword takes out of the text: itself, its list, and the groups of brackets that
\* follow it, as many as there are parameters, or one.
MostGroups(k) == CASE text[k] = "domain" -> arity [] text[k] = "range" -> 1 [] OTHER -> 0
PieceEnd(k) == IF text[k] = "units" THEN ListEnd(text, k) + 1 ELSE Groups(text, k + 1)[MostGroups(k)]

\* What is evaluated is the text behind the keywords, each of which begins where the piece
\* of the one before it ends, cut at the one semicolon that is in no square brackets
\* (find_formula_sep): nothing else of the text is lost, no keyword is left at the front of
\* it, and the formula of the function itself is cut nowhere else.
Counted(s, T, i, j) == Cardinality({k \in i .. j : s[k] \in T})
InBrackets(s, n) ==
  \E i \in 1 .. n - 1 : s[i] \in Opens /\ \A j \in i .. n - 1 : Counted(s, Opens, i, j) > Counted(s, Closes, i, j)
Begins(j) == IF j = 1 THEN 1 ELSE PieceEnd(keywords[j - 1])
FormulaIsWhole ==
  stage = "inserted" =>
    LET all == IF reverse = Nothing THEN forward ELSE forward \o <<";">> \o reverse
        n == Len(keywords)
    IN  /\ \A j \in 1 .. n : keywords[j] = Begins(j) /\ Keyword(text, keywords[j])
        /\ ~Keyword(text, Begins(n + 1)) /\ all = SubSeq(text, Begins(n + 1), Len(text))
        /\ \A i \in DOMAIN forward : forward[i] = ";" => InBrackets(forward, i)
        /\ reverse # Nothing => ~InBrackets(all, Len(forward) + 1)

\* Only intervals are read as intervals: parentheses without a comma, which are none, stay
\* where they are.  The code takes them when domain= has fewer intervals than the function
\* has parameters, or range= has none: parse_intervals_multi looks only for brackets.
ParenthesesStay ==
  stage = "inserted" =>
    \A j \in DOMAIN keywords : \A n \in 1 .. MostGroups(keywords[j]) :
      LET k == Groups(text, keywords[j] + 1)[n - 1] IN IsGroup(text, k) /\ text[k] = "(" => First(text, k, Closer(text, k), {","}) # 0
=============================================================================
