------------------------------- MODULE Tables --------------------------------
(***************************************************************************)
(* Piecewise linear functions given by a table of points (TableDef in      *)
(* database.rs).  Numbers are fractions, so that interpolation is exact;   *)
(* what f64 adds is that a bound of magnitude 2 or more swallows the       *)
(* tolerance EPSILON, and that 0 divided by 0 is no number.                *)
(***************************************************************************)
EXTENDS Integers, Sequences, FiniteSets

CONSTANTS Texts,    \* the texts of tables, sequences of numbers and of words that are none
          NotANumber,
          Inputs, Outputs   \* fractions that are looked up

TablesAssumption ==
  /\ NotANumber \notin Int /\ Texts \subseteq Seq(Int \cup {NotANumber})
  /\ Inputs \cup Outputs \subseteq [num : Int, den : Nat \ {0}]

VARIABLES text, points, stage, query, answer
vars == <<text, points, stage, query, answer>>

-----------------------------------------------------------------------------
\* Fractions [num, den], den positive.
Fraction(n, d) == IF d < 0 THEN [num |-> -n, den |-> -d] ELSE [num |-> n, den |-> d]
Whole(n) == Fraction(n, 1)
AtMost(f, g) == f.num * g.den <= g.num * f.den
Same(f, g) == f.num * g.den = g.num * f.den

\* a + (v - c) * (b - a) / (d - c): where v is between c and d, that far from a to b.
Between(v, c, d, a, b) ==
  Fraction(a * v.den * (d - c) + (v.num - c * v.den) * (b - a), v.den * (d - c))

-----------------------------------------------------------------------------
\* insert_table: words are dropped, numbers paired off, a last odd one ignored, and the
\* pairs sorted by their inputs, equal ones in the order of the text.
IsNumber(w) == w # NotANumber
NumbersIn(t) ==
  LET upTo[i \in 0 .. Len(t)] ==
        IF i = 0 THEN <<>> ELSE IF IsNumber(t[i]) THEN Append(upTo[i - 1], t[i]) ELSE upTo[i - 1]
  IN  upTo[Len(t)]
Pairs(t) == LET nums == NumbersIn(t) IN
            [i \in 1 .. Len(nums) \div 2 |-> [x |-> nums[2 * i - 1], y |-> nums[2 * i]]]

\* Variant: the points stay in the order of the text.
SortedNot(pairs) == pairs

Sorted(pairs) ==
  LET place(i) == 1 + Cardinality({j \in DOMAIN pairs : pairs[j].x < pairs[i].x \/ (pairs[j].x = pairs[i].x /\ j < i)})
  IN  [k \in DOMAIN pairs |-> pairs[CHOOSE i \in DOMAIN pairs : place(i) = k]]

None == [found |-> FALSE]
Some(v) == [found |-> TRUE, number |-> TRUE, value |-> v]
NaN == [found |-> TRUE, number |-> FALSE]

\* bound + EPSILON is above the bound, bound - EPSILON below it; sums are rounded to f64.
ToleratesAbove(bound) == -2 <= bound /\ bound < 2
ToleratesBelow(bound) == -2 < bound /\ bound <= 2

First(ps) == ps[1]
Last(ps) == ps[Len(ps)]

\* The first window of two neighbours that satisfies P, as its position, or 0.
Window(ps, P(_, _)) ==
  LET found == {i \in 1 .. Len(ps) - 1 : P(ps[i], ps[i + 1])} IN
  IF found = {} THEN 0 ELSE CHOOSE i \in found : \A j \in found : i <= j

\* Variant: the ends are not looked at before the windows.
InterpolateInside(ps, input) ==
  LET holds(p, q) == AtMost(Whole(p.x), input) /\ AtMost(input, Whole(q.x))
      i == Window(ps, holds)
  IN  IF Len(ps) = 0 THEN None
      ELSE IF Len(ps) = 1 THEN Some(Whole(Last(ps).y))
      ELSE IF i = 0 THEN None
      ELSE IF ps[i].x = ps[i + 1].x THEN NaN
      ELSE Some(Between(input, ps[i].x, ps[i + 1].x, ps[i].y, ps[i + 1].y))

Interpolate(ps, input) ==
  LET holds(p, q) == AtMost(Whole(p.x), input) /\ AtMost(input, Whole(q.x))
      i == Window(ps, holds)
      atLast == ToleratesAbove(Last(ps).x) /\ Same(input, Whole(Last(ps).x))
      atFirst == ToleratesBelow(First(ps).x) /\ Same(input, Whole(First(ps).x))
  IN  IF Len(ps) = 0 THEN None
      ELSE IF Len(ps) = 1 \/ atLast THEN Some(Whole(Last(ps).y))
      ELSE IF atFirst THEN Some(Whole(First(ps).y))
      ELSE IF i = 0 THEN None
      ELSE IF ps[i].x = ps[i + 1].x THEN NaN
      ELSE Some(Between(input, ps[i].x, ps[i + 1].x, ps[i].y, ps[i + 1].y))

\* Variant: every table is taken to ascend.
ReverseAscending(ps, output) ==
  LET holds(p, q) == AtMost(Whole(p.y), output) /\ AtMost(output, Whole(q.y))
      i == Window(ps, holds)
  IN  CASE Len(ps) = 0 -> None
        [] Len(ps) = 1 -> Some(Whole(ps[1].x))
        [] Len(ps) > 1 -> IF i = 0 THEN None
                          ELSE IF ps[i].y = ps[i + 1].y THEN Some(Whole(ps[i].x))
                          ELSE Some(Between(output, ps[i].y, ps[i + 1].y, ps[i].x, ps[i + 1].x))

ReverseInterpolate(ps, output) ==
  LET dir == IF Last(ps).y > First(ps).y THEN 1 ELSE -1
      upTo(f, g) == IF dir = 1 THEN AtMost(f, g) ELSE AtMost(g, f)
      holds(p, q) == upTo(Whole(p.y), output) /\ upTo(output, Whole(q.y))
      i == Window(ps, holds)
      atLast == ToleratesAbove(dir * Last(ps).y) /\ Same(output, Whole(Last(ps).y))
      atFirst == ToleratesBelow(dir * First(ps).y) /\ Same(output, Whole(First(ps).y))
  IN  IF Len(ps) = 0 THEN None
      ELSE IF Len(ps) = 1 \/ atLast THEN Some(Whole(Last(ps).x))
      ELSE IF atFirst THEN Some(Whole(First(ps).x))
      ELSE IF i = 0 THEN None
      ELSE IF ps[i].y = ps[i + 1].y THEN Some(Whole(ps[i].x))
      ELSE Some(Between(output, ps[i].y, ps[i + 1].y, ps[i].x, ps[i + 1].x))

-----------------------------------------------------------------------------
NoQuery == [forward |-> TRUE, from |-> Whole(0)]

Init == text \in Texts /\ points = <<>> /\ stage = "text" /\ query = NoQuery /\ answer = None

Insert == /\ stage = "text"
          /\ points' = Sorted(Pairs(text)) /\ stage' = "inserted"
          /\ UNCHANGED <<text, query, answer>>

Answer(forward, from, found) ==
  /\ stage = "inserted" /\ stage' = "answered"
  /\ query' = [forward |-> forward, from |-> from] /\ answer' = found
  /\ UNCHANGED <<text, points>>

LookUp(input) == Answer(TRUE, input, Interpolate(points, input))
LookUpInverse(output) == Answer(FALSE, output, ReverseInterpolate(points, output))

Done == stage = "answered" /\ UNCHANGED vars

Next == Insert \/ (\E i \in Inputs : LookUp(i)) \/ (\E o \in Outputs : LookUpInverse(o)) \/ Done
Spec == Init /\ [][Next]_vars

-----------------------------------------------------------------------------
Answered(forward) == stage = "answered" /\ query.forward = forward
Given == query.from

\* v is on the way from a to b, or the other way round.
Within(a, v, b) == (AtMost(Whole(a), v) /\ AtMost(v, Whole(b))) \/ (AtMost(Whole(b), v) /\ AtMost(v, Whole(a)))

\* The point (x, y) is on the segment from p to q.
OnSegment(p, q, x, y) ==
  /\ Within(p.x, x, q.x) /\ Within(p.y, y, q.y)
  /\ (x.num - p.x * x.den) * (q.y - p.y) * y.den = (y.num - p.y * y.den) * (q.x - p.x) * x.den

\* The pairs of the text, taken as a line from the least input to the greatest.
OnLine(x, y) ==
  LET ps == Pairs(text)
      follows(p, q) == \A i \in DOMAIN ps : ps[i].x <= p.x \/ ps[i].x >= q.x
  IN  \E i, j \in DOMAIN ps : /\ ps[i].x < ps[j].x \/ (ps[i].x = ps[j].x /\ i <= j)
                              /\ follows(ps[i], ps[j]) /\ OnSegment(ps[i], ps[j], x, y)

\* Both directions answer with points of the line that the text draws, ascending,
\* descending or neither (TableDef::interpolate and reverse_interpolate after the sort of
\* insert_table): what the inverse returns is mapped to the value it was asked for.
AnswersAreOnTheLine ==
  /\ Answered(TRUE) /\ answer.found /\ answer.number /\ Len(points) > 1 => OnLine(Given, answer.value)
  /\ Answered(FALSE) /\ answer.found /\ Len(points) > 1 => answer.number /\ OnLine(answer.value, Given)

\* Every input between the least and the greatest has a value, every output between those
\* at the ends an inverse.
NothingIsMissed ==
  Len(points) > 1 =>
    /\ Answered(TRUE) /\ AtMost(Whole(First(points).x), Given) /\ AtMost(Given, Whole(Last(points).x)) => answer.found
    /\ Answered(FALSE) /\ Within(First(points).y, Given, Last(points).y) => answer.found

\* The division by the width of a window is one by zero only where a table begins with
\* two points of one input, of magnitude 2 or more.
NotANumberOnlyAtTheStart ==
  Answered(TRUE) /\ answer.found /\ ~answer.number =>
    points[1].x = points[2].x /\ ~ToleratesBelow(points[1].x) /\ Same(Given, Whole(points[1].x))
=============================================================================
