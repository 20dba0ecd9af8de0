---------------------------- MODULE RationalPower ----------------------------
(***************************************************************************)
(* base ^ exponent (apply_power in parser.rs, float2rat in types.rs).      *)
(*                                                                         *)
(* The exponents of a dimensional result must be integers, so the f64      *)
(* exponent is turned back into a fraction p/q by continued fractions; the *)
(* q-th root of the base is then raised to the power p.  Here an f64 is    *)
(* the fraction it stands for; the error that divisions add may put the    *)
(* last quotient just below the integer that it is.                        *)
(***************************************************************************)
EXTENDS UnitAlgebra, Sequences

CONSTANTS
  MaxTerms,        \* 20 coefficients
  MaxDenominator,  \* 100
  Precision,       \* a fractional part below 1/Precision ends the expansion
  Fraction,        \* exponents: num over den, den > 0
  Operand          \* bases

WellFormed(v) == /\ v = [factor |-> v.factor, dims |-> v.dims] /\ v.factor \in Factor
                 /\ DOMAIN v.dims \subseteq Base /\ v.dims \in [DOMAIN v.dims -> Exponent]

TwoToThe[n \in Nat] == IF n = 0 THEN 1 ELSE 2 * TwoToThe[n - 1]

\* Of a fraction with a denominator below MaxDenominator, two coefficients halve what is left
\* to expand, and no part of it is below 1/Precision: it is expanded to its end.
PowerAssumption ==
  /\ MaxTerms \in Nat \ {0} /\ MaxDenominator \in Nat \ {0} /\ Precision \in Nat
  /\ MaxDenominator <= Precision /\ Precision < Half
  /\ MaxDenominator <= TwoToThe[(MaxTerms - 1) \div 2]
  /\ Fraction \subseteq [num : Int, den : Nat \ {0}] /\ \A v \in Operand : WellFormed(v)
  /\ \A f \in Factor : /\ \A n \in Exponent : ToThe(f, n) \in Factor
                       /\ \A n \in 1 .. MaxDenominator - 1 : RootOf(f, n) \in Factor

VARIABLES
  base, y, plain,  \* the operands; plain: the exponent is dimensionless
  state,           \* "called", "expanding", "expanded", or the outcome
  x, coef,         \* float2rat: the rest to expand, the coefficients so far
  result

vars == <<base, y, plain, state, x, coef, result>>

Init == /\ base \in Operand /\ y \in Fraction /\ plain \in BOOLEAN
        /\ state = "called" /\ x = y /\ coef = <<>> /\ result = base

Begin ==
  /\ state = "called"
  /\ \/ ~plain /\ state' = "ExponentNotDimensionless" /\ UNCHANGED result
     \/ /\ plain /\ IsDimensionless(base)
        /\ state' = "OK" /\ \E f \in Factor : result' = [base EXCEPT !.factor = f]
     \/ plain /\ ~IsDimensionless(base) /\ state' = "expanding" /\ UNCHANGED result
  /\ UNCHANGED <<base, y, plain, x, coef>>

\* The coefficient c is found; rest is what is left of x, a fraction below 1.
Coefficient(c, rest) ==
  /\ coef' = Append(coef, c)
  /\ IF rest.num * Precision < rest.den \/ Len(coef) + 1 = MaxTerms
     THEN state' = "expanded" /\ UNCHANGED x
     ELSE x' = [num |-> rest.den, den |-> rest.num] /\ UNCHANGED state
  /\ UNCHANGED <<base, y, plain, result>>

Expand ==
  /\ state = "expanding"
  /\ LET c == x.num \div x.den
     IN  \/ c \in Exponent /\ Coefficient(c, [num |-> x.num - c * x.den, den |-> x.den])
         \/ /\ c \notin Exponent
            /\ state' = "IrrationalExponent" /\ UNCHANGED <<base, y, plain, x, coef, result>>

\* A quotient computed just below its integer: almost 1 is left of it.
ExpandRounded ==
  /\ state = "expanding" /\ coef # <<>> /\ x.den = 1 /\ x.num > 1
  /\ Coefficient(x.num - 1, [num |-> 1, den |-> 1])

Saturated(n) == IF n >= Half THEN Half - 1 ELSE IF n < -Half THEN -Half ELSE n

\* 1 / (c[1] + 1 / (c[2] + ...)), from the last coefficient on.
Under(a, f) == [num |-> f.den, den |-> Saturated(Saturated(a * f.den) + f.num)]
Nested(c) ==
  LET ofLast[n \in 0 .. Len(c)] ==
        IF n = 0 THEN [num |-> 0, den |-> 1] ELSE Under(c[Len(c) + 1 - n], ofLast[n - 1])
  IN  ofLast[Len(c)]

WithInteger(a, f) == [f EXCEPT !.num = Saturated(@ + Saturated(f.den * a))]

\* Variant: the last coefficient is left out.
ConvergentShort(c) == WithInteger(c[1], Nested(SubSeq(c, 2, Len(c) - 1)))

Convergent(c) == WithInteger(c[1], Nested(Tail(c)))

Same(f, g) == f.num * g.den = g.num * f.den

IsRational(f) == f.den < MaxDenominator /\ Same(f, y)

\* The root of v, and the power to which it is raised.
Rooted(v, q) == IF q = 1 THEN v ELSE Root(v, q)
Magnitude(p) == Wrapped(IF p < 0 THEN -p ELSE p)

\* Variant: no reciprocal for a negative exponent.
RaiseAbsolute(v, p, q) == Pow(Rooted(v, q), Magnitude(p))

Raise(v, p, q) == LET power == Pow(Rooted(v, q), Magnitude(p))
                  IN  IF p < 0 THEN Invert(power) ELSE power

\* An overflow is a panic or goes unnoticed, according to the build.
Finish ==
  /\ state = "expanded"
  /\ LET f == Convergent(coef)
     IN  \/ ~IsRational(f) /\ state' = "IrrationalExponent" /\ UNCHANGED result
         \/ /\ IsRational(f) /\ f.den # 1 /\ ~HasRoot(base, f.den)
            /\ state' = "NotDivisibleByRoot" /\ UNCHANGED result
         \/ /\ IsRational(f) /\ (f.den = 1 \/ HasRoot(base, f.den))
            /\ \/ state' = "OK" /\ result' = Raise(base, f.num, f.den)
               \/ /\ ~InRange(Multiple(Rooted(base, f.den).dims, Magnitude(f.num)))
                  /\ state' = "panicked" /\ UNCHANGED result
  /\ UNCHANGED <<base, y, plain, x, coef>>

Ended == state \notin {"called", "expanding", "expanded"}

Done == Ended /\ UNCHANGED vars

Next == Begin \/ Expand \/ ExpandRounded \/ Finish \/ Done

Spec == Init /\ [][Next]_vars

-----------------------------------------------------------------------------
\* Properties.

(* The result is a quantity in normal form: a power of 0 leaves no zeros.    *)
TypeOK ==
  /\ base \in Operand /\ y \in Fraction /\ plain \in BOOLEAN
  /\ state \in {"called", "expanding", "expanded", "OK", "panicked", "ExponentNotDimensionless",
                "IrrationalExponent", "NotDivisibleByRoot"}
  /\ x.num \in Int /\ x.den \in Nat \ {0}
  /\ coef \in Seq(Exponent) /\ Len(coef) <= MaxTerms
  /\ WellFormed(result)
  /\ Normalized(base.dims) = base.dims => Normalized(result.dims) = result.dims

\* Among the fractions equal to f, the least denominator.
LeastDenominator(f) ==
  CHOOSE d \in 1 .. f.den :
    (f.num * d) % f.den = 0 /\ \A e \in 1 .. d - 1 : (f.num * e) % f.den # 0

(* float2rat finds the fraction of every exponent with a denominator below   *)
(* 100, in lowest terms, however the last quotient is rounded; near the      *)
(* limits of i32 it may give up, but it never answers another fraction.      *)
SmallFractionsAreFound ==
  state = "expanded" =>
    LET f == Convergent(coef)
        d == LeastDenominator(y)
        n == (y.num * d) \div y.den
    IN  /\ IsRational(f) => f.num = n /\ f.den = d
        /\ d < MaxDenominator /\ n \in MaxDenominator - Half .. Half - MaxDenominator => IsRational(f)

(* A power of a dimensional base is refused exactly if it has no integral    *)
(* dimensions (or would be a root of a negative factor), and otherwise has   *)
(* the base's exponents times the exponent, if these are machine integers.   *)
(* It panics only if they, or their opposites (taken first), are not.        *)
RaisedExactly ==
  plain /\ ~IsDimensionless(base) /\ Ended =>
    LET integral == \A b \in DOMAIN base.dims : (base.dims[b] * y.num) % y.den = 0
        power == [b \in DOMAIN base.dims |-> (base.dims[b] * y.num) \div y.den]
    IN  /\ state = "NotDivisibleByRoot" => ~integral \/ Negative(base.factor)
        /\ state = "OK" => integral /\ (InRange(power) => result.dims = Normalized(power))
        /\ state = "panicked" => ~InRange(power) \/ ~InRange(Opposite(power))
=============================================================================
