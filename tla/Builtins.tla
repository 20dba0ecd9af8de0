------------------------------ MODULE Builtins -------------------------------
(***************************************************************************)
(* The built-in functions (call_function in parser.rs): what each demands  *)
(* of its argument, where it refuses it, and what the machine's arithmetic *)
(* makes of an accepted one: a finite number, none, an infinity, or noise, *)
(* a finite number that is nothing but the error of rounding.              *)
(*                                                                         *)
(* A number is given in halves of one, so that integers and the numbers    *)
(* between them are told apart; NotANumber is an f64 as well.              *)
(***************************************************************************)
EXTENDS Integers

CONSTANTS NotANumber,
          Numbers,  \* arguments, in halves
          Infinite  \* from here on a number stands for infinity

\* Infinity lies beyond every limit below.
NumbersAssumption == Numbers \subseteq Int /\ NotANumber \notin Int /\ Infinite \in Nat /\ Infinite > 1480

VARIABLES call, radianKnown, answer
vars == <<call, radianKnown, answer>>

\* Comparisons with NotANumber are false.
Less(x, n) == x # NotANumber /\ x < 2 * n
AtMost(x, n) == x # NotANumber /\ x <= 2 * n
Is(x, n) == x # NotANumber /\ x = 2 * n
Magnitude(x) == IF x = NotANumber THEN NotANumber ELSE IF x < 0 THEN -x ELSE x
IsInteger(x) == x # NotANumber /\ x % 2 = 0
IsInfinite(x) == x # NotANumber /\ Magnitude(x) >= Infinite

Roots == {"sqrt", "cbrt", "cuberoot"}
AngleIn == {"sin", "cos", "tan", "secant", "csc", "cot"}
AngleOut == {"asin", "acos", "atan", "asecant", "acsc", "acot"}
Logarithms == {"ln", "log", "log10", "log2", "logN"}
Plain == Logarithms \cup {"exp", "round", "floor", "ceil", "sinh", "cosh", "tanh", "csch", "sech", "coth", "asinh", "acosh",
                          "atanh", "acsch", "asech", "acoth", "erf", "erfc", "lnGamma", "Gamma", "factorial"}
Functions == Roots \cup AngleIn \cup AngleOut \cup Plain \cup {"abs"}

-----------------------------------------------------------------------------
\* The reflection formula below a half, the Lanczos series from there on.  sin(pi x)
\* is the sine of a rounded product: it is zero at zero only, and at negative integers it is
\* what the rounding left.  In the series the power overflows from 142.5 on, and from 739 on
\* the exponential is zero as well.
Series(x) == IF IsInfinite(x) \/ x >= 1478 THEN "nan" ELSE IF x >= 285 THEN "infinite" ELSE "finite"
GammaLanczos(x) ==
  CASE x = NotANumber \/ (IsInfinite(x) /\ x < 0) -> "nan"
    [] x # NotANumber /\ ~(IsInfinite(x) /\ x < 0) /\ x < 1 ->
         IF x = 0 THEN "infinite"
         ELSE IF Series(2 - x) = "infinite" THEN "zero"
         ELSE IF Series(2 - x) = "finite" /\ IsInteger(x) THEN "noise" ELSE Series(2 - x)
    [] x # NotANumber /\ x >= 1 -> Series(x)

\* What the machine computes: x is accepted or not, this is what would come out.
LogarithmOf(x) ==
  IF x = NotANumber \/ x < 0 THEN "nan" ELSE IF x = 0 \/ IsInfinite(x) THEN "infinite" ELSE "finite"
ArcOf(x) == IF x = NotANumber \/ Magnitude(x) > 2 THEN "nan" ELSE "finite"
InverseArcOf(x) == IF x = NotANumber \/ Magnitude(x) < 2 THEN "nan" ELSE "finite"
WaveOf(x) == IF x = NotANumber \/ IsInfinite(x) THEN "nan" ELSE "finite"

Outcome(f, x) ==
  CASE x = NotANumber -> "nan"
    [] x # NotANumber /\ f \in Logarithms -> LogarithmOf(x)
    [] x # NotANumber /\ f \in {"exp", "sinh", "cosh"} ->
         IF x > 1418 \/ (f # "exp" /\ x < -1418) \/ (f = "sinh" /\ x <= -Infinite) THEN "infinite" ELSE "finite"
    [] x # NotANumber /\ f \in {"round", "floor", "ceil", "abs", "asinh"} \cup Roots ->
         IF f \in Roots /\ x < 0 THEN "nan" ELSE IF IsInfinite(x) THEN "infinite" ELSE "finite"
    [] x # NotANumber /\ f \in {"sin", "cos", "tan", "secant"} -> WaveOf(x)
    [] x # NotANumber /\ f \in {"csc", "cot", "csch", "coth"} /\ x = 0 -> "infinite"
    [] x # NotANumber /\ f \in {"csc", "cot"} /\ x # 0 -> WaveOf(x)
    [] x # NotANumber /\ f = "coth" /\ x # 0 -> IF Magnitude(x) > 1420 THEN "nan" ELSE "finite"
    [] x # NotANumber /\ f \in {"asin", "acos"} -> ArcOf(x)
    [] x # NotANumber /\ f \in {"asecant", "acsc"} -> InverseArcOf(x)
    [] x # NotANumber /\ f = "acosh" -> IF x < 2 THEN "nan" ELSE IF IsInfinite(x) THEN "infinite" ELSE "finite"
    [] x # NotANumber /\ f = "atanh" -> IF Magnitude(x) = 2 THEN "infinite" ELSE ArcOf(x)
    [] x # NotANumber /\ f = "acoth" -> IF Magnitude(x) = 2 THEN "infinite" ELSE InverseArcOf(x)
    [] x # NotANumber /\ f = "asech" -> IF x < 0 \/ x > 2 THEN "nan" ELSE IF x = 0 THEN "infinite" ELSE "finite"
    [] x # NotANumber /\ f = "acsch" -> IF x = 0 THEN "infinite" ELSE "finite"
    [] x # NotANumber /\ f = "Gamma" -> GammaLanczos(x)
    [] x # NotANumber /\ f = "factorial" -> GammaLanczos(x + 2)
    [] x # NotANumber /\ f = "lnGamma" -> IF GammaLanczos(x) = "zero" THEN "infinite" ELSE GammaLanczos(x)
    [] OTHER -> "finite"

-----------------------------------------------------------------------------
\* call_function, function by function: where the argument is refused.
RefusesLogarithm(f, x) == f \in Logarithms /\ AtMost(x, 0)

\* The angle has been divided by the radian: cos is never zero, sin at zero only.
RefusesAngle(f, x) == f \in {"csc", "cot"} /\ Is(x, 0)

\* Variant: acos and asin refuse the ends of their domain.
RefusesArcEnds(f, x) ==
  \/ f \in {"asecant", "acsc"} /\ Less(Magnitude(x), 1)
  \/ f \in {"acos", "asin"} /\ x # NotANumber /\ ~Less(Magnitude(x), 1)

RefusesArc(f, x) ==
  \/ f \in {"asecant", "acsc"} /\ Less(Magnitude(x), 1)
  \/ f \in {"acos", "asin"} /\ x # NotANumber /\ ~AtMost(Magnitude(x), 1)

\* Variant: acoth accepts its poles.
RefusesHyperbolicPoles(f, x) ==
  \/ f = "acosh" /\ Less(x, 1)
  \/ f = "atanh" /\ x # NotANumber /\ ~Less(Magnitude(x), 1)
  \/ f = "acsch" /\ Is(x, 0)
  \/ f = "asech" /\ (AtMost(x, 0) \/ (x # NotANumber /\ ~AtMost(x, 1)))
  \/ f = "acoth" /\ Less(Magnitude(x), 1)
  \/ f \in {"csch", "coth"} /\ Is(x, 0)

RefusesHyperbolic(f, x) ==
  \/ f = "acosh" /\ Less(x, 1)
  \/ f = "atanh" /\ x # NotANumber /\ ~Less(Magnitude(x), 1)
  \/ f = "acsch" /\ Is(x, 0)
  \/ f = "asech" /\ (AtMost(x, 0) \/ (x # NotANumber /\ ~AtMost(x, 1)))
  \/ f = "acoth" /\ AtMost(Magnitude(x), 1)
  \/ f \in {"csch", "coth"} /\ Is(x, 0)

\* Gamma is refused by its value, factorial by its argument, lnGamma never.
RefusesSpecial(f, x) ==
  \/ f = "Gamma" /\ GammaLanczos(x) \in {"infinite", "nan"}
  \/ f = "factorial" /\ (Less(x, 0) \/ IsInfinite(x) \/ ~IsInteger(x))

\* root_assign
RefusesRoot(f, x) == f \in Roots /\ Less(x, 0)

Refuses(f, x) == RefusesRoot(f, x) \/ RefusesLogarithm(f, x) \/ RefusesAngle(f, x) \/ RefusesArc(f, x)
                 \/ RefusesHyperbolic(f, x) \/ RefusesSpecial(f, x)

\* Which dimensions are let through; an angle is one only where the radian is known.
DimensionsFit(f, dims) ==
  \/ dims = "none"
  \/ f = "abs"
  \/ f \in Roots /\ dims = "square" /\ f = "sqrt"
  \/ f \in AngleIn /\ dims = "angle" /\ radianKnown

\* require_dimensionless and anglein come before the domain; root_assign has one answer for both.
CallFunction(f, dims, x) ==
  IF ~DimensionsFit(f, dims) THEN IF f \in Roots THEN "NotDivisibleByRoot" ELSE "DimensionlessRequired"
  ELSE IF ~Refuses(f, x) THEN Outcome(f, x)
  ELSE IF f \in Roots THEN "NotDivisibleByRoot"
  ELSE IF f \in Logarithms THEN "NotInDomain"
  ELSE IF f \in {"csc", "cot", "csch", "coth", "Gamma"} THEN "Undefined" ELSE "OutOfRange"

Init == /\ call \in [function : Functions, dims : {"none", "angle", "square"}, x : Numbers \cup {NotANumber}]
        /\ radianKnown \in BOOLEAN
        /\ answer = "none"

Answer == /\ answer = "none"
          /\ answer' = CallFunction(call.function, call.dims, call.x)
          /\ UNCHANGED <<call, radianKnown>>

Done == answer # "none" /\ UNCHANGED vars

Next == Answer \/ Done
Spec == Init /\ [][Next]_vars

-----------------------------------------------------------------------------
Refusals == {"NotDivisibleByRoot", "DimensionlessRequired", "NotInDomain", "Undefined", "OutOfRange"}

\* Where Gamma has its poles.
IsPole(x) == IsInteger(x) /\ x <= 0

\* Apart from the poles of Gamma the domain checks leave no argument at which the machine's
\* arithmetic breaks down: of moderate arguments an accepted one has a finite value that is
\* not mere noise.  Not so at those poles: Gamma is accepted at all of them but zero, and
\* lnGamma, which checks nothing, at every one.
AcceptedIsDefined ==
  call.x # NotANumber /\ Magnitude(call.x) <= 2 * 140
  /\ ~(call.function = "Gamma" /\ IsPole(call.x) /\ call.x # 0) /\ ~(call.function = "lnGamma" /\ IsPole(call.x))
    => answer \notin {"infinite", "nan", "noise"}

\* What is documented of Gamma: it "Returns +-infinity at poles (non-positive integers)", so
\* that the check of its value refuses them.  The code does so at zero only.
PolesAreRefused ==
  call.function = "Gamma" /\ call.dims = "none" /\ IsPole(call.x) /\ answer # "none" => answer = "Undefined"

\* The values that a function takes, by the mathematics and not by the code.
Takes(g) ==
  CASE g \in {"sin", "cos"} -> {x \in Numbers : Magnitude(x) <= 2}
    [] g \in {"secant", "csc"} -> {x \in Numbers : Magnitude(x) >= 2}
    [] g = "cosh" -> {x \in Numbers : x >= 2}
    [] g = "tanh" -> {x \in Numbers : Magnitude(x) < 2}
    [] g = "coth" -> {x \in Numbers : Magnitude(x) > 2}
    [] g = "csch" -> Numbers \ {0}
    [] g = "sech" -> {x \in Numbers : 0 < x /\ x <= 2}
    [] g = "exp" -> {x \in Numbers : x > 0}
    [] g \in {"tan", "cot", "sinh"} -> Numbers

Inverses ==
  [asin |-> "sin", acos |-> "cos", atan |-> "tan", asecant |-> "secant", acsc |-> "csc", acot |-> "cot",
   asinh |-> "sinh", acosh |-> "cosh", atanh |-> "tanh", asech |-> "sech", acsch |-> "csch", acoth |-> "coth",
   ln |-> "exp"]

\* An inverse function accepts exactly the values that its function takes.
InversesAcceptValues ==
  answer # "none" /\ call.function \in DOMAIN Inverses /\ call.dims = "none" /\ call.x \in Numbers =>
    (answer \notin Refusals <=> call.x \in Takes(Inverses[call.function]))
=============================================================================
