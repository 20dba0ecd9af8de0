----------------------------- MODULE UnitAlgebra -----------------------------
(***************************************************************************)
(* Dimensional quantities and their arithmetic (types.rs, ops.rs).         *)
(*                                                                         *)
(* A quantity is a factor and a map from primitive units to exponents.     *)
(* Exponents are machine integers, -Half .. Half - 1 (i32: Half = 2^31),   *)
(* whose overflow panics in a build with overflow checks and wraps around  *)
(* in one without.  Factors are f64: their arithmetic is a parameter.      *)
(***************************************************************************)
EXTENDS Integers

CONSTANTS
  Base,       \* the primitive units
  Half,
  Factor, One, Times(_, _), Over(_, _), Plus(_, _), ToThe(_, _), RootOf(_, _), Negative(_)

ASSUME AlgebraAssumption ==
  /\ Half \in Nat /\ Half > 1
  /\ One \in Factor
  /\ \A f, g \in Factor : Times(f, g) \in Factor /\ Over(f, g) \in Factor /\ Plus(f, g) \in Factor
  /\ \A f \in Factor : Negative(f) \in BOOLEAN

Exponent == -Half .. Half - 1

\* One addition or negation leaves the range by less than its width.
Wrapped(x) == IF x >= Half THEN x - 2 * Half ELSE IF x < -Half THEN x + 2 * Half ELSE x
WrappedProduct(x) == ((x + Half) % (2 * Half)) - Half

-----------------------------------------------------------------------------
\* The map: a primitive that is no key has exponent zero.
Dimensions == UNION {[S -> Exponent] : S \in SUBSET Base}
UnitValue == [factor : Factor, dims : Dimensions]

At(d, b) == IF b \in DOMAIN d THEN d[b] ELSE 0

Normalized(d) == [b \in {b \in DOMAIN d : d[b] # 0} |-> d[b]]

Unity == [factor |-> One, dims |-> [b \in {} |-> 0]]
Primitive(b) == [factor |-> One, dims |-> [c \in {b} |-> 1]]

IsDimensionless(v) == \A b \in DOMAIN v.dims : v.dims[b] = 0

\* The exact exponents of a result, before they are stored in machine integers.
Sum(c, d) == [b \in DOMAIN c \cup DOMAIN d |-> At(c, b) + At(d, b)]
Difference(c, d) == [b \in DOMAIN c \cup DOMAIN d |-> At(c, b) - At(d, b)]
Opposite(d) == [b \in DOMAIN d |-> -d[b]]
Multiple(d, n) == [b \in DOMAIN d |-> d[b] * n]

InRange(d) == \A b \in DOMAIN d : d[b] \in Exponent

Stored(d) == Normalized([b \in DOMAIN d |-> Wrapped(d[b])])

\* Variant: exponents that cancel stay in the map.
MultiplyKeeping(v, w) ==
  [factor |-> Times(v.factor, w.factor),
   dims |-> [b \in DOMAIN v.dims \cup DOMAIN w.dims |-> Wrapped(At(v.dims, b) + At(w.dims, b))]]

Multiply(v, w) == [factor |-> Times(v.factor, w.factor), dims |-> Stored(Sum(v.dims, w.dims))]

\* Variant: units of the divisor alone are forgotten.
DivideKnown(v, w) == [factor |-> Over(v.factor, w.factor),
                      dims |-> Stored([b \in DOMAIN v.dims |-> v.dims[b] - At(w.dims, b)])]

Divide(v, w) == [factor |-> Over(v.factor, w.factor), dims |-> Stored(Difference(v.dims, w.dims))]

\* Variant: the same units, whatever their exponents.
SameUnits(v, w) == DOMAIN v.dims = DOMAIN w.dims

\* add_assign refuses operands whose maps differ once zeros are dropped.
SameDimensions(v, w) == Normalized(v.dims) = Normalized(w.dims)
Add(v, w) == [v EXCEPT !.factor = Plus(v.factor, w.factor)]

\* wrapping_neg: the least exponent is its own opposite, in every build.
Invert(v) == [factor |-> Over(One, v.factor),
              dims |-> [b \in DOMAIN v.dims |-> Wrapped(-v.dims[b])]]

\* Variant: a power of zero leaves zeros in the map.
PowKeeping(v, n) ==
  [factor |-> ToThe(v.factor, n),
   dims |-> [b \in DOMAIN v.dims |-> WrappedProduct(v.dims[b] * n)]]

Pow(v, n) ==
  [factor |-> ToThe(v.factor, n),
   dims |-> Normalized([b \in DOMAIN v.dims |-> WrappedProduct(v.dims[b] * n)])]

\* Variant: the exponents need not be divisible.
HasRootAnyway(v, n) == n > 0 /\ ~Negative(v.factor)

HasRoot(v, n) == n > 0 /\ ~Negative(v.factor) /\ \A b \in DOMAIN v.dims : v.dims[b] % n = 0
Root(v, n) ==
  [factor |-> RootOf(v.factor, n),
   dims |-> Normalized([b \in DOMAIN v.dims |-> v.dims[b] \div n])]

\* ops.rs asks whether the ratio is dimensionless, parser.rs compares the maps.
IsConformable(v, w) == IsDimensionless(Divide(v, w))
AreConformable(v, w) == SameDimensions(v, w)
=============================================================================
