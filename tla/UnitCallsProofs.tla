--------------------------- MODULE UnitCallsProofs ---------------------------
(***************************************************************************)
(* What holds of quantities for every set of primitive units, every width  *)
(* of the exponents and every arithmetic of factors: of the methods of     *)
(* Unit, and of the powers that expressions compute.                       *)
(***************************************************************************)
EXTENDS UnitCalls, NaturalOrder, SequenceTheorems

-----------------------------------------------------------------------------
\* Machine integers.

(* A sum, difference or opposite of machine integers is stored as one (+=, -=, *)
(* wrapping_neg), unchanged if it is one, and as 0 only if it is 0 or two whole *)
(* ranges away.                                                               *)
LEMMA WrappedExponent ==
  ASSUME NEW n \in Int, -2 * Half <= n, n < 2 * Half
  PROVE  /\ Wrapped(n) \in Exponent
         /\ n \in Exponent => Wrapped(n) = n
         /\ Wrapped(n) = 0 <=> n = 0 \/ n = -2 * Half
BY AlgebraAssumption, SMT DEF Wrapped, Exponent

(* A product is stored as a machine integer, unchanged if it is one.          *)
LEMMA WrappedProductExponent ==
  ASSUME NEW n \in Int
  PROVE  /\ WrappedProduct(n) \in Exponent
         /\ n \in Exponent => WrappedProduct(n) = n
BY AlgebraAssumption, SMT DEF WrappedProduct, Exponent

(* The quotient of a machine integer by a positive integer is one.            *)
LEMMA QuotientExponent ==
  ASSUME NEW e \in Exponent, NEW n \in Int, n > 0
  PROVE  e \div n \in Exponent
BY AlgebraAssumption, SMT DEF Exponent

-----------------------------------------------------------------------------
\* Exponent maps.

(* Maps are functions on some of the primitive units.                         *)
LEMMA DimensionsAreFunctions ==
  ASSUME NEW d
  PROVE  d \in Dimensions <=> DOMAIN d \subseteq Base /\ d \in [DOMAIN d -> Exponent]
BY DEF Dimensions

(* Dropping the zeros of a map leaves a map without zeros.                    *)
LEMMA NormalizedDimensions ==
  ASSUME NEW S \in SUBSET Base, NEW d \in [S -> Exponent]
  PROVE  /\ Normalized(d) \in Dimensions
         /\ Normalized(Normalized(d)) = Normalized(d)
<1> DEFINE T == {b \in S : d[b] # 0}
           e == Normalized(d)
<1>1. e = [b \in T |-> d[b]]
  BY DEF Normalized
<1>2. DOMAIN e = T /\ e \in [T -> Exponent] /\ \A b \in T : e[b] # 0
  BY <1>1
<1>3. e \in Dimensions
  BY <1>2, DimensionsAreFunctions
<1>4. Normalized(e) = [b \in T |-> e[b]]
  <2>1. {b \in DOMAIN e : e[b] # 0} = T
    BY <1>2
  <2>. QED
    BY <2>1 DEF Normalized
<1>5. Normalized(e) = e
  BY <1>2, <1>4
<1>. QED
  BY <1>3, <1>5

(* What a map of exact exponents is stored as, when each fits after wrapping. *)
LEMMA StoredDimensions ==
  ASSUME NEW S \in SUBSET Base, NEW d \in [S -> -2 * Half .. 2 * Half - 1]
  PROVE  /\ Stored(d) \in Dimensions
         /\ Normalized(Stored(d)) = Stored(d)
         /\ InRange(d) => Stored(d) = Normalized(d)
<1> DEFINE e == [b \in S |-> Wrapped(d[b])]
<1>1. ASSUME NEW b \in S
      PROVE  Wrapped(d[b]) \in Exponent /\ (d[b] \in Exponent => Wrapped(d[b]) = d[b])
  <2>1. d[b] \in Int /\ -2 * Half <= d[b] /\ d[b] < 2 * Half
    BY AlgebraAssumption
  <2>. QED
    BY <2>1, WrappedExponent
<1>2. e \in [S -> Exponent]
  BY <1>1
<1>3. Stored(d) = Normalized(e)
  BY DEF Stored
<1>4. ASSUME InRange(d)
      PROVE  e = d
  BY <1>1, <1>4 DEF InRange
<1>. QED
  BY <1>2, <1>3, <1>4, NormalizedDimensions

(* The exponents that add and subtract as the operations do, before storing.  *)
LEMMA ExactExponents ==
  ASSUME NEW c \in Dimensions, NEW d \in Dimensions
  PROVE  /\ DOMAIN c \cup DOMAIN d \in SUBSET Base
         /\ \A b : At(c, b) \in Exponent /\ At(d, b) \in Exponent
         /\ Sum(c, d) \in [DOMAIN c \cup DOMAIN d -> -2 * Half .. 2 * Half - 1]
         /\ Difference(c, d) \in [DOMAIN c \cup DOMAIN d -> -2 * Half .. 2 * Half - 1]
<1>1. /\ DOMAIN c \subseteq Base /\ c \in [DOMAIN c -> Exponent]
      /\ DOMAIN d \subseteq Base /\ d \in [DOMAIN d -> Exponent]
  BY DimensionsAreFunctions
<1>2. 0 \in Exponent
  BY AlgebraAssumption DEF Exponent
<1>3. \A b : At(c, b) \in Exponent /\ At(d, b) \in Exponent
  BY <1>1, <1>2 DEF At
<1>4. \A e, f \in Exponent : /\ e + f \in -2 * Half .. 2 * Half - 1
                             /\ e - f \in -2 * Half .. 2 * Half - 1
  BY AlgebraAssumption DEF Exponent
<1>5. Sum(c, d) \in [DOMAIN c \cup DOMAIN d -> -2 * Half .. 2 * Half - 1]
  BY <1>3, <1>4 DEF Sum
<1>6. Difference(c, d) \in [DOMAIN c \cup DOMAIN d -> -2 * Half .. 2 * Half - 1]
  BY <1>3, <1>4 DEF Difference
<1>. QED
  BY <1>1, <1>3, <1>5, <1>6

(* The map of the opposite exponents, each wrapped, has no zeros if the map has none. *)
LEMMA OppositeDimensions ==
  ASSUME NEW d \in Dimensions, Normalized(d) = d,
         NEW e, e = [b \in DOMAIN d |-> Wrapped(-d[b])]
  PROVE  /\ e \in Dimensions /\ Normalized(e) = e
         /\ InRange(Opposite(d)) => e = Normalized(Opposite(d))
<1>1. DOMAIN d \subseteq Base /\ d \in [DOMAIN d -> Exponent]
  BY DimensionsAreFunctions
<1>2. ASSUME NEW b \in DOMAIN d
      PROVE  d[b] # 0
  BY <1>2 DEF Normalized
<1>3. ASSUME NEW b \in DOMAIN d
      PROVE  /\ Wrapped(-d[b]) \in Exponent /\ Wrapped(-d[b]) # 0 /\ -d[b] # 0
             /\ -d[b] \in Exponent => Wrapped(-d[b]) = -d[b]
  <2>1. d[b] \in Exponent /\ d[b] # 0
    BY <1>1, <1>2
  <2> DEFINE n == -d[b]
  <2>2. n \in Int /\ -2 * Half <= n /\ n < 2 * Half /\ n # 0 /\ n # -2 * Half
    BY <2>1, AlgebraAssumption DEF Exponent
  <2> HIDE DEF n
  <2>3. Wrapped(n) \in Exponent /\ Wrapped(n) # 0 /\ (n \in Exponent => Wrapped(n) = n)
    BY <2>2, WrappedExponent
  <2>. QED
    BY <2>2, <2>3 DEF n
<1>4. e \in [DOMAIN d -> Exponent] /\ \A b \in DOMAIN d : e[b] # 0
  BY <1>3
<1>5. e \in Dimensions
  BY <1>1, <1>4, DimensionsAreFunctions
<1>6. Normalized(e) = e
  <2>1. {b \in DOMAIN e : e[b] # 0} = DOMAIN d
    BY <1>4
  <2>. QED
    BY <1>4, <2>1 DEF Normalized
<1>7. ASSUME InRange(Opposite(d))
      PROVE  e = Normalized(Opposite(d))
  <2> DEFINE o == Opposite(d)
  <2>1. o = [b \in DOMAIN d |-> -d[b]]
    BY DEF Opposite
  <2>2. {b \in DOMAIN o : o[b] # 0} = DOMAIN d
    BY <1>3, <2>1
  <2>3. Normalized(o) = [b \in DOMAIN d |-> o[b]]
    BY <2>2 DEF Normalized
  <2>4. \A b \in DOMAIN d : o[b] \in Exponent
    BY <1>7, <2>1 DEF InRange
  <2>5. \A b \in DOMAIN d : e[b] = o[b]
    BY <1>3, <2>1, <2>4
  <2>. QED
    BY <1>4, <2>3, <2>5
<1>. QED
  BY <1>5, <1>6, <1>7

-----------------------------------------------------------------------------
\* The operations of UnitValue.

(* Quantities that are well-formed and in normal form, as TypeOK has them.    *)
Quantity == {v \in UnitValue : Normalized(v.dims) = v.dims}

(* Every operation on quantities in normal form returns one.                  *)
LEMMA OperationsKeepQuantities ==
  ASSUME NEW v \in Quantity, NEW w \in Quantity
  PROVE  /\ Multiply(v, w) \in Quantity /\ Divide(v, w) \in Quantity
         /\ Add(v, w) \in Quantity /\ Invert(v) \in Quantity
<1>1. /\ v = [factor |-> v.factor, dims |-> v.dims] /\ v.factor \in Factor /\ v.dims \in Dimensions
      /\ w.factor \in Factor /\ w.dims \in Dimensions /\ Normalized(v.dims) = v.dims
  BY DEF Quantity, UnitValue
<1>2. /\ Stored(Sum(v.dims, w.dims)) \in Dimensions
      /\ Normalized(Stored(Sum(v.dims, w.dims))) = Stored(Sum(v.dims, w.dims))
  BY <1>1, ExactExponents, StoredDimensions
<1>3. /\ Stored(Difference(v.dims, w.dims)) \in Dimensions
      /\ Normalized(Stored(Difference(v.dims, w.dims))) = Stored(Difference(v.dims, w.dims))
  BY <1>1, ExactExponents, StoredDimensions
<1>4. Multiply(v, w) \in Quantity
  BY <1>1, <1>2, AlgebraAssumption DEF Multiply, Quantity, UnitValue
<1>5. Divide(v, w) \in Quantity
  BY <1>1, <1>3, AlgebraAssumption DEF Divide, Quantity, UnitValue
<1>6. Add(v, w) \in Quantity
  BY <1>1, AlgebraAssumption DEF Add, Quantity, UnitValue
<1>7. Invert(v) \in Quantity
  <2> DEFINE e == [b \in DOMAIN v.dims |-> Wrapped(-v.dims[b])]
  <2>1. e \in Dimensions /\ Normalized(e) = e
    BY <1>1, OppositeDimensions
  <2> HIDE DEF e
  <2>2. Invert(v) = [factor |-> Over(One, v.factor), dims |-> e]
    BY DEF Invert, e
  <2>. QED
    BY <1>1, <2>1, <2>2, AlgebraAssumption DEF Quantity, UnitValue
<1>. QED
  BY <1>4, <1>5, <1>6, <1>7

LEMMA PowersKeepQuantities ==
  ASSUME NEW v \in Quantity, NEW n \in Powers
  PROVE  Pow(v, n) \in Quantity
<1> DEFINE S == DOMAIN v.dims
           e == [b \in S |-> WrappedProduct(v.dims[b] * n)]
<1>1. v.factor \in Factor /\ S \in SUBSET Base /\ v.dims \in [S -> Exponent] /\ n \in Int
  BY DimensionsAreFunctions, CallerAssumption DEF Quantity, UnitValue
<1>2. ASSUME NEW b \in S
      PROVE  WrappedProduct(v.dims[b] * n) \in Exponent
  <2>1. v.dims[b] \in Int
    BY <1>1, AlgebraAssumption DEF Exponent
  <2>2. v.dims[b] * n \in Int
    BY <1>1, <2>1
  <2>. QED
    BY <2>2, WrappedProductExponent
<1>3. e \in [S -> Exponent]
  BY <1>2
<1>4. Normalized(e) \in Dimensions /\ Normalized(Normalized(e)) = Normalized(e)
  BY <1>1, <1>3, NormalizedDimensions
<1>. QED
  BY <1>1, <1>4, CallerAssumption DEF Pow, Quantity, UnitValue

LEMMA RootsKeepQuantities ==
  ASSUME NEW v \in Quantity, NEW n \in Roots, HasRoot(v, n)
  PROVE  Root(v, n) \in Quantity
<1> DEFINE S == DOMAIN v.dims
           e == [b \in S |-> v.dims[b] \div n]
<1>1. /\ v.factor \in Factor /\ S \in SUBSET Base /\ v.dims \in [S -> Exponent]
      /\ n \in Int /\ n > 0
  BY DimensionsAreFunctions, CallerAssumption DEF Quantity, UnitValue, HasRoot
<1>2. e \in [S -> Exponent]
  BY <1>1, QuotientExponent
<1>3. Normalized(e) \in Dimensions /\ Normalized(Normalized(e)) = Normalized(e)
  BY <1>1, <1>2, NormalizedDimensions
<1>. QED
  BY <1>1, <1>3, CallerAssumption DEF Root, Quantity, UnitValue

(* The ratio of two quantities is dimensionless exactly if they have the same *)
(* exponents, and then so is the product with the inverse: a difference of    *)
(* two machine integers does not wrap to 0.                                   *)
LEMMA RatioTellsDimensions ==
  ASSUME NEW v \in Quantity, NEW w \in Quantity
  PROVE  /\ IsConformable(v, w) <=> v.dims = w.dims
         /\ v.dims = w.dims => IsDimensionless(Multiply(v, Invert(w)))
<1> DEFINE S == DOMAIN v.dims \cup DOMAIN w.dims
           d == Difference(v.dims, w.dims)
<1>1. /\ v.dims \in Dimensions /\ w.dims \in Dimensions
      /\ Normalized(v.dims) = v.dims /\ Normalized(w.dims) = w.dims
  BY DEF Quantity, UnitValue
<1>2. /\ v.dims \in [DOMAIN v.dims -> Exponent] /\ w.dims \in [DOMAIN w.dims -> Exponent]
      /\ \A b \in DOMAIN v.dims : v.dims[b] # 0
      /\ \A b \in DOMAIN w.dims : w.dims[b] # 0
  BY <1>1, DimensionsAreFunctions DEF Normalized
<1>3. /\ \A b : At(v.dims, b) \in Exponent /\ At(w.dims, b) \in Exponent
      /\ d = [b \in S |-> At(v.dims, b) - At(w.dims, b)]
  BY <1>1, ExactExponents DEF Difference
<1>4. ASSUME NEW b \in S
      PROVE  Wrapped(d[b]) = 0 <=> At(v.dims, b) = At(w.dims, b)
  <2> DEFINE n == At(v.dims, b) - At(w.dims, b)
  <2>1. At(v.dims, b) \in Exponent /\ At(w.dims, b) \in Exponent
    BY <1>3
  <2>2. n \in Int /\ -2 * Half < n /\ n < 2 * Half /\ (n = 0 <=> At(v.dims, b) = At(w.dims, b))
    BY <2>1, AlgebraAssumption DEF Exponent
  <2>3. d[b] = n
    BY <1>3
  <2> HIDE DEF n, d
  <2>4. -2 * Half <= n /\ n # -2 * Half
    BY <2>2, AlgebraAssumption
  <2>5. Wrapped(n) = 0 <=> n = 0
    BY <2>2, <2>4, WrappedExponent
  <2>. QED
    BY <2>2, <2>3, <2>5
<1>5. IsDimensionless(Divide(v, w)) <=> \A b \in S : Wrapped(d[b]) = 0
  <2> DEFINE e == [b \in DOMAIN d |-> Wrapped(d[b])]
  <2>1. DOMAIN e = S /\ \A b \in S : e[b] = Wrapped(d[b])
    BY <1>3
  <2>2. Divide(v, w).dims = Normalized(e)
    BY DEF Divide, Stored
  <2> HIDE DEF e, d
  <2>3. Normalized(e) = [b \in {b \in S : e[b] # 0} |-> e[b]]
    BY <2>1 DEF Normalized
  <2>4. IsDimensionless(Divide(v, w)) <=> \A b \in {b \in S : e[b] # 0} : e[b] = 0
    BY <2>2, <2>3 DEF IsDimensionless
  <2>. QED
    BY <2>1, <2>4
<1>6. (\A b \in S : At(v.dims, b) = At(w.dims, b)) <=> v.dims = w.dims
  <2>1. ASSUME \A b \in S : At(v.dims, b) = At(w.dims, b)
        PROVE  v.dims = w.dims
    <3>1. DOMAIN v.dims = DOMAIN w.dims
      BY <1>2, <2>1 DEF At
    <3>2. \A b \in DOMAIN v.dims : v.dims[b] = w.dims[b]
      BY <2>1, <3>1 DEF At
    <3>. QED
      BY <1>2, <3>1, <3>2
  <2>. QED
    BY <2>1
<1>7. ASSUME v.dims = w.dims
      PROVE  IsDimensionless(Multiply(v, Invert(w)))
  <2> DEFINE o == Invert(w).dims
             p == Sum(v.dims, o)
  <2>1. o = [b \in DOMAIN w.dims |-> Wrapped(-w.dims[b])]
    BY DEF Invert
  <2>2. p = [b \in DOMAIN w.dims |-> w.dims[b] + Wrapped(-w.dims[b])]
    BY <1>7, <2>1 DEF Sum, At
  <2>3. ASSUME NEW b \in DOMAIN w.dims
        PROVE  Wrapped(w.dims[b] + Wrapped(-w.dims[b])) = 0
    <3>1. w.dims[b] \in Exponent
      BY <1>2
    <3>. QED
      BY <3>1, AlgebraAssumption DEF Wrapped, Exponent
  <2>4. Multiply(v, Invert(w)).dims = Normalized([b \in DOMAIN w.dims |-> Wrapped(p[b])])
    BY <2>2 DEF Multiply, Stored
  <2>5. \A b \in DOMAIN w.dims : Wrapped(p[b]) = 0
    BY <2>2, <2>3
  <2> HIDE DEF p, o
  <2>. QED
    BY <2>4, <2>5 DEF Normalized, IsDimensionless
<1>. QED
  BY <1>4, <1>5, <1>6, <1>7 DEF IsConformable

-----------------------------------------------------------------------------
\* The caller.

(* TypeOK in terms of quantities.                                             *)
LEMMA TypeOKIsQuantities ==
  TypeOK <=> /\ unit \in [Variable -> Quantity]
             /\ checked \in BOOLEAN /\ fits \in [Variable -> BOOLEAN]
             /\ code \in {"OK", "BadSum", "BadNum", "NotRoot", "panicked"}
             /\ calls \in 0 .. MaxCalls
BY DEF TypeOK, Quantity

(* A fresh quantity and a primitive are in normal form.                       *)
LEMMA FreshQuantities == Unity \in Quantity /\ \A b \in Base : Primitive(b) \in Quantity
<1>1. {0, 1} \subseteq Exponent
  BY AlgebraAssumption DEF Exponent
<1>2. Unity \in Quantity
  <2> DEFINE e == [b \in {} |-> 0]
  <2>1. e \in Dimensions
    BY DimensionsAreFunctions
  <2>2. Normalized(e) = e
    BY DEF Normalized
  <2>. QED
    BY <2>1, <2>2, AlgebraAssumption DEF Unity, Quantity, UnitValue
<1>3. ASSUME NEW b \in Base
      PROVE  Primitive(b) \in Quantity
  <2> DEFINE e == [c \in {b} |-> 1]
  <2>1. e \in Dimensions
    BY <1>1, DimensionsAreFunctions
  <2>2. {c \in DOMAIN e : e[c] # 0} = {b}
    OBVIOUS
  <2>3. Normalized(e) = e
    BY <2>2 DEF Normalized
  <2> HIDE DEF e
  <2>4. Primitive(b) = [factor |-> One, dims |-> e]
    BY DEF Primitive, e
  <2>. QED
    BY <2>1, <2>3, <2>4, AlgebraAssumption DEF Quantity, UnitValue
<1>. QED
  BY <1>2, <1>3

(* A call counts as one, whatever it returns.                                 *)
LEMMA CalledType ==
  ASSUME TypeOK, Called
  PROVE  checked' \in BOOLEAN /\ calls' \in 0 .. MaxCalls
BY CallerAssumption DEF TypeOK, Called

(* Changing a variable to a quantity, or failing, keeps TypeOK.               *)
LEMMA AssignType ==
  ASSUME TypeOK, Called, NEW x \in Variable, NEW v, NEW d, NEW from, v \in Quantity,
         Assign(x, v, d, from)
  PROVE  TypeOK'
BY TypeOKIsQuantities, CalledType DEF Assign, TypeOK, Quantity

LEMMA FailsType ==
  ASSUME TypeOK, Called, NEW c \in {"BadSum", "BadNum", "NotRoot", "panicked"}, Fails(c)
  PROVE  TypeOK'
BY CalledType DEF Fails, TypeOK

LEMMA ComputesType ==
  ASSUME TypeOK, Called, NEW x \in Variable, NEW v, NEW e, NEW d, NEW from, v \in Quantity,
         Computes(x, v, e, d, from)
  PROVE  TypeOK'
BY AssignType, FailsType DEF Computes

(* TypeOK is inductive: quantities stay well-formed and in normal form under  *)
(* every call, also after exponents have wrapped around.                      *)
THEOREM QuantitiesStayNormal == Spec => []TypeOK
<1>1. Init => TypeOK
  BY FreshQuantities, CallerAssumption, TypeOKIsQuantities DEF Init
<1>2. TypeOK /\ [Next]_vars => TypeOK'
  <2> SUFFICES ASSUME TypeOK, [Next]_vars
               PROVE  TypeOK'
    OBVIOUS
  <2>1. \A x \in Variable : unit[x] \in Quantity
    BY TypeOKIsQuantities
  <2>2. ASSUME NEW x \in Variable, NEW y \in Variable, MultiplyBy(x, y)
        PROVE  TypeOK'
    <3>1. Multiply(unit[x], unit[y]) \in Quantity
      BY <2>1, OperationsKeepQuantities
    <3>. QED
      BY <2>2, <3>1, ComputesType DEF MultiplyBy
  <2>3. ASSUME NEW x \in Variable, NEW y \in Variable, DivideBy(x, y)
        PROVE  TypeOK'
    <3>1. Divide(unit[x], unit[y]) \in Quantity
      BY <2>1, OperationsKeepQuantities
    <3>. QED
      BY <2>3, <3>1, ComputesType DEF DivideBy
  <2>4. ASSUME NEW x \in Variable, NEW y \in Variable, AddTo(x, y)
        PROVE  TypeOK'
    <3>1. Add(unit[x], unit[y]) \in Quantity
      BY <2>1, OperationsKeepQuantities
    <3>. QED
      BY <2>4, <3>1, AssignType, FailsType DEF AddTo
  <2>5. ASSUME NEW x \in Variable, InvertIt(x)
        PROVE  TypeOK'
    <3>1. Invert(unit[x]) \in Quantity
      BY <2>1, OperationsKeepQuantities
    <3>. QED
      BY <2>5, <3>1, AssignType DEF InvertIt
  <2>6. ASSUME NEW x \in Variable, NEW n \in Powers, PowIt(x, n)
        PROVE  TypeOK'
    <3>1. Pow(unit[x], n) \in Quantity
      BY <2>1, PowersKeepQuantities
    <3>. QED
      BY <2>6, <3>1, ComputesType, FailsType DEF PowIt
  <2>7. ASSUME NEW x \in Variable, NEW n \in Roots, RootIt(x, n)
        PROVE  TypeOK'
    <3>1. HasRoot(unit[x], n) => Root(unit[x], n) \in Quantity
      BY <2>1, RootsKeepQuantities
    <3>. QED
      BY <2>7, <3>1, AssignType, FailsType DEF RootIt
  <2>8. ASSUME NEW x \in Variable, NEW y \in Variable, CloneInto(x, y)
        PROVE  TypeOK'
    BY <2>1, <2>8, AssignType DEF CloneInto
  <2>9. CASE UNCHANGED vars
    BY <2>9 DEF vars, TypeOK
  <2>. QED
    BY <2>2, <2>3, <2>4, <2>5, <2>6, <2>7, <2>8, <2>9 DEF Next, Done
<1>. QED
  BY <1>1, <1>2, PTL DEF Spec

(* Unit::is_conformable, the comparison of maps that add and the evaluator    *)
(* make, and equality of the maps agree in every state.                       *)
THEOREM TestsOfConformabilityAgree == Spec => []ConformabilityAgrees
<1>1. TypeOK => ConformabilityAgrees
  <2> SUFFICES ASSUME TypeOK, NEW x \in Variable, NEW y \in Variable
               PROVE  /\ IsConformable(unit[x], unit[y]) <=> AreConformable(unit[x], unit[y])
                      /\ IsConformable(unit[x], unit[y]) <=> unit[x].dims = unit[y].dims
                      /\ IsConformable(unit[x], unit[y]) =>
                           IsDimensionless(Multiply(unit[x], Invert(unit[y])))
    BY DEF ConformabilityAgrees
  <2>1. unit[x] \in Quantity /\ unit[y] \in Quantity
    BY TypeOKIsQuantities
  <2>2. AreConformable(unit[x], unit[y]) <=> unit[x].dims = unit[y].dims
    BY <2>1 DEF AreConformable, SameDimensions, Quantity
  <2>. QED
    BY <2>1, <2>2, RatioTellsDimensions
<1>. QED
  BY <1>1, QuantitiesStayNormal, PTL

-----------------------------------------------------------------------------
\* Exactness.

(* The invariant behind ExactWhileInRange.                                    *)
ExactInv == TypeOK /\ DOMAIN exact = Variable /\ ExactWhileInRange

(* Assigning what is exact if the operands are keeps every variable exact.    *)
LEMMA AssignExact ==
  ASSUME ExactInv, NEW x \in Variable, NEW v, NEW d, NEW from, Assign(x, v, d, from),
         (\A y \in from : fits[y]) /\ InRange(d) => v.dims = Normalized(d)
  PROVE  DOMAIN exact' = Variable /\ ExactWhileInRange'
BY DEF ExactInv, Assign, ExactWhileInRange, TypeOK

LEMMA FailsExact ==
  ASSUME ExactInv, NEW c, Fails(c)
  PROVE  DOMAIN exact' = Variable /\ ExactWhileInRange'
BY DEF ExactInv, Fails, ExactWhileInRange

LEMMA ComputesExact ==
  ASSUME ExactInv, NEW x \in Variable, NEW v, NEW e, NEW d, NEW from, Computes(x, v, e, d, from),
         (\A y \in from : fits[y]) /\ InRange(d) => v.dims = Normalized(d)
  PROVE  DOMAIN exact' = Variable /\ ExactWhileInRange'
BY AssignExact, FailsExact DEF Computes

(* As long as the true exponents are machine integers, the stored ones are    *)
(* the true ones: nothing but an overflow makes a result inexact.             *)
THEOREM ExactUntilOverflow == Spec => []ExactWhileInRange
<1>1. Init => ExactInv
  <2>1. Init => TypeOK
    BY FreshQuantities, CallerAssumption, TypeOKIsQuantities DEF Init
  <2>. QED
    BY <2>1 DEF Init, ExactInv, ExactWhileInRange
<1>2. ExactInv /\ TypeOK' /\ [Next]_vars => ExactInv'
  <2> SUFFICES ASSUME ExactInv, TypeOK', [Next]_vars
               PROVE  DOMAIN exact' = Variable /\ ExactWhileInRange'
    BY DEF ExactInv
  <2>1. ASSUME NEW x \in Variable
        PROVE  /\ unit[x] \in Quantity /\ unit[x].dims \in Dimensions
               /\ Normalized(unit[x].dims) = unit[x].dims
               /\ DOMAIN unit[x].dims \in SUBSET Base
               /\ unit[x].dims \in [DOMAIN unit[x].dims -> Exponent]
               /\ fits[x] => unit[x].dims = exact[x]
    BY TypeOKIsQuantities, DimensionsAreFunctions DEF ExactInv, ExactWhileInRange, Quantity, UnitValue
  <2>2. ASSUME NEW x \in Variable, NEW y \in Variable, MultiplyBy(x, y)
        PROVE  DOMAIN exact' = Variable /\ ExactWhileInRange'
    <3> DEFINE d == Sum(exact[x], exact[y])
    <3>1. ASSUME \A z \in {x, y} : fits[z], InRange(d)
          PROVE  Multiply(unit[x], unit[y]).dims = Normalized(d)
      <4> DEFINE e == Sum(unit[x].dims, unit[y].dims)
      <4>1. e = d
        BY <2>1, <3>1
      <4>2. /\ DOMAIN unit[x].dims \cup DOMAIN unit[y].dims \in SUBSET Base
            /\ e \in [DOMAIN unit[x].dims \cup DOMAIN unit[y].dims -> -2 * Half .. 2 * Half - 1]
        BY <2>1, ExactExponents
      <4>3. InRange(e)
        BY <3>1, <4>1
      <4> HIDE DEF e, d
      <4>4. Stored(e) = Normalized(e)
        BY <4>2, <4>3, StoredDimensions
      <4>. QED
        BY <4>1, <4>4 DEF Multiply, e
    <3>. QED
      BY <2>2, <3>1, ComputesExact DEF MultiplyBy
  <2>3. ASSUME NEW x \in Variable, NEW y \in Variable, DivideBy(x, y)
        PROVE  DOMAIN exact' = Variable /\ ExactWhileInRange'
    <3> DEFINE d == Difference(exact[x], exact[y])
    <3>1. ASSUME \A z \in {x, y} : fits[z], InRange(d)
          PROVE  Divide(unit[x], unit[y]).dims = Normalized(d)
      <4> DEFINE e == Difference(unit[x].dims, unit[y].dims)
      <4>1. e = d
        BY <2>1, <3>1
      <4>2. /\ DOMAIN unit[x].dims \cup DOMAIN unit[y].dims \in SUBSET Base
            /\ e \in [DOMAIN unit[x].dims \cup DOMAIN unit[y].dims -> -2 * Half .. 2 * Half - 1]
        BY <2>1, ExactExponents
      <4>3. InRange(e)
        BY <3>1, <4>1
      <4> HIDE DEF e, d
      <4>4. Stored(e) = Normalized(e)
        BY <4>2, <4>3, StoredDimensions
      <4>. QED
        BY <4>1, <4>4 DEF Divide, e
    <3>. QED
      BY <2>3, <3>1, ComputesExact DEF DivideBy
  <2>4. ASSUME NEW x \in Variable, NEW y \in Variable, AddTo(x, y)
        PROVE  DOMAIN exact' = Variable /\ ExactWhileInRange'
    <3>1. Add(unit[x], unit[y]).dims = unit[x].dims
      BY <2>1 DEF Add, Quantity, UnitValue
    <3>2. fits[x] => Add(unit[x], unit[y]).dims = Normalized(exact[x])
      BY <2>1, <3>1
    <3>. QED
      BY <2>4, <3>2, AssignExact, FailsExact DEF AddTo
  <2>5. ASSUME NEW x \in Variable, InvertIt(x)
        PROVE  DOMAIN exact' = Variable /\ ExactWhileInRange'
    <3>1. ASSUME fits[x], InRange(Opposite(exact[x]))
          PROVE  Invert(unit[x]).dims = Normalized(Opposite(exact[x]))
      <4> DEFINE e == [b \in DOMAIN unit[x].dims |-> Wrapped(-unit[x].dims[b])]
      <4>1. e = Normalized(Opposite(unit[x].dims))
        BY <2>1, <3>1, OppositeDimensions
      <4>. QED
        BY <2>1, <3>1, <4>1 DEF Invert
    <3>. QED
      BY <2>5, <3>1, AssignExact DEF InvertIt
  <2>6. ASSUME NEW x \in Variable, NEW n \in Powers, PowIt(x, n)
        PROVE  DOMAIN exact' = Variable /\ ExactWhileInRange'
    <3> DEFINE d == Multiple(exact[x], n)
               e == [b \in DOMAIN unit[x].dims |-> WrappedProduct(unit[x].dims[b] * n)]
    <3>1. ASSUME fits[x], InRange(d)
          PROVE  Pow(unit[x], n).dims = Normalized(d)
      <4>1. d = [b \in DOMAIN unit[x].dims |-> unit[x].dims[b] * n]
        BY <2>1, <3>1 DEF Multiple
      <4>2. ASSUME NEW b \in DOMAIN unit[x].dims
            PROVE  WrappedProduct(unit[x].dims[b] * n) = unit[x].dims[b] * n
        <5>1. unit[x].dims[b] * n \in Exponent
          BY <3>1, <4>1 DEF InRange
        <5>2. Exponent \subseteq Int
          BY DEF Exponent
        <5>. QED
          BY <5>1, <5>2, WrappedProductExponent
      <4>3. e = d
        BY <4>1, <4>2
      <4>. QED
        BY <4>3 DEF Pow
    <3>. QED
      BY <2>6, <3>1, ComputesExact, FailsExact DEF PowIt
  <2>7. ASSUME NEW x \in Variable, NEW n \in Roots, RootIt(x, n)
        PROVE  DOMAIN exact' = Variable /\ ExactWhileInRange'
    <3>1. fits[x] => Root(unit[x], n).dims = Normalized([b \in DOMAIN exact[x] |-> exact[x][b] \div n])
      BY <2>1 DEF Root
    <3>. QED
      BY <2>7, <3>1, AssignExact, FailsExact DEF RootIt
  <2>8. ASSUME NEW x \in Variable, NEW y \in Variable, CloneInto(x, y)
        PROVE  DOMAIN exact' = Variable /\ ExactWhileInRange'
    <3>1. fits[y] => unit[y].dims = Normalized(exact[y])
      BY <2>1
    <3>. QED
      BY <2>8, <3>1, AssignExact DEF CloneInto
  <2>9. CASE UNCHANGED vars
    BY <2>9 DEF vars, ExactInv, ExactWhileInRange
  <2>. QED
    BY <2>2, <2>3, <2>4, <2>5, <2>6, <2>7, <2>8, <2>9 DEF Next, Done
<1>3. ExactInv => ExactWhileInRange
  BY DEF ExactInv
<1>. QED
  BY <1>1, <1>2, <1>3, QuantitiesStayNormal, PTL DEF Spec

-----------------------------------------------------------------------------
\* Roots and powers.

(* A multiple is divisible, and divides to what was multiplied.               *)
LEMMA MultipleDivides ==
  ASSUME NEW e \in Int, NEW n \in Int, n > 0
  PROVE  /\ (e * n) % n = 0 /\ (e * n) \div n = e
         /\ e % n = 0 => (e \div n) * n = e
BY SMTT(60)

(* On quantities in normal form, root undoes pow wherever the exponents stay  *)
(* in range, and pow always undoes root.                                      *)
THEOREM RootsUndoPowersAlways == Spec => []RootsUndoPowers
<1>1. TypeOK => RootsUndoPowers
  <2> SUFFICES ASSUME TypeOK, NEW x \in Variable, NEW n \in Powers \cap Roots, n > 0
               PROVE  /\ InRange(Multiple(unit[x].dims, n)) /\ ~Negative(Pow(unit[x], n).factor) =>
                           /\ HasRoot(Pow(unit[x], n), n)
                           /\ Root(Pow(unit[x], n), n).dims = unit[x].dims
                      /\ HasRoot(unit[x], n) => Pow(Root(unit[x], n), n).dims = unit[x].dims
    BY DEF RootsUndoPowers
  <2> DEFINE d == unit[x].dims
             S == DOMAIN d
  <2>1. /\ n \in Int /\ S \in SUBSET Base /\ d \in [S -> Exponent] /\ Normalized(d) = d
        /\ Exponent \subseteq Int
    BY TypeOKIsQuantities, DimensionsAreFunctions, CallerAssumption
    DEF Quantity, UnitValue, Exponent
  <2>2. \A b \in S : d[b] # 0
    BY <2>1 DEF Normalized
  <2>3. ASSUME InRange(Multiple(d, n)), ~Negative(Pow(unit[x], n).factor)
        PROVE  HasRoot(Pow(unit[x], n), n) /\ Root(Pow(unit[x], n), n).dims = d
    <3> DEFINE e == [b \in S |-> WrappedProduct(d[b] * n)]
    <3>1. ASSUME NEW b \in S
          PROVE  e[b] = d[b] * n /\ e[b] # 0 /\ e[b] % n = 0 /\ e[b] \div n = d[b]
      <4>1. d[b] \in Int /\ d[b] # 0
        BY <2>1, <2>2
      <4>2. d[b] * n \in Exponent
        BY <2>3 DEF InRange, Multiple
      <4>3. e[b] = d[b] * n
        BY <2>1, <4>2, WrappedProductExponent
      <4>4. (d[b] * n) % n = 0 /\ (d[b] * n) \div n = d[b]
        BY <2>1, <4>1, MultipleDivides
      <4>5. d[b] * n # 0
        BY <2>1, <4>1
      <4>. QED
        BY <4>3, <4>4, <4>5
    <3>2. {b \in DOMAIN e : e[b] # 0} = S
      BY <3>1
    <3>3. DOMAIN e = S
      OBVIOUS
    <3> HIDE DEF e
    <3>4. Pow(unit[x], n).dims = [b \in S |-> e[b]]
      BY <3>2 DEF Pow, Normalized, e
    <3>5. HasRoot(Pow(unit[x], n), n)
      BY <2>3, <3>1, <3>4 DEF HasRoot
    <3> DEFINE f == [b \in S |-> e[b] \div n]
    <3>6. f = d
      BY <2>1, <3>1
    <3>7. Root(Pow(unit[x], n), n).dims = Normalized(f)
      BY <3>4 DEF Root
    <3>. QED
      BY <2>1, <3>5, <3>6, <3>7
  <2>4. ASSUME HasRoot(unit[x], n)
        PROVE  Pow(Root(unit[x], n), n).dims = d
    <3> DEFINE e == [b \in S |-> d[b] \div n]
    <3>1. ASSUME NEW b \in S
          PROVE  e[b] \in Int /\ e[b] # 0 /\ WrappedProduct(e[b] * n) = d[b]
      <4>1. d[b] \in Int /\ d[b] \in Exponent /\ d[b] # 0 /\ d[b] % n = 0
        BY <2>1, <2>2, <2>4 DEF HasRoot
      <4>2. (d[b] \div n) * n = d[b] /\ d[b] \div n \in Int
        BY <2>1, <4>1, MultipleDivides
      <4>3. d[b] \div n # 0
        BY <2>1, <4>1, <4>2
      <4>. QED
        BY <4>1, <4>2, <4>3, WrappedProductExponent
    <3>2. {b \in DOMAIN e : e[b] # 0} = S
      BY <3>1
    <3> HIDE DEF e
    <3>3. Root(unit[x], n).dims = [b \in S |-> e[b]]
      BY <3>2 DEF Root, Normalized, e
    <3> DEFINE f == [b \in S |-> WrappedProduct(e[b] * n)]
    <3>4. f = d
      BY <2>1, <3>1
    <3>5. Pow(Root(unit[x], n), n).dims = Normalized(f)
      BY <3>3 DEF Pow
    <3>. QED
      BY <2>1, <3>4, <3>5
  <2>. QED
    BY <2>3, <2>4
<1>. QED
  BY <1>1, QuantitiesStayNormal, PTL

-----------------------------------------------------------------------------
\* Rational powers (module RationalPower).

CONSTANTS MaxTerms, MaxDenominator, Precision, Fraction, Operand
VARIABLES base, exponent, plain, state, tail, coef, raised

Power == INSTANCE RationalPower WITH y <- exponent, x <- tail, result <- raised

-----------------------------------------------------------------------------
\* Continued fractions.

LEMMA TwoToTheIs ==
  /\ Power!TwoToThe[0] = 1
  /\ \A n \in Nat : Power!TwoToThe[n] \in Nat \ {0} /\ Power!TwoToThe[n + 1] = 2 * Power!TwoToThe[n]
<1> DEFINE S == Nat \ {0}
           next == [p \in Nat \X S |-> 2 * p[2]]
           Solution(f) == f = [n \in Nat |-> IF n = 0 THEN 1 ELSE 2 * f[n - 1]]
           d == CHOOSE f : Solution(f)
<1>1. next \in [Nat \X S -> S] /\ 1 \in S
  OBVIOUS
<1>2. PICK f : Recursion(f, S, 1, next)
  <2> HIDE DEF next
  <2> QED BY <1>1, RecursiveFunction
<1>3. f \in [Nat -> S] /\ f[0] = 1 /\ \A n \in Nat : f[n + 1] = 2 * f[n]
  <2>1. f \in [Nat -> S] /\ f[0] = 1 /\ \A n \in Nat : f[n + 1] = next[<<n + 1, f[n]>>]
    BY <1>2 DEF Recursion
  <2>2. ASSUME NEW n \in Nat PROVE next[<<n + 1, f[n]>>] = 2 * f[n]
    <3>1. <<n + 1, f[n]>> \in Nat \X S
      BY <2>1
    <3> QED BY <3>1
  <2> QED BY <2>1, <2>2
<1>4. Solution(f)
  <2>1. ASSUME NEW n \in Nat PROVE f[n] = IF n = 0 THEN 1 ELSE 2 * f[n - 1]
    <3>1. n # 0 => n - 1 \in Nat /\ (n - 1) + 1 = n
      OBVIOUS
    <3> QED BY <1>3, <3>1
  <2> QED BY <1>3, <2>1
<1>5. Solution(d)
  <2> HIDE DEF Solution
  <2> QED BY <1>4
<1>6. Power!TwoToThe = d
  BY DEF Power!TwoToThe
<1> HIDE DEF d
<1> DEFINE same == {n \in Nat : d[n] = f[n]}
<1>7. same = Nat
  <2>1. 0 \in same
    BY <1>3, <1>5
  <2>2. ASSUME NEW n \in same PROVE n + 1 \in same
    <3>1. n \in Nat /\ n + 1 \in Nat /\ n + 1 # 0 /\ (n + 1) - 1 = n
      OBVIOUS
    <3>2. d[n + 1] = 2 * d[n]
      BY <1>5, <3>1
    <3> QED BY <1>3, <3>1, <3>2
  <2>3. same \in SUBSET Nat
    OBVIOUS
  <2> HIDE DEF same
  <2> QED BY <2>1, <2>2, <2>3, NaturalInduction
<1>8. \A n \in Nat : d[n] = f[n]
  BY <1>7
<1> QED BY <1>3, <1>6, <1>8

Pair == [num : Int, den : Int]

\* The loop of float2rat over the coefficients, from the last one on.
LEMMA NestedIs ==
  ASSUME AlgebraAssumption, NEW c \in Seq(Int)
  PROVE  \E g \in [0 .. Len(c) -> Pair] :
           /\ g[0] = [num |-> 0, den |-> 1] /\ Power!Nested(c) = g[Len(c)]
           /\ \A n \in 1 .. Len(c) : g[n] = Power!Under(c[Len(c) + 1 - n], g[n - 1])
<1> DEFINE N == Len(c)
           start == [num |-> 0, den |-> 1]
           Step(n, f) == IF n \in 1 .. N THEN Power!Under(c[N + 1 - n], f) ELSE f
           next == [p \in Nat \X Pair |-> Step(p[1], p[2])]
           Solution(f) == f = [n \in 0 .. N |-> IF n = 0 THEN start ELSE Power!Under(c[N + 1 - n], f[n - 1])]
           d == CHOOSE f : Solution(f)
<1>1. N \in Nat /\ \A n \in 1 .. N : c[N + 1 - n] \in Int
  OBVIOUS
<1>2. start \in Pair
  BY DEF Pair
<1>3. \A n \in Nat, f \in Pair : Step(n, f) \in Pair
  <2>1. ASSUME NEW a \in Int, NEW f \in Pair PROVE Power!Under(a, f) \in Pair
    <3>1. \A m \in Int : Power!Saturated(m) \in Int
      BY AlgebraAssumption DEF Power!Saturated
    <3>5. \A m \in Int, n \in Int : Power!Saturated(m + n) \in Int
      BY AlgebraAssumption DEF Power!Saturated
    <3>2. f.den \in Int /\ f.num \in Int /\ a * f.den \in Int
      BY DEF Pair
    <3>3. Power!Saturated(a * f.den) \in Int
      BY <3>1, <3>2
    <3>4. Power!Saturated(Power!Saturated(a * f.den) + f.num) \in Int
      BY <3>5, <3>2, <3>3
    <3> QED BY <3>2, <3>4 DEF Pair, Power!Under
  <2> HIDE DEF N
  <2> QED BY <1>1, <2>1
<1>4. next \in [Nat \X Pair -> Pair]
  <2> HIDE DEF Step
  <2> QED BY <1>3
<1> HIDE DEF start
<1>5. PICK f : Recursion(f, Pair, start, next)
  <2> HIDE DEF next
  <2> QED BY <1>2, <1>4, RecursiveFunction
<1>6. f \in [Nat -> Pair] /\ f[0] = start /\ \A n \in Nat : f[n + 1] = Step(n + 1, f[n])
  <2>1. f \in [Nat -> Pair] /\ f[0] = start /\ \A n \in Nat : f[n + 1] = next[<<n + 1, f[n]>>]
    BY <1>5 DEF Recursion
  <2> HIDE DEF Step
  <2>2. ASSUME NEW n \in Nat PROVE next[<<n + 1, f[n]>>] = Step(n + 1, f[n])
    <3>1. n + 1 \in Nat /\ f[n] \in Pair
      BY <2>1
    <3>2. <<n + 1, f[n]>> \in Nat \X Pair
      BY <3>1
    <3> QED BY <3>2
  <2> QED BY <2>1, <2>2
<1> DEFINE g == [n \in 0 .. N |-> f[n]]
<1>7. \A n \in 1 .. N : f[n] = Power!Under(c[N + 1 - n], f[n - 1])
  <2> SUFFICES ASSUME NEW n \in 1 .. N PROVE f[n] = Power!Under(c[N + 1 - n], f[n - 1])
    OBVIOUS
  <2>1. n - 1 \in Nat /\ (n - 1) + 1 = n
    BY <1>1
  <2>2. f[n] = Step(n, f[n - 1])
    BY <1>6, <2>1
  <2> QED BY <2>2
<1>8. Solution(g)
  <2> SUFFICES ASSUME NEW n \in 0 .. N
               PROVE  g[n] = IF n = 0 THEN start ELSE Power!Under(c[N + 1 - n], g[n - 1])
    OBVIOUS
  <2>1. n # 0 => n \in 1 .. N /\ n - 1 \in 0 .. N
    BY <1>1
  <2> QED BY <1>6, <1>7, <2>1
<1>9. Solution(d)
  <2> HIDE DEF Solution, g
  <2> QED BY <1>8
<1>10. Power!Nested(c) = d[N]
  BY DEF Power!Nested, start
<1> HIDE DEF d, N
<1>11. /\ d[0] = start
       /\ \A n \in 1 .. N : d[n] = Power!Under(c[N + 1 - n], d[n - 1])
  <2>1. 0 \in 0 .. N /\ \A n \in 1 .. N : n \in 0 .. N /\ n # 0
    BY <1>1
  <2> QED BY <1>9, <2>1
<1> DEFINE same == {n \in Nat : n <= N => d[n] = f[n]}
<1>12. same = Nat
  <2>1. 0 \in same
    BY <1>6, <1>11
  <2>2. ASSUME NEW n \in same PROVE n + 1 \in same
    <3>1. SUFFICES ASSUME n + 1 <= N PROVE d[n + 1] = f[n + 1]
      OBVIOUS
    <3>2. n \in Nat /\ n <= N /\ n + 1 \in 1 .. N /\ (n + 1) - 1 = n
      BY <1>1, <3>1
    <3>3. d[n] = f[n]
      BY <3>2
    <3> QED BY <1>7, <1>11, <3>2, <3>3
  <2>3. same \in SUBSET Nat
    OBVIOUS
  <2> HIDE DEF same
  <2> QED BY <2>1, <2>2, <2>3, NaturalInduction
<1>13. \A n \in 0 .. N : d[n] = f[n]
  BY <1>1, <1>12
<1>14. d \in [0 .. N -> Pair]
  <2>1. d = [n \in 0 .. N |-> d[n]]
    BY <1>9
  <2>2. \A n \in 0 .. N : d[n] \in Pair
    <3>1. \A n \in 0 .. N : n \in Nat
      BY <1>1
    <3> QED BY <1>6, <1>13, <3>1
  <2> QED BY <2>1, <2>2
<1> QED BY <1>10, <1>11, <1>14 DEF N, start

\* The exact fraction n over d is in lowest terms.
Coprime(n, d) == \E s, t \in Int : n * s + d * t = 1

\* What is left to expand, coefficient by coefficient: an exponent, the reciprocal of its
\* fractional part, and so on.
Chain(c, z) ==
  /\ z \in [1 .. Len(c) + 1 -> Pair]
  /\ \A i \in 1 .. Len(c) : z[i + 1].num = z[i].den /\ z[i + 1].den = z[i].num - c[i] * z[i].den

\* How far the pair e, a value of the loop of float2rat in unbounded integers, is from the
\* reciprocal of what was to be expanded there.
Cross(e, z) == e.num * z.num - e.den * z.den

Tracks(f, e) == f = e \/ (f.den = Half - 1 /\ f.num \in 0 .. Half - 1 /\ e.den >= Half - 1)

LEMMA UnderTracks ==
  ASSUME AlgebraAssumption, NEW a \in Int, a >= 1, NEW f \in Pair, NEW e \in Pair,
         0 <= e.num, e.num <= e.den, 1 <= e.den, Tracks(f, e), f.num <= Half - 1, f.den <= Half - 1
  PROVE  LET h == [num |-> e.den, den |-> a * e.den + e.num]
             u == Power!Under(a, f)
         IN  /\ h \in Pair /\ 0 <= h.num /\ h.num <= h.den /\ 1 <= h.den
             /\ Tracks(u, h) /\ u.num <= Half - 1 /\ u.den <= Half - 1 /\ u \in Pair
<1> DEFINE m == a * e.den
           p == a * f.den
           h == [num |-> e.den, den |-> m + e.num]
<1>1. e.num \in Int /\ e.den \in Int /\ f.num \in Int /\ f.den \in Int
  BY DEF Pair
<1>2. m \in Int /\ m >= e.den
  BY <1>1
<1>3. p \in Int /\ (f.den >= 1 => p >= f.den)
  BY <1>1
<1>4. f = e => p = m
  OBVIOUS
<1>5. /\ h.num = e.den /\ h.den = m + e.num /\ h \in Pair
  BY <1>1, <1>2 DEF Pair
<1>6. Half \in Nat /\ Half > 1
  BY AlgebraAssumption
<1>7. Power!Under(a, f) = [num |-> f.den, den |-> Power!Saturated(Power!Saturated(p) + f.num)]
  BY DEF Power!Under
<1> HIDE DEF m, p, h
<1> DEFINE q == Power!Saturated(p)
           r == Power!Saturated(q + f.num)
<1>8. q = IF p >= Half THEN Half - 1 ELSE IF p < -Half THEN -Half ELSE p
  BY DEF Power!Saturated
<1>9. r = IF q + f.num >= Half THEN Half - 1 ELSE IF q + f.num < -Half THEN -Half ELSE q + f.num
  BY DEF Power!Saturated
<1> HIDE DEF q, r
<1>10. q \in Int /\ r \in Int /\ r <= Half - 1
  BY <1>1, <1>3, <1>6, <1>8, <1>9
<1>11. CASE f = e
  <2>1. p = m /\ f.num = e.num /\ f.den = e.den
    BY <1>4, <1>11
  <2>2. CASE m + e.num < Half
    <3>1. r = m + e.num
      BY <1>1, <1>2, <1>6, <1>8, <1>9, <2>1, <2>2
    <3>2. Power!Under(a, f) = h
      BY <1>7, <2>1, <3>1 DEF q, r, h
    <3> QED BY <1>1, <1>2, <1>5, <2>1, <2>2, <3>2 DEF h, m, Tracks
  <2>3. CASE m + e.num >= Half
    <3>1. r = Half - 1
      BY <1>1, <1>2, <1>6, <1>8, <1>9, <2>1, <2>3
    <3>2. Power!Under(a, f).den = Half - 1 /\ Power!Under(a, f).num = f.den /\ Power!Under(a, f) \in Pair
      BY <1>1, <1>6, <1>7, <3>1 DEF q, r, Pair
    <3> QED BY <1>1, <1>2, <1>5, <1>6, <2>1, <2>3, <3>2 DEF h, m, Tracks
  <2> QED BY <1>1, <1>2, <1>6, <2>2, <2>3
<1>12. CASE f # e
  <2>1. f.den = Half - 1 /\ f.num \in 0 .. Half - 1 /\ e.den >= Half - 1
    BY <1>12 DEF Tracks
  <2>2. r = Half - 1
    BY <1>1, <1>3, <1>6, <1>8, <1>9, <2>1
  <2>3. Power!Under(a, f).den = Half - 1 /\ Power!Under(a, f).num = f.den /\ Power!Under(a, f) \in Pair
    BY <1>1, <1>6, <1>7, <2>2 DEF q, r, Pair
  <2> QED BY <1>1, <1>2, <1>5, <1>6, <2>1, <2>3 DEF h, m, Tracks
<1> QED BY <1>11, <1>12

\* One turn of the loop keeps the terms lowest and turns the distance round.
LEMMA UnderKeeps ==
  ASSUME NEW a \in Int, NEW e \in Pair, Coprime(e.num, e.den), NEW z \in Pair, NEW w \in Pair,
         w.num = z.den, w.den = z.num - a * z.den
  PROVE  LET h == [num |-> e.den, den |-> a * e.den + e.num]
         IN  Coprime(h.num, h.den) /\ Cross(h, z) = -Cross(e, w)
<1> DEFINE n == e.num
           d == e.den
           u == z.num
           v == z.den
<1>1. n \in Int /\ d \in Int /\ u \in Int /\ v \in Int
  BY DEF Pair
<1>2. PICK s \in Int, t \in Int : n * s + d * t = 1
  BY DEF Coprime
<1> HIDE DEF n, d, u, v
<1>3. d * (t - a * s) + (a * d + n) * s = 1 /\ t - a * s \in Int
  BY <1>1, <1>2
<1>4. Coprime(d, a * d + n)
  BY <1>3 DEF Coprime
<1>5. d * u - (a * d + n) * v = -(n * v - d * (u - a * v))
  BY <1>1
<1> QED BY <1>4, <1>5 DEF Cross, n, d, u, v

Expands(k, c) == /\ k \in Nat \ {0} /\ c \in Seq(Int) /\ Len(c) = k /\ \A i \in 2 .. k : c[i] >= 1

\* Under the first coefficient: the fraction in lowest terms, unless an operation saturated, and
\* it misses the fractional part of the exponent by what was left of it at the end.
LEMMA NestedTracks ==
  ASSUME AlgebraAssumption, NEW k, NEW c, Expands(k, c), NEW z, Chain(c, z)
  PROVE  \E e \in Pair :
           /\ 0 <= e.num /\ e.num <= e.den /\ 1 <= e.den /\ Coprime(e.num, e.den)
           /\ Tracks(Power!Nested(Tail(c)), e) /\ Power!Nested(Tail(c)) \in Pair
           /\ Cross(e, z[2]) = z[k + 1].den \/ Cross(e, z[2]) = -z[k + 1].den
<1> DEFINE N == k - 1
           t == Tail(c)
<1>1. /\ k \in Nat /\ k >= 1 /\ N \in Nat /\ t \in Seq(Int) /\ Len(t) = N
      /\ \A i \in 1 .. N : t[i] = c[i + 1]
  BY DEF Expands
<1>2. PICK g \in [0 .. N -> Pair] :
        /\ g[0] = [num |-> 0, den |-> 1] /\ Power!Nested(t) = g[N]
        /\ \A n \in 1 .. N : g[n] = Power!Under(t[N + 1 - n], g[n - 1])
  <2> DEFINE M == Len(t)
  <2>1. M = N /\ t \in Seq(Int)
    BY <1>1
  <2> HIDE DEF t, N
  <2>2. \E g \in [0 .. M -> Pair] :
          /\ g[0] = [num |-> 0, den |-> 1] /\ Power!Nested(t) = g[M]
          /\ \A n \in 1 .. M : g[n] = Power!Under(t[M + 1 - n], g[n - 1])
    BY <2>1, NestedIs
  <2> HIDE DEF M
  <2> QED BY <2>1, <2>2
<1>3. /\ \A i \in 1 .. k + 1 : z[i] \in Pair
      /\ \A i \in 1 .. k : z[i + 1].num = z[i].den /\ z[i + 1].den = z[i].num - c[i] * z[i].den
  BY DEF Chain, Expands
<1>4. \A i \in 1 .. k : c[i] \in Int /\ (i >= 2 => c[i] >= 1)
  BY <1>1 DEF Expands
<1>5. \A n \in 1 .. N : g[n] = Power!Under(c[k + 1 - n], g[n - 1])
  <2> SUFFICES ASSUME NEW n \in 1 .. N PROVE g[n] = Power!Under(c[k + 1 - n], g[n - 1])
    OBVIOUS
  <2>1. N + 1 - n \in 1 .. N /\ (N + 1 - n) + 1 = k + 1 - n
    <3>1. k \in Nat /\ N \in Nat /\ n \in 1 .. N /\ N = k - 1
      BY <1>1
    <3> HIDE DEF N
    <3> QED BY <3>1
  <2>2. t[N + 1 - n] = c[k + 1 - n]
    BY <1>1, <2>1
  <2> QED BY <1>2, <2>2
<1> DEFINE last == z[k + 1].den
           Good(f, e, w) == /\ 0 <= e.num /\ e.num <= e.den /\ 1 <= e.den /\ Coprime(e.num, e.den)
                            /\ Tracks(f, e) /\ f \in Pair /\ f.num <= Half - 1 /\ f.den <= Half - 1
                            /\ Cross(e, w) = last \/ Cross(e, w) = -last
           good == {n \in Nat : n <= N => \E e \in Pair : Good(g[n], e, z[k + 1 - n])}
<1>6. last \in Int
  <2>1. z[k + 1] \in Pair
    BY <1>1, <1>3
  <2> QED BY <2>1 DEF Pair
<1>7. 0 \in good
  <2> DEFINE e == [num |-> 0, den |-> 1]
  <2>1. e \in Pair /\ e.num = 0 /\ e.den = 1
    BY DEF Pair
  <2>2. Coprime(0, 1)
    <3>1. 0 * 0 + 1 * 1 = 1
      OBVIOUS
    <3> QED BY <3>1 DEF Coprime
  <2>3. Half - 1 >= 1 /\ Half \in Nat
    BY AlgebraAssumption
  <2>4. Cross(e, z[k + 1]) = -last
    <3>1. z[k + 1] \in Pair
      BY <1>1, <1>3
    <3>2. z[k + 1].num \in Int /\ z[k + 1].den \in Int
      BY <3>1 DEF Pair
    <3> QED BY <3>2 DEF Cross
  <2>5. g[0] = e /\ k + 1 - 0 = k + 1
    BY <1>1, <1>2
  <2> HIDE DEF e, last
  <2>6. Good(g[0], e, z[k + 1])
    BY <2>1, <2>2, <2>3, <2>4, <2>5 DEF Tracks
  <2> HIDE DEF Good
  <2> QED BY <2>1, <2>5, <2>6
<1>8. ASSUME NEW n \in good PROVE n + 1 \in good
  <2> SUFFICES ASSUME n + 1 <= N PROVE \E e \in Pair : Good(g[n + 1], e, z[k + 1 - (n + 1)])
    OBVIOUS
  <2> DEFINE i == k + 1 - (n + 1)
  <2>1. /\ n \in Nat /\ n <= N /\ n + 1 \in 1 .. N /\ (n + 1) - 1 = n
        /\ i \in 2 .. k /\ i + 1 = k + 1 - n /\ i \in 1 .. k /\ i \in 1 .. k + 1 /\ i + 1 \in 1 .. k + 1
    BY <1>1
  <2>2. PICK e \in Pair : Good(g[n], e, z[i + 1])
    <3> HIDE DEF Good, i
    <3> QED BY <2>1
  <2>3. g[n + 1] = Power!Under(c[i], g[n])
    BY <1>5, <2>1
  <2> HIDE DEF i
  <2>4. c[i] \in Int /\ c[i] >= 1 /\ z[i] \in Pair /\ z[i + 1] \in Pair
    BY <1>3, <1>4, <2>1
  <2>5. z[i + 1].num = z[i].den /\ z[i + 1].den = z[i].num - c[i] * z[i].den
    BY <1>3, <2>1
  <2> DEFINE h == [num |-> e.den, den |-> c[i] * e.den + e.num]
  <2>6. /\ h \in Pair /\ 0 <= h.num /\ h.num <= h.den /\ 1 <= h.den /\ Tracks(g[n + 1], h)
        /\ g[n + 1].num <= Half - 1 /\ g[n + 1].den <= Half - 1 /\ g[n + 1] \in Pair
    BY <2>2, <2>3, <2>4, UnderTracks
  <2>7. Coprime(h.num, h.den) /\ Cross(h, z[i]) = -Cross(e, z[i + 1])
    BY <2>2, <2>4, <2>5, UnderKeeps
  <2>8. Cross(h, z[i]) = last \/ Cross(h, z[i]) = -last
    <3> HIDE DEF h, last
    <3> QED BY <1>6, <2>2, <2>7
  <2> HIDE DEF h, last
  <2>9. Good(g[n + 1], h, z[i])
    BY <2>6, <2>7, <2>8
  <2> HIDE DEF Good
  <2> QED BY <2>6, <2>9 DEF i
<1>9. N \in good
  <2>1. good \in SUBSET Nat
    OBVIOUS
  <2> HIDE DEF good
  <2> QED BY <1>1, <1>7, <1>8, <2>1, NaturalInduction
<1>10. k + 1 - N = 2
  BY <1>1
<1>11. PICK e \in Pair : Good(g[N], e, z[2])
  <2> HIDE DEF Good, N
  <2>1. N <= N
    BY <1>1
  <2> QED BY <1>9, <1>10, <2>1
<1> QED BY <1>2, <1>11

\* The whole fraction. It misses the exponent by the rest r over the product of denominators.
LEMMA ConvergentTracks ==
  ASSUME AlgebraAssumption, NEW k, NEW c, Expands(k, c), NEW z, Chain(c, z)
  PROVE  \E n, d \in Int :
           LET f == Power!Convergent(c)
               missed == n * z[1].den - d * z[1].num
           IN  /\ 1 <= d /\ Coprime(n, d) /\ f \in Pair
               /\ missed = z[k + 1].den \/ missed = -z[k + 1].den
               /\ f.den = d \/ (f.den = Half - 1 /\ d >= Half - 1)
               /\ \A limit \in Nat : limit < Half /\ d < limit /\ n \in limit - Half .. Half - limit =>
                    f = [num |-> n, den |-> d]
<1>1. PICK e \in Pair :
        /\ 0 <= e.num /\ e.num <= e.den /\ 1 <= e.den /\ Coprime(e.num, e.den)
        /\ Tracks(Power!Nested(Tail(c)), e) /\ Power!Nested(Tail(c)) \in Pair
        /\ Cross(e, z[2]) = z[k + 1].den \/ Cross(e, z[2]) = -z[k + 1].den
  BY NestedTracks
<1> DEFINE a == c[1]
           q == e.den
           b == e.num
           g == Power!Nested(Tail(c))
           f == Power!Convergent(c)
           u == z[1].num
           v == z[1].den
<1>2. a \in Int /\ q \in Int /\ b \in Int /\ u \in Int /\ v \in Int /\ g.num \in Int /\ g.den \in Int
  <2>1. 1 \in 1 .. Len(c) /\ 1 \in 1 .. Len(c) + 1 /\ c[1] \in Int
    BY DEF Expands
  <2>2. z[1] \in Pair
    BY <2>1 DEF Chain
  <2> QED BY <1>1, <2>1, <2>2 DEF Pair
<1>3. z[2].num = v /\ z[2].den = u - a * v
  <2>1. 1 \in 1 .. Len(c) /\ 1 + 1 = 2
    BY DEF Expands
  <2> QED BY <2>1 DEF Chain
<1>4. Cross(e, z[2]) = (b + q * a) * v - q * u
  <2>1. Cross(e, z[2]) = b * v - q * (u - a * v)
    BY <1>3 DEF Cross
  <2> HIDE DEF a, q, b, u, v
  <2> QED BY <1>2, <2>1
<1>5. Coprime(b + q * a, q)
  <2>1. PICK s \in Int, t \in Int : b * s + q * t = 1
    BY <1>1 DEF Coprime
  <2> HIDE DEF a, q, b
  <2>2. (b + q * a) * s + q * (t - a * s) = 1 /\ t - a * s \in Int
    BY <1>2, <2>1
  <2> QED BY <2>2 DEF Coprime
<1>6. f = [num |-> Power!Saturated(g.num + Power!Saturated(g.den * a)), den |-> g.den]
  <2>1. g = [num |-> g.num, den |-> g.den]
    BY <1>1 DEF Pair
  <2> HIDE DEF g
  <2> QED BY <2>1 DEF Power!Convergent, Power!WithInteger, g
<1>7. \A m \in Int : Power!Saturated(m) \in Int /\ (m \in -Half .. Half - 1 => Power!Saturated(m) = m)
  BY AlgebraAssumption DEF Power!Saturated
<1>8. g.den * a \in Int /\ q * a \in Int
  BY <1>2
<1>9. f \in Pair /\ f.den = g.den
  <2>1. Power!Saturated(g.den * a) \in Int
    BY <1>7, <1>8
  <2> DEFINE m == Power!Saturated(g.den * a)
  <2> HIDE DEF m, g, f
  <2>2. m \in Int
    BY <2>1 DEF m
  <2>3. Power!Saturated(g.num + m) \in Int
    BY <1>2, <1>7, <2>2
  <2> QED BY <1>2, <1>6, <2>3 DEF Pair, m
<1>10. f.den = q \/ (f.den = Half - 1 /\ q >= Half - 1)
  BY <1>1, <1>9 DEF Tracks
<1>11. ASSUME NEW limit \in Nat, limit < Half, q < limit, b + q * a \in limit - Half .. Half - limit
       PROVE  f = [num |-> b + q * a, den |-> q]
  <2>1. Half \in Nat
    BY AlgebraAssumption
  <2>2. g = e
    <3>1. ~ (q >= Half - 1)
      BY <1>2, <1>11, <2>1
    <3> QED BY <1>1, <3>1 DEF Tracks
  <2>3. g.den = q /\ g.num = b
    BY <2>2
  <2> DEFINE m == q * a
  <2>4. m \in Int /\ 0 <= b /\ b <= q
    BY <1>1, <1>8
  <2> HIDE DEF m, q, b, a, f, g
  <2>5. b + m \in limit - Half .. Half - limit
    BY <1>11 DEF m
  <2>6. m \in -Half .. Half - 1 /\ b + m \in -Half .. Half - 1
    BY <1>2, <1>11, <2>1, <2>4, <2>5
  <2>7. Power!Saturated(m) = m /\ Power!Saturated(b + m) = b + m
    BY <1>2, <1>7, <2>4, <2>6
  <2> QED BY <1>6, <2>3, <2>7 DEF m
<1>12. b + q * a \in Int /\ 1 <= q
  BY <1>1, <1>2
<1> HIDE DEF f, g, a, b, q, u, v
<1> QED BY <1>1, <1>2, <1>4, <1>5, <1>9, <1>10, <1>11, <1>12 DEF f, u, v

LEMMA ProductPositive ==
  ASSUME NEW a \in Int, NEW b \in Int, NEW c \in Int, c > 0, a * c = b * c
  PROVE  a = b
BY SMTT(30)

\* Products of a multiple.
LEMMA LowestTerms ==
  ASSUME NEW n \in Int, NEW d \in Int, 1 <= d, Coprime(n, d), NEW y, y \in [num : Int, den : Nat \ {0}],
         n * y.den = d * y.num
  PROVE  /\ Power!LeastDenominator(y) = d /\ (y.num * d) \div y.den = n
         /\ \A m \in Int : (m * y.num) % y.den = 0 => m % d = 0
         /\ \A m \in Int : m % d = 0 => (m * y.num) % y.den = 0 /\ (m * y.num) \div y.den = (m \div d) * n
<1> DEFINE u == y.num
           v == y.den
<1>1. u \in Int /\ v \in Nat \ {0} /\ n * v = d * u
  OBVIOUS
<1>2. PICK s \in Int, t \in Int : n * s + d * t = 1
  BY DEF Coprime
<1> HIDE DEF u, v
<1>3. ASSUME NEW m \in Int, (m * u) % v = 0 PROVE m % d = 0
  <2>1. PICK q \in Int : m * u = q * v
    <3> DEFINE p == m * u
    <3>1. p \in Int /\ p % v = 0
      BY <1>1, <1>3
    <3> HIDE DEF p
    <3>2. p = (p \div v) * v /\ p \div v \in Int
      BY <1>1, <3>1
    <3> QED BY <3>2 DEF p
  <2>2. (m * n) * v = (q * d) * v
    <3>1. (m * n) * v = m * (d * u)
      BY <1>1
    <3>2. m * (d * u) = d * (m * u)
      BY <1>1
    <3>3. d * (m * u) = d * (q * v)
      BY <2>1
    <3>4. d * (q * v) = (q * d) * v
      BY <1>1
    <3> QED BY <3>1, <3>2, <3>3, <3>4
  <2>3. m * n = q * d
    <3>1. m * n \in Int /\ q * d \in Int
      OBVIOUS
    <3> QED BY <1>1, <2>2, <3>1, ProductPositive
  <2>4. m = (q * s + m * t) * d
    <3>1. m = m * (n * s + d * t)
      BY <1>2
    <3>2. m * (n * s + d * t) = (m * n) * s + (m * t) * d
      BY <1>1
    <3>3. (q * d) * s + (m * t) * d = (q * s + m * t) * d
      OBVIOUS
    <3> QED BY <2>3, <3>1, <3>2, <3>3
  <2> DEFINE w == q * s + m * t
  <2>5. w \in Int /\ m = w * d
    BY <2>4
  <2> HIDE DEF w
  <2> QED BY <2>5, MultipleDivides
<1>4. ASSUME NEW m \in Int, m % d = 0 PROVE (m * u) % v = 0 /\ (m * u) \div v = (m \div d) * n
  <2> DEFINE w == m \div d
  <2>1. w \in Int /\ m = w * d
    <3> QED BY <1>4, SMTT(30)
  <2> HIDE DEF w
  <2>2. m * u = (w * n) * v
    <3>1. (w * d) * u = w * (d * u)
      BY <1>1, <2>1
    <3>2. w * (n * v) = (w * n) * v
      BY <1>1, <2>1
    <3> QED BY <1>1, <2>1, <3>1, <3>2
  <2> DEFINE p == w * n
  <2>3. p \in Int /\ m * u = p * v /\ v \in Int /\ v > 0
    BY <1>1, <2>1, <2>2
  <2>4. p = (m \div d) * n
    BY DEF w
  <2> HIDE DEF p
  <2>5. (p * v) % v = 0 /\ (p * v) \div v = p
    BY <2>3, MultipleDivides
  <2> QED BY <2>3, <2>4, <2>5
<1>5. d % d = 0 /\ d \div d = 1
  <2>1. d = 1 * d
    OBVIOUS
  <2> QED BY <2>1, MultipleDivides
<1>6. (u * d) % v = 0 /\ (u * d) \div v = n
  <2>1. (d * u) % v = 0 /\ (d * u) \div v = 1 * n
    BY <1>4, <1>5
  <2>2. d * u = u * d
    BY <1>1
  <2> QED BY <2>1, <2>2
<1>7. \A e \in 1 .. d - 1 : (u * e) % v # 0
  <2> SUFFICES ASSUME NEW e \in 1 .. d - 1, (u * e) % v = 0 PROVE FALSE
    OBVIOUS
  <2>1. e * u = u * e /\ e \in Int
    BY <1>1
  <2>2. e % d = 0
    BY <1>3, <2>1
  <2>3. e % d = e
    OBVIOUS
  <2> QED BY <2>2, <2>3
<1>8. d \in 1 .. v
  <2>1. v % d = 0
    <3> DEFINE p == v * u
    <3>1. p = u * v
      BY <1>1
    <3> HIDE DEF p
    <3>2. (u * v) % v = 0
      BY <1>1, MultipleDivides
    <3>3. p % v = 0
      BY <3>1, <3>2
    <3>4. v \in Int /\ (v * u) % v = 0
      BY <1>1, <3>3 DEF p
    <3> QED BY <1>3, <3>4
  <2>2. v < d => v % d = v
    BY <1>1
  <2> QED BY <1>1, <2>1, <2>2
<1>9. \A e \in 1 .. v : (u * e) % v = 0 /\ (\A i \in 1 .. e - 1 : (u * i) % v # 0) => e = d
  <2> SUFFICES ASSUME NEW e \in 1 .. v, (u * e) % v = 0, \A i \in 1 .. e - 1 : (u * i) % v # 0 PROVE e = d
    OBVIOUS
  <2>1. ~ (e < d)
    <3>1. e < d => e \in 1 .. d - 1
      OBVIOUS
    <3> QED BY <1>7, <3>1
  <2>2. ~ (d < e)
    <3>1. d < e => d \in 1 .. e - 1
      OBVIOUS
    <3> QED BY <1>6, <3>1
  <2> QED BY <1>1, <2>1, <2>2
<1>10. Power!LeastDenominator(y) = d
  BY <1>6, <1>7, <1>8, <1>9 DEF Power!LeastDenominator, u, v
<1> QED BY <1>3, <1>4, <1>6, <1>10 DEF u, v

\* The least denominator divides.
LEMMA LeastDenominatorIs ==
  ASSUME NEW y, y \in [num : Int, den : Nat \ {0}]
  PROVE  /\ Power!LeastDenominator(y) \in 1 .. y.den
         /\ (y.num * Power!LeastDenominator(y)) % y.den = 0
<1> DEFINE u == y.num
           v == y.den
           T == {e \in Nat : e >= 1 /\ (u * e) % v = 0}
<1>1. u \in Int /\ v \in Nat \ {0}
  OBVIOUS
<1> HIDE DEF u, v
<1>2. v \in T
  BY <1>1, MultipleDivides
<1>3. PICK e \in T : \A i \in T : e <= i
  <2>1. T \in SUBSET Nat /\ T # {}
    BY <1>2
  <2> HIDE DEF T
  <2> QED BY <2>1, LeastNatural
<1>4. e \in 1 .. v /\ (u * e) % v = 0
  BY <1>1, <1>2, <1>3
<1>5. \A i \in 1 .. e - 1 : (u * i) % v # 0
  <2> SUFFICES ASSUME NEW i \in 1 .. e - 1, (u * i) % v = 0 PROVE FALSE
    OBVIOUS
  <2>1. i \in T
    BY <1>4
  <2> QED BY <1>3, <1>4, <2>1
<1> QED BY <1>4, <1>5 DEF Power!LeastDenominator, u, v

-----------------------------------------------------------------------------
\* The inductive invariant: what the coefficients found so far leave of the exponent.

\* What is left of the quotient under the last coefficient.
LastRest == tail.num - coef[Len(coef)] * tail.den

Rest(u, v) == [num |-> u, den |-> v]

\* Every second coefficient halves what is left.
Halved(k, z) ==
  LET e == Power!TwoToThe[k \div 2]
  IN  (k % 2 = 0 => z.den * e <= exponent.den) /\ (k % 2 = 1 => z.num * e <= exponent.den)

Expanding ==
  /\ Len(coef) < MaxTerms /\ tail.num \in Int /\ tail.den \in Nat \ {0}
  /\ \E z : Chain(coef, z) /\ z[1] = exponent /\ z[Len(coef) + 1] = tail
  /\ coef # <<>> => /\ tail.den <= tail.num /\ tail.num <= Precision * tail.den
                    /\ tail.den < exponent.den
  /\ Halved(Len(coef), tail)

Expanded ==
  /\ coef # <<>>
  /\ \E z : Chain(coef, z) /\ z[1] = exponent /\ z[Len(coef) + 1] = Rest(tail.den, LastRest)
  /\ LastRest \in 0 .. exponent.den - 1
  /\ \/ LastRest * Precision < exponent.den
     \/ LastRest * Power!TwoToThe[(MaxTerms - 1) \div 2] <= exponent.den

PowerInv ==
  /\ Power!TypeOK /\ Power!RaisedExactly
  /\ \A i \in 2 .. Len(coef) : coef[i] >= 1
  /\ state = "called" => tail = exponent /\ coef = <<>> /\ raised = base
  /\ state = "expanding" => Expanding
  /\ state = "expanded" => Expanded
  /\ state \in {"expanding", "expanded"} => raised = base /\ plain

LEMMA ExponentIs ==
  ASSUME Power!PowerAssumption, Power!TypeOK
  PROVE  /\ exponent \in [num : Int, den : Nat \ {0}] /\ exponent \in Pair
         /\ exponent.num \in Int /\ exponent.den \in Nat \ {0}
BY DEF Power!PowerAssumption, Power!TypeOK, Pair

\* What the coefficients amount to, once they are all found.
LEMMA ExpandedConvergent ==
  ASSUME AlgebraAssumption, Power!PowerAssumption, PowerInv, state = "expanded"
  PROVE  \E n, d \in Int :
           LET f == Power!Convergent(coef)
               missed == n * exponent.den - d * exponent.num
           IN  /\ 1 <= d /\ Coprime(n, d) /\ f \in Pair
               /\ missed = LastRest \/ missed = -LastRest
               /\ f.den = d \/ (f.den = Half - 1 /\ d >= Half - 1)
               /\ \A limit \in Nat : limit < Half /\ d < limit /\ n \in limit - Half .. Half - limit =>
                    f = [num |-> n, den |-> d]
<1> DEFINE k == Len(coef)
<1>1. coef \in Seq(Int)
  <2> DEFINE S == Power!Exponent
  <2>1. coef \in Seq(S)
    BY DEF PowerInv, Power!TypeOK
  <2>2. S \subseteq Int
    BY DEF Power!Exponent
  <2> HIDE DEF S
  <2>3. coef \in [1 .. Len(coef) -> Int] /\ Len(coef) \in Nat
    <3>1. coef \in [1 .. Len(coef) -> S] /\ Len(coef) \in Nat
      BY <2>1, LenProperties
    <3> QED BY <2>2, <3>1
  <2> QED BY <2>3
<1>2. Expands(k, coef)
  BY <1>1 DEF Expands, PowerInv, Expanded
<1>3. PICK z : Chain(coef, z) /\ z[1] = exponent /\ z[k + 1] = Rest(tail.den, LastRest)
  BY DEF PowerInv, Expanded
<1>4. z[k + 1].den = LastRest
  BY <1>3 DEF Rest
<1> HIDE DEF k
<1> QED BY <1>2, <1>3, <1>4, ConvergentTracks

\* A fraction that is accepted is the exponent in lowest terms, and nothing was left.
LEMMA AcceptedFraction ==
  ASSUME AlgebraAssumption, Power!PowerAssumption, PowerInv, state = "expanded",
         Power!IsRational(Power!Convergent(coef))
  PROVE  LET f == Power!Convergent(coef)
         IN  /\ f.num \in Int /\ f.den \in 1 .. MaxDenominator - 1 /\ Coprime(f.num, f.den)
             /\ f.num * exponent.den = f.den * exponent.num
<1> DEFINE f == Power!Convergent(coef)
           u == exponent.num
           v == exponent.den
<1>1. PICK n \in Int, d \in Int :
        /\ 1 <= d /\ Coprime(n, d) /\ f \in Pair
        /\ n * v - d * u = LastRest \/ n * v - d * u = -LastRest
        /\ f.den = d \/ (f.den = Half - 1 /\ d >= Half - 1)
  BY ExpandedConvergent
<1>2. LastRest \in 0 .. v - 1 /\ u \in Int /\ v \in Nat \ {0}
  BY ExponentIs DEF PowerInv, Expanded
<1>3. f.den < MaxDenominator /\ f.num * v = u * f.den
  BY DEF Power!IsRational, Power!Same
<1>4. MaxDenominator < Half /\ MaxDenominator \in Nat /\ Half \in Nat
  BY AlgebraAssumption DEF Power!PowerAssumption
<1>5. f.num \in Int /\ f.den \in Int
  BY <1>1 DEF Pair
<1> HIDE DEF f, u, v
<1>6. f.den = d
  BY <1>1, <1>3, <1>4, <1>5
<1>7. n = f.num
  <2> DEFINE m == n - f.num
  <2>1. m * v = n * v - d * u
    <3>1. (n - f.num) * v = n * v - f.num * v /\ u * d = d * u
      BY <1>1, <1>2, <1>5
    <3> QED BY <1>3, <1>6, <3>1
  <2>2. m \in Int
    BY <1>1, <1>5
  <2> HIDE DEF m
  <2>3. -v < m * v /\ m * v < v
    <3> DEFINE w == n * v - d * u
    <3>1. w = LastRest \/ w = -LastRest
      BY <1>1
    <3> HIDE DEF w
    <3>2. -v < w /\ w < v
      BY <1>2, <3>1
    <3> QED BY <2>1, <3>2 DEF w
  <2>4. m = 0
    BY <1>2, <2>2, <2>3, SMTT(30)
  <2> QED BY <1>1, <1>5, <2>4 DEF m
<1>8. u * d = d * u
  BY <1>1, <1>2
<1> QED BY <1>1, <1>3, <1>4, <1>5, <1>6, <1>7, <1>8 DEF f, u, v

LEMMA FractionsFound ==
  ASSUME AlgebraAssumption, Power!PowerAssumption, PowerInv
  PROVE  Power!SmallFractionsAreFound
<1> DEFINE f == Power!Convergent(coef)
           least == Power!LeastDenominator(exponent)
           m == (exponent.num * least) \div exponent.den
<1> SUFFICES ASSUME state = "expanded"
             PROVE  /\ Power!IsRational(f) => f.num = m /\ f.den = least
                    /\ least < MaxDenominator /\ m \in MaxDenominator - Half .. Half - MaxDenominator =>
                         Power!IsRational(f)
  BY DEF Power!SmallFractionsAreFound
<1>1. exponent \in [num : Int, den : Nat \ {0}] /\ exponent.num \in Int /\ exponent.den \in Nat \ {0}
  BY ExponentIs DEF PowerInv
<1>2. ASSUME Power!IsRational(f) PROVE f.num = m /\ f.den = least
  <2> DEFINE n == f.num
             d == f.den
  <2>1. n \in Int /\ d \in 1 .. MaxDenominator - 1 /\ Coprime(n, d) /\ n * exponent.den = d * exponent.num
    BY <1>2, AcceptedFraction
  <2>2. d \in Int /\ 1 <= d
    BY <2>1 DEF Power!PowerAssumption
  <2> HIDE DEF n, d, f
  <2>3. least = d /\ (exponent.num * d) \div exponent.den = n
    BY <1>1, <2>1, <2>2, LowestTerms
  <2> QED BY <2>3 DEF n, d
<1>3. ASSUME least < MaxDenominator, m \in MaxDenominator - Half .. Half - MaxDenominator
      PROVE  Power!IsRational(f)
  <2> DEFINE u == exponent.num
             v == exponent.den
             r == LastRest
  <2>1. PICK n \in Int, d \in Int :
          /\ 1 <= d /\ Coprime(n, d)
          /\ n * v - d * u = r \/ n * v - d * u = -r
          /\ \A limit \in Nat : limit < Half /\ d < limit /\ n \in limit - Half .. Half - limit =>
               f = [num |-> n, den |-> d]
    BY ExpandedConvergent
  <2>2. r \in Int /\ 0 <= r
    BY <1>1 DEF PowerInv, Expanded
  <2>3. /\ least \in 1 .. v /\ (u * least) % v = 0
    BY <1>1, LeastDenominatorIs
  <2>4. /\ MaxDenominator \in Nat /\ Precision \in Nat /\ Half \in Nat
        /\ MaxDenominator <= Precision /\ Precision < Half
        /\ MaxDenominator <= Power!TwoToThe[(MaxTerms - 1) \div 2]
        /\ Power!TwoToThe[(MaxTerms - 1) \div 2] \in Nat
    <3>1. (MaxTerms - 1) \div 2 \in Nat
      BY DEF Power!PowerAssumption
    <3> QED BY <3>1, AlgebraAssumption, TwoToTheIs DEF Power!PowerAssumption
  <2>5. r * Precision < v \/ r * Power!TwoToThe[(MaxTerms - 1) \div 2] <= v
    BY DEF PowerInv, Expanded
  <2>6. u \in Int /\ v \in Nat \ {0}
    BY <1>1
  <2> DEFINE t == Power!TwoToThe[(MaxTerms - 1) \div 2]
             q == (u * least) \div v
  <2>7. q = m /\ q \in Int /\ u * least = q * v
    <3> DEFINE p == u * least
    <3>1. p \in Int /\ p % v = 0
      BY <2>3, <2>6
    <3> HIDE DEF p, u, v
    <3>2. p \div v \in Int /\ p = (p \div v) * v
      BY <2>6, <3>1, SMTT(30)
    <3> QED BY <3>2 DEF p, u, v
  <2> HIDE DEF u, v, r, t, f, q, least
  \* The distance is a multiple of one over the least denominator.
  <2>8. r = 0
    <3> SUFFICES ASSUME r >= 1 PROVE FALSE
      BY <2>2
    <3> DEFINE k == n * least - d * q
               missed == n * v - d * u
    <3>1. missed * least = k * v
      <4>1. (n * v - d * u) * least = (n * least) * v - d * (u * least)
        BY <2>3, <2>6
      <4>2. (n * least - d * q) * v = (n * least) * v - d * (q * v)
        BY <2>3, <2>6, <2>7
      <4> QED BY <2>7, <4>1, <4>2
    <3>2. k \in Int /\ missed \in Int /\ (missed = r \/ missed = -r) /\ least \in Int /\ least >= 1 /\ least <= v
      BY <2>1, <2>3, <2>6, <2>7
    <3> HIDE DEF k, missed
    <3> DEFINE j == IF missed = r THEN k ELSE -k
    <3>3. j \in Int /\ r * least = j * v
      <4>1. CASE missed = r
        BY <3>1, <3>2, <4>1
      <4>2. CASE missed # r
        <5>1. missed = -r /\ (-r) * least = -(r * least) /\ (-k) * v = -(k * v)
          BY <2>2, <2>6, <3>2, <4>2
        <5>2. r * least \in Int /\ k * v \in Int
          BY <2>2, <2>6, <3>2
        <5> QED BY <3>1, <3>2, <4>2, <5>1, <5>2
      <4> QED BY <4>1, <4>2
    <3> HIDE DEF j
    <3>4. r * least > 0
      BY <2>2, <3>2
    <3>5. j >= 1
      <4>1. j <= 0 => j * v <= 0
        BY <2>6, <3>3
      <4>2. j * v \in Int
        BY <2>6, <3>3
      <4> QED BY <3>3, <3>4, <4>1, <4>2
    <3>6. v <= r * least
      BY <2>6, <3>3, <3>5
    <3>7. ASSUME NEW w \in Int, r * w <= r * least PROVE w <= least
      BY <2>2, <3>2, <3>7, SMTT(30)
    <3>8. r * Precision \in Int /\ r * t \in Int /\ r * least \in Int
      BY <2>2, <2>4, <3>2 DEF t
    <3>9. Precision <= least \/ t <= least
      <4>1. r * Precision <= r * least \/ r * t <= r * least
        BY <2>5, <2>6, <3>6, <3>8 DEF t
      <4>2. Precision \in Int /\ t \in Int
        BY <2>4 DEF t
      <4> QED BY <3>7, <4>1, <4>2
    <3>10. MaxDenominator <= least
      BY <2>4, <3>2, <3>9 DEF t
    <3> QED BY <1>3, <2>4, <3>2, <3>10
  <2>9. n * v = d * u
    <3>1. n * v \in Int /\ d * u \in Int
      BY <2>1, <2>6
    <3> QED BY <2>1, <2>8, <3>1
  <2>10. least = d /\ q = n
    <3>1. Power!LeastDenominator(exponent) = d /\ (exponent.num * d) \div exponent.den = n
      BY <1>1, <2>1, <2>9, LowestTerms DEF u, v
    <3> QED BY <3>1 DEF least, q, u, v
  <2>11. f = [num |-> n, den |-> d]
    <3>1. d < MaxDenominator /\ n \in MaxDenominator - Half .. Half - MaxDenominator
      BY <1>3, <2>7, <2>10
    <3>2. MaxDenominator < Half
      BY <2>4
    <3> QED BY <2>1, <2>4, <3>1, <3>2
  <2>12. n * v = u * d
    <3>1. d * u = u * d
      BY <2>1, <2>6
    <3> QED BY <2>9, <3>1
  <2> QED BY <1>3, <2>10, <2>11, <2>12 DEF Power!IsRational, Power!Same, u, v
<1> QED BY <1>2, <1>3

LEMMA ChainGrows ==
  ASSUME NEW c \in Seq(Int), NEW z, Chain(c, z), NEW a \in Int
  PROVE  LET last == z[Len(c) + 1]
         IN  \E w : /\ Chain(Append(c, a), w) /\ w[1] = z[1]
                    /\ w[Len(c) + 2] = Rest(last.den, last.num - a * last.den)
<1> DEFINE k == Len(c)
           last == z[k + 1]
           new == Rest(last.den, last.num - a * last.den)
           w == [i \in 1 .. k + 2 |-> IF i = k + 2 THEN new ELSE z[i]]
           b == Append(c, a)
<1>1. k \in Nat /\ Len(b) = k + 1 /\ b[k + 1] = a /\ \A i \in 1 .. k : b[i] = c[i]
  OBVIOUS
<1>2. /\ \A i \in 1 .. k + 1 : z[i] \in Pair
      /\ \A i \in 1 .. k : z[i + 1].num = z[i].den /\ z[i + 1].den = z[i].num - c[i] * z[i].den
  BY DEF Chain
<1>3. last.num \in Int /\ last.den \in Int
  <2>1. z[k + 1] \in Pair
    BY <1>1, <1>2
  <2> QED BY <2>1 DEF Pair
<1>4. new \in Pair /\ new.num = last.den /\ new.den = last.num - a * last.den
  BY <1>3 DEF Rest, Pair
<1> HIDE DEF new
<1>5. w \in [1 .. k + 2 -> Pair] /\ w[k + 2] = new /\ \A i \in 1 .. k + 1 : w[i] = z[i]
  BY <1>1, <1>2, <1>4
<1> HIDE DEF w, b, k
<1>6. ASSUME NEW i \in 1 .. k + 1 PROVE w[i + 1].num = w[i].den /\ w[i + 1].den = w[i].num - b[i] * w[i].den
  <2>1. CASE i = k + 1
    <3>1. i + 1 = k + 2 /\ b[i] = a /\ w[i] = last
      BY <1>1, <1>5, <2>1 DEF last
    <3> QED BY <1>4, <1>5, <3>1
  <2>2. CASE i # k + 1
    <3>1. i \in 1 .. k /\ i + 1 \in 1 .. k + 1
      BY <1>1, <2>2
    <3> QED BY <1>1, <1>2, <1>5, <3>1
  <2> QED BY <2>1, <2>2
<1>7. Chain(b, w)
  <2>1. Len(b) + 1 = k + 2
    BY <1>1
  <2> QED BY <1>1, <1>5, <1>6, <2>1 DEF Chain
<1>8. w[1] = z[1]
  BY <1>1, <1>5
<1> QED BY <1>5, <1>7, <1>8 DEF b, k, new, last

\* A coefficient is found: c, with at most half of the quotient left.
LEMMA CoefficientKeeps ==
  ASSUME AlgebraAssumption, Power!PowerAssumption, PowerInv, state = "expanding", NEW c \in Power!Exponent,
         NEW r \in Int, r = tail.num - c * tail.den, 0 <= r, r <= tail.den, r < exponent.den,
         coef # <<>> => c >= 1 /\ 2 * r <= tail.num,
         Power!Coefficient(c, [num |-> r, den |-> tail.den])
  PROVE  PowerInv'
<1> DEFINE k == Len(coef)
           u == tail.num
           v == tail.den
           half(i) == Power!TwoToThe[i]
<1>1. Expanding /\ Power!TypeOK /\ raised = base /\ plain
  BY DEF PowerInv
<1>2. /\ k \in Nat /\ k < MaxTerms /\ u \in Int /\ v \in Nat \ {0} /\ coef \in Seq(Power!Exponent)
      /\ MaxTerms \in Nat /\ Precision \in Nat /\ Precision >= 1
  BY <1>1, AlgebraAssumption DEF Expanding, Power!TypeOK, Power!PowerAssumption
<1>3. coef \in Seq(Int) /\ c \in Int
  <2> DEFINE S == Power!Exponent
  <2>1. coef \in Seq(S) /\ S \subseteq Int /\ c \in S
    BY <1>2 DEF Power!Exponent
  <2> HIDE DEF S
  <2>2. coef \in [1 .. Len(coef) -> S] /\ Len(coef) \in Nat
    BY <2>1, LenProperties
  <2>3. coef \in [1 .. Len(coef) -> Int] /\ Len(coef) \in Nat
    BY <2>1, <2>2
  <2> QED BY <2>1, <2>3
<1>4. PICK w : /\ Chain(Append(coef, c), w) /\ w[1] = exponent
               /\ w[k + 2] = Rest(v, r)
  <2>1. PICK z : Chain(coef, z) /\ z[1] = exponent /\ z[k + 1] = tail
    BY <1>1 DEF Expanding
  <2>2. \E w : /\ Chain(Append(coef, c), w) /\ w[1] = z[1]
               /\ w[Len(coef) + 2] = Rest(z[Len(coef) + 1].den, z[Len(coef) + 1].num - c * z[Len(coef) + 1].den)
    BY <1>3, <2>1, ChainGrows
  <2> QED BY <2>1, <2>2
<1>5. v <= exponent.den /\ exponent.den \in Nat \ {0} /\ exponent.num \in Int
  <2>1. k = 0 => tail = exponent
    BY <1>1 DEF Expanding
  <2>2. k # 0 => coef # <<>>
    OBVIOUS
  <2> QED BY <1>1, <1>2, <2>1, <2>2, ExponentIs DEF Expanding
<1>6. coef' = Append(coef, c) /\ UNCHANGED <<base, exponent, plain, raised>>
  BY DEF Power!Coefficient
<1>7. /\ coef' \in Seq(Power!Exponent) /\ Len(coef') = k + 1 /\ coef'[k + 1] = c /\ coef' # <<>>
      /\ \A i \in 2 .. k + 1 : coef'[i] >= 1
  <2> DEFINE b == Append(coef, c)
  <2>1. b \in Seq(Power!Exponent)
    BY <1>2
  <2>2. Len(b) = k + 1 /\ b[k + 1] = c /\ \A i \in 1 .. k : b[i] = coef[i]
    BY <1>2
  <2>3. ASSUME NEW i \in 2 .. k + 1 PROVE b[i] >= 1
    <3>1. CASE i = k + 1
      <4>1. coef # <<>>
        BY <1>2, <3>1
      <4> QED BY <2>2, <3>1, <4>1
    <3>2. CASE i # k + 1
      <4>1. i \in 1 .. k /\ i \in 2 .. k
        BY <1>2, <3>2
      <4> QED BY <2>2, <4>1 DEF PowerInv
    <3> QED BY <3>1, <3>2
  <2>4. b # <<>>
    BY <1>2, <2>2
  <2> QED BY <1>6, <2>1, <2>2, <2>3, <2>4
<1>8. /\ k \div 2 \in Nat /\ half(k \div 2) \in Nat \ {0}
      /\ half((k \div 2) + 1) = 2 * half(k \div 2)
      /\ k % 2 = 0 => v * half(k \div 2) <= exponent.den
      /\ k % 2 = 1 => u * half(k \div 2) <= exponent.den
  <2>1. k \div 2 \in Nat
    BY <1>2
  <2> QED BY <1>1, <2>1, TwoToTheIs DEF Expanding, Halved
<1>9. /\ k % 2 = 0 \/ k % 2 = 1
      /\ k % 2 = 0 => (k + 1) % 2 = 1 /\ (k + 1) \div 2 = k \div 2
      /\ k % 2 = 1 => (k + 1) % 2 = 0 /\ (k + 1) \div 2 = (k \div 2) + 1 /\ k # 0
  BY <1>2
<1>10. k # 0 => v <= u /\ 2 * r <= u /\ c >= 1
  <2>1. k # 0 => coef # <<>>
    OBVIOUS
  <2> QED BY <1>1, <2>1 DEF Expanding
<1> DEFINE e == half(k \div 2)
<1>11. e \in Nat \ {0} /\ e = half(k \div 2)
  BY <1>8
<1> HIDE DEF e, half, k, u, v
<1>12. r * e <= exponent.den
  <2>1. CASE k % 2 = 0
    <3>1. r * e <= v * e
      BY <1>2, <1>11 DEF v
    <3> QED BY <1>2, <1>5, <1>8, <1>11, <2>1, <3>1
  <2>2. CASE k % 2 = 1
    <3>1. r <= u
      BY <1>2, <1>9, <1>10, <2>2 DEF v
    <3>2. r * e <= u * e
      BY <1>2, <1>11, <3>1
    <3> QED BY <1>2, <1>5, <1>8, <1>11, <2>2, <3>2
  <2> QED BY <1>9, <2>1, <2>2
<1>13. CASE r * Precision < v \/ k + 1 = MaxTerms
  <2>1. state' = "expanded" /\ UNCHANGED tail
    BY <1>13 DEF Power!Coefficient, k, v
  <2>2. LastRest' = r
    BY <1>7, <2>1 DEF LastRest
  <2>3. Expanded'
    <3>1. Chain(coef', w) /\ w[1] = exponent' /\ w[Len(coef') + 1] = Rest(tail'.den, LastRest')
      <4>1. (k + 1) + 1 = k + 2
        BY <1>2
      <4> QED BY <1>4, <1>6, <1>7, <2>1, <2>2, <4>1 DEF v
    <3>2. LastRest' \in 0 .. exponent'.den - 1
      BY <1>5, <1>6, <2>2
    <3>3. \/ LastRest' * Precision < exponent'.den
          \/ LastRest' * Power!TwoToThe[(MaxTerms - 1) \div 2] <= exponent'.den
      <4>1. CASE r * Precision < v
        <5>1. r * Precision \in Int
          BY <1>2
        <5> QED BY <1>2, <1>5, <1>6, <2>2, <4>1, <5>1
      <4>2. CASE k + 1 = MaxTerms
        <5>1. MaxTerms - 1 = k
          BY <1>2, <4>2
        <5> QED BY <1>6, <1>11, <1>12, <2>2, <5>1 DEF half
      <4> QED BY <1>13, <4>1, <4>2
    <3> QED BY <1>7, <3>1, <3>2, <3>3 DEF Expanded
  <2>4. Power!TypeOK'
    <3>1. Len(coef') <= MaxTerms
      BY <1>2, <1>7
    <3> QED BY <1>1, <1>6, <1>7, <2>1, <3>1 DEF Power!TypeOK
  <2>5. Power!RaisedExactly'
    BY <2>1 DEF Power!RaisedExactly, Power!Ended
  <2> QED BY <1>1, <1>6, <1>7, <2>1, <2>3, <2>4, <2>5 DEF PowerInv
<1>14. CASE ~ (r * Precision < v \/ k + 1 = MaxTerms)
  <2>1. tail' = Rest(v, r) /\ state' = "expanding"
    BY <1>14 DEF Power!Coefficient, k, v, Rest
  <2>2. tail'.num = v /\ tail'.den = r
    BY <2>1 DEF Rest
  <2>3. r # 0 /\ v <= Precision * r
    <3>1. r = 0 => r * Precision = 0
      BY <1>2
    <3>2. r * Precision = Precision * r /\ r * Precision \in Int
      BY <1>2
    <3> QED BY <1>2, <1>14, <3>1, <3>2
  <2>4. Halved(k + 1, tail')
    <3>1. CASE k % 2 = 0
      <4>1. (k + 1) % 2 # 0 /\ (k + 1) \div 2 = k \div 2
        BY <1>9, <3>1
      <4>2. v * half(k \div 2) <= exponent.den
        BY <1>8, <3>1
      <4> QED BY <2>2, <4>1, <4>2 DEF Halved, half
    <3>2. CASE k % 2 = 1
      <4>1. 2 * r <= u
        BY <1>9, <1>10, <3>2
      <4>2. (2 * r) * e <= u * e
        BY <1>2, <1>11, <4>1
      <4>3. r * (2 * e) = (2 * r) * e
        BY <1>11
      <4>4. r * (2 * e) <= exponent.den
        BY <1>2, <1>5, <1>8, <1>11, <3>2, <4>2, <4>3
      <4>5. r * half((k + 1) \div 2) <= exponent.den
        BY <1>8, <1>9, <1>11, <3>2, <4>4
      <4>6. (k + 1) % 2 # 1
        BY <1>9, <3>2
      <4> QED BY <2>2, <4>5, <4>6 DEF Halved, half
    <3> QED BY <1>9, <3>1, <3>2
  <2>5. Expanding'
    <3>1. Chain(coef', w) /\ w[1] = exponent' /\ w[Len(coef') + 1] = tail'
      <4>1. (k + 1) + 1 = k + 2
        BY <1>2
      <4> QED BY <1>4, <1>6, <1>7, <2>1, <4>1
    <3>2. Len(coef') < MaxTerms
      BY <1>2, <1>7, <1>14
    <3>3. tail'.num \in Int /\ tail'.den \in Nat \ {0}
      BY <1>2, <2>2, <2>3
    <3>4. tail'.den <= tail'.num /\ tail'.num <= Precision * tail'.den /\ tail'.den < exponent'.den
      BY <1>6, <2>2, <2>3 DEF v
    <3>5. Halved(Len(coef), tail)'
      BY <1>6, <1>7, <2>4 DEF Halved
    <3> QED BY <3>1, <3>2, <3>3, <3>4, <3>5 DEF Expanding
  <2>6. Power!TypeOK'
    <3>1. Len(coef') <= MaxTerms
      BY <1>2, <1>7, <1>14
    <3>2. tail'.num \in Int /\ tail'.den \in Nat \ {0}
      BY <1>2, <2>2, <2>3
    <3> QED BY <1>1, <1>6, <1>7, <2>1, <3>1, <3>2 DEF Power!TypeOK
  <2>7. Power!RaisedExactly'
    BY <2>1 DEF Power!RaisedExactly, Power!Ended
  <2> QED BY <1>1, <1>6, <1>7, <2>1, <2>5, <2>6, <2>7 DEF PowerInv
<1> QED BY <1>13, <1>14

LEMMA ExpandKeeps ==
  ASSUME AlgebraAssumption, Power!PowerAssumption, PowerInv, Power!Expand
  PROVE  PowerInv'
<1> DEFINE u == tail.num
           v == tail.den
           c == u \div v
           r == u - c * v
<1>1. state = "expanding" /\ Expanding /\ Power!TypeOK /\ u \in Int /\ v \in Nat \ {0}
  BY DEF Power!Expand, PowerInv, Expanding
<1>2. CASE c \in Power!Exponent /\ Power!Coefficient(c, [num |-> r, den |-> v])
  <2>1. c \in Int /\ r \in Int /\ 0 <= r /\ r < v /\ (v <= u => c >= 1)
    <3> HIDE DEF u, v
    <3> QED BY <1>1, SMTT(30)
  <2>2. v <= exponent.den /\ exponent.den \in Int
    <3>1. Len(coef) = 0 => tail = exponent
      BY <1>1 DEF Expanding
    <3>2. Len(coef) # 0 => coef # <<>>
      OBVIOUS
    <3> QED BY <1>1, <3>1, <3>2, ExponentIs DEF Expanding
  <2>3. coef # <<>> => c >= 1 /\ 2 * r <= u
    <3> SUFFICES ASSUME coef # <<>> PROVE c >= 1 /\ 2 * r <= u
      OBVIOUS
    <3>1. v <= u
      BY <1>1 DEF Expanding
    <3> DEFINE m == c * v
    <3>2. c >= 1 /\ m >= v /\ m \in Int
      <4> HIDE DEF c, u, v
      <4> QED BY <1>1, <2>1, <3>1
    <3>3. r = u - m
      OBVIOUS
    <3> HIDE DEF m, r, c, u, v
    <3> QED BY <1>1, <2>1, <3>2, <3>3
  <2> HIDE DEF c, r
  <2>4. r < exponent.den /\ r <= v
    BY <1>1, <2>1, <2>2
  <2>5. r = tail.num - c * tail.den
    BY DEF r
  <2> QED BY <1>1, <1>2, <2>1, <2>3, <2>4, <2>5, CoefficientKeeps
<1>3. CASE state' = "IrrationalExponent" /\ UNCHANGED <<base, exponent, plain, tail, coef, raised>>
  <2>1. Power!TypeOK'
    BY <1>1, <1>3 DEF Power!TypeOK
  <2>2. Power!RaisedExactly'
    BY <1>3 DEF Power!RaisedExactly
  <2> QED BY <1>3, <2>1, <2>2 DEF PowerInv
<1> QED BY <1>2, <1>3 DEF Power!Expand

LEMMA ExpandRoundedKeeps ==
  ASSUME AlgebraAssumption, Power!PowerAssumption, PowerInv, Power!ExpandRounded
  PROVE  PowerInv'
<1> DEFINE c == tail.num - 1
<1>1. /\ state = "expanding" /\ Expanding /\ coef # <<>> /\ tail.den = 1 /\ tail.num > 1 /\ tail.num \in Int
      /\ Power!Coefficient(c, [num |-> 1, den |-> 1])
  BY DEF Power!ExpandRounded, PowerInv, Expanding
<1>2. c \in Power!Exponent /\ c >= 1 /\ 2 * 1 <= tail.num
  <2>1. tail.num <= Precision * 1 /\ Precision \in Nat /\ Precision < Half /\ Half \in Nat
    BY <1>1, AlgebraAssumption DEF Expanding, Power!PowerAssumption
  <2> QED BY <1>1, <2>1 DEF Power!Exponent
<1>3. 1 = tail.num - c * tail.den /\ 1 <= tail.den
  BY <1>1
<1>4. 1 < exponent.den
  BY <1>1 DEF Expanding
<1>5. Power!Coefficient(c, [num |-> 1, den |-> tail.den])
  BY <1>1
<1> HIDE DEF c
<1> QED BY <1>1, <1>2, <1>3, <1>4, <1>5, CoefficientKeeps

-----------------------------------------------------------------------------
\* The power.

LEMMA SameAlgebra ==
  /\ Power!Exponent = Exponent
  /\ \A n : Power!Wrapped(n) = Wrapped(n) /\ Power!WrappedProduct(n) = WrappedProduct(n)
BY DEF Power!Exponent, Exponent, Power!Wrapped, Wrapped, Power!WrappedProduct, WrappedProduct

\* One exponent e of the root, raised to the power n: first to the magnitude of n, then
\* reversed if n is negative.
LEMMA RaisedExponent ==
  ASSUME AlgebraAssumption, NEW e \in Exponent, NEW n \in Exponent
  PROVE  LET m == Power!Magnitude(n)
             w == WrappedProduct(e * m)
         IN  /\ m \in Exponent /\ w \in Exponent /\ Wrapped(-w) \in Exponent /\ (Wrapped(-w) = 0 <=> w = 0)
             /\ e = 0 => w = 0
             /\ e * n \in Exponent => /\ w = 0 <=> e * n = 0
                                      /\ e * n = IF n < 0 THEN Wrapped(-w) ELSE w
             /\ e * m \notin Exponent => e * n \notin Exponent \/ -(e * n) \notin Exponent
<1> DEFINE m == Power!Magnitude(n)
           w == WrappedProduct(e * m)
<1>1. Half \in Nat /\ Half > 1 /\ e \in Int /\ n \in Int /\ -Half <= n /\ n < Half /\ -Half <= e /\ e < Half
  BY AlgebraAssumption DEF Exponent
<1>2. m = IF n = -Half THEN -Half ELSE IF n < 0 THEN -n ELSE n
  BY <1>1, SameAlgebra DEF Power!Magnitude, Wrapped
<1>3. m \in Exponent /\ m \in Int
  BY <1>1, <1>2 DEF Exponent
<1> HIDE DEF m
<1>4. e * m \in Int /\ e * n \in Int
  BY <1>1, <1>3
<1>5. w \in Exponent /\ (e * m \in Exponent => w = e * m)
  BY <1>4, WrappedProductExponent
<1>6. e = 0 => e * m = 0
  BY <1>3
<1>7. 0 \in Exponent
  BY <1>1 DEF Exponent
<1>8. /\ n >= 0 => e * m = e * n
      /\ n < 0 /\ n # -Half => e * m = -(e * n)
      /\ n = -Half => e * m = e * n
  <2>1. n < 0 /\ n # -Half => m = -n
    BY <1>2
  <2>2. e * (-n) = -(e * n)
    BY <1>1
  <2>3. n >= 0 \/ n = -Half => m = n
    BY <1>1, <1>2
  <2> QED BY <2>1, <2>2, <2>3
<1>9. e * m = Half => w = -Half
  <2>1. (Half + Half) % (2 * Half) = 0
    BY <1>1
  <2> QED BY <1>1, <2>1 DEF WrappedProduct
<1>10. n = -Half /\ e * n \in Exponent => e \in {0, 1}
  <2> SUFFICES ASSUME n = -Half, e * (-Half) \in Exponent PROVE e \in {0, 1}
    OBVIOUS
  <2>1. -Half <= e * (-Half) /\ e * (-Half) < Half
    BY <1>1 DEF Exponent
  <2>2. e * (-Half) = -(e * Half) /\ e * Half \in Int
    BY <1>1
  <2>3. e >= 2 => e * Half >= 2 * Half
    BY <1>1
  <2>4. e <= -1 => e * Half <= -Half
    BY <1>1
  <2> QED BY <1>1, <2>1, <2>2, <2>3, <2>4
<1> DEFINE p == e * n
           q == e * m
<1>11. n = -Half /\ p \in Exponent => (p = 0 /\ q = 0) \/ (p = -Half /\ q = -Half)
  BY <1>1, <1>8, <1>10
<1> HIDE DEF p, q, w
<1>12. p \in Int /\ q \in Int /\ (q \in Exponent => w = q) /\ (q = Half => w = -Half) /\ w \in Exponent
  BY <1>4, <1>5, <1>9 DEF p, q
<1>13. Wrapped(-w) \in Exponent /\ (Wrapped(-w) = 0 <=> w = 0) /\ Wrapped(-w) = IF w = -Half THEN -Half ELSE -w
  BY <1>1, <1>12 DEF Wrapped, Exponent
<1>14. e = 0 => w = 0
  BY <1>6, <1>7, <1>12 DEF q
<1>15. p \in Exponent => (w = 0 <=> p = 0) /\ p = IF n < 0 THEN Wrapped(-w) ELSE w
  <2> SUFFICES ASSUME p \in Exponent PROVE (w = 0 <=> p = 0) /\ p = IF n < 0 THEN Wrapped(-w) ELSE w
    OBVIOUS
  <2>1. CASE n >= 0
    <3>1. q = p
      BY <1>8, <2>1 DEF p, q
    <3> QED BY <1>1, <1>12, <2>1, <3>1
  <2>2. CASE n = -Half
    <3>1. w = q
      BY <1>11, <1>12, <2>2, <1>1 DEF Exponent
    <3> QED BY <1>1, <1>11, <1>12, <1>13, <2>2, <3>1
  <2>3. CASE n < 0 /\ n # -Half
    <3>1. q = -p
      BY <1>8, <2>3 DEF p, q
    <3>2. q \in Exponent \/ q = Half
      BY <1>1, <1>12, <3>1 DEF Exponent
    <3> QED BY <1>1, <1>12, <1>13, <2>3, <3>1, <3>2 DEF Exponent
  <2> QED BY <1>1, <2>1, <2>2, <2>3
<1>16. q \notin Exponent => p \notin Exponent \/ -p \notin Exponent
  <2>1. q = p \/ q = -p
    BY <1>1, <1>8 DEF p, q
  <2> QED BY <2>1
<1> QED BY <1>3, <1>12, <1>13, <1>14, <1>15, <1>16 DEF m, p, q, w

\* The root of an accepted power: the integral quotients, but for those that vanish.
LEMMA RootedExponents ==
  ASSUME AlgebraAssumption, Power!PowerAssumption, base \in Operand, NEW d \in 1 .. MaxDenominator - 1,
         d = 1 \/ Power!HasRoot(base, d)
  PROVE  LET D == DOMAIN base.dims
             r == Power!Rooted(base, d)
         IN  /\ D \subseteq Base /\ \A b \in D : base.dims[b] \in Exponent
             /\ \A b \in D : base.dims[b] % d = 0 /\ base.dims[b] \div d \in Exponent
             /\ r.factor \in Factor
             /\ \E T \in SUBSET D : /\ r.dims = [b \in T |-> base.dims[b] \div d]
                                    /\ \A b \in D \ T : base.dims[b] \div d = 0
<1> DEFINE D == DOMAIN base.dims
           r == Power!Rooted(base, d)
           e == [b \in D |-> base.dims[b] \div d]
<1>1. /\ Power!WellFormed(base) /\ d \in Int /\ d >= 1
      /\ \A f \in Factor, n \in 1 .. MaxDenominator - 1 : RootOf(f, n) \in Factor
  BY DEF Power!PowerAssumption
<1>2. D \subseteq Base /\ base.dims \in [D -> Exponent] /\ base.factor \in Factor
  BY <1>1, SameAlgebra DEF Power!WellFormed
<1>3. ASSUME NEW b \in D PROVE base.dims[b] % d = 0 /\ base.dims[b] \div d \in Exponent
  <2>1. base.dims[b] \in Exponent /\ base.dims[b] \in Int
    BY <1>2 DEF Exponent
  <2>2. base.dims[b] % d = 0
    BY <2>1 DEF Power!HasRoot
  <2> QED BY <1>1, <2>1, <2>2, QuotientExponent
<1>4. CASE d = 1
  <2>1. r = base
    BY <1>4 DEF Power!Rooted
  <2>2. \A b \in D : base.dims[b] \div d = base.dims[b]
    BY <1>2, <1>4 DEF Exponent
  <2>3. r.dims = [b \in D |-> base.dims[b] \div d]
    BY <1>2, <2>1, <2>2
  <2> QED BY <1>2, <1>3, <2>1, <2>3
<1>5. CASE d # 1
  <2>1. r = Power!Root(base, d)
    BY <1>5 DEF Power!Rooted
  <2>2. r.factor = RootOf(base.factor, d) /\ r.dims = Power!Normalized(e)
    BY <2>1 DEF Power!Root
  <2> DEFINE T == {b \in D : e[b] # 0}
  <2>3. r.dims = [b \in T |-> e[b]]
    BY <2>2 DEF Power!Normalized
  <2>4. r.dims = [b \in T |-> base.dims[b] \div d] /\ \A b \in D \ T : base.dims[b] \div d = 0
    BY <2>3
  <2> HIDE DEF T, r
  <2>5. T \in SUBSET D
    BY DEF T
  <2>6. r.factor \in Factor
    BY <1>1, <1>2, <2>2
  <2> QED BY <1>2, <1>3, <2>4, <2>5, <2>6 DEF r
<1> QED BY <1>4, <1>5

\* The power of an operand, when each exponent of the exact one is a multiple.
LEMMA RaiseIs ==
  ASSUME AlgebraAssumption, Power!PowerAssumption, base \in Operand, NEW n \in Exponent,
         NEW d \in 1 .. MaxDenominator - 1, d = 1 \/ Power!HasRoot(base, d),
         NEW power, power = [b \in DOMAIN base.dims |-> (base.dims[b] \div d) * n]
  PROVE  LET w == Power!Raise(base, n, d)
         IN  /\ Power!WellFormed(w) /\ Power!Normalized(w.dims) = w.dims
             /\ Power!InRange(power) => w.dims = Power!Normalized(power)
             /\ ~Power!InRange(Power!Multiple(Power!Rooted(base, d).dims, Power!Magnitude(n))) =>
                  ~Power!InRange(power) \/ ~Power!InRange(Power!Opposite(power))
<1> DEFINE D == DOMAIN base.dims
           r == Power!Rooted(base, d)
           m == Power!Magnitude(n)
           e(b) == base.dims[b] \div d
           s(b) == WrappedProduct(e(b) * m)
           o(b) == IF n < 0 THEN Wrapped(-s(b)) ELSE s(b)
           w == Power!Raise(base, n, d)
<1>1. /\ D \subseteq Base /\ r.factor \in Factor
      /\ \A b \in D : e(b) \in Exponent
  BY RootedExponents
<1>2. PICK T \in SUBSET D : r.dims = [b \in T |-> e(b)] /\ \A b \in D \ T : e(b) = 0
  BY RootedExponents
<1> HIDE DEF m, e, r, D
<1>3. ASSUME NEW b \in D
      PROVE  /\ m \in Exponent /\ s(b) \in Exponent /\ Wrapped(-s(b)) \in Exponent
             /\ Wrapped(-s(b)) = 0 <=> s(b) = 0
             /\ e(b) = 0 => s(b) = 0
             /\ e(b) * n \in Exponent => (s(b) = 0 <=> e(b) * n = 0) /\ e(b) * n = o(b)
             /\ e(b) * m \notin Exponent => e(b) * n \notin Exponent \/ -(e(b) * n) \notin Exponent
  BY <1>1, RaisedExponent DEF m
<1>4. power = [b \in D |-> e(b) * n]
  BY DEF D, e
<1> DEFINE S == {b \in D : s(b) # 0}
           p == Power!Pow(r, m)
<1>5. p.dims = [b \in S |-> s(b)] /\ p.factor = ToThe(r.factor, m) /\ p = [factor |-> p.factor, dims |-> p.dims]
  <2> DEFINE g == [b \in T |-> s(b)]
  <2>1. [b \in DOMAIN r.dims |-> Power!WrappedProduct(r.dims[b] * m)] = g
    BY <1>2, SameAlgebra
  <2>2. p = [factor |-> ToThe(r.factor, m), dims |-> Power!Normalized(g)]
    BY <2>1 DEF Power!Pow
  <2>3. {b \in DOMAIN g : g[b] # 0} = S
    BY <1>2, <1>3
  <2>4. \A b \in S : g[b] = s(b)
    BY <2>3
  <2>5. Power!Normalized(g) = [b \in S |-> s(b)]
    <3> HIDE DEF g, S, s
    <3> QED BY <2>3, <2>4 DEF Power!Normalized
  <2> QED BY <2>2, <2>5
<1>6. w = IF n < 0 THEN Power!Invert(p) ELSE p
  BY DEF Power!Raise, r, m
<1> HIDE DEF p
<1>7. Power!Invert(p) = [factor |-> Over(One, p.factor), dims |-> [b \in S |-> Wrapped(-s(b))]]
  BY <1>5, SameAlgebra DEF Power!Invert
<1>9. m \in Exponent
  <2>1. 0 \in Exponent
    BY AlgebraAssumption DEF Exponent
  <2> QED BY <2>1, RaisedExponent DEF m
<1>10. p.factor \in Factor /\ Over(One, p.factor) \in Factor
  <2>1. \A f \in Factor, i \in Exponent : ToThe(f, i) \in Factor
    BY SameAlgebra DEF Power!PowerAssumption
  <2>2. p.factor \in Factor
    BY <1>1, <1>5, <1>9, <2>1
  <2> QED BY <2>2, AlgebraAssumption
<1>11. w = [factor |-> w.factor, dims |-> w.dims] /\ w.factor \in Factor /\ w.dims = [b \in S |-> o(b)]
  <2>1. CASE n < 0
    BY <1>6, <1>7, <1>10, <2>1
  <2>2. CASE ~ (n < 0)
    BY <1>5, <1>6, <1>10, <2>2
  <2> QED BY <2>1, <2>2
<1> HIDE DEF w, s
<1>12. \A b \in S : b \in D /\ o(b) \in Exponent /\ o(b) # 0
  BY <1>3
<1> HIDE DEF o, S
<1>13. Power!WellFormed(w)
  <2>1. S \subseteq Base /\ DOMAIN w.dims = S /\ w.dims \in [S -> Exponent]
    BY <1>1, <1>11, <1>12
  <2> QED BY <1>11, <2>1, SameAlgebra DEF Power!WellFormed
<1>14. Power!Normalized(w.dims) = w.dims
  <2> DEFINE q == w.dims
  <2>1. {b \in DOMAIN q : q[b] # 0} = S /\ q = [b \in S |-> q[b]]
    BY <1>11, <1>12
  <2> HIDE DEF q
  <2>2. Power!Normalized(q) = q
    BY <2>1 DEF Power!Normalized
  <2> QED BY <2>2 DEF q
<1>15. ASSUME Power!InRange(power) PROVE w.dims = Power!Normalized(power)
  <2>1. \A b \in D : e(b) * n \in Exponent
    BY <1>4, <1>15, SameAlgebra DEF Power!InRange
  <2>2. S = {b \in D : power[b] # 0} /\ \A b \in S : power[b] = o(b)
    BY <1>3, <1>4, <2>1 DEF S
  <2>3. Power!Normalized(power) = [b \in S |-> power[b]]
    BY <1>4, <2>2 DEF Power!Normalized
  <2> QED BY <1>11, <2>2, <2>3
<1>16. ASSUME ~Power!InRange(Power!Multiple(r.dims, m))
       PROVE  ~Power!InRange(power) \/ ~Power!InRange(Power!Opposite(power))
  <2>1. PICK b \in T : e(b) * m \notin Exponent
    BY <1>2, <1>16, SameAlgebra DEF Power!InRange, Power!Multiple
  <2>2. b \in D /\ (e(b) * n \notin Exponent \/ -(e(b) * n) \notin Exponent)
    BY <1>2, <1>3, <2>1
  <2> QED BY <1>4, <2>2, SameAlgebra DEF Power!InRange, Power!Opposite
<1> QED BY <1>13, <1>14, <1>15, <1>16 DEF w, r, m

\* The exponents times an accepted exponent.
LEMMA AcceptedPower ==
  ASSUME AlgebraAssumption, Power!PowerAssumption, PowerInv, state = "expanded",
         Power!IsRational(Power!Convergent(coef))
  PROVE  LET f == Power!Convergent(coef)
             u == exponent.num
             v == exponent.den
             D == DOMAIN base.dims
         IN  /\ f.num \in Exponent /\ f.den \in 1 .. MaxDenominator - 1 /\ f.den \in Int /\ 1 <= f.den
             /\ base \in Operand /\ \A b \in D : base.dims[b] \in Int
             /\ \A b \in D : (base.dims[b] * u) % v = 0 => base.dims[b] % f.den = 0
             /\ \A b \in D : base.dims[b] % f.den = 0 =>
                  /\ (base.dims[b] * u) % v = 0
                  /\ (base.dims[b] * u) \div v = (base.dims[b] \div f.den) * f.num
<1> DEFINE f == Power!Convergent(coef)
           n == f.num
           d == f.den
           u == exponent.num
           v == exponent.den
           D == DOMAIN base.dims
<1>1. n \in Int /\ d \in 1 .. MaxDenominator - 1 /\ Coprime(n, d) /\ n * v = d * u
  BY AcceptedFraction
<1>2. d \in Int /\ 1 <= d
  BY <1>1 DEF Power!PowerAssumption
<1>3. n \in Exponent
  <2> DEFINE g == Power!Nested(Tail(coef))
             m == g.num + Power!Saturated(g.den * coef[1])
  <2>1. PICK h \in Pair : g = h
    <3>1. PICK k, z : Expands(k, coef) /\ Chain(coef, z)
      <4> DEFINE S == Power!Exponent
      <4>1. coef \in Seq(S) /\ S \subseteq Int
        BY DEF PowerInv, Power!TypeOK, Power!Exponent
      <4> HIDE DEF S
      <4>2. coef \in [1 .. Len(coef) -> S] /\ Len(coef) \in Nat
        BY <4>1, LenProperties
      <4>3. coef \in [1 .. Len(coef) -> Int] /\ Len(coef) \in Nat
        BY <4>1, <4>2
      <4>4. coef \in Seq(Int)
        BY <4>3
      <4>5. Expands(Len(coef), coef)
        BY <4>4 DEF Expands, PowerInv, Expanded
      <4> QED BY <4>5 DEF PowerInv, Expanded
    <3> HIDE DEF g
    <3> QED BY <3>1, NestedTracks DEF g
  <2>2. f = [g EXCEPT !.num = Power!Saturated(m)]
    BY DEF Power!Convergent, Power!WithInteger
  <2> HIDE DEF g, m
  <2>3. n = Power!Saturated(m)
    BY <2>1, <2>2 DEF Pair
  <2> HIDE DEF n
  <2>4. n = IF m >= Half THEN Half - 1 ELSE IF m < -Half THEN -Half ELSE m
    BY <2>3 DEF Power!Saturated
  <2>5. n \in -Half .. Half - 1
    <3>1. Half \in Nat /\ Half > 1
      BY AlgebraAssumption
    <3>2. CASE m >= Half
      BY <2>4, <3>1, <3>2
    <3>3. CASE ~ (m >= Half) /\ m < -Half
      BY <2>4, <3>1, <3>3
    <3>4. CASE ~ (m >= Half) /\ ~ (m < -Half)
      <4>1. n = m
        BY <2>4, <3>4
      <4>2. ~ (n >= Half) /\ ~ (n < -Half)
        BY <3>4, <4>1
      <4> QED BY <1>1, <3>1, <4>2
    <3> QED BY <3>2, <3>3, <3>4
  <2> QED BY <2>5 DEF Exponent
<1>4. base \in Operand /\ exponent \in [num : Int, den : Nat \ {0}]
  BY ExponentIs DEF PowerInv, Power!TypeOK
<1>5. ASSUME NEW b \in D PROVE base.dims[b] \in Int
  <2>1. base.dims \in [D -> Power!Exponent]
    BY <1>4 DEF Power!PowerAssumption, Power!WellFormed
  <2> QED BY <2>1 DEF Power!Exponent
<1> HIDE DEF f, n, d, D
<1>6. /\ \A m \in Int : (m * u) % v = 0 => m % d = 0
      /\ \A m \in Int : m % d = 0 => (m * u) % v = 0 /\ (m * u) \div v = (m \div d) * n
  <2>1. n \in Int /\ d \in Int /\ 1 <= d /\ Coprime(n, d) /\ n * exponent.den = d * exponent.num
    BY <1>1, <1>2
  <2> HIDE DEF u, v
  <2>2. ASSUME NEW m \in Int, (m * exponent.num) % exponent.den = 0 PROVE m % d = 0
    BY <1>4, <2>1, <2>2, LowestTerms
  <2>3. ASSUME NEW m \in Int, m % d = 0
        PROVE  /\ (m * exponent.num) % exponent.den = 0
               /\ (m * exponent.num) \div exponent.den = (m \div d) * n
    <3>1. (m * exponent.num) % exponent.den = 0
      BY <1>4, <2>1, <2>3, LowestTerms
    <3>2. \A i \in Int : i % d = 0 => (i * exponent.num) \div exponent.den = (i \div d) * n
      BY <1>4, <2>1, LowestTerms
    <3> QED BY <2>3, <3>1, <3>2, Zenon
  <2> QED BY <2>2, <2>3 DEF u, v
<1> HIDE DEF u, v
<1> QED BY <1>1, <1>2, <1>3, <1>4, <1>5, <1>6 DEF f, n, d, u, v, D

\* What RaisedExactly says of an outcome.
Outcome(v, y, o, w) ==
  LET integral == \A b \in DOMAIN v.dims : (v.dims[b] * y.num) % y.den = 0
      power == [b \in DOMAIN v.dims |-> (v.dims[b] * y.num) \div y.den]
  IN  /\ o = "NotDivisibleByRoot" => ~integral \/ Negative(v.factor)
      /\ o = "OK" => integral /\ (Power!InRange(power) => w.dims = Power!Normalized(power))
      /\ o = "panicked" => ~Power!InRange(power) \/ ~Power!InRange(Power!Opposite(power))

LEMMA FinishKeeps ==
  ASSUME AlgebraAssumption, Power!PowerAssumption, PowerInv, Power!Finish
  PROVE  PowerInv'
<1> DEFINE f == Power!Convergent(coef)
           D == DOMAIN base.dims
           u == exponent.num
           v == exponent.den
           integral == \A b \in D : (base.dims[b] * u) % v = 0
           power == [b \in D |-> (base.dims[b] * u) \div v]
<1>1. state = "expanded" /\ UNCHANGED <<base, exponent, plain, tail, coef>> /\ Power!TypeOK
  BY DEF Power!Finish, PowerInv
\* What has to be shown of an outcome.
<1>2. ASSUME state' \in {"OK", "panicked", "IrrationalExponent", "NotDivisibleByRoot"},
             Power!WellFormed(raised'),
             Power!Normalized(base.dims) = base.dims => Power!Normalized(raised'.dims) = raised'.dims,
             state' = "NotDivisibleByRoot" => ~integral \/ Negative(base.factor),
             state' = "OK" => integral /\ (Power!InRange(power) => raised'.dims = Power!Normalized(power)),
             state' = "panicked" => ~Power!InRange(power) \/ ~Power!InRange(Power!Opposite(power))
      PROVE  PowerInv'
  <2>1. Power!TypeOK'
    <3>1. Power!WellFormed(raised)'
      BY <1>2 DEF Power!WellFormed
    <3>2. (Power!Normalized(base.dims) = base.dims => Power!Normalized(raised.dims) = raised.dims)'
      BY <1>1, <1>2 DEF Power!Normalized
    <3> QED BY <1>1, <1>2, <3>1, <3>2 DEF Power!TypeOK
  <2>2. Power!RaisedExactly'
    <3>1. Outcome(base', exponent', state', raised')
      <4> HIDE DEF u, v
      <4>1. Outcome(base, exponent, state', raised')
        <5> HIDE DEF integral, power
        <5> QED BY <1>2 DEF Outcome, integral, power, D, u, v
      <4> QED BY <1>1, <4>1
    <3> HIDE DEF integral, power, D, u, v
    <3> QED BY <3>1 DEF Power!RaisedExactly, Outcome, Power!InRange, Power!Normalized, Power!Opposite
  <2> QED BY <1>1, <1>2, <2>1, <2>2 DEF PowerInv
<1>3. Power!WellFormed(raised) /\ (Power!Normalized(base.dims) = base.dims => Power!Normalized(raised.dims) = raised.dims)
  BY <1>1 DEF Power!TypeOK
<1>4. CASE state' = "IrrationalExponent" /\ UNCHANGED raised
  BY <1>2, <1>3, <1>4
<1>5. ASSUME Power!IsRational(f)
      PROVE  /\ f.num \in Exponent /\ f.den \in 1 .. MaxDenominator - 1 /\ f.den \in Int /\ 1 <= f.den
             /\ base \in Operand /\ \A b \in D : base.dims[b] \in Int
             /\ \A b \in D : (base.dims[b] * u) % v = 0 => base.dims[b] % f.den = 0
             /\ \A b \in D : base.dims[b] % f.den = 0 =>
                  (base.dims[b] * u) % v = 0 /\ (base.dims[b] * u) \div v = (base.dims[b] \div f.den) * f.num
  BY <1>1, <1>5, AcceptedPower
<1>6. CASE Power!IsRational(f) /\ ~Power!HasRoot(base, f.den) /\ state' = "NotDivisibleByRoot" /\ UNCHANGED raised
  <2> DEFINE d == f.den
  <2>1. d > 0 /\ \A b \in D : (base.dims[b] * u) % v = 0 => base.dims[b] % d = 0
    BY <1>5, <1>6
  <2> HIDE DEF d, f
  <2>2. ~Power!HasRoot(base, d)
    BY <1>6 DEF d
  <2>3. ~integral \/ Negative(base.factor)
    <3> HIDE DEF u, v
    <3> QED BY <2>1, <2>2 DEF Power!HasRoot
  <2> HIDE DEF integral, power
  <2> QED BY <1>2, <1>3, <1>6, <2>3
<1>7. CASE /\ Power!IsRational(f) /\ (f.den = 1 \/ Power!HasRoot(base, f.den))
           /\ \/ state' = "OK" /\ raised' = Power!Raise(base, f.num, f.den)
              \/ /\ ~Power!InRange(Power!Multiple(Power!Rooted(base, f.den).dims, Power!Magnitude(f.num)))
                 /\ state' = "panicked" /\ UNCHANGED raised
  <2> DEFINE n == f.num
             d == f.den
  <2>1. /\ n \in Exponent /\ d \in 1 .. MaxDenominator - 1 /\ base \in Operand
        /\ \A b \in D : base.dims[b] % d = 0 =>
              (base.dims[b] * u) % v = 0 /\ (base.dims[b] * u) \div v = (base.dims[b] \div d) * n
    BY <1>5, <1>7
  <2>2. d = 1 \/ Power!HasRoot(base, d)
    BY <1>7
  <2>3. \/ state' = "OK" /\ raised' = Power!Raise(base, n, d)
        \/ /\ ~Power!InRange(Power!Multiple(Power!Rooted(base, d).dims, Power!Magnitude(n)))
           /\ state' = "panicked" /\ UNCHANGED raised
    BY <1>7
  <2> HIDE DEF n, d, u, v, f
  <2>4. \A b \in D : base.dims[b] % d = 0
    BY <2>1, <2>2, RootedExponents
  <2>5. integral /\ power = [b \in D |-> (base.dims[b] \div d) * n]
    BY <2>1, <2>4
  <2> HIDE DEF integral, power
  <2>6. /\ Power!WellFormed(Power!Raise(base, n, d))
        /\ Power!Normalized(Power!Raise(base, n, d).dims) = Power!Raise(base, n, d).dims
        /\ Power!InRange(power) => Power!Raise(base, n, d).dims = Power!Normalized(power)
        /\ ~Power!InRange(Power!Multiple(Power!Rooted(base, d).dims, Power!Magnitude(n))) =>
             ~Power!InRange(power) \/ ~Power!InRange(Power!Opposite(power))
    BY <2>1, <2>2, <2>5, RaiseIs
  <2>7. CASE state' = "OK" /\ raised' = Power!Raise(base, n, d)
    BY <1>2, <2>5, <2>6, <2>7
  <2>8. CASE ~Power!InRange(Power!Multiple(Power!Rooted(base, d).dims, Power!Magnitude(n))) /\ state' = "panicked" /\ UNCHANGED raised
    BY <1>2, <1>3, <2>6, <2>8
  <2> QED BY <2>3, <2>7, <2>8
<1> QED BY <1>4, <1>6, <1>7 DEF Power!Finish

LEMMA PowerStarts ==
  ASSUME AlgebraAssumption, Power!PowerAssumption, Power!Init
  PROVE  PowerInv
<1>1. /\ base \in Operand /\ exponent \in Fraction /\ plain \in BOOLEAN /\ raised = base /\ coef = <<>>
      /\ tail = exponent /\ state = "called" /\ MaxTerms \in Nat
      /\ Fraction \subseteq [num : Int, den : Nat \ {0}] /\ \A v \in Operand : Power!WellFormed(v)
  BY DEF Power!Init, Power!PowerAssumption
<1>2. coef \in Seq(Power!Exponent) /\ Len(coef) = 0 /\ \A i \in 2 .. Len(coef) : coef[i] >= 1
  BY <1>1
<1>3. Power!TypeOK
  BY <1>1, <1>2 DEF Power!TypeOK
<1>4. Power!RaisedExactly
  BY <1>1 DEF Power!RaisedExactly, Power!Ended
<1> QED BY <1>1, <1>2, <1>3, <1>4 DEF PowerInv

LEMMA BeginKeeps ==
  ASSUME AlgebraAssumption, Power!PowerAssumption, PowerInv, Power!Begin
  PROVE  PowerInv'
<1>1. /\ state = "called" /\ UNCHANGED <<base, exponent, plain, tail, coef>> /\ Power!TypeOK
      /\ tail = exponent /\ coef = <<>> /\ raised = base
      /\ \A i \in 2 .. Len(coef) : coef[i] >= 1
  BY DEF Power!Begin, PowerInv
<1>2. exponent \in Pair /\ exponent.num \in Int /\ exponent.den \in Nat \ {0}
  BY <1>1, ExponentIs
<1>3. CASE ~plain /\ state' = "ExponentNotDimensionless" /\ UNCHANGED raised
  <2>1. Power!TypeOK'
    BY <1>1, <1>3 DEF Power!TypeOK
  <2>2. Power!RaisedExactly'
    BY <1>1, <1>3 DEF Power!RaisedExactly
  <2> QED BY <1>1, <1>3, <2>1, <2>2 DEF PowerInv
<1>4. ASSUME plain, Power!IsDimensionless(base), state' = "OK",
             NEW f \in Factor, raised' = [base EXCEPT !.factor = f]
      PROVE  PowerInv'
  <2>1. Power!WellFormed(base)
    BY <1>1 DEF Power!TypeOK, Power!PowerAssumption
  <2>2. base = [factor |-> base.factor, dims |-> base.dims] /\ DOMAIN base.dims \subseteq Base
        /\ base.dims \in [DOMAIN base.dims -> Power!Exponent]
    BY <2>1 DEF Power!WellFormed
  <2>3. raised' = [factor |-> f, dims |-> base.dims]
    BY <1>4, <2>2
  <2>4. Power!WellFormed(raised')
    BY <2>2, <2>3 DEF Power!WellFormed
  <2>5. Power!TypeOK'
    <3>1. Power!WellFormed(raised)'
      BY <2>4 DEF Power!WellFormed
    <3>2. (Power!Normalized(base.dims) = base.dims => Power!Normalized(raised.dims) = raised.dims)'
      BY <1>1, <2>3 DEF Power!Normalized
    <3> QED BY <1>1, <1>4, <3>1, <3>2 DEF Power!TypeOK
  <2>6. Power!RaisedExactly'
    BY <1>1, <1>4 DEF Power!RaisedExactly, Power!IsDimensionless
  <2> QED BY <1>1, <1>4, <2>5, <2>6 DEF PowerInv
<1>5. CASE plain /\ state' = "expanding" /\ UNCHANGED raised
  <2>1. Power!TypeOK'
    BY <1>1, <1>5 DEF Power!TypeOK
  <2>2. Power!RaisedExactly'
    BY <1>5 DEF Power!RaisedExactly, Power!Ended
  <2>3. Expanding'
    <3> DEFINE z == [i \in 1 .. 1 |-> exponent]
    <3>1. Chain(<<>>, z) /\ z[1] = exponent
      <4>1. Len(<<>>) = 0 /\ z \in [1 .. 0 + 1 -> Pair]
        BY <1>2
      <4> QED BY <4>1 DEF Chain
    <3> HIDE DEF z
    <3>2. coef' = <<>> /\ Len(coef') = 0 /\ tail' = exponent /\ exponent' = exponent
      BY <1>1
    <3>3. Chain(coef', z) /\ z[1] = exponent' /\ z[Len(coef') + 1] = tail'
      BY <3>1, <3>2
    <3>4. Len(coef') < MaxTerms
      BY <3>2 DEF Power!PowerAssumption
    <3>5. tail'.den * 1 <= exponent'.den /\ Power!TwoToThe[0] = 1 /\ 0 \div 2 = 0 /\ 0 % 2 = 0
      BY <1>2, <3>2, TwoToTheIs
    <3>6. Halved(Len(coef), tail)'
      BY <3>2, <3>5 DEF Halved
    <3> QED BY <1>2, <3>2, <3>3, <3>4, <3>6 DEF Expanding
  <2> QED BY <1>1, <1>5, <2>1, <2>2, <2>3 DEF PowerInv
<1> QED BY <1>3, <1>4, <1>5 DEF Power!Begin

LEMMA PowerStands ==
  ASSUME PowerInv, UNCHANGED Power!vars
  PROVE  PowerInv'
<1>1. UNCHANGED <<base, exponent, plain, state, tail, coef, raised>>
  BY DEF Power!vars
<1>2. Power!TypeOK'
  BY <1>1 DEF PowerInv, Power!TypeOK
<1>3. Power!RaisedExactly'
  BY <1>1 DEF PowerInv, Power!RaisedExactly, Power!Ended
<1>4. state = "expanding" => Expanding'
  BY <1>1 DEF PowerInv, Expanding, Halved
<1>5. state = "expanded" => Expanded'
  BY <1>1 DEF PowerInv, Expanded, LastRest
<1> QED BY <1>1, <1>2, <1>3, <1>4, <1>5 DEF PowerInv

(* apply_power raises every base to every exponent as it should, for every     *)
(* width of the exponents and every choice of limits under which float2rat has *)
(* coefficients enough: quantities stay in normal form; of the fractions with  *)
(* small denominators float2rat finds each, in lowest terms, and accepts no    *)
(* other in its place; and a power is refused, exact, or a panic exactly where *)
(* the exponents of the base, times the exponent, say so.                      *)
THEOREM PowersAreExact ==
  ASSUME Power!PowerAssumption
  PROVE  Power!Spec => [](Power!TypeOK /\ Power!SmallFractionsAreFound /\ Power!RaisedExactly)
<1>1. Power!Init => PowerInv
  BY PowerStarts, AlgebraAssumption
<1>2. PowerInv /\ [Power!Next]_(Power!vars) => PowerInv'
  <2> SUFFICES ASSUME PowerInv, [Power!Next]_(Power!vars) PROVE PowerInv'
    OBVIOUS
  <2> USE AlgebraAssumption
  <2>1. CASE Power!Begin
    BY <2>1, BeginKeeps
  <2>2. CASE Power!Expand
    BY <2>2, ExpandKeeps
  <2>3. CASE Power!ExpandRounded
    BY <2>3, ExpandRoundedKeeps
  <2>4. CASE Power!Finish
    BY <2>4, FinishKeeps
  <2>5. CASE UNCHANGED Power!vars
    BY <2>5, PowerStands
  <2> QED BY <2>1, <2>2, <2>3, <2>4, <2>5 DEF Power!Next, Power!Done
<1>3. PowerInv => Power!TypeOK /\ Power!SmallFractionsAreFound /\ Power!RaisedExactly
  BY FractionsFound, AlgebraAssumption DEF PowerInv
<1> QED BY <1>1, <1>2, <1>3, PTL DEF Power!Spec
=============================================================================
