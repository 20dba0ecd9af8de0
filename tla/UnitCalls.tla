------------------------------ MODULE UnitCalls ------------------------------
(***************************************************************************)
(* A caller of the crate with a few quantities in hand, which it changes   *)
(* by the methods of Unit (lib.rs, ops.rs).                                *)
(***************************************************************************)
EXTENDS UnitAlgebra

CONSTANTS Variable, Powers, Roots, MaxCalls

ASSUME CallerAssumption ==
  /\ Powers \subseteq Int /\ Roots \subseteq Int
  /\ \A f \in Factor : /\ \A n \in Powers : ToThe(f, n) \in Factor
                       /\ \A n \in Roots : RootOf(f, n) \in Factor
  /\ MaxCalls \in Nat

VARIABLES
  checked, \* the build has overflow checks
  unit,    \* the quantity each variable of the caller holds
  exact,   \* history: its exponents in unbounded integers
  fits,    \* history: they and all they were computed from are machine integers
  code,    \* what the last call returned
  calls    \* how many calls were made, at most MaxCalls

vars == <<checked, unit, exact, fits, code, calls>>

Init == /\ checked \in BOOLEAN
        /\ unit \in [Variable -> {Unity} \cup {Primitive(b) : b \in Base}]
        /\ exact = [x \in Variable |-> unit[x].dims]
        /\ fits = [x \in Variable |-> TRUE]
        /\ code = "OK" /\ calls = 0

Called == code # "panicked" /\ calls < MaxCalls /\ calls' = calls + 1 /\ UNCHANGED checked

Fails(c) == code' = c /\ UNCHANGED <<unit, exact, fits>>

\* x becomes v; in exact arithmetic its exponents become d.
Assign(x, v, d, from) ==
  /\ unit' = [unit EXCEPT ![x] = v]
  /\ exact' = [exact EXCEPT ![x] = Normalized(d)]
  /\ fits' = [fits EXCEPT ![x] = (\A y \in from : fits[y]) /\ InRange(d)]
  /\ code' = "OK"

\* With overflow checks an operation on stored exponents that leaves the range panics.
Computes(x, v, stored, d, from) ==
  IF checked /\ ~InRange(stored) THEN Fails("panicked") ELSE Assign(x, v, d, from)

MultiplyBy(x, y) ==
  /\ Called
  /\ Computes(x, Multiply(unit[x], unit[y]), Sum(unit[x].dims, unit[y].dims),
              Sum(exact[x], exact[y]), {x, y})

DivideBy(x, y) ==
  /\ Called
  /\ Computes(x, Divide(unit[x], unit[y]), Difference(unit[x].dims, unit[y].dims),
              Difference(exact[x], exact[y]), {x, y})

AddTo(x, y) ==
  /\ Called
  /\ IF SameDimensions(unit[x], unit[y])
     THEN Assign(x, Add(unit[x], unit[y]), exact[x], {x, y})
     ELSE Fails("BadSum")

InvertIt(x) ==
  /\ Called
  /\ Assign(x, Invert(unit[x]), Opposite(exact[x]), {x})

\* unit_pow takes no negative powers.
PowIt(x, n) ==
  /\ Called
  /\ IF n < 0 THEN Fails("BadNum")
     ELSE Computes(x, Pow(unit[x], n), Multiple(unit[x].dims, n), Multiple(exact[x], n), {x})

RootIt(x, n) ==
  /\ Called
  /\ IF HasRoot(unit[x], n)
     THEN Assign(x, Root(unit[x], n), [b \in DOMAIN exact[x] |-> exact[x][b] \div n], {x})
     ELSE Fails("NotRoot")

\* A clone of y, which stays as it was.
CloneInto(x, y) == Called /\ Assign(x, unit[y], exact[y], {y})

Done == (code = "panicked" \/ calls = MaxCalls) /\ UNCHANGED vars

Next ==
  \/ \E x, y \in Variable : MultiplyBy(x, y) \/ DivideBy(x, y) \/ AddTo(x, y) \/ CloneInto(x, y)
  \/ \E x \in Variable : \/ InvertIt(x)
                         \/ \E n \in Powers : PowIt(x, n)
                         \/ \E n \in Roots : RootIt(x, n)
  \/ Done

Spec == Init /\ [][Next]_vars

-----------------------------------------------------------------------------
\* Properties.

(* Quantities are well-formed and in normal form: no map keeps a zero, which *)
(* UnitValue's derived equality and base_units_string rely on.               *)
TypeOK ==
  /\ unit \in [Variable -> UnitValue]
  /\ \A x \in Variable : Normalized(unit[x].dims) = unit[x].dims
  /\ checked \in BOOLEAN
  /\ fits \in [Variable -> BOOLEAN]
  /\ code \in {"OK", "BadSum", "BadNum", "NotRoot", "panicked"}
  /\ calls \in 0 .. MaxCalls

(* As long as the true exponents, and those of the operands they came from,  *)
(* are machine integers, the stored ones are the true ones.                  *)
ExactWhileInRange == \A x \in Variable : fits[x] => unit[x].dims = exact[x]

(* Unit::is_conformable: two quantities have the same base dimensions (the   *)
(* true ones) exactly if it says so.                                         *)
ConformableMeansSameDimensions ==
  \A x, y \in Variable : IsConformable(unit[x], unit[y]) <=> exact[x] = exact[y]

(* The three tests of conformability in the code agree with each other, also *)
(* after overflows, and add accepts no pair that convert_to would refuse.    *)
ConformabilityAgrees ==
  \A x, y \in Variable :
    /\ IsConformable(unit[x], unit[y]) <=> AreConformable(unit[x], unit[y])
    /\ IsConformable(unit[x], unit[y]) <=> unit[x].dims = unit[y].dims
    /\ IsConformable(unit[x], unit[y]) => IsDimensionless(Multiply(unit[x], Invert(unit[y])))

(* root undoes pow and pow undoes root, whenever they succeed in range.      *)
RootsUndoPowers ==
  \A x \in Variable, n \in Powers \cap Roots :
    n > 0 =>
      /\ (InRange(Multiple(unit[x].dims, n)) /\ ~Negative(Pow(unit[x], n).factor) =>
            HasRoot(Pow(unit[x], n), n) /\ Root(Pow(unit[x], n), n).dims = unit[x].dims)
      /\ (HasRoot(unit[x], n) => Pow(Root(unit[x], n), n).dims = unit[x].dims)
=============================================================================
