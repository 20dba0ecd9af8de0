---------------------------- MODULE MCUnitCalls ------------------------------
(***************************************************************************)
(* UnitCalls with two primitive units and exponents of a few bits.  Of a   *)
(* factor only the sign is kept; what f64 makes of a division by zero has  *)
(* the sign of the dividend, and unlike summands may cancel.               *)
(***************************************************************************)
EXTENDS UnitCalls

Sign == {-1, 0, 1}
SignTimes(f, g) == f * g
SignOver(f, g) == IF g = 0 THEN f ELSE f * g
SignPlus(f, g) == IF f = 0 THEN g ELSE IF g = 0 \/ f = g THEN f ELSE 0
SignToThe(f, n) == IF n % 2 = 0 THEN f * f ELSE f
SignRootOf(f, n) == f
SignNegative(f) == f < 0

SomePowers == {-1, 0, 2, 3}
SomeRoots == {0, 1, 2, 3}
=============================================================================
