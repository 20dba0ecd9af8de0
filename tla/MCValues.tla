------------------------------ MODULE MCValues -------------------------------
(***************************************************************************)
(* The algorithms on values, each on its own: machine says which of the    *)
(* four machines a behaviour is of, and the variables of the others stay   *)
(* Unused.  Numbers, tables and powers are chosen around the limits of the *)
(* code; a unit of the vendored engine has up to two strings, and there    *)
(* are addresses enough for every copy that is made on the way.            *)
(***************************************************************************)
EXTENDS Integers, Sequences

CONSTANTS NotANumber, Unused

VARIABLES machine,
          base, y, plain, state, x, coef, result,  \* RationalPower
          call, radianKnown, answer,               \* Builtins, and the answers of Tables
          text, points, stage, query,              \* Tables
          heap, holds, owned, script               \* FfiUnits

-----------------------------------------------------------------------------
\* Powers have the limits of the code, and 16 bits for i32.  The denominators are on both
\* sides of 100, reduced or not, among them the longest expansions (Fibonacci numbers);
\* there are parts below 1/1000, and values at and beyond the limits of the integers.
Base == {"kg", "m"}
Half == 32768
MaxTerms == 20
MaxDenominator == 100
Precision == 1000

Over_(n, d) == [num |-> n, den |-> d]
Fraction ==
  {Over_(n, d) : n \in {-7, -2, -1, 0, 1, 2, 3, 34, 55, 97}, d \in 1 .. 120}
  \cup {Over_(2001, 2000), Over_(1, 1500), Over_(-1, 1500), Over_(199, 1000), Over_(1, 40000)}
  \cup {Over_(n, d) : n \in {-32769, -32768, -32767, 32767, 32768}, d \in {1, 2, 3, 97}}

\* Of a factor only the sign is kept.
Factor == {-1, 0, 1}
One == 1
Times(f, g) == f * g
Over(f, g) == IF g = 0 THEN f ELSE f * g
Plus(f, g) == IF f = 0 THEN g ELSE IF g = 0 \/ f = g THEN f ELSE 0
ToThe(f, n) == IF n % 2 = 0 THEN f * f ELSE f
RootOf(f, n) == f
Negative(f) == f < 0

Quantity(sign, mass, length) ==
  LET exponent(b) == IF b = "kg" THEN mass ELSE length IN
  [factor |-> sign, dims |-> [b \in {b \in Base : exponent(b) # 0} |-> exponent(b)]]
Operand == {Quantity(1, 0, 0), Quantity(1, 0, 1), Quantity(1, 6, -3), Quantity(-1, 0, 2),
            Quantity(1, 97, 0), Quantity(0, 0, -2)}

\* The halves and integers around the ends of the domains, and beyond what f64 holds.
Numbers == -9 .. 9 \cup {-20000, -1500, -1480, -300, -284, -280, 280, 284, 285, 286, 300, 1418, 1480, 1500, 20000}
Infinite == 10000

\* Tables of up to three points in any order, with equal inputs and outputs, of four with
\* ascending inputs, and texts with a word or an odd number in them.
Xs == {0, 1, 2, 3}
Ys == {-1, 0, 2, 5}
Flat(ps) == [i \in 1 .. 2 * Len(ps) |-> IF i % 2 = 1 THEN ps[(i + 1) \div 2][1] ELSE ps[i \div 2][2]]
Texts ==
  UNION {{Flat(ps) : ps \in [1 .. n -> Xs \X Ys]} : n \in 2 .. 3}
  \cup {Flat(<<<<0, a>>, <<1, b>>, <<2, c>>, <<3, d>>>>) : a, b, c, d \in Ys}
  \cup {Flat(<<<<v, 2>>>>) : v \in Xs} \cup {<<>>, <<1>>}
  \cup {<<0, NotANumber, 2, 1, 3>>, <<0, 2, 1, NotANumber, 3, 0>>, <<0, 2, 1>>}
Inputs == {Over_(n, 2) : n \in -1 .. 7}
Outputs == {Over_(n, 2) : n \in -3 .. 11}

Strings == 1 .. 9
MaxHeld == 2

-----------------------------------------------------------------------------
P == INSTANCE RationalPower
B == INSTANCE Builtins
T == INSTANCE Tables
U == INSTANCE FfiUnits

ASSUME P!PowerAssumption /\ B!NumbersAssumption /\ T!TablesAssumption /\ U!StringsAssumption

NoPower == base = Unused /\ y = Unused /\ plain = Unused /\ state = Unused /\ x = Unused /\ coef = Unused /\ result = Unused
NoBuiltin == call = Unused /\ radianKnown = Unused
NoTable == text = Unused /\ points = Unused /\ stage = Unused /\ query = Unused
NoUnit == heap = Unused /\ holds = Unused /\ owned = Unused /\ script = Unused

Init ==
  \/ machine = "power" /\ P!Init /\ NoBuiltin /\ NoTable /\ NoUnit /\ answer = Unused
  \/ machine = "builtin" /\ B!Init /\ NoPower /\ NoTable /\ NoUnit
  \/ machine = "table" /\ T!Init /\ NoPower /\ NoBuiltin /\ NoUnit
  \/ machine = "unit" /\ U!Init /\ NoPower /\ NoBuiltin /\ NoTable /\ answer = Unused

powers == <<base, y, plain, state, x, coef, result>>
builtins == <<call, radianKnown>>
tables == <<text, points, stage, query>>
units == <<heap, holds, owned, script>>

Next ==
  /\ UNCHANGED machine
  /\ \/ machine = "power" /\ P!Next /\ UNCHANGED <<builtins, tables, units, answer>>
     \/ machine = "builtin" /\ B!Next /\ UNCHANGED <<powers, tables, units>>
     \/ machine = "table" /\ T!Next /\ UNCHANGED <<powers, builtins, units>>
     \/ machine = "unit" /\ U!Next /\ UNCHANGED <<powers, builtins, tables, answer>>

Spec == Init /\ [][Next]_<<machine, powers, builtins, tables, units, answer>>

-----------------------------------------------------------------------------
\* The properties of the machines, each while its machine runs; the modules say what they
\* are about.
TypeOK == machine = "power" => P!TypeOK

\* Every exponent with a small denominator becomes that fraction (float2rat).
SmallFractionsAreFound == machine = "power" => P!SmallFractionsAreFound

\* A power has the exponents of the base times the exponent, or is refused (apply_power).
RaisedExactly == machine = "power" => P!RaisedExactly

\* What call_function accepts of a built-in function has a finite value that is not mere
\* noise, the poles of Gamma excepted.
AcceptedIsDefined == machine = "builtin" => B!AcceptedIsDefined

\* The code says of Gamma that its poles, the non-positive integers, are refused.
PolesAreRefused == machine = "builtin" => B!PolesAreRefused

\* The built-in inverses accept exactly the values of their functions (call_function).
InversesAcceptValues == machine = "builtin" => B!InversesAcceptValues

\* Both directions of a table answer with points of its line (TableDef).
AnswersAreOnTheLine == machine = "table" => T!AnswersAreOnTheLine

\* Nothing between the ends of a table lacks an answer (TableDef).
NothingIsMissed == machine = "table" => T!NothingIsMissed

\* Interpolation divides by zero only where a table begins with a step (TableDef).
NotANumberOnlyAtTheStart == machine = "table" => T!NotANumberOnlyAtTheStart

\* Every C string has one owner at any step of a method of a unit (ffi.rs).
OwnershipHolds == machine = "unit" => U!OwnershipHolds

\* Between calls no C string is lost (ffi.rs).
NothingLeaks == machine = "unit" => U!NothingLeaks
=============================================================================
