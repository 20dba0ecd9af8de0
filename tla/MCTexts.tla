------------------------------- MODULE MCTexts -------------------------------
(***************************************************************************)
(* What is done with texts, each on its own: machine says which of the     *)
(* four machines a behaviour is of (an expression is parsed, a function is *)
(* defined, files are loaded, currencies are updated), and the variables   *)
(* of the others stay Unused.                                              *)
(***************************************************************************)
EXTENDS Integers, Sequences
LOCAL INSTANCE SequencesExt
LOCAL INSTANCE Functions

CONSTANTS NoBound, Nothing, Absent, Unset, Primitive, Unused

VARIABLES machine,
          text, result,                                                        \* Grammar
          arity, at, keywords, units, inverseUnit, domain, range, noerror, stage, forward, reverse, \* FunctionDefinitions
          process, env, frames, db, listed, read, blocks, values, effective, plain, \* Loader
          template, database, update, options, rates, output, error     \* CurrencyUpdate

-----------------------------------------------------------------------------
\* Expressions: all texts of up to five tokens, and of seven behind a first argument.  +, +-,
\* / and | behave like - and *.
Tokens == {"number", "name", "per", "-", "*", "^", "(", ")", "~", ","}
MaxTokens == 5

\* Functions: up to three keywords with what follows them, in any order and number, then
\* formulas that begin with a bracket or not, with and without a separator, with semicolons
\* in brackets, with a keyword behind their beginning, and without any text at all.
Metadata ==
  {<<"noerror">>, <<"units", "m", ";", "K", "]">>, <<"units", "*", ",", "K", "]">>,
   <<"domain">>, <<"domain", "[", "0", ",", "2", "]">>, <<"domain", "(", "0", ",", "2", ")", "[", "1", "]">>,
   <<"domain", "(", "1", ",", "]", ",", "[", "0", ",", "1", "|", "3", ")">>,
   <<"domain", "[", "sqrt", "(", "2", ")", ",", "3", "]">>,
   <<"range">>, <<"range", "(", "1", ",", "]">>, <<"range", "[", "1", "]", ",", "(", "0", ",", "2", ")">>}
Formulas ==
  {<<>>, <<"x">>, <<"x", ";", "x">>, <<";", "x">>, <<"x", ";">>, <<"]", ";", "x">>,
   <<"x", "[", ";", "]", ";", "x">>, <<"[", "[", "]", ";", "]">>, <<"(", "x", ")", "x", ";", "x">>,
   <<"[", "x">>, <<"units", "x">>, <<"x", "units", "m", "]", ";", "noerror">>}
Texts == UNION {{FlattenSeq(Append(f, g)) : f \in [1 .. n -> Metadata], g \in Formulas} : n \in 0 .. 3}
Token == UNION {Range(t) : t \in Metadata \cup Formulas}
Number == [n \in {"0", "1", "2", "3"} |-> CASE n = "0" -> 0 [] n = "1" -> 1 [] n = "2" -> 2 [] OTHER -> 3]
Arities == {0, 1, 2}
Values == -1 .. 3

\* Files: up to six lines, those of included files among them, over two definitions, a
\* malformed function, a unit list and one variable.
Name == {"u"}
FullName == {"u"}
Def == {"d1", "d2", "bad"}
Malformed == {"bad"}
Canon == [n \in Name |-> n]
Variables == {"UNITS"}
VariableValues == {"si", "gauss"}
Environments == [Variables -> {"si", Unset}]
MaxLines == 6
MaxIncludes == 2

Line(d) == [d |-> d, name |-> "", kind |-> "Unit", def |-> "d1", var |-> "UNITS", vals |-> {}]
Lines ==
  {[Line("locale") EXCEPT !.name = n] : n \in {"en_US", "en_GB"}}
  \cup {Line("endlocale"), Line("utf8"), Line("endvar"), Line("include")}
  \cup {[Line(d) EXCEPT !.vals = {v}] : d \in {"var", "varnot", "set"}, v \in VariableValues}
  \cup {[Line("definition") EXCEPT !.name = "u", !.def = d] : d \in {"d1", "d2"}}
  \cup {[Line("definition") EXCEPT !.name = "u", !.kind = "Function", !.def = "bad"],
        [Line("unitlist") EXCEPT !.name = "u", !.kind = "Alias"]}

\* Currencies: three of them, and templates relative to the dollar with a rate for each
\* other one or only some or none, and one that is malformed.
Code == {"USD", "EUR", "GBP"}
UnitName == {"dollar", "euro", "pound"}
Codes == <<<<"USD", "dollar">>, <<"EUR", "euro">>, <<"GBP", "pound">>>>
InDollars == [by |-> 0, unit |-> "dollar"]
Templates ==
  {[marker |-> m, codes |-> Codes, existing |-> [u \in us \cup {"dollar"} |-> IF u = "dollar" THEN Primitive ELSE InDollars]] :
     m \in BOOLEAN, us \in SUBSET {"euro", "pound"}}
Bases == {"usd", "EUR", "GBP", "XXX"}
Upper == [b \in Bases \cup Code |-> IF b = "usd" THEN "USD" ELSE b]
MaxUpdates == 3

-----------------------------------------------------------------------------
G == INSTANCE Grammar
F == INSTANCE FunctionDefinitions
L == INSTANCE Loader
C == INSTANCE CurrencyUpdate

ASSUME G!GrammarAssumption /\ F!FunctionsAssumption /\ L!DefinitionsAssumption /\ L!LoaderAssumption /\ C!CurrencyAssumption
       /\ C!NamesUnitsOnce /\ C!NamesCodesOnce /\ C!RatesAreRelative

functions == <<arity, at, keywords, units, inverseUnit, domain, range, noerror, forward, reverse>>
loads == <<process, env, frames, db, listed, read, blocks, values, effective, plain>>
updates == <<template, database, update, options, rates, output, error>>

NoFunction == arity = Unused /\ at = Unused /\ keywords = Unused /\ units = Unused /\ inverseUnit = Unused /\ domain = Unused
              /\ range = Unused /\ noerror = Unused /\ forward = Unused /\ reverse = Unused
NoLoad == process = Unused /\ env = Unused /\ frames = Unused /\ db = Unused /\ listed = Unused /\ read = Unused
          /\ blocks = Unused /\ values = Unused /\ effective = Unused /\ plain = Unused
NoUpdate == template = Unused /\ database = Unused /\ update = Unused /\ options = Unused /\ rates = Unused
            /\ output = Unused /\ error = Unused

Init ==
  \/ machine = "parse" /\ G!Init /\ NoFunction /\ NoLoad /\ NoUpdate /\ stage = Unused
  \/ machine = "define" /\ F!Init /\ NoLoad /\ NoUpdate /\ result = Unused
  \/ machine = "load" /\ L!Init /\ NoFunction /\ NoUpdate /\ text = Unused /\ result = Unused /\ stage = Unused
  \/ machine = "update" /\ C!Init /\ NoFunction /\ NoLoad /\ text = Unused /\ result = Unused

Next ==
  /\ UNCHANGED machine
  /\ \/ machine = "parse" /\ G!Next /\ UNCHANGED <<functions, loads, updates, stage>>
     \/ machine = "define" /\ F!Next /\ UNCHANGED <<loads, updates, result>>
     \/ machine = "load" /\ L!Next /\ UNCHANGED <<functions, updates, text, result, stage>>
     \/ machine = "update" /\ C!Next /\ UNCHANGED <<functions, loads, text, result>>

vars == <<machine, text, result, stage, functions, loads, updates>>
Spec == Init /\ [][Next]_vars

-----------------------------------------------------------------------------
\* The properties of the machines, each while its machine runs; the modules say what they
\* are about.

\* The ordered choices accept what the documented grammar allows (parser.pest).
ParsesAsDocumented == machine = "parse" => G!ParsesAsDocumented

\* Of several trees the grammar takes the one with differences and calls (parser.pest).
Meant == machine = "parse" => G!Meant

\* A parameter has the unit that was last given to it (parse_func_metadata).
UnitsAreLastGiven == machine = "define" => F!UnitsAreLastGiven

\* A check passes iff the bounds that are numbers are kept (parse_intervals_multi).
BoundsAreKept == machine = "define" => F!BoundsAreKept

\* Nothing of a formula is lost, and it is cut at one semicolon only (find_formula_sep).
FormulaIsWhole == machine = "define" => F!FormulaIsWhole

\* Parentheses that are no interval stay in the formula (parse_intervals_multi).
ParenthesesStay == machine = "define" => F!ParenthesesStay

\* Exactly the lines count whose enclosing blocks hold (load_core).
LoadsWhatCounts == machine = "load" => L!LoadsWhatCounts

\* The database is what those lines make of it, and variables are what they set (load_core).
DatabaseMatches == machine = "load" => L!DatabaseMatches

\* Definitions of currencies never close a circle (build_currency_template).
DefinitionsEnd == machine = "update" => C!DefinitionsEnd

\* After an update with all rates every currency converts into every other one.
CompleteUpdateConverts == machine = "update" => C!CompleteUpdateConverts

\* A rate that was fetched counts once it is reloaded (reload_currency).
FetchedRatesCount == [][machine = "update" => C!LoadsFetchedRates]_vars
=============================================================================
