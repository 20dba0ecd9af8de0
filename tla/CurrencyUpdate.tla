--------------------------- MODULE CurrencyUpdate ----------------------------
(***************************************************************************)
(* fetch_currency_updates (currency_update.rs) and the reload of what it   *)
(* returns, several times in one process with other options and other      *)
(* answers of the providers.                                               *)
(*                                                                         *)
(* A rate is known by the number of the update that fetched it, those of   *)
(* the template by 0; a definition [by, unit] is `1|rate unit`, and        *)
(* Primitive is `!`.  A provider answers with rates for any set of codes,  *)
(* with an error of its own, with what cannot be read, or not at all.      *)
(***************************************************************************)
EXTENDS Integers, Sequences, FiniteSets

CONSTANTS Code, UnitName,
          Templates,     \* records [marker, codes, existing]
          Bases, Upper,  \* what callers pass as base, and to_ascii_uppercase
          Primitive, Absent, MaxUpdates

Sources == {"ExchangerateApi", "Floatrates", "Ecb"}
Definition == [by : 0 .. MaxUpdates, unit : UnitName] \cup {Primitive}

CurrencyAssumption ==
  /\ IsFiniteSet(UnitName) /\ MaxUpdates \in Nat
  /\ Absent \notin Definition /\ Primitive \notin [by : 0 .. MaxUpdates, unit : UnitName]
  /\ \A t \in Templates : /\ t.codes \in Seq(Code \X UnitName)
                          /\ DOMAIN t.existing \subseteq UnitName
                          /\ \A u \in DOMAIN t.existing : t.existing[u] \in Definition

\* A template names no unit twice and no code twice, and what it defines by a rate it defines
\* relative to a currency of its own that is primitive (the dollar).
NamesUnitsOnce == \A t \in Templates : \A i, j \in DOMAIN t.codes : t.codes[i][2] = t.codes[j][2] => i = j
NamesCodesOnce == \A t \in Templates : \A i, j \in DOMAIN t.codes : t.codes[i][1] = t.codes[j][1] => i = j
RatesAreRelative ==
  \A t \in Templates : \A u \in DOMAIN t.existing : t.existing[u] # Primitive =>
    LET v == t.existing[u].unit
    IN  v \in DOMAIN t.existing /\ t.existing[v] = Primitive /\ \E i \in DOMAIN t.codes : t.codes[i][2] = v

VARIABLES template, database, update, options, stage, rates, output, error
vars == <<template, database, update, options, stage, rates, output, error>>

-----------------------------------------------------------------------------
NoOptions == [source |-> "Ecb", base |-> "EUR", key |-> FALSE]
Base == Upper[options.base]

Init ==
  /\ template \in Templates /\ database = [u \in UnitName |-> Absent]
  /\ update = 0 /\ options = NoOptions /\ stage = "idle"
  /\ rates = [c \in {} |-> 0] /\ output = <<>> /\ error = "none"

Fail(kind) ==
  /\ stage' = "failed" /\ error' = kind
  /\ UNCHANGED <<template, database, update, options, rates, output>>

Goes(to) == stage' = to /\ UNCHANGED <<template, database, update, options, error>>

Fetch(source, base, key) ==
  /\ stage \in {"idle", "failed"} /\ update < MaxUpdates
  /\ options' = [source |-> source, base |-> base, key |-> key] /\ update' = update + 1
  /\ stage' = "options" /\ error' = "none" /\ output' = <<>>
  /\ UNCHANGED <<template, database, rates>>

\* Ecb with another base than EUR is refused before anything is read.
RefuseBase == stage = "options" /\ options.source = "Ecb" /\ Base # "EUR" /\ Fail("Provider")
AcceptBase ==
  /\ stage = "options" /\ (options.source = "Ecb" => Base = "EUR")
  /\ Goes("template") /\ UNCHANGED <<rates, output>>

ParseTemplate ==
  /\ stage = "template"
  /\ IF template.marker THEN Goes("request") /\ UNCHANGED <<rates, output>>
     ELSE Fail("InvalidTemplate")

\* send and error_for_status; the keyed endpoint hides the address in an error of its own.
RequestFails ==
  /\ stage = "request"
  /\ Fail(IF options.source = "ExchangerateApi" /\ options.key THEN "Provider" ELSE "Http")

\* Response::json fails with a reqwest::Error, which is converted to Http.  Ecb takes text.
Unreadable == stage = "request" /\ options.source # "Ecb" /\ Fail("Http")

\* A result that is not "success", or one without rates; an Ecb feed without any.
ProviderRefuses == stage = "request" /\ options.source # "Floatrates" /\ Fail("Provider")

\* The base gets the rate 1 from Floatrates, EUR from Ecb.
Receives(codes) ==
  LET own == IF options.source = "Floatrates" THEN {Base} ELSE IF options.source = "Ecb" THEN {"EUR"} ELSE {}
  IN  /\ stage = "request" /\ (options.source = "Ecb" => codes # {})
      /\ rates' = [c \in codes \cup own |-> update]
      /\ Goes("build") /\ UNCHANGED output

Pairs == template.codes
HasBase == \E i \in DOMAIN Pairs : Pairs[i][1] = Base
BaseUnit == Pairs[CHOOSE i \in DOMAIN Pairs : Pairs[i][1] = Base /\ \A j \in 1 .. i - 1 : Pairs[j][1] # Base][2]

\* Variant: the base keeps the definition of the template.
LineOfAny(code, unit) ==
  IF code \in DOMAIN rates THEN <<[name |-> unit, def |-> [by |-> rates[code], unit |-> BaseUnit]]>>
  ELSE IF unit \in DOMAIN template.existing THEN <<[name |-> unit, def |-> template.existing[unit]]>>
  ELSE <<>>

\* Variant: the template comes before what was fetched.
LineOfTemplate(code, unit) ==
  IF code = Base THEN <<[name |-> unit, def |-> Primitive]>>
  ELSE IF unit \in DOMAIN template.existing THEN <<[name |-> unit, def |-> template.existing[unit]]>>
  ELSE IF code \in DOMAIN rates THEN <<[name |-> unit, def |-> [by |-> rates[code], unit |-> BaseUnit]]>>
  ELSE <<>>

\* The line of one pair of the template, or none.
LineOf(code, unit) ==
  IF code = Base THEN <<[name |-> unit, def |-> Primitive]>>
  ELSE IF code \in DOMAIN rates THEN <<[name |-> unit, def |-> [by |-> rates[code], unit |-> BaseUnit]]>>
  ELSE IF unit \in DOMAIN template.existing THEN <<[name |-> unit, def |-> template.existing[unit]]>>
  ELSE <<>>

LinesUpTo == LET upTo[i \in 0 .. Len(Pairs)] ==
                   IF i = 0 THEN <<>> ELSE upTo[i - 1] \o LineOf(Pairs[i][1], Pairs[i][2])
             IN  upTo
Lines == LinesUpTo[Len(Pairs)]

\* build_currency_template.
Build ==
  /\ stage = "build"
  /\ IF HasBase THEN Goes("built") /\ output' = Lines /\ UNCHANGED rates ELSE Fail("Provider")

\* The caller passes the text on to reload_currency, or gives it up.
Reload ==
  /\ stage = "built"
  /\ database' = [u \in UnitName |->
       LET of == {i \in DOMAIN output : output[i].name = u} IN
       IF of = {} THEN database[u] ELSE output[CHOOSE i \in of : \A j \in of : j <= i].def]
  /\ stage' = "idle" /\ UNCHANGED <<template, update, options, rates, output, error>>

GiveUp == stage = "built" /\ Goes("idle") /\ UNCHANGED <<rates, output>>

Done == stage \in {"idle", "failed"} /\ update = MaxUpdates /\ UNCHANGED vars

Next ==
  \/ \E s \in Sources, b \in Bases, k \in BOOLEAN : Fetch(s, b, k)
  \/ RefuseBase \/ AcceptBase \/ ParseTemplate \/ RequestFails \/ Unreadable \/ ProviderRefuses
  \/ \E codes \in SUBSET Code : Receives(codes)
  \/ Build \/ Reload \/ GiveUp \/ Done
Spec == Init /\ [][Next]_vars

-----------------------------------------------------------------------------
\* Where definitions lead to from u, at most as far as there are units.
Onward(u) == IF database[u] \in {Primitive, Absent} THEN u ELSE database[u].unit
Path(u) == LET at[n \in 0 .. Cardinality(UnitName)] == IF n = 0 THEN u ELSE Onward(at[n - 1])
           IN  at
Reached(u) == Path(u)[Cardinality(UnitName)]

\* Whatever was updated before, with whatever base and however incomplete the answers were,
\* the definition of every currency leads to a primitive one in the end: rates that stay
\* from the template or from an earlier update never close a circle with the new ones
\* (build_currency_template, reload_currency).
DefinitionsEnd == \A u \in UnitName : database[u] # Absent => database[Reached(u)] = Primitive

\* A rate that was fetched is the one that counts after the reload, whatever the template
\* and earlier updates say of the unit, and relative to the base that was asked for.
LoadsFetchedRates ==
  Reload => /\ database'[BaseUnit] = Primitive
            /\ \A i \in DOMAIN Pairs : Pairs[i][1] \in DOMAIN rates /\ Pairs[i][1] # Base =>
                 database'[Pairs[i][2]] = [by |-> update, unit |-> BaseUnit]
FetchedRatesCount == [][LoadsFetchedRates]_vars

\* An update that comes with all rates leaves nothing of any earlier one, and one currency
\* that everything else is converted through.
CompleteUpdateConverts ==
  stage = "idle" /\ output # <<>> /\ (\A i \in DOMAIN Pairs : Pairs[i][1] \in DOMAIN rates \cup {Base})
    /\ (\A i \in DOMAIN output : database[output[i].name] = output[i].def)
      => \A u, v \in UnitName : database[u] # Absent /\ database[v] # Absent => Reached(u) = Reached(v)
=============================================================================
