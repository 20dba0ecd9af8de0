---------------------------- MODULE MCUnitsStore ----------------------------
(***************************************************************************)
(* UnitsStore on small currency files.  The embedded file bases everything *)
(* on the dollar; the reloaded ones switch the base to the euro, change a  *)
(* rate, redefine the function and the table, or are circular.             *)
(***************************************************************************)
EXTENDS UnitsStoreRefinement

CONSTANTS r1, r2, c1   \* threads

MCName == {"usd", "eur", "f", "tab"}
MCFullName == {"usd", "eur", "f(x)", "f(y)", "tab[usd]", "list"}
MCCanon == [n \in MCFullName |-> CASE n \in {"f(x)", "f(y)"} -> "f"
                                   [] n = "tab[usd]" -> "tab"
                                   [] n = "list" -> "eur"
                                   [] OTHER -> n]

Usd == <<"Unit", "usd">>
Eur == <<"Unit", "eur">>
Fun == <<"Function", "f">>

\* Definitions: primitive, so many dollars or euros, formulas, broken ones.
MCDef == {"prim", "usd1", "usd2", "eur1", "fun1", "fun2", "noinv", "bad", "sum", "pts"}
MCMalformed == {"bad"}
MCFaulty == {"sum"}
MCRefers == [d \in MCDef |-> CASE d \in {"usd1", "usd2", "fun1", "pts"} -> Usd
                               [] d \in {"eur1", "fun2"} -> Eur
                               [] OTHER -> NoExpr]
MCReverse == [d \in MCDef |-> CASE d = "fun1" -> Usd [] d = "fun2" -> Eur [] OTHER -> NoExpr]
\* "x f" is read again as "f(x)"; the text "x f" itself names no unit.
Spaced == <<"Unit", "f">>
MCSplit == [e \in Expr |-> IF e = Spaced THEN Fun ELSE NoExpr]

L(n, k, d) == [name |-> n, kind |-> k, def |-> d]

MCEmbedded == <<L("usd", "Unit", "prim"), L("eur", "Unit", "usd2"), L("eur", "Unit", "usd1"),
                L("f(y)", "Function", "noinv"), L("f(x)", "Function", "fun1"),
                L("tab[usd]", "Table", "pts")>>

EuroBase == <<L("usd", "Unit", "eur1"), L("eur", "Unit", "prim")>>
NewRate == <<L("eur", "Unit", "usd2")>>
NewFunction == <<L("f(x)", "Function", "fun2"), L("f(x)", "Function", "bad"),
                 L("eur", "Unit", "sum"), L("list", "Alias", "pts")>>
NoInverse == <<L("f(x)", "Function", "noinv"), L("eur", "Unit", "usd2")>>
Circular == <<L("usd", "Unit", "eur1")>>

MCContents == {EuroBase, NewRate, NewFunction, NoInverse, Circular}

\* The theorem about ListingMatchesDatabase assumes it of the files.
ASSUME CleanFiles

Parse(e) == [op |-> "parse", expr |-> e]
Conv(e, n) == [op |-> "convert", from |-> e, to |-> n]
Conf(e) == [op |-> "conformable", expr |-> e]
Lst == [op |-> "list"]
Rld(c) == [op |-> "reload", content |-> c]

\* Every path of convert and every other call, against every file.
CallsConvert == [t \in Thread |->
  IF t = r1 THEN {Rld(c) : c \in Contents}
  ELSE {Conv(e, n) : e \in {Usd, Eur, Spaced}, n \in {"usd", "f", "tab"}} \cup {Parse(Eur), Conf(Eur), Lst}]

\* Two reloads at the same time, a reader that converts, lists or asks for conformable units.
CallsTwoReloads == [t \in Thread |->
  CASE t = r1 -> {Rld(EuroBase), Rld(NewFunction), Rld(Circular)}
    [] t = r2 -> {Rld(NewRate), Rld(Circular)}
    [] OTHER -> {Conv(Eur, "usd"), Conv(Usd, "eur"), Conv(Eur, "f"), Conf(Usd), Lst}]
=============================================================================
