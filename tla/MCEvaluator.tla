---------------------------- MODULE MCEvaluator ------------------------------
(***************************************************************************)
(* The evaluator with factors that are integers modulo 7: a field, like    *)
(* the reals, in which products of numbers other than 0 are not 0.         *)
(***************************************************************************)
EXTENDS EvaluatorMeaning, FiniteSetsExt, TLC

CONSTANT Kinds  \* the kinds of requests of a run

Field == 0 .. 6
FieldTimes(f, g) == (f * g) % 7
FieldToThe(f, n) == CASE n = 0 -> 1 [] n # 0 /\ f = 0 -> 0 [] OTHER -> (f ^ (n % 6)) % 7
FieldOver(f, g) == FieldTimes(f, FieldToThe(g, 5))
FieldPlus(f, g) == (f + g) % 7
FieldRootOf(f, n) == IF \E g \in Field : FieldToThe(g, n) = f THEN CHOOSE g \in Field : FieldToThe(g, n) = f ELSE f
FieldNegative(f) == FALSE
FieldNegated(f) == (7 - f) % 7

\* The built-in functions of the instance: a domain and a value for each.
SomeAccept(f, x) == f \in {"sin", "exp"} \/ x # 5
SomeCompute(f, x) == (x + 1) % 7
SomeRoots == [f \in {"sqrt"} |-> 2]

SomeNames == {"m", "radian", "ft", "fts", "kft", "k", "bad", "badft", "loop", "pool", "long1", "long2", "long3",
              "broken", "nested", "nothing", "empty", "f", "g", "h", "two", "curve", "scale", "x", "y", "fails", "nosuch",
              "usesx", "self", "selfish", "picky", "spiral", "signs", "t", "sqrt", "abs", "sin", "asin", "exp"}
SomeSingulars(n) == IF n = "fts" THEN <<"ft">> ELSE <<>>
SomeSplits(n) ==
  CASE n = "kft" -> <<[prefix |-> "k", rest |-> "ft"]>>
    [] n = "badft" -> <<[prefix |-> "bad", rest |-> "ft"]>>
    [] OTHER -> <<>>

-----------------------------------------------------------------------------
Num(f) == [kind |-> "number", factor |-> f]
Nam(n) == [kind |-> "name", name |-> n]
Bin(l, op, r) == [kind |-> "binary", op |-> op, left |-> l, right |-> r]
Times2(l, r) == Bin(l, "juxt", r)
Una(op, e) == [kind |-> "unary", op |-> op, arg |-> e]
Grp(e) == [kind |-> "group", body |-> e]
App(f, args) == [kind |-> "call", name |-> f, args |-> args]
Til(f, e) == [kind |-> "tilde", name |-> f, arg |-> e]
Garbage == [kind |-> "garbage"]

\* A row of n signs before a name.
Signs(n, e) == LET row[i \in 0 .. n] == IF i = 0 THEN e ELSE Una("minus", row[i - 1]) IN row[n]

Derived(e) == [kind |-> "derived", def |-> e]
Basic == [kind |-> "primitive"]

\* loop and pool define each other; the chain from long1 is as deep as the limit allows.
Units ==
  ("m" :> Basic) @@ ("ft" :> Derived(Times2(Num(3), Nam("m")))) @@
  ("loop" :> Derived(Times2(Num(0), Nam("pool")))) @@ ("pool" :> Derived(Bin(Nam("m"), "*", Nam("loop")))) @@
  ("long1" :> Derived(Grp(Nam("long2")))) @@ ("long2" :> Derived(Nam("long3"))) @@ ("long3" :> Derived(Nam("ft"))) @@
  ("broken" :> Derived(Garbage)) @@ ("nested" :> Derived(Grp(Grp(Nam("ft"))))) @@
  ("nothing" :> Derived(Times2(Num(0), Nam("empty")))) @@ ("empty" :> Derived(Nam("nosuch"))) @@
  ("usesx" :> Derived(Times2(Nam("x"), Nam("m"))))

\* f has all metadata, curve is a function of functions that skips its checks, fails
\* fails while x is bound; h has no parameter and two has two.
Fn(params, forward, reverse, units, domain, inverse_unit, range, noerror) ==
  [params |-> params, forward |-> forward, reverse |-> reverse, units |-> units, domain |-> domain,
   inverse_unit |-> inverse_unit, range |-> range, noerror |-> noerror]

Functions ==
  ("f" :> Fn(<<"x">>, Bin(Nam("x"), "*", Nam("ft")), Bin(Nam("f"), "/", Nam("ft")),
             <<Nam("ft")>>, <<{0, 1, 2}>>, Bin(Nam("m"), "^", Num(2)), {1, 2, 3}, FALSE)) @@
  ("g" :> Fn(<<"x">>, Bin(App("f", <<Times2(Nam("x"), Nam("m"))>>), "+", Bin(Nam("x"), "*", Bin(Nam("m"), "^", Num(2)))),
             Til("f", Nam("g")), <<None>>, <<{1, 3}>>, None, {1, 2}, FALSE)) @@
  ("curve" :> Fn(<<"y">>, Times2(App("two", <<Nam("y"), Nam("ft")>>), Nam("y")), Bin(Nam("curve"), "+", Num(1)),
                 <<Nam("broken")>>, <<{}>>, None, {}, TRUE)) @@
  ("two" :> Fn(<<"x", "y">>, Bin(Nam("y"), "/", Nam("x")), None, <<None, Nam("m")>>, <<{1, 2}, None>>, None, None, FALSE)) @@
  ("fails" :> Fn(<<"x">>, Times2(Num(0), Grp(Times2(Nam("x"), Nam("nosuch")))), None, <<>>, <<>>, None, None, FALSE)) @@
  ("scale" :> Fn(<<"x">>, Bin(Nam("x"), "/", Num(2)), Bin(Nam("scale"), "*", Num(2)), <<None>>, <<{0, 2, 4}>>,
                 None, {0, 1, 2}, FALSE)) @@
  ("h" :> Fn(<<>>, Times2(Num(2), Nam("m")), None, <<>>, <<>>, None, None, FALSE))

\* The unit of the table t is "ft * ft / m", that of spiral a call of spiral.
Row(f) == Bin(Bin(Times2(Num(f), Nam("ft")), "*", Nam("ft")), "/", Nam("m"))
Tables == "t" :> [readings |-> (1 :> Row(2)) @@ (2 :> Row(4))]
Prefixes == ("k" :> Num(2)) @@ ("bad" :> Nam("nosuch"))

\* The unit radian may be a unit of its own, one that cannot be evaluated, or unknown.
Data(units, prefixes, functions) ==
  [units |-> Units @@ units, prefixes |-> prefixes, functions |-> functions, tables |-> Tables]
Nothing == [n \in {} |-> Basic]

\* self is a prefix defined by itself, selfish a function whose body calls it, picky one whose
\* argument has a unit that calls it, spiral a table whose unit calls it; capture has a function
\* of x whose body uses a unit that is defined by a unit x.
Loops ==
  ("selfish" :> Fn(<<"x">>, App("selfish", <<Nam("x")>>), None, <<>>, <<>>, None, None, FALSE)) @@
  ("picky" :> Fn(<<"x">>, Nam("x"), None, <<App("picky", <<Num(2)>>)>>, <<>>, None, None, FALSE))

SomeDatabases ==
  [radian |-> Data("radian" :> Basic, Prefixes, Functions),
   broken |-> Data("radian" :> Derived(Nam("broken")), Prefixes, Functions),
   unknown |-> Data(Nothing, Prefixes, Functions),
   looping |-> [Data(Nothing, "self" :> Nam("self"), Loops)
                  EXCEPT !.tables = "spiral" :> [readings |-> 1 :> Times2(Num(2), App("spiral", <<Num(1)>>))]],
   \* signs is defined with a row of 100 of them.
   tall |-> Data("signs" :> Derived(Signs(100, Nam("m"))), Prefixes, Functions),
   capture |-> Data("x" :> Derived(Times2(Num(2), Nam("m"))), Prefixes,
                    "f" :> Fn(<<"x">>, Bin(Nam("x"), "*", Nam("usesx")), None, <<>>, <<>>, None, None, FALSE))]

-----------------------------------------------------------------------------
NoVars == [n \in SomeNames |-> None]
Ask(d, e) == [db |-> d, expr |-> e, vars |-> NoVars, func |-> None]

Plain == {Nam(n) : n \in {"m", "kft", "fts", "k", "badft", "loop", "pool", "long1", "broken", "nested", "nothing", "empty",
                          "f", "t", "x", "usesx", "nosuch"}} \cup {Num(0), Num(2)}
Arguments == {Num(0), Num(1), Num(5), Nam("m"), Nam("ft"), Nam("radian"), Nam("nested"), Nam("loop"), Nam("nosuch"),
              Bin(Nam("ft"), "^", Num(2))}
Calls == {App(f, <<a>>) : f \in {"f", "g", "curve", "fails", "h", "t", "sqrt", "abs", "sin", "asin", "exp", "nosuch"}, a \in Arguments}
         \cup {Til(f, a) : f \in {"f", "g", "curve", "scale", "two", "nosuch", "fails"}, a \in Arguments}
         \cup {App("two", <<a, b>>) : a, b \in {Num(1), Num(3), Nam("m"), Nam("loop"), App("g", <<Num(1)>>)}}
         \cup {App("h", <<>>), App("sin", <<>>)}

\* Every operator between these, with zero on the left of a product, in groups up to beyond the limit.
Operands == {Nam("m"), Nam("kft"), Nam("badft"), Nam("loop"), Nam("empty"), Nam("f"), Nam("nosuch"), Nam("broken"), Num(0), Num(2), Num(None),
             App("g", <<Num(1)>>), App("fails", <<Num(2)>>), App("f", <<Nam("nosuch")>>), Til("g", Num(2)), App("sin", <<Nam("radian")>>)}
Operators == {"+", "-", "*", "/", "|", "juxt", "^"}
Pairs == {Bin(l, op, r) : l, r \in Operands, op \in Operators}
Expressions == Plain \cup Calls \cup Pairs \cup {Una(op, e) : op \in {"minus", "per"}, e \in Operands}
          \cup {Garbage} \cup {Grp(e) : e \in Plain} \cup {Grp(Grp(e)) : e \in Plain}
          \cup {Grp(Grp(Grp(Grp(e)))) : e \in Plain} \cup {Grp(Grp(Grp(Grp(Grp(e))))) : e \in Plain}
          \cup {Times2(Num(0), Grp(Bin(l, op, r))) : l, r \in Operands, op \in {"juxt", "^"}}
          \cup {Bin(Times2(Num(0), l), "+", r) : l, r \in Operands}

\* convert(v, f) evaluates the inverse of f with f bound to v.
Conversions ==
  {[db |-> "radian", expr |-> Functions[f].reverse, vars |-> [NoVars EXCEPT ![f] = v], func |-> f] :
     f \in {"f", "g", "curve", "scale"}, v \in {FromFactor(1), FromFactor(4), Primitive("m")}}

Angles == {App(f, <<a>>) : f \in {"sin", "asin"}, a \in Arguments} \cup {Times2(Num(0), App("sin", <<Nam("radian")>>))}

RequestsOf ==
  [full |-> {Ask("radian", e) : e \in Expressions} \cup {Ask(d, e) : d \in {"broken", "unknown"}, e \in Angles} \cup Conversions,
   looping |-> {Ask("looping", Nam("self"))} \cup {Ask("looping", App(f, <<Num(1)>>)) : f \in {"selfish", "picky", "spiral"}},
   \* With rows of signs the last one that the stack has room for and the first one it has not.
   tall |-> {Ask("radian", Signs(n, Nam("m"))) : n \in {105, 106}} \cup {Ask("tall", Signs(n, Nam("signs"))) : n \in {4, 5}},
   capturing |-> {Ask("capture", App("f", <<Num(3)>>))}]
SomeRequests == UNION {RequestsOf[k] : k \in Kinds}

\* The trees of the requests and of the databases, with their parts, however deep.
PartsOf(e) ==
  CASE e.kind \in {"unary", "tilde"} -> {e.arg}
    [] e.kind = "binary" -> {e.left, e.right}
    [] e.kind = "group" -> {e.body}
    [] e.kind = "call" -> {e.args[i] : i \in DOMAIN e.args}
    [] OTHER -> {}

SomeTexts ==
  {r.expr : r \in SomeRequests} \cup {RadianText} \cup UNION {TextsIn(SomeDatabases[d]) : d \in DOMAIN SomeDatabases}

Layers[n \in 0 .. 8] ==
  IF n = 0 THEN SomeTexts ELSE LET outer == Layers[n - 1] IN outer \cup UNION {PartsOf(e) : e \in outer}
AllTrees == {e : e \in Layers[8]} \cup {Signs(n, Nam("m")) : n \in 0 .. 106}
SomeTrees == AllTrees  \* (so that TLC builds the set once)

HeightOf[e \in SomeTrees] == IF PartsOf(e) = {} THEN 0 ELSE 1 + Max({HeightOf[part] : part \in PartsOf(e)})
SomeHeights == [e \in SomeTrees |-> HeightOf[e]]
=============================================================================
