------------------------------ MODULE Evaluator ------------------------------
(***************************************************************************)
(* The evaluation of one expression (Evaluator in parser.rs), a machine    *)
(* with the stack of the recursive calls made explicit.                    *)
(*                                                                         *)
(* An expression is the tree the grammar makes of a text; a text that does *)
(* not parse is the tree of kind "garbage".  The loops over operands are   *)
(* trees that lean to the left.                                            *)
(***************************************************************************)
EXTENDS UnitAlgebra, Sequences, FiniteSets

CONSTANTS
  Names, None,
  Tree,              \* what the grammar makes of texts
  Height,            \* [Tree -> Nat]: how deep a tree is nested
  Databases,
  Requests,          \* [db, expr, vars, func]: what is evaluated, in which database and with which variables;
                     \* func is the function a conversion inverts, None in an evaluation of a text
  MaxDepth,
  StackLimit,        \* frames the native stack has room for, the same whatever the texts are
  Singulars(_),      \* the singular forms a name is tried as, in order
  Splits(_),         \* its splits into a prefix and a rest, longest prefix first
  Zero, Negated(_),
  RootFunction,      \* sqrt, cbrt: [name -> index]
  Keeping, AngleIn, AngleOut, Scalar,  \* the other built-in functions, by what they demand and yield
  Accepts(_, _), Computed(_, _)

\* The parts of a tree are trees, names and factors; a hexadecimal number that no i64
\* holds has no factor.
IsTree(e) ==
  /\ e.kind = "number" => e.factor \in Factor \cup {None}
  /\ e.kind = "name" => e.name \in Names
  /\ e.kind = "unary" => e.arg \in Tree
  /\ e.kind = "binary" => e.left \in Tree /\ e.right \in Tree
  /\ e.kind = "group" => e.body \in Tree
  /\ e.kind = "tilde" => e.arg \in Tree
  /\ e.kind = "call" => e.args \in Seq(Tree)

RadianText == [kind |-> "name", name |-> "radian"]

IsDatabase(d) ==
  /\ \A n \in DOMAIN d.units :
       /\ n \in Names
       /\ d.units[n].kind = "primitive" => n \in Base
       /\ d.units[n].kind = "derived" => d.units[n].def \in Tree
  /\ \A p \in DOMAIN d.prefixes : d.prefixes[p] \in Tree
  /\ \A f \in DOMAIN d.functions :
       LET func == d.functions[f] IN
       /\ func.params \in Seq(Names) /\ func.forward \in Tree
       /\ func.reverse \in Tree \cup {None} /\ func.inverse_unit \in Tree \cup {None}
       /\ \A i \in DOMAIN func.units : func.units[i] \in Tree \cup {None}
  /\ \A t \in DOMAIN d.tables : \A x \in DOMAIN d.tables[t].readings : d.tables[t].readings[x] \in Tree

ASSUME EvaluatorAssumption ==
  /\ MaxDepth \in Nat /\ StackLimit \in Nat /\ "radian" \in Names
  /\ \A r \in Requests : r.vars \in [Names -> UnitValue \cup {None}] /\ r.expr \in Tree
  /\ \A d \in {r.db : r \in Requests} : IsDatabase(Databases[d])

\* Every part of a tree is lower than the tree.
Lower ==
  /\ Height \in [Tree -> Nat] /\ Height[RadianText] = 0
  /\ \A e \in Tree :
       /\ e.kind \in {"unary", "tilde"} => Height[e.arg] < Height[e]
       /\ e.kind = "binary" => Height[e.left] < Height[e] /\ Height[e.right] < Height[e]
       /\ e.kind = "group" => Height[e.body] < Height[e]
       /\ e.kind = "call" => \A i \in DOMAIN e.args : Height[e.args[i]] < Height[e]

\* The texts of a database.
UnitTexts(d) == {d.units[n].def : n \in {n \in DOMAIN d.units : d.units[n].kind = "derived"}}
PrefixTexts(d) == {d.prefixes[p] : p \in DOMAIN d.prefixes}
FunctionTexts(func) ==
  {func.forward} \cup (({func.reverse, func.inverse_unit} \cup {func.units[i] : i \in DOMAIN func.units}) \ {None})
TableTexts(table) == {table.readings[x] : x \in DOMAIN table.readings}
TextsOfFunctions(d) == UNION {FunctionTexts(d.functions[f]) : f \in DOMAIN d.functions}
TextsOfTables(d) == UNION {TableTexts(d.tables[t]) : t \in DOMAIN d.tables}
TextsIn(d) == UnitTexts(d) \cup PrefixTexts(d) \cup TextsOfFunctions(d) \cup TextsOfTables(d)

\* The texts of a database that can be open at once if none contains itself: definitions of
\* units, one for each level of depth, and every prefix, function and table once.
Openings(d) ==
  ({"unit"} \X (1 .. MaxDepth)) \cup ({"prefix"} \X DOMAIN d.prefixes)
  \cup ({"function"} \X (DOMAIN d.functions \cup DOMAIN d.tables))

ASSUME HeightAssumption == Lower /\ \A r \in Requests : IsFiniteSet(Openings(Databases[r.db]))

ASSUME TextsAssumption ==
  /\ RadianText \in Tree /\ \A e \in Tree : IsTree(e)
  /\ \A n \in Names : Singulars(n) \in Seq(Names) /\ Splits(n) \in Seq([prefix : Names, rest : Names])

\* An exponent times a factor is stored as an exponent: RationalPower has what comes of
\* factors that are no integers.
ASSUME FactorsAssumption ==
  /\ \A f \in Factor : Negated(f) \in Factor
  /\ \A f, g \in Factor : ToThe(f, g) \in Factor
  /\ \A e \in Exponent, f \in Factor : WrappedProduct(e * f) \in Exponent
  /\ \A name \in DOMAIN RootFunction :
       RootFunction[name] \in Nat /\ \A f \in Factor : RootOf(f, RootFunction[name]) \in Factor
  /\ \A name \in Keeping \cup AngleIn \cup AngleOut \cup Scalar, f \in Factor : Computed(name, f) \in Factor

\* A name is that of one built-in function at most.
ASSUME BuiltinsAssumption ==
  LET kinds == <<DOMAIN RootFunction, Keeping, AngleIn, AngleOut, Scalar>> IN
  \A i, j \in 1 .. 5 : i # j => kinds[i] \cap kinds[j] = {}

VARIABLES
  request,
  control,    \* what is to be done next: evaluate a tree, check an argument, hand on a result
  stack,      \* the calls in progress
  vars, resolving, depth

state == <<vars, resolving, depth>>
all == <<request, control, stack, vars, resolving, depth>>

db == Databases[request.db]

-----------------------------------------------------------------------------
Evaluate(e) == [at |-> "expr", expr |-> e]
Ok(v) == [at |-> "ok", value |-> v]
ErrOf(code, name) == [at |-> "err", code |-> code, name |-> name]
Err(code) == ErrOf(code, None)

FromFactor(f) == [Unity EXCEPT !.factor = f]
IsZero(v) == IsDimensionless(v) /\ v.factor = Zero

\* A call in progress, with the state of the evaluator when it was made (history).
FrameAt(d, kind, data) ==
  [kind |-> kind, data |-> data, before |-> [vars |-> vars, resolving |-> resolving, depth |-> d]]
Frame(kind, data) == FrameAt(depth, kind, data)

Top == stack[Len(stack)]
Below == SubSeq(stack, 1, Len(stack) - 1)

Continue(s, c) == stack' = s /\ control' = c
Proceed(s, c) == Continue(s, c) /\ UNCHANGED state

\* The two sides of an operator.
Operate(op, v, w) ==
  CASE op \in {"*", "juxt"} -> Ok(Multiply(v, w))
    [] op = "/" -> Ok(Divide(v, w))
    [] op = "|" -> IF IsDimensionless(v) /\ IsDimensionless(w) THEN Ok(Divide(v, w)) ELSE Err("DimensionlessRequired")
    [] op \in {"+", "-"} ->
         IF ~SameDimensions(v, w) THEN Err("IncompatibleDimensions")
         ELSE Ok(Add(v, IF op = "+" THEN w ELSE [w EXCEPT !.factor = Negated(@)]))
    [] OTHER ->  \* "^"
         IF IsDimensionless(w) THEN Ok(Pow(v, w.factor)) ELSE Err("ExponentNotDimensionless")

-----------------------------------------------------------------------------
\* Variant: one level too many.
NestedDeeper(s, d, kind, data, e) ==
  IF d > MaxDepth THEN Continue(s, Err("TooDeep")) /\ depth' = d
  ELSE Continue(Append(s, FrameAt(d, kind, data)), Evaluate(e)) /\ depth' = d + 1

\* eval_nested, called at depth d; the frame says what is done with the result.
Nested(s, d, kind, data, e) ==
  IF d >= MaxDepth THEN Continue(s, Err("TooDeep")) /\ depth' = d
  ELSE Continue(Append(s, FrameAt(d, kind, data)), Evaluate(e)) /\ depth' = d + 1

\* Variant: neither the names being resolved nor the depth are looked at.
ResolveEntryUnguarded(n, s) ==
  LET entry == db.units[n] IN
  \/ entry.kind = "primitive" /\ Proceed(s, Ok(Primitive(n)))
  \/ entry.kind = "dimensionless" /\ Proceed(s, Ok(Unity))
  \/ /\ entry.kind = "derived"
     /\ Continue(Append(s, Frame("entry", [name |-> n])), Evaluate(entry.def))
     /\ resolving' = resolving \cup {n} /\ depth' = depth + 1
     /\ UNCHANGED vars

ResolveEntry(n, s) ==
  LET entry == db.units[n] IN
  \/ entry.kind = "primitive" /\ Proceed(s, Ok(Primitive(n)))
  \/ entry.kind = "dimensionless" /\ Proceed(s, Ok(Unity))
  \/ entry.kind = "derived" /\ n \in resolving /\ Proceed(s, ErrOf("CircularDefinition", n))
  \/ entry.kind = "derived" /\ n \notin resolving /\ depth >= MaxDepth /\ Proceed(s, ErrOf("MaxRecursion", n))
  \/ /\ entry.kind = "derived" /\ n \notin resolving /\ depth < MaxDepth
     /\ Continue(Append(s, Frame("entry", [name |-> n])), Evaluate(entry.def))
     /\ resolving' = resolving \cup {n} /\ depth' = depth + 1
     /\ UNCHANGED vars

\* A call of a function: its checks, then its body with the parameters bound.
Call(name, params, args, units, domain, body) ==
  [at |-> "call", name |-> name, params |-> params, args |-> args,
   units |-> units, domain |-> domain, body |-> body, checked |-> 0]

SkipChecks(call) == [call EXCEPT !.checked = Len(call.args)]

CallUserFunction(f, args, s) ==
  LET func == db.functions[f]
      call == Call(f, func.params, args, func.units, func.domain, func.forward)
  IN  CASE Len(args) # Len(func.params) -> Continue(s, Err("ArityMismatch"))
        [] Len(args) = Len(func.params) /\ args = <<>> ->
             Continue(Append(s, FrameAt(depth', "alias", [name |-> f])), Evaluate(func.forward))
        [] Len(args) = Len(func.params) /\ args # <<>> ->
             Continue(s, IF func.noerror THEN SkipChecks(call) ELSE call)

\* Variant: the checks of the forward direction.
InverseCallForward(f, v) ==
  LET func == db.functions[f] IN Call(f, <<f>>, <<v>>, func.units, func.domain, func.reverse)

\* The inverse is a function of one variable, named like the function itself.
InverseCall(f, v) ==
  LET func == db.functions[f] IN Call(f, <<f>>, <<v>>, <<func.inverse_unit>>, <<func.range>>, func.reverse)

CallInverse(f, v, s) ==
  Continue(s, CASE f \notin DOMAIN db.functions -> ErrOf("UnknownUnit", f)
                [] f \in DOMAIN db.functions ->
                     LET func == db.functions[f] IN
                     IF Len(func.params) # 1 THEN Err("InverseNotSupported")
                     ELSE IF func.reverse = None THEN ErrOf("NoInverse", f)
                     ELSE IF func.noerror THEN SkipChecks(InverseCall(f, v))
                     ELSE InverseCall(f, v))

\* A table answers with a text, the output for x and the unit of the table in one row;
\* readings has the trees of these texts.
CallTable(f, v, s) ==
  LET table == db.tables[f] IN
  IF ~IsDimensionless(v) THEN Continue(s, ErrOf("DimensionlessRequired", f))
  ELSE IF v.factor \notin DOMAIN table.readings THEN Continue(s, ErrOf("NotInDomain", f))
  ELSE Continue(Append(s, FrameAt(depth', "table", [name |-> f])), Evaluate(table.readings[v.factor]))

\* Built-in functions and tables (Builtins and Tables have what is computed); an
\* angle needs the unit radian, whose definition is evaluated on the way.
CallFunction(f, v, s) ==
  LET radian(kind) == Continue(Append(s, FrameAt(depth', kind, [name |-> f, value |-> v])),
                               Evaluate(RadianText))
      scalar == IF Accepts(f, v.factor) THEN Ok(FromFactor(Computed(f, v.factor))) ELSE ErrOf("Undefined", f)
  IN  CASE f \in DOMAIN RootFunction ->
             Continue(s, IF HasRoot(v, RootFunction[f]) THEN Ok(Root(v, RootFunction[f])) ELSE Err("NotDivisibleByRoot"))
        [] f \in Keeping -> Continue(s, Ok([v EXCEPT !.factor = Computed(f, @)]))
        [] f \in AngleIn ->
             IF IsDimensionless(v) THEN Continue(s, scalar) ELSE radian("anglein")
        [] f \in AngleOut \cup Scalar /\ ~IsDimensionless(v) -> Continue(s, ErrOf("DimensionlessRequired", f))
        [] f \in Scalar /\ IsDimensionless(v) -> Continue(s, scalar)
        [] f \in AngleOut /\ IsDimensionless(v) ->
             IF Accepts(f, v.factor) THEN radian("angleout") ELSE Continue(s, ErrOf("Undefined", f))
        [] f \notin DOMAIN RootFunction \cup Keeping \cup AngleIn \cup AngleOut \cup Scalar /\ f \in DOMAIN db.tables ->
             CallTable(f, v, s)
        [] OTHER -> Continue(s, ErrOf("UnknownUnit", f))

CallFunctionMulti(f, args, s) ==
  IF f \in DOMAIN db.functions THEN CallUserFunction(f, args, s)
  ELSE IF Len(args) # 1 THEN Continue(s, Err("ArityMismatch"))
  ELSE CallFunction(f, args[1], s)

-----------------------------------------------------------------------------
\* The actions that take a tree apart.
Evaluating(kind) == control.at = "expr" /\ control.expr.kind = kind

EvalGarbage == Evaluating("garbage") /\ Proceed(stack, Err("Grammar"))

EvalNumber ==
  /\ Evaluating("number")
  /\ Proceed(stack, IF control.expr.factor = None THEN Err("InvalidNumber") ELSE Ok(FromFactor(control.expr.factor)))

EvalUnary ==
  /\ Evaluating("unary")
  /\ Proceed(Append(stack, Frame("unary", control.expr.op)), Evaluate(control.expr.arg))

EvalBinary ==
  /\ Evaluating("binary")
  /\ Proceed(Append(stack, Frame("left", [op |-> control.expr.op, right |-> control.expr.right])),
             Evaluate(control.expr.left))

EvalGroup ==
  /\ Evaluating("group")
  /\ Nested(stack, depth, "group", None, control.expr.body)
  /\ UNCHANGED <<vars, resolving>>

EvalTilde ==
  /\ Evaluating("tilde")
  /\ Nested(stack, depth, "tilde", control.expr.name, control.expr.arg)
  /\ UNCHANGED <<vars, resolving>>

EvalCall ==
  /\ Evaluating("call")
  /\ LET e == control.expr IN
     IF e.args = <<>> THEN UNCHANGED depth /\ CallFunctionMulti(e.name, <<>>, stack)
     ELSE Nested(stack, depth, "args", [name |-> e.name, done |-> <<>>, rest |-> Tail(e.args)], Head(e.args))
  /\ UNCHANGED <<vars, resolving>>

\* resolve_name: a variable, a unit, the singular of a unit, a prefix alone, a
\* prefix and a unit, the first of these that there is.
Earliest(indices) == CHOOSE i \in indices : \A j \in indices : i <= j

Forms(n) == <<n>> \o Singulars(n)
KnownForms(d, n) == {i \in DOMAIN Forms(n) : Forms(n)[i] \in DOMAIN d.units}
FirstForm(d, n) == Forms(n)[Earliest(KnownForms(d, n))]

KnownSplits(d, n) ==
  {i \in DOMAIN Splits(n) : Splits(n)[i].prefix \in DOMAIN d.prefixes /\ Splits(n)[i].rest \in DOMAIN d.units}
FirstSplit(d, n) == Splits(n)[Earliest(KnownSplits(d, n))]

EvalVariable ==
  /\ Evaluating("name") /\ vars[control.expr.name] # None
  /\ Proceed(stack, Ok(vars[control.expr.name]))

IsNoVariable == Evaluating("name") /\ vars[control.expr.name] = None

EvalUnit ==
  /\ IsNoVariable /\ KnownForms(db, control.expr.name) # {}
  /\ ResolveEntry(FirstForm(db, control.expr.name), stack)

IsNoUnit == IsNoVariable /\ KnownForms(db, control.expr.name) = {}

EvalPrefixAlone ==
  LET n == control.expr.name IN
  /\ IsNoUnit /\ n \in DOMAIN db.prefixes
  /\ Proceed(Append(stack, Frame("prefix", [name |-> n])), Evaluate(db.prefixes[n]))

EvalPrefixed ==
  /\ IsNoUnit /\ control.expr.name \notin DOMAIN db.prefixes
  /\ KnownSplits(db, control.expr.name) # {}
  /\ LET s == FirstSplit(db, control.expr.name) IN
     Proceed(Append(stack, Frame("prefixed", [name |-> s.prefix, unit |-> s.rest])), Evaluate(db.prefixes[s.prefix]))

EvalUnknown ==
  /\ IsNoUnit /\ control.expr.name \notin DOMAIN db.prefixes
  /\ KnownSplits(db, control.expr.name) = {}
  /\ Proceed(stack, ErrOf("UnknownUnit", control.expr.name))

-----------------------------------------------------------------------------
\* Calls of functions with variables: validate_func_arg one argument at a time, then the body.
Item(seq, i) == IF i \in DOMAIN seq THEN seq[i] ELSE None

InDomain(call, i, value) == Item(call.domain, i) = None \/ value \in Item(call.domain, i)

CheckNext(s, call, value) ==
  LET i == call.checked + 1 IN
  Proceed(s, IF InDomain(call, i, value) THEN [call EXCEPT !.checked = i] ELSE ErrOf("NotInDomain", call.name))

CheckArgument ==
  /\ control.at = "call" /\ control.checked < Len(control.args)
  /\ LET i == control.checked + 1 IN
     IF Item(control.units, i) = None THEN CheckNext(stack, control, control.args[i].factor)
     ELSE Proceed(Append(stack, Frame("check", control)), Evaluate(control.units[i]))

\* Parameters are bound in order: of two with one name the later one counts, and what
\* the earlier one bound is what the later one found.
Uses(params, n) == {i \in DOMAIN params : params[i] = n}
LastUse(params, n) == CHOOSE i \in Uses(params, n) : \A j \in Uses(params, n) : j <= i
Bound(vs, params, args) == [n \in Names |-> IF Uses(params, n) = {} THEN vs[n] ELSE args[LastUse(params, n)]]
Replaced(vs, params, args) ==
  [i \in DOMAIN params |->
     LET earlier == {j \in Uses(params, params[i]) : j < i} IN
     IF earlier = {} THEN vs[params[i]] ELSE args[CHOOSE j \in earlier : \A k \in earlier : k <= j]]

BindAndEnter ==
  /\ control.at = "call" /\ control.checked = Len(control.args)
  /\ Continue(Append(stack, Frame("body", [name |-> control.name, params |-> control.params, args |-> control.args,
                                           old |-> Replaced(vars, control.params, control.args)])),
              Evaluate(control.body))
  /\ vars' = Bound(vars, control.params, control.args)
  /\ UNCHANGED <<resolving, depth>>

-----------------------------------------------------------------------------
\* The actions that hand a result, a value or an error, to the call below.
Succeeds(kind) == control.at = "ok" /\ stack # <<>> /\ Top.kind = kind
Returns(kind) == control.at \in {"ok", "err"} /\ stack # <<>> /\ Top.kind = kind

AfterUnary ==
  /\ Succeeds("unary")
  /\ Proceed(Below, Ok(IF Top.data = "per" THEN Invert(control.value)
                       ELSE [control.value EXCEPT !.factor = Negated(@)]))

AfterLeft ==
  /\ Succeeds("left")
  /\ Proceed(Append(Below, Frame("right", [op |-> Top.data.op, left |-> control.value])), Evaluate(Top.data.right))

AfterRight ==
  /\ Succeeds("right")
  /\ Proceed(Below, Operate(Top.data.op, Top.data.left, control.value))

\* Nothing times an unknown unit is nothing, unless the name is that of a function.
Swallows(frame) ==
  /\ frame.kind = "right" /\ frame.data.op = "juxt" /\ IsZero(frame.data.left)
  /\ control.code = "UnknownUnit"
  /\ control.name \notin DOMAIN db.functions \cup DOMAIN db.tables

SwallowUnknownUnit ==
  /\ control.at = "err" /\ stack # <<>> /\ Swallows(Top)
  /\ Proceed(Below, Ok(Top.data.left))

AfterGroup ==
  /\ Returns("group")
  /\ Continue(Below, control) /\ depth' = depth - 1 /\ UNCHANGED <<vars, resolving>>

AfterTilde ==
  /\ Returns("tilde")
  /\ depth' = depth - 1 /\ UNCHANGED <<vars, resolving>>
  /\ IF control.at = "err" THEN Continue(Below, control) ELSE CallInverse(Top.data, control.value, Below)

AfterArgument ==
  /\ Returns("args")
  /\ LET name == Top.data.name  rest == Top.data.rest  done == Append(Top.data.done, control.value) IN
     IF control.at = "err" THEN Continue(Below, control) /\ depth' = depth - 1
     ELSE IF rest = <<>> THEN depth' = depth - 1 /\ CallFunctionMulti(name, done, Below)
     ELSE Nested(Below, depth - 1, "args", [name |-> name, done |-> done, rest |-> Tail(rest)], Head(rest))
  /\ UNCHANGED <<vars, resolving>>

\* Variant: an error leaves the name among those being resolved.
AfterEntryOk ==
  /\ Returns("entry")
  /\ Continue(Below, control) /\ depth' = depth - 1
  /\ resolving' = IF control.at = "ok" THEN resolving \ {Top.data.name} ELSE resolving
  /\ UNCHANGED vars

AfterEntry ==
  /\ Returns("entry")
  /\ Continue(Below, control) /\ depth' = depth - 1 /\ resolving' = resolving \ {Top.data.name}
  /\ UNCHANGED vars

AfterPrefix ==
  /\ Succeeds("prefixed")
  /\ ResolveEntry(Top.data.unit, Append(Below, Frame("times", control.value)))

AfterPrefixed ==
  /\ Succeeds("times")
  /\ Proceed(Below, Ok(Multiply(control.value, Top.data)))

AfterCheck ==
  /\ Succeeds("check")
  /\ LET call == Top.data  arg == call.args[call.checked + 1] IN
     IF AreConformable(arg, control.value)
     THEN CheckNext(Below, call, Over(arg.factor, control.value.factor))
     ELSE Proceed(Below, ErrOf("WrongDimensions", call.name))

\* Parameters are restored in the order in which they were bound.
AfterBody ==
  /\ Returns("body")
  /\ Continue(Below, control)
  /\ vars' = Bound(vars, Top.data.params, Top.data.old)
  /\ UNCHANGED <<resolving, depth>>

\* Without a radian the angle is taken as it is.
AfterRadian ==
  /\ Returns("anglein") \/ Returns("angleout")
  /\ LET radian == IF control.at = "ok" THEN control.value ELSE Unity
         f == Top.data.name
         angle == Divide(Top.data.value, radian)
     IN  Proceed(Below,
           IF Top.kind = "angleout" THEN Ok([radian EXCEPT !.factor = Times(@, Computed(f, Top.data.value.factor))])
           ELSE IF ~IsDimensionless(angle) THEN ErrOf("DimensionlessRequired", f)
           ELSE IF Accepts(f, angle.factor) THEN Ok(FromFactor(Computed(f, angle.factor)))
           ELSE ErrOf("Undefined", f))

\* The other calls hand on: some a value, most an error.
HandOn ==
  /\ control.at \in {"ok", "err"} /\ stack # <<>>
  /\ \/ Top.kind \in {"prefix", "alias", "table"}
     \/ control.at = "err" /\ Top.kind \in {"unary", "left", "right", "prefixed", "times", "check"} /\ ~Swallows(Top)
  /\ Proceed(Below, control)

\* The native stack is exhausted: the process is aborted.  Frames are counted generously: in
\* the code a row of operands is a loop, here each operand on the left takes a frame.
Abort == Len(stack) > StackLimit /\ control.at # "aborted" /\ Proceed(stack, [at |-> "aborted"])

Finished == control.at = "aborted" \/ (control.at \in {"ok", "err"} /\ stack = <<>>)
-----------------------------------------------------------------------------
Init ==
  /\ request \in Requests
  /\ control = Evaluate(request.expr)
  /\ stack = <<>>
  /\ vars = request.vars /\ resolving = {} /\ depth = 0

Decompose == EvalGarbage \/ EvalNumber \/ EvalUnary \/ EvalBinary \/ EvalGroup \/ EvalTilde \/ EvalCall
Resolve == EvalVariable \/ EvalUnit \/ EvalPrefixAlone \/ EvalPrefixed \/ EvalUnknown
Apply == CheckArgument \/ BindAndEnter
Return == AfterUnary \/ AfterLeft \/ AfterRight \/ SwallowUnknownUnit \/ AfterGroup \/ AfterTilde
          \/ AfterArgument \/ AfterEntry \/ AfterPrefix \/ AfterPrefixed \/ AfterCheck \/ AfterBody
          \/ AfterRadian \/ HandOn

Step == /\ UNCHANGED request
        /\ \/ Len(stack) <= StackLimit /\ (Decompose \/ Resolve \/ Apply \/ Return)
           \/ Abort
Done == Finished /\ UNCHANGED all

Next == Step \/ Done
Spec == Init /\ [][Next]_all
FairSpec == Spec /\ WF_all(Step)

-----------------------------------------------------------------------------
\* The state of the evaluator while a call is in progress, from the one before it.
During(frame) ==
  CASE frame.kind \in {"group", "args", "tilde"} -> [frame.before EXCEPT !.depth = @ + 1]
    [] frame.kind = "entry" ->
         [frame.before EXCEPT !.depth = @ + 1, !.resolving = @ \cup {frame.data.name}]
    [] frame.kind = "body" -> [frame.before EXCEPT !.vars = Bound(@, frame.data.params, frame.data.args)]
    [] OTHER -> frame.before

Here == [vars |-> vars, resolving |-> resolving, depth |-> depth]

IsUnitValue(v) == v.factor \in Factor /\ DOMAIN v.dims \subseteq Base /\ \A b \in DOMAIN v.dims : v.dims[b] \in Exponent

TypeOK ==
  /\ control.at \in {"expr", "call", "ok", "err", "aborted"}
  /\ control.at = "ok" => IsUnitValue(control.value)
  /\ DOMAIN vars = Names /\ \A n \in Names : vars[n] # None => IsUnitValue(vars[n])
  /\ resolving \subseteq Names /\ depth \in 0 .. MaxDepth
  /\ \A i \in 1 .. Len(stack) : stack[i].before.depth \in 0 .. MaxDepth

\* Whatever came to pass in a call, values, errors handed on and errors swallowed,
\* depth, resolving and vars are again as they were when it was made (eval_nested,
\* resolve_entry, call_user_function and call_inverse_function undo what they did).
StateFollowsCalls ==
  /\ \A i \in 2 .. Len(stack) : stack[i].before = During(stack[i - 1])
  /\ stack # <<>> => /\ stack[1].before = [vars |-> request.vars, resolving |-> {}, depth |-> 0]
                     /\ Here = During(Top)
  /\ stack = <<>> => Here = [vars |-> request.vars, resolving |-> {}, depth |-> 0]

\* The texts that are being evaluated, each by sort and name; those of a function or of a
\* table (its body, the units of its arguments, the unit of a table) are one.
TextKinds == {"entry", "prefix", "prefixed", "alias", "body", "check", "table"}
TextOf(frame) ==
  <<CASE frame.kind = "entry" -> "unit" [] frame.kind \in {"prefix", "prefixed"} -> "prefix" [] OTHER -> "function",
    frame.data.name>>
Texts == [i \in {i \in 1 .. Len(stack) : stack[i].kind \in TextKinds} |-> TextOf(stack[i])]

\* A prefix is defined by itself, or the texts of a function or of a table call it: such
\* texts have no depth and no name in resolving.
ContainsItself ==
  \E i, j \in DOMAIN Texts : i # j /\ Texts[i] = Texts[j] /\ stack[i].kind # "entry"

\* A text so high that the native stack may not hold as many of this height as can be open.
TooTall(e) == StackLimit < (Height[e] + 2) * (Cardinality(Openings(db)) + 1)

\* Every evaluation comes to an end with a value or an error, or it exhausts the native stack.
\* MAX_DEPTH and the set of names being resolved spare the stack from units that are defined
\* by each other, however they are nested, but not from everything: it is exhausted by a
\* prefix, a function or a table that contains itself, and it may be by a text that is too
\* high for it, since a row of signs ("- - - m", "per per m") goes one call deeper with every
\* sign and no depth is checked (eval_unary).  The parser, which takes a text apart before
\* any depth is checked, is not in the model; its calls are nested as high as the text too.
OnlyCyclesAbort ==
  control.at = "aborted" => ContainsItself \/ \E e \in {request.expr} \cup TextsIn(db) : TooTall(e)
Ends == <>(Finished /\ OnlyCyclesAbort)

\* parser.rs:126: "Unit names currently being resolved (cycle detection)": no text is
\* evaluated inside itself.
CyclesAreDetected == \A i, j \in DOMAIN Texts : Texts[i] = Texts[j] => i = j
=============================================================================
