-------------------------- MODULE EvaluatorMeaning ---------------------------
(***************************************************************************)
(* What an expression means, without a state and without calls in          *)
(* progress: the place where a text stands (variables, names being         *)
(* resolved, depth) is passed down, so that nothing is undone.  A meaning  *)
(* has so many frames of the native stack to itself; it is that of the     *)
(* parts with one frame fewer, and without a frame it is "aborted".        *)
(***************************************************************************)
EXTENDS Evaluator

Place == [vars : [Names -> UnitValue \cup {None}], resolving : SUBSET Names, depth : 0 .. MaxDepth]

Aborted == [at |-> "aborted"]
Fails(r) == r.at # "ok"

\* The first failure among some results, if there is one, and the values, if there is none.
Failures(results) == {i \in DOMAIN results : Fails(results[i])}
FirstFailure(results) == results[Earliest(Failures(results))]
ValuesOf(results) == [i \in DOMAIN results |-> results[i].value]

\* In what follows below[e][h] is what e means at the place h with one frame fewer.
Deeper(below, e, h) == IF h.depth >= MaxDepth THEN Err("TooDeep") ELSE below[e][[h EXCEPT !.depth = @ + 1]]

-----------------------------------------------------------------------------
UnitMeans(d, below, n, h) ==
  LET entry == d.units[n] IN
  CASE entry.kind = "primitive" -> Ok(Primitive(n))
    [] entry.kind = "dimensionless" -> Ok(Unity)
    [] entry.kind = "derived" /\ n \in h.resolving -> ErrOf("CircularDefinition", n)
    [] entry.kind = "derived" /\ n \notin h.resolving /\ h.depth >= MaxDepth -> ErrOf("MaxRecursion", n)
    [] OTHER -> below[entry.def][[vars |-> h.vars, resolving |-> h.resolving \cup {n}, depth |-> h.depth + 1]]

PrefixedMeans(prefix, unit) ==
  IF Fails(prefix) THEN prefix ELSE IF Fails(unit) THEN unit ELSE Ok(Multiply(unit.value, prefix.value))

\* The unit behind a prefix has two frames fewer.
NameMeans(d, below, lower, n, h) ==
  LET s == FirstSplit(d, n) IN
  IF h.vars[n] # None THEN Ok(h.vars[n])
  ELSE IF KnownForms(d, n) # {} THEN UnitMeans(d, below, FirstForm(d, n), h)
  ELSE IF n \in DOMAIN d.prefixes THEN below[d.prefixes[n]][h]
  ELSE IF KnownSplits(d, n) = {} THEN ErrOf("UnknownUnit", n)
  ELSE PrefixedMeans(below[d.prefixes[s.prefix]][h], UnitMeans(d, lower, s.rest, h))

UnaryMeans(op, r) ==
  IF Fails(r) THEN r ELSE Ok(IF op = "per" THEN Invert(r.value) ELSE [r.value EXCEPT !.factor = Negated(@)])

\* Nothing times an unknown unit is nothing, unless the name is that of a function.
RightMeans(d, op, v, r) ==
  IF /\ r.at = "err" /\ op = "juxt" /\ IsZero(v) /\ r.code = "UnknownUnit"
     /\ r.name \notin DOMAIN d.functions \cup DOMAIN d.tables
  THEN Ok(v) ELSE IF Fails(r) THEN r ELSE Operate(op, v, r.value)

LeftMeans(d, op, r, right) == IF Fails(r) THEN r ELSE RightMeans(d, op, r.value, right)

-----------------------------------------------------------------------------
CheckMeans(below, call, i, h) ==
  LET unit == below[call.units[i]][h]
      arg == call.args[i]
      within(x) == IF InDomain(call, i, x) THEN Ok(Unity) ELSE ErrOf("NotInDomain", call.name)
  IN  IF Item(call.units, i) = None THEN within(arg.factor)
      ELSE IF Fails(unit) THEN unit
      ELSE IF AreConformable(arg, unit.value) THEN within(Over(arg.factor, unit.value.factor))
      ELSE ErrOf("WrongDimensions", call.name)

CallMeans(below, call, h) ==
  LET checks == [i \in call.checked + 1 .. Len(call.args) |-> CheckMeans(below, call, i, h)] IN
  IF Failures(checks) # {} THEN FirstFailure(checks)
  ELSE below[call.body][[h EXCEPT !.vars = Bound(@, call.params, call.args)]]

UserMeans(below, f, func, args, h) ==
  LET call == Call(f, func.params, args, func.units, func.domain, func.forward) IN
  IF Len(args) # Len(func.params) THEN Err("ArityMismatch")
  ELSE IF args = <<>> THEN below[func.forward][h]
  ELSE CallMeans(below, IF func.noerror THEN SkipChecks(call) ELSE call, h)

InverseMeans(d, below, f, v, h) ==
  LET func == d.functions[f]
      call == Call(f, <<f>>, <<v>>, <<func.inverse_unit>>, <<func.range>>, func.reverse)
  IN  IF f \notin DOMAIN d.functions THEN ErrOf("UnknownUnit", f)
      ELSE IF Len(func.params) # 1 THEN Err("InverseNotSupported")
      ELSE IF func.reverse = None THEN ErrOf("NoInverse", f)
      ELSE CallMeans(below, IF func.noerror THEN SkipChecks(call) ELSE call, h)

Scaled(f, x) == IF Accepts(f, x) THEN Ok(FromFactor(Computed(f, x))) ELSE ErrOf("Undefined", f)

\* Without a radian the angle is taken as it is.
AngleMeans(goesIn, f, v, r) ==
  LET radian == IF Fails(r) THEN Unity ELSE r.value  angle == Divide(v, radian) IN
  IF r.at = "aborted" THEN r
  ELSE IF ~goesIn THEN Ok([radian EXCEPT !.factor = Times(@, Computed(f, v.factor))])
  ELSE IF IsDimensionless(angle) THEN Scaled(f, angle.factor) ELSE ErrOf("DimensionlessRequired", f)

BuiltinMeans(d, below, f, v, h) ==
  LET angle(goesIn) == AngleMeans(goesIn, f, v, below[RadianText][h]) IN
  IF f \in DOMAIN RootFunction
  THEN IF HasRoot(v, RootFunction[f]) THEN Ok(Root(v, RootFunction[f])) ELSE Err("NotDivisibleByRoot")
  ELSE IF f \in Keeping THEN Ok([v EXCEPT !.factor = Computed(f, @)])
  ELSE IF f \notin AngleIn \cup AngleOut \cup Scalar \cup DOMAIN d.tables THEN ErrOf("UnknownUnit", f)
  ELSE IF f \in AngleIn /\ ~IsDimensionless(v) THEN angle(TRUE)
  ELSE IF ~IsDimensionless(v) THEN ErrOf("DimensionlessRequired", f)
  ELSE IF f \in AngleIn \cup Scalar \/ (f \in AngleOut /\ ~Accepts(f, v.factor)) THEN Scaled(f, v.factor)
  ELSE IF f \in AngleOut THEN angle(FALSE)
  ELSE IF v.factor \notin DOMAIN d.tables[f].readings THEN ErrOf("NotInDomain", f)
  ELSE below[d.tables[f].readings[v.factor]][h]

FunctionMeans(d, below, f, args, h) ==
  IF f \in DOMAIN d.functions THEN UserMeans(below, f, d.functions[f], args, h)
  ELSE IF Len(args) # 1 THEN Err("ArityMismatch")
  ELSE BuiltinMeans(d, below, f, args[1], h)

\* The arguments done and those to come, which are texts.
ArgumentsMean(d, below, f, done, rest, h) ==
  LET results == [i \in DOMAIN rest |-> Deeper(below, rest[i], h)] IN
  IF Failures(results) # {} THEN FirstFailure(results)
  ELSE FunctionMeans(d, below, f, done \o ValuesOf(results), h)

TildeMeans(d, below, f, r, h) == IF Fails(r) THEN r ELSE InverseMeans(d, below, f, r.value, h)

-----------------------------------------------------------------------------
TextMeans(d, below, lower, e, h) ==
  CASE e.kind = "garbage" -> Err("Grammar")
    [] e.kind = "number" -> IF e.factor = None THEN Err("InvalidNumber") ELSE Ok(FromFactor(e.factor))
    [] e.kind = "name" -> NameMeans(d, below, lower, e.name, h)
    [] e.kind = "unary" -> UnaryMeans(e.op, below[e.arg][h])
    [] e.kind = "binary" -> LeftMeans(d, e.op, below[e.left][h], below[e.right][h])
    [] e.kind = "group" -> Deeper(below, e.body, h)
    [] e.kind = "tilde" -> TildeMeans(d, below, e.name, Deeper(below, e.arg, h), h)
    [] e.kind = "call" -> ArgumentsMean(d, below, e.name, <<>>, e.args, h)

\* Meaning(d)[n][e][h]: what e means at h in the database d with n frames of stack.
WithFrames(d, n, below, lower) ==
  [e \in Tree |-> [h \in Place |-> IF n <= 0 THEN Aborted ELSE TextMeans(d, below, lower, e, h)]]
Meaning(d) == LET m[n \in Int] == WithFrames(d, n, m[n - 1], m[n - 2]) IN m

\* The answer is what the expression means: bindings, detected cycles and depths are
\* those of the place where a name stands, however the evaluator came to it, and the
\* process is aborted exactly if the meaning takes more stack than there is.
AnswersAsScoped ==
  LET place == [vars |-> request.vars, resolving |-> {}, depth |-> 0] IN
  Finished => control = Meaning(db)[StackLimit + 1][request.expr][place]
=============================================================================
