--------------------------- MODULE EvaluatorProofs ---------------------------
(***************************************************************************)
(* The evaluator leaves its variables, the names being resolved and the    *)
(* depth as it found them, for every database, text and limit, whatever    *)
(* fails on the way, if no function has two parameters of one name; what   *)
(* it waits with stays typed; its answer is the meaning of its text; and   *)
(* the stack is bounded unless a text contains itself.                     *)
(***************************************************************************)
EXTENDS EvaluatorMeaning, NaturalOrder, SequenceTheorems, TLAPS

-----------------------------------------------------------------------------
Distinct(params) == DOMAIN params \subseteq Int /\ \A i, j \in DOMAIN params : params[i] = params[j] => i = j

\* No function that a request can reach has two parameters of one name.
DistinctParameters ==
  \A r \in Requests : \A f \in DOMAIN Databases[r.db].functions : Distinct(Databases[r.db].functions[f].params)

\* A state of the evaluator: vars, resolving and depth.
IsState(h) ==
  /\ h = [vars |-> h.vars, resolving |-> h.resolving, depth |-> h.depth]
  /\ h.depth \in Nat /\ h.vars = [n \in Names |-> h.vars[n]]

IsCall(c) ==
  /\ c = [at |-> "call", name |-> c.name, params |-> c.params, args |-> c.args,
          units |-> c.units, domain |-> c.domain, body |-> c.body, checked |-> c.checked]
  /\ Distinct(c.params)

\* What a frame needs to undo what was done when it was made.
FrameOK(frame) ==
  /\ frame.kind = "entry" => frame.data.name \notin frame.before.resolving
  /\ frame.kind = "check" => IsCall(frame.data)
  /\ frame.kind = "body" => /\ Distinct(frame.data.params)
                            /\ frame.data.old = Replaced(frame.before.vars, frame.data.params, frame.data.args)

\* The calls in progress of an evaluation that began in the state b and is now in h.
Valid(b, s, h) ==
  /\ \E S : s \in Seq(S)
  /\ \A i \in 1 .. Len(s) : FrameOK(s[i]) /\ IsState(s[i].before) /\ s[i].before = (IF i = 1 THEN b ELSE During(s[i - 1]))
  /\ h = IF s = <<>> THEN b ELSE During(s[Len(s)])
  /\ IsState(h)

First == [vars |-> request.vars, resolving |-> {}, depth |-> 0]

Kept ==
  /\ control.at = "call" => IsCall(control)
  /\ Valid(First, stack, Here)

IInv == request \in Requests /\ Kept

-----------------------------------------------------------------------------
(* A name of a parameter has a last parameter of that name.                   *)
LEMMA LastUseIs ==
  ASSUME NEW params, Distinct(params), NEW n, Uses(params, n) # {}
  PROVE  LastUse(params, n) \in DOMAIN params /\ params[LastUse(params, n)] = n
<1>1. PICK i \in DOMAIN params : params[i] = n
  BY DEF Uses
<1>2. Uses(params, n) = {i} /\ i \in Int
  BY <1>1 DEF Distinct, Uses
<1>3. \E k \in Uses(params, n) : \A j \in Uses(params, n) : j <= k
  BY <1>2
<1>4. LastUse(params, n) \in Uses(params, n)
  BY <1>3 DEF LastUse
<1>. QED
  BY <1>4 DEF Uses

(* Binding what was replaced undoes binding the arguments.                    *)
LEMMA RestoredVars ==
  ASSUME NEW vs, vs = [n \in Names |-> vs[n]], NEW params, Distinct(params), NEW args
  PROVE  Bound(Bound(vs, params, args), params, Replaced(vs, params, args)) = vs
<1> DEFINE during == Bound(vs, params, args)
           old == Replaced(vs, params, args)
<1>1. ASSUME NEW n \in Names, Uses(params, n) # {}
      PROVE  LastUse(params, n) \in DOMAIN params /\ params[LastUse(params, n)] = n
  BY <1>1, LastUseIs
<1>2. ASSUME NEW i \in DOMAIN params
      PROVE  old[i] = vs[params[i]]
  <2>1. {j \in Uses(params, params[i]) : j < i} = {}
    BY DEF Distinct, Uses
  <2>. QED
    BY <2>1 DEF Replaced
<1>3. ASSUME NEW n \in Names
      PROVE  Bound(during, params, old)[n] = vs[n]
  <2>1. CASE Uses(params, n) = {}
    BY <2>1 DEF Bound
  <2>2. CASE Uses(params, n) # {}
    BY <1>1, <1>2, <2>2 DEF Bound
  <2>. QED
    BY <2>1, <2>2
<1>4. Bound(during, params, old) = [n \in Names |-> Bound(during, params, old)[n]]
  BY DEF Bound
<1>. QED
  BY <1>3, <1>4

(* A call that is made leaves the evaluator in a state.                       *)
LEMMA DuringIsState ==
  ASSUME NEW frame, IsState(frame.before)
  PROVE  IsState(During(frame))
<1>1. \A d \in Nat : d + 1 \in Nat
  OBVIOUS
<1>2. \A vs, params, args : Bound(vs, params, args) = [n \in Names |-> Bound(vs, params, args)[n]]
  BY DEF Bound
<1>3. CASE frame.kind \in {"group", "args", "tilde"}
  BY <1>1, <1>3 DEF During, IsState
<1>4. CASE frame.kind = "entry"
  BY <1>1, <1>4 DEF During, IsState
<1>5. CASE frame.kind = "body"
  <2> DEFINE vs == Bound(frame.before.vars, frame.data.params, frame.data.args)
  <2>1. During(frame) = [frame.before EXCEPT !.vars = vs] /\ vs = [n \in Names |-> vs[n]]
    BY <1>2, <1>5 DEF During
  <2> HIDE DEF vs
  <2>. QED
    BY <2>1 DEF IsState
<1>6. CASE frame.kind \notin {"group", "args", "tilde", "entry", "body"}
  BY <1>6 DEF During
<1>. QED
  BY <1>3, <1>4, <1>5, <1>6

Plainly == {"unary", "left", "right", "prefix", "prefixed", "times", "alias", "table", "check", "anglein", "angleout"}

(* What each kind of call did is undone by what is done when it returns.      *)
LEMMA Undone ==
  ASSUME NEW frame, IsState(frame.before), FrameOK(frame), NEW h, h = During(frame)
  PROVE  /\ frame.kind \in Plainly => h = frame.before
         /\ frame.kind \in {"group", "args", "tilde"} =>
              frame.before = [vars |-> h.vars, resolving |-> h.resolving, depth |-> h.depth - 1]
         /\ frame.kind = "entry" =>
              frame.before = [vars |-> h.vars, resolving |-> h.resolving \ {frame.data.name}, depth |-> h.depth - 1]
         /\ frame.kind = "body" =>
              frame.before = [vars |-> Bound(h.vars, frame.data.params, frame.data.old),
                              resolving |-> h.resolving, depth |-> h.depth]
<1>1. frame.kind \in Plainly => h = frame.before
  BY DEF During, Plainly
<1>2. \A d \in Nat : d + 1 - 1 = d
  OBVIOUS
<1>3. frame.kind \in {"group", "args", "tilde"} =>
        frame.before = [vars |-> h.vars, resolving |-> h.resolving, depth |-> h.depth - 1]
  BY <1>2 DEF During, IsState
<1>4. frame.kind = "entry" =>
        frame.before = [vars |-> h.vars, resolving |-> h.resolving \ {frame.data.name}, depth |-> h.depth - 1]
  <2>1. \A R, x : x \notin R => (R \cup {x}) \ {x} = R
    OBVIOUS
  <2> SUFFICES ASSUME frame.kind = "entry"
               PROVE  frame.before = [vars |-> h.vars, resolving |-> h.resolving \ {frame.data.name}, depth |-> h.depth - 1]
    OBVIOUS
  <2> DEFINE name == frame.data.name
  <2>2. /\ h.resolving = frame.before.resolving \cup {name} /\ h.vars = frame.before.vars
        /\ h.depth = frame.before.depth + 1
    BY DEF During, IsState
  <2>3. h.resolving \ {name} = frame.before.resolving /\ h.depth - 1 = frame.before.depth
    BY <1>2, <2>1, <2>2 DEF FrameOK, IsState
  <2>. QED
    BY <2>2, <2>3 DEF IsState
<1>5. ASSUME frame.kind = "body"
      PROVE  frame.before = [vars |-> Bound(h.vars, frame.data.params, frame.data.old),
                             resolving |-> h.resolving, depth |-> h.depth]
  <2> DEFINE vs == frame.before.vars
  <2>1. vs = [n \in Names |-> vs[n]] /\ Distinct(frame.data.params)
        /\ frame.data.old = Replaced(vs, frame.data.params, frame.data.args)
    BY <1>5 DEF IsState, FrameOK
  <2>2. h = [frame.before EXCEPT !.vars = Bound(vs, frame.data.params, frame.data.args)]
    BY <1>5 DEF During
  <2>3. h.vars = Bound(vs, frame.data.params, frame.data.args) /\ h.resolving = frame.before.resolving
        /\ h.depth = frame.before.depth
    BY <2>2 DEF IsState
  <2>4. Bound(h.vars, frame.data.params, frame.data.old) = vs
    BY <2>1, <2>3, RestoredVars
  <2>. QED
    BY <2>3, <2>4 DEF IsState
<1>. QED
  BY <1>1, <1>3, <1>4, <1>5

-----------------------------------------------------------------------------
(* A call made in the state h goes on top.                                    *)
LEMMA Pushed ==
  ASSUME NEW b, NEW s, NEW h, Valid(b, s, h), NEW frame, FrameOK(frame), frame.before = h
  PROVE  Valid(b, Append(s, frame), During(frame))
<1>1. PICK R : s \in Seq(R)
  BY DEF Valid
<1> DEFINE S == R \cup {frame}
           t == Append(s, frame)
<1>2. s \in Seq(S) /\ frame \in S
  BY <1>1
<1>3. /\ t \in Seq(S) /\ t # <<>> /\ Len(t) = Len(s) + 1 /\ Len(s) \in Nat
      /\ \A i \in 1 .. Len(s) : t[i] = s[i]
      /\ t[Len(s) + 1] = frame
  BY <1>2, AppendProperties, LenProperties
<1>4. IsState(During(frame)) /\ IsState(frame.before)
  BY DuringIsState DEF Valid
<1> HIDE DEF t, S
<1>5. ASSUME NEW i \in 1 .. Len(t)
      PROVE  FrameOK(t[i]) /\ IsState(t[i].before) /\ t[i].before = (IF i = 1 THEN b ELSE During(t[i - 1]))
  <2>1. CASE i \in 1 .. Len(s)
    <3>1. t[i] = s[i] /\ (i # 1 => t[i - 1] = s[i - 1])
      BY <1>3, <2>1
    <3>. QED
      BY <2>1, <3>1 DEF Valid
  <2>2. CASE i = Len(s) + 1
    <3>1. t[i] = frame
      BY <1>3, <2>2
    <3>2. CASE Len(s) = 0
      <4>1. s = <<>> /\ i = 1
        BY <1>1, <1>3, <2>2, <3>2, EmptySeq
      <4>. QED
        BY <1>4, <3>1, <4>1 DEF Valid
    <3>3. CASE Len(s) # 0
      <4>1. s # <<>> /\ i # 1 /\ i - 1 = Len(s) /\ t[Len(s)] = s[Len(s)]
        BY <1>1, <1>3, <2>2, <3>3, EmptySeq
      <4>. QED
        BY <1>4, <3>1, <4>1 DEF Valid
    <3>. QED
      BY <3>2, <3>3
  <2>. QED
    BY <1>3, <2>1, <2>2
<1>6. During(frame) = IF t = <<>> THEN b ELSE During(t[Len(t)])
  BY <1>3
<1>7. \E T : t \in Seq(T)
  BY <1>3
<1>8. Valid(b, t, During(frame))
  BY <1>4, <1>5, <1>6, <1>7 DEF Valid
<1>. QED
  BY <1>8 DEF t

(* A call that returns leaves the calls below it, and the state it was made in. *)
LEMMA Popped ==
  ASSUME NEW b, NEW s, NEW h, Valid(b, s, h), s # <<>>
  PROVE  /\ Valid(b, SubSeq(s, 1, Len(s) - 1), s[Len(s)].before)
         /\ h = During(s[Len(s)]) /\ FrameOK(s[Len(s)]) /\ IsState(s[Len(s)].before)
<1>1. PICK S : s \in Seq(S)
  BY DEF Valid
<1> DEFINE n == Len(s)
           t == SubSeq(s, 1, n - 1)
<1>2. n \in Nat /\ n >= 1
  BY <1>1, EmptySeq, LenProperties
<1>3. /\ t \in Seq(S) /\ Len(t) = n - 1
      /\ \A i \in 1 .. n - 1 : t[i] = s[i]
  <2>1. \A i \in 1 .. n - 1 : s[i] \in S
    BY <1>1, <1>2, ElementOfSeq
  <2>2. 1 \in Int /\ n - 1 \in Int
    BY <1>2
  <2>3. /\ t \in Seq(S) /\ Len(t) = IF 1 <= n - 1 THEN n - 1 - 1 + 1 ELSE 0
        /\ \A i \in 1 .. n - 1 - 1 + 1 : t[i] = s[1 + i - 1]
    BY ONLY <2>1, <2>2, SubSeqProperties DEF t
  <2> HIDE DEF t, n
  <2>. QED
    BY ONLY <1>2, <2>3
<1>4. FrameOK(s[n]) /\ IsState(s[n].before) /\ h = During(s[n])
  BY <1>2 DEF Valid
<1>8. n \in 1 .. n /\ s[n].before = (IF n = 1 THEN b ELSE During(s[n - 1]))
  <2>1. \A i \in 1 .. n : s[i].before = (IF i = 1 THEN b ELSE During(s[i - 1]))
    BY DEF Valid
  <2> HIDE DEF n
  <2>2. n \in 1 .. n
    BY ONLY <1>2
  <2>. QED
    BY ONLY <2>1, <2>2
<1> HIDE DEF t, n
<1>5. ASSUME NEW i \in 1 .. Len(t)
      PROVE  FrameOK(t[i]) /\ IsState(t[i].before) /\ t[i].before = (IF i = 1 THEN b ELSE During(t[i - 1]))
  <2>1. i \in 1 .. n /\ t[i] = s[i] /\ (i # 1 => t[i - 1] = s[i - 1])
    BY <1>2, <1>3
  <2>. QED
    BY <2>1 DEF Valid, n
<1>6. s[n].before = IF t = <<>> THEN b ELSE During(t[Len(t)])
  <2>2. CASE n = 1
    BY <1>3, <1>8, <2>2, EmptySeq
  <2>3. CASE n # 1
    BY <1>2, <1>3, <1>8, <2>3, EmptySeq
  <2>. QED
    BY <2>2, <2>3
<1>7. Valid(b, t, s[n].before)
  BY <1>3, <1>4, <1>5, <1>6 DEF Valid
<1>. QED
  BY <1>4, <1>7 DEF t, n

-----------------------------------------------------------------------------
(* A step that leaves the calls s in the state h keeps the invariant.         *)
LEMMA Stays ==
  ASSUME NEW s, NEW h, Valid(First, s, h), UNCHANGED request,
         stack' = s, Here' = h, control'.at = "call" => IsCall(control')
  PROVE  Kept'
<1>1. First' = First
  BY DEF First
<1>. QED
  BY <1>1 DEF Kept

(* A step that makes a call keeps it, too.                                    *)
LEMMA Makes ==
  ASSUME NEW s, NEW h, Valid(First, s, h), UNCHANGED request,
         NEW frame, FrameOK(frame), frame.before = h,
         stack' = Append(s, frame), Here' = During(frame), control'.at # "call"
  PROVE  Kept'
<1>1. First' = First
  BY DEF First
<1>2. Valid(First, Append(s, frame), During(frame))
  BY Pushed
<1>. QED
  BY <1>1, <1>2 DEF Kept

(* The call on top when it returns.                                           *)
LEMMA Returned ==
  ASSUME Kept, stack # <<>>
  PROVE  /\ Valid(First, Below, Top.before) /\ FrameOK(Top)
         /\ Top.kind \in Plainly => Top.before = Here
         /\ Top.kind \in {"group", "args", "tilde"} =>
              Top.before = [vars |-> vars, resolving |-> resolving, depth |-> depth - 1]
         /\ Top.kind = "entry" =>
              Top.before = [vars |-> vars, resolving |-> resolving \ {Top.data.name}, depth |-> depth - 1]
         /\ Top.kind = "body" =>
              Top.before = [vars |-> Bound(vars, Top.data.params, Top.data.old),
                            resolving |-> resolving, depth |-> depth]
<1>1. /\ Valid(First, Below, Top.before)
      /\ Here = During(Top) /\ FrameOK(Top) /\ IsState(Top.before)
  BY Popped DEF Kept, Below, Top
<1>2. Here.vars = vars /\ Here.resolving = resolving /\ Here.depth = depth
  BY DEF Here
<1> HIDE DEF Here, Top, Below
<1>. QED
  BY <1>1, <1>2, Undone

(* eval_nested, with a frame that undoes the level of depth.                  *)
LEMMA NestedKept ==
  ASSUME NEW s, NEW d, Valid(First, s, [vars |-> vars, resolving |-> resolving, depth |-> d]),
         UNCHANGED <<request, vars, resolving>>,
         NEW kind \in {"group", "args", "tilde"}, NEW data, NEW e, Nested(s, d, kind, data, e)
  PROVE  Kept'
<1> DEFINE h == [vars |-> vars, resolving |-> resolving, depth |-> d]
           frame == FrameAt(d, kind, data)
<1>1. CASE d >= MaxDepth
  <2>1. stack' = s /\ control'.at # "call" /\ Here' = h
    BY <1>1 DEF Nested, Continue, Err, ErrOf, Here
  <2>. QED
    BY <2>1, Stays
<1>2. CASE ~(d >= MaxDepth)
  <2>1. stack' = Append(s, frame) /\ control'.at # "call" /\ Here' = [h EXCEPT !.depth = d + 1]
    BY <1>2 DEF Nested, Continue, Evaluate, Here
  <2>2. FrameOK(frame) /\ frame.before = h /\ During(frame) = [h EXCEPT !.depth = d + 1]
    BY DEF FrameAt, FrameOK, During
  <2> HIDE DEF frame, h
  <2>. QED
    BY <2>1, <2>2, Makes DEF h
<1>. QED
  BY <1>1, <1>2

(* resolve_entry, with a frame that undoes the level and the name.            *)
LEMMA ResolveEntryKept ==
  ASSUME NEW n, NEW s, Valid(First, s, Here), UNCHANGED request, ResolveEntry(n, s)
  PROVE  Kept'
<1> DEFINE entry == db.units[n]
           frame == Frame("entry", [name |-> n])
<1>1. CASE /\ n \notin resolving
           /\ stack' = Append(s, frame) /\ control' = Evaluate(entry.def)
           /\ resolving' = resolving \cup {n} /\ depth' = depth + 1 /\ UNCHANGED vars
  <2>1. /\ stack' = Append(s, frame) /\ control'.at # "call"
        /\ Here' = [vars |-> vars, resolving |-> resolving \cup {n}, depth |-> depth + 1]
    BY <1>1 DEF Evaluate, Here
  <2>2. FrameOK(frame) /\ frame.before = Here /\ During(frame) = Here'
    BY <1>1, <2>1 DEF Frame, FrameAt, FrameOK, During, Here
  <2> HIDE DEF frame
  <2>. QED
    BY <2>1, <2>2, Makes
<1>2. CASE \E c : Proceed(s, c) /\ c.at # "call"
  <2>1. stack' = s /\ control'.at # "call" /\ Here' = Here
    BY <1>2 DEF Proceed, Continue, Here, state
  <2>. QED
    BY <2>1, Stays
<1>3. \A c, m : Ok(c).at # "call" /\ ErrOf(c, m).at # "call"
  BY DEF Ok, ErrOf
<1>. QED
  BY <1>1, <1>2, <1>3 DEF ResolveEntry, Continue

-----------------------------------------------------------------------------
\* What calling a function comes to: an outcome, a checked call of a function with
\* parameters, or a text to be evaluated as it is.
Goes(s) ==
  \/ \E c : Continue(s, c) /\ (c.at = "call" => IsCall(c))
  \/ \E c, data : \E kind \in {"alias", "table", "anglein", "angleout"} :
       c.at # "call" /\ Continue(Append(s, FrameAt(depth', kind, data)), c)

(* Whatever it comes to, the state at the call is the one to come back to.    *)
LEMMA GoesKept ==
  ASSUME NEW s, Valid(First, s, [vars |-> vars, resolving |-> resolving, depth |-> depth']),
         UNCHANGED <<request, vars, resolving>>, Goes(s)
  PROVE  Kept'
<1> DEFINE h == [vars |-> vars, resolving |-> resolving, depth |-> depth']
<1>1. Here' = h
  BY DEF Here
<1>2. ASSUME NEW c, Continue(s, c), c.at = "call" => IsCall(c)
      PROVE  Kept'
  BY <1>1, <1>2, Stays DEF Continue
<1>3. ASSUME NEW c, NEW data, NEW kind \in {"alias", "table", "anglein", "angleout"},
             c.at # "call", Continue(Append(s, FrameAt(depth', kind, data)), c)
      PROVE  Kept'
  <2> DEFINE frame == FrameAt(depth', kind, data)
  <2>1. FrameOK(frame) /\ frame.before = h /\ During(frame) = h
    BY DEF FrameAt, FrameOK, During
  <2>2. stack' = Append(s, frame) /\ control'.at # "call"
    BY <1>3 DEF Continue
  <2> HIDE DEF frame, h
  <2>. QED
    BY <1>1, <2>1, <2>2, Makes DEF h
<1>. QED
  BY <1>2, <1>3 DEF Goes

(* Values, errors and trees are not calls.                                    *)
LEMMA NoCalls ==
  /\ \A v : Ok(v).at # "call" /\ Evaluate(v).at # "call" /\ Err(v).at # "call"
  /\ \A code, name : ErrOf(code, name).at # "call"
BY DEF Ok, Evaluate, Err, ErrOf

(* A call of a function of distinct parameters, its checks to come or skipped. *)
LEMMA CallIsCall ==
  ASSUME NEW name, NEW params, Distinct(params), NEW args, NEW units, NEW domain, NEW body
  PROVE  /\ IsCall(Call(name, params, args, units, domain, body))
         /\ IsCall(SkipChecks(Call(name, params, args, units, domain, body)))
BY DEF Call, SkipChecks, IsCall

LEMMA CallTableGoes ==
  ASSUME NEW f, NEW v, NEW s, CallTable(f, v, s)
  PROVE  Goes(s)
BY NoCalls DEF CallTable, Goes

LEMMA CallFunctionGoes ==
  ASSUME NEW f, NEW v, NEW s, CallFunction(f, v, s)
  PROVE  Goes(s)
<1> DEFINE radian == Evaluate(RadianText)
           scalar == IF Accepts(f, v.factor) THEN Ok(FromFactor(Computed(f, v.factor))) ELSE ErrOf("Undefined", f)
<1>1. scalar.at # "call" /\ radian.at # "call"
  BY NoCalls
<1>2. \/ \E c : c.at # "call" /\ Continue(s, c)
      \/ \E kind \in {"anglein", "angleout"} : \E data : Continue(Append(s, FrameAt(depth', kind, data)), radian)
      \/ CallTable(f, v, s)
  <2> HIDE DEF radian, scalar
  <2>. QED
    BY <1>1, NoCalls DEF CallFunction, radian, scalar
<1> HIDE DEF radian, scalar
<1>. QED
  BY <1>1, <1>2, CallTableGoes DEF Goes

LEMMA CallFunctionMultiGoes ==
  ASSUME DistinctParameters, request \in Requests, NEW f, NEW args, NEW s, CallFunctionMulti(f, args, s)
  PROVE  Goes(s)
<1>1. ASSUME f \in DOMAIN db.functions, CallUserFunction(f, args, s)
      PROVE  Goes(s)
  <2> DEFINE func == db.functions[f]
             call == Call(f, func.params, args, func.units, func.domain, func.forward)
  <2>1. Distinct(func.params)
    BY <1>1 DEF DistinctParameters, db
  <2>2. IsCall(call) /\ IsCall(SkipChecks(call))
    BY <2>1, CallIsCall
  <2>3. \/ Continue(s, Err("ArityMismatch"))
        \/ Continue(Append(s, FrameAt(depth', "alias", [name |-> f])), Evaluate(func.forward))
        \/ Continue(s, SkipChecks(call)) \/ Continue(s, call)
    BY <1>1 DEF CallUserFunction
  <2> HIDE DEF func, call
  <2>. QED
    BY <2>2, <2>3, NoCalls DEF Goes
<1>2. ASSUME \E c : c.at # "call" /\ Continue(s, c)
      PROVE  Goes(s)
  BY <1>2 DEF Goes
<1>. QED
  BY <1>1, <1>2, NoCalls, CallFunctionGoes DEF CallFunctionMulti

LEMMA CallInverseGoes ==
  ASSUME NEW f, NEW v, NEW s, CallInverse(f, v, s)
  PROVE  Goes(s)
<1>1. IsCall(InverseCall(f, v)) /\ IsCall(SkipChecks(InverseCall(f, v)))
  <2>1. Distinct(<<f>>)
    BY DEF Distinct
  <2>. QED
    BY <2>1, CallIsCall DEF InverseCall
<1>2. \E c : Continue(s, c) /\ (c.at # "call" \/ c = InverseCall(f, v) \/ c = SkipChecks(InverseCall(f, v)))
  BY NoCalls DEF CallInverse
<1>. QED
  BY <1>1, <1>2 DEF Goes

(* validate_func_arg: the call goes on to its next argument or fails.         *)
LEMMA CheckNextKept ==
  ASSUME NEW s, Valid(First, s, Here), UNCHANGED request, NEW call, IsCall(call), NEW value, CheckNext(s, call, value)
  PROVE  Kept'
<1> DEFINE i == call.checked + 1
<1>1. IsCall([call EXCEPT !.checked = i])
  BY DEF IsCall
<1>2. stack' = s /\ Here' = Here /\ (control' = [call EXCEPT !.checked = i] \/ control' = ErrOf("NotInDomain", call.name))
  BY DEF CheckNext, Proceed, Continue, Here, state
<1>. QED
  BY <1>1, <1>2, NoCalls, Stays

-----------------------------------------------------------------------------
(* What an action with an outcome, or with a tree to be evaluated, keeps.     *)
LEMMA ProceedKept ==
  ASSUME NEW s, Valid(First, s, Here), UNCHANGED request, NEW c, c.at = "call" => IsCall(c), Proceed(s, c)
  PROVE  Kept'
BY Stays DEF Proceed, Continue, Here, state

LEMMA PushKept ==
  ASSUME NEW s, Valid(First, s, Here), UNCHANGED request,
         NEW kind \in Plainly, NEW data, kind = "check" => IsCall(data), NEW c, c.at # "call",
         Proceed(Append(s, Frame(kind, data)), c)
  PROVE  Kept'
<1> DEFINE frame == Frame(kind, data)
<1>1. FrameOK(frame) /\ frame.before = Here /\ During(frame) = Here
  BY DEF Frame, FrameAt, FrameOK, During, Here, Plainly
<1>2. stack' = Append(s, frame) /\ control' = c /\ Here' = Here
  BY DEF Proceed, Continue, Here, state
<1> HIDE DEF frame
<1>. QED
  BY <1>1, <1>2, Makes

(* The actions that take a tree apart.                                        *)
LEMMA DecomposeKept ==
  ASSUME IInv, DistinctParameters, UNCHANGED request, Decompose
  PROVE  Kept'
<1>0. Valid(First, stack, Here) /\ request \in Requests /\ Here = [vars |-> vars, resolving |-> resolving, depth |-> depth]
  BY DEF IInv, Kept, Here
<1>1. CASE EvalGarbage \/ EvalNumber
  <2>1. \E c : c.at # "call" /\ Proceed(stack, c)
    BY <1>1, NoCalls DEF EvalGarbage, EvalNumber
  <2>. QED
    BY <1>0, <2>1, ProceedKept
<1>2. CASE EvalUnary \/ EvalBinary
  <2>1. \E kind \in {"unary", "left"} : \E data, c : c.at # "call" /\ Proceed(Append(stack, Frame(kind, data)), c)
    BY <1>2, NoCalls DEF EvalUnary, EvalBinary
  <2>. QED
    BY <1>0, <2>1, PushKept DEF Plainly
<1>3. CASE EvalGroup \/ EvalTilde
  <2>1. /\ UNCHANGED <<vars, resolving>>
        /\ \E kind \in {"group", "args", "tilde"} : \E data, e : Nested(stack, depth, kind, data, e)
    BY <1>3 DEF EvalGroup, EvalTilde
  <2>. QED
    BY <1>0, <2>1, NestedKept
<1>4. CASE EvalCall
  <2> DEFINE e == control.expr
  <2>1. UNCHANGED <<vars, resolving>>
    BY <1>4 DEF EvalCall
  <2>2. CASE e.args = <<>>
    <3>1. UNCHANGED depth /\ CallFunctionMulti(e.name, <<>>, stack)
      BY <1>4, <2>2 DEF EvalCall
    <3>2. Goes(stack)
      BY <1>0, <3>1, CallFunctionMultiGoes
    <3>. QED
      BY <1>0, <2>1, <3>1, <3>2, GoesKept
  <2>3. CASE e.args # <<>>
    <3>1. \E kind \in {"group", "args", "tilde"} : \E data, a : Nested(stack, depth, kind, data, a)
      BY <1>4, <2>3 DEF EvalCall
    <3>. QED
      BY <1>0, <2>1, <3>1, NestedKept
  <2>. QED
    BY <2>2, <2>3
<1>. QED
  BY <1>1, <1>2, <1>3, <1>4 DEF Decompose

(* resolve_name.                                                              *)
LEMMA ResolveKept ==
  ASSUME IInv, UNCHANGED request, Resolve
  PROVE  Kept'
<1>0. Valid(First, stack, Here)
  BY DEF IInv, Kept
<1>1. CASE EvalVariable \/ EvalUnknown
  <2>1. \E c : c.at # "call" /\ Proceed(stack, c)
    BY <1>1, NoCalls DEF EvalVariable, EvalUnknown
  <2>. QED
    BY <1>0, <2>1, ProceedKept
<1>2. CASE EvalUnit
  BY <1>0, <1>2, ResolveEntryKept DEF EvalUnit
<1>3. CASE EvalPrefixAlone \/ EvalPrefixed
  <2>1. \E kind \in {"prefix", "prefixed"} : \E data, c : c.at # "call" /\ Proceed(Append(stack, Frame(kind, data)), c)
    BY <1>3, NoCalls DEF EvalPrefixAlone, EvalPrefixed
  <2>. QED
    BY <1>0, <2>1, PushKept DEF Plainly
<1>. QED
  BY <1>1, <1>2, <1>3 DEF Resolve

(* A call of a function: its checks, and binding its parameters.              *)
LEMMA ApplyKept ==
  ASSUME IInv, UNCHANGED request, Apply
  PROVE  Kept'
<1>0. Valid(First, stack, Here) /\ IsCall(control)
  BY DEF IInv, Kept, Apply, CheckArgument, BindAndEnter
<1>1. CASE CheckArgument
  <2>1. \/ \E value : CheckNext(stack, control, value)
        \/ \E e : Proceed(Append(stack, Frame("check", control)), Evaluate(e))
    BY <1>1 DEF CheckArgument
  <2>. QED
    BY <1>0, <2>1, CheckNextKept, PushKept, NoCalls DEF Plainly
<1>2. CASE BindAndEnter
  <2> DEFINE data == [name |-> control.name, params |-> control.params, args |-> control.args,
                      old |-> Replaced(vars, control.params, control.args)]
             frame == Frame("body", data)
  <2>1. stack' = Append(stack, frame) /\ control'.at # "call"
    BY <1>2, NoCalls DEF BindAndEnter, Continue
  <2>2. Here' = [vars |-> Bound(vars, control.params, control.args), resolving |-> resolving, depth |-> depth]
    BY <1>2 DEF BindAndEnter, Here
  <2>3. FrameOK(frame) /\ frame.before = Here
    BY <1>0 DEF Frame, FrameAt, FrameOK, IsCall, Here
  <2>4. During(frame) = Here'
    BY <2>2 DEF Frame, FrameAt, During
  <2> HIDE DEF frame
  <2>. QED
    BY <1>0, <2>1, <2>3, <2>4, Makes
<1>. QED
  BY <1>1, <1>2 DEF Apply

(* The calls that changed nothing return to the state they found.             *)
LEMMA PlainReturnKept ==
  ASSUME IInv, UNCHANGED request,
         AfterUnary \/ AfterLeft \/ AfterRight \/ SwallowUnknownUnit \/ AfterPrefix \/ AfterPrefixed
           \/ AfterCheck \/ AfterRadian \/ HandOn
  PROVE  Kept'
<1>1. stack # <<>> /\ Top.kind \in Plainly
  BY DEF AfterUnary, AfterLeft, AfterRight, SwallowUnknownUnit, AfterPrefix, AfterPrefixed, AfterCheck,
         AfterRadian, HandOn, Succeeds, Returns, Swallows, Plainly
<1>2. Valid(First, Below, Here) /\ FrameOK(Top)
  BY <1>1, Returned DEF IInv
<1>3. CASE AfterUnary \/ AfterPrefixed \/ SwallowUnknownUnit
  <2>1. \E c : c.at # "call" /\ Proceed(Below, c)
    BY <1>3, NoCalls DEF AfterUnary, AfterPrefixed, SwallowUnknownUnit
  <2>. QED
    BY <1>2, <2>1, ProceedKept
<1>4. CASE AfterRight
  <2>1. \A op, v, w : Operate(op, v, w).at # "call"
    BY NoCalls DEF Operate
  <2>. QED
    BY <1>2, <1>4, <2>1, ProceedKept DEF AfterRight
<1>5. CASE AfterLeft
  <2>1. \E data, c : c.at # "call" /\ Proceed(Append(Below, Frame("right", data)), c)
    BY <1>5, NoCalls DEF AfterLeft
  <2>. QED
    BY <1>2, <2>1, PushKept DEF Plainly
<1>6. CASE AfterPrefix
  <2> DEFINE frame == Frame("times", control.value)
  <2>1. FrameOK(frame) /\ frame.before = Here /\ During(frame) = Here
    BY DEF Frame, FrameAt, FrameOK, During, Here
  <2>2. ResolveEntry(Top.data.unit, Append(Below, frame))
    BY <1>6 DEF AfterPrefix
  <2> HIDE DEF frame
  <2>3. Valid(First, Append(Below, frame), Here)
    BY <1>2, <2>1, Pushed
  <2>. QED
    BY <2>2, <2>3, ResolveEntryKept
<1>7. CASE AfterCheck
  <2>1. IsCall(Top.data)
    BY <1>2, <1>7 DEF AfterCheck, Succeeds, FrameOK
  <2>2. \/ \E value : CheckNext(Below, Top.data, value)
        \/ \E c : c.at # "call" /\ Proceed(Below, c)
    BY <1>7, NoCalls DEF AfterCheck
  <2>. QED
    BY <1>2, <2>1, <2>2, CheckNextKept, ProceedKept
<1>8. CASE AfterRadian
  <2>1. \E c : c.at # "call" /\ Proceed(Below, c)
    BY <1>8, NoCalls DEF AfterRadian
  <2>. QED
    BY <1>2, <2>1, ProceedKept
<1>9. CASE HandOn
  <2>1. control.at # "call" /\ Proceed(Below, control)
    BY <1>9 DEF HandOn
  <2>. QED
    BY <1>2, <2>1, ProceedKept
<1>. QED
  BY <1>3, <1>4, <1>5, <1>6, <1>7, <1>8, <1>9

(* eval_nested takes its level of depth back, also when it failed.            *)
LEMMA NestedReturnKept ==
  ASSUME IInv, DistinctParameters, UNCHANGED request, AfterGroup \/ AfterTilde \/ AfterArgument
  PROVE  Kept'
<1> DEFINE h == [vars |-> vars, resolving |-> resolving, depth |-> depth - 1]
<1>1. stack # <<>> /\ Top.kind \in {"group", "args", "tilde"} /\ control.at # "call"
      /\ UNCHANGED <<vars, resolving>> /\ request \in Requests
  BY DEF AfterGroup, AfterTilde, AfterArgument, Returns, IInv
<1>2. Valid(First, Below, h)
  BY <1>1, Returned DEF IInv
<1>3. ASSUME Continue(Below, control), depth' = depth - 1
      PROVE  Kept'
  <2>1. Here' = h /\ stack' = Below /\ control' = control
    BY <1>1, <1>3 DEF Here, Continue
  <2> HIDE DEF h
  <2>. QED
    BY <1>1, <1>2, <2>1, Stays
<1>4. ASSUME Goes(Below), depth' = depth - 1
      PROVE  Kept'
  <2>1. Valid(First, Below, [vars |-> vars, resolving |-> resolving, depth |-> depth'])
    BY <1>2, <1>4
  <2>. QED
    BY <1>1, <1>4, <2>1, GoesKept
<1>5. CASE AfterGroup
  BY <1>3, <1>5 DEF AfterGroup
<1>6. CASE AfterTilde
  <2>1. depth' = depth - 1 /\ (Continue(Below, control) \/ Goes(Below))
    BY <1>6, CallInverseGoes DEF AfterTilde
  <2>. QED
    BY <1>3, <1>4, <2>1
<1>7. CASE AfterArgument
  <2>1. \/ Continue(Below, control) /\ depth' = depth - 1
        \/ depth' = depth - 1 /\ \E name, done : CallFunctionMulti(name, done, Below)
        \/ \E data, e : Nested(Below, depth - 1, "args", data, e)
    BY <1>7 DEF AfterArgument
  <2>2. ASSUME NEW data, NEW e, Nested(Below, depth - 1, "args", data, e)
        PROVE  Kept'
    BY <1>1, <1>2, <2>2, NestedKept
  <2>. QED
    BY <1>1, <1>3, <1>4, <2>1, <2>2, CallFunctionMultiGoes
<1>. QED
  BY <1>5, <1>6, <1>7

(* resolve_entry removes the name, call_user_function restores the variables. *)
LEMMA EntryReturnKept ==
  ASSUME IInv, UNCHANGED request, AfterEntry
  PROVE  Kept'
<1>1. stack # <<>> /\ Top.kind = "entry" /\ control.at # "call" /\ stack' = Below /\ control' = control
  BY DEF AfterEntry, Returns, Continue
<1>2. Valid(First, Below, [vars |-> vars, resolving |-> resolving \ {Top.data.name}, depth |-> depth - 1])
  BY <1>1, Returned DEF IInv
<1>3. Here' = [vars |-> vars, resolving |-> resolving \ {Top.data.name}, depth |-> depth - 1]
  BY DEF AfterEntry, Here
<1>. QED
  BY <1>1, <1>2, <1>3, Stays

LEMMA BodyReturnKept ==
  ASSUME IInv, UNCHANGED request, AfterBody
  PROVE  Kept'
<1>1. stack # <<>> /\ Top.kind = "body" /\ control.at # "call" /\ stack' = Below /\ control' = control
  BY DEF AfterBody, Returns, Continue
<1>2. Valid(First, Below, [vars |-> Bound(vars, Top.data.params, Top.data.old), resolving |-> resolving, depth |-> depth])
  BY <1>1, Returned DEF IInv
<1>3. Here' = [vars |-> Bound(vars, Top.data.params, Top.data.old), resolving |-> resolving, depth |-> depth]
  BY DEF AfterBody, Here
<1>. QED
  BY <1>1, <1>2, <1>3, Stays

-----------------------------------------------------------------------------
(* An evaluation begins with nothing in progress.                             *)
LEMMA InitInv ==
  Init => IInv
<1> SUFFICES ASSUME Init PROVE IInv
  OBVIOUS
<1>1. request \in Requests /\ control.at # "call" /\ stack = <<>> /\ Here = First
  BY NoCalls DEF Init, Here, First
<1>2. IsState(First)
  BY EvaluatorAssumption, <1>1 DEF IsState, First
<1>3. <<>> \in Seq({}) /\ Len(<<>>) = 0
  BY EmptySeq
<1>4. Valid(First, <<>>, First)
  BY <1>2, <1>3 DEF Valid
<1>. QED
  BY <1>1, <1>4 DEF IInv, Kept

(* Every step keeps the invariant.                                            *)
LEMMA NextInv ==
  ASSUME DistinctParameters, IInv, [Next]_all
  PROVE  IInv'
<1>1. CASE UNCHANGED all
  BY <1>1 DEF all, IInv, Kept, Valid, First, Here
<1>2. CASE Step
  <2>1. UNCHANGED request /\ request' \in Requests
    BY <1>2 DEF Step, IInv
  <2>2. CASE Decompose
    BY <2>1, <2>2, DecomposeKept DEF IInv
  <2>3. CASE Resolve
    BY <2>1, <2>3, ResolveKept DEF IInv
  <2>4. CASE Apply
    BY <2>1, <2>4, ApplyKept DEF IInv
  <2>5. CASE Return
    BY <2>1, <2>5, PlainReturnKept, NestedReturnKept, EntryReturnKept, BodyReturnKept DEF Return, IInv
  <2>6. CASE Abort
    BY <2>1, <2>6, ProceedKept DEF Abort, IInv, Kept
  <2>. QED
    BY <1>2, <2>2, <2>3, <2>4, <2>5, <2>6 DEF Step
<1>. QED
  BY <1>1, <1>2 DEF Next, Done

(* Whatever came to pass in a call, variables, names and depth are again as   *)
(* they were when it was made (eval_nested, resolve_entry, the calls).        *)
THEOREM CallsRestore ==
  ASSUME DistinctParameters
  PROVE  Spec => []StateFollowsCalls
<1>1. IInv => StateFollowsCalls
  <2> SUFFICES ASSUME IInv PROVE StateFollowsCalls
    OBVIOUS
  <2>1. PICK S : stack \in Seq(S)
    BY DEF IInv, Kept, Valid
  <2>2. Len(stack) \in Nat /\ (stack # <<>> => 1 \in 1 .. Len(stack))
    BY <2>1, EmptySeq, LenProperties
  <2>3. \A i \in 2 .. Len(stack) : stack[i].before = During(stack[i - 1])
    <3>1. \A i \in 2 .. Len(stack) : i \in 1 .. Len(stack) /\ i # 1
      BY <2>2
    <3>. QED
      BY <3>1 DEF IInv, Kept, Valid
  <2>4. stack # <<>> => stack[1].before = First /\ Here = During(Top)
    BY <2>2 DEF IInv, Kept, Valid, Top
  <2>5. stack = <<>> => Here = First
    BY DEF IInv, Kept, Valid
  <2>. QED
    BY <2>3, <2>4, <2>5 DEF StateFollowsCalls, First
<1>2. IInv /\ [Next]_all => IInv'
  BY NextInv
<1>. QED
  BY <1>1, <1>2, InitInv, PTL DEF Spec
-----------------------------------------------------------------------------
\* Types: what is computed is a quantity, and the depth keeps to its limit.

(* Maps are functions on some of the primitive units.                         *)
LEMMA DimensionsAreFunctions ==
  ASSUME NEW d
  PROVE  d \in Dimensions <=> DOMAIN d \subseteq Base /\ d \in [DOMAIN d -> Exponent]
BY DEF Dimensions

(* Dropping the zeros of a map leaves a map.                                  *)
LEMMA NormalizedDimensions ==
  ASSUME NEW S \in SUBSET Base, NEW d \in [S -> Exponent]
  PROVE  Normalized(d) \in Dimensions
<1> DEFINE T == {b \in S : d[b] # 0}
<1>1. Normalized(d) = [b \in T |-> d[b]]
  BY DEF Normalized
<1>2. Normalized(d) \in [T -> Exponent] /\ DOMAIN Normalized(d) = T
  BY <1>1
<1>. QED
  BY <1>2, DimensionsAreFunctions

(* Sums and differences of exponents are stored as exponents (+=, -=).        *)
LEMMA StoredDimensions ==
  ASSUME NEW c \in Dimensions, NEW d \in Dimensions
  PROVE  Stored(Sum(c, d)) \in Dimensions /\ Stored(Difference(c, d)) \in Dimensions
<1> DEFINE S == DOMAIN c \cup DOMAIN d
<1>1. S \in SUBSET Base /\ \A b : At(c, b) \in Exponent /\ At(d, b) \in Exponent
  <2>1. 0 \in Exponent
    BY AlgebraAssumption DEF Exponent
  <2>. QED
    BY <2>1, DimensionsAreFunctions DEF At
<1>2. \A e, f \in Exponent : Wrapped(e + f) \in Exponent /\ Wrapped(e - f) \in Exponent
  BY AlgebraAssumption DEF Exponent, Wrapped
<1>3. ASSUME NEW e, e = [b \in S |-> e[b]], \A b \in S : Wrapped(e[b]) \in Exponent
      PROVE  Stored(e) \in Dimensions
  <2>1. DOMAIN e = S
    BY <1>3
  <2>2. [b \in S |-> Wrapped(e[b])] \in [S -> Exponent]
    BY <1>3
  <2> HIDE DEF S
  <2>. QED
    BY <1>1, <2>1, <2>2, NormalizedDimensions DEF Stored
<1>4. ASSUME NEW e, e \in {Sum(c, d), Difference(c, d)}
      PROVE  e = [b \in S |-> e[b]] /\ \A b \in S : Wrapped(e[b]) \in Exponent
  BY <1>1, <1>2, <1>4 DEF Sum, Difference
<1>. QED
  BY <1>3, <1>4

(* A quantity is its factor and its map.                                      *)
LEMMA QuantityIs ==
  /\ \A v : v \in UnitValue <=> v = [factor |-> v.factor, dims |-> v.dims] /\ v.factor \in Factor /\ v.dims \in Dimensions
  /\ \A v \in UnitValue : /\ DOMAIN v.dims \subseteq Base /\ v.dims \in [DOMAIN v.dims -> Exponent]
                          /\ IsUnitValue(v)
                          /\ \A f \in Factor : [v EXCEPT !.factor = f] \in UnitValue
  /\ \A f \in Factor, d \in Dimensions : [factor |-> f, dims |-> d] \in UnitValue
<1>1. \A v : v \in UnitValue <=> v = [factor |-> v.factor, dims |-> v.dims] /\ v.factor \in Factor /\ v.dims \in Dimensions
  BY DEF UnitValue
<1>2. ASSUME NEW v \in UnitValue
      PROVE  /\ DOMAIN v.dims \subseteq Base /\ v.dims \in [DOMAIN v.dims -> Exponent]
             /\ \A f \in Factor : [v EXCEPT !.factor = f] \in UnitValue
  <2>1. v.dims \in Dimensions
    BY DEF UnitValue
  <2>2. \A f \in Factor : [v EXCEPT !.factor = f] \in UnitValue
    BY DEF UnitValue
  <2>. QED
    BY <2>1, <2>2, DimensionsAreFunctions
<1>3. ASSUME NEW v \in UnitValue
      PROVE  IsUnitValue(v)
  BY <1>1, <1>2 DEF IsUnitValue
<1>4. \A f \in Factor, d \in Dimensions : [factor |-> f, dims |-> d] \in UnitValue
  BY DEF UnitValue
<1>. QED
  BY <1>1, <1>2, <1>3, <1>4

(* What begins: nothing, primitive units and factors.                         *)
LEMMA FirstQuantities ==
  /\ Unity \in UnitValue
  /\ \A b \in Base : Primitive(b) \in UnitValue
  /\ \A f \in Factor : FromFactor(f) \in UnitValue
<1>1. [b \in {} |-> 0] \in Dimensions
  <2>1. DOMAIN [b \in {} |-> 0] = {} /\ [b \in {} |-> 0] \in [{} -> Exponent]
    OBVIOUS
  <2>. QED
    BY <2>1, DimensionsAreFunctions
<1>2. Unity \in UnitValue
  BY <1>1, AlgebraAssumption, QuantityIs DEF Unity
<1>3. ASSUME NEW b \in Base
      PROVE  Primitive(b) \in UnitValue
  <2> DEFINE d == [c \in {b} |-> 1]
  <2>1. 1 \in Exponent
    BY AlgebraAssumption DEF Exponent
  <2>2. DOMAIN d = {b} /\ d \in [{b} -> Exponent]
    BY <2>1
  <2>3. d \in Dimensions
    BY <2>2, DimensionsAreFunctions
  <2>. QED
    BY <2>3, AlgebraAssumption, QuantityIs DEF Primitive
<1>. QED
  BY <1>2, <1>3, QuantityIs DEF FromFactor

(* The operations of UnitValue give quantities.                               *)
LEMMA OperationsGiveQuantities ==
  ASSUME NEW v \in UnitValue, NEW w \in UnitValue
  PROVE  /\ Multiply(v, w) \in UnitValue /\ Divide(v, w) \in UnitValue
         /\ Add(v, w) \in UnitValue /\ Invert(v) \in UnitValue
         /\ Pow(v, w.factor) \in UnitValue
<1>1. /\ v.factor \in Factor /\ v.dims \in Dimensions /\ DOMAIN v.dims \in SUBSET Base
      /\ v.dims \in [DOMAIN v.dims -> Exponent] /\ w.factor \in Factor /\ w.dims \in Dimensions
  BY QuantityIs
<1>2. Multiply(v, w) \in UnitValue /\ Divide(v, w) \in UnitValue
  BY <1>1, AlgebraAssumption, StoredDimensions, QuantityIs DEF Multiply, Divide
<1>3. Add(v, w) \in UnitValue
  BY <1>1, AlgebraAssumption, QuantityIs DEF Add
<1>4. Invert(v) \in UnitValue
  <2> DEFINE d == [b \in DOMAIN v.dims |-> Wrapped(-v.dims[b])]
  <2>1. \A e \in Exponent : Wrapped(-e) \in Exponent
    BY AlgebraAssumption DEF Exponent, Wrapped
  <2>2. DOMAIN d = DOMAIN v.dims /\ d \in [DOMAIN v.dims -> Exponent]
    BY <1>1, <2>1
  <2>3. d \in Dimensions
    BY <1>1, <2>2, DimensionsAreFunctions
  <2>. QED
    BY <1>1, <2>3, AlgebraAssumption, QuantityIs DEF Invert
<1>5. Pow(v, w.factor) \in UnitValue
  <2> DEFINE d == [b \in DOMAIN v.dims |-> WrappedProduct(v.dims[b] * w.factor)]
  <2>1. d \in [DOMAIN v.dims -> Exponent]
    BY <1>1, FactorsAssumption
  <2>2. Normalized(d) \in Dimensions
    BY <1>1, <2>1, NormalizedDimensions
  <2>3. ToThe(v.factor, w.factor) \in Factor
    BY <1>1, FactorsAssumption
  <2>. QED
    BY <2>2, <2>3, QuantityIs DEF Pow
<1>. QED
  BY <1>2, <1>3, <1>4, <1>5

(* So do the roots that are taken.                                            *)
LEMMA RootsAreQuantities ==
  ASSUME NEW v \in UnitValue, NEW name \in DOMAIN RootFunction, HasRoot(v, RootFunction[name])
  PROVE  Root(v, RootFunction[name]) \in UnitValue
<1> DEFINE n == RootFunction[name]
           d == [b \in DOMAIN v.dims |-> v.dims[b] \div n]
<1>1. n \in Nat /\ n > 0 /\ RootOf(v.factor, n) \in Factor
  BY FactorsAssumption, QuantityIs DEF HasRoot
<1>2. \A e \in Exponent : e \div n \in Exponent
  <2> HIDE DEF n
  <2>. QED
    BY <1>1, AlgebraAssumption DEF Exponent
<1>3. DOMAIN v.dims \in SUBSET Base /\ d \in [DOMAIN v.dims -> Exponent]
  BY <1>2, QuantityIs
<1>4. Normalized(d) \in Dimensions
  BY <1>3, NormalizedDimensions
<1>. QED
  BY <1>1, <1>4, QuantityIs DEF Root

-----------------------------------------------------------------------------
StateTyped(h) ==
  h.vars \in [Names -> UnitValue \cup {None}] /\ h.resolving \subseteq Names /\ h.depth \in 0 .. MaxDepth

CallTyped(c) ==
  /\ c.args \in Seq(UnitValue) /\ DOMAIN c.params = DOMAIN c.args
  /\ \A i \in DOMAIN c.units : c.units[i] \in Tree \cup {None}
  /\ c.body \in Tree
  /\ c.checked \in 0 .. Len(c.args)

ControlTyped(c) ==
  /\ c.at \in {"expr", "call", "ok", "err", "aborted"}
  /\ c.at = "expr" => c.expr \in Tree
  /\ c.at = "ok" => c.value \in UnitValue
  /\ c.at = "call" => CallTyped(c)

IsAngle(data) == data.value \in UnitValue /\ data.name \in AngleIn \cup AngleOut

FrameTyped(d, frame) ==
  /\ StateTyped(frame.before)
  /\ frame.kind = "left" => frame.data.right \in Tree
  /\ frame.kind = "right" => frame.data.left \in UnitValue
  /\ frame.kind = "args" => frame.data.done \in Seq(UnitValue) /\ frame.data.rest \in Seq(Tree)
  /\ frame.kind = "prefixed" => frame.data.unit \in DOMAIN d.units
  /\ frame.kind = "times" => frame.data \in UnitValue
  /\ frame.kind = "check" => CallTyped(frame.data) /\ frame.data.checked < Len(frame.data.args)
  /\ frame.kind \in {"anglein", "angleout"} => IsAngle(frame.data)

CallsTyped(d, s) == \A i \in 1 .. Len(s) : FrameTyped(d, s[i])

Typed == ControlTyped(control) /\ CallsTyped(db, stack) /\ StateTyped(Here)

TInv == IInv /\ Typed

(* A frame on top of typed ones, and what is left without the top.            *)
LEMMA PushedTyped ==
  ASSUME NEW d, NEW s, \E S : s \in Seq(S), CallsTyped(d, s), NEW frame, FrameTyped(d, frame)
  PROVE  CallsTyped(d, Append(s, frame))
<1>1. PICK R : s \in Seq(R)
  OBVIOUS
<1> DEFINE S == R \cup {frame}
           t == Append(s, frame)
<1>2. s \in Seq(S) /\ frame \in S
  BY <1>1
<1>3. /\ Len(t) = Len(s) + 1 /\ Len(s) \in Nat
      /\ \A i \in 1 .. Len(s) : t[i] = s[i]
      /\ t[Len(s) + 1] = frame
  BY <1>2, AppendProperties, LenProperties
<1> HIDE DEF t
<1>4. \A i \in 1 .. Len(t) : i \in 1 .. Len(s) \/ i = Len(s) + 1
  BY <1>3
<1>5. CallsTyped(d, t)
  BY <1>3, <1>4 DEF CallsTyped
<1>. QED
  BY <1>5 DEF t

LEMMA PoppedTyped ==
  ASSUME TInv, stack # <<>>
  PROVE  CallsTyped(db, Below) /\ FrameTyped(db, Top)
<1>1. PICK S : stack \in Seq(S)
  BY DEF TInv, IInv, Kept, Valid
<1> DEFINE n == Len(stack)
<1>2. n \in Nat /\ n >= 1 /\ \A i \in 1 .. n : stack[i] \in S
  BY <1>1, EmptySeq, LenProperties, ElementOfSeq
<1>3. Len(Below) = n - 1 /\ \A i \in 1 .. n - 1 : Below[i] = stack[i]
  <2>1. \A i \in 1 .. n - 1 : stack[i] \in S
    BY <1>2
  <2>2. 1 \in Int /\ n - 1 \in Int
    BY <1>2
  <2>3. /\ Len(Below) = IF 1 <= n - 1 THEN n - 1 - 1 + 1 ELSE 0
        /\ \A i \in 1 .. n - 1 - 1 + 1 : Below[i] = stack[1 + i - 1]
    BY ONLY <2>1, <2>2, SubSeqProperties DEF Below
  <2> HIDE DEF n, Below
  <2>. QED
    BY ONLY <1>2, <2>3
<1>4. \A i \in 1 .. n - 1 : i \in 1 .. n
  BY <1>2
<1>5. n \in 1 .. n
  BY <1>2
<1>. QED
  BY <1>3, <1>4, <1>5 DEF TInv, Typed, CallsTyped, Top

(* What keeps the types: calls in progress that are typed, with or without a  *)
(* new one on top.                                                            *)
LEMMA TypedStays ==
  ASSUME NEW s, CallsTyped(db, s), UNCHANGED request, stack' = s, ControlTyped(control'), StateTyped(Here')
  PROVE  Typed'
BY DEF Typed, db

LEMMA TypedMakes ==
  ASSUME NEW s, \E S : s \in Seq(S), CallsTyped(db, s), UNCHANGED request, NEW frame, FrameTyped(db, frame),
         stack' = Append(s, frame), ControlTyped(control'), StateTyped(Here')
  PROVE  Typed'
BY PushedTyped DEF Typed, db

LEMMA ProceedTyped ==
  ASSUME Typed, NEW s, CallsTyped(db, s), UNCHANGED request, NEW c, ControlTyped(c), Proceed(s, c)
  PROVE  Typed'
<1>1. stack' = s /\ control' = c /\ Here' = Here
  BY DEF Proceed, Continue, Here, state
<1>. QED
  BY <1>1, TypedStays DEF Typed

LEMMA PushTyped ==
  ASSUME Typed, NEW s, \E S : s \in Seq(S), CallsTyped(db, s), UNCHANGED request,
         NEW kind, NEW data, FrameTyped(db, Frame(kind, data)), NEW c, ControlTyped(c),
         Proceed(Append(s, Frame(kind, data)), c)
  PROVE  Typed'
<1> DEFINE frame == Frame(kind, data)
<1>1. stack' = Append(s, frame) /\ control' = c /\ Here' = Here
  BY DEF Proceed, Continue, Here, state
<1> HIDE DEF frame
<1>. QED
  BY <1>1, TypedMakes DEF Typed, frame

(* A frame has the state in which it is made.                                 *)
LEMMA FrameIs ==
  ASSUME NEW kind, NEW data
  PROVE  Frame(kind, data).kind = kind /\ Frame(kind, data).data = data /\ Frame(kind, data).before = Here
BY DEF FrameAt, Frame, Here

(* Trees, values and errors are typed as what they are.                       *)
LEMMA ControlsAre ==
  /\ \A e \in Tree : ControlTyped(Evaluate(e))
  /\ \A v \in UnitValue : ControlTyped(Ok(v))
  /\ \A code, name : ControlTyped(ErrOf(code, name)) /\ ControlTyped(Err(code))
  /\ \A c : c.at = "call" /\ CallTyped(c) => ControlTyped(c)
BY DEF ControlTyped, Evaluate, Ok, ErrOf, Err

(* eval_nested goes no deeper than the limit.                                 *)
LEMMA NestedTyped ==
  ASSUME NEW s, \E S : s \in Seq(S), CallsTyped(db, s), UNCHANGED <<request, vars, resolving>>,
         NEW d, StateTyped([vars |-> vars, resolving |-> resolving, depth |-> d]),
         NEW kind, NEW data, NEW e \in Tree, FrameTyped(db, FrameAt(d, kind, data)), Nested(s, d, kind, data, e)
  PROVE  Typed'
<1> DEFINE frame == FrameAt(d, kind, data)
<1>1. d \in 0 .. MaxDepth /\ vars \in [Names -> UnitValue \cup {None}] /\ resolving \subseteq Names
  BY DEF StateTyped
<1>2. CASE d >= MaxDepth
  <2>1. stack' = s /\ control' = Err("TooDeep") /\ Here' = [vars |-> vars, resolving |-> resolving, depth |-> d]
    BY <1>2 DEF Nested, Continue, Here
  <2>. QED
    BY <2>1, ControlsAre, TypedStays
<1>3. CASE ~(d >= MaxDepth)
  <2>1. /\ stack' = Append(s, frame) /\ control' = Evaluate(e)
        /\ Here' = [vars |-> vars, resolving |-> resolving, depth |-> d + 1]
    BY <1>3 DEF Nested, Continue, Here
  <2>2. d + 1 \in 0 .. MaxDepth
    BY <1>1, <1>3, EvaluatorAssumption
  <2>3. StateTyped(Here')
    BY <1>1, <2>1, <2>2 DEF StateTyped
  <2> HIDE DEF frame
  <2>. QED
    BY <2>1, <2>3, ControlsAre, TypedMakes DEF frame
<1>. QED
  BY <1>2, <1>3

(* Every database that a request names is one.                                *)
LEMMA Data ==
  ASSUME request \in Requests
  PROVE  IsDatabase(db)
<1>1. request.db \in {r.db : r \in Requests}
  OBVIOUS
<1>. QED
  BY <1>1, EvaluatorAssumption DEF db

(* resolve_entry evaluates a definition one level deeper, within the limit.   *)
LEMMA ResolveEntryTyped ==
  ASSUME TInv, NEW s, \E S : s \in Seq(S), CallsTyped(db, s), UNCHANGED request,
         NEW n \in DOMAIN db.units, ResolveEntry(n, s)
  PROVE  Typed'
<1> DEFINE entry == db.units[n]
           frame == Frame("entry", [name |-> n])
<1>1. /\ n \in Names /\ (entry.kind = "primitive" => n \in Base) /\ (entry.kind = "derived" => entry.def \in Tree)
  BY Data DEF TInv, IInv, IsDatabase
<1>2. Typed /\ StateTyped(Here) /\ vars \in [Names -> UnitValue \cup {None}] /\ resolving \subseteq Names /\ depth \in 0 .. MaxDepth
  BY DEF TInv, Typed, StateTyped, Here
<1>3. CASE /\ entry.kind = "derived" /\ depth < MaxDepth
           /\ Continue(Append(s, frame), Evaluate(entry.def))
           /\ resolving' = resolving \cup {n} /\ depth' = depth + 1 /\ UNCHANGED vars
  <2>1. stack' = Append(s, frame) /\ control' = Evaluate(entry.def) /\ ControlTyped(control')
    BY <1>1, <1>3, ControlsAre DEF Continue
  <2>2. depth + 1 \in 0 .. MaxDepth
    BY <1>2, <1>3, EvaluatorAssumption
  <2>3. StateTyped(Here')
    BY <1>1, <1>2, <1>3, <2>2 DEF StateTyped, Here
  <2>4. frame.kind = "entry" /\ frame.before = Here
    BY DEF Frame, FrameAt, Here
  <2> HIDE DEF frame
  <2>5. FrameTyped(db, frame)
    BY <1>2, <2>4 DEF FrameTyped
  <2>. QED
    BY <2>1, <2>3, <2>5, TypedMakes
<1>4. CASE \E c : Proceed(s, c) /\ ControlTyped(c)
  BY <1>2, <1>4, ProceedTyped
<1>5. entry.kind = "primitive" => ControlTyped(Ok(Primitive(n)))
  BY <1>1, FirstQuantities, ControlsAre
<1>6. ControlTyped(Ok(Unity)) /\ \A code, name : ControlTyped(ErrOf(code, name))
  BY FirstQuantities, ControlsAre
<1>. QED
  BY <1>3, <1>4, <1>5, <1>6 DEF ResolveEntry

-----------------------------------------------------------------------------
\* What calling a function comes to, with its type.
TypedGoes(s) ==
  \/ \E c : Continue(s, c) /\ ControlTyped(c)
  \/ \E c, data : \E kind \in {"alias", "table", "anglein", "angleout"} :
       /\ ControlTyped(c) /\ Continue(Append(s, FrameAt(depth', kind, data)), c)
       /\ kind \in {"anglein", "angleout"} => IsAngle(data)

LEMMA GoesTyped ==
  ASSUME NEW s, \E S : s \in Seq(S), CallsTyped(db, s), UNCHANGED <<request, vars, resolving>>,
         StateTyped([vars |-> vars, resolving |-> resolving, depth |-> depth']), TypedGoes(s)
  PROVE  Typed'
<1>1. StateTyped(Here')
  BY DEF Here
<1>2. ASSUME NEW c, Continue(s, c), ControlTyped(c)
      PROVE  Typed'
  BY <1>1, <1>2, TypedStays DEF Continue
<1>3. ASSUME NEW c, NEW data, NEW kind \in {"alias", "table", "anglein", "angleout"},
             ControlTyped(c), Continue(Append(s, FrameAt(depth', kind, data)), c),
             kind \in {"anglein", "angleout"} => IsAngle(data)
      PROVE  Typed'
  <2> DEFINE frame == FrameAt(depth', kind, data)
  <2>0. /\ frame.kind = kind /\ frame.data = data
        /\ frame.before = [vars |-> vars, resolving |-> resolving, depth |-> depth']
    BY DEF FrameAt
  <2>2. stack' = Append(s, frame) /\ control' = c
    BY <1>3 DEF Continue
  <2> HIDE DEF frame
  <2>1. FrameTyped(db, frame)
    BY <1>3, <2>0 DEF FrameTyped
  <2>. QED
    BY <1>1, <1>3, <2>1, <2>2, TypedMakes
<1>. QED
  BY <1>2, <1>3 DEF TypedGoes

LEMMA CallTableTyped ==
  ASSUME request \in Requests, NEW f \in DOMAIN db.tables, NEW v \in UnitValue, NEW s, CallTable(f, v, s)
  PROVE  TypedGoes(s)
<1> DEFINE table == db.tables[f]
<1>1. \/ \E c : Continue(s, c) /\ \E code, name : c = ErrOf(code, name)
      \/ /\ v.factor \in DOMAIN table.readings
         /\ Continue(Append(s, FrameAt(depth', "table", [name |-> f])), Evaluate(table.readings[v.factor]))
  BY DEF CallTable
<1>2. v.factor \in DOMAIN table.readings => table.readings[v.factor] \in Tree
  BY Data DEF IsDatabase
<1>. QED
  BY <1>1, <1>2, ControlsAre DEF TypedGoes

LEMMA CallFunctionTyped ==
  ASSUME request \in Requests, NEW f, NEW v \in UnitValue, NEW s, CallFunction(f, v, s)
  PROVE  TypedGoes(s)
<1> DEFINE radian == Evaluate(RadianText)
           scalar == IF Accepts(f, v.factor) THEN Ok(FromFactor(Computed(f, v.factor))) ELSE ErrOf("Undefined", f)
           rooted == IF HasRoot(v, RootFunction[f]) THEN Ok(Root(v, RootFunction[f])) ELSE Err("NotDivisibleByRoot")
           kept == Ok([v EXCEPT !.factor = Computed(f, @)])
           outcome == {rooted, kept, scalar}
<1>1. ControlTyped(radian)
  BY TextsAssumption, ControlsAre
<1>2. f \in AngleIn \cup Scalar => ControlTyped(scalar)
  BY QuantityIs, FirstQuantities, FactorsAssumption, ControlsAre
<1>3. f \in DOMAIN RootFunction => ControlTyped(rooted)
  BY RootsAreQuantities, ControlsAre
<1>4. f \in Keeping => ControlTyped(kept)
  BY QuantityIs, FactorsAssumption, ControlsAre
<1>5. \A code, name : ControlTyped(ErrOf(code, name)) /\ ControlTyped(Err(code))
  BY ControlsAre
<1>6. \/ f \in DOMAIN RootFunction /\ Continue(s, rooted)
      \/ f \in Keeping /\ Continue(s, kept)
      \/ f \in AngleIn \cup Scalar /\ Continue(s, scalar)
      \/ \E code : Continue(s, ErrOf(code, f))
      \/ /\ f \in AngleIn \cup AngleOut
         /\ \E kind \in {"anglein", "angleout"} :
              Continue(Append(s, FrameAt(depth', kind, [name |-> f, value |-> v])), radian)
      \/ f \in DOMAIN db.tables /\ CallTable(f, v, s)
  <2> HIDE DEF radian, scalar, rooted, kept
  <2>. QED
    BY DEF CallFunction, radian, scalar, rooted, kept
<1> DEFINE data == [name |-> f, value |-> v]
<1>7. f \in AngleIn \cup AngleOut => IsAngle(data)
  BY DEF IsAngle
<1>8. ASSUME f \in AngleIn \cup AngleOut, NEW kind \in {"anglein", "angleout"}, Continue(Append(s, FrameAt(depth', kind, data)), radian)
      PROVE  TypedGoes(s)
  <2> HIDE DEF data, radian
  <2>. QED
    BY <1>1, <1>7, <1>8 DEF TypedGoes
<1>9. ASSUME NEW c, Continue(s, c), ControlTyped(c)
      PROVE  TypedGoes(s)
  BY <1>9 DEF TypedGoes
<1> HIDE DEF radian, scalar, rooted, kept
<1>. QED
  BY <1>2, <1>3, <1>4, <1>5, <1>6, <1>8, <1>9, CallTableTyped

(* A call is typed whether its checks are to come or are skipped.             *)
LEMMA CallsAreTyped ==
  ASSUME NEW name, NEW params, NEW args \in Seq(UnitValue), DOMAIN params = DOMAIN args,
         NEW units, \A i \in DOMAIN units : units[i] \in Tree \cup {None}, NEW domain, NEW body \in Tree
  PROVE  /\ ControlTyped(Call(name, params, args, units, domain, body))
         /\ ControlTyped(SkipChecks(Call(name, params, args, units, domain, body)))
<1> DEFINE call == Call(name, params, args, units, domain, body)
<1>1. Len(args) \in Nat
  BY LenProperties
<1>2. call.at = "call" /\ CallTyped(call)
  BY <1>1 DEF Call, CallTyped
<1>3. SkipChecks(call).at = "call" /\ CallTyped(SkipChecks(call))
  BY <1>1 DEF Call, CallTyped, SkipChecks
<1> HIDE DEF call
<1>4. ControlTyped(call) /\ ControlTyped(SkipChecks(call))
  BY <1>2, <1>3, ControlsAre
<1>. QED
  BY <1>4 DEF call

LEMMA CallFunctionMultiTyped ==
  ASSUME request \in Requests, NEW f, NEW args \in Seq(UnitValue), NEW s, CallFunctionMulti(f, args, s)
  PROVE  TypedGoes(s)
<1>1. ASSUME f \in DOMAIN db.functions, CallUserFunction(f, args, s)
      PROVE  TypedGoes(s)
  <2> DEFINE func == db.functions[f]
             call == Call(f, func.params, args, func.units, func.domain, func.forward)
  <2>1. /\ func.params \in Seq(Names) /\ func.forward \in Tree
        /\ \A i \in DOMAIN func.units : func.units[i] \in Tree \cup {None}
    BY <1>1, Data DEF IsDatabase
  <2>2. ASSUME Len(args) = Len(func.params)
        PROVE  ControlTyped(call) /\ ControlTyped(SkipChecks(call))
    <3>1. DOMAIN func.params = DOMAIN args
      BY <2>1, <2>2, LenProperties
    <3>. QED
      BY <2>1, <3>1, CallsAreTyped
  <2>3. \/ Continue(s, Err("ArityMismatch"))
        \/ Continue(Append(s, FrameAt(depth', "alias", [name |-> f])), Evaluate(func.forward))
        \/ Len(args) = Len(func.params) /\ (Continue(s, SkipChecks(call)) \/ Continue(s, call))
    BY <1>1 DEF CallUserFunction
  <2>4. ControlTyped(Evaluate(func.forward)) /\ ControlTyped(Err("ArityMismatch"))
    BY <2>1, ControlsAre
  <2> HIDE DEF func, call
  <2>. QED
    BY <2>2, <2>3, <2>4 DEF TypedGoes
<1>2. ASSUME Continue(s, Err("ArityMismatch"))
      PROVE  TypedGoes(s)
  BY <1>2, ControlsAre DEF TypedGoes
<1>3. ASSUME Len(args) = 1, CallFunction(f, args[1], s)
      PROVE  TypedGoes(s)
  <2>1. args[1] \in UnitValue
    BY <1>3, ElementOfSeq
  <2>. QED
    BY <1>3, <2>1, CallFunctionTyped
<1>. QED
  BY <1>1, <1>2, <1>3 DEF CallFunctionMulti

LEMMA CallInverseTyped ==
  ASSUME request \in Requests, NEW f, NEW v \in UnitValue, NEW s, CallInverse(f, v, s)
  PROVE  TypedGoes(s)
<1>1. ASSUME f \in DOMAIN db.functions, db.functions[f].reverse # None
      PROVE  ControlTyped(InverseCall(f, v)) /\ ControlTyped(SkipChecks(InverseCall(f, v)))
  <2> DEFINE func == db.functions[f]
             units == <<func.inverse_unit>>
  <2>1. func.reverse \in Tree /\ func.inverse_unit \in Tree \cup {None}
    BY <1>1, Data DEF IsDatabase
  <2>2. <<v>> \in Seq(UnitValue) /\ DOMAIN <<f>> = DOMAIN <<v>>
    OBVIOUS
  <2>3. \A i \in DOMAIN units : units[i] \in Tree \cup {None}
    BY <2>1
  <2> HIDE DEF units, func
  <2>. QED
    BY <2>1, <2>2, <2>3, CallsAreTyped DEF InverseCall, units, func
<1>2. \/ \E code, name : Continue(s, ErrOf(code, name))
      \/ /\ f \in DOMAIN db.functions /\ db.functions[f].reverse # None
         /\ \E c \in {InverseCall(f, v), SkipChecks(InverseCall(f, v))} : Continue(s, c)
  BY DEF CallInverse, Err
<1>. QED
  BY <1>1, <1>2, ControlsAre DEF TypedGoes

(* validate_func_arg goes on to the next argument, if there is one.           *)
LEMMA CheckNextTyped ==
  ASSUME Typed, NEW s, CallsTyped(db, s), UNCHANGED request, NEW call, IsCall(call), CallTyped(call),
         call.checked < Len(call.args), NEW value, CheckNext(s, call, value)
  PROVE  Typed'
<1> DEFINE next == [call EXCEPT !.checked = call.checked + 1]
<1>1. call.checked + 1 \in 0 .. Len(call.args)
  BY LenProperties DEF CallTyped
<1>2. next.at = "call" /\ CallTyped(next)
  BY <1>1 DEF IsCall, CallTyped
<1>3. \/ Proceed(s, next) \/ Proceed(s, ErrOf("NotInDomain", call.name))
  BY DEF CheckNext
<1> HIDE DEF next
<1>. QED
  BY <1>2, <1>3, ControlsAre, ProceedTyped
-----------------------------------------------------------------------------
\* Steps keep the types.

(* What the actions start from.                                               *)
LEMMA TypedFacts ==
  ASSUME TInv
  PROVE  /\ IInv /\ Typed /\ request \in Requests /\ \E S : stack \in Seq(S)
         /\ CallsTyped(db, stack) /\ StateTyped(Here) /\ ControlTyped(control)
         /\ Here = [vars |-> vars, resolving |-> resolving, depth |-> depth]
         /\ vars \in [Names -> UnitValue \cup {None}] /\ resolving \subseteq Names /\ depth \in 0 .. MaxDepth
BY DEF TInv, Typed, IInv, Kept, Valid, StateTyped, Here

(* The actions that take a tree apart.                                        *)
LEMMA DecomposeTyped ==
  ASSUME TInv, UNCHANGED request, Decompose
  PROVE  Typed'
<1> DEFINE e == control.expr
<1>0. e \in Tree /\ IsTree(e)
  <2>1. control.at = "expr"
    BY DEF Decompose, EvalGarbage, EvalNumber, EvalUnary, EvalBinary, EvalGroup, EvalTilde, EvalCall, Evaluating
  <2>. QED
    BY <2>1, TypedFacts, TextsAssumption DEF ControlTyped
<1>1. CASE EvalGarbage
  <2>1. Proceed(stack, Err("Grammar"))
    BY <1>1 DEF EvalGarbage
  <2>. QED
    BY <2>1, TypedFacts, ControlsAre, ProceedTyped
<1>2. CASE EvalNumber
  <2> DEFINE c == IF e.factor = None THEN Err("InvalidNumber") ELSE Ok(FromFactor(e.factor))
  <2>1. Proceed(stack, c) /\ e.factor \in Factor \cup {None}
    BY <1>0, <1>2 DEF EvalNumber, Evaluating, IsTree
  <2>2. ControlTyped(c)
    BY <2>1, FirstQuantities, ControlsAre
  <2> HIDE DEF c
  <2>. QED
    BY <2>1, <2>2, TypedFacts, ProceedTyped
<1>3. CASE EvalUnary
  <2>1. Proceed(Append(stack, Frame("unary", e.op)), Evaluate(e.arg)) /\ e.arg \in Tree
    BY <1>0, <1>3 DEF EvalUnary, Evaluating, IsTree
  <2>2. FrameTyped(db, Frame("unary", e.op))
    BY TypedFacts, FrameIs DEF FrameTyped
  <2>. QED
    BY <2>1, <2>2, TypedFacts, ControlsAre, PushTyped
<1>4. CASE EvalBinary
  <2> DEFINE data == [op |-> e.op, right |-> e.right]
  <2>1. Proceed(Append(stack, Frame("left", data)), Evaluate(e.left)) /\ e.left \in Tree /\ e.right \in Tree
    BY <1>0, <1>4 DEF EvalBinary, Evaluating, IsTree
  <2>2. data.right \in Tree
    BY <2>1
  <2> HIDE DEF data
  <2>3. FrameTyped(db, Frame("left", data))
    BY <2>2, TypedFacts, FrameIs DEF FrameTyped
  <2>. QED
    BY <2>1, <2>3, TypedFacts, ControlsAre, PushTyped
<1>5. CASE EvalGroup
  <2>1. Nested(stack, depth, "group", None, e.body) /\ UNCHANGED <<vars, resolving>> /\ e.body \in Tree
    BY <1>0, <1>5 DEF EvalGroup, Evaluating, IsTree
  <2>2. FrameAt(depth, "group", None) = Frame("group", None)
    BY DEF Frame
  <2>3. FrameTyped(db, FrameAt(depth, "group", None))
    BY <2>2, TypedFacts, FrameIs DEF FrameTyped
  <2>. QED
    BY <2>1, <2>3, TypedFacts, NestedTyped
<1>6. CASE EvalTilde
  <2>1. Nested(stack, depth, "tilde", e.name, e.arg) /\ UNCHANGED <<vars, resolving>> /\ e.arg \in Tree
    BY <1>0, <1>6 DEF EvalTilde, Evaluating, IsTree
  <2>2. FrameAt(depth, "tilde", e.name) = Frame("tilde", e.name)
    BY DEF Frame
  <2>3. FrameTyped(db, FrameAt(depth, "tilde", e.name))
    BY <2>2, TypedFacts, FrameIs DEF FrameTyped
  <2>. QED
    BY <2>1, <2>3, TypedFacts, NestedTyped
<1>7. CASE EvalCall
  <2>1. e.args \in Seq(Tree) /\ UNCHANGED <<vars, resolving>>
    BY <1>0, <1>7 DEF EvalCall, Evaluating, IsTree
  <2>2. CASE e.args = <<>>
    <3>1. UNCHANGED depth /\ CallFunctionMulti(e.name, <<>>, stack)
      BY <1>7, <2>2 DEF EvalCall
    <3>2. <<>> \in Seq(UnitValue)
      OBVIOUS
    <3>3. TypedGoes(stack)
      BY <3>1, <3>2, TypedFacts, CallFunctionMultiTyped
    <3>. QED
      BY <2>1, <3>1, <3>3, TypedFacts, GoesTyped
  <2>3. CASE e.args # <<>>
    <3> DEFINE data == [name |-> e.name, done |-> <<>>, rest |-> Tail(e.args)]
    <3>1. Nested(stack, depth, "args", data, Head(e.args))
      BY <1>7, <2>3 DEF EvalCall
    <3>2. Head(e.args) \in Tree /\ Tail(e.args) \in Seq(Tree)
      BY <2>1, <2>3, HeadTailProperties
    <3>3. data.done \in Seq(UnitValue) /\ data.rest \in Seq(Tree)
      BY <3>2
    <3> HIDE DEF data
    <3>4. FrameAt(depth, "args", data) = Frame("args", data)
      BY DEF Frame
    <3>5. FrameTyped(db, FrameAt(depth, "args", data))
      BY <3>3, <3>4, TypedFacts, FrameIs DEF FrameTyped
    <3>. QED
      BY <2>1, <3>1, <3>2, <3>5, TypedFacts, NestedTyped
  <2>. QED
    BY <2>2, <2>3
<1>. QED
  BY <1>1, <1>2, <1>3, <1>4, <1>5, <1>6, <1>7 DEF Decompose

(* The first of some indices is one of them.                                  *)
LEMMA EarliestIs ==
  ASSUME NEW indices \in SUBSET Nat, indices # {}
  PROVE  Earliest(indices) \in indices
<1>1. \E i \in indices : \A j \in indices : i <= j
  BY LeastNatural
<1>. QED
  BY <1>1 DEF Earliest

(* What a name is taken for is in the database.                               *)
LEMMA FirstKnown ==
  ASSUME NEW n \in Names
  PROVE  /\ KnownForms(db, n) # {} => FirstForm(db, n) \in DOMAIN db.units
         /\ KnownSplits(db, n) # {} => /\ FirstSplit(db, n).prefix \in DOMAIN db.prefixes
                                   /\ FirstSplit(db, n).rest \in DOMAIN db.units
<1>1. Singulars(n) \in Seq(Names) /\ Splits(n) \in Seq([prefix : Names, rest : Names])
  BY TextsAssumption
<1>2. Forms(n) \in Seq(Names)
  <2>1. <<n>> \in Seq(Names)
    OBVIOUS
  <2>. QED
    BY <1>1, <2>1, ConcatProperties DEF Forms
<1>3. DOMAIN Forms(n) \subseteq Nat /\ DOMAIN Splits(n) \subseteq Nat
  BY <1>1, <1>2, LenProperties
<1>4. KnownForms(db, n) \in SUBSET Nat /\ KnownSplits(db, n) \in SUBSET Nat
  BY <1>3 DEF KnownForms, KnownSplits
<1>5. ASSUME KnownForms(db, n) # {}
      PROVE  FirstForm(db, n) \in DOMAIN db.units
  <2>1. Earliest(KnownForms(db, n)) \in KnownForms(db, n)
    BY <1>4, <1>5, EarliestIs
  <2>. QED
    BY <2>1 DEF KnownForms, FirstForm
<1>6. ASSUME KnownSplits(db, n) # {}
      PROVE  FirstSplit(db, n).prefix \in DOMAIN db.prefixes /\ FirstSplit(db, n).rest \in DOMAIN db.units
  <2>1. Earliest(KnownSplits(db, n)) \in KnownSplits(db, n)
    BY <1>4, <1>6, EarliestIs
  <2>. QED
    BY <2>1 DEF KnownSplits, FirstSplit
<1>. QED
  BY <1>5, <1>6

(* resolve_name.                                                              *)
LEMMA ResolveTyped ==
  ASSUME TInv, UNCHANGED request, Resolve
  PROVE  Typed'
<1> DEFINE n == control.expr.name
<1>0. n \in Names
  <2>1. control.at = "expr" /\ control.expr.kind = "name"
    BY DEF Resolve, EvalVariable, EvalUnit, EvalPrefixAlone, EvalPrefixed, EvalUnknown, IsNoUnit, IsNoVariable, Evaluating
  <2>. QED
    BY <2>1, TypedFacts, TextsAssumption DEF ControlTyped, IsTree
<1>1. CASE EvalVariable
  <2>1. Proceed(stack, Ok(vars[n])) /\ vars[n] # None
    BY <1>1 DEF EvalVariable
  <2>2. vars[n] \in UnitValue
    BY <1>0, <2>1, TypedFacts
  <2>. QED
    BY <2>1, <2>2, TypedFacts, ControlsAre, ProceedTyped
<1>2. CASE EvalUnit
  <2>1. KnownForms(db, n) # {} /\ ResolveEntry(FirstForm(db, n), stack)
    BY <1>2 DEF EvalUnit
  <2>2. FirstForm(db, n) \in DOMAIN db.units
    BY <1>0, <2>1, FirstKnown
  <2>. QED
    BY <2>1, <2>2, TypedFacts, ResolveEntryTyped
<1>3. CASE EvalPrefixAlone
  <2> DEFINE data == [name |-> n]
  <2>1. Proceed(Append(stack, Frame("prefix", data)), Evaluate(db.prefixes[n])) /\ n \in DOMAIN db.prefixes
    BY <1>3 DEF EvalPrefixAlone
  <2>2. db.prefixes[n] \in Tree
    BY <2>1, TypedFacts, Data DEF IsDatabase
  <2> HIDE DEF data
  <2>3. FrameTyped(db, Frame("prefix", data))
    BY TypedFacts, FrameIs DEF FrameTyped
  <2>. QED
    BY <2>1, <2>2, <2>3, TypedFacts, ControlsAre, PushTyped
<1>4. CASE EvalPrefixed
  <2> DEFINE s == FirstSplit(db, n)
             data == [name |-> s.prefix, unit |-> s.rest]
  <2>1. Proceed(Append(stack, Frame("prefixed", data)), Evaluate(db.prefixes[s.prefix])) /\ KnownSplits(db, n) # {}
    BY <1>4 DEF EvalPrefixed
  <2>2. s.prefix \in DOMAIN db.prefixes /\ data.unit \in DOMAIN db.units
    BY <1>0, <2>1, FirstKnown
  <2> HIDE DEF data
  <2>3. db.prefixes[s.prefix] \in Tree
    BY <2>2, TypedFacts, Data DEF IsDatabase
  <2>4. FrameTyped(db, Frame("prefixed", data))
    BY <2>2, TypedFacts, FrameIs DEF FrameTyped
  <2> HIDE DEF s
  <2>. QED
    BY <2>1, <2>3, <2>4, TypedFacts, ControlsAre, PushTyped
<1>5. CASE EvalUnknown
  <2>1. Proceed(stack, ErrOf("UnknownUnit", n))
    BY <1>5 DEF EvalUnknown
  <2>. QED
    BY <2>1, TypedFacts, ControlsAre, ProceedTyped
<1>. QED
  BY <1>1, <1>2, <1>3, <1>4, <1>5 DEF Resolve

(* A call of a function: its checks, and binding its parameters to quantities. *)
LEMMA ApplyTyped ==
  ASSUME TInv, UNCHANGED request, Apply
  PROVE  Typed'
<1>0. control.at = "call" /\ CallTyped(control) /\ IsCall(control)
  <2>1. control.at = "call"
    BY DEF Apply, CheckArgument, BindAndEnter
  <2>. QED
    BY <2>1, TypedFacts DEF ControlTyped, IInv, Kept
<1>1. CASE CheckArgument
  <2> DEFINE i == control.checked + 1
  <2>1. /\ control.checked < Len(control.args)
        /\ \/ CheckNext(stack, control, control.args[i].factor)
           \/ /\ Item(control.units, i) # None
              /\ Proceed(Append(stack, Frame("check", control)), Evaluate(control.units[i]))
    BY <1>1 DEF CheckArgument
  <2>2. Item(control.units, i) # None => control.units[i] \in Tree
    BY <1>0 DEF Item, CallTyped
  <2>3. FrameTyped(db, Frame("check", control))
    BY <1>0, <2>1, TypedFacts, FrameIs DEF FrameTyped
  <2> HIDE DEF i
  <2>. QED
    BY <1>0, <2>1, <2>2, <2>3, TypedFacts, ControlsAre, CheckNextTyped, PushTyped
<1>2. CASE BindAndEnter
  <2> DEFINE data == [name |-> control.name, params |-> control.params, args |-> control.args,
                      old |-> Replaced(vars, control.params, control.args)]
             frame == Frame("body", data)
             bound == Bound(vars, control.params, control.args)
  <2>1. /\ stack' = Append(stack, frame) /\ control' = Evaluate(control.body)
        /\ Here' = [vars |-> bound, resolving |-> resolving, depth |-> depth]
    BY <1>2 DEF BindAndEnter, Continue, Here
  <2>2. \A k \in DOMAIN control.args : control.args[k] \in UnitValue
    BY <1>0, ElementOfSeq, LenProperties DEF CallTyped
  <2>3. ASSUME NEW n \in Names
        PROVE  bound[n] \in UnitValue \cup {None}
    <3>1. Uses(control.params, n) # {} => LastUse(control.params, n) \in DOMAIN control.args
      BY <1>0, LastUseIs DEF IsCall, CallTyped
    <3>. QED
      BY <2>2, <3>1, TypedFacts DEF Bound
  <2>4. bound \in [Names -> UnitValue \cup {None}]
    BY <2>3 DEF Bound
  <2> HIDE DEF bound
  <2>5. StateTyped(Here')
    BY <2>1, <2>4, TypedFacts DEF StateTyped
  <2>6. FrameTyped(db, frame)
    <3> HIDE DEF data
    <3>. QED
      BY TypedFacts, FrameIs DEF FrameTyped
  <2>7. ControlTyped(control')
    BY <1>0, <2>1, ControlsAre DEF CallTyped
  <2> HIDE DEF frame
  <2>. QED
    BY <2>1, <2>5, <2>6, <2>7, TypedFacts, TypedMakes
<1>. QED
  BY <1>1, <1>2 DEF Apply

(* Both sides of an operator are quantities, and so is what it makes of them. *)
LEMMA OperateTyped ==
  ASSUME NEW op, NEW v \in UnitValue, NEW w \in UnitValue
  PROVE  ControlTyped(Operate(op, v, w))
<1> DEFINE minus == [w EXCEPT !.factor = Negated(@)]
<1>1. minus \in UnitValue
  BY QuantityIs, FactorsAssumption
<1>2. /\ Multiply(v, w) \in UnitValue /\ Divide(v, w) \in UnitValue /\ Add(v, w) \in UnitValue
      /\ Add(v, minus) \in UnitValue /\ Pow(v, w.factor) \in UnitValue
  <2> HIDE DEF minus
  <2>. QED
    BY <1>1, OperationsGiveQuantities
<1>3. Operate(op, v, w) \in {Ok(Multiply(v, w)), Ok(Divide(v, w)), Ok(Add(v, w)), Ok(Add(v, minus)), Ok(Pow(v, w.factor)),
                             Err("DimensionlessRequired"), Err("IncompatibleDimensions"), Err("ExponentNotDimensionless")}
  BY DEF Operate
<1> HIDE DEF minus
<1>. QED
  BY <1>2, <1>3, ControlsAre

(* What is left of the calls when the one on top returns.                     *)
LEMMA TypedReturn ==
  ASSUME TInv, stack # <<>>
  PROVE  /\ \E S : Below \in Seq(S)
         /\ CallsTyped(db, Below) /\ FrameTyped(db, Top) /\ FrameOK(Top) /\ StateTyped(Top.before)
  BY PoppedTyped, Returned DEF TInv, IInv, Valid, FrameTyped

(* The calls that changed nothing.                                            *)
LEMMA PlainReturnTyped ==
  ASSUME TInv, UNCHANGED request,
         AfterUnary \/ AfterLeft \/ AfterRight \/ SwallowUnknownUnit \/ AfterPrefix \/ AfterPrefixed
           \/ AfterCheck \/ AfterRadian \/ HandOn
  PROVE  Typed'
<1>0. stack # <<>> /\ Typed /\ CallsTyped(db, Below) /\ FrameTyped(db, Top) /\ FrameOK(Top) /\ \E S : Below \in Seq(S)
  <2>1. stack # <<>>
    BY DEF AfterUnary, AfterLeft, AfterRight, SwallowUnknownUnit, AfterPrefix, AfterPrefixed, AfterCheck,
           AfterRadian, HandOn, Succeeds, Returns
  <2>. QED
    BY <2>1, TypedReturn, TypedFacts
<1> DEFINE v == control.value
<1>v. control.at = "ok" => v \in UnitValue
  BY TypedFacts DEF ControlTyped
<1>1. ASSUME NEW w \in UnitValue, Proceed(Below, Ok(w))
      PROVE  Typed'
  BY <1>0, <1>1, ControlsAre, ProceedTyped
<1>2. ASSUME NEW code, NEW name, Proceed(Below, ErrOf(code, name))
      PROVE  Typed'
  BY <1>0, <1>2, ControlsAre, ProceedTyped
<1>3. CASE AfterUnary
  <2> DEFINE w == IF Top.data = "per" THEN Invert(v) ELSE [v EXCEPT !.factor = Negated(@)]
  <2>1. v \in UnitValue /\ Proceed(Below, Ok(w))
    BY <1>v, <1>3 DEF AfterUnary, Succeeds
  <2>2. w \in UnitValue
    BY <2>1, OperationsGiveQuantities, QuantityIs, FactorsAssumption
  <2> HIDE DEF w
  <2>. QED
    BY <1>1, <2>1, <2>2
<1>4. CASE AfterLeft
  <2> DEFINE data == [op |-> Top.data.op, left |-> v]
  <2>1. /\ v \in UnitValue /\ Top.kind = "left"
        /\ Proceed(Append(Below, Frame("right", data)), Evaluate(Top.data.right))
    BY <1>v, <1>4 DEF AfterLeft, Succeeds
  <2>2. data.left \in UnitValue
    BY <2>1
  <2>3. Top.data.right \in Tree
    BY <1>0, <2>1 DEF FrameTyped
  <2> HIDE DEF data
  <2>4. FrameTyped(db, Frame("right", data))
    BY <2>2, TypedFacts, FrameIs DEF FrameTyped
  <2>. QED
    BY <1>0, <2>1, <2>3, <2>4, ControlsAre, PushTyped
<1>5. CASE AfterRight
  <2>1. v \in UnitValue /\ Top.kind = "right" /\ Proceed(Below, Operate(Top.data.op, Top.data.left, v))
    BY <1>v, <1>5 DEF AfterRight, Succeeds
  <2>2. Top.data.left \in UnitValue
    BY <1>0, <2>1 DEF FrameTyped
  <2>. QED
    BY <1>0, <2>1, <2>2, OperateTyped, ProceedTyped
<1>6. CASE SwallowUnknownUnit
  <2>1. Top.kind = "right" /\ Proceed(Below, Ok(Top.data.left))
    BY <1>6 DEF SwallowUnknownUnit, Swallows
  <2>. QED
    BY <1>0, <1>1, <2>1 DEF FrameTyped
<1>7. CASE AfterPrefix
  <2> DEFINE frame == Frame("times", v)
  <2>1. v \in UnitValue /\ Top.kind = "prefixed" /\ ResolveEntry(Top.data.unit, Append(Below, frame))
    BY <1>v, <1>7 DEF AfterPrefix, Succeeds
  <2>2. Top.data.unit \in DOMAIN db.units
    BY <1>0, <2>1 DEF FrameTyped
  <2>3. FrameTyped(db, frame)
    <3> HIDE DEF v
    <3>. QED
      BY <2>1, TypedFacts, FrameIs DEF FrameTyped
  <2> HIDE DEF frame
  <2>4. CallsTyped(db, Append(Below, frame))
    BY <1>0, <2>3, PushedTyped
  <2>5. \E S : Append(Below, frame) \in Seq(S)
    <3>1. PICK R : Below \in Seq(R)
      BY <1>0
    <3> DEFINE S == R \cup {frame}
    <3>2. Below \in Seq(S) /\ frame \in S
      BY <3>1
    <3>3. Append(Below, frame) \in Seq(S)
      BY <3>2, AppendProperties
    <3>. QED
      BY <3>3
  <2>. QED
    BY <2>1, <2>2, <2>4, <2>5, ResolveEntryTyped
<1>8. CASE AfterPrefixed
  <2>1. v \in UnitValue /\ Top.kind = "times" /\ Proceed(Below, Ok(Multiply(v, Top.data)))
    BY <1>v, <1>8 DEF AfterPrefixed, Succeeds
  <2>2. Top.data \in UnitValue
    BY <1>0, <2>1 DEF FrameTyped
  <2>. QED
    BY <1>1, <2>1, <2>2, OperationsGiveQuantities
<1>9. CASE AfterCheck
  <2>1. Top.kind = "check"
    BY <1>9 DEF AfterCheck, Succeeds
  <2>2. CallTyped(Top.data) /\ Top.data.checked < Len(Top.data.args) /\ IsCall(Top.data)
    BY <1>0, <2>1 DEF FrameTyped, FrameOK
  <2>3. \/ \E value : CheckNext(Below, Top.data, value)
        \/ \E code, name : Proceed(Below, ErrOf(code, name))
    BY <1>9 DEF AfterCheck
  <2>. QED
    BY <1>0, <1>2, <2>2, <2>3, CheckNextTyped
<1>10. CASE AfterRadian
  <2> DEFINE radian == IF control.at = "ok" THEN v ELSE Unity
             f == Top.data.name
             angle == Divide(Top.data.value, radian)
             scaled == [radian EXCEPT !.factor = Times(@, Computed(f, Top.data.value.factor))]
  <2>1. IsAngle(Top.data)
    BY <1>0, <1>10 DEF AfterRadian, Returns, FrameTyped
  <2>2. radian \in UnitValue
    BY <1>v, FirstQuantities
  <2>3. \/ Proceed(Below, Ok(scaled))
        \/ Proceed(Below, Ok(FromFactor(Computed(f, angle.factor))))
        \/ \E code, name : Proceed(Below, ErrOf(code, name))
    <3> HIDE DEF radian
    <3>. QED
      BY <1>10 DEF AfterRadian, radian
  <2> HIDE DEF radian
  <2>4. \A x \in Factor : Computed(f, x) \in Factor
    BY <2>1, FactorsAssumption DEF IsAngle
  <2>5. scaled \in UnitValue
    BY <2>1, <2>2, <2>4, AlgebraAssumption, QuantityIs DEF IsAngle
  <2>6. FromFactor(Computed(f, angle.factor)) \in UnitValue
    <3>1. angle \in UnitValue
      BY <2>1, <2>2, OperationsGiveQuantities DEF IsAngle
    <3> HIDE DEF angle
    <3>. QED
      BY <2>4, <3>1, QuantityIs, FirstQuantities
  <2> HIDE DEF scaled, angle, f
  <2>. QED
    BY <1>1, <1>2, <2>3, <2>5, <2>6
<1>11. CASE HandOn
  <2>1. Proceed(Below, control)
    BY <1>11 DEF HandOn
  <2>. QED
    BY <1>0, <2>1, TypedFacts, ProceedTyped
<1>. QED
  BY <1>3, <1>4, <1>5, <1>6, <1>7, <1>8, <1>9, <1>10, <1>11

(* eval_nested takes its level back.                                          *)
LEMMA NestedReturnTyped ==
  ASSUME TInv, UNCHANGED request, AfterGroup \/ AfterTilde \/ AfterArgument
  PROVE  Typed'
<1> DEFINE h == [vars |-> vars, resolving |-> resolving, depth |-> depth - 1]
           v == control.value
<1>1. stack # <<>> /\ Top.kind \in {"group", "args", "tilde"} /\ control.at \in {"ok", "err"}
      /\ UNCHANGED <<vars, resolving>>
  BY DEF AfterGroup, AfterTilde, AfterArgument, Returns
<1>2. /\ CallsTyped(db, Below) /\ FrameTyped(db, Top) /\ \E S : Below \in Seq(S)
      /\ Top.before = h /\ StateTyped(h)
  BY <1>1, TypedReturn, Returned DEF TInv, IInv
<1>v. control.at = "ok" => v \in UnitValue
  BY TypedFacts DEF ControlTyped
<1>3. ASSUME Continue(Below, control), depth' = depth - 1
      PROVE  Typed'
  <2>1. Here' = h /\ stack' = Below /\ control' = control
    BY <1>1, <1>3 DEF Here, Continue
  <2> HIDE DEF h
  <2>. QED
    BY <1>2, <2>1, TypedFacts, TypedStays
<1>4. ASSUME TypedGoes(Below), depth' = depth - 1
      PROVE  Typed'
  <2>1. StateTyped([vars |-> vars, resolving |-> resolving, depth |-> depth'])
    BY <1>2, <1>4
  <2>. QED
    BY <1>1, <1>2, <1>4, <2>1, GoesTyped
<1>5. CASE AfterGroup
  BY <1>3, <1>5 DEF AfterGroup
<1>6. CASE AfterTilde
  <2>1. depth' = depth - 1
    BY <1>6 DEF AfterTilde
  <2>2. \/ Continue(Below, control)
        \/ v \in UnitValue /\ CallInverse(Top.data, v, Below)
    BY <1>1, <1>v, <1>6 DEF AfterTilde
  <2>. QED
    BY <1>3, <1>4, <2>1, <2>2, TypedFacts, CallInverseTyped
<1>7. CASE AfterArgument
  <2> DEFINE name == Top.data.name
             rest == Top.data.rest
             done == Append(Top.data.done, v)
             data == [name |-> name, done |-> done, rest |-> Tail(rest)]
  <2>1. Top.data.done \in Seq(UnitValue) /\ rest \in Seq(Tree)
    BY <1>2, <1>7 DEF AfterArgument, Returns, FrameTyped
  <2>2. \/ Continue(Below, control) /\ depth' = depth - 1
        \/ control.at = "ok" /\ depth' = depth - 1 /\ CallFunctionMulti(name, done, Below)
        \/ control.at = "ok" /\ rest # <<>> /\ Nested(Below, depth - 1, "args", data, Head(rest))
    BY <1>1, <1>7 DEF AfterArgument
  <2>3. control.at = "ok" => done \in Seq(UnitValue)
    BY <1>v, <2>1, AppendProperties
  <2>4. ASSUME control.at = "ok", rest # <<>>, Nested(Below, depth - 1, "args", data, Head(rest))
        PROVE  Typed'
    <3>1. Head(rest) \in Tree /\ Tail(rest) \in Seq(Tree)
      BY <2>1, <2>4, HeadTailProperties
    <3>2. data.done \in Seq(UnitValue) /\ data.rest \in Seq(Tree)
      BY <2>3, <2>4, <3>1
    <3> DEFINE frame == FrameAt(depth - 1, "args", data)
    <3>3. frame.kind = "args" /\ frame.data = data /\ frame.before = h
      BY DEF FrameAt
    <3> HIDE DEF frame, data, h
    <3>4. FrameTyped(db, frame)
      BY <1>2, <3>2, <3>3 DEF FrameTyped
    <3>. QED
      BY <1>1, <1>2, <2>4, <3>1, <3>4, NestedTyped DEF frame, h
  <2> HIDE DEF done, data, rest, name
  <2>. QED
    BY <1>3, <1>4, <2>2, <2>3, <2>4, TypedFacts, CallFunctionMultiTyped
<1>. QED
  BY <1>5, <1>6, <1>7

(* The name and the variables are again as they were.                         *)
LEMMA StateReturnTyped ==
  ASSUME TInv, UNCHANGED request, AfterEntry \/ AfterBody
  PROVE  Typed'
<1>1. stack # <<>> /\ stack' = Below /\ control' = control
  BY DEF AfterEntry, AfterBody, Returns, Continue
<1>2. Here' = Top.before
  <2>1. CASE AfterEntry
    <3>1. Here' = [vars |-> vars, resolving |-> resolving \ {Top.data.name}, depth |-> depth - 1]
      BY <2>1 DEF AfterEntry, Here
    <3>. QED
      BY <1>1, <2>1, <3>1, Returned DEF TInv, IInv, AfterEntry, Returns
  <2>2. CASE AfterBody
    <3>1. Here' = [vars |-> Bound(vars, Top.data.params, Top.data.old), resolving |-> resolving, depth |-> depth]
      BY <2>2 DEF AfterBody, Here
    <3>. QED
      BY <1>1, <2>2, <3>1, Returned DEF TInv, IInv, AfterBody, Returns
  <2>. QED
    BY <2>1, <2>2
<1>. QED
  BY <1>1, <1>2, TypedReturn, TypedFacts, TypedStays

(* An evaluation begins with a tree and with variables that are quantities.   *)
LEMMA InitTyped ==
  Init => TInv
<1> SUFFICES ASSUME Init PROVE TInv
  OBVIOUS
<1>1. /\ request \in Requests /\ control = Evaluate(request.expr) /\ stack = <<>>
      /\ Here = [vars |-> request.vars, resolving |-> {}, depth |-> 0]
  BY DEF Init, Here
<1>2. request.expr \in Tree /\ request.vars \in [Names -> UnitValue \cup {None}] /\ 0 \in 0 .. MaxDepth
  BY <1>1, EvaluatorAssumption
<1>3. StateTyped(Here)
  BY <1>1, <1>2 DEF StateTyped
<1>4. CallsTyped(db, <<>>)
  <2>1. Len(<<>>) = 0
    OBVIOUS
  <2>. QED
    BY <2>1 DEF CallsTyped
<1>. QED
  BY <1>1, <1>2, <1>3, <1>4, ControlsAre, InitInv DEF TInv, Typed

LEMMA NextTyped ==
  ASSUME DistinctParameters, TInv, [Next]_all
  PROVE  TInv'
<1>0. IInv'
  BY NextInv DEF TInv
<1>1. CASE UNCHANGED all
  BY <1>0, <1>1 DEF all, TInv, Typed, Here, db
<1>2. CASE Step
  <2>1. UNCHANGED request
    BY <1>2 DEF Step
  <2>2. CASE Decompose
    BY <1>0, <2>1, <2>2, DecomposeTyped DEF TInv
  <2>3. CASE Resolve
    BY <1>0, <2>1, <2>3, ResolveTyped DEF TInv
  <2>4. CASE Apply
    BY <1>0, <2>1, <2>4, ApplyTyped DEF TInv
  <2>5. CASE Return
    <3>1. Typed'
      BY <2>1, <2>5, PlainReturnTyped, NestedReturnTyped, StateReturnTyped DEF Return
    <3>. QED
      BY <1>0, <3>1 DEF TInv
  <2>6. CASE Abort
    <3>1. Proceed(stack, [at |-> "aborted"]) /\ ControlTyped([at |-> "aborted"])
      BY <2>6 DEF Abort, ControlTyped
    <3>2. Typed'
      BY <2>1, <3>1, TypedFacts, ProceedTyped
    <3>. QED
      BY <1>0, <3>2 DEF TInv
  <2>. QED
    BY <1>2, <2>2, <2>3, <2>4, <2>5, <2>6 DEF Step
<1>. QED
  BY <1>1, <1>2 DEF Next, Done

(* Every value that an evaluation computes or binds is a quantity, whatever   *)
(* the text and the database, and MAX_DEPTH is never exceeded (eval_nested,   *)
(* resolve_entry).                                                            *)
THEOREM EvaluationsStayTyped ==
  ASSUME DistinctParameters
  PROVE  Spec => []TypeOK
<1>1. TInv => TypeOK
  <2> SUFFICES ASSUME TInv PROVE TypeOK
    OBVIOUS
  <2>1. control.at = "ok" => IsUnitValue(control.value)
    BY TypedFacts, QuantityIs DEF ControlTyped
  <2>2. DOMAIN vars = Names /\ \A n \in Names : vars[n] # None => IsUnitValue(vars[n])
    BY TypedFacts, QuantityIs
  <2>3. \A i \in 1 .. Len(stack) : stack[i].before.depth \in 0 .. MaxDepth
    BY TypedFacts DEF CallsTyped, FrameTyped, StateTyped
  <2>. QED
    BY <2>1, <2>2, <2>3, TypedFacts DEF TypeOK, ControlTyped
<1>2. TInv /\ [Next]_all => TInv'
  BY NextTyped
<1>. QED
  BY <1>1, <1>2, InitTyped, PTL DEF Spec

-----------------------------------------------------------------------------
\* Meanings: the recursion on the frames of the native stack, and what each frame
\* makes of a result.

(* A meaning is that of the parts with one frame fewer: the recursive         *)
(* definition defines a function.                                             *)
LEMMA MeaningRecurs ==
  ASSUME NEW d
  PROVE  Meaning(d) = [n \in Int |-> WithFrames(d, n, Meaning(d)[n - 1], Meaning(d)[n - 2])]
<1> DEFINE Solves(g, n) == \A i \in Int : i <= n => g[i] = WithFrames(d, i, g[i - 1], g[i - 2])
           known == {n \in Nat : \E g : Solves(g, n)}
           Solution(m) == m = [n \in Int |-> WithFrames(d, n, m[n - 1], m[n - 2])]
<1>1. ASSUME NEW n \in Int, n <= 0, NEW b, NEW l, NEW c, NEW k
      PROVE  WithFrames(d, n, b, l) = WithFrames(d, 0, c, k)
  <2>1. ASSUME NEW i \in Int, i <= 0, NEW x, NEW y
        PROVE  WithFrames(d, i, x, y) = [e \in Tree |-> [h \in Place |-> Aborted]]
    <3>1. \A e, h : (IF i <= 0 THEN Aborted ELSE TextMeans(d, x, y, e, h)) = Aborted
      BY <2>1
    <3>. QED
      BY <3>1, Zenon DEF WithFrames
  <2>. QED
    BY <1>1, <2>1
<1> DEFINE none == WithFrames(d, 0, d, d)
<1>2. 0 \in known
  <2> DEFINE g == [i \in Int |-> none]
  <2>1. \A i \in Int : i <= 0 => g[i] = WithFrames(d, i, g[i - 1], g[i - 2])
    <3>1. \A i \in Int : g[i] = none
      OBVIOUS
    <3> HIDE DEF g
    <3>. QED
      BY <1>1, <3>1
  <2> HIDE DEF g
  <2>. QED
    BY <2>1
<1>3. ASSUME NEW n \in known PROVE n + 1 \in known
  <2>1. PICK g : Solves(g, n)
    OBVIOUS
  <2> DEFINE h == [i \in Int |-> IF i = n + 1 THEN WithFrames(d, n + 1, g[n], g[n - 1]) ELSE g[i]]
  <2>2. ASSUME NEW i \in Int, i <= n + 1
        PROVE  h[i] = WithFrames(d, i, h[i - 1], h[i - 2])
    <3>1. n \in Nat
      OBVIOUS
    <3>2. CASE i = n + 1
      <4>1. i - 1 = n /\ i - 2 = n - 1 /\ i - 1 \in Int /\ i - 2 \in Int /\ i - 1 # n + 1 /\ i - 2 # n + 1
        BY <3>1, <3>2
      <4>2. h[i] = WithFrames(d, n + 1, g[n], g[n - 1]) /\ h[i - 1] = g[n] /\ h[i - 2] = g[n - 1]
        BY <3>2, <4>1
      <4> HIDE DEF h
      <4>. QED
        BY <3>2, <4>2
    <3>3. CASE i # n + 1
      <4>1. i <= n /\ i - 1 \in Int /\ i - 2 \in Int /\ i - 1 # n + 1 /\ i - 2 # n + 1
        BY <2>2, <3>1, <3>3
      <4>2. h[i] = g[i] /\ h[i - 1] = g[i - 1] /\ h[i - 2] = g[i - 2]
        BY <3>3, <4>1
      <4> HIDE DEF h
      <4>. QED
        BY <2>1, <4>1, <4>2
    <3>. QED
      BY <3>2, <3>3
  <2> HIDE DEF h
  <2>3. Solves(h, n + 1)
    BY <2>2
  <2> HIDE DEF Solves
  <2>. QED
    BY <2>3
<1> HIDE DEF none
<1>4. known = Nat
  <2> HIDE DEF Solves
  <2>1. known \in SUBSET Nat
    OBVIOUS
  <2> HIDE DEF known
  <2>. QED
    BY <1>2, <1>3, <2>1, NaturalInduction
<1> DEFINE some == [n \in Nat |-> CHOOSE g : Solves(g, n)]
           Stage(n) == IF n <= 0 THEN 0 ELSE n
           m == [n \in Int |-> some[Stage(n)][n]]
<1>5. \A n \in Nat : Solves(some[n], n)
  <2> HIDE DEF Solves
  <2>. QED
    BY <1>4
<1> HIDE DEF some
<1>6. ASSUME NEW j \in Nat
      PROVE  \A n \in Nat, i \in Int : i <= j /\ j <= n => some[n][i] = some[j][i]
  <2> DEFINE Same(k) == \A n, l \in Nat, i \in Int : i <= k /\ k <= n /\ k <= l => some[n][i] = some[l][i]
             same == {k \in Nat : Same(k)}
  <2>1. 0 \in same
    <3>1. ASSUME NEW n \in Nat, NEW i \in Int, i <= 0
          PROVE  some[n][i] = none
      <4>1. i <= n
        BY <3>1
      <4>2. some[n][i] = WithFrames(d, i, some[n][i - 1], some[n][i - 2])
        BY <1>5, <4>1
      <4>. QED
        BY <1>1, <3>1, <4>2 DEF none
    <3>2. Same(0)
      BY <3>1
    <3> HIDE DEF Same
    <3>. QED
      BY <3>2
  <2>2. ASSUME NEW k \in same PROVE k + 1 \in same
    <3>1. k \in Nat /\ Same(k)
      OBVIOUS
    <3>2. ASSUME NEW n \in Nat, NEW l \in Nat, NEW i \in Int, i <= k + 1, k + 1 <= n, k + 1 <= l
          PROVE  some[n][i] = some[l][i]
      <4>1. CASE i <= k
        <5>1. k <= n /\ k <= l
          BY <3>1, <3>2
        <5>. QED
          BY <3>1, <4>1, <5>1
      <4>2. CASE i = k + 1
        <5>1. /\ i - 1 \in Int /\ i - 2 \in Int /\ i - 1 <= k /\ i - 2 <= k /\ k <= n /\ k <= l
              /\ i <= n /\ i <= l
          BY <3>1, <3>2, <4>2
        <5>2. some[n][i - 1] = some[l][i - 1] /\ some[n][i - 2] = some[l][i - 2]
          BY <3>1, <5>1
        <5>3. /\ some[n][i] = WithFrames(d, i, some[n][i - 1], some[n][i - 2])
              /\ some[l][i] = WithFrames(d, i, some[l][i - 1], some[l][i - 2])
          BY <1>5, <5>1
        <5>. QED
          BY <5>2, <5>3
      <4>. QED
        BY <3>1, <3>2, <4>1, <4>2
    <3>3. Same(k + 1) /\ k + 1 \in Nat
      BY <3>1, <3>2
    <3> HIDE DEF Same
    <3>. QED
      BY <3>3
  <2>3. same \in SUBSET Nat
    OBVIOUS
  <2>4. j \in same
    <3> HIDE DEF same
    <3>. QED
      BY <2>1, <2>2, <2>3, NaturalInduction
  <2>5. Same(j)
    BY <2>4
  <2>. QED
    BY <2>5
<1>7. ASSUME NEW n \in Int
      PROVE  m[n] = WithFrames(d, n, m[n - 1], m[n - 2])
  <2> DEFINE k == Stage(n)
  <2>1. k \in Nat /\ n <= k
    OBVIOUS
  <2>2. some[k][n] = WithFrames(d, n, some[k][n - 1], some[k][n - 2])
    BY <1>5, <2>1
  <2>3. CASE n <= 0
    <3>1. m[n] = some[k][n]
      OBVIOUS
    <3> HIDE DEF m
    <3>. QED
      BY <1>1, <2>2, <2>3, <3>1
  <2>4. ASSUME n > 0, NEW i \in Int, i <= n, i >= n - 2
        PROVE  m[i] = some[n][i]
    <3>1. Stage(i) \in Nat /\ i <= Stage(i) /\ Stage(i) <= n /\ n \in Nat
      BY <2>4
    <3>2. m[i] = some[Stage(i)][i]
      OBVIOUS
    <3> HIDE DEF m, Stage
    <3>. QED
      BY <1>6, <3>1, <3>2
  <2>5. CASE n > 0
    <3>1. /\ n - 1 \in Int /\ n - 1 <= n /\ n - 1 >= n - 2 /\ n - 2 \in Int /\ n - 2 <= n
          /\ n - 2 >= n - 2 /\ n <= n /\ n >= n - 2 /\ k = n
      BY <2>5
    <3>2. m[n] = some[n][n] /\ m[n - 1] = some[n][n - 1] /\ m[n - 2] = some[n][n - 2]
      <4> HIDE DEF m, k, Stage
      <4>. QED
        BY <2>4, <2>5, <3>1
    <3> HIDE DEF m
    <3>. QED
      BY <2>2, <3>1, <3>2
  <2>. QED
    BY <2>3, <2>5
<1>8. Solution(m)
  <2> DEFINE r == [n \in Int |-> WithFrames(d, n, m[n - 1], m[n - 2])]
  <2>1. m = [n \in Int |-> m[n]]
    OBVIOUS
  <2> HIDE DEF m
  <2>. QED
    BY <1>7, <2>1
<1> DEFINE c == CHOOSE f : Solution(f)
<1>9. Solution(c)
  <2> HIDE DEF Solution, m
  <2>. QED
    BY <1>8
<1>10. Meaning(d) = c
  BY DEF Meaning
<1> HIDE DEF c
<1>. QED
  BY <1>9, <1>10

(* What a text means at a place.                                              *)
LEMMA MeaningIs ==
  ASSUME NEW d, NEW n \in Int, NEW e \in Tree, NEW h \in Place
  PROVE  /\ n <= 0 => Meaning(d)[n][e][h] = Aborted
         /\ n > 0 => Meaning(d)[n][e][h] = TextMeans(d, Meaning(d)[n - 1], Meaning(d)[n - 2], e, h)
<1>1. Meaning(d)[n] = WithFrames(d, n, Meaning(d)[n - 1], Meaning(d)[n - 2])
  BY MeaningRecurs
<1>. QED
  BY <1>1 DEF WithFrames

-----------------------------------------------------------------------------
\* Results in order: the first failure, or all values.

(* The earliest of some indices is the one that none precedes.                *)
LEMMA EarliestOf ==
  ASSUME NEW indices \in SUBSET Nat, NEW i \in indices, \A j \in indices : i <= j
  PROVE  Earliest(indices) = i
<1>1. Earliest(indices) \in indices /\ \A j \in indices : Earliest(indices) <= j
  BY DEF Earliest
<1>2. i \in Nat /\ Earliest(indices) \in Nat /\ i <= Earliest(indices) /\ Earliest(indices) <= i
  BY <1>1
<1>. QED
  BY <1>2

(* When the first of some results is no failure, the first failure is that of *)
(* the others, if there is one.                                               *)
LEMMA FailuresShift ==
  ASSUME NEW r, NEW s, NEW a \in Nat, NEW k \in Int, a + k \in Nat, NEW n \in Int,
         DOMAIN r = a .. n, DOMAIN s = a + k + 1 .. n + k, ~Fails(r[a]),
         \A i \in a + 1 .. n : s[i + k] = r[i]
  PROVE  /\ Failures(r) = {} <=> Failures(s) = {}
         /\ Failures(r) # {} => FirstFailure(r) = FirstFailure(s)
<1>1. \A i \in Failures(r) : i \in a + 1 .. n /\ i + k \in Failures(s)
  <2>1. ASSUME NEW i \in Failures(r)
        PROVE  i \in a + 1 .. n /\ i + k \in Failures(s)
    <3>1. i \in a .. n /\ Fails(r[i]) /\ i # a
      BY DEF Failures
    <3>2. i \in a + 1 .. n /\ i + k \in a + k + 1 .. n + k
      BY <3>1
    <3>. QED
      BY <3>1, <3>2 DEF Failures
  <2>. QED
    BY <2>1
<1>2. \A j \in Failures(s) : j \in a + k + 1 .. n + k /\ j - k \in Failures(r) /\ r[j - k] = s[j]
  <2>1. ASSUME NEW j \in Failures(s)
        PROVE  j \in a + k + 1 .. n + k /\ j - k \in Failures(r) /\ r[j - k] = s[j]
    <3>1. j \in a + k + 1 .. n + k /\ Fails(s[j])
      BY DEF Failures
    <3>2. j - k \in a + 1 .. n /\ j - k \in a .. n /\ (j - k) + k = j
      BY <3>1
    <3>3. s[j] = r[j - k]
      BY <3>2
    <3>. QED
      BY <3>1, <3>2, <3>3 DEF Failures
  <2>. QED
    BY <2>1
<1>3. ASSUME Failures(r) # {}
      PROVE  FirstFailure(r) = FirstFailure(s)
  <2>1. Failures(r) \in SUBSET Nat /\ Failures(s) \in SUBSET Nat
    BY <1>1, <1>2
  <2>2. PICK i \in Failures(r) : \A j \in Failures(r) : i <= j
    BY <1>3, <2>1, LeastNatural
  <2>3. Earliest(Failures(r)) = i
    BY <2>1, <2>2, EarliestOf
  <2>4. i + k \in Failures(s) /\ \A j \in Failures(s) : i + k <= j
    <3>1. ASSUME NEW j \in Failures(s)
          PROVE  i + k <= j
      <4>1. j \in Int /\ i \in Int /\ i <= j - k
        BY <1>2, <2>1, <2>2
      <4>. QED
        BY <4>1
    <3>. QED
      BY <1>1, <3>1
  <2>5. Earliest(Failures(s)) = i + k
    BY <2>1, <2>4, EarliestOf
  <2>6. s[i + k] = r[i]
    BY <1>1
  <2>. QED
    BY <2>3, <2>5, <2>6 DEF FirstFailure
<1>. QED
  BY <1>1, <1>2, <1>3

(* When the first of some results is a failure, it is the first failure.      *)
LEMMA FailsAtOnce ==
  ASSUME NEW r, NEW a \in Nat, NEW n \in Int, DOMAIN r = a .. n, a <= n, Fails(r[a])
  PROVE  Failures(r) # {} /\ FirstFailure(r) = r[a]
<1>1. a \in Failures(r) /\ Failures(r) \in SUBSET Nat /\ \A j \in Failures(r) : a <= j
  BY DEF Failures
<1>2. Earliest(Failures(r)) = a
  BY <1>1, EarliestOf
<1>. QED
  BY <1>1, <1>2 DEF FirstFailure

-----------------------------------------------------------------------------
\* A call goes on from one argument to the next.

\* What a call means once the argument after those checked is x in the unit demanded.
NextMeans(below, call, x, h) ==
  IF InDomain(call, call.checked + 1, x) THEN CallMeans(below, [call EXCEPT !.checked = call.checked + 1], h)
  ELSE ErrOf("NotInDomain", call.name)

\* What it means once the unit demanded of that argument is r.
CheckedMeans(below, call, r, h) ==
  LET arg == call.args[call.checked + 1] IN
  IF Fails(r) THEN r
  ELSE IF AreConformable(arg, r.value) THEN NextMeans(below, call, Over(arg.factor, r.value.factor), h)
  ELSE ErrOf("WrongDimensions", call.name)

(* A call whose arguments are all checked means its body.                     *)
LEMMA CallEnters ==
  ASSUME NEW below, NEW call, call.args \in Seq(UnitValue), call.checked = Len(call.args), NEW h
  PROVE  CallMeans(below, call, h) = below[call.body][[h EXCEPT !.vars = Bound(@, call.params, call.args)]]
<1> DEFINE checks == [i \in call.checked + 1 .. Len(call.args) |-> CheckMeans(below, call, i, h)]
<1>1. Len(call.args) \in Nat
  BY LenProperties
<1>2. DOMAIN checks = call.checked + 1 .. Len(call.args) /\ call.checked + 1 .. Len(call.args) = {}
  BY <1>1
<1>3. Failures(checks) = {}
  BY <1>2 DEF Failures
<1> HIDE DEF checks
<1>. QED
  BY <1>3 DEF CallMeans, checks

(* Any other call means what comes of its next argument.                      *)
LEMMA CallChecks ==
  ASSUME NEW below, NEW call, IsCall(call), CallTyped(call), call.checked < Len(call.args), NEW h
  PROVE  CallMeans(below, call, h) =
           IF Item(call.units, call.checked + 1) = None
           THEN NextMeans(below, call, call.args[call.checked + 1].factor, h)
           ELSE CheckedMeans(below, call, below[call.units[call.checked + 1]][h], h)
<1> DEFINE c == call.checked
           n == Len(call.args)
           next == [call EXCEPT !.checked = c + 1]
           Checks(f) == [i \in f.checked + 1 .. Len(f.args) |-> CheckMeans(below, f, i, h)]
           r == CheckMeans(below, call, c + 1, h)
           enter == below[call.body][[h EXCEPT !.vars = Bound(@, call.params, call.args)]]
<1>1. n \in Nat /\ c \in Nat /\ c < n
  BY LenProperties DEF CallTyped
<1>2. /\ next.checked = c + 1 /\ next.args = call.args /\ next.units = call.units /\ next.domain = call.domain
      /\ next.name = call.name /\ next.body = call.body /\ next.params = call.params
  BY DEF IsCall
<1> HIDE DEF next
<1>3. \A i : CheckMeans(below, next, i, h) = CheckMeans(below, call, i, h)
  BY <1>2 DEF CheckMeans, InDomain
<1>4. /\ DOMAIN Checks(call) = c + 1 .. n /\ DOMAIN Checks(next) = (c + 1) + 1 .. n + 0
      /\ Checks(call)[c + 1] = r
      /\ \A i \in (c + 1) + 1 .. n : Checks(next)[i + 0] = Checks(call)[i]
  <2>1. c + 1 \in c + 1 .. n
    BY <1>1
  <2>2. \A i \in (c + 1) + 1 .. n : i + 0 = i /\ i \in c + 1 .. n
    BY <1>1
  <2>3. n + 0 = n
    BY <1>1
  <2> HIDE DEF c, n
  <2>. QED
    BY <1>2, <1>3, <2>1, <2>2, <2>3 DEF c, n
<1>5. CallMeans(below, call, h) = IF Failures(Checks(call)) # {} THEN FirstFailure(Checks(call)) ELSE enter
  BY DEF CallMeans
<1>6. CallMeans(below, next, h) = IF Failures(Checks(next)) # {} THEN FirstFailure(Checks(next)) ELSE enter
  BY <1>2 DEF CallMeans
<1> HIDE DEF c, n, Checks, enter, r
<1>7. Fails(r) => CallMeans(below, call, h) = r
  BY <1>1, <1>4, <1>5, FailsAtOnce
<1>8. ~Fails(r) => CallMeans(below, call, h) = CallMeans(below, next, h)
  <2> DEFINE a == c + 1
             R == Checks(call)
             S == Checks(next)
  <2>1. /\ a \in Nat /\ a + 0 \in Nat /\ n \in Int /\ 0 \in Int
        /\ DOMAIN R = a .. n /\ DOMAIN S = a + 0 + 1 .. n + 0 /\ R[a] = r
        /\ \A i \in a + 1 .. n : S[i + 0] = R[i]
    BY <1>1, <1>4
  <2> HIDE DEF a, R, S
  <2>2. ASSUME ~Fails(R[a])
        PROVE  (Failures(R) = {} <=> Failures(S) = {}) /\ (Failures(R) # {} => FirstFailure(R) = FirstFailure(S))
    BY <2>1, <2>2, FailuresShift
  <2>. QED
    BY <1>5, <1>6, <2>1, <2>2 DEF R, S
<1>9. \A x : Fails(Ok(x)) = FALSE
  BY DEF Fails, Ok
<1>10. \A code, name : Fails(ErrOf(code, name)) = TRUE
  BY DEF Fails, ErrOf
<1> DEFINE Within(x) == IF InDomain(call, c + 1, x) THEN Ok(Unity) ELSE ErrOf("NotInDomain", call.name)
<1>11. ASSUME NEW x, r = Within(x)
       PROVE  CallMeans(below, call, h) = NextMeans(below, call, x, h)
  <2>1. CASE InDomain(call, c + 1, x)
    BY <1>8, <1>9, <1>11, <2>1 DEF NextMeans, next, c
  <2>2. CASE ~InDomain(call, c + 1, x)
    BY <1>7, <1>10, <1>11, <2>2 DEF NextMeans, c
  <2>. QED
    BY <2>1, <2>2
<1> DEFINE unit == below[call.units[c + 1]][h]
           arg == call.args[c + 1]
<1>12. r = IF Item(call.units, c + 1) = None THEN Within(arg.factor)
           ELSE IF Fails(unit) THEN unit
           ELSE IF AreConformable(arg, unit.value) THEN Within(Over(arg.factor, unit.value.factor))
           ELSE ErrOf("WrongDimensions", call.name)
  BY DEF CheckMeans, r
<1> HIDE DEF Within, unit, arg
<1>13. CASE Item(call.units, c + 1) = None
  BY <1>11, <1>12, <1>13 DEF c, arg
<1>14. CASE Item(call.units, c + 1) # None
  <2>1. CASE Fails(unit)
    BY <1>7, <1>12, <1>14, <2>1 DEF CheckedMeans, c, unit
  <2>2. CASE ~Fails(unit) /\ AreConformable(arg, unit.value)
    <3>1. CallMeans(below, call, h) = NextMeans(below, call, Over(arg.factor, unit.value.factor), h)
      BY <1>11, <1>12, <1>14, <2>2
    <3>2. CheckedMeans(below, call, unit, h) = NextMeans(below, call, Over(arg.factor, unit.value.factor), h)
      BY <2>2 DEF CheckedMeans, arg, c
    <3>. QED
      BY <1>14, <3>1, <3>2 DEF c, unit
  <2>3. CASE ~Fails(unit) /\ ~AreConformable(arg, unit.value)
    <3>1. r = ErrOf("WrongDimensions", call.name)
      BY <1>12, <1>14, <2>3
    <3>2. CallMeans(below, call, h) = r
      BY <1>7, <1>10, <3>1
    <3>3. CheckedMeans(below, call, unit, h) = ErrOf("WrongDimensions", call.name)
      BY <2>3 DEF CheckedMeans, arg, c
    <3>. QED
      BY <1>14, <3>1, <3>2, <3>3 DEF c, unit
  <2>. QED
    BY <2>1, <2>2, <2>3
<1>. QED
  BY <1>13, <1>14

(* A function on the first indices is a sequence.                             *)
LEMMA IsSequence ==
  ASSUME NEW D, NEW n \in Nat, NEW f \in [1 .. n -> D]
  PROVE  f \in Seq(D) /\ Len(f) = n
<1>1. f \in Seq(D)
  BY SeqDef, Zenon
<1>2. DOMAIN f = 1 .. n /\ DOMAIN f = 1 .. Len(f) /\ Len(f) \in Nat
  BY <1>1, LenProperties
<1>. QED
  BY <1>1, <1>2

(* A function of arguments is what it means of the values of all of them.     *)
LEMMA ArgumentsEnd ==
  ASSUME NEW d, NEW below, NEW f, NEW done \in Seq(UnitValue), NEW h
  PROVE  ArgumentsMean(d, below, f, done, <<>>, h) = FunctionMeans(d, below, f, done, h)
<1> DEFINE results == [i \in DOMAIN <<>> |-> Deeper(below, <<>>[i], h)]
<1>1. DOMAIN results = {} /\ DOMAIN ValuesOf(results) = {}
  BY DEF ValuesOf
<1>2. Failures(results) = {}
  BY <1>1 DEF Failures
<1>3. ValuesOf(results) \in [1 .. 0 -> UnitValue]
  BY DEF ValuesOf
<1> HIDE DEF results
<1>4. ValuesOf(results) \in Seq(UnitValue) /\ Len(ValuesOf(results)) = 0
  BY <1>3, IsSequence
<1>5. ValuesOf(results) = <<>>
  BY <1>4, EmptySeq
<1>6. done \o <<>> = done
  BY ConcatEmptySeq
<1>. QED
  BY <1>2, <1>5, <1>6 DEF ArgumentsMean, results

(* The arguments are evaluated one after the other.                           *)
LEMMA ArgumentsGoOn ==
  ASSUME NEW d, NEW below, NEW f, NEW done \in Seq(UnitValue), NEW rest \in Seq(Tree), rest # <<>>, NEW h
  PROVE  LET r == Deeper(below, Head(rest), h) IN
         ArgumentsMean(d, below, f, done, rest, h) =
           IF Fails(r) THEN r ELSE ArgumentsMean(d, below, f, Append(done, r.value), Tail(rest), h)
<1> DEFINE n == Len(rest)
           m == Len(done)
           r == [i \in DOMAIN rest |-> Deeper(below, rest[i], h)]
           s == [i \in DOMAIN Tail(rest) |-> Deeper(below, Tail(rest)[i], h)]
           first == Deeper(below, Head(rest), h)
           D == UnitValue \cup {r[i].value : i \in DOMAIN rest}
<1>1. n \in Nat /\ n > 0 /\ m \in Nat /\ DOMAIN rest = 1 .. n
  BY EmptySeq, LenProperties
<1>2. Tail(rest) \in Seq(Tree) /\ Len(Tail(rest)) = n - 1 /\ \A i \in 1 .. n - 1 : Tail(rest)[i] = rest[i + 1]
  BY HeadTailProperties
<1>3. Head(rest) = rest[1]
  OBVIOUS
<1>4. DOMAIN Tail(rest) = 1 .. n - 1
  BY <1>2, LenProperties
<1>5. DOMAIN r = 1 .. n /\ DOMAIN s = 1 .. n - 1 /\ r[1] = first
  BY <1>1, <1>3, <1>4
<1>6. \A i \in 2 .. n : s[i - 1] = r[i]
  <2>1. ASSUME NEW i \in 2 .. n
        PROVE  s[i - 1] = r[i]
    <3>1. i - 1 \in 1 .. n - 1 /\ i \in 1 .. n /\ (i - 1) + 1 = i
      BY <1>1
    <3>2. s[i - 1] = Deeper(below, Tail(rest)[i - 1], h) /\ r[i] = Deeper(below, rest[i], h)
      BY <1>1, <1>4, <3>1
    <3>. QED
      BY <1>2, <3>1, <3>2
  <2>. QED
    BY <2>1
<1>7. \A i \in 1 .. n : r[i].value \in D
  BY <1>1
<1>8. ArgumentsMean(d, below, f, done, rest, h) =
        IF Failures(r) # {} THEN FirstFailure(r) ELSE FunctionMeans(d, below, f, done \o ValuesOf(r), h)
  BY DEF ArgumentsMean
<1>9. ArgumentsMean(d, below, f, Append(done, first.value), Tail(rest), h) =
        IF Failures(s) # {} THEN FirstFailure(s)
        ELSE FunctionMeans(d, below, f, Append(done, first.value) \o ValuesOf(s), h)
  BY DEF ArgumentsMean
<1>10. done \in Seq(D)
  BY SeqMonotonic
<1> HIDE DEF r, s, first, n, m, D
<1>11. Fails(first) => Failures(r) # {} /\ FirstFailure(r) = first
  BY <1>1, <1>5, FailsAtOnce
<1>12. ASSUME ~Fails(first)
       PROVE  (Failures(r) = {} <=> Failures(s) = {}) /\ (Failures(r) # {} => FirstFailure(r) = FirstFailure(s))
  <2> DEFINE k == -1
  <2>1. 1 \in Nat /\ k \in Int /\ 1 + k \in Nat /\ n \in Int /\ DOMAIN s = 1 + k + 1 .. n + k
        /\ \A i \in 1 + 1 .. n : s[i + k] = r[i]
    BY <1>1, <1>5, <1>6
  <2> HIDE DEF k
  <2>. QED
    BY <1>5, <1>12, <2>1, FailuresShift
<1>13. done \o ValuesOf(r) = Append(done, first.value) \o ValuesOf(s)
  <2> DEFINE vr == ValuesOf(r)
             vs == ValuesOf(s)
             more == Append(done, first.value)
  <2>1. vr \in [1 .. n -> D] /\ vs \in [1 .. n - 1 -> D] /\ n - 1 \in Nat
        /\ vr[1] = first.value /\ \A i \in 2 .. n : vs[i - 1] = vr[i]
    <3>1. \A i \in 1 .. n - 1 : i + 1 \in 2 .. n /\ i + 1 \in 1 .. n /\ (i + 1) - 1 = i
      BY <1>1
    <3>2. \A i \in 1 .. n - 1 : s[i] = r[i + 1]
      BY <1>6, <3>1
    <3>3. \A i \in 1 .. n - 1 : s[i].value \in D
      BY <1>7, <3>1, <3>2
    <3>4. \A i \in 2 .. n : i \in 1 .. n /\ i - 1 \in 1 .. n - 1
      BY <1>1
    <3>. QED
      BY <1>1, <1>5, <1>6, <1>7, <3>3, <3>4 DEF ValuesOf
  <2> HIDE DEF vr, vs
  <2>2. vr \in Seq(D) /\ Len(vr) = n /\ vs \in Seq(D) /\ Len(vs) = n - 1
    BY <1>1, <2>1, IsSequence
  <2>3. first.value \in D
    BY <1>1, <1>5, <1>7
  <2>4. more \in Seq(D) /\ Len(more) = m + 1 /\ (\A i \in 1 .. m : more[i] = done[i]) /\ more[m + 1] = first.value
    BY <1>10, <2>3, AppendProperties DEF m
  <2> HIDE DEF more
  <2>5. done \o vr \in Seq(D) /\ Len(done \o vr) = m + n
        /\ \A i \in 1 .. m + n : (done \o vr)[i] = IF i <= m THEN done[i] ELSE vr[i - m]
    BY <1>10, <2>2, ConcatProperties DEF m
  <2>6. more \o vs \in Seq(D) /\ Len(more \o vs) = m + n
        /\ \A i \in 1 .. m + n : (more \o vs)[i] = IF i <= m + 1 THEN more[i] ELSE vs[i - (m + 1)]
    <3>1. more \o vs \in Seq(D) /\ Len(more \o vs) = Len(more) + Len(vs)
          /\ \A i \in 1 .. Len(more) + Len(vs) : (more \o vs)[i] = IF i <= Len(more) THEN more[i] ELSE vs[i - Len(more)]
      BY <2>2, <2>4, ConcatProperties
    <3>2. Len(more) + Len(vs) = m + n
      BY <1>1, <2>2, <2>4
    <3>. QED
      BY <2>4, <3>1, <3>2
  <2>8. ASSUME NEW i \in 1 .. m + n
        PROVE  (done \o vr)[i] = (more \o vs)[i]
    <3>1. CASE i <= m
      <4>1. i \in 1 .. m /\ i <= m + 1
        BY <1>1, <3>1
      <4>. QED
        BY <2>4, <2>5, <2>6, <3>1, <4>1
    <3>2. CASE i = m + 1
      <4>1. i - m = 1 /\ ~(i <= m) /\ i <= m + 1
        BY <1>1, <3>2
      <4>. QED
        BY <2>1, <2>4, <2>5, <2>6, <3>2, <4>1
    <3>3. CASE i > m + 1
      <4>1. ~(i <= m) /\ ~(i <= m + 1) /\ i - m \in 2 .. n /\ i - (m + 1) = (i - m) - 1
        BY <1>1, <3>3
      <4>. QED
        BY <2>1, <2>5, <2>6, <4>1
    <3>4. i \in Int
      BY <1>1
    <3>5. i <= m \/ i = m + 1 \/ i > m + 1
      BY <1>1, <3>4
    <3>. QED
      BY <3>1, <3>2, <3>3, <3>5
  <2>. QED
    BY <2>5, <2>6, <2>8, SeqEqual DEF vr, vs, more
<1>. QED
  BY <1>8, <1>9, <1>11, <1>12, <1>13 DEF first

-----------------------------------------------------------------------------
\* What the frames that are left on the native stack, n of them, allow.

\* What is to be done next comes to this in the state h.
Denote(d, n, c, h) ==
  CASE c.at = "expr" -> Meaning(d)[n][c.expr][h]
    [] c.at = "call" -> CallMeans(Meaning(d)[n - 1], c, h)
    [] OTHER -> c

\* A call in progress makes this of the result that it waits for.
Handed(d, n, frame, r) ==
  LET data == frame.data  h == frame.before  below == Meaning(d)[n] IN
  CASE frame.kind = "unary" -> UnaryMeans(data, r)
    [] frame.kind = "left" -> LeftMeans(d, data.op, r, below[data.right][h])
    [] frame.kind = "right" -> RightMeans(d, data.op, data.left, r)
    [] frame.kind = "tilde" -> TildeMeans(d, below, data, r, h)
    [] frame.kind = "args" ->
         IF Fails(r) THEN r ELSE ArgumentsMean(d, below, data.name, Append(data.done, r.value), data.rest, h)
    [] frame.kind = "prefixed" -> PrefixedMeans(r, UnitMeans(d, Meaning(d)[n - 1], data.unit, h))
    [] frame.kind = "times" -> PrefixedMeans(Ok(data), r)
    [] frame.kind = "check" -> CheckedMeans(below, data, r, h)
    [] frame.kind \in {"anglein", "angleout"} -> AngleMeans(frame.kind = "anglein", data.name, data.value, r)
    [] OTHER -> r

FramesLeft(s) == StackLimit + 1 - Len(s)

\* The calls s make goal of g: goals[i] is what the call at i hands to the one below.
Hands(d, s, g, goal) ==
  \E goals : /\ goals[1] = goal /\ goals[Len(s) + 1] = g
             /\ \A i \in 1 .. Len(s) : goals[i] = Handed(d, StackLimit + 1 - i, s[i], goals[i + 1])

(* A call on top waits for g, those below for what it makes of g.             *)
LEMMA HandsPushed ==
  ASSUME NEW d, NEW s, \E S : s \in Seq(S), NEW frame, NEW g, NEW goal,
         Hands(d, s, Handed(d, FramesLeft(s) - 1, frame, g), goal)
  PROVE  Hands(d, Append(s, frame), g, goal)
<1> DEFINE t == Append(s, frame)
           n == Len(s)
<1>1. n \in Nat /\ StackLimit \in Nat
  BY LenProperties, EvaluatorAssumption
<1>2. Len(t) = n + 1 /\ t[n + 1] = frame /\ \A i \in 1 .. n : t[i] = s[i]
  <2>1. PICK R : s \in Seq(R)
    OBVIOUS
  <2> DEFINE S == R \cup {frame}
  <2>2. s \in Seq(S) /\ frame \in S
    BY <2>1
  <2>. QED
    BY <2>2, AppendProperties
<1>3. PICK a : /\ a[1] = goal /\ a[n + 1] = Handed(d, FramesLeft(s) - 1, frame, g)
               /\ \A i \in 1 .. n : a[i] = Handed(d, StackLimit + 1 - i, s[i], a[i + 1])
  BY DEF Hands
<1>4. FramesLeft(s) - 1 = StackLimit + 1 - (n + 1)
  BY <1>1 DEF FramesLeft
<1> HIDE DEF t, n
<1> DEFINE b == [i \in 1 .. n + 2 |-> IF i = n + 2 THEN g ELSE a[i]]
<1>5. b[n + 2] = g /\ \A i \in 1 .. n + 1 : b[i] = a[i]
  <2>1. \A i \in 1 .. n + 1 : i \in 1 .. n + 2 /\ i # n + 2
    BY <1>1
  <2>2. n + 2 \in 1 .. n + 2
    BY <1>1
  <2>. QED
    BY <2>1, <2>2
<1> HIDE DEF b
<1>6. ASSUME NEW i \in 1 .. n + 1
      PROVE  b[i] = Handed(d, StackLimit + 1 - i, t[i], b[i + 1])
  <2>1. CASE i = n + 1
    <3>1. i + 1 = n + 2
      BY <1>1, <2>1
    <3>. QED
      BY <1>2, <1>3, <1>4, <1>5, <2>1, <3>1
  <2>2. CASE i \in 1 .. n
    <3>1. i + 1 \in 1 .. n + 1
      BY <1>1, <2>2
    <3>. QED
      BY <1>2, <1>3, <1>5, <2>2, <3>1
  <2>. QED
    BY <1>1, <2>1, <2>2
<1>7. b[1] = goal /\ b[Len(t) + 1] = g
  <2>1. 1 \in 1 .. n + 1 /\ Len(t) + 1 = n + 2
    BY <1>1, <1>2
  <2>. QED
    BY <1>3, <1>5, <2>1
<1>8. Hands(d, t, g, goal)
  BY <1>2, <1>6, <1>7 DEF Hands
<1>. QED
  BY <1>8 DEF t

(* When the call on top returns g, those below get what it makes of it.       *)
LEMMA HandsPopped ==
  ASSUME NEW d, NEW s, \E S : s \in Seq(S), s # <<>>, NEW g, NEW goal, Hands(d, s, g, goal)
  PROVE  Hands(d, SubSeq(s, 1, Len(s) - 1), Handed(d, FramesLeft(s), s[Len(s)], g), goal)
<1> DEFINE n == Len(s)
           t == SubSeq(s, 1, n - 1)
<1>1. PICK S : s \in Seq(S)
  OBVIOUS
<1>2. n \in Nat /\ n >= 1 /\ StackLimit \in Nat
  BY <1>1, EmptySeq, LenProperties, EvaluatorAssumption
<1>3. Len(t) = n - 1 /\ \A i \in 1 .. n - 1 : t[i] = s[i]
  <2>1. \A i \in 1 .. n - 1 : s[i] \in S
    BY <1>1, <1>2, ElementOfSeq
  <2>2. 1 \in Int /\ n - 1 \in Int
    BY <1>2
  <2>3. /\ Len(t) = IF 1 <= n - 1 THEN n - 1 - 1 + 1 ELSE 0
        /\ \A i \in 1 .. n - 1 - 1 + 1 : t[i] = s[1 + i - 1]
    BY ONLY <2>1, <2>2, SubSeqProperties DEF t
  <2> HIDE DEF t, n
  <2>. QED
    BY ONLY <1>2, <2>3
<1>4. PICK a : /\ a[1] = goal /\ a[n + 1] = g
               /\ \A i \in 1 .. n : a[i] = Handed(d, StackLimit + 1 - i, s[i], a[i + 1])
  BY DEF Hands
<1> HIDE DEF t, n
<1>5. a[Len(t) + 1] = Handed(d, FramesLeft(s), s[n], g)
  <2>1. Len(t) + 1 = n /\ n \in 1 .. n
    BY <1>2, <1>3
  <2>. QED
    BY <1>4, <2>1 DEF FramesLeft, n
<1>6. \A i \in 1 .. Len(t) : a[i] = Handed(d, StackLimit + 1 - i, t[i], a[i + 1])
  <2>1. \A i \in 1 .. Len(t) : i \in 1 .. n /\ i \in 1 .. n - 1
    BY <1>2, <1>3
  <2>. QED
    BY <1>3, <1>4, <2>1
<1>7. Hands(d, t, Handed(d, FramesLeft(s), s[n], g), goal)
  BY <1>4, <1>5, <1>6 DEF Hands
<1>. QED
  BY <1>7 DEF t, n

(* Without calls in progress the goal is what is at hand.                     *)
LEMMA HandsNone ==
  ASSUME NEW d, NEW g, NEW goal
  PROVE  Hands(d, <<>>, g, goal) <=> g = goal
<1>1. Len(<<>>) = 0 /\ 0 + 1 = 1 /\ 1 .. 0 = {}
  OBVIOUS
<1>2. ASSUME g = goal
      PROVE  Hands(d, <<>>, g, goal)
  <2> DEFINE goals == [i \in {1} |-> g]
  <2>1. goals[1] = goal
    BY <1>2
  <2> HIDE DEF goals
  <2>. QED
    BY <1>1, <1>2, <2>1 DEF Hands
<1>3. ASSUME Hands(d, <<>>, g, goal)
      PROVE  g = goal
  BY <1>1, <1>3 DEF Hands
<1>. QED
  BY <1>2, <1>3

(* No call makes anything of an exhausted stack.                              *)
LEMMA AbortIsHanded ==
  ASSUME NEW d, NEW n, NEW frame
  PROVE  Handed(d, n, frame, Aborted) = Aborted
<1>1. Aborted.at = "aborted" /\ Fails(Aborted) /\ Aborted.at # "err"
  BY DEF Aborted, Fails
<1>2. ~Fails(Ok(frame.data))
  BY DEF Ok, Fails
<1> HIDE DEF Aborted
<1>. QED
  BY <1>1, <1>2 DEF Handed, UnaryMeans, LeftMeans, RightMeans, TildeMeans, PrefixedMeans, CheckedMeans, AngleMeans

(* So the goal is then an exhausted stack.                                    *)
LEMMA AbortReachesGoal ==
  ASSUME NEW d, NEW s, Len(s) \in Nat, NEW goal, Hands(d, s, Aborted, goal)
  PROVE  goal = Aborted
<1> DEFINE n == Len(s)
<1>1. PICK a : /\ a[1] = goal /\ a[n + 1] = Aborted
               /\ \A i \in 1 .. n : a[i] = Handed(d, StackLimit + 1 - i, s[i], a[i + 1])
  BY DEF Hands
<1> HIDE DEF n
<1> DEFINE down == {j \in Nat : j <= n => a[n + 1 - j] = Aborted}
<1>2. n \in Nat
  BY DEF n
<1>3. 0 \in down
  BY <1>1, <1>2
<1>4. ASSUME NEW j \in down PROVE j + 1 \in down
  <2>1. SUFFICES ASSUME j + 1 <= n PROVE a[n + 1 - (j + 1)] = Aborted
    OBVIOUS
  <2> DEFINE i == n - j
  <2>2. i \in 1 .. n /\ i + 1 = n + 1 - j /\ i = n + 1 - (j + 1) /\ j <= n
    BY <1>2, <2>1
  <2>3. a[i + 1] = Aborted
    BY <2>2
  <2> HIDE DEF i
  <2>4. a[i] = Aborted
    BY <1>1, <2>2, <2>3, AbortIsHanded
  <2>. QED
    BY <2>2, <2>4
<1>5. down = Nat
  <2>1. down \in SUBSET Nat
    OBVIOUS
  <2> HIDE DEF down
  <2>. QED
    BY <1>3, <1>4, <2>1, NaturalInduction
<1>6. n \in down
  BY <1>2, <1>5
<1>7. a[n + 1 - n] = Aborted /\ n + 1 - n = 1
  BY <1>2, <1>6
<1>. QED
  BY <1>1, <1>7

-----------------------------------------------------------------------------
\* What a step leaves to be done has the meaning of what there was to do.

Goal == Meaning(db)[StackLimit + 1][request.expr][First]

\* The last call that there is room for can only evaluate a text, and then there is no room.
Room ==
  /\ Len(stack) <= StackLimit + 1
  /\ Len(stack) = StackLimit + 1 => control.at \in {"expr", "aborted"}
  /\ control.at = "aborted" => control = Aborted

MInv ==
  /\ TInv
  /\ Hands(db, stack, Denote(db, FramesLeft(stack), control, Here), Goal)
  /\ Room

\* The step hands g to the calls s, at once or by another call on top of them.
Serves(s, g) ==
  LET n == FramesLeft(s) IN
  \/ stack' = s /\ control'.at # "aborted" /\ Denote(db, n, control', Here') = g
  \/ \E frame : /\ stack' = Append(s, frame) /\ control'.at = "expr"
                /\ Handed(db, n - 1, frame, Denote(db, n - 1, control', Here')) = g

(* A step that hands the calls what they wait for keeps the goal.             *)
LEMMA ServesKeeps ==
  ASSUME TInv', UNCHANGED request, NEW s, \E S : s \in Seq(S), Len(s) <= StackLimit,
         NEW g, Hands(db, s, g, Goal), Serves(s, g)
  PROVE  MInv'
<1> DEFINE n == FramesLeft(s)
<1>1. db' = db /\ Goal' = Goal
  BY DEF db, Goal, First
<1>2. Len(s) \in Nat /\ StackLimit \in Nat
  BY LenProperties, EvaluatorAssumption
<1>3. CASE stack' = s /\ control'.at # "aborted" /\ Denote(db, n, control', Here') = g
  <2>1. Room'
    BY <1>2, <1>3 DEF Room
  <2>2. FramesLeft(stack)' = FramesLeft(s)
    BY <1>3 DEF FramesLeft
  <2>. QED
    BY <1>1, <1>3, <2>1, <2>2 DEF MInv
<1>4. ASSUME NEW frame, stack' = Append(s, frame), control'.at = "expr",
             Handed(db, n - 1, frame, Denote(db, n - 1, control', Here')) = g
      PROVE  MInv'
  <2>1. Len(Append(s, frame)) = Len(s) + 1
    <3>1. PICK R : s \in Seq(R)
      OBVIOUS
    <3> DEFINE S == R \cup {frame}
    <3>2. s \in Seq(S) /\ frame \in S
      BY <3>1
    <3>. QED
      BY <3>2, AppendProperties
  <2>2. Room'
    BY <1>2, <1>4, <2>1 DEF Room
  <2>3. FramesLeft(stack)' = n - 1
    BY <1>2, <1>4, <2>1 DEF FramesLeft
  <2> DEFINE r == Denote(db, n - 1, control', Here')
  <2>4. Hands(db, Append(s, frame), r, Goal)
    <3>1. Hands(db, s, Handed(db, FramesLeft(s) - 1, frame, r), Goal)
      BY <1>4
    <3> HIDE DEF r
    <3>. QED
      BY <3>1, HandsPushed
  <2>. QED
    BY <1>1, <1>4, <2>2, <2>3, <2>4 DEF MInv
<1>. QED
  BY <1>3, <1>4 DEF Serves

(* What is handed on at once.                                                 *)
LEMMA AtOnce ==
  ASSUME NEW s, NEW c, c.at \in {"ok", "err"}, Continue(s, c)
  PROVE  Serves(s, c)
<1>1. Denote(db, FramesLeft(s), c, Here') = c
  BY DEF Denote
<1>. QED
  BY <1>1 DEF Serves, Continue

(* A function that is to be called.                                           *)
LEMMA ByCall ==
  ASSUME NEW s, NEW c, c.at = "call", Continue(s, c)
  PROVE  Serves(s, CallMeans(Meaning(db)[FramesLeft(s) - 1], c, Here'))
<1>1. Denote(db, FramesLeft(s), c, Here') = CallMeans(Meaning(db)[FramesLeft(s) - 1], c, Here')
  BY DEF Denote
<1>. QED
  BY <1>1 DEF Serves, Continue

(* A text that is evaluated first.                                            *)
LEMMA ByText ==
  ASSUME NEW s, NEW frame, NEW e, Continue(Append(s, frame), Evaluate(e))
  PROVE  LET n == FramesLeft(s) - 1 IN Serves(s, Handed(db, n, frame, Meaning(db)[n][e][Here']))
<1> DEFINE n == FramesLeft(s) - 1
<1>1. Denote(db, n, Evaluate(e), Here') = Meaning(db)[n][e][Here'] /\ Evaluate(e).at = "expr"
  BY DEF Denote, Evaluate
<1>2. stack' = Append(s, frame) /\ control' = Evaluate(e)
  BY DEF Continue
<1>. QED
  BY <1>1, <1>2 DEF Serves

(* The calls that hand on what they get.                                      *)
LEMMA HandedOn ==
  ASSUME NEW d, NEW n, NEW frame, NEW r
  PROVE  /\ frame.kind \in {"group", "prefix", "alias", "table", "entry", "body"} => Handed(d, n, frame, r) = r
         /\ frame.kind \in {"group", "tilde", "args"} /\ Fails(r) => Handed(d, n, frame, r) = r
<1>1. frame.kind \in {"group", "prefix", "alias", "table", "entry", "body"} => Handed(d, n, frame, r) = r
  BY DEF Handed
<1>2. frame.kind \in {"tilde", "args"} /\ Fails(r) => Handed(d, n, frame, r) = r
  BY DEF Handed, TildeMeans
<1>. QED
  BY <1>1, <1>2

(* The kinds of results.                                                      *)
LEMMA ResultsAre ==
  /\ \A v : Ok(v).at = "ok" /\ Ok(v).value = v /\ ~Fails(Ok(v))
  /\ \A code, name : ErrOf(code, name).at = "err" /\ Fails(ErrOf(code, name)) /\ ErrOf(code, name).code = code
                     /\ ErrOf(code, name).name = name
  /\ \A code : Err(code).at = "err" /\ Fails(Err(code))
BY DEF Ok, ErrOf, Err, Fails

(* eval_nested means its text one level deeper.                               *)
LEMMA NestedServes ==
  ASSUME NEW s, NEW l, NEW kind \in {"group", "tilde", "args"}, NEW data, NEW e,
         Nested(s, l, kind, data, e), UNCHANGED <<vars, resolving>>
  PROVE  LET n == FramesLeft(s) - 1
             h == [vars |-> vars, resolving |-> resolving, depth |-> l]
         IN  Serves(s, Handed(db, n, FrameAt(l, kind, data), Deeper(Meaning(db)[n], e, h)))
<1> DEFINE n == FramesLeft(s) - 1
           h == [vars |-> vars, resolving |-> resolving, depth |-> l]
           frame == FrameAt(l, kind, data)
<1>0. frame.kind = kind
  BY DEF FrameAt
<1>1. CASE l >= MaxDepth
  <2>1. Continue(s, Err("TooDeep"))
    BY <1>1 DEF Nested
  <2>2. Deeper(Meaning(db)[n], e, h) = Err("TooDeep")
    BY <1>1 DEF Deeper
  <2>3. Handed(db, n, frame, Err("TooDeep")) = Err("TooDeep")
    <3> HIDE DEF frame
    <3>. QED
      BY <1>0, HandedOn, ResultsAre
  <2>. QED
    BY <2>1, <2>2, <2>3, AtOnce, ResultsAre
<1>2. CASE ~(l >= MaxDepth)
  <2>1. Continue(Append(s, frame), Evaluate(e)) /\ depth' = l + 1
    BY <1>2 DEF Nested
  <2>2. Deeper(Meaning(db)[n], e, h) = Meaning(db)[n][e][Here']
    BY <1>2, <2>1 DEF Deeper, Here
  <2> HIDE DEF frame
  <2>. QED
    BY <2>1, <2>2, ByText DEF frame
<1>. QED
  BY <1>1, <1>2

(* resolve_entry means what the unit means.                                   *)
LEMMA EntryServes ==
  ASSUME TInv, NEW n, NEW s, ResolveEntry(n, s)
  PROVE  Serves(s, UnitMeans(db, Meaning(db)[FramesLeft(s) - 1], n, Here))
<1> DEFINE entry == db.units[n]
           below == Meaning(db)[FramesLeft(s) - 1]
           frame == Frame("entry", [name |-> n])
<1>1. Here.resolving = resolving /\ Here.depth = depth /\ depth \in Int /\ MaxDepth \in Int
  BY TypedFacts, EvaluatorAssumption
<1>2. ASSUME NEW c, c.at \in {"ok", "err"}, Proceed(s, c), UnitMeans(db, below, n, Here) = c
      PROVE  Serves(s, UnitMeans(db, below, n, Here))
  BY <1>2, AtOnce DEF Proceed
<1>3. CASE entry.kind = "primitive" /\ Proceed(s, Ok(Primitive(n)))
  BY <1>2, <1>3, ResultsAre DEF UnitMeans
<1>4. CASE entry.kind = "dimensionless" /\ Proceed(s, Ok(Unity))
  BY <1>2, <1>4, ResultsAre DEF UnitMeans
<1>5. CASE entry.kind = "derived" /\ n \in resolving /\ Proceed(s, ErrOf("CircularDefinition", n))
  BY <1>1, <1>2, <1>5, ResultsAre DEF UnitMeans
<1>6. CASE entry.kind = "derived" /\ n \notin resolving /\ depth >= MaxDepth /\ Proceed(s, ErrOf("MaxRecursion", n))
  BY <1>1, <1>2, <1>6, ResultsAre DEF UnitMeans
<1>7. CASE /\ entry.kind = "derived" /\ n \notin resolving /\ depth < MaxDepth
           /\ Continue(Append(s, Frame("entry", [name |-> n])), Evaluate(entry.def))
           /\ resolving' = resolving \cup {n} /\ depth' = depth + 1
           /\ UNCHANGED vars
  <2>1. ~(depth >= MaxDepth)
    BY <1>1, <1>7
  <2>2. [vars |-> Here.vars, resolving |-> Here.resolving \cup {n}, depth |-> Here.depth + 1] = Here'
    BY <1>7 DEF Here
  <2>3. UnitMeans(db, below, n, Here) = below[entry.def][Here']
    BY <1>1, <1>7, <2>1, <2>2 DEF UnitMeans
  <2>4. frame.kind = "entry"
    BY DEF Frame, FrameAt
  <2> HIDE DEF frame
  <2>5. \A r : Handed(db, FramesLeft(s) - 1, frame, r) = r
    BY <2>4, HandedOn
  <2>. QED
    BY <1>7, <2>3, <2>5, ByText DEF frame
<1>. QED
  BY <1>3, <1>4, <1>5, <1>6, <1>7 DEF ResolveEntry

-----------------------------------------------------------------------------
\* Calling a function means what the function means.

(* A text that is evaluated first, by a call that hands on the result.        *)
LEMMA TextServes ==
  ASSUME NEW s, NEW kind \in {"alias", "table"}, NEW data, NEW e,
         Continue(Append(s, FrameAt(depth', kind, data)), Evaluate(e))
  PROVE  Serves(s, Meaning(db)[FramesLeft(s) - 1][e][Here'])
<1> DEFINE frame == FrameAt(depth', kind, data)
           n == FramesLeft(s) - 1
<1>1. frame.kind = kind
  BY DEF FrameAt
<1> HIDE DEF frame
<1>2. Handed(db, n, frame, Meaning(db)[n][e][Here']) = Meaning(db)[n][e][Here']
  BY <1>1, HandedOn
<1>. QED
  BY <1>2, ByText DEF frame

(* call_user_function.                                                        *)
LEMMA UserServes ==
  ASSUME NEW f, NEW args, NEW s, CallUserFunction(f, args, s)
  PROVE  Serves(s, UserMeans(Meaning(db)[FramesLeft(s) - 1], f, db.functions[f], args, Here'))
<1> DEFINE func == db.functions[f]
           below == Meaning(db)[FramesLeft(s) - 1]
           call == Call(f, func.params, args, func.units, func.domain, func.forward)
           means == UserMeans(below, f, func, args, Here')
<1>1. CASE Len(args) # Len(func.params)
  <2>1. Continue(s, Err("ArityMismatch")) /\ means = Err("ArityMismatch")
    BY <1>1 DEF CallUserFunction, UserMeans
  <2>. QED
    BY <2>1, AtOnce, ResultsAre
<1>2. CASE Len(args) = Len(func.params) /\ args = <<>>
  <2>1. Continue(Append(s, FrameAt(depth', "alias", [name |-> f])), Evaluate(func.forward))
    BY <1>2 DEF CallUserFunction
  <2>2. means = below[func.forward][Here']
    BY <1>2 DEF UserMeans
  <2>. QED
    BY <2>1, <2>2, TextServes
<1>3. CASE Len(args) = Len(func.params) /\ args # <<>>
  <2> DEFINE c == IF func.noerror THEN SkipChecks(call) ELSE call
  <2>1. Continue(s, c)
    BY <1>3 DEF CallUserFunction
  <2>2. means = CallMeans(below, c, Here')
    BY <1>3 DEF UserMeans
  <2>3. c.at = "call"
    BY DEF Call, SkipChecks
  <2> HIDE DEF c
  <2>. QED
    BY <2>1, <2>2, <2>3, ByCall
<1>. QED
  BY <1>1, <1>2, <1>3

(* call_inverse_function.                                                     *)
LEMMA InverseServes ==
  ASSUME NEW f, NEW v, NEW s, CallInverse(f, v, s)
  PROVE  Serves(s, InverseMeans(db, Meaning(db)[FramesLeft(s) - 1], f, v, Here'))
<1> DEFINE func == db.functions[f]
           below == Meaning(db)[FramesLeft(s) - 1]
           means == InverseMeans(db, below, f, v, Here')
           c == IF func.noerror THEN SkipChecks(InverseCall(f, v)) ELSE InverseCall(f, v)
<1>1. ASSUME NEW code, NEW name, Continue(s, ErrOf(code, name)), means = ErrOf(code, name)
      PROVE  Serves(s, means)
  BY <1>1, AtOnce, ResultsAre
<1>2. CASE f \notin DOMAIN db.functions
  <2>1. Continue(s, ErrOf("UnknownUnit", f)) /\ means = ErrOf("UnknownUnit", f)
    BY <1>2 DEF CallInverse, InverseMeans
  <2>. QED
    BY <1>1, <2>1
<1>3. CASE f \in DOMAIN db.functions /\ Len(func.params) # 1
  <2>1. Continue(s, ErrOf("InverseNotSupported", None)) /\ means = ErrOf("InverseNotSupported", None)
    BY <1>3 DEF CallInverse, InverseMeans, Err
  <2>. QED
    BY <1>1, <2>1
<1>4. CASE f \in DOMAIN db.functions /\ Len(func.params) = 1 /\ func.reverse = None
  <2>1. Continue(s, ErrOf("NoInverse", f)) /\ means = ErrOf("NoInverse", f)
    BY <1>4 DEF CallInverse, InverseMeans
  <2>. QED
    BY <1>1, <2>1
<1>5. CASE f \in DOMAIN db.functions /\ Len(func.params) = 1 /\ func.reverse # None
  <2>1. Continue(s, c)
    BY <1>5 DEF CallInverse
  <2>2. means = CallMeans(below, c, Here')
    BY <1>5 DEF InverseMeans, InverseCall
  <2>3. c.at = "call"
    BY DEF InverseCall, Call, SkipChecks
  <2> HIDE DEF c
  <2>. QED
    BY <2>1, <2>2, <2>3, ByCall
<1>. QED
  BY <1>2, <1>3, <1>4, <1>5

(* Built-in functions and tables.                                             *)
LEMMA BuiltinServes ==
  ASSUME NEW f, NEW v, NEW s, CallFunction(f, v, s)
  PROVE  Serves(s, BuiltinMeans(db, Meaning(db)[FramesLeft(s) - 1], f, v, Here'))
<1> DEFINE n == FramesLeft(s) - 1
           below == Meaning(db)[n]
           means == BuiltinMeans(db, below, f, v, Here')
           scaled == Scaled(f, v.factor)
           Radian(kind) == Continue(Append(s, FrameAt(depth', kind, [name |-> f, value |-> v])), Evaluate(RadianText))
<1>0. /\ f \in DOMAIN RootFunction => f \notin Keeping \cup AngleIn \cup AngleOut \cup Scalar
      /\ f \in Keeping => f \notin AngleIn \cup AngleOut \cup Scalar
      /\ f \in AngleIn => f \notin AngleOut \cup Scalar
      /\ f \in AngleOut => f \notin Scalar
  <2> DEFINE kinds == <<DOMAIN RootFunction, Keeping, AngleIn, AngleOut, Scalar>>
  <2>1. \A i, j \in 1 .. 5 : i # j => kinds[i] \cap kinds[j] = {}
    BY BuiltinsAssumption
  <2>2. /\ kinds[1] = DOMAIN RootFunction /\ kinds[2] = Keeping /\ kinds[3] = AngleIn
        /\ kinds[4] = AngleOut /\ kinds[5] = Scalar
    OBVIOUS
  <2> HIDE DEF kinds
  <2>. QED
    BY <2>1, <2>2
<1>1. ASSUME NEW c, c.at \in {"ok", "err"}, Continue(s, c), means = c
      PROVE  Serves(s, means)
  BY <1>1, AtOnce
<1>2. scaled.at \in {"ok", "err"}
  BY ResultsAre DEF Scaled
<1> DEFINE Waiting(kind) == FrameAt(depth', kind, [name |-> f, value |-> v])
           r == below[RadianText][Here']
<1>3. /\ Handed(db, n, Waiting("anglein"), r) = AngleMeans(TRUE, f, v, r)
      /\ Handed(db, n, Waiting("angleout"), r) = AngleMeans(FALSE, f, v, r)
  <2> DEFINE data == [name |-> f, value |-> v]
  <2>1. data.name = f /\ data.value = v
    OBVIOUS
  <2>2. /\ Waiting("anglein").kind = "anglein" /\ Waiting("anglein").data = data
        /\ Waiting("angleout").kind = "angleout" /\ Waiting("angleout").data = data
    BY DEF FrameAt
  <2> HIDE DEF Waiting, data, r
  <2>. QED
    BY <2>1, <2>2 DEF Handed, AngleMeans
<1>r. ASSUME NEW kind, Radian(kind)
      PROVE  Serves(s, Handed(db, n, Waiting(kind), r))
  BY <1>r, ByText
<1>4. CASE f \in DOMAIN RootFunction
  <2>1. LET c == IF HasRoot(v, RootFunction[f]) THEN Ok(Root(v, RootFunction[f])) ELSE Err("NotDivisibleByRoot")
        IN  Continue(s, c) /\ means = c
    BY <1>0, <1>4 DEF CallFunction, BuiltinMeans
  <2>. QED
    BY <1>1, <2>1, ResultsAre
<1>5. CASE f \in Keeping
  <2>1. LET c == Ok([v EXCEPT !.factor = Computed(f, @)]) IN Continue(s, c) /\ means = c
    BY <1>0, <1>5 DEF CallFunction, BuiltinMeans
  <2>. QED
    BY <1>1, <2>1, ResultsAre
<1>6. CASE f \in AngleIn
  <2>1. CASE IsDimensionless(v)
    <3>1. Continue(s, scaled) /\ means = scaled
      BY <1>0, <1>6, <2>1 DEF CallFunction, BuiltinMeans, Scaled
    <3>. QED
      BY <1>1, <1>2, <3>1
  <2>2. CASE ~IsDimensionless(v)
    <3>1. Radian("anglein")
      BY <1>0, <1>6, <2>2 DEF CallFunction
    <3>2. means = Handed(db, n, Waiting("anglein"), r)
      BY <1>0, <1>3, <1>6, <2>2 DEF BuiltinMeans
    <3>. QED
      BY <1>r, <3>1, <3>2
  <2>. QED
    BY <2>1, <2>2
<1>7. CASE f \in Scalar
  <2>1. CASE IsDimensionless(v)
    <3>1. Continue(s, scaled) /\ means = scaled
      BY <1>0, <1>7, <2>1 DEF CallFunction, BuiltinMeans, Scaled
    <3>. QED
      BY <1>1, <1>2, <3>1
  <2>2. CASE ~IsDimensionless(v)
    <3>1. Continue(s, ErrOf("DimensionlessRequired", f)) /\ means = ErrOf("DimensionlessRequired", f)
      BY <1>0, <1>7, <2>2 DEF CallFunction, BuiltinMeans
    <3>. QED
      BY <1>1, <3>1, ResultsAre
  <2>. QED
    BY <2>1, <2>2
<1>8. CASE f \in AngleOut
  <2>1. CASE ~IsDimensionless(v)
    <3>1. Continue(s, ErrOf("DimensionlessRequired", f)) /\ means = ErrOf("DimensionlessRequired", f)
      BY <1>0, <1>8, <2>1 DEF CallFunction, BuiltinMeans
    <3>. QED
      BY <1>1, <3>1, ResultsAre
  <2>2. CASE IsDimensionless(v) /\ ~Accepts(f, v.factor)
    <3>1. Continue(s, scaled) /\ means = scaled
      BY <1>0, <1>8, <2>2 DEF CallFunction, BuiltinMeans, Scaled
    <3>. QED
      BY <1>1, <1>2, <3>1
  <2>3. CASE IsDimensionless(v) /\ Accepts(f, v.factor)
    <3>1. Radian("angleout")
      BY <1>0, <1>8, <2>3 DEF CallFunction
    <3>2. means = Handed(db, n, Waiting("angleout"), r)
      BY <1>0, <1>3, <1>8, <2>3 DEF BuiltinMeans
    <3>. QED
      BY <1>r, <3>1, <3>2
  <2>. QED
    BY <2>1, <2>2, <2>3
<1>9. CASE f \notin DOMAIN RootFunction \cup Keeping \cup AngleIn \cup AngleOut \cup Scalar
  <2>1. CASE f \notin DOMAIN db.tables
    <3>1. Continue(s, ErrOf("UnknownUnit", f)) /\ means = ErrOf("UnknownUnit", f)
      BY <1>9, <2>1 DEF CallFunction, BuiltinMeans
    <3>. QED
      BY <1>1, <3>1, ResultsAre
  <2>2. CASE f \in DOMAIN db.tables
    <3> DEFINE table == db.tables[f]
    <3>1. CallTable(f, v, s)
      BY <1>9, <2>2 DEF CallFunction
    <3>2. means = IF ~IsDimensionless(v) THEN ErrOf("DimensionlessRequired", f)
                  ELSE IF v.factor \notin DOMAIN table.readings THEN ErrOf("NotInDomain", f)
                  ELSE below[table.readings[v.factor]][Here']
      BY <1>9, <2>2 DEF BuiltinMeans
    <3>3. CASE ~IsDimensionless(v)
      BY <1>1, <3>1, <3>2, <3>3, ResultsAre DEF CallTable
    <3>4. CASE IsDimensionless(v) /\ v.factor \notin DOMAIN table.readings
      BY <1>1, <3>1, <3>2, <3>4, ResultsAre DEF CallTable
    <3>5. CASE IsDimensionless(v) /\ v.factor \in DOMAIN table.readings
      <4>1. Continue(Append(s, FrameAt(depth', "table", [name |-> f])), Evaluate(table.readings[v.factor]))
        BY <3>1, <3>5 DEF CallTable
      <4>. QED
        BY <3>2, <3>5, <4>1, TextServes
    <3>. QED
      BY <3>3, <3>4, <3>5
  <2>. QED
    BY <2>1, <2>2
<1>. QED
  BY <1>4, <1>5, <1>6, <1>7, <1>8, <1>9

(* Functions of definitions before built-in functions and tables.             *)
LEMMA FunctionServes ==
  ASSUME NEW f, NEW args, NEW s, CallFunctionMulti(f, args, s)
  PROVE  Serves(s, FunctionMeans(db, Meaning(db)[FramesLeft(s) - 1], f, args, Here'))
<1> DEFINE below == Meaning(db)[FramesLeft(s) - 1]
           means == FunctionMeans(db, below, f, args, Here')
<1>1. CASE f \in DOMAIN db.functions
  BY <1>1, UserServes DEF CallFunctionMulti, FunctionMeans
<1>2. CASE f \notin DOMAIN db.functions /\ Len(args) # 1
  <2>1. Continue(s, Err("ArityMismatch")) /\ means = Err("ArityMismatch")
    BY <1>2 DEF CallFunctionMulti, FunctionMeans
  <2>. QED
    BY <2>1, AtOnce, ResultsAre
<1>3. CASE f \notin DOMAIN db.functions /\ Len(args) = 1
  BY <1>3, BuiltinServes DEF CallFunctionMulti, FunctionMeans
<1>. QED
  BY <1>1, <1>2, <1>3

(* validate_func_arg means the rest of the call.                              *)
LEMMA CheckServes ==
  ASSUME NEW s, NEW call, IsCall(call), NEW x, CheckNext(s, call, x)
  PROVE  Serves(s, NextMeans(Meaning(db)[FramesLeft(s) - 1], call, x, Here))
<1> DEFINE i == call.checked + 1
           below == Meaning(db)[FramesLeft(s) - 1]
           next == [call EXCEPT !.checked = i]
<1>1. CASE InDomain(call, i, x)
  <2>1. Continue(s, next) /\ Here' = Here
    BY <1>1 DEF CheckNext, Proceed, Here, state
  <2>2. next.at = "call"
    BY DEF IsCall
  <2>3. NextMeans(below, call, x, Here) = CallMeans(below, next, Here)
    BY <1>1 DEF NextMeans
  <2> HIDE DEF next
  <2>. QED
    BY <2>1, <2>2, <2>3, ByCall
<1>2. CASE ~InDomain(call, i, x)
  <2>1. Continue(s, ErrOf("NotInDomain", call.name))
    BY <1>2 DEF CheckNext, Proceed
  <2>2. NextMeans(below, call, x, Here) = ErrOf("NotInDomain", call.name)
    BY <1>2 DEF NextMeans
  <2>. QED
    BY <2>1, <2>2, AtOnce, ResultsAre
<1>. QED
  BY <1>1, <1>2

-----------------------------------------------------------------------------
\* Steps hand on what there is to be done.

\* What there is to be done, and what the calls below the one on top get of it.
Meant == Denote(db, FramesLeft(stack), control, Here)
Yielded == Handed(db, FramesLeft(stack), Top, control)

(* What the meaning of a text is made of, with a frame of stack left.         *)
LEMMA TextFacts ==
  ASSUME TInv, control.at = "expr", Len(stack) <= StackLimit
  PROVE  LET n == FramesLeft(stack) IN
         /\ n \in Int /\ (n - 1) - 1 = n - 2
         /\ control.expr \in Tree /\ IsTree(control.expr)
         /\ Meant = TextMeans(db, Meaning(db)[n - 1], Meaning(db)[n - 2], control.expr, Here)
<1> DEFINE n == FramesLeft(stack)
<1>1. Len(stack) \in Nat /\ StackLimit \in Nat
  BY TypedFacts, LenProperties, EvaluatorAssumption
<1>2. n \in Int /\ n > 0 /\ (n - 1) - 1 = n - 2
  BY <1>1 DEF FramesLeft
<1>3. control.expr \in Tree /\ IsTree(control.expr)
  BY TypedFacts, TextsAssumption DEF ControlTyped
<1>4. Here \in Place
  BY TypedFacts DEF Place
<1>5. Meant = Meaning(db)[n][control.expr][Here]
  BY DEF Meant, Denote
<1> HIDE DEF n
<1>6. Meaning(db)[n][control.expr][Here] = TextMeans(db, Meaning(db)[n - 1], Meaning(db)[n - 2], control.expr, Here)
  BY <1>2, <1>3, <1>4, MeaningIs
<1>. QED
  BY <1>2, <1>3, <1>5, <1>6 DEF n

(* The actions that take a tree apart.                                        *)
LEMMA DecomposeServes ==
  ASSUME TInv, Len(stack) <= StackLimit, Decompose
  PROVE  Serves(stack, Meant)
<1> DEFINE e == control.expr
           n == FramesLeft(stack)
           below == Meaning(db)[n - 1]
           lower == Meaning(db)[n - 2]
<1>0. /\ e \in Tree /\ IsTree(e) /\ Meant = TextMeans(db, below, lower, e, Here)
  <2>1. control.at = "expr"
    BY DEF Decompose, EvalGarbage, EvalNumber, EvalUnary, EvalBinary, EvalGroup, EvalTilde, EvalCall, Evaluating
  <2>. QED
    BY <2>1, TextFacts
<1>1. CASE EvalGarbage
  <2>1. Continue(stack, Err("Grammar")) /\ e.kind = "garbage"
    BY <1>1 DEF EvalGarbage, Evaluating, Proceed
  <2>2. Meant = Err("Grammar")
    BY <1>0, <2>1 DEF TextMeans
  <2>. QED
    BY <2>1, <2>2, AtOnce, ResultsAre
<1>2. CASE EvalNumber
  <2> DEFINE c == IF e.factor = None THEN Err("InvalidNumber") ELSE Ok(FromFactor(e.factor))
  <2>1. Continue(stack, c) /\ e.kind = "number"
    BY <1>2 DEF EvalNumber, Evaluating, Proceed
  <2>2. Meant = c
    BY <1>0, <2>1 DEF TextMeans
  <2>3. c.at \in {"ok", "err"}
    BY ResultsAre
  <2> HIDE DEF c
  <2>. QED
    BY <2>1, <2>2, <2>3, AtOnce
<1>3. ASSUME NEW kind, NEW data, NEW f \in Tree, Proceed(Append(stack, Frame(kind, data)), Evaluate(f))
      PROVE  Serves(stack, Handed(db, n - 1, Frame(kind, data), below[f][Here]))
  <2> DEFINE frame == Frame(kind, data)
  <2>1. Continue(Append(stack, frame), Evaluate(f)) /\ Here' = Here
    BY <1>3 DEF Proceed, Here, state
  <2> HIDE DEF frame
  <2>. QED
    BY <2>1, ByText DEF frame
<1>4. CASE EvalUnary
  <2>1. e.kind = "unary" /\ e.arg \in Tree /\ Proceed(Append(stack, Frame("unary", e.op)), Evaluate(e.arg))
    BY <1>0, <1>4 DEF EvalUnary, Evaluating, IsTree
  <2>2. Meant = UnaryMeans(e.op, below[e.arg][Here])
    BY <1>0, <2>1 DEF TextMeans
  <2>3. \A r : Handed(db, n - 1, Frame("unary", e.op), r) = UnaryMeans(e.op, r)
    BY FrameIs DEF Handed
  <2>. QED
    BY <1>3, <2>1, <2>2, <2>3
<1>5. CASE EvalBinary
  <2> DEFINE data == [op |-> e.op, right |-> e.right]
             frame == Frame("left", data)
  <2>1. e.kind = "binary" /\ e.left \in Tree /\ Proceed(Append(stack, frame), Evaluate(e.left))
    BY <1>0, <1>5 DEF EvalBinary, Evaluating, IsTree
  <2>2. Meant = LeftMeans(db, e.op, below[e.left][Here], below[e.right][Here])
    BY <1>0, <2>1 DEF TextMeans
  <2>3. data.op = e.op /\ data.right = e.right /\ frame.kind = "left" /\ frame.data = data /\ frame.before = Here
    BY FrameIs
  <2>4. Serves(stack, Handed(db, n - 1, frame, below[e.left][Here]))
    BY <1>3, <2>1
  <2> HIDE DEF frame, data
  <2>5. \A r : Handed(db, n - 1, frame, r) = LeftMeans(db, e.op, r, below[e.right][Here])
    BY <2>3 DEF Handed
  <2>. QED
    BY <2>2, <2>4, <2>5
<1>6. CASE EvalGroup
  <2>1. Nested(stack, depth, "group", None, e.body) /\ UNCHANGED <<vars, resolving>> /\ e.kind = "group"
    BY <1>6 DEF EvalGroup, Evaluating
  <2>2. Meant = Deeper(below, e.body, Here)
    BY <1>0, <2>1 DEF TextMeans
  <2> DEFINE frame == FrameAt(depth, "group", None)
  <2>3. Serves(stack, Handed(db, n - 1, frame, Deeper(below, e.body, Here)))
    BY <2>1, TypedFacts, NestedServes
  <2>4. frame.kind = "group"
    BY DEF FrameAt
  <2> HIDE DEF frame
  <2>. QED
    BY <2>2, <2>3, <2>4, HandedOn
<1>7. CASE EvalTilde
  <2>1. Nested(stack, depth, "tilde", e.name, e.arg) /\ UNCHANGED <<vars, resolving>> /\ e.kind = "tilde"
    BY <1>7 DEF EvalTilde, Evaluating
  <2>2. Meant = TildeMeans(db, below, e.name, Deeper(below, e.arg, Here), Here)
    BY <1>0, <2>1 DEF TextMeans
  <2> DEFINE frame == FrameAt(depth, "tilde", e.name)
  <2>3. Serves(stack, Handed(db, n - 1, frame, Deeper(below, e.arg, Here)))
    BY <2>1, TypedFacts, NestedServes
  <2>4. frame.kind = "tilde" /\ frame.data = e.name /\ frame.before = Here
    BY DEF FrameAt, Here
  <2> HIDE DEF frame
  <2>5. \A r : Handed(db, n - 1, frame, r) = TildeMeans(db, below, e.name, r, Here)
    BY <2>4 DEF Handed
  <2>. QED
    BY <2>2, <2>3, <2>5
<1>8. CASE EvalCall
  <2>1. e.kind = "call" /\ e.args \in Seq(Tree) /\ UNCHANGED <<vars, resolving>>
    BY <1>0, <1>8 DEF EvalCall, Evaluating, IsTree
  <2>2. Meant = ArgumentsMean(db, below, e.name, <<>>, e.args, Here)
    BY <1>0, <2>1 DEF TextMeans
  <2>3. <<>> \in Seq(UnitValue)
    OBVIOUS
  <2>4. CASE e.args = <<>>
    <3>1. UNCHANGED depth /\ CallFunctionMulti(e.name, <<>>, stack)
      BY <1>8, <2>4 DEF EvalCall
    <3>2. Here' = Here
      BY <2>1, <3>1 DEF Here
    <3>3. Meant = FunctionMeans(db, below, e.name, <<>>, Here)
      BY <2>2, <2>3, <2>4, ArgumentsEnd
    <3>. QED
      BY <3>1, <3>2, <3>3, FunctionServes
  <2>5. CASE e.args # <<>>
    <3> DEFINE data == [name |-> e.name, done |-> <<>>, rest |-> Tail(e.args)]
               frame == FrameAt(depth, "args", data)
               r == Deeper(below, Head(e.args), Here)
    <3>1. Nested(stack, depth, "args", data, Head(e.args))
      BY <1>8, <2>5 DEF EvalCall
    <3>2. Meant = IF Fails(r) THEN r ELSE ArgumentsMean(db, below, e.name, Append(<<>>, r.value), Tail(e.args), Here)
      <4>1. ASSUME NEW done \in Seq(UnitValue)
            PROVE  ArgumentsMean(db, below, e.name, done, e.args, Here)
                     = IF Fails(r) THEN r ELSE ArgumentsMean(db, below, e.name, Append(done, r.value), Tail(e.args), Here)
        <5> HIDE DEF below
        <5>. QED
          BY <2>1, <2>5, ArgumentsGoOn
      <4> HIDE DEF r
      <4>. QED
        BY <2>2, <2>3, <4>1, Zenon
    <3>3. Serves(stack, Handed(db, n - 1, frame, r))
      BY <2>1, <3>1, TypedFacts, NestedServes
    <3>4. /\ frame.kind = "args" /\ frame.data = data /\ frame.before = Here
          /\ data.name = e.name /\ data.done = <<>> /\ data.rest = Tail(e.args)
      BY DEF FrameAt, Here
    <3> HIDE DEF frame, data, r
    <3>5. Handed(db, n - 1, frame, r) = Meant
      BY <3>2, <3>4 DEF Handed
    <3>. QED
      BY <3>3, <3>5
  <2>. QED
    BY <2>4, <2>5
<1>. QED
  BY <1>1, <1>2, <1>4, <1>5, <1>6, <1>7, <1>8 DEF Decompose

(* resolve_name.                                                              *)
LEMMA ResolveServes ==
  ASSUME TInv, Len(stack) <= StackLimit, Resolve
  PROVE  Serves(stack, Meant)
<1> DEFINE name == control.expr.name
           n == FramesLeft(stack)
           below == Meaning(db)[n - 1]
           lower == Meaning(db)[n - 2]
           split == FirstSplit(db, name)
<1>0. Meant = NameMeans(db, below, lower, name, Here) /\ Here.vars = vars /\ (n - 1) - 1 = n - 2
  <2>1. control.at = "expr" /\ control.expr.kind = "name"
    BY DEF Resolve, EvalVariable, EvalUnit, EvalPrefixAlone, EvalPrefixed, EvalUnknown, IsNoUnit, IsNoVariable, Evaluating
  <2>2. Meant = TextMeans(db, below, lower, control.expr, Here) /\ (n - 1) - 1 = n - 2
    BY <2>1, TextFacts
  <2>3. TextMeans(db, below, lower, control.expr, Here) = NameMeans(db, below, lower, name, Here)
    BY <2>1 DEF TextMeans
  <2>. QED
    BY <2>2, <2>3 DEF Here
<1>1. CASE EvalVariable
  <2>1. vars[name] # None /\ Continue(stack, Ok(vars[name]))
    BY <1>1 DEF EvalVariable, Proceed
  <2>2. Meant = Ok(vars[name])
    BY <1>0, <2>1 DEF NameMeans
  <2>. QED
    BY <2>1, <2>2, AtOnce, ResultsAre
<1>2. CASE EvalUnit
  <2>1. vars[name] = None /\ KnownForms(db, name) # {} /\ ResolveEntry(FirstForm(db, name), stack)
    BY <1>2 DEF EvalUnit, IsNoVariable
  <2>2. Meant = UnitMeans(db, below, FirstForm(db, name), Here)
    BY <1>0, <2>1 DEF NameMeans
  <2>. QED
    BY <2>1, <2>2, EntryServes
<1>3. ASSUME NEW kind, NEW data, NEW e, Proceed(Append(stack, Frame(kind, data)), Evaluate(e))
      PROVE  Serves(stack, Handed(db, n - 1, Frame(kind, data), below[e][Here]))
  <2> DEFINE frame == Frame(kind, data)
  <2>1. Continue(Append(stack, frame), Evaluate(e)) /\ Here' = Here
    BY <1>3 DEF Proceed, Here, state
  <2> HIDE DEF frame
  <2>. QED
    BY <2>1, ByText DEF frame
<1>4. CASE EvalPrefixAlone
  <2> DEFINE frame == Frame("prefix", [name |-> name])
  <2>1. /\ vars[name] = None /\ KnownForms(db, name) = {} /\ name \in DOMAIN db.prefixes
        /\ Proceed(Append(stack, frame), Evaluate(db.prefixes[name]))
    BY <1>4 DEF EvalPrefixAlone, IsNoUnit, IsNoVariable
  <2>2. Meant = below[db.prefixes[name]][Here]
    BY <1>0, <2>1 DEF NameMeans
  <2>3. frame.kind = "prefix"
    BY FrameIs
  <2>4. Serves(stack, Handed(db, n - 1, frame, below[db.prefixes[name]][Here]))
    BY <1>3, <2>1
  <2> HIDE DEF frame
  <2>. QED
    BY <2>2, <2>3, <2>4, HandedOn
<1>5. CASE EvalPrefixed
  <2> DEFINE data == [name |-> split.prefix, unit |-> split.rest]
             frame == Frame("prefixed", data)
             prefix == below[db.prefixes[split.prefix]][Here]
  <2>1. /\ vars[name] = None /\ KnownForms(db, name) = {} /\ name \notin DOMAIN db.prefixes
        /\ KnownSplits(db, name) # {}
        /\ Proceed(Append(stack, frame), Evaluate(db.prefixes[split.prefix]))
    BY <1>5 DEF EvalPrefixed, IsNoUnit, IsNoVariable
  <2>2. Meant = PrefixedMeans(prefix, UnitMeans(db, lower, split.rest, Here))
    BY <1>0, <2>1 DEF NameMeans
  <2>3. frame.kind = "prefixed" /\ frame.data = data /\ data.unit = split.rest /\ frame.before = Here
    BY FrameIs
  <2>4. Serves(stack, Handed(db, n - 1, frame, prefix))
    BY <1>3, <2>1
  <2> HIDE DEF frame, data, prefix
  <2>5. Handed(db, n - 1, frame, prefix) = PrefixedMeans(prefix, UnitMeans(db, lower, split.rest, Here))
    BY <1>0, <2>3 DEF Handed
  <2>. QED
    BY <2>2, <2>4, <2>5
<1>6. CASE EvalUnknown
  <2>1. /\ vars[name] = None /\ KnownForms(db, name) = {} /\ name \notin DOMAIN db.prefixes
        /\ KnownSplits(db, name) = {} /\ Continue(stack, ErrOf("UnknownUnit", name))
    BY <1>6 DEF EvalUnknown, IsNoUnit, IsNoVariable, Proceed
  <2>2. Meant = ErrOf("UnknownUnit", name)
    BY <1>0, <2>1 DEF NameMeans
  <2>. QED
    BY <2>1, <2>2, AtOnce, ResultsAre
<1>. QED
  BY <1>1, <1>2, <1>4, <1>5, <1>6 DEF Resolve

(* A call of a function: its checks, then its body.                           *)
LEMMA ApplyServes ==
  ASSUME TInv, Apply
  PROVE  Serves(stack, Meant)
<1> DEFINE n == FramesLeft(stack)
           below == Meaning(db)[n - 1]
<1>0. IsCall(control) /\ CallTyped(control) /\ Meant = CallMeans(below, control, Here)
  <2>1. control.at = "call"
    BY DEF Apply, CheckArgument, BindAndEnter
  <2>2. Meant = CallMeans(below, control, Here)
    BY <2>1 DEF Meant, Denote
  <2>. QED
    BY <2>1, <2>2, TypedFacts DEF ControlTyped, IInv, Kept
<1>1. CASE CheckArgument
  <2> DEFINE i == control.checked + 1
             unit == control.units[i]
             frame == Frame("check", control)
  <2>1. /\ control.checked < Len(control.args)
        /\ IF Item(control.units, i) = None THEN CheckNext(stack, control, control.args[i].factor)
           ELSE Proceed(Append(stack, frame), Evaluate(unit))
    BY <1>1 DEF CheckArgument
  <2>2. Meant = IF Item(control.units, i) = None
                THEN NextMeans(below, control, control.args[i].factor, Here)
                ELSE CheckedMeans(below, control, below[unit][Here], Here)
    BY <1>0, <2>1, CallChecks
  <2>3. CASE Item(control.units, i) = None
    BY <1>0, <2>1, <2>2, <2>3, CheckServes
  <2>4. CASE Item(control.units, i) # None
    <3>1. Continue(Append(stack, frame), Evaluate(unit)) /\ Here' = Here
      BY <2>1, <2>4 DEF Proceed, Here, state
    <3>2. Serves(stack, Handed(db, n - 1, frame, below[unit][Here]))
      <4> HIDE DEF frame, unit
      <4>. QED
        BY <3>1, ByText
    <3>3. frame.kind = "check" /\ frame.data = control /\ frame.before = Here
      BY FrameIs
    <3> HIDE DEF frame
    <3>4. \A r : Handed(db, n - 1, frame, r) = CheckedMeans(below, control, r, Here)
      BY <3>3 DEF Handed
    <3>. QED
      BY <2>2, <2>4, <3>2, <3>4
  <2>. QED
    BY <2>3, <2>4
<1>2. CASE BindAndEnter
  <2> DEFINE data == [name |-> control.name, params |-> control.params, args |-> control.args,
                      old |-> Replaced(vars, control.params, control.args)]
             frame == Frame("body", data)
             bound == Bound(vars, control.params, control.args)
  <2>1. /\ control.checked = Len(control.args)
        /\ Continue(Append(stack, frame), Evaluate(control.body))
        /\ Here' = [vars |-> bound, resolving |-> resolving, depth |-> depth]
    BY <1>2 DEF BindAndEnter, Here
  <2>2. [Here EXCEPT !.vars = Bound(@, control.params, control.args)]
          = [vars |-> bound, resolving |-> resolving, depth |-> depth]
    BY DEF Here
  <2>3. Meant = below[control.body][Here']
    BY <1>0, <2>1, <2>2, CallEnters DEF CallTyped
  <2>4. frame.kind = "body"
    BY FrameIs
  <2> HIDE DEF frame
  <2>5. \A r : Handed(db, n - 1, frame, r) = r
    BY <2>4, HandedOn
  <2>. QED
    BY <2>1, <2>3, <2>5, ByText
<1>. QED
  BY <1>1, <1>2 DEF Apply

(* The call on top, its type, and the frames left below it.                   *)
LEMMA ReturnFacts ==
  ASSUME TInv, stack # <<>>
  PROVE  /\ FramesLeft(Below) - 1 = FramesLeft(stack) /\ FramesLeft(stack) \in Int
         /\ FrameTyped(db, Top) /\ FrameOK(Top) /\ \E S : Below \in Seq(S)
         /\ Len(Below) = Len(stack) - 1 /\ Len(stack) \in Nat
<1>1. PICK S : stack \in Seq(S)
  BY TypedFacts
<1> DEFINE n == Len(stack)
<1>2. n \in Nat /\ n >= 1 /\ StackLimit \in Nat
  BY <1>1, EmptySeq, LenProperties, EvaluatorAssumption
<1>3. Len(Below) = n - 1
  <2>1. \A i \in 1 .. n - 1 : stack[i] \in S
    BY <1>1, <1>2, ElementOfSeq
  <2>2. 1 \in Int /\ n - 1 \in Int
    BY <1>2
  <2>3. Len(Below) = IF 1 <= n - 1 THEN n - 1 - 1 + 1 ELSE 0
    BY ONLY <2>1, <2>2, SubSeqProperties DEF Below
  <2> HIDE DEF n
  <2>. QED
    BY ONLY <1>2, <2>3
<1>4. FramesLeft(Below) - 1 = FramesLeft(stack) /\ FramesLeft(stack) \in Int
  BY <1>2, <1>3 DEF FramesLeft
<1>. QED
  BY <1>2, <1>3, <1>4, TypedReturn

(* What the calls that changed nothing make of a result.                      *)
LEMMA PlainReturnServes ==
  ASSUME TInv,
         AfterUnary \/ AfterLeft \/ AfterRight \/ SwallowUnknownUnit \/ AfterPrefixed \/ AfterCheck \/ AfterRadian \/ HandOn
  PROVE  Serves(Below, Yielded)
<1> DEFINE n == FramesLeft(stack)
           below == Meaning(db)[n]
           v == control.value
           data == Top.data
<1>0. stack # <<>> /\ control.at \in {"ok", "err"} /\ FramesLeft(Below) - 1 = n /\ Typed
  <2>1. stack # <<>> /\ control.at \in {"ok", "err"}
    BY DEF AfterUnary, AfterLeft, AfterRight, SwallowUnknownUnit, AfterPrefixed, AfterCheck, AfterRadian, HandOn,
           Succeeds, Returns
  <2>. QED
    BY <2>1, ReturnFacts, TypedFacts
<1>1. ASSUME NEW c, c.at \in {"ok", "err"}, Proceed(Below, c), Yielded = c
      PROVE  Serves(Below, Yielded)
  BY <1>1, AtOnce DEF Proceed
<1>2. control.at = "ok" => ~Fails(control)
  BY DEF Fails
<1>3. CASE AfterUnary
  <2> DEFINE w == IF data = "per" THEN Invert(v) ELSE [v EXCEPT !.factor = Negated(@)]
  <2>1. Proceed(Below, Ok(w)) /\ Top.kind = "unary" /\ ~Fails(control)
    BY <1>2, <1>3 DEF AfterUnary, Succeeds
  <2>2. Yielded = Ok(w)
    BY <2>1 DEF Yielded, Handed, UnaryMeans
  <2> HIDE DEF w
  <2>. QED
    BY <1>1, <2>1, <2>2, ResultsAre
<1>4. CASE AfterLeft
  <2> DEFINE held == [op |-> data.op, left |-> v]
             frame == Frame("right", held)
  <2>1. Top.kind = "left" /\ ~Fails(control) /\ Proceed(Append(Below, frame), Evaluate(data.right))
    BY <1>2, <1>4 DEF AfterLeft, Succeeds
  <2>2. Top.before = Here
    BY <1>0, <2>1, Returned DEF TInv, IInv, Plainly
  <2>3. Yielded = RightMeans(db, data.op, v, below[data.right][Here])
    BY <2>1, <2>2 DEF Yielded, Handed, LeftMeans
  <2>4. frame.kind = "right" /\ frame.data = held /\ held.op = data.op /\ held.left = v
    BY FrameIs
  <2>5. Continue(Append(Below, frame), Evaluate(data.right)) /\ Here' = Here
    BY <2>1 DEF Proceed, Here, state
  <2> HIDE DEF frame, held
  <2>6. \A r : Handed(db, n, frame, r) = RightMeans(db, data.op, v, r)
    BY <2>4 DEF Handed
  <2>. QED
    BY <1>0, <2>3, <2>5, <2>6, ByText
<1>5. CASE AfterRight
  <2> DEFINE c == Operate(data.op, data.left, v)
  <2>1. Top.kind = "right" /\ control.at = "ok" /\ ~Fails(control) /\ Proceed(Below, c)
    BY <1>2, <1>5 DEF AfterRight, Succeeds
  <2>2. Yielded = c
    BY <2>1 DEF Yielded, Handed, RightMeans
  <2>3. c.at \in {"ok", "err"}
    BY ResultsAre DEF Operate
  <2> HIDE DEF c
  <2>. QED
    BY <1>1, <2>1, <2>2, <2>3
<1>6. CASE SwallowUnknownUnit
  <2>1. /\ Top.kind = "right" /\ control.at = "err" /\ data.op = "juxt" /\ IsZero(data.left)
        /\ control.code = "UnknownUnit" /\ control.name \notin DOMAIN db.functions \cup DOMAIN db.tables
        /\ Proceed(Below, Ok(data.left))
    BY <1>6 DEF SwallowUnknownUnit, Swallows
  <2>2. Yielded = Ok(data.left)
    BY <2>1 DEF Yielded, Handed, RightMeans
  <2>. QED
    BY <1>1, <2>1, <2>2, ResultsAre
<1>7. CASE AfterPrefixed
  <2>1. Top.kind = "times" /\ ~Fails(control) /\ Proceed(Below, Ok(Multiply(v, data)))
    BY <1>2, <1>7 DEF AfterPrefixed, Succeeds
  <2>2. Yielded = Ok(Multiply(v, data))
    BY <2>1, ResultsAre DEF Yielded, Handed, PrefixedMeans
  <2>. QED
    BY <1>1, <2>1, <2>2, ResultsAre
<1>8. CASE AfterCheck
  <2> DEFINE arg == data.args[data.checked + 1]
  <2>1. Top.kind = "check" /\ ~Fails(control)
    BY <1>2, <1>8 DEF AfterCheck, Succeeds
  <2>2. Top.before = Here /\ IsCall(data)
    BY <1>0, <2>1, Returned, ReturnFacts DEF TInv, IInv, Plainly, FrameOK
  <2>3. Yielded = CheckedMeans(below, data, control, Here)
    BY <2>1, <2>2 DEF Yielded, Handed
  <2>4. CASE AreConformable(arg, v)
    <3>1. CheckNext(Below, data, Over(arg.factor, v.factor))
      BY <1>8, <2>4 DEF AfterCheck
    <3>2. Yielded = NextMeans(below, data, Over(arg.factor, v.factor), Here)
      BY <2>1, <2>3, <2>4 DEF CheckedMeans
    <3>. QED
      BY <1>0, <2>2, <3>1, <3>2, CheckServes
  <2>5. CASE ~AreConformable(arg, v)
    <3>1. Proceed(Below, ErrOf("WrongDimensions", data.name))
      BY <1>8, <2>5 DEF AfterCheck
    <3>2. Yielded = ErrOf("WrongDimensions", data.name)
      BY <2>1, <2>3, <2>5 DEF CheckedMeans
    <3>. QED
      BY <1>1, <3>1, <3>2, ResultsAre
  <2>. QED
    BY <2>4, <2>5
<1>9. CASE AfterRadian
  <2> DEFINE radian == IF control.at = "ok" THEN v ELSE Unity
             angle == Divide(data.value, radian)
             out == Ok([radian EXCEPT !.factor = Times(@, Computed(data.name, data.value.factor))])
             in == IF IsDimensionless(angle) THEN Scaled(data.name, angle.factor)
                   ELSE ErrOf("DimensionlessRequired", data.name)
  <2>1. radian = IF Fails(control) THEN Unity ELSE v
    BY DEF Fails
  <2>2. in.at \in {"ok", "err"} /\ out.at \in {"ok", "err"}
    BY ResultsAre DEF Scaled
  <2>3. Top.kind \in {"anglein", "angleout"}
    BY <1>9 DEF AfterRadian, Returns
  <2> HIDE DEF radian
  <2>4. Proceed(Below, IF Top.kind = "angleout" THEN out ELSE in)
    BY <1>9 DEF AfterRadian, Scaled, radian
  <2>5. CASE Top.kind = "angleout"
    <3>1. Yielded = out
      BY <1>0, <2>1, <2>5 DEF Yielded, Handed, AngleMeans
    <3> HIDE DEF out, in
    <3>. QED
      BY <1>1, <2>2, <2>4, <2>5, <3>1
  <2>6. CASE Top.kind = "anglein"
    <3>1. Yielded = in
      BY <1>0, <2>1, <2>6 DEF Yielded, Handed, AngleMeans
    <3> HIDE DEF out, in
    <3>. QED
      BY <1>1, <2>2, <2>4, <2>6, <3>1
  <2>. QED
    BY <2>3, <2>5, <2>6
<1>10. CASE HandOn
  <2>1. Proceed(Below, control)
    BY <1>10 DEF HandOn
  <2>2. CASE Top.kind \in {"prefix", "alias", "table"}
    BY <1>0, <1>1, <2>1, <2>2, HandedOn DEF Yielded
  <2>3. CASE Top.kind \notin {"prefix", "alias", "table"}
    <3>1. /\ control.at = "err" /\ Top.kind \in {"unary", "left", "right", "prefixed", "times", "check"} /\ ~Swallows(Top)
      BY <1>10, <2>3 DEF HandOn
    <3>2. Fails(control)
      BY <3>1 DEF Fails
    <3>3. Yielded = control
      <4>1. CASE Top.kind = "right"
        BY <3>1, <3>2, <4>1 DEF Yielded, Handed, RightMeans, Swallows
      <4>2. CASE Top.kind # "right"
        BY <3>1, <3>2, <4>2, ResultsAre DEF Yielded, Handed, UnaryMeans, LeftMeans, PrefixedMeans, CheckedMeans
      <4>. QED
        BY <4>1, <4>2
    <3>. QED
      BY <1>0, <1>1, <2>1, <3>3
  <2>. QED
    BY <2>2, <2>3
<1>. QED
  BY <1>3, <1>4, <1>5, <1>6, <1>7, <1>8, <1>9, <1>10

(* The calls that undo what they changed.                                     *)
LEMMA UndoingReturnServes ==
  ASSUME TInv, AfterGroup \/ AfterTilde \/ AfterArgument \/ AfterEntry \/ AfterBody
  PROVE  Serves(Below, Yielded)
<1> DEFINE n == FramesLeft(stack)
           below == Meaning(db)[n]
           v == control.value
           data == Top.data
           h == [vars |-> vars, resolving |-> resolving, depth |-> depth - 1]
<1>0. stack # <<>> /\ control.at \in {"ok", "err"} /\ FramesLeft(Below) - 1 = n /\ FrameTyped(db, Top)
  <2>1. stack # <<>> /\ control.at \in {"ok", "err"}
    BY DEF AfterGroup, AfterTilde, AfterArgument, AfterEntry, AfterBody, Returns
  <2>. QED
    BY <2>1, ReturnFacts
<1>1. ASSUME Continue(Below, control), Yielded = control
      PROVE  Serves(Below, Yielded)
  BY <1>0, <1>1, AtOnce
<1>2. control.at = "err" => Fails(control)
  BY DEF Fails
<1>3. control.at = "ok" => ~Fails(control) /\ v \in UnitValue
  BY TypedFacts DEF Fails, ControlTyped
<1>4. CASE AfterGroup \/ AfterEntry \/ AfterBody
  <2>1. Continue(Below, control) /\ Top.kind \in {"group", "entry", "body"}
    BY <1>4 DEF AfterGroup, AfterEntry, AfterBody, Returns
  <2>2. Yielded = control
    BY <2>1, HandedOn DEF Yielded
  <2>. QED
    BY <1>1, <2>1, <2>2
<1>5. CASE AfterTilde
  <2>1. /\ Top.kind = "tilde" /\ depth' = depth - 1 /\ UNCHANGED <<vars, resolving>>
        /\ IF control.at = "err" THEN Continue(Below, control) ELSE CallInverse(data, v, Below)
    BY <1>5 DEF AfterTilde, Returns
  <2>2. Top.before = Here'
    BY <1>0, <2>1, Returned DEF TInv, IInv, Here
  <2>3. Yielded = TildeMeans(db, below, data, control, Here')
    BY <2>1, <2>2 DEF Yielded, Handed
  <2>4. CASE control.at = "err"
    BY <1>1, <1>2, <2>1, <2>3, <2>4 DEF TildeMeans
  <2>5. CASE control.at = "ok"
    <3>1. Yielded = InverseMeans(db, below, data, v, Here')
      BY <1>3, <2>3, <2>5 DEF TildeMeans
    <3>. QED
      BY <1>0, <2>1, <2>5, <3>1, InverseServes
  <2>. QED
    BY <1>0, <2>4, <2>5
<1>6. CASE AfterArgument
  <2> DEFINE name == data.name
             rest == data.rest
             done == Append(data.done, v)
             more == [name |-> name, done |-> done, rest |-> Tail(rest)]
  <2>1. Top.kind = "args" /\ UNCHANGED <<vars, resolving>>
    BY <1>6 DEF AfterArgument, Returns
  <2>2. Top.before = h /\ data.done \in Seq(UnitValue) /\ rest \in Seq(Tree)
    BY <1>0, <2>1, Returned DEF TInv, IInv, FrameTyped
  <2>3. Yielded = IF Fails(control) THEN control ELSE ArgumentsMean(db, below, name, done, rest, h)
    BY <2>1, <2>2 DEF Yielded, Handed
  <2>4. CASE control.at = "err"
    <3>1. Continue(Below, control)
      BY <1>6, <2>4 DEF AfterArgument
    <3>. QED
      BY <1>1, <1>2, <2>3, <2>4, <3>1
  <2>5. ASSUME control.at = "ok"
        PROVE  done \in Seq(UnitValue) /\ Yielded = ArgumentsMean(db, below, name, done, rest, h)
    BY <1>3, <2>2, <2>3, <2>5, AppendProperties
  <2>6. CASE control.at = "ok" /\ rest = <<>>
    <3>1. depth' = depth - 1 /\ CallFunctionMulti(name, done, Below)
      BY <1>6, <2>6 DEF AfterArgument
    <3>2. Here' = h
      BY <2>1, <3>1 DEF Here
    <3> HIDE DEF done, h
    <3>3. Yielded = FunctionMeans(db, below, name, done, h)
      BY <2>5, <2>6, ArgumentsEnd
    <3>. QED
      BY <1>0, <3>1, <3>2, <3>3, FunctionServes
  <2>7. CASE control.at = "ok" /\ rest # <<>>
    <3> DEFINE frame == FrameAt(depth - 1, "args", more)
               r == Deeper(below, Head(rest), h)
    <3>1. Nested(Below, depth - 1, "args", more, Head(rest))
      BY <1>6, <2>7 DEF AfterArgument
    <3>2. Yielded = IF Fails(r) THEN r ELSE ArgumentsMean(db, below, name, Append(done, r.value), Tail(rest), h)
      <4> HIDE DEF done, h, rest, name, below
      <4>. QED
        BY <2>2, <2>5, <2>7, ArgumentsGoOn
    <3>3. Serves(Below, Handed(db, n, frame, r))
      BY <1>0, <2>1, <3>1, NestedServes
    <3>4. /\ frame.kind = "args" /\ frame.data = more /\ frame.before = h
          /\ more.name = name /\ more.done = done /\ more.rest = Tail(rest)
      BY DEF FrameAt
    <3> HIDE DEF frame, more, r, done, h
    <3>5. Handed(db, n, frame, r) = Yielded
      BY <3>2, <3>4 DEF Handed
    <3>. QED
      BY <3>3, <3>5
  <2>. QED
    BY <1>0, <2>4, <2>6, <2>7
<1>. QED
  BY <1>4, <1>5, <1>6

(* A call that returns hands on what is made of its result.                   *)
LEMMA ReturnKeeps ==
  ASSUME MInv, TInv', UNCHANGED request, Len(stack) <= StackLimit, Return
  PROVE  MInv'
<1> DEFINE n == FramesLeft(stack)
<1>0. /\ TInv /\ stack # <<>> /\ control.at \in {"ok", "err"} /\ \E S : stack \in Seq(S)
      /\ FramesLeft(Below) - 1 = n /\ n \in Int /\ Len(Below) = Len(stack) - 1 /\ Len(stack) \in Nat
      /\ FrameTyped(db, Top) /\ \E S : Below \in Seq(S)
  <2>1. stack # <<>> /\ control.at \in {"ok", "err"}
    BY DEF Return, AfterUnary, AfterLeft, AfterRight, SwallowUnknownUnit, AfterGroup, AfterTilde, AfterArgument,
           AfterEntry, AfterPrefix, AfterPrefixed, AfterCheck, AfterBody, AfterRadian, HandOn, Succeeds, Returns
  <2>. QED
    BY <2>1, ReturnFacts, TypedFacts DEF MInv
<1>1. Hands(db, Below, Yielded, Goal)
  <2>1. Denote(db, n, control, Here) = control
    BY <1>0 DEF Denote
  <2>2. Hands(db, stack, control, Goal)
    BY <2>1 DEF MInv
  <2> DEFINE d == db
             goal == Goal
             c == control
  <2>3. Hands(d, stack, c, goal)
    BY <2>2
  <2> HIDE DEF d, goal, c
  <2>4. Hands(d, SubSeq(stack, 1, Len(stack) - 1), Handed(d, FramesLeft(stack), stack[Len(stack)], c), goal)
    BY <1>0, <2>3, HandsPopped
  <2>. QED
    BY <2>4 DEF d, c, goal, Below, Yielded, Top
<1>2. StackLimit \in Nat /\ Len(Below) <= StackLimit
  BY <1>0, EvaluatorAssumption
<1>3. ASSUME Serves(Below, Yielded)
      PROVE  MInv'
  BY <1>0, <1>1, <1>2, <1>3, ServesKeeps
<1>4. CASE AfterPrefix
  <2> DEFINE unit == Top.data.unit
             v == control.value
             frame == Frame("times", v)
             s == Append(Below, frame)
             g == UnitMeans(db, Meaning(db)[n - 1], unit, Here)
  <2>1. Top.kind = "prefixed" /\ control.at = "ok" /\ ResolveEntry(unit, s)
    BY <1>4 DEF AfterPrefix, Succeeds
  <2>2. Top.before = Here
    BY <1>0, <2>1, Returned DEF TInv, IInv, Plainly
  <2>3. Yielded = PrefixedMeans(control, g)
    BY <2>1, <2>2 DEF Yielded, Handed
  <2>4. frame.kind = "times" /\ frame.data = v
    BY FrameIs
  <2> HIDE DEF frame, g
  <2>5. Handed(db, n, frame, g) = PrefixedMeans(Ok(v), g)
    BY <2>4 DEF Handed
  <2>6. PrefixedMeans(Ok(v), g) = PrefixedMeans(control, g)
    BY <2>1, ResultsAre DEF PrefixedMeans, Fails
  <2>7. Hands(db, s, g, Goal)
    <3>1. Hands(db, Below, Handed(db, FramesLeft(Below) - 1, frame, g), Goal)
      BY <1>0, <1>1, <2>3, <2>5, <2>6
    <3>. QED
      BY <1>0, <3>1, HandsPushed
  <2>8. Len(s) = Len(stack) /\ \E S : s \in Seq(S)
    <3>1. PICK R : Below \in Seq(R)
      BY <1>0
    <3> DEFINE S == R \cup {frame}
    <3>2. Below \in Seq(S) /\ frame \in S
      BY <3>1
    <3>3. s \in Seq(S) /\ Len(s) = Len(Below) + 1
      BY <3>2, AppendProperties
    <3>. QED
      BY <1>0, <3>3
  <2>9. Serves(s, g)
    <3>1. FramesLeft(s) = n
      BY <2>8 DEF FramesLeft
    <3>. QED
      BY <1>0, <2>1, <3>1, EntryServes DEF g
  <2> HIDE DEF s
  <2>. QED
    BY <2>7, <2>8, <2>9, ServesKeeps
<1>. QED
  BY <1>0, <1>3, <1>4, PlainReturnServes, UndoingReturnServes DEF Return

(* An evaluation begins with its text, and without calls in progress.         *)
LEMMA InitMeaning ==
  Init => MInv
<1> SUFFICES ASSUME Init PROVE MInv
  OBVIOUS
<1>1. /\ TInv /\ control = Evaluate(request.expr) /\ stack = <<>> /\ Here = First
  BY InitTyped DEF Init, Here, First
<1>2. Len(<<>>) = 0 /\ StackLimit \in Nat
  BY EvaluatorAssumption
<1>3. FramesLeft(stack) = StackLimit + 1
  BY <1>1, <1>2 DEF FramesLeft
<1>4. Denote(db, FramesLeft(stack), control, Here) = Goal
  BY <1>1, <1>3 DEF Denote, Evaluate, Goal
<1>5. Room
  BY <1>1, <1>2 DEF Room, Evaluate
<1>. QED
  BY <1>1, <1>4, <1>5, HandsNone DEF MInv

(* No step changes what is handed to the first call, and the process is       *)
(* aborted where a meaning has no frame left.                                 *)
LEMMA NextKeepsMeaning ==
  ASSUME DistinctParameters, MInv, [Next]_all
  PROVE  MInv'
<1>0. TInv /\ TInv' /\ \E S : stack \in Seq(S)
  BY NextTyped, TypedFacts DEF MInv
<1>1. CASE UNCHANGED all
  <2>1. db' = db /\ Goal' = Goal /\ Here' = Here /\ Room' /\ FramesLeft(stack)' = FramesLeft(stack)
    BY <1>1 DEF all, MInv, db, Goal, First, Here, Room, FramesLeft
  <2>. QED
    BY <1>0, <1>1, <2>1 DEF MInv, all
<1>2. CASE Step
  <2>1. UNCHANGED request /\ Hands(db, stack, Meant, Goal) /\ Room
    BY <1>2 DEF Step, MInv, Meant
  <2>2. CASE Len(stack) <= StackLimit /\ (Decompose \/ Resolve \/ Apply)
    <3>1. Serves(stack, Meant)
      BY <1>0, <2>2, DecomposeServes, ResolveServes, ApplyServes
    <3>. QED
      BY <1>0, <2>1, <2>2, <3>1, ServesKeeps
  <2>3. CASE Len(stack) <= StackLimit /\ Return
    BY <1>0, <2>1, <2>3, ReturnKeeps
  <2>4. CASE Abort
    <3>1. stack' = stack /\ control' = Aborted /\ Here' = Here /\ Len(stack) > StackLimit /\ control.at # "aborted"
      BY <2>4 DEF Abort, Aborted, Proceed, Continue, Here, state
    <3>2. Len(stack) \in Nat /\ StackLimit \in Nat
      BY <1>0, LenProperties, EvaluatorAssumption
    <3>3. Len(stack) = StackLimit + 1 /\ control.at = "expr" /\ FramesLeft(stack) = 0
      BY <2>1, <3>1, <3>2 DEF Room, FramesLeft
    <3>4. control.expr \in Tree /\ Here \in Place
      BY <1>0, <3>3, TypedFacts DEF ControlTyped, Place
    <3>5. Meaning(db)[0][control.expr][Here] = Aborted
      BY <3>4, MeaningIs
    <3>6. Meant = Aborted
      BY <3>3, <3>5 DEF Meant, Denote
    <3>7. db' = db /\ Goal' = Goal /\ FramesLeft(stack)' = FramesLeft(stack)
      BY <2>1, <3>1 DEF db, Goal, First, FramesLeft
    <3>8. Denote(db, FramesLeft(stack), Aborted, Here) = Aborted
      BY DEF Denote, Aborted
    <3>9. Room'
      BY <3>1, <3>2, <3>3 DEF Room, Aborted
    <3>. QED
      BY <1>0, <2>1, <3>1, <3>6, <3>7, <3>8, <3>9 DEF MInv
  <2>. QED
    BY <1>2, <2>2, <2>3, <2>4 DEF Step
<1>. QED
  BY <1>1, <1>2 DEF Next, Done

(* The answer of an evaluation is the meaning of its text: each name in it    *)
(* has the binding of its place, an argument is checked before the body sees  *)
(* it, a cycle and a depth are found where they are, errors are handed on or  *)
(* swallowed, and the process is aborted exactly where the meaning takes more *)
(* frames than the native stack has (Evaluator, its calls of itself).         *)
THEOREM EvaluationsMeanTheirTexts ==
  ASSUME DistinctParameters
  PROVE  Spec => []AnswersAsScoped
<1>1. MInv => AnswersAsScoped
  <2> SUFFICES ASSUME MInv, Finished PROVE control = Goal
    BY DEF AnswersAsScoped, Goal, First
  <2>1. Hands(db, stack, Denote(db, FramesLeft(stack), control, Here), Goal)
    BY DEF MInv
  <2>2. CASE control.at = "aborted"
    <3>1. control = Aborted /\ Len(stack) \in Nat
      BY <2>2, TypedFacts, LenProperties DEF MInv, Room
    <3>2. Denote(db, FramesLeft(stack), control, Here) = Aborted
      BY <3>1 DEF Denote, Aborted
    <3>3. Hands(db, stack, Aborted, Goal)
      BY <2>1, <3>2
    <3>. QED
      BY <3>1, <3>3, AbortReachesGoal
  <2>3. CASE control.at \in {"ok", "err"} /\ stack = <<>>
    <3>1. Denote(db, FramesLeft(stack), control, Here) = control
      BY <2>3 DEF Denote
    <3>2. Hands(db, <<>>, control, Goal)
      BY <2>1, <2>3, <3>1
    <3>. QED
      BY <3>2, HandsNone
  <2>. QED
    BY <2>2, <2>3 DEF Finished
<1>2. MInv /\ [Next]_all => MInv'
  BY NextKeepsMeaning
<1>. QED
  BY <1>1, <1>2, InitMeaning, PTL DEF Spec


-----------------------------------------------------------------------------
\* How many frames there can be: trees are finite, and so is a database.

\* No text that the evaluation may come to is higher than H.
TextsWithin(H) == H \in Nat /\ \A e \in {request.expr} \cup TextsIn(db) : Height[e] <= H

\* The same text by text.
Within(H, d) ==
  /\ \A n \in DOMAIN d.units : d.units[n].kind = "derived" => Height[d.units[n].def] <= H
  /\ \A p \in DOMAIN d.prefixes : Height[d.prefixes[p]] <= H
  /\ \A f \in DOMAIN d.functions :
       LET func == d.functions[f] IN
       /\ Height[func.forward] <= H
       /\ \A e \in {func.reverse, func.inverse_unit} \cup {func.units[i] : i \in DOMAIN func.units} :
            e # None => Height[e] <= H
  /\ \A t \in DOMAIN d.tables : \A x \in DOMAIN d.tables[t].readings : Height[d.tables[t].readings[x]] <= H

\* The frames of the texts among the first i, and what height is allowed for on top of these.
Marks(s, i) == {j \in 1 .. i : s[j].kind \in TextKinds}
Allowed(H, s, i) == (H + 2) * Cardinality(Marks(s, i)) + H

\* A text may begin one frame beyond what is allowed, the unit behind a prefix two.
Extra(frame) == IF frame.kind = "entry" THEN 2 ELSE IF frame.kind \in TextKinds \cup {"times"} THEN 1 ELSE 0

\* The trees a frame has yet to evaluate.
Waiting(frame) ==
  CASE frame.kind = "left" -> {frame.data.right}
    [] frame.kind = "args" -> {frame.data.rest[i] : i \in DOMAIN frame.data.rest}
    [] OTHER -> {}

CallFits(H, d, c) ==
  /\ c.name \in DOMAIN d.functions /\ Height[c.body] <= H
  /\ \A i \in DOMAIN c.units : c.units[i] # None => Height[c.units[i]] <= H

\* A frame that stands at i, above which a is allowed.
FrameFits(H, d, a, i, frame) ==
  /\ i <= a + Extra(frame)
  /\ \A e \in Waiting(frame) : i + Height[e] <= a
  /\ frame.kind \in TextKinds \ {"entry"} => TextOf(frame) \in Openings(d)
  /\ frame.kind = "prefixed" => frame.data.unit \in DOMAIN d.units
  /\ frame.kind = "check" => CallFits(H, d, frame.data)

StackFits(H, d, s) ==
  \A i \in 1 .. Len(s) : FrameFits(H, d, Allowed(H, s, i - 1), i, s[i])

ControlFits(H, d, s, c) ==
  /\ c.at = "expr" => Len(s) + Height[c.expr] <= Allowed(H, s, Len(s))
  /\ c.at = "call" => Len(s) <= Allowed(H, s, Len(s)) /\ CallFits(H, d, c)
  /\ c.at = "aborted" => Len(s) > StackLimit

Fitting(H) == StackFits(H, db, stack) /\ ControlFits(H, db, stack, control)

FInv(H) == TInv /\ Fitting(H)

(* A text is marked once, and frames below do not depend on those above.      *)
LEMMA MarksAre ==
  ASSUME NEW H \in Nat, NEW s, NEW i \in Nat
  PROVE  /\ IsFiniteSet(Marks(s, i)) /\ Cardinality(Marks(s, i)) \in Nat
         /\ Allowed(H, s, i) \in Nat /\ Allowed(H, s, i) >= H
         /\ Allowed(H, s, 0) = H
         /\ Allowed(H, s, i + 1) = Allowed(H, s, i) + (IF s[i + 1].kind \in TextKinds THEN H + 2 ELSE 0)
<1>1. \A k \in Nat : IsFiniteSet(Marks(s, k)) /\ Cardinality(Marks(s, k)) \in Nat
  <2> TAKE k \in Nat
  <2>1. IsFiniteSet(1 .. k) /\ Marks(s, k) \subseteq 1 .. k
    BY FS_Interval DEF Marks
  <2>2. IsFiniteSet(Marks(s, k))
    BY <2>1, FS_Subset
  <2>. QED
    BY <2>2, FS_CardinalityType
<1>2. Marks(s, 0) = {} /\ Cardinality({}) = 0
  BY FS_EmptySet DEF Marks
<1>a. \A c \in Nat : (H + 2) * c \in Nat /\ (H + 2) * (c + 1) = (H + 2) * c + (H + 2) /\ (H + 2) * 0 = 0
  OBVIOUS
<1> DEFINE size(k) == Cardinality(Marks(s, k))
<1>b. /\ Allowed(H, s, i) \in Nat /\ Allowed(H, s, i) >= H /\ Allowed(H, s, 0) = H
      /\ size(i + 1) = size(i) + 1 => Allowed(H, s, i + 1) = Allowed(H, s, i) + (H + 2)
      /\ size(i + 1) = size(i) => Allowed(H, s, i + 1) = Allowed(H, s, i)
  <2>1. size(i) \in Nat /\ size(0) = 0 /\ \A k : Allowed(H, s, k) = (H + 2) * size(k) + H
    BY <1>1, <1>2 DEF Allowed
  <2> HIDE DEF size
  <2>2. (H + 2) * size(i) \in Nat
    BY <1>a, <2>1
  <2>3. Allowed(H, s, i) \in Nat /\ Allowed(H, s, i) >= H /\ Allowed(H, s, 0) = H
    BY <1>a, <2>1, <2>2
  <2>4. ASSUME size(i + 1) = size(i) + 1 PROVE Allowed(H, s, i + 1) = Allowed(H, s, i) + (H + 2)
    <3>1. Allowed(H, s, i + 1) = (H + 2) * size(i) + (H + 2) + H
      BY <1>a, <2>1, <2>4
    <3>. QED
      BY <2>1, <2>2, <3>1
  <2>5. ASSUME size(i + 1) = size(i) PROVE Allowed(H, s, i + 1) = Allowed(H, s, i)
    BY <2>1, <2>5
  <2>. QED
    BY <2>3, <2>4, <2>5
<1>3. CASE s[i + 1].kind \in TextKinds
  <2>1. Marks(s, i + 1) = Marks(s, i) \cup {i + 1} /\ i + 1 \notin Marks(s, i)
    BY <1>3 DEF Marks
  <2>2. Cardinality(Marks(s, i + 1)) = Cardinality(Marks(s, i)) + 1
    BY <1>1, <2>1, FS_AddElement
  <2>. QED
    BY <1>1, <1>3, <1>b, <2>2
<1>4. CASE s[i + 1].kind \notin TextKinds
  <2>1. Marks(s, i + 1) = Marks(s, i)
    BY <1>4 DEF Marks
  <2>2. Allowed(H, s, i + 1) = Allowed(H, s, i) + 0
    BY <1>b, <2>1
  <2>. QED
    BY <1>1, <1>4, <1>b, <2>2
<1>. QED
  BY <1>3, <1>4

LEMMA SameMarks ==
  ASSUME NEW H, NEW s, NEW t, NEW n \in Nat, \A j \in 1 .. n : t[j] = s[j]
  PROVE  \A i \in 0 .. n : Allowed(H, t, i) = Allowed(H, s, i)
<1> TAKE i \in 0 .. n
<1>1. \A j \in 1 .. i : j \in 1 .. n
  OBVIOUS
<1>2. Marks(t, i) = Marks(s, i)
  BY <1>1 DEF Marks
<1>. QED
  BY <1>2 DEF Allowed

(* A frame on top of frames that fit, and what is left without the top.       *)
LEMMA PushedFits ==
  ASSUME NEW H \in Nat, NEW d, NEW s, \E S : s \in Seq(S), StackFits(H, d, s),
         NEW frame, FrameFits(H, d, Allowed(H, s, Len(s)), Len(s) + 1, frame)
  PROVE  /\ StackFits(H, d, Append(s, frame)) /\ Len(Append(s, frame)) = Len(s) + 1
         /\ Allowed(H, Append(s, frame), Len(s) + 1)
              = Allowed(H, s, Len(s)) + (IF frame.kind \in TextKinds THEN H + 2 ELSE 0)
<1>1. PICK R : s \in Seq(R)
  OBVIOUS
<1> DEFINE S == R \cup {frame}
           t == Append(s, frame)
<1>2. s \in Seq(S) /\ frame \in S
  BY <1>1
<1>3. /\ Len(t) = Len(s) + 1 /\ Len(s) \in Nat
      /\ \A i \in 1 .. Len(s) : t[i] = s[i]
      /\ t[Len(s) + 1] = frame
  BY <1>2, AppendProperties, LenProperties
<1> HIDE DEF t, S
<1>4. \A i \in 0 .. Len(s) : Allowed(H, t, i) = Allowed(H, s, i)
  BY <1>3, SameMarks
<1>5. ASSUME NEW i \in 1 .. Len(t)
      PROVE  FrameFits(H, d, Allowed(H, t, i - 1), i, t[i])
  <2>1. i - 1 \in 0 .. Len(s) /\ (i \in 1 .. Len(s) \/ i = Len(s) + 1)
    BY <1>3
  <2>2. Allowed(H, t, i - 1) = Allowed(H, s, i - 1)
    BY <1>4, <2>1
  <2>3. CASE i \in 1 .. Len(s)
    BY <1>3, <2>2, <2>3 DEF StackFits
  <2>4. CASE i = Len(s) + 1
    <3>1. i - 1 = Len(s) /\ t[i] = frame
      BY <1>3, <2>4
    <3>. QED
      BY <2>2, <2>4, <3>1
  <2>. QED
    BY <2>1, <2>3, <2>4
<1>6. Allowed(H, t, Len(s) + 1) = Allowed(H, s, Len(s)) + (IF frame.kind \in TextKinds THEN H + 2 ELSE 0)
  <2>1. Len(s) \in 0 .. Len(s)
    BY <1>3
  <2>2. Allowed(H, t, Len(s) + 1) = Allowed(H, t, Len(s)) + (IF t[Len(s) + 1].kind \in TextKinds THEN H + 2 ELSE 0)
    BY <1>3, MarksAre
  <2>. QED
    BY <1>3, <1>4, <2>1, <2>2
<1>7. StackFits(H, d, t)
  BY <1>5 DEF StackFits
<1>. QED
  BY <1>3, <1>6, <1>7 DEF t

LEMMA PoppedFits ==
  ASSUME NEW H \in Nat, NEW d, NEW s, \E S : s \in Seq(S), s # <<>>, StackFits(H, d, s),
         NEW t, t = SubSeq(s, 1, Len(s) - 1)
  PROVE  /\ \E S : t \in Seq(S)
         /\ StackFits(H, d, t) /\ Len(t) = Len(s) - 1 /\ Len(t) \in Nat
         /\ FrameFits(H, d, Allowed(H, t, Len(t)), Len(t) + 1, s[Len(s)])
<1>1. PICK S : s \in Seq(S)
  OBVIOUS
<1> DEFINE n == Len(s)
<1>2. n \in Nat /\ n >= 1 /\ \A i \in 1 .. n : s[i] \in S
  BY <1>1, EmptySeq, LenProperties, ElementOfSeq
<1>3. t \in Seq(S) /\ Len(t) = n - 1 /\ \A i \in 1 .. n - 1 : t[i] = s[i]
  <2>1. \A i \in 1 .. n - 1 : s[i] \in S
    BY <1>2
  <2>2. 1 \in Int /\ n - 1 \in Int
    BY <1>2
  <2>3. /\ t \in Seq(S) /\ Len(t) = IF 1 <= n - 1 THEN n - 1 - 1 + 1 ELSE 0
        /\ \A i \in 1 .. n - 1 - 1 + 1 : t[i] = s[1 + i - 1]
    BY <2>1, <2>2, SubSeqProperties
  <2> HIDE DEF n
  <2>. QED
    BY ONLY <1>2, <2>3
<1> HIDE DEF n
<1>4. n - 1 \in Nat
  BY <1>2
<1>5. \A i \in 0 .. n - 1 : Allowed(H, t, i) = Allowed(H, s, i)
  BY <1>3, <1>4, SameMarks
<1>6. ASSUME NEW i \in 1 .. n
      PROVE  FrameFits(H, d, Allowed(H, t, i - 1), i, s[i])
  <2>1. i - 1 \in 0 .. n - 1
    BY <1>2
  <2>. QED
    BY <1>5, <2>1 DEF StackFits, n
<1>7. StackFits(H, d, t)
  <2>1. \A i \in 1 .. n - 1 : i \in 1 .. n
    BY <1>2
  <2>. QED
    BY <1>3, <1>6, <2>1 DEF StackFits
<1>8. n \in 1 .. n /\ Len(t) + 1 = n
  BY <1>2, <1>3
<1>. QED
  BY <1>3, <1>4, <1>6, <1>7, <1>8 DEF n

-----------------------------------------------------------------------------
(* The texts of a database are those of its units, prefixes, functions and    *)
(* tables.                                                                    *)
LEMMA PartsOfTexts ==
  /\ UnitTexts(db) \cup PrefixTexts(db) \subseteq TextsIn(db)
  /\ \A f \in DOMAIN db.functions : FunctionTexts(db.functions[f]) \subseteq TextsIn(db)
  /\ \A t \in DOMAIN db.tables : TableTexts(db.tables[t]) \subseteq TextsIn(db)
  /\ \A S : /\ UnitTexts(db) \cup PrefixTexts(db) \subseteq S
            /\ \A f \in DOMAIN db.functions : FunctionTexts(db.functions[f]) \subseteq S
            /\ \A t \in DOMAIN db.tables : TableTexts(db.tables[t]) \subseteq S
            => TextsIn(db) \subseteq S
<1> DEFINE F == {FunctionTexts(db.functions[f]) : f \in DOMAIN db.functions}
           T == {TableTexts(db.tables[t]) : t \in DOMAIN db.tables}
<1>1. \A f \in DOMAIN db.functions : FunctionTexts(db.functions[f]) \in F
  OBVIOUS
<1>2. \A t \in DOMAIN db.tables : TableTexts(db.tables[t]) \in T
  OBVIOUS
<1>3. TextsOfFunctions(db) = UNION F /\ TextsOfTables(db) = UNION T
  BY DEF TextsOfFunctions, TextsOfTables
<1>4. \A X \in F : \E f \in DOMAIN db.functions : X = FunctionTexts(db.functions[f])
  OBVIOUS
<1>5. \A X \in T : \E t \in DOMAIN db.tables : X = TableTexts(db.tables[t])
  OBVIOUS
<1> HIDE DEF F, T
<1>6. ASSUME NEW S, \A f \in DOMAIN db.functions : FunctionTexts(db.functions[f]) \subseteq S
      PROVE  TextsOfFunctions(db) \subseteq S
  <2>1. UNION F \subseteq S
    BY <1>4, <1>6, Zenon
  <2>. QED
    BY <1>3, <2>1
<1>7. ASSUME NEW S, \A t \in DOMAIN db.tables : TableTexts(db.tables[t]) \subseteq S
      PROVE  TextsOfTables(db) \subseteq S
  <2>1. UNION T \subseteq S
    BY <1>5, <1>7, Zenon
  <2>. QED
    BY <1>3, <2>1
<1>8. \A f \in DOMAIN db.functions : FunctionTexts(db.functions[f]) \subseteq TextsOfFunctions(db)
  <2>1. \A f \in DOMAIN db.functions : FunctionTexts(db.functions[f]) \subseteq UNION F
    BY <1>1, Zenon
  <2>. QED
    BY <1>3, <2>1
<1>9. \A t \in DOMAIN db.tables : TableTexts(db.tables[t]) \subseteq TextsOfTables(db)
  <2>1. \A t \in DOMAIN db.tables : TableTexts(db.tables[t]) \subseteq UNION T
    BY <1>2, Zenon
  <2>. QED
    BY <1>3, <2>1
<1>10. ASSUME NEW S, UnitTexts(db) \cup PrefixTexts(db) \subseteq S,
              \A f \in DOMAIN db.functions : FunctionTexts(db.functions[f]) \subseteq S,
              \A t \in DOMAIN db.tables : TableTexts(db.tables[t]) \subseteq S
       PROVE  TextsIn(db) \subseteq S
  <2>1. TextsOfFunctions(db) \subseteq S /\ TextsOfTables(db) \subseteq S
    BY <1>6, <1>7, <1>10
  <2>. QED
    BY <1>10, <2>1 DEF TextsIn
<1>11. /\ UnitTexts(db) \cup PrefixTexts(db) \subseteq TextsIn(db)
       /\ TextsOfFunctions(db) \subseteq TextsIn(db) /\ TextsOfTables(db) \subseteq TextsIn(db)
  BY DEF TextsIn
<1>12. \A f \in DOMAIN db.functions : FunctionTexts(db.functions[f]) \subseteq TextsIn(db)
  BY <1>8, <1>11
<1>13. \A t \in DOMAIN db.tables : TableTexts(db.tables[t]) \subseteq TextsIn(db)
  BY <1>9, <1>11
<1>. QED
  BY <1>10, <1>11, <1>12, <1>13

(* What the actions start from.                                               *)
LEMMA HeightFacts ==
  ASSUME NEW H, TextsWithin(H), request \in Requests
  PROVE  /\ H \in Nat /\ Lower /\ Within(H, db) /\ Height[request.expr] <= H
         /\ \A e \in Tree : Height[e] \in Nat
         /\ IsFiniteSet(Openings(db))
<1>1. /\ \A e \in UnitTexts(db) \cup PrefixTexts(db) : Height[e] <= H
      /\ \A f \in DOMAIN db.functions : \A e \in FunctionTexts(db.functions[f]) : Height[e] <= H
      /\ \A t \in DOMAIN db.tables : \A e \in TableTexts(db.tables[t]) : Height[e] <= H
  BY PartsOfTexts DEF TextsWithin
<1>2. /\ \A n \in DOMAIN db.units : db.units[n].kind = "derived" => Height[db.units[n].def] <= H
      /\ \A p \in DOMAIN db.prefixes : Height[db.prefixes[p]] <= H
  BY <1>1 DEF UnitTexts, PrefixTexts
<1>3. ASSUME NEW f \in DOMAIN db.functions
      PROVE  LET func == db.functions[f] IN
             /\ Height[func.forward] <= H
             /\ \A e \in {func.reverse, func.inverse_unit} \cup {func.units[i] : i \in DOMAIN func.units} :
                  e # None => Height[e] <= H
  BY <1>1 DEF FunctionTexts
<1>a. \A t \in DOMAIN db.tables : \A x \in DOMAIN db.tables[t].readings : Height[db.tables[t].readings[x]] <= H
  BY <1>1 DEF TableTexts
<1>4. Within(H, db)
  BY <1>2, <1>3, <1>a DEF Within
<1>5. Lower /\ IsFiniteSet(Openings(db))
  BY HeightAssumption DEF db
<1>. QED
  BY <1>4, <1>5 DEF TextsWithin, Lower

(* Results need no frames.                                                    *)
LEMMA ResultsFit ==
  ASSUME NEW H, NEW d, NEW s
  PROVE  /\ \A v : ControlFits(H, d, s, Ok(v))
         /\ \A code, name : ControlFits(H, d, s, ErrOf(code, name)) /\ ControlFits(H, d, s, Err(code))
         /\ \A c : c.at \in {"ok", "err"} => ControlFits(H, d, s, c)
BY DEF ControlFits, Ok, ErrOf, Err

(* What keeps the bound: calls in progress that fit, with or without a new    *)
(* one on top.                                                                *)
LEMMA FitsStays ==
  ASSUME NEW H, NEW s, StackFits(H, db, s), UNCHANGED request,
         stack' = s, ControlFits(H, db, s, control')
  PROVE  Fitting(H)'
BY DEF Fitting, db

LEMMA FitsMakes ==
  ASSUME NEW H \in Nat, NEW s, \E S : s \in Seq(S), StackFits(H, db, s), UNCHANGED request,
         NEW frame, FrameFits(H, db, Allowed(H, s, Len(s)), Len(s) + 1, frame),
         NEW e, Height[e] \in Nat,
         Len(s) + 1 + Height[e] <= Allowed(H, s, Len(s)) + (IF frame.kind \in TextKinds THEN H + 2 ELSE 0),
         stack' = Append(s, frame), control' = Evaluate(e)
  PROVE  Fitting(H)'
<1> DEFINE t == Append(s, frame)
<1>1. /\ StackFits(H, db, t) /\ Len(t) = Len(s) + 1
      /\ Allowed(H, t, Len(s) + 1) = Allowed(H, s, Len(s)) + (IF frame.kind \in TextKinds THEN H + 2 ELSE 0)
  BY PushedFits
<1>2. stack' = t
  OBVIOUS
<1> HIDE DEF t
<1>3. ControlFits(H, db, t, Evaluate(e))
  BY <1>1 DEF ControlFits, Evaluate
<1>. QED
  BY <1>1, <1>2, <1>3, FitsStays

(* A text that is no higher than H fits one frame beyond what is allowed, the *)
(* definition of a unit two.                                                  *)
LEMMA TextFits ==
  ASSUME NEW H \in Nat, NEW s, \E S : s \in Seq(S), StackFits(H, db, s), UNCHANGED request,
         NEW frame, frame.kind \in TextKinds, Len(s) + 1 <= Allowed(H, s, Len(s)) + Extra(frame),
         frame.kind # "entry" => TextOf(frame) \in Openings(db),
         frame.kind = "prefixed" => frame.data.unit \in DOMAIN db.units,
         frame.kind = "check" => CallFits(H, db, frame.data),
         NEW e, Height[e] \in Nat, Height[e] <= H,
         stack' = Append(s, frame), control' = Evaluate(e)
  PROVE  Fitting(H)'
<1> DEFINE a == Allowed(H, s, Len(s))
<1>0. Len(s) \in Nat
  BY LenProperties
<1>1. a \in Nat
  BY <1>0, MarksAre
<1>2. Extra(frame) <= 2 /\ Extra(frame) \in Nat
  BY DEF Extra
<1>3. Waiting(frame) = {}
  BY DEF Waiting, TextKinds
<1>4. FrameFits(H, db, a, Len(s) + 1, frame)
  BY <1>3 DEF FrameFits
<1>5. Len(s) + 1 + Height[e] <= a + (IF frame.kind \in TextKinds THEN H + 2 ELSE 0)
  <2> HIDE DEF a
  <2>. QED
    BY <1>0, <1>1, <1>2 DEF a
<1>. QED
  BY <1>4, <1>5, FitsMakes

(* A call that is part of a tree fits where the tree did.                     *)
LEMMA PartFits ==
  ASSUME NEW H \in Nat, NEW s, \E S : s \in Seq(S), StackFits(H, db, s), UNCHANGED request,
         NEW frame, frame.kind \notin TextKinds, Len(s) + 1 <= Allowed(H, s, Len(s)),
         \A w \in Waiting(frame) : Len(s) + 1 + Height[w] <= Allowed(H, s, Len(s)),
         NEW e, Height[e] \in Nat, Len(s) + 1 + Height[e] <= Allowed(H, s, Len(s)),
         stack' = Append(s, frame), control' = Evaluate(e)
  PROVE  Fitting(H)'
<1> DEFINE a == Allowed(H, s, Len(s))
<1>0. Len(s) \in Nat
  BY LenProperties
<1>1. a \in Nat
  BY <1>0, MarksAre
<1>2. Extra(frame) >= 0 /\ Extra(frame) \in Nat
  BY DEF Extra
<1>3. frame.kind # "check" /\ frame.kind # "prefixed"
  BY DEF TextKinds
<1>4. Len(s) + 1 <= a + Extra(frame)
  BY <1>0, <1>1, <1>2
<1>5. FrameFits(H, db, a, Len(s) + 1, frame)
  BY <1>3, <1>4 DEF FrameFits
<1>6. Len(s) + 1 + Height[e] <= a + (IF frame.kind \in TextKinds THEN H + 2 ELSE 0)
  BY <1>0, <1>1
<1>. QED
  BY <1>5, <1>6, FitsMakes

(* eval_nested goes one frame deeper, or fails.                               *)
LEMMA NestedFits ==
  ASSUME NEW H \in Nat, NEW s, \E S : s \in Seq(S), StackFits(H, db, s), UNCHANGED request,
         NEW d, NEW kind, kind \notin TextKinds, NEW data, NEW e, Height[e] \in Nat,
         Len(s) + 1 <= Allowed(H, s, Len(s)), Len(s) + 1 + Height[e] <= Allowed(H, s, Len(s)),
         \A w \in Waiting(FrameAt(d, kind, data)) : Len(s) + 1 + Height[w] <= Allowed(H, s, Len(s)),
         Nested(s, d, kind, data, e)
  PROVE  Fitting(H)'
<1> DEFINE frame == FrameAt(d, kind, data)
<1>1. \/ stack' = s /\ control' = Err("TooDeep")
      \/ stack' = Append(s, frame) /\ control' = Evaluate(e)
  BY DEF Nested, Continue
<1>2. frame.kind = kind
  BY DEF FrameAt
<1> HIDE DEF frame
<1>. QED
  BY <1>1, <1>2, ResultsFit, FitsStays, PartFits DEF frame

(* resolve_entry evaluates a definition, or answers.                          *)
LEMMA EntryFits ==
  ASSUME NEW H, TextsWithin(H), TInv,
         NEW s, \E S : s \in Seq(S), StackFits(H, db, s), UNCHANGED request,
         Len(s) + 1 <= Allowed(H, s, Len(s)) + 2, NEW n \in DOMAIN db.units, ResolveEntry(n, s)
  PROVE  Fitting(H)'
<1> DEFINE entry == db.units[n]
           frame == Frame("entry", [name |-> n])
<1>1. request \in Requests
  BY TypedFacts
<1>2. \/ \E v : stack' = s /\ control' = Ok(v)
      \/ \E code, name : stack' = s /\ control' = ErrOf(code, name)
      \/ entry.kind = "derived" /\ stack' = Append(s, frame) /\ control' = Evaluate(entry.def)
  BY DEF ResolveEntry, Proceed, Continue
<1>3. entry.kind = "derived" => Height[entry.def] \in Nat /\ Height[entry.def] <= H
  BY <1>1, HeightFacts, Data DEF IsDatabase, Within
<1>4. frame.kind = "entry"
  BY FrameIs
<1> HIDE DEF frame, entry
<1>5. frame.kind \in TextKinds /\ Extra(frame) = 2
  BY <1>4 DEF TextKinds, Extra
<1>. QED
  BY <1>1, <1>2, <1>3, <1>4, <1>5, HeightFacts, ResultsFit, FitsStays, TextFits

(* A table, a function of one argument and the unit radian need a frame.      *)
LEMMA OneFits ==
  ASSUME NEW H, TextsWithin(H), TInv,
         NEW s, \E S : s \in Seq(S), StackFits(H, db, s), UNCHANGED request,
         Len(s) + 1 <= Allowed(H, s, Len(s)), NEW f, NEW v, CallFunction(f, v, s)
  PROVE  Fitting(H)'
<1>0. request \in Requests /\ Len(s) \in Nat
  BY TypedFacts, LenProperties
<1>a. H \in Nat /\ Allowed(H, s, Len(s)) \in Nat
  BY <1>0, HeightFacts, MarksAre
<1>1. ASSUME NEW c, c.at \in {"ok", "err"}, Continue(s, c)
      PROVE  Fitting(H)'
  BY <1>1, ResultsFit, FitsStays DEF Continue
<1>2. ASSUME NEW kind \in {"anglein", "angleout"}, NEW data, Continue(Append(s, FrameAt(depth', kind, data)), Evaluate(RadianText))
      PROVE  Fitting(H)'
  <2> DEFINE frame == FrameAt(depth', kind, data)
             e == RadianText
  <2>1. frame.kind = kind
    BY DEF FrameAt
  <2>2. stack' = Append(s, frame) /\ control' = Evaluate(e)
    BY <1>2 DEF Continue
  <2>3. Height[e] = 0 /\ Len(s) + 1 + 0 = Len(s) + 1 /\ 0 \in Nat
    BY <1>0, HeightFacts DEF Lower
  <2> HIDE DEF frame, e
  <2>4. frame.kind \notin TextKinds /\ Waiting(frame) = {}
    BY <2>1 DEF TextKinds, Waiting
  <2>. QED
    BY <1>a, <2>2, <2>3, <2>4, PartFits
<1>3. ASSUME f \in DOMAIN db.tables, CallTable(f, v, s)
      PROVE  Fitting(H)'
  <2> DEFINE data == [name |-> f]
             frame == FrameAt(depth', "table", data)
             e == db.tables[f].readings[v.factor]
  <2>1. \/ \E code : Continue(s, ErrOf(code, f))
        \/ v.factor \in DOMAIN db.tables[f].readings /\ Continue(Append(s, frame), Evaluate(e))
    BY <1>3 DEF CallTable
  <2>2. \A code : ErrOf(code, f).at = "err"
    BY DEF ErrOf
  <2>3. frame.kind = "table" /\ frame.data.name = f
    BY DEF FrameAt
  <2>4. v.factor \in DOMAIN db.tables[f].readings => Height[e] \in Nat /\ Height[e] <= H
    BY <1>0, <1>3, HeightFacts, Data DEF IsDatabase, Within
  <2> HIDE DEF frame, e, data
  <2>5. TextOf(frame) \in Openings(db)
    BY <1>3, <2>3 DEF TextOf, Openings
  <2>6. frame.kind \in TextKinds /\ Extra(frame) = 1
    BY <2>3 DEF TextKinds, Extra
  <2>7. Len(s) + 1 <= Allowed(H, s, Len(s)) + 1
    BY <1>0, <1>a
  <2>8. CASE v.factor \in DOMAIN db.tables[f].readings /\ stack' = Append(s, frame) /\ control' = Evaluate(e)
    BY <1>a, <2>3, <2>4, <2>5, <2>6, <2>7, <2>8, TextFits
  <2>. QED
    BY <1>1, <2>1, <2>2, <2>8 DEF Continue
<1>4. \/ \E c : c.at \in {"ok", "err"} /\ Continue(s, c)
      \/ \E kind \in {"anglein", "angleout"} : \E data : Continue(Append(s, FrameAt(depth', kind, data)), Evaluate(RadianText))
      \/ f \in DOMAIN db.tables /\ CallTable(f, v, s)
  <2> DEFINE scalar == IF Accepts(f, v.factor) THEN Ok(FromFactor(Computed(f, v.factor))) ELSE ErrOf("Undefined", f)
             rooted == IF HasRoot(v, RootFunction[f]) THEN Ok(Root(v, RootFunction[f])) ELSE Err("NotDivisibleByRoot")
             kept == Ok([v EXCEPT !.factor = Computed(f, @)])
             data == [name |-> f, value |-> v]
             radian == Evaluate(RadianText)
  <2>1. /\ scalar.at \in {"ok", "err"} /\ rooted.at \in {"ok", "err"} /\ kept.at \in {"ok", "err"}
        /\ \A code : ErrOf(code, f).at \in {"ok", "err"}
    BY DEF Ok, ErrOf, Err
  <2> HIDE DEF radian, scalar, rooted, kept
  <2>2. \/ \E c \in {scalar, rooted, kept} : Continue(s, c)
        \/ \E code : Continue(s, ErrOf(code, f))
        \/ \E kind \in {"anglein", "angleout"} :
              Continue(Append(s, FrameAt(depth', kind, [name |-> f, value |-> v])), radian)
        \/ f \in DOMAIN db.tables /\ CallTable(f, v, s)
    BY DEF CallFunction, radian, scalar, rooted, kept
  <2> HIDE DEF data
  <2>3. (\E kind \in {"anglein", "angleout"} : Continue(Append(s, FrameAt(depth', kind, [name |-> f, value |-> v])), radian))
          => \E kind \in {"anglein", "angleout"} : \E d : Continue(Append(s, FrameAt(depth', kind, d)), radian)
    OBVIOUS
  <2>. QED
    BY <2>1, <2>2, <2>3 DEF radian
<1>. QED
  BY <1>1, <1>2, <1>3, <1>4

(* A call fits where a result would, and has a body and units that fit.       *)
LEMMA CallFitsThere ==
  ASSUME NEW H, TextsWithin(H), TInv, NEW s, StackFits(H, db, s), UNCHANGED request,
         Len(s) <= Allowed(H, s, Len(s)), NEW f \in DOMAIN db.functions, NEW params, NEW args, NEW units, NEW domain,
         NEW body, Height[body] <= H, \A i \in DOMAIN units : units[i] # None => Height[units[i]] <= H,
         NEW call, call = Call(f, params, args, units, domain, body),
         Continue(s, call) \/ Continue(s, SkipChecks(call))
  PROVE  Fitting(H)'
<1>1. \A c \in {call, SkipChecks(call)} : c.at = "call" /\ c.name = f /\ c.body = body /\ c.units = units
  BY DEF Call, SkipChecks
<1>2. \A c \in {call, SkipChecks(call)} : ControlFits(H, db, s, c)
  BY <1>1 DEF ControlFits, CallFits
<1>. QED
  BY <1>2, FitsStays DEF Continue

(* A function is called where its arguments were, one frame lower.            *)
LEMMA FunctionFits ==
  ASSUME NEW H, TextsWithin(H), TInv,
         NEW s, \E S : s \in Seq(S), StackFits(H, db, s), UNCHANGED request,
         Len(s) <= Allowed(H, s, Len(s)), NEW f, NEW args \in Seq(UnitValue),
         args # <<>> => Len(s) + 1 <= Allowed(H, s, Len(s)), CallFunctionMulti(f, args, s)
  PROVE  Fitting(H)'
<1>0. request \in Requests /\ Len(s) \in Nat
  BY TypedFacts, LenProperties
<1>a. H \in Nat /\ Allowed(H, s, Len(s)) \in Nat
  BY <1>0, HeightFacts, MarksAre
<1>1. ASSUME Continue(s, Err("ArityMismatch"))
      PROVE  Fitting(H)'
  BY <1>1, ResultsFit, FitsStays DEF Continue
<1>2. ASSUME f \in DOMAIN db.functions, CallUserFunction(f, args, s)
      PROVE  Fitting(H)'
  <2> DEFINE func == db.functions[f]
             call == Call(f, func.params, args, func.units, func.domain, func.forward)
             data == [name |-> f]
             frame == FrameAt(depth', "alias", data)
  <2>1. /\ Height[func.forward] \in Nat /\ Height[func.forward] <= H
        /\ \A i \in DOMAIN func.units : func.units[i] # None => Height[func.units[i]] <= H
    BY <1>0, <1>2, HeightFacts, Data DEF IsDatabase, Within
  <2>2. \/ Continue(s, Err("ArityMismatch"))
        \/ Continue(Append(s, frame), Evaluate(func.forward))
        \/ Continue(s, call) \/ Continue(s, SkipChecks(call))
    BY <1>2 DEF CallUserFunction
  <2>3. frame.kind = "alias" /\ frame.data.name = f
    BY DEF FrameAt
  <2> HIDE DEF frame, data, func, call
  <2>4. TextOf(frame) \in Openings(db)
    BY <1>2, <2>3 DEF TextOf, Openings
  <2>5. frame.kind \in TextKinds /\ Extra(frame) = 1
    BY <2>3 DEF TextKinds, Extra
  <2>6. Len(s) + 1 <= Allowed(H, s, Len(s)) + 1
    BY <1>0, <1>a
  <2>7. CASE Continue(Append(s, frame), Evaluate(func.forward))
    <3>1. stack' = Append(s, frame) /\ control' = Evaluate(func.forward)
      BY <2>7 DEF Continue
    <3>. QED
      BY <1>a, <2>1, <2>3, <2>4, <2>5, <2>6, <3>1, TextFits
  <2>8. CASE Continue(s, call) \/ Continue(s, SkipChecks(call))
    BY <1>2, <2>1, <2>8, CallFitsThere DEF call
  <2>. QED
    BY <1>1, <2>2, <2>7, <2>8
<1>3. ASSUME Len(args) = 1, CallFunction(f, args[1], s)
      PROVE  Fitting(H)'
  <2>0. Len(<<>>) = 0
    OBVIOUS
  <2>1. args # <<>>
    <3>1. Len(args) = 1
      BY <1>3
    <3>. QED
      BY ONLY <2>0, <3>1
  <2>2. Len(s) + 1 <= Allowed(H, s, Len(s))
    BY <2>1
  <2> DEFINE v == args[1]
  <2>3. CallFunction(f, v, s)
    BY <1>3
  <2> HIDE DEF v
  <2>. QED
    BY <2>2, <2>3, OneFits
<1>. QED
  BY <1>1, <1>2, <1>3 DEF CallFunctionMulti

LEMMA InverseFits ==
  ASSUME NEW H, TextsWithin(H), TInv,
         NEW s, StackFits(H, db, s), UNCHANGED request,
         Len(s) <= Allowed(H, s, Len(s)), NEW f, NEW v, CallInverse(f, v, s)
  PROVE  Fitting(H)'
<1>0. request \in Requests
  BY TypedFacts
<1> DEFINE func == db.functions[f]
           units == <<func.inverse_unit>>
<1>1. \/ \E code, name : Continue(s, ErrOf(code, name))
      \/ /\ f \in DOMAIN db.functions /\ func.reverse # None
         /\ Continue(s, InverseCall(f, v)) \/ Continue(s, SkipChecks(InverseCall(f, v)))
  BY DEF CallInverse, Err
<1>2. CASE \E code, name : Continue(s, ErrOf(code, name))
  BY <1>2, ResultsFit, FitsStays DEF Continue
<1>3. CASE /\ f \in DOMAIN db.functions /\ func.reverse # None
           /\ Continue(s, InverseCall(f, v)) \/ Continue(s, SkipChecks(InverseCall(f, v)))
  <2>1. /\ Height[func.reverse] <= H
        /\ func.inverse_unit # None => Height[func.inverse_unit] <= H
    BY <1>0, <1>3, HeightFacts DEF Within
  <2>2. \A i \in DOMAIN units : units[i] # None => Height[units[i]] <= H
    BY <2>1
  <2>3. InverseCall(f, v) = Call(f, <<f>>, <<v>>, units, <<func.range>>, func.reverse)
    BY DEF InverseCall
  <2> HIDE DEF func, units
  <2>. QED
    BY <1>3, <2>1, <2>2, <2>3, CallFitsThere
<1>. QED
  BY <1>1, <1>2, <1>3

LEMMA CheckNextFits ==
  ASSUME NEW H, NEW s, StackFits(H, db, s), UNCHANGED request,
         Len(s) <= Allowed(H, s, Len(s)), NEW call, IsCall(call), CallFits(H, db, call),
         NEW value, CheckNext(s, call, value)
  PROVE  Fitting(H)'
<1> DEFINE next == [call EXCEPT !.checked = call.checked + 1]
<1>0. Proceed(s, next) \/ Proceed(s, ErrOf("NotInDomain", call.name))
  BY DEF CheckNext
<1>1. stack' = s /\ (control' = next \/ control' = ErrOf("NotInDomain", call.name))
  <2> HIDE DEF next
  <2>. QED
    BY <1>0 DEF Proceed, Continue
<1>2. next.at = "call" /\ next.name = call.name /\ next.body = call.body /\ next.units = call.units
  BY DEF IsCall
<1> HIDE DEF next
<1>3. ControlFits(H, db, s, next)
  BY <1>2 DEF ControlFits, CallFits
<1>. QED
  BY <1>1, <1>3, ResultsFit, FitsStays

-----------------------------------------------------------------------------
(* The actions that take a tree apart go on with its parts.                   *)
LEMMA DecomposeFits ==
  ASSUME NEW H, TextsWithin(H), FInv(H), UNCHANGED request, Decompose
  PROVE  Fitting(H)'
<1> DEFINE e == control.expr
           a == Allowed(H, stack, Len(stack))
<1>0. control.at = "expr"
  BY DEF Decompose, EvalGarbage, EvalNumber, EvalUnary, EvalBinary, EvalGroup, EvalTilde, EvalCall, Evaluating
<1>1. TInv /\ request \in Requests /\ \E S : stack \in Seq(S)
  BY TypedFacts DEF FInv
<1>2. Len(stack) \in Nat /\ H \in Nat /\ a \in Nat
  BY <1>1, HeightFacts, MarksAre, LenProperties
<1>3. e \in Tree /\ IsTree(e) /\ Height[e] \in Nat
  BY <1>0, <1>1, TypedFacts, TextsAssumption, HeightFacts DEF ControlTyped
<1>4. StackFits(H, db, stack) /\ Len(stack) + Height[e] <= a
  BY <1>0 DEF FInv, Fitting, ControlFits
<1> HIDE DEF a
<1>5. ASSUME NEW p \in Tree, Height[p] < Height[e]
      PROVE  Height[p] \in Nat /\ Len(stack) + 1 + Height[p] <= a /\ Len(stack) + 1 <= a
  <2>1. Height[p] \in Nat
    BY <1>1, HeightFacts
  <2>. QED
    BY <1>2, <1>3, <1>4, <1>5, <2>1
<1>6. \A kind, data : Frame(kind, data) = FrameAt(depth, kind, data) /\ FrameAt(depth, kind, data).kind = kind
                      /\ FrameAt(depth, kind, data).data = data
  BY DEF Frame, FrameAt
<1>7. CASE EvalGarbage \/ EvalNumber
  <2>1. Proceed(stack, Err("Grammar")) \/ Proceed(stack, Err("InvalidNumber")) \/ \E v : Proceed(stack, Ok(v))
    BY <1>7 DEF EvalGarbage, EvalNumber
  <2>. QED
    BY <1>4, <2>1, ResultsFit, FitsStays DEF Proceed, Continue
<1>8. CASE EvalUnary
  <2>1. /\ stack' = Append(stack, Frame("unary", e.op)) /\ control' = Evaluate(e.arg)
        /\ e.arg \in Tree /\ Height[e.arg] < Height[e]
    BY <1>1, <1>3, <1>8, HeightFacts DEF EvalUnary, Evaluating, IsTree, Proceed, Continue, Lower
  <2> DEFINE frame == Frame("unary", e.op)
  <2>2. frame.kind \notin TextKinds /\ Waiting(frame) = {}
    BY <1>6 DEF TextKinds, Waiting
  <2> HIDE DEF frame, e
  <2>. QED
    BY <1>1, <1>2, <1>4, <1>5, <2>1, <2>2, PartFits DEF frame, a
<1>9. CASE EvalBinary
  <2> DEFINE data == [op |-> e.op, right |-> e.right]
             frame == Frame("left", data)
  <2>1. /\ stack' = Append(stack, frame) /\ control' = Evaluate(e.left)
        /\ e.left \in Tree /\ e.right \in Tree /\ Height[e.left] < Height[e] /\ Height[e.right] < Height[e]
    BY <1>1, <1>3, <1>9, HeightFacts DEF EvalBinary, Evaluating, IsTree, Proceed, Continue, Lower
  <2>2. data.right = e.right
    OBVIOUS
  <2>3. frame.kind = "left" /\ frame.data = data
    BY <1>6
  <2> HIDE DEF frame, data, e
  <2>4. frame.kind \notin TextKinds /\ Waiting(frame) = {e.right}
    BY <2>2, <2>3 DEF TextKinds, Waiting
  <2>5. \A w \in Waiting(frame) : Len(stack) + 1 + Height[w] <= a
    BY <1>5, <2>1, <2>4
  <2>. QED
    BY <1>1, <1>2, <1>4, <1>5, <2>1, <2>4, <2>5, PartFits DEF a
<1>10. ASSUME NEW kind \in {"group", "tilde"}, NEW data, NEW p \in Tree, Height[p] < Height[e], Nested(stack, depth, kind, data, p)
       PROVE  Fitting(H)'
  <2>1. kind \notin TextKinds /\ Waiting(FrameAt(depth, kind, data)) = {}
    BY <1>6, <1>10 DEF TextKinds, Waiting
  <2> HIDE DEF e
  <2>. QED
    BY <1>1, <1>2, <1>4, <1>5, <1>10, <2>1, NestedFits DEF a
<1>11. CASE EvalGroup
  <2>1. Nested(stack, depth, "group", None, e.body) /\ e.body \in Tree /\ Height[e.body] < Height[e]
    BY <1>1, <1>3, <1>11, HeightFacts DEF EvalGroup, Evaluating, IsTree, Lower
  <2>. QED
    BY <1>10, <2>1
<1>12. CASE EvalTilde
  <2>1. Nested(stack, depth, "tilde", e.name, e.arg) /\ e.arg \in Tree /\ Height[e.arg] < Height[e]
    BY <1>1, <1>3, <1>12, HeightFacts DEF EvalTilde, Evaluating, IsTree, Lower
  <2>. QED
    BY <1>10, <2>1
<1>13. CASE EvalCall
  <2>1. e.args \in Seq(Tree) /\ \A i \in DOMAIN e.args : Height[e.args[i]] < Height[e]
    BY <1>1, <1>3, <1>13, HeightFacts DEF EvalCall, Evaluating, IsTree, Lower
  <2>2. CASE e.args = <<>>
    <3>1. CallFunctionMulti(e.name, <<>>, stack)
      BY <1>13, <2>2 DEF EvalCall
    <3>2. <<>> \in Seq(UnitValue)
      OBVIOUS
    <3>3. Len(stack) <= a
      BY <1>2, <1>3, <1>4
    <3>. QED
      BY <1>1, <1>4, <3>1, <3>2, <3>3, FunctionFits DEF a
  <2>3. CASE e.args # <<>>
    <3> DEFINE data == [name |-> e.name, done |-> <<>>, rest |-> Tail(e.args)]
               frame == FrameAt(depth, "args", data)
    <3>1. Nested(stack, depth, "args", data, Head(e.args))
      BY <1>13, <2>3 DEF EvalCall
    <3>2. \A i \in DOMAIN e.args : e.args[i] \in Tree
      BY <2>1, ElementOfSeq, LenProperties
    <3>3. /\ Head(e.args) = e.args[1] /\ 1 \in DOMAIN e.args /\ Tail(e.args) \in Seq(Tree)
          /\ \A i \in DOMAIN Tail(e.args) : i + 1 \in DOMAIN e.args /\ Tail(e.args)[i] = e.args[i + 1]
      <4>1. /\ Head(e.args) = e.args[1] /\ Tail(e.args) \in Seq(Tree) /\ Len(Tail(e.args)) = Len(e.args) - 1
            /\ \A i \in 1 .. Len(Tail(e.args)) : Tail(e.args)[i] = e.args[i + 1]
        BY <2>1, <2>3, HeadTailProperties
      <4>2. /\ DOMAIN e.args = 1 .. Len(e.args) /\ Len(e.args) \in Nat /\ Len(e.args) # 0
            /\ DOMAIN Tail(e.args) = 1 .. Len(Tail(e.args))
        BY <2>1, <2>3, <4>1, LenProperties, EmptySeq
      <4>. QED
        BY <4>1, <4>2
    <3>4. frame.kind = "args" /\ frame.data = data /\ data.rest = Tail(e.args)
      BY <1>6
    <3>5. Waiting(frame) = {Tail(e.args)[i] : i \in DOMAIN Tail(e.args)} /\ "args" \notin TextKinds
      <4> HIDE DEF frame, data
      <4>. QED
        BY <3>4 DEF Waiting, TextKinds
    <3>6. \A w \in Waiting(frame) : Len(stack) + 1 + Height[w] <= a
      <4> HIDE DEF frame, e
      <4>. QED
        BY <1>5, <2>1, <3>2, <3>3, <3>5
    <3>7. Height[Head(e.args)] \in Nat /\ Len(stack) + 1 + Height[Head(e.args)] <= a /\ Len(stack) + 1 <= a
      <4> HIDE DEF frame, e
      <4>. QED
        BY <1>5, <2>1, <3>2, <3>3
    <3> HIDE DEF data, e
    <3>. QED
      BY <1>1, <1>2, <1>4, <3>1, <3>5, <3>6, <3>7, NestedFits DEF a, frame
  <2>. QED
    BY <2>2, <2>3
<1>. QED
  BY <1>7, <1>8, <1>9, <1>11, <1>12, <1>13 DEF Decompose

(* resolve_name goes on with a definition.                                    *)
LEMMA ResolveFits ==
  ASSUME NEW H, TextsWithin(H), FInv(H), UNCHANGED request, Resolve
  PROVE  Fitting(H)'
<1> DEFINE n == control.expr.name
           a == Allowed(H, stack, Len(stack))
<1>0. control.at = "expr" /\ control.expr.kind = "name"
  BY DEF Resolve, EvalVariable, EvalUnit, EvalPrefixAlone, EvalPrefixed, EvalUnknown, IsNoUnit, IsNoVariable, Evaluating
<1>1. TInv /\ request \in Requests /\ \E S : stack \in Seq(S)
  BY TypedFacts DEF FInv
<1>2. Len(stack) \in Nat /\ H \in Nat /\ a \in Nat
  BY <1>1, HeightFacts, MarksAre, LenProperties
<1>3. n \in Names /\ Height[control.expr] \in Nat
  BY <1>0, <1>1, TypedFacts, TextsAssumption, HeightFacts DEF ControlTyped, IsTree
<1>4. StackFits(H, db, stack) /\ Len(stack) + Height[control.expr] <= a
  BY <1>0 DEF FInv, Fitting, ControlFits
<1> HIDE DEF a
<1>5. Len(stack) + 1 <= a + 1 /\ Len(stack) + 1 <= a + 2
  BY <1>2, <1>3, <1>4
<1>6. \A p \in DOMAIN db.prefixes : Height[db.prefixes[p]] \in Nat /\ Height[db.prefixes[p]] <= H
  BY <1>1, HeightFacts, Data DEF IsDatabase, Within
<1>7. ASSUME NEW kind \in {"prefix", "prefixed"}, NEW data, data.name \in DOMAIN db.prefixes,
             kind = "prefixed" => data.unit \in DOMAIN db.units,
             Proceed(Append(stack, Frame(kind, data)), Evaluate(db.prefixes[data.name]))
      PROVE  Fitting(H)'
  <2> DEFINE frame == Frame(kind, data)
  <2>1. frame.kind = kind /\ frame.data = data
    BY FrameIs
  <2>2. stack' = Append(stack, frame) /\ control' = Evaluate(db.prefixes[data.name])
    BY <1>7 DEF Proceed, Continue
  <2> HIDE DEF frame
  <2>3. frame.kind \in TextKinds /\ Extra(frame) = 1 /\ frame.kind # "check"
    BY <2>1 DEF TextKinds, Extra
  <2>4. TextOf(frame) \in Openings(db)
    BY <1>7, <2>1 DEF TextOf, Openings
  <2>. QED
    BY <1>1, <1>2, <1>4, <1>5, <1>6, <1>7, <2>1, <2>2, <2>3, <2>4, TextFits DEF a
<1>8. CASE EvalVariable \/ EvalUnknown
  <2>1. (\E v : Proceed(stack, Ok(v))) \/ (\E code, name : Proceed(stack, ErrOf(code, name)))
    BY <1>8 DEF EvalVariable, EvalUnknown
  <2>. QED
    BY <1>4, <2>1, ResultsFit, FitsStays DEF Proceed, Continue
<1>9. CASE EvalUnit
  <2>1. KnownForms(db, n) # {} /\ ResolveEntry(FirstForm(db, n), stack)
    BY <1>9 DEF EvalUnit
  <2>2. FirstForm(db, n) \in DOMAIN db.units
    BY <1>3, <2>1, FirstKnown
  <2>. QED
    BY <1>1, <1>4, <1>5, <2>1, <2>2, EntryFits DEF a
<1>10. CASE EvalPrefixAlone
  <2> DEFINE data == [name |-> n]
  <2>1. /\ Proceed(Append(stack, Frame("prefix", data)), Evaluate(db.prefixes[n])) /\ n \in DOMAIN db.prefixes
        /\ data.name = n
    BY <1>10 DEF EvalPrefixAlone
  <2> HIDE DEF data, n
  <2>. QED
    BY <1>7, <2>1
<1>11. CASE EvalPrefixed
  <2> DEFINE s == FirstSplit(db, n)
             data == [name |-> s.prefix, unit |-> s.rest]
  <2>1. /\ Proceed(Append(stack, Frame("prefixed", data)), Evaluate(db.prefixes[s.prefix])) /\ KnownSplits(db, n) # {}
        /\ data.name = s.prefix /\ data.unit = s.rest
    BY <1>11 DEF EvalPrefixed
  <2>2. s.prefix \in DOMAIN db.prefixes /\ s.rest \in DOMAIN db.units
    BY <1>3, <2>1, FirstKnown
  <2> HIDE DEF data, s
  <2>. QED
    BY <1>7, <2>1, <2>2
<1>. QED
  BY <1>8, <1>9, <1>10, <1>11 DEF Resolve

(* The units of arguments and the body are texts of the function.             *)
LEMMA ApplyFits ==
  ASSUME NEW H, TextsWithin(H), FInv(H), UNCHANGED request, Apply
  PROVE  Fitting(H)'
<1> DEFINE a == Allowed(H, stack, Len(stack))
<1>1. TInv /\ request \in Requests /\ \E S : stack \in Seq(S)
  BY TypedFacts DEF FInv
<1>0. control.at = "call" /\ CallTyped(control) /\ IsCall(control) /\ CallFits(H, db, control) /\ Len(stack) <= a
  <2>1. control.at = "call"
    BY DEF Apply, CheckArgument, BindAndEnter
  <2>. QED
    BY <1>1, <2>1, TypedFacts DEF ControlTyped, IInv, Kept, FInv, Fitting, ControlFits
<1>2. Len(stack) \in Nat /\ H \in Nat /\ a \in Nat
  BY <1>1, HeightFacts, MarksAre, LenProperties
<1>3. StackFits(H, db, stack)
  BY DEF FInv, Fitting
<1> HIDE DEF a
<1>4. Len(stack) + 1 <= a + 1
  BY <1>0, <1>2
<1>5. ASSUME NEW frame, frame.kind \in {"check", "body"}, frame.data.name = control.name,
             frame.kind = "check" => frame.data = control,
             NEW e \in Tree, Height[e] <= H, stack' = Append(stack, frame), control' = Evaluate(e)
      PROVE  Fitting(H)'
  <2>1. frame.kind \in TextKinds /\ Extra(frame) = 1 /\ frame.kind # "prefixed"
    BY <1>5 DEF TextKinds, Extra
  <2>2. TextOf(frame) \in Openings(db)
    BY <1>0, <1>5 DEF TextOf, Openings, CallFits
  <2>3. Height[e] \in Nat
    BY <1>1, HeightFacts
  <2>. QED
    BY <1>0, <1>1, <1>2, <1>3, <1>4, <1>5, <2>1, <2>2, <2>3, TextFits DEF a
<1>6. CASE CheckArgument
  <2> DEFINE i == control.checked + 1
  <2>1. \/ CheckNext(stack, control, control.args[i].factor)
        \/ /\ Item(control.units, i) # None
           /\ stack' = Append(stack, Frame("check", control)) /\ control' = Evaluate(control.units[i])
    BY <1>6 DEF CheckArgument, Proceed, Continue
  <2>2. Item(control.units, i) # None => control.units[i] \in Tree /\ Height[control.units[i]] <= H
    BY <1>0 DEF Item, CallTyped, CallFits
  <2> HIDE DEF i
  <2>. QED
    BY <1>0, <1>3, <1>5, <2>1, <2>2, FrameIs, CheckNextFits DEF a
<1>7. CASE BindAndEnter
  <2> DEFINE data == [name |-> control.name, params |-> control.params, args |-> control.args,
                      old |-> Replaced(vars, control.params, control.args)]
             frame == Frame("body", data)
  <2>1. stack' = Append(stack, frame) /\ control' = Evaluate(control.body) /\ data.name = control.name
    BY <1>7 DEF BindAndEnter, Continue
  <2> HIDE DEF data
  <2>2. frame.kind = "body" /\ frame.data = data
    BY FrameIs
  <2> HIDE DEF frame
  <2>3. control.body \in Tree /\ Height[control.body] <= H
    BY <1>0 DEF CallTyped, CallFits
  <2>. QED
    BY <1>5, <2>1, <2>2, <2>3
<1>. QED
  BY <1>6, <1>7 DEF Apply

-----------------------------------------------------------------------------
(* The head of what remains, and what remains behind it.                      *)
LEMMA HeadAndTail ==
  ASSUME NEW S, NEW rest \in Seq(S), rest # <<>>
  PROVE  /\ Head(rest) \in S /\ Tail(rest) \in Seq(S)
         /\ Head(rest) \in {rest[i] : i \in DOMAIN rest}
         /\ {Tail(rest)[i] : i \in DOMAIN Tail(rest)} \subseteq {rest[i] : i \in DOMAIN rest}
<1>1. /\ Head(rest) = rest[1] /\ Head(rest) \in S /\ Tail(rest) \in Seq(S) /\ Len(Tail(rest)) = Len(rest) - 1
      /\ \A i \in 1 .. Len(Tail(rest)) : Tail(rest)[i] = rest[i + 1]
  BY HeadTailProperties
<1>2. /\ DOMAIN rest = 1 .. Len(rest) /\ Len(rest) \in Nat /\ Len(rest) # 0
      /\ DOMAIN Tail(rest) = 1 .. Len(Tail(rest))
  BY <1>1, LenProperties, EmptySeq
<1>3. 1 \in DOMAIN rest /\ \A i \in DOMAIN Tail(rest) : i + 1 \in DOMAIN rest /\ Tail(rest)[i] = rest[i + 1]
  BY <1>1, <1>2
<1>. QED
  BY <1>1, <1>3

(* What a call leaves when it returns.                                        *)
LEMMA ReturnFits ==
  ASSUME NEW H, TextsWithin(H), FInv(H), stack # <<>>
  PROVE  /\ TInv /\ request \in Requests /\ H \in Nat
         /\ \E S : Below \in Seq(S)
         /\ StackFits(H, db, Below) /\ Len(Below) \in Nat /\ Allowed(H, Below, Len(Below)) \in Nat
         /\ FrameFits(H, db, Allowed(H, Below, Len(Below)), Len(Below) + 1, Top)
         /\ FrameTyped(db, Top) /\ FrameOK(Top)
<1>1. TInv /\ request \in Requests /\ \E S : stack \in Seq(S)
  BY TypedFacts DEF FInv
<1>2. H \in Nat /\ StackFits(H, db, stack)
  BY <1>1, HeightFacts DEF FInv, Fitting
<1>3. /\ \E S : Below \in Seq(S)
      /\ StackFits(H, db, Below) /\ Len(Below) \in Nat
      /\ FrameFits(H, db, Allowed(H, Below, Len(Below)), Len(Below) + 1, Top)
  BY <1>1, <1>2, PoppedFits DEF Below, Top
<1>4. Allowed(H, Below, Len(Below)) \in Nat
  BY <1>2, <1>3, MarksAre
<1>. QED
  BY <1>1, <1>2, <1>3, <1>4, TypedReturn

(* The calls that return a result.                                            *)
LEMMA ResultReturnFits ==
  ASSUME NEW H, TextsWithin(H), FInv(H), UNCHANGED request,
         AfterUnary \/ AfterRight \/ SwallowUnknownUnit \/ AfterGroup \/ AfterEntry \/ AfterPrefixed
           \/ AfterBody \/ AfterRadian \/ HandOn
  PROVE  Fitting(H)'
<1>0. stack # <<>>
  BY DEF AfterUnary, AfterRight, SwallowUnknownUnit, AfterGroup, AfterEntry, AfterPrefixed, AfterBody,
         AfterRadian, HandOn, Succeeds, Returns
<1>1. StackFits(H, db, Below)
  BY <1>0, ReturnFits
<1>2. stack' = Below /\ control'.at \in {"ok", "err"}
  <2>0. (\A v : Ok(v).at = "ok") /\ (\A code, name : ErrOf(code, name).at = "err") /\ (\A code : Err(code).at = "err")
    BY DEF Ok, ErrOf, Err
  <2>1. CASE AfterUnary \/ AfterPrefixed \/ SwallowUnknownUnit
    BY <2>0, <2>1 DEF AfterUnary, AfterPrefixed, SwallowUnknownUnit, Proceed, Continue
  <2>2. CASE AfterRight
    <3>1. \A op, v, w : (\E u : Operate(op, v, w) = Ok(u)) \/ \E code : Operate(op, v, w) = Err(code)
      BY DEF Operate
    <3>2. \A op, v, w : Operate(op, v, w).at \in {"ok", "err"}
      BY <2>0, <3>1
    <3>. QED
      BY <2>2, <3>2 DEF AfterRight, Proceed, Continue
  <2>3. CASE AfterGroup \/ AfterEntry \/ AfterBody \/ HandOn
    BY <2>3 DEF AfterGroup, AfterEntry, AfterBody, HandOn, Returns, Proceed, Continue
  <2>4. CASE AfterRadian
    <3>1. (\E v : Proceed(Below, Ok(v))) \/ (\E code, name : Proceed(Below, ErrOf(code, name)))
      BY <2>4 DEF AfterRadian
    <3>. QED
      BY <2>0, <3>1 DEF Proceed, Continue
  <2>. QED
    BY <2>1, <2>2, <2>3, <2>4
<1>. QED
  BY <1>1, <1>2, ResultsFit, FitsStays

(* The calls that go on with another one.                                     *)
LEMMA GoingOnFits ==
  ASSUME NEW H, TextsWithin(H), FInv(H), UNCHANGED request,
         AfterLeft \/ AfterTilde \/ AfterArgument \/ AfterPrefix \/ AfterCheck
  PROVE  Fitting(H)'
<1> DEFINE b == Allowed(H, Below, Len(Below))
<1>0. stack # <<>>
  BY DEF AfterLeft, AfterTilde, AfterArgument, AfterPrefix, AfterCheck, Succeeds, Returns
<1>1. /\ TInv /\ request \in Requests /\ H \in Nat
      /\ \E S : Below \in Seq(S)
      /\ StackFits(H, db, Below) /\ Len(Below) \in Nat /\ b \in Nat
      /\ FrameFits(H, db, b, Len(Below) + 1, Top)
      /\ FrameTyped(db, Top) /\ FrameOK(Top)
  BY <1>0, ReturnFits
<1> HIDE DEF b
<1>2. \A e \in Tree : Height[e] \in Nat
  BY <1>1, HeightFacts
<1>3. /\ Top.kind \in {"left", "tilde", "args"} => Len(Below) + 1 <= b /\ Len(Below) <= b
      /\ Top.kind \in {"prefixed", "check"} => Len(Below) + 1 <= b + 1 /\ Len(Below) <= b
  <2>1. /\ Top.kind \in {"left", "tilde", "args"} => Extra(Top) = 0
        /\ Top.kind \in {"prefixed", "check"} => Extra(Top) = 1
    BY DEF Extra, TextKinds
  <2>2. Len(Below) + 1 <= b + Extra(Top)
    BY <1>1 DEF FrameFits
  <2>. QED
    BY <1>1, <2>1, <2>2
<1>4. \A e \in Waiting(Top) : Len(Below) + 1 + Height[e] <= b
  BY <1>1 DEF FrameFits
<1>e. ASSUME control.at = "err", Continue(Below, control)
      PROVE  Fitting(H)'
  BY <1>1, <1>e, ResultsFit, FitsStays DEF Continue
<1>v. control.at = "ok" => control.value \in UnitValue
  BY <1>1, TypedFacts DEF ControlTyped
<1>5. CASE AfterLeft
  <2> DEFINE frame == Frame("right", [op |-> Top.data.op, left |-> control.value])
             e == Top.data.right
  <2>1. Top.kind = "left" /\ stack' = Append(Below, frame) /\ control' = Evaluate(e)
    BY <1>5 DEF AfterLeft, Succeeds, Proceed, Continue
  <2>2. frame.kind = "right"
    BY FrameIs
  <2>3. e \in Tree /\ Waiting(Top) = {e}
    BY <1>1, <2>1 DEF FrameTyped, Waiting
  <2> HIDE DEF frame, e
  <2>4. frame.kind \notin TextKinds /\ Waiting(frame) = {}
    BY <2>2 DEF TextKinds, Waiting
  <2>5. Height[e] \in Nat /\ Len(Below) + 1 + Height[e] <= b /\ Len(Below) + 1 <= b
    BY <1>2, <1>3, <1>4, <2>1, <2>3
  <2>. QED
    BY <1>1, <2>1, <2>4, <2>5, PartFits DEF b
<1>6. CASE AfterTilde
  <2>1. /\ Top.kind = "tilde"
        /\ \/ control.at = "err" /\ Continue(Below, control)
           \/ CallInverse(Top.data, control.value, Below)
    BY <1>6 DEF AfterTilde, Returns
  <2>. QED
    BY <1>1, <1>3, <1>e, <2>1, InverseFits DEF b
<1>7. CASE AfterArgument
  <2> DEFINE name == Top.data.name
             rest == Top.data.rest
             done == Append(Top.data.done, control.value)
             data == [name |-> name, done |-> done, rest |-> Tail(rest)]
             frame == FrameAt(depth - 1, "args", data)
  <2>0. Top.kind = "args" /\ control.at \in {"ok", "err"}
    BY <1>7 DEF AfterArgument, Returns
  <2>1. Top.data.done \in Seq(UnitValue) /\ rest \in Seq(Tree) /\ Waiting(Top) = {rest[i] : i \in DOMAIN rest}
    BY <1>1, <2>0 DEF FrameTyped, Waiting
  <2>2. \/ control.at = "err" /\ Continue(Below, control)
        \/ control.at = "ok" /\ CallFunctionMulti(name, done, Below)
        \/ control.at = "ok" /\ rest # <<>> /\ Nested(Below, depth - 1, "args", data, Head(rest))
    BY <1>7, <2>0 DEF AfterArgument
  <2>3. control.at = "ok" => done \in Seq(UnitValue)
    BY <1>v, <2>1, AppendProperties
  <2>4. ASSUME rest # <<>>, Nested(Below, depth - 1, "args", data, Head(rest))
        PROVE  Fitting(H)'
    <3>1. /\ Head(rest) \in Tree /\ Tail(rest) \in Seq(Tree)
          /\ Head(rest) \in Waiting(Top) /\ {Tail(rest)[i] : i \in DOMAIN Tail(rest)} \subseteq Waiting(Top)
      BY <2>1, <2>4, HeadAndTail
    <3>2. frame.kind = "args" /\ frame.data = data /\ data.rest = Tail(rest)
      BY DEF FrameAt
    <3>3. Waiting(frame) = {Tail(rest)[i] : i \in DOMAIN Tail(rest)} /\ "args" \notin TextKinds
      <4> HIDE DEF frame, data
      <4>. QED
        BY <3>2 DEF Waiting, TextKinds
    <3> HIDE DEF frame, data, rest
    <3>4. \A w \in Waiting(frame) : Len(Below) + 1 + Height[w] <= b
      BY <1>4, <3>1, <3>3
    <3>5. Height[Head(rest)] \in Nat /\ Len(Below) + 1 + Height[Head(rest)] <= b /\ Len(Below) + 1 <= b
      BY <1>2, <1>3, <1>4, <2>0, <3>1
    <3>. QED
      BY <1>1, <2>4, <3>3, <3>4, <3>5, NestedFits DEF b, frame
  <2> HIDE DEF done, data, rest, name, frame
  <2>5. Len(Below) <= b /\ Len(Below) + 1 <= b
    BY <1>3, <2>0
  <2>. QED
    BY <1>1, <1>e, <2>2, <2>3, <2>4, <2>5, FunctionFits DEF b
<1>8. CASE AfterPrefix
  <2> DEFINE frame == Frame("times", control.value)
             t == Append(Below, frame)
  <2>1. Top.kind = "prefixed" /\ ResolveEntry(Top.data.unit, t)
    BY <1>8 DEF AfterPrefix, Succeeds
  <2>2. Top.data.unit \in DOMAIN db.units
    BY <1>1, <2>1 DEF FrameTyped
  <2>3. frame.kind = "times"
    BY FrameIs
  <2> HIDE DEF frame
  <2>4. frame.kind \notin TextKinds /\ Waiting(frame) = {} /\ Extra(frame) = 1
    BY <2>3 DEF TextKinds, Waiting, Extra
  <2>5. FrameFits(H, db, b, Len(Below) + 1, frame)
    <3>1. Len(Below) + 1 <= b + Extra(frame)
      BY <1>3, <2>1, <2>4
    <3>. QED
      BY <2>3, <2>4, <3>1 DEF FrameFits
  <2>6. StackFits(H, db, t) /\ Len(t) = Len(Below) + 1 /\ Allowed(H, t, Len(Below) + 1) = b + 0
    <3>1. /\ StackFits(H, db, t) /\ Len(t) = Len(Below) + 1
          /\ Allowed(H, t, Len(Below) + 1) = b + (IF frame.kind \in TextKinds THEN H + 2 ELSE 0)
      BY <1>1, <2>5, PushedFits DEF b
    <3> HIDE DEF t
    <3>. QED
      BY <2>4, <3>1
  <2>7. \E S : t \in Seq(S)
    <3>1. PICK R : Below \in Seq(R)
      BY <1>1
    <3> DEFINE S == R \cup {frame}
    <3>2. Below \in Seq(S) /\ frame \in S
      BY <3>1
    <3>3. t \in Seq(S)
      BY <3>2, AppendProperties
    <3>. QED
      BY <3>3
  <2> HIDE DEF t
  <2>8. Len(t) + 1 <= Allowed(H, t, Len(t)) + 2
    BY <1>1, <1>3, <2>1, <2>6
  <2>. QED
    BY <1>1, <2>1, <2>2, <2>6, <2>7, <2>8, EntryFits
<1>9. CASE AfterCheck
  <2>1. Top.kind = "check"
    BY <1>9 DEF AfterCheck, Succeeds
  <2>2. IsCall(Top.data) /\ CallFits(H, db, Top.data)
    BY <1>1, <2>1 DEF FrameOK, FrameFits
  <2>3. \/ \E value : CheckNext(Below, Top.data, value)
        \/ \E code, name : stack' = Below /\ control' = ErrOf(code, name)
    BY <1>9 DEF AfterCheck, Proceed, Continue
  <2>. QED
    BY <1>1, <1>3, <2>1, <2>2, <2>3, CheckNextFits, ResultsFit, FitsStays DEF b
<1>. QED
  BY <1>5, <1>6, <1>7, <1>8, <1>9

LEMMA InitFits ==
  ASSUME NEW H, TextsWithin(H)
  PROVE  Init => FInv(H)
<1> SUFFICES ASSUME Init PROVE FInv(H)
  OBVIOUS
<1>1. TInv /\ request \in Requests /\ control = Evaluate(request.expr) /\ stack = <<>> /\ request.expr \in Tree
  BY InitTyped, EvaluatorAssumption DEF Init
<1>2. Len(<<>>) = 0 /\ 0 \in Nat
  OBVIOUS
<1>3. H \in Nat /\ Height[request.expr] \in Nat /\ Height[request.expr] <= H /\ Allowed(H, <<>>, 0) = H
  BY <1>1, <1>2, HeightFacts, MarksAre
<1>4. control.at = "expr" /\ control.expr = request.expr
  BY <1>1 DEF Evaluate
<1>5. \A i \in 1 .. Len(stack) : FALSE
  BY <1>1, <1>2
<1>6. Len(stack) + Height[control.expr] <= Allowed(H, stack, Len(stack))
  BY <1>1, <1>2, <1>3, <1>4
<1>. QED
  BY <1>1, <1>4, <1>5, <1>6 DEF FInv, Fitting, StackFits, ControlFits

LEMMA NextFits ==
  ASSUME DistinctParameters, NEW H, TextsWithin(H), FInv(H), [Next]_all
  PROVE  FInv(H)'
<1>0. TInv'
  BY NextTyped DEF FInv
<1>1. CASE UNCHANGED all
  BY <1>0, <1>1 DEF all, FInv, Fitting, db
<1>2. CASE Step
  <2>1. UNCHANGED request
    BY <1>2 DEF Step
  <2>2. CASE Decompose
    BY <1>0, <2>1, <2>2, DecomposeFits DEF FInv
  <2>3. CASE Resolve
    BY <1>0, <2>1, <2>3, ResolveFits DEF FInv
  <2>4. CASE Apply
    BY <1>0, <2>1, <2>4, ApplyFits DEF FInv
  <2>5. CASE Return
    <3>1. Fitting(H)'
      BY <2>1, <2>5, ResultReturnFits, GoingOnFits DEF Return
    <3>. QED
      BY <1>0, <3>1 DEF FInv
  <2>6. CASE Abort
    <3>1. stack' = stack /\ Len(stack) > StackLimit /\ control'.at = "aborted"
      BY <2>6 DEF Abort, Proceed, Continue
    <3>2. ControlFits(H, db, stack, control')
      BY <3>1 DEF ControlFits
    <3>3. Fitting(H)'
      BY <2>1, <3>1, <3>2, FitsStays DEF FInv, Fitting
    <3>. QED
      BY <1>0, <3>3 DEF FInv
  <2>. QED
    BY <1>2, <2>2, <2>3, <2>4, <2>5, <2>6 DEF Step
<1>. QED
  BY <1>1, <1>2 DEF Next, Done

-----------------------------------------------------------------------------
\* The depth while the call i is in progress.
DepthOf(i) == During(stack[i]).depth

(* A call does not lower the depth, and a definition raises it.               *)
LEMMA DepthsRise ==
  ASSUME TInv
  PROVE  /\ \A i \in 1 .. Len(stack) : DepthOf(i) \in 0 .. MaxDepth /\ stack[i].before.depth <= DepthOf(i)
         /\ \A i, j \in 1 .. Len(stack) : i < j => DepthOf(i) <= stack[j].before.depth
         /\ \A i \in 1 .. Len(stack) : stack[i].kind = "entry" => stack[i].before.depth < DepthOf(i)
<1> DEFINE n == Len(stack)
           before(i) == stack[i].before.depth
<1>1. /\ \E S : stack \in Seq(S)
      /\ \A i \in 1 .. n : IsState(stack[i].before) /\ stack[i].before = (IF i = 1 THEN First ELSE During(stack[i - 1]))
      /\ stack # <<>> => Here = During(stack[n])
  BY DEF TInv, IInv, Kept, Valid
<1>2. n \in Nat /\ MaxDepth \in Nat /\ depth \in 0 .. MaxDepth /\ Here.depth = depth
  BY <1>1, TypedFacts, LenProperties, EvaluatorAssumption DEF Here
<1>3. ASSUME NEW i \in 1 .. n
      PROVE  /\ before(i) \in 0 .. MaxDepth /\ (DepthOf(i) = before(i) \/ DepthOf(i) = before(i) + 1)
             /\ stack[i].kind = "entry" => DepthOf(i) = before(i) + 1
             /\ i > 1 => before(i) = DepthOf(i - 1)
             /\ i = n => DepthOf(i) = depth
  <2>1. before(i) \in 0 .. MaxDepth
    BY TypedFacts DEF CallsTyped, FrameTyped, StateTyped
  <2> DEFINE frame == stack[i]
  <2>2. IsState(frame.before)
    BY <1>1
  <2>3. /\ During(frame).depth = frame.before.depth \/ During(frame).depth = frame.before.depth + 1
        /\ frame.kind = "entry" => During(frame).depth = frame.before.depth + 1
    <3> HIDE DEF frame
    <3>1. CASE frame.kind \in {"group", "args", "tilde"}
      BY <2>2, <3>1 DEF During, IsState
    <3>2. CASE frame.kind = "entry"
      BY <2>2, <3>2 DEF During, IsState
    <3>3. CASE frame.kind = "body"
      <4> DEFINE vs == Bound(frame.before.vars, frame.data.params, frame.data.args)
      <4>1. During(frame) = [frame.before EXCEPT !.vars = vs]
        BY <3>3 DEF During
      <4> HIDE DEF vs
      <4>. QED
        BY <2>2, <3>3, <4>1 DEF IsState
    <3>4. CASE frame.kind \notin {"group", "args", "tilde", "entry", "body"}
      BY <3>4 DEF During
    <3>. QED
      BY <3>1, <3>2, <3>3, <3>4
  <2>4. i > 1 => before(i) = DepthOf(i - 1)
    BY <1>1 DEF DepthOf
  <2>5. i = n => DepthOf(i) = depth
    <3> SUFFICES ASSUME i = n PROVE DepthOf(i) = depth
      OBVIOUS
    <3>1. Len(<<>>) = 0
      OBVIOUS
    <3>2. stack # <<>>
      BY <1>2, <3>1
    <3>. QED
      BY <1>1, <1>2, <3>2 DEF DepthOf
  <2>. QED
    BY <2>1, <2>3, <2>4, <2>5 DEF DepthOf
<1> HIDE DEF before, n
<1>4. ASSUME NEW i \in 1 .. n
      PROVE  DepthOf(i) \in 0 .. MaxDepth /\ before(i) <= DepthOf(i) /\ (stack[i].kind = "entry" => before(i) < DepthOf(i))
  <2>1. CASE i = n
    BY <1>2, <1>3, <2>1
  <2>2. CASE i # n
    <3>1. i + 1 \in 1 .. n /\ i + 1 > 1 /\ i + 1 - 1 = i
      BY <1>2, <2>2
    <3>2. before(i + 1) = DepthOf(i) /\ before(i + 1) \in 0 .. MaxDepth
      BY <1>3, <3>1
    <3>. QED
      BY <1>2, <1>3, <3>2
  <2>. QED
    BY <2>1, <2>2
<1> DEFINE Distances == {k \in Nat : \A i \in 1 .. n : i + 1 + k \in 1 .. n => DepthOf(i) <= before(i + 1 + k)}
<1>5. Distances = Nat
  <2>1. 0 \in Distances
    <3>1. ASSUME NEW i \in 1 .. n, i + 1 + 0 \in 1 .. n
          PROVE  DepthOf(i) <= before(i + 1 + 0)
      <4>1. i + 1 + 0 = i + 1 /\ i + 1 > 1 /\ i + 1 - 1 = i
        BY <1>2
      <4>2. before(i + 1) = DepthOf(i)
        BY <1>3, <3>1, <4>1
      <4>. QED
        BY <1>2, <1>4, <4>1, <4>2
    <3>. QED
      BY <3>1
  <2>2. ASSUME NEW k \in Distances
        PROVE  k + 1 \in Distances
    <3>1. ASSUME NEW i \in 1 .. n, i + 1 + (k + 1) \in 1 .. n
          PROVE  DepthOf(i) <= before(i + 1 + (k + 1))
      <4> DEFINE j == i + 1 + k
                 next == i + 1 + (k + 1)
      <4>1. j \in 1 .. n /\ next > 1 /\ next - 1 = j /\ next \in 1 .. n
        BY <1>2, <3>1
      <4>2. DepthOf(i) <= before(j)
        BY <4>1
      <4> HIDE DEF j, next
      <4>3. before(next) = DepthOf(j) /\ before(j) <= DepthOf(j)
        BY <1>3, <1>4, <4>1
      <4>4. DepthOf(i) \in Nat /\ DepthOf(j) \in Nat /\ before(j) \in Nat
        BY <1>2, <1>3, <1>4, <4>1
      <4>5. DepthOf(i) <= before(next)
        BY <4>2, <4>3, <4>4
      <4>. QED
        BY <4>5 DEF next
    <3>. QED
      BY <3>1
  <2>3. Distances \in SUBSET Nat
    OBVIOUS
  <2> HIDE DEF Distances
  <2>. QED
    BY <2>1, <2>2, <2>3, NaturalInduction
<1>6. ASSUME NEW i \in 1 .. n, NEW j \in 1 .. n, i < j
      PROVE  DepthOf(i) <= before(j)
  <2> DEFINE k == j - i - 1
  <2>1. k \in Nat /\ i + 1 + k = j
    BY <1>2, <1>6
  <2>2. k \in Distances
    BY <1>5, <2>1
  <2>. QED
    BY <2>1, <2>2
<1>. QED
  BY <1>4, <1>6 DEF before, n

(* If no text contains itself there are no more texts than can be open.       *)
LEMMA OpeningsSuffice ==
  ASSUME NEW H, FInv(H), IsFiniteSet(Openings(db)), ~ContainsItself
  PROVE  Cardinality(Marks(stack, Len(stack))) <= Cardinality(Openings(db))
<1> DEFINE marks == Marks(stack, Len(stack))
           opening(i) == IF stack[i].kind = "entry" THEN <<"unit", DepthOf(i)>> ELSE TextOf(stack[i])
           f == [i \in marks |-> opening(i)]
<1>0. TInv /\ \E S : stack \in Seq(S)
  BY TypedFacts DEF FInv
<1>l. Len(stack) \in Nat /\ MaxDepth \in Nat
  BY <1>0, LenProperties, EvaluatorAssumption
<1>1. marks = DOMAIN Texts /\ marks \subseteq 1 .. Len(stack)
  BY DEF Marks, Texts
<1>2. ASSUME NEW i \in marks
      PROVE  opening(i) \in Openings(db)
  <2>1. CASE stack[i].kind = "entry"
    <3>1. DepthOf(i) \in 0 .. MaxDepth /\ stack[i].before.depth < DepthOf(i) /\ stack[i].before.depth \in 0 .. MaxDepth
      BY <1>0, <1>1, <2>1, DepthsRise, TypedFacts DEF CallsTyped, FrameTyped, StateTyped
    <3>2. DepthOf(i) \in 1 .. MaxDepth
      BY <1>l, <3>1
    <3>. QED
      BY <2>1, <3>2 DEF Openings
  <2>2. CASE stack[i].kind # "entry"
    BY <1>1, <2>2 DEF FInv, Fitting, StackFits, FrameFits, Marks
  <2>. QED
    BY <2>1, <2>2
<1>3. ASSUME NEW i \in marks, NEW j \in marks, i < j, opening(i) = opening(j)
      PROVE  FALSE
  <2>0. \A frame : frame.kind # "entry" => TextOf(frame)[1] # "unit"
    BY DEF TextOf
  <2>1. CASE stack[i].kind = "entry" /\ stack[j].kind = "entry"
    <3>1. DepthOf(i) = DepthOf(j)
      BY <1>3, <2>1
    <3>2. /\ DepthOf(i) <= stack[j].before.depth /\ stack[j].before.depth < DepthOf(j)
          /\ DepthOf(i) \in 0 .. MaxDepth /\ stack[j].before.depth \in 0 .. MaxDepth
      BY <1>0, <1>1, <1>3, <2>1, DepthsRise, TypedFacts DEF CallsTyped, FrameTyped, StateTyped
    <3>. QED
      BY <1>l, <3>1, <3>2
  <2>2. CASE stack[i].kind # "entry" /\ stack[j].kind # "entry"
    <3>1. Texts[i] = Texts[j] /\ i # j
      BY <1>1, <1>3, <2>2 DEF Texts, Marks
    <3>. QED
      BY <1>1, <2>2, <3>1 DEF ContainsItself
  <2>3. CASE (stack[i].kind = "entry") # (stack[j].kind = "entry")
    <3>1. opening(i)[1] # opening(j)[1]
      BY <2>0, <2>3
    <3>. QED
      BY <1>3, <3>1
  <2>. QED
    BY <2>1, <2>2, <2>3
<1>4. f \in Injection(marks, Openings(db))
  <2>1. \A i, j \in marks : i < j \/ j < i \/ i = j
    BY <1>l, <1>1
  <2> HIDE DEF opening
  <2>2. \A i, j \in marks : opening(i) = opening(j) => i = j
    BY <1>3, <2>1
  <2>. QED
    BY <1>2, <2>2 DEF Injection, IsInjective
<1> HIDE DEF f, marks
<1>5. Cardinality(marks) <= Cardinality(Openings(db))
  BY <1>4, FS_Injection
<1>. QED
  BY <1>5 DEF marks

\* The frames that are enough if no text contains itself.
Enough(H, d) == (H + 2) * (Cardinality(Openings(d)) + 1)

LEMMA StackIsBounded ==
  ASSUME NEW H, TextsWithin(H), FInv(H)
  PROVE  ContainsItself \/ Len(stack) <= Enough(H, db)
<1> SUFFICES ASSUME ~ContainsItself
             PROVE  Len(stack) <= Enough(H, db)
  OBVIOUS
<1> DEFINE n == Len(stack)
           m == Cardinality(Marks(stack, n))
           c == Cardinality(Openings(db))
<1>0. TInv /\ request \in Requests /\ \E S : stack \in Seq(S)
  BY TypedFacts DEF FInv
<1>1. H \in Nat /\ n \in Nat /\ IsFiniteSet(Openings(db))
  BY <1>0, HeightFacts, LenProperties
<1>2. m \in Nat /\ c \in Nat /\ m <= c
  BY <1>1, MarksAre, OpeningsSuffice, FS_CardinalityType
<1>3. n <= Allowed(H, stack, n) + 1
  <2>1. CASE n = 0
    BY <1>1, <2>1, MarksAre
  <2>2. CASE n # 0
    <3> DEFINE k == n - 1
               b == Allowed(H, stack, k)
               a == Allowed(H, stack, n)
    <3>1. k \in Nat /\ k + 1 = n /\ n \in 1 .. n
      BY <1>1, <2>2
    <3>2. n <= b + Extra(stack[n])
      BY <3>1 DEF FInv, Fitting, StackFits, FrameFits
    <3>3. b \in Nat /\ a = b + (IF stack[n].kind \in TextKinds THEN H + 2 ELSE 0)
      <4> HIDE DEF k, n
      <4>1. b \in Nat /\ Allowed(H, stack, k + 1) = b + (IF stack[k + 1].kind \in TextKinds THEN H + 2 ELSE 0)
        BY <1>1, <3>1, MarksAre
      <4>. QED
        BY <3>1, <4>1
    <3>4. /\ Extra(stack[n]) \in {0, 1, 2}
          /\ stack[n].kind \notin TextKinds => Extra(stack[n]) \in {0, 1}
      BY DEF Extra, TextKinds
    <3> HIDE DEF a, b, k, n
    <3>5. CASE stack[n].kind \in TextKinds
      BY <1>1, <3>2, <3>3, <3>4, <3>5 DEF a
    <3>6. CASE stack[n].kind \notin TextKinds
      BY <1>1, <3>2, <3>3, <3>4, <3>6 DEF a
    <3>. QED
      BY <3>5, <3>6 DEF n
  <2>. QED
    BY <2>1, <2>2
<1>4. Allowed(H, stack, n) = (H + 2) * m + H
  BY DEF Allowed
<1> HIDE DEF m, c, n
<1>5. (H + 2) * m + H + 1 <= (H + 2) * (c + 1)
  <2>1. (H + 2) * (c + 1) = (H + 2) * c + (H + 2) /\ (H + 2) * m \in Nat /\ (H + 2) * c \in Nat
    BY <1>1, <1>2
  <2>2. (H + 2) * m <= (H + 2) * c
    BY <1>1, <1>2
  <2>. QED
    BY <1>1, <2>1, <2>2
<1>6. (H + 2) * m \in Nat /\ (H + 2) * (c + 1) \in Nat
  BY <1>1, <1>2
<1>7. n <= (H + 2) * (c + 1)
  BY <1>1, <1>3, <1>4, <1>5, <1>6
<1>. QED
  BY <1>7 DEF Enough, c, n

\* The bound for every height within which the texts happen to be.
FittingTexts == \A H \in Nat : TextsWithin(H) => FInv(H)

LEMMA AlwaysFitting ==
  ASSUME DistinctParameters
  PROVE  Spec => []FittingTexts
<1>1. Init => FittingTexts
  BY InitFits DEF FittingTexts
<1>2. FittingTexts /\ [Next]_all => FittingTexts'
  <2> SUFFICES ASSUME FittingTexts, [Next]_all, NEW H \in Nat, TextsWithin(H)'
               PROVE  FInv(H)'
    BY DEF FittingTexts
  <2>1. UNCHANGED request
    BY DEF Next, Step, Done, all
  <2>2. TextsWithin(H)
    BY <2>1 DEF TextsWithin, db
  <2>3. FInv(H)
    BY <2>2 DEF FittingTexts
  <2>. QED
    BY <2>2, <2>3, NextFits
<1>. QED
  BY <1>1, <1>2, PTL DEF Spec

(* The native stack holds no more frames than the nesting of the texts, for   *)
(* each level of depth and each prefix, function and table once: MAX_DEPTH    *)
(* and the set of names being resolved (eval_nested, resolve_entry) bound the *)
(* recursion for texts of any one height, unless a prefix, a function or a    *)
(* table contains itself.                                                     *)
THEOREM RecursionIsBounded ==
  ASSUME DistinctParameters
  PROVE  Spec => [](\A H \in Nat : TextsWithin(H) => ContainsItself \/ Len(stack) <= Enough(H, db))
<1>1. FittingTexts => \A H \in Nat : TextsWithin(H) => ContainsItself \/ Len(stack) <= Enough(H, db)
  BY StackIsBounded DEF FittingTexts
<1>. QED
  BY <1>1, AlwaysFitting, PTL

(* If no text is too high there is a height within which all are, and for     *)
(* which the stack is large enough.                                           *)
LEMMA HeightAllowed ==
  ASSUME request \in Requests, \A e \in {request.expr} \cup TextsIn(db) : ~TooTall(e)
  PROVE  \E H \in Nat : TextsWithin(H) /\ Enough(H, db) <= StackLimit
<1> DEFINE k == Cardinality(Openings(db)) + 1
           q == StackLimit \div k
           H == q - 2
           texts == {request.expr} \cup TextsIn(db)
<1>1. k \in Nat /\ k >= 1 /\ StackLimit \in Nat
  <2>1. IsFiniteSet(Openings(db))
    BY HeightAssumption DEF db
  <2>2. Cardinality(Openings(db)) \in Nat
    BY <2>1, FS_CardinalityType
  <2>. QED
    BY <2>2, EvaluatorAssumption
<1>2. \A e \in texts : Height[e] \in Nat
  <2>1. \A e \in texts : e \in Tree
    <3>1. IsDatabase(db)
      BY Data
    <3>2. request.expr \in Tree
      BY EvaluatorAssumption
    <3>3. UnitTexts(db) \subseteq Tree /\ PrefixTexts(db) \subseteq Tree
      BY <3>1 DEF UnitTexts, PrefixTexts, IsDatabase
    <3>4. \A f \in DOMAIN db.functions : FunctionTexts(db.functions[f]) \subseteq Tree
      BY <3>1 DEF FunctionTexts, IsDatabase
    <3>5. \A t \in DOMAIN db.tables : TableTexts(db.tables[t]) \subseteq Tree
      BY <3>1 DEF TableTexts, IsDatabase
    <3>6. TextsIn(db) \subseteq Tree
      BY <3>3, <3>4, <3>5, PartsOfTexts
    <3>. QED
      BY <3>2, <3>6
  <2>. QED
    BY <2>1, HeightAssumption DEF Lower
<1>3. \A e \in texts : (Height[e] + 2) * k <= StackLimit
  <2>1. \A e \in texts : ~(StackLimit < (Height[e] + 2) * k)
    BY DEF TooTall
  <2> HIDE DEF k, texts
  <2>2. \A e \in texts : (Height[e] + 2) * k \in Int
    BY <1>1, <1>2
  <2>. QED
    BY <1>1, <2>1, <2>2
<1> HIDE DEF k, texts
<1>4. q \in Nat /\ q * k <= StackLimit /\ StackLimit < (q + 1) * k
  BY <1>1
<1> HIDE DEF q
<1>5. ASSUME NEW h \in Nat, (h + 2) * k <= StackLimit
      PROVE  h <= H /\ H \in Nat
  <2>1. (h + 2) * k < (q + 1) * k
    BY <1>1, <1>4, <1>5
  <2>2. h + 2 < q + 1
    BY <1>1, <1>4, <2>1
  <2>. QED
    BY <1>4, <2>2
<1>6. H \in Nat /\ \A e \in texts : Height[e] <= H
  <2>1. request.expr \in texts
    BY DEF texts
  <2>. QED
    BY <1>2, <1>3, <1>5, <2>1
<1>7. (H + 2) * k <= StackLimit
  <2>1. H + 2 = q
    BY <1>4
  <2>. QED
    BY <1>4, <2>1
<1>. QED
  BY <1>6, <1>7 DEF TextsWithin, Enough, k, texts

(* A process is aborted only by a prefix, a function or a table that contains *)
(* itself (parse_sub in resolve_name, call_user_function, validate_func_arg   *)
(* and call_function), or by a text that is too high for its stack (the rows  *)
(* of signs of eval_unary); how large the stack is does not matter.           *)
THEOREM OnlyCyclesExhaust ==
  ASSUME DistinctParameters
  PROVE  Spec => []OnlyCyclesAbort
<1>1. FittingTexts /\ TInv => OnlyCyclesAbort
  <2> SUFFICES ASSUME FittingTexts, TInv, control.at = "aborted",
                      \A e \in {request.expr} \cup TextsIn(db) : ~TooTall(e)
               PROVE  ContainsItself
    BY DEF OnlyCyclesAbort
  <2>1. request \in Requests /\ Len(stack) \in Nat
    BY TypedFacts, LenProperties
  <2>2. PICK H \in Nat : TextsWithin(H) /\ Enough(H, db) <= StackLimit
    BY <2>1, HeightAllowed
  <2>3. FInv(H)
    BY <2>2 DEF FittingTexts
  <2>4. Len(stack) > StackLimit /\ StackLimit \in Nat
    BY <2>3, EvaluatorAssumption DEF FInv, Fitting, ControlFits
  <2>5. Enough(H, db) \in Nat
    <3>1. Cardinality(Openings(db)) \in Nat
      BY <2>1, <2>2, HeightFacts, FS_CardinalityType
    <3>. QED
      BY <3>1 DEF Enough
  <2>6. ~(Len(stack) <= Enough(H, db))
    BY <2>1, <2>2, <2>4, <2>5
  <2>. QED
    BY <2>2, <2>3, <2>6, StackIsBounded
<1>2. Init => TInv
  BY InitTyped
<1>3. TInv /\ [Next]_all => TInv'
  BY NextTyped
<1>. QED
  BY <1>1, <1>2, <1>3, AlwaysFitting, PTL DEF Spec
=============================================================================
