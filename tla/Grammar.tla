------------------------------- MODULE Grammar -------------------------------
(***************************************************************************)
(* The parsing expression grammar of unit expressions (parser.pest) over   *)
(* tokens, with its ordered choices and greedy repetitions, and the        *)
(* context-free grammar that the head of parser.rs gives for it.           *)
(*                                                                         *)
(* A syntax tree is written in postfix order: operands, then what is done  *)
(* with them.  The word per is an operator, and also a name where that     *)
(* fails.  Numbers and the characters of names are left out.               *)
(***************************************************************************)
EXTENDS Integers, Sequences, FiniteSets

CONSTANTS Tokens, MaxTokens

GrammarAssumption ==
  Tokens \subseteq {"number", "name", "per", "-", "+", "+-", "*", "/", "|", "^", "~", "(", ")", ","}

VARIABLES text, result
vars == <<text, result>>

AddOps == {"+-", "+", "-"}
MulOps == {"*", "/", "|", "per"}
Names == {"name", "per"}

-----------------------------------------------------------------------------
\* A match of a rule at a position of s: where it ends, and its tree.
Fails == [ok |-> FALSE, next |-> 0, tree |-> <<>>]
Match(next, tree) == [ok |-> TRUE, next |-> next, tree |-> tree]
Divides(op) == IF op = "per" THEN "/" ELSE op
At(s, i, set) == i \in DOMAIN s /\ s[i] \in set
\* A call or an inverse keeps its name in its tree only when it is per.
Named(name, tree) == IF name = "per" THEN <<"per">> \o tree ELSE tree

Rules == {"additive", "more products", "product", "more powers", "power", "unary", "atom", "arguments", "more arguments"}

\* One operator per rule: what it matches at position i of s, with the matches m of the
\* rules it uses.

\* Variant: a name is taken before a call is tried.
AtomNames(s, m, i) ==
  IF At(s, i, {"number"} \cup Names) THEN Match(i + 1, <<s[i]>>)
  ELSE LET group == IF At(s, i, {"("}) THEN m["additive", i + 1] ELSE Fails IN
       IF group.ok /\ At(s, group.next, {")"}) THEN Match(group.next + 1, group.tree) ELSE Fails

\* atom: a number, a call of an inverse, a call, a name or a group, in this order.
Call(s, m, i) ==
  IF ~(At(s, i, Names) /\ At(s, i + 1, {"("})) THEN Fails
  ELSE IF At(s, i + 2, {")"}) THEN Match(i + 3, Named(s[i], <<"call 0">>))
  ELSE LET list == m["arguments", i + 2] IN
       IF list.ok THEN Match(list.next, Named(s[i], list.tree)) ELSE Fails

\* The arguments and the bracket behind them; call is what they are a list for.
Arguments(s, m, i, call) ==
  LET e == m["additive", i]
      rest == IF e.ok /\ At(s, e.next, {","}) THEN m["more arguments", e.next + 1] ELSE Fails
  IN  IF e.ok /\ At(s, e.next, {")"}) THEN Match(e.next + 1, Append(e.tree, call))
      ELSE IF rest.ok THEN Match(rest.next, e.tree \o rest.tree) ELSE Fails

Inverse(s, m, i) ==
  LET arg == IF At(s, i + 1, Names) /\ At(s, i + 2, {"("}) THEN m["additive", i + 3] ELSE Fails
  IN  IF arg.ok /\ At(s, arg.next, {")"}) THEN Match(arg.next + 1, Named(s[i + 1], Append(arg.tree, "inverse"))) ELSE Fails

Atom(s, m, i) ==
  LET call == Call(s, m, i)
      group == IF At(s, i, {"("}) THEN m["additive", i + 1] ELSE Fails
  IN  IF At(s, i, {"number"}) THEN Match(i + 1, <<"number">>)
      ELSE IF At(s, i, {"~"}) THEN Inverse(s, m, i)
      ELSE IF call.ok THEN call
      ELSE IF At(s, i, Names) THEN Match(i + 1, <<s[i]>>)
      ELSE IF group.ok /\ At(s, group.next, {")"}) THEN Match(group.next + 1, group.tree) ELSE Fails

Unary(s, m, i) ==
  LET rest == IF At(s, i, {"-", "per"}) THEN m["unary", i + 1] ELSE Fails
  IN  IF rest.ok THEN Match(rest.next, Append(rest.tree, IF s[i] = "-" THEN "negate" ELSE "invert"))
      ELSE m["atom", i]

\* The exponent is one unary expression.
Power(s, m, i) ==
  LET base == m["unary", i]
      exponent == IF base.ok /\ At(s, base.next, {"^"}) THEN m["unary", base.next + 1] ELSE Fails
  IN  IF exponent.ok THEN Match(exponent.next, base.tree \o exponent.tree \o <<"^">>) ELSE base

\* A first match, and all that the repetition more finds behind it.
Repeated(m, first, more) ==
  LET rest == m[more, first.next] IN IF first.ok THEN Match(rest.next, first.tree \o rest.tree) ELSE Fails

\* One round of a repetition, and the further ones; what it matches ends with op.
Round(m, match, op, more) == Repeated(m, [match EXCEPT !.tree = Append(@, op)], more)

Product(s, m, i) == Repeated(m, m["power", i], "more powers")

\* Variant: juxtaposition does not look at what follows.
MorePowersBlindly(s, m, i) ==
  LET right == IF At(s, i, MulOps) THEN m["power", i + 1] ELSE Fails
      beside == m["power", i]
  IN  IF right.ok THEN Round(m, right, Divides(s[i]), "more powers")
      ELSE IF beside.ok THEN Round(m, beside, "juxtapose", "more powers")
      ELSE Match(i, <<>>)

\* juxt_factor: nothing that begins with a sign.
MorePowers(s, m, i) ==
  LET right == IF At(s, i, MulOps) THEN m["power", i + 1] ELSE Fails
      beside == IF At(s, i, AddOps) THEN Fails ELSE m["power", i]
  IN  IF right.ok THEN Round(m, right, Divides(s[i]), "more powers")
      ELSE IF beside.ok THEN Round(m, beside, "juxtapose", "more powers")
      ELSE Match(i, <<>>)

Additive(s, m, i) == Repeated(m, m["product", i], "more products")

MoreProducts(s, m, i) ==
  LET right == IF At(s, i, AddOps) THEN m["product", i + 1] ELSE Fails
  IN  IF right.ok THEN Round(m, right, s[i], "more products") ELSE Match(i, <<>>)

\* input: the expression and the end of the text.
Parse(s) ==
  LET m[r \in Rules, i \in 1 .. Len(s) + 1] ==
        CASE r = "additive" -> Additive(s, m, i)
          [] r = "more products" -> MoreProducts(s, m, i)
          [] r = "product" -> Product(s, m, i)
          [] r = "more powers" -> MorePowers(s, m, i)
          [] r = "power" -> Power(s, m, i)
          [] r = "unary" -> Unary(s, m, i)
          [] r = "atom" -> Atom(s, m, i)
          [] r = "arguments" -> Arguments(s, m, i, "call 1")
          [] r = "more arguments" -> Arguments(s, m, i, "call n")
      e == m["additive", 1]
  IN  IF e.ok /\ e.next = Len(s) + 1 THEN e ELSE Fails

-----------------------------------------------------------------------------
Init == text = <<>> /\ result = Fails

\* Texts with a bracket that closes nothing have no extension that is accepted.
Opened(s, b) == Cardinality({i \in DOMAIN s : s[i] = b})

\* The bound on texts, which leaves room for two more tokens behind a first argument.
MaxLength(s) ==
  IF Len(s) >= 4 /\ SubSeq(s, 1, 4) = <<"name", "(", "name", ",">> THEN MaxTokens + 2 ELSE MaxTokens

Type(token) ==
  /\ Len(text) < MaxLength(text)
  /\ text' = Append(text, token) /\ Opened(text', ")") <= Opened(text', "(")
  /\ result' = Parse(text')

Next == (\E t \in Tokens : Type(t)) \/ (Len(text) = MaxLength(text) /\ UNCHANGED vars)
Spec == Init /\ [][Next]_vars

-----------------------------------------------------------------------------
\* The grammar at the head of parser.rs, with the lists of arguments of arg_list: all trees
\* it gives to the tokens i .. j of s.
RECURSIVE Trees(_, _, _, _)
Lists(s, i, j) ==
  Trees("additive", s, i, j)
  \cup UNION {{a \o b : a \in Trees("additive", s, i, k - 1), b \in Trees("list", s, k + 1, j)} :
              k \in {k \in i + 1 .. j - 1 : s[k] = ","}}

Then(as, bs, what) == {a \o b \o <<what>> : a \in as, b \in bs}
After(as, what) == {Append(a, what) : a \in as}
Joined(s, i, j, ops, left, right) ==
  UNION {Then(Trees(left, s, i, k - 1), Trees(right, s, k + 1, j), Divides(s[k])) : k \in {k \in i + 1 .. j - 1 : s[k] \in ops}}

Trees(rule, s, i, j) ==
  IF i > j THEN {}
  ELSE CASE rule = "additive" -> Trees("product", s, i, j) \cup Joined(s, i, j, AddOps, "additive", "product")
    [] rule = "product" ->
         Trees("power", s, i, j) \cup Joined(s, i, j, MulOps, "product", "power")
         \cup UNION {Then(Trees("product", s, i, k), Trees("power", s, k + 1, j), "juxtapose") : k \in i .. j - 1}
    [] rule = "power" -> Trees("unary", s, i, j) \cup Joined(s, i, j, {"^"}, "unary", "unary")
    [] rule = "unary" ->
         Trees("atom", s, i, j)
         \cup (IF s[i] \in {"-", "per"} THEN After(Trees("unary", s, i + 1, j), IF s[i] = "-" THEN "negate" ELSE "invert") ELSE {})
    [] rule = "list" -> Lists(s, i, j)
    [] rule = "atom" ->
         (IF i = j /\ s[i] \in {"number", "name"} THEN {<<s[i]>>} ELSE {})
         \cup (IF s[i] = "(" /\ s[j] = ")" THEN Trees("additive", s, i + 1, j - 1) ELSE {})
         \cup (IF s[i] = "name" /\ At(s, i + 1, {"("}) /\ i + 1 < j /\ s[j] = ")"
               THEN IF j = i + 2 THEN {<<"call 0">>}
                    ELSE After(Trees("additive", s, i + 2, j - 1), "call 1")
                         \cup After(Trees("list", s, i + 2, j - 1) \ Trees("additive", s, i + 2, j - 1), "call n")
               ELSE {})
         \cup (IF s[i] = "~" /\ At(s, i + 1, {"name"}) /\ At(s, i + 2, {"("}) /\ i + 2 < j /\ s[j] = ")"
               THEN After(Trees("additive", s, i + 3, j - 1), "inverse") ELSE {})

\* The order of the alternatives hides nothing: a text the documented grammar allows is
\* accepted with a tree it gives; what is accepted besides has a name per, and only where
\* per can be no operator (parser.pest against parser.rs:5).
ParsesAsDocumented == LET trees == Trees("additive", text, 1, Len(text)) IN
                      IF result.ok /\ \A i \in DOMAIN result.tree : result.tree[i] # "per"
                      THEN result.tree \in trees ELSE trees = {}

\* Of the trees the documented grammar allows, the one taken never reads a sign behind an
\* operand as a factor with a sign (a - b is a difference), nor a name in front of a bracket
\* as a factor beside it where a call is possible (m (s) is the call of m).
Meant ==
  LET trees == Trees("additive", text, 1, Len(text))
      count(tree, what) == Cardinality({i \in DOMAIN tree : tree[i] \in what})
      signs(tree) == count(tree, AddOps)
      calls(tree) == count(tree, {"call 0", "call 1", "call n"})
  IN  result.ok =>
        \A t \in trees : signs(t) <= signs(result.tree) /\ calls(t) <= calls(result.tree)
=============================================================================
