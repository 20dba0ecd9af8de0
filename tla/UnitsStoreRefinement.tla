------------------------ MODULE UnitsStoreRefinement ------------------------
(***************************************************************************)
(* UnitsStore implements AtomicStore, and the answers of its calls are     *)
(* those of the sequential library whenever a sequential answer is         *)
(* determined.                                                             *)
(***************************************************************************)
EXTENDS UnitsStore

CONSTANT NoContent

ASSUME RefinementAssumption == NoContent \notin Contents

\* The listing a thread inside the write guard of the listing will leave behind.
ListingLeft ==
  IF listLock.writers = {} THEN listing
  ELSE Extended(listing, Content(CHOOSE t \in listLock.writers : TRUE))

\* What has been loaded by the closure of the LazyLock.
Loaded == IF lazy = "done" THEN "listing" ELSE IF origin = "unset" THEN "empty" ELSE "database"

\* The files that are in the database and not yet in the listing.
Reloading == [t \in Thread |-> IF stage[t] = "listwrite" THEN Content(t) ELSE NoContent]

\* The evaluations that have ended.
Made == [t \in Thread |-> IF eval[t].on /\ eval[t].want = NoExpr THEN eval[t].value ELSE NoValue]

Atomic == INSTANCE AtomicStore WITH
  phase <- Loaded, db <- committed, listing <- ListingLeft, reloading <- Reloading, value <- Made

(* The guards make every evaluation, the replacement of the database by a    *)
(* reload and that of the listing look like single steps, in this order.     *)
ImplementsAtomicStore == Atomic!Spec

-----------------------------------------------------------------------------
\* What convert(from, to) returns in a single-threaded program with database d.
ConvertCodes(d, from, to) ==
  LET value(e) == Atomic!Evaluation(d, e)
      function == d[<<"Function", to>>]
      table == d[<<"Table", to>>]
      retry == value(from).code \in {"Parse", "UnknownUnit"} /\ Split[from] # NoExpr
      operand == value(IF retry THEN Split[from] ELSE from)
      target == value(<<"Unit", to>>)
      unit == value(Refers[table])
      division == IF operand.code # "OK" THEN operand.code
                  ELSE IF target.code # "OK" THEN target.code
                  ELSE IF operand.base = target.base THEN "OK" ELSE "NotANumber"
  IN  CASE value(from).code = "OK" /\ function # Absent /\ Reverse[function] # NoExpr ->
             {value(Reverse[function]).code}
        [] value(from).code = "OK" /\ function = Absent /\ table # Absent
           /\ Refers[table] # NoExpr ->
             IF unit.code # "OK" THEN {unit.code}
             ELSE IF unit.base # value(from).base THEN {"BadFuncArg"} ELSE {"OK", "NotInDomain"}
        [] OTHER -> {division}

EmbeddedUnits == {n \in FullName : InitialListing(Embedded)[<<n, "Unit">>] # {}}

ConformableNames(d, e) ==
  {n \in EmbeddedUnits : LET v == Atomic!Evaluation(d, <<"Unit", Canon[n]>>)
                         IN  v.code = "OK" /\ v.base = Atomic!Evaluation(d, e).base}

\* Two databases that differ in rates only: no base and no outcome changes.
SameShape(d1, d2) ==
  /\ \A k \in Key : k[1] \in {"Function", "Table"} => d1[k] = d2[k]
  /\ \A e \in Expr : LET v1 == Atomic!Evaluation(d1, e)
                         v2 == Atomic!Evaluation(d2, e)
                     IN  v1.code = v2.code /\ v1.base = v2.base

Answered(t) == stage[t] = "idle" /\ answer[t].code # "None"

\* The answer of thread t is one of the single-threaded answers in database d.
AnswerIn(t, d) ==
  CASE call[t].op = "parse" -> answer[t].code = Atomic!Evaluation(d, call[t].expr).code
    [] call[t].op = "convert" -> answer[t].code \in ConvertCodes(d, call[t].from, call[t].to)
    [] call[t].op = "conformable" ->
         LET code == Atomic!Evaluation(d, call[t].expr).code
         IN  /\ answer[t].code = code
             /\ code = "OK" =>
                  answer[t].names \cap EmbeddedUnits = ConformableNames(d, call[t].expr)
    [] OTHER -> answer[t].code = "OK"

(* A call that overlaps reloads which change rates only (or none) succeeds   *)
(* or fails exactly as the same call does in a single-threaded program, and  *)
(* conformable finds exactly the conformable embedded units; the several     *)
(* separate reads of the database one call makes cannot be told apart.       *)
AnswersAsIfAlone ==
  \A t \in Thread :
    Answered(t) /\ (\A d1, d2 \in seen[t] : d1 = d2 \/ SameShape(d1, d2)) =>
      \A d \in seen[t] : AnswerIn(t, d)
=============================================================================
