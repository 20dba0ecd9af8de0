----------------------------- MODULE AtomicStore -----------------------------
(***************************************************************************)
(* What the process-wide state promises, with no lock in sight: a database *)
(* and a listing that are each replaced in one step, the listing after the *)
(* database, and evaluations that happen in one step against the database  *)
(* of that moment.                                                         *)
(***************************************************************************)
EXTENDS Definitions, FiniteSets

CONSTANTS Thread, Embedded, Contents, Refers, Faulty, NoExpr, NoContent

VARIABLES
  phase,      \* "empty", "database" loaded, or also "listing" loaded
  db,
  listing,
  reloading,  \* per thread, the file it put into the database and not yet into the listing
  value       \* per thread, the evaluation just made

vars == <<phase, db, listing, reloading, value>>

NoValue == [code |-> "OK", base |-> NoExpr, reads |-> {}]

\* The entry that entry k of database d is defined by, if any.
NextEntry(d, k) ==
  IF k = NoExpr \/ d[k] = Absent \/ d[k] \in Faulty THEN NoExpr ELSE Refers[d[k]]

Walk(d, e) == LET nth[n \in Nat] == IF n = 0 THEN e ELSE NextEntry(d, nth[n - 1]) IN nth

\* The entries an evaluation of e visits in database d, one after the other;
\* a chain longer than the entries there are leads back to itself.
Chain(d, e) ==
  LET nth == Walk(d, e)
  IN  [n \in 0 .. Cardinality({k \in Key : d[k] # Absent}) + 1 |-> nth[n]]

Evaluation(d, e) ==
  LET chain == Chain(d, e)
      visited == {chain[n] : n \in DOMAIN chain} \ {NoExpr}
      circular == NoExpr \notin {chain[n] : n \in DOMAIN chain}
      last == chain[Cardinality(visited) - 1]
      code == IF circular THEN "Parse"
              ELSE IF d[last] = Absent THEN "UnknownUnit"
              ELSE IF d[last] \in Faulty THEN "BadSum" ELSE "OK"
  IN  [code |-> code, base |-> IF code = "OK" THEN last ELSE NoExpr,
       reads |-> {<<k, d[k]>> : k \in visited}]

Init == /\ phase = "empty"
        /\ db = EmptyDatabase
        /\ listing = EmptyListing
        /\ reloading = [t \in Thread |-> NoContent]
        /\ value = [t \in Thread |-> NoValue]

LoadDatabase == /\ phase = "empty" /\ phase' = "database"
                /\ db' = LoadAll(EmptyDatabase, Embedded)
                /\ UNCHANGED <<listing, reloading, value>>

LoadListing == /\ phase = "database" /\ phase' = "listing"
               /\ listing' = InitialListing(Embedded)
               /\ UNCHANGED <<db, reloading, value>>

Evaluate(t) == /\ phase = "listing" /\ value[t] = NoValue
               /\ \E e \in Key : value' = [value EXCEPT ![t] = Evaluation(db, e)]
               /\ UNCHANGED <<phase, db, listing, reloading>>

Forget(t) == /\ value' = [value EXCEPT ![t] = NoValue]
             /\ UNCHANGED <<phase, db, listing, reloading>>

CommitDatabase(t) ==
  /\ phase = "listing" /\ reloading[t] = NoContent
  /\ \E content \in Contents : /\ db' = LoadAll(db, content)
                               /\ reloading' = [reloading EXCEPT ![t] = content]
  /\ UNCHANGED <<phase, listing, value>>

CommitListing(t) ==
  /\ reloading[t] # NoContent
  /\ listing' = ReloadListing(listing, reloading[t])
  /\ reloading' = [reloading EXCEPT ![t] = NoContent]
  /\ UNCHANGED <<phase, db, value>>

Next == \/ LoadDatabase \/ LoadListing
        \/ \E t \in Thread : Evaluate(t) \/ Forget(t) \/ CommitDatabase(t) \/ CommitListing(t)

Spec == Init /\ [][Next]_vars
=============================================================================
