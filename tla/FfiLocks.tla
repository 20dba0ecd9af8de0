------------------------------ MODULE FfiLocks -------------------------------
(***************************************************************************)
(* The process-wide state of the vendored engine: the tables of the C      *)
(* library behind the one GNU_UNITS_MUTEX (ffi.rs), filled by the closure  *)
(* of DEFINITIONS and by reload_currency, which take the mutex once for    *)
(* each line (definitions.rs).  What each C function reads and writes is   *)
(* taken from the comments at its call: parseunit, addunit, expunit,       *)
(* rootunit, unit2num, evalfunc and new* use global state, multunit,       *)
(* divunit, invertunit, unitcopy and freeunit do not.                      *)
(***************************************************************************)
EXTENDS Integers, Sequences, FiniteSets

CONSTANTS Thread, Key, Nobody,
          Files,        \* name of a file -> its lines, a sequence of keys
          Embedded,     \* the name of definitions.units
          Calls,        \* Thread -> the calls it may make: "parse", "convert", "locked", "private" or a file
          MaxCalls

ASSUME FfiAssumption ==
  /\ Nobody \notin Thread \cup DOMAIN Files
  /\ Embedded \in DOMAIN Files /\ \A f \in DOMAIN Files : Files[f] \in Seq(Key)

VARIABLES
  lazy,     \* DEFINITIONS: "new", "running", "done"
  mutex,    \* who holds GNU_UNITS_MUTEX
  table,    \* the C tables: for each key the file its definition is from
  stage, call, left,
  at,       \* per thread, the lines it has inserted
  todo,     \* per thread, the sections under the mutex its call still needs
  found,    \* per thread, what the evaluation in progress has looked up
  view,     \* history, per thread: the table when the evaluation began
  inForce   \* history: the file of the last reload, or Nobody after two at once
vars == <<lazy, mutex, table, stage, call, left, at, todo, found, view, inForce>>

-----------------------------------------------------------------------------
Empty == [k \in Key |-> Nobody]
IsFile(c) == c \in DOMAIN Files
FileOf(t) == IF stage[t] \in {"boot", "boot insert"} THEN Embedded ELSE call[t]

Init ==
  /\ lazy = "new" /\ mutex = Nobody /\ table = Empty /\ inForce = Embedded
  /\ stage = [t \in Thread |-> "idle"] /\ call = [t \in Thread |-> "private"]
  /\ left = [t \in Thread |-> MaxCalls] /\ at = [t \in Thread |-> 0] /\ todo = [t \in Thread |-> 0]
  /\ found = [t \in Thread |-> Empty] /\ view = [t \in Thread |-> Empty]

Becomes(t, s) == stage' = [stage EXCEPT ![t] = s]
Take(t) == mutex = Nobody /\ mutex' = t
Release(t) == mutex' = IF mutex = t THEN Nobody ELSE mutex

\* The sections of a call: convert_func is one, convert goes on with up to two parses of
\* the operand, one of the target and to_number.
Sections(c) == IF c = "convert" THEN 1 .. 5 ELSE {1}

\* The methods of Unit work on units the caller has and do not force DEFINITIONS.
Start(t, c) ==
  /\ stage[t] = "idle" /\ left[t] > 0
  /\ call' = [call EXCEPT ![t] = c] /\ left' = [left EXCEPT ![t] = @ - 1]
  /\ \E n \in Sections(c) : todo' = [todo EXCEPT ![t] = n]
  /\ Becomes(t, CASE c = "private" -> "private" [] c = "locked" -> "lock" [] OTHER -> "ensure")
  /\ UNCHANGED <<lazy, mutex, table, at, found, view, inForce>>

\* A C function that uses nothing but its arguments, called without the mutex.
Private(t) ==
  /\ stage[t] = "private" /\ Becomes(t, "idle")
  /\ UNCHANGED <<lazy, mutex, table, call, left, at, todo, found, view, inForce>>

AfterEnsure(t) == IF IsFile(call[t]) THEN "file" ELSE "lock"

\* ensure_definitions: LazyLock runs the closure once; who comes later waits for it.
Ensure(t) ==
  /\ stage[t] = "ensure" /\ lazy # "running"
  /\ IF lazy = "new" THEN lazy' = "running" /\ Becomes(t, "globals") ELSE UNCHANGED lazy /\ Becomes(t, AfterEnsure(t))
  /\ UNCHANGED <<mutex, table, call, left, at, todo, found, view, inForce>>

\* The closure sets mylocale, progname and utf8mode under the mutex.
Globals(t) ==
  /\ stage[t] = "globals" /\ Take(t) /\ Becomes(t, "set")
  /\ UNCHANGED <<lazy, table, call, left, at, todo, found, view, inForce>>

\* The guard is dropped before the file is read: the mutex cannot be taken twice.
GlobalsEnd(t) ==
  /\ stage[t] = "set" /\ Release(t) /\ Becomes(t, "boot") /\ at' = [at EXCEPT ![t] = 0]
  /\ UNCHANGED <<lazy, table, call, left, todo, found, view, inForce>>

\* load_definitions: a reload starts; two at once leave lines of both.
Reloading == {t \in Thread : stage[t] \in {"load", "insert"}}
LoadFile(t) ==
  /\ stage[t] = "file" /\ Becomes(t, "load") /\ at' = [at EXCEPT ![t] = 0]
  /\ inForce' = IF Reloading = {} THEN call[t] ELSE Nobody
  /\ UNCHANGED <<lazy, mutex, table, call, left, todo, found, view>>

\* newunit, newprefix, newtable, newfunction and newalias: lock, insert, unlock.
InsertBegin(t) ==
  /\ stage[t] \in {"boot", "load"} /\ at[t] < Len(Files[FileOf(t)])
  /\ Take(t) /\ Becomes(t, IF stage[t] = "boot" THEN "boot insert" ELSE "insert")
  /\ UNCHANGED <<lazy, table, call, left, at, todo, found, view, inForce>>

\* Variant: what a key has stays.
InsertKeeping(t) ==
  /\ stage[t] \in {"boot insert", "insert"}
  /\ LET k == Files[FileOf(t)][at[t] + 1] IN
     table' = [table EXCEPT ![k] = IF table[k] = Nobody THEN FileOf(t) ELSE table[k]]
  /\ at' = [at EXCEPT ![t] = @ + 1] /\ Release(t)
  /\ Becomes(t, IF stage[t] = "boot insert" THEN "boot" ELSE "load")
  /\ UNCHANGED <<lazy, call, left, todo, found, view, inForce>>

Insert(t) ==
  /\ stage[t] \in {"boot insert", "insert"}
  /\ table' = [table EXCEPT ![Files[FileOf(t)][at[t] + 1]] = FileOf(t)]
  /\ at' = [at EXCEPT ![t] = @ + 1] /\ Release(t)
  /\ Becomes(t, IF stage[t] = "boot insert" THEN "boot" ELSE "load")
  /\ UNCHANGED <<lazy, call, left, todo, found, view, inForce>>

\* Variant: the closure publishes before the file is read.
LoadedEarly(t) ==
  /\ stage[t] \in {"boot", "load"}
  /\ IF stage[t] = "boot" THEN lazy' = "done" /\ Becomes(t, AfterEnsure(t))
     ELSE at[t] = Len(Files[FileOf(t)]) /\ UNCHANGED lazy /\ Becomes(t, "idle")
  /\ at' = [at EXCEPT ![t] = 0]
  /\ UNCHANGED <<mutex, table, call, left, todo, found, view, inForce>>

Loaded(t) ==
  /\ stage[t] \in {"boot", "load"} /\ at[t] = Len(Files[FileOf(t)])
  /\ IF stage[t] = "boot" THEN lazy' = "done" /\ Becomes(t, AfterEnsure(t)) ELSE UNCHANGED lazy /\ Becomes(t, "idle")
  /\ at' = [at EXCEPT ![t] = 0]
  /\ UNCHANGED <<mutex, table, call, left, todo, found, view, inForce>>

\* Variant: the mutex is not taken.
EvaluateBeginUnlocked(t) ==
  /\ stage[t] = "lock" /\ UNCHANGED mutex /\ Becomes(t, "evaluate")
  /\ found' = [found EXCEPT ![t] = Empty] /\ view' = [view EXCEPT ![t] = table]
  /\ UNCHANGED <<lazy, table, call, left, at, todo, inForce>>

\* unit_parse, convert_func, unit_add, unit_pow, unit_root, unit_to_number.
EvaluateBegin(t) ==
  /\ stage[t] = "lock" /\ Take(t) /\ Becomes(t, "evaluate")
  /\ found' = [found EXCEPT ![t] = Empty] /\ view' = [view EXCEPT ![t] = table]
  /\ UNCHANGED <<lazy, table, call, left, at, todo, inForce>>

LookUp(t, k) ==
  /\ stage[t] = "evaluate" /\ call[t] # "locked" /\ found[t][k] = Nobody /\ table[k] # Nobody
  /\ found' = [found EXCEPT ![t][k] = table[k]]
  /\ UNCHANGED <<lazy, mutex, table, stage, call, left, at, todo, view, inForce>>

\* Variant: convert tries the operand again as long as it fails.
EvaluateEndRetrying(t) ==
  /\ stage[t] = "evaluate" /\ Release(t)
  /\ \E n \in {todo[t], todo[t] - 1} : todo' = [todo EXCEPT ![t] = n] /\ Becomes(t, IF n = 0 THEN "idle" ELSE "lock")
  /\ found' = [found EXCEPT ![t] = Empty] /\ view' = [view EXCEPT ![t] = Empty]
  /\ UNCHANGED <<lazy, table, call, left, at, inForce>>

\* Returning drops the guard; the errors of every path do so as well.
EvaluateEnd(t) ==
  /\ stage[t] = "evaluate" /\ Release(t)
  /\ todo' = [todo EXCEPT ![t] = @ - 1] /\ Becomes(t, IF todo[t] = 1 THEN "idle" ELSE "lock")
  /\ found' = [found EXCEPT ![t] = Empty] /\ view' = [view EXCEPT ![t] = Empty]
  /\ UNCHANGED <<lazy, table, call, left, at, inForce>>

Step(t) ==
  \/ \E c \in Calls[t] : Start(t, c)
  \/ Private(t) \/ Ensure(t) \/ Globals(t) \/ GlobalsEnd(t) \/ LoadFile(t)
  \/ InsertBegin(t) \/ Insert(t) \/ Loaded(t) \/ EvaluateBegin(t) \/ (\E k \in Key : LookUp(t, k)) \/ EvaluateEnd(t)

Done == (\A t \in Thread : stage[t] = "idle" /\ left[t] = 0) /\ UNCHANGED vars
Next == (\E t \in Thread : Step(t)) \/ Done
Spec == Init /\ [][Next]_vars
FairSpec == Spec /\ \A t \in Thread : WF_vars(Step(t))

-----------------------------------------------------------------------------
InC == {t \in Thread : stage[t] \in {"private", "set", "boot insert", "insert", "evaluate"}}
UsesGlobals == {t \in InC : stage[t] # "private"}

\* The C library keeps its state in globals: no two threads are in functions that use it,
\* the first use of the library included (ffi.rs, the guards of every wrapper).
GlobalsAreGuarded == Cardinality(UsesGlobals) <= 1 /\ \A t \in UsesGlobals : mutex = t

\* All that one evaluation looks up is from one state of the tables, though not from one
\* file, and never from tables that are still being filled for the first time.
EvaluationsAreOneState ==
  \A t \in Thread : stage[t] = "evaluate" /\ call[t] # "locked" =>
    /\ \A k \in Key : found[t][k] \in {Nobody, view[t][k]}
    /\ \A i \in DOMAIN Files[Embedded] : view[t][Files[Embedded][i]] # Nobody

\* Reloads that do not overlap take effect whole, though every line is inserted under a
\* guard of its own and evaluations see the file half loaded in between.
ReloadsTakeEffect ==
  Reloading = {} /\ lazy = "done" /\ inForce # Nobody =>
    \A i \in DOMAIN Files[inForce] : table[Files[inForce][i]] = inForce

\* No thread waits for a guard that it, or a thread that waits for it, holds: every call
\* returns, the one that fills the tables for the others too.
CallsReturn == \A t \in Thread : stage[t] # "idle" ~> stage[t] = "idle"
=============================================================================
