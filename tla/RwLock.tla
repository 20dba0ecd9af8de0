------------------------------- MODULE RwLock -------------------------------
(***************************************************************************)
(* The reader-writer lock std::sync::RwLock as this crate uses it.  A lock *)
(* value is the set of threads that hold a read guard and the set of those *)
(* that hold the write guard; a guard is released when it is dropped.      *)
(*                                                                         *)
(* The standard library leaves the priority of readers and writers open.   *)
(* WriterFirst = TRUE is the policy under which a reader waits as soon as  *)
(* a writer does (the one that can turn a nested read into a deadlock).    *)
(***************************************************************************)
CONSTANTS Thread, WriterFirst

ASSUME PolicyAssumption == WriterFirst \in BOOLEAN

LockState == [readers : SUBSET Thread, writers : SUBSET Thread]

Unlocked == [readers |-> {}, writers |-> {}]

\* A read guard is available; `queued` are the threads waiting to write.
CanRead(l, queued) == l.writers = {} /\ (WriterFirst => queued = {})

CanWrite(l) == l.writers = {} /\ l.readers = {}

WithReader(l, t) == [l EXCEPT !.readers = @ \cup {t}]
WithWriter(l, t) == [l EXCEPT !.writers = @ \cup {t}]

\* Dropping whatever guard t holds.
Without(l, t) == [readers |-> l.readers \ {t}, writers |-> l.writers \ {t}]
=============================================================================
