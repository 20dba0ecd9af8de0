------------------------------ MODULE FfiProofs -------------------------------
(***************************************************************************)
(* Proofs about the wrappers of the C program.  What GNU_UNITS_MUTEX       *)
(* guarantees for every number of threads and calls and for all files      *)
(* (FfiLocks), and who owns the strings of a unit, for any number of them, *)
(* whatever the methods of Unit call and wherever they fail (FfiUnits, as  *)
(* U).                                                                     *)
(***************************************************************************)
EXTENDS FfiLocks, NaturalOrder, SequenceTheorems

CONSTANTS Strings, MaxHeld
VARIABLES heap, holds, owned, script
U == INSTANCE FfiUnits

-----------------------------------------------------------------------------
Stages == {"idle", "private", "ensure", "globals", "set", "boot", "boot insert",
           "file", "load", "insert", "lock", "evaluate"}
Booting == {t \in Thread : stage[t] \in {"globals", "set", "boot", "boot insert"}}
Tables == [Key -> DOMAIN Files \cup {Nobody}]

Types ==
  /\ lazy \in {"new", "running", "done"} /\ mutex \in Thread \cup {Nobody}
  /\ table \in Tables /\ inForce \in DOMAIN Files \cup {Nobody}
  /\ stage \in [Thread -> Stages] /\ call = [t \in Thread |-> call[t]]
  /\ at \in [Thread -> Nat] /\ found \in [Thread -> Tables] /\ view \in [Thread -> Tables]

\* Who is in a function that uses globals holds the mutex.
Guarded == \A t \in UsesGlobals : mutex = t

\* One thread fills the tables for the first time, and nobody reloads or evaluates before.
FilledOnce ==
  /\ \A s, t \in Booting : s = t
  /\ Booting # {} => lazy = "running"
  /\ \A t \in Thread : stage[t] \in {"file", "load", "insert"} => lazy = "done" /\ IsFile(call[t])
  /\ \A t \in Thread : stage[t] \in {"lock", "evaluate"} /\ call[t] # "locked" => lazy = "done"

\* How far a thread is in its file.
Lines(f) == Len(Files[f])
InFile(t) ==
  /\ at[t] <= Lines(FileOf(t))
  /\ stage[t] \in {"boot insert", "insert"} => at[t] < Lines(FileOf(t))
Filled(f, n) == \A i \in 1 .. n : table[Files[f][i]] = f

Progress ==
  /\ \A t \in Booting : stage[t] # "globals" /\ stage[t] # "set" => InFile(t) /\ Filled(Embedded, at[t])
  /\ \A t \in Reloading : InFile(t)

\* The definitions of the program stay defined.
Defined == lazy = "done" => \A i \in DOMAIN Files[Embedded] : table[Files[Embedded][i]] # Nobody

\* The file that takes effect: of the one reload under way the lines it has inserted.
Effect ==
  /\ lazy # "done" => inForce = Embedded
  /\ inForce # Nobody => /\ \A s, t \in Reloading : s = t
                         /\ \A t \in Reloading : call[t] = inForce /\ Filled(inForce, at[t])
                         /\ lazy = "done" /\ Reloading = {} => Filled(inForce, Lines(inForce))

\* The tables stay as they were while an evaluation holds the mutex.
Still ==
  \A t \in Thread : stage[t] = "evaluate" =>
    view[t] = table /\ \A k \in Key : found[t][k] \in {Nobody, table[k]}

IInv == Types /\ Guarded /\ FilledOnce /\ Progress /\ Defined /\ Effect /\ Still

-----------------------------------------------------------------------------
(* What the constants are, as the steps below use it.                        *)
LEMMA FilesAre ==
  /\ Embedded \in DOMAIN Files /\ Nobody \notin Thread /\ Nobody \notin DOMAIN Files
  /\ \A f \in DOMAIN Files : /\ Lines(f) \in Nat /\ DOMAIN Files[f] = 1 .. Lines(f)
                             /\ \A i \in 1 .. Lines(f) : Files[f][i] \in Key
BY FfiAssumption DEF Lines

(* Nothing runs and the tables are empty. *)
LEMMA InitInv ==
  Init => IInv
<1>1. Embedded \in DOMAIN Files
  BY FilesAre
<1> SUFFICES ASSUME Init PROVE IInv
  OBVIOUS
<1>2. Booting = {} /\ Reloading = {} /\ UsesGlobals = {}
  BY DEF Init, Booting, Reloading, UsesGlobals, InC
<1>3. Types
  <2>1. Empty \in Tables
    BY DEF Empty, Tables
  <2>. QED
    BY <1>1, <2>1 DEF Init, Types, Stages
<1>4. Guarded /\ FilledOnce /\ Progress /\ Defined /\ Effect /\ Still
  BY <1>2 DEF Init, Guarded, FilledOnce, Progress, Defined, Effect, Still
<1>. QED
  BY <1>3, <1>4 DEF IInv

(* A call that starts holds nothing yet and changes no shared state. *)
LEMMA StartInv ==
  ASSUME IInv, NEW t \in Thread, NEW c, Start(t, c)
  PROVE  IInv'
<1> USE DEF IInv, Start, Types, Becomes, AfterEnsure, Take, Release, IsFile, Stages, Tables, Empty
<1>1. Types'
  BY DEF FileOf
<1>2. Guarded'
  BY FilesAre DEF Guarded, UsesGlobals, InC
<1>3. FilledOnce'
  <2>1. stage'[t] \in {"private", "lock", "ensure"} /\ (stage'[t] = "lock" => call'[t] = "locked")
    OBVIOUS
  <2>2. \A s \in Thread : s # t => stage'[s] = stage[s] /\ call'[s] = call[s]
    OBVIOUS
  <2>3. Booting' = Booting
    BY <2>1, <2>2 DEF Booting
  <2>. QED
    BY <2>1, <2>2, <2>3 DEF FilledOnce
<1>4. Progress'
  BY DEF Progress, Booting, Reloading, InFile, Filled, FileOf
<1>5. Defined'
  BY DEF Defined
<1>6. Effect'
  BY DEF Effect, Reloading, Filled
<1>7. Still'
  BY DEF Still
<1>. QED
  BY <1>1, <1>2, <1>3, <1>4, <1>5, <1>6, <1>7

(* A function that uses only its arguments. *)
LEMMA PrivateInv ==
  ASSUME IInv, NEW t \in Thread, Private(t)
  PROVE  IInv'
<1> USE DEF IInv, Private, Types, Becomes, AfterEnsure, Take, Release, IsFile, Stages, Tables, Empty
<1>1. Types'
  BY DEF FileOf
<1>2. Guarded'
  BY FilesAre DEF Guarded, UsesGlobals, InC
<1>3. FilledOnce'
  BY DEF FilledOnce, Booting
<1>4. Progress'
  BY DEF Progress, Booting, Reloading, InFile, Filled, FileOf
<1>5. Defined'
  BY DEF Defined
<1>6. Effect'
  BY DEF Effect, Reloading, Filled
<1>7. Still'
  BY DEF Still
<1>. QED
  BY <1>1, <1>2, <1>3, <1>4, <1>5, <1>6, <1>7

(* The first thread to force DEFINITIONS is the only one that fills the tables. *)
LEMMA EnsureInv ==
  ASSUME IInv, NEW t \in Thread, Ensure(t)
  PROVE  IInv'
<1> USE DEF IInv, Ensure, Types, Becomes, AfterEnsure, Take, Release, IsFile, Stages, Tables, Empty
<1>1. Types'
  BY DEF FileOf
<1>2. Guarded'
  BY FilesAre DEF Guarded, UsesGlobals, InC
<1>3. FilledOnce'
  BY DEF FilledOnce, Booting
<1>4. Progress'
  BY DEF Progress, Booting, Reloading, InFile, Filled, FileOf
<1>5. Defined'
  BY DEF Defined
<1>6. Effect'
  BY DEF Effect, Reloading, Filled
<1>7. Still'
  BY DEF Still
<1>. QED
  BY <1>1, <1>2, <1>3, <1>4, <1>5, <1>6, <1>7

(* The closure takes the mutex to set the globals of the library. *)
LEMMA GlobalsInv ==
  ASSUME IInv, NEW t \in Thread, Globals(t)
  PROVE  IInv'
<1> USE DEF IInv, Globals, Types, Becomes, AfterEnsure, Take, Release, IsFile, Stages, Tables, Empty
<1>1. Types'
  BY DEF FileOf
<1>2. Guarded'
  BY FilesAre DEF Guarded, UsesGlobals, InC
<1>3. FilledOnce'
  <2>1. stage[t] = "globals" /\ stage'[t] = "set" /\ \A s \in Thread : s # t => stage'[s] = stage[s]
    OBVIOUS
  <2>2. Booting' = Booting
    BY <2>1 DEF Booting
  <2>3. UNCHANGED <<lazy, call>>
    OBVIOUS
  <2>. QED
    BY <2>1, <2>2, <2>3 DEF FilledOnce
<1>4. Progress'
  BY DEF Progress, Booting, Reloading, InFile, Filled, FileOf
<1>5. Defined'
  BY DEF Defined
<1>6. Effect'
  BY DEF Effect, Reloading, Filled
<1>7. Still'
  BY DEF Still
<1>. QED
  BY <1>1, <1>2, <1>3, <1>4, <1>5, <1>6, <1>7

(* It drops the mutex and starts with the first line of the embedded file. *)
LEMMA GlobalsEndInv ==
  ASSUME IInv, NEW t \in Thread, GlobalsEnd(t)
  PROVE  IInv'
<1> USE DEF IInv, GlobalsEnd, Types, Becomes, AfterEnsure, Take, Release, IsFile, Stages, Tables, Empty
<1>1. Types'
  BY DEF FileOf
<1>2. Guarded'
  BY FilesAre DEF Guarded, UsesGlobals, InC
<1>3. FilledOnce'
  <2>1. stage[t] = "set" /\ stage'[t] = "boot" /\ \A s \in Thread : s # t => stage'[s] = stage[s]
    OBVIOUS
  <2>2. Booting' = Booting
    BY <2>1 DEF Booting
  <2>3. UNCHANGED <<lazy, call>>
    OBVIOUS
  <2>. QED
    BY <2>1, <2>2, <2>3 DEF FilledOnce
<1>4. Progress'
  <2>1. at'[t] = 0 /\ stage'[t] = "boot" /\ stage[t] = "set" /\ UNCHANGED <<table, call>>
    OBVIOUS
  <2>2. \A s \in Thread : s # t => stage'[s] = stage[s] /\ at'[s] = at[s]
    OBVIOUS
  <2>3. Progress /\ Lines(Embedded) \in Nat
    BY FilesAre
  <2>4. Progress'
    <3>a. InFile(t)'
      BY ONLY <2>1, <2>3 DEF InFile, FileOf
    <3>b. Filled(Embedded, at[t])'
      BY ONLY <2>1 DEF Filled
    <3>c. \A s \in Thread : s # t /\ InFile(s) => InFile(s)'
      BY ONLY <2>1, <2>2 DEF InFile, FileOf
    <3>1. InFile(t)' /\ Filled(Embedded, at[t])' /\ \A s \in Thread : s # t /\ InFile(s) => InFile(s)'
      BY ONLY <3>a, <3>b, <3>c
    <3>2. \A s \in Thread : s # t /\ Filled(Embedded, at[s]) => Filled(Embedded, at[s])'
      BY ONLY <2>1, <2>2 DEF Filled
    <3>. QED
      BY ONLY <2>1, <2>2, <2>3, <3>1, <3>2 DEF Progress, Booting, Reloading
  <2>. QED
    BY <2>4
<1>5. Defined'
  BY DEF Defined
<1>6. Effect'
  BY DEF Effect, Reloading, Filled
<1>7. Still'
  BY DEF Still
<1>. QED
  BY <1>1, <1>2, <1>3, <1>4, <1>5, <1>6, <1>7

(* A reload starts; from two at once on no file is in force. *)
LEMMA LoadFileInv ==
  ASSUME IInv, NEW t \in Thread, LoadFile(t)
  PROVE  IInv'
<1> USE DEF IInv, LoadFile, Types, Becomes, AfterEnsure, Take, Release, IsFile, Stages, Tables, Empty
<1>1. Types'
  BY DEF FileOf, FilledOnce
<1>2. Guarded'
  BY FilesAre DEF Guarded, UsesGlobals, InC
<1>3. FilledOnce'
  BY DEF FilledOnce, Booting
<1>4. Progress'
  <2>1. at'[t] = 0 /\ stage[t] = "file" /\ stage'[t] = "load" /\ UNCHANGED <<table, call>>
    OBVIOUS
  <2>2. \A s \in Thread : s # t => stage'[s] = stage[s] /\ at'[s] = at[s]
    OBVIOUS
  <2>3. Progress /\ Lines(call[t]) \in Nat
    BY FilesAre DEF FilledOnce
  <2>4. Progress'
    <3>a. InFile(t)'
      BY ONLY <2>1, <2>3 DEF InFile, FileOf
    <3>b. Filled(Embedded, at[t])'
      BY ONLY <2>1 DEF Filled
    <3>c. \A s \in Thread : s # t /\ InFile(s) => InFile(s)'
      BY ONLY <2>1, <2>2 DEF InFile, FileOf
    <3>1. InFile(t)' /\ Filled(Embedded, at[t])' /\ \A s \in Thread : s # t /\ InFile(s) => InFile(s)'
      BY ONLY <3>a, <3>b, <3>c
    <3>2. \A s \in Thread : s # t /\ Filled(Embedded, at[s]) => Filled(Embedded, at[s])'
      BY ONLY <2>1, <2>2 DEF Filled
    <3>. QED
      BY ONLY <2>1, <2>2, <2>3, <3>1, <3>2 DEF Progress, Booting, Reloading
  <2>. QED
    BY <2>4
<1>5. Defined'
  BY DEF Defined
<1>6. Effect'
  <2>1. lazy = "done" /\ at'[t] = 0 /\ stage'[t] = "load" /\ t \notin Reloading
    BY DEF FilledOnce, Reloading
  <2>2. Reloading' = Reloading \cup {t}
    BY <2>1 DEF Reloading
  <2>3. CASE Reloading = {}
    <3>1. inForce' = call[t] /\ call' = call /\ lazy' = "done"
      BY <2>1, <2>3
    <3>2. Filled(inForce, at[t])'
      BY ONLY <2>1 DEF Filled
    <3>3. Reloading' = {t}
      BY <2>2, <2>3
    <3>. QED
      BY ONLY <3>1, <3>2, <3>3 DEF Effect
  <2>4. CASE Reloading # {}
    BY <2>1, <2>4 DEF Effect
  <2>. QED
    BY <2>3, <2>4
<1>7. Still'
  BY DEF Still
<1>. QED
  BY <1>1, <1>2, <1>3, <1>4, <1>5, <1>6, <1>7

(* A line needs the mutex, so no evaluation is under way. *)
LEMMA InsertBeginInv ==
  ASSUME IInv, NEW t \in Thread, InsertBegin(t)
  PROVE  IInv'
<1> USE DEF IInv, InsertBegin, Types, Becomes, AfterEnsure, Take, Release, IsFile, Stages, Tables, Empty
<1>1. Types'
  BY DEF FileOf
<1>2. Guarded'
  BY FilesAre DEF Guarded, UsesGlobals, InC
<1>3. FilledOnce'
  BY DEF FilledOnce, Booting
<1>4. Progress'
  BY DEF Progress, Booting, Reloading, InFile, Filled, FileOf, Lines
<1>5. Defined'
  BY DEF Defined
<1>6. Effect'
  BY DEF Effect, Reloading, Filled
<1>7. Still'
  BY DEF Still
<1>. QED
  BY <1>1, <1>2, <1>3, <1>4, <1>5, <1>6, <1>7

(* A line is inserted under the mutex: what the tables define stays defined. *)
LEMMA InsertInv ==
  ASSUME IInv, NEW t \in Thread, Insert(t)
  PROVE  IInv'
<1>0. PICK f : f = FileOf(t)
  OBVIOUS
<1> DEFINE key == Files[f][at[t] + 1]
<1>a. Types /\ Guarded /\ FilledOnce /\ Progress /\ Defined /\ Effect /\ Still
  BY DEF IInv
<1>b. /\ \/ stage[t] = "boot insert" /\ stage'[t] = "boot"
         \/ stage[t] = "insert" /\ stage'[t] = "load"
      /\ \A s \in Thread : s # t => (stage'[s] = stage[s] /\ at'[s] = at[s])
      /\ at'[t] = at[t] + 1 /\ table' = [table EXCEPT ![key] = f]
      /\ UNCHANGED <<lazy, call, inForce, view, found>>
      /\ stage' \in [Thread -> Stages] /\ at' \in [Thread -> Nat]
  <2>1. stage \in [Thread -> Stages] /\ at \in [Thread -> Nat]
    BY <1>a DEF Types
  <2>2. at' = [at EXCEPT ![t] = @ + 1] /\ table' = [table EXCEPT ![key] = f] /\ UNCHANGED <<lazy, call, inForce, view, found>>
    BY <1>0 DEF Insert
  <2>3. \/ stage[t] = "boot insert" /\ stage' = [stage EXCEPT ![t] = "boot"]
        \/ stage[t] = "insert" /\ stage' = [stage EXCEPT ![t] = "load"]
    BY DEF Insert, Becomes
  <2> HIDE DEF key
  <2>4. at'[t] = at[t] + 1 /\ at' \in [Thread -> Nat] /\ \A s \in Thread : s # t => at'[s] = at[s]
    BY ONLY <2>1, <2>2
  <2>5. stage' \in [Thread -> Stages] /\ \A s \in Thread : s # t => stage'[s] = stage[s]
    BY ONLY <2>1, <2>3 DEF Stages
  <2>6. \/ stage[t] = "boot insert" /\ stage'[t] = "boot"
        \/ stage[t] = "insert" /\ stage'[t] = "load"
    BY ONLY <2>1, <2>3
  <2>. QED
    BY ONLY <2>2, <2>4, <2>5, <2>6
<1>c. mutex = t /\ mutex' = Nobody
  BY <1>a, <1>b DEF Insert, Release, Guarded, UsesGlobals, InC
<1>d. /\ f \in DOMAIN Files
      /\ stage[t] = "boot insert" => f = Embedded
      /\ stage[t] = "insert" => f = call[t]
  BY <1>0, <1>a, <1>b, FilesAre DEF FileOf, FilledOnce, IsFile
<1>e. at[t] \in Nat /\ Lines(f) \in Nat /\ at[t] + 1 \in 1 .. Lines(f) /\ key \in Key /\ f # Nobody
  <2>1. InFile(t)
    BY <1>a, <1>b DEF Progress, Booting, Reloading
  <2>2. at[t] \in Nat /\ at[t] < Lines(f) /\ Lines(f) \in Nat
    BY <1>0, <1>a, <1>b, <1>d, <2>1, FilesAre DEF InFile, Types
  <2>3. at[t] + 1 \in 1 .. Lines(f)
    BY ONLY <2>2
  <2>4. f # Nobody /\ \A i \in 1 .. Lines(f) : Files[f][i] \in Key
    BY ONLY <1>d, FilesAre
  <2>5. key \in Key
    BY ONLY <2>3, <2>4
  <2>. QED
    BY <2>2, <2>3, <2>4, <2>5
<1>f. Booting' = Booting /\ Reloading' = Reloading
  BY <1>b DEF Booting, Reloading
<1>g. Filled(f, at[t]) => Filled(f, at[t])'
  <2>1. \A i \in 1 .. at[t] : table[Files[f][i]] = f => table'[Files[f][i]] = f
    <3>1. table \in [Key -> DOMAIN Files \cup {Nobody}]
      BY <1>a DEF Types, Tables
    <3>2. \A k \in Key : k # key => table'[k] = table[k]
      BY ONLY <1>b, <3>1
    <3>3. table'[key] = f
      BY ONLY <1>b, <1>e, <3>1
    <3>4. \A i \in 1 .. at[t] : Files[f][i] \in Key
      <4>1. \A i \in 1 .. at[t] : i \in 1 .. Lines(f)
        BY ONLY <1>e
      <4>2. \A i \in 1 .. Lines(f) : Files[f][i] \in Key
        BY ONLY <1>d, FilesAre
      <4>. QED
        BY ONLY <4>1, <4>2
    <3>. QED
      BY ONLY <3>2, <3>3, <3>4
  <2>2. table'[key] = f
    BY <1>a, <1>b, <1>e DEF Types, Tables
  <2>3. \A i \in 1 .. at[t] + 1 : i \in 1 .. at[t] \/ Files[f][i] = key
    BY ONLY <1>e
  <2>4. at'[t] = at[t] + 1
    BY <1>b
  <2> HIDE DEF key
  <2>. QED
    BY ONLY <2>1, <2>2, <2>3, <2>4 DEF Filled
<1> HIDE DEF key
<1>1. Types'
  <2>1. table' \in Tables
    BY <1>a, <1>b, <1>d DEF Types, Tables
  <2>. QED
    BY <1>a, <1>b, <1>c, <2>1 DEF Types
<1>2. Guarded'
  BY <1>a, <1>b, <1>c DEF Guarded, UsesGlobals, InC
<1>3. FilledOnce'
  BY <1>a, <1>b, <1>f DEF FilledOnce, IsFile
<1>4. Progress'
  <2>1. \A s \in Booting : s = t \/ t \notin Booting
    BY <1>a DEF FilledOnce
  <2>2. ASSUME NEW s \in Booting, s # t
        PROVE  FALSE
    <3>1. lazy = "running"
      BY <1>a, <2>2 DEF FilledOnce
    <3>. QED
      BY <1>a, <1>b, <2>1, <2>2, <3>1 DEF FilledOnce, Booting
  <2>3. InFile(t)'
    <3>1. FileOf(t)' = f
      BY <1>b, <1>d DEF FileOf
    <3>2. at'[t] <= Lines(f) /\ stage'[t] \in {"boot", "load"}
      <4>1. at'[t] = at[t] + 1 /\ stage'[t] \in {"boot", "load"}
        BY <1>b
      <4>. QED
        BY ONLY <1>e, <4>1
    <3>. QED
      BY ONLY <3>1, <3>2 DEF InFile
  <2>4. \A s \in Thread : s # t /\ InFile(s) => InFile(s)'
    BY <1>b DEF InFile, FileOf
  <2>5. t \in Booting => Filled(Embedded, at[t])'
    <3>1. t \in Booting => stage[t] = "boot insert" /\ Filled(Embedded, at[t])
      BY <1>a, <1>b DEF Progress, Booting
    <3>. QED
      BY ONLY <3>1, <1>d, <1>g
  <2>. QED
    BY <1>a, <1>b, <1>f, <2>2, <2>3, <2>4, <2>5 DEF Progress, Booting, Reloading
<1>5. Defined'
  <2>1. ASSUME NEW j \in Key, table[j] # Nobody
        PROVE  table'[j] # Nobody
    BY <1>a, <1>b, <1>e, <2>1 DEF Types, Tables
  <2>. QED
    BY <1>a, <1>b, <2>1, FilesAre DEF Defined
<1>6. Effect'
  <2>1. CASE stage[t] = "boot insert"
    <3>1. lazy = "running" /\ Reloading = {}
      BY <1>a, <2>1 DEF FilledOnce, Booting, Reloading
    <3>. QED
      BY <1>a, <1>b, <1>f, <3>1 DEF Effect
  <2>2. CASE stage[t] = "insert"
    <3>1. t \in Reloading /\ lazy = "done"
      BY <1>a, <2>2 DEF Reloading, FilledOnce
    <3>2. ASSUME inForce # Nobody
          PROVE  Filled(inForce, at[t])'
      <4>1. inForce = f /\ Filled(f, at[t])
        BY <1>a, <1>d, <2>2, <3>1, <3>2 DEF Effect
      <4>2. inForce' = inForce
        BY <1>b
      <4>. QED
        BY ONLY <1>g, <4>1, <4>2 DEF Filled
    <3>. QED
      BY <1>a, <1>b, <1>f, <3>1, <3>2 DEF Effect
  <2>. QED
    BY <1>b, <2>1, <2>2
<1>7. Still'
  <2>1. ASSUME NEW s \in Thread, stage'[s] = "evaluate"
        PROVE  FALSE
    <3>1. s # t /\ stage[s] = "evaluate"
      BY <1>b, <2>1
    <3>. QED
      BY <1>a, <1>c, <3>1 DEF Guarded, UsesGlobals, InC
  <2>. QED
    BY <2>1 DEF Still
<1>. QED
  BY <1>1, <1>2, <1>3, <1>4, <1>5, <1>6, <1>7 DEF IInv

(* All lines are inserted; after the first time everybody may go on. *)
LEMMA LoadedInv ==
  ASSUME IInv, NEW t \in Thread, Loaded(t)
  PROVE  IInv'
<1> USE DEF IInv, Loaded, Types, Becomes, AfterEnsure, Take, Release, IsFile, Stages, Tables, Empty
<1>a. /\ \A s \in Thread : s # t => stage'[s] = stage[s] /\ at'[s] = at[s]
      /\ UNCHANGED <<table, call, inForce>> /\ at[t] = Lines(FileOf(t))
  BY DEF Lines
<1>b. \/ stage[t] = "boot" /\ lazy' = "done" /\ stage'[t] \in {"file", "lock"} /\ (stage'[t] = "file" => IsFile(call[t]))
      \/ stage[t] = "load" /\ lazy' = lazy /\ stage'[t] = "idle"
  OBVIOUS
<1>c. Booting' = {s \in Booting : s # t} /\ Reloading' = {s \in Reloading : s # t}
  BY <1>a, <1>b DEF Booting, Reloading
<1>d. stage[t] = "boot" => t \in Booting /\ Booting' = {} /\ Reloading = {}
  <2>1. stage[t] = "boot" => t \in Booting /\ lazy = "running"
    BY DEF Booting, FilledOnce
  <2>2. lazy = "running" => Reloading = {}
    BY DEF FilledOnce, Reloading
  <2>. QED
    BY <1>c, <2>1, <2>2 DEF FilledOnce
<1>1. Types'
  BY DEF FileOf
<1>2. Guarded'
  BY FilesAre DEF Guarded, UsesGlobals, InC
<1>3. FilledOnce'
  <2>1. lazy = "done" => lazy' = "done"
    BY <1>b
  <2>2. \A s, u \in Booting' : s = u
    BY <1>c DEF FilledOnce
  <2>3. Booting' # {} => lazy' = "running"
    BY <1>b, <1>c, <1>d DEF FilledOnce
  <2>4. ASSUME NEW s \in Thread, stage'[s] \in {"file", "load", "insert"}
        PROVE  lazy' = "done" /\ IsFile(call[s])
    BY <1>a, <1>b, <2>1, <2>4 DEF FilledOnce
  <2>5. ASSUME NEW s \in Thread, stage'[s] \in {"lock", "evaluate"}, call[s] # "locked"
        PROVE  lazy' = "done"
    BY <1>a, <1>b, <2>1, <2>5 DEF FilledOnce
  <2>. QED
    BY <1>a, <2>2, <2>3, <2>4, <2>5 DEF FilledOnce
<1>4. Progress'
  BY DEF Progress, Booting, Reloading, InFile, Filled, FileOf
<1>5. Defined'
  <2>1. CASE stage[t] = "boot"
    <3>1. FileOf(t) = Embedded /\ Filled(Embedded, at[t])
      BY <2>1, <1>d DEF FileOf, Progress
    <3>2. DOMAIN Files[Embedded] = 1 .. Lines(Embedded) /\ Embedded # Nobody
      BY FilesAre
    <3>. QED
      BY <1>a, <3>1, <3>2 DEF Filled, Defined
  <2>2. CASE stage[t] = "load"
    BY <1>a, <1>b, <2>2 DEF Defined
  <2>. QED
    BY <1>b, <2>1, <2>2
<1>6. Effect'
  <2>1. CASE stage[t] = "boot"
    <3>1. FileOf(t) = Embedded /\ Filled(Embedded, at[t]) /\ lazy = "running" /\ inForce = Embedded
      BY <2>1, <1>d DEF FileOf, Progress, Effect, FilledOnce
    <3>. QED
      BY <1>a, <1>b, <1>c, <1>d, <2>1, <3>1 DEF Filled, Effect
  <2>2. CASE stage[t] = "load"
    <3>1. t \in Reloading /\ FileOf(t) = call[t] /\ lazy = "done" /\ lazy' = "done"
      BY <2>2, <1>b DEF Reloading, FileOf, FilledOnce
    <3>2. inForce # Nobody => Reloading' = {} /\ inForce = call[t] /\ Filled(inForce, at[t])
      BY <1>c, <3>1 DEF Effect
    <3>3. UNCHANGED <<table, call, inForce>> /\ (inForce # Nobody => Filled(inForce, Lines(inForce)))
      BY <1>a, <3>1, <3>2
    <3>. QED
      BY ONLY <3>1, <3>2, <3>3 DEF Filled, Effect
  <2>. QED
    BY <1>b, <2>1, <2>2
<1>7. Still'
  BY DEF Still
<1>. QED
  BY <1>1, <1>2, <1>3, <1>4, <1>5, <1>6, <1>7

(* An evaluation starts with the mutex. *)
LEMMA EvaluateBeginInv ==
  ASSUME IInv, NEW t \in Thread, EvaluateBegin(t)
  PROVE  IInv'
<1> USE DEF IInv, EvaluateBegin, Types, Becomes, AfterEnsure, Take, Release, IsFile, Stages, Tables, Empty
<1>1. Types'
  BY DEF FileOf
<1>2. Guarded'
  BY FilesAre DEF Guarded, UsesGlobals, InC
<1>3. FilledOnce'
  BY DEF FilledOnce, Booting
<1>4. Progress'
  BY DEF Progress, Booting, Reloading, InFile, Filled, FileOf
<1>5. Defined'
  BY DEF Defined
<1>6. Effect'
  BY DEF Effect, Reloading, Filled
<1>7. Still'
  BY DEF Still
<1>. QED
  BY <1>1, <1>2, <1>3, <1>4, <1>5, <1>6, <1>7

(* Looking up takes what the tables have, which nobody changes meanwhile. *)
LEMMA LookUpInv ==
  ASSUME IInv, NEW t \in Thread, NEW k \in Key, LookUp(t, k)
  PROVE  IInv'
<1> USE DEF IInv, LookUp, Types, Becomes, AfterEnsure, Take, Release, IsFile, Stages, Tables, Empty
<1>1. Types'
  BY DEF FileOf
<1>2. Guarded'
  BY FilesAre DEF Guarded, UsesGlobals, InC
<1>3. FilledOnce'
  BY DEF FilledOnce, Booting
<1>4. Progress'
  BY DEF Progress, Booting, Reloading, InFile, Filled, FileOf
<1>5. Defined'
  BY DEF Defined
<1>6. Effect'
  BY DEF Effect, Reloading, Filled
<1>7. Still'
  BY DEF Still
<1>. QED
  BY <1>1, <1>2, <1>3, <1>4, <1>5, <1>6, <1>7

(* The mutex is dropped with the evaluation. *)
LEMMA EvaluateEndInv ==
  ASSUME IInv, NEW t \in Thread, EvaluateEnd(t)
  PROVE  IInv'
<1> USE DEF IInv, EvaluateEnd, Types, Becomes, AfterEnsure, Take, Release, IsFile, Stages, Tables, Empty
<1>1. Types'
  BY DEF FileOf
<1>2. Guarded'
  BY FilesAre DEF Guarded, UsesGlobals, InC
<1>3. FilledOnce'
  BY DEF FilledOnce, Booting
<1>4. Progress'
  BY DEF Progress, Booting, Reloading, InFile, Filled, FileOf
<1>5. Defined'
  BY DEF Defined
<1>6. Effect'
  BY DEF Effect, Reloading, Filled
<1>7. Still'
  BY DEF Still
<1>. QED
  BY <1>1, <1>2, <1>3, <1>4, <1>5, <1>6, <1>7

(* Every step of every thread keeps the invariant, and so does doing nothing. *)
LEMMA NextInv ==
  IInv /\ [Next]_vars => IInv'
<1> SUFFICES ASSUME IInv, [Next]_vars PROVE IInv'
  OBVIOUS
<1>1. ASSUME NEW t \in Thread, Step(t)
      PROVE  IInv'
  BY <1>1, StartInv, PrivateInv, EnsureInv, GlobalsInv, GlobalsEndInv, LoadFileInv, InsertBeginInv,
     InsertInv, LoadedInv, EvaluateBeginInv, LookUpInv, EvaluateEndInv DEF Step
<1>2. CASE UNCHANGED vars
  <2>1. UNCHANGED <<lazy, mutex, table, stage, call, at, found, view, inForce>>
    BY <1>2 DEF vars
  <2>2. Booting' = Booting /\ Reloading' = Reloading /\ UsesGlobals' = UsesGlobals
    BY <2>1 DEF Booting, Reloading, UsesGlobals, InC
  <2>3. Types' /\ Guarded'
    BY <2>1, <2>2 DEF IInv, Types, Guarded
  <2>4. FilledOnce'
    BY <2>1, <2>2 DEF IInv, FilledOnce
  <2>5. Progress'
    BY <2>1, <2>2 DEF IInv, Progress, InFile, FileOf, Filled
  <2>6. Defined' /\ Still'
    BY <2>1 DEF IInv, Defined, Still
  <2>7. Effect'
    BY <2>1, <2>2 DEF IInv, Effect, Filled
  <2>. QED
    BY <2>3, <2>4, <2>5, <2>6, <2>7 DEF IInv
<1>. QED
  BY <1>1, <1>2 DEF Next, Done

(* The invariant holds in every state. *)
LEMMA Invariance ==
  Spec => []IInv
BY InitInv, NextInv, PTL DEF Spec

-----------------------------------------------------------------------------
(* No two threads are in functions of the C library that use its globals.     *)
THEOREM GlobalsGuarded ==
  Spec => []GlobalsAreGuarded
<1>1. IInv => GlobalsAreGuarded
  <2> SUFFICES ASSUME IInv PROVE GlobalsAreGuarded
    OBVIOUS
  <2>1. UsesGlobals \subseteq {mutex}
    BY DEF IInv, Guarded
  <2>2. IsFiniteSet({mutex}) /\ Cardinality({mutex}) = 1
    BY FS_Singleton
  <2>3. Cardinality(UsesGlobals) <= 1
    BY <2>1, <2>2, FS_Subset
  <2>. QED
    BY <2>3 DEF IInv, Guarded, GlobalsAreGuarded
<1>. QED
  BY <1>1, Invariance, PTL

(* What one evaluation looks up is from one state of tables that were filled. *)
THEOREM OneStateEvaluations ==
  Spec => []EvaluationsAreOneState
<1>1. IInv => EvaluationsAreOneState
  BY DEF IInv, Still, FilledOnce, Defined, EvaluationsAreOneState
<1>. QED
  BY <1>1, Invariance, PTL

(* A reload that no other one overlaps takes effect whole.                    *)
THEOREM WholeReloads ==
  Spec => []ReloadsTakeEffect
<1>1. IInv => ReloadsTakeEffect
  <2>1. IInv /\ inForce # Nobody => DOMAIN Files[inForce] = 1 .. Lines(inForce)
    BY FilesAre DEF IInv, Types
  <2>. QED
    BY <2>1 DEF IInv, Effect, Filled, ReloadsTakeEffect
<1>. QED
  BY <1>1, Invariance, PTL

-----------------------------------------------------------------------------
(* Scripts of steps on units.                                                *)

\* FfiUnits counts as FiniteSets does.
LEMMA SameSizes ==
  \A S : U!Cardinality(S) = Cardinality(S) /\ (U!IsFiniteSet(S) <=> IsFiniteSet(S))
  BY DEF U!Cardinality, Cardinality, U!IsFiniteSet, IsFiniteSet

LEMMA StringsAre ==
  ASSUME U!StringsAssumption
  PROVE  IsFiniteSet(Strings) /\ MaxHeld \in Nat /\ Cardinality(Strings) >= 4 * MaxHeld
  BY SameSizes DEF U!StringsAssumption

\* The steps of scripts; after a failure only such are left that cannot fail.
Trying == {"multunit", "addunit", "change", "unit2num"}
PlainStep == [do : {"copy", "free", "leave"}, on : U!Slot, with : U!Slot, otherwise : {<<>>}]
ScriptStep == [do : {"copy", "free", "leave"} \cup Trying, on : U!Slot, with : U!Slot, otherwise : Seq(PlainStep)]

LEMMA StepTypes ==
  /\ PlainStep \subseteq ScriptStep /\ Seq(PlainStep) \subseteq Seq(ScriptStep)
  /\ \A do \in {"copy", "free", "leave"}, on, with \in U!Slot : U!Does(do, on, with) \in PlainStep
  /\ \A do \in Trying, on, with \in U!Slot, otherwise \in Seq(PlainStep) : U!Tries(do, on, with, otherwise) \in ScriptStep
<1>1. <<>> \in Seq(PlainStep)
  BY EmptySeq
<1>2. PlainStep \subseteq ScriptStep
  BY <1>1 DEF PlainStep, ScriptStep
<1>3. ASSUME NEW s \in Seq(PlainStep) PROVE s \in Seq(ScriptStep)
  <2>1. Len(s) \in Nat /\ s = [i \in 1 .. Len(s) |-> s[i]] /\ \A i \in 1 .. Len(s) : s[i] \in PlainStep
    BY ONLY s \in Seq(PlainStep)
  <2>2. \A i \in 1 .. Len(s) : s[i] \in ScriptStep
    BY <1>2, <2>1
  <2> QED BY ONLY <2>1, <2>2
<1>4. \A do \in {"copy", "free", "leave"}, on, with \in U!Slot : U!Does(do, on, with) \in PlainStep
  BY DEF U!Does, PlainStep
<1>5. \A do \in Trying, on, with \in U!Slot, otherwise \in Seq(PlainStep) : U!Tries(do, on, with, otherwise) \in ScriptStep
  BY DEF U!Tries, ScriptStep
<1> QED BY <1>2, <1>3, <1>4, <1>5

-----------------------------------------------------------------------------
\* A script is safe if none of its steps overwrites pointers or uses a slot without a unit,
\* and if it ends with strings in slots of the caller only, wherever it fails.  live: the
\* slots that may point to strings; owned: those that hold a unit of the caller.
At(s, live, own) == [script |-> s, live |-> live, owned |-> own]

Allowed(e, live) ==
  /\ e.do = "copy" => e.on \notin live
  /\ e.do \in Trying => e.on \in live /\ e.with \in live
  /\ e.do \in {"multunit", "addunit"} => e.on # e.with
LiveAfter(e, live) ==
  IF e.do = "copy" THEN live \cup {e.on} ELSE IF e.do \in {"free", "leave"} THEN live \ {e.on} ELSE live
OwnedAfter(e, own) == IF e.do = "leave" THEN own \ {e.on} ELSE own

SafeAt(G, s, live, own) ==
  /\ s \in Seq(ScriptStep) /\ live \in SUBSET U!Slot /\ own \in SUBSET U!Callers
  /\ s = <<>> => live \subseteq own
  /\ s # <<>> => /\ Allowed(Head(s), live)
                 /\ At(Tail(s), LiveAfter(Head(s), live), OwnedAfter(Head(s), own)) \in G
                 /\ Head(s).do \in Trying => At(Head(s).otherwise, live, own) \in G
Closed(G) == \A g \in G : SafeAt(G, g.script, g.live, g.owned)
Safe(s, live, own) == \E G : Closed(G) /\ At(s, live, own) \in G

LEMMA SafeNow ==
  ASSUME NEW s, NEW live, NEW own, Safe(s, live, own)
  PROVE  /\ s \in Seq(ScriptStep) /\ live \in SUBSET U!Slot /\ own \in SUBSET U!Callers
         /\ s = <<>> => live \subseteq own
         /\ s # <<>> => /\ Head(s) \in ScriptStep /\ Allowed(Head(s), live)
                        /\ Safe(Tail(s), LiveAfter(Head(s), live), OwnedAfter(Head(s), own))
                        /\ Head(s).do \in Trying => Safe(Head(s).otherwise, live, own)
<1>1. PICK G : Closed(G) /\ At(s, live, own) \in G
  BY DEF Safe
<1>2. SafeAt(G, s, live, own)
  BY <1>1 DEF Closed, At
<1>3. s # <<>> => Head(s) \in ScriptStep
  BY <1>2, HeadTailProperties DEF SafeAt
<1> QED BY <1>1, <1>2, <1>3 DEF SafeAt, Safe

LEMMA SafeEnd ==
  ASSUME NEW own \in SUBSET U!Callers, NEW live \in SUBSET own
  PROVE  Safe(<<>>, live, own)
<1> DEFINE G == {At(<<>>, live, own)}
<1>1. <<>> \in Seq(ScriptStep) /\ live \in SUBSET U!Slot
  BY EmptySeq DEF U!Slot
<1>2. SafeAt(G, <<>>, live, own)
  BY <1>1 DEF SafeAt
<1>3. ASSUME NEW g \in G PROVE SafeAt(G, g.script, g.live, g.owned)
  <2>1. g.script = <<>> /\ g.live = live /\ g.owned = own
    BY DEF At
  <2> HIDE DEF G
  <2> QED BY <1>2, <2>1
<1> QED BY <1>3 DEF Closed, Safe

\* Prepending one step.
LEMMA ConsProperties ==
  ASSUME NEW e \in ScriptStep, NEW s \in Seq(ScriptStep)
  PROVE  /\ <<e>> \o s \in Seq(ScriptStep) /\ <<e>> \o s # <<>>
         /\ Head(<<e>> \o s) = e /\ Tail(<<e>> \o s) = s
<1> DEFINE c == <<e>> \o s
<1>1. <<e>> \in Seq(ScriptStep) /\ Len(<<e>>) = 1 /\ <<e>>[1] = e
  OBVIOUS
<1>2. /\ c \in Seq(ScriptStep) /\ Len(c) = 1 + Len(s) /\ Len(s) \in Nat
      /\ \A i \in 1 .. 1 + Len(s) : c[i] = IF i <= 1 THEN <<e>>[i] ELSE s[i - 1]
  <2> HIDE DEF c
  <2>1. Len(s) \in Nat
    OBVIOUS
  <2> QED BY ONLY <1>1, <2>1, s \in Seq(ScriptStep), ConcatProperties DEF c
<1> HIDE DEF c
<1>3. c # <<>> /\ c[1] = e
  BY <1>1, <1>2
<1>4. Tail(c) \in Seq(ScriptStep) /\ Len(Tail(c)) = Len(s) /\ \A i \in 1 .. Len(s) : Tail(c)[i] = s[i]
  <2>1. Tail(c) \in Seq(ScriptStep) /\ Len(Tail(c)) = Len(c) - 1 /\ \A i \in 1 .. Len(Tail(c)) : Tail(c)[i] = c[i + 1]
    BY ONLY <1>2, <1>3, HeadTailProperties
  <2>2. Len(c) - 1 = Len(s)
    BY <1>2
  <2>3. ASSUME NEW i \in 1 .. Len(s) PROVE c[i + 1] = s[i]
    <3>1. i + 1 \in 1 .. 1 + Len(s) /\ ~ (i + 1 <= 1) /\ (i + 1) - 1 = i
      BY <1>2
    <3> QED BY <1>2, <3>1
  <2> QED BY <2>1, <2>2, <2>3
<1>5. Tail(c) = s
  BY ONLY <1>4, SeqEqual, s \in Seq(ScriptStep)
<1>6. Head(c) = e
  BY <1>3 DEF c
<1> QED BY <1>2, <1>3, <1>5, <1>6 DEF c

LEMMA SafeCons ==
  ASSUME NEW e \in ScriptStep, NEW s, NEW live \in SUBSET U!Slot, NEW own \in SUBSET U!Callers,
         Allowed(e, live), Safe(s, LiveAfter(e, live), OwnedAfter(e, own)),
         e.do \in Trying => Safe(e.otherwise, live, own)
  PROVE  Safe(<<e>> \o s, live, own)
<1>1. PICK G : Closed(G) /\ At(s, LiveAfter(e, live), OwnedAfter(e, own)) \in G
  BY DEF Safe
<1>2. \E H : Closed(H) /\ (e.do \in Trying => At(e.otherwise, live, own) \in H)
  <2>1. CASE e.do \in Trying
    BY <2>1 DEF Safe
  <2>2. CASE e.do \notin Trying
    BY <1>1, <2>2
  <2> QED BY <2>1, <2>2
<1>3. PICK H : Closed(H) /\ (e.do \in Trying => At(e.otherwise, live, own) \in H)
  BY <1>2
<1> DEFINE c == <<e>> \o s
           K == G \cup H \cup {At(c, live, own)}
<1>4. s \in Seq(ScriptStep)
  BY SafeNow
<1>5. c \in Seq(ScriptStep) /\ c # <<>> /\ Head(c) = e /\ Tail(c) = s
  BY <1>4, ConsProperties
<1> HIDE DEF c
<1>6. SafeAt(K, c, live, own)
  BY <1>1, <1>3, <1>5 DEF SafeAt
<1>7. ASSUME NEW g \in K PROVE SafeAt(K, g.script, g.live, g.owned)
  <2>1. CASE g \in G
    <3>1. SafeAt(G, g.script, g.live, g.owned)
      BY <1>1, <2>1 DEF Closed
    <3> QED BY <3>1 DEF SafeAt
  <2>2. CASE g \in H
    <3>1. SafeAt(H, g.script, g.live, g.owned)
      BY <1>3, <2>2 DEF Closed
    <3> QED BY <3>1 DEF SafeAt
  <2>3. CASE g = At(c, live, own)
    <3> HIDE DEF K
    <3>1. g.script = c /\ g.live = live /\ g.owned = own
      BY <2>3 DEF At
    <3> QED BY <1>6, <3>1
  <2> QED BY <2>1, <2>2, <2>3
<1>8. Closed(K) /\ At(c, live, own) \in K
  <2>1. Closed(K)
    <3> HIDE DEF K
    <3> QED BY <1>7 DEF Closed
  <2> QED BY <2>1
<1>9. Safe(c, live, own)
  <2> HIDE DEF K
  <2> QED BY <1>8 DEF Safe
<1> QED BY <1>9 DEF c

-----------------------------------------------------------------------------
\* The scripts of the methods.

LEMMA SafeFree ==
  ASSUME NEW s \in U!Slot, NEW next, NEW live \in SUBSET U!Slot, NEW own \in SUBSET U!Callers,
         Safe(next, live \ {s}, own)
  PROVE  Safe(U!Free(s) \o next, live, own)
<1> DEFINE e == U!Does("free", s, s)
<1>1. e \in ScriptStep /\ e.do = "free" /\ e.on = s
  BY StepTypes DEF U!Does
<1> HIDE DEF e
<1>2. Allowed(e, live) /\ LiveAfter(e, live) = live \ {s} /\ OwnedAfter(e, own) = own /\ e.do \notin Trying
  BY <1>1 DEF Allowed, LiveAfter, OwnedAfter, Trying
<1>3. Safe(<<e>> \o next, live, own)
  BY <1>1, <1>2, SafeCons
<1> QED BY <1>3 DEF e, U!Free

LEMMA SafeLeave ==
  ASSUME NEW s \in U!Slot, NEW next, NEW live \in SUBSET U!Slot, NEW own \in SUBSET U!Callers,
         Safe(next, live \ {s}, own \ {s})
  PROVE  Safe(U!Leave(s) \o next, live, own)
<1> DEFINE e == U!Does("leave", s, s)
<1>1. e \in ScriptStep /\ e.do = "leave" /\ e.on = s
  BY StepTypes DEF U!Does
<1> HIDE DEF e
<1>2. Allowed(e, live) /\ LiveAfter(e, live) = live \ {s} /\ OwnedAfter(e, own) = own \ {s} /\ e.do \notin Trying
  BY <1>1 DEF Allowed, LiveAfter, OwnedAfter, Trying
<1>3. Safe(<<e>> \o next, live, own)
  BY <1>1, <1>2, SafeCons
<1> QED BY <1>3 DEF e, U!Leave

LEMMA SafeClone ==
  ASSUME NEW d \in U!Slot, NEW s \in U!Slot, NEW next, NEW live \in SUBSET U!Slot, NEW own \in SUBSET U!Callers,
         d \notin live, Safe(next, live \cup {d}, own)
  PROVE  Safe(U!CloneInto(d, s) \o next, live, own)
<1> DEFINE e == U!Does("copy", d, s)
<1>1. e \in ScriptStep /\ e.do = "copy" /\ e.on = d
  BY StepTypes DEF U!Does
<1> HIDE DEF e
<1>2. Allowed(e, live) /\ LiveAfter(e, live) = live \cup {d} /\ OwnedAfter(e, own) = own /\ e.do \notin Trying
  BY <1>1 DEF Allowed, LiveAfter, OwnedAfter, Trying
<1>3. Safe(<<e>> \o next, live, own)
  BY <1>1, <1>2, SafeCons
<1> QED BY <1>3 DEF e, U!CloneInto

LEMMA SafeTry ==
  ASSUME NEW do \in Trying, NEW on, NEW with, NEW otherwise \in Seq(PlainStep), NEW next,
         NEW live \in SUBSET U!Slot, NEW own \in SUBSET U!Callers, on \in live, with \in live,
         do \in {"multunit", "addunit"} => on # with,
         Safe(next, live, own), Safe(otherwise, live, own)
  PROVE  Safe(<<U!Tries(do, on, with, otherwise)>> \o next, live, own)
<1> DEFINE e == U!Tries(do, on, with, otherwise)
<1>1. e \in ScriptStep /\ e.do = do /\ e.on = on /\ e.with = with /\ e.otherwise = otherwise
  BY StepTypes DEF U!Tries
<1> HIDE DEF e
<1>2. Allowed(e, live) /\ LiveAfter(e, live) = live /\ OwnedAfter(e, own) = own
  BY <1>1 DEF Allowed, LiveAfter, OwnedAfter, Trying
<1>3. Safe(<<e>> \o next, live, own)
  BY <1>1, <1>2, SafeCons
<1> QED BY <1>3 DEF e

LEMMA PlainScripts ==
  ASSUME NEW s \in U!Slot, NEW t \in U!Slot
  PROVE  /\ U!Free(s) \in Seq(PlainStep) /\ U!Leave(s) \in Seq(PlainStep) /\ U!CloneInto(t, s) \in Seq(PlainStep)
         /\ U!Free(s) \in Seq(ScriptStep) /\ U!Leave(s) \in Seq(ScriptStep) /\ U!CloneInto(t, s) \in Seq(ScriptStep)
         /\ \A o \in Seq(PlainStep) : U!Free(s) \o o \in Seq(PlainStep) /\ U!Leave(s) \o o \in Seq(PlainStep)
<1>1. /\ U!Does("free", s, s) \in PlainStep /\ U!Does("leave", s, s) \in PlainStep
      /\ U!Does("copy", t, s) \in PlainStep
  BY StepTypes
<1>2. /\ U!Free(s) \in Seq(PlainStep) /\ U!Leave(s) \in Seq(PlainStep)
      /\ U!CloneInto(t, s) \in Seq(PlainStep)
  <2> HIDE DEF PlainStep
  <2> QED BY <1>1 DEF U!Free, U!Leave, U!CloneInto
<1> QED BY <1>2, StepTypes, ConcatProperties

LEMMA FourParts ==
  ASSUME NEW a \in Seq(ScriptStep), NEW b \in Seq(ScriptStep), NEW c \in Seq(ScriptStep), NEW d \in Seq(ScriptStep)
  PROVE  ((a \o b) \o c) \o d = a \o (b \o (c \o d))
<1> DEFINE ab == a \o b
           cd == c \o d
<1>1. ab \in Seq(ScriptStep) /\ cd \in Seq(ScriptStep)
  BY ONLY a \in Seq(ScriptStep), b \in Seq(ScriptStep), c \in Seq(ScriptStep), d \in Seq(ScriptStep), ConcatProperties
<1>2. (a \o b) \o cd = a \o (b \o cd)
  <2> HIDE DEF ab, cd
  <2> QED BY ONLY <1>1, a \in Seq(ScriptStep), b \in Seq(ScriptStep), ConcatAssociative
<1>3. (ab \o c) \o d = ab \o (c \o d)
  <2> HIDE DEF ab, cd
  <2> QED BY ONLY <1>1, c \in Seq(ScriptStep), d \in Seq(ScriptStep), ConcatAssociative
<1> QED BY ONLY <1>2, <1>3

\* The rhs is cloned, used up or not, and the copy freed either way (unit_multiply and others).
LEMMA SafeProduct ==
  ASSUME NEW do \in {"multunit", "addunit"}, NEW lhs, NEW rhs, NEW next, NEW otherwise \in Seq(PlainStep),
         NEW live \in SUBSET U!Slot, NEW own \in SUBSET U!Callers,
         lhs \in live, rhs \in live, "copy" \notin live,
         Safe(next, live, own), Safe(otherwise, live, own)
  PROVE  Safe(U!Product(do, lhs, rhs, next, otherwise), live, own)
<1> DEFINE more == live \cup {"copy"}
           try == <<U!Tries(do, lhs, "copy", U!Free("copy") \o otherwise)>>
<1>1. "copy" \in U!Slot /\ more \in SUBSET U!Slot /\ more \ {"copy"} = live /\ do \in Trying
  BY DEF U!Slot, Trying
<1>2. Safe(U!Free("copy") \o next, more, own) /\ Safe(U!Free("copy") \o otherwise, more, own)
  BY <1>1, SafeFree
<1>3. U!Free("copy") \o otherwise \in Seq(PlainStep)
  BY <1>1, PlainScripts
<1>4. Safe(try \o (U!Free("copy") \o next), more, own)
  BY <1>1, <1>2, <1>3, SafeTry
<1>5. Safe(U!CloneInto("copy", rhs) \o (try \o (U!Free("copy") \o next)), live, own)
  <2> HIDE DEF try
  <2> QED BY <1>1, <1>4, SafeClone
<1>6. /\ next \in Seq(ScriptStep) /\ try \in Seq(ScriptStep) /\ U!Free("copy") \in Seq(ScriptStep)
      /\ U!CloneInto("copy", rhs) \in Seq(ScriptStep)
  <2>1. U!Tries(do, lhs, "copy", U!Free("copy") \o otherwise) \in ScriptStep
    BY <1>1, <1>3, StepTypes
  <2>2. next \in Seq(ScriptStep)
    BY SafeNow
  <2> QED BY <1>1, <2>1, <2>2, PlainScripts
<1>7. U!Product(do, lhs, rhs, next, otherwise) = U!CloneInto("copy", rhs) \o (try \o (U!Free("copy") \o next))
  <2>1. U!Product(do, lhs, rhs, next, otherwise) = ((U!CloneInto("copy", rhs) \o try) \o U!Free("copy")) \o next
    BY ONLY DEF U!Product
  <2> DEFINE a == U!CloneInto("copy", rhs)
             c == U!Free("copy")
             front == a \o try
             back == c \o next
  <2> HIDE DEF try, a, c
  <2>2. a \in Seq(ScriptStep) /\ try \in Seq(ScriptStep) /\ c \in Seq(ScriptStep) /\ next \in Seq(ScriptStep)
    BY <1>6 DEF a, c
  <2>3. front \in Seq(ScriptStep) /\ back \in Seq(ScriptStep)
    BY <2>2, ConcatProperties
  <2>4. (front \o c) \o next = front \o (c \o next)
    <3> HIDE DEF front, back
    <3> QED BY <2>2, <2>3, ConcatAssociative
  <2>5. (a \o try) \o back = a \o (try \o back)
    <3> HIDE DEF front, back
    <3> QED BY <2>2, <2>3, ConcatAssociative
  <2>6. ((a \o try) \o c) \o next = a \o (try \o (c \o next))
    BY <2>4, <2>5
  <2> QED BY <2>1, <2>6 DEF a, c
<1> QED BY <1>5, <1>7

\* unit_to_number
LEMMA SafeToNumber ==
  ASSUME NEW s, NEW next \in Seq(PlainStep), NEW live \in SUBSET U!Slot, NEW own \in SUBSET U!Callers,
         s \in live, "copy" \notin live, Safe(next, live, own)
  PROVE  Safe(U!ToNumberOf(s, next), live, own)
<1> DEFINE more == live \cup {"copy"}
           try == <<U!Tries("unit2num", "copy", "copy", U!Free("copy") \o next)>>
<1>1. "copy" \in U!Slot /\ more \in SUBSET U!Slot /\ more \ {"copy"} = live /\ "unit2num" \in Trying
  BY DEF U!Slot, Trying
<1>2. Safe(U!Free("copy") \o next, more, own)
  BY <1>1, SafeFree
<1>3. U!Free("copy") \o next \in Seq(PlainStep)
  BY <1>1, PlainScripts
<1>4. Safe(try \o (U!Free("copy") \o next), more, own)
  BY <1>1, <1>2, <1>3, SafeTry
<1>5. Safe(U!CloneInto("copy", s) \o (try \o (U!Free("copy") \o next)), live, own)
  <2> HIDE DEF try
  <2> QED BY <1>1, <1>4, SafeClone
<1>6. /\ next \in Seq(ScriptStep) /\ try \in Seq(ScriptStep) /\ U!Free("copy") \in Seq(ScriptStep)
      /\ U!CloneInto("copy", s) \in Seq(ScriptStep)
  <2>1. U!Tries("unit2num", "copy", "copy", U!Free("copy") \o next) \in ScriptStep
    BY <1>1, <1>3, StepTypes
  <2>2. next \in Seq(ScriptStep)
    BY SafeNow
  <2> QED BY <1>1, <2>1, <2>2, PlainScripts
<1>7. U!ToNumberOf(s, next) = U!CloneInto("copy", s) \o (try \o (U!Free("copy") \o next))
  <2> HIDE DEF try
  <2> QED BY <1>6, FourParts DEF U!ToNumberOf, try
<1> QED BY <1>5, <1>7

\* Every method is called with units in the slots that it needs.
LEMMA SafeLast ==
  ASSUME NEW s \in U!Slot, NEW live \in SUBSET U!Slot, NEW own \in SUBSET U!Callers
  PROVE  /\ live \ {s} \subseteq own => Safe(U!Free(s), live, own)
         /\ live \ {s} \subseteq own \ {s} => Safe(U!Leave(s), live, own)
<1>1. U!Free(s) \in Seq(ScriptStep) /\ U!Leave(s) \in Seq(ScriptStep)
  BY PlainScripts
<1>2. U!Free(s) \o <<>> = U!Free(s) /\ U!Leave(s) \o <<>> = U!Leave(s)
  BY ONLY <1>1, ConcatEmptySeq
<1>3. live \ {s} \subseteq own => Safe(<<>>, live \ {s}, own)
  BY SafeEnd
<1>4. live \ {s} \subseteq own \ {s} => Safe(<<>>, live \ {s}, own \ {s})
  BY SafeEnd
<1>5. live \ {s} \subseteq own => Safe(U!Free(s) \o <<>>, live, own)
  BY <1>3, SafeFree
<1>6. live \ {s} \subseteq own \ {s} => Safe(U!Leave(s) \o <<>>, live, own)
  BY <1>4, SafeLeave
<1> QED BY <1>2, <1>5, <1>6

LEMMA SafeParse ==
  ASSUME NEW s \in U!Callers, NEW own \in SUBSET U!Callers, s \in own
  PROVE  Safe(<<U!Tries("change", s, s, U!Leave(s))>>, own, own)
<1> DEFINE try == <<U!Tries("change", s, s, U!Leave(s))>>
<1>1. s \in U!Slot /\ own \in SUBSET U!Slot /\ "change" \in Trying /\ "change" \notin {"multunit", "addunit"}
  BY DEF U!Slot, Trying
<1>2. U!Leave(s) \in Seq(PlainStep)
  BY <1>1, PlainScripts
<1>3. Safe(U!Leave(s), own, own) /\ Safe(<<>>, own, own)
  BY <1>1, SafeLast, SafeEnd
<1>4. Safe(try \o <<>>, own, own)
  BY <1>1, <1>2, <1>3, SafeTry
<1>5. try \in Seq(ScriptStep)
  <2>1. U!Tries("change", s, s, U!Leave(s)) \in ScriptStep
    BY <1>1, <1>2, StepTypes
  <2> QED BY <2>1
<1>6. try \o <<>> = try
  <2> HIDE DEF try
  <2> QED BY ONLY <1>5, ConcatEmptySeq
<1> HIDE DEF try
<1>7. Safe(try, own, own)
  BY <1>4, <1>6
<1> QED BY <1>7 DEF try

LEMMA SafeCloneOf ==
  ASSUME NEW s \in U!Callers, NEW t \in U!Callers, NEW own \in SUBSET U!Callers, t \notin own
  PROVE  Safe(U!CloneInto(t, s), own, own \cup {t})
<1>1. s \in U!Slot /\ t \in U!Slot /\ own \in SUBSET U!Slot /\ own \cup {t} \in SUBSET U!Callers
  BY DEF U!Slot
<1>2. Safe(<<>>, own \cup {t}, own \cup {t})
  BY <1>1, SafeEnd
<1>3. Safe(U!CloneInto(t, s) \o <<>>, own, own \cup {t})
  BY <1>1, <1>2, SafeClone
<1>4. U!CloneInto(t, s) \o <<>> = U!CloneInto(t, s)
  BY <1>1, PlainScripts, ConcatEmptySeq
<1> QED BY <1>3, <1>4

LEMMA SafeMethods ==
  ASSUME NEW own \in SUBSET U!Callers
  PROVE  /\ \A s \in own : Safe(U!Leave(s), own, own)
         /\ U!Callers \subseteq own =>
              Safe(U!Multiply, own, own) /\ Safe(U!Add, own, own) /\ Safe(U!ConvertTo, own, own) /\ Safe(U!IsConformable, own, own)
         /\ "self" \in own => Safe(U!ToNumberOf("self", <<>>), own, own) /\ Safe(U!Change, own, own)
         /\ Safe(U!ConvertFunc, own \cup {"copy"}, own)
<1>1. /\ own \in SUBSET U!Slot /\ "copy" \notin own /\ "ratio" \notin own /\ own \cup {"copy"} \in SUBSET U!Slot
      /\ "self" \in U!Slot /\ "rhs" \in U!Slot /\ "copy" \in U!Slot /\ "ratio" \in U!Slot
  BY DEF U!Slot, U!Callers
<1>2. ASSUME NEW s \in own PROVE Safe(U!Leave(s), own, own)
  BY <1>1, SafeLast
<1>3. ASSUME U!Callers \subseteq own
      PROVE  Safe(U!Multiply, own, own) /\ Safe(U!Add, own, own) /\ Safe(U!ConvertTo, own, own) /\ Safe(U!IsConformable, own, own)
  <2>1. "self" \in own /\ "rhs" \in own
    BY <1>3 DEF U!Callers
  <2>2. U!Leave("rhs") \in Seq(PlainStep) /\ U!Leave("self") \in Seq(PlainStep) /\ U!Free("ratio") \in Seq(PlainStep)
        /\ U!Leave("rhs") \o U!Leave("self") \in Seq(PlainStep)
    BY <1>1, PlainScripts
  <2>3. Safe(U!Leave("rhs"), own, own)
    BY <1>2, <2>1
  <2>4. Safe(U!Multiply, own, own)
    BY <1>1, <2>1, <2>2, <2>3, SafeProduct DEF U!Multiply
  <2>5. Safe(U!Add, own, own)
    BY <1>1, <2>1, <2>2, <2>3, SafeProduct DEF U!Add
  <2>6. Safe(U!ConvertTo, own, own)
    <3> DEFINE rest == own \ {"rhs"}
    <3>1. rest \in SUBSET U!Slot /\ rest \in SUBSET U!Callers /\ "self" \in rest /\ "copy" \notin rest
      BY <1>1, <2>1
    <3>2. Safe(U!Leave("self"), rest, rest)
      BY <1>1, <3>1, SafeLast
    <3>3. Safe(U!ToNumberOf("self", U!Leave("self")), rest, rest)
      BY <2>2, <3>1, <3>2, SafeToNumber
    <3>4. Safe(U!Leave("rhs") \o U!ToNumberOf("self", U!Leave("self")), own, own)
      BY <1>1, <3>3, SafeLeave
    <3>5. Safe(U!Leave("rhs") \o U!Leave("self"), own, own)
      BY <1>1, <3>2, SafeLeave
    <3> QED BY <1>1, <2>1, <2>2, <3>4, <3>5, SafeProduct DEF U!ConvertTo
  <2>7. Safe(U!IsConformable, own, own)
    <3> DEFINE more == own \cup {"ratio"}
               product == U!Product("multunit", "ratio", "rhs", U!ToNumberOf("ratio", U!Free("ratio")), U!Free("ratio"))
    <3>1. more \in SUBSET U!Slot /\ more \ {"ratio"} \subseteq own /\ "ratio" \in more /\ "rhs" \in more /\ "copy" \notin more
      BY <1>1, <2>1
    <3>2. Safe(U!Free("ratio"), more, own)
      BY <1>1, <3>1, SafeLast
    <3>3. Safe(U!ToNumberOf("ratio", U!Free("ratio")), more, own)
      BY <2>2, <3>1, <3>2, SafeToNumber
    <3>4. Safe(product, more, own)
      BY <2>2, <3>1, <3>2, <3>3, SafeProduct
    <3>5. Safe(U!CloneInto("ratio", "self") \o product, own, own)
      <4> HIDE DEF product
      <4> QED BY <1>1, <3>4, SafeClone
    <3> QED BY <3>5 DEF U!IsConformable
  <2> QED BY <2>4, <2>5, <2>6, <2>7
<1>4. ASSUME "self" \in own PROVE Safe(U!ToNumberOf("self", <<>>), own, own) /\ Safe(U!Change, own, own)
  <2> DEFINE try == <<U!Tries("change", "self", "self", <<>>)>>
  <2>1. <<>> \in Seq(PlainStep) /\ Safe(<<>>, own, own)
    BY EmptySeq, SafeEnd
  <2>2. Safe(U!ToNumberOf("self", <<>>), own, own)
    BY <1>1, <1>4, <2>1, SafeToNumber
  <2>3. "change" \in Trying /\ "change" \notin {"multunit", "addunit"}
    BY DEF Trying
  <2>4. Safe(try \o <<>>, own, own)
    BY <1>1, <1>4, <2>1, <2>3, SafeTry
  <2>5. try \in Seq(ScriptStep)
    <3>1. U!Tries("change", "self", "self", <<>>) \in ScriptStep
      BY <1>1, <2>1, <2>3, StepTypes
    <3> QED BY <3>1
  <2>6. try \o <<>> = try
    <3> HIDE DEF try
    <3> QED BY ONLY <2>5, ConcatEmptySeq
  <2>7. U!Change = try
    BY DEF U!Change
  <2> HIDE DEF try
  <2> QED BY <2>2, <2>4, <2>6, <2>7
<1>5. Safe(U!ConvertFunc, own \cup {"copy"}, own)
  <2> DEFINE more == own \cup {"copy"}
             e == U!Tries("change", "copy", "copy", U!Free("copy"))
             f == U!Free("copy")
  <2>1. "change" \in Trying /\ "change" \notin {"multunit", "addunit"}
    BY DEF Trying
  <2>2. more \in SUBSET U!Slot /\ more \ {"copy"} \subseteq own /\ "copy" \in more
    BY <1>1
  <2>3. f \in Seq(PlainStep) /\ f \in Seq(ScriptStep) /\ Safe(f, more, own)
    BY <1>1, <2>2, SafeLast, PlainScripts
  <2>4. e \in ScriptStep
    BY <1>1, <2>1, <2>3, StepTypes
  <2>5. Safe(<<e>> \o f, more, own)
    BY <2>1, <2>2, <2>3, SafeTry
  <2>6. Safe(<<e>> \o (<<e>> \o f), more, own)
    <3> DEFINE g == <<e>> \o f
    <3> HIDE DEF g
    <3>1. Safe(g, more, own)
      BY <2>5 DEF g
    <3>2. Safe(<<e>> \o g, more, own)
      BY <2>1, <2>2, <2>3, <3>1, SafeTry
    <3> QED BY <3>2 DEF g
  <2>7. Safe(<<e>> \o (<<e>> \o (<<e>> \o f)), more, own)
    <3> DEFINE g == <<e>> \o (<<e>> \o f)
    <3> HIDE DEF g
    <3>1. Safe(g, more, own)
      BY <2>6 DEF g
    <3>2. Safe(<<e>> \o g, more, own)
      BY <2>1, <2>2, <2>3, <3>1, SafeTry
    <3> QED BY <3>2 DEF g
  <2>8. U!ConvertFunc = <<e, e, e>> \o f
    BY DEF U!ConvertFunc
  <2> HIDE DEF e, f, more
  <2>9. <<e, e, e>> \o f = <<e>> \o (<<e>> \o (<<e>> \o f))
    <3>1. <<e, e, e>> = (<<e>> \o <<e>>) \o <<e>>
      OBVIOUS
    <3>2. <<e>> \in Seq(ScriptStep) /\ <<e>> \o <<e>> \in Seq(ScriptStep) /\ <<e>> \o f \in Seq(ScriptStep)
      BY <2>3, <2>4, ConcatProperties
    <3>3. ((<<e>> \o <<e>>) \o <<e>>) \o f = <<e>> \o (<<e>> \o (<<e>> \o f))
      BY ONLY <2>4, <3>2, FourParts
    <3> QED BY <3>1, <3>3
  <2>10. Safe(U!ConvertFunc, more, own)
    BY <2>7, <2>8, <2>9
  <2> QED BY <2>10 DEF more
<1> QED BY <1>2, <1>3, <1>4, <1>5

-----------------------------------------------------------------------------
\* Strings and the slots that point to them.

Owns(h, p) ==
  /\ p \in [U!Slot -> SUBSET Strings]
  /\ h = UNION {p[s] : s \in U!Slot}
  /\ \A s \in U!Slot : Cardinality(p[s]) <= MaxHeld
  /\ \A s, t \in U!Slot : s # t => p[s] \cap p[t] = {}

LEMMA SubsetOfSize ==
  ASSUME NEW S, IsFiniteSet(S), NEW n \in Nat, n <= Cardinality(S)
  PROVE  \E T \in SUBSET S : Cardinality(T) = n
<1> DEFINE good == {m \in Nat : m <= Cardinality(S) => \E T \in SUBSET S : Cardinality(T) = m}
<1>1. Cardinality(S) \in Nat
  BY FS_CardinalityType
<1>2. 0 \in good
  <2>1. {} \in SUBSET S /\ Cardinality({}) = 0
    BY FS_EmptySet
  <2> QED BY <2>1
<1>3. ASSUME NEW m \in good PROVE m + 1 \in good
  <2>1. ASSUME m + 1 <= Cardinality(S) PROVE \E T \in SUBSET S : Cardinality(T) = m + 1
    <3>1. m \in Nat /\ m <= Cardinality(S) /\ m # Cardinality(S)
      BY <1>1, <2>1
    <3>2. PICK T \in SUBSET S : Cardinality(T) = m
      BY <3>1
    <3>3. IsFiniteSet(T) /\ T # S
      BY <3>1, <3>2, FS_Subset
    <3>4. PICK x \in S : x \notin T
      BY <3>3
    <3>5. Cardinality(T \cup {x}) = m + 1
      BY <3>2, <3>3, <3>4, FS_AddElement
    <3> QED BY <3>4, <3>5
  <2> QED BY <2>1
<1>4. good \in SUBSET Nat
  OBVIOUS
<1>5. n \in good
  <2> HIDE DEF good
  <2> QED BY <1>2, <1>3, <1>4, NaturalInduction
<1> QED BY <1>5

\* What is fresh is not in use.
LEMMA FreshIsNew ==
  ASSUME U!StringsAssumption, NEW n \in Nat, n <= Cardinality(Strings \ heap)
  PROVE  U!Fresh(n) \in SUBSET (Strings \ heap) /\ Cardinality(U!Fresh(n)) = n
<1>1. IsFiniteSet(Strings \ heap)
  BY FS_Difference, StringsAre
<1>2. \E T \in SUBSET (Strings \ heap) : Cardinality(T) = n
  BY <1>1, SubsetOfSize
<1>3. U!kSubset(n, Strings \ heap) # {}
  BY <1>2, SameSizes DEF U!kSubset
<1>4. U!Fresh(n) \in U!kSubset(n, Strings \ heap)
  BY <1>3 DEF U!Fresh
<1> QED BY <1>4, SameSizes DEF U!kSubset

LEMMA UnionSize ==
  ASSUME U!StringsAssumption, NEW A \in SUBSET Strings, NEW B \in SUBSET Strings
  PROVE  /\ IsFiniteSet(A) /\ IsFiniteSet(B) /\ Cardinality(A) \in Nat /\ Cardinality(B) \in Nat
         /\ Cardinality(A \cup B) \in Nat /\ Cardinality(A \cup B) <= Cardinality(A) + Cardinality(B)
<1>1. IsFiniteSet(A) /\ IsFiniteSet(B)
  BY FS_Subset, StringsAre
<1>2. IsFiniteSet(A \cap B) /\ Cardinality(A \cup B) = Cardinality(A) + Cardinality(B) - Cardinality(A \cap B)
      /\ IsFiniteSet(A \cup B)
  BY <1>1, FS_Union, FS_Intersection
<1>3. /\ Cardinality(A) \in Nat /\ Cardinality(B) \in Nat /\ Cardinality(A \cap B) \in Nat
      /\ Cardinality(A \cup B) \in Nat
  BY <1>1, <1>2, FS_CardinalityType
<1> QED BY <1>1, <1>2, <1>3

\* While a slot is empty there are strings for a copy of any other.
LEMMA RoomForCopy ==
  ASSUME U!StringsAssumption, Owns(heap, holds), NEW d \in U!Slot, holds[d] = {}, NEW s \in U!Slot
  PROVE  Cardinality(holds[s]) \in Nat /\ Cardinality(holds[s]) <= Cardinality(Strings \ heap)
<1> DEFINE p == holds
<1>1. \A t \in U!Slot : p[t] \in SUBSET Strings /\ Cardinality(p[t]) <= MaxHeld
  BY DEF Owns
<1>2. heap = p["self"] \cup (p["rhs"] \cup (p["copy"] \cup p["ratio"]))
  BY DEF Owns, U!Slot, U!Callers
<1>3. PICK a \in U!Slot, b \in U!Slot, c \in U!Slot : heap = p[a] \cup (p[b] \cup p[c])
  <2>1. "self" \in U!Slot /\ "rhs" \in U!Slot /\ "copy" \in U!Slot /\ "ratio" \in U!Slot
    BY DEF U!Slot, U!Callers
  <2>2. d \in {"self", "rhs", "copy", "ratio"}
    BY DEF U!Slot, U!Callers
  <2>3. CASE d = "self"
    <3>1. heap = p["rhs"] \cup (p["copy"] \cup p["ratio"])
      BY <1>2, <2>3
    <3> QED BY <2>1, <3>1
  <2>4. CASE d = "rhs"
    <3>1. heap = p["self"] \cup (p["copy"] \cup p["ratio"])
      BY <1>2, <2>4
    <3> QED BY <2>1, <3>1
  <2>5. CASE d = "copy"
    <3>1. heap = p["self"] \cup (p["rhs"] \cup p["ratio"])
      BY <1>2, <2>5
    <3> QED BY <2>1, <3>1
  <2>6. CASE d = "ratio"
    <3>1. heap = p["self"] \cup (p["rhs"] \cup p["copy"])
      BY <1>2, <2>6
    <3> QED BY <2>1, <3>1
  <2> QED BY <2>2, <2>3, <2>4, <2>5, <2>6
<1> HIDE DEF p
<1> DEFINE bc == p[b] \cup p[c]
<1>4. /\ Cardinality(p[b]) \in Nat /\ Cardinality(p[c]) \in Nat /\ Cardinality(bc) \in Nat
      /\ Cardinality(bc) <= Cardinality(p[b]) + Cardinality(p[c]) /\ bc \in SUBSET Strings
  BY <1>1, UnionSize
<1> HIDE DEF bc
<1>5. /\ Cardinality(p[a]) \in Nat /\ Cardinality(p[a] \cup bc) \in Nat
      /\ Cardinality(p[a] \cup bc) <= Cardinality(p[a]) + Cardinality(bc)
  BY <1>1, <1>4, UnionSize
<1>6. heap = p[a] \cup bc
  BY <1>3 DEF bc
<1>7. Cardinality(heap) \in Nat /\ Cardinality(heap) <= 3 * MaxHeld
  BY <1>1, <1>4, <1>5, <1>6, StringsAre
<1>8. heap \in SUBSET Strings /\ Strings \cap heap = heap
  BY <1>1, <1>4, <1>6
<1>9. Cardinality(Strings \ heap) = Cardinality(Strings) - Cardinality(heap) /\ Cardinality(Strings) \in Nat
  BY <1>8, FS_Difference, FS_CardinalityType, StringsAre
<1>10. Cardinality(p[s]) \in Nat /\ Cardinality(p[s]) <= MaxHeld
  BY <1>1, UnionSize
<1>11. MaxHeld \in Nat /\ Cardinality(Strings) >= 4 * MaxHeld
  BY StringsAre
<1> QED BY <1>7, <1>9, <1>10, <1>11 DEF p

\* A slot gets other strings, those it loses are freed.
LEMMA OwnsAnew ==
  ASSUME NEW h, NEW p, Owns(h, p), NEW s \in U!Slot, NEW new \in SUBSET Strings,
         Cardinality(new) <= MaxHeld, new \cap (h \ p[s]) = {}
  PROVE  Owns((h \ p[s]) \cup new, [p EXCEPT ![s] = new])
<1> DEFINE q == [p EXCEPT ![s] = new]
<1>1. q \in [U!Slot -> SUBSET Strings] /\ q[s] = new /\ \A t \in U!Slot : t # s => q[t] = p[t]
  BY DEF Owns
<1>2. \A t \in U!Slot : t # s => p[t] \subseteq h \ p[s]
  BY DEF Owns
<1>3. \A x : x \in h => \E t \in U!Slot : x \in p[t]
  BY DEF Owns
<1> HIDE DEF q
<1>4. \A t \in U!Slot : q[t] \subseteq (h \ p[s]) \cup new
  BY <1>1, <1>2
<1>5. \A x \in (h \ p[s]) \cup new : \E t \in U!Slot : x \in q[t]
  <2> SUFFICES ASSUME NEW x \in (h \ p[s]) \cup new PROVE \E t \in U!Slot : x \in q[t]
    OBVIOUS
  <2>1. CASE x \in new
    BY <1>1, <2>1
  <2>2. CASE x \in h \ p[s]
    <3>1. PICK t \in U!Slot : x \in p[t]
      BY <1>3, <2>2
    <3>2. t # s
      BY <2>2, <3>1
    <3> QED BY <1>1, <3>1, <3>2
  <2> QED BY <2>1, <2>2
<1>6. (h \ p[s]) \cup new = UNION {q[t] : t \in U!Slot}
  BY <1>4, <1>5
<1>7. \A t \in U!Slot : Cardinality(q[t]) <= MaxHeld
  BY <1>1 DEF Owns
<1>8. ASSUME NEW t \in U!Slot, NEW u \in U!Slot, t # u PROVE q[t] \cap q[u] = {}
  <2>1. CASE t = s
    BY <1>1, <1>2, <1>8, <2>1
  <2>2. CASE u = s
    BY <1>1, <1>2, <1>8, <2>2
  <2>3. CASE t # s /\ u # s
    BY <1>1, <1>8, <2>3 DEF Owns
  <2> QED BY <2>1, <2>2, <2>3
<1>9. Owns((h \ p[s]) \cup new, q)
  BY <1>1, <1>6, <1>7, <1>8 DEF Owns
<1> QED BY <1>9 DEF q

\* Strings move from one slot to another.
LEMMA OwnsMoved ==
  ASSUME U!StringsAssumption, NEW h, NEW p, Owns(h, p), NEW s \in U!Slot, NEW t \in U!Slot, s # t,
         NEW moved \in SUBSET p[t], Cardinality(p[s] \cup moved) <= MaxHeld,
         NEW q, q = [p EXCEPT ![s] = @ \cup moved, ![t] = @ \ moved]
  PROVE  Owns(h, q)
<1>1. \A u \in U!Slot : p[u] \in SUBSET Strings
  BY DEF Owns
<1>2. /\ q \in [U!Slot -> SUBSET Strings]
      /\ q[s] = p[s] \cup moved /\ q[t] = p[t] \ moved
      /\ \A u \in U!Slot : u # s /\ u # t => q[u] = p[u]
  BY <1>1 DEF Owns
<1>3. \A u \in U!Slot : Cardinality(q[u]) <= MaxHeld
  <2>1. p[t] \ moved \in SUBSET p[t] /\ IsFiniteSet(p[t])
    BY <1>1, UnionSize
  <2>2. /\ Cardinality(p[t] \ moved) <= Cardinality(p[t]) /\ Cardinality(p[t]) <= MaxHeld
        /\ IsFiniteSet(p[t] \ moved)
    BY <2>1, FS_Subset DEF Owns
  <2>3. Cardinality(p[t] \ moved) \in Nat /\ Cardinality(p[t]) \in Nat /\ MaxHeld \in Nat
    BY <2>1, <2>2, FS_CardinalityType, StringsAre
  <2>4. Cardinality(p[t] \ moved) <= MaxHeld
    BY <2>2, <2>3
  <2> QED BY <1>2, <2>4 DEF Owns
<1>4. \A u \in U!Slot : \A v \in U!Slot : u # v => q[u] \cap q[v] = {}
  BY <1>2 DEF Owns
<1>5. \A u \in U!Slot : q[u] \subseteq h
  BY <1>2 DEF Owns
<1>6. ASSUME NEW x \in h PROVE \E u \in U!Slot : x \in q[u]
  <2>1. PICK u \in U!Slot : x \in p[u]
    BY DEF Owns
  <2>2. CASE u = t
    BY <1>2, <2>1, <2>2
  <2>3. CASE u # t
    BY <1>2, <2>1, <2>3
  <2> QED BY <2>2, <2>3
<1>7. h = UNION {q[u] : u \in U!Slot}
  BY <1>5, <1>6
<1> QED BY <1>2, <1>3, <1>4, <1>7 DEF Owns

-----------------------------------------------------------------------------
\* The inductive invariant.

Quiet(p, live) == \A s \in U!Slot \ live : p[s] = {}
UnitsInv == Owns(heap, holds) /\ \E live : Quiet(holds, live) /\ Safe(script, live, owned)

LEMMA InitUnitsInv ==
  ASSUME U!StringsAssumption, U!Init
  PROVE  UnitsInv
<1>1. Cardinality({}) = 0 /\ 0 <= MaxHeld
  BY FS_EmptySet, StringsAre
<1>2. Owns(heap, holds)
  BY <1>1 DEF U!Init, Owns
<1>3. Quiet(holds, {}) /\ Safe(script, {}, owned)
  BY SafeEnd DEF U!Init, Quiet
<1> QED BY <1>2, <1>3 DEF UnitsInv

\* Between calls the slots without a unit are empty, and a method may begin.
LEMMA CallStep ==
  ASSUME UnitsInv, U!Idle, UNCHANGED <<heap, holds>>,
         NEW live, owned \subseteq live, Safe(script', live, owned')
  PROVE  UnitsInv'
<1>1. PICK old : Quiet(holds, old) /\ Safe(script, old, owned)
  BY DEF UnitsInv
<1>2. old \subseteq owned
  BY <1>1, SafeNow DEF U!Idle
<1>3. Quiet(holds, live)
  BY <1>1, <1>2 DEF Quiet
<1>4. Owns(heap', holds')
  BY DEF UnitsInv
<1>5. Quiet(holds', live)
  BY <1>3
<1> QED BY <1>4, <1>5 DEF UnitsInv

LEMMA CallSteps ==
  ASSUME UnitsInv,
         \/ \E s \in U!Callers : U!ParseInto(s) \/ U!Calls(U!Leave(s), {s}) \/ \E t \in U!Callers : U!CloneOf(s, t)
         \/ U!Calls(U!Multiply, U!Callers) \/ U!Calls(U!Add, U!Callers) \/ U!Calls(U!ConvertTo, U!Callers)
         \/ U!Calls(U!IsConformable, U!Callers) \/ U!Calls(U!ToNumberOf("self", <<>>), {"self"})
         \/ U!Calls(U!Change, {"self"}) \/ U!Calls(U!ConvertFunc, {})
  PROVE  UnitsInv'
<1>1. owned \in SUBSET U!Callers
  BY SafeNow DEF UnitsInv
<1>2. ASSUME NEW s \in U!Callers, U!ParseInto(s) PROVE UnitsInv'
  <2>1. /\ U!Idle /\ UNCHANGED <<heap, holds>> /\ owned' = owned \cup {s}
        /\ script' = <<U!Tries("change", s, s, U!Leave(s))>>
    BY <1>2 DEF U!ParseInto
  <2>2. owned' \in SUBSET U!Callers /\ s \in owned'
    BY <1>1, <2>1
  <2>3. Safe(<<U!Tries("change", s, s, U!Leave(s))>>, owned', owned')
    BY <2>2, SafeParse
  <2>4. Safe(script', owned', owned')
    BY <2>1, <2>3
  <2> QED BY <2>1, <2>4, CallStep
<1>3. ASSUME NEW s \in U!Callers, NEW t \in U!Callers, U!CloneOf(s, t) PROVE UnitsInv'
  <2>1. /\ U!Idle /\ UNCHANGED <<heap, holds>> /\ owned' = owned \cup {t} /\ t \notin owned
        /\ script' = U!CloneInto(t, s)
    BY <1>3 DEF U!CloneOf
  <2>2. Safe(U!CloneInto(t, s), owned, owned \cup {t})
    BY <1>1, <2>1, SafeCloneOf
  <2>3. Safe(script', owned, owned')
    BY <2>1, <2>2
  <2> QED BY <2>1, <2>3, CallStep
<1>4. ASSUME NEW steps, NEW needs, U!Calls(steps, needs), NEW live, owned \subseteq live,
             Safe(steps, live, owned)
      PROVE  UnitsInv'
  <2>1. U!Idle /\ UNCHANGED <<heap, holds, owned>> /\ script' = steps
    BY <1>4 DEF U!Calls
  <2>2. Safe(script', live, owned')
    BY <1>4, <2>1
  <2> QED BY <1>4, <2>1, <2>2, CallStep
<1>5. ASSUME NEW s \in U!Callers, U!Calls(U!Leave(s), {s}) PROVE UnitsInv'
  <2>1. s \in owned
    BY <1>5 DEF U!Calls
  <2>2. Safe(U!Leave(s), owned, owned)
    BY <1>1, <2>1, SafeMethods
  <2> QED BY <1>4, <1>5, <2>2
<1>6. ASSUME U!Calls(U!Multiply, U!Callers) PROVE UnitsInv'
  <2>1. U!Callers \subseteq owned
    BY <1>6 DEF U!Calls
  <2>2. Safe(U!Multiply, owned, owned)
    BY <1>1, <2>1, SafeMethods
  <2> QED BY <1>4, <1>6, <2>2
<1>7. ASSUME U!Calls(U!Add, U!Callers) PROVE UnitsInv'
  <2>1. U!Callers \subseteq owned
    BY <1>7 DEF U!Calls
  <2>2. Safe(U!Add, owned, owned)
    BY <1>1, <2>1, SafeMethods
  <2> QED BY <1>4, <1>7, <2>2
<1>8. ASSUME U!Calls(U!ConvertTo, U!Callers) PROVE UnitsInv'
  <2>1. U!Callers \subseteq owned
    BY <1>8 DEF U!Calls
  <2>2. Safe(U!ConvertTo, owned, owned)
    BY <1>1, <2>1, SafeMethods
  <2> QED BY <1>4, <1>8, <2>2
<1>9. ASSUME U!Calls(U!IsConformable, U!Callers) PROVE UnitsInv'
  <2>1. U!Callers \subseteq owned
    BY <1>9 DEF U!Calls
  <2>2. Safe(U!IsConformable, owned, owned)
    BY <1>1, <2>1, SafeMethods
  <2> QED BY <1>4, <1>9, <2>2
<1>10. ASSUME U!Calls(U!ToNumberOf("self", <<>>), {"self"}) PROVE UnitsInv'
  <2>1. "self" \in owned
    BY <1>10 DEF U!Calls
  <2>2. Safe(U!ToNumberOf("self", <<>>), owned, owned)
    BY <1>1, <2>1, SafeMethods
  <2> QED BY <1>4, <1>10, <2>2
<1>11. ASSUME U!Calls(U!Change, {"self"}) PROVE UnitsInv'
  <2>1. "self" \in owned
    BY <1>11 DEF U!Calls
  <2>2. Safe(U!Change, owned, owned)
    BY <1>1, <2>1, SafeMethods
  <2> QED BY <1>4, <1>11, <2>2
<1>12. ASSUME U!Calls(U!ConvertFunc, {}) PROVE UnitsInv'
  <2>1. Safe(U!ConvertFunc, owned \cup {"copy"}, owned)
    BY <1>1, SafeMethods
  <2>2. owned \subseteq owned \cup {"copy"}
    OBVIOUS
  <2> QED BY <1>4, <1>12, <2>1, <2>2
<1> QED BY <1>2, <1>3, <1>5, <1>6, <1>7, <1>8, <1>9, <1>10, <1>11, <1>12

\* A step of a script: what it leaves behind is owned, and the script goes on safely.
LEMMA RunStep ==
  ASSUME UnitsInv, ~ U!Idle
  PROVE  /\ U!Now.on \in U!Slot /\ U!Now.with \in U!Slot
         /\ \E live : /\ live \in SUBSET U!Slot /\ owned \in SUBSET U!Callers
                      /\ Quiet(holds, live) /\ Allowed(U!Now, live)
                      /\ Safe(Tail(script), LiveAfter(U!Now, live), OwnedAfter(U!Now, owned))
                      /\ U!Now.do \in Trying => Safe(U!Now.otherwise, live, owned)
<1>1. PICK live : Quiet(holds, live) /\ Safe(script, live, owned)
  BY DEF UnitsInv
<1>2. /\ Head(script) \in ScriptStep /\ Allowed(Head(script), live) /\ live \in SUBSET U!Slot /\ owned \in SUBSET U!Callers
      /\ Safe(Tail(script), LiveAfter(Head(script), live), OwnedAfter(Head(script), owned))
      /\ Head(script).do \in Trying => Safe(Head(script).otherwise, live, owned)
  BY <1>1, SafeNow DEF U!Idle
<1>3. U!Now.on \in U!Slot /\ U!Now.with \in U!Slot
  BY <1>2 DEF U!Now, ScriptStep
<1> QED BY <1>1, <1>2, <1>3 DEF U!Now

\* A unit is altered: some strings of it are freed, others allocated.
LEMMA AlterOwns ==
  ASSUME U!StringsAssumption, Owns(heap, holds), NEW s \in U!Slot, NEW r \in U!Reduced(s), U!Alter(s, r)
  PROVE  Owns(heap', holds')
<1> DEFINE new == r[1] \cup U!Fresh(r[2])
<1>1. /\ r[1] \in SUBSET holds[s] /\ r[2] \in 0 .. 1
      /\ Cardinality(r[1]) + r[2] <= MaxHeld /\ r[2] <= Cardinality(Strings \ heap)
  BY SameSizes DEF U!Reduced
<1>2. r[2] \in Nat
  BY <1>1
<1>3. U!Fresh(r[2]) \in SUBSET (Strings \ heap) /\ Cardinality(U!Fresh(r[2])) = r[2]
  BY <1>1, <1>2, FreshIsNew
<1>4. holds[s] \in SUBSET Strings /\ holds[s] \subseteq heap
  BY DEF Owns
<1>5. new \in SUBSET Strings /\ new \cap (heap \ holds[s]) = {}
  BY <1>1, <1>3, <1>4
<1>6. Cardinality(new) <= MaxHeld
  <2>1. /\ Cardinality(r[1]) \in Nat /\ Cardinality(new) \in Nat
        /\ Cardinality(new) <= Cardinality(r[1]) + Cardinality(U!Fresh(r[2]))
    BY <1>1, <1>3, <1>4, UnionSize
  <2>2. MaxHeld \in Nat
    BY StringsAre
  <2> HIDE DEF new
  <2> QED BY <1>1, <1>2, <1>3, <2>1, <2>2
<1>7. heap' = (heap \ holds[s]) \cup new
  BY <1>1, <1>4 DEF U!Alter
<1>8. holds' = [holds EXCEPT ![s] = new]
  BY DEF U!Alter
<1>9. Owns((heap \ holds[s]) \cup new, [holds EXCEPT ![s] = new])
  <2> HIDE DEF new
  <2> QED BY <1>5, <1>6, OwnsAnew
<1> HIDE DEF new
<1> QED BY <1>7, <1>8, <1>9

\* A slot whose strings are freed.
LEMMA EmptiedOwns ==
  ASSUME U!StringsAssumption, Owns(heap, holds), NEW s \in U!Slot,
         heap' = heap \ holds[s], holds' = [holds EXCEPT ![s] = {}]
  PROVE  Owns(heap', holds')
<1>1. Cardinality({}) = 0 /\ 0 <= MaxHeld
  BY FS_EmptySet, StringsAre
<1>2. Owns((heap \ holds[s]) \cup {}, [holds EXCEPT ![s] = {}])
  BY <1>1, OwnsAnew
<1>3. (heap \ holds[s]) \cup {} = heap \ holds[s]
  OBVIOUS
<1> QED BY <1>2, <1>3

LEMMA RunSteps ==
  ASSUME U!StringsAssumption, UnitsInv, U!Copy \/ U!FreeStep \/ U!LeaveStep \/ U!Move \/ U!ChangeStep \/ U!Unit2Num \/ U!AddUnit
  PROVE  UnitsInv'
<1> DEFINE on == U!Now.on
           with == U!Now.with
<1>1. ~ U!Idle
  BY DEF U!Copy, U!FreeStep, U!LeaveStep, U!Move, U!ChangeStep, U!Unit2Num, U!AddUnit, U!Runs
<1>2. on \in U!Slot /\ with \in U!Slot
  BY <1>1, RunStep
<1>3. PICK live : /\ live \in SUBSET U!Slot /\ owned \in SUBSET U!Callers
                  /\ Quiet(holds, live) /\ Allowed(U!Now, live)
                  /\ Safe(Tail(script), LiveAfter(U!Now, live), OwnedAfter(U!Now, owned))
                  /\ U!Now.do \in Trying => Safe(U!Now.otherwise, live, owned)
  BY <1>1, RunStep
<1>4. Owns(heap, holds) /\ holds \in [U!Slot -> SUBSET Strings]
  BY DEF UnitsInv, Owns
<1>5. CASE U!Copy
  <2> DEFINE new == U!Fresh(Cardinality(holds[with]))
  <2>1. /\ U!Now.do = "copy" /\ script' = Tail(script) /\ owned' = owned
        /\ heap' = heap \cup new /\ holds' = [holds EXCEPT ![on] = new]
    BY <1>5, SameSizes DEF U!Copy, U!Runs, U!Succeeds, U!Next_
  <2>2. on \notin live /\ LiveAfter(U!Now, live) = live \cup {on} /\ OwnedAfter(U!Now, owned) = owned
    BY <1>3, <2>1 DEF Allowed, LiveAfter, OwnedAfter
  <2>3. holds[on] = {}
    BY <1>2, <1>3, <2>2 DEF Quiet
  <2>4. Cardinality(holds[with]) \in Nat /\ Cardinality(holds[with]) <= Cardinality(Strings \ heap)
    BY <1>2, <1>4, <2>3, RoomForCopy
  <2>5. new \in SUBSET (Strings \ heap) /\ Cardinality(new) = Cardinality(holds[with])
    BY <2>4, FreshIsNew
  <2>6. Cardinality(new) <= MaxHeld
    BY <1>2, <1>4, <2>5 DEF Owns
  <2> HIDE DEF new
  <2>7. Owns((heap \ holds[on]) \cup new, [holds EXCEPT ![on] = new])
    <3>1. new \in SUBSET Strings /\ new \cap (heap \ holds[on]) = {}
      BY <2>5
    <3> QED BY <1>2, <1>4, <2>6, <3>1, OwnsAnew
  <2>8. (heap \ holds[on]) \cup new = heap \cup new
    BY <2>3
  <2>9. Owns(heap', holds')
    BY <2>1, <2>7, <2>8
  <2>10. Quiet(holds', live \cup {on})
    BY <1>2, <1>3, <1>4, <2>1 DEF Quiet
  <2>11. Safe(script', live \cup {on}, owned')
    BY <1>3, <2>1, <2>2
  <2> QED BY <2>9, <2>10, <2>11 DEF UnitsInv
<1>6. CASE U!FreeStep \/ U!LeaveStep
  <2>1. /\ U!Now.do \in {"free", "leave"} /\ script' = Tail(script) /\ owned' = OwnedAfter(U!Now, owned)
        /\ heap' = heap \ holds[on] /\ holds' = [holds EXCEPT ![on] = {}]
    BY <1>6 DEF U!FreeStep, U!LeaveStep, U!Runs, U!Succeeds, U!Next_, OwnedAfter
  <2>2. Owns(heap', holds')
    BY <1>2, <1>4, <2>1, EmptiedOwns
  <2>3. LiveAfter(U!Now, live) = live \ {on}
    BY <2>1 DEF LiveAfter
  <2>4. Quiet(holds', live \ {on})
    BY <1>2, <1>3, <1>4, <2>1 DEF Quiet
  <2>5. Safe(script', live \ {on}, owned')
    BY <1>3, <2>1, <2>3
  <2> QED BY <2>2, <2>4, <2>5 DEF UnitsInv
<1>7. ASSUME U!Now.do \in Trying, U!Succeeds \/ U!Fails, UNCHANGED owned,
             Owns(heap', holds'), \A s \in U!Slot \ {on, with} : holds'[s] = holds[s]
      PROVE  UnitsInv'
  <2>1. on \in live /\ with \in live
    BY <1>3, <1>7 DEF Allowed
  <2>2. LiveAfter(U!Now, live) = live /\ OwnedAfter(U!Now, owned) = owned
    BY <1>7 DEF LiveAfter, OwnedAfter, Trying
  <2>3. Safe(script', live, owned')
    BY <1>3, <1>7, <2>2 DEF U!Succeeds, U!Fails, U!Next_
  <2>4. Quiet(holds', live)
    BY <1>3, <1>7, <2>1 DEF Quiet
  <2> QED BY <1>7, <2>3, <2>4 DEF UnitsInv
<1>8. CASE U!Move
  <2>1. PICK moved \in SUBSET holds[with] :
          /\ Cardinality(holds[on] \cup moved) <= MaxHeld
          /\ holds' = [holds EXCEPT ![on] = @ \cup moved, ![with] = @ \ moved]
          /\ U!Succeeds \/ U!Fails
    BY <1>8, SameSizes DEF U!Move
  <2>2. U!Now.do = "multunit" /\ UNCHANGED <<heap, owned>>
    BY <1>8 DEF U!Move, U!Runs
  <2>3. on # with /\ U!Now.do \in Trying
    BY <1>3, <2>2 DEF Allowed, Trying
  <2> HIDE DEF on, with
  <2>4. Owns(heap, holds')
    BY <1>2, <1>4, <2>1, <2>3, OwnsMoved
  <2>5. \A s \in U!Slot \ {on, with} : holds'[s] = holds[s]
    BY <1>4, <2>1
  <2>6. Owns(heap', holds')
    BY <2>2, <2>4
  <2> QED BY <1>7, <2>1, <2>2, <2>3, <2>5, <2>6
<1>9. ASSUME NEW s \in {on, with}, NEW r \in U!Reduced(s), U!Alter(s, r)
      PROVE  Owns(heap', holds') /\ \A t \in U!Slot \ {on, with} : holds'[t] = holds[t]
  <2>1. s \in U!Slot
    BY <1>2
  <2>2. Owns(heap', holds')
    BY <1>4, <1>9, <2>1, AlterOwns
  <2>3. holds' = [holds EXCEPT ![s] = r[1] \cup U!Fresh(r[2])]
    BY <1>9 DEF U!Alter
  <2> HIDE DEF on, with
  <2>4. \A t \in U!Slot \ {on, with} : holds'[t] = holds[t]
    BY <1>4, <2>3
  <2> QED BY <2>2, <2>4
<1>10. ASSUME NEW s \in {on, with}, heap' = heap \ holds[s], holds' = [holds EXCEPT ![s] = {}]
       PROVE  Owns(heap', holds') /\ \A t \in U!Slot \ {on, with} : holds'[t] = holds[t]
  <2>1. s \in U!Slot
    BY <1>2
  <2>2. Owns(heap', holds')
    BY <1>4, <1>10, <2>1, EmptiedOwns
  <2> HIDE DEF on, with
  <2>3. \A t \in U!Slot \ {on, with} : holds'[t] = holds[t]
    BY <1>4, <1>10
  <2> QED BY <2>2, <2>3
<1>11. CASE U!ChangeStep
  <2>1. U!Now.do = "change" /\ UNCHANGED owned /\ (U!Succeeds \/ U!Fails) /\ \E r \in U!Reduced(on) : U!Alter(on, r)
    BY <1>11 DEF U!ChangeStep, U!Runs
  <2>2. U!Now.do \in Trying
    BY <2>1 DEF Trying
  <2> HIDE DEF on, with
  <2>3. Owns(heap', holds') /\ \A t \in U!Slot \ {on, with} : holds'[t] = holds[t]
    BY <1>9, <2>1
  <2> QED BY <1>7, <2>1, <2>2, <2>3
<1>12. CASE U!Unit2Num
  <2>1. /\ U!Now.do = "unit2num" /\ UNCHANGED owned /\ (U!Succeeds \/ U!Fails)
        /\ \/ \E r \in U!Reduced(on) : U!Alter(on, r)
           \/ heap' = heap \ holds[on] /\ holds' = [holds EXCEPT ![on] = {}]
    BY <1>12 DEF U!Unit2Num, U!Runs
  <2>2. U!Now.do \in Trying
    BY <2>1 DEF Trying
  <2> HIDE DEF on, with
  <2>3. Owns(heap', holds') /\ \A t \in U!Slot \ {on, with} : holds'[t] = holds[t]
    BY <1>9, <1>10, <2>1
  <2> QED BY <1>7, <2>1, <2>2, <2>3
<1>13. CASE U!AddUnit
  <2>1. U!Now.do = "addunit" /\ UNCHANGED owned /\ U!Now.do \in Trying
    BY <1>13 DEF U!AddUnit, U!Runs, Trying
  <2>2. \/ UNCHANGED script /\ \E s \in {on, with} : \E r \in U!Reduced(s) : U!Alter(s, r)
        \/ U!Fails /\ UNCHANGED <<heap, holds>>
        \/ U!Succeeds /\ heap' = heap \ holds[with] /\ holds' = [holds EXCEPT ![with] = {}]
    BY <1>13 DEF U!AddUnit
  <2> HIDE DEF on, with
  <2>3. CASE UNCHANGED script /\ \E s \in {on, with} : \E r \in U!Reduced(s) : U!Alter(s, r)
    <3>1. Owns(heap', holds') /\ \A t \in U!Slot \ {on, with} : holds'[t] = holds[t]
      BY <1>9, <2>3
    <3>2. PICK all : Quiet(holds, all) /\ Safe(script, all, owned)
      BY DEF UnitsInv
    <3>3. all \in SUBSET U!Slot /\ Allowed(U!Now, all)
      BY <1>1, <3>2, SafeNow DEF U!Idle, U!Now
    <3>4. on \in all /\ with \in all
      BY <2>1, <3>3 DEF Allowed, on, with
    <3>5. Quiet(holds', all)
      BY <3>1, <3>2, <3>4 DEF Quiet
    <3>6. Safe(script', all, owned')
      BY <2>1, <2>3, <3>2
    <3> QED BY <3>1, <3>5, <3>6 DEF UnitsInv
  <2>4. CASE U!Fails /\ UNCHANGED <<heap, holds>>
    <3>1. Owns(heap', holds') /\ \A t \in U!Slot \ {on, with} : holds'[t] = holds[t]
      BY <1>4, <2>4
    <3> QED BY <1>7, <2>1, <2>4, <3>1
  <2>5. CASE U!Succeeds /\ heap' = heap \ holds[with] /\ holds' = [holds EXCEPT ![with] = {}]
    <3>1. Owns(heap', holds') /\ \A t \in U!Slot \ {on, with} : holds'[t] = holds[t]
      BY <1>10, <2>5
    <3> QED BY <1>7, <2>1, <2>5, <3>1
  <2> QED BY <2>2, <2>3, <2>4, <2>5
<1> QED BY <1>5, <1>6, <1>8, <1>11, <1>12, <1>13

\* However many strings units have and wherever a C function fails, no string is freed while
\* a unit points to it, none has two owners, and between calls none is lost (ffi.rs).
THEOREM StringsHaveOneOwner ==
  ASSUME U!StringsAssumption
  PROVE  U!Spec => [](U!OwnershipHolds /\ U!NothingLeaks)
<1>1. U!Init => UnitsInv
  BY InitUnitsInv
<1>2. UnitsInv /\ [U!Next]_U!vars => UnitsInv'
  <2> SUFFICES ASSUME UnitsInv, [U!Next]_U!vars PROVE UnitsInv'
    OBVIOUS
  <2>1. CASE UNCHANGED U!vars
    <3>1. UNCHANGED <<heap, holds, owned, script>>
      BY <2>1 DEF U!vars
    <3>2. PICK live : Quiet(holds, live) /\ Safe(script, live, owned)
      BY DEF UnitsInv
    <3>3. Owns(heap', holds') /\ Quiet(holds', live) /\ Safe(script', live, owned')
      BY <3>1, <3>2 DEF UnitsInv
    <3> QED BY <3>3 DEF UnitsInv
  <2>2. CASE U!Next
    BY <2>2, CallSteps, RunSteps DEF U!Next
  <2> QED BY <2>1, <2>2
<1>3. UnitsInv => U!OwnershipHolds /\ U!NothingLeaks
  <2> SUFFICES ASSUME UnitsInv PROVE U!OwnershipHolds /\ U!NothingLeaks
    OBVIOUS
  <2>1. U!OwnershipHolds
    BY DEF UnitsInv, Owns, U!OwnershipHolds
  <2>2. ASSUME U!Idle PROVE heap = UNION {holds[s] : s \in owned}
    <3>1. PICK live : Quiet(holds, live) /\ Safe(script, live, owned)
      BY DEF UnitsInv
    <3>2. live \subseteq owned /\ owned \subseteq U!Slot
      BY <2>2, <3>1, SafeNow DEF U!Idle, U!Slot
    <3>3. heap = UNION {holds[s] : s \in U!Slot}
      BY DEF UnitsInv, Owns
    <3>4. \A s \in U!Slot : holds[s] # {} => s \in owned
      BY <3>1, <3>2 DEF Quiet
    <3> QED BY <3>2, <3>3, <3>4
  <2> QED BY <2>1, <2>2 DEF U!NothingLeaks
<1> QED BY <1>1, <1>2, <1>3, PTL DEF U!Spec
=============================================================================
