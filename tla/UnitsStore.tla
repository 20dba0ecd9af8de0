----------------------------- MODULE UnitsStore -----------------------------
(***************************************************************************)
(* The process-wide state of the crate (native engine) and the threads     *)
(* that call its public functions parse, convert, conformable,             *)
(* list_definitions and reload_currency at the same time.                  *)
(*                                                                         *)
(* The shared state is the lazily loaded listing DEFINITIONS and the       *)
(* DATABASE the engine evaluates against, each behind an RwLock of its     *)
(* own.  A step of a thread is one access to that state: taking a guard,   *)
(* looking up one entry, inserting one line.  What an expression computes  *)
(* is abstracted to the chain of database entries its evaluation looks up. *)
(***************************************************************************)
EXTENDS Definitions, RwLock

CONSTANTS
  Embedded,   \* the lines of definitions.units and the files it includes
  Contents,   \* the files reload_currency may be given
  Refers,     \* the entry a definition makes evaluation look up next
  Reverse,    \* the entry the inverse formula of a function looks up
  Faulty,     \* definitions whose evaluation fails with BadSum
  Split,      \* "arg func" read as "func(arg)", where the text has a space
  NoExpr,
  Calls,      \* the calls a thread may make
  MaxCalls    \* bound on the calls each thread makes

\* An expression is identified with the first entry its evaluation looks up.
Expr == Key

Call == [op : {"parse"}, expr : Expr]
          \cup [op : {"convert"}, from : Expr, to : Name]
          \cup [op : {"conformable"}, expr : Expr]
          \cup [op : {"list"}]
          \cup [op : {"reload"}, content : Contents]

ASSUME StoreAssumption ==
  /\ NoExpr \notin Expr
  /\ Embedded \in Seq(Line)
  /\ Contents \subseteq Seq(Line)
  /\ Refers \in [Def -> Expr \cup {NoExpr}]
  /\ Reverse \in [Def -> Expr \cup {NoExpr}]
  /\ Split \in [Expr -> Expr \cup {NoExpr}]
  /\ Faulty \subseteq Def
  /\ Calls \in [Thread -> SUBSET Call]
  /\ MaxCalls \in Nat

VARIABLES
  lazy,       \* DEFINITIONS, the LazyLock: "new", "running" or "done"
  origin,     \* what initialised the DATABASE OnceLock
  db,         \* the Database inside it
  dbLock,     \* its RwLock
  listing,    \* the vector inside DEFINITIONS
  listLock,   \* its RwLock
  stage,      \* per thread, the call site it is at
  call,       \* per thread, the call it is executing or executed last
  left,       \* per thread, the calls it may still start
  eval,       \* per thread, the evaluation in progress (Evaluator)
  local,      \* per thread, the local variables of the call
  answer,     \* per thread, what the last call returned
  committed,  \* history: the database when the last write guard was dropped
  seen        \* history, per thread: the values of committed during the call

storeVars == <<lazy, origin, db, listing, listLock, committed, seen>>
vars == <<storeVars, dbLock, stage, call, left, eval, local, answer>>

-----------------------------------------------------------------------------
\* The evaluations a call performs, named by their call site.
ParseStage == {"expr", "arg", "reverse", "unit", "from", "split", "to", "target", "name"}
Stage == ParseStage \cup {"idle", "ensure", "boot", "publish", "lookup", "points", "clone",
                          "names", "list", "dbwrite", "insert", "listwrite", "extend"}

Code == {"OK", "UnknownUnit", "Parse", "BadSum"}

\* What an evaluation looked up, and the primitive unit it arrived at.
Value == [code : Code, base : Expr \cup {NoExpr}, reads : SUBSET (Expr \X (Def \cup {Absent}))]
NoValue == [code |-> "OK", base |-> NoExpr, reads |-> {}]

Frame == [on : BOOLEAN, want : Expr \cup {NoExpr}, value : Value]
Pending(e) == [on |-> FALSE, want |-> e, value |-> NoValue]

Local == [val : Value, expr : Expr \cup {NoExpr}, table : BOOLEAN,
          todo : SUBSET FullName, cur : SUBSET FullName, names : SUBSET FullName, line : Nat \ {0}]
NoLocal == [val |-> NoValue, expr |-> NoExpr, table |-> FALSE,
            todo |-> {}, cur |-> {}, names |-> {}, line |-> 1]

AnswerCode == Code \cup {"None", "NotANumber", "BadFuncArg", "NotInDomain"}
Answer == [code : AnswerCode, val : Value, other : Value, names : SUBSET FullName]
NoAnswer == [code |-> "None", val |-> NoValue, other |-> NoValue, names |-> {}]

\* Threads waiting for the write guard of each lock.
DbQueue == {t \in Thread : stage[t] = "dbwrite"}
ListQueue == {t \in Thread : stage[t] = "listwrite"}

Goto(t, s, e) == /\ stage' = [stage EXCEPT ![t] = s]
                 /\ eval' = [eval EXCEPT ![t] = Pending(e)]

Return(t, code, other, names) ==
  /\ Goto(t, "idle", NoExpr)
  /\ answer' = [answer EXCEPT ![t] = [code |-> code, val |-> local[t].val,
                                      other |-> other, names |-> names]]
  /\ local' = [local EXCEPT ![t] = NoLocal]

\* database::get(): a DATABASE nobody has set is set to an empty one.
GetDatabase == origin' = IF origin = "unset" THEN "empty" ELSE origin

Init == /\ lazy = "new" /\ origin = "unset"
        /\ db = EmptyDatabase /\ committed = EmptyDatabase
        /\ dbLock = Unlocked /\ listLock = Unlocked
        /\ listing = EmptyListing
        /\ stage = [t \in Thread |-> "idle"]
        /\ call \in [Thread -> {[op |-> "list"]}]
        /\ left = [t \in Thread |-> MaxCalls]
        /\ eval = [t \in Thread |-> Pending(NoExpr)]
        /\ local = [t \in Thread |-> NoLocal]
        /\ answer = [t \in Thread |-> NoAnswer]
        /\ seen = [t \in Thread |-> {}]

-----------------------------------------------------------------------------
\* Calling a public function, and ensure_definitions at its head.

Start(t) ==
  /\ stage[t] = "idle" /\ left[t] > 0
  /\ \E c \in Calls[t] : call' = [call EXCEPT ![t] = c]
  /\ left' = [left EXCEPT ![t] = @ - 1]
  /\ Goto(t, "ensure", NoExpr)
  /\ answer' = [answer EXCEPT ![t] = NoAnswer]
  /\ seen' = [seen EXCEPT ![t] = IF origin = "unset" THEN {} ELSE {committed}]
  /\ UNCHANGED <<lazy, origin, db, listing, listLock, committed, dbLock, local>>

\* The first thread to force the LazyLock runs its closure; others block.
BootBegin(t) ==
  /\ stage[t] = "ensure" /\ lazy = "new"
  /\ lazy' = "running"
  /\ Goto(t, "boot", NoExpr)
  /\ UNCHANGED <<origin, db, listing, listLock, committed, seen, dbLock, call, left, local, answer>>

\* database::init: OnceLock::set is ignored when the cell already has a value.
BootInit(t) ==
  /\ stage[t] = "boot"
  /\ IF origin = "unset"
     THEN origin' = "embedded" /\ db' = LoadAll(EmptyDatabase, Embedded)
     ELSE UNCHANGED <<origin, db>>
  /\ committed' = db'
  /\ seen' = [u \in Thread |-> seen[u] \cup {db'}]
  /\ Goto(t, "publish", NoExpr)
  /\ UNCHANGED <<lazy, listing, listLock, dbLock, call, left, local, answer>>

BootPublish(t) ==
  /\ stage[t] = "publish"
  /\ listing' = InitialListing(Embedded)
  /\ lazy' = "done"
  /\ Goto(t, "ensure", NoExpr)
  /\ UNCHANGED <<origin, db, listLock, committed, seen, dbLock, call, left, local, answer>>

FirstStage(c) == CASE c.op = "parse" -> "expr"
                   [] c.op = "convert" -> "lookup"
                   [] c.op = "conformable" -> "target"
                   [] c.op = "list" -> "list"
                   [] c.op = "reload" -> "dbwrite"

\* Variant: ensure_definitions does not wait for the closure.
EnterUnready(t) ==
  /\ stage[t] = "ensure"
  /\ Goto(t, FirstStage(call[t]),
          IF call[t].op \in {"parse", "conformable"} THEN call[t].expr ELSE NoExpr)
  /\ UNCHANGED <<storeVars, dbLock, call, left, local, answer>>

Enter(t) ==
  /\ stage[t] = "ensure" /\ lazy = "done"
  /\ Goto(t, FirstStage(call[t]),
          IF call[t].op \in {"parse", "conformable"} THEN call[t].expr ELSE NoExpr)
  /\ UNCHANGED <<storeVars, dbLock, call, left, local, answer>>

-----------------------------------------------------------------------------
\* parseunit: one read guard held from before the first to after the last lookup.

\* Variant: no guard is taken.
AcquireUnguarded(t) ==
  /\ stage[t] \in ParseStage /\ ~eval[t].on
  /\ GetDatabase
  /\ eval' = [eval EXCEPT ![t].on = TRUE]
  /\ UNCHANGED <<lazy, db, listing, listLock, committed, seen, dbLock, stage, call, left, local, answer>>

Acquire(t) ==
  /\ stage[t] \in ParseStage /\ ~eval[t].on
  /\ CanRead(dbLock, DbQueue)
  /\ GetDatabase
  /\ dbLock' = WithReader(dbLock, t)
  /\ eval' = [eval EXCEPT ![t].on = TRUE]
  /\ UNCHANGED <<lazy, db, listing, listLock, committed, seen, stage, call, left, local, answer>>

Resolving(v) == {r[1] : r \in v.reads}

\* Variant: the names being resolved are not remembered.
LookUpBlindly(v, k, d) ==
  LET next == IF d = Absent \/ d \in Faulty THEN NoExpr ELSE Refers[d]
      code == IF d = Absent THEN "UnknownUnit" ELSE IF d \in Faulty THEN "BadSum" ELSE "OK"
  IN  [on |-> TRUE, want |-> next,
       value |-> [code |-> code,
                  base |-> IF code = "OK" /\ next = NoExpr THEN k ELSE NoExpr,
                  reads |-> v.reads \cup {<<k, d>>}]]

\* resolve_name: the entry is unknown, faulty, already being resolved, a
\* primitive, or defined by another entry that is looked up next.
LookUp(v, k, d) ==
  LET next == IF d = Absent \/ d \in Faulty THEN NoExpr ELSE Refers[d]
      seenBefore == next \in Resolving(v) \cup {k}
      code == IF d = Absent THEN "UnknownUnit"
              ELSE IF d \in Faulty THEN "BadSum"
              ELSE IF seenBefore THEN "Parse" ELSE "OK"
  IN  [on |-> TRUE,
       want |-> IF seenBefore THEN NoExpr ELSE next,
       value |-> [code |-> code,
                  base |-> IF code = "OK" /\ next = NoExpr THEN k ELSE NoExpr,
                  reads |-> v.reads \cup {<<k, d>>}]]

Resolve(t) ==
  /\ eval[t].on /\ eval[t].want # NoExpr
  /\ eval' = [eval EXCEPT ![t] = LookUp(eval[t].value, eval[t].want, db[eval[t].want])]
  /\ UNCHANGED <<storeVars, dbLock, stage, call, left, local, answer>>

\* The evaluation of call site s ended, and its read guard is dropped.
Evaluated(t, s) == /\ stage[t] = s /\ eval[t].on /\ eval[t].want = NoExpr
                   /\ dbLock' = Without(dbLock, t)
                   /\ UNCHANGED <<storeVars, call, left>>

Good(t) == eval[t].value.code = "OK"
Store(t, f) == local' = [local EXCEPT ![t] = f] /\ UNCHANGED answer
Stay == UNCHANGED <<local, answer>>

ParseReturns(t) ==
  /\ Evaluated(t, "expr")
  /\ Return(t, eval[t].value.code, eval[t].value, {})

-----------------------------------------------------------------------------
\* convert(from, to): first engine::convert_func.

FunctionEntry(t) == db[<<"Function", call[t].to>>]
TableEntry(t) == db[<<"Table", call[t].to>>]

\* A guard taken for one lookup and dropped at the end of the block.
Peek(t, s) == /\ stage[t] = s /\ CanRead(dbLock, DbQueue) /\ GetDatabase
              /\ UNCHANGED <<lazy, db, listing, listLock, committed, seen, dbLock, call, left>>

ConvertLookup(t) ==
  /\ Peek(t, "lookup")
  /\ LET function == FunctionEntry(t) # Absent
         found == IF function THEN Reverse[FunctionEntry(t)]
                  ELSE IF TableEntry(t) # Absent THEN Refers[TableEntry(t)]
                  ELSE NoExpr
     IN  /\ Store(t, [local[t] EXCEPT !.expr = found, !.table = ~function])
         /\ Goto(t, IF found = NoExpr THEN "from" ELSE "arg", call[t].from)

ConvertArg(t) ==
  /\ Evaluated(t, "arg")
  /\ IF Good(t)
     THEN /\ Store(t, [local[t] EXCEPT !.val = eval[t].value])
          /\ Goto(t, IF local[t].table THEN "unit" ELSE "reverse", local[t].expr)
     ELSE Stay /\ Goto(t, "from", call[t].from)

\* The inverse formula is evaluated with `to` bound to the argument.
ConvertReverse(t) ==
  /\ Evaluated(t, "reverse")
  /\ Return(t, eval[t].value.code, eval[t].value, {})

ConvertUnit(t) ==
  /\ Evaluated(t, "unit")
  /\ CASE ~Good(t) -> Return(t, eval[t].value.code, eval[t].value, {})
       [] Good(t) /\ eval[t].value.base # local[t].val.base ->
            Return(t, "BadFuncArg", eval[t].value, {})
       [] OTHER -> Stay /\ Goto(t, "points", NoExpr)

\* The table is looked up again to interpolate.
ConvertPoints(t) ==
  /\ Peek(t, "points")
  /\ IF TableEntry(t) = Absent
     THEN Stay /\ Goto(t, "from", call[t].from)
     ELSE \E code \in {"OK", "NotInDomain"} : Return(t, code, NoValue, {})

\* Variant: the text is read again only when it is no expression.
RetriesParse(code, e) == code = "Parse" /\ Split[e] # NoExpr

\* "arg func" is tried as "func(arg)" when it names no unit.
Retries(code, e) == code \in {"Parse", "UnknownUnit"} /\ Split[e] # NoExpr

\* NotAFunc: the standard conversion by division.
ConvertFrom(t) ==
  /\ Evaluated(t, "from")
  /\ LET code == eval[t].value.code
     IN  CASE Good(t) -> /\ Store(t, [local[t] EXCEPT !.val = eval[t].value])
                         /\ Goto(t, "to", <<"Unit", call[t].to>>)
           [] Retries(code, call[t].from) -> Stay /\ Goto(t, "split", Split[call[t].from])
           [] OTHER -> Return(t, code, eval[t].value, {})

ConvertSplit(t) ==
  /\ Evaluated(t, "split")
  /\ IF Good(t)
     THEN /\ Store(t, [local[t] EXCEPT !.val = eval[t].value])
          /\ Goto(t, "to", <<"Unit", call[t].to>>)
     ELSE Return(t, eval[t].value.code, eval[t].value, {})

\* convert_to: divide, then to_number.
Ratio(v, w) == IF v.base = w.base THEN "OK" ELSE "NotANumber"

ConvertTo(t) ==
  /\ Evaluated(t, "to")
  /\ Return(t, IF Good(t) THEN Ratio(local[t].val, eval[t].value) ELSE eval[t].value.code,
            eval[t].value, {})

-----------------------------------------------------------------------------
\* conformable(expr) and list_definitions().

ConformableTarget(t) ==
  /\ Evaluated(t, "target")
  /\ IF Good(t)
     THEN /\ Store(t, [local[t] EXCEPT !.val = eval[t].value])
          /\ Goto(t, "clone", NoExpr)
     ELSE Return(t, eval[t].value.code, eval[t].value, {})

ListedUnits == {n \in FullName : listing[<<n, "Unit">>] # {}}

\* Variant: the listing is read without its guard.
ReadListingUnguarded(t, s) == stage[t] = s /\ UNCHANGED <<storeVars, dbLock, call, left>>

ReadListing(t, s) == /\ stage[t] = s /\ CanRead(listLock, ListQueue)
                     /\ UNCHANGED <<storeVars, dbLock, call, left>>

ConformableClone(t) ==
  /\ ReadListing(t, "clone")
  /\ Store(t, [local[t] EXCEPT !.todo = ListedUnits])
  /\ Goto(t, "names", NoExpr)

\* The listed units are parsed one after the other (in any order here).
ConformableNext(t) ==
  /\ stage[t] = "names"
  /\ \E n \in local[t].todo :
        /\ Store(t, [local[t] EXCEPT !.todo = @ \ {n}, !.cur = {n}])
        /\ Goto(t, "name", <<"Unit", Canon[n]>>)
  /\ UNCHANGED <<storeVars, dbLock, call, left>>

ConformableName(t) ==
  /\ Evaluated(t, "name")
  /\ LET same == Good(t) /\ eval[t].value.base = local[t].val.base
     IN  Store(t, [local[t] EXCEPT !.cur = {}, !.names = IF same THEN @ \cup local[t].cur ELSE @])
  /\ Goto(t, "names", NoExpr)

ConformableReturns(t) ==
  /\ stage[t] = "names" /\ local[t].todo = {}
  /\ Return(t, "OK", NoValue, local[t].names)
  /\ UNCHANGED <<storeVars, dbLock, call, left>>

ListReturns(t) ==
  /\ ReadListing(t, "list")
  /\ Return(t, "OK", NoValue, {s[1] : s \in {s \in Slot : listing[s] # {}}})

-----------------------------------------------------------------------------
\* reload_currency(content): the database under its write guard, then, the
\* guard dropped, the listing under its own.

Content(t) == call[t].content

\* Variant: the insertions are made while others read.
ReloadAcquireShared(t) ==
  /\ stage[t] = "dbwrite" /\ dbLock.writers = {}
  /\ GetDatabase
  /\ dbLock' = WithWriter(dbLock, t)
  /\ Goto(t, "insert", NoExpr)
  /\ UNCHANGED <<lazy, db, listing, listLock, committed, seen, call, left, local, answer>>

ReloadAcquire(t) ==
  /\ stage[t] = "dbwrite" /\ CanWrite(dbLock)
  /\ GetDatabase
  /\ dbLock' = WithWriter(dbLock, t)
  /\ Goto(t, "insert", NoExpr)
  /\ UNCHANGED <<lazy, db, listing, listLock, committed, seen, call, left, local, answer>>

ReloadInsert(t) ==
  /\ stage[t] = "insert" /\ local[t].line <= Len(Content(t))
  /\ db' = InsertLine(db, Content(t)[local[t].line])
  /\ Store(t, [local[t] EXCEPT !.line = @ + 1])
  /\ UNCHANGED <<lazy, origin, listing, listLock, committed, seen, dbLock, stage, eval, call, left>>

ReloadCommit(t) ==
  /\ stage[t] = "insert" /\ local[t].line > Len(Content(t))
  /\ dbLock' = Without(dbLock, t)
  /\ committed' = db
  /\ seen' = [u \in Thread |-> seen[u] \cup {db}]
  /\ Goto(t, "listwrite", NoExpr)
  /\ UNCHANGED <<lazy, origin, db, listing, listLock, call, left, local, answer>>

\* retain, under the write guard of the listing.
ReloadRetain(t) ==
  /\ stage[t] = "listwrite" /\ CanWrite(listLock)
  /\ listLock' = WithWriter(listLock, t)
  /\ listing' = Retained(listing, Content(t))
  /\ Goto(t, "extend", NoExpr)
  /\ UNCHANGED <<lazy, origin, db, committed, seen, dbLock, call, left, local, answer>>

\* extend and sort; the guard is dropped on return.
ReloadExtend(t) ==
  /\ stage[t] = "extend"
  /\ listing' = Extended(listing, Content(t))
  /\ listLock' = Without(listLock, t)
  /\ Return(t, "OK", NoValue, {})
  /\ UNCHANGED <<lazy, origin, db, committed, seen, dbLock, call, left>>

-----------------------------------------------------------------------------
Boot(t) == BootBegin(t) \/ BootInit(t) \/ BootPublish(t)
Evaluate(t) == Acquire(t) \/ Resolve(t) \/ ParseReturns(t)
Convert(t) == \/ ConvertLookup(t) \/ ConvertArg(t) \/ ConvertReverse(t) \/ ConvertUnit(t)
              \/ ConvertPoints(t) \/ ConvertFrom(t) \/ ConvertSplit(t) \/ ConvertTo(t)
Conformable(t) == \/ ConformableTarget(t) \/ ConformableClone(t) \/ ConformableNext(t)
                  \/ ConformableName(t) \/ ConformableReturns(t)
Reload(t) == \/ ReloadAcquire(t) \/ ReloadInsert(t) \/ ReloadCommit(t)
             \/ ReloadRetain(t) \/ ReloadExtend(t)

\* A step of a call already made; the operating system schedules every thread.
Step(t) == Boot(t) \/ Enter(t) \/ Evaluate(t) \/ Convert(t) \/ Conformable(t)
             \/ ListReturns(t) \/ Reload(t)

\* Every thread has made all its calls.
Finished == /\ \A t \in Thread : stage[t] = "idle" /\ left[t] = 0
            /\ UNCHANGED vars

Next == (\E t \in Thread : Start(t) \/ Step(t)) \/ Finished

Spec == Init /\ [][Next]_vars

FairSpec == Spec /\ \A t \in Thread : WF_vars(Step(t))

-----------------------------------------------------------------------------
\* Properties.

(* Every variable has the shape the code gives it. *)
TypeOK ==
  /\ lazy \in {"new", "running", "done"}
  /\ origin \in {"unset", "embedded", "empty"}
  /\ db \in Database /\ committed \in Database
  /\ dbLock \in LockState /\ listLock \in LockState
  /\ listing \in Listing
  /\ stage \in [Thread -> Stage]
  /\ call \in [Thread -> Call]
  /\ left \in [Thread -> 0 .. MaxCalls]
  /\ eval \in [Thread -> Frame]
  /\ local \in [Thread -> Local]
  /\ answer \in [Thread -> Answer]
  /\ seen \in [Thread -> SUBSET Database]

(* database::get never has to make up an empty database: whoever touches     *)
(* DATABASE does so after the LazyLock closure has handed over the embedded  *)
(* one, so that OnceLock::set in database::init is never ignored.            *)
DatabaseIsEmbedded == origin # "empty"

(* Everything one evaluation looked up comes from one database that was      *)
(* whole, and current at some moment of the call it belongs to: the guard of *)
(* parseunit hides a reload in progress, and no result is older than its     *)
(* call.  This holds for the evaluation running now and for the results kept *)
(* and returned.                                                             *)
EvaluationsAreSnapshots ==
  \A t \in Thread : \A v \in {eval[t].value, local[t].val, answer[t].val, answer[t].other} :
     v.reads # {} => \E d \in seen[t] : \A r \in v.reads : d[r[1]] = r[2]

\* The plain units some file defines.
AllUnits == {n \in FullName : \E c \in {Embedded} \cup Contents : \E i \in DOMAIN c :
                                c[i].kind = "Unit" /\ c[i].name = n}

\* A reloaded file gives the name of a unit to units only.
UnitsStayUnits == \A c \in Contents : \A i \in DOMAIN c : c[i].name \in AllUnits => c[i].kind = "Unit"

\* The files are as units_cur writes them: a unit goes by one full name and
\* only units go by it, no reloaded file gives it two definitions, and the
\* definitions file holds nothing the database rejects.
CleanFiles ==
  /\ \A a, b \in AllUnits : Canon[a] = Canon[b] => a = b
  /\ \A c \in Contents : \A i, j \in DOMAIN c :
       c[i].name = c[j].name /\ c[i].kind = "Unit" => c[i].def = c[j].def
  /\ UnitsStayUnits
  /\ \A i \in DOMAIN Embedded : Inserts(Embedded[i]) \/ Embedded[i].kind = "Alias"

\* No two threads call reload_currency.
OneReloader ==
  \A t, u \in Thread : (\E c \in Calls[t] : c.op = "reload") /\ (\E c \in Calls[u] : c.op = "reload")
                         => t = u

\* No thread is between its first insertion and the end of its reload.
Quiet == /\ lazy = "done"
         /\ \A t \in Thread : stage[t] \notin {"insert", "listwrite", "extend"}

(* Between reloads the two copies agree: every database entry is listed with *)
(* the definition the engine uses, and no listed unit has another one.       *)
ListingMatchesDatabase ==
  Quiet =>
    /\ \A k \in Key : db[k] # Absent =>
         \E n \in FullName : Canon[n] = k[2] /\ db[k] \in listing[<<n, k[1]>>]
    /\ \A n \in ListedUnits : listing[<<n, "Unit">>] = {db[<<"Unit", Canon[n]>>]}

(* A name once listed stays listed for every caller, also for one that asks  *)
(* while reload_currency has removed the old entries and not yet added the   *)
(* new ones.                                                                 *)
ListsAreWhole ==
  \A t \in Thread :
    stage[t] = "idle" /\ call[t].op = "list" /\ answer[t].code = "OK" =>
      \A s \in Slot : InitialListing(Embedded)[s] # {} => s[1] \in answer[t].names

(* Every call returns: no guard is kept, no thread waits for ever for a lock *)
(* or for the LazyLock, and evaluation ends also on circular definitions.    *)
CallsReturn == \A t \in Thread : stage[t] # "idle" ~> stage[t] = "idle"
=============================================================================
