--------------------------- MODULE UnitsStoreProofs ---------------------------
(***************************************************************************)
(* Proofs about UnitsStore and UnitsStoreRefinement for any threads,       *)
(* definitions, files and calls.  First the invariants: types, that        *)
(* DATABASE is never the empty one that database::get would make up, that  *)
(* every evaluation sees one whole database of the time of its call, and   *)
(* that the listings are whole and agree with DATABASE.  Then that the     *)
(* calls are atomic: UnitsStore implements AtomicStore step by step.  What *)
(* makes that work is that an evaluation, entry by entry under its read    *)
(* guard, walks the chain that Evaluation takes in one step.               *)
(***************************************************************************)
EXTENDS UnitsStoreRefinement, NaturalOrder, SequenceTheorems

-----------------------------------------------------------------------------
\* Loading keeps databases and listings well-formed.

LEMMA LineFields ==
  ASSUME NEW content \in Seq(Line), NEW i \in DOMAIN content
  PROVE  /\ content[i] \in Line
         /\ content[i].def \in Def
         /\ content[i].name \in FullName
         /\ KeyOf(content[i])[2] \in Name
         /\ i \in 1 .. Len(content)
<1>1. content[i] \in Line /\ i \in 1 .. Len(content)
  BY ElementOfSeq
<1>2. content[i].name \in FullName /\ content[i].def \in Def
  BY <1>1 DEF Line
<1>3. Canon[content[i].name] \in Name
  BY <1>2, DefinitionsAssumption
<1> QED BY <1>1, <1>2, <1>3 DEF KeyOf

LEMMA LoadAllType ==
  ASSUME NEW d \in Database, NEW content \in Seq(Line)
  PROVE  LoadAll(d, content) \in Database
<1>1. SUFFICES ASSUME NEW k \in Key
               PROVE  LoadAll(d, content)[k] \in Def \cup {Absent}
  BY DEF LoadAll, Database
<1> DEFINE hits == {i \in DOMAIN content : Inserts(content[i]) /\ KeyOf(content[i]) = k}
           last == CHOOSE i \in hits : \A j \in hits : j <= i
<1>2. LoadAll(d, content)[k] = IF hits = {} THEN d[k] ELSE content[last].def
  BY DEF LoadAll
<1>3. CASE hits = {}
  BY <1>2, <1>3 DEF Database
<1>4. CASE hits # {}
  <2>1. hits \in SUBSET (1 .. Len(content))
    BY LineFields
  <2>2. \E i \in hits : \A j \in hits : j <= i
    <3> HIDE DEF hits
    <3> QED BY <1>4, <2>1, GreatestIndex, Len(content) \in Nat
  <2>3. last \in hits
    <3> HIDE DEF hits
    <3> QED BY <2>2
  <2> QED BY <1>2, <1>4, <2>3, LineFields
<1> QED BY <1>3, <1>4

LEMMA InsertLineType ==
  ASSUME NEW d \in Database, NEW l \in Line
  PROVE  InsertLine(d, l) \in Database
BY DEF InsertLine, Database, Line

LEMMA ListingTypes ==
  ASSUME NEW content \in Seq(Line), NEW list \in Listing
  PROVE  /\ InitialListing(content) \in Listing
         /\ Retained(list, content) \in Listing
         /\ Extended(list, content) \in Listing
<1>1. \A i \in DOMAIN content : content[i].def \in Def
  BY LineFields
<1>2. \A s \in Slot : Matching(content, s) \in SUBSET Def
  BY <1>1 DEF Matching
<1> QED BY <1>1, <1>2 DEF InitialListing, Retained, Extended, Listing

LEMMA LookUpType ==
  ASSUME NEW v \in Value, NEW k \in Expr, NEW d \in Def \cup {Absent}
  PROVE  LookUp(v, k, d) \in Frame
<1> DEFINE next == IF d = Absent \/ d \in Faulty THEN NoExpr ELSE Refers[d]
           seenBefore == next \in Resolving(v) \cup {k}
           code == IF d = Absent THEN "UnknownUnit"
                   ELSE IF d \in Faulty THEN "BadSum"
                   ELSE IF seenBefore THEN "Parse" ELSE "OK"
<1>1. next \in Expr \cup {NoExpr} /\ code \in Code
  BY StoreAssumption DEF Code
<1>2. v.reads \cup {<<k, d>>} \in SUBSET (Expr \X (Def \cup {Absent}))
  BY DEF Value
<1> QED BY <1>1, <1>2 DEF LookUp, Frame, Value

-----------------------------------------------------------------------------
\* Type correctness.

ConvertStage == {"lookup", "points", "arg", "reverse", "unit", "from", "split", "to"}
ReloadStage == {"dbwrite", "insert", "listwrite", "extend"}

\* A thread is at a call site of the call it executes.
CallInv ==
  \A t \in Thread : /\ stage[t] \in ConvertStage => call[t].op = "convert"
                    /\ stage[t] \in ReloadStage => call[t].op = "reload"

TypeInv == TypeOK /\ CallInv

LEMMA CallFields ==
  ASSUME NEW c \in Call
  PROVE  /\ c.op = "convert" => c.from \in Expr /\ c.to \in Name
         /\ c.op = "reload" => c.content \in Seq(Line)
         /\ c.op \in {"parse", "conformable"} => c.expr \in Expr
         /\ c.op \in {"parse", "convert", "conformable", "list", "reload"}
BY StoreAssumption DEF Call

LEMMA Constants == /\ NoValue \in Value
                   /\ NoLocal \in Local
                   /\ NoAnswer \in Answer
                   /\ \A e \in Expr \cup {NoExpr} : Pending(e) \in Frame
                   /\ EmptyDatabase \in Database /\ EmptyListing \in Listing
                   /\ Unlocked \in LockState
BY DEF NoValue, Value, Code, NoLocal, Local, NoAnswer, Answer, AnswerCode, Pending, Frame,
       EmptyDatabase, Database, EmptyListing, Listing, Unlocked, LockState

LEMMA GuardTypes ==
  ASSUME NEW l \in LockState, NEW t \in Thread
  PROVE  /\ WithReader(l, t) \in LockState
         /\ WithWriter(l, t) \in LockState
         /\ Without(l, t) \in LockState
BY DEF LockState, WithReader, WithWriter, Without

LEMMA TypeInit == Init => TypeInv
<1> SUFFICES ASSUME Init PROVE TypeInv
  OBVIOUS
<1>1. [op |-> "list"] \in Call
  BY DEF Call
<1>2. call \in [Thread -> Call]
  BY <1>1 DEF Init
<1> QED BY <1>2, Constants, StoreAssumption DEF Init, TypeInv, TypeOK, CallInv, Stage, ConvertStage, ReloadStage

\* The typing of the variables a thread that moves between call sites changes.
LEMMA GotoType ==
  ASSUME TypeOK, NEW t \in Thread, NEW s \in Stage, NEW e \in Expr \cup {NoExpr}, Goto(t, s, e)
  PROVE  stage' \in [Thread -> Stage] /\ eval' \in [Thread -> Frame]
BY Constants DEF TypeOK, Goto

LEMMA ReturnType ==
  ASSUME TypeOK, NEW t \in Thread, NEW code \in AnswerCode, NEW other \in Value,
         NEW names \in SUBSET FullName, Return(t, code, other, names)
  PROVE  /\ stage' \in [Thread -> Stage] /\ eval' \in [Thread -> Frame]
         /\ answer' \in [Thread -> Answer] /\ local' \in [Thread -> Local]
         /\ stage'[t] = "idle" /\ \A u \in Thread \ {t} : stage'[u] = stage[u]
<1>1. stage' \in [Thread -> Stage] /\ eval' \in [Thread -> Frame]
  BY GotoType DEF Return, Stage
<1>2. local[t].val \in Value
  BY DEF TypeOK, Local
<1>3. [code |-> code, val |-> local[t].val, other |-> other, names |-> names] \in Answer
  BY <1>2 DEF Answer
<1>4. answer' \in [Thread -> Answer] /\ local' \in [Thread -> Local]
  BY <1>3, Constants DEF Return, TypeOK
<1>5. stage' = [stage EXCEPT ![t] = "idle"]
  BY DEF Return, Goto
<1> QED BY <1>1, <1>4, <1>5 DEF TypeOK

\* The end of an evaluation leaves the shared variables and the call alone.
LEMMA EvaluatedType ==
  ASSUME TypeInv, NEW t \in Thread, NEW s \in ParseStage, Evaluated(t, s)
  PROVE  /\ dbLock' \in LockState
         /\ UNCHANGED <<lazy, origin, db, listing, listLock, committed, seen, call, left>>
         /\ eval[t].value \in Value /\ eval[t].value.code \in Code
         /\ local[t] \in Local /\ call[t] \in Call
         /\ stage[t] = s
BY GuardTypes DEF TypeInv, TypeOK, Evaluated, storeVars, Frame, Value

\* A call goes on at call site s, or returns.
GoesOn(t, s, e) == Goto(t, s, e) /\ local' \in [Thread -> Local] /\ UNCHANGED answer

LEMMA GoesOnType ==
  ASSUME TypeInv, NEW t \in Thread, NEW s \in Stage, NEW e \in Expr \cup {NoExpr}, GoesOn(t, s, e),
         call' = call, s \in ConvertStage => call[t].op = "convert",
         s \in ReloadStage => call[t].op = "reload"
  PROVE  /\ stage' \in [Thread -> Stage] /\ eval' \in [Thread -> Frame]
         /\ answer' \in [Thread -> Answer] /\ local' \in [Thread -> Local]
         /\ CallInv'
BY GotoType DEF GoesOn, TypeInv, TypeOK, CallInv, Goto

LEMMA ReturnsType ==
  ASSUME TypeInv, NEW t \in Thread, NEW code \in AnswerCode, NEW other \in Value,
         NEW names \in SUBSET FullName, Return(t, code, other, names), call' = call
  PROVE  /\ stage' \in [Thread -> Stage] /\ eval' \in [Thread -> Frame]
         /\ answer' \in [Thread -> Answer] /\ local' \in [Thread -> Local]
         /\ CallInv'
BY ReturnType DEF TypeInv, CallInv, ConvertStage, ReloadStage

LEMMA StartType == ASSUME TypeInv, NEW t \in Thread, Start(t) PROVE TypeInv'
<1>1. call' \in [Thread -> Call] /\ \A u \in Thread \ {t} : call'[u] = call[u]
  BY StoreAssumption DEF Start, TypeInv, TypeOK
<1>2. stage' \in [Thread -> Stage] /\ eval' \in [Thread -> Frame]
  BY GotoType DEF Start, TypeInv, Stage
<1>3. left' \in [Thread -> 0 .. MaxCalls]
  BY StoreAssumption DEF Start, TypeInv, TypeOK
<1>4. answer' \in [Thread -> Answer] /\ seen' \in [Thread -> SUBSET Database]
  BY Constants DEF Start, TypeInv, TypeOK
<1>5. CallInv'
  BY <1>1 DEF Start, Goto, TypeInv, TypeOK, CallInv, ConvertStage, ReloadStage
<1> QED BY <1>1, <1>2, <1>3, <1>4, <1>5 DEF Start, TypeInv, TypeOK

LEMMA BootType == ASSUME TypeInv, NEW t \in Thread, Boot(t) PROVE TypeInv'
<1>1. CASE BootBegin(t)
  <2>1. GoesOn(t, "boot", NoExpr)
    BY <1>1 DEF BootBegin, GoesOn, TypeInv, TypeOK
  <2> QED BY <1>1, <2>1, GoesOnType DEF BootBegin, Stage, ConvertStage, ReloadStage, TypeInv, TypeOK
<1>2. CASE BootInit(t)
  <2>1. GoesOn(t, "publish", NoExpr)
    BY <1>2 DEF BootInit, GoesOn, TypeInv, TypeOK
  <2>2. db' \in Database /\ origin' \in {"unset", "embedded", "empty"}
    BY <1>2, LoadAllType, Constants, StoreAssumption DEF BootInit, TypeInv, TypeOK
  <2>3. seen' \in [Thread -> SUBSET Database]
    BY <1>2, <2>2 DEF BootInit, TypeInv, TypeOK
  <2> QED BY <1>2, <2>1, <2>2, <2>3, GoesOnType DEF BootInit, Stage, ConvertStage, ReloadStage, TypeInv, TypeOK
<1>3. CASE BootPublish(t)
  <2>1. GoesOn(t, "ensure", NoExpr)
    BY <1>3 DEF BootPublish, GoesOn, TypeInv, TypeOK
  <2>2. listing' \in Listing
    BY <1>3, ListingTypes, Constants, StoreAssumption DEF BootPublish
  <2> QED BY <1>3, <2>1, <2>2, GoesOnType DEF BootPublish, Stage, ConvertStage, ReloadStage, TypeInv, TypeOK
<1> QED BY <1>1, <1>2, <1>3 DEF Boot

LEMMA EnterType == ASSUME TypeInv, NEW t \in Thread, Enter(t) PROVE TypeInv'
<1> DEFINE e == IF call[t].op \in {"parse", "conformable"} THEN call[t].expr ELSE NoExpr
           s == FirstStage(call[t])
<1>1. call[t] \in Call
  BY DEF TypeInv, TypeOK
<1>2. e \in Expr \cup {NoExpr}
  BY <1>1, CallFields
<1>3. /\ s \in Stage
      /\ s \in ConvertStage => call[t].op = "convert"
      /\ s \in ReloadStage => call[t].op = "reload"
  BY <1>1, CallFields DEF FirstStage, Stage, ParseStage, ConvertStage, ReloadStage
<1>4. GoesOn(t, s, e) /\ UNCHANGED <<storeVars, dbLock, call, left>>
  BY DEF Enter, GoesOn, TypeInv, TypeOK
<1> HIDE DEF s, e
<1> QED BY <1>2, <1>3, <1>4, GoesOnType DEF storeVars, TypeInv, TypeOK

LEMMA EvaluateType == ASSUME TypeInv, NEW t \in Thread, Evaluate(t) PROVE TypeInv'
<1>1. CASE Acquire(t)
  <2>1. eval' \in [Thread -> Frame] /\ dbLock' \in LockState
    BY <1>1, GuardTypes DEF Acquire, TypeInv, TypeOK, Frame
  <2> QED BY <1>1, <2>1 DEF Acquire, GetDatabase, TypeInv, TypeOK, CallInv
<1>2. CASE Resolve(t)
  <2>1. eval[t] \in Frame /\ eval[t].want \in Expr /\ eval[t].value \in Value
    BY <1>2 DEF Resolve, TypeInv, TypeOK, Frame
  <2>2. db[eval[t].want] \in Def \cup {Absent}
    BY <2>1 DEF TypeInv, TypeOK, Database, Expr
  <2>3. eval' \in [Thread -> Frame]
    BY <1>2, <2>1, <2>2, LookUpType DEF Resolve, TypeInv, TypeOK
  <2> QED BY <1>2, <2>3 DEF Resolve, storeVars, TypeInv, TypeOK, CallInv
<1>3. CASE ParseReturns(t)
  BY <1>3, EvaluatedType, ReturnsType DEF ParseReturns, ParseStage, AnswerCode, TypeInv, TypeOK
<1> QED BY <1>1, <1>2, <1>3 DEF Evaluate

\* What is unchanged by a step that only reads under a guard it drops at once.
LEMMA PeekType ==
  ASSUME TypeInv, NEW t \in Thread, NEW s, Peek(t, s) \/ ReadListing(t, s)
  PROVE  /\ origin' \in {"unset", "embedded", "empty"}
         /\ UNCHANGED <<lazy, db, listing, listLock, committed, seen, dbLock, call, left>>
         /\ stage[t] = s /\ call[t] \in Call /\ local[t] \in Local
BY DEF Peek, ReadListing, GetDatabase, storeVars, TypeInv, TypeOK

LEMMA ConvertType == ASSUME TypeInv, NEW t \in Thread, Convert(t) PROVE TypeInv'
<1> USE DEF Stage, ParseStage, ConvertStage, ReloadStage
<1>1. CASE ConvertLookup(t)
  <2>1. call[t].from \in Expr /\ call[t].to \in Name /\ call[t].op = "convert"
    BY <1>1, PeekType, CallFields DEF ConvertLookup, TypeInv, CallInv
  <2>2. FunctionEntry(t) \in Def \cup {Absent} /\ TableEntry(t) \in Def \cup {Absent}
    BY <2>1 DEF FunctionEntry, TableEntry, TypeInv, TypeOK, Database, Key, DbKind
  <2> DEFINE function == FunctionEntry(t) # Absent
             found == IF function THEN Reverse[FunctionEntry(t)]
                      ELSE IF TableEntry(t) # Absent THEN Refers[TableEntry(t)]
                      ELSE NoExpr
             s == IF found = NoExpr THEN "from" ELSE "arg"
  <2>3. found \in Expr \cup {NoExpr}
    BY <2>2, StoreAssumption
  <2>4. /\ local' = [local EXCEPT ![t] = [local[t] EXCEPT !.expr = found, !.table = ~function]]
        /\ Goto(t, s, call[t].from) /\ UNCHANGED answer
    BY <1>1 DEF ConvertLookup, Store
  <2>5. [local[t] EXCEPT !.expr = found, !.table = ~function] \in Local
    BY <1>1, <2>3, PeekType DEF Local, ConvertLookup
  <2>6. GoesOn(t, s, call[t].from)
    BY <2>4, <2>5 DEF GoesOn, TypeInv, TypeOK
  <2>7. s \in Stage /\ s \notin ReloadStage
    OBVIOUS
  <2> HIDE DEF s, found
  <2> QED BY <1>1, <2>1, <2>6, <2>7, PeekType, GoesOnType DEF ConvertLookup, TypeInv, TypeOK
<1>2. CASE ConvertArg(t)
  <2>1. call[t].from \in Expr /\ call[t].op = "convert" /\ local[t].expr \in Expr \cup {NoExpr}
    BY <1>2, EvaluatedType, CallFields DEF ConvertArg, TypeInv, CallInv, Local
  <2>2. [local[t] EXCEPT !.val = eval[t].value] \in Local
    BY <1>2, EvaluatedType DEF ConvertArg, Local
  <2>3. \E s \in ConvertStage \cap Stage, e \in Expr \cup {NoExpr} : GoesOn(t, s, e)
    BY <1>2, <2>1, <2>2 DEF ConvertArg, Store, Stay, GoesOn, TypeInv, TypeOK
  <2> QED BY <1>2, <2>1, <2>3, EvaluatedType, GoesOnType DEF ConvertArg, TypeInv, TypeOK
<1>3. CASE ConvertReverse(t)
  BY <1>3, EvaluatedType, ReturnsType DEF ConvertReverse, AnswerCode, TypeInv, TypeOK
<1>4. CASE ConvertUnit(t)
  <2>1. call[t].op = "convert"
    BY <1>4, EvaluatedType DEF ConvertUnit, TypeInv, CallInv
  <2>2. \/ GoesOn(t, "points", NoExpr)
        \/ \E code \in AnswerCode : Return(t, code, eval[t].value, {})
    BY <1>4, EvaluatedType DEF ConvertUnit, AnswerCode, Stay, GoesOn, TypeInv, TypeOK
  <2> QED BY <1>4, <2>1, <2>2, EvaluatedType, GoesOnType, ReturnsType DEF ConvertUnit, TypeInv, TypeOK
<1>5. CASE ConvertPoints(t)
  <2>1. call[t].op = "convert" /\ call[t].from \in Expr
    BY <1>5, PeekType, CallFields DEF ConvertPoints, TypeInv, CallInv
  <2>2. \/ GoesOn(t, "from", call[t].from)
        \/ \E code \in AnswerCode : Return(t, code, NoValue, {})
    BY <1>5 DEF ConvertPoints, AnswerCode, Code, Stay, GoesOn, TypeInv, TypeOK
  <2> QED BY <1>5, <2>1, <2>2, PeekType, GoesOnType, ReturnsType, Constants DEF ConvertPoints, TypeInv, TypeOK
<1>6. CASE ConvertFrom(t)
  <2>1. /\ call[t].op = "convert" /\ Split[call[t].from] \in Expr \cup {NoExpr}
        /\ <<"Unit", call[t].to>> \in Expr
    BY <1>6, EvaluatedType, CallFields, StoreAssumption
       DEF ConvertFrom, TypeInv, CallInv, Expr, Key, DbKind
  <2>2. [local[t] EXCEPT !.val = eval[t].value] \in Local
    BY <1>6, EvaluatedType DEF ConvertFrom, Local
  <2>3. \/ GoesOn(t, "to", <<"Unit", call[t].to>>)
        \/ GoesOn(t, "split", Split[call[t].from])
        \/ Return(t, eval[t].value.code, eval[t].value, {})
    BY <1>6, <2>2 DEF ConvertFrom, Store, Stay, GoesOn, TypeInv, TypeOK
  <2> QED BY <1>6, <2>1, <2>3, EvaluatedType, GoesOnType, ReturnsType DEF ConvertFrom, AnswerCode, TypeInv, TypeOK
<1>7. CASE ConvertSplit(t)
  <2>1. call[t].op = "convert" /\ <<"Unit", call[t].to>> \in Expr
    BY <1>7, EvaluatedType, CallFields DEF ConvertSplit, TypeInv, CallInv, Expr, Key, DbKind
  <2>2. [local[t] EXCEPT !.val = eval[t].value] \in Local
    BY <1>7, EvaluatedType DEF ConvertSplit, Local
  <2>3. \/ GoesOn(t, "to", <<"Unit", call[t].to>>)
        \/ Return(t, eval[t].value.code, eval[t].value, {})
    BY <1>7, <2>2 DEF ConvertSplit, Store, GoesOn, TypeInv, TypeOK
  <2> QED BY <1>7, <2>1, <2>3, EvaluatedType, GoesOnType, ReturnsType DEF ConvertSplit, AnswerCode, TypeInv, TypeOK
<1>8. CASE ConvertTo(t)
  <2>1. \E code \in AnswerCode : Return(t, code, eval[t].value, {})
    BY <1>8, EvaluatedType DEF ConvertTo, Ratio, AnswerCode, Code
  <2> QED BY <1>8, <2>1, EvaluatedType, ReturnsType DEF ConvertTo, TypeInv, TypeOK
<1> QED BY <1>1, <1>2, <1>3, <1>4, <1>5, <1>6, <1>7, <1>8 DEF Convert

LEMMA ConformableType ==
  ASSUME TypeInv, NEW t \in Thread, Conformable(t) \/ ListReturns(t)
  PROVE  TypeInv'
<1> USE DEF Stage, ParseStage, ConvertStage, ReloadStage
<1>1. CASE ConformableTarget(t)
  <2>1. [local[t] EXCEPT !.val = eval[t].value] \in Local
    BY <1>1, EvaluatedType DEF ConformableTarget, Local
  <2>2. \/ GoesOn(t, "clone", NoExpr)
        \/ Return(t, eval[t].value.code, eval[t].value, {})
    BY <1>1, <2>1 DEF ConformableTarget, Store, GoesOn, TypeInv, TypeOK
  <2> QED BY <1>1, <2>2, EvaluatedType, GoesOnType, ReturnsType DEF ConformableTarget, AnswerCode, TypeInv, TypeOK
<1>2. CASE ConformableClone(t)
  <2>1. [local[t] EXCEPT !.todo = ListedUnits] \in Local
    <3>1. ListedUnits \in SUBSET FullName /\ local[t] \in Local
      BY DEF ListedUnits, TypeInv, TypeOK
    <3> QED BY <3>1 DEF Local
  <2>2. GoesOn(t, "names", NoExpr)
    BY <1>2, <2>1 DEF ConformableClone, Store, GoesOn, TypeInv, TypeOK
  <2> QED BY <1>2, <2>2, PeekType, GoesOnType DEF ConformableClone, TypeInv, TypeOK
<1>3. CASE ConformableNext(t)
  <2>1. local[t] \in Local
    BY DEF TypeInv, TypeOK
  <2>2. PICK n \in local[t].todo : /\ Store(t, [local[t] EXCEPT !.todo = @ \ {n}, !.cur = {n}])
                                   /\ Goto(t, "name", <<"Unit", Canon[n]>>)
    BY <1>3 DEF ConformableNext
  <2>3. <<"Unit", Canon[n]>> \in Expr
    BY <2>1, DefinitionsAssumption DEF Local, Expr, Key, DbKind
  <2>4. [local[t] EXCEPT !.todo = @ \ {n}, !.cur = {n}] \in Local
    BY <2>1 DEF Local
  <2>5. GoesOn(t, "name", <<"Unit", Canon[n]>>)
    BY <2>2, <2>4 DEF Store, GoesOn, TypeInv, TypeOK
  <2> QED BY <1>3, <2>3, <2>5, GoesOnType DEF ConformableNext, storeVars, TypeInv, TypeOK
<1>4. CASE ConformableName(t)
  <2> DEFINE same == Good(t) /\ eval[t].value.base = local[t].val.base
             f == [local[t] EXCEPT !.cur = {}, !.names = IF same THEN @ \cup local[t].cur ELSE @]
  <2>1. f \in Local
    BY <1>4, EvaluatedType DEF ConformableName, Local
  <2>2. local' = [local EXCEPT ![t] = f] /\ UNCHANGED answer /\ Goto(t, "names", NoExpr)
    BY <1>4 DEF ConformableName, Store
  <2> HIDE DEF f
  <2>3. GoesOn(t, "names", NoExpr)
    BY <2>1, <2>2 DEF GoesOn, TypeInv, TypeOK
  <2> QED BY <1>4, <2>3, EvaluatedType, GoesOnType DEF ConformableName, TypeInv, TypeOK
<1>5. CASE ConformableReturns(t)
  <2>1. local[t].names \in SUBSET FullName
    BY DEF TypeInv, TypeOK, Local
  <2> QED BY <1>5, <2>1, ReturnsType, Constants DEF ConformableReturns, AnswerCode, storeVars, TypeInv, TypeOK, Code
<1>6. CASE ListReturns(t)
  <2> DEFINE names == {s[1] : s \in {s \in Slot : listing[s] # {}}}
  <2>1. names \in SUBSET FullName
    BY DEF Slot
  <2>2. Return(t, "OK", NoValue, names)
    BY <1>6 DEF ListReturns
  <2> HIDE DEF names
  <2> QED BY <1>6, <2>1, <2>2, PeekType, ReturnsType, Constants DEF ListReturns, AnswerCode, Code, TypeInv, TypeOK
<1> QED BY <1>1, <1>2, <1>3, <1>4, <1>5, <1>6 DEF Conformable

LEMMA ReloadType == ASSUME TypeInv, NEW t \in Thread, Reload(t) PROVE TypeInv'
<1> USE DEF Stage, ConvertStage, ReloadStage
<1>1. /\ call[t] \in Call /\ local[t] \in Local
      /\ call[t].op = "reload" => Content(t) \in Seq(Line)
  BY CallFields DEF TypeInv, TypeOK, Content
<1>2. CASE ReloadAcquire(t)
  <2>1. dbLock' \in LockState /\ origin' \in {"unset", "embedded", "empty"}
    BY <1>2, GuardTypes DEF ReloadAcquire, GetDatabase, TypeInv, TypeOK
  <2>2. GoesOn(t, "insert", NoExpr) /\ call[t].op = "reload"
    BY <1>2 DEF ReloadAcquire, GoesOn, TypeInv, TypeOK, CallInv
  <2> QED BY <1>2, <2>1, <2>2, GoesOnType DEF ReloadAcquire, TypeInv, TypeOK
<1>3. CASE ReloadInsert(t)
  <2>1. Content(t) \in Seq(Line) /\ local[t].line \in DOMAIN Content(t)
    <3>1. Content(t) \in Seq(Line) /\ local[t].line \in Nat \ {0}
      BY <1>1, <1>3 DEF ReloadInsert, TypeInv, CallInv, Local
    <3> QED BY <1>3, <3>1 DEF ReloadInsert
  <2>2. db' \in Database
    BY <1>3, <2>1, LineFields, InsertLineType DEF ReloadInsert, TypeInv, TypeOK
  <2>3. [local[t] EXCEPT !.line = @ + 1] \in Local
    BY <1>1 DEF Local
  <2>4. local' \in [Thread -> Local] /\ answer' = answer
    BY <1>3, <2>3 DEF ReloadInsert, Store, TypeInv, TypeOK
  <2> QED BY <1>3, <2>2, <2>4 DEF ReloadInsert, TypeInv, TypeOK, CallInv
<1>4. CASE ReloadCommit(t)
  <2>1. dbLock' \in LockState /\ committed' \in Database /\ seen' \in [Thread -> SUBSET Database]
    BY <1>4, GuardTypes DEF ReloadCommit, TypeInv, TypeOK
  <2>2. GoesOn(t, "listwrite", NoExpr) /\ call[t].op = "reload"
    BY <1>4 DEF ReloadCommit, GoesOn, TypeInv, TypeOK, CallInv
  <2> QED BY <1>4, <2>1, <2>2, GoesOnType DEF ReloadCommit, TypeInv, TypeOK
<1>5. CASE ReloadRetain(t)
  <2>1. GoesOn(t, "extend", NoExpr) /\ call[t].op = "reload"
    BY <1>5 DEF ReloadRetain, GoesOn, TypeInv, TypeOK, CallInv
  <2>2. listLock' \in LockState /\ listing' \in Listing
    BY <1>1, <1>5, <2>1, GuardTypes, ListingTypes DEF ReloadRetain, TypeInv, TypeOK
  <2> QED BY <1>5, <2>1, <2>2, GoesOnType DEF ReloadRetain, TypeInv, TypeOK
<1>6. CASE ReloadExtend(t)
  <2>1. call[t].op = "reload"
    BY <1>6 DEF ReloadExtend, TypeInv, CallInv
  <2>2. listLock' \in LockState /\ listing' \in Listing
    BY <1>1, <1>6, <2>1, GuardTypes, ListingTypes DEF ReloadExtend, TypeInv, TypeOK
  <2> QED BY <1>6, <2>2, ReturnsType, Constants DEF ReloadExtend, AnswerCode, Code, TypeInv, TypeOK
<1> QED BY <1>2, <1>3, <1>4, <1>5, <1>6 DEF Reload

LEMMA TypeNext == TypeInv /\ [Next]_vars => TypeInv'
<1> SUFFICES ASSUME TypeInv, [Next]_vars PROVE TypeInv'
  OBVIOUS
<1>1. CASE UNCHANGED vars
  BY <1>1 DEF vars, storeVars, TypeInv, TypeOK, CallInv
<1>2. CASE \E t \in Thread : Start(t) \/ Step(t)
  BY <1>2, StartType, BootType, EnterType, EvaluateType, ConvertType, ConformableType, ReloadType DEF Step
<1>3. CASE Finished
  BY <1>1, <1>3 DEF Finished
<1> QED BY <1>1, <1>2, <1>3 DEF Next

(* Every variable keeps the shape the code gives it, whatever the threads,   *)
(* definitions, reloaded files and calls are.                                *)
THEOREM TypeCorrect == Spec => []TypeOK
<1>1. Spec => []TypeInv
  BY TypeInit, TypeNext, PTL DEF Spec
<1> QED BY <1>1, PTL DEF TypeInv

-----------------------------------------------------------------------------
\* The inductive invariant behind DatabaseIsEmbedded and EvaluationsAreSnapshots.

\* Call sites no call has yet passed, while DEFINITIONS may still be loading.
EarlyStage == {"idle", "ensure", "boot", "publish"}

\* Only the thread in the LazyLock closure moves origin, from unset to embedded.
BootInv ==
  /\ origin # "empty"
  /\ lazy = "new" => origin = "unset"
  /\ lazy = "done" => origin = "embedded"
  /\ \A t \in Thread : /\ stage[t] \in {"boot", "publish"} => lazy = "running"
                       /\ stage[t] = "boot" => origin = "unset"
                       /\ stage[t] = "publish" => origin = "embedded"
                       /\ stage[t] \notin EarlyStage => lazy = "done"
  /\ \A t, u \in Thread : stage[t] \in {"boot", "publish"} /\ stage[u] \in {"boot", "publish"} => t = u

\* Who holds which guard of the database.
LockInv ==
  /\ dbLock.readers = {t \in Thread : eval[t].on}
  /\ dbLock.writers = {t \in Thread : stage[t] = "insert"}
  /\ dbLock.readers = {} \/ dbLock.writers = {}
  /\ \A t \in Thread : eval[t].on => stage[t] \in ParseStage

\* Without a writer the database is the committed one, which every call in
\* progress has on record.
VersionInv ==
  /\ dbLock.writers = {} => committed = db
  /\ \A t \in Thread : origin # "unset" /\ stage[t] # "idle" => committed \in seen[t]

\* What an evaluation has looked up is still what the database holds.
ReadsInv ==
  \A t \in Thread : /\ ~ eval[t].on => eval[t].value = NoValue
                    /\ \A r \in eval[t].value.reads : db[r[1]] = r[2]

Snapshot(v, t) == v.reads # {} => \E d \in seen[t] : \A r \in v.reads : d[r[1]] = r[2]

Results(t) == {local[t].val, answer[t].val, answer[t].other}

KeptInv == \A t \in Thread : /\ \A v \in Results(t) : Snapshot(v, t)
                             /\ stage[t] = "idle" => local[t].val = NoValue

StoreInv == TypeInv /\ BootInv /\ LockInv /\ VersionInv /\ ReadsInv /\ KeptInv

LEMMA StoreInit == Init => StoreInv
<1> SUFFICES ASSUME Init PROVE StoreInv
  OBVIOUS
<1>1. TypeInv
  BY TypeInit
<1>2. BootInv /\ LockInv
  BY DEF Init, BootInv, EarlyStage, LockInv, Unlocked, Pending
<1>3. VersionInv /\ ReadsInv
  BY DEF Init, VersionInv, ReadsInv, Pending, NoValue
<1>4. KeptInv
  <2>1. \A t \in Thread : Results(t) = {NoValue} /\ local[t].val = NoValue
    BY DEF Init, Results, NoLocal, NoAnswer
  <2>2. NoValue.reads = {}
    BY DEF NoValue
  <2> QED BY <2>1, <2>2 DEF KeptInv, Snapshot
<1> QED BY <1>1, <1>2, <1>3, <1>4 DEF StoreInv

\* Call sites whose steps neither boot nor insert.
CalmStage == Stage \ {"ensure", "boot", "publish", "insert"}

\* A call past ensure goes on at another call site, dropping its read guard
\* if it has one, and keeps at most the evaluation just made.
MovesOn(t) ==
  /\ stage[t] \notin EarlyStage \cup {"insert"}
  /\ \E s \in CalmStage, e \in Expr \cup {NoExpr} : Goto(t, s, e)
  /\ dbLock' = Without(dbLock, t)
  /\ UNCHANGED <<lazy, db, committed, seen>>
  /\ origin' \in {origin, IF origin = "unset" THEN "empty" ELSE origin}
  /\ \A u \in Thread \ {t} : local'[u] = local[u] /\ answer'[u] = answer[u]
  /\ Results(t)' \subseteq Results(t) \cup {eval[t].value, NoValue}
  /\ stage'[t] = "idle" => local'[t].val = NoValue

\* A thread outside an evaluation and outside a reload of the database holds
\* no guard of it.
LEMMA NoGuard ==
  ASSUME StoreInv, NEW t \in Thread, stage[t] \notin ParseStage \cup {"insert"}
  PROVE  Without(dbLock, t) = dbLock
<1>1. t \notin dbLock.readers /\ t \notin dbLock.writers
  BY DEF StoreInv, LockInv
<1>2. dbLock \in LockState
  BY DEF StoreInv, TypeInv, TypeOK
<1> QED BY <1>1, <1>2 DEF Without, LockState

\* What going on does to the results a call keeps.
LEMMA StoreResults ==
  ASSUME TypeInv, NEW t \in Thread, NEW f, f.val \in {local[t].val, eval[t].value}, Store(t, f)
  PROVE  /\ \A u \in Thread \ {t} : local'[u] = local[u] /\ answer'[u] = answer[u]
         /\ Results(t)' \subseteq Results(t) \cup {eval[t].value, NoValue}
BY DEF Store, Results, TypeInv, TypeOK

LEMMA StayResults ==
  ASSUME NEW t \in Thread, Stay
  PROVE  /\ \A u \in Thread \ {t} : local'[u] = local[u] /\ answer'[u] = answer[u]
         /\ Results(t)' \subseteq Results(t) \cup {eval[t].value, NoValue}
BY DEF Stay, Results

\* The two ways in which a step past ensure is a MovesOn step.
LEMMA ReturnMovesOn ==
  ASSUME StoreInv, NEW t \in Thread, NEW code, NEW names, NEW other \in {eval[t].value, NoValue},
         Return(t, code, other, names),
         stage[t] \notin EarlyStage \cup {"insert"},
         dbLock' = Without(dbLock, t), UNCHANGED <<lazy, db, committed, seen>>,
         origin' \in {origin, IF origin = "unset" THEN "empty" ELSE origin}
  PROVE  MovesOn(t)
<1>1. local'[t] = NoLocal /\ answer'[t].val = local[t].val /\ answer'[t].other = other
  BY DEF Return, StoreInv, TypeInv, TypeOK
<1>2. /\ \A u \in Thread \ {t} : local'[u] = local[u] /\ answer'[u] = answer[u]
      /\ Goto(t, "idle", NoExpr)
  BY DEF Return, StoreInv, TypeInv, TypeOK
<1>3. /\ Results(t)' \subseteq Results(t) \cup {eval[t].value, NoValue}
      /\ local'[t].val = NoValue
  BY <1>1 DEF Results, NoLocal
<1>4. "idle" \in CalmStage
  BY DEF CalmStage, Stage
<1> QED BY <1>2, <1>3, <1>4 DEF MovesOn

LEMMA GotoMovesOn ==
  ASSUME StoreInv, NEW t \in Thread, NEW s \in CalmStage \ {"idle"}, NEW e \in Expr \cup {NoExpr},
         Goto(t, s, e), Stay \/ \E f : f.val \in {local[t].val, eval[t].value} /\ Store(t, f),
         stage[t] \notin EarlyStage \cup {"insert"},
         dbLock' = Without(dbLock, t), UNCHANGED <<lazy, db, committed, seen>>,
         origin' \in {origin, IF origin = "unset" THEN "empty" ELSE origin}
  PROVE  MovesOn(t)
<1>1. stage'[t] # "idle"
  BY DEF Goto, StoreInv, TypeInv, TypeOK
<1>2. /\ \A u \in Thread \ {t} : local'[u] = local[u] /\ answer'[u] = answer[u]
      /\ Results(t)' \subseteq Results(t) \cup {eval[t].value, NoValue}
  <2>1. CASE Stay
    BY <2>1, StayResults
  <2>2. CASE \E f : f.val \in {local[t].val, eval[t].value} /\ Store(t, f)
    BY <2>2, StoreResults DEF StoreInv
  <2> QED BY <2>1, <2>2
<1> QED BY <1>1, <1>2 DEF MovesOn

\* At the end of an evaluation, and when a guard is taken for one look.
LEMMA EvaluatedMoves ==
  ASSUME StoreInv, NEW t \in Thread, NEW s \in ParseStage, Evaluated(t, s)
  PROVE  /\ stage[t] \notin EarlyStage \cup {"insert"}
         /\ dbLock' = Without(dbLock, t)
         /\ UNCHANGED <<lazy, db, committed, seen>>
         /\ origin' \in {origin, IF origin = "unset" THEN "empty" ELSE origin}
BY DEF Evaluated, storeVars, EarlyStage, ParseStage

LEMMA PeekMoves ==
  ASSUME StoreInv, NEW t \in Thread, NEW s \in {"lookup", "points", "clone", "list"},
         Peek(t, s) \/ ReadListing(t, s)
  PROVE  /\ stage[t] \notin EarlyStage \cup {"insert"}
         /\ dbLock' = Without(dbLock, t)
         /\ UNCHANGED <<lazy, db, committed, seen>>
         /\ origin' \in {origin, IF origin = "unset" THEN "empty" ELSE origin}
BY NoGuard DEF Peek, ReadListing, GetDatabase, storeVars, EarlyStage, ParseStage

\* An evaluation ended and its value is kept.
LEMMA SavedMovesOn ==
  ASSUME StoreInv, NEW t \in Thread, NEW r \in ParseStage, Evaluated(t, r),
         NEW s \in CalmStage \ {"idle"}, NEW e \in Expr \cup {NoExpr}, Goto(t, s, e),
         Stay \/ Store(t, [local[t] EXCEPT !.val = eval[t].value])
  PROVE  MovesOn(t)
<1>1. local[t] \in Local
  BY DEF StoreInv, TypeInv, TypeOK
<1> DEFINE g == [local[t] EXCEPT !.val = eval[t].value]
<1>2. g.val = eval[t].value
  BY <1>1 DEF Local
<1> HIDE DEF g
<1>3. Stay \/ \E f : f.val \in {local[t].val, eval[t].value} /\ Store(t, f)
  <2>1. Stay \/ Store(t, g)
    BY DEF g
  <2> QED BY <1>2, <2>1
<1> QED BY <1>3, EvaluatedMoves, GotoMovesOn

LEMMA ConvertMovesOn == ASSUME StoreInv, NEW t \in Thread, Convert(t) PROVE MovesOn(t)
<1> USE DEF Stage, ParseStage, CalmStage
<1>1. /\ local[t] \in Local /\ eval[t].value \in Value
      /\ call[t].op = "convert" => /\ call[t].from \in Expr
                                   /\ Split[call[t].from] \in Expr \cup {NoExpr}
                                   /\ <<"Unit", call[t].to>> \in Expr
  BY CallFields, StoreAssumption DEF StoreInv, TypeInv, TypeOK, Frame, Expr, Key, DbKind
<1>2. stage[t] \in ConvertStage => call[t].op = "convert"
  BY DEF StoreInv, TypeInv, CallInv
<1>4. CASE ConvertLookup(t)
  <2> DEFINE function == FunctionEntry(t) # Absent
             found == IF function THEN Reverse[FunctionEntry(t)]
                      ELSE IF TableEntry(t) # Absent THEN Refers[TableEntry(t)]
                      ELSE NoExpr
             f == [local[t] EXCEPT !.expr = found, !.table = ~function]
             s == IF found = NoExpr THEN "from" ELSE "arg"
  <2>1. f.val = local[t].val
    BY <1>1 DEF Local
  <2>2. Store(t, f) /\ Goto(t, s, call[t].from) /\ Peek(t, "lookup")
    BY <1>4 DEF ConvertLookup
  <2>3. s \in CalmStage \ {"idle"} /\ call[t].from \in Expr
    BY <1>1, <1>2, <2>2 DEF ConvertStage, Peek
  <2> HIDE DEF f, s
  <2> QED BY <2>1, <2>2, <2>3, PeekMoves, GotoMovesOn
<1>5. CASE ConvertArg(t)
  <2>1. call[t].from \in Expr /\ local[t].expr \in Expr \cup {NoExpr}
    BY <1>1, <1>2, <1>5 DEF ConvertArg, Evaluated, ConvertStage, Local
  <2> DEFINE s == IF local[t].table THEN "unit" ELSE "reverse"
  <2>2. Evaluated(t, "arg") /\ s \in CalmStage \ {"idle"}
    BY <1>5 DEF ConvertArg
  <2>3. CASE Store(t, [local[t] EXCEPT !.val = eval[t].value]) /\ Goto(t, s, local[t].expr)
    <3> HIDE DEF s
    <3> QED BY <2>1, <2>2, <2>3, SavedMovesOn
  <2>4. CASE Stay /\ Goto(t, "from", call[t].from)
    BY <2>1, <2>2, <2>4, SavedMovesOn
  <2> QED BY <1>5, <2>3, <2>4 DEF ConvertArg
<1>6. CASE ConvertReverse(t)
  BY <1>6, EvaluatedMoves, ReturnMovesOn DEF ConvertReverse
<1>7. CASE ConvertUnit(t)
  <2>1. \/ Stay /\ Goto(t, "points", NoExpr)
        \/ \E code \in AnswerCode : Return(t, code, eval[t].value, {})
    BY <1>1, <1>7 DEF ConvertUnit, AnswerCode, Value
  <2> QED BY <1>7, <2>1, EvaluatedMoves, GotoMovesOn, ReturnMovesOn DEF ConvertUnit
<1>8. CASE ConvertPoints(t)
  <2>1. call[t].from \in Expr
    BY <1>1, <1>2, <1>8 DEF ConvertPoints, Peek, ConvertStage
  <2> QED BY <1>8, <2>1, PeekMoves, GotoMovesOn, ReturnMovesOn DEF ConvertPoints
<1>9. CASE ConvertFrom(t)
  <2>1. call[t].op = "convert"
    BY <1>2, <1>9 DEF ConvertFrom, Evaluated, ConvertStage
  <2>2. \/ /\ Store(t, [local[t] EXCEPT !.val = eval[t].value])
           /\ Goto(t, "to", <<"Unit", call[t].to>>)
        \/ Stay /\ Goto(t, "split", Split[call[t].from])
        \/ Return(t, eval[t].value.code, eval[t].value, {})
    BY <1>9 DEF ConvertFrom
  <2>3. Evaluated(t, "from")
    BY <1>9 DEF ConvertFrom
  <2>4. CASE Return(t, eval[t].value.code, eval[t].value, {})
    BY <2>3, <2>4, EvaluatedMoves, ReturnMovesOn
  <2> QED BY <1>1, <2>1, <2>2, <2>3, <2>4, SavedMovesOn
<1>10. CASE ConvertSplit(t)
  <2>1. call[t].op = "convert"
    BY <1>2, <1>10 DEF ConvertSplit, Evaluated, ConvertStage
  <2>2. Evaluated(t, "split")
    BY <1>10 DEF ConvertSplit
  <2>3. CASE Return(t, eval[t].value.code, eval[t].value, {})
    BY <2>2, <2>3, EvaluatedMoves, ReturnMovesOn
  <2> QED BY <1>1, <1>10, <2>1, <2>2, <2>3, SavedMovesOn DEF ConvertSplit
<1>11. CASE ConvertTo(t)
  BY <1>11, EvaluatedMoves, ReturnMovesOn DEF ConvertTo
<1> QED BY <1>4, <1>5, <1>6, <1>7, <1>8, <1>9, <1>10, <1>11 DEF Convert

LEMMA ConformableMovesOn ==
  ASSUME StoreInv, NEW t \in Thread, Conformable(t) \/ ListReturns(t)
  PROVE  MovesOn(t)
<1> USE DEF Stage, ParseStage, CalmStage
<1>1. local[t] \in Local
  BY DEF StoreInv, TypeInv, TypeOK
<1>2. CASE ConformableTarget(t)
  <2>1. Evaluated(t, "target")
    BY <1>2 DEF ConformableTarget
  <2>2. CASE Return(t, eval[t].value.code, eval[t].value, {})
    BY <2>1, <2>2, EvaluatedMoves, ReturnMovesOn
  <2> QED BY <1>2, <2>1, <2>2, SavedMovesOn DEF ConformableTarget
<1>3. CASE ConformableClone(t)
  <2> DEFINE f == [local[t] EXCEPT !.todo = ListedUnits]
  <2>1. f.val = local[t].val
    BY <1>1 DEF Local
  <2>2. Store(t, f) /\ Goto(t, "names", NoExpr) /\ ReadListing(t, "clone")
    BY <1>3 DEF ConformableClone
  <2> HIDE DEF f
  <2> QED BY <2>1, <2>2, PeekMoves, GotoMovesOn
<1>4. CASE ConformableNext(t)
  <2>1. PICK n \in local[t].todo : /\ Store(t, [local[t] EXCEPT !.todo = @ \ {n}, !.cur = {n}])
                                   /\ Goto(t, "name", <<"Unit", Canon[n]>>)
    BY <1>4 DEF ConformableNext
  <2> DEFINE f == [local[t] EXCEPT !.todo = @ \ {n}, !.cur = {n}]
  <2>2. f.val = local[t].val
    BY <1>1 DEF Local
  <2>3. <<"Unit", Canon[n]>> \in Expr
    BY <1>1, DefinitionsAssumption DEF Local, Expr, Key, DbKind
  <2>4. Store(t, f) /\ Goto(t, "name", <<"Unit", Canon[n]>>)
    BY <2>1
  <2> HIDE DEF f
  <2>5. stage[t] = "names" /\ dbLock' = Without(dbLock, t) /\ UNCHANGED storeVars
    BY <1>4, NoGuard DEF ConformableNext
  <2>6. /\ stage[t] \notin EarlyStage \cup {"insert"}
        /\ dbLock' = Without(dbLock, t) /\ UNCHANGED <<lazy, db, committed, seen>>
        /\ origin' \in {origin, IF origin = "unset" THEN "empty" ELSE origin}
    BY <2>5 DEF storeVars, EarlyStage
  <2> QED BY <2>2, <2>3, <2>4, <2>6, GotoMovesOn
<1>5. CASE ConformableName(t)
  <2> DEFINE same == Good(t) /\ eval[t].value.base = local[t].val.base
             f == [local[t] EXCEPT !.cur = {}, !.names = IF same THEN @ \cup local[t].cur ELSE @]
  <2>1. f.val = local[t].val
    BY <1>1 DEF Local
  <2>2. Store(t, f) /\ Goto(t, "names", NoExpr) /\ Evaluated(t, "name")
    BY <1>5 DEF ConformableName
  <2> HIDE DEF f
  <2> QED BY <2>1, <2>2, EvaluatedMoves, GotoMovesOn
<1>6. CASE ConformableReturns(t)
  <2>1. stage[t] = "names" /\ dbLock' = Without(dbLock, t) /\ UNCHANGED storeVars
    BY <1>6, NoGuard DEF ConformableReturns
  <2> QED BY <1>6, <2>1, ReturnMovesOn DEF ConformableReturns, storeVars, EarlyStage
<1>7. CASE ListReturns(t)
  BY <1>7, PeekMoves, ReturnMovesOn DEF ListReturns
<1> QED BY <1>2, <1>3, <1>4, <1>5, <1>6, <1>7 DEF Conformable

LEMMA OthersMoveOn ==
  ASSUME StoreInv, NEW t \in Thread, ParseReturns(t) \/ ReloadRetain(t) \/ ReloadExtend(t)
  PROVE  MovesOn(t)
<1> USE DEF ParseStage, Stage, CalmStage
<1>1. CASE ParseReturns(t)
  BY <1>1, EvaluatedMoves, ReturnMovesOn DEF ParseReturns
<1>2. CASE ReloadRetain(t)
  <2>1. dbLock' = Without(dbLock, t) /\ stage[t] \notin EarlyStage \cup {"insert"}
    BY <1>2, NoGuard DEF ReloadRetain, EarlyStage
  <2> QED BY <1>2, <2>1, GotoMovesOn DEF ReloadRetain, Stay
<1>3. CASE ReloadExtend(t)
  <2>1. dbLock' = Without(dbLock, t) /\ stage[t] \notin EarlyStage \cup {"insert"}
    BY <1>3, NoGuard DEF ReloadExtend, EarlyStage
  <2> QED BY <1>3, <2>1, ReturnMovesOn DEF ReloadExtend
<1> QED BY <1>1, <1>2, <1>3

\* Going on preserves the invariant.
LEMMA MovesOnStoreInv ==
  ASSUME StoreInv, TypeInv', NEW t \in Thread, MovesOn(t)
  PROVE  StoreInv'
<1>1. PICK s \in CalmStage, e \in Expr \cup {NoExpr} : Goto(t, s, e)
  BY DEF MovesOn
<1>2. /\ stage' = [stage EXCEPT ![t] = s] /\ eval' = [eval EXCEPT ![t] = Pending(e)]
      /\ stage \in [Thread -> Stage] /\ eval \in [Thread -> Frame]
      /\ stage[t] \notin EarlyStage \cup {"insert"}
      /\ s \notin {"ensure", "boot", "publish", "insert"}
  BY <1>1 DEF Goto, StoreInv, TypeInv, TypeOK, MovesOn, CalmStage
<1>3. BootInv' /\ origin' = origin
  <2>1. lazy = "done" /\ origin = "embedded"
    BY <1>2 DEF StoreInv, BootInv
  <2>2. lazy' = "done" /\ origin' = "embedded"
    BY <2>1 DEF MovesOn
  <2> QED BY <1>2, <2>1, <2>2 DEF StoreInv, BootInv, EarlyStage
<1>4. LockInv'
  <2>1. \A u \in Thread : eval'[u].on <=> eval[u].on /\ u # t
    BY <1>2 DEF Pending
  <2>2. \A u \in Thread : stage'[u] = "insert" <=> stage[u] = "insert" /\ u # t
    BY <1>2
  <2>3. dbLock'.readers = dbLock.readers \ {t} /\ dbLock'.writers = dbLock.writers \ {t}
    BY DEF MovesOn, Without
  <2> QED BY <1>2, <2>1, <2>2, <2>3 DEF StoreInv, LockInv
<1>5. VersionInv'
  <2>1. dbLock'.writers = dbLock.writers
    BY <1>2 DEF StoreInv, LockInv, MovesOn, Without
  <2>2. \A u \in Thread : stage'[u] # "idle" => stage[u] # "idle"
    BY <1>2 DEF EarlyStage
  <2> QED BY <1>3, <2>1, <2>2 DEF StoreInv, VersionInv, MovesOn
<1>6. ReadsInv'
  BY <1>2 DEF StoreInv, ReadsInv, MovesOn, Pending, NoValue
<1>7. KeptInv'
  <2>1. Snapshot(eval[t].value, t)
    <3>1. CASE ~ eval[t].on
      BY <3>1 DEF StoreInv, ReadsInv, NoValue, Snapshot
    <3>2. CASE eval[t].on
      <4>1. db \in seen[t]
        BY <3>2, <1>2 DEF StoreInv, LockInv, VersionInv, BootInv, EarlyStage
      <4> QED BY <4>1 DEF StoreInv, ReadsInv, Snapshot
    <3> QED BY <3>1, <3>2
  <2>2. \A v \in Results(t) \cup {eval[t].value, NoValue} : Snapshot(v, t)
    BY <2>1 DEF StoreInv, KeptInv, Snapshot, NoValue
  <2>3. \A u \in Thread : \A v : Snapshot(v, u) => Snapshot(v, u)'
    BY DEF Snapshot, MovesOn
  <2>4. \A u \in Thread \ {t} : Results(u)' = Results(u) /\ local'[u] = local[u] /\ stage'[u] = stage[u]
    BY <1>2 DEF Results, MovesOn
  <2> QED BY <2>2, <2>3, <2>4 DEF StoreInv, KeptInv, MovesOn
<1> QED BY <1>3, <1>4, <1>5, <1>6, <1>7 DEF StoreInv

\* The steps before ensure is passed: a call starts, the closure of the
\* LazyLock runs, the call enters its function.
LEMMA EarlyStoreInv ==
  ASSUME StoreInv, TypeInv', NEW t \in Thread, Start(t) \/ Boot(t) \/ Enter(t)
  PROVE  StoreInv'
<1>1. /\ stage \in [Thread -> Stage] /\ eval \in [Thread -> Frame]
      /\ seen \in [Thread -> SUBSET Database] /\ answer \in [Thread -> Answer]
  BY DEF StoreInv, TypeInv, TypeOK
<1>1a. PICK s \in Stage \ {"insert"} : \E e : Goto(t, s, e)
  <2>1. FirstStage(call[t]) \in Stage \ {"insert"}
    BY DEF FirstStage, StoreInv, TypeInv, TypeOK, Call, Stage, ParseStage
  <2> QED BY <2>1 DEF Start, Boot, BootBegin, BootInit, BootPublish, Enter, Stage
<1>2. PICK e : Goto(t, s, e)
  BY <1>1a
<1>3. stage[t] \in {"idle", "ensure", "boot", "publish"} /\ ~ eval[t].on
  <2>1. stage[t] \in {"idle", "ensure", "boot", "publish"}
    BY DEF Start, Boot, BootBegin, BootInit, BootPublish, Enter
  <2> QED BY <2>1 DEF StoreInv, LockInv, ParseStage
<1>4. dbLock' = dbLock
  BY DEF Start, Boot, BootBegin, BootInit, BootPublish, Enter
<1>5. /\ stage' = [stage EXCEPT ![t] = s] /\ eval' = [eval EXCEPT ![t] = Pending(e)]
  BY <1>2 DEF Goto
<1>6. LockInv'
  BY <1>1, <1>3, <1>4, <1>5 DEF StoreInv, LockInv, Pending
<1>7. BootInv'
  <2>1. CASE Start(t)
    BY <2>1, <1>1 DEF Start, Goto, StoreInv, BootInv, EarlyStage
  <2>2. CASE BootBegin(t)
    BY <2>2, <1>1 DEF BootBegin, Goto, StoreInv, BootInv, EarlyStage
  <2>3. CASE BootInit(t)
    BY <2>3, <1>1 DEF BootInit, Goto, StoreInv, BootInv, EarlyStage
  <2>4. CASE BootPublish(t)
    BY <2>4, <1>1 DEF BootPublish, Goto, StoreInv, BootInv, EarlyStage
  <2>5. CASE Enter(t)
    <3>1. FirstStage(call[t]) \notin {"boot", "publish"}
      BY DEF FirstStage, StoreInv, TypeInv, TypeOK, Call
    <3> DEFINE s0 == FirstStage(call[t])
    <3>2. /\ stage' = [stage EXCEPT ![t] = s0] /\ lazy = "done" /\ lazy' = lazy /\ origin' = origin
          /\ s0 \notin {"boot", "publish"}
      BY <2>5, <3>1 DEF Enter, Goto, storeVars
    <3> HIDE DEF s0
    <3> QED BY <3>2, <1>1 DEF StoreInv, BootInv
  <2> QED BY <2>1, <2>2, <2>3, <2>4, <2>5 DEF Boot
<1>8. (db' = db /\ committed' = committed) \/ BootInit(t)
  BY DEF Start, Boot, BootBegin, BootPublish, Enter, storeVars
<1>9. VersionInv'
  <2>1. CASE Start(t)
    BY <2>1, <1>1, <1>4 DEF Start, Goto, StoreInv, VersionInv
  <2>2. CASE BootInit(t)
    <3>1. committed' = db' /\ seen' = [u \in Thread |-> seen[u] \cup {db'}]
      BY <2>2 DEF BootInit
    <3> QED BY <3>1 DEF VersionInv
  <2>3. CASE BootBegin(t) \/ BootPublish(t) \/ Enter(t)
    <3>1. /\ UNCHANGED <<origin, db, committed, seen>>
          /\ stage[t] # "idle"
      BY <2>3 DEF BootBegin, BootPublish, Enter, storeVars
    <3> QED BY <3>1, <1>1, <1>4, <1>5 DEF StoreInv, VersionInv
  <2> QED BY <2>1, <2>2, <2>3 DEF Boot
<1>10. ReadsInv'
  <2>1. \A u \in Thread : eval'[u].value = IF u = t THEN NoValue ELSE eval[u].value
    BY <1>1, <1>5 DEF Pending
  <2>2. \A u \in Thread : ~ eval'[u].on => eval'[u].value = NoValue
    BY <1>1, <1>5, <2>1 DEF StoreInv, ReadsInv
  <2>3. NoValue.reads = {}
    BY DEF NoValue
  <2>4. CASE db' = db
    <3>1. \A u \in Thread : \A r \in eval'[u].value.reads : db[r[1]] = r[2]
      BY <2>1, <2>3 DEF StoreInv, ReadsInv
    <3> QED BY <2>2, <2>4, <3>1 DEF ReadsInv
  <2>5. CASE BootInit(t)
    <3>1. \A u \in Thread : ~ eval[u].on
      BY <2>5 DEF BootInit, StoreInv, BootInv, LockInv, EarlyStage, ParseStage
    <3>2. \A u \in Thread : eval'[u].value.reads = {}
      BY <2>1, <2>3, <3>1 DEF StoreInv, ReadsInv
    <3> QED BY <2>2, <3>2 DEF ReadsInv
  <2> QED BY <1>8, <2>4, <2>5
<1>11. KeptInv'
  <2>1. local' = local
    BY DEF Start, Boot, BootBegin, BootInit, BootPublish, Enter
  <2>2. \A u \in Thread : stage'[u] = "idle" => stage[u] = "idle"
    BY <1>1, <1>5, <1>2 DEF Start, Boot, BootBegin, BootInit, BootPublish, Enter, Goto,
       FirstStage, StoreInv, TypeInv, TypeOK, Call
  <2>3. CASE Start(t)
    <3>1. Results(t)' = {NoValue}
      BY <2>1, <2>3, <1>1 DEF Start, Results, NoAnswer, StoreInv, KeptInv
    <3>2. \A u \in Thread \ {t} : Results(u)' = Results(u) /\ seen'[u] = seen[u]
      BY <2>1, <2>3, <1>1 DEF Start, Results
    <3>3. \A v \in Results(t)' : Snapshot(v, t)'
      BY <3>1 DEF Snapshot, NoValue
    <3>4. \A u \in Thread \ {t} : \A v \in Results(u)' : Snapshot(v, u)'
      BY <3>2 DEF StoreInv, KeptInv, Snapshot
    <3> QED BY <2>1, <2>2, <3>3, <3>4 DEF StoreInv, KeptInv
  <2>4. CASE Boot(t) \/ Enter(t)
    <3>1. answer' = answer /\ \A u \in Thread : seen[u] \subseteq seen'[u]
      BY <2>4, <1>1 DEF Boot, BootBegin, BootInit, BootPublish, Enter, storeVars
    <3>2. \A u \in Thread : \A v \in Results(u)' : v \in Results(u) /\ Snapshot(v, u)'
      BY <2>1, <3>1 DEF StoreInv, KeptInv, Results, Snapshot
    <3> QED BY <2>1, <2>2, <3>2 DEF StoreInv, KeptInv
  <2> QED BY <2>3, <2>4
<1> QED BY <1>6, <1>7, <1>9, <1>10, <1>11 DEF StoreInv

\* An evaluation takes its guard, and looks an entry up.
LEMMA EvaluationStoreInv ==
  ASSUME StoreInv, TypeInv', NEW t \in Thread, Acquire(t) \/ Resolve(t)
  PROVE  StoreInv'
<1>1. /\ stage \in [Thread -> Stage] /\ eval \in [Thread -> Frame] /\ dbLock \in LockState
  BY DEF StoreInv, TypeInv, TypeOK
<1>2. /\ UNCHANGED <<lazy, db, committed, seen, stage, local, answer>>
      /\ stage[t] \in ParseStage
  BY DEF Acquire, Resolve, storeVars, StoreInv, LockInv
<1>3. origin' = origin /\ BootInv'
  <2>1. lazy = "done" /\ origin = "embedded"
    BY <1>2 DEF StoreInv, BootInv, EarlyStage, ParseStage
  <2>2. origin' = origin
    BY <2>1 DEF Acquire, Resolve, GetDatabase, storeVars
  <2> QED BY <1>2, <2>2 DEF StoreInv, BootInv
<1>4. CASE Acquire(t)
  <2>1. /\ eval' = [eval EXCEPT ![t].on = TRUE] /\ dbLock' = WithReader(dbLock, t)
        /\ dbLock.writers = {}
    BY <1>4 DEF Acquire, CanRead
  <2>2. \A u \in Thread : /\ eval'[u].on <=> eval[u].on \/ u = t
                          /\ eval'[u].value = eval[u].value
    BY <1>1, <2>1 DEF Frame
  <2>3. dbLock'.readers = dbLock.readers \cup {t} /\ dbLock'.writers = {}
    BY <1>1, <2>1 DEF WithReader, LockState
  <2>4. LockInv' /\ VersionInv'
    BY <1>2, <1>3, <2>1, <2>2, <2>3 DEF StoreInv, LockInv, VersionInv
  <2>5. ReadsInv'
    BY <1>2, <2>2 DEF StoreInv, ReadsInv
  <2>6. KeptInv'
    BY <1>2 DEF StoreInv, KeptInv, Results, Snapshot
  <2> QED BY <1>3, <2>4, <2>5, <2>6 DEF StoreInv
<1>5. CASE Resolve(t)
  <2> DEFINE k == eval[t].want
  <2>1. /\ eval' = [eval EXCEPT ![t] = LookUp(eval[t].value, k, db[k])]
        /\ dbLock' = dbLock /\ eval[t].on
    BY <1>5 DEF Resolve
  <2>2. LookUp(eval[t].value, k, db[k]).on
    BY DEF LookUp
  <2>3. LookUp(eval[t].value, k, db[k]).value.reads = eval[t].value.reads \cup {<<k, db[k]>>}
    BY DEF LookUp
  <2>4. \A u \in Thread : /\ eval'[u].on <=> eval[u].on
                          /\ u # t => eval'[u] = eval[u]
                          /\ eval'[u].value.reads =
                               IF u = t THEN eval[u].value.reads \cup {<<k, db[k]>>}
                               ELSE eval[u].value.reads
    BY <1>1, <2>1, <2>2, <2>3
  <2>5. LockInv' /\ VersionInv'
    BY <1>2, <1>3, <2>1, <2>4 DEF StoreInv, LockInv, VersionInv
  <2>6. ReadsInv'
    <3>1. \A u \in Thread : ~ eval'[u].on => eval'[u].value = NoValue
      BY <2>1, <2>4 DEF StoreInv, ReadsInv
    <3>2. ASSUME NEW u \in Thread, NEW r \in eval'[u].value.reads PROVE db[r[1]] = r[2]
      <4>1. CASE r \in eval[u].value.reads
        BY <4>1 DEF StoreInv, ReadsInv
      <4>2. CASE r = <<k, db[k]>>
        BY <4>2
      <4>3. r \in eval[u].value.reads \/ r = <<k, db[k]>>
        <5> HIDE DEF k
        <5> QED BY <2>4
      <4> QED BY <4>1, <4>2, <4>3
    <3> QED BY <1>2, <3>1, <3>2 DEF ReadsInv
  <2>7. KeptInv'
    BY <1>2 DEF StoreInv, KeptInv, Results, Snapshot
  <2> QED BY <1>3, <2>5, <2>6, <2>7 DEF StoreInv
<1> QED BY <1>4, <1>5

\* The database is locked, changed line by line, and released.
LEMMA ReloadStoreInv ==
  ASSUME StoreInv, TypeInv', NEW t \in Thread,
         ReloadAcquire(t) \/ ReloadInsert(t) \/ ReloadCommit(t)
  PROVE  StoreInv'
<1>1. /\ stage \in [Thread -> Stage] /\ eval \in [Thread -> Frame] /\ dbLock \in LockState
      /\ local \in [Thread -> Local] /\ seen \in [Thread -> SUBSET Database]
  BY DEF StoreInv, TypeInv, TypeOK
<1>2. stage[t] \in {"dbwrite", "insert"} /\ UNCHANGED <<lazy, answer>>
  BY DEF ReloadAcquire, ReloadInsert, ReloadCommit, Store
<1>3. ~ eval[t].on /\ eval[t].value = NoValue
  BY <1>2 DEF StoreInv, LockInv, ReadsInv, ParseStage
<1>4. /\ \A u \in Thread : eval'[u].on <=> eval[u].on
      /\ \A u \in Thread : eval'[u].value = eval[u].value
      /\ \A u \in Thread \ {t} : stage'[u] = stage[u]
      /\ stage'[t] \in {"insert", "listwrite"}
  BY <1>1, <1>2, <1>3 DEF ReloadAcquire, ReloadInsert, ReloadCommit, Goto, Pending
<1>5. origin' = origin /\ BootInv'
  <2>1. lazy = "done" /\ origin = "embedded"
    BY <1>2 DEF StoreInv, BootInv, EarlyStage
  <2>2. origin' = origin
    BY <2>1 DEF ReloadAcquire, ReloadInsert, ReloadCommit, GetDatabase
  <2> QED BY <1>2, <1>4, <2>1, <2>2 DEF StoreInv, BootInv, EarlyStage
<1>6. LockInv' /\ VersionInv' /\ ReadsInv'
  <2>1. CASE ReloadAcquire(t)
    <3>1. /\ dbLock'.readers = {} /\ dbLock'.writers = {t} /\ dbLock.writers = {}
          /\ stage'[t] = "insert" /\ stage[t] = "dbwrite"
          /\ UNCHANGED <<db, committed, seen>>
      BY <1>1, <2>1 DEF ReloadAcquire, WithWriter, CanWrite, LockState, Goto
    <3>2. dbLock.readers = {}
      BY <2>1 DEF ReloadAcquire, CanWrite
    <3>3. LockInv'
      BY <1>4, <3>1, <3>2 DEF StoreInv, LockInv
    <3>4. VersionInv' /\ ReadsInv'
      BY <1>4, <1>5, <3>1 DEF StoreInv, VersionInv, ReadsInv
    <3> QED BY <3>3, <3>4
  <2>2. CASE ReloadInsert(t)
    <3>1. /\ stage[t] = "insert" /\ UNCHANGED <<dbLock, committed, seen, stage>>
      BY <2>2 DEF ReloadInsert
    <3>2. dbLock.writers # {} /\ \A u \in Thread : ~ eval[u].on
      BY <3>1 DEF StoreInv, LockInv
    <3>3. LockInv' /\ VersionInv'
      BY <1>4, <1>5, <3>1, <3>2 DEF StoreInv, LockInv, VersionInv
    <3>4. ReadsInv'
      BY <1>4, <3>2 DEF StoreInv, ReadsInv, NoValue
    <3> QED BY <3>3, <3>4
  <2>3. CASE ReloadCommit(t)
    <3>1. /\ stage[t] = "insert" /\ stage'[t] = "listwrite"
          /\ db' = db /\ committed' = db /\ seen' = [u \in Thread |-> seen[u] \cup {db}]
          /\ dbLock' = Without(dbLock, t)
      BY <1>1, <2>3 DEF ReloadCommit, Goto
    <3>2. dbLock'.readers = dbLock.readers \ {t} /\ dbLock'.writers = dbLock.writers \ {t}
      BY <3>1 DEF Without
    <3>3. LockInv'
      BY <1>3, <1>4, <3>1, <3>2 DEF StoreInv, LockInv
    <3>4. VersionInv' /\ ReadsInv'
      BY <1>4, <3>1 DEF StoreInv, VersionInv, ReadsInv
    <3> QED BY <3>3, <3>4
  <2> QED BY <2>1, <2>2, <2>3
<1>7. KeptInv'
  <2>1. \A u \in Thread : local'[u].val = local[u].val
    BY <1>1 DEF ReloadAcquire, ReloadInsert, ReloadCommit, Store, Local
  <2>2. \A u \in Thread : seen[u] \subseteq seen'[u]
    BY <1>1 DEF ReloadAcquire, ReloadInsert, ReloadCommit
  <2>3. \A u \in Thread : Results(u)' = Results(u)
    BY <1>2, <2>1 DEF Results
  <2>4. \A u \in Thread : \A v \in Results(u)' : Snapshot(v, u)'
    BY <2>2, <2>3 DEF StoreInv, KeptInv, Snapshot
  <2>5. \A u \in Thread : stage'[u] = "idle" => stage[u] = "idle"
    BY <1>4
  <2> QED BY <2>1, <2>4, <2>5 DEF StoreInv, KeptInv
<1> QED BY <1>5, <1>6, <1>7 DEF StoreInv

LEMMA StoreNext == StoreInv /\ [Next]_vars => StoreInv'
<1> SUFFICES ASSUME StoreInv, [Next]_vars PROVE StoreInv'
  OBVIOUS
<1>1. TypeInv'
  BY TypeNext DEF StoreInv
<1>2. CASE UNCHANGED vars
  BY <1>1, <1>2 DEF vars, storeVars, StoreInv, BootInv, LockInv, VersionInv, ReadsInv, KeptInv,
     Results, Snapshot
<1>3. ASSUME NEW t \in Thread, Start(t) \/ Step(t)
      PROVE  StoreInv'
  <2>1. CASE Start(t) \/ Boot(t) \/ Enter(t)
    BY <1>1, <2>1, EarlyStoreInv
  <2>2. CASE Acquire(t) \/ Resolve(t)
    BY <1>1, <2>2, EvaluationStoreInv
  <2>3. CASE ReloadAcquire(t) \/ ReloadInsert(t) \/ ReloadCommit(t)
    BY <1>1, <2>3, ReloadStoreInv
  <2>4. CASE \/ Convert(t) \/ Conformable(t) \/ ListReturns(t)
             \/ ParseReturns(t) \/ ReloadRetain(t) \/ ReloadExtend(t)
    BY <1>1, <2>4, ConvertMovesOn, ConformableMovesOn, OthersMoveOn, MovesOnStoreInv
  <2> QED BY <1>3, <2>1, <2>2, <2>3, <2>4 DEF Step, Evaluate, Reload
<1> QED BY <1>2, <1>3 DEF Next, Finished

LEMMA StoreInvariant == Spec => []StoreInv
BY StoreInit, StoreNext, PTL DEF Spec

(* database::get never makes up an empty database, however many threads call *)
(* the crate for the first time at once.                                     *)
THEOREM NeverEmpty == Spec => []DatabaseIsEmbedded
<1>1. StoreInv => DatabaseIsEmbedded
  BY DEF StoreInv, BootInv, DatabaseIsEmbedded
<1> QED BY <1>1, StoreInvariant, PTL

(* Whatever one evaluation looked up was in one database that was current    *)
(* during the call, for any number of threads, reloads and definitions.      *)
THEOREM SnapshotReads == Spec => []EvaluationsAreSnapshots
<1>1. StoreInv => EvaluationsAreSnapshots
  <2> SUFFICES ASSUME StoreInv, NEW t \in Thread PROVE
        \A v \in {eval[t].value, local[t].val, answer[t].val, answer[t].other} : Snapshot(v, t)
    BY DEF EvaluationsAreSnapshots, Snapshot
  <2>1. Snapshot(eval[t].value, t)
    <3>1. CASE ~ eval[t].on
      BY <3>1 DEF StoreInv, ReadsInv, NoValue, Snapshot
    <3>2. CASE eval[t].on
      <4>1. db \in seen[t]
        BY <3>2 DEF StoreInv, LockInv, VersionInv, BootInv, EarlyStage, ParseStage
      <4> QED BY <4>1 DEF StoreInv, ReadsInv, Snapshot
    <3> QED BY <3>1, <3>2
  <2> QED BY <2>1 DEF StoreInv, KeptInv, Results
<1> QED BY <1>1, StoreInvariant, PTL

-----------------------------------------------------------------------------
\* What a step of one thread leaves to the others.

\* The call sites of each public function, past ensure_definitions.
CallSites(op) == CASE op = "parse" -> {"expr"}
                   [] op = "convert" -> ConvertStage
                   [] op = "conformable" -> {"target", "clone", "names", "name"}
                   [] op = "list" -> {"list"}
                   [] op = "reload" -> ReloadStage

SiteInv == \A t \in Thread : stage[t] \in EarlyStage \cup CallSites(call[t].op)

LEMMA OthersKeep ==
  ASSUME TypeInv, NEW t \in Thread, Start(t) \/ Step(t), NEW u \in Thread, u # t
  PROVE  /\ stage'[u] = stage[u] /\ call'[u] = call[u] /\ eval'[u] = eval[u]
         /\ local'[u] = local[u] /\ answer'[u] = answer[u]
<1> USE DEF TypeInv, TypeOK
<1>1. CASE Start(t) \/ Boot(t) \/ Enter(t)
  BY <1>1 DEF Start, Boot, BootBegin, BootInit, BootPublish, Enter, Goto, storeVars
<1>2. CASE Evaluate(t)
  BY <1>2 DEF Evaluate, Acquire, Resolve, ParseReturns, Evaluated, Return, Goto, storeVars
<1>3. CASE ConvertLookup(t) \/ ConvertArg(t) \/ ConvertReverse(t) \/ ConvertUnit(t)
  BY <1>3 DEF ConvertLookup, ConvertArg, ConvertReverse, ConvertUnit,
     Evaluated, Peek, Return, Goto, Store, Stay
<1>4. CASE ConvertPoints(t) \/ ConvertFrom(t) \/ ConvertSplit(t) \/ ConvertTo(t)
  BY <1>4 DEF ConvertPoints, ConvertFrom, ConvertSplit, ConvertTo,
     Evaluated, Peek, Return, Goto, Store, Stay
<1>5. CASE Conformable(t) \/ ListReturns(t)
  BY <1>5 DEF Conformable, ConformableTarget, ConformableClone, ConformableNext, ConformableName,
     ConformableReturns, ListReturns, Evaluated, ReadListing, Return, Goto, Store, Stay
<1>6. CASE Reload(t)
  BY <1>6 DEF Reload, ReloadAcquire, ReloadInsert, ReloadCommit, ReloadRetain, ReloadExtend,
     Return, Goto, Store
<1> QED BY <1>1, <1>2, <1>3, <1>4, <1>5, <1>6 DEF Step, Convert

\* Steps that change neither the listing nor its lock.
LEMMA ListingKept ==
  ASSUME StoreInv, NEW t \in Thread, Start(t) \/ Step(t),
         ~ BootPublish(t), ~ ReloadRetain(t), ~ ReloadExtend(t)
  PROVE  /\ UNCHANGED <<listing, listLock>>
         /\ stage[t] # "extend" /\ stage'[t] # "extend"
         /\ lazy' = "done" <=> lazy = "done"
<1> USE DEF StoreInv, TypeInv, TypeOK
<1>1. CASE Start(t) \/ BootBegin(t) \/ BootInit(t)
  BY <1>1 DEF Start, BootBegin, BootInit, Goto
<1>2. CASE Enter(t)
  <2>1. FirstStage(call[t]) # "extend"
    BY DEF FirstStage, Call
  <2> QED BY <1>2, <2>1 DEF Enter, Goto, storeVars
<1>3. CASE Evaluate(t)
  BY <1>3 DEF Evaluate, Acquire, Resolve, ParseReturns, Evaluated, Return, Goto, storeVars,
     LockInv, ParseStage
<1>4. CASE ConvertLookup(t) \/ ConvertArg(t) \/ ConvertReverse(t) \/ ConvertUnit(t)
  BY <1>4 DEF ConvertLookup, ConvertArg, ConvertReverse, ConvertUnit,
     Evaluated, Peek, Return, Goto, storeVars
<1>5. CASE ConvertPoints(t) \/ ConvertFrom(t) \/ ConvertSplit(t) \/ ConvertTo(t)
  BY <1>5 DEF ConvertPoints, ConvertFrom, ConvertSplit, ConvertTo,
     Evaluated, Peek, Return, Goto, storeVars
<1>6. CASE Conformable(t) \/ ListReturns(t)
  BY <1>6 DEF Conformable, ConformableTarget, ConformableClone, ConformableNext, ConformableName,
     ConformableReturns, ListReturns, Evaluated, ReadListing, Return, Goto, storeVars
<1>7. CASE ReloadAcquire(t) \/ ReloadInsert(t) \/ ReloadCommit(t)
  BY <1>7 DEF ReloadAcquire, ReloadInsert, ReloadCommit, Goto, Store
<1> QED BY <1>1, <1>2, <1>3, <1>4, <1>5, <1>6, <1>7 DEF Step, Boot, Convert, Reload

LEMMA SiteNext ==
  ASSUME TypeInv, SiteInv, NEW t \in Thread, Start(t) \/ Step(t)
  PROVE  SiteInv'
<1> USE DEF TypeInv, TypeOK, EarlyStage, ConvertStage, ReloadStage
<1>0. call[t].op \in {"parse", "convert", "conformable", "list", "reload"}
  BY DEF Call
<1>1. stage'[t] \in EarlyStage \cup CallSites(call'[t].op)
  <2>1. CASE Start(t) \/ Boot(t)
    BY <2>1 DEF Start, Boot, BootBegin, BootInit, BootPublish, Goto
  <2>2. CASE Enter(t)
    BY <1>0, <2>2 DEF Enter, Goto, FirstStage, CallSites
  <2>3. CASE Evaluate(t)
    BY <2>3 DEF Evaluate, Acquire, Resolve, ParseReturns, Evaluated, Return, Goto, SiteInv
  <2>4. ASSUME call[t].op = "convert", Convert(t) PROVE stage'[t] \in ConvertStage \cup {"idle"} /\ call' = call
    <3>1. CASE ConvertLookup(t) \/ ConvertArg(t) \/ ConvertReverse(t) \/ ConvertUnit(t)
      BY <3>1 DEF ConvertLookup, ConvertArg, ConvertReverse, ConvertUnit, Evaluated, Peek, Return, Goto
    <3>2. CASE ConvertPoints(t) \/ ConvertFrom(t) \/ ConvertSplit(t) \/ ConvertTo(t)
      BY <3>2 DEF ConvertPoints, ConvertFrom, ConvertSplit, ConvertTo, Evaluated, Peek, Return, Goto
    <3> QED BY <2>4, <3>1, <3>2 DEF Convert
  <2>5. Convert(t) => stage[t] \in ConvertStage
    BY DEF Convert, ConvertLookup, ConvertArg, ConvertReverse, ConvertUnit, ConvertPoints,
       ConvertFrom, ConvertSplit, ConvertTo, Evaluated, Peek
  <2>6. CASE Convert(t)
    BY <1>0, <2>4, <2>5, <2>6 DEF CallSites, CallInv
  <2>7. CASE Conformable(t) \/ ListReturns(t)
    <3>1. /\ stage[t] \in {"target", "clone", "names", "name", "list"} /\ call' = call
          /\ stage[t] = "list" => stage'[t] = "idle"
          /\ stage'[t] \in {"idle", "clone", "names", "name"}
      BY <2>7 DEF Conformable, ConformableTarget, ConformableClone, ConformableNext, ConformableName,
         ConformableReturns, ListReturns, Evaluated, ReadListing, Return, Goto
    <3> QED BY <1>0, <3>1 DEF SiteInv, CallSites
  <2>8. CASE Reload(t)
    <3>1. /\ stage[t] \in ReloadStage /\ call' = call
          /\ stage'[t] \in ReloadStage \cup {"idle"}
      BY <2>8 DEF Reload, ReloadAcquire, ReloadInsert, ReloadCommit, ReloadRetain, ReloadExtend, Return, Goto
    <3> QED BY <1>0, <3>1 DEF CallSites, CallInv
  <2> QED BY <2>1, <2>2, <2>3, <2>6, <2>7, <2>8 DEF Step
<1> QED BY <1>1, OthersKeep DEF SiteInv

-----------------------------------------------------------------------------
\* The listing: its lock, and what a reload in progress will leave behind.

\* Who holds which guard of the listing; only reload_currency writes.
ListLockInv ==
  /\ listLock.readers = {}
  /\ listLock.writers = {t \in Thread : stage[t] = "extend"}
  /\ \A t, u \in Thread : stage[t] = "extend" /\ stage[u] = "extend" => t = u
  /\ \A t \in Thread : stage[t] = "extend" => lazy = "done"

\* The full name n is in the list, whatever the kind of its definition.
Lists(list, n) == \E k \in DefinitionKind : list[<<n, k>>] # {}

\* What the definitions file lists is listed, or will be when the guard of
\* the listing is next dropped.
WholeInv ==
  lazy = "done" =>
    \A n \in FullName : Lists(InitialListing(Embedded), n) =>
      /\ (\A t \in Thread : stage[t] # "extend") => Lists(listing, n)
      /\ \A t \in Thread : stage[t] = "extend" => Lists(Extended(listing, Content(t)), n)

\* An answer of list_definitions names all of it.
ListedInv ==
  \A t \in Thread : stage[t] = "idle" /\ call[t].op = "list" /\ answer[t].code = "OK" =>
    \A n \in FullName : Lists(InitialListing(Embedded), n) => n \in answer[t].names

ListInv == StoreInv /\ SiteInv /\ ListLockInv /\ WholeInv /\ ListedInv

\* retain removes only what extend adds again, under whatever kind.
LEMMA ReloadLists ==
  ASSUME NEW list \in Listing, NEW content \in Seq(Line), NEW n \in FullName, Lists(list, n)
  PROVE  Lists(Extended(Retained(list, content), content), n)
<1>1. PICK k \in DefinitionKind : list[<<n, k>>] # {}
  BY DEF Lists
<1>2. <<n, k>> \in Slot
  BY DEF Slot
<1>3. CASE Retained(list, content)[<<n, k>>] = list[<<n, k>>]
  BY <1>1, <1>2, <1>3 DEF Extended, Lists
<1>4. CASE Retained(list, content)[<<n, k>>] # list[<<n, k>>]
  <2>1. PICK i \in DOMAIN content : content[i].name = n
    BY <1>2, <1>4 DEF Retained
  <2>2. content[i].kind \in DefinitionKind /\ SlotOf(content[i]) = <<n, content[i].kind>>
    BY <2>1, LineFields DEF Line, SlotOf
  <2>3. content[i].def \in Matching(content, <<n, content[i].kind>>)
    BY <2>2 DEF Matching
  <2>4. <<n, content[i].kind>> \in Slot
    BY <2>2 DEF Slot
  <2>5. Extended(Retained(list, content), content)[<<n, content[i].kind>>] # {}
    BY <2>3, <2>4 DEF Extended
  <2> QED BY <2>2, <2>5 DEF Lists
<1> QED BY <1>3, <1>4

LEMMA ListInit == Init => ListInv
<1> SUFFICES ASSUME Init PROVE ListInv
  OBVIOUS
<1>1. SiteInv /\ ListLockInv /\ WholeInv
  BY DEF Init, SiteInv, EarlyStage, ListLockInv, Unlocked, WholeInv
<1>2. ListedInv
  BY DEF Init, ListedInv, NoAnswer
<1> QED BY <1>1, <1>2, StoreInit DEF ListInv

\* Only list_definitions, at its own call site, answers a call of it.
LEMMA ListedNext ==
  ASSUME ListInv, NEW t \in Thread, Start(t) \/ Step(t), SiteInv'
  PROVE  ListedInv'
<1> USE DEF ListInv, StoreInv, TypeInv, TypeOK
<1>1. SUFFICES ASSUME stage'[t] = "idle", call'[t].op = "list", answer'[t].code = "OK",
                      NEW n \in FullName, Lists(InitialListing(Embedded), n)
               PROVE  n \in answer'[t].names
  BY OthersKeep DEF ListedInv
<1>2. CASE ListReturns(t)
  <2>1. lazy = "done" /\ listLock.writers = {}
    BY <1>2 DEF ListReturns, ReadListing, CanRead, BootInv, EarlyStage
  <2>2. Lists(listing, n)
    BY <1>1, <2>1 DEF WholeInv, ListLockInv
  <2>3. PICK k \in DefinitionKind : listing[<<n, k>>] # {}
    BY <2>2 DEF Lists
  <2>4. <<n, k>> \in {s \in Slot : listing[s] # {}}
    BY <2>3 DEF Slot
  <2>5. n \in {s[1] : s \in {s \in Slot : listing[s] # {}}}
    BY <2>4
  <2>6. answer'[t].names = {s[1] : s \in {s \in Slot : listing[s] # {}}}
    BY <1>2 DEF ListReturns, Return
  <2> QED BY <2>5, <2>6
<1>3. CASE Start(t) \/ Boot(t) \/ Enter(t)
  <2>1. FirstStage(call[t]) # "idle"
    BY DEF FirstStage, Call
  <2> QED BY <1>1, <1>3, <2>1 DEF Start, Boot, BootBegin, BootInit, BootPublish, Enter, Goto
<1>4. CASE Step(t) /\ ~ Boot(t) /\ ~ Enter(t) /\ ~ ListReturns(t)
  <2>1. call' = call /\ stage[t] \notin EarlyStage \cup {"list"}
    <3>1. CASE Evaluate(t)
      BY <3>1 DEF Evaluate, Acquire, Resolve, ParseReturns, Evaluated, storeVars, LockInv,
         ParseStage, EarlyStage
    <3>2. CASE Convert(t)
      <4>1. CASE ConvertLookup(t) \/ ConvertArg(t) \/ ConvertReverse(t) \/ ConvertUnit(t)
        BY <4>1 DEF ConvertLookup, ConvertArg, ConvertReverse, ConvertUnit, Evaluated, Peek, EarlyStage
      <4>2. CASE ConvertPoints(t) \/ ConvertFrom(t) \/ ConvertSplit(t) \/ ConvertTo(t)
        BY <4>2 DEF ConvertPoints, ConvertFrom, ConvertSplit, ConvertTo, Evaluated, Peek, EarlyStage
      <4> QED BY <3>2, <4>1, <4>2 DEF Convert
    <3>3. CASE Conformable(t)
      BY <3>3 DEF Conformable, ConformableTarget, ConformableClone, ConformableNext, ConformableName,
         ConformableReturns, Evaluated, ReadListing, EarlyStage
    <3>4. CASE Reload(t)
      BY <3>4 DEF Reload, ReloadAcquire, ReloadInsert, ReloadCommit, ReloadRetain, ReloadExtend, EarlyStage
    <3> QED BY <1>4, <3>1, <3>2, <3>3, <3>4 DEF Step
  <2>2. call[t].op = "list"
    BY <1>1, <2>1
  <2> QED BY <2>1, <2>2 DEF SiteInv, CallSites
<1> QED BY <1>2, <1>3, <1>4

LEMMA ListNext == ListInv /\ [Next]_vars => ListInv'
<1> SUFFICES ASSUME ListInv, [Next]_vars PROVE ListInv'
  OBVIOUS
<1>0. StoreInv'
  BY StoreNext DEF ListInv
<1>1. CASE UNCHANGED vars
  BY <1>0, <1>1 DEF vars, storeVars, ListInv, SiteInv, ListLockInv, WholeInv, ListedInv, Lists, Content
<1>2. ASSUME NEW t \in Thread, Start(t) \/ Step(t)
      PROVE  ListInv'
  <2> USE DEF ListInv, StoreInv, TypeInv, TypeOK
  <2>1. SiteInv'
    BY <1>2, SiteNext
  <2>2. ListedInv'
    BY <1>2, <2>1, ListedNext
  <2>3. \A u \in Thread \ {t} : stage'[u] = stage[u] /\ Content(u)' = Content(u)
    BY <1>2, OthersKeep DEF Content
  <2>4. CASE ~ BootPublish(t) /\ ~ ReloadRetain(t) /\ ~ ReloadExtend(t)
    <3>1. /\ UNCHANGED <<listing, listLock>>
          /\ stage[t] # "extend" /\ stage'[t] # "extend"
          /\ lazy' = "done" <=> lazy = "done"
      BY <1>2, <2>4, ListingKept
    <3>2. ListLockInv'
      BY <2>3, <3>1 DEF ListLockInv
    <3>3. WholeInv'
      BY <2>3, <3>1 DEF WholeInv
    <3> QED BY <1>0, <2>1, <2>2, <3>2, <3>3
  <2>5. CASE BootPublish(t)
    <3>1. /\ listing' = InitialListing(Embedded) /\ listLock' = listLock
          /\ stage[t] = "publish" /\ stage'[t] = "ensure"
      BY <2>5 DEF BootPublish, Goto
    <3>2. \A u \in Thread : stage'[u] # "extend" /\ stage[u] # "extend"
      BY <2>3, <3>1 DEF BootInv, EarlyStage
    <3>3. ListLockInv' /\ WholeInv'
      BY <3>1, <3>2 DEF ListLockInv, WholeInv
    <3> QED BY <1>0, <2>1, <2>2, <3>3
  <2>6. CASE ReloadRetain(t)
    <3>1. /\ listing' = Retained(listing, Content(t)) /\ listLock' = WithWriter(listLock, t)
          /\ stage'[t] = "extend" /\ stage[t] = "listwrite" /\ Content(t)' = Content(t)
          /\ listLock.writers = {} /\ lazy' = lazy /\ call' = call
      BY <2>6 DEF ReloadRetain, Goto, CanWrite, Content
    <3>2. lazy = "done" /\ Content(t) \in Seq(Line)
      BY <3>1, CallFields DEF BootInv, EarlyStage, CallInv, ReloadStage, Content
    <3>3. \A u \in Thread \ {t} : stage'[u] # "extend" /\ stage[u] # "extend"
      BY <2>3, <3>1 DEF ListLockInv
    <3>4. ListLockInv'
      BY <3>1, <3>2, <3>3 DEF ListLockInv, WithWriter, LockState
    <3>5. ASSUME NEW n \in FullName, Lists(InitialListing(Embedded), n)
          PROVE  Lists(Extended(listing', Content(t)), n)
      BY <3>1, <3>2, <3>3, <3>5, ReloadLists DEF WholeInv
    <3>6. WholeInv'
      BY <3>1, <3>3, <3>5 DEF WholeInv
    <3> QED BY <1>0, <2>1, <2>2, <3>4, <3>6
  <2>7. CASE ReloadExtend(t)
    <3>1. /\ listing' = Extended(listing, Content(t)) /\ listLock' = Without(listLock, t)
          /\ stage'[t] = "idle" /\ stage[t] = "extend" /\ lazy' = lazy
      BY <2>7 DEF ReloadExtend, Return, Goto
    <3>2. \A u \in Thread : stage'[u] # "extend"
      BY <2>3, <3>1 DEF ListLockInv
    <3>3. ListLockInv'
      BY <3>1, <3>2 DEF ListLockInv, Without, LockState
    <3>4. WholeInv'
      BY <3>1, <3>2 DEF WholeInv, ListLockInv
    <3> QED BY <1>0, <2>1, <2>2, <3>3, <3>4
  <2> QED BY <2>4, <2>5, <2>6, <2>7
<1> QED BY <1>1, <1>2 DEF Next, Finished

LEMMA ListInvariant == Spec => []ListInv
BY ListInit, ListNext, PTL DEF Spec

(* A name the definitions file lists is in every answer of list_definitions, *)
(* however many reloads of whatever files are between retain and extend.     *)
THEOREM ListsStayWhole == Spec => []ListsAreWhole
<1>1. ListInv => ListsAreWhole
  <2> SUFFICES ASSUME ListInv, NEW t \in Thread, NEW s \in Slot, InitialListing(Embedded)[s] # {},
                      stage[t] = "idle", call[t].op = "list", answer[t].code = "OK"
               PROVE  s[1] \in answer[t].names
    BY DEF ListsAreWhole
  <2>1. s[1] \in FullName /\ s[2] \in DefinitionKind /\ s = <<s[1], s[2]>>
    BY DEF Slot
  <2>2. Lists(InitialListing(Embedded), s[1])
    BY <2>1 DEF Lists
  <2> QED BY <2>1, <2>2 DEF ListInv, ListedInv
<1> QED BY <1>1, ListInvariant, PTL

-----------------------------------------------------------------------------
\* A reload in progress has inserted the first lines of its file.

\* The lines of a file that set the entry k.
Hits(content, k) == {i \in DOMAIN content : Inserts(content[i]) /\ KeyOf(content[i]) = k}

\* LoadAll keeps the entries no line sets, and the last line that sets one wins.
LEMMA LoadAllEntry ==
  ASSUME NEW d \in Database, NEW content \in Seq(Line), NEW k \in Key
  PROVE  /\ Hits(content, k) = {} => LoadAll(d, content)[k] = d[k]
         /\ Hits(content, k) # {} =>
              \E i \in Hits(content, k) : /\ \A j \in Hits(content, k) : j <= i
                                          /\ LoadAll(d, content)[k] = content[i].def
<1>1. LoadAll(d, content)[k] =
        IF Hits(content, k) = {} THEN d[k]
        ELSE content[CHOOSE i \in Hits(content, k) : \A j \in Hits(content, k) : j <= i].def
  BY DEF LoadAll, Hits
<1>2. Hits(content, k) \in SUBSET (1 .. Len(content)) /\ Len(content) \in Nat
  BY LineFields DEF Hits
<1>3. CASE Hits(content, k) # {}
  <2>1. \E i \in Hits(content, k) : \A j \in Hits(content, k) : j <= i
    BY <1>2, <1>3, GreatestIndex
  <2> QED BY <1>1, <1>3, <2>1
<1> QED BY <1>1, <1>3

LEMMA LoadAllNothing ==
  ASSUME NEW d \in Database
  PROVE  LoadAll(d, <<>>) = d
BY DEF LoadAll, Database

\* Inserting one line more.
LEMMA LoadAllLine ==
  ASSUME NEW d \in Database, NEW content \in Seq(Line), NEW n \in 1 .. Len(content)
  PROVE  LoadAll(d, SubSeq(content, 1, n)) =
           InsertLine(LoadAll(d, SubSeq(content, 1, n - 1)), content[n])
<1> DEFINE before == SubSeq(content, 1, n - 1)
           upto == SubSeq(content, 1, n)
<1>1. /\ before \in Seq(Line) /\ upto \in Seq(Line)
      /\ DOMAIN before = 1 .. n - 1 /\ DOMAIN upto = 1 .. n
      /\ \A i \in 1 .. n - 1 : before[i] = content[i] /\ upto[i] = content[i]
      /\ upto[n] = content[n] /\ content[n] \in Line
  BY LineFields
<1> HIDE DEF before, upto
<1>2. KeyOf(content[n]) \in Key \/ ~ Inserts(content[n])
  BY <1>1, DefinitionsAssumption DEF Line, KeyOf, Key, DbKind, Inserts, DefinitionKind
<1>3. LoadAll(d, upto) \in Database /\ LoadAll(d, before) \in Database
  BY <1>1, LoadAllType
<1>4. InsertLine(LoadAll(d, before), content[n]) \in Database
  BY <1>1, <1>3, InsertLineType
<1>5. ASSUME NEW k \in Key
      PROVE  LoadAll(d, upto)[k] = InsertLine(LoadAll(d, before), content[n])[k]
  <2>1. CASE Inserts(content[n]) /\ KeyOf(content[n]) = k
    <3>1. n \in Hits(upto, k) /\ \A j \in Hits(upto, k) : j \in 1 .. n
      BY <1>1, <2>1 DEF Hits
    <3>2. LoadAll(d, upto)[k] = content[n].def
      <4>1. PICK i \in Hits(upto, k) : (\A j \in Hits(upto, k) : j <= i) /\ LoadAll(d, upto)[k] = upto[i].def
        BY <1>1, <3>1, LoadAllEntry
      <4>2. n <= i /\ i \in 1 .. n
        BY <3>1, <4>1
      <4>3. i = n
        BY <4>2
      <4> QED BY <1>1, <4>1, <4>3
    <3> QED BY <1>3, <2>1, <3>2 DEF InsertLine, Database
  <2>2. CASE ~ (Inserts(content[n]) /\ KeyOf(content[n]) = k)
    <3>1. Hits(upto, k) = Hits(before, k)
      BY <1>1, <2>2 DEF Hits
    <3>2. LoadAll(d, upto)[k] = LoadAll(d, before)[k]
      <4>1. \A i \in Hits(before, k) : upto[i] = before[i] /\ i \in 1 .. n - 1
        BY <1>1 DEF Hits
      <4>2. CASE Hits(before, k) = {}
        BY <1>1, <3>1, <4>2, LoadAllEntry
      <4>3. CASE Hits(before, k) # {}
        <5>1. PICK i \in Hits(before, k) : (\A j \in Hits(before, k) : j <= i) /\ LoadAll(d, before)[k] = before[i].def
          BY <1>1, <4>3, LoadAllEntry
        <5>2. PICK m \in Hits(before, k) : (\A j \in Hits(before, k) : j <= m) /\ LoadAll(d, upto)[k] = upto[m].def
          BY <1>1, <3>1, <4>3, LoadAllEntry
        <5>3. i = m
          <6>1. i <= m /\ m <= i /\ i \in 1 .. n - 1 /\ m \in 1 .. n - 1
            BY <4>1, <5>1, <5>2
          <6> QED BY <6>1
        <5> QED BY <4>1, <5>1, <5>2, <5>3
      <4> QED BY <4>2, <4>3
    <3>3. InsertLine(LoadAll(d, before), content[n])[k] = LoadAll(d, before)[k]
      BY <1>2, <1>3, <2>2 DEF InsertLine, Database
    <3> QED BY <3>2, <3>3
  <2> QED BY <2>1, <2>2
<1>6. LoadAll(d, upto) = InsertLine(LoadAll(d, before), content[n])
  BY <1>3, <1>4, <1>5 DEF Database
<1> QED BY <1>6 DEF before, upto

\* The databases that go with the progress of a thread.
ProgressInv ==
  /\ \A t, u \in Thread : stage[t] = "insert" /\ stage[u] = "insert" => t = u
  /\ \A t \in Thread : local[t].line # 1 => stage[t] \in {"insert", "listwrite", "extend"}
  /\ \A t \in Thread : stage[t] = "insert" =>
       /\ local[t].line <= Len(Content(t)) + 1
       /\ db = LoadAll(committed, SubSeq(Content(t), 1, local[t].line - 1))
  /\ origin = "unset" => committed = EmptyDatabase
  /\ \A t \in Thread : stage[t] = "publish" => committed = LoadAll(EmptyDatabase, Embedded)

\* Inside reload_currency a thread takes the steps of a reload.
LEMMA ReloadSteps ==
  ASSUME StoreInv, NEW t \in Thread, Start(t) \/ Step(t), stage[t] \in ReloadStage
  PROVE  Reload(t)
<1> USE DEF ReloadStage
<1>1. ~ (Start(t) \/ Boot(t) \/ Enter(t))
  BY DEF Start, Boot, BootBegin, BootInit, BootPublish, Enter
<1>2. ~ Evaluate(t)
  BY DEF Evaluate, Acquire, Resolve, ParseReturns, Evaluated, StoreInv, LockInv, ParseStage
<1>3. ~ Convert(t)
  BY DEF Convert, ConvertLookup, ConvertArg, ConvertReverse, ConvertUnit, ConvertPoints,
     ConvertFrom, ConvertSplit, ConvertTo, Evaluated, Peek
<1>4. ~ (Conformable(t) \/ ListReturns(t))
  BY DEF Conformable, ConformableTarget, ConformableClone, ConformableNext, ConformableName,
     ConformableReturns, ListReturns, Evaluated, ReadListing
<1> QED BY <1>1, <1>2, <1>3, <1>4 DEF Step

\* Every other step leaves both databases and the count of lines alone.
LEMMA ProgressKept ==
  ASSUME StoreInv, NEW t \in Thread, Start(t) \/ Step(t), ~ BootInit(t), ~ Reload(t)
  PROVE  /\ UNCHANGED <<db, committed>>
         /\ local'[t].line \in {local[t].line, 1}
         /\ stage'[t] \notin {"insert", "publish"}
<1> USE DEF StoreInv, TypeInv, TypeOK
<1>0. local[t] \in Local
  OBVIOUS
<1>1. CASE Start(t) \/ BootBegin(t) \/ BootPublish(t)
  BY <1>1 DEF Start, BootBegin, BootPublish, Goto
<1>2. CASE Enter(t)
  <2>1. FirstStage(call[t]) \notin {"insert", "publish"}
    BY DEF FirstStage, Call
  <2> QED BY <1>2, <2>1 DEF Enter, Goto, storeVars
<1>3. CASE Evaluate(t)
  BY <1>3 DEF Evaluate, Acquire, Resolve, ParseReturns, Evaluated, Return, Goto, storeVars, NoLocal,
     LockInv, ParseStage
<1>4. /\ \A f : Store(t, f) => local'[t] = f
      /\ \A code, other, names : Return(t, code, other, names) => local'[t].line = 1
      /\ Stay => local'[t] = local[t]
  BY DEF Store, Return, NoLocal, Stay
<1>5. CASE ConvertLookup(t) \/ ConvertArg(t) \/ ConvertReverse(t) \/ ConvertUnit(t)
  <2>1. UNCHANGED <<db, committed>> /\ stage'[t] \notin {"insert", "publish"}
    BY <1>5 DEF ConvertLookup, ConvertArg, ConvertReverse, ConvertUnit,
       Evaluated, Peek, Return, Goto, storeVars
  <2>2. local'[t].line \in {local[t].line, 1}
    <3>1. CASE ConvertLookup(t)
      <4>1. \E e, b : Store(t, [local[t] EXCEPT !.expr = e, !.table = b])
        BY <3>1 DEF ConvertLookup
      <4> QED BY <1>0, <1>4, <4>1 DEF Local
    <3>2. CASE ConvertArg(t)
      <4>1. Store(t, [local[t] EXCEPT !.val = eval[t].value]) \/ Stay
        BY <3>2 DEF ConvertArg
      <4> QED BY <1>0, <1>4, <4>1 DEF Local
    <3>3. CASE ConvertReverse(t) \/ ConvertUnit(t)
      BY <1>4, <3>3 DEF ConvertReverse, ConvertUnit
    <3> QED BY <1>5, <3>1, <3>2, <3>3
  <2> QED BY <2>1, <2>2
<1>6. CASE ConvertPoints(t) \/ ConvertFrom(t) \/ ConvertSplit(t) \/ ConvertTo(t)
  <2>1. UNCHANGED <<db, committed>> /\ stage'[t] \notin {"insert", "publish"}
    BY <1>6 DEF ConvertPoints, ConvertFrom, ConvertSplit, ConvertTo,
       Evaluated, Peek, Return, Goto, storeVars
  <2>2. \/ Store(t, [local[t] EXCEPT !.val = eval[t].value]) \/ Stay
        \/ \E code, other, names : Return(t, code, other, names)
    BY <1>6 DEF ConvertPoints, ConvertFrom, ConvertSplit, ConvertTo
  <2> QED BY <1>0, <1>4, <2>1, <2>2 DEF Local
<1>7. CASE Conformable(t) \/ ListReturns(t)
  <2>1. UNCHANGED <<db, committed>> /\ stage'[t] \notin {"insert", "publish"}
    BY <1>7 DEF Conformable, ConformableTarget, ConformableClone, ConformableNext, ConformableName,
       ConformableReturns, ListReturns, Evaluated, ReadListing, Return, Goto, storeVars
  <2>2. \/ \E code, other, names : Return(t, code, other, names)
        \/ \E v : Store(t, [local[t] EXCEPT !.val = v])
        \/ \E s : Store(t, [local[t] EXCEPT !.todo = s])
        \/ \E s, c : Store(t, [local[t] EXCEPT !.todo = s, !.cur = c])
        \/ \E s, c : Store(t, [local[t] EXCEPT !.cur = c, !.names = s])
    BY <1>7 DEF Conformable, ConformableTarget, ConformableClone, ConformableNext, ConformableName,
       ConformableReturns, ListReturns
  <2> QED BY <1>0, <1>4, <2>1, <2>2 DEF Local
<1> QED BY <1>1, <1>2, <1>3, <1>5, <1>6, <1>7 DEF Step, Boot, Convert

LEMMA ProgressInit == Init => ProgressInv
BY DEF Init, ProgressInv, NoLocal

LEMMA ProgressNext ==
  ASSUME ListInv, ProgressInv, NEW t \in Thread, Start(t) \/ Step(t)
  PROVE  ProgressInv'
<1> USE DEF ListInv, StoreInv, TypeInv, TypeOK
<1>1. \A u \in Thread \ {t} : /\ stage'[u] = stage[u] /\ local'[u] = local[u]
                              /\ Content(u)' = Content(u)
  BY OthersKeep DEF Content
<1>2. origin' = "unset" => origin = "unset" /\ ~ BootInit(t) /\ ~ Reload(t)
  <2>1. StoreInv'
    BY StoreNext DEF Next
  <2>2. Reload(t) => origin = "embedded" /\ origin' # "unset"
    BY DEF Reload, ReloadAcquire, ReloadInsert, ReloadCommit, ReloadRetain, ReloadExtend,
       BootInv, EarlyStage, GetDatabase
  <2>3. BootInit(t) => origin' # "unset"
    BY DEF BootInit
  <2>4. CASE Start(t) \/ Boot(t) \/ Enter(t)
    BY <2>2, <2>3, <2>4 DEF Start, Boot, BootBegin, BootPublish, Enter, storeVars
  <2>5. CASE Evaluate(t) \/ Convert(t)
    BY <2>2, <2>3, <2>5 DEF Evaluate, Acquire, Resolve, ParseReturns, Evaluated, storeVars, GetDatabase,
       Convert, ConvertLookup, ConvertArg, ConvertReverse, ConvertUnit, ConvertPoints,
       ConvertFrom, ConvertSplit, ConvertTo, Evaluated, Peek
  <2>6. CASE Conformable(t) \/ ListReturns(t)
    BY <2>2, <2>3, <2>6 DEF Conformable, ConformableTarget, ConformableClone, ConformableNext,
       ConformableName, ConformableReturns, ListReturns, Evaluated, ReadListing, storeVars
  <2> QED BY <2>2, <2>3, <2>4, <2>5, <2>6 DEF Step
<1>3. CASE ~ BootInit(t) /\ ~ Reload(t)
  <2>1. /\ UNCHANGED <<db, committed>>
        /\ local'[t].line \in {local[t].line, 1}
        /\ stage'[t] \notin {"insert", "publish"}
    BY <1>3, ProgressKept
  <2>2. stage[t] \notin ReloadStage
    BY <1>3, ReloadSteps
  <2> QED BY <1>1, <1>2, <2>1, <2>2 DEF ProgressInv, ReloadStage
<1>4. CASE BootInit(t)
  <2>1. /\ committed' = LoadAll(EmptyDatabase, Embedded)
        /\ stage[t] = "boot" /\ stage'[t] = "publish" /\ local' = local
    BY <1>4 DEF BootInit, Goto, BootInv
  <2>2. \A u \in Thread : stage[u] # "insert" /\ (u # t => stage[u] # "publish")
    BY <2>1 DEF BootInv, EarlyStage
  <2> QED BY <1>1, <1>2, <1>4, <2>1, <2>2 DEF ProgressInv
<1>5. CASE Reload(t)
  <2>1. stage[t] \in ReloadStage /\ call[t].op = "reload"
    BY <1>5 DEF Reload, ReloadAcquire, ReloadInsert, ReloadCommit, ReloadRetain, ReloadExtend,
       ReloadStage, CallInv
  <2>2. Content(t) \in Seq(Line) /\ lazy = "done" /\ origin' # "unset"
    <3>1. lazy = "done"
      BY <2>1 DEF BootInv, EarlyStage, ReloadStage
    <3> QED BY <1>2, <1>5, <2>1, <3>1, CallFields DEF Content
  <2>3. Content(t)' = Content(t) /\ \A u \in Thread : stage[u] # "publish" /\ stage'[u] # "publish"
    <3>1. call' = call /\ stage'[t] # "publish"
      BY <1>5 DEF Reload, ReloadAcquire, ReloadInsert, ReloadCommit, ReloadRetain, ReloadExtend, Return, Goto
    <3> QED BY <1>1, <2>2, <3>1 DEF Content, BootInv, EarlyStage
  <2>4. local[t] \in Local /\ local[t].line \in Nat \ {0} /\ Len(Content(t)) \in Nat
    BY <2>2 DEF Local
  <2>5. CASE ReloadAcquire(t)
    <3>1. /\ UNCHANGED <<db, committed, local>> /\ stage[t] = "dbwrite" /\ stage'[t] = "insert"
          /\ dbLock.writers = {}
      BY <2>5 DEF ReloadAcquire, Goto, CanWrite
    <3>2. local[t].line = 1 /\ \A u \in Thread : stage[u] # "insert"
      BY <3>1 DEF ProgressInv, LockInv
    <3>3. db = committed
      BY <3>1 DEF VersionInv
    <3>4. db = LoadAll(committed, SubSeq(Content(t), 1, 0))
      <4>1. SubSeq(Content(t), 1, 0) = <<>>
        BY <2>2
      <4> QED BY <3>3, <4>1, LoadAllNothing
    <3> QED BY <1>1, <2>2, <2>3, <2>4, <3>1, <3>2, <3>4 DEF ProgressInv
  <2>6. CASE ReloadInsert(t)
    <3> DEFINE n == local[t].line
    <3>1. /\ UNCHANGED <<committed, stage>> /\ stage[t] = "insert"
          /\ db' = InsertLine(db, Content(t)[n])
          /\ local' = [local EXCEPT ![t] = [local[t] EXCEPT !.line = @ + 1]]
          /\ n <= Len(Content(t))
      BY <2>6 DEF ReloadInsert, Store
    <3>2. local'[t].line = n + 1
      BY <2>4, <3>1 DEF Local
    <3>3. db = LoadAll(committed, SubSeq(Content(t), 1, n - 1)) /\ n \in 1 .. Len(Content(t))
      BY <2>4, <3>1 DEF ProgressInv
    <3>4. db' = LoadAll(committed, SubSeq(Content(t), 1, n))
      <4> HIDE DEF n
      <4> QED BY <2>2, <3>1, <3>3, LoadAllLine
    <3>5. (n + 1) - 1 = n /\ n + 1 <= Len(Content(t)) + 1
      BY <2>4, <3>1
    <3>6. \A u \in Thread \ {t} : stage[u] # "insert"
      BY <3>1 DEF ProgressInv
    <3> HIDE DEF n
    <3> QED BY <1>1, <2>2, <2>3, <3>1, <3>2, <3>4, <3>5, <3>6 DEF ProgressInv
  <2>7. CASE ReloadCommit(t)
    <3>1. local' = local /\ stage[t] = "insert" /\ stage'[t] = "listwrite"
      BY <2>7 DEF ReloadCommit, Goto
    <3> QED BY <1>1, <2>2, <2>3, <3>1 DEF ProgressInv
  <2>8. CASE ReloadRetain(t)
    <3>1. UNCHANGED <<db, committed, local>> /\ stage[t] = "listwrite" /\ stage'[t] = "extend"
      BY <2>8 DEF ReloadRetain, Goto
    <3> QED BY <1>1, <2>2, <2>3, <3>1 DEF ProgressInv
  <2>9. CASE ReloadExtend(t)
    <3>1. /\ UNCHANGED <<db, committed>> /\ stage[t] = "extend" /\ stage'[t] = "idle"
          /\ local'[t].line = 1
      BY <2>9 DEF ReloadExtend, Return, Goto, NoLocal
    <3> QED BY <1>1, <2>2, <2>3, <3>1 DEF ProgressInv
  <2> QED BY <1>5, <2>5, <2>6, <2>7, <2>8, <2>9 DEF Reload
<1> QED BY <1>3, <1>4, <1>5

LEMMA ProgressInvariant == Spec => [](ListInv /\ ProgressInv)
<1>1. ListInv /\ ProgressInv /\ [Next]_vars => (ListInv /\ ProgressInv)'
  <2> SUFFICES ASSUME ListInv, ProgressInv, [Next]_vars PROVE ProgressInv'
    BY ListNext
  <2>1. CASE UNCHANGED vars
    BY <2>1 DEF vars, storeVars, ProgressInv, Content
  <2> QED BY <2>1, ProgressNext DEF Next, Finished
<1> QED BY <1>1, ListInit, ProgressInit, PTL DEF Spec

\* When the last line is inserted the whole file is.
LEMMA InsertedAll ==
  ASSUME ListInv, ProgressInv, NEW t \in Thread, ReloadCommit(t)
  PROVE  db = LoadAll(committed, Content(t)) /\ Content(t) \in Seq(Line)
<1> USE DEF ListInv, StoreInv, TypeInv, TypeOK
<1>1. stage[t] = "insert" /\ local[t].line > Len(Content(t)) /\ local[t] \in Local
  BY DEF ReloadCommit
<1>2. Content(t) \in Seq(Line)
  BY <1>1, CallFields DEF CallInv, ReloadStage, Content
<1>3. local[t].line - 1 = Len(Content(t))
  BY <1>1, <1>2 DEF ProgressInv, Local
<1>4. SubSeq(Content(t), 1, Len(Content(t))) = Content(t)
  BY <1>2
<1> QED BY <1>1, <1>2, <1>3, <1>4 DEF ProgressInv

-----------------------------------------------------------------------------
\* The listing and the database, when one thread at a time reloads clean files.

Matches(d, list) ==
  /\ \A k \in Key : d[k] # Absent =>
       \E n \in FullName : Canon[n] = k[2] /\ d[k] \in list[<<n, k[1]>>]
  /\ \A n \in FullName : list[<<n, "Unit">>] # {} =>
       n \in AllUnits /\ list[<<n, "Unit">>] = {d[<<"Unit", Canon[n]>>]}

\* The two agree on the committed database and the listing left behind.
MatchInv ==
  /\ \A t \in Thread : call[t].op = "reload" => \E c \in Calls[t] : c.op = "reload"
  /\ lazy = "done" =>
       /\ (\A t \in Thread : stage[t] \notin {"listwrite", "extend"}) => Matches(committed, listing)
       /\ \A t \in Thread : stage[t] = "listwrite" =>
            Matches(committed, ReloadListing(listing, Content(t)))
       /\ \A t \in Thread : stage[t] = "extend" =>
            Matches(committed, Extended(listing, Content(t)))

\* What a line sets, and which lines set the entry of a unit.
LEMMA HitFields ==
  ASSUME NEW content \in Seq(Line), NEW k \in Key, NEW i \in Hits(content, k)
  PROVE  /\ i \in DOMAIN content /\ content[i].name \in FullName
         /\ Canon[content[i].name] = k[2] /\ content[i].kind = k[1]
         /\ <<content[i].name, k[1]>> \in Slot
<1>1. i \in DOMAIN content /\ KeyOf(content[i]) = k /\ content[i].name \in FullName
  BY LineFields DEF Hits
<1>2. Canon[content[i].name] = k[2] /\ content[i].kind = k[1]
  BY <1>1 DEF KeyOf
<1> QED BY <1>1, <1>2 DEF Slot, DefinitionKind, Key

LEMMA UnitHits ==
  ASSUME NEW content \in Seq(Line), NEW i \in DOMAIN content, content[i].kind = "Unit"
  PROVE  /\ <<"Unit", Canon[content[i].name]>> \in Key
         /\ i \in Hits(content, <<"Unit", Canon[content[i].name]>>)
BY LineFields, DefinitionsAssumption DEF Hits, Inserts, KeyOf, Key, DbKind

LEMMA UnitsOfFiles ==
  ASSUME NEW content \in {Embedded} \cup Contents, NEW i \in DOMAIN content, content[i].kind = "Unit"
  PROVE  content[i].name \in AllUnits
BY LineFields, StoreAssumption DEF AllUnits

\* The two products of the definitions file agree.
LEMMA MatchesInitial ==
  ASSUME CleanFiles
  PROVE  Matches(LoadAll(EmptyDatabase, Embedded), InitialListing(Embedded))
<1> DEFINE d == LoadAll(EmptyDatabase, Embedded)
           list == InitialListing(Embedded)
<1>0. Embedded \in Seq(Line) /\ EmptyDatabase \in Database /\ \A k \in Key : EmptyDatabase[k] = Absent
  BY StoreAssumption, Constants DEF EmptyDatabase
<1>1. ASSUME NEW k \in Key, d[k] # Absent
      PROVE  \E n \in FullName : Canon[n] = k[2] /\ d[k] \in list[<<n, k[1]>>]
  <2>1. PICK i \in Hits(Embedded, k) : (\A j \in Hits(Embedded, k) : j <= i) /\ d[k] = Embedded[i].def
    BY <1>0, <1>1, LoadAllEntry
  <2>2. /\ i \in DOMAIN Embedded /\ Embedded[i].name \in FullName
        /\ Canon[Embedded[i].name] = k[2] /\ Embedded[i].kind = k[1]
        /\ <<Embedded[i].name, k[1]>> \in Slot
    BY <1>0, HitFields
  <2>3. Survives(Embedded, i)
    <3>1. SUFFICES ASSUME NEW j \in DOMAIN Embedded, j > i, Embedded[j].kind = Embedded[i].kind,
                          Canon[Embedded[j].name] = Canon[Embedded[i].name]
                   PROVE  FALSE
      BY DEF Survives
    <3>2. KeyOf(Embedded[j]) = k
      BY <2>2, <3>1 DEF KeyOf, Key
    <3>3. Inserts(Embedded[j])
      BY <2>2, <3>1 DEF CleanFiles, Key, DbKind
    <3>4. j <= i /\ i \in Nat /\ j \in Nat
      BY <1>0, <2>1, <2>2, <3>2, <3>3, LineFields DEF Hits
    <3> QED BY <3>1, <3>4
  <2>4. d[k] \in list[<<Embedded[i].name, k[1]>>]
    BY <2>1, <2>2, <2>3 DEF InitialListing, SlotOf
  <2> QED BY <2>2, <2>4
<1>2. ASSUME NEW n \in FullName, list[<<n, "Unit">>] # {}
      PROVE  n \in AllUnits /\ list[<<n, "Unit">>] = {d[<<"Unit", Canon[n]>>]}
  <2> DEFINE from == {i \in DOMAIN Embedded : SlotOf(Embedded[i]) = <<n, "Unit">> /\ Survives(Embedded, i)}
  <2>1. list[<<n, "Unit">>] = {Embedded[i].def : i \in from}
    BY DEF InitialListing, Slot, DefinitionKind, DbKind
  <2>2. ASSUME NEW i \in from
        PROVE  n \in AllUnits /\ Embedded[i].def = d[<<"Unit", Canon[n]>>]
    <3>1. Embedded[i].kind = "Unit" /\ Embedded[i].name = n /\ i \in DOMAIN Embedded
      BY DEF SlotOf
    <3>2. <<"Unit", Canon[n]>> \in Key /\ i \in Hits(Embedded, <<"Unit", Canon[n]>>)
      BY <1>0, <3>1, UnitHits
    <3>3. PICK m \in Hits(Embedded, <<"Unit", Canon[n]>>) :
             /\ \A j \in Hits(Embedded, <<"Unit", Canon[n]>>) : j <= m
             /\ d[<<"Unit", Canon[n]>>] = Embedded[m].def
      BY <1>0, <3>2, LoadAllEntry
    <3>4. i <= m /\ m \in DOMAIN Embedded /\ Embedded[m].kind = "Unit" /\ Canon[Embedded[m].name] = Canon[n]
      BY <1>0, <3>2, <3>3, HitFields
    <3>5. ~ (m > i)
      BY <3>1, <3>4 DEF Survives
    <3>6. m = i
      BY <1>0, <3>1, <3>4, <3>5, LineFields
    <3> QED BY <3>1, <3>3, <3>6, UnitsOfFiles
  <2>3. PICK i \in from : TRUE
    BY <1>2, <2>1
  <2> HIDE DEF from, d, list
  <2> QED BY <2>1, <2>2, <2>3
<1> HIDE DEF d, list
<1>3. Matches(d, list)
  BY <1>1, <1>2 DEF Matches
<1> QED BY <1>3 DEF d, list

\* A reload replaces the units of its file in both.
LEMMA MatchesReload ==
  ASSUME CleanFiles, NEW d \in Database, NEW list \in Listing, NEW content \in Contents,
         Matches(d, list)
  PROVE  Matches(LoadAll(d, content), ReloadListing(list, content))
<1> DEFINE after == LoadAll(d, content)
           both == ReloadListing(list, content)
           names(n) == \E i \in DOMAIN content : content[i].name = n
<1>0. content \in Seq(Line)
  BY StoreAssumption
<1>1. \A s \in Slot : both[s] = (IF s[2] = "Unit" /\ names(s[1]) THEN {} ELSE list[s]) \cup Matching(content, s)
  BY DEF ReloadListing, Extended, Retained
<1>2. ASSUME NEW k \in Key, after[k] # Absent
      PROVE  \E n \in FullName : Canon[n] = k[2] /\ after[k] \in both[<<n, k[1]>>]
  <2>1. CASE Hits(content, k) = {}
    <3>1. after[k] = d[k]
      BY <1>0, <2>1, LoadAllEntry
    <3>2. PICK n \in FullName : Canon[n] = k[2] /\ d[k] \in list[<<n, k[1]>>]
      BY <1>2, <3>1 DEF Matches
    <3>3. ~ (k[1] = "Unit" /\ names(n))
      <4>1. SUFFICES ASSUME k[1] = "Unit", NEW i \in DOMAIN content, content[i].name = n PROVE FALSE
        OBVIOUS
      <4>2. n \in AllUnits
        BY <3>2, <4>1 DEF Matches
      <4>3. content[i].kind = "Unit"
        BY <4>1, <4>2 DEF CleanFiles, UnitsStayUnits
      <4>4. <<"Unit", Canon[n]>> = k
        BY <3>2, <4>1 DEF Key
      <4> QED BY <1>0, <2>1, <4>1, <4>3, <4>4, UnitHits
    <3>4. <<n, k[1]>> \in Slot
      BY DEF Slot, DefinitionKind, Key
    <3> QED BY <1>1, <3>1, <3>2, <3>3, <3>4
  <2>2. CASE Hits(content, k) # {}
    <3>1. PICK i \in Hits(content, k) : after[k] = content[i].def
      BY <1>0, <2>2, LoadAllEntry
    <3>2. /\ i \in DOMAIN content /\ content[i].name \in FullName
          /\ Canon[content[i].name] = k[2] /\ content[i].kind = k[1]
          /\ <<content[i].name, k[1]>> \in Slot
      BY <1>0, HitFields
    <3>3. after[k] \in Matching(content, <<content[i].name, k[1]>>)
      BY <3>1, <3>2 DEF Matching, SlotOf
    <3> QED BY <1>1, <3>2, <3>3
  <2> QED BY <2>1, <2>2
<1>3. ASSUME NEW n \in FullName, both[<<n, "Unit">>] # {}
      PROVE  n \in AllUnits /\ both[<<n, "Unit">>] = {after[<<"Unit", Canon[n]>>]}
  <2> DEFINE k == <<"Unit", Canon[n]>>
  <2>0. k \in Key /\ <<n, "Unit">> \in Slot
    BY DefinitionsAssumption DEF Key, DbKind, Slot, DefinitionKind
  <2>1. ASSUME NEW i \in Hits(content, k), n \in AllUnits
        PROVE  content[i].name = n /\ content[i].kind = "Unit" /\ i \in DOMAIN content
    <3>1. /\ i \in DOMAIN content /\ content[i].kind = "Unit" /\ Canon[content[i].name] = Canon[n]
      BY <1>0, <2>0, HitFields
    <3> QED BY <2>1, <3>1, UnitsOfFiles DEF CleanFiles, UnitsStayUnits
  <2>2. CASE names(n)
    <3>1. both[<<n, "Unit">>] = Matching(content, <<n, "Unit">>)
      BY <1>1, <2>0, <2>2
    <3>2. PICK j \in DOMAIN content : SlotOf(content[j]) = <<n, "Unit">>
      BY <1>3, <3>1 DEF Matching
    <3>3. content[j].name = n /\ content[j].kind = "Unit" /\ n \in AllUnits /\ j \in Hits(content, k)
      BY <1>0, <3>2, UnitHits, UnitsOfFiles DEF SlotOf
    <3>4. PICK m \in Hits(content, k) : after[k] = content[m].def
      BY <1>0, <2>0, <3>3, LoadAllEntry
    <3>5. content[m].name = n /\ content[m].kind = "Unit" /\ m \in DOMAIN content
      BY <2>1, <3>3
    <3>6. \A i \in DOMAIN content : SlotOf(content[i]) = <<n, "Unit">> => content[i].def = after[k]
      BY <3>4, <3>5 DEF CleanFiles, UnitsStayUnits, SlotOf
    <3>7. content[j].def \in Matching(content, <<n, "Unit">>)
      BY <3>2 DEF Matching
    <3>8. Matching(content, <<n, "Unit">>) = {after[k]}
      BY <3>2, <3>6, <3>7 DEF Matching
    <3> QED BY <3>1, <3>3, <3>8
  <2>3. CASE ~ names(n)
    <3>1. Matching(content, <<n, "Unit">>) = {}
      BY <2>3 DEF Matching, SlotOf
    <3>2. both[<<n, "Unit">>] = list[<<n, "Unit">>]
      BY <1>1, <2>0, <2>3, <3>1
    <3>3. n \in AllUnits /\ list[<<n, "Unit">>] = {d[k]}
      BY <1>3, <3>2 DEF Matches
    <3>4. Hits(content, k) = {}
      BY <2>1, <2>3, <3>3
    <3>5. after[k] = d[k]
      BY <1>0, <2>0, <3>4, LoadAllEntry
    <3> QED BY <3>2, <3>3, <3>5
  <2> QED BY <2>2, <2>3
<1> HIDE DEF after, both
<1>4. Matches(after, both)
  BY <1>2, <1>3 DEF Matches
<1> QED BY <1>4 DEF after, both

LEMMA MatchNext ==
  ASSUME CleanFiles, OneReloader, ListInv, ProgressInv, MatchInv, NEW t \in Thread, Start(t) \/ Step(t)
  PROVE  MatchInv'
<1> USE DEF ListInv, StoreInv, TypeInv, TypeOK
<1>0. \A u \in Thread \ {t} : /\ stage'[u] = stage[u] /\ call'[u] = call[u]
                              /\ Content(u)' = Content(u)
  BY OthersKeep DEF Content
<1>1. \A u \in Thread : call'[u].op = "reload" => \E c \in Calls[u] : c.op = "reload"
  <2>1. call'[t] = call[t] \/ call'[t] \in Calls[t]
    <3>1. CASE Start(t)
      BY <3>1 DEF Start
    <3>2. CASE Step(t)
      <4>1. CASE Boot(t) \/ Enter(t) \/ Evaluate(t)
        BY <4>1 DEF Boot, BootBegin, BootInit, BootPublish, Enter, Evaluate, Acquire, Resolve,
           ParseReturns, Evaluated
      <4>2. CASE Convert(t)
        BY <4>2 DEF Convert, ConvertLookup, ConvertArg, ConvertReverse, ConvertUnit, ConvertPoints,
           ConvertFrom, ConvertSplit, ConvertTo, Evaluated, Peek
      <4>3. CASE Conformable(t) \/ ListReturns(t)
        BY <4>3 DEF Conformable, ConformableTarget, ConformableClone, ConformableNext, ConformableName,
           ConformableReturns, ListReturns, Evaluated, ReadListing
      <4>4. CASE Reload(t)
        BY <4>4 DEF Reload, ReloadAcquire, ReloadInsert, ReloadCommit, ReloadRetain, ReloadExtend
      <4> QED BY <3>2, <4>1, <4>2, <4>3, <4>4 DEF Step
    <3> QED BY <3>1, <3>2
  <2> QED BY <1>0, <2>1 DEF MatchInv
<1>2. ASSUME Reload(t)
      PROVE  /\ \A u \in Thread \ {t} : stage[u] \notin ReloadStage
             /\ Content(t) \in Contents /\ Content(t)' = Content(t)
             /\ lazy = "done" /\ lazy' = "done"
  <2>1. stage[t] \in ReloadStage /\ call' = call /\ lazy' = lazy
    BY <1>2 DEF Reload, ReloadAcquire, ReloadInsert, ReloadCommit, ReloadRetain, ReloadExtend, ReloadStage
  <2>2. call[t].op = "reload" /\ \A u \in Thread : stage[u] \in ReloadStage => u = t
    BY <2>1 DEF CallInv, MatchInv, OneReloader
  <2>3. Content(t) \in Contents
    BY <2>2 DEF Content, Call
  <2> QED BY <2>1, <2>2, <2>3 DEF Content, BootInv, EarlyStage, ReloadStage
<1>3. CASE ~ BootInit(t) /\ ~ BootPublish(t) /\ ~ Reload(t)
  <2>1. UNCHANGED <<listing, listLock, committed>> /\ (lazy' = "done" <=> lazy = "done")
    BY <1>3, ListingKept, ProgressKept DEF Reload
  <2>2. stage'[t] \notin {"listwrite", "extend"} /\ stage[t] \notin {"listwrite", "extend"}
    <3>1. stage[t] \notin {"listwrite", "extend"}
      BY <1>3, ReloadSteps DEF ReloadStage
    <3>2. stage'[t] # "extend"
      BY <1>3, ListingKept DEF Reload
    <3>3. stage'[t] # "listwrite"
      <4>1. CASE Start(t) \/ Boot(t) \/ Enter(t)
        BY <4>1 DEF Start, Boot, BootBegin, BootInit, BootPublish, Enter, Goto, FirstStage, Call
      <4>2. CASE Evaluate(t)
        BY <3>1, <4>2 DEF Evaluate, Acquire, Resolve, ParseReturns, Evaluated, Return, Goto
      <4>3. CASE ConvertLookup(t) \/ ConvertArg(t) \/ ConvertReverse(t) \/ ConvertUnit(t)
        BY <4>3 DEF ConvertLookup, ConvertArg, ConvertReverse, ConvertUnit, Evaluated, Peek, Return, Goto
      <4>4. CASE ConvertPoints(t) \/ ConvertFrom(t) \/ ConvertSplit(t) \/ ConvertTo(t)
        BY <4>4 DEF ConvertPoints, ConvertFrom, ConvertSplit, ConvertTo, Evaluated, Peek, Return, Goto
      <4>5. CASE Conformable(t) \/ ListReturns(t)
        BY <4>5 DEF Conformable, ConformableTarget, ConformableClone, ConformableNext, ConformableName,
           ConformableReturns, ListReturns, Evaluated, ReadListing, Return, Goto
      <4> QED BY <1>3, <4>1, <4>2, <4>3, <4>4, <4>5 DEF Step, Convert
    <3> QED BY <3>1, <3>2, <3>3
  <2>3. \A u \in Thread : stage'[u] \in {"listwrite", "extend"} \/ stage[u] \in {"listwrite", "extend"} =>
                            stage'[u] = stage[u] /\ Content(u)' = Content(u)
    BY <1>0, <2>2
  <2> QED BY <1>1, <2>1, <2>3 DEF MatchInv
<1>4. CASE BootInit(t)
  <2>1. lazy' # "done"
    BY <1>4 DEF BootInit, BootInv
  <2> QED BY <1>1, <2>1 DEF MatchInv
<1>5. CASE BootPublish(t)
  <2>1. /\ stage[t] = "publish" /\ stage'[t] = "ensure" /\ committed' = committed
        /\ listing' = InitialListing(Embedded)
    BY <1>5 DEF BootPublish, Goto
  <2>2. \A u \in Thread : stage'[u] \notin {"listwrite", "extend"}
    BY <1>0, <2>1 DEF BootInv, EarlyStage
  <2>3. Matches(committed', listing')
    BY <2>1, MatchesInitial DEF ProgressInv
  <2> QED BY <1>1, <2>2, <2>3 DEF MatchInv
<1>6. CASE Reload(t)
  <2>1. \A u \in Thread \ {t} : stage'[u] \notin {"listwrite", "extend"} /\ stage[u] \notin {"listwrite", "extend"}
    BY <1>0, <1>2, <1>6 DEF ReloadStage
  <2>2. CASE ReloadAcquire(t) \/ ReloadInsert(t)
    <3>1. /\ UNCHANGED <<listing, committed>>
          /\ stage[t] \notin {"listwrite", "extend"} /\ stage'[t] \notin {"listwrite", "extend"}
      BY <2>2 DEF ReloadAcquire, ReloadInsert, Goto
    <3> QED BY <1>1, <1>2, <1>6, <2>1, <3>1 DEF MatchInv
  <2>3. CASE ReloadCommit(t)
    <3>1. /\ committed' = db /\ listing' = listing
          /\ stage[t] = "insert" /\ stage'[t] = "listwrite"
      BY <2>3 DEF ReloadCommit, Goto
    <3>2. db = LoadAll(committed, Content(t))
      BY <2>3, InsertedAll
    <3>3. Matches(committed, listing)
      BY <1>2, <1>6, <2>1, <3>1 DEF MatchInv
    <3>4. Matches(committed', ReloadListing(listing', Content(t)))
      BY <1>2, <1>6, <3>1, <3>2, <3>3, MatchesReload
    <3> QED BY <1>1, <1>2, <1>6, <2>1, <3>1, <3>4 DEF MatchInv
  <2>4. CASE ReloadRetain(t)
    <3>1. /\ committed' = committed /\ listing' = Retained(listing, Content(t))
          /\ stage[t] = "listwrite" /\ stage'[t] = "extend"
      BY <2>4 DEF ReloadRetain, Goto
    <3>2. Matches(committed', Extended(listing', Content(t)))
      BY <1>2, <1>6, <3>1 DEF MatchInv, ReloadListing
    <3> QED BY <1>1, <1>2, <1>6, <2>1, <3>1, <3>2 DEF MatchInv
  <2>5. CASE ReloadExtend(t)
    <3>1. /\ committed' = committed /\ listing' = Extended(listing, Content(t))
          /\ stage[t] = "extend" /\ stage'[t] = "idle"
      BY <2>5 DEF ReloadExtend, Return, Goto
    <3>2. Matches(committed', listing')
      BY <1>2, <1>6, <3>1 DEF MatchInv
    <3> QED BY <1>1, <1>2, <1>6, <2>1, <3>1, <3>2 DEF MatchInv
  <2> QED BY <1>6, <2>2, <2>3, <2>4, <2>5 DEF Reload
<1> QED BY <1>3, <1>4, <1>5, <1>6

(* If one thread at a time reloads, and files are as units_cur writes them,  *)
(* then whenever no reload is under way every database entry is listed with  *)
(* the definition in use, and no listed unit has another one.                *)
THEOREM ListingAgrees ==
  ASSUME CleanFiles, OneReloader
  PROVE  Spec => []ListingMatchesDatabase
<1> DEFINE Inv == ListInv /\ ProgressInv /\ MatchInv
<1>1. Init => Inv
  <2> SUFFICES ASSUME Init PROVE MatchInv
    BY ListInit, ProgressInit
  <2> QED BY DEF Init, MatchInv
<1>2. Inv /\ [Next]_vars => Inv'
  <2> SUFFICES ASSUME Inv, [Next]_vars PROVE Inv'
    OBVIOUS
  <2>1. ListInv'
    BY ListNext
  <2>2. CASE UNCHANGED vars
    BY <2>1, <2>2 DEF vars, storeVars, ProgressInv, MatchInv, Content
  <2>3. ASSUME NEW t \in Thread, Start(t) \/ Step(t) PROVE Inv'
    BY <2>1, <2>3, ProgressNext, MatchNext
  <2> QED BY <2>2, <2>3 DEF Next, Finished
<1>3. Inv => ListingMatchesDatabase
  <2> SUFFICES ASSUME Inv, Quiet PROVE Matches(db, listing)
    BY DEF ListingMatchesDatabase, Matches, ListedUnits
  <2>1. db = committed
    BY DEF Quiet, ListInv, StoreInv, LockInv, VersionInv
  <2>2. Matches(committed, listing)
    BY DEF Quiet, MatchInv
  <2> QED BY <2>1, <2>2
<1> HIDE DEF Inv
<1> QED BY <1>1, <1>2, <1>3, PTL DEF Spec

-----------------------------------------------------------------------------
\* AtomicStore reads the same Definitions as UnitsStore.
LEMMA SameDefinitions ==
  /\ Atomic!Key = Key /\ Atomic!EmptyDatabase = EmptyDatabase /\ Atomic!EmptyListing = EmptyListing
  /\ \A S : Atomic!Cardinality(S) = Cardinality(S)
  /\ \A d, c : Atomic!LoadAll(d, c) = LoadAll(d, c)
  /\ \A c : Atomic!InitialListing(c) = InitialListing(c)
  /\ \A list, c : Atomic!ReloadListing(list, c) = ReloadListing(list, c)
<1>1. Atomic!Key = Key /\ Atomic!Slot = Slot
  BY DEF Atomic!Key, Key, Atomic!DbKind, DbKind, Atomic!Slot, Slot, Atomic!DefinitionKind, DefinitionKind
<1>2. \A S : Atomic!Cardinality(S) = Cardinality(S)
  BY DEF Atomic!Cardinality, Cardinality
<1>3. /\ \A l : Atomic!Inserts(l) = Inserts(l) /\ Atomic!KeyOf(l) = KeyOf(l) /\ Atomic!SlotOf(l) = SlotOf(l)
      /\ \A c, i : Atomic!Survives(c, i) = Survives(c, i)
  BY DEF Atomic!Inserts, Inserts, Atomic!KeyOf, KeyOf, Atomic!SlotOf, SlotOf, Atomic!Survives, Survives
<1>4. \A d, c : Atomic!LoadAll(d, c) = LoadAll(d, c)
  BY DEF Atomic!LoadAll, LoadAll, Atomic!Key, Key, Atomic!DbKind, DbKind, Atomic!Inserts, Inserts,
     Atomic!KeyOf, KeyOf
<1>5. \A c : Atomic!InitialListing(c) = InitialListing(c)
  BY <1>1, <1>3 DEF Atomic!InitialListing, InitialListing
<1>6. \A c, s : Atomic!Matching(c, s) = Matching(c, s)
  BY <1>3 DEF Atomic!Matching, Matching
<1>7. \A list, c : Atomic!ReloadListing(list, c) = ReloadListing(list, c)
  BY <1>1, <1>6 DEF Atomic!ReloadListing, ReloadListing, Atomic!Retained, Retained, Atomic!Extended, Extended
<1> QED BY <1>1, <1>2, <1>4, <1>5, <1>7 DEF Atomic!EmptyDatabase, EmptyDatabase, Atomic!EmptyListing, EmptyListing

-----------------------------------------------------------------------------
\* The chain of entries an evaluation visits.

Entries(d) == {k \in Key : d[k] # Absent}

LEMMA NextEntryType ==
  ASSUME NEW d \in Database, NEW k \in Key \cup {NoExpr}
  PROVE  /\ Atomic!NextEntry(d, k) \in Key \cup {NoExpr}
         /\ Atomic!NextEntry(d, NoExpr) = NoExpr
         /\ Atomic!NextEntry(d, k) # NoExpr => k \in Entries(d)
<1>1. k # NoExpr /\ d[k] # Absent => d[k] \in Def /\ Refers[d[k]] \in Key \cup {NoExpr}
  BY StoreAssumption DEF Database, Expr
<1> QED BY <1>1 DEF Atomic!NextEntry, Entries

\* The walk from e is defined everywhere and takes one step at a time.
LEMMA WalkSteps ==
  ASSUME NEW d \in Database, NEW e \in Key
  PROVE  /\ Atomic!Walk(d, e) \in [Nat -> Key \cup {NoExpr}]
         /\ Atomic!Walk(d, e)[0] = e
         /\ \A n \in Nat : Atomic!Walk(d, e)[n + 1] = Atomic!NextEntry(d, Atomic!Walk(d, e)[n])
<1> DEFINE S == Key \cup {NoExpr}
           next == [p \in Nat \X S |-> Atomic!NextEntry(d, p[2])]
           Solution(f) == f = [n \in Nat |-> IF n = 0 THEN e ELSE Atomic!NextEntry(d, f[n - 1])]
           walk == Atomic!Walk(d, e)
<1>1. next \in [Nat \X S -> S]
  BY NextEntryType
<1>2. PICK f : Recursion(f, S, e, next)
  <2> HIDE DEF next
  <2> QED BY <1>1, RecursiveFunction
<1>2a. /\ f \in [Nat -> S] /\ f[0] = e
       /\ \A n \in Nat : f[n + 1] = next[<<n + 1, f[n]>>]
  BY <1>2 DEF Recursion
<1>3. \A n \in Nat : next[<<n + 1, f[n]>>] = Atomic!NextEntry(d, f[n])
  BY <1>2a
<1>4. Solution(f)
  <2>1. ASSUME NEW n \in Nat PROVE f[n] = IF n = 0 THEN e ELSE Atomic!NextEntry(d, f[n - 1])
    <3>1. CASE n # 0
      <4>1. n - 1 \in Nat /\ (n - 1) + 1 = n
        BY <3>1
      <4> HIDE DEF next
      <4> QED BY <1>2a, <1>3, <3>1, <4>1
    <3> QED BY <1>2a, <3>1
  <2> HIDE DEF next
  <2> QED BY <1>2a, <2>1
<1>5. walk = CHOOSE g : Solution(g)
  BY DEF Atomic!Walk
<1>6. Solution(walk)
  <2> HIDE DEF Solution, walk
  <2> QED BY <1>4, <1>5
<1> HIDE DEF walk
<1>7. walk[0] = e /\ \A n \in Nat : walk[n + 1] = Atomic!NextEntry(d, walk[n])
  BY <1>6
<1>8. walk \in [Nat -> S]
  <2> DEFINE typed == {n \in Nat : walk[n] \in S}
  <2>1. 0 \in typed /\ \A n \in typed : n + 1 \in typed
    BY <1>7, NextEntryType
  <2> HIDE DEF typed
  <2>2. typed = Nat
    <3>1. typed \in SUBSET Nat
      BY DEF typed
    <3> QED BY <2>1, <3>1, NaturalInduction
  <2> QED BY <1>6, <2>2 DEF typed
<1> QED BY <1>7, <1>8 DEF walk

\* The first n + 1 entries of a walk, all of them different.
Distinct(w, n) == /\ \A i \in 0 .. n : w[i] \in Key
                  /\ \A i, j \in 0 .. n : w[i] = w[j] => i = j

Visited(w, n) == {w[i] : i \in 0 .. n}

\* A walk that goes on is among the entries there are, so that it is no longer
\* than their number.
LEMMA WalkIsShort ==
  ASSUME NEW d \in Database, NEW e \in Key, NEW n \in Nat, IsFiniteSet(Entries(d)),
         Distinct(Atomic!Walk(d, e), n)
  PROVE  /\ Cardinality(Entries(d)) \in Nat
         /\ n <= Cardinality(Entries(d))
         /\ Atomic!Walk(d, e)[n + 1] # NoExpr => n + 1 <= Cardinality(Entries(d))
         /\ Cardinality(Visited(Atomic!Walk(d, e), n)) = n + 1
<1> DEFINE w == Atomic!Walk(d, e)
<1>1. Cardinality(Entries(d)) \in Nat
  BY FS_CardinalityType
<1>2. \A i \in Nat : w[i] \in Key \cup {NoExpr} /\ (w[i + 1] # NoExpr => w[i] \in Entries(d))
  BY WalkSteps, NextEntryType
<1> HIDE DEF w
<1>3. \A m \in 0 .. n : Cardinality(Visited(w, m)) = m + 1 /\ IsFiniteSet(Visited(w, m))
  <2> SUFFICES ASSUME NEW m \in 0 .. n
               PROVE  Cardinality(Visited(w, m)) = m + 1 /\ IsFiniteSet(Visited(w, m))
    OBVIOUS
  <2>1. m \in Nat /\ \A i, j \in 0 .. m : w[i] = w[j] => i = j
    BY DEF Distinct, w
  <2> QED BY <2>1, DistinctValues DEF Visited
<1>4. ASSUME NEW m \in 0 .. n, w[m + 1] # NoExpr
      PROVE  m + 1 <= Cardinality(Entries(d))
  <2>1. \A i \in 0 .. m : w[i + 1] # NoExpr
    <3>1. SUFFICES ASSUME NEW i \in 0 .. m, i # m PROVE w[i + 1] # NoExpr
      BY <1>4
    <3>2. i + 1 \in 0 .. n
      BY <3>1
    <3> QED BY <3>2, StoreAssumption DEF Distinct, w, Expr
  <2>2. Visited(w, m) \in SUBSET Entries(d)
    BY <1>2, <2>1 DEF Visited
  <2> QED BY <1>3, <2>2, FS_Subset
<1>5. n <= Cardinality(Entries(d))
  <2>1. CASE n = 0
    BY <1>1, <2>1
  <2>2. CASE n # 0
    <3>1. n - 1 \in 0 .. n /\ (n - 1) + 1 = n
      BY <2>2
    <3>2. w[n] # NoExpr
      BY StoreAssumption DEF Distinct, w, Expr
    <3> QED BY <1>4, <3>1, <3>2
  <2> QED BY <2>1, <2>2
<1>6. n \in 0 .. n
  OBVIOUS
<1> QED BY <1>1, <1>3, <1>4, <1>5, <1>6 DEF w

\* A walk that has come to its end.
LEMMA EndedEvaluation ==
  ASSUME NEW d \in Database, NEW e \in Key, NEW n \in Nat, IsFiniteSet(Entries(d)),
         Distinct(Atomic!Walk(d, e), n), Atomic!Walk(d, e)[n + 1] = NoExpr
  PROVE  LET k == Atomic!Walk(d, e)[n]
             code == IF d[k] = Absent THEN "UnknownUnit" ELSE IF d[k] \in Faulty THEN "BadSum" ELSE "OK"
         IN  Atomic!Evaluation(d, e) =
               [code |-> code, base |-> IF code = "OK" THEN k ELSE NoExpr,
                reads |-> {<<q, d[q]>> : q \in Visited(Atomic!Walk(d, e), n)}]
<1> DEFINE w == Atomic!Walk(d, e)
           bound == Cardinality(Entries(d)) + 1
           chain == Atomic!Chain(d, e)
<1>1. chain = [m \in 0 .. bound |-> w[m]]
  BY SameDefinitions DEF Atomic!Chain, Entries
<1>2. bound \in Nat /\ n + 1 <= bound /\ Cardinality(Visited(w, n)) = n + 1
  BY WalkIsShort
<1>3. \A i \in Nat : w[i + 1] = Atomic!NextEntry(d, w[i])
  BY WalkSteps
<1> HIDE DEF w, bound, chain
<1>4. \A i \in Nat : w[n + 1 + i] = NoExpr
  <2> DEFINE ended == {i \in Nat : w[n + 1 + i] = NoExpr}
  <2>1. 0 \in ended
    BY DEF w
  <2>2. ASSUME NEW i \in ended PROVE i + 1 \in ended
    <3>1. w[(n + 1 + i) + 1] = NoExpr
      BY <1>3, NextEntryType DEF w
    <3>2. n + 1 + (i + 1) = (n + 1 + i) + 1
      OBVIOUS
    <3> QED BY <3>1, <3>2
  <2>3. ended \in SUBSET Nat
    OBVIOUS
  <2> HIDE DEF ended
  <2>4. ended = Nat
    BY <2>1, <2>2, <2>3, NaturalInduction
  <2> QED BY <2>4 DEF ended
<1>5. \A i \in 0 .. n : w[i] \in Key /\ w[i] # NoExpr
  BY StoreAssumption DEF Distinct, Expr, w
<1>6. \A i \in 0 .. bound : i \in 0 .. n \/ w[i] = NoExpr
  <2> SUFFICES ASSUME NEW i \in 0 .. bound, i \notin 0 .. n PROVE w[i] = NoExpr
    OBVIOUS
  <2>1. i - (n + 1) \in Nat /\ n + 1 + (i - (n + 1)) = i
    BY <1>2
  <2> QED BY <1>4, <2>1
<1>7. {chain[i] : i \in DOMAIN chain} \ {NoExpr} = Visited(w, n)
  <2>1. 0 .. n \subseteq 0 .. bound /\ DOMAIN chain = 0 .. bound
    BY <1>1, <1>2
  <2>2. \A i \in 0 .. bound : chain[i] = w[i]
    BY <1>1
  <2> QED BY <1>5, <1>6, <2>1, <2>2 DEF Visited
<1>8. NoExpr \in {chain[i] : i \in DOMAIN chain}
  <2>1. n + 1 \in 0 .. bound /\ w[n + 1] = NoExpr
    BY <1>2 DEF w
  <2> QED BY <1>1, <2>1
<1>9. chain[Cardinality(Visited(w, n)) - 1] = w[n]
  BY <1>1, <1>2
<1>10. Atomic!Cardinality({chain[i] : i \in DOMAIN chain} \ {NoExpr}) = Cardinality(Visited(w, n))
  BY <1>7, SameDefinitions
<1>11. chain[Atomic!Cardinality({chain[i] : i \in DOMAIN chain} \ {NoExpr}) - 1] = w[n]
  BY <1>9, <1>10
<1> QED BY <1>7, <1>8, <1>11 DEF Atomic!Evaluation, w, chain

\* A walk that comes back to an entry it has visited.
LEMMA CircularEvaluation ==
  ASSUME NEW d \in Database, NEW e \in Key, NEW n \in Nat, IsFiniteSet(Entries(d)),
         Distinct(Atomic!Walk(d, e), n),
         Atomic!Walk(d, e)[n + 1] \in Visited(Atomic!Walk(d, e), n)
  PROVE  Atomic!Evaluation(d, e) =
           [code |-> "Parse", base |-> NoExpr,
            reads |-> {<<q, d[q]>> : q \in Visited(Atomic!Walk(d, e), n)}]
<1> DEFINE w == Atomic!Walk(d, e)
           bound == Cardinality(Entries(d)) + 1
           chain == Atomic!Chain(d, e)
           round == {i \in Nat : w[i] \in Visited(w, n)}
<1>1. chain = [m \in 0 .. bound |-> w[m]]
  BY SameDefinitions DEF Atomic!Chain, Entries
<1>2. bound \in Nat /\ n <= bound
  BY WalkIsShort
<1>3. \A i \in Nat : w[i + 1] = Atomic!NextEntry(d, w[i])
  BY WalkSteps
<1> HIDE DEF w, bound, chain
<1>4. round = Nat
  <2>1. 0 \in round
    BY DEF Visited
  <2>2. ASSUME NEW i \in round PROVE i + 1 \in round
    <3>1. PICK j \in 0 .. n : w[i] = w[j]
      BY DEF Visited
    <3>2. w[i + 1] = w[j + 1]
      BY <1>3, <3>1
    <3>3. CASE j = n
      BY <3>2, <3>3 DEF w
    <3>4. CASE j # n
      BY <3>2, <3>4 DEF Visited
    <3> QED BY <3>3, <3>4
  <2>3. round \in SUBSET Nat
    OBVIOUS
  <2> HIDE DEF round
  <2> QED BY <2>1, <2>2, <2>3, NaturalInduction
<1>5. Visited(w, n) \subseteq Key
  BY DEF Distinct, Visited, w
<1>6. {chain[i] : i \in DOMAIN chain} = Visited(w, n)
  <2>1. 0 .. n \subseteq 0 .. bound /\ DOMAIN chain = 0 .. bound
    BY <1>1, <1>2
  <2>2. \A i \in 0 .. bound : chain[i] = w[i] /\ w[i] \in Visited(w, n)
    BY <1>1, <1>2, <1>4
  <2> QED BY <2>1, <2>2 DEF Visited
<1>7. NoExpr \notin Visited(w, n)
  BY <1>5, StoreAssumption DEF Expr
<1>8. Visited(w, n) \ {NoExpr} = Visited(w, n)
  BY <1>7
<1> QED BY <1>6, <1>7, <1>8 DEF Atomic!Evaluation, w, chain

-----------------------------------------------------------------------------
\* An evaluation in progress walks the chain from its first entry.

\* The expression a call evaluates at its call site.
Subject(t) == CASE stage[t] \in {"expr", "target"} -> call[t].expr
                [] stage[t] \in {"arg", "from"} -> call[t].from
                [] stage[t] = "split" -> Split[call[t].from]
                [] stage[t] \in {"reverse", "unit"} -> local[t].expr
                [] stage[t] = "to" -> <<"Unit", call[t].to>>
                [] stage[t] = "name" -> <<"Unit", Canon[CHOOSE n \in local[t].cur : TRUE]>>

\* It has looked up the first n entries and goes on with the next one.
Visiting(d, e, f) ==
  \E n \in Nat :
    /\ Distinct(Atomic!Walk(d, e), n)
    /\ f.want = Atomic!Walk(d, e)[n]
    /\ f.value = [code |-> "OK", base |-> NoExpr,
                  reads |-> {<<q, d[q]>> : q \in {Atomic!Walk(d, e)[i] : i \in 0 .. n - 1}}]

PathOf(t) ==
  stage[t] \in ParseStage =>
    /\ Subject(t) \in Key
    /\ ~ eval[t].on => eval[t].want = Subject(t)
    /\ eval[t].on /\ eval[t].want # NoExpr => Visiting(db, Subject(t), eval[t])
    /\ eval[t].on /\ eval[t].want = NoExpr => eval[t].value = Atomic!Evaluation(db, Subject(t))

PathInv ==
  /\ \A t \in Thread : PathOf(t)
  /\ \A t \in Thread : stage[t] \in {"arg", "reverse", "unit"} => local[t].expr \in Key
  /\ IsFiniteSet(Entries(committed))

RefinementInv == ListInv /\ ProgressInv /\ PathInv

\* A file adds finitely many entries.
LEMMA LoadAllFinite ==
  ASSUME NEW d \in Database, NEW content \in Seq(Line), IsFiniteSet(Entries(d))
  PROVE  IsFiniteSet(Entries(LoadAll(d, content)))
<1> DEFINE keys == {KeyOf(content[i]) : i \in 1 .. Len(content)}
           f == [i \in 1 .. Len(content) |-> KeyOf(content[i])]
<1>1. IsFiniteSet(keys)
  <2>1. f \in Surjection(1 .. Len(content), keys)
    BY DEF Surjection
  <2>2. IsFiniteSet(1 .. Len(content))
    BY FS_Interval, Len(content) \in Nat
  <2> HIDE DEF f, keys
  <2> QED BY <2>1, <2>2, FS_Surjection
<1>2. Entries(LoadAll(d, content)) \subseteq Entries(d) \cup keys
  <2> SUFFICES ASSUME NEW k \in Key, LoadAll(d, content)[k] # Absent, k \notin keys
               PROVE  d[k] # Absent
    BY DEF Entries
  <2>1. Hits(content, k) = {}
    BY LineFields DEF Hits
  <2> QED BY <2>1, LoadAllEntry
<1>3. IsFiniteSet(Entries(d) \cup keys)
  BY <1>1, FS_Union
<1> HIDE DEF keys
<1> QED BY <1>2, <1>3, FS_Subset

LEMMA EmptyFinite == IsFiniteSet(Entries(EmptyDatabase))
<1>1. Entries(EmptyDatabase) = {}
  BY DEF Entries, EmptyDatabase
<1> QED BY <1>1, FS_EmptySet

\* One more entry is looked up: the walk goes on, comes to its end, or comes back.
LEMMA LookUpWalks ==
  ASSUME NEW d \in Database, NEW e \in Key, IsFiniteSet(Entries(d)), NEW n \in Nat,
         Distinct(Atomic!Walk(d, e), n), NEW v,
         v = [code |-> "OK", base |-> NoExpr,
              reads |-> {<<q, d[q]>> : q \in {Atomic!Walk(d, e)[i] : i \in 0 .. n - 1}}]
  PROVE  LET k == Atomic!Walk(d, e)[n]
             f == LookUp(v, k, d[k])
         IN  /\ f.on
             /\ f.want # NoExpr =>
                  /\ Distinct(Atomic!Walk(d, e), n + 1)
                  /\ f.want = Atomic!Walk(d, e)[n + 1]
                  /\ f.value = [code |-> "OK", base |-> NoExpr,
                                reads |-> {<<q, d[q]>> : q \in {Atomic!Walk(d, e)[i] : i \in 0 .. n}}]
             /\ f.want = NoExpr => f.value = Atomic!Evaluation(d, e)
<1> DEFINE w == Atomic!Walk(d, e)
           k == w[n]
           next == IF d[k] = Absent \/ d[k] \in Faulty THEN NoExpr ELSE Refers[d[k]]
           seenBefore == next \in Resolving(v) \cup {k}
           code == IF d[k] = Absent THEN "UnknownUnit"
                   ELSE IF d[k] \in Faulty THEN "BadSum"
                   ELSE IF seenBefore THEN "Parse" ELSE "OK"
           reads == {<<q, d[q]>> : q \in Visited(w, n)}
<1>1. /\ \A i \in 0 .. n : w[i] \in Key /\ w[i] # NoExpr
      /\ k \in Key /\ k # NoExpr
  BY StoreAssumption DEF Distinct, Expr
<1>2. w[n + 1] = next
  <2>1. w[n + 1] = Atomic!NextEntry(d, k)
    BY WalkSteps
  <2> HIDE DEF w
  <2> QED BY <1>1, <2>1 DEF Atomic!NextEntry
<1> DEFINE early == {w[i] : i \in 0 .. n - 1}
<1>2a. Visited(w, n) = early \cup {k} /\ v.reads = {<<q, d[q]>> : q \in early}
  <2>1. 0 .. n = 0 .. n - 1 \cup {n}
    OBVIOUS
  <2>2. v.reads = {<<q, d[q]>> : q \in early}
    OBVIOUS
  <2> HIDE DEF w
  <2>3. Visited(w, n) = early \cup {k}
    BY <2>1 DEF Visited
  <2> QED BY <2>2, <2>3
<1> HIDE DEF early
<1>3. Resolving(v) \cup {k} = Visited(w, n)
  <2>1. \A q \in early : <<q, d[q]>> \in v.reads /\ <<q, d[q]>>[1] = q
    BY <1>2a
  <2>2. \A r \in v.reads : r[1] \in early
    BY <1>2a
  <2>3. Resolving(v) = early
    BY <2>1, <2>2 DEF Resolving
  <2> QED BY <1>2a, <2>3
<1>4. v.reads \cup {<<k, d[k]>>} = reads
  BY <1>2a
<1>5. LookUp(v, k, d[k]) =
        [on |-> TRUE, want |-> IF seenBefore THEN NoExpr ELSE next,
         value |-> [code |-> code, base |-> IF code = "OK" /\ next = NoExpr THEN k ELSE NoExpr,
                    reads |-> reads]]
  BY <1>4 DEF LookUp
<1>6. seenBefore <=> next \in Visited(w, n)
  BY <1>3
<1>7. NoExpr \notin Visited(w, n)
  BY <1>1 DEF Visited
<1>8. next # NoExpr => d[k] # Absent /\ d[k] \notin Faulty
  OBVIOUS
<1> HIDE DEF w, k, next, seenBefore, reads
<1>9. CASE seenBefore
  <2>1. next # NoExpr /\ w[n + 1] \in Visited(w, n)
    BY <1>2, <1>6, <1>7, <1>9
  <2>2. Atomic!Evaluation(d, e) = [code |-> "Parse", base |-> NoExpr, reads |-> reads]
    BY <2>1, CircularEvaluation DEF w, reads
  <2>3. code = "Parse"
    BY <1>8, <1>9, <2>1
  <2>4. LookUp(v, k, d[k]) = [on |-> TRUE, want |-> NoExpr, value |-> Atomic!Evaluation(d, e)]
    BY <1>5, <1>9, <2>2, <2>3
  <2> QED BY <2>4 DEF w, k
<1>10. CASE ~ seenBefore /\ next = NoExpr
  <2>1. w[n + 1] = NoExpr
    BY <1>2, <1>10
  <2>2. LET c == IF d[k] = Absent THEN "UnknownUnit" ELSE IF d[k] \in Faulty THEN "BadSum" ELSE "OK"
        IN  Atomic!Evaluation(d, e) = [code |-> c, base |-> IF c = "OK" THEN k ELSE NoExpr, reads |-> reads]
    BY <2>1, EndedEvaluation DEF w, k, reads
  <2>3. LookUp(v, k, d[k]) = [on |-> TRUE, want |-> NoExpr, value |-> Atomic!Evaluation(d, e)]
    BY <1>5, <1>10, <2>2
  <2> QED BY <2>3 DEF w, k
<1>11. CASE ~ seenBefore /\ next # NoExpr
  <2>1. LookUp(v, k, d[k]) =
          [on |-> TRUE, want |-> next, value |-> [code |-> "OK", base |-> NoExpr, reads |-> reads]]
    BY <1>5, <1>8, <1>11
  <2>2. w[n + 1] \in Key /\ w[n + 1] \notin Visited(w, n)
    <3>1. w \in [Nat -> Key \cup {NoExpr}]
      BY WalkSteps DEF w
    <3> QED BY <1>2, <1>6, <1>11, <3>1
  <2>3. Distinct(w, n + 1)
    <3>1. \A i \in 0 .. n + 1 : i \in 0 .. n \/ i = n + 1
      OBVIOUS
    <3>2. \A i \in 0 .. n : w[i] # w[n + 1]
      BY <2>2 DEF Visited
    <3>3. \A i, j \in 0 .. n : w[i] = w[j] => i = j
      BY DEF Distinct, w
    <3> QED BY <1>1, <2>2, <3>1, <3>2, <3>3 DEF Distinct
  <2>4. reads = {<<q, d[q]>> : q \in {w[i] : i \in 0 .. n}}
    BY DEF reads, Visited
  <2> DEFINE f == LookUp(v, k, d[k])
  <2>5. /\ f.on /\ f.want = w[n + 1] /\ f.want # NoExpr
        /\ f.value = [code |-> "OK", base |-> NoExpr, reads |-> reads]
    BY <1>2, <1>11, <2>1
  <2> HIDE DEF f
  <2>6. f.value = [code |-> "OK", base |-> NoExpr, reads |-> {<<q, d[q]>> : q \in {w[i] : i \in 0 .. n}}]
    BY <2>4, <2>5
  <2> QED BY <2>3, <2>5, <2>6 DEF w, k, f
<1> QED BY <1>9, <1>10, <1>11

-----------------------------------------------------------------------------
\* PathInv is inductive.

\* The database stands still while an evaluation holds its guard.
LEMMA DatabaseHeld ==
  ASSUME ListInv, NEW t \in Thread, Start(t) \/ Step(t), NEW u \in Thread, eval[u].on
  PROVE  db' = db
<1> USE DEF ListInv, StoreInv
<1>1. ~ BootInit(t)
  BY DEF BootInit, BootInv, LockInv, ParseStage, EarlyStage
<1>2. ~ ReloadInsert(t)
  BY DEF ReloadInsert, LockInv
<1>3. CASE Reload(t)
  BY <1>2, <1>3 DEF Reload, ReloadAcquire, ReloadCommit, ReloadRetain, ReloadExtend
<1> QED BY <1>1, <1>3, ProgressKept

LEMMA PathOther ==
  ASSUME RefinementInv, NEW t \in Thread, Start(t) \/ Step(t), NEW u \in Thread, u # t
  PROVE  PathOf(u)' /\ (stage'[u] \in {"arg", "reverse", "unit"} => local'[u].expr \in Key)
<1>1. /\ stage'[u] = stage[u] /\ call'[u] = call[u] /\ eval'[u] = eval[u] /\ local'[u] = local[u]
  BY OthersKeep DEF RefinementInv, ListInv, StoreInv
<1>2. Subject(u)' = Subject(u)
  BY <1>1 DEF Subject
<1>3. eval[u].on => db' = db
  BY DatabaseHeld DEF RefinementInv
<1>4. PathOf(u)'
  BY <1>1, <1>2, <1>3 DEF RefinementInv, PathInv, PathOf
<1> QED BY <1>1, <1>4 DEF RefinementInv, PathInv

\* A thread that moves to a call site has its subject before it.
LEMMA PathGoto ==
  ASSUME TypeInv, NEW t \in Thread, NEW s, NEW e, Goto(t, s, e),
         s \in ParseStage => Subject(t)' = e /\ e \in Key
  PROVE  PathOf(t)'
BY DEF Goto, Pending, PathOf, TypeInv, TypeOK

\* Where the calls go, and with what.
LEMMA ConvertPath ==
  ASSUME RefinementInv, NEW t \in Thread, Convert(t)
  PROVE  PathOf(t)' /\ (stage'[t] \in {"arg", "reverse", "unit"} => local'[t].expr \in Key)
<1> USE DEF RefinementInv, ListInv, StoreInv, TypeInv, TypeOK
<1>1. call[t] \in Call /\ local[t] \in Local
  OBVIOUS
<1>2. /\ call[t].op = "convert" /\ stage[t] \in ConvertStage /\ call' = call
  BY DEF Convert, ConvertLookup, ConvertArg, ConvertReverse, ConvertUnit, ConvertPoints,
     ConvertFrom, ConvertSplit, ConvertTo, Evaluated, Peek, CallInv, ConvertStage
<1>3. /\ call[t].from \in Key /\ <<"Unit", call[t].to>> \in Key
      /\ Split[call[t].from] \in Key \cup {NoExpr} /\ NoExpr \notin Key
  BY <1>1, <1>2, CallFields, StoreAssumption DEF Expr, Key, DbKind
<1>4. ASSUME NEW s \in ConvertStage, NEW e, Goto(t, s, e), s \notin {"reverse", "unit", "arg"},
             s \in {"from", "split", "to"},
             s = "from" => e = call[t].from, s = "split" => e = Split[call[t].from] /\ e # NoExpr,
             s = "to" => e = <<"Unit", call[t].to>>
      PROVE  PathOf(t)' /\ (stage'[t] \in {"arg", "reverse", "unit"} => local'[t].expr \in Key)
  <2>1. stage'[t] = s
    BY <1>4 DEF Goto
  <2>2. Subject(t)' = e
    BY <1>2, <1>4, <2>1 DEF Subject
  <2>3. e \in Key
    BY <1>3, <1>4
  <2> QED BY <1>4, <2>1, <2>2, <2>3, PathGoto
<1>5. ASSUME NEW s, NEW e, Goto(t, s, e), s \in {"idle", "points"}
      PROVE  PathOf(t)' /\ (stage'[t] \in {"arg", "reverse", "unit"} => local'[t].expr \in Key)
  <2>1. stage'[t] = s
    BY <1>5 DEF Goto
  <2>2. s \notin ParseStage
    BY <1>5 DEF ParseStage
  <2> QED BY <1>5, <2>1, <2>2, PathGoto
<1>6. CASE ConvertLookup(t)
  <2>1. db \in Database /\ FunctionEntry(t) \in Def \cup {Absent} /\ TableEntry(t) \in Def \cup {Absent}
    BY <1>1, <1>2, CallFields DEF FunctionEntry, TableEntry, Database, Key, DbKind
  <2> DEFINE function == FunctionEntry(t) # Absent
             found == IF function THEN Reverse[FunctionEntry(t)]
                      ELSE IF TableEntry(t) # Absent THEN Refers[TableEntry(t)]
                      ELSE NoExpr
  <2>2. found \in Key \cup {NoExpr}
    BY <2>1, StoreAssumption DEF Expr
  <2>3. /\ Store(t, [local[t] EXCEPT !.expr = found, !.table = ~function])
        /\ Goto(t, IF found = NoExpr THEN "from" ELSE "arg", call[t].from)
    BY <1>6 DEF ConvertLookup
  <2> HIDE DEF found, function
  <2>4. local'[t].expr = found
    BY <1>1, <2>3 DEF Store, Local
  <2>5. CASE found = NoExpr
    BY <1>4, <2>3, <2>5 DEF ConvertStage
  <2>6. CASE found # NoExpr
    <3>1. Goto(t, "arg", call[t].from) /\ stage'[t] = "arg"
      BY <2>3, <2>6 DEF Goto
    <3>2. Subject(t)' = call[t].from
      BY <1>2, <3>1 DEF Subject
    <3> QED BY <1>3, <2>2, <2>4, <2>6, <3>1, <3>2, PathGoto
  <2> QED BY <2>5, <2>6
<1>7. CASE ConvertArg(t)
  <2>1. CASE Good(t)
    <3> DEFINE s == IF local[t].table THEN "unit" ELSE "reverse"
    <3>1. /\ Store(t, [local[t] EXCEPT !.val = eval[t].value])
          /\ Goto(t, s, local[t].expr)
          /\ stage[t] = "arg"
      BY <1>7, <2>1 DEF ConvertArg, Evaluated
    <3>2. local'[t].expr = local[t].expr
      BY <1>1, <3>1 DEF Store, Local
    <3>3. local[t].expr \in Key
      BY <3>1 DEF PathInv
    <3>4. stage'[t] = s /\ s \in {"unit", "reverse"}
      BY <3>1 DEF Goto
    <3> HIDE DEF s
    <3>5. Subject(t)' = local[t].expr
      BY <3>2, <3>4 DEF Subject
    <3> QED BY <3>1, <3>2, <3>3, <3>4, <3>5, PathGoto
  <2>2. CASE ~ Good(t)
    <3>1. Goto(t, "from", call[t].from)
      BY <1>7, <2>2 DEF ConvertArg
    <3> QED BY <1>4, <3>1 DEF ConvertStage
  <2> QED BY <2>1, <2>2
<1>8. CASE ConvertReverse(t)
  BY <1>5, <1>8 DEF ConvertReverse, Return
<1>9. CASE ConvertUnit(t)
  <2>1. \E s \in {"idle", "points"} : \E e : Goto(t, s, e)
    BY <1>9 DEF ConvertUnit, Return
  <2> QED BY <1>5, <2>1
<1>10. CASE ConvertPoints(t)
  <2>1. Goto(t, "idle", NoExpr) \/ Goto(t, "from", call[t].from)
    BY <1>10 DEF ConvertPoints, Return
  <2> QED BY <1>4, <1>5, <2>1 DEF ConvertStage
<1>11. CASE ConvertFrom(t)
  <2>1. \/ Goto(t, "idle", NoExpr) \/ Goto(t, "to", <<"Unit", call[t].to>>)
        \/ Goto(t, "split", Split[call[t].from]) /\ Split[call[t].from] # NoExpr
    BY <1>11 DEF ConvertFrom, Return, Retries
  <2> QED BY <1>4, <1>5, <2>1 DEF ConvertStage
<1>12. CASE ConvertSplit(t)
  <2>1. Goto(t, "idle", NoExpr) \/ Goto(t, "to", <<"Unit", call[t].to>>)
    BY <1>12 DEF ConvertSplit, Return
  <2> QED BY <1>4, <1>5, <2>1 DEF ConvertStage
<1>13. CASE ConvertTo(t)
  BY <1>5, <1>13 DEF ConvertTo, Return
<1> QED BY <1>6, <1>7, <1>8, <1>9, <1>10, <1>11, <1>12, <1>13 DEF Convert

LEMMA OtherCallsPath ==
  ASSUME RefinementInv, NEW t \in Thread,
         Start(t) \/ Boot(t) \/ Enter(t) \/ Conformable(t) \/ ListReturns(t)
           \/ Reload(t) \/ ParseReturns(t)
  PROVE  PathOf(t)' /\ stage'[t] \notin {"arg", "reverse", "unit"}
<1> USE DEF RefinementInv, ListInv, StoreInv, TypeInv, TypeOK
<1>1. call[t] \in Call /\ local[t] \in Local
  OBVIOUS
<1>2. ASSUME NEW s, NEW e, Goto(t, s, e), s \notin ParseStage
      PROVE  PathOf(t)' /\ stage'[t] \notin {"arg", "reverse", "unit"}
  <2>1. stage'[t] = s
    BY <1>2 DEF Goto
  <2> QED BY <1>2, <2>1, PathGoto DEF ParseStage
<1>3. CASE Start(t) \/ Boot(t)
  <2>1. \E s \in EarlyStage : \E e : Goto(t, s, e)
    BY <1>3 DEF Start, Boot, BootBegin, BootInit, BootPublish, EarlyStage
  <2> QED BY <1>2, <2>1 DEF EarlyStage, ParseStage
<1>4. CASE Enter(t)
  <2> DEFINE s == FirstStage(call[t])
             e == IF call[t].op \in {"parse", "conformable"} THEN call[t].expr ELSE NoExpr
  <2>1. Goto(t, s, e) /\ call' = call
    BY <1>4 DEF Enter
  <2>2. /\ s \in {"expr", "target", "lookup", "list", "dbwrite"}
        /\ s \in {"expr", "target"} => call[t].op \in {"parse", "conformable"}
    BY <1>1, CallFields DEF FirstStage
  <2>3. s \in {"expr", "target"} => e \in Key /\ e = call[t].expr
    BY <1>1, <2>2, CallFields DEF Expr
  <2> HIDE DEF s, e
  <2>4. stage'[t] = s
    BY <2>1 DEF Goto
  <2>5. s \in ParseStage => Subject(t)' = e /\ e \in Key
    BY <2>1, <2>2, <2>3, <2>4 DEF Subject, ParseStage
  <2> QED BY <2>1, <2>2, <2>4, <2>5, PathGoto
<1>5. CASE ConformableNext(t)
  <2>1. PICK n \in local[t].todo : /\ Store(t, [local[t] EXCEPT !.todo = @ \ {n}, !.cur = {n}])
                                   /\ Goto(t, "name", <<"Unit", Canon[n]>>)
    BY <1>5 DEF ConformableNext
  <2>2. <<"Unit", Canon[n]>> \in Key
    BY <1>1, DefinitionsAssumption DEF Local, Key, DbKind
  <2>3. local'[t].cur = {n} /\ stage'[t] = "name"
    BY <1>1, <2>1 DEF Store, Local, Goto
  <2>4. Subject(t)' = <<"Unit", Canon[n]>>
    BY <2>3 DEF Subject
  <2> QED BY <2>1, <2>2, <2>3, <2>4, PathGoto
<1>6. CASE Conformable(t) /\ ~ ConformableNext(t)
  <2>1. \E s \in {"idle", "clone", "names"} : \E e : Goto(t, s, e)
    BY <1>6 DEF Conformable, ConformableTarget, ConformableClone, ConformableName,
       ConformableReturns, Return
  <2> QED BY <1>2, <2>1 DEF ParseStage
<1>7. CASE ListReturns(t) \/ ParseReturns(t)
  BY <1>2, <1>7 DEF ListReturns, ParseReturns, Return, ParseStage
<1>8. CASE Reload(t) /\ ~ ReloadInsert(t)
  <2>1. \E s \in {"insert", "listwrite", "extend", "idle"} : \E e : Goto(t, s, e)
    BY <1>8 DEF Reload, ReloadAcquire, ReloadCommit, ReloadRetain, ReloadExtend, Return
  <2> QED BY <1>2, <2>1 DEF ParseStage
<1>9. CASE ReloadInsert(t)
  BY <1>9 DEF ReloadInsert, PathOf, ParseStage
<1> QED BY <1>3, <1>4, <1>5, <1>6, <1>7, <1>8, <1>9

\* Without a writer, what is finite about the committed database is so of db.
LEMMA FiniteHeld ==
  ASSUME RefinementInv, NEW t \in Thread, eval[t].on
  PROVE  IsFiniteSet(Entries(db)) /\ db \in Database /\ db = committed
<1>1. dbLock.writers = {}
  BY DEF RefinementInv, ListInv, StoreInv, LockInv
<1> QED BY <1>1 DEF RefinementInv, ListInv, StoreInv, TypeInv, TypeOK, VersionInv, PathInv

LEMMA EvaluationPath ==
  ASSUME RefinementInv, NEW t \in Thread, Acquire(t) \/ Resolve(t)
  PROVE  /\ PathOf(t)' /\ UNCHANGED <<stage, local, db>>
         /\ Resolve(t) => /\ stage[t] \in ParseStage /\ Subject(t) \in Key /\ db = committed
                          /\ eval'[t].on
                          /\ eval'[t].want = NoExpr => eval'[t].value = Atomic!Evaluation(db, Subject(t))
<1> USE DEF RefinementInv, ListInv, StoreInv, TypeInv, TypeOK
<1>1. /\ UNCHANGED <<stage, local, db, call>> /\ stage[t] \in ParseStage
  BY DEF Acquire, Resolve, storeVars, LockInv
<1>2. Subject(t)' = Subject(t) /\ Subject(t) \in Key /\ NoExpr \notin Key
  BY <1>1, StoreAssumption DEF Subject, PathInv, PathOf, Expr
<1> DEFINE e == Subject(t)
           w == Atomic!Walk(db, e)
<1>3. CASE Acquire(t)
  <2>1. eval'[t].on /\ eval'[t].want = e /\ eval'[t].value = NoValue
    BY <1>1, <1>3 DEF Acquire, PathInv, PathOf, ReadsInv, Frame
  <2>2. w[0] = e /\ db \in Database
    BY <1>2, WalkSteps
  <2> HIDE DEF w
  <2>3. Distinct(w, 0)
    BY <1>2, <2>2 DEF Distinct
  <2>4. NoValue = [code |-> "OK", base |-> NoExpr,
                   reads |-> {<<q, db[q]>> : q \in {w[i] : i \in 0 .. 0 - 1}}]
    <3>1. {w[i] : i \in 0 .. 0 - 1} = {}
      OBVIOUS
    <3>2. {<<q, db[q]>> : q \in {w[i] : i \in 0 .. 0 - 1}} = {}
      BY <3>1
    <3> QED BY <3>2 DEF NoValue
  <2>5. Visiting(db, e, eval'[t])
    BY <2>1, <2>2, <2>3, <2>4, 0 \in Nat DEF Visiting, w
  <2>6. Visiting(db, e, eval[t])'
    BY <1>1, <1>2, <2>5
  <2>7. PathOf(t)'
    BY <1>1, <1>2, <2>1, <2>6 DEF PathOf
  <2>8. ~ Resolve(t)
    BY <1>3 DEF Acquire, Resolve
  <2> QED BY <1>1, <2>7, <2>8
<1>4. CASE Resolve(t)
  <2>1. /\ eval[t].on /\ eval[t].want # NoExpr
        /\ eval' = [eval EXCEPT ![t] = LookUp(eval[t].value, eval[t].want, db[eval[t].want])]
    BY <1>4 DEF Resolve
  <2>2. IsFiniteSet(Entries(db)) /\ db \in Database /\ db = committed
    BY <2>1, FiniteHeld
  <2>3. Visiting(db, e, eval[t])
    BY <1>1, <2>1 DEF PathInv, PathOf
  <2>4. PICK n \in Nat :
          /\ Distinct(w, n) /\ eval[t].want = w[n]
          /\ eval[t].value = [code |-> "OK", base |-> NoExpr,
                              reads |-> {<<q, db[q]>> : q \in {w[i] : i \in 0 .. n - 1}}]
    BY <2>3 DEF Visiting
  <2> DEFINE f == LookUp(eval[t].value, eval[t].want, db[eval[t].want])
  <2>5. /\ f.on
        /\ f.want # NoExpr =>
             /\ Distinct(w, n + 1) /\ f.want = w[n + 1]
             /\ f.value = [code |-> "OK", base |-> NoExpr,
                           reads |-> {<<q, db[q]>> : q \in {w[i] : i \in 0 .. n}}]
        /\ f.want = NoExpr => f.value = Atomic!Evaluation(db, e)
    BY <1>2, <2>2, <2>4, LookUpWalks
  <2>6. eval'[t] = f
    BY <2>1
  <2> HIDE DEF f, w
  <2>7. f.want # NoExpr => Visiting(db, e, f)
    <3>1. (n + 1) - 1 = n /\ n + 1 \in Nat
      OBVIOUS
    <3> QED BY <2>5, <3>1 DEF Visiting, w
  <2>8. f.want # NoExpr => Visiting(db, e, eval[t])'
    BY <1>1, <1>2, <2>6, <2>7
  <2>9. PathOf(t)'
    BY <1>1, <1>2, <2>5, <2>6, <2>8 DEF PathOf
  <2> QED BY <1>1, <1>2, <2>2, <2>5, <2>6, <2>9
<1> QED BY <1>3, <1>4

LEMMA PathInit == Init => PathInv
<1> SUFFICES ASSUME Init PROVE PathInv
  OBVIOUS
<1>1. IsFiniteSet(Entries(committed))
  BY EmptyFinite DEF Init
<1> QED BY <1>1 DEF Init, PathInv, PathOf, ParseStage

LEMMA PathNext ==
  ASSUME RefinementInv, NEW t \in Thread, Start(t) \/ Step(t)
  PROVE  PathInv'
<1>1. PathOf(t)' /\ (stage'[t] \in {"arg", "reverse", "unit"} => local'[t].expr \in Key)
  <2>1. CASE Convert(t)
    BY <2>1, ConvertPath
  <2>2. CASE Acquire(t) \/ Resolve(t)
    BY <2>2, EvaluationPath DEF RefinementInv, PathInv
  <2>3. CASE ~ Convert(t) /\ ~ Acquire(t) /\ ~ Resolve(t)
    BY <2>3, OtherCallsPath DEF Step, Evaluate
  <2> QED BY <2>1, <2>2, <2>3
<1>2. IsFiniteSet(Entries(committed'))
  <2> USE DEF RefinementInv, ListInv, StoreInv, TypeInv, TypeOK
  <2>1. CASE BootInit(t)
    <3>1. committed' = LoadAll(EmptyDatabase, Embedded)
      BY <2>1 DEF BootInit, BootInv
    <3> QED BY <3>1, EmptyFinite, LoadAllFinite, Constants, StoreAssumption
  <2>2. CASE ReloadCommit(t)
    <3>1. committed' = LoadAll(committed, Content(t)) /\ Content(t) \in Seq(Line)
      BY <2>2, InsertedAll DEF ReloadCommit
    <3> QED BY <3>1, LoadAllFinite DEF PathInv
  <2>3. CASE Reload(t) /\ ~ ReloadCommit(t)
    BY <2>3 DEF Reload, ReloadAcquire, ReloadInsert, ReloadRetain, ReloadExtend, PathInv
  <2>4. CASE ~ BootInit(t) /\ ~ Reload(t)
    BY <2>4, ProgressKept DEF PathInv
  <2> QED BY <2>1, <2>2, <2>3, <2>4
<1>3. \A u \in Thread \ {t} : PathOf(u)' /\ (stage'[u] \in {"arg", "reverse", "unit"} => local'[u].expr \in Key)
  BY PathOther
<1> QED BY <1>1, <1>2, <1>3 DEF PathInv

LEMMA RefinementInvariant == Spec => []RefinementInv
<1>1. Init => RefinementInv
  BY ListInit, ProgressInit, PathInit DEF RefinementInv
<1>2. RefinementInv /\ [Next]_vars => RefinementInv'
  <2> SUFFICES ASSUME RefinementInv, [Next]_vars PROVE RefinementInv'
    OBVIOUS
  <2>1. ListInv'
    BY ListNext DEF RefinementInv
  <2>2. CASE UNCHANGED vars
    BY <2>1, <2>2 DEF vars, storeVars, RefinementInv, ProgressInv, PathInv, PathOf, Subject, Content
  <2>3. ASSUME NEW t \in Thread, Start(t) \/ Step(t) PROVE RefinementInv'
    BY <2>1, <2>3, ProgressNext, PathNext DEF RefinementInv
  <2> QED BY <2>2, <2>3 DEF Next, Finished
<1> QED BY <1>1, <1>2, PTL DEF Spec

-----------------------------------------------------------------------------
\* Every step is one of AtomicStore's, or none.

Visible == <<Loaded, committed, ListingLeft, Reloading, Made>>

\* What AtomicStore sees of a thread changes in that thread's own steps only.
LEMMA OthersUnseen ==
  ASSUME RefinementInv, NEW t \in Thread, Start(t) \/ Step(t)
  PROVE  /\ Made' = [Made EXCEPT ![t] = Made'[t]]
         /\ Reloading' = [Reloading EXCEPT ![t] = Reloading'[t]]
<1>1. \A u \in Thread \ {t} : /\ stage'[u] = stage[u] /\ call'[u] = call[u] /\ eval'[u] = eval[u]
  BY OthersKeep DEF RefinementInv, ListInv, StoreInv
<1>2. \A u \in Thread \ {t} : Made'[u] = Made[u] /\ Reloading'[u] = Reloading[u]
  BY <1>1 DEF Made, Reloading, Content
<1>3. Made' = [u \in Thread |-> Made'[u]] /\ Made = [u \in Thread |-> Made[u]]
  BY DEF Made
<1>4. Reloading' = [u \in Thread |-> Reloading'[u]] /\ Reloading = [u \in Thread |-> Reloading[u]]
  BY DEF Reloading
<1> HIDE DEF Made, Reloading
<1> QED BY <1>2, <1>3, <1>4

\* A thread that evaluates nothing has made nothing.
LEMMA NothingMade ==
  ASSUME RefinementInv, NEW t \in Thread, stage[t] \notin ParseStage
  PROVE  Made[t] = NoValue
BY DEF Made, RefinementInv, ListInv, StoreInv, LockInv

LEMMA NothingMadeNext ==
  ASSUME NEW t \in Thread, TypeInv, NEW s, NEW e, Goto(t, s, e)
  PROVE  Made'[t] = NoValue /\ stage'[t] = s
BY DEF Made, Goto, Pending, TypeInv, TypeOK

\* The listing AtomicStore sees changes in three steps only, the phase in two.
LEMMA ListingUnseen ==
  ASSUME RefinementInv, NEW t \in Thread, Start(t) \/ Step(t),
         ~ BootPublish(t), ~ ReloadRetain(t), ~ ReloadExtend(t)
  PROVE  ListingLeft' = ListingLeft
<1> USE DEF RefinementInv, ListInv
<1>1. UNCHANGED <<listing, listLock>> /\ stage[t] # "extend"
  BY ListingKept
<1>2. CASE listLock.writers = {}
  BY <1>1, <1>2 DEF ListingLeft
<1>3. CASE listLock.writers # {}
  <2>1. PICK w : w = CHOOSE u \in listLock.writers : TRUE
    OBVIOUS
  <2>2. w \in listLock.writers
    BY <1>3, <2>1
  <2>3. w \in Thread /\ w # t
    BY <1>1, <2>2 DEF ListLockInv
  <2>4. call'[w] = call[w]
    BY <2>3, OthersKeep DEF StoreInv
  <2>5. ListingLeft = Extended(listing, call[w].content)
    BY <1>3, <2>1 DEF ListingLeft, Content
  <2>6. ListingLeft' = Extended(listing, call'[w].content)
    BY <1>1, <1>3, <2>1 DEF ListingLeft, Content
  <2> QED BY <2>4, <2>5, <2>6
<1> QED BY <1>2, <1>3

LEMMA LoadedUnseen ==
  ASSUME RefinementInv, NEW t \in Thread, Start(t) \/ Step(t), ~ BootInit(t), ~ BootPublish(t)
  PROVE  Loaded' = Loaded
<1> USE DEF RefinementInv, ListInv, StoreInv, BootInv
<1>1. CASE Start(t) \/ BootBegin(t)
  BY <1>1 DEF Start, BootBegin, Loaded
<1>2. CASE stage[t] \notin EarlyStage
  <2>1. lazy = "done" /\ ~ Boot(t)
    BY <1>2 DEF Boot, BootBegin, BootInit, BootPublish, EarlyStage
  <2>2. lazy' = "done" <=> lazy = "done"
    <3>1. CASE ReloadRetain(t) \/ ReloadExtend(t)
      BY <3>1 DEF ReloadRetain, ReloadExtend
    <3> QED BY <3>1, <2>1, ListingKept DEF Boot
  <2> QED BY <2>1, <2>2 DEF Loaded
<1>3. CASE Enter(t)
  BY <1>3 DEF Enter, storeVars, Loaded
<1>4. CASE Step(t) /\ stage[t] \in EarlyStage
  <2>1. ~ Evaluate(t) /\ ~ Convert(t)
    BY <1>4 DEF Evaluate, Acquire, Resolve, ParseReturns, Evaluated, Convert, ConvertLookup,
       ConvertArg, ConvertReverse, ConvertUnit, ConvertPoints, ConvertFrom, ConvertSplit,
       ConvertTo, Peek, EarlyStage, ParseStage, LockInv
  <2>2. ~ Conformable(t) /\ ~ ListReturns(t) /\ ~ Reload(t)
    BY <1>4 DEF Conformable, ConformableTarget, ConformableClone, ConformableNext, ConformableName,
       ConformableReturns, ListReturns, ReadListing, Evaluated, Reload, ReloadAcquire, ReloadInsert,
       ReloadCommit, ReloadRetain, ReloadExtend, EarlyStage
  <2> QED BY <1>1, <1>3, <1>4, <2>1, <2>2 DEF Step, Boot
<1> QED BY <1>1, <1>2, <1>4

\* The step of the abstract specification a step of t is, in terms of what it sees.
LEMMA BootSteps ==
  ASSUME RefinementInv, NEW t \in Thread, BootInit(t) \/ BootPublish(t)
  PROVE  Atomic!Next
<1> USE DEF RefinementInv, ListInv, StoreInv
<1>0. Start(t) \/ Step(t)
  BY DEF Step, Boot
<1>1. Made' = Made /\ Reloading' = Reloading
  <2>1. stage[t] \notin ParseStage /\ stage[t] # "listwrite"
    BY DEF BootInit, BootPublish, ParseStage
  <2>2. \E s \in {"publish", "ensure"} : Goto(t, s, NoExpr)
    BY DEF BootInit, BootPublish
  <2>3. Made'[t] = NoValue /\ Made[t] = NoValue /\ stage'[t] # "listwrite"
    BY <2>1, <2>2, NothingMade, NothingMadeNext
  <2>4. Reloading'[t] = Reloading[t]
    BY <2>1, <2>3 DEF Reloading
  <2>5. Made = [u \in Thread |-> Made[u]] /\ Reloading = [u \in Thread |-> Reloading[u]]
    BY DEF Made, Reloading
  <2> QED BY <1>0, <2>3, <2>4, <2>5, OthersUnseen
<1>2. CASE BootInit(t)
  <2>1. Loaded = "empty" /\ Loaded' = "database"
    BY <1>2 DEF BootInit, BootInv, Loaded
  <2>2. committed' = LoadAll(EmptyDatabase, Embedded)
    BY <1>2 DEF BootInit, BootInv
  <2>3. ListingLeft' = ListingLeft
    <3>1. ~ BootPublish(t) /\ ~ ReloadRetain(t) /\ ~ ReloadExtend(t)
      BY <1>2 DEF BootInit, BootPublish, ReloadRetain, ReloadExtend
    <3> QED BY <1>0, <3>1, ListingUnseen
  <2>4. Atomic!LoadDatabase
    BY <1>1, <2>1, <2>2, <2>3, SameDefinitions DEF Atomic!LoadDatabase
  <2> QED BY <2>4 DEF Atomic!Next
<1>3. CASE BootPublish(t)
  <2>1. Loaded = "database" /\ Loaded' = "listing"
    BY <1>3 DEF BootPublish, BootInv, Loaded
  <2>2. committed' = committed /\ listing' = InitialListing(Embedded) /\ listLock' = listLock
    BY <1>3 DEF BootPublish
  <2>3. listLock.writers = {}
    BY <1>3 DEF BootPublish, BootInv, ListLockInv
  <2>4. ListingLeft' = InitialListing(Embedded)
    BY <2>2, <2>3 DEF ListingLeft
  <2>5. Atomic!LoadListing
    BY <1>1, <2>1, <2>2, <2>4, SameDefinitions DEF Atomic!LoadListing
  <2> QED BY <2>5 DEF Atomic!Next
<1> QED BY <1>2, <1>3

\* Taking the guard, or looking up an entry.
LEMMA EvaluationSteps ==
  ASSUME RefinementInv, NEW t \in Thread, Acquire(t) \/ Resolve(t)
  PROVE  Atomic!Next \/ UNCHANGED Visible
<1> USE DEF RefinementInv, ListInv, StoreInv
<1>0. Start(t) \/ Step(t)
  BY DEF Step, Evaluate
<1>1. ~ BootInit(t) /\ ~ BootPublish(t) /\ ~ ReloadRetain(t) /\ ~ ReloadExtend(t)
  <2>1. stage[t] \in ParseStage
    BY DEF Acquire, Resolve, LockInv
  <2> QED BY <2>1 DEF BootInit, BootPublish, ReloadRetain, ReloadExtend, ParseStage
<1>2. Loaded' = Loaded /\ ListingLeft' = ListingLeft
  BY <1>0, <1>1, LoadedUnseen, ListingUnseen
<1>3. UNCHANGED <<committed, call, stage>> /\ Reloading' = Reloading
  BY DEF Acquire, Resolve, storeVars, Reloading, Content
<1>4. PathOf(t)' /\ PathOf(t) /\ NoExpr \notin Key
  BY EvaluationPath, StoreAssumption DEF PathInv, Expr
<1>5. Made = [u \in Thread |-> Made[u]] /\ Made' = [Made EXCEPT ![t] = Made'[t]]
  BY <1>0, OthersUnseen DEF Made
<1>6. CASE Acquire(t)
  <2>1. eval[t].want # NoExpr /\ ~ eval[t].on /\ eval'[t].want = eval[t].want
    BY <1>4, <1>6 DEF Acquire, PathOf, TypeInv, TypeOK, Frame
  <2>2. Made[t] = NoValue /\ Made'[t] = NoValue
    BY <2>1 DEF Made
  <2> QED BY <1>2, <1>3, <1>5, <2>2 DEF Visible
<1>7. CASE Resolve(t)
  <2>1. eval[t].want # NoExpr /\ Made[t] = NoValue
    BY <1>7 DEF Resolve, Made
  <2>2. CASE eval'[t].want # NoExpr
    <3>1. Made'[t] = NoValue
      BY <2>2 DEF Made
    <3> QED BY <1>2, <1>3, <1>5, <2>1, <3>1 DEF Visible
  <2>3. CASE eval'[t].want = NoExpr
    <3>1. /\ stage[t] \in ParseStage /\ Subject(t) \in Key /\ db = committed
          /\ eval'[t].on /\ eval'[t].value = Atomic!Evaluation(db, Subject(t))
      BY <1>7, <2>3, EvaluationPath
    <3>2. Made'[t] = Atomic!Evaluation(committed, Subject(t))
      BY <2>3, <3>1 DEF Made
    <3>3. Loaded = "listing"
      BY <3>1 DEF Loaded, BootInv, ParseStage, EarlyStage
    <3>4. Subject(t) \in Atomic!Key
      BY <3>1, SameDefinitions
    <3>5. Made[t] = Atomic!NoValue
      BY <2>1 DEF NoValue, Atomic!NoValue
    <3>6. Atomic!Evaluate(t)
      BY <1>2, <1>3, <1>5, <3>2, <3>3, <3>4, <3>5 DEF Atomic!Evaluate
    <3> QED BY <3>6 DEF Atomic!Next
  <2> QED BY <2>2, <2>3
<1> QED BY <1>6, <1>7

LEMMA ReloadWrites ==
  ASSUME RefinementInv, NEW t \in Thread, ReloadCommit(t) \/ ReloadRetain(t) \/ ReloadExtend(t)
  PROVE  Atomic!Next \/ UNCHANGED Visible
<1> USE DEF RefinementInv, ListInv, StoreInv, TypeInv, TypeOK
<1>0. Start(t) \/ Step(t)
  BY DEF Step, Reload
<1>1. /\ stage[t] \in {"insert", "listwrite", "extend"} /\ call' = call
      /\ \E s \in {"listwrite", "extend", "idle"} : Goto(t, s, NoExpr)
  BY DEF ReloadCommit, ReloadRetain, ReloadExtend, Return
<1>2. Made[t] = NoValue /\ Made'[t] = NoValue
  BY <1>1, NothingMade, NothingMadeNext DEF ParseStage
<1>3. Made' = Made
  BY <1>0, <1>2, OthersUnseen DEF Made
<1>4. Loaded' = Loaded /\ Loaded = "listing"
  <2>1. ~ BootInit(t) /\ ~ BootPublish(t) /\ lazy = "done"
    BY <1>1 DEF BootInit, BootPublish, BootInv, EarlyStage
  <2> QED BY <1>0, <2>1, LoadedUnseen DEF Loaded
<1>5. Content(t)' = Content(t) /\ Content(t) \in Contents /\ NoContent \notin Contents
  <2>1. call[t] \in Call /\ call[t].op = "reload"
    BY <1>1 DEF CallInv, ReloadStage
  <2>2. call[t].content \in Contents
    BY <2>1 DEF Call
  <2> QED BY <1>1, <2>2, RefinementAssumption DEF Content
<1>6. Reloading' = [Reloading EXCEPT ![t] = Reloading'[t]]
  BY <1>0, OthersUnseen
<1>7. CASE ReloadCommit(t)
  <2>1. stage[t] = "insert" /\ stage'[t] = "listwrite" /\ committed' = db
    BY <1>7 DEF ReloadCommit, Goto
  <2>2. Reloading[t] = NoContent /\ Reloading'[t] = Content(t)
    BY <1>5, <2>1 DEF Reloading
  <2>3. committed' = LoadAll(committed, Content(t))
    BY <1>7, <2>1, InsertedAll
  <2>4. ListingLeft' = ListingLeft
    <3>1. ~ BootPublish(t) /\ ~ ReloadRetain(t) /\ ~ ReloadExtend(t)
      BY <2>1 DEF BootPublish, ReloadRetain, ReloadExtend
    <3> QED BY <1>0, <3>1, ListingUnseen
  <2>5. Atomic!CommitDatabase(t)
    BY <1>3, <1>4, <1>5, <1>6, <2>2, <2>3, <2>4, SameDefinitions DEF Atomic!CommitDatabase
  <2> QED BY <2>5 DEF Atomic!Next
<1>8. CASE ReloadRetain(t)
  <2>1. /\ stage[t] = "listwrite" /\ stage'[t] = "extend" /\ committed' = committed
        /\ listing' = Retained(listing, Content(t)) /\ listLock' = WithWriter(listLock, t)
        /\ listLock.writers = {}
    BY <1>8 DEF ReloadRetain, Goto, CanWrite
  <2>2. Reloading[t] = Content(t) /\ Reloading'[t] = NoContent
    BY <2>1 DEF Reloading
  <2>3. listLock'.writers = {t}
    BY <2>1 DEF WithWriter, LockState
  <2>4. ListingLeft = listing
    BY <2>1 DEF ListingLeft
  <2>5. ListingLeft' = ReloadListing(listing, Content(t))
    <3>1. (CHOOSE u \in listLock'.writers : TRUE) = t
      BY <2>3
    <3>2. ListingLeft' = Extended(listing', Content(t))
      BY <1>1, <2>3, <3>1 DEF ListingLeft, Content
    <3> QED BY <2>1, <3>2 DEF ReloadListing
  <2>6. Atomic!CommitListing(t)
    BY <1>3, <1>4, <1>5, <1>6, <2>1, <2>2, <2>4, <2>5, SameDefinitions DEF Atomic!CommitListing
  <2> QED BY <2>6 DEF Atomic!Next
<1>9. CASE ReloadExtend(t)
  <2>1. /\ stage[t] = "extend" /\ stage'[t] = "idle" /\ committed' = committed
        /\ listing' = Extended(listing, Content(t)) /\ listLock' = Without(listLock, t)
    BY <1>9 DEF ReloadExtend, Return, Goto
  <2>2. listLock.writers = {t}
    BY <2>1 DEF ListLockInv
  <2>3. ListingLeft = Extended(listing, Content(t))
    <3>1. (CHOOSE u \in listLock.writers : TRUE) = t
      BY <2>2
    <3> QED BY <2>2, <3>1 DEF ListingLeft
  <2>4. ListingLeft' = Extended(listing, Content(t))
    BY <2>1, <2>2 DEF ListingLeft, Without
  <2>5. Reloading'[t] = NoContent /\ Reloading[t] = NoContent
    BY <2>1 DEF Reloading
  <2>6. Reloading' = Reloading
    BY <1>6, <2>5 DEF Reloading
  <2> QED BY <1>3, <1>4, <2>1, <2>3, <2>4, <2>6 DEF Visible
<1> QED BY <1>7, <1>8, <1>9

\* What the call sites leave alone.
LEMMA CallSitesCommit ==
  ASSUME RefinementInv, NEW t \in Thread, Start(t) \/ Step(t),
         ~ BootInit(t), ~ BootPublish(t), ~ Acquire(t), ~ Resolve(t),
         ~ ReloadCommit(t), ~ ReloadRetain(t), ~ ReloadExtend(t)
  PROVE  /\ committed' = committed
         /\ stage[t] # "listwrite" /\ stage'[t] # "listwrite"
         /\ Made'[t] = NoValue
<1> USE DEF RefinementInv, ListInv, StoreInv
<1>1. stage[t] # "listwrite"
  BY ReloadSteps DEF ReloadStage, Reload, ReloadAcquire, ReloadInsert
<1>2. CASE ReloadInsert(t)
  <2>1. stage[t] = "insert" /\ eval' = eval /\ UNCHANGED <<committed, stage>>
    BY <1>2 DEF ReloadInsert
  <2>2. ~ eval'[t].on
    BY <2>1 DEF LockInv, ParseStage
  <2> QED BY <2>1, <2>2 DEF Made
<1>3. CASE ReloadAcquire(t)
  <2>1. Goto(t, "insert", NoExpr) /\ committed' = committed
    BY <1>3 DEF ReloadAcquire
  <2> QED BY <1>1, <2>1, NothingMadeNext
<1>4. CASE ~ Reload(t)
  <2>1. committed' = committed
    BY <1>4, ProgressKept
  <2>2. \E s, e : Goto(t, s, e) /\ s # "listwrite"
    <3>1. CASE Start(t) \/ Boot(t)
      BY <3>1 DEF Start, Boot, BootBegin, BootInit, BootPublish
    <3>2. CASE Enter(t)
      <4>1. FirstStage(call[t]) # "listwrite"
        BY DEF FirstStage, TypeInv, TypeOK, Call
      <4> QED BY <3>2, <4>1 DEF Enter
    <3>3. CASE ParseReturns(t) \/ ListReturns(t)
      BY <3>3 DEF ParseReturns, ListReturns, Return
    <3>4. CASE ConvertLookup(t)
      BY <3>4 DEF ConvertLookup
    <3>5. CASE ConvertArg(t)
      BY <3>5 DEF ConvertArg
    <3>6. CASE Convert(t) /\ ~ ConvertLookup(t) /\ ~ ConvertArg(t)
      BY <3>6 DEF Convert, ConvertReverse, ConvertUnit, ConvertPoints,
         ConvertFrom, ConvertSplit, ConvertTo, Return
    <3>7. CASE Conformable(t)
      <4>1. CASE ConformableNext(t)
        BY <4>1 DEF ConformableNext
      <4>2. CASE ConformableTarget(t)
        BY <4>2 DEF ConformableTarget, Return
      <4> QED BY <3>7, <4>1, <4>2 DEF Conformable, ConformableClone, ConformableName,
            ConformableReturns, Return
    <3> QED BY <1>4, <3>1, <3>2, <3>3, <3>4, <3>5, <3>6, <3>7 DEF Step, Evaluate
  <2> QED BY <1>1, <2>1, <2>2, NothingMadeNext
<1> QED BY <1>2, <1>3, <1>4 DEF Reload

LEMMA OtherSteps ==
  ASSUME RefinementInv, NEW t \in Thread, Start(t) \/ Step(t),
         ~ BootInit(t), ~ BootPublish(t), ~ Acquire(t), ~ Resolve(t),
         ~ ReloadCommit(t), ~ ReloadRetain(t), ~ ReloadExtend(t)
  PROVE  Atomic!Next
<1>1. Loaded' = Loaded /\ ListingLeft' = ListingLeft
  BY LoadedUnseen, ListingUnseen
<1>2. committed' = committed /\ Reloading'[t] = Reloading[t] /\ Made'[t] = NoValue
  BY CallSitesCommit DEF Reloading
<1>3. Reloading' = Reloading
  <2>1. Reloading = [u \in Thread |-> Reloading[u]]
    BY DEF Reloading
  <2> QED BY <1>2, <2>1, OthersUnseen
<1>4. Made' = [Made EXCEPT ![t] = Atomic!NoValue]
  BY <1>2, OthersUnseen DEF NoValue, Atomic!NoValue
<1>5. Atomic!Forget(t)
  BY <1>1, <1>2, <1>3, <1>4 DEF Atomic!Forget
<1> QED BY <1>5 DEF Atomic!Next

(* The guards make every evaluation, the replacement of the database by a    *)
(* reload and that of the listing atomic, for any number of threads and any  *)
(* definitions: what the threads do with DATABASE and DEFINITIONS entry by   *)
(* entry is a behaviour of AtomicStore (parseunit, reload_currency,          *)
(* ensure_definitions).                                                      *)
THEOREM Implements == Spec => ImplementsAtomicStore
<1>1. Init => Atomic!Init
  <2> SUFFICES ASSUME Init PROVE Atomic!Init
    OBVIOUS
  <2>1. Loaded = "empty" /\ committed = Atomic!EmptyDatabase
    BY SameDefinitions DEF Init, Loaded
  <2>2. ListingLeft = Atomic!EmptyListing
    BY SameDefinitions DEF Init, ListingLeft, Unlocked
  <2>3. Reloading = [t \in Thread |-> NoContent] /\ Made = [t \in Thread |-> NoValue]
    BY DEF Init, Reloading, Made, Pending
  <2>4. NoValue = Atomic!NoValue
    BY DEF NoValue, Atomic!NoValue
  <2> QED BY <2>1, <2>2, <2>3, <2>4 DEF Atomic!Init
<1>2. RefinementInv /\ [Next]_vars => [Atomic!Next]_(Atomic!vars)
  <2> SUFFICES ASSUME RefinementInv, [Next]_vars PROVE Atomic!Next \/ UNCHANGED Atomic!vars
    OBVIOUS
  <2>1. UNCHANGED Visible => UNCHANGED Atomic!vars
    BY DEF Visible, Atomic!vars
  <2>2. CASE UNCHANGED vars
    BY <2>1, <2>2 DEF vars, storeVars, Visible, Loaded, ListingLeft, Reloading, Made, Content
  <2>3. ASSUME NEW t \in Thread, Start(t) \/ Step(t) PROVE Atomic!Next \/ UNCHANGED Visible
    BY <2>3, BootSteps, EvaluationSteps, ReloadWrites, OtherSteps
  <2> QED BY <2>1, <2>2, <2>3 DEF Next, Finished
<1> QED BY <1>1, <1>2, RefinementInvariant, PTL DEF Spec, Atomic!Spec, ImplementsAtomicStore

-----------------------------------------------------------------------------
\* The answers of the calls.

\* The evaluation of an expression in a single-threaded program.
Alone(d, e) == Atomic!Evaluation(d, e)

\* The databases a call has met differ in rates only.
Agreed(t) == \A d1, d2 \in seen[t] : d1 = d2 \/ SameShape(d1, d2)

\* What convert_func evaluates after its argument, if there is anything.
Inverted(t, d) ==
  LET function == d[<<"Function", call[t].to>>]
      table == d[<<"Table", call[t].to>>]
  IN  IF function # Absent THEN Reverse[function]
      ELSE IF table # Absent THEN Refers[table] ELSE NoExpr

\* The standard conversion by division is made.
Direct(t, d) == Inverted(t, d) = NoExpr \/ Alone(d, call[t].from).code # "OK"

\* What it divides.
Again(t, d) == Retries(Alone(d, call[t].from).code, call[t].from)
Operand(t, d) == Alone(d, IF Again(t, d) THEN Split[call[t].from] ELSE call[t].from)

\* What convert knows at each call site, were d the only database there is.
ConvertFact(t, d) ==
  /\ stage[t] \in {"arg", "reverse", "unit", "points"} =>
       /\ local[t].expr = Inverted(t, d) /\ local[t].expr # NoExpr
       /\ local[t].table <=> d[<<"Function", call[t].to>>] = Absent
  /\ stage[t] \in {"reverse", "unit", "points"} =>
       Alone(d, call[t].from).code = "OK" /\ (local[t].table <=> stage[t] # "reverse")
  /\ stage[t] \in {"unit", "points"} => local[t].val.base = Alone(d, call[t].from).base
  /\ stage[t] = "points" =>
       Alone(d, local[t].expr).code = "OK" /\ Alone(d, local[t].expr).base = local[t].val.base
  /\ stage[t] \in {"from", "split", "to"} => Direct(t, d)
  /\ stage[t] = "split" => Again(t, d)
  /\ stage[t] = "to" => Operand(t, d).code = "OK" /\ local[t].val.base = Operand(t, d).base

ConformableFact(t, d) ==
  /\ stage[t] \in {"clone", "names", "name"} =>
       Alone(d, call[t].expr).code = "OK" /\ local[t].val.base = Alone(d, call[t].expr).base
  /\ stage[t] \in {"names", "name"} =>
       \A n \in EmbeddedUnits : n \in local[t].names <=>
         n \notin local[t].todo \cup local[t].cur /\ n \in ConformableNames(d, call[t].expr)

Fact(t, d) == /\ ConvertFact(t, d)
              /\ ConformableFact(t, d)
              /\ Answered(t) => AnswerIn(t, d)

\* The names conformable has gone through.
NamesInv ==
  \A t \in Thread :
    /\ stage[t] \notin {"names", "name"} => local[t].names = {}
    /\ stage[t] # "name" => local[t].cur = {}
    /\ stage[t] = "name" => \E n \in FullName \ local[t].todo : local[t].cur = {n}

\* An embedded unit is listed, or its entry is about to be added.
UnitsInv ==
  lazy = "done" => \A n \in EmbeddedUnits :
    /\ (\A t \in Thread : stage[t] # "extend") => listing[<<n, "Unit">>] # {}
    /\ \A t \in Thread : stage[t] = "extend" => Extended(listing, Content(t))[<<n, "Unit">>] # {}

FactInv == \A t \in Thread : /\ Answered(t) => seen[t] # {}
                             /\ Agreed(t) => \A d \in seen[t] : Fact(t, d)

AloneInv == RefinementInv /\ NamesInv /\ UnitsInv /\ FactInv

-----------------------------------------------------------------------------
\* Databases of one shape give the same facts.

LEMMA SameAlone ==
  ASSUME NEW d1, NEW d2, d1 = d2 \/ SameShape(d1, d2)
  PROVE  /\ \A e \in Key : /\ Alone(d1, e).code = Alone(d2, e).code
                           /\ Alone(d1, e).base = Alone(d2, e).base
         /\ \A k \in Key : k[1] \in {"Function", "Table"} => d1[k] = d2[k]
BY DEF SameShape, Alone, Expr

LEMMA ConvertKeys ==
  ASSUME TypeInv, NEW t \in Thread, call[t].op = "convert"
  PROVE  /\ call[t].from \in Key /\ Split[call[t].from] \in Key \cup {NoExpr}
         /\ <<"Unit", call[t].to>> \in Key
         /\ <<"Function", call[t].to>> \in Key /\ <<"Table", call[t].to>> \in Key
         /\ \A d \in Database : Inverted(t, d) \in Key \cup {NoExpr}
         /\ \A d : Operand(t, d) = Alone(d, call[t].from)
                     \/ (Split[call[t].from] \in Key /\ Operand(t, d) = Alone(d, Split[call[t].from]))
<1>1. call[t] \in Call
  BY DEF TypeInv, TypeOK
<1>2. call[t].from \in Key /\ call[t].to \in Name
  BY <1>1, CallFields DEF Expr
<1>3. Split[call[t].from] \in Key \cup {NoExpr}
  BY <1>2, StoreAssumption DEF Expr
<1>4. <<"Unit", call[t].to>> \in Key /\ <<"Function", call[t].to>> \in Key /\ <<"Table", call[t].to>> \in Key
  BY <1>2 DEF Key, DbKind
<1>5. ASSUME NEW d \in Database PROVE Inverted(t, d) \in Key \cup {NoExpr}
  <2>1. d[<<"Function", call[t].to>>] \in Def \cup {Absent} /\ d[<<"Table", call[t].to>>] \in Def \cup {Absent}
    BY <1>4 DEF Database
  <2> QED BY <2>1, StoreAssumption DEF Inverted, Expr
<1>6. \A d : Again(t, d) => Split[call[t].from] \in Key
  BY <1>3 DEF Again, Retries
<1>7. \A d : Operand(t, d) = Alone(d, call[t].from)
              \/ (Split[call[t].from] \in Key /\ Operand(t, d) = Alone(d, Split[call[t].from]))
  <2> TAKE d
  <2>1. CASE Again(t, d)
    BY <1>6, <2>1 DEF Operand
  <2>2. CASE ~ Again(t, d)
    BY <2>2 DEF Operand
  <2> QED BY <2>1, <2>2
<1> QED BY <1>2, <1>3, <1>4, <1>5, <1>7

\* What convert returns, in the terms of its call sites.
Codes(t, d) ==
  LET found == Alone(d, Inverted(t, d))
      target == Alone(d, <<"Unit", call[t].to>>)
  IN  IF Direct(t, d)
      THEN {IF Operand(t, d).code # "OK" THEN Operand(t, d).code
            ELSE IF target.code # "OK" THEN target.code
            ELSE IF Operand(t, d).base = target.base THEN "OK" ELSE "NotANumber"}
      ELSE IF d[<<"Function", call[t].to>>] # Absent \/ found.code # "OK" THEN {found.code}
      ELSE IF found.base # Alone(d, call[t].from).base THEN {"BadFuncArg"}
      ELSE {"OK", "NotInDomain"}

LEMMA CodesAreConverted ==
  ASSUME NEW t \in Thread, NEW d
  PROVE  ConvertCodes(d, call[t].from, call[t].to) = Codes(t, d)
<1> DEFINE from == call[t].from
           function == d[<<"Function", call[t].to>>]
           table == d[<<"Table", call[t].to>>]
           value(e) == Alone(d, e)
           retry == value(from).code \in {"Parse", "UnknownUnit"} /\ Split[from] # NoExpr
           operand == value(IF retry THEN Split[from] ELSE from)
           target == value(<<"Unit", call[t].to>>)
           unit == value(Refers[table])
           division == IF operand.code # "OK" THEN operand.code
                       ELSE IF target.code # "OK" THEN target.code
                       ELSE IF operand.base = target.base THEN "OK" ELSE "NotANumber"
<1>1. ConvertCodes(d, from, call[t].to) =
        CASE value(from).code = "OK" /\ function # Absent /\ Reverse[function] # NoExpr ->
               {value(Reverse[function]).code}
          [] value(from).code = "OK" /\ function = Absent /\ table # Absent /\ Refers[table] # NoExpr ->
               IF unit.code # "OK" THEN {unit.code}
               ELSE IF unit.base # value(from).base THEN {"BadFuncArg"} ELSE {"OK", "NotInDomain"}
          [] OTHER -> {division}
  BY DEF ConvertCodes, Alone
<1>2. operand = Operand(t, d)
  BY DEF Operand, Again, Retries
<1> HIDE DEF operand
<1>3. CASE Direct(t, d)
  <2>1. Codes(t, d) = {division}
    BY <1>2, <1>3 DEF Codes
  <2> HIDE DEF division
  <2> QED BY <1>1, <1>3, <2>1 DEF Direct, Inverted
<1>4. CASE ~ Direct(t, d) /\ function # Absent
  <2>1. Inverted(t, d) = Reverse[function]
    BY <1>4 DEF Inverted
  <2>2. Codes(t, d) = {value(Reverse[function]).code}
    BY <1>4, <2>1 DEF Codes
  <2> HIDE DEF division
  <2> QED BY <1>1, <1>4, <2>1, <2>2 DEF Direct
<1>5. CASE ~ Direct(t, d) /\ function = Absent
  <2>1. Inverted(t, d) = Refers[table] /\ table # Absent
    BY <1>5 DEF Direct, Inverted
  <2>2. Codes(t, d) = IF unit.code # "OK" THEN {unit.code}
                      ELSE IF unit.base # value(from).base THEN {"BadFuncArg"} ELSE {"OK", "NotInDomain"}
    BY <1>5, <2>1 DEF Codes
  <2> HIDE DEF division
  <2> QED BY <1>1, <1>5, <2>1, <2>2 DEF Direct
<1> QED BY <1>3, <1>4, <1>5

LEMMA SameCall ==
  ASSUME TypeInv, NEW t \in Thread, call[t].op = "convert",
         NEW d1 \in Database, NEW d2 \in Database, d1 = d2 \/ SameShape(d1, d2)
  PROVE  /\ Inverted(t, d1) = Inverted(t, d2) /\ (Direct(t, d1) <=> Direct(t, d2))
         /\ (Again(t, d1) <=> Again(t, d2)) /\ Codes(t, d1) = Codes(t, d2)
         /\ Operand(t, d1).code = Operand(t, d2).code /\ Operand(t, d1).base = Operand(t, d2).base
<1> DEFINE from == call[t].from
           function == <<"Function", call[t].to>>
           table == <<"Table", call[t].to>>
<1>a. from \in Key /\ function \in Key /\ table \in Key /\ <<"Unit", call[t].to>> \in Key
  BY ConvertKeys
<1>b. d1[function] = d2[function] /\ d1[table] = d2[table]
  BY <1>a, SameAlone
<1>c. Alone(d1, from).code = Alone(d2, from).code /\ Alone(d1, from).base = Alone(d2, from).base
  BY <1>a, SameAlone
<1>1. Inverted(t, d1) = Inverted(t, d2)
  BY <1>b DEF Inverted
<1>2. Direct(t, d1) <=> Direct(t, d2)
  BY <1>1, <1>c DEF Direct
<1>3. Again(t, d1) <=> Again(t, d2)
  BY <1>c DEF Again
<1>4. Operand(t, d1).code = Operand(t, d2).code /\ Operand(t, d1).base = Operand(t, d2).base
  <2>1. CASE Again(t, d1)
    <3>1. Split[from] \in Key
      BY <2>1, ConvertKeys DEF Again, Retries
    <3>2. Operand(t, d1) = Alone(d1, Split[from]) /\ Operand(t, d2) = Alone(d2, Split[from])
      BY <1>3, <2>1 DEF Operand
    <3> QED BY <3>1, <3>2, SameAlone
  <2>2. CASE ~ Again(t, d1)
    <3>1. Operand(t, d1) = Alone(d1, from) /\ Operand(t, d2) = Alone(d2, from)
      BY <1>3, <2>2 DEF Operand
    <3> QED BY <1>c, <3>1
  <2> QED BY <2>1, <2>2
<1>5. Codes(t, d1) = Codes(t, d2)
  <2>1. ~ Direct(t, d1) => Inverted(t, d1) \in Key
    BY ConvertKeys DEF Direct
  <2>2. /\ d1[<<"Function", call[t].to>>] = d2[<<"Function", call[t].to>>]
        /\ \A e \in {<<"Unit", call[t].to>>, call[t].from} :
             Alone(d1, e).code = Alone(d2, e).code /\ Alone(d1, e).base = Alone(d2, e).base
    BY <1>a, <1>b, SameAlone
  <2>3. ~ Direct(t, d1) => /\ Alone(d1, Inverted(t, d1)).code = Alone(d2, Inverted(t, d2)).code
                           /\ Alone(d1, Inverted(t, d1)).base = Alone(d2, Inverted(t, d2)).base
    BY <1>1, <2>1, SameAlone
  <2> QED BY <1>2, <1>4, <2>2, <2>3 DEF Codes
<1> QED BY <1>1, <1>2, <1>3, <1>4, <1>5

LEMMA SameNames ==
  ASSUME NEW e \in Key, NEW d1, NEW d2, d1 = d2 \/ SameShape(d1, d2)
  PROVE  ConformableNames(d1, e) = ConformableNames(d2, e)
<1>1. \A n \in EmbeddedUnits : <<"Unit", Canon[n]>> \in Key
  BY DefinitionsAssumption DEF EmbeddedUnits, Key, DbKind
<1>2. \A k \in Key : /\ Alone(d1, k).code = Alone(d2, k).code
                     /\ Alone(d1, k).base = Alone(d2, k).base
  BY SameAlone
<1>3. \A d : ConformableNames(d, e) =
        {n \in EmbeddedUnits : /\ Alone(d, <<"Unit", Canon[n]>>).code = "OK"
                               /\ Alone(d, <<"Unit", Canon[n]>>).base = Alone(d, e).base}
  BY DEF ConformableNames, Alone
<1> QED BY <1>1, <1>2, <1>3

LEMMA SameFact ==
  ASSUME RefinementInv, NEW t \in Thread,
         NEW d1 \in Database, NEW d2 \in Database, d1 = d2 \/ SameShape(d1, d2), Fact(t, d1)
  PROVE  Fact(t, d2)
<1> USE DEF RefinementInv, ListInv, StoreInv
<1>0. call[t] \in Call
  BY DEF TypeInv, TypeOK
<1>1. ConvertFact(t, d2)
  <2>1. CASE stage[t] \in ConvertStage
    <3>1. call[t].op = "convert"
      BY <2>1 DEF TypeInv, CallInv
    <3>2. stage[t] = "points" => local[t].expr \in Key
      BY <3>1, ConvertKeys DEF Fact, ConvertFact
    <3>3. /\ Inverted(t, d1) = Inverted(t, d2) /\ (Direct(t, d1) <=> Direct(t, d2))
          /\ (Again(t, d1) <=> Again(t, d2))
          /\ Operand(t, d1).code = Operand(t, d2).code /\ Operand(t, d1).base = Operand(t, d2).base
      BY <3>1, SameCall DEF StoreInv
    <3>4. /\ d1[<<"Function", call[t].to>>] = d2[<<"Function", call[t].to>>]
          /\ Alone(d1, call[t].from).code = Alone(d2, call[t].from).code
          /\ Alone(d1, call[t].from).base = Alone(d2, call[t].from).base
      <4>1. <<"Function", call[t].to>> \in Key /\ call[t].from \in Key
        BY <3>1, ConvertKeys
      <4> QED BY <4>1, SameAlone
    <3>5. local[t].expr \in Key => /\ Alone(d1, local[t].expr).code = Alone(d2, local[t].expr).code
                                   /\ Alone(d1, local[t].expr).base = Alone(d2, local[t].expr).base
      BY SameAlone
    <3> QED BY <3>2, <3>3, <3>4, <3>5 DEF Fact, ConvertFact
  <2>2. CASE stage[t] \notin ConvertStage
    BY <2>2 DEF ConvertFact, ConvertStage
  <2> QED BY <2>1, <2>2
<1>2. ConformableFact(t, d2)
  <2>1. CASE stage[t] \in {"clone", "names", "name"}
    <3>1. call[t].op = "conformable"
      BY <1>0, <2>1, CallFields DEF SiteInv, EarlyStage, CallSites, ConvertStage, ReloadStage
    <3>2. call[t].expr \in Key
      BY <1>0, <3>1, CallFields DEF Expr
    <3> QED BY <3>2, SameAlone, SameNames DEF Fact, ConformableFact
  <2>2. CASE stage[t] \notin {"clone", "names", "name"}
    BY <2>2 DEF ConformableFact
  <2> QED BY <2>1, <2>2
<1>3. AnswerIn(t, d1) => AnswerIn(t, d2)
  <2>1. CASE call[t].op \in {"parse", "conformable"}
    <3>1. call[t].expr \in Key
      BY <1>0, <2>1, CallFields DEF Expr
    <3>2. Alone(d1, call[t].expr).code = Alone(d2, call[t].expr).code
      BY <3>1, SameAlone
    <3> QED BY <2>1, <3>1, <3>2, SameNames DEF AnswerIn, Alone
  <2>2. CASE call[t].op = "convert"
    BY <2>2, SameCall, CodesAreConverted DEF AnswerIn
  <2>3. CASE call[t].op \notin {"parse", "conformable", "convert"}
    BY <2>3 DEF AnswerIn
  <2> QED BY <2>1, <2>2, <2>3
<1> QED BY <1>1, <1>2, <1>3 DEF Fact

-----------------------------------------------------------------------------
\* What a step of a thread finds out.

FactStage == {"arg", "reverse", "unit", "points", "from", "split", "to", "clone", "names", "name"}

LEMMA Met ==
  ASSUME RefinementInv, NEW t \in Thread, stage[t] \notin EarlyStage
  PROVE  committed \in seen[t] /\ lazy = "done"
BY DEF RefinementInv, ListInv, StoreInv, BootInv, VersionInv, EarlyStage

\* An evaluation that has ended is the one of any database met.
LEMMA Result ==
  ASSUME RefinementInv, NEW t \in Thread, eval[t].on, eval[t].want = NoExpr,
         Agreed(t), NEW d \in seen[t]
  PROVE  /\ Subject(t) \in Key
         /\ eval[t].value.code = Alone(d, Subject(t)).code
         /\ eval[t].value.base = Alone(d, Subject(t)).base
<1>1. stage[t] \in ParseStage /\ stage[t] \notin EarlyStage
  BY DEF RefinementInv, ListInv, StoreInv, LockInv, ParseStage, EarlyStage
<1>2. committed \in seen[t] /\ db = committed
  BY <1>1, Met, FiniteHeld
<1>3. Subject(t) \in Key /\ eval[t].value = Alone(committed, Subject(t))
  BY <1>1, <1>2 DEF RefinementInv, PathInv, PathOf, Alone
<1>4. committed = d \/ SameShape(committed, d)
  BY <1>2 DEF Agreed
<1> QED BY <1>3, <1>4, SameAlone

\* The entries a short guard lets convert_func see are those of any database met.
LEMMA Peeked ==
  ASSUME RefinementInv, NEW t \in Thread, stage[t] \in ConvertStage, CanRead(dbLock, DbQueue),
         Agreed(t), NEW d \in seen[t]
  PROVE  FunctionEntry(t) = d[<<"Function", call[t].to>>] /\ TableEntry(t) = d[<<"Table", call[t].to>>]
<1>1. committed \in seen[t]
  BY Met DEF ConvertStage, EarlyStage
<1>2. db = committed
  BY DEF CanRead, RefinementInv, ListInv, StoreInv, VersionInv
<1>3. <<"Function", call[t].to>> \in Key /\ <<"Table", call[t].to>> \in Key
  BY ConvertKeys DEF RefinementInv, ListInv, StoreInv, TypeInv, CallInv
<1>4. committed = d \/ SameShape(committed, d)
  BY <1>1 DEF Agreed
<1> QED BY <1>2, <1>3, <1>4, SameAlone DEF FunctionEntry, TableEntry

\* Most call sites know nothing yet.
LEMMA NothingKnown ==
  ASSUME NEW t \in Thread, NEW d, stage'[t] \notin FactStage,
         stage'[t] # "idle" \/ answer'[t].code = "None" \/ AnswerIn(t, d)'
  PROVE  Fact(t, d)'
BY DEF Fact, ConvertFact, ConformableFact, FactStage, Answered

LEMMA SameTerms ==
  ASSUME NEW t \in Thread, NEW d, call' = call
  PROVE  /\ Inverted(t, d)' = Inverted(t, d) /\ (Direct(t, d)' <=> Direct(t, d))
         /\ (Again(t, d)' <=> Again(t, d)) /\ Operand(t, d)' = Operand(t, d)
BY DEF Inverted, Direct, Again, Operand

LEMMA ConvertReturns ==
  ASSUME TypeInv, NEW t \in Thread, call[t].op = "convert", call' = call,
         NEW d, NEW code \in Codes(t, d), NEW v, Return(t, code, v, {})
  PROVE  Fact(t, d)'
<1>1. stage'[t] = "idle" /\ answer'[t].code = code
  BY DEF Return, Goto, TypeInv, TypeOK
<1>2. ConvertCodes(d, call[t].from, call[t].to)' = ConvertCodes(d, call[t].from, call[t].to)
  OBVIOUS
<1>3. AnswerIn(t, d)'
  BY <1>1, <1>2, CodesAreConverted DEF AnswerIn
<1> QED BY <1>1, <1>3, NothingKnown DEF FactStage

LEMMA ConvertSays ==
  ASSUME NEW t \in Thread, NEW d, stage'[t] \in ConvertStage, ConvertFact(t, d)'
  PROVE  Fact(t, d)'
BY DEF Fact, ConformableFact, ConvertStage, Answered

LEMMA ConvertTells ==
  ASSUME RefinementInv, NEW t \in Thread, Convert(t), Agreed(t), NEW d \in seen[t], Fact(t, d)
  PROVE  Fact(t, d)'
<1> DEFINE from == call[t].from
           function == d[<<"Function", call[t].to>>]
           table == d[<<"Table", call[t].to>>]
           frame == eval[t].value
           l == local'[t]
<1> USE DEF RefinementInv, ListInv, StoreInv, TypeInv, TypeOK
<1>1. /\ call[t].op = "convert" /\ stage[t] \in ConvertStage /\ call' = call
      /\ local[t] \in Local /\ eval[t] \in Frame /\ NoExpr \notin Key
  BY StoreAssumption DEF Convert, ConvertLookup, ConvertArg, ConvertReverse, ConvertUnit,
     ConvertPoints, ConvertFrom, ConvertSplit, ConvertTo, Evaluated, Peek, CallInv, ConvertStage, Expr
<1>2. ConvertFact(t, d)
  BY DEF Fact
<1>3. /\ Inverted(t, d)' = Inverted(t, d) /\ (Direct(t, d)' <=> Direct(t, d))
      /\ (Again(t, d)' <=> Again(t, d)) /\ Operand(t, d)' = Operand(t, d)
  BY <1>1, SameTerms
<1>4. Inverted(t, d) = IF function # Absent THEN Reverse[function]
                       ELSE IF table # Absent THEN Refers[table] ELSE NoExpr
  BY DEF Inverted
<1>5. ASSUME NEW code \in Codes(t, d), NEW v, Return(t, code, v, {}) PROVE Fact(t, d)'
  BY <1>1, <1>5, ConvertReturns
<1>6. ASSUME NEW s \in ConvertStage, NEW e, Goto(t, s, e) PROVE stage'[t] = s
  BY <1>6 DEF Goto
<1>7. ASSUME NEW f, Store(t, f) PROVE l = f
  BY <1>7 DEF Store
<1>8. ASSUME NEW s \in ParseStage, Evaluated(t, s)
      PROVE  stage[t] = s /\ frame.code = Alone(d, Subject(t)).code /\ frame.base = Alone(d, Subject(t)).base
  BY <1>8, Result DEF Evaluated
<1>9. Direct(t, d) <=> Inverted(t, d) = NoExpr \/ Alone(d, from).code # "OK"
  BY DEF Direct
<1> HIDE DEF RefinementInv, ListInv, StoreInv, TypeInv, TypeOK
<1>10. CASE ConvertLookup(t)
  <2>1. FunctionEntry(t) = function /\ TableEntry(t) = table
    BY <1>1, <1>10, Peeked DEF ConvertLookup, Peek
  <2>2. /\ Store(t, [local[t] EXCEPT !.expr = Inverted(t, d), !.table = (function = Absent)])
        /\ Goto(t, IF Inverted(t, d) = NoExpr THEN "from" ELSE "arg", from)
    BY <1>4, <1>10, <2>1 DEF ConvertLookup
  <2>3. l.expr = Inverted(t, d) /\ (l.table <=> function = Absent)
    BY <1>1, <1>7, <2>2 DEF Local
  <2>4. stage'[t] = IF Inverted(t, d) = NoExpr THEN "from" ELSE "arg"
    BY <1>6, <2>2 DEF ConvertStage
  <2>5. ConvertFact(t, d)'
    BY <1>1, <1>3, <1>9, <2>3, <2>4 DEF ConvertFact
  <2> QED BY <2>4, <2>5, ConvertSays DEF ConvertStage
<1>11. CASE ConvertArg(t)
  <2>1. stage[t] = "arg" /\ frame.code = Alone(d, from).code /\ frame.base = Alone(d, from).base
    BY <1>8, <1>11 DEF ConvertArg, ParseStage, Subject
  <2>2. CASE Good(t)
    <3>1. /\ Store(t, [local[t] EXCEPT !.val = frame])
          /\ Goto(t, IF local[t].table THEN "unit" ELSE "reverse", local[t].expr)
      BY <1>11, <2>2 DEF ConvertArg
    <3>2. l.val = frame /\ l.expr = local[t].expr /\ l.table = local[t].table
      BY <1>1, <1>7, <3>1 DEF Local
    <3>3. stage'[t] = IF local[t].table THEN "unit" ELSE "reverse"
      BY <1>6, <3>1 DEF ConvertStage
    <3>4. ConvertFact(t, d)'
      BY <1>1, <1>2, <1>3, <2>1, <2>2, <3>2, <3>3 DEF ConvertFact, Good
    <3> QED BY <3>3, <3>4, ConvertSays DEF ConvertStage
  <2>3. CASE ~ Good(t)
    <3>1. stage'[t] = "from"
      BY <1>6, <1>11, <2>3 DEF ConvertArg, ConvertStage
    <3>2. Direct(t, d)'
      BY <1>3, <1>9, <2>1, <2>3 DEF Good
    <3>3. ConvertFact(t, d)'
      BY <3>1, <3>2 DEF ConvertFact
    <3> QED BY <3>1, <3>3, ConvertSays DEF ConvertStage
  <2> QED BY <2>2, <2>3
<1>12. CASE ConvertReverse(t)
  <2>1. stage[t] = "reverse" /\ frame.code = Alone(d, local[t].expr).code
    BY <1>8, <1>12 DEF ConvertReverse, ParseStage, Subject
  <2>2. ~ Direct(t, d) /\ function # Absent /\ local[t].expr = Inverted(t, d)
    BY <1>2, <1>9, <2>1 DEF ConvertFact
  <2>3. frame.code \in Codes(t, d)
    BY <2>1, <2>2 DEF Codes
  <2> QED BY <1>5, <1>12, <2>3 DEF ConvertReverse
<1>13. CASE ConvertUnit(t)
  <2>1. /\ stage[t] = "unit" /\ frame.code = Alone(d, local[t].expr).code
        /\ frame.base = Alone(d, local[t].expr).base
    BY <1>8, <1>13 DEF ConvertUnit, ParseStage, Subject
  <2>2. /\ ~ Direct(t, d) /\ function = Absent /\ local[t].expr = Inverted(t, d)
        /\ local[t].val.base = Alone(d, from).base
    BY <1>2, <1>9, <2>1 DEF ConvertFact
  <2>3. CASE ~ Good(t)
    <3>1. frame.code \in Codes(t, d)
      BY <2>1, <2>2, <2>3 DEF Codes, Good
    <3> QED BY <1>5, <1>13, <2>3, <3>1 DEF ConvertUnit
  <2>4. CASE Good(t) /\ frame.base # local[t].val.base
    <3>1. "BadFuncArg" \in Codes(t, d)
      BY <2>1, <2>2, <2>4 DEF Codes, Good
    <3> QED BY <1>5, <1>13, <2>4, <3>1 DEF ConvertUnit
  <2>5. CASE Good(t) /\ frame.base = local[t].val.base
    <3>1. stage'[t] = "points" /\ local' = local
      BY <1>6, <1>13, <2>5 DEF ConvertUnit, ConvertStage, Stay
    <3>2. ConvertFact(t, d)'
      BY <1>1, <1>2, <1>3, <2>1, <2>5, <3>1 DEF ConvertFact, Good
    <3> QED BY <3>1, <3>2, ConvertSays DEF ConvertStage
  <2> QED BY <2>3, <2>4, <2>5
<1>14. CASE ConvertPoints(t)
  <2>1. stage[t] = "points" /\ TableEntry(t) = table
    BY <1>1, <1>14, Peeked DEF ConvertPoints, Peek
  <2>2. /\ ~ Direct(t, d) /\ function = Absent /\ table # Absent
        /\ local[t].expr = Inverted(t, d) /\ local[t].val.base = Alone(d, from).base
        /\ Alone(d, local[t].expr).code = "OK" /\ Alone(d, local[t].expr).base = local[t].val.base
    BY <1>2, <1>4, <1>9, <2>1 DEF ConvertFact
  <2>3. Codes(t, d) = {"OK", "NotInDomain"}
    BY <2>2 DEF Codes
  <2>4. \E code \in {"OK", "NotInDomain"} : Return(t, code, NoValue, {})
    BY <1>14, <2>1, <2>2 DEF ConvertPoints
  <2> QED BY <1>5, <2>3, <2>4
<1>15. CASE ConvertFrom(t)
  <2>1. stage[t] = "from" /\ frame.code = Alone(d, from).code /\ frame.base = Alone(d, from).base
    BY <1>8, <1>15 DEF ConvertFrom, ParseStage, Subject
  <2>2. Direct(t, d)
    BY <1>2, <2>1 DEF ConvertFact
  <2>3. CASE Good(t)
    <3>0. ~ Retries(frame.code, from)
      BY <2>3 DEF Good, Retries
    <3>1. Store(t, [local[t] EXCEPT !.val = frame]) /\ stage'[t] = "to"
      <4>1. Store(t, [local[t] EXCEPT !.val = frame]) /\ Goto(t, "to", <<"Unit", call[t].to>>)
        BY <1>15, <2>3, <3>0 DEF ConvertFrom
      <4> QED BY <1>6, <4>1 DEF ConvertStage
    <3>2. l.val = frame
      BY <1>1, <1>7, <3>1 DEF Local
    <3>3. ~ Again(t, d) /\ Operand(t, d) = Alone(d, from)
      BY <2>1, <2>3 DEF Again, Retries, Good, Operand
    <3>4. ConvertFact(t, d)'
      BY <1>3, <2>1, <2>2, <2>3, <3>1, <3>2, <3>3 DEF ConvertFact, Good
    <3> QED BY <3>1, <3>4, ConvertSays DEF ConvertStage
  <2>4. CASE ~ Good(t) /\ Again(t, d)
    <3>1. Retries(frame.code, from)
      BY <2>1, <2>4 DEF Again
    <3>2. stage'[t] = "split"
      BY <1>6, <1>15, <2>4, <3>1 DEF ConvertFrom, ConvertStage
    <3>3. ConvertFact(t, d)'
      BY <1>3, <2>2, <2>4, <3>2 DEF ConvertFact
    <3> QED BY <3>2, <3>3, ConvertSays DEF ConvertStage
  <2>5. CASE ~ Good(t) /\ ~ Again(t, d)
    <3>1. ~ Retries(frame.code, from)
      BY <2>1, <2>5 DEF Again
    <3>2. Return(t, frame.code, frame, {})
      BY <1>15, <2>5, <3>1 DEF ConvertFrom
    <3>3. Operand(t, d).code = frame.code
      BY <2>1, <2>5 DEF Operand
    <3>4. frame.code \in Codes(t, d)
      BY <2>2, <2>5, <3>3 DEF Codes, Good
    <3> QED BY <1>5, <3>2, <3>4
  <2> QED BY <2>3, <2>4, <2>5
<1>16. CASE ConvertSplit(t)
  <2>1. /\ stage[t] = "split" /\ frame.code = Alone(d, Split[from]).code
        /\ frame.base = Alone(d, Split[from]).base
    BY <1>8, <1>16 DEF ConvertSplit, ParseStage, Subject
  <2>2. Direct(t, d) /\ Again(t, d) /\ Operand(t, d) = Alone(d, Split[from])
    BY <1>2, <2>1 DEF ConvertFact, Operand
  <2>3. CASE Good(t)
    <3>1. Store(t, [local[t] EXCEPT !.val = frame]) /\ stage'[t] = "to"
      BY <1>6, <1>16, <2>3 DEF ConvertSplit, ConvertStage
    <3>2. l.val = frame
      BY <1>1, <1>7, <3>1 DEF Local
    <3>3. ConvertFact(t, d)'
      BY <1>3, <2>1, <2>2, <2>3, <3>1, <3>2 DEF ConvertFact, Good
    <3> QED BY <3>1, <3>3, ConvertSays DEF ConvertStage
  <2>4. CASE ~ Good(t)
    <3>1. frame.code \in Codes(t, d)
      BY <2>1, <2>2, <2>4 DEF Codes, Good
    <3> QED BY <1>5, <1>16, <2>4, <3>1 DEF ConvertSplit
  <2> QED BY <2>3, <2>4
<1>17. CASE ConvertTo(t)
  <2> DEFINE target == Alone(d, <<"Unit", call[t].to>>)
             code == IF Good(t) THEN Ratio(local[t].val, frame) ELSE frame.code
  <2>1. stage[t] = "to" /\ frame.code = target.code /\ frame.base = target.base
    BY <1>8, <1>17 DEF ConvertTo, ParseStage, Subject
  <2>2. Direct(t, d) /\ Operand(t, d).code = "OK" /\ local[t].val.base = Operand(t, d).base
    BY <1>2, <2>1 DEF ConvertFact
  <2>3. code \in Codes(t, d)
    BY <2>1, <2>2 DEF Codes, Good, Ratio
  <2>4. Return(t, code, frame, {})
    BY <1>17 DEF ConvertTo
  <2> HIDE DEF code
  <2> QED BY <1>5, <2>3, <2>4
<1> QED BY <1>10, <1>11, <1>12, <1>13, <1>14, <1>15, <1>16, <1>17 DEF Convert

\* The names conformable has gone through, and those it still has to.
LEMMA NamesStep ==
  ASSUME RefinementInv, NamesInv, NEW t \in Thread, Start(t) \/ Step(t)
  PROVE  NamesInv'
<1> USE DEF RefinementInv, ListInv, StoreInv, TypeInv, TypeOK
<1>0. /\ TypeInv /\ local[t] \in Local /\ db \in Database /\ call[t] \in Call
      /\ stage[t] \in ConvertStage => call[t].op = "convert"
  BY DEF CallInv
<1> DEFINE named(u) == /\ stage'[u] \notin {"names", "name"} => local'[u].names = {}
                       /\ stage'[u] # "name" => local'[u].cur = {}
                       /\ stage'[u] = "name" =>
                            \E n \in FullName \ local'[u].todo : local'[u].cur = {n}
<1>c. /\ \A s, e : Goto(t, s, e) => stage'[t] = s
      /\ \A f : Store(t, f) => local'[t] = f
  BY DEF Goto, Store
<1>1. ASSUME NEW u \in Thread, u # t PROVE named(u)
  <2>1. stage'[u] = stage[u] /\ local'[u] = local[u]
    BY <1>1, OthersKeep
  <2> QED BY <2>1 DEF NamesInv
<1>2. ASSUME NEW code, NEW v, NEW names, Return(t, code, v, names) PROVE named(t)
  <2>1. stage'[t] = "idle" /\ local'[t] = NoLocal
    BY <1>2 DEF Return, Goto
  <2> QED BY <2>1 DEF NoLocal
<1>3. ASSUME stage[t] \notin {"names", "name"}, stage'[t] # "name",
             local'[t].names = local[t].names, local'[t].cur = local[t].cur
      PROVE  named(t)
  BY <1>3 DEF NamesInv
<1>a. stage'[t] = stage[t] /\ local'[t] = local[t] => named(t)
  BY DEF NamesInv
<1>b. /\ stage'[t] = "names" /\ local'[t].cur = {} => named(t)
      /\ (stage'[t] = "name" /\ \E n \in FullName \ local'[t].todo : local'[t].cur = {n}) => named(t)
  OBVIOUS
<1>d. SUFFICES named(t)
  BY <1>1 DEF NamesInv
<1> HIDE DEF named, RefinementInv, ListInv, StoreInv, TypeInv, TypeOK
<1>4. CASE Start(t) \/ Boot(t) \/ Enter(t)
  <2>1. FirstStage(call[t]) # "name"
    BY <1>0 DEF FirstStage, Call
  <2>2. /\ stage[t] \in EarlyStage /\ stage'[t] # "name" /\ local' = local
    BY <1>0, <1>4, <2>1 DEF Start, Boot, BootBegin, BootInit, BootPublish, Enter, Goto, EarlyStage,
       TypeInv, TypeOK
  <2> QED BY <1>3, <2>2 DEF EarlyStage
<1>5. CASE Acquire(t) \/ Resolve(t)
  <2>1. stage' = stage /\ local' = local
    BY <1>5 DEF Acquire, Resolve
  <2> QED BY <1>a, <2>1
<1>6. CASE ParseReturns(t) \/ ListReturns(t)
  BY <1>2, <1>6 DEF ParseReturns, ListReturns
<1>7. CASE Convert(t)
  <2>1. stage[t] \in ConvertStage
    BY <1>7 DEF Convert, ConvertLookup, ConvertArg, ConvertReverse, ConvertUnit,
       ConvertPoints, ConvertFrom, ConvertSplit, ConvertTo, Evaluated, Peek, ConvertStage
  <2>2. ASSUME NEW s \in ConvertStage, NEW e, Goto(t, s, e),
               local'[t].names = local[t].names, local'[t].cur = local[t].cur
        PROVE  named(t)
    BY <1>3, <1>c, <2>1, <2>2 DEF ConvertStage
  <2>3. CASE ConvertLookup(t)
    <3>1. PICK f \in Key \cup {NoExpr}, b \in BOOLEAN, s \in {"from", "arg"} :
            Store(t, [local[t] EXCEPT !.expr = f, !.table = b]) /\ Goto(t, s, call[t].from)
      <4>1. db \in Database /\ call[t].op = "convert"
        BY <1>0, <2>1
      <4>2. /\ FunctionEntry(t) \in Def \cup {Absent} /\ TableEntry(t) \in Def \cup {Absent}
        BY <1>0, <4>1, ConvertKeys DEF FunctionEntry, TableEntry, Database
      <4>3. /\ FunctionEntry(t) # Absent => Reverse[FunctionEntry(t)] \in Key \cup {NoExpr}
            /\ TableEntry(t) # Absent => Refers[TableEntry(t)] \in Key \cup {NoExpr}
        BY <4>2, StoreAssumption DEF Expr
      <4> QED BY <2>3, <4>3 DEF ConvertLookup
    <3>2. local'[t].names = local[t].names /\ local'[t].cur = local[t].cur
      BY <1>0, <1>c, <3>1 DEF Local
    <3> QED BY <2>2, <3>1, <3>2 DEF ConvertStage
  <2>4. ASSUME NEW v, NEW s \in ConvertStage, NEW e, Goto(t, s, e),
               Store(t, [local[t] EXCEPT !.val = v])
        PROVE  named(t)
    <3>1. local'[t].names = local[t].names /\ local'[t].cur = local[t].cur
      BY <1>0, <1>c, <2>4 DEF Local
    <3> QED BY <2>2, <2>4, <3>1
  <2>5. ASSUME NEW s \in ConvertStage, NEW e, Goto(t, s, e), Stay PROVE named(t)
    <3>1. local' = local
      BY <2>5 DEF Stay
    <3> QED BY <2>2, <2>5, <3>1
  <2>6. CASE ConvertArg(t)
    <3>1. CASE Good(t)
      <4>1. Store(t, [local[t] EXCEPT !.val = eval[t].value])
        BY <2>6, <3>1 DEF ConvertArg
      <4>2. Goto(t, IF local[t].table THEN "unit" ELSE "reverse", local[t].expr)
        BY <2>6, <3>1 DEF ConvertArg
      <4> QED BY <2>4, <4>1, <4>2 DEF ConvertStage
    <3> QED BY <2>5, <2>6, <3>1 DEF ConvertArg, ConvertStage
  <2>7. CASE ConvertReverse(t) \/ ConvertTo(t)
    <3>1. \E c, v : Return(t, c, v, {})
      BY <2>7 DEF ConvertReverse, ConvertTo
    <3> QED BY <1>2, <3>1
  <2>8. CASE ConvertUnit(t)
    BY <1>2, <2>5, <2>8 DEF ConvertUnit, ConvertStage
  <2>9. CASE ConvertPoints(t)
    BY <1>2, <2>5, <2>9 DEF ConvertPoints, ConvertStage
  <2>10. CASE ConvertFrom(t)
    <3>1. \/ \E v, e : Store(t, [local[t] EXCEPT !.val = v]) /\ Goto(t, "to", e)
          \/ \E e : Stay /\ Goto(t, "split", e)
          \/ \E c, v : Return(t, c, v, {})
      BY <2>10 DEF ConvertFrom
    <3> QED BY <1>2, <2>4, <2>5, <3>1 DEF ConvertStage
  <2>11. CASE ConvertSplit(t)
    BY <1>2, <2>4, <2>11 DEF ConvertSplit, ConvertStage
  <2> QED BY <1>7, <2>3, <2>6, <2>7, <2>8, <2>9, <2>10, <2>11 DEF Convert
<1>8. CASE ConformableTarget(t)
  <2>1. CASE Good(t)
    <3>1. /\ stage[t] = "target" /\ stage'[t] = "clone"
          /\ local'[t] = [local[t] EXCEPT !.val = eval[t].value]
      BY <1>c, <1>8, <2>1 DEF ConformableTarget, Evaluated
    <3>2. local'[t].names = local[t].names /\ local'[t].cur = local[t].cur
      BY <1>0, <3>1 DEF Local
    <3> QED BY <1>3, <3>1, <3>2
  <2> QED BY <1>2, <1>8, <2>1 DEF ConformableTarget
<1>9. CASE ConformableClone(t)
  <2>1. /\ stage[t] = "clone" /\ stage'[t] = "names"
        /\ local'[t] = [local[t] EXCEPT !.todo = ListedUnits]
    BY <1>c, <1>9 DEF ConformableClone, ReadListing
  <2>2. local'[t].names = local[t].names /\ local'[t].cur = local[t].cur
    BY <1>0, <2>1 DEF Local
  <2> QED BY <1>3, <2>1, <2>2
<1>10. CASE ConformableNext(t)
  <2>1. PICK n \in local[t].todo : Store(t, [local[t] EXCEPT !.todo = @ \ {n}, !.cur = {n}])
    BY <1>10 DEF ConformableNext
  <2>2. stage'[t] = "name" /\ n \in FullName
    BY <1>0, <1>c, <1>10, <2>1 DEF ConformableNext, Local
  <2>3. local'[t].cur = {n} /\ local'[t].todo = local[t].todo \ {n}
    BY <1>0, <1>c, <2>1 DEF Local
  <2> QED BY <1>b, <2>2, <2>3
<1>11. CASE ConformableName(t)
  <2>1. PICK s : Store(t, [local[t] EXCEPT !.cur = {}, !.names = s])
    BY <1>11 DEF ConformableName
  <2>2. stage'[t] = "names" /\ local'[t].cur = {}
    BY <1>0, <1>c, <1>11, <2>1 DEF ConformableName, Local
  <2> QED BY <1>b, <2>2
<1>12. CASE ConformableReturns(t)
  BY <1>2, <1>12 DEF ConformableReturns
<1>13. CASE Reload(t) /\ ~ ReloadExtend(t)
  <2>1. /\ stage[t] \in ReloadStage /\ stage'[t] \in ReloadStage
        /\ local'[t].names = local[t].names /\ local'[t].cur = local[t].cur
    <3>1. CASE ReloadInsert(t)
      BY <1>0, <1>c, <3>1 DEF ReloadInsert, Local, ReloadStage
    <3>2. CASE ReloadAcquire(t) \/ ReloadCommit(t) \/ ReloadRetain(t)
      BY <1>c, <3>2 DEF ReloadAcquire, ReloadCommit, ReloadRetain, ReloadStage
    <3> QED BY <1>13, <3>1, <3>2 DEF Reload
  <2> QED BY <1>3, <2>1 DEF ReloadStage
<1>14. CASE ReloadExtend(t)
  BY <1>2, <1>14 DEF ReloadExtend
<1> QED BY <1>4, <1>5, <1>6, <1>7, <1>8, <1>9, <1>10, <1>11, <1>12, <1>13, <1>14
       DEF Step, Evaluate, Conformable

\* An embedded unit stays listed as a unit.
LEMMA EmbeddedStay ==
  ASSUME UnitsStayUnits, NEW list \in Listing, NEW content \in Contents, NEW n \in EmbeddedUnits,
         list[<<n, "Unit">>] # {}
  PROVE  Extended(Retained(list, content), content)[<<n, "Unit">>] # {}
<1> DEFINE s == <<n, "Unit">>
<1>1. n \in FullName /\ s \in Slot /\ content \in Seq(Line) /\ Embedded \in Seq(Line)
  BY StoreAssumption DEF EmbeddedUnits, Slot, DefinitionKind, DbKind
<1>2. n \in AllUnits
  <2>1. PICK i \in DOMAIN Embedded : SlotOf(Embedded[i]) = s
    BY <1>1 DEF EmbeddedUnits, InitialListing
  <2>2. Embedded[i].kind = "Unit" /\ Embedded[i].name = n
    BY <2>1 DEF SlotOf
  <2> QED BY <1>1, <2>2 DEF AllUnits
<1>3. CASE \E i \in DOMAIN content : content[i].name = n
  <2>1. PICK i \in DOMAIN content : content[i].name = n
    BY <1>3
  <2>2. SlotOf(content[i]) = s
    BY <1>2, <2>1 DEF UnitsStayUnits, SlotOf
  <2>3. content[i].def \in Matching(content, s)
    BY <2>2 DEF Matching
  <2> QED BY <1>1, <2>3 DEF Extended
<1>4. CASE ~ \E i \in DOMAIN content : content[i].name = n
  <2>1. Retained(list, content)[s] = list[s]
    BY <1>1, <1>4 DEF Retained
  <2> QED BY <1>1, <2>1 DEF Extended
<1> QED BY <1>3, <1>4

LEMMA UnitsStep ==
  ASSUME UnitsStayUnits, ListInv, UnitsInv, NEW t \in Thread, Start(t) \/ Step(t)
  PROVE  UnitsInv'
<1> USE DEF ListInv, StoreInv, TypeInv, TypeOK
<1>1. \A u \in Thread \ {t} : stage'[u] = stage[u] /\ Content(u)' = Content(u)
  BY OthersKeep DEF Content
<1>2. CASE ~ BootPublish(t) /\ ~ ReloadRetain(t) /\ ~ ReloadExtend(t)
  <2>1. /\ listing' = listing /\ stage[t] # "extend" /\ stage'[t] # "extend"
        /\ lazy' = "done" <=> lazy = "done"
    BY <1>2, ListingKept
  <2> QED BY <1>1, <2>1 DEF UnitsInv
<1>3. CASE BootPublish(t)
  <2>1. listing' = InitialListing(Embedded) /\ stage[t] = "publish" /\ stage'[t] = "ensure"
    BY <1>3 DEF BootPublish, Goto
  <2>2. \A u \in Thread : stage'[u] # "extend"
    BY <1>1, <2>1 DEF BootInv, EarlyStage
  <2> QED BY <2>1, <2>2 DEF UnitsInv, EmbeddedUnits
<1>4. CASE ReloadRetain(t)
  <2>1. /\ listing' = Retained(listing, Content(t)) /\ Content(t)' = Content(t)
        /\ stage'[t] = "extend" /\ stage[t] = "listwrite" /\ listLock.writers = {}
    BY <1>4 DEF ReloadRetain, Goto, CanWrite, Content
  <2>2. lazy = "done" /\ Content(t) \in Contents
    <3>1. call[t] \in Call /\ call[t].op = "reload"
      BY <2>1 DEF CallInv, ReloadStage
    <3> QED BY <2>1, <3>1 DEF BootInv, EarlyStage, Content, Call
  <2>3. \A u \in Thread \ {t} : stage'[u] # "extend" /\ stage[u] # "extend"
    BY <1>1, <2>1 DEF ListLockInv
  <2>4. \A n \in EmbeddedUnits : Extended(listing', Content(t))[<<n, "Unit">>] # {}
    BY <2>1, <2>2, <2>3, EmbeddedStay DEF UnitsInv
  <2> QED BY <2>1, <2>3, <2>4 DEF UnitsInv
<1>5. CASE ReloadExtend(t)
  <2>1. /\ listing' = Extended(listing, Content(t)) /\ stage'[t] = "idle" /\ stage[t] = "extend"
        /\ lazy' = lazy
    BY <1>5 DEF ReloadExtend, Return, Goto
  <2>2. \A u \in Thread : stage'[u] # "extend"
    BY <1>1, <2>1 DEF ListLockInv
  <2> QED BY <2>1, <2>2 DEF UnitsInv
<1> QED BY <1>2, <1>3, <1>4, <1>5

LEMMA ConformableTells ==
  ASSUME RefinementInv, NamesInv, UnitsInv, NEW t \in Thread, Conformable(t), Agreed(t),
         NEW d \in seen[t], Fact(t, d)
  PROVE  Fact(t, d)'
<1> DEFINE e == call[t].expr
           frame == eval[t].value
           l == local'[t]
<1> USE DEF RefinementInv, ListInv, StoreInv, TypeInv, TypeOK
<1>1. /\ stage[t] \in {"target", "clone", "names", "name"} /\ call' = call
      /\ local[t] \in Local
  BY DEF Conformable, ConformableTarget, ConformableClone, ConformableNext, ConformableName,
     ConformableReturns, Evaluated, ReadListing
<1>2. call[t].op = "conformable" /\ e \in Key
  <2>1. call[t] \in Call
    OBVIOUS
  <2>2. call[t].op = "conformable"
    BY <1>1, <2>1, CallFields DEF SiteInv, EarlyStage, CallSites, ConvertStage, ReloadStage
  <2> QED BY <2>1, <2>2, CallFields DEF Expr
<1>3. ConformableFact(t, d)
  BY DEF Fact
<1>4. ASSUME NEW code, NEW v, NEW names, Return(t, code, v, names), code = Alone(d, e).code,
             code = "OK" => names \cap EmbeddedUnits = ConformableNames(d, e)
      PROVE  Fact(t, d)'
  <2>1. stage'[t] = "idle" /\ answer'[t].code = code /\ answer'[t].names = names
    BY <1>4 DEF Return, Goto
  <2>2. AnswerIn(t, d)'
    BY <1>1, <1>2, <1>4, <2>1 DEF AnswerIn, Alone
  <2> QED BY <2>1, <2>2, NothingKnown DEF FactStage
<1>5. ASSUME stage'[t] \in {"clone", "names", "name"}, ConformableFact(t, d)' PROVE Fact(t, d)'
  BY <1>5 DEF Fact, ConvertFact, Answered
<1>6. ASSUME NEW s, Evaluated(t, s)
      PROVE  stage[t] = s /\ frame.code = Alone(d, Subject(t)).code /\ frame.base = Alone(d, Subject(t)).base
  BY <1>6, Result DEF Evaluated
<1>7. /\ \A s, x : Goto(t, s, x) => stage'[t] = s
      /\ \A f : Store(t, f) => l = f
  BY DEF Goto, Store
<1> HIDE DEF RefinementInv, ListInv, StoreInv, TypeInv, TypeOK
<1>8. CASE ConformableTarget(t)
  <2>1. stage[t] = "target" /\ frame.code = Alone(d, e).code /\ frame.base = Alone(d, e).base
    <3>1. Evaluated(t, "target") /\ stage[t] = "target"
      BY <1>8 DEF ConformableTarget, Evaluated
    <3>2. Subject(t) = e
      BY <3>1 DEF Subject
    <3> QED BY <1>6, <3>1, <3>2
  <2>2. CASE Good(t)
    <3>1. Store(t, [local[t] EXCEPT !.val = frame]) /\ stage'[t] = "clone"
      BY <1>7, <1>8, <2>2 DEF ConformableTarget
    <3>2. l.val = frame
      BY <1>1, <1>7, <3>1 DEF Local
    <3>3. ConformableFact(t, d)'
      BY <1>1, <2>1, <2>2, <3>1, <3>2 DEF ConformableFact, Good
    <3> QED BY <1>5, <3>1, <3>3
  <2>3. CASE ~ Good(t)
    <3>1. Return(t, frame.code, frame, {}) /\ frame.code # "OK"
      BY <1>8, <2>3 DEF ConformableTarget, Good
    <3> QED BY <1>4, <2>1, <3>1
  <2> QED BY <2>2, <2>3
<1>9. CASE ConformableClone(t)
  <2>1. /\ stage[t] = "clone" /\ stage'[t] = "names" /\ listLock.writers = {}
        /\ Store(t, [local[t] EXCEPT !.todo = ListedUnits])
    BY <1>7, <1>9 DEF ConformableClone, ReadListing, CanRead
  <2>2. l.todo = ListedUnits /\ l.names = {} /\ l.val = local[t].val
    BY <1>1, <1>7, <2>1 DEF NamesInv, Local
  <2>3. \A n \in EmbeddedUnits : n \in ListedUnits
    <3>1. lazy = "done"
      BY <2>1, Met DEF EarlyStage
    <3>2. \A u \in Thread : stage[u] # "extend"
      BY <2>1 DEF RefinementInv, ListInv, ListLockInv
    <3> QED BY <3>1, <3>2 DEF UnitsInv, ListedUnits, EmbeddedUnits
  <2>4. ConformableFact(t, d)'
    BY <1>1, <1>3, <2>1, <2>2, <2>3 DEF ConformableFact
  <2> QED BY <1>5, <2>1, <2>4
<1>10. CASE ConformableNext(t)
  <2>1. PICK n \in local[t].todo : Store(t, [local[t] EXCEPT !.todo = @ \ {n}, !.cur = {n}])
    BY <1>10 DEF ConformableNext
  <2>2. stage[t] = "names" /\ stage'[t] = "name" /\ local[t].cur = {}
    BY <1>7, <1>10 DEF ConformableNext, NamesInv
  <2>3. /\ l.todo = local[t].todo \ {n} /\ l.cur = {n} /\ l.names = local[t].names
        /\ l.val = local[t].val
    BY <1>1, <1>7, <2>1 DEF Local
  <2>4. l.todo \cup l.cur = local[t].todo \cup local[t].cur
    BY <2>2, <2>3
  <2>5. ConformableFact(t, d)'
    BY <1>1, <1>3, <2>2, <2>3, <2>4 DEF ConformableFact
  <2> QED BY <1>5, <2>2, <2>5
<1>11. CASE ConformableName(t)
  <2>1. PICK n \in FullName \ local[t].todo : local[t].cur = {n}
    BY <1>6, <1>11 DEF ConformableName, NamesInv
  <2> DEFINE unit == Alone(d, <<"Unit", Canon[n]>>)
             same == frame.code = "OK" /\ frame.base = local[t].val.base
  <2>2. (CHOOSE m \in local[t].cur : TRUE) = n
    BY <2>1
  <2>3. stage[t] = "name" /\ frame.code = unit.code /\ frame.base = unit.base
    <3>1. stage[t] = "name" /\ frame.code = Alone(d, Subject(t)).code /\ frame.base = Alone(d, Subject(t)).base
      BY <1>6, <1>11 DEF ConformableName
    <3>2. Subject(t) = <<"Unit", Canon[n]>>
      BY <2>2, <3>1 DEF Subject
    <3> QED BY <3>1, <3>2
  <2>4. /\ Store(t, [local[t] EXCEPT !.cur = {}, !.names = IF same THEN @ \cup local[t].cur ELSE @])
        /\ stage'[t] = "names"
    BY <1>7, <1>11 DEF ConformableName, Good
  <2>5. /\ l.cur = {} /\ l.todo = local[t].todo /\ l.val = local[t].val
        /\ l.names = IF same THEN local[t].names \cup {n} ELSE local[t].names
    BY <1>1, <1>7, <2>1, <2>4 DEF Local
  <2>6. n \in EmbeddedUnits => (same <=> n \in ConformableNames(d, e))
    BY <1>3, <2>3 DEF ConformableFact, ConformableNames, Alone
  <2>7. \A m \in EmbeddedUnits : m \in local[t].names <=>
          m \notin local[t].todo \cup {n} /\ m \in ConformableNames(d, e)
    BY <1>3, <2>1, <2>3 DEF ConformableFact
  <2>8. \A m \in EmbeddedUnits : m \in l.names <=>
          m \notin l.todo \cup l.cur /\ m \in ConformableNames(d, e)
    <3> HIDE DEF same
    <3> QED BY <2>1, <2>5, <2>6, <2>7
  <2>9. ConformableFact(t, d)'
    <3> HIDE DEF same
    <3> QED BY <1>1, <1>3, <2>3, <2>4, <2>5, <2>8 DEF ConformableFact
  <2> QED BY <1>5, <2>4, <2>9
<1>12. CASE ConformableReturns(t)
  <2>1. /\ stage[t] = "names" /\ local[t].todo = {} /\ local[t].cur = {}
        /\ Return(t, "OK", NoValue, local[t].names)
    BY <1>12 DEF ConformableReturns, NamesInv
  <2>2. Alone(d, e).code = "OK" /\ \A n \in EmbeddedUnits : n \in local[t].names <=> n \in ConformableNames(d, e)
    BY <1>3, <2>1 DEF ConformableFact
  <2>3. local[t].names \cap EmbeddedUnits = ConformableNames(d, e)
    BY <2>2 DEF ConformableNames
  <2> QED BY <1>4, <2>1, <2>2, <2>3
<1> QED BY <1>8, <1>9, <1>10, <1>11, <1>12 DEF Conformable

\* A step of the call proper is taken after ensure_definitions.
LEMMA LateSteps ==
  ASSUME RefinementInv, NEW t \in Thread, Step(t), ~ Boot(t), ~ Enter(t)
  PROVE  stage[t] \notin EarlyStage
<1>1. CASE Evaluate(t)
  BY <1>1 DEF Evaluate, Acquire, Resolve, ParseReturns, Evaluated, EarlyStage, ParseStage,
     RefinementInv, ListInv, StoreInv, LockInv
<1>2. CASE Convert(t)
  BY <1>2 DEF Convert, ConvertLookup, ConvertArg, ConvertReverse, ConvertUnit, ConvertPoints,
     ConvertFrom, ConvertSplit, ConvertTo, Evaluated, Peek, EarlyStage
<1>3. CASE Conformable(t) \/ ListReturns(t)
  BY <1>3 DEF Conformable, ConformableTarget, ConformableClone, ConformableNext, ConformableName,
     ConformableReturns, ListReturns, ReadListing, Evaluated, EarlyStage
<1>4. CASE Reload(t)
  BY <1>4 DEF Reload, ReloadAcquire, ReloadInsert, ReloadCommit, ReloadRetain, ReloadExtend, EarlyStage
<1> QED BY <1>1, <1>2, <1>3, <1>4 DEF Step

LEMMA SeenGrows ==
  ASSUME RefinementInv, NEW t \in Thread, Start(t) \/ Step(t), NEW u \in Thread
  PROVE  /\ u # t \/ ~ Start(t) => seen[u] \subseteq seen'[u]
         /\ ~ Start(t) /\ ~ BootInit(t) /\ ~ ReloadCommit(t) => seen' = seen
<1> USE DEF RefinementInv, ListInv, StoreInv, TypeInv, TypeOK
<1>1. CASE Start(t)
  BY <1>1 DEF Start
<1>2. CASE BootInit(t) \/ ReloadCommit(t)
  BY <1>2 DEF BootInit, ReloadCommit
<1>3. CASE ~ Start(t) /\ ~ BootInit(t) /\ ~ ReloadCommit(t)
  <2>1. seen' = seen
    <3>1. CASE Boot(t) \/ Enter(t) \/ Evaluate(t)
      BY <1>3, <3>1 DEF Boot, BootBegin, BootPublish, Enter, Evaluate, Acquire, Resolve,
         ParseReturns, Evaluated, storeVars
    <3>2. CASE Convert(t)
      BY <3>2 DEF Convert, ConvertLookup, ConvertArg, ConvertReverse, ConvertUnit, ConvertPoints,
         ConvertFrom, ConvertSplit, ConvertTo, Evaluated, Peek, storeVars
    <3>3. CASE Conformable(t) \/ ListReturns(t)
      BY <3>3 DEF Conformable, ConformableTarget, ConformableClone, ConformableNext, ConformableName,
         ConformableReturns, ListReturns, ReadListing, Evaluated, storeVars
    <3>4. CASE Reload(t)
      BY <1>3, <3>4 DEF Reload, ReloadAcquire, ReloadInsert, ReloadRetain, ReloadExtend
    <3> QED BY <1>3, <3>1, <3>2, <3>3, <3>4 DEF Step
  <2> QED BY <2>1
<1> QED BY <1>1, <1>2, <1>3

\* The steps of the other calls.
LEMMA OthersTell ==
  ASSUME RefinementInv, NEW t \in Thread, Start(t) \/ Step(t), ~ Convert(t), ~ Conformable(t), NEW d
  PROVE  \/ Fact(t, d)'
         \/ ~ Start(t) /\ ~ BootInit(t) /\ ~ ReloadCommit(t) /\ (Agreed(t) /\ d \in seen[t] /\ Fact(t, d) => Fact(t, d)')
<1> USE DEF RefinementInv, ListInv, StoreInv, TypeInv, TypeOK
<1>0. call[t] \in Call /\ stage[t] \in EarlyStage \cup CallSites(call[t].op)
  BY DEF SiteInv
<1>1. \A s, x : Goto(t, s, x) => stage'[t] = s
  BY DEF Goto
<1>2. CASE Start(t) \/ Boot(t) \/ Enter(t)
  <2>1. FirstStage(call[t]) \notin FactStage /\ FirstStage(call[t]) # "idle"
    BY <1>0 DEF FirstStage, Call, FactStage
  <2>2. stage'[t] \notin FactStage /\ stage'[t] # "idle"
    BY <1>1, <1>2, <2>1 DEF Start, Boot, BootBegin, BootInit, BootPublish, Enter, FactStage
  <2> QED BY <2>2, NothingKnown
<1>3. CASE Reload(t) /\ ~ ReloadExtend(t)
  <2>1. stage'[t] \in {"insert", "listwrite", "extend"}
    BY <1>1, <1>3 DEF Reload, ReloadAcquire, ReloadInsert, ReloadCommit, ReloadRetain
  <2> QED BY <2>1, NothingKnown DEF FactStage
<1>4. ASSUME NEW v, NEW names, Return(t, "OK", v, names), call' = call, call[t].op \in {"list", "reload"}
      PROVE  Fact(t, d)'
  <2>1. stage'[t] = "idle" /\ answer'[t].code = "OK"
    BY <1>4 DEF Return, Goto
  <2>2. AnswerIn(t, d)'
    BY <1>4, <2>1 DEF AnswerIn
  <2> QED BY <2>1, <2>2, NothingKnown DEF FactStage
<1>5. CASE ReloadExtend(t)
  <2>1. call[t].op = "reload" /\ call' = call
    BY <1>5 DEF ReloadExtend, CallInv, ReloadStage
  <2> QED BY <1>4, <1>5, <2>1 DEF ReloadExtend
<1>6. CASE ListReturns(t)
  <2>1. stage[t] = "list" /\ call' = call
    BY <1>6 DEF ListReturns, ReadListing
  <2>2. call[t].op = "list"
    BY <1>0, <2>1, CallFields DEF EarlyStage, CallSites, ConvertStage, ReloadStage
  <2> QED BY <1>4, <1>6, <2>1, <2>2 DEF ListReturns
<1>7. CASE Acquire(t) \/ Resolve(t)
  <2>1. UNCHANGED <<stage, call, local, answer>>
    BY <1>7 DEF Acquire, Resolve
  <2>2. Fact(t, d) => Fact(t, d)'
    BY <2>1 DEF Fact, ConvertFact, ConformableFact, Answered, AnswerIn, Inverted, Direct, Again, Operand
  <2>3. stage[t] \in ParseStage
    BY <1>7 DEF Acquire, Resolve, LockInv
  <2>4. ~ Start(t) /\ ~ BootInit(t) /\ ~ ReloadCommit(t)
    BY <2>3 DEF Start, BootInit, ReloadCommit, ParseStage
  <2> QED BY <2>2, <2>4
<1>8. CASE ParseReturns(t)
  <2>1. /\ stage[t] = "expr" /\ call' = call /\ eval[t].on /\ eval[t].want = NoExpr
        /\ Return(t, eval[t].value.code, eval[t].value, {})
    BY <1>8 DEF ParseReturns, Evaluated
  <2>2. stage'[t] = "idle" /\ answer'[t].code = eval[t].value.code
    BY <2>1 DEF Return, Goto
  <2>3. call[t].op = "parse"
    BY <1>0, <2>1, CallFields DEF EarlyStage, CallSites, ConvertStage, ReloadStage
  <2>4. ASSUME Agreed(t), d \in seen[t] PROVE Fact(t, d)'
    <3>1. Subject(t) = call[t].expr
      BY <2>1 DEF Subject
    <3>2. eval[t].value.code = Alone(d, call[t].expr).code
      BY <2>1, <2>4, <3>1, Result
    <3>3. AnswerIn(t, d)'
      BY <2>1, <2>2, <2>3, <3>2 DEF AnswerIn, Alone
    <3> QED BY <2>2, <3>3, NothingKnown DEF FactStage
  <2>5. ~ Start(t) /\ ~ BootInit(t) /\ ~ ReloadCommit(t)
    BY <2>1 DEF Start, BootInit, ReloadCommit
  <2> QED BY <2>4, <2>5
<1> QED BY <1>2, <1>3, <1>5, <1>6, <1>7, <1>8 DEF Step, Evaluate, Reload

LEMMA FactStep ==
  ASSUME AloneInv, RefinementInv', NEW t \in Thread, Start(t) \/ Step(t)
  PROVE  FactInv'
<1> USE DEF AloneInv
<1>1. \A u \in Thread : seen'[u] \in SUBSET Database
  BY DEF RefinementInv, ListInv, StoreInv, TypeInv, TypeOK
<1>2. ASSUME NEW u \in Thread, u # t
      PROVE  /\ Answered(u)' => seen'[u] # {}
             /\ Agreed(u)' => \A d \in seen'[u] : Fact(u, d)'
  <2>1. /\ stage'[u] = stage[u] /\ call'[u] = call[u] /\ local'[u] = local[u] /\ answer'[u] = answer[u]
    BY <1>2, OthersKeep DEF RefinementInv, ListInv, StoreInv
  <2>2. seen[u] \subseteq seen'[u]
    BY <1>2, SeenGrows
  <2>3. Answered(u)' <=> Answered(u)
    BY <2>1 DEF Answered
  <2>4. ASSUME Agreed(u)', NEW d \in seen'[u] PROVE Fact(u, d)'
    <3>1. Fact(u, d) => Fact(u, d)'
      BY <2>1 DEF Fact, ConvertFact, ConformableFact, Answered, AnswerIn, Inverted, Direct, Again, Operand
    <3>2. CASE seen[u] = {}
      <4>1. stage[u] \in EarlyStage /\ ~ Answered(u)
        BY <3>2, Met DEF FactInv
      <4> QED BY <2>1, <4>1, NothingKnown DEF Answered, EarlyStage, FactStage
    <3>3. CASE seen[u] # {}
      <4>1. PICK d1 \in seen[u] : TRUE
        BY <3>3
      <4>2. Agreed(u)
        BY <2>2, <2>4 DEF Agreed
      <4>3. d1 = d \/ SameShape(d1, d)
        BY <2>2, <2>4, <4>1 DEF Agreed
      <4>4. d1 \in Database /\ d \in Database
        BY <1>1, <2>2, <4>1
      <4>5. Fact(u, d1)
        BY <4>1, <4>2 DEF FactInv
      <4> QED BY <3>1, <4>3, <4>4, <4>5, SameFact
    <3> QED BY <3>2, <3>3
  <2> QED BY <2>2, <2>3, <2>4 DEF FactInv
<1>3. Answered(t)' => seen'[t] # {}
  <2>1. CASE Start(t) \/ Boot(t) \/ Enter(t)
    <3>1. stage'[t] # "idle"
      <4>1. FirstStage(call[t]) # "idle"
        BY DEF FirstStage, RefinementInv, ListInv, StoreInv, TypeInv, TypeOK, Call
      <4>2. \A s, x : Goto(t, s, x) => stage'[t] = s
        BY DEF Goto, RefinementInv, ListInv, StoreInv, TypeInv, TypeOK
      <4> QED BY <2>1, <4>1, <4>2 DEF Start, Boot, BootBegin, BootInit, BootPublish, Enter
    <3> QED BY <3>1 DEF Answered
  <2>2. CASE ~ Start(t) /\ ~ Boot(t) /\ ~ Enter(t)
    <3>1. committed \in seen[t]
      BY <2>2, LateSteps, Met
    <3> QED BY <2>2, <3>1, SeenGrows
  <2> QED BY <2>1, <2>2
<1>4. ASSUME Agreed(t)', NEW d \in seen'[t] PROVE Fact(t, d)'
  <2>1. ASSUME seen' = seen PROVE Agreed(t) /\ d \in seen[t] /\ Fact(t, d)
    BY <1>4, <2>1 DEF Agreed, FactInv
  <2>2. CASE Convert(t) \/ Conformable(t)
    <3>1. ~ Start(t) /\ ~ BootInit(t) /\ ~ ReloadCommit(t)
      <4>1. CASE Convert(t)
        BY <4>1 DEF Convert, ConvertLookup, ConvertArg, ConvertReverse, ConvertUnit, ConvertPoints,
           ConvertFrom, ConvertSplit, ConvertTo, Evaluated, Peek, Start, BootInit, ReloadCommit
      <4>2. CASE Conformable(t)
        BY <4>2 DEF Conformable, ConformableTarget, ConformableClone, ConformableNext, ConformableName,
           ConformableReturns, Evaluated, ReadListing, Start, BootInit, ReloadCommit
      <4> QED BY <2>2, <4>1, <4>2
    <3>2. seen' = seen
      BY <3>1, SeenGrows
    <3> QED BY <2>1, <2>2, <3>2, ConvertTells, ConformableTells
  <2>3. CASE ~ Convert(t) /\ ~ Conformable(t)
    <3>1. CASE Start(t) \/ BootInit(t) \/ ReloadCommit(t)
      BY <2>3, <3>1, OthersTell
    <3>2. CASE ~ Start(t) /\ ~ BootInit(t) /\ ~ ReloadCommit(t)
      <4>1. seen' = seen
        BY <3>2, SeenGrows
      <4> QED BY <2>1, <2>3, <4>1, OthersTell
    <3> QED BY <3>1, <3>2
  <2> QED BY <2>2, <2>3
<1> QED BY <1>2, <1>3, <1>4 DEF FactInv

(* Whatever the threads do, and however long a call is interrupted by        *)
(* reloads that change rates only, it succeeds or fails as it does alone,    *)
(* and conformable finds the conformable embedded units and no others: the   *)
(* separate reads of DATABASE and DEFINITIONS that convert and conformable   *)
(* make cannot be told apart (lib.rs).                                       *)
THEOREM AnswersAgree == ASSUME UnitsStayUnits PROVE Spec => []AnswersAsIfAlone
<1>1. Init => AloneInv
  <2> SUFFICES ASSUME Init PROVE AloneInv
    OBVIOUS
  <2>1. RefinementInv
    BY ListInit, ProgressInit, PathInit DEF RefinementInv
  <2>2. NamesInv /\ UnitsInv /\ FactInv
    BY DEF Init, NamesInv, NoLocal, UnitsInv, FactInv, Answered, NoAnswer
  <2> QED BY <2>1, <2>2 DEF AloneInv
<1>2. AloneInv /\ RefinementInv' /\ [Next]_vars => AloneInv'
  <2> SUFFICES ASSUME AloneInv, RefinementInv', [Next]_vars PROVE AloneInv'
    OBVIOUS
  <2>1. CASE UNCHANGED vars
    <3>1. NamesInv' /\ UnitsInv'
      BY <2>1 DEF vars, storeVars, AloneInv, NamesInv, UnitsInv, Content
    <3>2. ASSUME NEW t \in Thread PROVE /\ Answered(t)' <=> Answered(t)
                                        /\ Agreed(t)' <=> Agreed(t)
                                        /\ \A d : Fact(t, d)' <=> Fact(t, d)
      BY <2>1 DEF vars, storeVars, Answered, Agreed, Fact, ConvertFact, ConformableFact, AnswerIn,
         Inverted, Direct, Again, Operand
    <3>3. seen' = seen
      BY <2>1 DEF vars, storeVars
    <3>4. FactInv'
      BY <3>2, <3>3 DEF AloneInv, FactInv
    <3> QED BY <3>1, <3>4 DEF AloneInv
  <2>2. ASSUME NEW t \in Thread, Start(t) \/ Step(t) PROVE AloneInv'
    <3>1. NamesInv' /\ UnitsInv'
      BY <2>2, NamesStep, UnitsStep DEF AloneInv, RefinementInv
    <3>2. FactInv'
      BY <2>2, FactStep
    <3> QED BY <3>1, <3>2 DEF AloneInv
  <2> QED BY <2>1, <2>2 DEF Next, Finished
<1>3. AloneInv => AnswersAsIfAlone
  BY DEF AloneInv, FactInv, Fact, AnswersAsIfAlone, Agreed
<1> QED BY <1>1, <1>2, <1>3, RefinementInvariant, PTL DEF Spec
=============================================================================
