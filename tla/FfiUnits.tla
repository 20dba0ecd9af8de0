------------------------------ MODULE FfiUnits -------------------------------
(***************************************************************************)
(* Units of the vendored engine own strings on the heap of the C library.  *)
(* The wrappers of ffi.rs copy, move and free them around C calls that may *)
(* fail half way, and the methods of Unit (lib.rs) consume or borrow their *)
(* operands.  Which C function moves or frees what is taken from the       *)
(* comments at its call; those functions are external.                     *)
(*                                                                         *)
(* A method is a script of steps.  One that can fail has the steps that    *)
(* are taken then.  A string stands for any number of C strings.           *)
(***************************************************************************)
EXTENDS Integers, Sequences, FiniteSetsExt

CONSTANTS Strings,   \* addresses of strings
          MaxHeld    \* strings a unit holds at most

\* There is an address for every string that the slots of a method can hold.
StringsAssumption == IsFiniteSet(Strings) /\ MaxHeld \in Nat /\ Cardinality(Strings) >= 4 * MaxHeld

VARIABLES heap,     \* strings that are allocated
          holds,    \* Slot -> the strings its numerator and denominator point to
          owned,    \* the slots of the caller that hold a Unit
          script
vars == <<heap, holds, owned, script>>

Callers == {"self", "rhs"}
Slot == Callers \cup {"copy", "ratio"}

-----------------------------------------------------------------------------
\* Scripts.  unit_new allocates nothing.
Does(do, on, with) == [do |-> do, on |-> on, with |-> with, otherwise |-> <<>>]
Tries(do, on, with, otherwise) == [do |-> do, on |-> on, with |-> with, otherwise |-> otherwise]

CloneInto(dest, src) == <<Does("copy", dest, src)>>
Free(s) == <<Does("free", s, s)>>
Leave(s) == <<Does("leave", s, s)>>     \* Drop for Unit, at the end of its scope

\* Variant: the copy is not freed after a failure.
ProductLeaking(do, lhs, rhs, next, otherwise) ==
  CloneInto("copy", rhs) \o <<Tries(do, lhs, "copy", otherwise)>> \o Free("copy") \o next

\* unit_multiply, unit_divide, unit_add: rhs is cloned, the copy freed either way.
Product(do, lhs, rhs, next, otherwise) ==
  CloneInto("copy", rhs) \o <<Tries(do, lhs, "copy", Free("copy") \o otherwise)>> \o Free("copy") \o next

\* unit_to_number works on a clone, which is freed either way.
ToNumberOf(s, next) ==
  CloneInto("copy", s) \o <<Tries("unit2num", "copy", "copy", Free("copy") \o next)>> \o Free("copy") \o next

Multiply == Product("multunit", "self", "rhs", Leave("rhs"), Leave("rhs"))
Add == Product("addunit", "self", "rhs", Leave("rhs"), Leave("rhs"))
ConvertTo == Product("multunit", "self", "rhs", Leave("rhs") \o ToNumberOf("self", Leave("self")),
                     Leave("rhs") \o Leave("self"))
IsConformable == CloneInto("ratio", "self")
                 \o Product("multunit", "ratio", "rhs", ToNumberOf("ratio", Free("ratio")), Free("ratio"))
Change == <<Tries("change", "self", "self", <<>>)>>   \* invertunit, expunit, rootunit

\* parseunit, evalfunc and completereduce one after the other, freed whatever fails.
ConvertFunc == LET try(do) == Tries(do, "copy", "copy", Free("copy")) IN
               <<try("change"), try("change"), try("change")>> \o Free("copy")

-----------------------------------------------------------------------------
Init == heap = {} /\ holds = [s \in Slot |-> {}] /\ owned = {} /\ script = <<>>

Idle == script = <<>>
Calls(steps, needs) == Idle /\ needs \subseteq owned /\ script' = steps /\ UNCHANGED <<heap, holds, owned>>

\* unit_parse and Unit::new: a unit only if the parse succeeds.
ParseInto(s) ==
  /\ Idle /\ s \notin owned /\ owned' = owned \cup {s}
  /\ script' = <<Tries("change", s, s, Leave(s))>>
  /\ UNCHANGED <<heap, holds>>

CloneOf(s, t) == Idle /\ s \in owned /\ t \notin owned /\ owned' = owned \cup {t}
                 /\ script' = CloneInto(t, s) /\ UNCHANGED <<heap, holds>>

Now == Head(script)
Next_(then) == script' = then
Succeeds == Next_(Tail(script))
Fails == Next_(Now.otherwise)
Runs(do) == ~Idle /\ Now.do = do

\* n strings that are not in use, the same ones whenever the choice is the same.
Fresh(n) == CHOOSE f \in kSubset(n, Strings \ heap) : TRUE

\* Variant: the copy has the pointers of the original.
CopySharing == /\ Runs("copy") /\ Succeeds
               /\ holds' = [holds EXCEPT ![Now.on] = holds[Now.with]]
               /\ UNCHANGED <<heap, owned>>

\* unitcopy.
Copy == /\ Runs("copy") /\ Succeeds
        /\ LET new == Fresh(Cardinality(holds[Now.with])) IN
           heap' = heap \cup new /\ holds' = [holds EXCEPT ![Now.on] = new]
        /\ UNCHANGED owned

\* freeunit: it also clears the pointers, so it may be called again.
FreeStep == /\ Runs("free") /\ Succeeds
            /\ heap' = heap \ holds[Now.on] /\ holds' = [holds EXCEPT ![Now.on] = {}]
            /\ UNCHANGED owned

LeaveStep == /\ Runs("leave") /\ Succeeds
             /\ heap' = heap \ holds[Now.on] /\ holds' = [holds EXCEPT ![Now.on] = {}]
             /\ owned' = owned \ {Now.on}

\* multunit, divunit: strings move, all of them unless lhs is full.
Move ==
  /\ Runs("multunit") /\ UNCHANGED <<heap, owned>>
  /\ \E moved \in SUBSET holds[Now.with] :
       /\ Cardinality(holds[Now.on] \cup moved) <= MaxHeld
       /\ holds' = [holds EXCEPT ![Now.on] = @ \cup moved, ![Now.with] = @ \ moved]
       /\ IF moved = holds[Now.with] THEN Succeeds ELSE Fails

\* A function that reduces a unit, or parses into it: it frees some strings of the unit and
\* allocates others, whether it succeeds or not.
Reduced(s) == {r \in (SUBSET holds[s]) \X (0 .. 1) :
                Cardinality(r[1]) + r[2] <= MaxHeld /\ r[2] <= Cardinality(Strings \ heap)}
Alter(s, r) == /\ heap' = (heap \ (holds[s] \ r[1])) \cup Fresh(r[2])
               /\ holds' = [holds EXCEPT ![s] = r[1] \cup Fresh(r[2])]

ChangeStep == /\ Runs("change") /\ (Succeeds \/ Fails) /\ UNCHANGED owned
              /\ \E r \in Reduced(Now.on) : Alter(Now.on, r)

\* unit2num reduces the unit and frees it on success.
Unit2Num ==
  /\ Runs("unit2num") /\ UNCHANGED owned
  /\ \/ Fails /\ \E r \in Reduced(Now.on) : Alter(Now.on, r)
     \/ Succeeds /\ heap' = heap \ holds[Now.on] /\ holds' = [holds EXCEPT ![Now.on] = {}]

\* addunit reduces both, one and then the other, and after that it fails or frees the second.
AddUnit ==
  /\ Runs("addunit") /\ UNCHANGED owned
  /\ \/ UNCHANGED script /\ \E s \in {Now.on, Now.with} : \E r \in Reduced(s) : Alter(s, r)
     \/ Fails /\ UNCHANGED <<heap, holds>>
     \/ Succeeds /\ heap' = heap \ holds[Now.with] /\ holds' = [holds EXCEPT ![Now.with] = {}]

Next ==
  \/ \E s \in Callers : ParseInto(s) \/ Calls(Leave(s), {s}) \/ \E t \in Callers : CloneOf(s, t)
  \/ Calls(Multiply, Callers) \/ Calls(Add, Callers) \/ Calls(ConvertTo, Callers) \/ Calls(IsConformable, Callers)
  \/ Calls(ToNumberOf("self", <<>>), {"self"}) \/ Calls(Change, {"self"}) \/ Calls(ConvertFunc, {})
  \/ Copy \/ FreeStep \/ LeaveStep \/ Move \/ ChangeStep \/ Unit2Num \/ AddUnit
Spec == Init /\ [][Next]_vars

-----------------------------------------------------------------------------
\* No string is freed while a unit points to it, and none has two owners, at any step of
\* any sequence of calls, those that fail half way included: nothing is freed twice (the
\* clones made before C functions that move or free).
OwnershipHolds ==
  /\ \A s \in Slot : holds[s] \subseteq heap
  /\ \A s, t \in Slot : s # t => holds[s] \cap holds[t] = {}

\* Between calls every string that is allocated belongs to a unit the caller has.
NothingLeaks == Idle => heap = UNION {holds[s] : s \in owned}
=============================================================================
