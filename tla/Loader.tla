------------------------------- MODULE Loader --------------------------------
(***************************************************************************)
(* load_core of definitions.rs (native engine): the lines of a file, after *)
(* continuations are joined and comments are cut, and which of them count. *)
(* Directives switch the flags wrong_locale and wrong_var, !set defines    *)
(* variables that !var and !varnot ask for, !include reads another file    *)
(* with flags of its own.                                                  *)
(*                                                                         *)
(* The text is arbitrary: each step reads any line of Lines, or the end of *)
(* the file.  blocks and values are no variables of the program.  They     *)
(* record, for the properties, the conditional blocks that are open and    *)
(* the environment as the text means them.                                 *)
(***************************************************************************)
EXTENDS Definitions

CONSTANTS Lines,       \* records [d, name, kind, def, var, vals]
          Variables, VariableValues, Unset,
          Environments, \* of the process: [Variables -> VariableValues \cup {Unset}]
          MaxLines, MaxIncludes

\* A line is one of the directives or a definition: a conditional names a variable, !set
\* gives it a value, and Unset is no value.
LoaderAssumption ==
  /\ Unset \notin VariableValues
  /\ Environments \subseteq [Variables -> VariableValues \cup {Unset}]
  /\ \A l \in Lines :
       /\ l.d \in {"var", "varnot", "set"} => l.var \in Variables
       /\ l.d = "set" => l.vals # {} /\ l.vals \subseteq VariableValues
       /\ l.d \in {"definition", "unitlist"} => l.name \in FullName /\ l.kind \in DefinitionKind /\ l.def \in Def
       /\ l.d = "unitlist" => l.kind = "Alias"

VARIABLES process,     \* the environment of the process
          env,         \* the map that !set fills
          frames,      \* the files being read, the innermost last: [wrongLocale, wrongVar]
          db, listed,  \* what has been inserted and what has been pushed to results
          read,        \* number of lines read
          blocks, values, effective, plain
vars == <<process, env, frames, db, listed, read, blocks, values, effective, plain>>

Last(s) == s[Len(s)]
Front(s) == SubSeq(s, 1, Len(s) - 1)
ReplaceLast(s, x) == [s EXCEPT ![Len(s)] = x]

-----------------------------------------------------------------------------
\* lookup_var: what !set defined, else the environment of the process.
LookupVar(v) == IF env[v] # Unset THEN env[v] ELSE process[v]

Top == Last(frames)
Skips(f) == f.wrongLocale \/ f.wrongVar

Opened == [wrongLocale |-> FALSE, wrongVar |-> FALSE]

Init ==
  /\ process \in Environments
  /\ env = [v \in Variables |-> Unset]
  /\ frames = <<Opened>> /\ db = EmptyDatabase /\ listed = <<>> /\ read = 0
  /\ blocks = <<<<>>>> /\ values = process /\ effective = <<>> /\ plain = TRUE

\* What the lines mean: a line counts if every block it is in holds.
Counts == \A i \in DOMAIN blocks : \A j \in DOMAIN blocks[i] : blocks[i][j].holds
Begins(sort, holds) ==
  /\ blocks' = ReplaceLast(blocks, Append(Last(blocks), [sort |-> sort, holds |-> holds]))
  /\ plain' = (plain /\ \A j \in DOMAIN Last(blocks) : Last(blocks)[j].sort # sort)
Ends(sort) ==
  LET open == {j \in DOMAIN Last(blocks) : Last(blocks)[j].sort = sort}
      last == CHOOSE j \in open : \A k \in open : k <= j
  IN  blocks' = IF open = {} THEN blocks
                ELSE ReplaceLast(blocks, SubSeq(Last(blocks), 1, last - 1) \o SubSeq(Last(blocks), last + 1, Len(Last(blocks))))

Reads(l, d) == l.d = d /\ read < MaxLines /\ read' = read + 1 /\ UNCHANGED process
NothingLoaded == UNCHANGED <<env, db, listed, values, effective>>

Locale(l) ==
  /\ Reads(l, "locale")
  /\ frames' = ReplaceLast(frames, [Top EXCEPT !.wrongLocale = l.name # "en_US"])
  /\ Begins("locale", l.name = "en_US") /\ NothingLoaded

\* Variant: the end of a locale ends a block of !var with it.
EndLocaleAndVar(l) ==
  /\ Reads(l, "endlocale")
  /\ frames' = ReplaceLast(frames, Opened)
  /\ Ends("locale") /\ NothingLoaded /\ UNCHANGED plain

EndLocale(l) ==
  /\ Reads(l, "endlocale")
  /\ frames' = ReplaceLast(frames, [Top EXCEPT !.wrongLocale = FALSE])
  /\ Ends("locale") /\ NothingLoaded /\ UNCHANGED plain

\* The native engine's UTF8MODE is 1: the flag in_utf8 has no effect.
Utf8(l) ==
  /\ Reads(l, "utf8")
  /\ UNCHANGED <<frames, blocks, plain>> /\ NothingLoaded

\* Without a value both !var and !varnot skip what follows.
Var(l) ==
  LET v == LookupVar(l.var) IN
  /\ Reads(l, "var")
  /\ frames' = ReplaceLast(frames, [Top EXCEPT !.wrongVar = v = Unset \/ v \notin l.vals])
  /\ Begins("var", values[l.var] # Unset /\ values[l.var] \in l.vals) /\ NothingLoaded

VarNot(l) ==
  LET v == LookupVar(l.var) IN
  /\ Reads(l, "varnot")
  /\ frames' = ReplaceLast(frames, [Top EXCEPT !.wrongVar = v = Unset \/ v \in l.vals])
  /\ Begins("var", values[l.var] # Unset /\ values[l.var] \notin l.vals) /\ NothingLoaded

EndVar(l) ==
  /\ Reads(l, "endvar")
  /\ frames' = ReplaceLast(frames, [Top EXCEPT !.wrongVar = FALSE])
  /\ Ends("var") /\ NothingLoaded /\ UNCHANGED plain

Set(l) ==
  /\ Reads(l, "set")
  /\ env' = IF ~Skips(Top) /\ LookupVar(l.var) = Unset THEN [env EXCEPT ![l.var] = CHOOSE x \in l.vals : TRUE] ELSE env
  /\ values' = IF Counts /\ values[l.var] = Unset THEN [values EXCEPT ![l.var] = CHOOSE x \in l.vals : TRUE] ELSE values
  /\ UNCHANGED <<frames, db, listed, effective, blocks, plain>>

Entry(l) == [name |-> l.name, kind |-> l.kind, def |-> l.def]
Effect(l) == effective' = IF Counts THEN Append(effective, Entry(l)) ELSE effective

\* A unit list is listed and never inserted.
UnitList(l) ==
  /\ Reads(l, "unitlist") /\ Effect(l)
  /\ listed' = IF Skips(Top) THEN listed ELSE Append(listed, Entry(l))
  /\ UNCHANGED <<frames, env, db, blocks, values, plain>>

Definition(l) ==
  /\ Reads(l, "definition") /\ Effect(l)
  /\ listed' = IF Skips(Top) THEN listed ELSE Append(listed, Entry(l))
  /\ db' = IF Skips(Top) THEN db ELSE InsertLine(db, Entry(l))
  /\ UNCHANGED <<frames, env, blocks, values, plain>>

\* An included file shares env and db with the file that includes it, not the flags.
Include(l) ==
  /\ Reads(l, "include") /\ Len(frames) <= MaxIncludes
  /\ IF Skips(Top) THEN UNCHANGED <<frames, blocks>>
     ELSE frames' = Append(frames, Opened) /\ blocks' = Append(blocks, <<>>)
  /\ NothingLoaded /\ UNCHANGED plain

\* Variant: the file that includes goes on with the flags of the included one.
EndOfFileKeeping ==
  /\ Len(frames) > 1
  /\ frames' = ReplaceLast(Front(frames), Top) /\ blocks' = Front(blocks)
  /\ NothingLoaded /\ UNCHANGED <<process, read, plain>>

EndOfFile ==
  /\ Len(frames) > 1
  /\ frames' = Front(frames) /\ blocks' = Front(blocks)
  /\ NothingLoaded /\ UNCHANGED <<process, read, plain>>

Done == Len(frames) = 1 /\ UNCHANGED vars

Next ==
  \/ \E l \in Lines : \/ Locale(l) \/ EndLocale(l) \/ Utf8(l) \/ Var(l) \/ VarNot(l) \/ EndVar(l)
                      \/ Set(l) \/ UnitList(l) \/ Definition(l) \/ Include(l)
  \/ EndOfFile \/ Done
Spec == Init /\ [][Next]_vars

-----------------------------------------------------------------------------
\* While no block is opened inside one of its own sort, exactly the lines whose enclosing
\* blocks all hold are loaded (load_core), in files that are included as well: the flags
\* do the work of a stack.  (The end of an inner block of the same sort ends the outer one.)
LoadsWhatCounts == plain => listed = effective

\* The database holds what loading those lines in order makes of it, and a variable has
\* the value it got first, from the process or from a line that counts.
DatabaseMatches == plain => db = LoadAll(EmptyDatabase, effective) /\ \A v \in Variables : LookupVar(v) = values[v]
=============================================================================
