----------------------------- MODULE Definitions -----------------------------
(***************************************************************************)
(* The two products of loading a definitions file: entries in the native   *)
(* unit database and Definition values in the public listing (definitions  *)
(* .rs, database.rs, lib.rs).                                              *)
(*                                                                         *)
(* A file is a sequence of lines [name, kind, def] whose directives have   *)
(* been processed.  The content of a definition is opaque; Canon gives the *)
(* canonical name of a listed one (`f(x)` and `f(y)` are both `f`), and    *)
(* Malformed are the function and table definitions the database rejects   *)
(* although they are listed.                                               *)
(***************************************************************************)
EXTENDS Integers, Sequences

CONSTANTS Name, FullName, Def, Malformed, Canon, Absent

ASSUME DefinitionsAssumption ==
  /\ Malformed \subseteq Def
  /\ Canon \in [FullName -> Name]
  /\ Absent \notin Def

DbKind == {"Unit", "Prefix", "Function", "Table"}
DefinitionKind == DbKind \cup {"Alias"}

Line == [name : FullName, kind : DefinitionKind, def : Def]

-----------------------------------------------------------------------------
\* The database: four maps from bare names to definitions.
Key == DbKind \X Name
Database == [Key -> Def \cup {Absent}]
EmptyDatabase == [k \in Key |-> Absent]

KeyOf(l) == <<l.kind, Canon[l.name]>>

\* A !unitlist alias never reaches the database; a function or table whose
\* text does not parse leaves the old entry, if any, in place.
Inserts(l) == l.kind # "Alias" /\ ~(l.kind \in {"Function", "Table"} /\ l.def \in Malformed)

\* Variant: the unit lists are inserted like everything else.
InsertAlias(db, l) == [k \in Key \cup {KeyOf(l)} |-> IF k = KeyOf(l) THEN l.def ELSE db[k]]

InsertLine(db, l) == IF Inserts(l) THEN [db EXCEPT ![KeyOf(l)] = l.def] ELSE db

\* Inserting every line of a file in order: for each key the last line wins.
LoadAll(db, content) ==
  [k \in Key |->
     LET hits == {i \in DOMAIN content : Inserts(content[i]) /\ KeyOf(content[i]) = k}
     IN  IF hits = {} THEN db[k]
         ELSE content[CHOOSE i \in hits : \A j \in hits : j <= i].def]

-----------------------------------------------------------------------------
\* The listing, a vector sorted by full name: for each full name and kind the
\* definitions it holds.  (Equal copies count once; their order is left out.)
Slot == FullName \X DefinitionKind
Listing == [Slot -> SUBSET Def]
EmptyListing == [s \in Slot |-> {}]

SlotOf(l) == <<l.name, l.kind>>
Matching(content, s) ==
  {content[i].def : i \in {i \in DOMAIN content : SlotOf(content[i]) = s}}

\* reverse, sort, dedup, sort: of the lines that share canonical name and kind
\* the last one survives.
Survives(content, i) ==
  ~ \E j \in DOMAIN content : /\ j > i
                              /\ content[j].kind = content[i].kind
                              /\ Canon[content[j].name] = Canon[content[i].name]

InitialListing(content) ==
  [s \in Slot |-> {content[i].def : i \in {i \in DOMAIN content :
                                            SlotOf(content[i]) = s /\ Survives(content, i)}}]

\* Variant: nothing is removed.
RetainedAll(list, content) == list

\* retain: a plain unit is dropped when the new file defines its full name.
Retained(list, content) ==
  [s \in Slot |-> IF s[2] = "Unit" /\ \E i \in DOMAIN content : content[i].name = s[1]
                  THEN {} ELSE list[s]]

\* extend, then sort by name.
Extended(list, content) == [s \in Slot |-> list[s] \cup Matching(content, s)]

ReloadListing(list, content) == Extended(Retained(list, content), content)
==============================================================================
