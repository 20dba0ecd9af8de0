----------------------------- MODULE MCFfiLocks ------------------------------
(***************************************************************************)
(* Three threads with two calls each, the first use of the library among   *)
(* them: one evaluates, one reloads either of two files, one does either   *)
(* and works on units of its own.                                          *)
(***************************************************************************)
EXTENDS FfiLocks

SomeFiles == [definitions |-> <<"a", "b">>, rates |-> <<"a", "b">>, old_rates |-> <<"b", "a">>]
SomeCalls == [t \in Thread |-> CASE t = "evaluates" -> {"parse", "convert"}
                                 [] t = "reloads" -> {"rates", "old_rates"}
                                 [] t = "both" -> {"rates", "locked", "private"}]
=============================================================================
