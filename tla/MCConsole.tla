----------------------------- MODULE MCConsole -----------------------------
(***************************************************************************)
(* An instance of Console for TLC: two users whose names and passwords are *)
(* each other's, one of them as long as the array that is read into.       *)
(***************************************************************************)
EXTENDS Console

MCNewUsers ==
  { [name |-> <<"usr">>, password |-> <<"usr", "usr">>],
    [name |-> <<"usr", "usr">>, password |-> <<"usr">>] }
=============================================================================
