---------------------------- MODULE MCRunRegistry ----------------------------
(* An instance of RunRegistry for TLC: every client belongs to its own user,  *)
(* except that two clients share one.                                         *)
EXTENDS RunRegistry

MCUserOf == [c \in Clients |-> IF c = "c3" THEN "u2" ELSE "u1"]
=============================================================================
