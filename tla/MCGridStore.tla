---------------------------- MODULE MCGridStore ----------------------------
(* Instances of GridStore. *)
EXTENDS GridStore, TLC

CONSTANTS c1, c2, i1, i2

MCConcerns == { [db |-> 1, option |-> 2], [db |-> 0, option |-> 2] }
Symmetric == Permutations({c1, c2}) \cup Permutations({i1, i2})
=============================================================================
