---- MODULE MCContextPool ----
(* The query pool on small instances. *)
EXTENDS PoolRefinement, TLC

ThreadSymmetry == Permutations(Threads)
====
