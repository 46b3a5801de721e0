---- MODULE MCProofClient ----
(***************************************************************************)
(* Two tasks and three calls: polls, a cancellation and tactics of a       *)
(* session both tasks know, and submissions.                               *)
(***************************************************************************)
EXTENDS ProofClient, TLC

CONSTANTS t1, t2

MCAsked(request) ==
  request \in {submit_proof("coq"), get_proof(1), cancel_proof(1), apply_tactic(1)}

TaskSymmetry == Permutations({t1, t2})
====
