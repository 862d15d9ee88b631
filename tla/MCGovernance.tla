---------------------------- MODULE MCGovernance ----------------------------
(* Governance on a small instance. *)
EXTENDS Governance, TLC

(* Processes, artifacts and people are each interchangeable. *)
MCSymmetry == Permutations(Procs) \cup Permutations(Artifacts) \cup Permutations(People)
=============================================================================
