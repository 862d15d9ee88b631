-------------------------- MODULE MCReleaseControl --------------------------
(* ReleaseControl on a small instance. *)
EXTENDS ReleaseControl, TLC

CONSTANTS p1, p2, a1, a2, o1

(* Processes and artifacts are each interchangeable. *)
MCSymmetry == Permutations({p1, p2}) \cup Permutations({a1, a2})
=============================================================================
