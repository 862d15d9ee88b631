--------------------------- MODULE MCNativeBuild ---------------------------
(* NativeBuild on a small instance: one run and two plans, three attempts. *)
EXTENDS NativeBuild, TLC

CONSTANTS r1, p1, p2

(* The digests of the two plans are interchangeable. *)
MCSymmetry == Permutations({p1, p2})
=============================================================================
