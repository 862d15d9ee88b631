--------------------------- MODULE MCRunLifecycle ---------------------------
(* RunLifecycle on a small instance. *)
EXTENDS RunLifecycle

CONSTANTS p1, p2, j1
=============================================================================
