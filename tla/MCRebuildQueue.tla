--------------------------- MODULE MCRebuildQueue ---------------------------
(* RebuildQueue on a small instance. *)
EXTENDS RebuildQueue, TLC

CONSTANTS r1, w1, w2, e1, e2
=============================================================================
