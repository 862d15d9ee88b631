-------------------------- MODULE MCDistribution --------------------------
(* Distribution on small instances: a copy and a share of one image, or a  *)
(* copy of each of two images.                                             *)
EXTENDS Distribution, TLC

CONSTANTS r1, w1, w2, d1, c1, self, other

CopyAndShare ==
    {[mode |-> "sync",  art |-> 1, account |-> self,  region |-> r1],
     [mode |-> "share", art |-> 1, account |-> other, region |-> r1]}

TwoImages == {[mode |-> "sync", art |-> a, account |-> self, region |-> r1] : a \in {1, 2}}
=============================================================================
