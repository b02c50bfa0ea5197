--------------------------- MODULE MCCacheHelper ---------------------------
(* CacheHelper for TLC: two instances, both readers on one of them.  The   *)
(* lifetimes keep the order of the real ones (5 s < 15 s < 60 s < 1800 s)  *)
(* but for the first two: a touch that leaves an entry more than a second  *)
(* is needed to prolong one.                                               *)
EXTENDS CacheHelper, TLC

CONSTANTS i1, i2, r1, r2, w1, w2

Placement == (r1 :> i2) @@ (r2 :> i2) @@ (w1 :> i1) @@ (w2 :> i2)
=============================================================================
