------------------------------- MODULE MCDbkv -------------------------------
(* Dbkv for TLC; the configurations give every constant a small set.       *)
(* Instances and write requests are interchangeable: the safety run counts *)
(* states up to their permutations.                                        *)
EXTENDS Dbkv, TLC

Permutable == Permutations(Instance) \cup Permutations(Session)
=============================================================================
