---------------------------- MODULE MCEmailCode ----------------------------
(* EmailCode for TLC. *)
EXTENDS EmailCode, TLC

Interchangeable == Permutations(Requester) \cup Permutations(Verifier)
=============================================================================
