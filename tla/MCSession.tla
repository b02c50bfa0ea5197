----------------------------- MODULE MCSession -----------------------------
(* Session for TLC. *)
EXTENDS Session, TLC

Interchangeable ==
    Permutations(Requester) \cup Permutations(Verifier) \cup Permutations(Visitor)
=============================================================================
