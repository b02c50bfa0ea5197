------------------------------ MODULE MCUsers ------------------------------
(* Users for TLC. *)
EXTENDS Users
=============================================================================
