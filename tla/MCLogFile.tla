----------------------------- MODULE MCLogFile -----------------------------
(* LogFile for TLC. *)
EXTENDS LogFile
=============================================================================
