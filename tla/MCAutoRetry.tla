---------------------------- MODULE MCAutoRetry -----------------------------
(* AutoRetry for TLC. *)
EXTENDS AutoRetry
=============================================================================
