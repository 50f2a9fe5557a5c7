--------------------------- MODULE MCRunLifecycle ---------------------------
(* RunLifecycle for TLC: one client who asks once. *)
EXTENDS RunLifecycle
=============================================================================
