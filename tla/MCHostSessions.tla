----------------------------- MODULE MCHostSessions -----------------------------
(* Small instances of HostSessions. *)
EXTENDS HostSessions
=============================================================================
