-------------------------- MODULE MCSupervisorBinding --------------------------
(* Small instances of SupervisorBinding. *)
EXTENDS SupervisorBinding
=============================================================================
