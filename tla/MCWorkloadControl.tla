--------------------------- MODULE MCWorkloadControl ---------------------------
(* Small instances of WorkloadControl. *)
EXTENDS WorkloadControl
=============================================================================
