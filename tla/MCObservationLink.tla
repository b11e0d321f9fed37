------------------------- MODULE MCObservationLink -------------------------
(* Model values for ObservationLink. *)
EXTENDS ObservationLink

MCKinds == {"attempt-started", "completed"}
MCTerminalKinds == {"completed"}
=============================================================================
