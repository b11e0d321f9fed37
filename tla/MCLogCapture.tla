----------------------------- MODULE MCLogCapture -----------------------------
(* A small instance of LogCapture. *)
EXTENDS LogCapture
=============================================================================
