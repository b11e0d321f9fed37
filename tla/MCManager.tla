------------------------------ MODULE MCManager ------------------------------
(* Small instances of Manager for TLC: the constants are set by the .cfg.   *)
EXTENDS Manager
=============================================================================
