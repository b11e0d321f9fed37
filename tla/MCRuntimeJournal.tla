--------------------------- MODULE MCRuntimeJournal ---------------------------
(* A small instance of RuntimeJournal.                                       *)
EXTENDS RuntimeJournal
=============================================================================
