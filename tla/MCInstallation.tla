---------------------------- MODULE MCInstallation ----------------------------
(* A small instance of Installation.                                         *)
EXTENDS Installation

CONSTANTS v1, v2
=============================================================================
