--------------------------- MODULE ObservationLog ---------------------------
(***************************************************************************)
(* What the supervisor link promises the controller, with every process,   *)
(* connection and crash left out: the observations a supervisor records    *)
(* form one append-only log, and the controller applies that log from its  *)
(* first entry, in order, each entry once.                                 *)
(***************************************************************************)
EXTENDS Naturals, Sequences

CONSTANT Kinds          \* the observation kinds a supervisor can record

VARIABLES log,          \* every observation recorded so far
          delivered     \* the observations the controller has applied

logVars == <<log, delivered>>

LogInit ==
    /\ log = <<>>
    /\ delivered = <<>>

\* The supervisor records an observation.
Record ==
    /\ \E k \in Kinds : log' = Append(log, k)
    /\ UNCHANGED delivered

\* The controller applies the first observation it has not applied yet.
Deliver ==
    /\ Len(delivered) < Len(log)
    /\ delivered' = Append(delivered, log[Len(delivered) + 1])
    /\ UNCHANGED log

LogNext == Record \/ Deliver

LogSpec == LogInit /\ [][LogNext]_logVars
=============================================================================
