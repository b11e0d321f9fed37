--------------------------- MODULE SupervisorBinding ---------------------------
(***************************************************************************)
(* The binding of an execution to the process that supervises it           *)
(* (domain/src/supervisor_binding.rs): which incarnation of the supervisor *)
(* is expected, how many have failed, and what to do about it.  Around it  *)
(* stand the controller, which carries out the effects and may crash, and  *)
(* the supervisor processes.                                               *)
(*                                                                         *)
(* Events are unordered, may be late and may arrive twice.  Nothing        *)
(* disarms a timer: the handshake and discovery deadlines come as failures *)
(* of their process, whatever has happened to it since.                    *)
(*                                                                         *)
(* Abstractions.  The supervisor identity is constant: a process is its    *)
(* incarnation, and a deadline is named by the incarnation it is for.  The *)
(* kind of a failure and the observation sequence decide nothing here.     *)
(* Counters and deadlines do not overflow.                                 *)
(***************************************************************************)
EXTENDS Naturals, FiniteSets

CONSTANTS MaxFailures,   \* max_failures of SupervisorLaunchPolicy
          MaxRestarts,   \* bound: controller crashes
          MaxResends     \* bound: events delivered twice

ASSUME BindingAssumption ==
    MaxFailures \in Nat \ {0} /\ MaxRestarts \in Nat /\ MaxResends \in Nat

VARIABLES
  \* SupervisorBinding.
  binding,      \* its variant, "none" once the binding is gone
  inc,          \* incarnation of process or next_process
  failures,
  \* The controller and the supervisors.
  events,       \* events on their way to transition
  launches,     \* incarnations of LaunchSupervisor effects
  deadlines,    \* armed deadlines
  supervisors,  \* incarnations that are alive
  over,         \* the execution is terminal
  \* History.
  faulted,      \* incarnations that failed: died, were missing or too late
  unavailable,  \* ReportSupervisorUnavailable was emitted
  restarts, resends

supervisorVars == <<launches, supervisors, over>>
bindingVars == <<binding, inc, failures, events, launches, deadlines, supervisors, over,
                 faulted, unavailable, restarts, resends>>

Incs == 1..MaxFailures
BindingEvent == [type : {"discovery_attached", "launch_succeeded", "handshake_accepted",
                         "failed", "retry_deadline", "terminated"},
                 inc : Incs]
Deadline == [for : {"discovery", "handshake", "retry"}, inc : Incs]

\* One type invariant; no incarnation beyond the budget is ever named.
BindingTypeOK ==
    /\ binding \in {"discovering", "pending", "awaiting", "attached", "backoff", "none"}
    /\ inc \in Incs /\ failures \in 0..MaxFailures
    /\ events \subseteq BindingEvent /\ launches \subseteq Incs /\ deadlines \subseteq Deadline
    /\ supervisors \subseteq Incs /\ over \in BOOLEAN
    /\ faulted \subseteq Incs /\ unavailable \in BOOLEAN
    /\ restarts \in Nat /\ resends \in Nat

\* A new execution: the first incarnation is to be launched.
BindingInit ==
    /\ binding = "pending" /\ inc = 1 /\ failures = 0
    /\ events = {} /\ launches = {1} /\ deadlines = {} /\ supervisors = {} /\ over = FALSE
    /\ faulted = {} /\ unavailable = FALSE
    /\ restarts = 0 /\ resends = 0

BindingMessage(type, n) == [type |-> type, inc |-> n]

-----------------------------------------------------------------------------
(* transition.  An event may arrive again. *)

BindingTake(e) ==
    /\ e \in events
    /\ \/ events' = events \ {e} /\ UNCHANGED resends
       \/ events' = events /\ resends < MaxResends /\ resends' = resends + 1
    /\ UNCHANGED restarts

MutAnyProcess(e) == TRUE

\* The event is about the expected process; otherwise StaleProcess.
CurrentProcess(e) == e.inc = inc

DiscoveryAttached(e) ==
    /\ e.type = "discovery_attached" /\ BindingTake(e)
    /\ binding = "discovering" /\ CurrentProcess(e) /\ binding' = "attached"
    /\ UNCHANGED <<inc, failures, deadlines, faulted, unavailable>> /\ UNCHANGED supervisorVars

SupervisorLaunchSucceeded(e) ==
    /\ e.type = "launch_succeeded" /\ BindingTake(e)
    /\ binding = "pending" /\ CurrentProcess(e) /\ binding' = "awaiting"
    /\ deadlines' = deadlines \cup {[for |-> "handshake", inc |-> inc]}
    /\ UNCHANGED <<inc, failures, faulted, unavailable>> /\ UNCHANGED supervisorVars

HandshakeAccepted(e) ==
    /\ e.type = "handshake_accepted" /\ BindingTake(e)
    /\ binding = "awaiting" /\ CurrentProcess(e) /\ binding' = "attached"
    /\ UNCHANGED <<inc, failures, deadlines, faulted, unavailable>> /\ UNCHANGED supervisorVars

\* permits_retry_after
PermitsRetryAfter(count) == count < MaxFailures

MutBackoffWithoutDeadline(e) ==
    /\ e.type = "failed" /\ BindingTake(e)
    /\ binding \notin {"backoff", "none"} /\ CurrentProcess(e)
    /\ failures' = failures + 1
    /\ IF PermitsRetryAfter(failures + 1)
         THEN binding' = "backoff" /\ inc' = inc + 1 /\ UNCHANGED unavailable
         ELSE binding' = "none" /\ unavailable' = TRUE /\ UNCHANGED inc
    /\ UNCHANGED <<deadlines, faulted>> /\ UNCHANGED supervisorVars

\* process_failed
ProcessFailed(e) ==
    /\ e.type = "failed" /\ BindingTake(e)
    /\ binding \notin {"backoff", "none"} /\ CurrentProcess(e)
    /\ failures' = failures + 1
    /\ IF PermitsRetryAfter(failures + 1)
         THEN /\ binding' = "backoff" /\ inc' = inc + 1
              /\ deadlines' = deadlines \cup {[for |-> "retry", inc |-> inc + 1]}
              /\ UNCHANGED unavailable
         ELSE binding' = "none" /\ unavailable' = TRUE /\ UNCHANGED <<inc, deadlines>>
    /\ UNCHANGED faulted /\ UNCHANGED supervisorVars

RetryDeadlineReached(e) ==
    /\ e.type = "retry_deadline" /\ BindingTake(e)
    /\ binding = "backoff" /\ CurrentProcess(e) /\ binding' = "pending"
    /\ launches' = launches \cup {inc}
    /\ UNCHANGED <<inc, failures, deadlines, supervisors, over, faulted, unavailable>>

\* terminate: a process that may be connected is asked to shut down.
Terminate(e) ==
    /\ e.type = "terminated" /\ BindingTake(e)
    /\ binding # "none" /\ binding' = "none"
    /\ \/ binding \in {"discovering", "awaiting", "attached"} /\ supervisors' = supervisors \ {inc}
       \/ binding \in {"pending", "backoff"} /\ UNCHANGED supervisors
    /\ UNCHANGED <<inc, failures, launches, deadlines, over, faulted, unavailable>>

\* The events that change the binding.
BindingAccepted(e) ==
    /\ binding # "none"
    /\ \/ e.type = "terminated"
       \/ /\ CurrentProcess(e)
          /\ \/ e.type = "discovery_attached" /\ binding = "discovering"
             \/ e.type = "launch_succeeded" /\ binding = "pending"
             \/ e.type = "handshake_accepted" /\ binding = "awaiting"
             \/ e.type = "failed" /\ binding # "backoff"
             \/ e.type = "retry_deadline" /\ binding = "backoff"

BindingRejected(e) ==
    /\ e \in events /\ ~BindingAccepted(e) /\ events' = events \ {e}
    /\ UNCHANGED <<binding, inc, failures, deadlines, faulted, unavailable, restarts, resends>>
    /\ UNCHANGED supervisorVars

-----------------------------------------------------------------------------
(* The controller and the supervisors. *)

BindingPost(e) == events' = events \cup {e}

\* LaunchSupervisor is carried out.
Create(n) ==
    /\ n \in launches /\ launches' = launches \ {n}
    /\ \/ /\ supervisors' = supervisors \cup {n}
          /\ BindingPost(BindingMessage("launch_succeeded", n)) /\ UNCHANGED faulted
       \/ /\ BindingPost(BindingMessage("failed", n)) /\ faulted' = faulted \cup {n}
          /\ UNCHANGED supervisors
    /\ UNCHANGED <<binding, inc, failures, deadlines, over, unavailable, restarts, resends>>

\* A supervisor connects: an answer to a launch or to the discovery.
Connect(n) ==
    /\ n \in supervisors
    /\ \/ binding = "awaiting" /\ BindingPost(BindingMessage("handshake_accepted", n))
       \/ binding = "discovering" /\ BindingPost(BindingMessage("discovery_attached", n))
    /\ UNCHANGED <<binding, inc, failures, deadlines, faulted, unavailable, restarts, resends>>
    /\ UNCHANGED supervisorVars

\* A supervisor dies.
Dies(n) ==
    /\ n \in supervisors /\ supervisors' = supervisors \ {n}
    /\ BindingPost(BindingMessage("failed", n)) /\ faulted' = faulted \cup {n}
    /\ UNCHANGED <<binding, inc, failures, launches, deadlines, over, unavailable,
                   restarts, resends>>

\* A deadline passes; discovery also ends when the process is known missing.
DeadlinePasses(t) ==
    /\ t \in deadlines /\ deadlines' = deadlines \ {t}
    /\ IF t.for = "retry"
         THEN BindingPost(BindingMessage("retry_deadline", t.inc)) /\ UNCHANGED faulted
         ELSE BindingPost(BindingMessage("failed", t.inc)) /\ faulted' = faulted \cup {t.inc}
    /\ UNCHANGED <<binding, inc, failures, unavailable, restarts, resends>>
    /\ UNCHANGED supervisorVars

\* The execution becomes terminal.
ExecutionEnds ==
    /\ ~over /\ over' = TRUE /\ BindingPost(BindingMessage("terminated", inc))
    /\ UNCHANGED <<binding, inc, failures, launches, deadlines, supervisors, faulted,
                   unavailable, restarts, resends>>

\* The controller crashes, losing effects and events; its replacement looks
\* for the supervisor of the binding it persisted.
ControllerCrash ==
    /\ restarts < MaxRestarts /\ restarts' = restarts + 1
    /\ launches' = {}
    /\ IF binding = "none"
         THEN events' = {} /\ deadlines' = {} /\ UNCHANGED binding
         ELSE /\ binding' = "discovering" /\ deadlines' = {[for |-> "discovery", inc |-> inc]}
              /\ events' = IF over THEN {BindingMessage("terminated", inc)} ELSE {}
    /\ UNCHANGED <<inc, failures, supervisors, over, faulted, unavailable, resends>>

-----------------------------------------------------------------------------

BindingTransition(e) ==
    \/ DiscoveryAttached(e) \/ SupervisorLaunchSucceeded(e) \/ HandshakeAccepted(e)
    \/ ProcessFailed(e) \/ RetryDeadlineReached(e) \/ Terminate(e) \/ BindingRejected(e)

BindingNext ==
    \/ \E e \in events : BindingTransition(e)
    \/ \E n \in launches : Create(n)
    \/ \E n \in supervisors : Connect(n) \/ Dies(n)
    \/ \E t \in deadlines : DeadlinePasses(t)
    \/ ExecutionEnds \/ ControllerCrash

BindingSpec == BindingInit /\ [][BindingNext]_bindingVars

\* Events arrive, effects are carried out, deadlines pass.  A supervisor need
\* not connect.
BindingFairness ==
    /\ \A type \in {"launch_succeeded", "failed", "retry_deadline", "terminated"}, n \in Incs :
         LET e == BindingMessage(type, n)
         IN WF_bindingVars(e \in events /\ events' = events \ {e} /\ BindingTransition(e))
    /\ \A n \in Incs : WF_bindingVars(Create(n))
    /\ \A for \in {"discovery", "handshake", "retry"}, n \in Incs :
         WF_bindingVars(DeadlinePasses([for |-> for, inc |-> n]))

BindingFairSpec == BindingSpec /\ BindingFairness

-----------------------------------------------------------------------------
(* Properties. *)

\* A failure is charged once and to the incarnation it happened to: reports
\* that are late or repeated use up nothing of the launch budget, and the
\* supervisor is reported unavailable only after every incarnation failed.
ChargedOnce ==
    /\ failures <= Cardinality(faulted)
    /\ unavailable => faulted = Incs

\* The execution's supervisor is found, replaced, or reported unavailable: the
\* binding does not wait for ever for a process that will not come.
BindingSettles == binding \notin {"attached", "none"} ~> binding \in {"attached", "none"}
=============================================================================
