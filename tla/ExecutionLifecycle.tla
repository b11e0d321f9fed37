-------------------------- MODULE ExecutionLifecycle --------------------------
(***************************************************************************)
(* The execution state machine (domain/src/execution.rs): a pure function  *)
(* from a state and an event to a state and effects, or to an error that   *)
(* leaves the state alone.  Here it runs in the environment its types are  *)
(* made for: a supervisor that carries out the effects and reports back.   *)
(*                                                                         *)
(* Reports, commands and expired timers are unordered (an exit follows its *)
(* launch), may be late and may arrive twice.  A crash of the supervisor   *)
(* loses them all and kills the workload, and its replacement reports the  *)
(* loss once, before anything else.                                        *)
(*                                                                         *)
(* Abstractions.  A deadline is named by the attempt it follows (retry) or *)
(* stops (stop): they are computed from a clock that moves on between two  *)
(* attempts, so they are distinct exactly when their attempts are.  The    *)
(* plans CtrlBreak and Command are "graceful".  A stop cause always fits   *)
(* the execution's kind and is left out.  Arithmetic does not overflow.    *)
(***************************************************************************)
EXTENDS Naturals, FiniteSets

CONSTANTS Policies,     \* restart policies: [for, mode, max]
          CodeSets,     \* values of success_exit_codes
          MaxAttempts,  \* bound: the last attempt ends only when it is stopped
          MaxCrashes,   \* bound: supervisor crashes
          MaxUpdates,   \* bound: policy and exit-code updates
          MaxCopies,    \* bound: events delivered twice
          MaxStops      \* bound: stop requests

Kinds == {"service", "job"}
Codes == {0, 1}

ASSUME LifecycleAssumption ==
    /\ Policies \subseteq [for : Kinds, mode : {"never", "on-failure", "always"}, max : Nat]
    /\ \A p \in Policies : p.mode = "always" => p.for = "service"
    /\ CodeSets \subseteq SUBSET Codes
    /\ MaxAttempts \in Nat \ {0} /\ MaxCrashes \in Nat /\ MaxUpdates \in Nat
    /\ MaxCopies \in Nat /\ MaxStops \in Nat

VARIABLES
  \* ExecutionState.
  kind,        \* the variant of origin
  policy, success, lastRetry,
  phase,       \* the variant of phase
  attempt,     \* its attempt, or previous_attempt
  end,         \* previous_end
  sub,         \* StopPhase
  outcome,     \* of a terminal phase
  \* The supervisor that carries out the effects.
  inbox,       \* events on their way to transition
  pending,     \* attempts of LaunchAttempt effects not carried out
  timers,      \* armed timers
  kill,        \* a TerminateJobObject not carried out
  procs,       \* attempts whose workload process is alive
  \* History.
  launched,    \* attempts whose process was created
  expired,     \* retry deadlines that have passed
  stoppedIn,   \* the phase in which a stop was accepted
  killed,      \* a workload process was killed while stopping
  resets,      \* times the retry count was reset
  lostAt,      \* the attempt a job lost with its supervisor, 0 for none
  crashes, updates, copies, stops

machineVars == <<kind, policy, success, lastRetry, phase, attempt, end, sub, outcome>>
driverVars == <<pending, timers, kill, procs>>
historyVars == <<launched, expired, stoppedIn, killed, resets, lostAt>>
boundVars == <<crashes, updates, copies, stops>>
vars == <<kind, policy, success, lastRetry, phase, attempt, end, sub, outcome,
          inbox, pending, timers, kill, procs,
          launched, expired, stoppedIn, killed, resets, lostAt, crashes, updates, copies,
          stops>>

NoEnd == [type |-> "none", code |-> 0]
NoOutcome == [type |-> "none", forced |-> FALSE]

Ends == [type : {"none", "launch_failed", "exited", "supervisor_lost"}, code : Codes]
Outcomes == [type : {"none", "completed", "failed", "unknown", "stopped", "cancelled"},
             forced : BOOLEAN]
Event == [type : {"launch_succeeded", "launch_failed", "exited", "stop", "retry_deadline",
                  "stop_deadline"},
          attempt : Nat, code : Codes, long : BOOLEAN, plan : {"none", "graceful", "kill"}]
Timer == [for : {"retry", "stop"}, attempt : Nat]

\* ExecutionState, what the supervisor holds, and the history stay in shape.
MachineTypeOK ==
    /\ kind \in Kinds /\ policy \in {p \in Policies : p.for = kind} /\ success \in CodeSets
    /\ lastRetry \in Nat /\ attempt \in Nat \ {0} /\ end \in Ends
    /\ phase \in {"launching", "running", "backoff", "stopping", "terminal"}
    /\ sub \in {"none", "awaiting", "graceful", "killing"}
    /\ outcome \in Outcomes

DriverTypeOK ==
    /\ inbox \subseteq Event /\ pending \subseteq Nat /\ timers \subseteq Timer
    /\ kill \in BOOLEAN /\ procs \subseteq Nat

HistoryTypeOK ==
    /\ launched \subseteq Nat /\ expired \subseteq Nat
    /\ stoppedIn \in {"none", "launching", "running", "backoff"}
    /\ killed \in BOOLEAN /\ resets \in Nat /\ lostAt \in Nat
    /\ crashes \in Nat /\ updates \in Nat /\ copies \in Nat /\ stops \in Nat

\* One type invariant: state, reports in flight and timers stay in shape.
TypeOK == MachineTypeOK /\ DriverTypeOK /\ HistoryTypeOK

\* A new execution, its first LaunchAttempt not carried out yet.
Init ==
    /\ kind \in Kinds
    /\ policy \in {p \in Policies : p.for = kind}
    /\ success \in CodeSets /\ lastRetry = 0
    /\ phase = "launching" /\ attempt = 1 /\ end = NoEnd
    /\ sub = "none" /\ outcome = NoOutcome
    /\ inbox = {} /\ pending = {1} /\ timers = {} /\ kill = FALSE /\ procs = {}
    /\ launched = {} /\ expired = {} /\ stoppedIn = "none" /\ killed = FALSE
    /\ resets = 0 /\ lostAt = 0
    /\ crashes = 0 /\ updates = 0 /\ copies = 0 /\ stops = 0

Message(type, n) ==
    [type |-> type, attempt |-> n, code |-> 0, long |-> FALSE, plan |-> "none"]

-----------------------------------------------------------------------------
(* transition.  A handler takes an event, which may arrive again.  *)

MutAnyAttempt(e) == TRUE

\* The attempt of an event is the current one; otherwise StaleAttempt.
Current(e) == e.attempt = attempt

\* The deadline of an event is the one in the phase; otherwise StaleDeadline.
CurrentDeadline(e) == e.attempt = attempt

\* The events that change the state.
Accepted(e) ==
    \/ e.type = "launch_succeeded" /\ Current(e)
         /\ (phase = "launching" \/ (phase = "stopping" /\ sub = "awaiting"))
    \/ e.type = "launch_failed" /\ Current(e) /\ phase \in {"launching", "stopping"}
    \/ e.type = "exited" /\ Current(e) /\ phase \in {"running", "stopping"}
    \/ e.type = "stop" /\ phase \in {"launching", "running", "backoff"}
    \/ e.type = "retry_deadline" /\ phase = "backoff" /\ CurrentDeadline(e)
    \/ e.type = "stop_deadline" /\ phase = "stopping" /\ sub # "killing" /\ CurrentDeadline(e)

\* An exit is reported after the launch it belongs to.
InOrder(e) ==
    e.type = "exited" =>
        ~\E f \in inbox : f.type = "launch_succeeded" /\ f.attempt = e.attempt /\ Accepted(f)

Take(e) ==
    /\ e \in inbox /\ InOrder(e)
    /\ \/ inbox' = inbox \ {e} /\ UNCHANGED copies
       \/ inbox' = inbox /\ copies < MaxCopies /\ copies' = copies + 1
    /\ UNCHANGED <<crashes, updates, stops>>

\* terminal: the outcome is final and published.
Terminal(type, forced) ==
    /\ phase' = "terminal" /\ sub' = "none"
    /\ outcome' = [type |-> type, forced |-> forced]

\* finish_stop
FinishStop(forced) ==
    Terminal(IF kind = "job" THEN "cancelled" ELSE "stopped", forced)

\* finish_terminal
FinishTerminal(how, codes) ==
    Terminal(IF how.type = "exited" /\ how.code \in codes THEN "completed" ELSE "failed",
             FALSE)

\* policy_permits; the limit of a policy is its max.
PolicyPermits(p, codes, how, retry) ==
    LET failed == ~(how.type = "exited" /\ how.code \in codes)
    IN /\ p.mode = "always" \/ (p.mode = "on-failure" /\ failed)
       /\ retry <= p.max

\* finish_attempt, with the timers that stay armed: the retry is decided now,
\* its deadline computed now.
FinishAttempt(how, ranLong, armed) ==
    LET reset == kind = "service" /\ ranLong /\ how.type = "exited" /\ policy.mode # "never"
        retry == (IF reset THEN 0 ELSE lastRetry) + 1
    IN /\ resets' = IF reset THEN resets + 1 ELSE resets
       /\ IF PolicyPermits(policy, success, how, retry)
            THEN /\ phase' = "backoff" /\ end' = how /\ lastRetry' = retry
                 /\ timers' = armed \cup {[for |-> "retry", attempt |-> attempt]}
                 /\ UNCHANGED <<sub, outcome>>
            ELSE /\ FinishTerminal(how, success)
                 /\ lastRetry' = IF reset THEN 0 ELSE lastRetry
                 /\ timers' = armed /\ UNCHANGED end

\* launch_succeeded: a stop that waited for the launch can proceed.
LaunchSucceeded(e) ==
    /\ e.type = "launch_succeeded" /\ Take(e) /\ Current(e)
    /\ \/ phase = "launching" /\ phase' = "running" /\ UNCHANGED sub
       \/ phase = "stopping" /\ sub = "awaiting" /\ sub' = "graceful" /\ UNCHANGED phase
    /\ UNCHANGED <<kind, policy, success, lastRetry, attempt, end, outcome>>
    /\ UNCHANGED driverVars /\ UNCHANGED historyVars

LaunchFailed(e) ==
    /\ e.type = "launch_failed" /\ Take(e) /\ Current(e)
    /\ \/ phase = "launching" /\ FinishAttempt([type |-> "launch_failed", code |-> 0], FALSE, timers)
       \/ phase = "stopping" /\ FinishStop(FALSE)
          /\ UNCHANGED <<lastRetry, end, timers, resets>>
    /\ UNCHANGED <<kind, policy, success, attempt, pending, kill, procs,
                   launched, expired, stoppedIn, killed, lostAt>>

ProcessExited(e) ==
    /\ e.type = "exited" /\ Take(e) /\ Current(e)
    /\ \/ phase = "running" /\ FinishAttempt([type |-> "exited", code |-> e.code], e.long, timers)
       \/ phase = "stopping" /\ FinishStop(sub = "killing")
          /\ UNCHANGED <<lastRetry, end, timers, resets>>
    /\ UNCHANGED <<kind, policy, success, attempt, pending, kill, procs,
                   launched, expired, stoppedIn, killed, lostAt>>

\* Stopping starts with a deadline, or at once with the kill.
BeginStop(e, graceful) ==
    /\ phase' = "stopping" /\ UNCHANGED outcome
    /\ IF e.plan = "kill"
         THEN sub' = "killing" /\ kill' = TRUE /\ UNCHANGED timers
         ELSE /\ sub' = graceful
              /\ timers' = timers \cup {[for |-> "stop", attempt |-> attempt]}
              /\ UNCHANGED kill

MutStopWaits(e) ==
    /\ e.type = "stop" /\ Take(e)
    /\ \/ phase = "launching" /\ BeginStop(e, "awaiting")
       \/ phase = "running" /\ BeginStop(e, "graceful")
       \/ phase = "backoff" /\ UNCHANGED <<phase, sub, outcome, timers, kill>>
    /\ stoppedIn' = phase
    /\ UNCHANGED <<kind, policy, success, lastRetry, attempt, end, pending, procs,
                   launched, expired, killed, resets, lostAt>>

\* stop_requested
StopRequested(e) ==
    /\ e.type = "stop" /\ Take(e)
    /\ \/ phase = "launching" /\ BeginStop(e, "awaiting")
       \/ phase = "running" /\ BeginStop(e, "graceful")
       \/ phase = "backoff" /\ FinishStop(FALSE) /\ UNCHANGED <<timers, kill>>
    /\ stoppedIn' = phase
    /\ UNCHANGED <<kind, policy, success, lastRetry, attempt, end, pending, procs,
                   launched, expired, killed, resets, lostAt>>

RestartDeadlineReached(e) ==
    /\ e.type = "retry_deadline" /\ Take(e)
    /\ phase = "backoff" /\ CurrentDeadline(e)
    /\ phase' = "launching" /\ attempt' = attempt + 1 /\ end' = NoEnd
    /\ pending' = pending \cup {attempt + 1}
    /\ UNCHANGED <<kind, policy, success, lastRetry, sub, outcome, timers, kill, procs>>
    /\ UNCHANGED historyVars

MutForgetKill(e) ==
    /\ e.type = "stop_deadline" /\ Take(e)
    /\ phase = "stopping" /\ sub \in {"awaiting", "graceful"} /\ CurrentDeadline(e)
    /\ sub' = "killing"
    /\ UNCHANGED <<kind, policy, success, lastRetry, phase, attempt, end, outcome,
                   kill, pending, timers, procs>>
    /\ UNCHANGED historyVars

StopDeadlineReached(e) ==
    /\ e.type = "stop_deadline" /\ Take(e)
    /\ phase = "stopping" /\ sub \in {"awaiting", "graceful"} /\ CurrentDeadline(e)
    /\ sub' = "killing" /\ kill' = TRUE
    /\ UNCHANGED <<kind, policy, success, lastRetry, phase, attempt, end, outcome,
                   pending, timers, procs>>
    /\ UNCHANGED historyVars

MutKeepBackoff(p, codes) == UNCHANGED <<phase, sub, outcome>>

\* reconsider_backoff under policy p and success codes codes.
ReconsiderBackoff(p, codes) ==
    IF phase = "backoff" /\ ~PolicyPermits(p, codes, end, lastRetry)
      THEN FinishTerminal(end, codes)
      ELSE UNCHANGED <<phase, sub, outcome>>

\* restart_policy_changed; a policy for the other kind is an error.
RestartPolicyChanged(p) ==
    /\ updates < MaxUpdates /\ updates' = updates + 1
    /\ p.for = kind /\ policy' = p
    /\ ReconsiderBackoff(p, success)
    /\ UNCHANGED <<kind, success, lastRetry, attempt, end, inbox, crashes, copies, stops>>
    /\ UNCHANGED driverVars /\ UNCHANGED historyVars

SuccessExitCodesChanged(codes) ==
    /\ updates < MaxUpdates /\ updates' = updates + 1
    /\ success' = codes
    /\ ReconsiderBackoff(policy, codes)
    /\ UNCHANGED <<kind, policy, lastRetry, attempt, end, inbox, crashes, copies, stops>>
    /\ UNCHANGED driverVars /\ UNCHANGED historyVars

\* The origin makes a lost attempt final.
LossIsFinal == kind = "job"

\* The supervisor dies: reports, timers and launches are gone with it, and the
\* Job Object closes.  Its replacement first tells the persisted state; in a
\* backoff, where SupervisorLost is an error, it resumes the deadline.
SupervisorLost ==
    /\ crashes < MaxCrashes /\ crashes' = crashes + 1
    /\ attempt < MaxAttempts
    /\ inbox' = {} /\ pending' = {} /\ kill' = FALSE /\ procs' = {}
    /\ \/ /\ phase \in {"launching", "running"} /\ LossIsFinal
          /\ Terminal("unknown", FALSE)
          /\ timers' = {} /\ UNCHANGED <<lastRetry, end, resets, killed>>
       \/ /\ phase \in {"launching", "running"} /\ ~LossIsFinal
          /\ FinishAttempt([type |-> "supervisor_lost", code |-> 0], FALSE, {})
          /\ UNCHANGED killed
       \/ /\ phase = "stopping" /\ FinishStop(TRUE)
          /\ killed' = (killed \/ procs # {})
          /\ timers' = {} /\ UNCHANGED <<lastRetry, end, resets>>
       \/ /\ phase = "backoff"
          /\ timers' = {[for |-> "retry", attempt |-> attempt]}
          /\ UNCHANGED <<phase, sub, outcome, lastRetry, end, resets, killed>>
    /\ lostAt' = IF kind = "job" /\ phase \in {"launching", "running"} THEN attempt ELSE lostAt
    /\ UNCHANGED <<kind, policy, success, attempt, launched, expired, stoppedIn, updates,
                   copies, stops>>

\* What no phase accepts is an error, or Ok without a change.
Rejected(e) ==
    /\ e \in inbox /\ InOrder(e) /\ ~Accepted(e) /\ inbox' = inbox \ {e}
    /\ UNCHANGED machineVars /\ UNCHANGED driverVars /\ UNCHANGED historyVars
    /\ UNCHANGED boundVars

-----------------------------------------------------------------------------
(* The supervisor and the workload. *)

Post(e) == inbox' = inbox \cup {e}

\* LaunchAttempt is carried out.
Launch(n) ==
    /\ n \in pending /\ pending' = pending \ {n}
    /\ procs' = procs \cup {n} /\ launched' = launched \cup {n}
    /\ Post(Message("launch_succeeded", n))
    /\ UNCHANGED <<timers, kill, expired, stoppedIn, killed, resets, lostAt>>
    /\ UNCHANGED machineVars /\ UNCHANGED boundVars

LaunchFails(n) ==
    /\ n \in pending /\ n < MaxAttempts /\ pending' = pending \ {n}
    /\ Post(Message("launch_failed", n))
    /\ UNCHANGED <<timers, kill, procs>>
    /\ UNCHANGED machineVars /\ UNCHANGED historyVars /\ UNCHANGED boundVars

\* A workload process ends by itself or obeys a graceful stop.
Exits(n, code, ranLong) ==
    /\ n \in procs /\ (n < MaxAttempts \/ sub = "graceful")
    /\ procs' = procs \ {n}
    /\ Post([Message("exited", n) EXCEPT !.code = code, !.long = ranLong])
    /\ UNCHANGED <<pending, timers, kill>>
    /\ UNCHANGED machineVars /\ UNCHANGED historyVars /\ UNCHANGED boundVars

\* TerminateJobObject is carried out: what runs in the job is killed.
KillJob ==
    /\ kill /\ kill' = FALSE
    /\ procs' = {} /\ killed' = (killed \/ procs # {})
    /\ inbox' = inbox \cup {[Message("exited", n) EXCEPT !.code = 1] : n \in procs}
    /\ UNCHANGED <<pending, timers, launched, expired, stoppedIn, resets, lostAt>>
    /\ UNCHANGED machineVars /\ UNCHANGED boundVars

\* A timer fires.
Fire(t) ==
    /\ t \in timers /\ timers' = timers \ {t}
    /\ Post(Message(IF t.for = "retry" THEN "retry_deadline" ELSE "stop_deadline", t.attempt))
    /\ expired' = IF t.for = "retry" THEN expired \cup {t.attempt} ELSE expired
    /\ UNCHANGED <<pending, kill, procs, launched, stoppedIn, killed, resets, lostAt>>
    /\ UNCHANGED machineVars /\ UNCHANGED boundVars

\* A user, a restart or the end of the session asks for a stop.
RequestStop(plan) ==
    /\ stops < MaxStops /\ stops' = stops + 1
    /\ Post([Message("stop", 0) EXCEPT !.plan = plan])
    /\ UNCHANGED <<crashes, updates, copies>>
    /\ UNCHANGED machineVars /\ UNCHANGED driverVars /\ UNCHANGED historyVars

-----------------------------------------------------------------------------

Transition(e) ==
    \/ LaunchSucceeded(e) \/ LaunchFailed(e) \/ ProcessExited(e) \/ StopRequested(e)
    \/ RestartDeadlineReached(e) \/ StopDeadlineReached(e) \/ Rejected(e)

Next ==
    \/ \E e \in inbox : Transition(e)
    \/ \E p \in Policies : RestartPolicyChanged(p)
    \/ \E codes \in CodeSets : SuccessExitCodesChanged(codes)
    \/ \E n \in pending : Launch(n) \/ LaunchFails(n)
    \/ \E n \in procs, code \in Codes, ranLong \in BOOLEAN : Exits(n, code, ranLong)
    \/ \E t \in timers : Fire(t)
    \/ \E plan \in {"graceful", "kill"} : RequestStop(plan)
    \/ KillJob \/ SupervisorLost

Spec == Init /\ [][Next]_vars

\* Reports arrive, effects are carried out and timers fire.  A workload need
\* not end, a graceful stop need not be obeyed.
Fairness ==
    /\ \A n \in 1..MaxAttempts :
         /\ WF_vars(Launch(n) \/ LaunchFails(n))
         /\ WF_vars(\E e \in inbox : e.attempt = n /\ inbox' = inbox \ {e} /\ Transition(e))
    /\ WF_vars(\E t \in timers : Fire(t))
    /\ WF_vars(KillJob)

FairSpec == Spec /\ Fairness

-----------------------------------------------------------------------------
(* Properties. *)

\* Attempts are strictly sequential: whatever is reported late or twice, no
\* attempt is launched while the process of another is alive.
OneProcess == Cardinality(procs \cup pending) <= 1

\* Every retry was granted.  Without a reset, and always for a job, there are
\* no more than the most generous policy grants; one that is pending is still
\* granted by the current policy and success codes; a job lost with its
\* supervisor gets none; and none is launched before its own deadline, whatever
\* timers of earlier backoffs come late.  So it stays, however losses, repeated
\* reports and hot policy changes interleave.
RetriesAreGranted ==
    /\ resets = 0 => \E p \in Policies : p.for = kind /\ attempt <= p.max + 1
    /\ phase = "backoff" => PolicyPermits(policy, success, end, lastRetry)
    /\ lostAt # 0 => phase = "terminal" /\ attempt = lostAt
    /\ \A n \in launched \cup pending : n = 1 \/ n - 1 \in expired

\* An accepted stop wins over restart policy: nothing more is launched, the
\* outcome is the intended one of the execution's kind, and it admits that the
\* workload was killed if it was.
StopWins ==
    stoppedIn # "none" =>
        /\ phase \in {"stopping", "terminal"}
        /\ phase = "terminal" =>
             /\ outcome.type = IF kind = "job" THEN "cancelled" ELSE "stopped"
             /\ killed => outcome.forced

\* A stop accepted while the workload runs ends the execution.
StopOfRunningEnds == stoppedIn = "running" ~> phase = "terminal"
=============================================================================
