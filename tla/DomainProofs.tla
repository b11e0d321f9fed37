----------------------------- MODULE DomainProofs -----------------------------
(***************************************************************************)
(* Proofs about the three state machines of the domain crate, for every    *)
(* value of their constants: the execution (ExecutionLifecycle), the       *)
(* control of a service or job (WorkloadControl) and the supervisor        *)
(* binding (SupervisorBinding).                                            *)
(*                                                                         *)
(* The three share no variable and do not meet here: each theorem speaks   *)
(* of the behaviours of one of them, whatever the others' variables do.    *)
(***************************************************************************)
EXTENDS ExecutionLifecycle, WorkloadControl, SupervisorBinding, FiniteSetTheorems, TLAPS

-----------------------------------------------------------------------------
(***************************************************************************)
(* ExecutionLifecycle, for any policies, success codes, number of          *)
(* attempts, crashes, updates, repeated events and stops.                  *)
(*                                                                         *)
(* The process of an attempt and the launch that will create it are the    *)
(* current attempt's, and a report that ends an attempt means that both    *)
(* are gone; so an attempt that may be retried, and an execution that is   *)
(* over, has no process.                                                   *)
(***************************************************************************)

\* Only the current attempt has a process or a launch to come.
ProcessInv ==
    /\ \A n \in procs \cup pending : n = attempt
    /\ \A n \in pending : n \notin procs /\ n \notin launched
    /\ \A n \in launched : n <= attempt
    /\ procs \subseteq launched
    /\ phase \in {"backoff", "terminal"} => procs = {} /\ pending = {}

\* What the events on their way say is true.
ReportInv ==
    \A e \in inbox :
        /\ e.type \in {"launch_failed", "exited"} =>
              e.attempt <= attempt /\ e.attempt \notin procs /\ e.attempt \notin pending
        /\ e.type = "launch_failed" => e.attempt \notin launched
        /\ e.type = "retry_deadline" => e.attempt \in expired

\* Until the count is reset, the retries are the attempts after the first.
RetryInv ==
    resets = 0 =>
        /\ phase = "backoff" => lastRetry = attempt
        /\ phase \in {"launching", "running"} => lastRetry = attempt - 1

\* Only a stop that has reached the kill kills, and it kills this attempt.
KillInv ==
    /\ kill => (phase = "stopping" /\ sub = "killing") \/ phase = "terminal"
    /\ killed => /\ attempt \in launched
                 /\ (phase = "stopping" /\ sub = "killing") \/ phase = "terminal"

LifecycleInv ==
    /\ TypeOK /\ ProcessInv /\ ReportInv /\ RetryInv /\ KillInv
    /\ RetriesAreGranted /\ StopWins

-----------------------------------------------------------------------------
(* What the operators do. *)

\* An event that is taken may stay on its way.
LEMMA TakeFacts ==
    ASSUME TypeOK, NEW e \in inbox, Take(e)
    PROVE  /\ inbox' \subseteq inbox /\ copies' \in Nat /\ e \in Event
           /\ UNCHANGED <<crashes, updates, stops>>
BY DEF Take, TypeOK, DriverTypeOK, HistoryTypeOK

\* A stop ends the execution with the outcome of its kind.
LEMMA FinishStopFacts ==
    ASSUME NEW forced \in BOOLEAN, FinishStop(forced)
    PROVE  /\ phase' = "terminal" /\ sub' = "none" /\ outcome' \in Outcomes
           /\ outcome'.type = IF kind = "job" THEN "cancelled" ELSE "stopped"
           /\ outcome'.forced = forced
BY DEF FinishStop, Terminal, Outcomes

LEMMA FinishTerminalFacts ==
    ASSUME NEW how, NEW codes, FinishTerminal(how, codes)
    PROVE  phase' = "terminal" /\ sub' = "none" /\ outcome' \in Outcomes
BY DEF FinishTerminal, Terminal, Outcomes

\* An attempt that ends is followed by a backoff that the policy permits, or
\* by the end of the execution.
LEMMA FinishAttemptFacts ==
    ASSUME TypeOK, NEW how \in Ends, NEW ranLong, NEW armed \in SUBSET Timer,
           FinishAttempt(how, ranLong, armed)
    PROVE  /\ phase' \in {"backoff", "terminal"} /\ sub' \in {sub, "none"}
           /\ outcome' \in Outcomes /\ end' \in Ends /\ lastRetry' \in Nat /\ resets' \in Nat
           /\ timers' \subseteq Timer
           /\ phase' = "backoff" => PolicyPermits(policy, success, end', lastRetry')
           /\ resets' = 0 => resets = 0
           /\ resets' = 0 /\ phase' = "backoff" => lastRetry' = lastRetry + 1
<1> DEFINE reset == kind = "service" /\ ranLong /\ how.type = "exited" /\ policy.mode # "never"
           retry == (IF reset THEN 0 ELSE lastRetry) + 1
<1>1. lastRetry \in Nat /\ resets \in Nat /\ end \in Ends /\ outcome \in Outcomes /\ attempt \in Nat
  BY DEF TypeOK, MachineTypeOK, HistoryTypeOK
<1>2. /\ resets' = IF reset THEN resets + 1 ELSE resets
      /\ IF PolicyPermits(policy, success, how, retry)
           THEN /\ phase' = "backoff" /\ end' = how /\ lastRetry' = retry
                /\ timers' = armed \cup {[for |-> "retry", attempt |-> attempt]}
                /\ UNCHANGED <<sub, outcome>>
           ELSE /\ FinishTerminal(how, success)
                /\ lastRetry' = IF reset THEN 0 ELSE lastRetry
                /\ timers' = armed /\ UNCHANGED end
  BY DEF FinishAttempt
<1>3. retry \in Nat /\ (~reset => retry = lastRetry + 1)
  BY <1>1
<1>4. resets' \in Nat /\ (resets' = 0 => resets = 0 /\ ~reset)
  BY <1>1, <1>2
<1>5. [for |-> "retry", attempt |-> attempt] \in Timer
  BY <1>1 DEF Timer
<1> HIDE DEF reset, retry
<1>6. CASE PolicyPermits(policy, success, how, retry)
  BY <1>1, <1>2, <1>3, <1>4, <1>5, <1>6
<1>7. CASE ~PolicyPermits(policy, success, how, retry)
  BY <1>1, <1>2, <1>4, <1>7, FinishTerminalFacts
<1>8. QED  BY <1>6, <1>7

\* Events that are delivered or lost say the truth as before.
LEMMA ReportsStayTrue ==
    ASSUME LifecycleInv, inbox' \subseteq inbox, procs' \subseteq procs, pending' \subseteq pending,
           UNCHANGED <<attempt, launched, expired>>
    PROVE  ReportInv'
BY DEF LifecycleInv, ReportInv

\* A grant stands while attempts and policy stand and no new backoff begins.
LEMMA GrantsStand ==
    ASSUME LifecycleInv, UNCHANGED <<kind, attempt, launched, expired, lostAt>>,
           pending' \subseteq pending, resets' = 0 => resets = 0,
           phase = "terminal" => phase' = "terminal",
           phase' = "backoff" => PolicyPermits(policy, success, end, lastRetry)'
    PROVE  RetriesAreGranted'
<1>1. resets' = 0 => \E p \in Policies : p.for = kind /\ attempt <= p.max + 1
  BY DEF LifecycleInv, RetriesAreGranted
<1>2. \A n \in launched' \cup pending' : n = 1 \/ n - 1 \in expired
  BY DEF LifecycleInv, RetriesAreGranted
<1>3. lostAt' # 0 => phase' = "terminal" /\ attempt = lostAt
  BY DEF LifecycleInv, RetriesAreGranted
<1>4. QED  BY <1>1, <1>2, <1>3 DEF RetriesAreGranted

-----------------------------------------------------------------------------
(* The events of transition. *)

LEMMA LaunchSucceededStep ==
    ASSUME LifecycleInv, NEW e \in inbox, LaunchSucceeded(e)
    PROVE  LifecycleInv'
<1>1. /\ UNCHANGED <<kind, policy, success, lastRetry, attempt, end, outcome, pending, timers,
                     kill, procs, launched, expired, stoppedIn, killed, resets, lostAt,
                     crashes, updates, stops>>
      /\ \/ phase = "launching" /\ phase' = "running" /\ sub' = sub
         \/ phase = "stopping" /\ sub = "awaiting" /\ sub' = "graceful" /\ phase' = phase
      /\ inbox' \subseteq inbox /\ copies' \in Nat
  BY TakeFacts DEF LaunchSucceeded, driverVars, historyVars, LifecycleInv
<1>2. TypeOK'
  BY <1>1 DEF LifecycleInv, TypeOK, MachineTypeOK, DriverTypeOK, HistoryTypeOK
<1>3. ProcessInv' /\ RetryInv' /\ KillInv'
  BY <1>1 DEF LifecycleInv, ProcessInv, RetryInv, KillInv
<1>4. ReportInv'
  BY <1>1, ReportsStayTrue
<1>5. RetriesAreGranted'
  BY <1>1, GrantsStand
<1>6. StopWins'
  BY <1>1 DEF LifecycleInv, StopWins
<1>7. QED  BY <1>2, <1>3, <1>4, <1>5, <1>6 DEF LifecycleInv

\* The current attempt has ended: it has no process, and what follows is a
\* backoff, the end by policy, or the end by the stop.
LEMMA AttemptEnds ==
    ASSUME LifecycleInv,
           UNCHANGED <<kind, policy, success, attempt, launched, expired, stoppedIn, killed,
                       lostAt, kill>>,
           procs = {}, pending = {}, procs' = {}, pending' = {}, inbox' \subseteq inbox,
           phase' \in {"backoff", "terminal"},
           \/ phase \in {"launching", "running"}
           \/ /\ phase \in {"stopping", "backoff"} /\ phase' = "terminal"
              /\ outcome'.type = IF kind = "job" THEN "cancelled" ELSE "stopped"
              /\ killed => outcome'.forced,
           phase' = "backoff" => PolicyPermits(policy, success, end', lastRetry'),
           resets' = 0 => resets = 0,
           resets' = 0 /\ phase' = "backoff" => lastRetry' = lastRetry + 1
    PROVE  ProcessInv' /\ ReportInv' /\ RetryInv' /\ KillInv' /\ RetriesAreGranted' /\ StopWins'
<1>1. ProcessInv'
  BY DEF LifecycleInv, ProcessInv
<1>2. ReportInv'
  BY ReportsStayTrue
<1>3. RetryInv'
  BY DEF LifecycleInv, TypeOK, MachineTypeOK, RetryInv
<1>4. KillInv'
  BY DEF LifecycleInv, KillInv
<1>5. RetriesAreGranted'
  BY GrantsStand
<1>6. StopWins'
  BY DEF LifecycleInv, StopWins
<1>7. QED  BY <1>1, <1>2, <1>3, <1>4, <1>5, <1>6
LEMMA LaunchFailedStep ==
    ASSUME LifecycleInv, NEW e \in inbox, LaunchFailed(e)
    PROVE  LifecycleInv'
<1>1. /\ UNCHANGED <<kind, policy, success, attempt, pending, kill, procs, launched, expired,
                     stoppedIn, killed, lostAt, crashes, updates, stops>>
      /\ inbox' \subseteq inbox /\ copies' \in Nat /\ e \in Event
      /\ e.type = "launch_failed" /\ e.attempt = attempt
  BY TakeFacts DEF LaunchFailed, Current, LifecycleInv
<1>2. procs = {} /\ pending = {}
  BY <1>1 DEF LifecycleInv, ReportInv, ProcessInv
<1>3. /\ timers \in SUBSET Timer /\ outcome \in Outcomes /\ lastRetry \in Nat /\ resets \in Nat
      /\ end \in Ends /\ sub \in {"none", "awaiting", "graceful", "killing"}
  BY DEF LifecycleInv, TypeOK, MachineTypeOK, DriverTypeOK, HistoryTypeOK
<1>4. CASE phase = "launching"
  <2> DEFINE how == [type |-> "launch_failed", code |-> 0]
  <2>1. FinishAttempt(how, FALSE, timers)
    BY <1>4 DEF LaunchFailed
  <2>2. how \in Ends
    BY <1>1 DEF Ends, Codes, Event
  <2> HIDE DEF how
  <2>3. /\ phase' \in {"backoff", "terminal"} /\ sub' \in {sub, "none"}
        /\ outcome' \in Outcomes /\ end' \in Ends /\ lastRetry' \in Nat /\ resets' \in Nat
        /\ timers' \subseteq Timer
        /\ phase' = "backoff" => PolicyPermits(policy, success, end', lastRetry')
        /\ resets' = 0 => resets = 0
        /\ resets' = 0 /\ phase' = "backoff" => lastRetry' = lastRetry + 1
    BY <1>3, <2>1, <2>2, FinishAttemptFacts DEF LifecycleInv
  <2>4. TypeOK'
    BY <1>1, <1>3, <2>3 DEF LifecycleInv, TypeOK, MachineTypeOK, DriverTypeOK, HistoryTypeOK
  <2>5. QED
    BY <1>1, <1>2, <1>4, <2>3, <2>4, AttemptEnds DEF LifecycleInv
<1>5. CASE phase = "stopping"
  <2>1. FinishStop(FALSE) /\ UNCHANGED <<lastRetry, end, timers, resets>>
    BY <1>5 DEF LaunchFailed
  <2>2. /\ phase' = "terminal" /\ sub' = "none" /\ outcome' \in Outcomes
        /\ outcome'.type = IF kind = "job" THEN "cancelled" ELSE "stopped"
        /\ outcome'.forced = (FALSE)
    BY <2>1, FinishStopFacts
  <2>3. killed => outcome'.forced
    BY <1>1, <2>2 DEF LifecycleInv, KillInv, ReportInv
  <2>4. TypeOK'
    BY <1>1, <1>3, <2>1, <2>2
       DEF LifecycleInv, TypeOK, MachineTypeOK, DriverTypeOK, HistoryTypeOK
  <2>5. QED
    BY <1>1, <1>2, <1>5, <2>1, <2>2, <2>3, <2>4, AttemptEnds DEF LifecycleInv
<1>6. QED  BY <1>4, <1>5 DEF LaunchFailed

LEMMA ProcessExitedStep ==
    ASSUME LifecycleInv, NEW e \in inbox, ProcessExited(e)
    PROVE  LifecycleInv'
<1>1. /\ UNCHANGED <<kind, policy, success, attempt, pending, kill, procs, launched, expired,
                     stoppedIn, killed, lostAt, crashes, updates, stops>>
      /\ inbox' \subseteq inbox /\ copies' \in Nat /\ e \in Event
      /\ e.type = "exited" /\ e.attempt = attempt
  BY TakeFacts DEF ProcessExited, Current, LifecycleInv
<1>2. procs = {} /\ pending = {}
  BY <1>1 DEF LifecycleInv, ReportInv, ProcessInv
<1>3. /\ timers \in SUBSET Timer /\ outcome \in Outcomes /\ lastRetry \in Nat /\ resets \in Nat
      /\ end \in Ends /\ sub \in {"none", "awaiting", "graceful", "killing"}
  BY DEF LifecycleInv, TypeOK, MachineTypeOK, DriverTypeOK, HistoryTypeOK
<1>4. CASE phase = "running"
  <2> DEFINE how == [type |-> "exited", code |-> e.code]
  <2>1. FinishAttempt(how, e.long, timers)
    BY <1>4 DEF ProcessExited
  <2>2. how \in Ends
    BY <1>1 DEF Ends, Codes, Event
  <2> HIDE DEF how
  <2>3. /\ phase' \in {"backoff", "terminal"} /\ sub' \in {sub, "none"}
        /\ outcome' \in Outcomes /\ end' \in Ends /\ lastRetry' \in Nat /\ resets' \in Nat
        /\ timers' \subseteq Timer
        /\ phase' = "backoff" => PolicyPermits(policy, success, end', lastRetry')
        /\ resets' = 0 => resets = 0
        /\ resets' = 0 /\ phase' = "backoff" => lastRetry' = lastRetry + 1
    BY <1>3, <2>1, <2>2, FinishAttemptFacts DEF LifecycleInv
  <2>4. TypeOK'
    BY <1>1, <1>3, <2>3 DEF LifecycleInv, TypeOK, MachineTypeOK, DriverTypeOK, HistoryTypeOK
  <2>5. QED
    BY <1>1, <1>2, <1>4, <2>3, <2>4, AttemptEnds DEF LifecycleInv
<1>5. CASE phase = "stopping"
  <2>1. FinishStop(sub = "killing") /\ UNCHANGED <<lastRetry, end, timers, resets>>
    BY <1>5 DEF ProcessExited
  <2>2. /\ phase' = "terminal" /\ sub' = "none" /\ outcome' \in Outcomes
        /\ outcome'.type = IF kind = "job" THEN "cancelled" ELSE "stopped"
        /\ outcome'.forced = (sub = "killing")
    BY <2>1, FinishStopFacts
  <2>3. killed => outcome'.forced
    BY <1>5, <2>2 DEF LifecycleInv, KillInv
  <2>4. TypeOK'
    BY <1>1, <1>3, <2>1, <2>2
       DEF LifecycleInv, TypeOK, MachineTypeOK, DriverTypeOK, HistoryTypeOK
  <2>5. QED
    BY <1>1, <1>2, <1>5, <2>1, <2>2, <2>3, <2>4, AttemptEnds DEF LifecycleInv
<1>6. QED  BY <1>4, <1>5 DEF ProcessExited

\* A stop is accepted once: it waits for the workload, or ends a backoff.
LEMMA StopRequestedStep ==
    ASSUME LifecycleInv, NEW e \in inbox, StopRequested(e)
    PROVE  LifecycleInv'
<1>1. /\ UNCHANGED <<kind, policy, success, lastRetry, attempt, end, pending, procs, launched,
                     expired, killed, resets, lostAt, crashes, updates, stops>>
      /\ inbox' \subseteq inbox /\ copies' \in Nat
      /\ stoppedIn' = phase /\ phase \in {"launching", "running", "backoff"}
  BY TakeFacts DEF StopRequested, LifecycleInv
<1>2. ~kill /\ ~killed
  BY <1>1 DEF LifecycleInv, KillInv
<1>3. CASE phase \in {"launching", "running"}
  <2>1. /\ phase' = "stopping" /\ UNCHANGED outcome
        /\ \/ sub' = "killing" /\ kill' = TRUE /\ timers' = timers
           \/ /\ sub' \in {"awaiting", "graceful"} /\ kill' = kill
              /\ timers' = timers \cup {[for |-> "stop", attempt |-> attempt]}
    BY <1>3 DEF StopRequested, BeginStop
  <2>2. timers' \subseteq Timer
    <3>1. attempt \in Nat /\ timers \in SUBSET Timer
      BY DEF LifecycleInv, TypeOK, MachineTypeOK, DriverTypeOK
    <3>2. [for |-> "stop", attempt |-> attempt] \in Timer
      BY <3>1 DEF Timer
    <3>3. QED  BY <2>1, <3>1, <3>2
  <2>3. TypeOK'
    <3>1. MachineTypeOK' /\ HistoryTypeOK'
      BY <1>1, <2>1 DEF LifecycleInv, TypeOK, MachineTypeOK, HistoryTypeOK
    <3>2. kill' \in BOOLEAN
      BY <2>1 DEF LifecycleInv, TypeOK, DriverTypeOK
    <3>3. QED  BY <1>1, <2>2, <3>1, <3>2 DEF LifecycleInv, TypeOK, DriverTypeOK
  <2>4. ProcessInv' /\ RetryInv'
    BY <1>1, <2>1 DEF LifecycleInv, ProcessInv, RetryInv
  <2>5. KillInv'
    BY <1>1, <1>2, <2>1 DEF KillInv
  <2>6. ReportInv'
    BY <1>1, ReportsStayTrue
  <2>7. RetriesAreGranted'
    BY <1>1, <2>1, GrantsStand
  <2>8. StopWins'
    BY <2>1 DEF StopWins
  <2>9. QED  BY <2>3, <2>4, <2>5, <2>6, <2>7, <2>8 DEF LifecycleInv
<1>4. CASE phase = "backoff"
  <2>1. FinishStop(FALSE) /\ UNCHANGED <<timers, kill>>
    BY <1>4 DEF StopRequested
  <2>2. /\ phase' = "terminal" /\ sub' = "none" /\ outcome' \in Outcomes
        /\ outcome'.type = IF kind = "job" THEN "cancelled" ELSE "stopped"
    BY <2>1, FinishStopFacts
  <2>3. TypeOK'
    BY <1>1, <2>1, <2>2 DEF LifecycleInv, TypeOK, MachineTypeOK, DriverTypeOK, HistoryTypeOK
  <2>4. ProcessInv'
    BY <1>1, <1>4, <2>2 DEF LifecycleInv, ProcessInv
  <2>5. RetryInv' /\ KillInv'
    BY <1>1, <1>2, <2>1, <2>2 DEF RetryInv, KillInv
  <2>6. ReportInv'
    BY <1>1, ReportsStayTrue
  <2>7. RetriesAreGranted'
    BY <1>1, <2>2, GrantsStand
  <2>8. StopWins'
    BY <1>1, <1>2, <2>2 DEF StopWins
  <2>9. QED  BY <2>3, <2>4, <2>5, <2>6, <2>7, <2>8 DEF LifecycleInv
<1>5. QED  BY <1>1, <1>3, <1>4

\* The next attempt is launched: its deadline has passed, the policy permits
\* it, and nothing of the last attempt is left.
LEMMA RestartDeadlineReachedStep ==
    ASSUME LifecycleInv, NEW e \in inbox, RestartDeadlineReached(e)
    PROVE  LifecycleInv'
<1>1. /\ UNCHANGED <<kind, policy, success, lastRetry, sub, outcome, timers, kill, procs,
                     launched, expired, stoppedIn, killed, resets, lostAt, crashes, updates,
                     stops>>
      /\ inbox' \subseteq inbox /\ copies' \in Nat
      /\ e.type = "retry_deadline" /\ e.attempt = attempt
      /\ phase = "backoff" /\ phase' = "launching" /\ attempt' = attempt + 1 /\ end' = NoEnd
      /\ pending' = pending \cup {attempt + 1}
  BY TakeFacts DEF RestartDeadlineReached, CurrentDeadline, historyVars, LifecycleInv
<1>2. procs = {} /\ pending = {} /\ pending' = {attempt + 1} /\ attempt \in Nat \ {0}
  BY <1>1 DEF LifecycleInv, ProcessInv, TypeOK, MachineTypeOK
<1>3. TypeOK'
  <2>1. NoEnd \in Ends
    BY DEF NoEnd, Ends, Codes
  <2>2. MachineTypeOK' /\ HistoryTypeOK'
    BY <1>1, <1>2, <2>1 DEF LifecycleInv, TypeOK, MachineTypeOK, HistoryTypeOK
  <2>3. DriverTypeOK'
    BY <1>1, <1>2 DEF LifecycleInv, TypeOK, DriverTypeOK
  <2>4. QED  BY <2>2, <2>3 DEF TypeOK
<1>4. \A n \in launched : n \in Nat /\ n <= attempt
  BY DEF LifecycleInv, ProcessInv, TypeOK, HistoryTypeOK
<1>5. ProcessInv'
  BY <1>1, <1>2, <1>4 DEF LifecycleInv, ProcessInv
<1>6. ReportInv'
  <2>1. \A f \in inbox : f.attempt \in Nat
    BY DEF LifecycleInv, TypeOK, DriverTypeOK, Event
  <2>2. QED  BY <1>1, <1>2, <2>1 DEF LifecycleInv, ReportInv
<1>7. RetryInv' /\ KillInv'
  BY <1>1, <1>2 DEF LifecycleInv, RetryInv, KillInv
<1>8. RetriesAreGranted'
  <2>1. ASSUME resets = 0
        PROVE  \E p \in Policies : p.for = kind /\ attempt + 1 <= p.max + 1
    <3>1. lastRetry = attempt /\ policy \in Policies /\ policy.for = kind
      BY <1>1, <2>1 DEF LifecycleInv, RetryInv, TypeOK, MachineTypeOK
    <3>2. lastRetry <= policy.max
      BY <1>1 DEF LifecycleInv, RetriesAreGranted, PolicyPermits
    <3>3. policy.max \in Nat
      BY <3>1, LifecycleAssumption
    <3>4. QED  BY <1>2, <3>1, <3>2, <3>3
  <2>2. lostAt = 0
    BY <1>1 DEF LifecycleInv, RetriesAreGranted
  <2>3. \A n \in launched : n = 1 \/ n - 1 \in expired
    BY DEF LifecycleInv, RetriesAreGranted
  <2>4. attempt + 1 - 1 \in expired
    BY <1>1, <1>2 DEF LifecycleInv, ReportInv
  <2>5. QED  BY <1>1, <1>2, <2>1, <2>2, <2>3, <2>4 DEF RetriesAreGranted
<1>9. StopWins'
  BY <1>1 DEF LifecycleInv, StopWins
<1>10. QED  BY <1>3, <1>5, <1>6, <1>7, <1>8, <1>9 DEF LifecycleInv

LEMMA StopDeadlineReachedStep ==
    ASSUME LifecycleInv, NEW e \in inbox, StopDeadlineReached(e)
    PROVE  LifecycleInv'
<1>1. /\ UNCHANGED <<kind, policy, success, lastRetry, phase, attempt, end, outcome, pending,
                     timers, procs, launched, expired, stoppedIn, killed, resets, lostAt,
                     crashes, updates, stops>>
      /\ inbox' \subseteq inbox /\ copies' \in Nat
      /\ phase = "stopping" /\ sub' = "killing" /\ kill' = TRUE
  BY TakeFacts DEF StopDeadlineReached, historyVars, LifecycleInv
<1>2. TypeOK'
  BY <1>1 DEF LifecycleInv, TypeOK, MachineTypeOK, DriverTypeOK, HistoryTypeOK
<1>3. ProcessInv' /\ RetryInv' /\ KillInv'
  BY <1>1 DEF LifecycleInv, ProcessInv, RetryInv, KillInv
<1>4. ReportInv'
  BY <1>1, ReportsStayTrue
<1>5. RetriesAreGranted'
  BY <1>1, GrantsStand
<1>6. StopWins'
  BY <1>1 DEF LifecycleInv, StopWins
<1>7. QED  BY <1>2, <1>3, <1>4, <1>5, <1>6 DEF LifecycleInv

LEMMA RejectedStep ==
    ASSUME LifecycleInv, NEW e \in inbox, Rejected(e)
    PROVE  LifecycleInv'
<1>1. /\ UNCHANGED <<kind, policy, success, lastRetry, phase, attempt, end, sub, outcome,
                     pending, timers, kill, procs, launched, expired, stoppedIn, killed, resets,
                     lostAt, crashes, updates, copies, stops>>
      /\ inbox' \subseteq inbox
  BY DEF Rejected, machineVars, driverVars, historyVars, boundVars
<1>2. TypeOK'
  BY <1>1 DEF LifecycleInv, TypeOK, MachineTypeOK, DriverTypeOK, HistoryTypeOK
<1>3. ProcessInv' /\ RetryInv' /\ KillInv'
  BY <1>1 DEF LifecycleInv, ProcessInv, RetryInv, KillInv
<1>4. ReportInv'
  BY <1>1, ReportsStayTrue
<1>5. RetriesAreGranted' /\ StopWins'
  BY <1>1 DEF LifecycleInv, RetriesAreGranted, StopWins, PolicyPermits
<1>6. QED  BY <1>2, <1>3, <1>4, <1>5 DEF LifecycleInv

-----------------------------------------------------------------------------
(* Updates of a running execution. *)

\* A policy or success codes that no longer permit the pending retry end the
\* execution.
LEMMA UpdateStep ==
    ASSUME LifecycleInv, NEW p \in Policies, p.for = kind, NEW codes \in CodeSets,
           policy' = p, success' = codes, ReconsiderBackoff(p, codes),
           updates' = updates + 1,
           UNCHANGED <<kind, lastRetry, attempt, end, inbox, crashes, copies, stops>>,
           UNCHANGED driverVars, UNCHANGED historyVars
    PROVE  LifecycleInv'
<1>1. /\ UNCHANGED <<pending, timers, kill, procs, launched, expired, stoppedIn, killed, resets,
                     lostAt>>
  BY DEF driverVars, historyVars
<1>2. \/ /\ UNCHANGED <<phase, sub, outcome>>
         /\ phase = "backoff" => PolicyPermits(p, codes, end, lastRetry)
      \/ phase = "backoff" /\ phase' = "terminal" /\ sub' = "none" /\ outcome' \in Outcomes
  BY FinishTerminalFacts DEF ReconsiderBackoff
<1>3. TypeOK'
  BY <1>1, <1>2 DEF LifecycleInv, TypeOK, MachineTypeOK, DriverTypeOK, HistoryTypeOK
<1>4. ProcessInv' /\ RetryInv' /\ KillInv'
  BY <1>1, <1>2 DEF LifecycleInv, ProcessInv, RetryInv, KillInv
<1>5. ReportInv'
  BY <1>1, ReportsStayTrue
<1>6. RetriesAreGranted'
  <2>1. phase' = "backoff" => PolicyPermits(policy, success, end, lastRetry)'
    BY <1>2 DEF PolicyPermits
  <2>2. QED  BY <1>1, <1>2, <2>1, GrantsStand
<1>7. StopWins'
  BY <1>1, <1>2 DEF LifecycleInv, StopWins
<1>8. QED  BY <1>3, <1>4, <1>5, <1>6, <1>7 DEF LifecycleInv
-----------------------------------------------------------------------------
(* The supervisor and the workload. *)

\* The supervisor is lost with all it held; its replacement decides.
LEMMA SupervisorLostStep ==
    ASSUME LifecycleInv, SupervisorLost
    PROVE  LifecycleInv'
<1>1. /\ UNCHANGED <<kind, policy, success, attempt, launched, expired, stoppedIn, updates,
                     copies, stops>>
      /\ inbox' = {} /\ pending' = {} /\ kill' = FALSE /\ procs' = {}
      /\ crashes' = crashes + 1
      /\ lostAt' = IF kind = "job" /\ phase \in {"launching", "running"} THEN attempt ELSE lostAt
  BY DEF SupervisorLost
<1>2. /\ outcome \in Outcomes /\ lastRetry \in Nat /\ resets \in Nat /\ end \in Ends
      /\ attempt \in Nat \ {0} /\ sub \in {"none", "awaiting", "graceful", "killing"}
      /\ {} \in SUBSET Timer /\ killed \in BOOLEAN /\ crashes \in Nat
  BY DEF LifecycleInv, TypeOK, MachineTypeOK, HistoryTypeOK
<1>3. /\ phase' \in {"backoff", "terminal"} /\ sub' \in {sub, "none"} /\ outcome' \in Outcomes
      /\ end' \in Ends /\ lastRetry' \in Nat /\ resets' \in Nat /\ timers' \subseteq Timer
      /\ phase' = "backoff" => PolicyPermits(policy, success, end', lastRetry')
      /\ resets' = 0 => resets = 0
      /\ \/ /\ phase \in {"launching", "running"} /\ UNCHANGED killed
            /\ kind = "job" => phase' = "terminal"
            /\ resets' = 0 /\ phase' = "backoff" => lastRetry' = lastRetry + 1
         \/ /\ phase = "stopping" /\ phase' = "terminal"
            /\ outcome'.type = IF kind = "job" THEN "cancelled" ELSE "stopped"
            /\ outcome'.forced /\ killed' \in BOOLEAN
            /\ killed' => killed \/ procs # {}
         \/ /\ phase = "backoff" /\ phase' = "backoff"
            /\ UNCHANGED <<outcome, lastRetry, resets, killed>>
  <2>1. CASE phase \in {"launching", "running"} /\ LossIsFinal
    <3>1. /\ phase' = "terminal" /\ sub' = "none" /\ timers' = {}
          /\ outcome' = [type |-> "unknown", forced |-> FALSE]
          /\ UNCHANGED <<lastRetry, end, resets, killed>>
      BY <2>1 DEF SupervisorLost, Terminal
    <3>2. outcome' \in Outcomes
      BY <3>1 DEF Outcomes
    <3>3. QED  BY <1>2, <2>1, <3>1, <3>2
  <2>2. CASE phase \in {"launching", "running"} /\ ~LossIsFinal
    <3> DEFINE how == [type |-> "supervisor_lost", code |-> 0]
    <3>1. how \in Ends
      BY DEF Ends, Codes
    <3>2. FinishAttempt(how, FALSE, {}) /\ UNCHANGED killed
      BY <2>2 DEF SupervisorLost
    <3> HIDE DEF how
    <3>3. QED  BY <1>2, <2>2, <3>1, <3>2, FinishAttemptFacts DEF LifecycleInv, LossIsFinal
  <2>3. CASE phase = "stopping"
    <3>1. /\ FinishStop(TRUE) /\ killed' = (killed \/ procs # {})
          /\ timers' = {} /\ UNCHANGED <<lastRetry, end, resets>>
      BY <2>3 DEF SupervisorLost
    <3>2. killed' \in BOOLEAN /\ (killed' => killed \/ procs # {})
      BY <3>1
    <3>3. QED  BY <1>2, <2>3, <3>1, <3>2, FinishStopFacts
  <2>4. CASE phase = "backoff"
    <3>1. [for |-> "retry", attempt |-> attempt] \in Timer
      BY <1>2 DEF Timer
    <3>2. PolicyPermits(policy, success, end, lastRetry)
      BY <2>4 DEF LifecycleInv, RetriesAreGranted
    <3>3. QED  BY <1>2, <2>4, <3>1, <3>2 DEF SupervisorLost
  <2>5. QED  BY <2>1, <2>2, <2>3, <2>4 DEF SupervisorLost
<1>4. TypeOK'
  <2>1. MachineTypeOK'
    BY <1>1, <1>2, <1>3 DEF LifecycleInv, TypeOK, MachineTypeOK
  <2>2. DriverTypeOK'
    BY <1>1, <1>3 DEF DriverTypeOK
  <2>3. killed' \in BOOLEAN
    BY <1>2, <1>3
  <2>4. lostAt' \in Nat
    BY <1>1, <1>2 DEF LifecycleInv, TypeOK, HistoryTypeOK
  <2>5. HistoryTypeOK'
    BY <1>1, <1>2, <1>3, <2>3, <2>4 DEF LifecycleInv, TypeOK, HistoryTypeOK
  <2>6. QED  BY <2>1, <2>2, <2>5 DEF TypeOK
<1>5. ProcessInv' /\ ReportInv'
  BY <1>1 DEF LifecycleInv, ProcessInv, ReportInv
<1>6. RetryInv'
  BY <1>1, <1>2, <1>3 DEF LifecycleInv, RetryInv
<1>7. KillInv'
  <2>1. killed' => attempt \in launched /\ phase' = "terminal"
    BY <1>1, <1>2, <1>3 DEF LifecycleInv, KillInv, ProcessInv
  <2>2. QED  BY <1>1, <2>1 DEF KillInv
<1>8. RetriesAreGranted'
  <2>1. resets' = 0 => \E p \in Policies : p.for = kind /\ attempt <= p.max + 1
    BY <1>3 DEF LifecycleInv, RetriesAreGranted
  <2>2. lostAt' # 0 => phase' = "terminal" /\ attempt = lostAt'
    BY <1>1, <1>3 DEF LifecycleInv, RetriesAreGranted
  <2>3. \A n \in launched : n = 1 \/ n - 1 \in expired
    BY DEF LifecycleInv, RetriesAreGranted
  <2>4. QED  BY <1>1, <1>3, <2>1, <2>2, <2>3 DEF RetriesAreGranted
<1>9. StopWins'
  BY <1>1, <1>3 DEF LifecycleInv, StopWins
<1>10. QED  BY <1>4, <1>5, <1>6, <1>7, <1>8, <1>9 DEF LifecycleInv

\* A message is an event.
LEMMA Messages ==
    ASSUME NEW n \in Nat,
           NEW type \in {"launch_succeeded", "launch_failed", "exited", "stop",
                         "retry_deadline", "stop_deadline"}
    PROVE  /\ Message(type, n) \in Event
           /\ Message(type, n).type = type /\ Message(type, n).attempt = n
BY DEF Message, Event, Codes

\* The launch of an attempt creates its process.
LEMMA LaunchStep ==
    ASSUME LifecycleInv, NEW n \in pending, Launch(n)
    PROVE  LifecycleInv'
<1> DEFINE m == Message("launch_succeeded", n)
<1>1. /\ UNCHANGED <<kind, policy, success, lastRetry, phase, attempt, end, sub, outcome, timers,
                     kill, expired, stoppedIn, killed, resets, lostAt, crashes, updates, copies,
                     stops>>
      /\ pending' = pending \ {n} /\ procs' = procs \cup {n} /\ launched' = launched \cup {n}
      /\ inbox' = inbox \cup {m}
  BY DEF Launch, Post, machineVars, boundVars
<1>2. n \in Nat /\ n = attempt /\ n \notin procs /\ n \notin launched
  BY DEF LifecycleInv, TypeOK, DriverTypeOK, ProcessInv
<1>3. m \in Event /\ m.type = "launch_succeeded"
  BY <1>2, Messages
<1> HIDE DEF m
<1>4. TypeOK'
  <2>1. MachineTypeOK' /\ HistoryTypeOK'
    BY <1>1, <1>2 DEF LifecycleInv, TypeOK, MachineTypeOK, HistoryTypeOK
  <2>2. DriverTypeOK'
    BY <1>1, <1>2, <1>3 DEF LifecycleInv, TypeOK, DriverTypeOK
  <2>3. QED  BY <2>1, <2>2 DEF TypeOK
<1>5. ProcessInv'
  BY <1>1, <1>2 DEF LifecycleInv, ProcessInv, TypeOK, MachineTypeOK
<1>6. ReportInv'
  BY <1>1, <1>3 DEF LifecycleInv, ReportInv
<1>7. RetryInv' /\ KillInv' /\ StopWins'
  BY <1>1 DEF LifecycleInv, RetryInv, KillInv, StopWins
<1>8. RetriesAreGranted'
  BY <1>1 DEF LifecycleInv, RetriesAreGranted, PolicyPermits
<1>9. QED  BY <1>4, <1>5, <1>6, <1>7, <1>8 DEF LifecycleInv

\* A launch that fails, or a process that ends, leaves nothing of its attempt.
LEMMA EndStep ==
    ASSUME LifecycleInv, NEW n \in procs \cup pending, NEW m \in Event,
           \/ m.type = "launch_failed" /\ n \in pending
           \/ m.type = "exited" /\ n \in procs,
           m.attempt = n, inbox' = inbox \cup {m},
           procs' = procs \ {n}, pending' = pending \ {n},
           UNCHANGED <<timers, kill>>, UNCHANGED machineVars, UNCHANGED historyVars,
           UNCHANGED boundVars
    PROVE  LifecycleInv'
<1>1. /\ UNCHANGED <<kind, policy, success, lastRetry, phase, attempt, end, sub, outcome, timers,
                     kill, launched, expired, stoppedIn, killed, resets, lostAt, crashes, updates,
                     copies, stops>>
  BY DEF machineVars, historyVars, boundVars
<1>2. TypeOK'
  BY <1>1 DEF LifecycleInv, TypeOK, MachineTypeOK, DriverTypeOK, HistoryTypeOK
<1>3. ProcessInv'
  BY <1>1 DEF LifecycleInv, ProcessInv
<1>4. n = attempt /\ attempt <= attempt /\ (n \in pending => n \notin launched)
  BY DEF LifecycleInv, ProcessInv, TypeOK, MachineTypeOK
<1>5. ReportInv'
  BY <1>1, <1>4 DEF LifecycleInv, ReportInv
<1>6. RetryInv' /\ KillInv' /\ StopWins'
  BY <1>1 DEF LifecycleInv, RetryInv, KillInv, StopWins
<1>7. RetriesAreGranted'
  BY <1>1 DEF LifecycleInv, RetriesAreGranted, PolicyPermits
<1>8. QED  BY <1>2, <1>3, <1>5, <1>6, <1>7 DEF LifecycleInv

LEMMA LaunchFailsStep ==
    ASSUME LifecycleInv, NEW n \in pending, LaunchFails(n)
    PROVE  LifecycleInv'
<1> DEFINE m == Message("launch_failed", n)
<1>1. n \in Nat /\ procs' = procs \ {n}
  BY DEF LifecycleInv, TypeOK, DriverTypeOK, ProcessInv, LaunchFails
<1>2. m \in Event /\ m.type = "launch_failed" /\ m.attempt = n
  BY <1>1 DEF Message, Event, Codes
<1>3. inbox' = inbox \cup {m} /\ pending' = pending \ {n}
  BY DEF LaunchFails, Post
<1> HIDE DEF m
<1>4. /\ UNCHANGED <<timers, kill>> /\ UNCHANGED machineVars /\ UNCHANGED historyVars
      /\ UNCHANGED boundVars /\ n \in procs \cup pending
  BY DEF LaunchFails
<1>5. QED
  BY <1>1, <1>2, <1>3, <1>4, EndStep

LEMMA ExitsStep ==
    ASSUME LifecycleInv, NEW n \in procs, NEW code \in Codes, NEW ranLong \in BOOLEAN,
           Exits(n, code, ranLong)
    PROVE  LifecycleInv'
<1> DEFINE m == [Message("exited", n) EXCEPT !.code = code, !.long = ranLong]
<1>1. n \in Nat /\ pending' = pending \ {n}
  BY DEF LifecycleInv, TypeOK, DriverTypeOK, ProcessInv, Exits
<1>2. m \in Event /\ m.type = "exited" /\ m.attempt = n
  BY <1>1 DEF Message, Event
<1>3. inbox' = inbox \cup {m} /\ procs' = procs \ {n}
  BY DEF Exits, Post
<1>4. QED
  BY <1>1, <1>2, <1>3, EndStep DEF Exits

\* The kill that a stop asked for is carried out.
LEMMA KillJobStep ==
    ASSUME LifecycleInv, KillJob
    PROVE  LifecycleInv'
<1> DEFINE M(n) == [Message("exited", n) EXCEPT !.code = 1]
<1>1. /\ UNCHANGED <<kind, policy, success, lastRetry, phase, attempt, end, sub, outcome, pending,
                     timers, launched, expired, stoppedIn, resets, lostAt, crashes, updates,
                     copies, stops>>
      /\ procs' = {} /\ kill' = FALSE /\ kill
      /\ inbox' = inbox \cup {M(n) : n \in procs}
      /\ killed' = (killed \/ procs # {})
  BY DEF KillJob, machineVars, boundVars
<1>2. \A n \in procs : /\ M(n) \in Event /\ M(n).type = "exited" /\ M(n).attempt = n
                       /\ n = attempt /\ n \notin pending /\ n <= attempt
  BY DEF LifecycleInv, TypeOK, MachineTypeOK, DriverTypeOK, ProcessInv, Message, Event, Codes
<1>3. killed' \in BOOLEAN /\ (killed' <=> killed \/ procs # {})
  BY <1>1 DEF LifecycleInv, TypeOK, HistoryTypeOK
<1> HIDE DEF M
<1>4. TypeOK'
  <2>1. MachineTypeOK' /\ HistoryTypeOK'
    BY <1>1, <1>3 DEF LifecycleInv, TypeOK, MachineTypeOK, HistoryTypeOK
  <2>2. DriverTypeOK'
    BY <1>1, <1>2 DEF LifecycleInv, TypeOK, DriverTypeOK
  <2>3. QED  BY <2>1, <2>2 DEF TypeOK
<1>5. ProcessInv'
  BY <1>1 DEF LifecycleInv, ProcessInv
<1>6. ReportInv'
  BY <1>1, <1>2 DEF LifecycleInv, ReportInv
<1>7. (phase = "stopping" /\ sub = "killing") \/ phase = "terminal"
  BY <1>1 DEF LifecycleInv, KillInv
<1>8. KillInv'
  BY <1>1, <1>2, <1>3, <1>7 DEF LifecycleInv, KillInv, ProcessInv
<1>9. RetryInv'
  BY <1>1 DEF LifecycleInv, RetryInv
<1>10. RetriesAreGranted'
  BY <1>1 DEF LifecycleInv, RetriesAreGranted, PolicyPermits
<1>11. StopWins'
  <2>1. phase = "terminal" => (killed' => killed)
    BY <1>3 DEF LifecycleInv, ProcessInv
  <2>2. QED  BY <1>1, <2>1 DEF LifecycleInv, StopWins
<1>12. QED  BY <1>4, <1>5, <1>6, <1>8, <1>9, <1>10, <1>11 DEF LifecycleInv

\* A timer that fires is a deadline that has passed.
LEMMA FireStep ==
    ASSUME LifecycleInv, NEW t \in timers, Fire(t)
    PROVE  LifecycleInv'
<1> DEFINE type == IF t.for = "retry" THEN "retry_deadline" ELSE "stop_deadline"
           m == Message(type, t.attempt)
<1>1. /\ UNCHANGED <<kind, policy, success, lastRetry, phase, attempt, end, sub, outcome, pending,
                     kill, procs, launched, stoppedIn, killed, resets, lostAt, crashes, updates,
                     copies, stops>>
      /\ timers' = timers \ {t} /\ inbox' = inbox \cup {m}
      /\ expired' = IF t.for = "retry" THEN expired \cup {t.attempt} ELSE expired
  BY DEF Fire, Post, machineVars, boundVars
<1>2. t.attempt \in Nat
  BY DEF LifecycleInv, TypeOK, DriverTypeOK, Timer
<1>3. m \in Event /\ m.type = type /\ m.attempt = t.attempt
  BY <1>2, Messages
<1>4. /\ m.type \in {"retry_deadline", "stop_deadline"}
      /\ m.type = "retry_deadline" => m.attempt \in expired'
      /\ expired \subseteq expired' /\ expired' \subseteq Nat
  BY <1>1, <1>2, <1>3 DEF LifecycleInv, TypeOK, HistoryTypeOK
<1> HIDE DEF type, m
<1>5. TypeOK'
  BY <1>1, <1>3, <1>4 DEF LifecycleInv, TypeOK, MachineTypeOK, DriverTypeOK, HistoryTypeOK
<1>6. ProcessInv' /\ RetryInv' /\ KillInv' /\ StopWins'
  BY <1>1 DEF LifecycleInv, ProcessInv, RetryInv, KillInv, StopWins
<1>7. ReportInv'
  BY <1>1, <1>4 DEF LifecycleInv, ReportInv
<1>8. RetriesAreGranted'
  BY <1>1, <1>4 DEF LifecycleInv, RetriesAreGranted, PolicyPermits
<1>9. QED  BY <1>5, <1>6, <1>7, <1>8 DEF LifecycleInv

LEMMA RequestStopStep ==
    ASSUME LifecycleInv, NEW plan \in {"graceful", "kill"}, RequestStop(plan)
    PROVE  LifecycleInv'
<1> DEFINE m == [Message("stop", 0) EXCEPT !.plan = plan]
<1>1. /\ UNCHANGED <<kind, policy, success, lastRetry, phase, attempt, end, sub, outcome, pending,
                     timers, kill, procs, launched, expired, stoppedIn, killed, resets, lostAt,
                     crashes, updates, copies>>
      /\ stops' = stops + 1 /\ inbox' = inbox \cup {m}
  BY DEF RequestStop, Post, machineVars, driverVars, historyVars
<1>2. m \in Event /\ m.type = "stop"
  BY DEF Message, Event, Codes
<1> HIDE DEF m
<1>3. TypeOK'
  BY <1>1, <1>2 DEF LifecycleInv, TypeOK, MachineTypeOK, DriverTypeOK, HistoryTypeOK
<1>4. ProcessInv' /\ RetryInv' /\ KillInv' /\ StopWins'
  BY <1>1 DEF LifecycleInv, ProcessInv, RetryInv, KillInv, StopWins
<1>5. ReportInv'
  BY <1>1, <1>2 DEF LifecycleInv, ReportInv
<1>6. RetriesAreGranted'
  BY <1>1 DEF LifecycleInv, RetriesAreGranted, PolicyPermits
<1>7. QED  BY <1>3, <1>4, <1>5, <1>6 DEF LifecycleInv

-----------------------------------------------------------------------------
(* The theorems. *)

LEMMA LifecycleInvInit == Init => LifecycleInv
<1> SUFFICES ASSUME Init PROVE LifecycleInv
  OBVIOUS
<1>1. NoEnd \in Ends /\ NoOutcome \in Outcomes
  BY DEF NoEnd, Ends, Codes, NoOutcome, Outcomes
<1>2. TypeOK
  <2>1. MachineTypeOK
    BY <1>1 DEF Init, MachineTypeOK
  <2>2. DriverTypeOK
    <3>1. inbox = {} /\ pending = {1} /\ timers = {} /\ kill = FALSE /\ procs = {}
      BY DEF Init
    <3>2. {1} \subseteq Nat
      OBVIOUS
    <3>3. inbox \subseteq Event /\ timers \subseteq Timer
      BY <3>1
    <3>4. QED  BY <3>1, <3>2, <3>3 DEF DriverTypeOK
  <2>3. HistoryTypeOK
    <3>1. /\ launched = {} /\ expired = {} /\ stoppedIn = "none" /\ killed = FALSE
          /\ resets = 0 /\ lostAt = 0 /\ crashes = 0 /\ updates = 0 /\ copies = 0 /\ stops = 0
      BY DEF Init
    <3>2. QED  BY <3>1 DEF HistoryTypeOK
  <2>4. QED  BY <2>1, <2>2, <2>3 DEF TypeOK
<1>3. ProcessInv /\ ReportInv /\ RetryInv /\ KillInv /\ StopWins
  BY DEF Init, ProcessInv, ReportInv, RetryInv, KillInv, StopWins
<1>4. RetriesAreGranted
  <2>1. policy \in Policies /\ policy.for = kind
    BY DEF Init
  <2>2. policy.max \in Nat
    BY <2>1, LifecycleAssumption
  <2>3. QED  BY <2>1, <2>2 DEF Init, RetriesAreGranted
<1>5. QED  BY <1>2, <1>3, <1>4 DEF LifecycleInv

LEMMA LifecycleInvStep == LifecycleInv /\ [Next]_vars => LifecycleInv'
<1> SUFFICES ASSUME LifecycleInv, [Next]_vars PROVE LifecycleInv'
  OBVIOUS
<1>1. CASE UNCHANGED vars
  BY <1>1
     DEF vars, LifecycleInv, TypeOK, MachineTypeOK, DriverTypeOK, HistoryTypeOK, ProcessInv,
         ReportInv, RetryInv, KillInv, RetriesAreGranted, PolicyPermits, StopWins
<1>2. CASE \E e \in inbox : Transition(e)
  BY <1>2, LaunchSucceededStep, LaunchFailedStep, ProcessExitedStep, StopRequestedStep,
     RestartDeadlineReachedStep, StopDeadlineReachedStep, RejectedStep DEF Transition
<1>3. CASE \E p \in Policies : RestartPolicyChanged(p)
  <2>1. success \in CodeSets
    BY DEF LifecycleInv, TypeOK, MachineTypeOK
  <2>2. QED  BY <1>3, <2>1, UpdateStep DEF RestartPolicyChanged
<1>4. CASE \E codes \in CodeSets : SuccessExitCodesChanged(codes)
  <2>1. policy \in Policies /\ policy.for = kind
    BY DEF LifecycleInv, TypeOK, MachineTypeOK
  <2>2. QED  BY <1>4, <2>1, UpdateStep DEF SuccessExitCodesChanged
<1>5. CASE \E n \in pending : Launch(n) \/ LaunchFails(n)
  BY <1>5, LaunchStep, LaunchFailsStep
<1>6. CASE \E n \in procs, code \in Codes, ranLong \in BOOLEAN : Exits(n, code, ranLong)
  BY <1>6, ExitsStep
<1>7. CASE \/ \E t \in timers : Fire(t)
           \/ \E plan \in {"graceful", "kill"} : RequestStop(plan)
           \/ KillJob \/ SupervisorLost
  BY <1>7, FireStep, RequestStopStep, KillJobStep, SupervisorLostStep
<1>8. QED  BY <1>1, <1>2, <1>3, <1>4, <1>5, <1>6, <1>7 DEF Next

LEMMA LifecycleInvHolds == Spec => []LifecycleInv
BY LifecycleInvInit, LifecycleInvStep, PTL DEF Spec

\* Attempts are strictly sequential (execution.rs): there is never a second
\* process, nor one beside a launch that is still to be carried out.
THEOREM AttemptsAreSequential == Spec => []OneProcess
<1>1. LifecycleInv => OneProcess
  <2> SUFFICES ASSUME LifecycleInv PROVE OneProcess
    OBVIOUS
  <2>1. procs \cup pending \in SUBSET {attempt}
    BY DEF LifecycleInv, ProcessInv
  <2>2. IsFiniteSet({attempt}) /\ Cardinality({attempt}) = 1
    BY FS_Singleton
  <2>3. Cardinality(procs \cup pending) <= Cardinality({attempt})
    BY <2>1, <2>2, FS_Subset
  <2>4. QED  BY <2>2, <2>3 DEF OneProcess
<1>2. QED  BY <1>1, LifecycleInvHolds, PTL

\* No launch is outside what the restart policies grant (execution.rs,
\* finish_attempt and reconsider_backoff), for any policies and updates.
THEOREM LaunchesAreGranted == Spec => []RetriesAreGranted
<1>1. LifecycleInv => RetriesAreGranted
  BY DEF LifecycleInv
<1>2. QED  BY <1>1, LifecycleInvHolds, PTL

\* A stop that was accepted decides the outcome (execution.rs, stop_requested),
\* and the outcome admits a kill.
THEOREM AcceptedStopsWin == Spec => []StopWins
<1>1. LifecycleInv => StopWins
  BY DEF LifecycleInv
<1>2. QED  BY <1>1, LifecycleInvHolds, PTL

-----------------------------------------------------------------------------
(***************************************************************************)
(* WorkloadControl, for any number of commands, reloads and repeated       *)
(* effects and reports.                                                    *)
(*                                                                         *)
(* A revision is new when a command creates it and is used up by the first *)
(* execution created for it, so a service that waits for an allocation has *)
(* a revision nothing was created for.  And an identity is used once: the  *)
(* reports that can still create an execution carry an identity that no    *)
(* execution has had.                                                      *)
(***************************************************************************)

\* The identities of the executions that came to life.
Used == {a.exec : a \in created}

\* Revisions are handed out in order, and those a service waits for are unused.
RevisionInv ==
    /\ rev <= commands
    /\ workload = "service" => rev # 0 \/ (intent = "stopped" /\ control = "idle")
    /\ \A a \in created : a.rev <= rev
    /\ workload = "service" => \A a \in created : a.rev # 0
    /\ workload = "job" => rev = 0 /\ allocs = {}
    /\ \A a \in created :
          intent = "running" /\ control \in {"needs", "draining"} => a.rev # rev

\* The execution of the phase and the live ones are known; what ended and was
\* reported never lives again.
IdentityInv ==
    /\ alive \subseteq Used
    /\ exec # 0 => exec \in Used
    /\ \A e \in reports :
          e.type = "terminated" => e.exec \in Used /\ e.exec \notin alive

\* A report that may create an execution carries an unused identity of its own.
CreationInv ==
    /\ \A e \in reports : e.exec \in 1..ids /\ e.next <= ids
    /\ \A e \in reports : e.type = "allocated" =>
          /\ workload = "service"
          /\ \A a \in created : a.exec = e.exec => a.rev = e.rev
          /\ \A f \in reports : f.type = "allocated" /\ f.exec = e.exec => f = e
    /\ \A e \in reports :
          e.type = "terminated" /\ e.rerun = "start" /\ workload = "job" /\ e.exec = exec
            => e.next # 0 /\ e.next \notin Used

\* A stop leaves nothing that would create an execution.
StopInv == intent = "running" \/ after = "rerun" => latest # "stop"

ControlInv ==
    /\ ControlTypeOK /\ RevisionInv /\ IdentityInv /\ CreationInv /\ StopInv
    /\ LiveIsControlled /\ OnePerRevision

-----------------------------------------------------------------------------
(* Identities. *)

\* The identities in use were handed out.
LEMMA UsedAreHandedOut == ControlTypeOK => Used \subseteq 1..ids
<1> SUFFICES ASSUME ControlTypeOK, NEW a \in created PROVE a.exec \in 1..ids
  BY DEF Used
<1>1. a \in [exec : 1..ids, rev : Nat]
  BY DEF ControlTypeOK, WorldTypeOK
<1>2. QED  BY <1>1

\* An execution that comes to life uses its identity.
LEMMA LiveUses ==
    ASSUME NEW x, NEW r, Live(x, r)
    PROVE  Used' = Used \cup {x}
<1> DEFINE a == [exec |-> x, rev |-> r]
<1>1. created' = created \cup {a} /\ a.exec = x
  BY DEF Live
<1> HIDE DEF a
<1>2. QED  BY <1>1 DEF Used

-----------------------------------------------------------------------------
(* Commands to a service. *)

\* A command that leaves the executions, the identities and the reports alone
\* keeps what is said of them.
LEMMA CommandKeepsIdentities ==
    ASSUME ControlInv, UNCHANGED <<workload, alive, created, reports, ids>>,
           exec' \in {0, exec}
    PROVE  IdentityInv' /\ CreationInv'
<1>1. Used' = Used
  BY DEF Used
<1>2. IdentityInv'
  BY <1>1 DEF ControlInv, IdentityInv
<1>3. CreationInv'
  <2>1. ASSUME NEW e \in reports, workload = "job", e.type = "terminated", e.exec = exec'
        PROVE  e.exec = exec
    <3>1. e.exec # 0
      BY <2>1 DEF ControlInv, ControlTypeOK, WorldTypeOK, IdentityInv, Used
    <3>2. QED  BY <2>1, <3>1
  <2>2. QED  BY <1>1, <2>1 DEF ControlInv, CreationInv
<1>4. QED  BY <1>2, <1>3

\* A command at most asks for an allocation and for one stop.
LEMMA CommandKeepsWorld ==
    ASSUME ControlTypeOK, UNCHANGED <<alive, created, reports, ids>>,
           allocs' \in {allocs, allocs \cup {commands + 1}},
           stopping' = stopping \/ (exec # 0 /\ stopping' = stopping \cup {exec})
    PROVE  WorldTypeOK'
<1>1. commands + 1 \in Nat /\ allocs \in SUBSET Nat
  BY DEF ControlTypeOK, WorldTypeOK
<1>2. allocs' \subseteq Nat
  BY <1>1
<1>3. exec # 0 => exec \in 1..ids
  BY DEF ControlTypeOK, IntentTypeOK
<1>4. stopping \subseteq 1..ids
  BY DEF ControlTypeOK, WorldTypeOK
<1>5. stopping' \subseteq 1..ids
  <2> DEFINE known == 1..ids
  <2> HIDE DEF known
  <2>1. (exec # 0 => exec \in known) /\ stopping \subseteq known
    BY <1>3, <1>4 DEF known
  <2>2. stopping' \subseteq known
    BY <2>1
  <2>3. QED  BY <2>2 DEF known
<1>6. QED  BY <1>2, <1>5 DEF ControlTypeOK, WorldTypeOK

LEMMA ServiceStartStep ==
    ASSUME ControlInv, ServiceStart
    PROVE  ControlInv'
<1>1. IntentTypeOK' /\ commands' \in Nat /\ latest' \in {"start", "restart", "stop"}
  BY DEF ControlInv, ControlTypeOK, IntentTypeOK, ServiceStart,
         Command, Needs, DrainsFirst, Revision
<1>2. UNCHANGED <<workload, defined, alive, created, reports, ids, repeats, reloads>>
  BY DEF ServiceStart, Command, Needs, DrainsFirst,
     Revision
<1>3. /\ exec' \in {0, exec} /\ allocs' \in {allocs, allocs \cup {commands + 1}}
      /\ stopping' = stopping \/ (exec # 0 /\ stopping' = stopping \cup {exec})
  BY DEF ControlInv, ControlTypeOK, IntentTypeOK, ServiceStart,
         Command, Needs, DrainsFirst, Revision
<1>4. WorldTypeOK'
  BY <1>2, <1>3, CommandKeepsWorld DEF ControlInv
<1>5. RevisionInv' /\ StopInv'
  BY DEF ControlInv, ControlTypeOK, IntentTypeOK, WorldTypeOK, RevisionInv,
         StopInv, ServiceStart, Command, Needs, DrainsFirst,
         Revision
<1>6. IdentityInv' /\ CreationInv'
  BY <1>2, <1>3, CommandKeepsIdentities
<1>7. LiveIsControlled' /\ OnePerRevision'
  BY DEF ControlInv, ControlTypeOK, IntentTypeOK, LiveIsControlled,
         OnePerRevision, ServiceStart, Command, Needs,
         DrainsFirst, Revision
<1>8. QED
  BY <1>1, <1>2, <1>4, <1>5, <1>6, <1>7 DEF ControlInv, ControlTypeOK

LEMMA ServiceRestartStep ==
    ASSUME ControlInv, ServiceRestart
    PROVE  ControlInv'
<1>1. IntentTypeOK' /\ commands' \in Nat /\ latest' \in {"start", "restart", "stop"}
  BY DEF ControlInv, ControlTypeOK, IntentTypeOK, ServiceRestart,
         Command, Needs, DrainsFirst, Revision
<1>2. UNCHANGED <<workload, defined, alive, created, reports, ids, repeats, reloads>>
  BY DEF ServiceRestart, Command, Needs, DrainsFirst,
     Revision
<1>3. /\ exec' \in {0, exec} /\ allocs' \in {allocs, allocs \cup {commands + 1}}
      /\ stopping' = stopping \/ (exec # 0 /\ stopping' = stopping \cup {exec})
  BY DEF ControlInv, ControlTypeOK, IntentTypeOK, ServiceRestart,
         Command, Needs, DrainsFirst, Revision
<1>4. WorldTypeOK'
  BY <1>2, <1>3, CommandKeepsWorld DEF ControlInv
<1>5. RevisionInv' /\ StopInv'
  BY DEF ControlInv, ControlTypeOK, IntentTypeOK, WorldTypeOK, RevisionInv,
         StopInv, ServiceRestart, Command, Needs, DrainsFirst,
         Revision
<1>6. IdentityInv' /\ CreationInv'
  BY <1>2, <1>3, CommandKeepsIdentities
<1>7. LiveIsControlled' /\ OnePerRevision'
  BY DEF ControlInv, ControlTypeOK, IntentTypeOK, LiveIsControlled,
         OnePerRevision, ServiceRestart, Command, Needs,
         DrainsFirst, Revision
<1>8. QED
  BY <1>1, <1>2, <1>4, <1>5, <1>6, <1>7 DEF ControlInv, ControlTypeOK

LEMMA ServiceStopStep ==
    ASSUME ControlInv, ServiceStop
    PROVE  ControlInv'
<1>1. IntentTypeOK' /\ commands' \in Nat /\ latest' \in {"start", "restart", "stop"}
  BY DEF ControlInv, ControlTypeOK, IntentTypeOK, ServiceStop, Command
<1>2. UNCHANGED <<workload, defined, alive, created, reports, ids, repeats, reloads>>
  BY DEF ServiceStop, Command
<1>3. /\ exec' \in {0, exec} /\ allocs' \in {allocs, allocs \cup {commands + 1}}
      /\ stopping' = stopping \/ (exec # 0 /\ stopping' = stopping \cup {exec})
  BY DEF ControlInv, ControlTypeOK, IntentTypeOK, ServiceStop, Command
<1>4. WorldTypeOK'
  BY <1>2, <1>3, CommandKeepsWorld DEF ControlInv
<1>5. RevisionInv' /\ StopInv'
  BY DEF ControlInv, ControlTypeOK, IntentTypeOK, WorldTypeOK, RevisionInv,
         StopInv, ServiceStop, Command
<1>6. IdentityInv' /\ CreationInv'
  BY <1>2, <1>3, CommandKeepsIdentities
<1>7. LiveIsControlled' /\ OnePerRevision'
  BY DEF ControlInv, ControlTypeOK, IntentTypeOK, LiveIsControlled,
         OnePerRevision, ServiceStop, Command
<1>8. QED
  BY <1>1, <1>2, <1>4, <1>5, <1>6, <1>7 DEF ControlInv, ControlTypeOK

-----------------------------------------------------------------------------
(* Commands to a job. *)

\* A job that is idle gets an execution with a new identity.
LEMMA JobStartsStep ==
    ASSUME ControlInv, workload = "job", NEW name \in {"start", "restart"}, JobStarts(name)
    PROVE  ControlInv'
<1>1. /\ Live(ids + 1, 0) /\ ids' = ids + 1 /\ exec' = ids + 1 /\ ids \in Nat
      /\ control = "idle" /\ control' = "active"
      /\ UNCHANGED <<workload, defined, intent, rev, after, allocs, stopping, reports, repeats,
                     reloads>>
  BY DEF JobStarts, ControlInv, ControlTypeOK
<1>2. /\ IntentTypeOK' /\ commands' \in Nat /\ latest' \in {"start", "restart"}
      /\ latest' # "stop"
  BY DEF ControlInv, ControlTypeOK, IntentTypeOK, JobStarts
<1>3. alive = {} /\ alive' = {ids + 1}
  BY <1>1 DEF ControlInv, LiveIsControlled, Live
<1>4. Used' = Used \cup {ids + 1} /\ Used \subseteq 1..ids
  BY <1>1, LiveUses, UsedAreHandedOut DEF ControlInv
<1>5. WorldTypeOK'
  <2>1. stopping' \subseteq 1..ids' /\ alive' \subseteq 1..ids'
    BY <1>1, <1>3 DEF ControlInv, ControlTypeOK, WorldTypeOK
  <2>2. created' \subseteq [exec : 1..ids', rev : Nat]
    BY <1>1 DEF ControlInv, ControlTypeOK, WorldTypeOK, Live
  <2>3. QED  BY <1>1, <2>1, <2>2 DEF ControlInv, ControlTypeOK, WorldTypeOK
<1>6. RevisionInv'
  BY <1>1
     DEF ControlInv, ControlTypeOK, IntentTypeOK, RevisionInv, JobStarts,
         Live
<1>7. \A e \in reports : e.type = "terminated" => e.exec # ids + 1
  BY <1>1, <1>4 DEF ControlInv, IdentityInv
<1>8. IdentityInv'
  BY <1>1, <1>3, <1>4, <1>7 DEF ControlInv, IdentityInv
<1>9. CreationInv'
  <2>1. \A e \in reports : e.type # "allocated"
    BY DEF ControlInv, CreationInv
  <2>2. \A e \in reports : e.exec \in Nat /\ e.next \in Nat
    BY DEF ControlInv, ControlTypeOK, WorldTypeOK, Report
  <2>3. QED  BY <1>1, <1>7, <2>1, <2>2 DEF ControlInv, CreationInv
<1>10. StopInv'
  BY <1>2 DEF StopInv
<1>11. LiveIsControlled'
  BY <1>1, <1>3 DEF LiveIsControlled
<1>12. OnePerRevision'
  BY <1>1 DEF ControlInv, OnePerRevision, Live
<1>13. QED
  BY <1>1, <1>2, <1>5, <1>6, <1>8, <1>9, <1>10, <1>11, <1>12 DEF ControlInv, ControlTypeOK

\* A command to an active job changes at most what follows its execution.
LEMMA JobCommandStep ==
    ASSUME ControlInv, workload = "job", NEW name, Command(name),
           UNCHANGED <<intent, control, rev, exec, allocs, ids>>,
           stopping' = stopping \/ (exec # 0 /\ stopping' = stopping \cup {exec}),
           \/ name = latest /\ UNCHANGED after
           \/ name = "restart" /\ control = "active" /\ after' = "rerun"
           \/ name = "stop" /\ after' = "nothing"
    PROVE  ControlInv'
<1>1. /\ UNCHANGED <<workload, defined, alive, created, reports, repeats, reloads>>
      /\ commands' = commands + 1 /\ latest' = name
  BY DEF Command
<1>2. /\ IntentTypeOK' /\ commands' \in Nat
      /\ latest' \in {"none", "start", "restart", "stop"}
  BY <1>1 DEF ControlInv, ControlTypeOK, IntentTypeOK
<1>3. WorldTypeOK'
  BY <1>1, CommandKeepsWorld DEF ControlInv
<1>4. RevisionInv'
  BY <1>1 DEF ControlInv, ControlTypeOK, IntentTypeOK, RevisionInv
<1>5. StopInv'
  BY <1>1 DEF ControlInv, ControlTypeOK, IntentTypeOK, StopInv
<1>6. IdentityInv' /\ CreationInv'
  BY <1>1, CommandKeepsIdentities
<1>7. LiveIsControlled' /\ OnePerRevision'
  BY <1>1 DEF ControlInv, LiveIsControlled, OnePerRevision
<1>8. QED
  BY <1>1, <1>2, <1>3, <1>4, <1>5, <1>6, <1>7 DEF ControlInv, ControlTypeOK

LEMMA JobStep ==
    ASSUME ControlInv, JobStart \/ JobRerun \/ JobCancel
    PROVE  ControlInv'
<1>1. control = "active" => exec # 0
  BY DEF ControlInv, ControlTypeOK, IntentTypeOK
<1>2. CASE JobStart
  BY <1>2, JobStartsStep, JobCommandStep DEF JobStart, controlVars
<1>3. CASE JobRerun
  BY <1>1, <1>3, JobStartsStep, JobCommandStep DEF JobRerun
<1>4. CASE JobCancel
  BY <1>1, <1>4, JobCommandStep DEF JobCancel
<1>5. QED  BY <1>2, <1>3, <1>4

-----------------------------------------------------------------------------
(* Reports. *)

\* The allocation a service waits for: its revision and its identity are unused.
LEMMA ExecutionAllocatedStep ==
    ASSUME ControlInv, NEW e \in reports, ExecutionAllocated(e)
    PROVE  ControlInv'
<1>1. /\ Live(e.exec, e.rev) /\ e.type = "allocated" /\ e.rev = rev
      /\ intent = "running" /\ control = "needs" /\ control' = "active" /\ exec' = e.exec
      /\ UNCHANGED <<workload, defined, intent, rev, after, allocs, stopping, ids, latest, commands,
                     reloads>>
      /\ reports' \in {reports, reports \ {e}} /\ repeats' \in {repeats, repeats + 1}
  BY DEF ExecutionAllocated, Awaited, TakeReport
<1>2. /\ workload = "service" /\ e.exec \in 1..ids /\ e.rev \in Nat /\ ids \in Nat
      /\ rev # 0 /\ reports' \subseteq reports /\ repeats' \in Nat
  <2>1. workload = "service"
    BY <1>1 DEF ControlInv, CreationInv
  <2>2. e \in Report
    BY DEF ControlInv, ControlTypeOK, WorldTypeOK
  <2>3. QED  BY <1>1, <2>1, <2>2
     DEF ControlInv, ControlTypeOK, IntentTypeOK, RevisionInv, CreationInv,
         Report
<1>3. \A a \in created : a.rev # rev
  BY <1>1 DEF ControlInv, RevisionInv
<1>4. e.exec \notin Used
  BY <1>1, <1>3 DEF ControlInv, CreationInv, Used
<1>5. Used' = Used \cup {e.exec}
  BY <1>1, LiveUses
<1>6. alive = {} /\ alive' = {e.exec}
  BY <1>1 DEF ControlInv, LiveIsControlled, Live
<1>7. IntentTypeOK'
  BY <1>1, <1>2 DEF ControlInv, ControlTypeOK, IntentTypeOK
<1>8. WorldTypeOK'
  <2>1. created' \subseteq [exec : 1..ids', rev : Nat]
    BY <1>1, <1>2 DEF ControlInv, ControlTypeOK, WorldTypeOK, Live
  <2>2. alive' \subseteq 1..ids'
    BY <1>1, <1>2, <1>6
  <2>3. QED  BY <1>1, <1>2, <2>1, <2>2 DEF ControlInv, ControlTypeOK, WorldTypeOK
<1>9. RevisionInv'
  BY <1>1, <1>2 DEF ControlInv, ControlTypeOK, IntentTypeOK, RevisionInv, Live
<1>10. IdentityInv'
  BY <1>1, <1>2, <1>4, <1>5, <1>6 DEF ControlInv, IdentityInv
<1>11. CreationInv'
  BY <1>1, <1>2, <1>5 DEF ControlInv, CreationInv, Live
<1>12. StopInv' /\ LiveIsControlled'
  BY <1>1, <1>6 DEF ControlInv, StopInv, LiveIsControlled
<1>13. OnePerRevision'
  BY <1>1, <1>3 DEF ControlInv, OnePerRevision, Live
<1>14. QED
  BY <1>1, <1>2, <1>7, <1>8, <1>9, <1>10, <1>11, <1>12, <1>13 DEF ControlInv, ControlTypeOK

\* The execution of the phase has ended, so no execution is alive.
LEMMA CurrentEnded ==
    ASSUME ControlInv, NEW e \in reports, e.type = "terminated", CurrentExecution(e)
    PROVE  alive = {} /\ exec # 0
BY DEF ControlInv, ControlTypeOK, IntentTypeOK, IdentityInv, LiveIsControlled,
       CurrentExecution

\* The service becomes idle or blocked, or asks for its replacement.
LEMMA ServiceTerminatedStep ==
    ASSUME ControlInv, NEW e \in reports, ServiceTerminated(e)
    PROVE  ControlInv'
<1>1. /\ workload = "service" /\ exec' \in {0, exec} /\ alive = {}
      /\ UNCHANGED <<workload, defined, after, stopping, alive, created, ids, latest, commands,
                     reloads>>
      /\ reports' \subseteq reports /\ repeats' \in {repeats, repeats + 1}
      /\ UNCHANGED <<intent, rev>> /\ allocs' \in {allocs, allocs \cup {rev}}
  BY CurrentEnded DEF ServiceTerminated, TakeReport, Needs
<1>2. IntentTypeOK' /\ repeats' \in Nat
  BY <1>1
     DEF ControlInv, ControlTypeOK, IntentTypeOK, ServiceTerminated,
         Needs, CurrentExecution
<1>3. WorldTypeOK'
  <2>1. rev \in Nat /\ allocs \in SUBSET Nat
    BY DEF ControlInv, ControlTypeOK, IntentTypeOK, WorldTypeOK
  <2>2. allocs' \subseteq Nat
    BY <1>1, <2>1
  <2>3. QED  BY <1>1, <2>2 DEF ControlInv, ControlTypeOK, WorldTypeOK
<1>4. RevisionInv'
  BY <1>1
     DEF ControlInv, ControlTypeOK, IntentTypeOK, RevisionInv,
         ServiceTerminated, Needs, CurrentExecution
<1>5. Used' = Used
  BY <1>1 DEF Used
<1>6. IdentityInv' /\ CreationInv'
  BY <1>1, <1>5 DEF ControlInv, IdentityInv, CreationInv
<1>7. StopInv' /\ LiveIsControlled' /\ OnePerRevision'
  BY <1>1 DEF ControlInv, StopInv, LiveIsControlled, OnePerRevision
<1>8. QED
  BY <1>1, <1>2, <1>3, <1>4, <1>6, <1>7 DEF ControlInv, ControlTypeOK

\* A rerun starts with the identity the report brings, which is unused.
LEMMA JobTerminatedStep ==
    ASSUME ControlInv, NEW e \in reports, JobTerminated(e)
    PROVE  ControlInv'
<1>1. /\ workload = "job" /\ e.type = "terminated" /\ e.exec = exec /\ control = "active"
      /\ alive = {} /\ exec # 0 /\ after' = "nothing"
      /\ UNCHANGED <<workload, defined, intent, rev, allocs, stopping, ids, latest, commands,
                     reloads>>
      /\ reports' \subseteq reports /\ repeats' \in {repeats, repeats + 1}
  BY CurrentEnded
     DEF JobTerminated, TakeReport, CurrentExecution, ControlInv, ControlTypeOK,
         IntentTypeOK
<1>2. CASE e.rerun = "start"
  <2>1. /\ exec' = e.next /\ Live(e.next, 0) /\ control' = "active"
        /\ e.next \in 1..ids /\ e.next \notin Used /\ ids \in Nat
    <3>1. e \in Report
      BY DEF ControlInv, ControlTypeOK, WorldTypeOK
    <3>2. QED  BY <1>1, <1>2, <3>1
       DEF JobTerminated, ControlInv, ControlTypeOK, CreationInv, Report
  <2>2. Used' = Used \cup {e.next} /\ alive' = {e.next}
    BY <1>1, <2>1, LiveUses DEF Live
  <2>3. IntentTypeOK' /\ repeats' \in Nat
    BY <1>1, <2>1 DEF ControlInv, ControlTypeOK, IntentTypeOK
  <2>4. WorldTypeOK'
    <3>1. created' \subseteq [exec : 1..ids', rev : Nat]
      BY <1>1, <2>1 DEF ControlInv, ControlTypeOK, WorldTypeOK, Live
    <3>2. alive' \subseteq 1..ids'
      BY <1>1, <2>1, <2>2
    <3>3. QED  BY <1>1, <3>1, <3>2 DEF ControlInv, ControlTypeOK, WorldTypeOK
  <2>5. RevisionInv'
    BY <1>1, <2>1
       DEF ControlInv, ControlTypeOK, IntentTypeOK, RevisionInv, Live
  <2>6. IdentityInv'
    BY <1>1, <2>1, <2>2 DEF ControlInv, IdentityInv
  <2>7. CreationInv'
    <3>1. \A f \in reports : f.type # "allocated"
      BY <1>1 DEF ControlInv, CreationInv
    <3>2. \A f \in reports : f.type = "terminated" => f.exec # exec'
      BY <2>1 DEF ControlInv, IdentityInv
    <3>3. QED  BY <1>1, <3>1, <3>2 DEF ControlInv, CreationInv
  <2>8. StopInv' /\ LiveIsControlled' /\ OnePerRevision'
    BY <1>1, <2>1, <2>2
       DEF ControlInv, ControlTypeOK, IntentTypeOK, StopInv, LiveIsControlled,
           OnePerRevision, Live
  <2>9. QED
    BY <1>1, <2>3, <2>4, <2>5, <2>6, <2>7, <2>8 DEF ControlInv, ControlTypeOK
<1>3. CASE e.rerun # "start"
  <2>1. control' = "idle" /\ exec' = 0 /\ UNCHANGED <<alive, created>>
    BY <1>3 DEF JobTerminated
  <2>2. IntentTypeOK' /\ repeats' \in Nat
    BY <1>1, <2>1 DEF ControlInv, ControlTypeOK, IntentTypeOK
  <2>3. WorldTypeOK'
    BY <1>1, <2>1 DEF ControlInv, ControlTypeOK, WorldTypeOK
  <2>4. RevisionInv'
    BY <1>1, <2>1 DEF ControlInv, ControlTypeOK, IntentTypeOK, RevisionInv
  <2>5. Used' = Used
    BY <2>1 DEF Used
  <2>6. IdentityInv'
    BY <1>1, <2>1, <2>5 DEF ControlInv, IdentityInv
  <2>7. CreationInv'
    <3>1. \A f \in reports : f.type = "terminated" => f.exec # 0
      BY UsedAreHandedOut DEF ControlInv, IdentityInv, ControlTypeOK
    <3>2. \A f \in reports : f.type # "allocated"
      BY <1>1 DEF ControlInv, CreationInv
    <3>3. QED  BY <1>1, <2>1, <3>1, <3>2 DEF ControlInv, CreationInv
  <2>8. StopInv' /\ LiveIsControlled' /\ OnePerRevision'
    BY <1>1, <2>1
       DEF ControlInv, ControlTypeOK, IntentTypeOK, StopInv, LiveIsControlled,
           OnePerRevision
  <2>9. QED
    BY <1>1, <2>2, <2>3, <2>4, <2>6, <2>7, <2>8 DEF ControlInv, ControlTypeOK
<1>4. QED  BY <1>2, <1>3

\* A report that is refused is gone, and nothing else happens.
LEMMA RefusedStep ==
    ASSUME ControlInv, NEW e \in reports, Refused(e)
    PROVE  ControlInv'
<1>1. /\ UNCHANGED <<workload, defined, intent, control, rev, exec, after, allocs, stopping, alive, ids,
                     created, latest, commands, repeats, reloads>>
      /\ reports' \subseteq reports
  BY DEF Refused, controlVars
<1>2. ControlTypeOK'
  BY <1>1 DEF ControlInv, ControlTypeOK, IntentTypeOK, WorldTypeOK
<1>3. Used' = Used
  BY <1>1 DEF Used
<1>4. RevisionInv' /\ IdentityInv' /\ CreationInv' /\ StopInv'
  BY <1>1, <1>3 DEF ControlInv, RevisionInv, IdentityInv, CreationInv, StopInv
<1>5. LiveIsControlled' /\ OnePerRevision'
  BY <1>1 DEF ControlInv, LiveIsControlled, OnePerRevision
<1>6. QED  BY <1>2, <1>4, <1>5 DEF ControlInv
-----------------------------------------------------------------------------
(* The controller and the execution. *)

\* An allocation is reported with a new identity.
LEMMA AllocateStep ==
    ASSUME ControlInv, NEW r \in allocs, Allocate(r)
    PROVE  ControlInv'
<1> DEFINE new == [type |-> "allocated", rev |-> r, exec |-> ids + 1, rerun |-> "none",
                   next |-> 0]
<1>1. /\ UNCHANGED <<workload, defined, intent, control, rev, exec, after, stopping, alive, created,
                     latest, commands, reloads>>
      /\ reports' = reports \cup {new} /\ ids' = ids + 1
      /\ allocs' \subseteq allocs /\ repeats' \in {repeats, repeats + 1}
  BY DEF Allocate, controlVars
<1>2. /\ ids \in Nat /\ r \in Nat /\ workload = "service" /\ repeats' \in Nat
  <2>1. r \in Nat
    BY DEF ControlInv, ControlTypeOK, WorldTypeOK
  <2>2. QED  BY <1>1, <2>1 DEF ControlInv, ControlTypeOK, IntentTypeOK, RevisionInv
<1>3. /\ new \in Report /\ new.type = "allocated" /\ new.exec = ids + 1 /\ new.next = 0
      /\ new.type # "terminated"
  BY <1>2 DEF Report
<1> HIDE DEF new
<1>4. IntentTypeOK'
  BY <1>1, <1>2 DEF ControlInv, ControlTypeOK, IntentTypeOK
<1>5. WorldTypeOK'
  <2>1. 1..ids \subseteq 1..ids'
    BY <1>1, <1>2
  <2>2. created' \subseteq [exec : 1..ids', rev : Nat]
    BY <1>1, <2>1 DEF ControlInv, ControlTypeOK, WorldTypeOK
  <2>3. stopping' \subseteq 1..ids' /\ alive' \subseteq 1..ids'
    BY <1>1, <2>1 DEF ControlInv, ControlTypeOK, WorldTypeOK
  <2>4. QED  BY <1>1, <1>3, <2>2, <2>3 DEF ControlInv, ControlTypeOK, WorldTypeOK
<1>6. Used' = Used /\ Used \subseteq 1..ids
  BY <1>1, UsedAreHandedOut DEF Used, ControlInv
<1>7. RevisionInv' /\ StopInv'
  BY <1>1, <1>2 DEF ControlInv, RevisionInv, StopInv
<1>8. IdentityInv'
  BY <1>1, <1>3, <1>6 DEF ControlInv, IdentityInv
<1>9. CreationInv'
  <2>1. \A e \in reports : e.exec \in 1..ids /\ e.next \in Nat /\ e.next <= ids
    BY DEF ControlInv, ControlTypeOK, WorldTypeOK, CreationInv, Report
  <2>2. \A a \in created : a.exec # ids + 1
    BY <1>2, <1>6 DEF Used
  <2>3. \A e \in reports' : e.exec \in 1..ids' /\ e.next <= ids'
    BY <1>1, <1>2, <1>3, <2>1
  <2>4. ASSUME NEW e \in reports', e.type = "allocated"
        PROVE  /\ workload' = "service"
               /\ \A a \in created' : a.exec = e.exec => a.rev = e.rev
               /\ \A f \in reports' : f.type = "allocated" /\ f.exec = e.exec => f = e
    BY <1>1, <1>2, <1>3, <2>1, <2>2, <2>4 DEF ControlInv, CreationInv
  <2>5. QED  BY <1>1, <1>2, <2>3, <2>4 DEF CreationInv
<1>10. LiveIsControlled' /\ OnePerRevision'
  BY <1>1 DEF ControlInv, LiveIsControlled, OnePerRevision
<1>11. QED
  BY <1>1, <1>2, <1>4, <1>5, <1>7, <1>8, <1>9, <1>10 DEF ControlInv, ControlTypeOK

LEMMA EndsStep ==
    ASSUME ControlInv, NEW x \in alive, Terminates(x)
    PROVE  ControlInv'
<1>1. /\ UNCHANGED <<workload, defined, intent, control, rev, exec, after, allocs, reports, ids,
                     created, latest, commands, repeats, reloads>>
      /\ alive' \subseteq alive /\ stopping' \subseteq stopping
  BY DEF Terminates, controlVars
<1>2. ControlTypeOK'
  BY <1>1 DEF ControlInv, ControlTypeOK, IntentTypeOK, WorldTypeOK
<1>3. Used' = Used
  BY <1>1 DEF Used
<1>4. RevisionInv' /\ IdentityInv' /\ CreationInv' /\ StopInv'
  BY <1>1, <1>3 DEF ControlInv, RevisionInv, IdentityInv, CreationInv, StopInv
<1>5. LiveIsControlled' /\ OnePerRevision'
  BY <1>1 DEF ControlInv, LiveIsControlled, OnePerRevision
<1>6. QED  BY <1>2, <1>4, <1>5 DEF ControlInv

\* The end of the current execution is reported, with a new identity for a rerun.
LEMMA ReportEndStep ==
    ASSUME ControlInv, ReportEnd
    PROVE  ControlInv'
<1>1. /\ UNCHANGED <<workload, defined, intent, control, rev, exec, after, allocs, stopping, alive,
                     created, latest, commands, repeats, reloads>>
      /\ control \in {"active", "draining"} /\ exec \notin alive
      /\ ids \in Nat /\ exec \in 1..ids /\ exec \in Used
  BY DEF ReportEnd, controlVars, ControlInv, ControlTypeOK,
         IntentTypeOK, IdentityInv
<1>2. PICK new \in Report :
        /\ reports' = reports \cup {new}
        /\ new.type = "terminated" /\ new.exec = exec
        /\ ids' \in {ids, ids + 1} /\ new.next <= ids'
        /\ new.rerun = "start" /\ workload = "job" => new.next = ids + 1
  <2> DEFINE again == workload = "job" /\ after = "rerun" /\ defined
             kept == IF after = "nothing" THEN "not_requested"
                     ELSE IF defined THEN "start" ELSE "missing"
             e == [type |-> "terminated", rev |-> 0, exec |-> exec, rerun |-> kept,
                   next |-> ids']
  <2>1. ids' = (IF again THEN ids + 1 ELSE ids) /\ reports' = reports \cup {e}
    BY DEF ReportEnd
  <2>2. kept \in {"none", "not_requested", "start", "missing"}
    OBVIOUS
  <2>3. kept = "start" /\ workload = "job" => again
    BY DEF ControlInv, ControlTypeOK, IntentTypeOK
  <2>4. ids' \in {ids, ids + 1} /\ (again => ids' = ids + 1)
    BY <2>1
  <2> HIDE DEF again, kept
  <2>5. e \in Report
    BY <1>1, <2>2, <2>4 DEF Report
  <2>6. QED  BY <1>1, <2>1, <2>3, <2>4, <2>5
<1>3. IntentTypeOK' /\ ids' \in Nat
  BY <1>1, <1>2 DEF ControlInv, ControlTypeOK, IntentTypeOK
<1>4. WorldTypeOK'
  <2>1. 1..ids \subseteq 1..ids'
    BY <1>1, <1>2
  <2>2. created' \subseteq [exec : 1..ids', rev : Nat]
    BY <1>1, <2>1 DEF ControlInv, ControlTypeOK, WorldTypeOK
  <2>3. stopping' \subseteq 1..ids' /\ alive' \subseteq 1..ids'
    BY <1>1, <2>1 DEF ControlInv, ControlTypeOK, WorldTypeOK
  <2>4. QED  BY <1>1, <1>2, <2>2, <2>3 DEF ControlInv, ControlTypeOK, WorldTypeOK
<1>5. Used' = Used /\ Used \subseteq 1..ids
  BY <1>1, UsedAreHandedOut DEF Used, ControlInv
<1>6. RevisionInv' /\ StopInv'
  BY <1>1 DEF ControlInv, RevisionInv, StopInv
<1>7. IdentityInv'
  BY <1>1, <1>2, <1>5 DEF ControlInv, IdentityInv
<1>8. CreationInv'
  <2>1. \A e \in reports : e.exec \in 1..ids /\ e.next \in Nat /\ e.next <= ids
    BY DEF ControlInv, ControlTypeOK, WorldTypeOK, CreationInv, Report
  <2>2. \A e \in reports' : e.exec \in 1..ids' /\ e.next <= ids'
    BY <1>1, <1>2, <2>1
  <2>3. new.rerun = "start" /\ workload = "job" => new.next # 0 /\ new.next \notin Used
    BY <1>1, <1>2, <1>5
  <2>4. QED  BY <1>1, <1>2, <1>5, <2>2, <2>3 DEF ControlInv, CreationInv
<1>9. LiveIsControlled' /\ OnePerRevision'
  BY <1>1 DEF ControlInv, LiveIsControlled, OnePerRevision
<1>10. QED
  BY <1>1, <1>3, <1>4, <1>6, <1>7, <1>8, <1>9 DEF ControlInv, ControlTypeOK

LEMMA ReloadStep ==
    ASSUME ControlInv, Reload
    PROVE  ControlInv'
<1>1. /\ UNCHANGED <<workload, intent, control, rev, exec, after, allocs, stopping, alive, reports, ids,
                     created, latest, commands, repeats>>
      /\ reloads' = reloads + 1 /\ defined' \in BOOLEAN
  BY DEF Reload, controlVars, worldVars
<1>2. ControlTypeOK'
  BY <1>1 DEF ControlInv, ControlTypeOK, IntentTypeOK, WorldTypeOK
<1>3. Used' = Used
  BY <1>1 DEF Used
<1>4. RevisionInv' /\ IdentityInv' /\ CreationInv' /\ StopInv'
  BY <1>1, <1>3 DEF ControlInv, RevisionInv, IdentityInv, CreationInv, StopInv
<1>5. LiveIsControlled' /\ OnePerRevision'
  BY <1>1 DEF ControlInv, LiveIsControlled, OnePerRevision
<1>6. QED  BY <1>2, <1>4, <1>5 DEF ControlInv

-----------------------------------------------------------------------------
(* The theorems. *)

LEMMA ControlInvInit == ControlInit => ControlInv
<1> SUFFICES ASSUME ControlInit PROVE ControlInv
  OBVIOUS
<1>1. ControlTypeOK
  BY DEF ControlInit, ControlTypeOK, IntentTypeOK, WorldTypeOK
<1>2. RevisionInv /\ IdentityInv /\ CreationInv /\ StopInv
  BY DEF ControlInit, RevisionInv, IdentityInv, CreationInv, StopInv, Used
<1>3. LiveIsControlled /\ OnePerRevision
  BY DEF ControlInit, LiveIsControlled, OnePerRevision
<1>4. QED  BY <1>1, <1>2, <1>3 DEF ControlInv

LEMMA ControlInvStep == ControlInv /\ [ControlNext]_workloadVars => ControlInv'
<1> SUFFICES ASSUME ControlInv, [ControlNext]_workloadVars PROVE ControlInv'
  OBVIOUS
<1>1. CASE UNCHANGED workloadVars
  <2>1. Used' = Used
    BY <1>1 DEF workloadVars, Used
  <2>2. QED
    BY <1>1, <2>1
       DEF workloadVars, ControlInv, ControlTypeOK, IntentTypeOK, WorldTypeOK,
           RevisionInv, IdentityInv, CreationInv, StopInv, LiveIsControlled,
           OnePerRevision
<1>2. CASE ServiceStart \/ ServiceRestart \/ ServiceStop
  BY <1>2, ServiceStartStep, ServiceRestartStep, ServiceStopStep
<1>3. CASE JobStart \/ JobRerun \/ JobCancel
  BY <1>3, JobStep
<1>4. CASE \E e \in reports : Handle(e)
  BY <1>4, ExecutionAllocatedStep, ServiceTerminatedStep, JobTerminatedStep, RefusedStep
     DEF Handle
<1>5. CASE \/ \E r \in allocs : Allocate(r)
           \/ \E x \in alive : Terminates(x)
           \/ ReportEnd \/ Reload
  BY <1>5, AllocateStep, EndsStep, ReportEndStep, ReloadStep
<1>6. QED  BY <1>1, <1>2, <1>3, <1>4, <1>5 DEF ControlNext

LEMMA ControlInvHolds == ControlSpec => []ControlInv
BY ControlInvInit, ControlInvStep, PTL DEF ControlSpec

\* However allocations, reports and commands are delayed, repeated or
\* interleaved, the only execution that lives is the one the control names
\* (controller.rs, ServiceState and JobState).
THEOREM LiveExecutionsAreControlled == ControlSpec => []LiveIsControlled
<1>1. ControlInv => LiveIsControlled
  BY DEF ControlInv
<1>2. QED  BY <1>1, ControlInvHolds, PTL

\* No revision of the intent creates two executions, whatever is delivered
\* again (controller.rs, execution_allocated).
THEOREM RevisionsCreateOnce == ControlSpec => []OnePerRevision
<1>1. ControlInv => OnePerRevision
  BY DEF ControlInv
<1>2. QED  BY <1>1, ControlInvHolds, PTL

\* A stop or cancel cancels the pending allocation, replacement or rerun, even
\* if its reports are already on their way (controller.rs, ServiceState::command).
THEOREM StopsCancelReplacements == ControlSpec => StopCancelsReplacement
<1>1. ASSUME ControlInv, [ControlNext]_workloadVars, created' # created
      PROVE  latest' # "stop"
  <2>1. CASE JobStart \/ JobRerun
    BY <1>1, <2>1 DEF JobStart, JobRerun, JobStarts, Command
  <2>2. CASE \E e \in reports : ExecutionAllocated(e) \/ JobTerminated(e)
    <3>1. PICK e \in reports : ExecutionAllocated(e) \/ JobTerminated(e)
      BY <2>2
    <3>2. CASE ExecutionAllocated(e)
      <4>1. intent = "running" /\ UNCHANGED latest
        BY <3>2 DEF ExecutionAllocated, Awaited, TakeReport
      <4>2. QED  BY <1>1, <4>1 DEF ControlInv, StopInv
    <3>3. CASE JobTerminated(e)
      BY <1>1, <3>3 DEF JobTerminated, Fits, TakeReport, ControlInv, StopInv
    <3>4. QED  BY <3>1, <3>2, <3>3
  <2>3. CASE ~(\/ JobStart \/ JobRerun
               \/ \E e \in reports : ExecutionAllocated(e) \/ JobTerminated(e))
    BY <1>1, <2>3
       DEF ControlNext, workloadVars, Handle, ServiceStart,
           ServiceRestart, ServiceStop, JobCancel, Command,
           ServiceTerminated, Refused, Allocate, Terminates,
           ReportEnd, Reload
  <2>4. QED  BY <2>1, <2>2, <2>3
<1>2. ControlInv /\ [ControlNext]_workloadVars =>
          [created' # created => latest' # "stop"]_workloadVars
  BY <1>1
<1>3. QED
  BY <1>2, ControlInvHolds, PTL DEF ControlSpec, StopCancelsReplacement

-----------------------------------------------------------------------------
(***************************************************************************)
(* SupervisorBinding, for every launch budget and every number of crashes  *)
(* and repeated deliveries.                                                *)
(*                                                                         *)
(* The count of failures and the expected incarnation move together: while *)
(* there is a binding, the incarnations 1 to failures have been charged    *)
(* and the next one is expected.  Since a failure is charged only to the   *)
(* expected incarnation, none is charged twice; since every report of a    *)
(* failure was sent by a failure, each charged one did fail.               *)
(***************************************************************************)

\* The expected incarnation is the one after those charged; the budget is used
\* up exactly when the supervisor is reported unavailable.
CountInv ==
    /\ binding # "none" => inc = failures + 1
    /\ unavailable => failures = MaxFailures

\* Every report of a failure, and every charge, is of an incarnation that failed.
FaultInv ==
    /\ \A e \in events : e.type = "failed" => e.inc \in faulted
    /\ 1..failures \subseteq faulted

BindingInv == BindingTypeOK /\ CountInv /\ FaultInv

-----------------------------------------------------------------------------

LEMMA MessageType ==
    ASSUME NEW n \in Incs,
           NEW type \in {"discovery_attached", "launch_succeeded", "handshake_accepted",
                         "failed", "retry_deadline", "terminated"}
    PROVE  /\ BindingMessage(type, n) \in BindingEvent
           /\ BindingMessage(type, n).type = type /\ BindingMessage(type, n).inc = n
BY DEF BindingMessage, BindingEvent

LEMMA TimerType ==
    ASSUME NEW n \in Incs, NEW for \in {"discovery", "handshake", "retry"}
    PROVE  [for |-> for, inc |-> n] \in Deadline
BY DEF Deadline

\* Taking an event leaves a part of the inbox.
LEMMA BindingTakeFacts ==
    ASSUME BindingInv, NEW e, BindingTake(e)
    PROVE  e \in events /\ events' \subseteq events /\ resends' \in Nat /\ restarts' = restarts
BY DEF BindingTake, BindingInv, BindingTypeOK

\* While there is a binding the budget is not used up.
LEMMA BudgetLeft ==
    ASSUME BindingInv, binding # "none"
    PROVE  failures \in Nat /\ failures < MaxFailures /\ ~unavailable
<1>1. inc = failures + 1 /\ inc \in Incs /\ failures \in 0..MaxFailures
  BY DEF BindingInv, BindingTypeOK, CountInv
<1>2. failures \in Nat /\ failures < MaxFailures
  BY <1>1, BindingAssumption DEF Incs
<1>3. QED
  BY <1>2, BindingAssumption DEF BindingInv, CountInv, BindingTypeOK

-----------------------------------------------------------------------------
(* One lemma per action. *)

\* An event that moves the phase and charges nothing.
LEMMA PhaseStep ==
    ASSUME BindingInv, NEW e, BindingTake(e), binding # "none",
           binding' \in {"pending", "awaiting", "attached", "none"},
           UNCHANGED <<inc, failures, over, faulted, unavailable>>,
           launches' \subseteq Incs, deadlines' \subseteq Deadline,
           supervisors' \subseteq Incs
    PROVE  BindingInv'
<1>1. events' \subseteq events /\ resends' \in Nat /\ restarts' = restarts
  BY BindingTakeFacts
<1>2. BindingTypeOK'
  BY <1>1 DEF BindingInv, BindingTypeOK
<1>3. CountInv'
  BY DEF BindingInv, CountInv
<1>4. FaultInv'
  BY <1>1 DEF BindingInv, FaultInv
<1>5. QED  BY <1>2, <1>3, <1>4 DEF BindingInv

LEMMA AttachedStep ==
    ASSUME BindingInv, NEW e, DiscoveryAttached(e) \/ HandshakeAccepted(e)
    PROVE  BindingInv'
<1>1. /\ BindingTake(e) /\ binding # "none" /\ binding' = "attached"
      /\ UNCHANGED <<inc, failures, deadlines, faulted, unavailable, launches, supervisors, over>>
  BY DEF DiscoveryAttached, HandshakeAccepted, supervisorVars
<1>2. /\ launches' \subseteq Incs /\ deadlines' \subseteq Deadline
      /\ supervisors' \subseteq Incs
  BY <1>1 DEF BindingInv, BindingTypeOK
<1>3. QED  BY <1>1, <1>2, PhaseStep

LEMMA BindingLaunchSucceededStep ==
    ASSUME BindingInv, NEW e, SupervisorLaunchSucceeded(e)
    PROVE  BindingInv'
<1>1. /\ BindingTake(e) /\ binding # "none" /\ binding' = "awaiting"
      /\ deadlines' = deadlines \cup {[for |-> "handshake", inc |-> inc]}
      /\ UNCHANGED <<inc, failures, faulted, unavailable, launches, supervisors, over>>
  BY DEF SupervisorLaunchSucceeded, supervisorVars
<1>2. [for |-> "handshake", inc |-> inc] \in Deadline
  BY TimerType DEF BindingInv, BindingTypeOK
<1>3. /\ launches' \subseteq Incs /\ deadlines' \subseteq Deadline
      /\ supervisors' \subseteq Incs
  BY <1>1, <1>2 DEF BindingInv, BindingTypeOK
<1>4. QED  BY <1>1, <1>3, PhaseStep

LEMMA RetryDeadlineStep ==
    ASSUME BindingInv, NEW e, RetryDeadlineReached(e)
    PROVE  BindingInv'
<1>1. /\ BindingTake(e) /\ binding # "none" /\ binding' = "pending"
      /\ launches' = launches \cup {inc}
      /\ UNCHANGED <<inc, failures, deadlines, supervisors, over, faulted, unavailable>>
  BY DEF RetryDeadlineReached
<1>2. /\ launches' \subseteq Incs /\ deadlines' \subseteq Deadline
      /\ supervisors' \subseteq Incs
  BY <1>1 DEF BindingInv, BindingTypeOK
<1>3. QED  BY <1>1, <1>2, PhaseStep

LEMMA TerminateStep ==
    ASSUME BindingInv, NEW e, Terminate(e)
    PROVE  BindingInv'
<1>1. /\ BindingTake(e) /\ binding # "none" /\ binding' = "none"
      /\ supervisors' \subseteq supervisors
      /\ UNCHANGED <<inc, failures, launches, deadlines, over, faulted, unavailable>>
  BY DEF Terminate
<1>2. /\ launches' \subseteq Incs /\ deadlines' \subseteq Deadline
      /\ supervisors' \subseteq Incs
  BY <1>1 DEF BindingInv, BindingTypeOK
<1>3. QED  BY <1>1, <1>2, PhaseStep

\* The expected incarnation is charged: its failure is known, and it was the
\* first that had not been charged.
LEMMA ProcessFailedStep ==
    ASSUME BindingInv, NEW e, ProcessFailed(e)
    PROVE  BindingInv'
<1>1. /\ e.type = "failed" /\ e.inc = inc /\ binding # "none" /\ failures' = failures + 1
      /\ UNCHANGED <<faulted, launches, supervisors, over>>
      /\ IF failures + 1 < MaxFailures
           THEN /\ binding' = "backoff" /\ inc' = inc + 1
                /\ deadlines' = deadlines \cup {[for |-> "retry", inc |-> inc + 1]}
                /\ UNCHANGED unavailable
           ELSE binding' = "none" /\ unavailable' = TRUE /\ UNCHANGED <<inc, deadlines>>
  BY DEF ProcessFailed, CurrentProcess, PermitsRetryAfter, supervisorVars
<1>2. e \in events /\ events' \subseteq events /\ resends' \in Nat /\ restarts' = restarts
  BY BindingTakeFacts DEF ProcessFailed
<1>3. failures \in Nat /\ failures < MaxFailures /\ ~unavailable /\ inc = failures + 1
  BY <1>1, BudgetLeft DEF BindingInv, CountInv
<1>4. MaxFailures \in Nat
  BY BindingAssumption
<1>5. CASE failures + 1 < MaxFailures
  <2>1. inc + 1 \in Incs
    BY <1>3, <1>4, <1>5 DEF Incs
  <2>2. [for |-> "retry", inc |-> inc + 1] \in Deadline
    BY <2>1, TimerType
  <2>3. BindingTypeOK'
    BY <1>1, <1>2, <1>3, <1>4, <1>5, <2>1, <2>2 DEF BindingInv, BindingTypeOK
  <2>4. CountInv'
    BY <1>1, <1>3, <1>5 DEF CountInv
  <2>5. QED  BY <2>3, <2>4, <1>1, <1>2, <1>3 DEF BindingInv, FaultInv
<1>6. CASE ~(failures + 1 < MaxFailures)
  <2>1. BindingTypeOK'
    BY <1>1, <1>2, <1>3, <1>4, <1>6 DEF BindingInv, BindingTypeOK
  <2>2. CountInv'
    BY <1>1, <1>3, <1>4, <1>6 DEF CountInv
  <2>3. QED  BY <2>1, <2>2, <1>1, <1>2, <1>3 DEF BindingInv, FaultInv
<1>7. QED  BY <1>5, <1>6

\* Everything else leaves the binding alone, but for a crash that starts over
\* with discovery.
LEMMA WorldStep ==
    ASSUME BindingInv, UNCHANGED <<inc, failures, unavailable>>,
           binding' \in {binding, "discovering"}, binding = "none" => binding' = "none",
           events' \subseteq BindingEvent, launches' \subseteq Incs,
           deadlines' \subseteq Deadline,
           supervisors' \subseteq Incs, over' \in BOOLEAN, restarts' \in Nat, resends' \in Nat,
           faulted \subseteq faulted', faulted' \subseteq Incs,
           \A e \in events' : e \in events \/ (e.type = "failed" => e.inc \in faulted')
    PROVE  BindingInv'
<1>1. BindingTypeOK'
  BY DEF BindingInv, BindingTypeOK
<1>2. CountInv'
  BY DEF BindingInv, CountInv
<1>3. FaultInv'
  BY DEF BindingInv, FaultInv
<1>4. QED  BY <1>1, <1>2, <1>3 DEF BindingInv

\* A message is posted by the controller or a supervisor.
LEMMA PostStep ==
    ASSUME BindingInv, NEW n \in Incs,
           NEW type \in {"discovery_attached", "launch_succeeded", "handshake_accepted",
                         "failed", "retry_deadline", "terminated"},
           BindingPost(BindingMessage(type, n)), type = "failed" => n \in faulted',
           UNCHANGED <<binding, inc, failures, unavailable, restarts, resends>>,
           launches' \subseteq Incs, deadlines' \subseteq Deadline,
           supervisors' \subseteq Incs,
           over' \in BOOLEAN, faulted' \in {faulted, faulted \cup {n}}
    PROVE  BindingInv'
<1> DEFINE m == BindingMessage(type, n)
<1>1. m \in BindingEvent /\ m.type = type /\ m.inc = n
  BY MessageType
<1>2. events' = events \cup {m}
  BY DEF BindingPost
<1> HIDE DEF m
<1>3. events' \subseteq BindingEvent /\ faulted \subseteq faulted' /\ faulted' \subseteq Incs
  BY <1>1, <1>2 DEF BindingInv, BindingTypeOK
<1>4. restarts' \in Nat /\ resends' \in Nat
  BY DEF BindingInv, BindingTypeOK
<1>5. \A e \in events' : e \in events \/ (e.type = "failed" => e.inc \in faulted')
  BY <1>1, <1>2
<1>6. QED  BY <1>3, <1>4, <1>5, WorldStep

LEMMA CreateStep ==
    ASSUME BindingInv, NEW n \in launches, Create(n)
    PROVE  BindingInv'
<1>1. /\ n \in Incs /\ over' \in BOOLEAN
      /\ deadlines' \subseteq Deadline /\ launches' \subseteq Incs
  BY DEF BindingInv, BindingTypeOK, Create
<1>2. UNCHANGED <<binding, inc, failures, unavailable, restarts, resends>>
  BY DEF Create
<1>3. CASE /\ supervisors' = supervisors \cup {n}
           /\ BindingPost(BindingMessage("launch_succeeded", n))
           /\ UNCHANGED faulted
  <2>1. supervisors' \subseteq Incs
    BY <1>1, <1>3 DEF BindingInv, BindingTypeOK
  <2>2. QED  BY <1>1, <1>2, <1>3, <2>1, PostStep
<1>4. CASE /\ BindingPost(BindingMessage("failed", n)) /\ UNCHANGED supervisors
           /\ faulted' = faulted \cup {n}
  <2>1. supervisors' \subseteq Incs
    BY <1>4 DEF BindingInv, BindingTypeOK
  <2>2. QED  BY <1>1, <1>2, <1>4, <2>1, PostStep
<1>5. QED  BY <1>3, <1>4 DEF Create

LEMMA ConnectStep ==
    ASSUME BindingInv, NEW n \in supervisors, Connect(n)
    PROVE  BindingInv'
<1>1. /\ UNCHANGED <<binding, inc, failures, deadlines, faulted, unavailable, restarts, resends,
                     launches, supervisors, over>>
      /\ \/ BindingPost(BindingMessage("handshake_accepted", n))
         \/ BindingPost(BindingMessage("discovery_attached", n))
  BY DEF Connect, supervisorVars
<1>2. /\ n \in Incs /\ over' \in BOOLEAN /\ deadlines' \subseteq Deadline
      /\ launches' \subseteq Incs /\ supervisors' \subseteq Incs
  BY <1>1 DEF BindingInv, BindingTypeOK
<1>3. QED  BY <1>1, <1>2, PostStep

LEMMA DiesStep ==
    ASSUME BindingInv, NEW n \in supervisors, Dies(n)
    PROVE  BindingInv'
<1>1. /\ UNCHANGED <<binding, inc, failures, launches, deadlines, over, unavailable, restarts,
                     resends>>
      /\ supervisors' = supervisors \ {n} /\ faulted' = faulted \cup {n}
      /\ BindingPost(BindingMessage("failed", n))
  BY DEF Dies
<1>2. /\ n \in Incs /\ over' \in BOOLEAN /\ deadlines' \subseteq Deadline
      /\ launches' \subseteq Incs /\ supervisors' \subseteq Incs
  BY <1>1 DEF BindingInv, BindingTypeOK
<1>3. QED  BY <1>1, <1>2, PostStep

LEMMA BindingFireStep ==
    ASSUME BindingInv, NEW t \in deadlines, DeadlinePasses(t)
    PROVE  BindingInv'
<1>1. /\ UNCHANGED <<binding, inc, failures, unavailable, restarts, resends, launches,
                     supervisors, over>>
      /\ deadlines' = deadlines \ {t}
      /\ \/ BindingPost(BindingMessage("retry_deadline", t.inc)) /\ UNCHANGED faulted
         \/ BindingPost(BindingMessage("failed", t.inc)) /\ faulted' = faulted \cup {t.inc}
  BY DEF DeadlinePasses, supervisorVars
<1>2. /\ over' \in BOOLEAN /\ deadlines' \subseteq Deadline
      /\ launches' \subseteq Incs /\ supervisors' \subseteq Incs
  BY <1>1 DEF BindingInv, BindingTypeOK
<1>3. t.inc \in Incs
  BY DEF BindingInv, BindingTypeOK, Deadline
<1>4. QED  BY <1>1, <1>2, <1>3, PostStep

LEMMA ExecutionEndsStep ==
    ASSUME BindingInv, ExecutionEnds
    PROVE  BindingInv'
<1>1. /\ UNCHANGED <<binding, inc, failures, launches, deadlines, supervisors, faulted, unavailable,
                     restarts, resends>>
      /\ over' = TRUE /\ BindingPost(BindingMessage("terminated", inc))
  BY DEF ExecutionEnds
<1>2. /\ inc \in Incs /\ over' \in BOOLEAN /\ deadlines' \subseteq Deadline
      /\ launches' \subseteq Incs /\ supervisors' \subseteq Incs
  BY <1>1 DEF BindingInv, BindingTypeOK
<1>3. QED  BY <1>1, <1>2, PostStep

\* The binding survives a crash; what was on its way does not.
LEMMA ControllerCrashStep ==
    ASSUME BindingInv, ControllerCrash
    PROVE  BindingInv'
<1> DEFINE m == BindingMessage("terminated", inc)
           t == [for |-> "discovery", inc |-> inc]
<1>1. /\ restarts' = restarts + 1 /\ launches' = {}
      /\ UNCHANGED <<inc, failures, supervisors, over, faulted, unavailable, resends>>
      /\ events' \subseteq {m} /\ deadlines' \subseteq {t}
      /\ IF binding = "none" THEN binding' = binding ELSE binding' = "discovering"
  BY DEF ControllerCrash
<1>2. inc \in Incs
  BY DEF BindingInv, BindingTypeOK
<1>3. m \in BindingEvent /\ m.type = "terminated" /\ t \in Deadline
  BY <1>2, MessageType, TimerType
<1> HIDE DEF m, t
<1>4. /\ events' \subseteq BindingEvent /\ launches' \subseteq Incs /\ deadlines' \subseteq Deadline
      /\ supervisors' \subseteq Incs /\ over' \in BOOLEAN /\ restarts' \in Nat /\ resends' \in Nat
      /\ faulted' \subseteq Incs
  BY <1>1, <1>3 DEF BindingInv, BindingTypeOK
<1>5. \A e \in events' : e.type = "failed" => e.inc \in faulted'
  BY <1>1, <1>3
<1>6. QED  BY <1>1, <1>4, <1>5, WorldStep

LEMMA BindingRejectedStep ==
    ASSUME BindingInv, NEW e, BindingRejected(e)
    PROVE  BindingInv'
<1>1. /\ UNCHANGED <<binding, inc, failures, deadlines, faulted, unavailable, restarts, resends,
                     launches, supervisors, over>>
      /\ events' = events \ {e}
  BY DEF BindingRejected, supervisorVars
<1>2. QED  BY <1>1 DEF BindingInv, BindingTypeOK, CountInv, FaultInv

-----------------------------------------------------------------------------
(* The theorems. *)

LEMMA BindingInvInit ==
    ASSUME BindingInit
    PROVE  BindingInv
<1>1. 1 \in Incs /\ 0 \in 0..MaxFailures
  BY BindingAssumption DEF Incs
<1>2. BindingTypeOK
  BY <1>1 DEF BindingInit, BindingTypeOK
<1>3. CountInv
  BY DEF BindingInit, CountInv
<1>4. 1..0 = {}
  OBVIOUS
<1>5. FaultInv
  BY <1>4 DEF BindingInit, FaultInv
<1>6. QED  BY <1>2, <1>3, <1>5 DEF BindingInv

LEMMA BindingInvStep ==
    ASSUME BindingInv, [BindingNext]_bindingVars
    PROVE  BindingInv'
<1>1. CASE UNCHANGED bindingVars
  BY <1>1 DEF bindingVars, BindingInv, BindingTypeOK, CountInv, FaultInv
<1>2. CASE \E e \in events : BindingTransition(e)
  BY <1>2, AttachedStep, BindingLaunchSucceededStep, ProcessFailedStep, RetryDeadlineStep,
     TerminateStep, BindingRejectedStep DEF BindingTransition
<1>3. CASE \E n \in launches : Create(n)
  BY <1>3, CreateStep
<1>4. CASE \E n \in supervisors : Connect(n) \/ Dies(n)
  BY <1>4, ConnectStep, DiesStep
<1>5. CASE \E t \in deadlines : DeadlinePasses(t)
  BY <1>5, BindingFireStep
<1>6. CASE ExecutionEnds \/ ControllerCrash
  BY <1>6, ExecutionEndsStep, ControllerCrashStep
<1>7. QED  BY <1>1, <1>2, <1>3, <1>4, <1>5, <1>6 DEF BindingNext

\* What the invariant says of the history: as many incarnations failed as were
\* charged, all of them when the budget is used up.
LEMMA BindingInvImpliesChargedOnce ==
    ASSUME BindingInv
    PROVE  ChargedOnce
<1>1. failures \in Nat /\ MaxFailures \in Nat /\ faulted \subseteq Incs
  BY BindingAssumption DEF BindingInv, BindingTypeOK
<1>2. IsFiniteSet(Incs)
  BY <1>1, FS_Interval DEF Incs
<1>3. IsFiniteSet(faulted)
  BY <1>1, <1>2, FS_Subset
<1>4. Cardinality(1..failures) = failures
  <2>1. Cardinality(1..failures) = IF 1 > failures THEN 0 ELSE failures - 1 + 1
    BY <1>1, FS_Interval
  <2>2. QED  BY <1>1, <2>1
<1>5. Cardinality(1..failures) <= Cardinality(faulted)
  BY <1>3, FS_Subset DEF BindingInv, FaultInv
<1>6. unavailable => faulted = Incs
  BY <1>1 DEF BindingInv, CountInv, FaultInv, Incs
<1>7. QED  BY <1>4, <1>5, <1>6 DEF ChargedOnce

LEMMA BindingInvHolds == BindingSpec => []BindingInv
<1>1. BindingInit => BindingInv
  BY BindingInvInit
<1>2. BindingInv /\ [BindingNext]_bindingVars => BindingInv'
  BY BindingInvStep
<1>3. QED  BY <1>1, <1>2, PTL DEF BindingSpec

\* The binding's state keeps its shape: no incarnation beyond the launch budget
\* is ever expected, launched, timed or reported.
THEOREM BindingTypes == BindingSpec => []BindingTypeOK
<1>1. BindingInv => BindingTypeOK
  BY DEF BindingInv
<1>2. QED  BY <1>1, BindingInvHolds, PTL

\* supervisor_binding.rs charges a failure once, to the incarnation that failed,
\* whatever is late, repeated or lost in a crash of the controller.
THEOREM FailuresAreChargedOnce == BindingSpec => []ChargedOnce
<1>1. BindingInv => ChargedOnce
  BY BindingInvImpliesChargedOnce
<1>2. QED  BY <1>1, BindingInvHolds, PTL

=============================================================================
