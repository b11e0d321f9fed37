---------------------------- MODULE RunnerProofs ----------------------------
(***************************************************************************)
(* Proofs about Runner, for every kind, every set of policies and every    *)
(* bound: the conjuncts of IInv are preserved by each action of the        *)
(* runner, of its environment and of its crashes.                          *)
(***************************************************************************)
EXTENDS Runner, TLAPS

\* A first supervisor starts at attempt one.
LEMMA StartFreshStep ==
    ASSUME IInv, StartFresh
    PROVE  IInv'
<1>1. TypeOK'
  BY RunnerAssumption DEF IInv, StartFresh, At, durableVars, historyVars,
     outsideVars, TypeOK, Outcomes, NoUpdate
<1>2. AttemptInv' /\ AttemptsIncrease'
  BY DEF IInv, StartFresh, At, durableVars, historyVars, outsideVars,
     AttemptInv, AttemptsIncrease, Deciding, TypeOK
<1>3. PhaseInv' /\ JobLossIsFinal'
  BY DEF IInv, StartFresh, At, durableVars, historyVars, outsideVars, PhaseInv,
     JobLossIsFinal, Interrupted, Deciding, Finishing, TypeOK
<1>4. StreakInv' /\ RestartBudget'
  BY DEF IInv, StartFresh, At, durableVars, historyVars, outsideVars,
     StreakInv, RestartBudget, AttemptInv, TypeOK, Interrupted
<1>5. BelatedInv' /\ OneBelatedLaunch'
  BY DEF IInv, StartFresh, At, durableVars, historyVars, outsideVars,
     BelatedInv, OneBelatedLaunch, StopPending, TypeOK
<1>6. OutcomeInv' /\ ProvenCompletion'
  BY DEF IInv, StartFresh, At, durableVars, historyVars, outsideVars,
     OutcomeInv, ProvenCompletion, Finishing, TypeOK
<1>7. QED
  BY <1>1, <1>2, <1>3, <1>4, <1>5, <1>6 DEF IInv

\* A replacement that already sees a stop.
LEMMA RecoverStoppedStep ==
    ASSUME IInv, RecoverStopped
    PROVE  IInv'
<1>1. TypeOK'
  BY RunnerAssumption DEF IInv, RecoverStopped, At, Resume, RecoveredRetries,
     Finish, Interrupted, durableVars, historyVars, outsideVars, TypeOK,
     Outcomes, NoUpdate, AttemptInv
<1>2. AttemptInv' /\ AttemptsIncrease'
  BY DEF IInv, RecoverStopped, At, Resume, RecoveredRetries, Finish,
     Interrupted, durableVars, historyVars, outsideVars, AttemptInv,
     AttemptsIncrease, Deciding, TypeOK
<1>3. PhaseInv' /\ JobLossIsFinal'
  BY DEF IInv, RecoverStopped, At, Resume, RecoveredRetries, Finish,
     Interrupted, durableVars, historyVars, outsideVars, PhaseInv,
     JobLossIsFinal, Deciding, Finishing, TypeOK
<1>4. StreakInv' /\ RestartBudget'
  BY DEF IInv, RecoverStopped, At, Resume, RecoveredRetries, Finish,
     Interrupted, durableVars, historyVars, outsideVars, StreakInv,
     RestartBudget, AttemptInv, TypeOK
<1>5. BelatedInv' /\ OneBelatedLaunch'
  BY DEF IInv, RecoverStopped, At, Resume, RecoveredRetries, Finish,
     Interrupted, durableVars, historyVars, outsideVars, BelatedInv,
     OneBelatedLaunch, StopPending, TypeOK
<1>6. OutcomeInv' /\ ProvenCompletion'
  BY DEF IInv, RecoverStopped, At, Resume, RecoveredRetries, Finish,
     Interrupted, durableVars, historyVars, outsideVars, OutcomeInv,
     ProvenCompletion, Finishing, TypeOK
<1>7. QED
  BY <1>1, <1>2, <1>3, <1>4, <1>5, <1>6 DEF IInv

\* A replacement of a supervisor lost with an undecided attempt: the only
\* start that may move the checkpoint.
LEMMA RecoverLostStep ==
    ASSUME IInv, RecoverLost
    PROVE  IInv'
<1>1. TypeOK'
  <2>1. ckpt.attempt \in Nat /\ ckpt.attempt > 0
    BY DEF IInv, TypeOK, AttemptInv, RecoverLost, Interrupted
  <2>2. attempt' \in Nat /\ retries' \in Nat /\ streak' \in Nat
    BY <2>1 DEF IInv, TypeOK, RecoverLost, Resume, RecoveredRetries, Retry,
                ShouldRetry
  <2>3. ckpt' \in [phase : {"none", "launching", "running", "restart_backoff"},
                   attempt : Nat]
    BY <2>1 DEF IInv, TypeOK, RecoverLost, Retry, Checkpoint, ShouldRetry
  <2>4. /\ pc' \in {"terminal", "backoff"} /\ succ' \in BOOLEAN
        /\ outcome' \in Outcomes \cup {"none"}
    BY DEF IInv, TypeOK, RecoverLost, Retry, Finish, Outcomes, ShouldRetry
  <2>5. QED
    BY <2>2, <2>3, <2>4 DEF IInv, TypeOK, RecoverLost, outsideVars
<1>2. AttemptInv' /\ AttemptsIncrease'
  <2>1. /\ launches' = launches /\ attempt' \in Nat /\ ckpt.attempt > 0
        /\ \/ attempt' = ckpt.attempt /\ ckpt' = ckpt /\ pc' = "terminal"
           \/ /\ attempt' = ckpt.attempt + 1 /\ pc' = "backoff"
              /\ ckpt' = [phase |-> "restart_backoff", attempt |-> ckpt.attempt + 1]
    BY DEF IInv, TypeOK, AttemptInv, RecoverLost, Resume, Retry, Finish,
           Checkpoint, Interrupted, ShouldRetry
  <2>2. /\ ckpt.attempt \in Nat /\ Len(launches) \in Nat
        /\ \A i \in 1..Len(launches) : launches[i] \in Nat /\ launches[i] <= ckpt.attempt
    BY DEF IInv, TypeOK, AttemptInv
  <2>3. CASE attempt' = ckpt.attempt /\ ckpt' = ckpt /\ pc' = "terminal"
    BY <2>1, <2>2, <2>3 DEF IInv, AttemptInv, AttemptsIncrease, Deciding
  <2>4. CASE /\ attempt' = ckpt.attempt + 1 /\ pc' = "backoff"
             /\ ckpt' = [phase |-> "restart_backoff", attempt |-> ckpt.attempt + 1]
    BY <2>1, <2>2, <2>4 DEF IInv, AttemptInv, AttemptsIncrease, Deciding
  <2>5. QED  BY <2>1, <2>3, <2>4
<1>3. PhaseInv' /\ JobLossIsFinal'
  <2>1. /\ launches' = launches /\ lostAt' = lostAt /\ kind' = kind
        /\ \/ ckpt' = ckpt /\ pc' = "terminal" /\ Interrupted
           \/ ckpt'.phase = "restart_backoff" /\ pc' = "backoff" /\ kind # "job"
    BY DEF RecoverLost, Retry, Finish, Checkpoint, LossIsFinal, ShouldRetry, outsideVars
  <2>2. QED
    BY <2>1 DEF IInv, PhaseInv, JobLossIsFinal, Interrupted, Deciding, Finishing
<1>4. StreakInv' /\ RestartBudget'
  BY RunnerAssumption DEF IInv, RecoverLost, At, Resume, RecoveredRetries,
     Finish, Interrupted, Retry, Checkpoint, LossIsFinal, durableVars,
     historyVars, outsideVars, StreakInv, RestartBudget, AttemptInv, TypeOK,
     ShouldRetry
<1>5. BelatedInv' /\ OneBelatedLaunch'
  BY DEF IInv, RecoverLost, At, Resume, RecoveredRetries, Finish,
     Interrupted, Retry, Checkpoint, LossIsFinal, durableVars, historyVars,
     outsideVars, BelatedInv, OneBelatedLaunch, StopPending, TypeOK
<1>6. OutcomeInv' /\ ProvenCompletion'
  BY DEF IInv, RecoverLost, At, Resume, RecoveredRetries, Finish,
     Interrupted, Retry, Checkpoint, LossIsFinal, durableVars, historyVars,
     outsideVars, OutcomeInv, ProvenCompletion, Finishing, TypeOK
<1>7. QED
  BY <1>1, <1>2, <1>3, <1>4, <1>5, <1>6 DEF IInv

\* A replacement that resumes a backoff keeps the attempt.
LEMMA RecoverBackoffStep ==
    ASSUME IInv, RecoverBackoff
    PROVE  IInv'
<1>1. TypeOK'
  <2>1. ckpt.attempt \in Nat /\ ckpt.attempt > 0
    BY DEF IInv, TypeOK, AttemptInv, RecoverBackoff
  <2>2. attempt' \in Nat /\ retries' \in Nat
    BY <2>1 DEF RecoverBackoff, Resume, RecoveredRetries
  <2>3. succ' \in BOOLEAN /\ pc' \in {"backoff", "loop"}
    BY DEF RecoverBackoff
  <2>4. QED
    BY <2>2, <2>3 DEF IInv, TypeOK, RecoverBackoff, durableVars, historyVars, outsideVars,
                Outcomes
<1>2. AttemptInv' /\ AttemptsIncrease'
  BY DEF IInv, RecoverBackoff, At, Resume, RecoveredRetries, durableVars,
     historyVars, outsideVars, AttemptInv, AttemptsIncrease, Deciding, TypeOK,
     Interrupted
<1>3. PhaseInv' /\ JobLossIsFinal'
  BY DEF IInv, RecoverBackoff, At, Resume, RecoveredRetries, durableVars,
     historyVars, outsideVars, PhaseInv, JobLossIsFinal, Interrupted, Deciding,
     Finishing, TypeOK
<1>4. StreakInv' /\ RestartBudget'
  <2>1. /\ ckpt' = ckpt /\ streak' = streak
        /\ attempt' = ckpt.attempt /\ retries' = ckpt.attempt - 1
        /\ ckpt.phase = "restart_backoff"
    BY DEF RecoverBackoff, Resume, RecoveredRetries, durableVars, historyVars
  <2>2. QED
    BY <2>1 DEF IInv, TypeOK, StreakInv, RestartBudget
<1>5. BelatedInv' /\ OneBelatedLaunch'
  BY DEF IInv, RecoverBackoff, At, Resume, RecoveredRetries, durableVars,
     historyVars, outsideVars, BelatedInv, OneBelatedLaunch, StopPending,
     TypeOK
<1>6. OutcomeInv' /\ ProvenCompletion'
  BY DEF IInv, RecoverBackoff, At, Resume, RecoveredRetries, durableVars,
     historyVars, outsideVars, OutcomeInv, ProvenCompletion, Finishing, TypeOK
<1>7. QED
  BY <1>1, <1>2, <1>3, <1>4, <1>5, <1>6 DEF IInv

\* The launching checkpoint.
LEMMA CheckpointLaunchStep ==
    ASSUME IInv, CheckpointLaunch
    PROVE  IInv'
<1>1. TypeOK'
  BY RunnerAssumption DEF IInv, CheckpointLaunch, At, Checkpoint, Apply,
     durableVars, historyVars, outsideVars, TypeOK, Outcomes, NoUpdate
<1>2. AttemptInv' /\ AttemptsIncrease'
  BY DEF IInv, CheckpointLaunch, At, Checkpoint, Apply, durableVars,
     historyVars, outsideVars, AttemptInv, AttemptsIncrease, Deciding, TypeOK
<1>3. PhaseInv' /\ JobLossIsFinal'
  BY DEF IInv, CheckpointLaunch, At, Checkpoint, Apply, durableVars,
     historyVars, outsideVars, PhaseInv, JobLossIsFinal, Interrupted, Deciding,
     Finishing, TypeOK
<1>4. StreakInv' /\ RestartBudget'
  BY DEF IInv, CheckpointLaunch, At, Checkpoint, Apply, durableVars,
     historyVars, outsideVars, StreakInv, RestartBudget, AttemptInv, TypeOK
<1>5. BelatedInv' /\ OneBelatedLaunch'
  BY DEF IInv, CheckpointLaunch, At, Checkpoint, Apply, durableVars,
     historyVars, outsideVars, BelatedInv, OneBelatedLaunch, StopPending,
     TypeOK
<1>6. OutcomeInv' /\ ProvenCompletion'
  BY DEF IInv, CheckpointLaunch, At, Checkpoint, Apply, durableVars,
     historyVars, outsideVars, OutcomeInv, ProvenCompletion, Finishing, TypeOK
<1>7. QED
  BY <1>1, <1>2, <1>3, <1>4, <1>5, <1>6 DEF IInv

\* A failed preflight.
LEMMA PreflightFailsStep ==
    ASSUME IInv, PreflightFails
    PROVE  IInv'
<1>1. TypeOK'
  <2>1. StopSignaled \in BOOLEAN
    BY Zenon DEF StopSignaled
  <2>2. end' \in [launched : BOOLEAN, exit : {"none", "ok", "bad"}, stopped : BOOLEAN]
    BY <2>1 DEF PreflightFails, NoEnd
  <2>3. QED
    BY <2>2 DEF IInv, TypeOK, PreflightFails, durableVars, historyVars, outsideVars
<1>2. AttemptInv' /\ AttemptsIncrease'
  BY DEF IInv, PreflightFails, At, NoEnd, StopSignaled, durableVars,
     historyVars, outsideVars, AttemptInv, AttemptsIncrease, Deciding, TypeOK
<1>3. PhaseInv' /\ JobLossIsFinal'
  BY DEF IInv, PreflightFails, At, NoEnd, StopSignaled, durableVars,
     historyVars, outsideVars, PhaseInv, JobLossIsFinal, Interrupted, Deciding,
     Finishing, TypeOK
<1>4. StreakInv' /\ RestartBudget'
  BY DEF IInv, PreflightFails, At, NoEnd, StopSignaled, durableVars,
     historyVars, outsideVars, StreakInv, RestartBudget, AttemptInv, TypeOK
<1>5. BelatedInv' /\ OneBelatedLaunch'
  BY DEF IInv, PreflightFails, At, NoEnd, StopSignaled, durableVars,
     historyVars, outsideVars, BelatedInv, OneBelatedLaunch, StopPending,
     TypeOK
<1>6. OutcomeInv' /\ ProvenCompletion'
  BY DEF IInv, PreflightFails, At, NoEnd, StopSignaled, durableVars,
     historyVars, outsideVars, OutcomeInv, ProvenCompletion, Finishing, TypeOK
<1>7. QED
  BY <1>1, <1>2, <1>3, <1>4, <1>5, <1>6 DEF IInv

\* A failed process creation.
LEMMA SpawnFailsStep ==
    ASSUME IInv, SpawnFails
    PROVE  IInv'
<1>1. TypeOK'
  BY DEF IInv, SpawnFails, At, NoEnd, durableVars, historyVars, outsideVars,
     TypeOK, Outcomes, NoUpdate
<1>2. AttemptInv' /\ AttemptsIncrease'
  BY DEF IInv, SpawnFails, At, NoEnd, durableVars, historyVars, outsideVars,
     AttemptInv, AttemptsIncrease, Deciding, TypeOK
<1>3. PhaseInv' /\ JobLossIsFinal'
  BY DEF IInv, SpawnFails, At, NoEnd, durableVars, historyVars, outsideVars,
     PhaseInv, JobLossIsFinal, Interrupted, Deciding, Finishing, TypeOK
<1>4. StreakInv' /\ RestartBudget'
  BY DEF IInv, SpawnFails, At, NoEnd, durableVars, historyVars, outsideVars,
     StreakInv, RestartBudget, AttemptInv, TypeOK
<1>5. BelatedInv' /\ OneBelatedLaunch'
  BY DEF IInv, SpawnFails, At, NoEnd, durableVars, historyVars, outsideVars,
     BelatedInv, OneBelatedLaunch, StopPending, TypeOK
<1>6. OutcomeInv' /\ ProvenCompletion'
  BY DEF IInv, SpawnFails, At, NoEnd, durableVars, historyVars, outsideVars,
     OutcomeInv, ProvenCompletion, Finishing, TypeOK
<1>7. QED
  BY <1>1, <1>2, <1>3, <1>4, <1>5, <1>6 DEF IInv

\* The one action that creates a process: the checkpoint is already at its
\* attempt.
LEMMA SpawnStep ==
    ASSUME IInv, Spawn
    PROVE  IInv'
<1>1. TypeOK'
  BY DEF IInv, Spawn, At, durableVars, historyVars, outsideVars, TypeOK,
     Outcomes, NoUpdate, AttemptInv
<1>2. AttemptInv' /\ AttemptsIncrease'
  <2>1. /\ Len(launches') = Len(launches) + 1
        /\ launches'[Len(launches) + 1] = attempt
        /\ \A i \in 1..Len(launches) : launches'[i] = launches[i]
    BY DEF IInv, TypeOK, Spawn
  <2>2. /\ ckpt' = ckpt /\ attempt' = attempt /\ pc = "launch" /\ pc' = "spawned"
        /\ attempt \in Nat /\ Len(launches) \in Nat
    BY DEF IInv, TypeOK, Spawn, At, durableVars
  <2>3. /\ ckpt.attempt = attempt /\ Interrupted
        /\ \A i \in 1..Len(launches) : launches[i] < attempt /\ launches[i] \in Nat
    BY <2>2 DEF IInv, TypeOK, AttemptInv, PhaseInv, Deciding
  <2>4. \A i \in 1..Len(launches') : i \in 1..Len(launches) \/ i = Len(launches) + 1
    BY <2>1, <2>2
  <2>5. AttemptInv'
    BY <2>1, <2>2, <2>3, <2>4 DEF IInv, AttemptInv, Interrupted, Deciding
  <2>6. AttemptsIncrease'
    BY <2>1, <2>2, <2>3, <2>4 DEF IInv, AttemptsIncrease
  <2>7. QED
    BY <2>5, <2>6
<1>3. PhaseInv' /\ JobLossIsFinal'
  BY DEF IInv, Spawn, At, durableVars, historyVars, outsideVars, PhaseInv,
     JobLossIsFinal, Interrupted, Deciding, Finishing, TypeOK
<1>4. StreakInv' /\ RestartBudget'
  BY DEF IInv, Spawn, At, durableVars, historyVars, outsideVars, StreakInv,
     RestartBudget, AttemptInv, TypeOK
<1>5. BelatedInv' /\ OneBelatedLaunch'
  BY DEF IInv, Spawn, At, durableVars, historyVars, outsideVars, BelatedInv,
     OneBelatedLaunch, StopPending, TypeOK
<1>6. OutcomeInv' /\ ProvenCompletion'
  BY DEF IInv, Spawn, At, durableVars, historyVars, outsideVars, OutcomeInv,
     ProvenCompletion, Finishing, TypeOK
<1>7. QED
  BY <1>1, <1>2, <1>3, <1>4, <1>5, <1>6 DEF IInv

\* The running checkpoint.
LEMMA CheckpointRunningStep ==
    ASSUME IInv, CheckpointRunning
    PROVE  IInv'
<1>1. TypeOK'
  BY DEF IInv, CheckpointRunning, At, Checkpoint, durableVars, historyVars,
     outsideVars, TypeOK, Outcomes, NoUpdate
<1>2. AttemptInv' /\ AttemptsIncrease'
  BY DEF IInv, CheckpointRunning, At, Checkpoint, durableVars, historyVars,
     outsideVars, AttemptInv, AttemptsIncrease, Deciding, TypeOK
<1>3. PhaseInv' /\ JobLossIsFinal'
  BY DEF IInv, CheckpointRunning, At, Checkpoint, durableVars, historyVars,
     outsideVars, PhaseInv, JobLossIsFinal, Interrupted, Deciding, Finishing,
     TypeOK
<1>4. StreakInv' /\ RestartBudget'
  BY DEF IInv, CheckpointRunning, At, Checkpoint, durableVars, historyVars,
     outsideVars, StreakInv, RestartBudget, AttemptInv, TypeOK
<1>5. BelatedInv' /\ OneBelatedLaunch'
  BY DEF IInv, CheckpointRunning, At, Checkpoint, durableVars, historyVars,
     outsideVars, BelatedInv, OneBelatedLaunch, StopPending, TypeOK
<1>6. OutcomeInv' /\ ProvenCompletion'
  BY DEF IInv, CheckpointRunning, At, Checkpoint, durableVars, historyVars,
     outsideVars, OutcomeInv, ProvenCompletion, Finishing, TypeOK
<1>7. QED
  BY <1>1, <1>2, <1>3, <1>4, <1>5, <1>6 DEF IInv

\* The child has exited.
LEMMA WaitReturnsStep ==
    ASSUME IInv, WaitReturns
    PROVE  IInv'
<1>1. TypeOK'
  BY DEF IInv, WaitReturns, At, Ended, durableVars, historyVars, outsideVars,
     TypeOK, Outcomes, NoUpdate
<1>2. AttemptInv' /\ AttemptsIncrease'
  BY DEF IInv, WaitReturns, At, Ended, durableVars, historyVars, outsideVars,
     AttemptInv, AttemptsIncrease, Deciding, TypeOK
<1>3. PhaseInv' /\ JobLossIsFinal'
  BY DEF IInv, WaitReturns, At, Ended, durableVars, historyVars, outsideVars,
     PhaseInv, JobLossIsFinal, Interrupted, Deciding, Finishing, TypeOK
<1>4. StreakInv' /\ RestartBudget'
  BY DEF IInv, WaitReturns, At, Ended, durableVars, historyVars, outsideVars,
     StreakInv, RestartBudget, AttemptInv, TypeOK
<1>5. BelatedInv' /\ OneBelatedLaunch'
  BY DEF IInv, WaitReturns, At, Ended, durableVars, historyVars, outsideVars,
     BelatedInv, OneBelatedLaunch, StopPending, TypeOK
<1>6. OutcomeInv' /\ ProvenCompletion'
  BY DEF IInv, WaitReturns, At, Ended, durableVars, historyVars, outsideVars,
     OutcomeInv, ProvenCompletion, Finishing, TypeOK
<1>7. QED
  BY <1>1, <1>2, <1>3, <1>4, <1>5, <1>6 DEF IInv

\* The select sees a stop.
LEMMA BeginStopStep ==
    ASSUME IInv, BeginStop
    PROVE  IInv'
<1>1. TypeOK'
  BY DEF IInv, BeginStop, At, SeesStop, durableVars, historyVars, outsideVars,
     TypeOK, Outcomes, NoUpdate
<1>2. AttemptInv' /\ AttemptsIncrease'
  BY DEF IInv, BeginStop, At, SeesStop, durableVars, historyVars, outsideVars,
     AttemptInv, AttemptsIncrease, Deciding, TypeOK
<1>3. PhaseInv' /\ JobLossIsFinal'
  BY DEF IInv, BeginStop, At, SeesStop, durableVars, historyVars, outsideVars,
     PhaseInv, JobLossIsFinal, Interrupted, Deciding, Finishing, TypeOK
<1>4. StreakInv' /\ RestartBudget'
  BY DEF IInv, BeginStop, At, SeesStop, durableVars, historyVars, outsideVars,
     StreakInv, RestartBudget, AttemptInv, TypeOK
<1>5. BelatedInv' /\ OneBelatedLaunch'
  BY DEF IInv, BeginStop, At, SeesStop, durableVars, historyVars, outsideVars,
     BelatedInv, OneBelatedLaunch, StopPending, TypeOK
<1>6. OutcomeInv' /\ ProvenCompletion'
  BY DEF IInv, BeginStop, At, SeesStop, durableVars, historyVars, outsideVars,
     OutcomeInv, ProvenCompletion, Finishing, TypeOK
<1>7. QED
  BY <1>1, <1>2, <1>3, <1>4, <1>5, <1>6 DEF IInv

\* A policy update while the workload runs.
LEMMA ApplyRunningStep ==
    ASSUME IInv, ApplyRunning
    PROVE  IInv'
<1>1. TypeOK'
  BY DEF IInv, ApplyRunning, At, Apply, durableVars, historyVars, outsideVars,
     TypeOK, Outcomes, NoUpdate
<1>2. AttemptInv' /\ AttemptsIncrease'
  BY DEF IInv, ApplyRunning, At, Apply, durableVars, historyVars, outsideVars,
     AttemptInv, AttemptsIncrease, Deciding, TypeOK
<1>3. PhaseInv' /\ JobLossIsFinal'
  BY DEF IInv, ApplyRunning, At, Apply, durableVars, historyVars, outsideVars,
     PhaseInv, JobLossIsFinal, Interrupted, Deciding, Finishing, TypeOK
<1>4. StreakInv' /\ RestartBudget'
  BY DEF IInv, ApplyRunning, At, Apply, durableVars, historyVars, outsideVars,
     StreakInv, RestartBudget, AttemptInv, TypeOK
<1>5. BelatedInv' /\ OneBelatedLaunch'
  BY DEF IInv, ApplyRunning, At, Apply, durableVars, historyVars, outsideVars,
     BelatedInv, OneBelatedLaunch, StopPending, TypeOK
<1>6. OutcomeInv' /\ ProvenCompletion'
  BY DEF IInv, ApplyRunning, At, Apply, durableVars, historyVars, outsideVars,
     OutcomeInv, ProvenCompletion, Finishing, TypeOK
<1>7. QED
  BY <1>1, <1>2, <1>3, <1>4, <1>5, <1>6 DEF IInv

\* The escalation of stop_process.
LEMMA KillStep ==
    ASSUME IInv, Kill
    PROVE  IInv'
<1>1. TypeOK'
  <2>1. heirs' \in BOOLEAN /\ child' \in Nat /\ lastExit' \in {"none", "ok", "bad"}
    BY DEF Kill
  <2>2. QED
    BY <2>1 DEF IInv, TypeOK, Kill, durableVars
<1>2. AttemptInv' /\ AttemptsIncrease'
  BY DEF IInv, Kill, At, durableVars, historyVars, outsideVars, AttemptInv,
     AttemptsIncrease, Deciding, TypeOK
<1>3. PhaseInv' /\ JobLossIsFinal'
  BY DEF IInv, Kill, At, durableVars, historyVars, outsideVars, PhaseInv,
     JobLossIsFinal, Interrupted, Deciding, Finishing, TypeOK
<1>4. StreakInv' /\ RestartBudget'
  BY DEF IInv, Kill, At, durableVars, historyVars, outsideVars, StreakInv,
     RestartBudget, AttemptInv, TypeOK
<1>5. BelatedInv' /\ OneBelatedLaunch'
  BY DEF IInv, Kill, At, durableVars, historyVars, outsideVars, BelatedInv,
     OneBelatedLaunch, StopPending, TypeOK
<1>6. OutcomeInv' /\ ProvenCompletion'
  BY DEF IInv, Kill, At, durableVars, historyVars, outsideVars, OutcomeInv,
     ProvenCompletion, Finishing, TypeOK
<1>7. QED
  BY <1>1, <1>2, <1>3, <1>4, <1>5, <1>6 DEF IInv

\* The stopped child has exited.
LEMMA StopReturnsStep ==
    ASSUME IInv, StopReturns
    PROVE  IInv'
<1>1. TypeOK'
  BY DEF IInv, StopReturns, At, Ended, durableVars, historyVars, outsideVars,
     TypeOK, Outcomes, NoUpdate
<1>2. AttemptInv' /\ AttemptsIncrease'
  BY DEF IInv, StopReturns, At, Ended, durableVars, historyVars, outsideVars,
     AttemptInv, AttemptsIncrease, Deciding, TypeOK
<1>3. PhaseInv' /\ JobLossIsFinal'
  BY DEF IInv, StopReturns, At, Ended, durableVars, historyVars, outsideVars,
     PhaseInv, JobLossIsFinal, Interrupted, Deciding, Finishing, TypeOK
<1>4. StreakInv' /\ RestartBudget'
  BY DEF IInv, StopReturns, At, Ended, durableVars, historyVars, outsideVars,
     StreakInv, RestartBudget, AttemptInv, TypeOK
<1>5. BelatedInv' /\ OneBelatedLaunch'
  BY DEF IInv, StopReturns, At, Ended, durableVars, historyVars, outsideVars,
     BelatedInv, OneBelatedLaunch, StopPending, TypeOK
<1>6. OutcomeInv' /\ ProvenCompletion'
  BY DEF IInv, StopReturns, At, Ended, durableVars, historyVars, outsideVars,
     OutcomeInv, ProvenCompletion, Finishing, TypeOK
<1>7. QED
  BY <1>1, <1>2, <1>3, <1>4, <1>5, <1>6 DEF IInv

\* run_process returns.
LEMMA DrainedStep ==
    ASSUME IInv, Drained
    PROVE  IInv'
<1>1. TypeOK'
  BY DEF IInv, Drained, At, durableVars, historyVars, outsideVars,
     TypeOK, Outcomes, NoUpdate
<1>2. AttemptInv' /\ AttemptsIncrease'
  BY DEF IInv, Drained, At, durableVars, historyVars, outsideVars,
     AttemptInv, AttemptsIncrease, Deciding, TypeOK
<1>3. PhaseInv' /\ JobLossIsFinal'
  BY DEF IInv, Drained, At, durableVars, historyVars, outsideVars,
     PhaseInv, JobLossIsFinal, Interrupted, Deciding, Finishing, TypeOK
<1>4. StreakInv' /\ RestartBudget'
  BY DEF IInv, Drained, At, durableVars, historyVars, outsideVars,
     StreakInv, RestartBudget, AttemptInv, TypeOK
<1>5. BelatedInv' /\ OneBelatedLaunch'
  BY DEF IInv, Drained, At, durableVars, historyVars, outsideVars,
     BelatedInv, OneBelatedLaunch, StopPending, TypeOK
<1>6. OutcomeInv' /\ ProvenCompletion'
  BY DEF IInv, Drained, At, durableVars, historyVars, outsideVars,
     OutcomeInv, ProvenCompletion, Finishing, TypeOK
<1>7. QED
  BY <1>1, <1>2, <1>3, <1>4, <1>5, <1>6 DEF IInv

\* The restart decision.
LEMMA DecideStep ==
    ASSUME IInv, Decide
    PROVE  IInv'
<1>1. TypeOK'
  <2>1. Classify(end) \in Outcomes /\ Successful(end) \in BOOLEAN
    BY DEF Classify, Successful, Outcomes
  <2>2. attempt' \in Nat /\ retries' \in Nat /\ streak' \in Nat
    BY DEF IInv, TypeOK, Decide, Retry
  <2>3. ckpt' \in [phase : {"none", "launching", "running", "restart_backoff"},
                   attempt : Nat]
    BY DEF IInv, TypeOK, Decide, Retry, Checkpoint
  <2>4. /\ pc' \in {"terminal", "backoff"} /\ succ' \in BOOLEAN
        /\ outcome' \in Outcomes \cup {"none"}
    BY <2>1 DEF IInv, TypeOK, Decide, Retry, Finish, Outcomes
  <2>5. QED
    BY <2>2, <2>3, <2>4 DEF IInv, TypeOK, Decide, outsideVars
<1>2. AttemptInv' /\ AttemptsIncrease'
  <2>1. /\ launches' = launches /\ pc = "ended"
        /\ \/ attempt' = attempt /\ ckpt' = ckpt /\ pc' = "terminal"
           \/ /\ attempt' = attempt + 1 /\ pc' = "backoff"
              /\ ckpt' = [phase |-> "restart_backoff", attempt |-> attempt + 1]
    BY DEF Decide, At, Finish, Retry, Checkpoint
  <2>2. /\ attempt \in Nat /\ attempt > 0 /\ ckpt.attempt = attempt
        /\ Len(launches) \in Nat
        /\ \A i \in 1..Len(launches) : launches[i] \in Nat /\ launches[i] <= attempt
    BY <2>1 DEF IInv, TypeOK, AttemptInv, Deciding
  <2>3. CASE attempt' = attempt /\ ckpt' = ckpt /\ pc' = "terminal"
    BY <2>1, <2>2, <2>3 DEF IInv, AttemptInv, AttemptsIncrease, Deciding
  <2>4. CASE /\ attempt' = attempt + 1 /\ pc' = "backoff"
             /\ ckpt' = [phase |-> "restart_backoff", attempt |-> attempt + 1]
    BY <2>1, <2>2, <2>4 DEF IInv, AttemptInv, AttemptsIncrease, Deciding
  <2>5. QED
    BY <2>1, <2>3, <2>4
<1>3. PhaseInv' /\ JobLossIsFinal'
  BY DEF IInv, Decide, At, Finish, Retry, Checkpoint, Classify, Successful,
     durableVars, historyVars, outsideVars, PhaseInv, JobLossIsFinal,
     Interrupted, Deciding, Finishing, TypeOK
<1>4. StreakInv' /\ RestartBudget'
  BY RunnerAssumption DEF IInv, Decide, At, Finish, Retry, Checkpoint,
     Classify, Successful, durableVars, historyVars, outsideVars, StreakInv,
     RestartBudget, AttemptInv, TypeOK, ShouldRetry, Interrupted
<1>5. BelatedInv' /\ OneBelatedLaunch'
  BY DEF IInv, Decide, At, Finish, Retry, Checkpoint, Classify, Successful,
     durableVars, historyVars, outsideVars, BelatedInv, OneBelatedLaunch,
     StopPending, TypeOK
<1>6. OutcomeInv' /\ ProvenCompletion'
  BY DEF IInv, Decide, At, Finish, Retry, Checkpoint, Classify, Successful,
     durableVars, historyVars, outsideVars, OutcomeInv, ProvenCompletion,
     Finishing, TypeOK
<1>7. QED
  BY <1>1, <1>2, <1>3, <1>4, <1>5, <1>6 DEF IInv

\* A stop during the backoff.
LEMMA BackoffStoppedStep ==
    ASSUME IInv, BackoffStopped
    PROVE  IInv'
<1>1. TypeOK'
  BY DEF IInv, BackoffStopped, At, Finish, durableVars, historyVars,
     outsideVars, TypeOK, Outcomes, NoUpdate
<1>2. AttemptInv' /\ AttemptsIncrease'
  BY DEF IInv, BackoffStopped, At, Finish, durableVars, historyVars,
     outsideVars, AttemptInv, AttemptsIncrease, Deciding, TypeOK
<1>3. PhaseInv' /\ JobLossIsFinal'
  BY DEF IInv, BackoffStopped, At, Finish, durableVars, historyVars,
     outsideVars, PhaseInv, JobLossIsFinal, Interrupted, Deciding, Finishing,
     TypeOK
<1>4. StreakInv' /\ RestartBudget'
  BY DEF IInv, BackoffStopped, At, Finish, durableVars, historyVars,
     outsideVars, StreakInv, RestartBudget, AttemptInv, TypeOK
<1>5. BelatedInv' /\ OneBelatedLaunch'
  BY DEF IInv, BackoffStopped, At, Finish, durableVars, historyVars,
     outsideVars, BelatedInv, OneBelatedLaunch, StopPending, TypeOK
<1>6. OutcomeInv' /\ ProvenCompletion'
  BY DEF IInv, BackoffStopped, At, Finish, durableVars, historyVars,
     outsideVars, OutcomeInv, ProvenCompletion, Finishing, TypeOK
<1>7. QED
  BY <1>1, <1>2, <1>3, <1>4, <1>5, <1>6 DEF IInv

\* A policy update during the backoff.
LEMMA BackoffPolicyStep ==
    ASSUME IInv, BackoffPolicy
    PROVE  IInv'
<1>1. TypeOK'
  BY DEF IInv, BackoffPolicy, At, Apply, Finish, Classify, Successful,
     durableVars, historyVars, outsideVars, TypeOK, Outcomes, NoUpdate
<1>2. AttemptInv' /\ AttemptsIncrease'
  BY DEF IInv, BackoffPolicy, At, Apply, Finish, Classify, Successful,
     durableVars, historyVars, outsideVars, AttemptInv, AttemptsIncrease,
     Deciding, TypeOK
<1>3. PhaseInv' /\ JobLossIsFinal'
  BY DEF IInv, BackoffPolicy, At, Apply, Finish, Classify, Successful,
     durableVars, historyVars, outsideVars, PhaseInv, JobLossIsFinal,
     Interrupted, Deciding, Finishing, TypeOK
<1>4. StreakInv' /\ RestartBudget'
  BY DEF IInv, BackoffPolicy, At, Apply, Finish, Classify, Successful,
     durableVars, historyVars, outsideVars, StreakInv, RestartBudget,
     AttemptInv, TypeOK
<1>5. BelatedInv' /\ OneBelatedLaunch'
  BY DEF IInv, BackoffPolicy, At, Apply, Finish, Classify, Successful,
     durableVars, historyVars, outsideVars, BelatedInv, OneBelatedLaunch,
     StopPending, TypeOK
<1>6. OutcomeInv' /\ ProvenCompletion'
  BY DEF IInv, BackoffPolicy, At, Apply, Finish, Classify, Successful,
     durableVars, historyVars, outsideVars, OutcomeInv, ProvenCompletion,
     Finishing, TypeOK
<1>7. QED
  BY <1>1, <1>2, <1>3, <1>4, <1>5, <1>6 DEF IInv

\* The backoff elapses.
LEMMA BackoffElapsedStep ==
    ASSUME IInv, BackoffElapsed
    PROVE  IInv'
<1>1. TypeOK'
  BY DEF IInv, BackoffElapsed, At, DeadlineWins, durableVars, historyVars,
     outsideVars, TypeOK, Outcomes, NoUpdate
<1>2. AttemptInv' /\ AttemptsIncrease'
  BY DEF IInv, BackoffElapsed, At, DeadlineWins, durableVars, historyVars,
     outsideVars, AttemptInv, AttemptsIncrease, Deciding, TypeOK
<1>3. PhaseInv' /\ JobLossIsFinal'
  BY DEF IInv, BackoffElapsed, At, DeadlineWins, durableVars, historyVars,
     outsideVars, PhaseInv, JobLossIsFinal, Interrupted, Deciding, Finishing,
     TypeOK
<1>4. StreakInv' /\ RestartBudget'
  BY DEF IInv, BackoffElapsed, At, DeadlineWins, durableVars, historyVars,
     outsideVars, StreakInv, RestartBudget, AttemptInv, TypeOK
<1>5. BelatedInv' /\ OneBelatedLaunch'
  BY DEF IInv, BackoffElapsed, At, DeadlineWins, durableVars, historyVars,
     outsideVars, BelatedInv, OneBelatedLaunch, StopPending, TypeOK
<1>6. OutcomeInv' /\ ProvenCompletion'
  BY DEF IInv, BackoffElapsed, At, DeadlineWins, durableVars, historyVars,
     outsideVars, OutcomeInv, ProvenCompletion, Finishing, TypeOK
<1>7. QED
  BY <1>1, <1>2, <1>3, <1>4, <1>5, <1>6 DEF IInv

\* The terminal observation.
LEMMA ObserveTerminalStep ==
    ASSUME IInv, ObserveTerminal
    PROVE  IInv'
<1>1. TypeOK'
  BY DEF IInv, ObserveTerminal, At, durableVars, historyVars, outsideVars,
     TypeOK, Outcomes, NoUpdate
<1>2. AttemptInv' /\ AttemptsIncrease'
  BY DEF IInv, ObserveTerminal, At, durableVars, historyVars, outsideVars,
     AttemptInv, AttemptsIncrease, Deciding, TypeOK
<1>3. PhaseInv' /\ JobLossIsFinal'
  BY DEF IInv, ObserveTerminal, At, durableVars, historyVars, outsideVars,
     PhaseInv, JobLossIsFinal, Interrupted, Deciding, Finishing, TypeOK
<1>4. StreakInv' /\ RestartBudget'
  BY DEF IInv, ObserveTerminal, At, durableVars, historyVars, outsideVars,
     StreakInv, RestartBudget, AttemptInv, TypeOK
<1>5. BelatedInv' /\ OneBelatedLaunch'
  BY DEF IInv, ObserveTerminal, At, durableVars, historyVars, outsideVars,
     BelatedInv, OneBelatedLaunch, StopPending, TypeOK
<1>6. OutcomeInv' /\ ProvenCompletion'
  BY DEF IInv, ObserveTerminal, At, durableVars, historyVars, outsideVars,
     OutcomeInv, ProvenCompletion, Finishing, TypeOK
<1>7. QED
  BY <1>1, <1>2, <1>3, <1>4, <1>5, <1>6 DEF IInv

\* result.pb.
LEMMA WriteResultStep ==
    ASSUME IInv, WriteResult
    PROVE  IInv'
<1>1. TypeOK'
  BY DEF IInv, WriteResult, At, durableVars, historyVars, outsideVars, TypeOK,
     Outcomes, NoUpdate
<1>2. AttemptInv' /\ AttemptsIncrease'
  BY DEF IInv, WriteResult, At, durableVars, historyVars, outsideVars,
     AttemptInv, AttemptsIncrease, Deciding, TypeOK
<1>3. PhaseInv' /\ JobLossIsFinal'
  BY DEF IInv, WriteResult, At, durableVars, historyVars, outsideVars,
     PhaseInv, JobLossIsFinal, Interrupted, Deciding, Finishing, TypeOK
<1>4. StreakInv' /\ RestartBudget'
  BY DEF IInv, WriteResult, At, durableVars, historyVars, outsideVars,
     StreakInv, RestartBudget, AttemptInv, TypeOK
<1>5. BelatedInv' /\ OneBelatedLaunch'
  BY DEF IInv, WriteResult, At, durableVars, historyVars, outsideVars,
     BelatedInv, OneBelatedLaunch, StopPending, TypeOK
<1>6. OutcomeInv' /\ ProvenCompletion'
  BY DEF IInv, WriteResult, At, durableVars, historyVars, outsideVars,
     OutcomeInv, ProvenCompletion, Finishing, TypeOK
<1>7. QED
  BY <1>1, <1>2, <1>3, <1>4, <1>5, <1>6 DEF IInv

\* The supervisor exits.
LEMMA ExitStep ==
    ASSUME IInv, Exit
    PROVE  IInv'
<1>1. TypeOK'
  BY DEF IInv, Exit, At, durableVars, historyVars, outsideVars, TypeOK,
     Outcomes, NoUpdate
<1>2. AttemptInv' /\ AttemptsIncrease'
  BY DEF IInv, Exit, At, durableVars, historyVars, outsideVars, AttemptInv,
     AttemptsIncrease, Deciding, TypeOK
<1>3. PhaseInv' /\ JobLossIsFinal'
  BY DEF IInv, Exit, At, durableVars, historyVars, outsideVars, PhaseInv,
     JobLossIsFinal, Interrupted, Deciding, Finishing, TypeOK
<1>4. StreakInv' /\ RestartBudget'
  BY DEF IInv, Exit, At, durableVars, historyVars, outsideVars, StreakInv,
     RestartBudget, AttemptInv, TypeOK
<1>5. BelatedInv' /\ OneBelatedLaunch'
  BY DEF IInv, Exit, At, durableVars, historyVars, outsideVars, BelatedInv,
     OneBelatedLaunch, StopPending, TypeOK
<1>6. OutcomeInv' /\ ProvenCompletion'
  BY DEF IInv, Exit, At, durableVars, historyVars, outsideVars, OutcomeInv,
     ProvenCompletion, Finishing, TypeOK
<1>7. QED
  BY <1>1, <1>2, <1>3, <1>4, <1>5, <1>6 DEF IInv

\* The workload ends.
LEMMA ChildExitsStep ==
    ASSUME IInv, NEW exit \in {"ok", "bad"}, ChildExits(exit)
    PROVE  IInv'
<1>1. TypeOK'
  BY DEF IInv, ChildExits, durableVars, historyVars, outsideVars, TypeOK,
     Outcomes, NoUpdate
<1>2. AttemptInv' /\ AttemptsIncrease'
  BY DEF IInv, ChildExits, durableVars, historyVars, outsideVars, AttemptInv,
     AttemptsIncrease, Deciding, TypeOK
<1>3. PhaseInv' /\ JobLossIsFinal'
  BY DEF IInv, ChildExits, durableVars, historyVars, outsideVars, PhaseInv,
     JobLossIsFinal, Interrupted, Deciding, Finishing, TypeOK
<1>4. StreakInv' /\ RestartBudget'
  BY DEF IInv, ChildExits, durableVars, historyVars, outsideVars, StreakInv,
     RestartBudget, AttemptInv, TypeOK
<1>5. BelatedInv' /\ OneBelatedLaunch'
  BY DEF IInv, ChildExits, durableVars, historyVars, outsideVars, BelatedInv,
     OneBelatedLaunch, StopPending, TypeOK
<1>6. OutcomeInv' /\ ProvenCompletion'
  BY DEF IInv, ChildExits, durableVars, historyVars, outsideVars, OutcomeInv,
     ProvenCompletion, Finishing, TypeOK
<1>7. QED
  BY <1>1, <1>2, <1>3, <1>4, <1>5, <1>6 DEF IInv

\* A descendant inherits the output pipes.
LEMMA InheritStep ==
    ASSUME IInv, Inherit
    PROVE  IInv'
<1>1. TypeOK'
  <2>1. heirs' \in BOOLEAN
    BY DEF Inherit
  <2>2. QED
    BY <2>1 DEF IInv, TypeOK, Inherit, durableVars, historyVars
<1>2. AttemptInv' /\ AttemptsIncrease'
  BY DEF IInv, Inherit, durableVars, historyVars, outsideVars,
     AttemptInv, AttemptsIncrease, Deciding, TypeOK
<1>3. PhaseInv' /\ JobLossIsFinal'
  BY DEF IInv, Inherit, durableVars, historyVars, outsideVars,
     PhaseInv, JobLossIsFinal, Interrupted, Deciding, Finishing, TypeOK
<1>4. StreakInv' /\ RestartBudget'
  BY DEF IInv, Inherit, durableVars, historyVars, outsideVars,
     StreakInv, RestartBudget, AttemptInv, TypeOK
<1>5. BelatedInv' /\ OneBelatedLaunch'
  BY DEF IInv, Inherit, durableVars, historyVars, outsideVars,
     BelatedInv, OneBelatedLaunch, StopPending, TypeOK
<1>6. OutcomeInv' /\ ProvenCompletion'
  BY DEF IInv, Inherit, durableVars, historyVars, outsideVars,
     OutcomeInv, ProvenCompletion, Finishing, TypeOK
<1>7. QED
  BY <1>1, <1>2, <1>3, <1>4, <1>5, <1>6 DEF IInv

\* The last descendant closes them.
LEMMA HeirsLeaveStep ==
    ASSUME IInv, HeirsLeave
    PROVE  IInv'
<1>1. TypeOK'
  <2>1. heirs' \in BOOLEAN
    BY DEF HeirsLeave
  <2>2. QED
    BY <2>1 DEF IInv, TypeOK, HeirsLeave, durableVars, historyVars
<1>2. AttemptInv' /\ AttemptsIncrease'
  BY DEF IInv, HeirsLeave, durableVars, historyVars, outsideVars,
     AttemptInv, AttemptsIncrease, Deciding, TypeOK
<1>3. PhaseInv' /\ JobLossIsFinal'
  BY DEF IInv, HeirsLeave, durableVars, historyVars, outsideVars,
     PhaseInv, JobLossIsFinal, Interrupted, Deciding, Finishing, TypeOK
<1>4. StreakInv' /\ RestartBudget'
  BY DEF IInv, HeirsLeave, durableVars, historyVars, outsideVars,
     StreakInv, RestartBudget, AttemptInv, TypeOK
<1>5. BelatedInv' /\ OneBelatedLaunch'
  BY DEF IInv, HeirsLeave, durableVars, historyVars, outsideVars,
     BelatedInv, OneBelatedLaunch, StopPending, TypeOK
<1>6. OutcomeInv' /\ ProvenCompletion'
  BY DEF IInv, HeirsLeave, durableVars, historyVars, outsideVars,
     OutcomeInv, ProvenCompletion, Finishing, TypeOK
<1>7. QED
  BY <1>1, <1>2, <1>3, <1>4, <1>5, <1>6 DEF IInv

\* A stop arrives.
LEMMA RequestStopStep ==
    ASSUME IInv, NEW source \in {"link", "stdin"}, RequestStop(source)
    PROVE  IInv'
<1>1. TypeOK'
  BY DEF IInv, RequestStop, durableVars, historyVars, outsideVars, TypeOK,
     Outcomes, NoUpdate
<1>2. AttemptInv' /\ AttemptsIncrease'
  BY DEF IInv, RequestStop, durableVars, historyVars, outsideVars, AttemptInv,
     AttemptsIncrease, Deciding, TypeOK
<1>3. PhaseInv' /\ JobLossIsFinal'
  BY DEF IInv, RequestStop, durableVars, historyVars, outsideVars, PhaseInv,
     JobLossIsFinal, Interrupted, Deciding, Finishing, TypeOK
<1>4. StreakInv' /\ RestartBudget'
  BY DEF IInv, RequestStop, durableVars, historyVars, outsideVars, StreakInv,
     RestartBudget, AttemptInv, TypeOK
<1>5. BelatedInv' /\ OneBelatedLaunch'
  BY DEF IInv, RequestStop, durableVars, historyVars, outsideVars, BelatedInv,
     OneBelatedLaunch, StopPending, TypeOK
<1>6. OutcomeInv' /\ ProvenCompletion'
  BY DEF IInv, RequestStop, durableVars, historyVars, outsideVars, OutcomeInv,
     ProvenCompletion, Finishing, TypeOK
<1>7. QED
  BY <1>1, <1>2, <1>3, <1>4, <1>5, <1>6 DEF IInv

\* The session event is signaled.
LEMMA SessionEndsStep ==
    ASSUME IInv, SessionEnds
    PROVE  IInv'
<1>1. TypeOK'
  BY DEF IInv, SessionEnds, durableVars, historyVars, outsideVars, TypeOK,
     Outcomes, NoUpdate
<1>2. AttemptInv' /\ AttemptsIncrease'
  BY DEF IInv, SessionEnds, durableVars, historyVars, outsideVars, AttemptInv,
     AttemptsIncrease, Deciding, TypeOK
<1>3. PhaseInv' /\ JobLossIsFinal'
  BY DEF IInv, SessionEnds, durableVars, historyVars, outsideVars, PhaseInv,
     JobLossIsFinal, Interrupted, Deciding, Finishing, TypeOK
<1>4. StreakInv' /\ RestartBudget'
  BY DEF IInv, SessionEnds, durableVars, historyVars, outsideVars, StreakInv,
     RestartBudget, AttemptInv, TypeOK
<1>5. BelatedInv' /\ OneBelatedLaunch'
  BY DEF IInv, SessionEnds, durableVars, historyVars, outsideVars, BelatedInv,
     OneBelatedLaunch, StopPending, TypeOK
<1>6. OutcomeInv' /\ ProvenCompletion'
  BY DEF IInv, SessionEnds, durableVars, historyVars, outsideVars, OutcomeInv,
     ProvenCompletion, Finishing, TypeOK
<1>7. QED
  BY <1>1, <1>2, <1>3, <1>4, <1>5, <1>6 DEF IInv

\* A policy update arrives.
LEMMA SendPolicyStep ==
    ASSUME IInv, NEW p \in Policies, SendPolicy(p)
    PROVE  IInv'
<1>1. TypeOK'
  BY RunnerAssumption DEF IInv, SendPolicy, durableVars, historyVars,
     outsideVars, TypeOK, Outcomes, NoUpdate
<1>2. AttemptInv' /\ AttemptsIncrease'
  BY DEF IInv, SendPolicy, durableVars, historyVars, outsideVars, AttemptInv,
     AttemptsIncrease, Deciding, TypeOK
<1>3. PhaseInv' /\ JobLossIsFinal'
  BY DEF IInv, SendPolicy, durableVars, historyVars, outsideVars, PhaseInv,
     JobLossIsFinal, Interrupted, Deciding, Finishing, TypeOK
<1>4. StreakInv' /\ RestartBudget'
  BY DEF IInv, SendPolicy, durableVars, historyVars, outsideVars, StreakInv,
     RestartBudget, AttemptInv, TypeOK
<1>5. BelatedInv' /\ OneBelatedLaunch'
  BY DEF IInv, SendPolicy, durableVars, historyVars, outsideVars, BelatedInv,
     OneBelatedLaunch, StopPending, TypeOK
<1>6. OutcomeInv' /\ ProvenCompletion'
  BY DEF IInv, SendPolicy, durableVars, historyVars, outsideVars, OutcomeInv,
     ProvenCompletion, Finishing, TypeOK
<1>7. QED
  BY <1>1, <1>2, <1>3, <1>4, <1>5, <1>6 DEF IInv

\* The supervisor crashes.
LEMMA CrashStep ==
    ASSUME IInv, Crash
    PROVE  IInv'
<1>1. TypeOK'
  <2>1. lostAt' \in Nat /\ lastExit' \in {"none", "ok", "bad"} /\ crashes' \in Nat
    BY DEF IInv, TypeOK, Crash
  <2>2. /\ policy' \in Policies /\ succ' \in BOOLEAN
        /\ end' \in [launched : BOOLEAN, exit : {"none", "ok", "bad"}, stopped : BOOLEAN]
    BY RunnerAssumption DEF Crash, NoEnd
  <2>3. QED
    BY <2>1, <2>2 DEF IInv, TypeOK, Crash, Outcomes, durableVars
<1>2. AttemptInv' /\ AttemptsIncrease'
  BY DEF IInv, Crash, NoEnd, NoUpdate, durableVars, historyVars, outsideVars,
     AttemptInv, AttemptsIncrease, Deciding, TypeOK
<1>3. PhaseInv' /\ JobLossIsFinal'
  BY DEF IInv, Crash, NoEnd, NoUpdate, durableVars, historyVars, outsideVars,
     PhaseInv, JobLossIsFinal, Interrupted, Deciding, Finishing, TypeOK
<1>4. StreakInv' /\ RestartBudget'
  BY DEF IInv, Crash, NoEnd, NoUpdate, durableVars, historyVars, outsideVars,
     StreakInv, RestartBudget, AttemptInv, TypeOK
<1>5. BelatedInv' /\ OneBelatedLaunch'
  BY DEF IInv, Crash, NoEnd, NoUpdate, durableVars, historyVars, outsideVars,
     BelatedInv, OneBelatedLaunch, StopPending, TypeOK
<1>6. OutcomeInv' /\ ProvenCompletion'
  BY DEF IInv, Crash, NoEnd, NoUpdate, durableVars, historyVars, outsideVars,
     OutcomeInv, ProvenCompletion, Finishing, TypeOK
<1>7. QED
  BY <1>1, <1>2, <1>3, <1>4, <1>5, <1>6 DEF IInv

\* A replacement is spawned.
LEMMA RespawnStep ==
    ASSUME IInv, Respawn
    PROVE  IInv'
<1>1. TypeOK'
  BY RunnerAssumption DEF IInv, Respawn, durableVars, historyVars, outsideVars,
     TypeOK, Outcomes, NoUpdate
<1>2. AttemptInv' /\ AttemptsIncrease'
  BY DEF IInv, Respawn, durableVars, historyVars, outsideVars, AttemptInv,
     AttemptsIncrease, Deciding, TypeOK
<1>3. PhaseInv' /\ JobLossIsFinal'
  BY DEF IInv, Respawn, durableVars, historyVars, outsideVars, PhaseInv,
     JobLossIsFinal, Interrupted, Deciding, Finishing, TypeOK
<1>4. StreakInv' /\ RestartBudget'
  BY DEF IInv, Respawn, durableVars, historyVars, outsideVars, StreakInv,
     RestartBudget, AttemptInv, TypeOK
<1>5. BelatedInv' /\ OneBelatedLaunch'
  BY DEF IInv, Respawn, durableVars, historyVars, outsideVars, BelatedInv,
     OneBelatedLaunch, StopPending, TypeOK
<1>6. OutcomeInv' /\ ProvenCompletion'
  BY DEF IInv, Respawn, durableVars, historyVars, outsideVars, OutcomeInv,
     ProvenCompletion, Finishing, TypeOK
<1>7. QED
  BY <1>1, <1>2, <1>3, <1>4, <1>5, <1>6 DEF IInv

-----------------------------------------------------------------------------

\* The initial state satisfies the invariant.
LEMMA InitIInv == Init => IInv
<1> SUFFICES ASSUME Init PROVE IInv
  OBVIOUS
<1>1. TypeOK
  <2>1. InitialPolicy \in Policies
    BY RunnerAssumption
  <2>2. said \in BOOLEAN /\ ending \in BOOLEAN /\ succ \in BOOLEAN /\ heirs \in BOOLEAN
    BY DEF Init
  <2>3. end \in [launched : BOOLEAN, exit : {"none", "ok", "bad"}, stopped : BOOLEAN]
    BY DEF Init, NoEnd
  <2>4. QED
    BY <2>1, <2>2, <2>3 DEF Init, TypeOK, Outcomes
<1>2. AttemptInv /\ PhaseInv /\ StreakInv /\ BelatedInv /\ OutcomeInv
  BY DEF Init, AttemptInv, PhaseInv, StreakInv, BelatedInv, OutcomeInv, Deciding,
         Finishing, NoEnd
<1>3. RestartBudget
  BY RunnerAssumption DEF Init, RestartBudget
<1>4. AttemptsIncrease /\ JobLossIsFinal /\ OneBelatedLaunch /\ ProvenCompletion
  BY DEF Init, AttemptsIncrease, JobLossIsFinal, OneBelatedLaunch, ProvenCompletion
<1>5. QED
  BY <1>1, <1>2, <1>3, <1>4 DEF IInv

\* Every step of the specification preserves the invariant.
LEMMA NextIInv == IInv /\ [Next]_vars => IInv'
<1> SUFFICES ASSUME IInv, [Next]_vars PROVE IInv'
  OBVIOUS
<1>1. CASE RunnerStep
  <2>1. CASE StartFresh
    BY <2>1, StartFreshStep
  <2>2. CASE RecoverStopped
    BY <2>2, RecoverStoppedStep
  <2>3. CASE RecoverLost
    BY <2>3, RecoverLostStep
  <2>4. CASE RecoverBackoff
    BY <2>4, RecoverBackoffStep
  <2>5. CASE CheckpointLaunch
    BY <2>5, CheckpointLaunchStep
  <2>6. CASE PreflightFails
    BY <2>6, PreflightFailsStep
  <2>7. CASE SpawnFails
    BY <2>7, SpawnFailsStep
  <2>8. CASE Spawn
    BY <2>8, SpawnStep
  <2>9. CASE CheckpointRunning
    BY <2>9, CheckpointRunningStep
  <2>10. CASE WaitReturns
    BY <2>10, WaitReturnsStep
  <2>11. CASE BeginStop
    BY <2>11, BeginStopStep
  <2>12. CASE ApplyRunning
    BY <2>12, ApplyRunningStep
  <2>13. CASE Kill
    BY <2>13, KillStep
  <2>14. CASE StopReturns
    BY <2>14, StopReturnsStep
  <2>15. CASE Decide
    BY <2>15, DecideStep
  <2>16. CASE BackoffStopped
    BY <2>16, BackoffStoppedStep
  <2>17. CASE BackoffPolicy
    BY <2>17, BackoffPolicyStep
  <2>18. CASE BackoffElapsed
    BY <2>18, BackoffElapsedStep
  <2>19. CASE ObserveTerminal
    BY <2>19, ObserveTerminalStep
  <2>20. CASE WriteResult
    BY <2>20, WriteResultStep
  <2>21. CASE Exit
    BY <2>21, ExitStep
  <2>22. CASE Drained
    BY <2>22, DrainedStep
  <2>23. QED
    BY <1>1, <2>1, <2>2, <2>3, <2>4, <2>5, <2>6, <2>7, <2>8, <2>9, <2>10,
       <2>11, <2>12, <2>13, <2>14, <2>15, <2>16, <2>17, <2>18, <2>19, <2>20,
       <2>21, <2>22 DEF RunnerStep
<1>2. CASE \E exit \in {"ok", "bad"} : ChildExits(exit)
  BY <1>2, ChildExitsStep
<1>3. CASE Inherit
  BY <1>3, InheritStep
<1>4. CASE HeirsLeave
  BY <1>4, HeirsLeaveStep
<1>5. CASE \E source \in {"link", "stdin"} : RequestStop(source)
  BY <1>5, RequestStopStep
<1>6. CASE SessionEnds
  BY <1>6, SessionEndsStep
<1>7. CASE \E p \in Policies : SendPolicy(p)
  BY <1>7, SendPolicyStep
<1>8. CASE Crash
  BY <1>8, CrashStep
<1>9. CASE Respawn
  BY <1>9, RespawnStep
<1>10. CASE UNCHANGED vars
  BY <1>10 DEF vars, IInv, TypeOK, AttemptInv, PhaseInv, StreakInv, BelatedInv, OutcomeInv,
            AttemptsIncrease, JobLossIsFinal, RestartBudget, OneBelatedLaunch,
            ProvenCompletion, StopPending, Interrupted
<1>11. QED
  BY <1>1, <1>2, <1>3, <1>4, <1>5, <1>6, <1>7, <1>8, <1>9, <1>10
  DEF Next

-----------------------------------------------------------------------------

\* The invariant holds in every reachable state.
THEOREM RunnerInductive == Spec => []IInv
<1>1. QED
  BY InitIInv, NextIInv, PTL DEF Spec

\* Type correctness of every runner state.
THEOREM RunnerTypeCorrect == Spec => []TypeOK
<1>1. IInv => TypeOK
  BY DEF IInv
<1>2. QED
  BY <1>1, RunnerInductive, PTL

\* However often the supervisor of an execution crashes and is replaced, no
\* attempt's process is created twice and attempts are created in order: the
\* launching checkpoint precedes the process, and a recovery from it moves on.
THEOREM AttemptsNeverRepeat == Spec => []AttemptsIncrease
<1>1. IInv => AttemptsIncrease
  BY DEF IInv
<1>2. QED
  BY <1>1, RunnerInductive, PTL

\* A job whose supervisor was lost with an undecided attempt is never launched
\* again.
THEOREM LostJobsAreNotRerun == Spec => []JobLossIsFinal
<1>1. IInv => JobLossIsFinal
  BY DEF IInv
<1>2. QED
  BY <1>1, RunnerInductive, PTL

\* With finite budgets the consecutive retries stay within the largest budget
\* granted, across crashes and hot policy updates.
THEOREM BudgetHolds == Spec => []RestartBudget
<1>1. IInv => RestartBudget
  BY DEF IInv
<1>2. QED
  BY <1>1, RunnerInductive, PTL

\* A supervisor that has received a stop creates at most one more process.
THEOREM StopPreventsLaunches == Spec => []OneBelatedLaunch
<1>1. IInv => OneBelatedLaunch
  BY DEF IInv
<1>2. QED
  BY <1>1, RunnerInductive, PTL

\* result.pb says completed only if the latest workload process exited well.
THEOREM CompletionIsProven == Spec => []ProvenCompletion
<1>1. IInv => ProvenCompletion
  BY DEF IInv
<1>2. QED
  BY <1>1, RunnerInductive, PTL
=============================================================================
