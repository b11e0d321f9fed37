------------------------------- MODULE Runner -------------------------------
(***************************************************************************)
(* The supervisor's runner (supervisor/src/runner.rs): the attempts of ONE *)
(* execution, from the first supervisor process of it to the last.  Every  *)
(* process starts from the latest checkpoint of the runtime journal; it    *)
(* launches the workload, waits, decides about a retry and backs off,      *)
(* until it records a terminal observation and writes result.pb.           *)
(*                                                                         *)
(* A step ends where the runner awaits, or where it has written something  *)
(* a replacement will read: a crash may fall between any two steps.        *)
(*                                                                         *)
(* Abstractions.  An exit code is "ok" or "bad" under success_exit_codes.  *)
(* Time is abstracted: a backoff may elapse and a stop timeout expire at   *)
(* any moment, an attempt may or may not have run for reset_after.         *)
(* Journal, log and result writes succeed.  The outcome "stopped" is       *)
(* "cancelled" for a job.  Of the output capture only its end is in this   *)
(* module: run_process waits until nobody holds the output pipes.          *)
(***************************************************************************)
EXTENDS Naturals, Sequences

CONSTANTS Policies,       \* restart policies the definition can have
          InitialPolicy,  \* the one in execution.pb
          MaxAttempts,    \* bound: the last attempt runs until it is stopped
          MaxCrashes,     \* bound: supervisor crashes
          MaxUpdates      \* bound: policy updates

Modes == {"never", "on-failure", "always"}
NoUpdate == [mode |-> "none", max |-> 0, unlimited |-> FALSE]

ASSUME RunnerAssumption ==
    /\ Policies \subseteq [mode : Modes, max : Nat, unlimited : BOOLEAN]
    /\ InitialPolicy \in Policies
    /\ MaxAttempts \in Nat \ {0} /\ MaxCrashes \in Nat /\ MaxUpdates \in Nat

VARIABLES
  kind,      \* "service" or "job", for the whole life of the execution
  \* Durable: the runtime journal, result.pb, the session event.
  ckpt,      \* the latest checkpoint
  said,      \* a terminal observation has been journalled
  result,    \* outcome in result.pb, "none" while absent
  ending,    \* the manager-session ending event is signaled
  \* The supervisor process.
  proc,      \* "up", "down" (crashed) or "exited"
  pc,        \* where run is
  attempt, retries, policy,
  succ,      \* the attempt before the current backoff was successful
  end,       \* AttemptResult of the attempt that just ended
  outcome,   \* the kind finish_execution_kind was called with
  stop,      \* a stop received and not consumed: "link", "stdin" or "none"
  update,    \* the policy update on the watch channel, or NoUpdate
  \* The workload process.
  child,     \* the attempt whose process is alive, 0 for none
  heirs,     \* other processes of its Job hold its output pipes
  \* History.
  launches,  \* attempts in the order their processes were created
  lostAt,    \* Len(launches) when an undecided attempt was lost, 0 if never
  lastExit,  \* how the latest workload process ended
  streak,    \* consecutive retries so far, whoever counted them
  belated,   \* launches of this process since it received a stop
  crashes, updates

durableVars == <<ckpt, said, result, ending>>
historyVars == <<launches, lostAt, lastExit, streak, belated>>
outsideVars == <<kind, heirs, crashes, updates>>
vars == <<kind, ckpt, said, result, ending, proc, pc, attempt, retries, policy, succ,
          end, outcome, stop, update, child, heirs, launches, lostAt, lastExit, streak,
          belated, crashes, updates>>

NoEnd == [launched |-> FALSE, exit |-> "none", stopped |-> FALSE]
Outcomes == {"completed", "failed", "stopped", "outcome-unknown"}

\* One type invariant: checkpoint, counters and results stay in shape.
TypeOK ==
    /\ kind \in {"service", "job"}
    /\ ckpt \in [phase : {"none", "launching", "running", "restart_backoff"},
                 attempt : Nat]
    /\ said \in BOOLEAN /\ ending \in BOOLEAN
    /\ result \in Outcomes \cup {"none"} /\ outcome \in Outcomes \cup {"none"}
    /\ proc \in {"up", "down", "exited"}
    /\ pc \in {"start", "loop", "launch", "spawned", "running", "stopping",
               "draining", "ended", "backoff", "terminal", "result", "done"}
    /\ attempt \in Nat /\ retries \in Nat
    /\ policy \in Policies
    /\ succ \in BOOLEAN
    /\ end \in [launched : BOOLEAN, exit : {"none", "ok", "bad"}, stopped : BOOLEAN]
    /\ stop \in {"none", "link", "stdin"}
    /\ update \in Policies \cup {NoUpdate}
    /\ child \in Nat /\ heirs \in BOOLEAN
    /\ launches \in Seq(Nat \ {0})
    /\ lostAt \in Nat /\ streak \in Nat /\ belated \in Nat
    /\ lastExit \in {"none", "ok", "bad"}
    /\ crashes \in Nat /\ updates \in Nat

\* The controller has written execution.pb and spawned a first supervisor.
Init ==
    /\ kind \in {"service", "job"}
    /\ ckpt = [phase |-> "none", attempt |-> 0] /\ said = FALSE
    /\ result = "none" /\ ending = FALSE
    /\ proc = "up" /\ pc = "start" /\ attempt = 0 /\ retries = 0
    /\ policy = InitialPolicy /\ succ = FALSE /\ end = NoEnd /\ outcome = "none"
    /\ stop = "none" /\ update = NoUpdate /\ child = 0 /\ heirs = FALSE
    /\ launches = <<>> /\ lostAt = 0 /\ lastExit = "none" /\ streak = 0
    /\ belated = 0
    /\ crashes = 0 /\ updates = 0

At(label) == proc = "up" /\ pc = label

\* A stop the runner would see at its next select.
StopPending == ending \/ stop # "none"

\* stop_requested looks at the link's flag and the session event only.
StopSignaled == ending \/ stop = "link"

Checkpoint(phase, n) == ckpt' = [phase |-> phase, attempt |-> n]

\* should_retry
ShouldRetry(p, successful, n) ==
    /\ p.mode = "always" \/ (p.mode = "on-failure" /\ ~successful)
    /\ p.unlimited \/ n < p.max

\* finish_execution chooses the kind of the terminal observation.
Finish(how) == pc' = "terminal" /\ outcome' = how

\* A retry of attempt n, the r-th in the runner's count and really the k-th:
\* the next attempt is checkpointed before the wait.
Retry(n, r, k, successful) ==
    /\ attempt' = n + 1 /\ retries' = r /\ streak' = k
    /\ Checkpoint("restart_backoff", n + 1)
    /\ succ' = successful
    /\ pc' = "backoff" /\ UNCHANGED outcome

-----------------------------------------------------------------------------
(* The beginning of run: the journal's checkpoint says where to continue. *)

StartFresh ==
    /\ At("start") /\ ckpt.phase = "none"
    /\ attempt' = 1 /\ retries' = 0
    /\ pc' = "loop"
    /\ UNCHANGED <<proc, policy, succ, end, outcome, stop, update, child>>
    /\ UNCHANGED durableVars /\ UNCHANGED historyVars /\ UNCHANGED outsideVars

MutCountFromZero(n) == 0

\* The number of retries a checkpoint of attempt n stands for.
RecoveredRetries(n) == n - 1

\* The predecessor was lost with an attempt whose end nobody knows.
Interrupted == ckpt.phase \in {"launching", "running"}

\* attempt and retries as run reads them from the checkpoint.
Resume ==
    /\ attempt' = ckpt.attempt
    /\ retries' = RecoveredRetries(ckpt.attempt)

RecoverStopped ==
    /\ At("start") /\ Interrupted /\ StopSignaled
    /\ Resume /\ Finish("stopped")
    /\ UNCHANGED <<proc, policy, succ, end, stop, update, child>>
    /\ UNCHANGED durableVars /\ UNCHANGED historyVars /\ UNCHANGED outsideVars

MutJobAsService == FALSE

\* A lost attempt of a job is not retried.
LossIsFinal == kind = "job"

\* The attempt is recorded as lost; a job ends, a service consults its policy.
RecoverLost ==
    /\ At("start") /\ Interrupted /\ ~StopSignaled
    /\ LET n == RecoveredRetries(ckpt.attempt) IN
         \/ /\ LossIsFinal
            /\ Resume /\ Finish("outcome-unknown")
            /\ UNCHANGED <<ckpt, succ, streak>>
         \/ /\ ~LossIsFinal /\ ~ShouldRetry(policy, FALSE, n)
            /\ Resume /\ Finish("failed")
            /\ UNCHANGED <<ckpt, succ, streak>>
         \/ /\ ~LossIsFinal /\ ShouldRetry(policy, FALSE, n)
            /\ Retry(ckpt.attempt, n + 1, streak + 1, FALSE)
    /\ UNCHANGED <<said, result, ending, proc, policy, end, stop, update, child,
                   launches, lostAt, lastExit, belated>>
    /\ UNCHANGED outsideVars

\* The persisted deadline is resumed, unless it has passed meanwhile.
RecoverBackoff ==
    /\ At("start") /\ ckpt.phase = "restart_backoff"
    /\ Resume /\ succ' = FALSE
    /\ pc' \in {"backoff", "loop"}
    /\ UNCHANGED <<proc, policy, end, outcome, stop, update, child>>
    /\ UNCHANGED durableVars /\ UNCHANGED historyVars /\ UNCHANGED outsideVars

-----------------------------------------------------------------------------
(* One attempt. *)

\* Applying an update: the observation policy-applied tells the controller.
Apply ==
    IF update = NoUpdate
      THEN UNCHANGED <<policy, update>>
      ELSE policy' = update /\ update' = NoUpdate

MutLaunchUncheckpointed ==
    /\ At("loop")
    /\ Apply
    /\ pc' = "launch"
    /\ UNCHANGED <<ckpt, said, result, ending, proc, attempt, retries, succ, end,
                   outcome, stop, child, launches, lostAt, lastExit, streak, belated>>
    /\ UNCHANGED outsideVars

\* The launching checkpoint comes before the process exists.
CheckpointLaunch ==
    /\ At("loop")
    /\ Checkpoint("launching", attempt)
    /\ Apply
    /\ pc' = "launch"
    /\ UNCHANGED <<said, result, ending, proc, attempt, retries, succ, end, outcome,
                   stop, child, launches, lostAt, lastExit, streak, belated>>
    /\ UNCHANGED outsideVars

\* preflight_configuration fails and reports a stop that it can see.
PreflightFails ==
    /\ At("launch") /\ attempt < MaxAttempts
    /\ end' = [NoEnd EXCEPT !.stopped = StopSignaled]
    /\ pc' = "ended"
    /\ UNCHANGED <<proc, attempt, retries, policy, succ, outcome, stop, update, child>>
    /\ UNCHANGED durableVars /\ UNCHANGED historyVars /\ UNCHANGED outsideVars

\* The process cannot be created: failed_result, no stop reported.
SpawnFails ==
    /\ At("launch") /\ attempt < MaxAttempts
    /\ end' = NoEnd
    /\ pc' = "ended"
    /\ UNCHANGED <<proc, attempt, retries, policy, succ, outcome, stop, update, child>>
    /\ UNCHANGED durableVars /\ UNCHANGED historyVars /\ UNCHANGED outsideVars

Spawn ==
    /\ At("launch")
    /\ child' = attempt /\ launches' = Append(launches, attempt)
    /\ lastExit' = "none"
    /\ belated' = IF StopPending THEN belated + 1 ELSE belated
    /\ pc' = "spawned"
    /\ UNCHANGED <<proc, attempt, retries, policy, succ, end, outcome, stop, update,
                   lostAt, streak>>
    /\ UNCHANGED durableVars /\ UNCHANGED outsideVars

CheckpointRunning ==
    /\ At("spawned")
    /\ Checkpoint("running", attempt)
    /\ pc' = "running"
    /\ UNCHANGED <<said, result, ending, proc, attempt, retries, policy, succ, end,
                   outcome, stop, update, child>>
    /\ UNCHANGED historyVars /\ UNCHANGED outsideVars

\* The workload process ends by itself, or obeys a stop.
ChildExits(exit) ==
    /\ proc = "up" /\ child # 0
    /\ attempt < MaxAttempts \/ pc = "stopping"
    /\ child' = 0 /\ lastExit' = exit
    /\ UNCHANGED <<proc, pc, attempt, retries, policy, succ, end, outcome, stop, update,
                   launches, lostAt, streak, belated>>
    /\ UNCHANGED durableVars /\ UNCHANGED outsideVars

\* The workload starts a process that inherits its output pipes ...
Inherit ==
    /\ proc = "up" /\ child # 0 /\ ~heirs
    /\ heirs' = TRUE
    /\ UNCHANGED <<kind, crashes, updates, proc, pc, attempt, retries, policy, succ, end,
                   outcome, stop, update, child>>
    /\ UNCHANGED durableVars /\ UNCHANGED historyVars

\* ... and the last such process closes them.
HeirsLeave ==
    /\ heirs
    /\ heirs' = FALSE
    /\ UNCHANGED <<kind, crashes, updates, proc, pc, attempt, retries, policy, succ, end,
                   outcome, stop, update, child>>
    /\ UNCHANGED durableVars /\ UNCHANGED historyVars

\* The wait for the child is over and what it said is kept.
Ended(stopped) ==
    /\ end' = [launched |-> TRUE, exit |-> lastExit, stopped |-> stopped]
    /\ pc' = "draining"

\* The biased select: the session event, then the child, then the others.
WaitReturns ==
    /\ At("running") /\ ~ending /\ child = 0
    /\ Ended(FALSE)
    /\ UNCHANGED <<proc, attempt, retries, policy, succ, outcome, stop, update, child>>
    /\ UNCHANGED durableVars /\ UNCHANGED historyVars /\ UNCHANGED outsideVars

MutIgnoreStdin == ending \/ (stop = "link" /\ child # 0)

\* The session event beats the child's exit, which beats every other stop.
SeesStop == ending \/ (stop # "none" /\ child # 0)

BeginStop ==
    /\ At("running") /\ SeesStop
    /\ pc' = "stopping"
    /\ UNCHANGED <<proc, attempt, retries, policy, succ, end, outcome, stop, update, child>>
    /\ UNCHANGED durableVars /\ UNCHANGED historyVars /\ UNCHANGED outsideVars

ApplyRunning ==
    /\ At("running") /\ ~StopPending /\ child # 0 /\ update # NoUpdate
    /\ Apply
    /\ UNCHANGED <<proc, pc, attempt, retries, succ, end, outcome, stop, child,
                   launches, lostAt, lastExit, streak, belated>>
    /\ UNCHANGED durableVars /\ UNCHANGED outsideVars

\* stop_process: the timeout passed, or the stop method is "kill".  The Job is
\* terminated, with every process in it.
Kill ==
    /\ At("stopping") /\ child # 0
    /\ child' = 0 /\ lastExit' = "bad" /\ heirs' = FALSE
    /\ UNCHANGED <<kind, crashes, updates, proc, pc, attempt, retries, policy, succ, end,
                   outcome, stop, update, launches, lostAt, streak, belated>>
    /\ UNCHANGED durableVars

StopReturns ==
    /\ At("stopping") /\ child = 0
    /\ Ended(TRUE)
    /\ UNCHANGED <<proc, attempt, retries, policy, succ, outcome, stop, update, child>>
    /\ UNCHANGED durableVars /\ UNCHANGED historyVars /\ UNCHANGED outsideVars

\* run_process awaits the two drain tasks and the writer, outside any select:
\* nothing else is seen until the pipes are closed.
Drained ==
    /\ At("draining") /\ ~heirs
    /\ pc' = "ended"
    /\ UNCHANGED <<proc, attempt, retries, policy, succ, end, outcome, stop, update, child>>
    /\ UNCHANGED durableVars /\ UNCHANGED historyVars /\ UNCHANGED outsideVars

-----------------------------------------------------------------------------
(* The decision, the backoff and the end. *)

MutNoExitIsSuccess(e) == e.exit # "bad"

\* Whether an attempt was successful: an exit code, and a good one.
Successful(e) == e.exit = "ok"

\* finish_execution: how a result that is not retried is named.
Classify(e) ==
    IF e.stopped THEN "stopped" ELSE IF Successful(e) THEN "completed" ELSE "failed"

\* An attempt that ran for reset_after starts the count again; a job's
\* restart_reset_after_ms is 0.
MayReset == end.launched /\ kind = "service"

Decide ==
    /\ At("ended")
    /\ \/ /\ end.stopped /\ Finish("stopped")
          /\ UNCHANGED <<ckpt, attempt, retries, succ, streak>>
       \/ /\ ~end.stopped
          /\ \E ranLong \in BOOLEAN :
               /\ ranLong => MayReset
               /\ LET n == IF ranLong THEN 0 ELSE retries
                      s == IF ranLong THEN 0 ELSE streak
                  IN \/ /\ ~ShouldRetry(policy, Successful(end), n)
                        /\ Finish(Classify(end))
                        /\ retries' = n /\ streak' = s
                        /\ UNCHANGED <<ckpt, attempt, succ>>
                     \/ /\ ShouldRetry(policy, Successful(end), n)
                        /\ Retry(attempt, n + 1, s + 1, Successful(end))
    /\ UNCHANGED <<said, result, ending, proc, policy, end, stop, update, child,
                   launches, lostAt, lastExit, belated>>
    /\ UNCHANGED outsideVars

\* wait_backoff, in the order of its biased select.
BackoffStopped ==
    /\ At("backoff") /\ StopPending
    /\ Finish("stopped")
    /\ UNCHANGED <<proc, attempt, retries, policy, succ, end, stop, update, child>>
    /\ UNCHANGED durableVars /\ UNCHANGED historyVars /\ UNCHANGED outsideVars

\* A policy update is applied and the pending retry decided again.
BackoffPolicy ==
    /\ At("backoff") /\ ~StopPending /\ update # NoUpdate
    /\ Apply
    /\ IF ShouldRetry(update, succ, retries - 1)
         THEN UNCHANGED <<pc, outcome>>
         ELSE Finish(Classify(end))
    /\ UNCHANGED <<proc, attempt, retries, succ, end, stop, child,
                   launches, lostAt, lastExit, streak, belated>>
    /\ UNCHANGED durableVars /\ UNCHANGED outsideVars

\* The deadline is polled last.
DeadlineWins == ~StopPending /\ update = NoUpdate

BackoffElapsed ==
    /\ At("backoff") /\ DeadlineWins
    /\ pc' = "loop"
    /\ UNCHANGED <<proc, attempt, retries, policy, succ, end, outcome, stop, update, child>>
    /\ UNCHANGED durableVars /\ UNCHANGED historyVars /\ UNCHANGED outsideVars

\* finish_execution_kind: the terminal observation ...
ObserveTerminal ==
    /\ At("terminal")
    /\ said' = TRUE
    /\ pc' = "result"
    /\ UNCHANGED <<ckpt, result, ending, proc, attempt, retries, policy, succ, end,
                   outcome, stop, update, child>>
    /\ UNCHANGED historyVars /\ UNCHANGED outsideVars

\* ... then result.pb, by rename.
WriteResult ==
    /\ At("result")
    /\ result' = outcome
    /\ pc' = "done"
    /\ UNCHANGED <<ckpt, said, ending, proc, attempt, retries, policy, succ, end,
                   outcome, stop, update, child>>
    /\ UNCHANGED historyVars /\ UNCHANGED outsideVars

Exit ==
    /\ At("done")
    /\ proc' = "exited"
    /\ UNCHANGED <<pc, attempt, retries, policy, succ, end, outcome, stop, update, child>>
    /\ UNCHANGED durableVars /\ UNCHANGED historyVars /\ UNCHANGED outsideVars

-----------------------------------------------------------------------------
(* The environment. *)

\* A stop from the controller, over the link or over stdin.
RequestStop(source) ==
    /\ proc = "up" /\ stop = "none" /\ pc # "done"
    /\ stop' = source
    /\ UNCHANGED <<proc, pc, attempt, retries, policy, succ, end, outcome, update, child>>
    /\ UNCHANGED durableVars /\ UNCHANGED historyVars /\ UNCHANGED outsideVars

SessionEnds ==
    /\ ~ending /\ result = "none"
    /\ ending' = TRUE
    /\ UNCHANGED <<ckpt, said, result, proc, pc, attempt, retries, policy, succ, end,
                   outcome, stop, update, child>>
    /\ UNCHANGED historyVars /\ UNCHANGED outsideVars

\* A job's policy is never or a bounded on-failure.
SendPolicy(p) ==
    /\ kind = "job" => p.mode # "always" /\ ~p.unlimited
    /\ proc = "up" /\ updates < MaxUpdates /\ pc # "done"
    /\ update' = p /\ updates' = updates + 1
    /\ UNCHANGED <<proc, pc, attempt, retries, policy, succ, end, outcome, stop, child,
                   kind, heirs, crashes>>
    /\ UNCHANGED durableVars /\ UNCHANGED historyVars

\* The supervisor dies or the controller that owns it kills it, as it does when
\* a stop takes too long; closing the Job Object kills the workload with it.
Crash ==
    /\ proc = "up" /\ crashes < MaxCrashes
    /\ proc' = "down" /\ pc' = "start" /\ crashes' = crashes + 1
    /\ attempt' = 0 /\ retries' = 0 /\ policy' = InitialPolicy /\ succ' = FALSE
    /\ end' = NoEnd /\ outcome' = "none" /\ stop' = "none" /\ update' = NoUpdate
    /\ child' = 0 /\ heirs' = FALSE /\ belated' = 0
    /\ lastExit' = IF child # 0 THEN "bad" ELSE lastExit
    /\ lostAt' = IF pc \in {"spawned", "running", "stopping", "draining", "ended"}
                   THEN Len(launches) ELSE lostAt
    /\ UNCHANGED <<kind, launches, streak, updates>> /\ UNCHANGED durableVars

\* run_execution or the recovery monitor starts a replacement, unless
\* result.pb is there.
Respawn ==
    /\ proc = "down" /\ result = "none"
    /\ proc' = "up"
    /\ UNCHANGED <<pc, attempt, retries, policy, succ, end, outcome, stop, update, child>>
    /\ UNCHANGED durableVars /\ UNCHANGED historyVars /\ UNCHANGED outsideVars

-----------------------------------------------------------------------------

RunnerStep ==
    \/ StartFresh \/ RecoverStopped \/ RecoverLost \/ RecoverBackoff
    \/ CheckpointLaunch \/ PreflightFails \/ SpawnFails \/ Spawn
    \/ CheckpointRunning \/ WaitReturns \/ BeginStop \/ ApplyRunning
    \/ Kill \/ StopReturns \/ Drained \/ Decide
    \/ BackoffStopped \/ BackoffPolicy \/ BackoffElapsed
    \/ ObserveTerminal \/ WriteResult \/ Exit

Next ==
    \/ RunnerStep
    \/ \E exit \in {"ok", "bad"} : ChildExits(exit)
    \/ Inherit \/ HeirsLeave
    \/ \E source \in {"link", "stdin"} : RequestStop(source)
    \/ SessionEnds
    \/ \E p \in Policies : SendPolicy(p)
    \/ Crash \/ Respawn

Spec == Init /\ [][Next]_vars

\* The runner is scheduled again.  A workload may run for ever, its descendants
\* may hold the pipes for ever, a stop may never come, and a dead supervisor
\* need not be replaced: run_execution gives up once it is cancelled.
Fairness == WF_vars(RunnerStep)

FairSpec == Spec /\ Fairness

-----------------------------------------------------------------------------
(* Properties. *)

\* Attempts are numbered in the order their processes are created and no
\* attempt's process is created twice, whichever supervisor process counts.
AttemptsIncrease ==
    \A i, j \in 1..Len(launches) : i < j => launches[i] < launches[j]

\* A job whose attempt was lost with its supervisor before its end was decided
\* is not launched again.
JobLossIsFinal == kind = "job" /\ lostAt # 0 => Len(launches) = lostAt

\* However crashes and policy updates interleave, the consecutive retries
\* never exceed the largest budget a policy of this execution has granted.
RestartBudget ==
    (\A p \in Policies : ~p.unlimited) => \E p \in Policies : streak <= p.max

\* After a stop has reached a supervisor process it creates at most one more
\* workload process, the one whose launch was already under way.
OneBelatedLaunch == belated <= 1

\* An outcome is proven: "completed" is only reported if the latest workload
\* process really exited well, even when a replacement reports it.
ProvenCompletion == result = "completed" => lastExit = "ok"

\* No attempt waits for ever for processes that outlive its workload and hold
\* its output pipes.
PipesAreReleased == []<>~(pc = "draining" /\ heirs)

\* A stop that reached the supervisor, or the end of the manager session, ends
\* the execution unless the process dies first, wherever the runner was: every
\* wait looks at it, or is bounded.  The one wait that is neither is the drain
\* of the output pipes; that it ends is a condition on the workload.
StopEnds ==
    PipesAreReleased => (StopPending ~> (result # "none" \/ proc = "down"))

-----------------------------------------------------------------------------
(* The inductive invariant behind the safety properties. *)

\* Who is where: a runner past the checkpoint of its attempt, one whose
\* attempt is undecided, one that has decided to end the execution.
Deciding == {"launch", "spawned", "running", "stopping", "draining", "ended"}
Finishing == {"terminal", "result", "done"}

\* The checkpoint is never behind the processes created, and is ahead of them
\* whenever the next attempt is still to be launched.
AttemptInv ==
    /\ \A i \in 1..Len(launches) : launches[i] <= ckpt.attempt
    /\ ckpt.phase = "none" => ckpt.attempt = 0
    /\ ckpt.phase # "none" => ckpt.attempt > 0
    /\ ckpt.phase = "restart_backoff" =>
          \A i \in 1..Len(launches) : launches[i] < ckpt.attempt
    /\ pc # "start" => attempt > 0 /\ ckpt.attempt <= attempt
    /\ pc \in {"loop", "launch", "backoff"} =>
          \A i \in 1..Len(launches) : launches[i] < attempt
    /\ pc \in Deciding => ckpt.attempt = attempt

\* While an attempt is undecided the checkpoint says so.
PhaseInv ==
    /\ pc \in Deciding => Interrupted
    /\ pc = "backoff" => ckpt.phase = "restart_backoff"
    /\ kind = "job" /\ lostAt # 0 =>
          Interrupted /\ pc \in {"start"} \cup Finishing

\* The runner never counts fewer retries than there have been.
StreakInv ==
    /\ streak <= ckpt.attempt
    /\ ckpt.phase # "none" => streak < ckpt.attempt
    /\ pc # "start" => streak <= retries /\ retries < attempt

\* A stop stays pending, and a runner that has spawned with one pending is
\* past the point of launching again.
BelatedInv ==
    belated > 0 => StopPending /\ pc \notin {"start", "loop", "launch"}

\* What end and outcome say of the latest process is true.
OutcomeInv ==
    /\ pc = "start" => end.exit = "none"
    /\ pc \in {"draining", "ended", "backoff"} /\ end.exit = "ok" => lastExit = "ok"
    /\ pc \in Finishing /\ outcome = "completed" => lastExit = "ok"
    /\ pc \in {"start", "loop", "launch", "draining", "ended", "backoff"} \cup Finishing =>
          child = 0
    /\ proc = "down" => pc = "start"
    /\ result # "none" => proc = "down" \/ pc = "done"

IInv ==
    /\ TypeOK
    /\ AttemptInv /\ PhaseInv /\ StreakInv /\ BelatedInv /\ OutcomeInv
    /\ AttemptsIncrease /\ JobLossIsFinal /\ RestartBudget /\ OneBelatedLaunch
    /\ ProvenCompletion
=============================================================================
