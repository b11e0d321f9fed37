------------------------------- MODULE Manager -------------------------------
(***************************************************************************)
(* The controller's Manager (manager.rs, storage.rs) for ONE workload: the *)
(* state behind its mutex, the executions table, the task that owns a      *)
(* spawned supervisor (run_execution, complete_execution), the recovery    *)
(* monitor of an adopted execution, the attach task of every connection,   *)
(* and the supervisor processes they all race with.                        *)
(*                                                                         *)
(* A step is one critical section of the state mutex or one storage call;  *)
(* everything between two of them may interleave with anything.  The       *)
(* controller may crash between any two steps and is restarted; supervisor *)
(* processes survive it.                                                   *)
(*                                                                         *)
(* Abstractions.  Workloads do not interact, so one is enough.  Every      *)
(* non-stopping display state is "live".  Outcomes keep only who decided:  *)
(* the supervisor ("reported"), the stop ("stopped"), an exhausted launch  *)
(* budget ("unavailable").  Time is abstracted: the three-second discovery *)
(* wait and the stop timeout may expire at any moment.  Storage calls      *)
(* succeed, and so does writing the files a supervisor is started with     *)
(* (manager.rs:1078, 1096), whose failure ends an execution that has no    *)
(* process yet.  Definitions, reload and version pins are not in this      *)
(* module.                                                                 *)
(***************************************************************************)
EXTENDS Naturals, Sequences, FiniteSets

CONSTANTS Kind,         \* "service" or "job"
          Enabled,      \* the workload's persistent enablement
          MaxExecs,     \* bound: executions ever created
          MaxPids,      \* bound: supervisor processes ever spawned
          MaxFaults,    \* bound: crashes, lost connections, failed spawns
          MaxSessions,  \* bound: manager sessions
          LaunchBudget  \* supervisor failures that end an execution (8)

ASSUME ManagerAssumption ==
    /\ Kind \in {"service", "job"} /\ Enabled \in BOOLEAN
    /\ MaxExecs \in Nat /\ MaxPids \in Nat /\ MaxFaults \in Nat
    /\ MaxSessions \in Nat \ {0}
    /\ LaunchBudget \in Nat \ {0}

Execs == 1..MaxExecs
Pids == 1..MaxPids
Conns == 1..(MaxFaults + 1)

Outcomes == {"reported", "stopped", "unavailable"}

VARIABLES
  rows,        \* the executions table; the index is the execution id
  triggered,   \* workloads.last_triggered_session, 0 for none
  said,        \* a journalled terminal observation is not yet committed
  result,      \* result.pb of each execution is in place
  session,     \* the current manager session
  ctl,         \* "down", "starting" (before the pipes are bound), "serving"
  ending,      \* State.session_ending
  active,      \* State.active of the workload; exec = 0 when absent
  cancelled,   \* the cancellation token of each execution
  owner,       \* where the run_execution task of each execution is
  fails,       \* its supervisor_failures
  child,       \* the supervisor process it spawned last
  fin,         \* the outcome a finishing task carries, per execution
  monitor,     \* where the recovery monitor of each execution is
  rerun,       \* a rerun_job call between its check and its act
  sup,         \* the supervisor processes
  conn,        \* the attach tasks
  faults       \* faults so far

vars == <<rows, triggered, said, result, session, ctl, ending, active,
          cancelled, owner, fails, child, fin, monitor, rerun, sup, conn,
          faults>>

taskVars == <<owner, fails, child, fin, monitor, rerun>>
memoryVars == <<ctl, ending, active, cancelled>>
durableVars == <<rows, triggered, said, result, session>>

NoActive == [exec |-> 0, state |-> "live", pid |-> 0, owned |-> FALSE,
             after |-> FALSE, att |-> 0]
NoProcess == [exec |-> 0, up |-> FALSE, stop |-> FALSE, conn |-> 0,
              out |-> FALSE]
NoConn == [pid |-> 0, exec |-> 0, phase |-> "none",
           cmd |-> FALSE, lost |-> FALSE]

Row == [open : BOOLEAN, outcome : Outcomes \cup {"none"}, pid : 0..MaxPids,
        sess : 1..MaxSessions, auto : BOOLEAN, of : 0..MaxExecs]

Phases == {"none", "serving", "checked", "committed", "replace"}

Active == [exec : 0..MaxExecs, state : {"live", "stopping", "recovering"}, pid : 0..MaxPids,
           owned : BOOLEAN, after : BOOLEAN, att : {0} \cup Conns]
Process == [exec : 0..MaxExecs, up : BOOLEAN, stop : BOOLEAN, conn : {0} \cup Conns,
            out : BOOLEAN]
Connection == [pid : 0..MaxPids, exec : 0..MaxExecs, phase : Phases, cmd : BOOLEAN,
               lost : BOOLEAN]

DurableTypeOK ==
    /\ rows \in Seq(Row) /\ Len(rows) <= MaxExecs
    /\ triggered \in 0..MaxSessions /\ session \in 1..MaxSessions
    /\ said \in [Execs -> BOOLEAN] /\ result \in [Execs -> BOOLEAN]

MemoryTypeOK ==
    /\ ctl \in {"down", "starting", "serving"} /\ ending \in BOOLEAN
    /\ active \in Active /\ cancelled \in [Execs -> BOOLEAN]

TaskTypeOK ==
    /\ owner \in [Execs -> {"none", "loop", "spawned", "recorded", "waiting", "stopping",
                            "backoff", "finish", "remove", "replace"}]
    /\ fails \in [Execs -> 0..LaunchBudget] /\ child \in [Execs -> 0..MaxPids]
    /\ fin \in [Execs -> Outcomes \cup {"none"}]
    /\ monitor \in [Execs -> {"none", "poll", "finish", "finishThenReplace", "replace"}]
    /\ rerun \in {"none", "cancel", "start"}

ProcessTypeOK ==
    /\ sup \in [Pids -> Process] /\ conn \in [Conns -> Connection]
    /\ faults \in 0..MaxFaults

\* One type invariant: rows, memory, tasks, processes and connections stay in shape.
TypeOK == DurableTypeOK /\ MemoryTypeOK /\ TaskTypeOK /\ ProcessTypeOK

\* A logged-on user whose controller has not opened its database yet.
Init ==
    /\ rows = <<>> /\ triggered = 0
    /\ said = [e \in Execs |-> FALSE] /\ result = [e \in Execs |-> FALSE]
    /\ session = 1
    /\ ctl = "down" /\ ending = FALSE /\ active = NoActive
    /\ cancelled = [e \in Execs |-> FALSE]
    /\ owner = [e \in Execs |-> "none"] /\ fails = [e \in Execs |-> 0]
    /\ child = [e \in Execs |-> 0] /\ fin = [e \in Execs |-> "none"]
    /\ monitor = [e \in Execs |-> "none"] /\ rerun = "none"
    /\ sup = [p \in Pids |-> NoProcess] /\ conn = [c \in Conns |-> NoConn]
    /\ faults = 0

Fault == faults < MaxFaults /\ faults' = faults + 1

\* load_active_executions
OpenRows == {e \in 1..Len(rows) : rows[e].open}

\* finish_execution and the Terminal arm of commit_observation.
CloseRow(e, outcome) ==
    rows' = [rows EXCEPT ![e].open = FALSE, ![e].outcome = outcome]

-----------------------------------------------------------------------------
(* Start-up: Manager::open, start_recovery_monitors, start_enabled. *)

\* Manager::open closes the rows of ended sessions; of the remaining open
\* ones the last inserted wins the workload's entry of the active map.
Open ==
    /\ ctl = "down"
    /\ LET adopted == {e \in OpenRows : rows[e].sess = session} IN
         /\ rows' = [e \in 1..Len(rows) |->
                       IF e \in OpenRows \ adopted
                         THEN [rows[e] EXCEPT !.open = FALSE, !.outcome = "stopped", !.pid = 0]
                         ELSE rows[e]]
         /\ \/ adopted = {} /\ active' = NoActive
               /\ UNCHANGED monitor
            \/ \E e \in adopted :
                 /\ \A d \in adopted : d <= e
                 /\ active' = [NoActive EXCEPT !.exec = e, !.pid = rows[e].pid,
                                               !.state = "recovering"]
                 /\ monitor' = [monitor EXCEPT ![e] = "poll"]
    /\ ctl' = "starting"
    /\ UNCHANGED <<triggered, said, result, session, ending, cancelled, owner, fails,
                   child, fin, rerun, sup, conn>> /\ UNCHANGED faults

\* start: a new execution row, an active entry and its owner task, all under
\* the lock; idempotent (service) or an error (job) when one is active.
CanStart == ~ending /\ active.exec = 0

Start(auto, of) ==
    /\ CanStart /\ Len(rows) < MaxExecs
    /\ rows' = Append(rows, [open |-> TRUE, outcome |-> "none", pid |-> 0,
                             sess |-> session, auto |-> auto, of |-> of])
    /\ active' = [NoActive EXCEPT !.exec = Len(rows) + 1, !.owned = TRUE]

MutClaimAlways == TRUE

\* insert_enabled_job_execution claims the session in the same transaction.
ClaimsSession == Kind = "job" => triggered # session

StartEnabled ==
    /\ ctl = "starting" /\ ctl' = "serving"
    /\ \/ /\ Enabled /\ ClaimsSession
          /\ Start(TRUE, 0)
          /\ owner' = [owner EXCEPT ![Len(rows) + 1] = "loop"]
          /\ triggered' = IF Kind = "job" THEN session ELSE triggered
       \/ /\ ~Enabled \/ ~ClaimsSession \/ ~CanStart
          /\ UNCHANGED <<rows, active, owner, triggered>>
    /\ UNCHANGED <<said, result, session, ending, cancelled, fails, child, fin, monitor,
                   rerun, sup, conn>> /\ UNCHANGED faults

-----------------------------------------------------------------------------
(* User commands. *)

\* start_service, run_job.
StartCommand ==
    /\ ctl = "serving"
    /\ Start(FALSE, 0)
    /\ owner' = [owner EXCEPT ![Len(rows) + 1] = "loop"]
    /\ UNCHANGED <<triggered, said, result, session, ctl, ending, cancelled, fails, child,
                   fin, monitor, rerun, sup, conn, faults>>

\* Broadcast::send reaches the attach tasks that subscribed and still run.
Broadcast(e) ==
    conn' = [c \in Conns |-> [conn[c] EXCEPT !.cmd = @ \/ conn[c].exec = e]]

\* restart_after |= restart_after
After(restart) == active.after \/ restart

\* cancel: stop_service, cancel_job (restart = FALSE), restart_service,
\* rerun_job (restart = TRUE).  Nothing is persisted.
Cancel(restart) ==
    /\ active.exec # 0
    /\ active' = [active EXCEPT !.state = "stopping", !.after = After(restart)]
    /\ cancelled' = [cancelled EXCEPT ![active.exec] = TRUE]
    /\ Broadcast(active.exec)

StopCommand ==
    /\ ctl = "serving"
    /\ Cancel(FALSE)
    /\ UNCHANGED durableVars /\ UNCHANGED taskVars
    /\ UNCHANGED <<ctl, ending, sup, faults>>

RestartCommand ==
    /\ ctl = "serving" /\ Kind = "service"
    /\ Cancel(TRUE)
    /\ UNCHANGED durableVars /\ UNCHANGED taskVars
    /\ UNCHANGED <<ctl, ending, sup, faults>>

\* rerun_job looks at the active map, releases the lock, then acts.
RerunCheck ==
    /\ ctl = "serving" /\ Kind = "job" /\ rerun = "none"
    /\ rerun' = IF active.exec # 0 THEN "cancel" ELSE "start"
    /\ UNCHANGED durableVars /\ UNCHANGED memoryVars
    /\ UNCHANGED <<owner, fails, child, fin, monitor, sup, conn, faults>>

RerunAct ==
    /\ ctl = "serving" /\ rerun # "none" /\ rerun' = "none"
    /\ \/ /\ rerun = "cancel" /\ Cancel(TRUE)
          /\ UNCHANGED <<rows, owner>>
       \/ /\ rerun = "start" /\ Start(FALSE, 0)
          /\ owner' = [owner EXCEPT ![Len(rows) + 1] = "loop"]
          /\ UNCHANGED <<cancelled, conn>>
       \/ /\ IF rerun = "cancel" THEN active.exec = 0 ELSE ~CanStart
          /\ UNCHANGED <<rows, active, cancelled, owner, conn>>
    /\ UNCHANGED <<triggered, said, result, session, ctl, ending, fails, child, fin,
                   monitor, sup>> /\ UNCHANGED faults

\* end_session; the session event also reaches every supervisor directly.
EndSession ==
    /\ ctl = "serving" /\ ~ending
    /\ ending' = TRUE
    /\ IF active.exec = 0
         THEN UNCHANGED <<active, cancelled, conn>>
         ELSE /\ active' = [active EXCEPT !.after = FALSE, !.state = "stopping"]
              /\ cancelled' = [cancelled EXCEPT ![active.exec] = TRUE]
              /\ Broadcast(active.exec)
    /\ sup' = [p \in Pids |-> [sup[p] EXCEPT !.stop = @ \/ sup[p].up]]
    /\ UNCHANGED durableVars /\ UNCHANGED taskVars /\ UNCHANGED ctl
    /\ UNCHANGED faults

-----------------------------------------------------------------------------
(* run_execution and complete_execution: the owner of a spawned supervisor. *)

\* A supervisor process is gone and its connection with it.
Die(p) ==
    /\ sup' = [sup EXCEPT ![p] = [NoProcess EXCEPT !.exec = sup[p].exec]]
    /\ conn' = [c \in Conns |-> [conn[c] EXCEPT !.lost = @ \/ conn[c].pid = p]]

OwnerIs(e, pc) == ctl # "down" /\ owner[e] = pc

\* The loop leaves with a stopped result: the token is cancelled.
OwnerCancelled(e) ==
    /\ OwnerIs(e, "loop") \/ OwnerIs(e, "backoff")
    /\ cancelled[e]
    /\ owner' = [owner EXCEPT ![e] = "finish"]
    /\ fin' = [fin EXCEPT ![e] = "stopped"]
    /\ UNCHANGED durableVars /\ UNCHANGED memoryVars /\ UNCHANGED faults
    /\ UNCHANGED <<fails, child, monitor, rerun, sup, conn>>

OwnerSpawn(e) ==
    /\ OwnerIs(e, "loop") /\ ~cancelled[e]
    /\ \E p \in Pids :
         /\ sup[p].exec = 0 /\ \A q \in 1..(p - 1) : sup[q].exec # 0
         /\ sup' = [sup EXCEPT ![p] = [NoProcess EXCEPT !.exec = e, !.up = TRUE]]
         /\ child' = [child EXCEPT ![e] = p]
    /\ owner' = [owner EXCEPT ![e] = "spawned"]
    /\ UNCHANGED durableVars /\ UNCHANGED memoryVars /\ UNCHANGED faults
    /\ UNCHANGED <<fails, fin, monitor, rerun, conn>>

\* One more infrastructure failure: back off, or give the execution up.
CountFailure(e) ==
    /\ fails' = [fails EXCEPT ![e] = @ + 1]
    /\ owner' = [owner EXCEPT ![e] =
                   IF fails[e] + 1 >= LaunchBudget THEN "finish" ELSE "backoff"]
    /\ fin' = [fin EXCEPT ![e] =
                 IF fails[e] + 1 >= LaunchBudget THEN "unavailable" ELSE @]

OwnerSpawnFails(e) ==
    /\ OwnerIs(e, "loop") /\ ~cancelled[e] /\ Fault
    /\ CountFailure(e)
    /\ UNCHANGED durableVars /\ UNCHANGED memoryVars
    /\ UNCHANGED <<child, monitor, rerun, sup, conn>>

\* set_execution_supervisor, then the in-memory process id.
OwnerRecordPid(e) ==
    /\ OwnerIs(e, "spawned")
    /\ rows' = [rows EXCEPT ![e].pid = child[e]]
    /\ owner' = [owner EXCEPT ![e] = "recorded"]
    /\ UNCHANGED <<triggered, said, result, session>> /\ UNCHANGED memoryVars
    /\ UNCHANGED <<fails, child, fin, monitor, rerun, sup, conn>> /\ UNCHANGED faults

OwnerPublishPid(e) ==
    /\ OwnerIs(e, "recorded")
    /\ active' = IF active.exec = e
                   THEN [active EXCEPT !.pid = child[e], !.state = "live"] ELSE active
    /\ owner' = [owner EXCEPT ![e] = "waiting"]
    /\ UNCHANGED durableVars /\ UNCHANGED <<ctl, ending, cancelled>>
    /\ UNCHANGED <<fails, child, fin, monitor, rerun, sup, conn>> /\ UNCHANGED faults

MutStopByState(e) == active.exec = e /\ active.state = "stopping"

\* cancellation.cancelled(): the token, not the displayed state.
StopRequested(e) == cancelled[e]

\* The token is cancelled: "stop" goes to the child's stdin.
OwnerStop(e) ==
    /\ OwnerIs(e, "waiting") /\ StopRequested(e)
    /\ sup' = [sup EXCEPT ![child[e]].stop = @ \/ sup[child[e]].up]
    /\ owner' = [owner EXCEPT ![e] = "stopping"]
    /\ UNCHANGED durableVars /\ UNCHANGED memoryVars /\ UNCHANGED faults
    /\ UNCHANGED <<fails, child, fin, monitor, rerun, conn>>

\* The stop timeout passed: the supervisor is killed.
OwnerKill(e) ==
    /\ OwnerIs(e, "stopping") /\ sup[child[e]].up
    /\ Die(child[e])
    /\ UNCHANGED durableVars /\ UNCHANGED memoryVars /\ UNCHANGED taskVars
    /\ UNCHANGED faults

MutChargeAll(e) == owner[e] = "waiting"

\* The child left neither a result nor was it told to stop: a failure.
Charged(e) == ~result[e] /\ owner[e] = "waiting"

\* The child is gone: its result decides, else the stop, else the budget.
OwnerReap(e) ==
    /\ OwnerIs(e, "waiting") \/ OwnerIs(e, "stopping")
    /\ ~sup[child[e]].up
    /\ IF Charged(e)
         THEN CountFailure(e)
         ELSE /\ owner' = [owner EXCEPT ![e] = "finish"]
              /\ fin' = [fin EXCEPT ![e] = IF result[e] THEN "reported" ELSE "stopped"]
              /\ UNCHANGED fails
    /\ UNCHANGED durableVars /\ UNCHANGED memoryVars /\ UNCHANGED faults
    /\ UNCHANGED <<child, monitor, rerun, sup, conn>>

OwnerRetry(e) ==
    /\ OwnerIs(e, "backoff")
    /\ owner' = [owner EXCEPT ![e] = "loop"]
    /\ UNCHANGED durableVars /\ UNCHANGED memoryVars /\ UNCHANGED faults
    /\ UNCHANGED <<fails, child, fin, monitor, rerun, sup, conn>>

\* complete_execution: the row first ...
OwnerFinish(e) ==
    /\ OwnerIs(e, "finish")
    /\ CloseRow(e, fin[e])
    /\ owner' = [owner EXCEPT ![e] = "remove"]
    /\ fails' = [fails EXCEPT ![e] = 0] /\ child' = [child EXCEPT ![e] = 0]
    /\ fin' = [fin EXCEPT ![e] = "none"]
    /\ UNCHANGED <<triggered, said, result, session>> /\ UNCHANGED memoryVars
    /\ UNCHANGED <<monitor, rerun, sup, conn>> /\ UNCHANGED faults

MutRestartsAny(e) == ~ending /\ active.after

\* Whether finishing e is followed by a replacement.
Restarts(e) == ~ending /\ active.exec = e /\ active.after

\* ... then the active entry, and the decision to replace it.
OwnerRemove(e) ==
    /\ OwnerIs(e, "remove")
    /\ owner' = [owner EXCEPT ![e] = IF Restarts(e) THEN "replace" ELSE "none"]
    /\ active' = IF active.exec = e THEN NoActive ELSE active
    /\ UNCHANGED durableVars /\ UNCHANGED <<ctl, ending, cancelled>>
    /\ UNCHANGED <<fails, child, fin, monitor, rerun, sup, conn>> /\ UNCHANGED faults

\* start_replacement: start_service or run_job, whose refusal is only logged.
Replace(e, owner1) ==
    \/ /\ Start(FALSE, e)
       /\ owner' = [owner1 EXCEPT ![Len(rows) + 1] = "loop"]
    \/ /\ ~CanStart
       /\ owner' = owner1
       /\ UNCHANGED <<rows, active>>

OwnerReplace(e) ==
    /\ OwnerIs(e, "replace") /\ ctl = "serving"
    /\ Replace(e, [owner EXCEPT ![e] = "none"])
    /\ UNCHANGED <<triggered, said, result, session, ctl, ending, cancelled, fails, child,
                   fin, monitor, rerun, sup, conn>> /\ UNCHANGED faults

-----------------------------------------------------------------------------
(* The recovery monitor of an adopted execution. *)

MonitorIs(e, pc) == ctl # "down" /\ monitor[e] = pc

\* supervisor_terminal and a terminal observation act on the active entry
\* only while this controller has not spawned the supervisor itself.
Adopted(e) == active.exec = e /\ ~active.owned

\* result.pb appeared: the active entry goes first ...
MonitorResult(e) ==
    /\ MonitorIs(e, "poll") /\ result[e]
    /\ IF Adopted(e)
         THEN /\ fin' = [fin EXCEPT ![e] =
                           IF active.state = "stopping" THEN "stopped" ELSE "reported"]
              /\ monitor' = [monitor EXCEPT ![e] =
                               IF Restarts(e) THEN "finishThenReplace" ELSE "finish"]
              /\ active' = NoActive
         ELSE /\ monitor' = [monitor EXCEPT ![e] = "none"]
              /\ UNCHANGED <<fin, active>>
    /\ UNCHANGED durableVars /\ UNCHANGED <<ctl, ending, cancelled>>
    /\ UNCHANGED <<owner, fails, child, rerun, sup, conn>> /\ UNCHANGED faults

\* ... and the row after the lock is released.
MonitorFinish(e) ==
    /\ MonitorIs(e, "finish") \/ MonitorIs(e, "finishThenReplace")
    /\ CloseRow(e, fin[e])
    /\ monitor' = [monitor EXCEPT ![e] = IF @ = "finish" THEN "none" ELSE "replace"]
    /\ fin' = [fin EXCEPT ![e] = "none"]
    /\ UNCHANGED <<triggered, said, result, session>> /\ UNCHANGED memoryVars
    /\ UNCHANGED <<owner, fails, child, rerun, sup, conn>> /\ UNCHANGED faults

MonitorReplace(e) ==
    /\ MonitorIs(e, "replace") /\ ctl = "serving"
    /\ monitor' = [monitor EXCEPT ![e] = "none"]
    /\ Replace(e, owner)
    /\ UNCHANGED <<triggered, said, result, session, ctl, ending, cancelled, fails, child,
                   fin, rerun, sup, conn>> /\ UNCHANGED faults

MutStopWatching(e) == active.exec # e \/ active.state # "recovering"

\* Nothing left to watch: the execution is no longer active.
Unwatched(e) == active.exec # e

MonitorGone(e) ==
    /\ MonitorIs(e, "poll") /\ Unwatched(e)
    /\ monitor' = [monitor EXCEPT ![e] = "none"]
    /\ UNCHANGED durableVars /\ UNCHANGED memoryVars /\ UNCHANGED faults
    /\ UNCHANGED <<owner, fails, child, fin, rerun, sup, conn>>

\* Three seconds of "recovering": this controller spawns a replacement.
MonitorTakeOver(e) ==
    /\ MonitorIs(e, "poll") /\ active.exec = e /\ active.state = "recovering"
    /\ active' = [active EXCEPT !.owned = TRUE, !.state = "live"]
    /\ monitor' = [monitor EXCEPT ![e] = "none"]
    /\ owner' = [owner EXCEPT ![e] = "loop"]
    /\ fails' = [fails EXCEPT ![e] = 0]
    /\ UNCHANGED durableVars /\ UNCHANGED <<ctl, ending, cancelled>>
    /\ UNCHANGED <<child, fin, rerun, sup, conn>> /\ UNCHANGED faults

-----------------------------------------------------------------------------
(* Attachments: supervisor_rpc.rs attach and the Manager calls it makes. *)

\* attach_supervisor: the process identity must fit the active entry.
MayAttach(p) ==
    /\ active.exec = sup[p].exec
    /\ active.pid # 0 => active.pid = p
    /\ active.owned => active.pid # 0

Attach(p) ==
    /\ ctl = "serving" /\ sup[p].up /\ sup[p].conn = 0 /\ MayAttach(p)
    /\ \E c \in Conns :
         /\ conn[c].phase = "none" /\ \A d \in 1..(c - 1) : conn[d].phase # "none"
         /\ conn' = [conn EXCEPT ![c] = [NoConn EXCEPT !.pid = p, !.exec = sup[p].exec,
                                                      !.phase = "serving"]]
         /\ sup' = [sup EXCEPT ![p].conn = c]
         /\ active' = [active EXCEPT !.pid = p, !.state = "live", !.att = c]
    /\ rows' = IF active.owned THEN [rows EXCEPT ![active.exec].pid = p] ELSE rows
    /\ UNCHANGED <<triggered, said, result, session, ctl, ending, cancelled>>
    /\ UNCHANGED taskVars /\ UNCHANGED faults

Serving(c) == ctl # "down" /\ conn[c].phase = "serving"

\* A command on the response stream reaches the supervisor.
DeliverCommand(c) ==
    /\ Serving(c) /\ conn[c].cmd /\ ~conn[c].lost
    /\ sup' = [sup EXCEPT ![conn[c].pid].stop = TRUE]
    /\ conn' = [conn EXCEPT ![c].cmd = FALSE]
    /\ UNCHANGED durableVars /\ UNCHANGED memoryVars /\ UNCHANGED taskVars
    /\ UNCHANGED faults

\* A progress observation overwrites the displayed state.
RecordProgress(c) ==
    /\ Serving(c) /\ ~conn[c].lost
    /\ ~sup[conn[c].pid].out \/ said[conn[c].exec]
    /\ active.exec = conn[c].exec /\ active.state # "live"
    /\ active' = [active EXCEPT !.state = "live"]
    /\ UNCHANGED durableVars /\ UNCHANGED <<ctl, ending, cancelled>>
    /\ UNCHANGED taskVars /\ UNCHANGED <<sup, conn>> /\ UNCHANGED faults

\* The terminal observation, first under the lock: of an owned execution it
\* is only acknowledged, of an adopted one it will close the row.
RecordTerminal(c) ==
    LET e == conn[c].exec IN
    /\ Serving(c) /\ ~conn[c].lost /\ said[e]
    /\ IF Adopted(e)
         THEN /\ conn' = [conn EXCEPT ![c].phase = "checked"]
              /\ UNCHANGED said
         ELSE said' = [said EXCEPT ![e] = FALSE] /\ UNCHANGED conn
    /\ UNCHANGED <<rows, triggered, result, session>> /\ UNCHANGED memoryVars
    /\ UNCHANGED taskVars /\ UNCHANGED sup /\ UNCHANGED faults

\* Then commit_observation, with the update chosen before; Ok(false) when the
\* cursor has passed it on another attachment.
CommitTerminal(c) ==
    LET e == conn[c].exec IN
    /\ ctl # "down" /\ conn[c].phase = "checked"
    /\ IF said[e]
         THEN /\ CloseRow(e, "reported")
              /\ said' = [said EXCEPT ![e] = FALSE]
              /\ conn' = [conn EXCEPT ![c].phase = "committed"]
         ELSE /\ conn' = [conn EXCEPT ![c].phase = "serving"]
              /\ UNCHANGED <<rows, said>>
    /\ UNCHANGED <<triggered, result, session>> /\ UNCHANGED memoryVars
    /\ UNCHANGED taskVars /\ UNCHANGED sup /\ UNCHANGED faults

\* Then the active entry, if it is still this execution's.
RemoveTerminal(c) ==
    LET e == conn[c].exec IN
    /\ ctl # "down" /\ conn[c].phase = "committed"
    /\ conn' = [conn EXCEPT ![c].phase = IF Restarts(e) THEN "replace" ELSE "serving"]
    /\ active' = IF active.exec = e THEN NoActive ELSE active
    /\ UNCHANGED durableVars /\ UNCHANGED <<ctl, ending, cancelled>>
    /\ UNCHANGED taskVars /\ UNCHANGED sup /\ UNCHANGED faults

ConnReplace(c) ==
    /\ ctl = "serving" /\ conn[c].phase = "replace"
    /\ conn' = [conn EXCEPT ![c].phase = "serving"]
    /\ Replace(conn[c].exec, owner)
    /\ UNCHANGED <<triggered, said, result, session, ctl, ending, cancelled, fails, child,
                   fin, monitor, rerun, sup>> /\ UNCHANGED faults

MutDisconnectOwned(c) ==
    /\ active.exec = conn[c].exec /\ active.owned
    /\ active.state # "stopping" /\ active.att = c

\* supervisor_disconnected only listens to the current attachment of an
\* execution that is neither owned nor stopping.
DisconnectCounts(c) ==
    /\ active.exec = conn[c].exec /\ ~active.owned
    /\ active.state # "stopping" /\ active.att = c

\* The peer is gone, or the command channel went with the active entry.
Disconnected(c) ==
    /\ Serving(c) /\ (conn[c].lost \/ active.exec # conn[c].exec)
    /\ conn' = [conn EXCEPT ![c] = NoConn]
    /\ sup' = [p \in Pids |-> [sup[p] EXCEPT !.conn = IF @ = c THEN 0 ELSE @]]
    /\ active' = IF DisconnectCounts(c)
                   THEN [active EXCEPT !.state = "recovering", !.att = 0] ELSE active
    /\ UNCHANGED durableVars /\ UNCHANGED <<ctl, ending, cancelled>>
    /\ UNCHANGED taskVars /\ UNCHANGED faults

-----------------------------------------------------------------------------
(* Supervisor processes, as the controller sees them. *)

\* The runner journals its terminal observation.  A predecessor's that was
\* never committed is still ahead of it in the journal.
SupervisorEnds(p) ==
    /\ sup[p].up /\ ~sup[p].out
    /\ sup' = [sup EXCEPT ![p].out = TRUE]
    /\ said' = [said EXCEPT ![sup[p].exec] = TRUE]
    /\ UNCHANGED <<rows, triggered, result, session>> /\ UNCHANGED memoryVars
    /\ UNCHANGED taskVars /\ UNCHANGED conn /\ UNCHANGED faults

\* It writes result.pb ...
SupervisorResult(p) ==
    /\ sup[p].up /\ sup[p].out /\ ~result[sup[p].exec]
    /\ result' = [result EXCEPT ![sup[p].exec] = TRUE]
    /\ UNCHANGED <<rows, triggered, said, session>> /\ UNCHANGED memoryVars
    /\ UNCHANGED taskVars /\ UNCHANGED <<sup, conn>> /\ UNCHANGED faults

\* ... waits for the acknowledgement, at most five seconds, and exits.
SupervisorExits(p) ==
    /\ sup[p].up /\ sup[p].out /\ result[sup[p].exec]
    /\ Die(p)
    /\ UNCHANGED durableVars /\ UNCHANGED memoryVars /\ UNCHANGED taskVars
    /\ UNCHANGED faults

SupervisorCrash(p) ==
    /\ sup[p].up /\ Fault
    /\ Die(p)
    /\ UNCHANGED durableVars /\ UNCHANGED memoryVars /\ UNCHANGED taskVars

ConnectionLost(p) ==
    /\ sup[p].conn # 0 /\ Fault
    /\ conn' = [conn EXCEPT ![sup[p].conn].lost = TRUE]
    /\ sup' = [sup EXCEPT ![p].conn = 0]
    /\ UNCHANGED durableVars /\ UNCHANGED memoryVars /\ UNCHANGED taskVars

-----------------------------------------------------------------------------
(* The controller process. *)

\* Everything in memory is gone; supervisors run on.
Forget ==
    /\ ctl' = "down" /\ ending' = FALSE /\ active' = NoActive
    /\ cancelled' = [e \in Execs |-> FALSE]
    /\ owner' = [e \in Execs |-> "none"] /\ fails' = [e \in Execs |-> 0]
    /\ child' = [e \in Execs |-> 0] /\ fin' = [e \in Execs |-> "none"]
    /\ monitor' = [e \in Execs |-> "none"] /\ rerun' = "none"
    /\ conn' = [c \in Conns |-> NoConn]

ControllerCrash ==
    /\ ctl # "down" /\ ~ending /\ Fault
    /\ Forget
    /\ sup' = [p \in Pids |-> [sup[p] EXCEPT !.conn = 0]]
    /\ UNCHANGED durableVars

\* The session is over: main waits for quiescence or thirty seconds, logoff
\* ends the remaining processes, and a later logon is a new session.
NewSession ==
    /\ ctl = "serving" /\ ending /\ session < MaxSessions
    /\ Forget
    /\ session' = session + 1
    /\ sup' = [p \in Pids |-> NoProcess]
    /\ UNCHANGED <<rows, triggered, said, result>>
    /\ UNCHANGED faults

-----------------------------------------------------------------------------

OwnerStep(e) ==
    \/ OwnerCancelled(e) \/ OwnerSpawn(e) \/ OwnerRecordPid(e)
    \/ OwnerPublishPid(e) \/ OwnerStop(e) \/ OwnerKill(e) \/ OwnerReap(e)
    \/ OwnerRetry(e) \/ OwnerFinish(e) \/ OwnerRemove(e) \/ OwnerReplace(e)

MonitorStep(e) ==
    \/ MonitorResult(e) \/ MonitorFinish(e) \/ MonitorReplace(e)
    \/ MonitorGone(e) \/ MonitorTakeOver(e)

ConnStep(c) ==
    \/ DeliverCommand(c) \/ RecordTerminal(c) \/ CommitTerminal(c)
    \/ RemoveTerminal(c) \/ ConnReplace(c) \/ Disconnected(c)

UserStep ==
    \/ StartCommand \/ StopCommand \/ RestartCommand \/ RerunCheck \/ EndSession

Next ==
    \/ Open \/ StartEnabled \/ UserStep \/ RerunAct
    \/ \E e \in Execs : OwnerStep(e) \/ OwnerSpawnFails(e) \/ MonitorStep(e)
    \/ \E c \in Conns : ConnStep(c) \/ RecordProgress(c)
    \/ \E p \in Pids : Attach(p) \/ SupervisorEnds(p) \/ SupervisorResult(p)
                       \/ SupervisorExits(p) \/ SupervisorCrash(p) \/ ConnectionLost(p)
    \/ ControllerCrash \/ NewSession

Spec == Init /\ [][Next]_vars

\* Tasks are scheduled again, the host restarts the controller, a supervisor
\* that was told to stop ends, and one that ended writes its result and exits.
\* Users, faults and workloads that run for ever are not obliged to act.
Fairness ==
    /\ WF_vars(Open \/ StartEnabled \/ RerunAct)
    /\ \A e \in Execs : WF_vars(OwnerStep(e)) /\ WF_vars(MonitorStep(e))
    /\ \A c \in Conns : WF_vars(ConnStep(c))
    /\ \A p \in Pids :
         /\ WF_vars(Attach(p))
         /\ WF_vars(\/ sup[p].stop /\ SupervisorEnds(p)
                    \/ SupervisorResult(p) \/ SupervisorExits(p))

FairSpec == Spec /\ Fairness

-----------------------------------------------------------------------------
(* Properties. *)

\* Nobody loses sight of an execution, and memory and database agree: while the
\* controller runs, an active execution has a task that watches it, its owner
\* or its recovery monitor, and its row is open, except between the two halves
\* of its own terminalization (manager.rs:566, 834).  Watching is not ending: an
\* adopted execution that is stopping when its supervisor dies without a result
\* is not replaced and stays active (manager.rs:614).
ActiveIsDriven ==
    ctl # "down" /\ active.exec # 0 =>
        /\ \/ owner[active.exec] \notin {"none", "replace"}
           \/ monitor[active.exec] = "poll"
        /\ \/ rows[active.exec].open
           \/ owner[active.exec] = "remove"
           \/ \E c \in Conns : conn[c].phase = "committed" /\ conn[c].exec = active.exec

\* Repeated restarts, and a terminal observation racing result.pb and the
\* owner, coalesce into one replacement of an execution.
Replacements(e) ==
    Cardinality({d \in 1..Len(rows) : rows[d].of = e})
      + (IF owner[e] = "replace" THEN 1 ELSE 0)
      + (IF monitor[e] \in {"finishThenReplace", "replace"} THEN 1 ELSE 0)
      + Cardinality({c \in Conns : conn[c].phase = "replace" /\ conn[c].exec = e})

ReplacedOnce == \A e \in Execs : Replacements(e) <= 1

\* The launch budget only pays for infrastructure failures: an execution is
\* given up as unavailable after that many crashes and failed spawns, never
\* because a supervisor that ended in good order was taken for a failure.
GivenUpAfterBudget ==
    \A e \in 1..Len(rows) : rows[e].outcome = "unavailable" => faults >= LaunchBudget

\* An enabled job is triggered once per manager session, however often the
\* controller crashes and starts again.
EnabledJobOncePerSession ==
    Kind = "job" =>
        \A s \in 1..MaxSessions :
            Cardinality({e \in 1..Len(rows) : rows[e].auto /\ rows[e].sess = s}) <= 1

\* A stop, restart or session end of an execution whose supervisor this
\* controller spawned ends it, whatever the supervisor does.
OwnedStopFinishes ==
    \A e \in Execs :
        active.exec = e /\ active.owned /\ cancelled[e]
            ~> active.exec # e \/ ctl = "down"

\* An execution nobody asked to stop does not stay without a supervisor: it
\* gets a replacement or ends.
DeadSupervisorReplaced ==
    \A e \in Execs :
        active.exec = e /\ (\A p \in Pids : sup[p].exec = e => ~sup[p].up)
            ~> \/ \E p \in Pids : sup[p].exec = e /\ sup[p].up
               \/ active.exec # e \/ cancelled[e] \/ ctl = "down"
=============================================================================
