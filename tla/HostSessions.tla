------------------------------ MODULE HostSessions ------------------------------
(***************************************************************************)
(* The machine host and one registered user: Windows logons, the manager   *)
(* session the host issues for each, and the controller process it keeps   *)
(* running in it (host/src/main.rs, rpc.rs, launcher.rs, registration.rs). *)
(*                                                                         *)
(* The command loop (periodic reconciliation, logon, logoff), the runner   *)
(* thread that watches the controller, and the RPC handlers of the user    *)
(* interleave; the mutex around `controllers` is modelled by the size of   *)
(* the steps.  The host may crash or be replaced while controllers run on: *)
(* the volatile registry record is what its successor knows.               *)
(*                                                                         *)
(* Abstractions.  One user.  A Windows session id and its authentication   *)
(* id are one logon number, never reused.  A process is named by its PID   *)
(* and creation time together.  Delays are left out.  Registry writes      *)
(* succeed, and so does the enumeration of sessions with the query of each *)
(* one's token.  The first launch of a runner is recorded in the step that *)
(* makes it unless the host crashes inside it; a later launch and its      *)
(* record are two steps.  A record is written value by value: a crash that *)
(* interrupts the first writing leaves one that cannot be read, one that   *)
(* interrupts a later writing the old record or the new.  A detached       *)
(* runner stops at once, and so do the calls being handled when the host   *)
(* stops.                                                                  *)
(***************************************************************************)
EXTENDS Naturals, FiniteSets, Sequences

CONSTANTS MaxLogons,   \* bound: logons of the user
          MaxEvents    \* bound: crashes, failed launches, calls and controls

ASSUME HostAssumption == MaxLogons \in Nat /\ MaxEvents \in Nat

VARIABLES
  \* Windows.
  listed,     \* logons the enumeration of sessions lists
  leaving,    \* those whose logoff has begun
  logons,     \* number of logons so far
  ctls,       \* live controllers: [pid, session, logon]
  signaled,   \* manager sessions whose ending event is set
  \* The registry.
  registered, \* Registrations\<sid> exists
  runtime,    \* Runtime\ManagerSessions\<sid>: a RuntimeSession or none
  \* The host process.
  host,       \* whether it runs; "torn": it crashed and left half a record;
              \* "failed": its service runs, the worker thread has ended
  queue,      \* HostRuntimeCommands on the channel
  loop,       \* what the command loop does
  seen,       \* what reconcile has read: sessions, conflicts, registered
  entry,      \* the user's Registration in `controllers`
  ending,     \* ending_windows_sessions
  call,       \* the RPC being handled
  removed,    \* the Registration that unregister_user ends
  \* Identities and history.
  sessions,   \* number of manager sessions issued
  issued,     \* [logon, session] of every manager session started
  touched,    \* logons with a registration call, or where the host lost a process
  events      \* number of crashes, failed launches, calls and controls

windowsVars == <<listed, leaving, logons, signaled>>
countVars == <<sessions, issued>>
vars == <<listed, leaving, logons, ctls, signaled, registered, runtime, host, queue, loop, seen,
          entry, ending, call, removed, sessions, issued, touched, events>>

\* Registration: manager_session_id, the logon, the runner and its process,
\* the recorded process.  present is FALSE when the map has no entry.
Blank == [present |-> TRUE, session |-> 0, logon |-> 0, runner |-> "none", pid |-> 0,
          recorded |-> 0]
NoEntry == [Blank EXCEPT !.present = FALSE]
NoRuntime == [session |-> 0, logon |-> 0, pid |-> 0]
NoReading == [sessions |-> {}, conflict |-> FALSE, registered |-> FALSE]

Entries == [present : BOOLEAN, session : Nat, logon : 0..MaxLogons,
            runner : {"none", "backoff", "launched", "watching"}, pid : Nat, recorded : Nat]
Commands == [type : {"reconcile", "end", "detach", "preshutdown"}, logon : 0..MaxLogons]

\* One type invariant; a runner belongs to a session of a logon, and it has a
\* process unless it waits to launch one.
TypeOK ==
    /\ listed \subseteq 1..MaxLogons /\ leaving \subseteq listed /\ logons \in 0..MaxLogons
    /\ ctls \subseteq [pid : Nat \ {0}, session : 1..sessions, logon : 1..logons]
    /\ signaled \subseteq 1..sessions /\ registered \in BOOLEAN
    /\ runtime \in [session : Nat, logon : 0..MaxLogons, pid : Nat]
    /\ host \in {"up", "starting", "down", "torn", "failed", "off"} /\ queue \in Seq(Commands)
    /\ loop \in {"idle", "reconcile", "list", "apply", "ending", "logoff", "shutdown"}
    /\ seen \in [sessions : SUBSET (1..MaxLogons), conflict : BOOLEAN, registered : BOOLEAN]
    /\ entry \in Entries /\ removed \in Entries /\ ending \subseteq 1..MaxLogons
    /\ \A r \in {entry, removed} :
         /\ r.runner # "none" => r.present /\ r.session # 0 /\ r.logon # 0
         /\ r.pid # 0 <=> r.runner \in {"launched", "watching"}
    /\ call \in {"idle", "register", "unregister", "ending"}
    /\ sessions \in Nat /\ issued \subseteq [logon : Nat, session : Nat]
    /\ touched \subseteq 0..MaxLogons /\ events \in Nat

\* A registered user before the first logon.
Init ==
    /\ listed = {} /\ leaving = {} /\ logons = 0 /\ ctls = {} /\ signaled = {}
    /\ registered = TRUE /\ runtime = NoRuntime
    /\ host = "up" /\ queue = <<>> /\ loop = "idle" /\ seen = NoReading
    /\ entry = Blank /\ ending = {} /\ call = "idle" /\ removed = NoEntry
    /\ sessions = 0 /\ issued = {} /\ touched = {}
    /\ events = 0

\* end_registration runs with the lock on `controllers`.
Locked == loop \in {"ending", "logoff", "shutdown"}

Happens == events < MaxEvents /\ events' = events + 1

Alive(pid) == \E c \in ctls : c.pid = pid

\* persist_runtime
Persisted(r) ==
    IF r.logon = 0 THEN runtime
    ELSE [session |-> r.session, logon |-> r.logon,
          pid |-> IF r.pid # 0 THEN r.pid ELSE r.recorded]

-----------------------------------------------------------------------------
(* Starting a manager session: the launch of a runner. *)

\* The name of a new process: one that no process, record or handle has.
NewPid ==
    LET used == {c.pid : c \in ctls} \cup {runtime.pid, entry.pid, entry.recorded, removed.pid}
    IN CHOOSE p \in 1..(Cardinality(used) + 1) : p \notin used

\* A new controller for session s of logon n, whose Windows session must exist.
NewController(s, n) ==
    /\ n \in listed
    /\ ctls' = ctls \cup {[pid |-> NewPid, session |-> s, logon |-> n]}

\* launch fails, as it must when the Windows session is gone.
LaunchFails(n) == UNCHANGED ctls /\ (Happens \/ (n \notin listed /\ UNCHANGED events))

MutAlwaysLaunch(process, n) == FALSE

\* open_existing: the process lives and belongs to the Windows session.
Adoptable(process, n) == \E c \in ctls : c.pid = process /\ c.logon = n

\* A ControllerRunner for registration r in logon n: it adopts the process,
\* launches one, fails to launch one and retries; or it cannot be made, which
\* leaves the registration as in `otherwise`.
StartRunner(r, n, process, otherwise) ==
    LET s == IF r.session = 0 THEN sessions + 1 ELSE r.session
        started(run, pid) == [r EXCEPT !.session = s, !.logon = n, !.runner = run, !.pid = pid]
        begin == /\ sessions' = IF r.session = 0 THEN s ELSE sessions
                 /\ issued' = issued \cup {[logon |-> n, session |-> s]}
                 /\ runtime' = Persisted(entry')
    IN \/ /\ Adoptable(process, n) /\ entry' = started("watching", process) /\ begin
          /\ UNCHANGED <<ctls, events>>
       \/ /\ ~Adoptable(process, n) /\ NewController(s, n)
          /\ entry' = started("watching", NewPid) /\ begin /\ UNCHANGED events
       \/ ~Adoptable(process, n) /\ LaunchFails(n) /\ entry' = started("backoff", 0) /\ begin
       \/ Happens /\ entry' = otherwise /\ UNCHANGED <<ctls, sessions, issued>>

-----------------------------------------------------------------------------
(* The command loop: run_host_commands. *)

\* The reconciliation interval ticks, or a command is received.
Tick ==
    /\ host = "up" /\ loop = "idle" /\ loop' = "reconcile"
    /\ UNCHANGED <<ctls, registered, runtime, host, queue, seen, entry, ending, call, removed,
                   touched, events>>
    /\ UNCHANGED windowsVars /\ UNCHANGED countVars

ReceiveReconcile ==
    /\ host = "up" /\ loop = "idle" /\ queue # <<>> /\ Head(queue).type = "reconcile"
    /\ queue' = Tail(queue) /\ loop' = "reconcile"
    /\ UNCHANGED <<ctls, registered, runtime, host, seen, entry, ending, call, removed,
                   touched, events>>
    /\ UNCHANGED windowsVars /\ UNCHANGED countVars

MutStartEnding(snapshot) == snapshot

MutConflictOfOne(snapshot) == Cardinality(snapshot) > 0

\* Several sessions of the user: none of them is served.
Conflicts(snapshot) == Cardinality(snapshot) > 1

\* Logons that are being ended are not started again.
WithoutEnding(snapshot) == snapshot \ ending

\* reconcile: active_sessions and the sessions that are ending.
ReadSessions ==
    /\ loop = "reconcile" /\ loop' = "list"
    /\ ending' = ending \cap listed
    /\ seen' = [seen EXCEPT !.sessions = WithoutEnding(listed),
                            !.conflict = Conflicts(listed)]
    /\ UNCHANGED <<ctls, registered, runtime, host, queue, entry, call, removed, touched, events>>
    /\ UNCHANGED windowsVars /\ UNCHANGED countVars

\* reconcile: registration::list.
ReadRegistrations ==
    /\ loop = "list" /\ loop' = "apply"
    /\ seen' = [seen EXCEPT !.registered = registered]
    /\ UNCHANGED <<ctls, registered, runtime, host, queue, entry, ending, call, removed, touched,
                   events>>
    /\ UNCHANGED windowsVars /\ UNCHANGED countVars

Finished ==
    /\ loop' = "idle" /\ seen' = NoReading
    /\ host' = IF host = "starting" THEN "up" ELSE host
    /\ UNCHANGED <<listed, leaving, logons, registered, queue, ending, call, removed>>

\* The entry reconcile works on: kept or created for a registered user.
Reconciled == IF entry.present THEN entry ELSE Blank

\* The user is not registered: the entry and its runner are dropped, which
\* leaves the controller alone.
ReconcileForget ==
    /\ loop = "apply" /\ ~seen.registered /\ Finished
    /\ entry' = NoEntry
    /\ UNCHANGED <<ctls, signaled, runtime, touched, events>> /\ UNCHANGED countVars

\* Several sessions, or none and nothing to end, or the session is served.
ReconcileKeep ==
    /\ loop = "apply" /\ seen.registered /\ Finished
    /\ \/ seen.conflict /\ runtime' = Persisted(Reconciled)
       \/ ~seen.conflict /\ Reconciled.runner = "none" /\ seen.sessions = {} /\ UNCHANGED runtime
       \/ ~seen.conflict /\ Reconciled.runner # "none" /\ Reconciled.logon \in seen.sessions
          /\ runtime' = Persisted(Reconciled)
    /\ entry' = Reconciled
    /\ UNCHANGED <<ctls, signaled, touched, events>> /\ UNCHANGED countVars

\* The registration for logon n: another logon starts with a new session.
ForLogon(r, n) ==
    IF r.logon = n THEN r ELSE [r EXCEPT !.session = 0, !.logon = 0, !.recorded = 0]

\* A session without a runner is started; that of an earlier logon is told to
\* end and forgotten.
ReconcileStart ==
    /\ loop = "apply" /\ seen.registered /\ ~seen.conflict /\ Finished
    /\ Reconciled.runner = "none"
    /\ \E n \in seen.sessions :
         /\ signaled' = IF Reconciled.logon # n /\ Reconciled.session # 0
                          THEN signaled \cup {Reconciled.session} ELSE signaled
         /\ LET r == ForLogon(Reconciled, n)
                taken == [r EXCEPT !.recorded = 0]
            IN StartRunner(taken, n, r.recorded, taken)
         /\ entry'.runner = "none" =>
              runtime' = IF Reconciled.logon # n THEN NoRuntime ELSE runtime
         /\ touched' = IF entry'.runner = "none" THEN touched \cup {n} ELSE touched

\* end_registration begins: a controller with a runner, which has the ending
\* event, is told, and the runner waits for it.
Signal(r) == signaled' = IF r.runner # "none" THEN signaled \cup {r.session} ELSE signaled

\* The logon of the runner is gone or another.
ReconcileEnd ==
    /\ loop = "apply" /\ seen.registered /\ ~seen.conflict
    /\ Reconciled.runner # "none" /\ Reconciled.logon \notin seen.sessions
    /\ loop' = "ending" /\ Signal(entry)
    /\ UNCHANGED <<listed, leaving, logons, ctls, registered, runtime, host, queue, seen, entry,
                   ending, call, removed, touched, events>>
    /\ UNCHANGED countVars

\* A logoff is received.
ReceiveLogoff ==
    /\ host = "up" /\ loop = "idle" /\ queue # <<>> /\ Head(queue).type = "end"
    /\ queue' = Tail(queue)
    /\ \/ entry.logon = Head(queue).logon /\ loop' = "logoff" /\ Signal(entry)
       \/ entry.logon # Head(queue).logon /\ UNCHANGED <<loop, signaled>>
    /\ UNCHANGED <<listed, leaving, logons, ctls, registered, runtime, host, seen, entry,
                   ending, call, removed, touched, events>>
    /\ UNCHANGED countVars

\* The runner has joined: its process ended, or is terminated after 30 s.
JoinRunner(r) == ctls' = {c \in ctls : c.pid # r.pid}

\* end_windows_session remembers the logon it has ended.
MarkEnding == ending' = IF loop = "logoff" THEN ending \cup {entry.logon} ELSE ending

\* end_registration ends, with the lock held.
EndRegistration ==
    /\ Locked /\ JoinRunner(entry) /\ MarkEnding
    /\ entry' = IF entry.present THEN Blank ELSE entry
    /\ runtime' = IF entry.present THEN NoRuntime ELSE runtime
    /\ loop' = "idle" /\ seen' = NoReading
    /\ host' = IF loop = "shutdown" THEN "off" ELSE IF host = "starting" THEN "up" ELSE host
    /\ UNCHANGED <<registered, queue, call, removed, touched, events>>
    /\ UNCHANGED windowsVars /\ UNCHANGED countVars

\* Preshutdown: end_all, after which the host stops.
ReceivePreshutdown ==
    /\ host = "up" /\ loop = "idle" /\ queue # <<>> /\ Head(queue).type = "preshutdown"
    /\ queue' = Tail(queue) /\ loop' = "shutdown" /\ Signal(entry)
    /\ UNCHANGED <<listed, leaving, logons, ctls, registered, runtime, host, seen, entry,
                   ending, call, removed, touched, events>>
    /\ UNCHANGED countVars

\* Stop, on an upgrade of the host: detach_all records the controllers.
ReceiveDetach ==
    /\ host = "up" /\ loop = "idle" /\ queue # <<>> /\ Head(queue).type = "detach"
    /\ host' = "down" /\ runtime' = IF entry.present THEN Persisted(entry) ELSE runtime
    /\ queue' = <<>> /\ entry' = NoEntry /\ ending' = {} /\ call' = "idle" /\ removed' = NoEntry
    /\ UNCHANGED <<ctls, registered, loop, seen, touched, events>>
    /\ UNCHANGED windowsVars /\ UNCHANGED countVars

-----------------------------------------------------------------------------
(* The host process. *)

\* What a host process takes with it.
HostLost ==
    /\ queue' = <<>> /\ loop' = "idle" /\ seen' = NoReading
    /\ entry' = NoEntry /\ ending' = {} /\ call' = "idle" /\ removed' = NoEntry
    /\ UNCHANGED <<listed, leaving, logons, registered>>

\* The host crashes; a controller whose launch was not recorded is lost to it.
\* A record that an unregistration has removed under an entry may be torn when
\* it is written anew.
HostCrash ==
    /\ host \in {"up", "starting"} /\ Happens
    /\ host' \in {"down"} \cup
                  (IF runtime = NoRuntime /\ entry.logon # 0 THEN {"torn"} ELSE {})
    /\ touched' = IF entry.runner = "launched" THEN touched \cup {entry.logon} ELSE touched
    /\ HostLost
    /\ UNCHANGED <<ctls, runtime, signaled>> /\ UNCHANGED countVars

\* A new session of logon n is about to be recorded where no record is: by
\* reconcile, which has told the session of an earlier logon to end and removed
\* its record, or by register_user.
ReconcileRecords(n) ==
    /\ loop = "apply" /\ seen.registered /\ ~seen.conflict /\ n \in seen.sessions
    /\ Reconciled.runner = "none" /\ Reconciled.logon # n
    /\ signaled' = signaled \cup ({Reconciled.session} \ {0})

RegisterRecords(n) ==
    /\ call = "register" /\ ~Locked /\ n \in listed /\ ~Conflicts(listed)
    /\ Reconciled.runner = "none" /\ runtime = NoRuntime
    /\ UNCHANGED signaled

\* The host crashes inside save_runtime: the controller may have been launched,
\* the key exists and not all of its values do.
CrashInSave(n) ==
    /\ host \in {"up", "starting"} /\ Happens /\ host' = "torn"
    /\ ReconcileRecords(n) \/ RegisterRecords(n)
    /\ sessions' = sessions + 1
    /\ issued' = issued \cup {[logon |-> n, session |-> sessions + 1]}
    /\ NewController(sessions + 1, n) \/ UNCHANGED ctls
    /\ runtime' = NoRuntime /\ touched' = touched \cup {n}
    /\ HostLost

\* HostRpc::new reads the registry and reconciles before it serves.
HostStart ==
    /\ host = "down" /\ host' = "starting" /\ loop' = "reconcile"
    /\ IF registered
         THEN /\ entry' = [Blank EXCEPT !.session = runtime.session, !.logon = runtime.logon,
                                        !.recorded = runtime.pid]
              /\ UNCHANGED runtime
         ELSE entry' = NoEntry /\ runtime' = NoRuntime
    /\ UNCHANGED <<ctls, registered, queue, seen, ending, call, removed, touched, events>>
    /\ UNCHANGED windowsVars /\ UNCHANGED countVars

\* HostRpc::new fails on a record without all its values, whoever it belongs to.
\* run_service drops the error: its worker has ended, the service is reported as
\* running, and starting it again fails again.
HostStartFails ==
    /\ host = "torn" /\ host' = "failed"
    /\ UNCHANGED <<ctls, registered, runtime, queue, loop, seen, entry, ending, call, removed,
                   touched, events>>
    /\ UNCHANGED windowsVars /\ UNCHANGED countVars

-----------------------------------------------------------------------------
(* The runner thread: run_controller. *)

\* Its process has ended.
RunnerSeesExit ==
    /\ entry.runner = "watching" /\ ~Alive(entry.pid) /\ ~Locked
    /\ entry' = [entry EXCEPT !.runner = "backoff", !.pid = 0]
    /\ runtime' = [session |-> entry.session, logon |-> entry.logon, pid |-> 0]
    /\ UNCHANGED <<ctls, registered, host, queue, loop, seen, ending, call, removed, touched,
                   events>>
    /\ UNCHANGED windowsVars /\ UNCHANGED countVars

\* The delay is over: it launches again, or fails and waits longer.
RunnerLaunches ==
    /\ entry.runner = "backoff" /\ ~Locked
    /\ \/ /\ NewController(entry.session, entry.logon)
          /\ entry' = [entry EXCEPT !.runner = "launched", !.pid = NewPid]
          /\ UNCHANGED events
       \/ LaunchFails(entry.logon) /\ UNCHANGED entry
    /\ UNCHANGED <<sessions, issued, registered, runtime, host, queue, loop, seen, ending, call,
                   removed, touched>>
    /\ UNCHANGED windowsVars

\* The observer records the process.
RunnerObserves ==
    /\ entry.runner = "launched"
    /\ entry' = [entry EXCEPT !.runner = "watching"]
    /\ runtime' = [session |-> entry.session, logon |-> entry.logon, pid |-> entry.pid]
    /\ UNCHANGED <<ctls, registered, host, queue, loop, seen, ending, call, removed, touched,
                   events>>
    /\ UNCHANGED windowsVars /\ UNCHANGED countVars

-----------------------------------------------------------------------------
(* RPC handlers.  The handler of a call needs the lock the loop may hold. *)

Touch == touched' = touched \cup listed \cup {entry.logon}

Calls(next) ==
    /\ host = "up" /\ call = "idle" /\ Happens /\ call' = next
    /\ Touch

\* register_user: the registry key.
Register ==
    /\ Calls("register") /\ registered' = TRUE
    /\ UNCHANGED <<ctls, runtime, host, queue, loop, seen, entry, ending, removed>>
    /\ UNCHANGED windowsVars /\ UNCHANGED countVars

\* register_user: an entry, and a new manager session if none is running.
RegisterStarts ==
    /\ call = "register" /\ ~Locked /\ call' = "idle" /\ Touch
    /\ \/ /\ Reconciled.runner = "none" /\ ~Conflicts(listed)
          /\ \E n \in listed :
               /\ StartRunner([Reconciled EXCEPT !.session = 0], n, 0, Reconciled)
               /\ entry'.runner = "none" => UNCHANGED runtime
       \/ /\ Reconciled.runner # "none" \/ listed = {} \/ Conflicts(listed)
          /\ entry' = Reconciled /\ UNCHANGED <<ctls, runtime, events>> /\ UNCHANGED countVars
    /\ UNCHANGED <<registered, host, queue, loop, seen, ending, removed>>
    /\ UNCHANGED windowsVars

\* unregister_user: the registry key.
Unregister ==
    /\ Calls("unregister") /\ registered' = FALSE
    /\ UNCHANGED <<ctls, runtime, host, queue, loop, seen, entry, ending, removed>>
    /\ UNCHANGED windowsVars /\ UNCHANGED countVars

\* unregister_user: the entry leaves the map and is ended without the lock.
UnregisterRemoves ==
    /\ call = "unregister" /\ ~Locked /\ Touch
    /\ \/ entry.present /\ call' = "ending" /\ removed' = entry /\ Signal(entry)
       \/ ~entry.present /\ call' = "idle" /\ UNCHANGED <<removed, signaled>>
    /\ entry' = NoEntry
    /\ UNCHANGED <<listed, leaving, logons, ctls, registered, runtime, host, queue, loop, seen,
                   ending, events>>
    /\ UNCHANGED countVars

UnregisterEnds ==
    /\ call = "ending" /\ call' = "idle" /\ JoinRunner(removed) /\ Touch
    /\ removed' = NoEntry /\ runtime' = NoRuntime
    /\ UNCHANGED <<registered, host, queue, loop, seen, entry, ending, events>>
    /\ UNCHANGED windowsVars /\ UNCHANGED countVars

\* restart_controller: the runner terminates its process and sees it end.
RestartController ==
    /\ host = "up" /\ call = "idle" /\ Happens /\ ~Locked
    /\ entry.runner = "watching" /\ JoinRunner(entry)
    /\ UNCHANGED <<registered, runtime, host, queue, loop, seen, entry, ending, call, removed,
                   touched>>
    /\ UNCHANGED windowsVars /\ UNCHANGED countVars

-----------------------------------------------------------------------------
(* Windows and the controllers. *)

\* run_service has a worker to notify: the host runs and has had no control.
HasWorker ==
    /\ host \in {"up", "starting"} /\ loop # "shutdown"
    /\ \A i \in 1..Len(queue) : queue[i].type \notin {"detach", "preshutdown"}

Notify(type, n) ==
    queue' = IF HasWorker THEN Append(queue, [type |-> type, logon |-> n]) ELSE queue

Logon ==
    /\ logons < MaxLogons /\ host # "off" /\ logons' = logons + 1
    /\ listed' = listed \cup {logons + 1} /\ Notify("reconcile", 0)
    /\ UNCHANGED <<leaving, ctls, signaled, registered, runtime, host, loop, seen, entry, ending,
                   call, removed, touched, events>>
    /\ UNCHANGED countVars

\* A logoff is announced while the session is still listed.
LogoffBegins(n) ==
    /\ n \in listed \ leaving /\ leaving' = leaving \cup {n} /\ Notify("end", n)
    /\ UNCHANGED <<listed, logons, ctls, signaled, registered, runtime, host, loop, seen, entry,
                   ending, call, removed, touched, events>>
    /\ UNCHANGED countVars

\* The session is gone, with its processes.
LogoffEnds(n) ==
    /\ n \in leaving /\ leaving' = leaving \ {n} /\ listed' = listed \ {n}
    /\ ctls' = {c \in ctls : c.logon # n}
    /\ UNCHANGED <<logons, signaled, registered, runtime, host, queue, loop, seen, entry, ending,
                   call, removed, touched, events>>
    /\ UNCHANGED countVars

\* The machine shuts down, or the host is upgraded.
Control(command) ==
    /\ HasWorker /\ Happens /\ Notify(command, 0)
    /\ UNCHANGED <<ctls, registered, runtime, host, loop, seen, entry, ending, call, removed,
                   touched>>
    /\ UNCHANGED windowsVars /\ UNCHANGED countVars

\* A controller ends because its session does, or crashes.
ControllerEnds(c) ==
    /\ c \in ctls /\ ctls' = ctls \ {c}
    /\ \/ c.session \in signaled /\ UNCHANGED events
       \/ c.session \notin signaled /\ Happens
    /\ UNCHANGED <<registered, runtime, host, queue, loop, seen, entry, ending, call, removed,
                   touched>>
    /\ UNCHANGED windowsVars /\ UNCHANGED countVars

-----------------------------------------------------------------------------

LoopStep ==
    \/ ReceiveReconcile \/ ReceiveLogoff \/ ReceivePreshutdown \/ ReceiveDetach
    \/ ReadSessions \/ ReadRegistrations
    \/ ReconcileForget \/ ReconcileKeep \/ ReconcileStart \/ ReconcileEnd \/ EndRegistration

Next ==
    \/ Tick \/ LoopStep
    \/ HostCrash \/ HostStart \/ HostStartFails
    \/ \E n \in listed \cup seen.sessions : CrashInSave(n)
    \/ RunnerSeesExit \/ RunnerLaunches \/ RunnerObserves
    \/ Register \/ RegisterStarts \/ Unregister \/ UnregisterRemoves \/ UnregisterEnds
    \/ RestartController
    \/ Logon
    \/ \E n \in listed : LogoffBegins(n) \/ LogoffEnds(n)
    \/ \E command \in {"detach", "preshutdown"} : Control(command)
    \/ \E c \in ctls : ControllerEnds(c)

Spec == Init /\ [][Next]_vars

\* The interval ticks, the loop, the runner and the handlers go on, and the
\* service manager restarts the host.  Nobody needs to log on or off.
Fairness ==
    /\ WF_vars(Tick \/ LoopStep)
    /\ WF_vars(HostStart \/ HostStartFails)
    /\ WF_vars(RunnerSeesExit \/ RunnerLaunches \/ RunnerObserves)
    /\ WF_vars(RegisterStarts \/ UnregisterRemoves \/ UnregisterEnds)

FairSpec == Spec /\ Fairness

-----------------------------------------------------------------------------
(* Properties. *)

\* Until its logoff a logon keeps its manager session and has one controller at
\* a time, across crashes of controllers and host and across host upgrades: a
\* restarted host adopts what its predecessor recorded.  No session passes to
\* another logon.  Excepted are logons with registration calls, those where the
\* host crashed between a launch and its record, and those where a runner could
\* not be made.  During a logoff a restarted host has forgotten `ending` and may
\* start another session.
OnePerLogon ==
    \A n \in (listed \ leaving) \ touched :
        /\ Cardinality({r \in issued : r.logon = n}) <= 1
        /\ Cardinality({c \in ctls : c.logon = n}) <= 1
        /\ \A r, q \in issued : r.logon = n /\ r.session = q.session => q.logon = n

\* Once the logoff of a logon was handled, reconciliation starts nothing in it
\* again, although Windows still lists its session.  That is for the lifetime of
\* a host process: a crash or an upgrade empties `ending`, and its successor may
\* start a session in a logon that is still listed.
EndedStaysEnded ==
    [][\A n \in ending : \A r \in issued' \ issued : r.logon # n \/ n \in touched']_vars

\* A registered user with one logon gets a controller, whatever crashed and was
\* unregistered or launched in vain before, unless the logon, the registration
\* or the machine goes away, or a crash inside the first writing of a record has
\* kept the host from starting.
LogonGetsController ==
    (registered /\ Cardinality(listed \ leaving) = 1 /\ listed = listed \ leaving)
        ~> (\/ \E c \in ctls : c.logon \in listed
            \/ ~registered \/ leaving # {} \/ Cardinality(listed) # 1
            \/ host \in {"failed", "off"})
=============================================================================
