---------------------------- MODULE WorkloadControl ----------------------------
(***************************************************************************)
(* The control of one workload as domain/src/controller.rs defines it:     *)
(* ServiceState turns commands and reports into an intent and effects,     *)
(* JobState does the same for a job.  Around it stands the controller that *)
(* carries the effects out: an allocation or a stop may be late or be      *)
(* repeated, and so may the reports; commands arrive at any time.          *)
(*                                                                         *)
(* Abstractions.  Enablement and the manager session do not take part in   *)
(* a transition and are left out, as are causes and origins.  The outcome  *)
(* kept in Blocked is left out.  A command that is refused because the     *)
(* definition is missing changes nothing and is not an action.             *)
(***************************************************************************)
EXTENDS Naturals, FiniteSets

CONSTANTS MaxCommands,  \* bound: accepted commands, and so intent revisions
          MaxRepeats,   \* bound: effects and reports delivered again
          MaxReloads    \* bound: reloads that remove or restore the definition

ASSUME ControlAssumption ==
    MaxCommands \in Nat /\ MaxRepeats \in Nat /\ MaxReloads \in Nat

VARIABLES
  workload,     \* a service or a job
  defined,      \* DefinitionState is Available
  \* ServiceControl and JobActivity.
  intent,       \* ServiceControl; a job has none
  control,      \* the phase: StoppedPhase, RunningPhase or JobActivity
  rev,          \* revision of a running intent
  exec,         \* execution of the phase, 0 for none
  after,        \* AfterActive
  \* The controller and the execution.
  allocs,       \* revisions of AllocateExecution effects
  stopping,     \* executions of StopExecution and CancelExecution effects
  alive,        \* executions that have not ended
  reports,      \* events on their way to transition
  ids,          \* execution identities handed out
  \* History.
  created,      \* [exec, rev] of the executions that came to life
  latest,       \* the last accepted command
  commands, repeats, reloads

controlVars == <<intent, control, rev, exec, after>>
worldVars == <<allocs, stopping, alive, reports, ids>>
workloadVars == <<workload, defined, intent, control, rev, exec, after, allocs, stopping, alive,
                  reports, ids, created, latest, commands, repeats, reloads>>

Report == [type : {"allocated", "terminated"}, rev : Nat, exec : Nat,
           rerun : {"none", "not_requested", "start", "missing"}, next : Nat]

\* A phase names an execution exactly when the enum's variant has an
\* execution_id, and only a running intent has a revision.
IntentTypeOK ==
    /\ workload \in {"service", "job"}
    /\ intent \in {"stopped", "running"} /\ after \in {"nothing", "rerun"}
    /\ control \in {"idle", "needs", "active", "draining", "blocked"}
    /\ rev \in Nat /\ exec \in 0..ids
    /\ exec # 0 <=> control \in {"active", "draining", "blocked"}
    /\ workload = "service" /\ intent = "stopped" => control \in {"idle", "draining"}
    /\ workload = "service" /\ intent = "running" => control # "idle"
    /\ workload = "job" => control \in {"idle", "active"} /\ intent = "stopped"
    /\ after = "rerun" => workload = "job" /\ control = "active"

\* Effects, reports and history name identities that were handed out.
WorldTypeOK ==
    /\ allocs \subseteq Nat /\ stopping \subseteq 1..ids /\ alive \subseteq 1..ids
    /\ reports \subseteq Report
    /\ created \subseteq [exec : 1..ids, rev : Nat]

\* One type invariant.
ControlTypeOK ==
    /\ IntentTypeOK /\ WorldTypeOK
    /\ ids \in Nat /\ defined \in BOOLEAN
    /\ latest \in {"none", "start", "restart", "stop"}
    /\ commands \in Nat /\ repeats \in Nat /\ reloads \in Nat

ControlInit ==
    /\ workload \in {"service", "job"} /\ defined = TRUE
    /\ intent = "stopped" /\ control = "idle" /\ rev = 0 /\ exec = 0 /\ after = "nothing"
    /\ allocs = {} /\ stopping = {} /\ alive = {} /\ reports = {} /\ ids = 0
    /\ created = {} /\ latest = "none"
    /\ commands = 0 /\ repeats = 0 /\ reloads = 0

-----------------------------------------------------------------------------
(* ServiceState::command.  A command that creates an intent carries a new  *)
(* revision.                                                               *)

Command(name) ==
    /\ commands < MaxCommands /\ commands' = commands + 1
    /\ latest' = name
    /\ UNCHANGED <<workload, defined, alive, reports, created, repeats, reloads>>

Revision == commands + 1

\* A running intent without an execution asks for one.
Needs(r) ==
    /\ intent' = "running" /\ control' = "needs" /\ rev' = r /\ exec' = 0
    /\ allocs' = allocs \cup {r}

\* A running intent waits for the old execution.
DrainsFirst(r) ==
    intent' = "running" /\ control' = "draining" /\ rev' = r /\ UNCHANGED <<exec, allocs>>

ServiceStart ==
    /\ workload = "service" /\ defined /\ Command("start")
    /\ \/ control \in {"idle", "blocked"} /\ Needs(Revision)
       \/ control = "draining" /\ intent = "stopped" /\ DrainsFirst(Revision)
       \/ intent = "running" /\ control # "blocked"
          /\ UNCHANGED <<intent, control, rev, exec, allocs>>
    /\ UNCHANGED <<after, stopping, ids>>

ServiceRestart ==
    /\ workload = "service" /\ defined /\ Command("restart")
    /\ \/ control \in {"idle", "needs", "blocked"} /\ Needs(Revision) /\ UNCHANGED stopping
       \/ control = "draining" /\ DrainsFirst(Revision) /\ UNCHANGED stopping
       \/ control = "active" /\ DrainsFirst(Revision) /\ stopping' = stopping \cup {exec}
    /\ UNCHANGED <<after, ids>>

MutStopKeepsReplacement ==
    /\ workload = "service" /\ Command("stop")
    /\ \/ control = "active"
          /\ intent' = "stopped" /\ control' = "draining" /\ stopping' = stopping \cup {exec}
          /\ UNCHANGED exec
       \/ control \in {"needs", "blocked"}
          /\ intent' = "stopped" /\ control' = "idle" /\ exec' = 0 /\ UNCHANGED stopping
       \/ control \in {"idle", "draining"} /\ UNCHANGED <<intent, control, exec, stopping>>
    /\ UNCHANGED <<rev, after, allocs, ids>>

ServiceStop ==
    /\ workload = "service" /\ Command("stop")
    /\ \/ intent = "stopped" /\ UNCHANGED <<intent, control, exec, stopping>>
       \/ intent = "running" /\ control \in {"active", "draining"}
          /\ intent' = "stopped" /\ control' = "draining" /\ stopping' = stopping \cup {exec}
          /\ UNCHANGED exec
       \/ control \in {"needs", "blocked"}
          /\ intent' = "stopped" /\ control' = "idle" /\ exec' = 0 /\ UNCHANGED stopping
    /\ UNCHANGED <<rev, after, allocs, ids>>

-----------------------------------------------------------------------------
(* JobState::transition for commands. *)

\* An execution comes to life for revision r; jobs have no revisions.
Live(x, r) ==
    alive' = alive \cup {x} /\ created' = created \cup {[exec |-> x, rev |-> r]}

\* StartRequested and RerunRequested while idle.
JobStarts(name) ==
    /\ control = "idle" /\ ids' = ids + 1
    /\ control' = "active" /\ exec' = ids + 1 /\ Live(ids + 1, 0)
    /\ commands < MaxCommands /\ commands' = commands + 1 /\ latest' = name
    /\ UNCHANGED <<workload, defined, intent, rev, after, allocs, stopping, reports, repeats,
                   reloads>>

JobStart ==
    /\ workload = "job" /\ defined
    /\ \/ JobStarts("start")
       \/ control = "active" /\ Command(latest) /\ UNCHANGED controlVars
          /\ UNCHANGED <<allocs, stopping, ids>>

JobRerun ==
    /\ workload = "job" /\ defined
    /\ \/ JobStarts("restart")
       \/ /\ control = "active" /\ Command("restart") /\ after' = "rerun"
          /\ stopping' = IF after = "nothing" THEN stopping \cup {exec} ELSE stopping
          /\ UNCHANGED <<intent, control, rev, exec, allocs, ids>>

JobCancel ==
    /\ workload = "job" /\ Command("stop")
    /\ after' = "nothing"
    /\ stopping' = IF control = "active" THEN stopping \cup {exec} ELSE stopping
    /\ UNCHANGED <<intent, control, rev, exec, allocs, ids>>

-----------------------------------------------------------------------------
(* Reports.  One may be delivered again. *)

TakeReport(e) ==
    /\ \/ reports' = reports \ {e} /\ UNCHANGED repeats
       \/ reports' = reports /\ repeats < MaxRepeats /\ repeats' = repeats + 1
    /\ UNCHANGED <<workload, defined, latest, commands, reloads>>

MutAnyRevision(e) == control = "needs"

\* The allocation is the one the intent waits for.
Awaited(e) == intent = "running" /\ control = "needs" /\ e.rev = rev

\* execution_allocated
ExecutionAllocated(e) ==
    /\ e.type = "allocated" /\ Awaited(e) /\ TakeReport(e)
    /\ control' = "active" /\ exec' = e.exec /\ Live(e.exec, e.rev)
    /\ UNCHANGED <<intent, rev, after, allocs, stopping, ids>>

MutAnyExecution(e) == control \in {"active", "draining"}

\* The report is about the execution of the phase.
CurrentExecution(e) == control \in {"active", "draining"} /\ e.exec = exec

MutForgetReplacement(e) ==
    /\ e.type = "terminated" /\ workload = "service" /\ CurrentExecution(e) /\ TakeReport(e)
    /\ \/ intent = "stopped" /\ control' = "idle" /\ exec' = 0
       \/ control = "active" /\ control' = "blocked" /\ UNCHANGED exec
       \/ control = "draining" /\ intent = "running" /\ control' = "needs" /\ exec' = 0
    /\ UNCHANGED <<intent, rev, allocs, after, stopping, alive, ids, created>>

\* execution_terminated
ServiceTerminated(e) ==
    /\ e.type = "terminated" /\ workload = "service" /\ CurrentExecution(e) /\ TakeReport(e)
    /\ \/ intent = "stopped" /\ control' = "idle" /\ exec' = 0 /\ UNCHANGED <<intent, rev, allocs>>
       \/ control = "active" /\ control' = "blocked" /\ UNCHANGED <<intent, rev, exec, allocs>>
       \/ control = "draining" /\ intent = "running" /\ Needs(rev)
    /\ UNCHANGED <<after, stopping, alive, ids, created>>

\* The sender's RerunDisposition fits what is pending now.
Fits(e) == after = "rerun" <=> e.rerun # "not_requested"

JobTerminated(e) ==
    /\ e.type = "terminated" /\ workload = "job" /\ CurrentExecution(e) /\ Fits(e) /\ TakeReport(e)
    /\ after' = "nothing"
    /\ IF e.rerun = "start"
         THEN exec' = e.next /\ Live(e.next, 0) /\ UNCHANGED control
         ELSE control' = "idle" /\ exec' = 0 /\ UNCHANGED <<alive, created>>
    /\ UNCHANGED <<intent, rev, allocs, stopping, ids>>

\* StaleExecution or StaleIntentRevision: nothing changes.
Refused(e) ==
    /\ \/ e.type = "allocated" /\ ~Awaited(e)
       \/ e.type = "terminated" /\ ~(CurrentExecution(e) /\ (workload = "job" => Fits(e)))
    /\ reports' = reports \ {e}
    /\ UNCHANGED controlVars
    /\ UNCHANGED <<workload, defined, allocs, stopping, alive, ids, created, latest, commands,
                   repeats, reloads>>

-----------------------------------------------------------------------------
(* The controller and the execution. *)

\* AllocateExecution is carried out with a new identity, perhaps again.
Allocate(r) ==
    /\ r \in allocs
    /\ \/ allocs' = allocs \ {r} /\ UNCHANGED repeats
       \/ allocs' = allocs /\ repeats < MaxRepeats /\ repeats' = repeats + 1
    /\ ids' = ids + 1
    /\ reports' = reports \cup
         {[type |-> "allocated", rev |-> r, exec |-> ids + 1, rerun |-> "none", next |-> 0]}
    /\ UNCHANGED controlVars
    /\ UNCHANGED <<workload, defined, stopping, alive, created, latest, commands, reloads>>

\* An execution ends, by itself or because it was stopped.
Terminates(x) ==
    /\ x \in alive /\ alive' = alive \ {x} /\ stopping' = stopping \ {x}
    /\ UNCHANGED controlVars
    /\ UNCHANGED <<workload, defined, allocs, reports, ids, created, latest, commands, repeats,
                   reloads>>

\* The end of the current execution is reported, again if it was refused; for
\* a job with the rerun the sender sees pending and the definition it sees.
ReportEnd ==
    /\ control \in {"active", "draining"} /\ exec \notin alive
    /\ ~\E e \in reports : e.type = "terminated" /\ e.exec = exec
    /\ LET again == workload = "job" /\ after = "rerun" /\ defined
       IN /\ ids' = IF again THEN ids + 1 ELSE ids
          /\ reports' = reports \cup
               {[type |-> "terminated", rev |-> 0, exec |-> exec,
                 rerun |-> IF after = "nothing" THEN "not_requested"
                           ELSE IF defined THEN "start" ELSE "missing",
                 next |-> ids']}
    /\ UNCHANGED controlVars
    /\ UNCHANGED <<workload, defined, allocs, stopping, alive, created, latest, commands,
                   repeats, reloads>>

Reload ==
    /\ reloads < MaxReloads /\ reloads' = reloads + 1 /\ defined' = ~defined
    /\ UNCHANGED controlVars /\ UNCHANGED worldVars
    /\ UNCHANGED <<workload, created, latest, commands, repeats>>

-----------------------------------------------------------------------------

Handle(e) ==
    ExecutionAllocated(e) \/ ServiceTerminated(e) \/ JobTerminated(e) \/ Refused(e)

ControlNext ==
    \/ ServiceStart \/ ServiceRestart \/ ServiceStop
    \/ JobStart \/ JobRerun \/ JobCancel
    \/ \E e \in reports : Handle(e)
    \/ \E r \in allocs : Allocate(r)
    \/ \E x \in alive : Terminates(x)
    \/ ReportEnd \/ Reload

ControlSpec == ControlInit /\ [][ControlNext]_workloadVars

\* Effects are carried out and reports arrive; an execution that was told to
\* stop ends, another need not.
ControlFairness ==
    /\ WF_workloadVars(\E e \in reports : reports' = reports \ {e} /\ Handle(e))
    /\ WF_workloadVars(\E r \in allocs : allocs' = allocs \ {r} /\ Allocate(r))
    /\ WF_workloadVars(\E x \in alive \cap stopping : Terminates(x))
    /\ WF_workloadVars(ReportEnd)

ControlFairSpec == ControlSpec /\ ControlFairness

-----------------------------------------------------------------------------
(* Properties. *)

\* A workload has at most one active execution, and it is the one its control
\* knows: no late or repeated report lets a live execution slip out of sight.
LiveIsControlled == \A x \in alive : x = exec /\ control \in {"active", "draining"}

\* An intent revision creates at most one execution, however often its
\* allocation is carried out or reported, and repeated restarts coalesce: an
\* execution is created for the revision that is current then.
OnePerRevision ==
    \A a, b \in created : a.rev = b.rev /\ a.rev # 0 => a = b

\* After a stop or cancel no execution is created until the next command asks
\* for one: a pending allocation, replacement or rerun is cancelled.
StopCancelsReplacement == [][created' # created => latest' # "stop"]_workloadVars

\* A pending allocation, replacement or rerun is served, or given up by a
\* later command, however its reports are lost to races and sent again.
PendingIsServed ==
    (control \in {"needs", "draining"} \/ after = "rerun")
        ~> (control \in {"idle", "active", "blocked"} /\ after = "nothing")
=============================================================================
