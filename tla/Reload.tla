-------------------------------- MODULE Reload --------------------------------
(***************************************************************************)
(* A reload of the workload definitions and what comes of it: the          *)
(* candidate is loaded (ConfigDirectory), replaces the accepted            *)
(* definitions in the database and in memory, and each active execution is *)
(* told of its new policy, over a connection that may break, by a          *)
(* controller that may crash, to a supervisor that may be replaced         *)
(* (manager.rs, storage.rs, controller_link.rs, runner.rs).                *)
(*                                                                         *)
(* Two calls of reload may run at once: only the database transaction and  *)
(* the sections under the state lock are atomic.  Enablement and the       *)
(* outcome columns are left out, and so is the wording of a rejection.     *)
(*                                                                         *)
(* Abstractions.  process_definition_hash and policy_hash are the values   *)
(* they hash, and the generation is the definitions themselves.  Storage   *)
(* and the runtime journal do not fail.  Observations arrive once and in   *)
(* order (ObservationLink); a supervisor that falls 16 commands behind is  *)
(* one whose connection breaks.                                            *)
(***************************************************************************)
EXTENDS ConfigDirectory, Sequences, SequencesExt

CONSTANTS None,
          Startable,                         \* bound: the workloads that are ever started
          MaxReloads, MaxStarts, MaxFaults   \* bounds on what the environment does

ASSUME ReloadAssumption ==
    /\ None \notin Definitions /\ Startable \subseteq Workloads 
    /\ MaxReloads \in Nat /\ MaxStarts \in Nat /\ MaxFaults \in Nat
    /\ \A d \in Definitions : {"kind", "process", "policy"} \subseteq DOMAIN d

VARIABLES
  \* The database.
  stored,      \* rows of workloads: kind and definition
  executions,  \* the snapshot of each open execution
  \* The controller.
  controller,  \* "down", "starting" or "serving"
  workloads,   \* State.workloads
  active,      \* State.active
  step,        \* where each call of reload is once it has a candidate
  candidate, rows,   \* its locals
  \* The supervisors and the connections to them.
  sup,
  \* History.
  reconciled,  \* a reload has succeeded since the controller started
  policies,    \* the policies memory has held during each execution
  replaced,    \* executions whose supervisor was replaced
  reloads, starts, faults

dbVars == <<stored, executions>>
callVars == <<step, candidate, rows>>
historyVars == <<policies, replaced, reloads, starts, faults>>
vars == <<dirVars, dbVars, callVars, controller, workloads, active, sup, reconciled, historyVars>>

Policies == {d.policy : d \in Definitions}
Row == [kind : {d.kind : d \in Definitions}, definition : Definitions \cup {Absent}]
Active == [process : {d.process : d \in Definitions}, policy : Policies,
           restart_required : BOOLEAN, policy_sync_pending : BOOLEAN]
Supervisor == [linked : BOOLEAN, connected : BOOLEAN, commands : Seq(Policies),
               offered : Policies \cup {None}, applied : Policies \cup {None},
               acks : Seq(Policies)]

TypeOK ==
    /\ DirectoryTypeOK
    /\ stored \in [Workloads -> Row] /\ executions \in [Workloads -> Definitions \cup {None}]
    /\ controller \in {"down", "starting", "serving"}
    /\ workloads \in [Workloads -> Row] /\ active \in [Workloads -> Active \cup {None}]
    /\ step \in [Calls -> {"load", "replace", "fetch", "install", "unchanged"}]
    /\ candidate \in [Calls -> [Workloads -> Contents] \cup {None}]
    /\ rows \in [Calls -> [Workloads -> Row] \cup {None}]
    /\ sup \in [Workloads -> Supervisor]
    /\ reconciled \in BOOLEAN /\ policies \in [Workloads -> Seq(Policies)]
    /\ replaced \subseteq Workloads /\ {reloads, starts, faults} \subseteq Nat

\* A supervisor's link: the task that connects it to a controller.
NoSupervisor == [linked |-> TRUE, connected |-> FALSE, commands |-> <<>>, offered |-> None,
                 applied |-> None, acks |-> <<>>]

\* A controller that has accepted the directory and runs nothing.
Init ==
    /\ DirectoryInit
    /\ stored = [w \in Workloads |-> [kind |-> directory[w].content.kind, definition |-> directory[w].content]]
    /\ executions = [w \in Workloads |-> None]
    /\ controller = "serving" /\ workloads = stored /\ active = [w \in Workloads |-> None]
    /\ step = [c \in Calls |-> "load"] /\ candidate = [c \in Calls |-> None]
    /\ rows = [c \in Calls |-> None]
    /\ sup = [w \in Workloads |-> NoSupervisor]
    /\ reconciled = TRUE /\ policies = [w \in Workloads |-> <<>>] /\ replaced = {}
    /\ reloads = 0 /\ starts = 0 /\ faults = 0

Running(w) == executions[w] # None

\* History: memory now holds m.
Noted(m) ==
    [w \in Workloads |->
       IF Running(w) /\ m[w].definition # Absent /\ m[w].definition.policy # Last(policies[w])
       THEN Append(policies[w], m[w].definition.policy) ELSE policies[w]]

-----------------------------------------------------------------------------
(* Manager::reload. *)

Free(c) == At(c, "idle") /\ step[c] = "load"

\* Bound: one call at a time reads the directory.  Readers do not affect each
\* other, and a call that has read may be overtaken by one that reads later.
OneReader == \A c \in Calls : At(c, "idle")

\* The Reload RPC, on any free thread: they are all alike.
CallReload ==
    /\ controller = "serving" /\ reloads < MaxReloads /\ OneReader
    /\ \E c \in Calls : Free(c)
    /\ BeginLoad(CHOOSE c \in Calls : Free(c)) /\ reloads' = reloads + 1
    /\ UNCHANGED <<dbVars, callVars, controller, workloads, active, sup, reconciled, policies,
                   replaced, starts, faults>>

\* load_directory goes on.
Load(c) ==
    /\ Enumerate(c) \/ ReadFile(c) \/ ListAgain(c) \/ EnumerateAgain(c)
    /\ UNCHANGED <<dbVars, callVars, controller, workloads, active, sup, reconciled, historyVars>>

\* The call returns; the first one, of main, lets the controller serve.
Return(c) ==
    /\ controller' = "serving"
    /\ step' = [step EXCEPT ![c] = "load"]
    /\ candidate' = [candidate EXCEPT ![c] = None] /\ rows' = [rows EXCEPT ![c] = None]

\* main.rs warns of an error of its reload and goes on.
LoadError(c) ==
    /\ LoadFails(c) /\ Return(c)
    /\ UNCHANGED <<dbVars, workloads, active, sup, reconciled, historyVars>>

KindChangeActive(c) ==
    \E w \in Workloads :
        /\ active[w] # None /\ Candidate(c)[w] # Absent
        /\ workloads[w].kind # Candidate(c)[w].kind

RejectKindChange(c) ==
    /\ Loaded(c) /\ KindChangeActive(c)
    /\ Release(c) /\ Return(c)
    /\ UNCHANGED <<dbVars, workloads, active, sup, reconciled, historyVars>>

CheckKinds(c) ==
    /\ Loaded(c) /\ ~KindChangeActive(c)
    /\ Release(c)
    /\ step' = [step EXCEPT ![c] = "replace"]
    /\ candidate' = [candidate EXCEPT ![c] = Candidate(c)]
    /\ UNCHANGED <<dbVars, rows, controller, workloads, active, sup, reconciled,
                   historyVars>>

\* storage::replace_definitions, one transaction: a row outlives its definition.
ReplaceDefinitions(c) ==
    LET new == candidate[c] IN
    /\ step[c] = "replace"
    /\ IF new = [w \in Workloads |-> stored[w].definition]
       THEN step' = [step EXCEPT ![c] = "unchanged"] /\ UNCHANGED stored
       ELSE /\ step' = [step EXCEPT ![c] = "fetch"]
            /\ stored' = [w \in Workloads |->
                 [kind |-> IF new[w] = Absent THEN stored[w].kind ELSE new[w].kind,
                  definition |-> new[w]]]
    /\ UNCHANGED <<dirVars, executions, candidate, rows, controller, workloads, active, sup, reconciled,
                   historyVars>>

\* storage::load_workloads
LoadWorkloads(c) ==
    /\ step[c] = "fetch"
    /\ step' = [step EXCEPT ![c] = "install"]
    /\ candidate' = [candidate EXCEPT ![c] = None] /\ rows' = [rows EXCEPT ![c] = stored]
    /\ UNCHANGED <<dirVars, dbVars, controller, workloads, active, sup, reconciled, historyVars>>

\* What reconcile_reload does to an active execution whose definition is d.
Reconciled(a, d) ==
    IF d = Absent THEN [a EXCEPT !.restart_required = FALSE]
    ELSE [a EXCEPT !.restart_required = (a.process # d.process),
                   !.policy = d.policy,
                   !.policy_sync_pending = @ \/ a.policy # d.policy]

\* reconcile_reload with the definitions m: a pending update is sent, again if
\* need be; nobody hears it without a connection.
ReconcileReload(m) ==
    LET act == [w \in Workloads |->
                  IF active[w] = None THEN None ELSE Reconciled(active[w], m[w].definition)] IN
    /\ active' = act
    /\ sup' = [w \in Workloads |->
         IF /\ act[w] # None /\ m[w].definition # Absent
            /\ act[w].policy_sync_pending /\ sup[w].connected
         THEN [sup[w] EXCEPT !.commands = Append(@, m[w].definition.policy)] ELSE sup[w]]
    /\ reconciled' = TRUE /\ policies' = Noted(m)

\* The rows enter memory under the state lock.
Install(c) ==
    /\ step[c] = "install" /\ workloads' = rows[c]
    /\ ReconcileReload(rows[c])
    /\ Return(c)
    /\ UNCHANGED <<dirVars, dbVars, replaced, reloads, starts, faults>>

MutUnchangedSkips(c) ==
    /\ step[c] = "unchanged"
    /\ Return(c)
    /\ reconciled' = TRUE
    /\ UNCHANGED <<dirVars, dbVars, workloads, active, sup, historyVars>>

\* The generation is the accepted one: flags and updates are reconciled anyway.
Unchanged(c) ==
    /\ step[c] = "unchanged"
    /\ ReconcileReload(workloads)
    /\ Return(c)
    /\ UNCHANGED <<dirVars, dbVars, workloads, replaced, reloads, starts, faults>>

ReloadStep(c) ==
    \/ Load(c) \/ LoadError(c) \/ RejectKindChange(c) \/ CheckKinds(c)
    \/ ReplaceDefinitions(c) \/ LoadWorkloads(c) \/ Install(c) \/ Unchanged(c)

-----------------------------------------------------------------------------
(* Executions, and the controller's own life. *)

\* Manager::start: an execution of the definition in memory.
Start(w) ==
    LET d == workloads[w].definition IN
    /\ controller = "serving" /\ w \in Startable /\ starts < MaxStarts
    /\ active[w] = None /\ d # Absent
    /\ active' = [active EXCEPT ![w] =
         [process |-> d.process, policy |-> d.policy,
          restart_required |-> FALSE, policy_sync_pending |-> FALSE]]
    /\ executions' = [executions EXCEPT ![w] = d]
    /\ sup' = [sup EXCEPT ![w] = [NoSupervisor EXCEPT !.applied = d.policy]]
    /\ policies' = [policies EXCEPT ![w] = <<d.policy>>] /\ replaced' = replaced \ {w}
    /\ starts' = starts + 1
    /\ UNCHANGED <<dirVars, callVars, stored, controller, workloads, reconciled, reloads, faults>>

\* The terminal observation is committed or the result is read.
Finish(w) ==
    /\ controller = "serving" /\ active[w] # None
    /\ active' = [active EXCEPT ![w] = None] /\ executions' = [executions EXCEPT ![w] = None]
    /\ sup' = [sup EXCEPT ![w] = NoSupervisor]
    /\ UNCHANGED <<dirVars, callVars, stored, controller, workloads, reconciled, historyVars>>

Fault == faults < MaxFaults /\ faults' = faults + 1

\* A connection is gone.  The link connects again, unless it was waiting for the
\* Welcome or sending an observation: then it has ended for good.
Broken(s, ended) ==
    [s EXCEPT !.connected = FALSE, !.commands = <<>>, !.linked = @ /\ ~ended]

Crash ==
    /\ Fault /\ controller' = "down"
    /\ ReleaseAll
    /\ step' = [c \in Calls |-> "load"] /\ candidate' = [c \in Calls |-> None]
    /\ rows' = [c \in Calls |-> None]
    /\ active' = [w \in Workloads |-> None]
    /\ \E ended \in SUBSET {w \in Workloads : Running(w)} :
         sup' = [w \in Workloads |-> Broken(sup[w], w \in ended)]
    /\ reconciled' = FALSE
    /\ UNCHANGED <<dbVars, workloads, policies, replaced, reloads, starts>>

\* Manager::open, and the reload with which main begins: the flags and the
\* policy that was sent are not in the database.
Open ==
    /\ controller = "down" /\ controller' = "starting"
    /\ workloads' = stored /\ policies' = Noted(stored)
    /\ active' = [w \in Workloads |->
         IF ~Running(w) THEN None
         ELSE [process |-> executions[w].process, policy |-> executions[w].policy,
               restart_required |-> FALSE, policy_sync_pending |-> FALSE]]
    /\ BeginLoad(CHOOSE c \in Calls : TRUE)
    /\ UNCHANGED <<dbVars, callVars, sup, reconciled, replaced, reloads, starts, faults>>

-----------------------------------------------------------------------------
(* The connection and the supervisor. *)


\* attach_supervisor: a pending update is sent again.
Attach(w) ==
    /\ controller = "serving" /\ active[w] # None /\ sup[w].linked /\ ~sup[w].connected
    /\ sup' = [sup EXCEPT ![w].connected = TRUE,
         ![w].commands = IF active[w].policy_sync_pending /\ workloads[w].definition # Absent
                         THEN <<workloads[w].definition.policy>> ELSE <<>>]
    /\ UNCHANGED <<dirVars, dbVars, callVars, controller, workloads, active, reconciled, historyVars>>

\* controller_link.rs: update-policy replaces what the policy channel holds.
ReceiveUpdate(w) ==
    /\ sup[w].connected /\ sup[w].commands # <<>>
    /\ sup' = [sup EXCEPT ![w].commands = Tail(@), ![w].offered = Head(sup[w].commands)]
    /\ UNCHANGED <<dirVars, dbVars, callVars, controller, workloads, active, reconciled, historyVars>>

\* runner.rs: the policy is applied, checkpointed and observed.
ApplyPolicy(w) ==
    /\ sup[w].offered # None
    /\ sup' = [sup EXCEPT ![w].applied = sup[w].offered, ![w].offered = None,
                          ![w].acks = Append(@, sup[w].offered)]
    /\ UNCHANGED <<dirVars, dbVars, callVars, controller, workloads, active, reconciled, historyVars>>

MutAnyAcknowledgement(w, ack) == active[w] # None /\ active[w].policy_sync_pending

\* policy-applied is about the policy that was asked for last.
Acknowledges(w, ack) ==
    active[w] # None /\ active[w].policy_sync_pending /\ ack = active[w].policy

RecordPolicyApplied(w) ==
    /\ sup[w].connected /\ sup[w].acks # <<>>
    /\ sup' = [sup EXCEPT ![w].acks = Tail(@)]
    /\ active' = IF Acknowledges(w, Head(sup[w].acks))
                 THEN [active EXCEPT ![w].policy_sync_pending = FALSE] ELSE active
    /\ UNCHANGED <<dirVars, dbVars, callVars, controller, workloads, reconciled, historyVars>>

Disconnect(w) ==
    /\ Fault /\ sup[w].connected
    /\ \E ended \in BOOLEAN : sup' = [sup EXCEPT ![w] = Broken(sup[w], ended)]
    /\ UNCHANGED <<dirVars, dbVars, callVars, controller, workloads, active, reconciled,
                   policies, replaced, reloads, starts>>

\* A supervisor dies; its successor has the snapshot's policy, the journal and a
\* new link.
ReplaceSupervisor(w) ==
    /\ Fault /\ controller = "serving" /\ active[w] # None
    /\ sup' = [sup EXCEPT ![w] = [NoSupervisor EXCEPT !.applied = executions[w].policy,
                                                      !.acks = sup[w].acks]]
    /\ replaced' = replaced \cup {w}
    /\ UNCHANGED <<dirVars, dbVars, callVars, controller, workloads, active, reconciled,
                   policies, reloads, starts>>

EditFile(w) ==
    /\ \E content \in Editable[w] : Edit(w, content)
    /\ UNCHANGED <<dbVars, callVars, controller, workloads, active, sup, reconciled, historyVars>>

SupervisorStep(w) == Attach(w) \/ ReceiveUpdate(w) \/ ApplyPolicy(w) \/ RecordPolicyApplied(w)

Next ==
    \/ CallReload \/ Open \/ Crash
    \/ \E c \in Calls : ReloadStep(c)
    \/ \E w \in Workloads :
          \/ Start(w) \/ Finish(w) \/ SupervisorStep(w)
          \/ Disconnect(w) \/ ReplaceSupervisor(w) \/ EditFile(w)

Spec == Init /\ [][Next]_vars

\* The calls go on, the host restarts a controller, a link that has not ended
\* attaches again and serves its connection.  All these steps come to an end, so
\* it is enough that one is taken while there is one to take.
Fairness == WF_vars(\/ Open \/ \E c \in Calls : ReloadStep(c)
                    \/ \E w \in Workloads : SupervisorStep(w))

FairSpec == Spec /\ Fairness

-----------------------------------------------------------------------------
(* Properties. *)

\* status tells of a definition that has changed under a running process
\* (manager.rs:1426): after any successful reload since the controller began,
\* restart_required is set exactly when the definition in memory is not the one
\* the process runs, and a missing definition asks for nothing.
RestartFlagAccurate ==
    reconciled => \A w \in Workloads : active[w] # None =>
        (active[w].restart_required <=>
            /\ workloads[w].definition # Absent
            /\ workloads[w].definition.process # executions[w].process)

\* The policy came back to one it had left during this execution.
Recurs(w) == ~IsInjective(policies[w])

\* The update of w cannot be relied on: see the README.
Excepted(w) == Recurs(w) \/ w \in replaced

\* No acknowledgement of an older update passes for the newest one
\* (manager.rs:785): when status shows no pending update, the supervisor has
\* applied the policy of the definition in memory.
AcknowledgedIsApplied ==
    reconciled => \A w \in Workloads :
        active[w] # None /\ workloads[w].definition # Absent
            /\ ~active[w].policy_sync_pending /\ ~Excepted(w)
        => sup[w].applied = workloads[w].definition.policy

\* The supervisor of w lacks the accepted policy, and its link has not ended.
Owed(w) ==
    LET d == IF controller = "down" THEN stored[w].definition ELSE workloads[w].definition IN
    /\ Running(w) /\ sup[w].linked /\ d # Absent /\ ~Excepted(w)
    /\ controller = "serving" => reconciled
    /\ sup[w].applied # d.policy

=============================================================================
