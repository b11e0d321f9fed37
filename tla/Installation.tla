----------------------------- MODULE Installation -----------------------------
(***************************************************************************)
(* One user's installation: the version directories, the selection record, *)
(* the stable CLI copy and the pins, as the commands `susm install`,       *)
(* `upgrade`, `rollback`, `upgrade gc` and `uninstall` change them         *)
(* (cli/src/installer.rs, cli/src/main.rs), the host runner that launches  *)
(* what is selected (host/src/launcher.rs), and the controller that pins   *)
(* the build of every execution it starts (controller/src/manager.rs).     *)
(*                                                                         *)
(* Nothing locks the installation, so commands interleave file by file and *)
(* each may stop anywhere, by an error or by being killed.                 *)
(*                                                                         *)
(* Abstractions.  A version is its manifest identity; its bundle is valid, *)
(* and a file is there with its declared bytes or it is not.  Listing a    *)
(* directory is one step, and so are checking one version's files and      *)
(* replacing a file atomically.  A runner that is told to end its session  *)
(* ends its controller at once; HostSessions has the details.              *)
(***************************************************************************)
EXTENDS Naturals, Sequences

CONSTANTS
  Versions,   \* version-identity names
  First,      \* the version that may be selected at the start
  Commands,   \* runs of the susm executable
  Execs,      \* executions
  Absent,     \* a directory that does not exist
  None,       \* no version, no command
  MaxFaults   \* bound: commands that fail or are killed, controllers that exit

VARIABLES
  dirs,       \* below versions\: dirs[v] the files of v, dirs[p] those of p's staging directory
  selection,  \* current.susm-install: the version it names and, as history, the command that wrote it
  bin,        \* the version of bin\susm.exe
  pins,       \* pins\<version>\: executions with a pin file
  cmd,        \* the commands
  host,       \* the runner: where it is, the version it launches, Restart commands on its channel
  exec,       \* executions: where each is, its build, and whether the build was sound when pinned
  faults      \* number of failures so far

vars == <<dirs, selection, bin, pins, cmd, host, exec, faults>>

\* The files of a bundle in the order validate_and_install writes them.
FileOrder == <<"manifest", "susm", "susmd", "supervisor">>
Files == {FileOrder[i] : i \in 1 .. Len(FileOrder)}
Directories == Versions \cup Commands

ASSUME InstallationAssumption ==
  /\ First \in Versions /\ MaxFaults \in Nat
  /\ Versions \cap Commands = {} /\ None \notin Directories
  /\ \A S \in SUBSET Files : S # Absent

Idle == [op |-> "none", place |-> "new", version |-> None, copied |-> 0, current |-> None,
         todo |-> {}, victim |-> None, quiet |-> TRUE]
NewExec == [place |-> "new", build |-> None, sound |-> FALSE]

Command == [op : {"none", "install", "upgrade", "rollback", "gc", "uninstall"},
            place : {"new", "source", "final", "copy", "publish", "select", "cli", "host",
                     "gc", "unregister", "unlink", "done", "failed"},
            version : Versions \cup {None}, copied : 0 .. Len(FileOrder),
            current : Versions \cup {None}, todo : SUBSET Directories,
            victim : Directories \cup {None}, quiet : BOOLEAN]

TypeOK ==
  /\ dirs \in [Directories -> {Absent} \cup SUBSET Files]
  /\ selection \in [version : Versions \cup {None}, by : Commands \cup {None}]
  /\ bin \in Versions \cup {None}
  /\ pins \in [Versions -> SUBSET Execs]
  /\ cmd \in [Commands -> Command]
  /\ host \in [place : {"none", "choose", "launch", "run"}, version : Versions \cup {None},
               restarts : Nat]
  /\ exec \in [Execs -> [place : {"new", "pinned", "active", "finished", "gone"},
                         build : Versions \cup {None}, sound : BOOLEAN]]
  /\ faults \in 0 .. MaxFaults

-----------------------------------------------------------------------------
\* Nothing installed and the user unregistered, or First selected, registered
\* and installed, perhaps with other versions.
Init ==
  /\ \E installed \in {{}} \cup {V \in SUBSET Versions : First \in V} :
       /\ dirs = [d \in Directories |-> IF d \in installed THEN Files ELSE Absent]
       /\ selection = [version |-> IF installed = {} THEN None ELSE First, by |-> None]
       /\ bin = selection.version
       /\ host = [place |-> IF installed = {} THEN "none" ELSE "choose", version |-> None,
                  restarts |-> 0]
  /\ pins = [v \in Versions |-> {}]
  /\ cmd = [p \in Commands |-> Idle]
  /\ exec = [e \in Execs |-> NewExec]
  /\ faults = 0

At(p, place) == cmd[p].place = place
Goto(p, place) == cmd' = [cmd EXCEPT ![p].place = place]
Complete(d) == dirs[d] = Files
Has(d, f) == dirs[d] # Absent /\ f \in dirs[d]
Collecting(p) == cmd[p].op = "gc" /\ cmd[p].place = "gc"
\* The part of an installing command that a collection must not overlap.
Choosing == {"source", "final", "copy", "publish", "select"}

-----------------------------------------------------------------------------
(* install, upgrade and rollback *)

\* list_versions
Installed(v) == dirs[v] # Absent

\* The command is given a bundle; rollback takes its bundle from an installed
\* directory.  quiet is history: no collection runs before the selection.
Begin(p, op, v) ==
  /\ At(p, "new")
  /\ op = "rollback" => Installed(v)
  /\ cmd' = [cmd EXCEPT ![p] = [Idle EXCEPT !.op = op, !.place = "source", !.version = v,
                                            !.quiet = \A q \in Commands : ~Collecting(q)]]
  /\ UNCHANGED <<dirs, selection, bin, pins, host, exec, faults>>

\* The directory the bundle's files are read from still has this file.
Readable(p, f) == cmd[p].op = "rollback" => Has(cmd[p].version, f)

ValidateSource(p) ==
  /\ At(p, "source")
  /\ \A f \in Files : Readable(p, f)
  /\ Goto(p, "final")
  /\ UNCHANGED <<dirs, selection, bin, pins, host, exec, faults>>

MutReuseUnchecked(p) ==
  /\ At(p, "final")
  /\ dirs[cmd[p].version] # Absent
  /\ Goto(p, "select")
  /\ UNCHANGED <<dirs, selection, bin, pins, host, exec, faults>>

\* final_path is a directory: validate_installed_directory.
Reuse(p) ==
  /\ At(p, "final")
  /\ Complete(cmd[p].version)
  /\ Goto(p, "select")
  /\ UNCHANGED <<dirs, selection, bin, pins, host, exec, faults>>

CreateStaging(p) ==
  /\ At(p, "final")
  /\ dirs[cmd[p].version] = Absent
  /\ dirs' = [dirs EXCEPT ![p] = {}]
  /\ Goto(p, "copy")
  /\ UNCHANGED <<selection, bin, pins, host, exec, faults>>

\* The manifest is written from memory, the executables are copied.
Copyable(p) ==
  /\ dirs[p] # Absent
  /\ cmd[p].copied = 0 \/ Readable(p, FileOrder[cmd[p].copied + 1])

CopyFile(p) ==
  LET n == cmd[p].copied + 1 IN
  /\ At(p, "copy")
  /\ Copyable(p)
  /\ dirs' = [dirs EXCEPT ![p] = @ \cup {FileOrder[n]}]
  /\ cmd' = [cmd EXCEPT ![p].copied = n,
                        ![p].place = IF n = Len(FileOrder) THEN "publish" ELSE "copy"]
  /\ UNCHANGED <<selection, bin, pins, host, exec, faults>>

\* The staging directory is renamed; the final path must not exist.
Publish(p) ==
  /\ At(p, "publish")
  /\ dirs[p] # Absent /\ dirs[cmd[p].version] = Absent
  /\ dirs' = [dirs EXCEPT ![p] = Absent, ![cmd[p].version] = dirs[p]]
  /\ Goto(p, "select")
  /\ UNCHANGED <<selection, bin, pins, host, exec, faults>>

Select(p) ==
  /\ At(p, "select")
  /\ selection' = [version |-> cmd[p].version, by |-> p]
  /\ Goto(p, "cli")
  /\ UNCHANGED <<dirs, bin, pins, host, exec, faults>>

CopyCli(p) ==
  /\ At(p, "cli")
  /\ Has(cmd[p].version, "susm")
  /\ bin' = cmd[p].version
  /\ Goto(p, "host")
  /\ UNCHANGED <<dirs, selection, pins, host, exec, faults>>

\* install registers the user, and so starts a runner where there is none;
\* upgrade and rollback have the runner restart the controller.
CallHost(p) ==
  /\ At(p, "host")
  /\ \/ /\ cmd[p].op = "install"
        /\ host' = IF host.place = "none" THEN [host EXCEPT !.place = "choose"] ELSE host
     \/ /\ cmd[p].op \in {"upgrade", "rollback"}
        /\ host.place # "none"
        /\ host' = [host EXCEPT !.restarts = @ + 1]
  /\ Goto(p, "done")
  /\ UNCHANGED <<dirs, selection, bin, pins, exec, faults>>

-----------------------------------------------------------------------------
(* upgrade gc *)

\* The selection is read and the directories are listed.
BeginCollect(p) ==
  /\ At(p, "new")
  /\ cmd' = [q \in Commands |->
       IF q = p THEN [Idle EXCEPT !.op = "gc", !.place = "gc", !.current = selection.version,
                                  !.todo = {d \in DOMAIN dirs : dirs[d] # Absent}]
       ELSE [cmd[q] EXCEPT !.quiet = @ /\ cmd[q].place \notin Choosing]]
  /\ UNCHANGED <<dirs, selection, bin, pins, host, exec, faults>>

\* directory_entry_count of the version's pin directory
Pinned(v) == pins[v] # {}

MutIgnorePins(p, v) == v = cmd[p].current

Kept(p, v) == v = cmd[p].current \/ Pinned(v)

Keep(p, v) ==
  /\ Collecting(p) /\ cmd[p].victim = None
  /\ v \in cmd[p].todo \cap Versions
  /\ Kept(p, v)
  /\ cmd' = [cmd EXCEPT ![p].todo = @ \ {v}]
  /\ UNCHANGED <<dirs, selection, bin, pins, host, exec, faults>>

\* A staging directory, or a version that is neither current nor pinned and
\* whose files are as the manifest says.
Collectable(p, d) == d \in Versions => ~Kept(p, d) /\ Complete(d)

Condemn(p, d) ==
  /\ Collecting(p) /\ cmd[p].victim = None
  /\ d \in cmd[p].todo
  /\ dirs[d] # Absent /\ Collectable(p, d)
  /\ cmd' = [cmd EXCEPT ![p].todo = @ \ {d}, ![p].victim = d]
  /\ UNCHANGED <<dirs, selection, bin, pins, host, exec, faults>>

\* Windows does not delete the image of a running process.
InUse(d, f) == host.place = "run" /\ host.version = d /\ f = "susmd"

\* remove_dir_all.
RemoveFile(p, f) ==
  LET d == cmd[p].victim IN
  /\ Collecting(p) /\ d # None
  /\ Has(d, f) /\ ~InUse(d, f)
  /\ dirs' = [dirs EXCEPT ![d] = @ \ {f}]
  /\ UNCHANGED <<selection, bin, pins, cmd, host, exec, faults>>

\* With the directory goes the version's pin directory, which must be empty.
RemoveDirectory(p) ==
  LET d == cmd[p].victim IN
  /\ Collecting(p) /\ d # None
  /\ dirs[d] = {}
  /\ dirs' = [dirs EXCEPT ![d] = Absent]
  /\ cmd' = [cmd EXCEPT ![p].victim = None,
                        ![p].place = IF d \in Versions /\ Pinned(d) THEN "failed" ELSE "gc"]
  /\ UNCHANGED <<selection, bin, pins, host, exec, faults>>

EndCollect(p) ==
  /\ Collecting(p) /\ cmd[p].victim = None /\ cmd[p].todo = {}
  /\ Goto(p, "done")
  /\ UNCHANGED <<dirs, selection, bin, pins, host, exec, faults>>

-----------------------------------------------------------------------------
(* uninstall, and commands that stop *)

BeginUninstall(p) ==
  /\ At(p, "new")
  /\ cmd' = [cmd EXCEPT ![p] = [Idle EXCEPT !.op = "uninstall", !.place = "unregister"]]
  /\ UNCHANGED <<dirs, selection, bin, pins, host, exec, faults>>

\* An execution that was pinned but not yet recorded dies with its controller.
ControllerGone == [e \in Execs |-> IF exec[e].place = "pinned" THEN [exec[e] EXCEPT !.place = "gone"]
                                   ELSE exec[e]]

Unregister(p) ==
  /\ At(p, "unregister")
  /\ host' = [place |-> "none", version |-> None, restarts |-> 0]
  /\ exec' = ControllerGone
  /\ Goto(p, "unlink")
  /\ UNCHANGED <<dirs, selection, bin, pins, faults>>

RemoveCli(p) ==
  /\ At(p, "unlink")
  /\ bin' = None
  /\ Goto(p, "done")
  /\ UNCHANGED <<dirs, selection, pins, host, exec, faults>>

\* A file that is missing or broken, or a final path that appeared, is an
\* error of the command.
Refused(p) ==
  LET v == cmd[p].version
      d == cmd[p].victim IN
  \/ At(p, "source") /\ \E f \in Files : ~Readable(p, f)
  \/ At(p, "final") /\ dirs[v] # Absent /\ ~Complete(v)
  \/ At(p, "copy") /\ ~Copyable(p)
  \/ At(p, "publish") /\ (dirs[p] = Absent \/ dirs[v] # Absent)
  \/ At(p, "cli") /\ ~Has(v, "susm")
  \/ At(p, "host") /\ cmd[p].op # "install" /\ host.place = "none"
  \/ /\ Collecting(p) /\ d = None
     /\ \E t \in cmd[p].todo : dirs[t] = Absent \/ (t \in Versions /\ ~Kept(p, t) /\ ~Complete(t))
  \/ /\ Collecting(p) /\ d # None
     /\ dirs[d] # Absent => \E f \in dirs[d] : InUse(d, f)

Refuse(p) ==
  /\ Refused(p)
  /\ Goto(p, "failed")
  /\ UNCHANGED <<dirs, selection, bin, pins, host, exec, faults>>

\* An I/O error, or the command is killed: what it wrote stays.
Stop(p) ==
  /\ cmd[p].place \notin {"new", "done", "failed"}
  /\ faults < MaxFaults
  /\ faults' = faults + 1
  /\ Goto(p, "failed")
  /\ UNCHANGED <<dirs, selection, bin, pins, host, exec>>

-----------------------------------------------------------------------------
(* The host's runner *)

\* selected_controller: the manifest and susmd.exe of the selected version.
Launchable(v) == v # None /\ Has(v, "manifest") /\ Has(v, "susmd")

HostChooses ==
  /\ host.place = "choose"
  /\ Launchable(selection.version)
  /\ host' = [host EXCEPT !.place = "launch", !.version = selection.version]
  /\ UNCHANGED <<dirs, selection, bin, pins, cmd, exec, faults>>

\* CreateProcess needs the file; without it the runner waits and chooses again.
HostLaunches ==
  /\ host.place = "launch"
  /\ host' = IF Launchable(host.version) THEN [host EXCEPT !.place = "run"]
             ELSE [host EXCEPT !.place = "choose", !.version = None]
  /\ UNCHANGED <<dirs, selection, bin, pins, cmd, exec, faults>>

MutChosenOnce ==
  /\ host.place \in {"run", "choose"}
  /\ host.restarts > 0
  /\ host' = [host EXCEPT !.place = IF host.version = None THEN "choose" ELSE "launch",
                          !.restarts = @ - 1]
  /\ exec' = ControllerGone
  /\ UNCHANGED <<dirs, selection, bin, pins, cmd, faults>>

\* A Restart ends the controller, or the delay before the next launch.
HostRestarts ==
  /\ host.place \in {"run", "choose"}
  /\ host.restarts > 0
  /\ host' = [place |-> "choose", version |-> None, restarts |-> host.restarts - 1]
  /\ exec' = ControllerGone
  /\ UNCHANGED <<dirs, selection, bin, pins, cmd, faults>>

ControllerExits ==
  /\ host.place = "run"
  /\ faults < MaxFaults
  /\ faults' = faults + 1
  /\ host' = [host EXCEPT !.place = "choose", !.version = None]
  /\ exec' = ControllerGone
  /\ UNCHANGED <<dirs, selection, bin, pins, cmd>>

-----------------------------------------------------------------------------
(* Executions of the controller *)

\* prepare_execution_build: a new execution uses the supervisor beside the
\* running controller, and pins that version.  sound is history: the version
\* is whole and no collection, running or failed half-way, has condemned it.
Pin(e) ==
  /\ host.place = "run"
  /\ exec[e].place = "new"
  /\ exec' = [exec EXCEPT ![e] =
       [place |-> "pinned", build |-> host.version,
        sound |-> Complete(host.version) /\ \A p \in Commands : cmd[p].victim # host.version]]
  /\ pins' = [pins EXCEPT ![host.version] = @ \cup {e}]
  /\ UNCHANGED <<dirs, selection, bin, cmd, host, faults>>

\* The row is inserted, from which the execution is recovered.
Insert(e) ==
  /\ host.place = "run"
  /\ exec[e].place = "pinned"
  /\ exec' = [exec EXCEPT ![e].place = "active"]
  /\ UNCHANGED <<dirs, selection, bin, pins, cmd, host, faults>>

\* The insertion fails, or the workload is not to start after all.
Withdraw(e) ==
  /\ host.place = "run"
  /\ exec[e].place = "pinned"
  /\ exec' = [exec EXCEPT ![e].place = "gone"]
  /\ pins' = [pins EXCEPT ![exec[e].build] = @ \ {e}]
  /\ UNCHANGED <<dirs, selection, bin, cmd, host, faults>>

\* The terminal row is committed.
Finish(e) ==
  /\ host.place = "run"
  /\ exec[e].place = "active"
  /\ exec' = [exec EXCEPT ![e].place = "finished"]
  /\ UNCHANGED <<dirs, selection, bin, pins, cmd, host, faults>>

\* The controller or the supervisor removes the pin file.
Unpin(e) ==
  /\ exec[e].place = "finished"
  /\ exec' = [exec EXCEPT ![e].place = "gone"]
  /\ pins' = [pins EXCEPT ![exec[e].build] = @ \ {e}]
  /\ UNCHANGED <<dirs, selection, bin, cmd, host, faults>>

-----------------------------------------------------------------------------
Install(p) ==
  \/ \E op \in {"install", "upgrade", "rollback"}, v \in Versions : Begin(p, op, v)
  \/ ValidateSource(p) \/ Reuse(p) \/ CreateStaging(p) \/ CopyFile(p) \/ Publish(p)
  \/ Select(p) \/ CopyCli(p) \/ CallHost(p)

Collect(p) ==
  \/ BeginCollect(p) \/ EndCollect(p) \/ RemoveDirectory(p)
  \/ \E v \in Versions : Keep(p, v)
  \/ \E d \in DOMAIN dirs : Condemn(p, d)
  \/ \E f \in Files : RemoveFile(p, f)

Uninstall(p) == BeginUninstall(p) \/ Unregister(p) \/ RemoveCli(p)

Host == HostChooses \/ HostLaunches \/ HostRestarts

Execution(e) == Pin(e) \/ Insert(e) \/ Withdraw(e) \/ Finish(e) \/ Unpin(e)

Next ==
  \/ \E p \in Commands : Install(p) \/ Collect(p) \/ Uninstall(p) \/ Refuse(p) \/ Stop(p)
  \/ Host \/ ControllerExits
  \/ \E e \in Execs : Execution(e)

Spec == Init /\ [][Next]_vars

\* The runner's thread runs, and reads its channel every 250 ms.
FairSpec == Spec /\ WF_vars(HostChooses) /\ WF_vars(HostLaunches) /\ WF_vars(HostRestarts)

-----------------------------------------------------------------------------
(* Properties. *)

\* The selection record names a version with all its files, wherever earlier
\* commands stopped and whatever they left (installer.rs:264, 279): a broken
\* directory is never selected, and a collection never takes the selected one.
\* Excepted is a selection made while a collection ran: garbage_collect reads
\* the selection once (installer.rs:183).
SelectedIsComplete ==
  selection.by # None /\ cmd[selection.by].quiet => Complete(selection.version)

\* The build of an execution that can be recovered stays, for a replacement of
\* its supervisor is launched from it (protocol.md:87): upgrades, rollbacks and
\* collections leave it alone.  Excepted is a build that was broken when the
\* execution pinned it, or already condemned by a collection, one that failed
\* before it removed anything included (installer.rs:198, manager.rs:1325).
PinnedIsKept ==
  \A e \in Execs : exec[e].place = "active" /\ exec[e].sound => Complete(exec[e].build)

\* After an upgrade or a rollback that reported success the host comes to run
\* the version it selected (main.rs:263, launcher.rs:392), unless another
\* command selects, breaks or unregisters it.
SelectedRuns ==
  \A p \in Commands :
    (cmd[p].op \in {"upgrade", "rollback"} /\ At(p, "done") /\ selection.by = p)
      ~> \/ host.place = "run" /\ host.version = selection.version
         \/ selection.by # p \/ host.place = "none" \/ ~Launchable(selection.version)
=============================================================================
