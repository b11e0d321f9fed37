-------------------------- MODULE InstallationProofs --------------------------
(***************************************************************************)
(* For any versions, commands, executions and number of failures, the      *)
(* selected version is whole and the build of an execution that can be     *)
(* recovered stays, with the exceptions the properties name.               *)
(*                                                                         *)
(* The argument: only a collection makes a directory smaller, and only the *)
(* one it has condemned.  An installation that no collection overlaps has  *)
(* its staging directory to itself and selects a version that is whole;    *)
(* every collection that begins later reads that selection and spares it.  *)
(* A pinned build is spared by every collection that looks at it after the *)
(* pin was made, and the pin stays as long as the execution is live.       *)
(***************************************************************************)
EXTENDS Installation, TLAPS

\* The first n files of a bundle.
Prefix(n) == {FileOrder[i] : i \in 1 .. n}

\* Where a command is after its selection.
Selected == {"cli", "host", "done", "failed"}

\* What holds of command p with the locals c when the directories are ds: a
\* collection does not condemn what it read as selected; an installation that
\* no collection overlaps has what it copied, and then a whole version.
CommandInv(p, c, ds) ==
  /\ c.place \in Choosing \cup {"cli", "host"} => c.version \in Versions
  /\ c.place \in {"source", "final"} => c.copied = 0
  /\ c.place = "copy" => c.copied < Len(FileOrder)
  /\ c.place = "gc" /\ c.victim # None => c.victim # c.current
  /\ c.quiet /\ c.place = "copy" => ds[p] = Prefix(c.copied)
  /\ c.quiet /\ c.place = "publish" => ds[p] = Files
  /\ c.quiet /\ c.place = "select" => ds[c.version] = Files

CommandsInv == \A p \in Commands : CommandInv(p, cmd[p], dirs)

\* quiet means what it says.
QuietInv ==
  \A p \in Commands : cmd[p].quiet /\ cmd[p].place \in Choosing => \A q \in Commands : ~Collecting(q)

\* A selection without overlap: the version is whole, and every collection
\* that runs has read this selection.
SelectionInv ==
  selection.by # None =>
    /\ selection.version \in Versions
    /\ cmd[selection.by].place \in Selected
    /\ cmd[selection.by].quiet =>
         /\ Complete(selection.version)
         /\ \A p \in Commands : Collecting(p) => cmd[p].current = selection.version

HostInv == host.place \in {"launch", "run"} => host.version \in Versions

\* A build that was sound when it was pinned: it is whole and pinned, and no
\* collection is removing it.
BuildInv(e) ==
  /\ exec[e].place \in {"pinned", "active", "finished"} => exec[e].build \in Versions
  /\ exec[e].place \in {"pinned", "active"} /\ exec[e].sound =>
       /\ Complete(exec[e].build)
       /\ e \in pins[exec[e].build]
       /\ \A p \in Commands : Collecting(p) => cmd[p].victim # exec[e].build

PinInv == \A e \in Execs : BuildInv(e)

IInv == TypeOK /\ CommandsInv /\ QuietInv /\ SelectionInv /\ HostInv /\ PinInv

-----------------------------------------------------------------------------
(* Facts about the files of a bundle *)

LEMMA BundleFiles ==
  /\ Len(FileOrder) = 4
  /\ \A i \in 1 .. 4 : FileOrder[i] \in Files
  /\ "susm" \in Files /\ Absent # Files /\ Absent # {} /\ {} # Files
  /\ None \notin Versions /\ None \notin Commands
BY InstallationAssumption DEF FileOrder, Files, Directories

LEMMA Prefixes ==
  /\ Prefix(0) = {} /\ Prefix(4) = Files
  /\ \A n \in 0 .. 3 : Prefix(n + 1) = Prefix(n) \cup {FileOrder[n + 1]}
<1>1. Prefix(0) = {}  BY DEF Prefix
<1>2. Prefix(4) = Files  BY BundleFiles DEF Prefix, Files
<1>3. ASSUME NEW n \in 0 .. 3 PROVE Prefix(n + 1) = Prefix(n) \cup {FileOrder[n + 1]}
  <2>1. 1 .. (n + 1) = (1 .. n) \cup {n + 1}  BY <1>3
  <2>2. QED  BY <2>1 DEF Prefix
<1>4. QED  BY <1>1, <1>2, <1>3

\* A directory is a version's or a command's, never both.
LEMMA DirectoryNames ==
  /\ Versions \subseteq Directories /\ Commands \subseteq Directories
  /\ \A v \in Versions : v \notin Commands
BY InstallationAssumption DEF Directories

-----------------------------------------------------------------------------
(* Steps of one command *)

\* Executions only vanish.
ExecsVanish == \A e \in Execs : exec'[e] = exec[e] \/ exec'[e].place = "gone"

\* What a step of p does to the directories: its own staging directory, a
\* version that is not whole, and what it has condemned may change.
MayChange(p) ==
  \A d \in Directories : \/ dirs'[d] = dirs[d]
                         \/ d = p
                         \/ d \in Versions /\ dirs[d] # Files
                         \/ Collecting(p) /\ cmd[p].victim = d

\* Command p may go on with the locals c: it chooses without overlap only if
\* it did before or no collection runs; it collects only what it read before,
\* and condemns nothing that is pinned; after its selection it stays there.
MayBecome(p, c) ==
  /\ c.quiet /\ c.place \in Choosing => \A q \in Commands : ~Collecting(q)
  /\ c.place = "gc" =>
       /\ Collecting(p)
       /\ c.current = cmd[p].current
       /\ c.victim # cmd[p].victim /\ c.victim \in Versions => pins[c.victim] = {}
  /\ cmd[p].place \in Selected => c.place \in Selected /\ c.quiet = cmd[p].quiet

LEMMA OneCommand ==
  ASSUME IInv, NEW p \in Commands, NEW c \in Command,
         cmd' = [cmd EXCEPT ![p] = c], UNCHANGED <<selection, pins>>,
         ExecsVanish, MayChange(p), CommandInv(p, c, dirs'), MayBecome(p, c)
  PROVE  cmd' \in [Commands -> Command] /\ CommandsInv' /\ QuietInv' /\ SelectionInv' /\ PinInv'
<1>1. cmd \in [Commands -> Command]  BY DEF IInv, TypeOK
<1>2. cmd' \in [Commands -> Command]  BY <1>1
<1>3. \A q \in Commands : cmd'[q] = IF q = p THEN c ELSE cmd[q]  BY <1>1
<1>4. ASSUME NEW q \in Commands PROVE CommandInv(q, cmd'[q], dirs')
  <2>1. CASE q = p  BY <1>3, <2>1
  <2>2. CASE q # p
    <3>1. cmd'[q] = cmd[q]  BY <1>3, <2>2
    <3>2. CommandInv(q, cmd[q], dirs)  BY DEF IInv, CommandsInv
    <3>3. cmd[q].quiet /\ cmd[q].place \in Choosing => ~Collecting(p)
      BY DEF IInv, QuietInv
    <3>4. ASSUME cmd[q].quiet, cmd[q].place \in Choosing PROVE dirs'[q] = dirs[q]
      BY <2>2, <3>3, <3>4, DirectoryNames DEF MayChange
    <3>5. ASSUME cmd[q].quiet, cmd[q].place = "select" PROVE dirs'[cmd[q].version] = Files
      <4>1. cmd[q].version \in Versions /\ dirs[cmd[q].version] = Files
        BY <3>2, <3>5 DEF CommandInv, Choosing
      <4>2. ~Collecting(p)  BY <3>3, <3>5 DEF Choosing
      <4>3. QED  BY <4>1, <4>2, DirectoryNames DEF MayChange
    <3>6. CommandInv(q, cmd[q], dirs')
      BY <3>2, <3>4, <3>5 DEF CommandInv, Choosing
    <3>7. QED  BY <3>1, <3>6
  <2>3. QED  BY <2>1, <2>2
<1>5. CommandsInv'  BY <1>4 DEF CommandsInv
<1>6. \A q \in Commands : Collecting(q)' =>
        /\ Collecting(q)
        /\ cmd'[q].current = cmd[q].current
        /\ cmd'[q].victim # cmd[q].victim /\ cmd'[q].victim \in Versions => pins[cmd'[q].victim] = {}
  BY <1>3 DEF Collecting, MayBecome
<1>7. QuietInv'
  BY <1>3, <1>6 DEF IInv, QuietInv, MayBecome
<1>8. SelectionInv'
  <2> SUFFICES ASSUME selection.by # None
               PROVE  SelectionInv'
    BY DEF SelectionInv
  <2>1. selection.by \in Commands  BY DEF IInv, TypeOK
  <2>2. selection.version \in Versions /\ cmd[selection.by].place \in Selected
    BY DEF IInv, SelectionInv
  <2>3. cmd'[selection.by].place \in Selected /\ cmd'[selection.by].quiet = cmd[selection.by].quiet
    BY <1>3, <2>1, <2>2 DEF MayBecome
  <2>4. ASSUME cmd[selection.by].quiet PROVE dirs'[selection.version] = Files
    <3>1. /\ dirs[selection.version] = Files
          /\ Collecting(p) => cmd[p].current = selection.version
      BY <2>4 DEF IInv, SelectionInv, Complete
    <3>2. Collecting(p) => cmd[p].victim # selection.version
      <4>1. CommandInv(p, cmd[p], dirs)  BY DEF IInv, CommandsInv
      <4>2. QED  BY <2>2, <3>1, <4>1, BundleFiles DEF CommandInv, Collecting
    <3>3. QED  BY <2>2, <3>1, <3>2, DirectoryNames DEF MayChange
  <2>5. QED  BY <1>6, <2>1, <2>2, <2>3, <2>4 DEF IInv, SelectionInv, Complete
<1>9. PinInv'
  <2> SUFFICES ASSUME NEW e \in Execs PROVE BuildInv(e)'
    BY DEF PinInv
  <2>1. CASE exec'[e].place = "gone"  BY <2>1 DEF BuildInv
  <2>2. CASE exec'[e] = exec[e]
    <3>1. BuildInv(e)  BY DEF IInv, PinInv
    <3>2. ASSUME exec[e].place \in {"pinned", "active"}, exec[e].sound
          PROVE  dirs'[exec[e].build] = Files
      <4>1. /\ exec[e].build \in Versions /\ dirs[exec[e].build] = Files
            /\ Collecting(p) => cmd[p].victim # exec[e].build
        BY <3>1, <3>2 DEF BuildInv, Complete
      <4>2. QED  BY <4>1, DirectoryNames DEF MayChange
    <3>3. QED  BY <1>6, <2>2, <3>1, <3>2 DEF BuildInv, Complete
  <2>3. QED  BY <2>1, <2>2 DEF ExecsVanish
<1>10. QED  BY <1>2, <1>5, <1>7, <1>8, <1>9

\* The same for a step that leaves the directories alone.
LEMMA LocalStep ==
  ASSUME IInv, NEW p \in Commands, NEW c \in Command,
         cmd' = [cmd EXCEPT ![p] = c], UNCHANGED <<dirs, selection, pins>>,
         ExecsVanish, CommandInv(p, c, dirs), MayBecome(p, c)
  PROVE  cmd' \in [Commands -> Command] /\ CommandsInv' /\ QuietInv' /\ SelectionInv' /\ PinInv'
<1>1. MayChange(p)  BY DEF MayChange
<1>2. CommandInv(p, c, dirs')  OBVIOUS
<1>3. QED  BY <1>1, <1>2, OneCommand

\* A command goes to another place with the same locals.
LEMMA GotoStep ==
  ASSUME IInv, NEW p \in Commands, NEW place \in {"final", "select", "host", "unlink", "done", "failed"},
         Goto(p, place), UNCHANGED <<dirs, selection, pins>>, ExecsVanish,
         place = "final" => At(p, "source"),
         place = "select" => At(p, "final") /\ Complete(cmd[p].version),
         place = "host" => At(p, "cli"),
         place = "unlink" => At(p, "unregister")
  PROVE  cmd' \in [Commands -> Command] /\ CommandsInv' /\ QuietInv' /\ SelectionInv' /\ PinInv'
<1> DEFINE c == [cmd[p] EXCEPT !.place = place]
<1>1. cmd \in [Commands -> Command] /\ cmd[p] \in Command  BY DEF IInv, TypeOK
<1>2. c \in Command /\ cmd' = [cmd EXCEPT ![p] = c]  BY <1>1 DEF Command, Goto
<1>3. /\ c.place = place /\ c.quiet = cmd[p].quiet /\ c.version = cmd[p].version
      /\ c.copied = cmd[p].copied
  BY <1>1 DEF Command
<1>4. CommandInv(p, cmd[p], dirs)  BY DEF IInv, CommandsInv
<1> HIDE DEF c
<1>5. CommandInv(p, c, dirs)
  BY <1>3, <1>4 DEF CommandInv, At, Choosing, Complete
<1>6. cmd[p].quiet /\ cmd[p].place \in Choosing => \A q \in Commands : ~Collecting(q)
  BY DEF IInv, QuietInv
<1>7. MayBecome(p, c)
  BY <1>3, <1>6 DEF MayBecome, At, Choosing, Selected
<1>8. QED  BY <1>2, <1>5, <1>7, LocalStep

\* What is neither a directory nor a command stays typed.
LEMMA SameFilesTyped ==
  ASSUME IInv, cmd' \in [Commands -> Command],
         UNCHANGED <<dirs, selection, bin, pins, exec, faults>>,
         host' \in [place : {"none", "choose", "launch", "run"}, version : Versions \cup {None},
                    restarts : Nat]
  PROVE  TypeOK'
BY DEF IInv, TypeOK

LEMMA IdleTyped == Idle \in Command
<1>1. 0 \in 0 .. Len(FileOrder)  BY BundleFiles
<1>2. QED  BY <1>1 DEF Idle, Command

\* Begin, BeginCollect and BeginUninstall replace all the locals of a command.
LEMMA BeginStep ==
  ASSUME IInv, NEW p \in Commands, NEW op \in {"install", "upgrade", "rollback"},
         NEW v \in Versions, Begin(p, op, v)
  PROVE  IInv'
<1> DEFINE c == [Idle EXCEPT !.op = op, !.place = "source", !.version = v,
                             !.quiet = \A q \in Commands : ~Collecting(q)]
<1>1. /\ c.place = "source" /\ c.version = v /\ c.copied = 0 /\ c.victim = None
      /\ c.quiet = \A q \in Commands : ~Collecting(q)
  BY DEF Idle
<1>2. c \in Command
  <2>1. ASSUME NEW b \in BOOLEAN
        PROVE  [Idle EXCEPT !.op = op, !.place = "source", !.version = v, !.quiet = b] \in Command
    BY IdleTyped DEF Command
  <2>2. CASE \A q \in Commands : ~Collecting(q)  BY <2>1, <2>2
  <2>3. CASE ~ \A q \in Commands : ~Collecting(q)  BY <2>1, <2>3
  <2>4. QED  BY <2>2, <2>3
<1>3. /\ cmd' = [cmd EXCEPT ![p] = c] /\ At(p, "new")
      /\ UNCHANGED <<dirs, selection, bin, pins, host, exec, faults>>
  BY DEF Begin
<1> HIDE DEF c
<1>4. ExecsVanish  BY <1>3 DEF ExecsVanish
<1>5. CommandInv(p, c, dirs)  BY <1>1 DEF CommandInv
<1>6. MayBecome(p, c)  BY <1>1, <1>3 DEF MayBecome, At, Selected, Choosing
<1>7. cmd' \in [Commands -> Command] /\ CommandsInv' /\ QuietInv' /\ SelectionInv' /\ PinInv'
  BY <1>2, <1>3, <1>4, <1>5, <1>6, LocalStep
<1>8. host' \in [place : {"none", "choose", "launch", "run"}, version : Versions \cup {None},
                 restarts : Nat]
  BY <1>3 DEF IInv, TypeOK
<1>9. TypeOK'  BY <1>3, <1>7, <1>8, SameFilesTyped
<1>10. HostInv'  BY <1>3 DEF IInv, HostInv
<1>11. QED  BY <1>7, <1>9, <1>10 DEF IInv

LEMMA BeginUninstallStep ==
  ASSUME IInv, NEW p \in Commands, BeginUninstall(p)
  PROVE  IInv'
<1> DEFINE c == [Idle EXCEPT !.op = "uninstall", !.place = "unregister"]
<1>1. c.place = "unregister"
  BY DEF Idle
<1>2. c \in Command  BY IdleTyped DEF Command
<1>3. /\ cmd' = [cmd EXCEPT ![p] = c] /\ At(p, "new")
      /\ UNCHANGED <<dirs, selection, bin, pins, host, exec, faults>>
  BY DEF BeginUninstall
<1> HIDE DEF c
<1>4. ExecsVanish  BY <1>3 DEF ExecsVanish
<1>5. CommandInv(p, c, dirs)  BY <1>1 DEF CommandInv, Choosing
<1>6. MayBecome(p, c)  BY <1>1, <1>3 DEF MayBecome, At, Selected, Choosing
<1>7. cmd' \in [Commands -> Command] /\ CommandsInv' /\ QuietInv' /\ SelectionInv' /\ PinInv'
  BY <1>2, <1>3, <1>4, <1>5, <1>6, LocalStep
<1>8. host' \in [place : {"none", "choose", "launch", "run"}, version : Versions \cup {None},
                 restarts : Nat]
  BY <1>3 DEF IInv, TypeOK
<1>9. TypeOK'  BY <1>3, <1>7, <1>8, SameFilesTyped
<1>10. HostInv'  BY <1>3 DEF IInv, HostInv
<1>11. QED  BY <1>7, <1>9, <1>10 DEF IInv

\* Steps that only move a command.
LEMMA MoveStep ==
  ASSUME IInv, NEW p \in Commands,
         ValidateSource(p) \/ Reuse(p) \/ EndCollect(p) \/ Refuse(p)
  PROVE  IInv'
<1>1. UNCHANGED <<dirs, selection, bin, pins, host, exec, faults>>
  BY DEF ValidateSource, Reuse, EndCollect, Refuse
<1>2. ExecsVanish  BY <1>1 DEF ExecsVanish
<1>3. cmd' \in [Commands -> Command] /\ CommandsInv' /\ QuietInv' /\ SelectionInv' /\ PinInv'
  <2>1. CASE ValidateSource(p)  BY <1>1, <1>2, <2>1, GotoStep DEF ValidateSource
  <2>2. CASE Reuse(p)  BY <1>1, <1>2, <2>2, GotoStep DEF Reuse
  <2>3. CASE EndCollect(p)  BY <1>1, <1>2, <2>3, GotoStep DEF EndCollect
  <2>4. CASE Refuse(p)  BY <1>1, <1>2, <2>4, GotoStep DEF Refuse
  <2>5. QED  BY <2>1, <2>2, <2>3, <2>4
<1>4. host' \in [place : {"none", "choose", "launch", "run"}, version : Versions \cup {None},
                 restarts : Nat]
  BY <1>1 DEF IInv, TypeOK
<1>5. TypeOK'  BY <1>1, <1>3, <1>4, SameFilesTyped
<1>6. HostInv'  BY <1>1 DEF IInv, HostInv
<1>7. QED  BY <1>3, <1>5, <1>6 DEF IInv

LEMMA StopStep ==
  ASSUME IInv, NEW p \in Commands, Stop(p)
  PROVE  IInv'
<1>1. UNCHANGED <<dirs, selection, bin, pins, host, exec>>  BY DEF Stop
<1>2. ExecsVanish  BY <1>1 DEF ExecsVanish
<1>3. cmd' \in [Commands -> Command] /\ CommandsInv' /\ QuietInv' /\ SelectionInv' /\ PinInv'
  BY <1>1, <1>2, GotoStep DEF Stop
<1>4. faults' \in 0 .. MaxFaults
  BY InstallationAssumption DEF IInv, TypeOK, Stop
<1>5. TypeOK'  BY <1>1, <1>3, <1>4 DEF IInv, TypeOK
<1>6. HostInv'  BY <1>1 DEF IInv, HostInv
<1>7. QED  BY <1>3, <1>5, <1>6 DEF IInv

LEMMA CopyCliStep ==
  ASSUME IInv, NEW p \in Commands, CopyCli(p) \/ RemoveCli(p)
  PROVE  IInv'
<1>1. UNCHANGED <<dirs, selection, pins, host, exec, faults>>  BY DEF CopyCli, RemoveCli
<1>2. ExecsVanish  BY <1>1 DEF ExecsVanish
<1>3. cmd' \in [Commands -> Command] /\ CommandsInv' /\ QuietInv' /\ SelectionInv' /\ PinInv'
  <2>1. CASE CopyCli(p)  BY <1>1, <1>2, <2>1, GotoStep DEF CopyCli
  <2>2. CASE RemoveCli(p)  BY <1>1, <1>2, <2>2, GotoStep DEF RemoveCli
  <2>3. QED  BY <2>1, <2>2
<1>4. cmd[p] \in Command  BY DEF IInv, TypeOK
<1>5. bin' \in Versions \cup {None}
  BY <1>4 DEF Command, CopyCli, RemoveCli
<1>6. TypeOK'  BY <1>1, <1>3, <1>5 DEF IInv, TypeOK
<1>7. HostInv'  BY <1>1 DEF IInv, HostInv
<1>8. QED  BY <1>3, <1>6, <1>7 DEF IInv

LEMMA CallHostStep ==
  ASSUME IInv, NEW p \in Commands, CallHost(p)
  PROVE  IInv'
<1>1. UNCHANGED <<dirs, selection, bin, pins, exec, faults>>  BY DEF CallHost
<1>2. ExecsVanish  BY <1>1 DEF ExecsVanish
<1>3. cmd' \in [Commands -> Command] /\ CommandsInv' /\ QuietInv' /\ SelectionInv' /\ PinInv'
  BY <1>1, <1>2, GotoStep DEF CallHost
<1>4. host \in [place : {"none", "choose", "launch", "run"}, version : Versions \cup {None},
                restarts : Nat]
  BY DEF IInv, TypeOK
<1>5. /\ host' \in [place : {"none", "choose", "launch", "run"}, version : Versions \cup {None},
                    restarts : Nat]
      /\ host'.version = host.version
      /\ host'.place = host.place \/ host'.place = "choose"
  BY <1>4 DEF CallHost
<1>6. TypeOK'  BY <1>1, <1>3, <1>5, SameFilesTyped
<1>7. HostInv'  BY <1>5 DEF IInv, HostInv
<1>8. QED  BY <1>3, <1>6, <1>7 DEF IInv

\* The controller ends: executions that were not recorded vanish.
LEMMA ControllerEnds ==
  ASSUME IInv, exec' = ControllerGone
  PROVE  /\ ExecsVanish
         /\ exec' \in [Execs -> [place : {"new", "pinned", "active", "finished", "gone"},
                                 build : Versions \cup {None}, sound : BOOLEAN]]
<1>1. exec \in [Execs -> [place : {"new", "pinned", "active", "finished", "gone"},
                          build : Versions \cup {None}, sound : BOOLEAN]]
  BY DEF IInv, TypeOK
<1>2. QED  BY <1>1 DEF ControllerGone, ExecsVanish

LEMMA UnregisterStep ==
  ASSUME IInv, NEW p \in Commands, Unregister(p)
  PROVE  IInv'
<1>1. /\ UNCHANGED <<dirs, selection, bin, pins, faults>> /\ exec' = ControllerGone
      /\ host' = [place |-> "none", version |-> None, restarts |-> 0]
  BY DEF Unregister
<1>2. cmd' \in [Commands -> Command] /\ CommandsInv' /\ QuietInv' /\ SelectionInv' /\ PinInv'
  BY <1>1, ControllerEnds, GotoStep DEF Unregister
<1>3. TypeOK'  BY <1>1, <1>2, ControllerEnds DEF IInv, TypeOK
<1>4. HostInv'  BY <1>1 DEF HostInv
<1>5. QED  BY <1>2, <1>3, <1>4 DEF IInv

\* A collection goes through its list.
LEMMA ListStep ==
  ASSUME IInv, NEW p \in Commands, NEW d \in Directories,
         (d \in Versions /\ Keep(p, d)) \/ Condemn(p, d)
  PROVE  IInv'
<1>1. cmd[p] \in Command /\ cmd \in [Commands -> Command]  BY DEF IInv, TypeOK
<1>2. /\ Collecting(p) /\ cmd[p].victim = None
      /\ UNCHANGED <<dirs, selection, bin, pins, host, exec, faults>>
  BY DEF Keep, Condemn
<1>3. PICK c \in Command :
        /\ cmd' = [cmd EXCEPT ![p] = c]
        /\ c.place = "gc" /\ c.current = cmd[p].current /\ c.quiet = cmd[p].quiet
        /\ \/ c.victim = None
           \/ c.victim = d /\ Collectable(p, d)
  <2>1. CASE Keep(p, d)
    <3> DEFINE k == [cmd[p] EXCEPT !.todo = @ \ {d}]
    <3>1. k \in Command  BY <1>1 DEF Command
    <3>2. /\ k.place = "gc" /\ k.current = cmd[p].current /\ k.quiet = cmd[p].quiet
          /\ k.victim = None
      BY <1>1, <1>2 DEF Command, Collecting
    <3>3. cmd' = [cmd EXCEPT ![p] = k]  BY <2>1, <1>1 DEF Keep
    <3> HIDE DEF k
    <3>4. QED  BY <3>1, <3>2, <3>3
  <2>2. CASE Condemn(p, d)
    <3> DEFINE k == [cmd[p] EXCEPT !.todo = @ \ {d}, !.victim = d]
    <3>1. k \in Command  BY <1>1 DEF Command
    <3>2. /\ k.place = "gc" /\ k.current = cmd[p].current /\ k.quiet = cmd[p].quiet
          /\ k.victim = d
      BY <1>1, <1>2 DEF Command, Collecting
    <3>3. cmd' = [cmd EXCEPT ![p] = k] /\ Collectable(p, d)  BY <2>2, <1>1 DEF Condemn
    <3> HIDE DEF k
    <3>4. QED  BY <3>1, <3>2, <3>3
  <2>3. QED  BY <2>1, <2>2
<1>4. c.victim \in Versions => c.victim # c.current /\ pins[c.victim] = {}
  BY <1>2, <1>3, BundleFiles DEF Collectable, Kept, Pinned
<1>5. c.victim # None => c.victim # c.current
  <2>1. cmd[p].current \in Versions \cup {None}  BY <1>1 DEF Command
  <2>2. QED  BY <1>3, <1>4, <2>1
<1>6. ExecsVanish  BY <1>2 DEF ExecsVanish
<1>7. CommandInv(p, c, dirs)  BY <1>3, <1>5 DEF CommandInv, Choosing
<1>8. MayBecome(p, c)
  BY <1>2, <1>3, <1>4 DEF MayBecome, Collecting, Selected, Choosing
<1>9. cmd' \in [Commands -> Command] /\ CommandsInv' /\ QuietInv' /\ SelectionInv' /\ PinInv'
  BY <1>2, <1>3, <1>6, <1>7, <1>8, LocalStep
<1>10. host' \in [place : {"none", "choose", "launch", "run"}, version : Versions \cup {None},
                 restarts : Nat]
  BY <1>2 DEF IInv, TypeOK
<1>11. TypeOK'  BY <1>2, <1>9, <1>10, SameFilesTyped
<1>12. HostInv'  BY <1>2 DEF IInv, HostInv
<1>13. QED  BY <1>9, <1>11, <1>12 DEF IInv

\* A new collection reads the selection, and ends the quiet of the commands
\* that are choosing.
LEMMA BeginCollectStep ==
  ASSUME IInv, NEW p \in Commands, BeginCollect(p)
  PROVE  IInv'
<1> DEFINE c == [Idle EXCEPT !.op = "gc", !.place = "gc", !.current = selection.version,
                             !.todo = {d \in DOMAIN dirs : dirs[d] # Absent}]
           other(q) == [cmd[q] EXCEPT !.quiet = @ /\ cmd[q].place \notin Choosing]
<1>1. /\ cmd \in [Commands -> Command] /\ DOMAIN dirs = Directories
      /\ selection.version \in Versions \cup {None} /\ selection.by \in Commands \cup {None}
  BY DEF IInv, TypeOK
<1>2. /\ cmd' = [q \in Commands |-> IF q = p THEN c ELSE other(q)] /\ At(p, "new")
      /\ UNCHANGED <<dirs, selection, bin, pins, host, exec, faults>>
  BY DEF BeginCollect
<1>3. c \in Command  BY <1>1, IdleTyped DEF Command
<1>4. c.place = "gc" /\ c.victim = None /\ c.current = selection.version  BY DEF Idle
<1>5. ASSUME NEW q \in Commands
      PROVE  /\ other(q) \in Command /\ other(q).place = cmd[q].place /\ other(q).op = cmd[q].op
             /\ other(q).version = cmd[q].version /\ other(q).copied = cmd[q].copied
             /\ other(q).victim = cmd[q].victim /\ other(q).current = cmd[q].current
             /\ other(q).quiet <=> cmd[q].quiet /\ cmd[q].place \notin Choosing
  <2>1. cmd[q] \in Command  BY <1>1
  <2>2. (cmd[q].quiet /\ cmd[q].place \notin Choosing) \in BOOLEAN  OBVIOUS
  <2>3. QED  BY <2>1, <2>2 DEF Command
<1> HIDE DEF c, other
<1>6. cmd' \in [Commands -> Command]  BY <1>2, <1>3, <1>5
<1>7. cmd'[p] = c /\ \A q \in Commands \ {p} : cmd'[q] = other(q)  BY <1>2
<1>8. CommandsInv'
  <2> SUFFICES ASSUME NEW q \in Commands PROVE CommandInv(q, cmd'[q], dirs)
    BY <1>2 DEF CommandsInv
  <2>1. CASE q = p  BY <1>4, <1>7, <2>1 DEF CommandInv, Choosing
  <2>2. CASE q # p
    <3>1. CommandInv(q, cmd[q], dirs)  BY DEF IInv, CommandsInv
    <3>2. QED  BY <1>5, <1>7, <2>2, <3>1 DEF CommandInv
  <2>3. QED  BY <2>1, <2>2
<1>9. QuietInv'  BY <1>4, <1>5, <1>7 DEF QuietInv, Choosing
<1>10. SelectionInv'
  <2> SUFFICES ASSUME selection.by # None PROVE SelectionInv'
    BY <1>2 DEF SelectionInv
  <2>1. selection.by \in Commands /\ selection.by # p
    BY <1>1, <1>2 DEF IInv, SelectionInv, At, Selected
  <2>2. /\ cmd'[selection.by].place = cmd[selection.by].place
        /\ cmd'[selection.by].quiet => cmd[selection.by].quiet
    BY <1>5, <1>7, <2>1
  <2>3. ASSUME NEW q \in Commands, Collecting(q)'
        PROVE  \/ cmd'[q].current = selection.version
               \/ Collecting(q) /\ cmd'[q].current = cmd[q].current
    <3>1. CASE q = p  BY <1>4, <1>7, <3>1
    <3>2. CASE q # p
      <4>1. cmd'[q] = other(q)  BY <1>7, <3>2
      <4>2. QED  BY <1>5, <2>3, <4>1 DEF Collecting
    <3>3. QED  BY <3>1, <3>2
  <2>4. QED  BY <1>2, <2>2, <2>3 DEF IInv, SelectionInv, Complete
<1>11. PinInv'
  <2> SUFFICES ASSUME NEW e \in Execs PROVE BuildInv(e)'
    BY DEF PinInv
  <2>1. BuildInv(e)  BY DEF IInv, PinInv
  <2>2. ASSUME NEW q \in Commands, Collecting(q)'
        PROVE  \/ cmd'[q].victim = None
               \/ Collecting(q) /\ cmd'[q].victim = cmd[q].victim
    <3>1. CASE q = p  BY <1>4, <1>7, <3>1
    <3>2. CASE q # p
      <4>1. cmd'[q] = other(q)  BY <1>7, <3>2
      <4>2. QED  BY <1>5, <2>2, <4>1 DEF Collecting
    <3>3. QED  BY <3>1, <3>2
  <2>3. QED  BY <1>2, <2>1, <2>2, BundleFiles DEF BuildInv, Complete
<1>12. host' \in [place : {"none", "choose", "launch", "run"}, version : Versions \cup {None},
                 restarts : Nat]
  BY <1>2 DEF IInv, TypeOK
<1>13. TypeOK'  BY <1>2, <1>6, <1>12, SameFilesTyped
<1>14. HostInv'  BY <1>2 DEF IInv, HostInv
<1>15. QED  BY <1>8, <1>9, <1>10, <1>11, <1>13, <1>14 DEF IInv

\* A selection that no collection overlapped is of a whole version, and no
\* collection runs that could have read an earlier one.
LEMMA SelectStep ==
  ASSUME IInv, NEW p \in Commands, Select(p)
  PROVE  IInv'
<1> DEFINE c == [cmd[p] EXCEPT !.place = "cli"]
<1>1. cmd \in [Commands -> Command] /\ cmd[p] \in Command  BY DEF IInv, TypeOK
<1>2. /\ selection' = [version |-> cmd[p].version, by |-> p] /\ At(p, "select")
      /\ cmd' = [cmd EXCEPT ![p] = c]
      /\ UNCHANGED <<dirs, bin, pins, host, exec, faults>>
  BY <1>1 DEF Select, Goto
<1>3. /\ c \in Command /\ c.place = "cli" /\ c.version = cmd[p].version
      /\ c.quiet = cmd[p].quiet
  BY <1>1 DEF Command
<1> HIDE DEF c
<1>4. cmd' \in [Commands -> Command]  BY <1>1, <1>2, <1>3
<1>5. cmd'[p] = c /\ \A q \in Commands \ {p} : cmd'[q] = cmd[q]  BY <1>1, <1>2
<1>6. CommandInv(p, cmd[p], dirs) /\ cmd[p].version \in Versions
  BY <1>2 DEF IInv, CommandsInv, CommandInv, At, Choosing
<1>7. CommandsInv'
  <2> SUFFICES ASSUME NEW q \in Commands PROVE CommandInv(q, cmd'[q], dirs)
    BY <1>2 DEF CommandsInv
  <2>1. CASE q = p  BY <1>3, <1>5, <1>6, <2>1 DEF CommandInv
  <2>2. CASE q # p  BY <1>5, <2>2 DEF IInv, CommandsInv
  <2>3. QED  BY <2>1, <2>2
<1>8. \A q \in Commands : Collecting(q)' => Collecting(q) /\ cmd'[q] = cmd[q]
  BY <1>3, <1>5 DEF Collecting
<1>9. QuietInv'  BY <1>3, <1>5, <1>8 DEF IInv, QuietInv, Choosing
<1>10. cmd[p].quiet => dirs[cmd[p].version] = Files /\ \A q \in Commands : ~Collecting(q)
  BY <1>2, <1>6 DEF IInv, QuietInv, CommandInv, At, Choosing
<1>11. selection'.version = cmd[p].version /\ selection'.by = p  BY <1>2
<1>12. SelectionInv'
  BY <1>2, <1>3, <1>5, <1>6, <1>8, <1>10, <1>11 DEF SelectionInv, Complete, Selected
<1>13. PinInv'
  <2> SUFFICES ASSUME NEW e \in Execs PROVE BuildInv(e)'
    BY DEF PinInv
  <2>1. BuildInv(e)  BY DEF IInv, PinInv
  <2>2. QED  BY <1>2, <1>8, <2>1 DEF BuildInv, Complete
<1>14. selection' \in [version : Versions \cup {None}, by : Commands \cup {None}]
  BY <1>2, <1>6
<1>15. TypeOK'  BY <1>2, <1>4, <1>14 DEF IInv, TypeOK
<1>16. HostInv'  BY <1>2 DEF IInv, HostInv
<1>17. QED  BY <1>7, <1>9, <1>12, <1>13, <1>15, <1>16 DEF IInv

-----------------------------------------------------------------------------
(* Steps that change a directory *)

LEMMA CreateStagingStep ==
  ASSUME IInv, NEW p \in Commands, CreateStaging(p)
  PROVE  IInv'
<1> DEFINE c == [cmd[p] EXCEPT !.place = "copy"]
<1>1. /\ cmd \in [Commands -> Command] /\ cmd[p] \in Command
      /\ dirs \in [Directories -> {Absent} \cup SUBSET Files] /\ p \in Directories
  BY DirectoryNames DEF IInv, TypeOK
<1>2. /\ At(p, "final") /\ dirs' = [dirs EXCEPT ![p] = {}] /\ cmd' = [cmd EXCEPT ![p] = c]
      /\ UNCHANGED <<selection, bin, pins, host, exec, faults>>
  BY <1>1 DEF CreateStaging, Goto
<1>3. /\ c \in Command /\ c.place = "copy" /\ c.version = cmd[p].version
      /\ c.quiet = cmd[p].quiet /\ c.copied = cmd[p].copied
  BY <1>1 DEF Command
<1> HIDE DEF c
<1>4. dirs'[p] = {} /\ \A d \in Directories \ {p} : dirs'[d] = dirs[d]  BY <1>1, <1>2
<1>5. CommandInv(p, cmd[p], dirs)  BY DEF IInv, CommandsInv
<1>6. cmd[p].copied = 0 /\ cmd[p].version \in Versions
  BY <1>2, <1>5 DEF CommandInv, At, Choosing
<1>7. CommandInv(p, c, dirs')
  BY <1>3, <1>4, <1>6, BundleFiles, Prefixes DEF CommandInv
<1>8. cmd[p].quiet => \A q \in Commands : ~Collecting(q)
  BY <1>2 DEF IInv, QuietInv, At, Choosing
<1>9. MayBecome(p, c)  BY <1>2, <1>3, <1>8 DEF MayBecome, At, Selected
<1>10. MayChange(p)  BY <1>4 DEF MayChange
<1>11. ExecsVanish  BY <1>2 DEF ExecsVanish
<1>12. cmd' \in [Commands -> Command] /\ CommandsInv' /\ QuietInv' /\ SelectionInv' /\ PinInv'
  BY <1>2, <1>3, <1>7, <1>9, <1>10, <1>11, OneCommand
<1>13. dirs' \in [Directories -> {Absent} \cup SUBSET Files]  BY <1>1, <1>2
<1>14. TypeOK'  BY <1>2, <1>12, <1>13 DEF IInv, TypeOK
<1>15. HostInv'  BY <1>2 DEF IInv, HostInv
<1>16. QED  BY <1>12, <1>14, <1>15 DEF IInv

LEMMA CopyFileStep ==
  ASSUME IInv, NEW p \in Commands, CopyFile(p)
  PROVE  IInv'
<1> DEFINE n == cmd[p].copied + 1
           place == IF n = Len(FileOrder) THEN "publish" ELSE "copy"
           c == [cmd[p] EXCEPT !.copied = n, !.place = place]
           files == dirs[p] \cup {FileOrder[n]}
<1>1. /\ cmd \in [Commands -> Command] /\ cmd[p] \in Command
      /\ dirs \in [Directories -> {Absent} \cup SUBSET Files] /\ p \in Directories
  BY DirectoryNames DEF IInv, TypeOK
<1>2. CommandInv(p, cmd[p], dirs)  BY DEF IInv, CommandsInv
<1>3. /\ At(p, "copy") /\ dirs[p] # Absent
      /\ dirs' = [dirs EXCEPT ![p] = files]
      /\ cmd' = [cmd EXCEPT ![p] = c]
      /\ UNCHANGED <<selection, bin, pins, host, exec, faults>>
  BY <1>1 DEF CopyFile, Copyable
<1>4. cmd[p].copied \in 0 .. 3 /\ cmd[p].version \in Versions /\ n \in 1 .. 4
  <2>1. cmd[p].copied \in 0 .. 4  BY <1>1, BundleFiles DEF Command
  <2>2. cmd[p].copied < 4  BY <1>2, <1>3, BundleFiles DEF CommandInv, At
  <2>3. cmd[p].version \in Versions  BY <1>2, <1>3 DEF CommandInv, At, Choosing
  <2>4. QED  BY <2>1, <2>2, <2>3
<1>5. /\ c \in Command /\ c.place = place /\ c.version = cmd[p].version
      /\ c.quiet = cmd[p].quiet /\ c.copied = n
  <2>1. place \in {"copy", "publish"} /\ n \in 0 .. Len(FileOrder)  BY <1>4, BundleFiles
  <2> HIDE DEF n, place
  <2>2. QED  BY <1>1, <2>1 DEF Command
<1>6. dirs'[p] = files /\ \A d \in Directories \ {p} : dirs'[d] = dirs[d]
  BY <1>1, <1>3
<1>7. cmd[p].quiet => files = Prefix(n)
  <2>1. cmd[p].quiet => dirs[p] = Prefix(cmd[p].copied)
    BY <1>2, <1>3 DEF CommandInv, At
  <2>2. QED  BY <1>4, <2>1, Prefixes
<1>8. place = IF n = 4 THEN "publish" ELSE "copy"  BY BundleFiles
<1>9. n = 4 => Prefix(n) = Files  BY Prefixes
<1> HIDE DEF c, place, files
<1>10. CommandInv(p, c, dirs')
  BY <1>4, <1>5, <1>6, <1>7, <1>8, <1>9, BundleFiles DEF CommandInv
<1>11. cmd[p].quiet => \A q \in Commands : ~Collecting(q)
  BY <1>3 DEF IInv, QuietInv, At, Choosing
<1>12. MayBecome(p, c)  BY <1>3, <1>5, <1>8, <1>11 DEF MayBecome, At, Selected
<1>13. MayChange(p)  BY <1>6 DEF MayChange
<1>14. ExecsVanish  BY <1>3 DEF ExecsVanish
<1>15. cmd' \in [Commands -> Command] /\ CommandsInv' /\ QuietInv' /\ SelectionInv' /\ PinInv'
  BY <1>3, <1>5, <1>10, <1>12, <1>13, <1>14, OneCommand
<1>16. files \in SUBSET Files  BY <1>1, <1>3, <1>4, BundleFiles DEF files
<1>17. dirs' \in [Directories -> {Absent} \cup SUBSET Files]  BY <1>1, <1>3, <1>16
<1>18. TypeOK'  BY <1>3, <1>15, <1>17 DEF IInv, TypeOK
<1>19. HostInv'  BY <1>3 DEF IInv, HostInv
<1>20. QED  BY <1>15, <1>18, <1>19 DEF IInv

\* The staging directory of an installation that was not disturbed is whole.
LEMMA PublishStep ==
  ASSUME IInv, NEW p \in Commands, Publish(p)
  PROVE  IInv'
<1> DEFINE c == [cmd[p] EXCEPT !.place = "select"]
           v == cmd[p].version
<1>1. /\ cmd \in [Commands -> Command] /\ cmd[p] \in Command
      /\ dirs \in [Directories -> {Absent} \cup SUBSET Files] /\ p \in Directories
  BY DirectoryNames DEF IInv, TypeOK
<1>2. /\ At(p, "publish") /\ dirs[v] = Absent
      /\ dirs' = [dirs EXCEPT ![p] = Absent, ![v] = dirs[p]]
      /\ cmd' = [cmd EXCEPT ![p] = c]
      /\ UNCHANGED <<selection, bin, pins, host, exec, faults>>
  BY <1>1 DEF Publish, Goto
<1>3. /\ c \in Command /\ c.place = "select" /\ c.version = v /\ c.quiet = cmd[p].quiet
  BY <1>1 DEF Command
<1>4. CommandInv(p, cmd[p], dirs)  BY DEF IInv, CommandsInv
<1>5. v \in Versions /\ v \in Directories /\ v # p
  BY <1>2, <1>4, DirectoryNames DEF CommandInv, At, Choosing
<1>6. cmd[p].quiet => dirs[p] = Files  BY <1>2, <1>4 DEF CommandInv, At
<1> HIDE DEF c, v
<1>7. dirs'[v] = dirs[p] /\ \A d \in Directories : d # p /\ d # v => dirs'[d] = dirs[d]
  BY <1>1, <1>2, <1>5
<1>8. CommandInv(p, c, dirs')  BY <1>3, <1>5, <1>6, <1>7 DEF CommandInv
<1>9. cmd[p].quiet => \A q \in Commands : ~Collecting(q)
  BY <1>2 DEF IInv, QuietInv, At, Choosing
<1>10. MayBecome(p, c)  BY <1>2, <1>3, <1>9 DEF MayBecome, At, Selected
<1>11. MayChange(p)  BY <1>2, <1>5, <1>7, BundleFiles DEF MayChange
<1>12. ExecsVanish  BY <1>2 DEF ExecsVanish
<1>13. cmd' \in [Commands -> Command] /\ CommandsInv' /\ QuietInv' /\ SelectionInv' /\ PinInv'
  BY <1>2, <1>3, <1>8, <1>10, <1>11, <1>12, OneCommand
<1>14. dirs' \in [Directories -> {Absent} \cup SUBSET Files]  BY <1>1, <1>2
<1>15. TypeOK'  BY <1>2, <1>13, <1>14 DEF IInv, TypeOK
<1>16. HostInv'  BY <1>2 DEF IInv, HostInv
<1>17. QED  BY <1>13, <1>15, <1>16 DEF IInv

LEMMA RemoveFileStep ==
  ASSUME IInv, NEW p \in Commands, NEW f \in Files, RemoveFile(p, f)
  PROVE  IInv'
<1> DEFINE d == cmd[p].victim
<1>1. /\ cmd \in [Commands -> Command] /\ cmd[p] \in Command
      /\ dirs \in [Directories -> {Absent} \cup SUBSET Files]
  BY DEF IInv, TypeOK
<1>2. /\ Collecting(p) /\ d # None /\ dirs[d] # Absent
      /\ dirs' = [dirs EXCEPT ![d] = dirs[d] \ {f}]
      /\ UNCHANGED <<selection, bin, pins, cmd, host, exec, faults>>
  BY DEF RemoveFile, Has
<1>3. d \in Directories  BY <1>1, <1>2 DEF Command
<1>4. cmd' = [cmd EXCEPT ![p] = cmd[p]]  BY <1>1, <1>2
<1>5. CommandInv(p, cmd[p], dirs)  BY DEF IInv, CommandsInv
<1>6. CommandInv(p, cmd[p], dirs')  BY <1>2, <1>5 DEF CommandInv, Collecting, Choosing
<1>7. MayBecome(p, cmd[p])  BY <1>2 DEF MayBecome, Collecting, Choosing
<1>8. MayChange(p)  BY <1>1, <1>2, <1>3 DEF MayChange
<1>9. ExecsVanish  BY <1>2 DEF ExecsVanish
<1>10. cmd' \in [Commands -> Command] /\ CommandsInv' /\ QuietInv' /\ SelectionInv' /\ PinInv'
  BY <1>1, <1>2, <1>4, <1>6, <1>7, <1>8, <1>9, OneCommand
<1>11. dirs[d] \ {f} \in SUBSET Files  BY <1>1, <1>2, <1>3
<1>12. dirs' \in [Directories -> {Absent} \cup SUBSET Files]  BY <1>1, <1>2, <1>11
<1>13. TypeOK'  BY <1>2, <1>12 DEF IInv, TypeOK
<1>14. HostInv'  BY <1>2 DEF IInv, HostInv
<1>15. QED  BY <1>10, <1>13, <1>14 DEF IInv

LEMMA RemoveDirectoryStep ==
  ASSUME IInv, NEW p \in Commands, RemoveDirectory(p)
  PROVE  IInv'
<1> DEFINE d == cmd[p].victim
           place == IF d \in Versions /\ Pinned(d) THEN "failed" ELSE "gc"
           c == [cmd[p] EXCEPT !.victim = None, !.place = place]
<1>1. /\ cmd \in [Commands -> Command] /\ cmd[p] \in Command
      /\ dirs \in [Directories -> {Absent} \cup SUBSET Files]
  BY DEF IInv, TypeOK
<1>2. /\ Collecting(p) /\ d # None
      /\ dirs' = [dirs EXCEPT ![d] = Absent] /\ cmd' = [cmd EXCEPT ![p] = c]
      /\ UNCHANGED <<selection, bin, pins, host, exec, faults>>
  BY <1>1 DEF RemoveDirectory
<1>3. place \in {"gc", "failed"}  OBVIOUS
<1> HIDE DEF place
<1>4. /\ c \in Command /\ c.place = place /\ c.victim = None /\ c.current = cmd[p].current
      /\ c.quiet = cmd[p].quiet
  BY <1>1, <1>3 DEF Command
<1> HIDE DEF c
<1>5. d \in Directories  BY <1>1, <1>2 DEF Command
<1>6. CommandInv(p, c, dirs')  BY <1>3, <1>4 DEF CommandInv, Choosing
<1>7. MayBecome(p, c)
  BY <1>2, <1>3, <1>4, BundleFiles DEF MayBecome, Collecting, Choosing, Selected
<1>8. MayChange(p)  BY <1>1, <1>2, <1>5 DEF MayChange
<1>9. ExecsVanish  BY <1>2 DEF ExecsVanish
<1>10. cmd' \in [Commands -> Command] /\ CommandsInv' /\ QuietInv' /\ SelectionInv' /\ PinInv'
  BY <1>2, <1>4, <1>6, <1>7, <1>8, <1>9, OneCommand
<1>11. dirs' \in [Directories -> {Absent} \cup SUBSET Files]  BY <1>1, <1>2
<1>12. TypeOK'  BY <1>2, <1>10, <1>11 DEF IInv, TypeOK
<1>13. HostInv'  BY <1>2 DEF IInv, HostInv
<1>14. QED  BY <1>10, <1>12, <1>13 DEF IInv

-----------------------------------------------------------------------------
(* The host and the executions *)

\* Nothing the commands do, and no directory or pin, changes.
LEMMA HostFrame ==
  ASSUME IInv, UNCHANGED <<dirs, selection, bin, pins, cmd>>, ExecsVanish
  PROVE  CommandsInv' /\ QuietInv' /\ SelectionInv' /\ PinInv'
<1>1. CommandsInv'  BY DEF IInv, CommandsInv
<1>2. QuietInv'  BY DEF IInv, QuietInv, Collecting
<1>3. SelectionInv'  BY DEF IInv, SelectionInv, Collecting, Complete
<1>4. PinInv'
  <2> SUFFICES ASSUME NEW e \in Execs PROVE BuildInv(e)'
    BY DEF PinInv
  <2>1. CASE exec'[e].place = "gone"  BY <2>1 DEF BuildInv
  <2>2. CASE exec'[e] = exec[e]
    <3>1. BuildInv(e)  BY DEF IInv, PinInv
    <3>2. QED  BY <2>2, <3>1 DEF BuildInv, Complete, Collecting
  <2>3. QED  BY <2>1, <2>2 DEF ExecsVanish
<1>5. QED  BY <1>1, <1>2, <1>3, <1>4

LEMMA HostStep ==
  ASSUME IInv, HostChooses \/ HostLaunches \/ HostRestarts \/ ControllerExits
  PROVE  IInv'
<1> DEFINE HostType == [place : {"none", "choose", "launch", "run"},
                        version : Versions \cup {None}, restarts : Nat]
<1>1. UNCHANGED <<dirs, selection, bin, pins, cmd>>
  BY DEF HostChooses, HostLaunches, HostRestarts, ControllerExits
<1>2. exec' = exec \/ exec' = ControllerGone
  BY DEF HostChooses, HostLaunches, HostRestarts, ControllerExits
<1>3. /\ ExecsVanish
      /\ exec' \in [Execs -> [place : {"new", "pinned", "active", "finished", "gone"},
                              build : Versions \cup {None}, sound : BOOLEAN]]
  <2>1. CASE exec' = exec  BY <2>1 DEF ExecsVanish, IInv, TypeOK
  <2>2. QED  BY <1>2, <2>1, ControllerEnds
<1>4. host \in HostType /\ selection.version \in Versions \cup {None}
  BY DEF IInv, TypeOK
<1>5. host' \in HostType /\ (host'.place \in {"launch", "run"} => host'.version \in Versions)
  <2>1. CASE HostChooses
    BY <1>4, <2>1 DEF HostChooses, Launchable
  <2>2. CASE HostLaunches
    BY <1>4, <2>2 DEF HostLaunches, IInv, HostInv
  <2>3. CASE HostRestarts
    BY <1>4, <2>3 DEF HostRestarts
  <2>4. CASE ControllerExits
    BY <1>4, <2>4 DEF ControllerExits
  <2>5. QED  BY <2>1, <2>2, <2>3, <2>4
<1>6. faults' \in 0 .. MaxFaults
  BY InstallationAssumption
     DEF IInv, TypeOK, HostChooses, HostLaunches, HostRestarts, ControllerExits
<1>7. TypeOK'  BY <1>1, <1>3, <1>5, <1>6 DEF IInv, TypeOK
<1>8. HostInv'  BY <1>5 DEF HostInv
<1>9. QED  BY <1>1, <1>3, <1>7, <1>8, HostFrame DEF IInv

\* An execution e takes a step: the other pins stay.
LEMMA ExecFrame ==
  ASSUME IInv, NEW e \in Execs, NEW x \in [place : {"new", "pinned", "active", "finished", "gone"},
                                           build : Versions \cup {None}, sound : BOOLEAN],
         exec' = [exec EXCEPT ![e] = x],
         UNCHANGED <<dirs, selection, bin, cmd, host, faults>>,
         pins' \in [Versions -> SUBSET Execs],
         \A v \in Versions : pins[v] \ {e} \subseteq pins'[v],
         BuildInv(e)'
  PROVE  IInv'
<1>1. exec \in [Execs -> [place : {"new", "pinned", "active", "finished", "gone"},
                          build : Versions \cup {None}, sound : BOOLEAN]]
  BY DEF IInv, TypeOK
<1>2. TypeOK'  BY <1>1 DEF IInv, TypeOK
<1>3. CommandsInv' /\ QuietInv' /\ SelectionInv' /\ HostInv'
  <2>1. CommandsInv'  BY DEF IInv, CommandsInv
  <2>2. QuietInv'  BY DEF IInv, QuietInv, Collecting
  <2>3. SelectionInv'  BY DEF IInv, SelectionInv, Collecting, Complete
  <2>4. HostInv'  BY DEF IInv, HostInv
  <2>5. QED  BY <2>1, <2>2, <2>3, <2>4
<1>4. PinInv'
  <2> SUFFICES ASSUME NEW y \in Execs, y # e PROVE BuildInv(y)'
    BY DEF PinInv
  <2>1. exec'[y] = exec[y]  BY <1>1
  <2>2. BuildInv(y)  BY DEF IInv, PinInv
  <2>3. QED  BY <2>1, <2>2 DEF BuildInv, Complete, Collecting
<1>5. QED  BY <1>2, <1>3, <1>4 DEF IInv

LEMMA PinStep ==
  ASSUME IInv, NEW e \in Execs, Pin(e)
  PROVE  IInv'
<1> DEFINE v == host.version
           x == [place |-> "pinned", build |-> v,
                 sound |-> Complete(v) /\ \A p \in Commands : cmd[p].victim # v]
<1>1. /\ pins \in [Versions -> SUBSET Execs]
      /\ exec \in [Execs -> [place : {"new", "pinned", "active", "finished", "gone"},
                             build : Versions \cup {None}, sound : BOOLEAN]]
  BY DEF IInv, TypeOK
<1>2. /\ exec' = [exec EXCEPT ![e] = x] /\ pins' = [pins EXCEPT ![v] = @ \cup {e}]
      /\ UNCHANGED <<dirs, selection, bin, cmd, host, faults>> /\ host.place = "run"
  BY DEF Pin
<1>3. v \in Versions  BY <1>2 DEF IInv, HostInv
<1>4. /\ x \in [place : {"new", "pinned", "active", "finished", "gone"},
                build : Versions \cup {None}, sound : BOOLEAN]
      /\ x.build = v
      /\ x.sound => dirs[v] = Files /\ \A p \in Commands : cmd[p].victim # v
  BY <1>3 DEF Complete
<1> HIDE DEF x, v
<1>5. /\ pins' \in [Versions -> SUBSET Execs] /\ e \in pins'[v]
      /\ \A w \in Versions : pins[w] \ {e} \subseteq pins'[w]
  BY <1>1, <1>2, <1>3
<1>6. exec'[e] = x  BY <1>1, <1>2
<1>7. BuildInv(e)'  BY <1>2, <1>3, <1>4, <1>5, <1>6 DEF BuildInv, Complete
<1>8. QED  BY <1>2, <1>4, <1>5, <1>7, ExecFrame

\* Insert and Finish leave the pin, Withdraw and Unpin take it.
LEMMA ProgressStep ==
  ASSUME IInv, NEW e \in Execs, Insert(e) \/ Withdraw(e) \/ Finish(e) \/ Unpin(e)
  PROVE  IInv'
<1>1. /\ pins \in [Versions -> SUBSET Execs]
      /\ exec \in [Execs -> [place : {"new", "pinned", "active", "finished", "gone"},
                             build : Versions \cup {None}, sound : BOOLEAN]]
  BY DEF IInv, TypeOK
<1>2. UNCHANGED <<dirs, selection, bin, cmd, host, faults>>
  BY DEF Insert, Withdraw, Finish, Unpin
<1>3. PICK place \in {"active", "finished", "gone"} :
        /\ exec' = [exec EXCEPT ![e].place = place]
        /\ place = "active" => exec[e].place = "pinned" /\ pins' = pins
        /\ place = "finished" => exec[e].place = "active" /\ pins' = pins
        /\ place = "gone" => /\ exec[e].place \in {"pinned", "finished"}
                             /\ pins' = [pins EXCEPT ![exec[e].build] = @ \ {e}]
  <2>1. CASE Insert(e)  BY <2>1 DEF Insert
  <2>2. CASE Withdraw(e)  BY <2>2 DEF Withdraw
  <2>3. CASE Finish(e)  BY <2>3 DEF Finish
  <2>4. CASE Unpin(e)  BY <2>4 DEF Unpin
  <2>5. QED  BY <2>1, <2>2, <2>3, <2>4
<1> DEFINE x == [exec[e] EXCEPT !.place = place]
<1>4. /\ x \in [place : {"new", "pinned", "active", "finished", "gone"},
                build : Versions \cup {None}, sound : BOOLEAN]
      /\ x.place = place /\ x.build = exec[e].build /\ x.sound = exec[e].sound
      /\ exec' = [exec EXCEPT ![e] = x]
  BY <1>1, <1>3
<1> HIDE DEF x
<1>5. exec'[e] = x  BY <1>1, <1>4
<1>6. BuildInv(e)  BY DEF IInv, PinInv
<1>7. exec[e].build \in Versions  BY <1>3, <1>6 DEF BuildInv
<1>8. /\ pins' \in [Versions -> SUBSET Execs]
      /\ \A w \in Versions : pins[w] \ {e} \subseteq pins'[w]
  BY <1>1, <1>3, <1>7
<1>9. BuildInv(e)'
  BY <1>2, <1>3, <1>4, <1>5, <1>6, <1>7 DEF BuildInv, Complete, Collecting
<1>10. QED  BY <1>2, <1>4, <1>8, <1>9, ExecFrame

-----------------------------------------------------------------------------
(* The theorems *)

LEMMA InitialInv == Init => IInv
<1> SUFFICES ASSUME Init PROVE IInv
  OBVIOUS
<1>1. PICK installed \in {{}} \cup {V \in SUBSET Versions : First \in V} :
        /\ dirs = [d \in Directories |-> IF d \in installed THEN Files ELSE Absent]
        /\ selection = [version |-> IF installed = {} THEN None ELSE First, by |-> None]
        /\ bin = selection.version
        /\ host = [place |-> IF installed = {} THEN "none" ELSE "choose", version |-> None,
                   restarts |-> 0]
  BY DEF Init
<1>2. /\ pins = [v \in Versions |-> {}] /\ cmd = [p \in Commands |-> Idle]
      /\ exec = [e \in Execs |-> NewExec] /\ faults = 0
  BY DEF Init
<1>3. /\ Idle.place = "new" /\ NewExec.place = "new" /\ selection.by = None
      /\ host.place \in {"none", "choose"}
  BY <1>1 DEF Idle, NewExec
<1>4. TypeOK
  BY <1>1, <1>2, IdleTyped, InstallationAssumption DEF TypeOK, NewExec
<1>5. CommandsInv  BY <1>2, <1>3 DEF CommandsInv, CommandInv, Choosing
<1>6. QuietInv  BY <1>2, <1>3 DEF QuietInv, Choosing
<1>7. SelectionInv /\ HostInv  BY <1>3 DEF SelectionInv, HostInv
<1>8. PinInv  BY <1>2, <1>3 DEF PinInv, BuildInv
<1>9. QED  BY <1>4, <1>5, <1>6, <1>7, <1>8 DEF IInv

LEMMA InvStep ==
  ASSUME IInv, [Next]_vars
  PROVE  IInv'
<1>1. CASE UNCHANGED vars
  BY <1>1 DEF vars, IInv, TypeOK, CommandsInv, QuietInv, SelectionInv, HostInv, PinInv,
     BuildInv, Collecting, Complete
<1>2. ASSUME NEW p \in Commands,
             Install(p) \/ Collect(p) \/ Uninstall(p) \/ Refuse(p) \/ Stop(p)
      PROVE  IInv'
  <2>1. CASE Install(p)
    BY <2>1, BeginStep, MoveStep, CreateStagingStep, CopyFileStep, PublishStep, SelectStep,
       CopyCliStep, CallHostStep DEF Install
  <2>2. CASE Collect(p)
    <3>1. DOMAIN dirs = Directories  BY DEF IInv, TypeOK
    <3>2. QED
      BY <2>2, <3>1, BeginCollectStep, MoveStep, RemoveDirectoryStep, ListStep, RemoveFileStep,
         DirectoryNames DEF Collect
  <2>3. CASE Uninstall(p)
    BY <2>3, BeginUninstallStep, UnregisterStep, CopyCliStep DEF Uninstall
  <2>4. QED  BY <1>2, <2>1, <2>2, <2>3, MoveStep, StopStep
<1>3. CASE Host \/ ControllerExits
  BY <1>3, HostStep DEF Host
<1>4. ASSUME NEW e \in Execs, Execution(e) PROVE IInv'
  BY <1>4, PinStep, ProgressStep DEF Execution
<1>5. QED  BY <1>1, <1>2, <1>3, <1>4 DEF Next

\* Types, and the invariant the other two theorems rest on.
THEOREM InstallationTypes == Spec => []TypeOK
<1>1. Spec => []IInv  BY InitialInv, InvStep, PTL DEF Spec
<1>2. IInv => TypeOK  BY DEF IInv
<1>3. QED  BY <1>1, <1>2, PTL

\* Whatever commands ran and wherever they stopped, the selection record names
\* a version with all its files (installer.rs:264, 279), if no collection ran
\* while it was chosen.
THEOREM SelectionsAreComplete == Spec => []SelectedIsComplete
<1>1. Spec => []IInv  BY InitialInv, InvStep, PTL DEF Spec
<1>2. IInv => SelectedIsComplete  BY DEF IInv, SelectionInv, SelectedIsComplete
<1>3. QED  BY <1>1, <1>2, PTL

\* No upgrade, rollback or collection takes the build of an execution that can
\* be recovered (installer.rs:198, manager.rs:1325), if the build was whole and
\* not condemned when it was pinned.
THEOREM PinnedBuildsAreKept == Spec => []PinnedIsKept
<1>1. Spec => []IInv  BY InitialInv, InvStep, PTL DEF Spec
<1>2. IInv => PinnedIsKept  BY DEF IInv, PinInv, BuildInv, PinnedIsKept
<1>3. QED  BY <1>1, <1>2, PTL
=============================================================================
