-------------------------- MODULE HostSessionsProofs --------------------------
(***************************************************************************)
(* For any number of logons, crashes, failed launches, calls and controls, *)
(* a logon keeps one manager session and one controller, and one whose     *)
(* logoff was handled gets no other session, with the exceptions the       *)
(* properties name.                                                        *)
(*                                                                         *)
(* The argument: a logon that nobody leaves and no registration call has   *)
(* touched is known, once a session was issued for it, to the entry of a   *)
(* host that runs and to the registry record that outlives it; and what is *)
(* known names its controller, the only one.  A reconciliation that works  *)
(* on such a logon has read it, for a session is only issued where the     *)
(* reading ends.                                                           *)
(***************************************************************************)
EXTENDS HostSessions, FiniteSetTheorems, TLAPS

\* The logons the guarantee is about.
Live == (listed \ leaving) \ touched

IssuedTo(n) == \E r \in issued : r.logon = n

Over(n) == n \in 1..logons /\ n \notin listed \ leaving

Running == host \in {"up", "starting"}
Reading == loop \in {"list", "apply"}

\* The user is not registered, and no reconciliation thinks so: nothing is
\* started until a registration call, which touches every logon.
Forgotten == ~registered /\ (loop = "apply" => ~seen.registered)

ShapeInv ==
    /\ listed \subseteq 1..logons /\ seen.sessions \subseteq 1..logons
    /\ IsFiniteSet(ctls)
    /\ ~entry.present => entry = NoEntry
    /\ loop # "idle" => Running
    /\ host \in {"down", "torn", "failed"} => entry = NoEntry /\ call = "idle"
    /\ \A r \in {entry, runtime} : r.session = 0 <=> r.logon = 0

\* A manager session belongs to one logon, and what an entry or the record says
\* of one was issued.
SessionInv ==
    /\ \A r \in issued : r.session \in 1..sessions /\ r.logon \in 1..logons
    /\ \A r, q \in issued : r.session = q.session => r.logon = q.logon
    /\ \A r \in {entry, runtime} :
         r.session # 0 => [logon |-> r.logon, session |-> r.session] \in issued

PidInv == \A c, d \in ctls : c.pid = d.pid => c = d

\* Only a logoff makes a logon end.
EndInv ==
    /\ \A i \in 1..Len(queue) : queue[i].type = "end" => Over(queue[i].logon)
    /\ \A n \in ending : Over(n)
    /\ loop = "logoff" => Over(entry.logon)
    /\ Reading => seen.sessions \cap ending = {}

\* What reconcile has read fits a logon that has a session.
ReadInv(n) ==
    /\ Reading /\ ~seen.conflict => seen.sessions = {n}
    /\ loop = "apply" /\ ~seen.registered => ~registered
    /\ loop # "ending"

\* The entry and the registry record know a logon that has a session.
KnownInv(n) ==
    \/ host = "off" \/ Forgotten
    \/ runtime.logon = n /\ (Running => entry.logon = n)

\* The controller c of logon n is the one the host knows.
ControllerInv(n, c) ==
    /\ IssuedTo(n)
    /\ \A d \in ctls : d.logon = n => d = c
    /\ entry.logon = n =>
         /\ entry.runner # "backoff"
         /\ entry.runner \in {"launched", "watching"} => c.pid = entry.pid
         /\ entry.runner = "none" => c.pid = entry.recorded
         /\ entry.runner \in {"none", "watching"} => c.pid = runtime.pid
    /\ host = "down" => Forgotten \/ c.pid = runtime.pid

LogonInv(n) ==
    /\ IssuedTo(n) => ReadInv(n) /\ KnownInv(n)
    /\ \A r, q \in issued : r.logon = n /\ q.logon = n => r = q
    /\ \A c \in ctls : c.logon = n => ControllerInv(n, c)

LiveInv == \A n \in Live : LogonInv(n)

IInv == TypeOK /\ ShapeInv /\ SessionInv /\ PidInv /\ EndInv /\ LiveInv

-----------------------------------------------------------------------------
(* Sets and process names. *)

LEMMA AtMostOne ==
    ASSUME NEW S, \A x, y \in S : x = y
    PROVE  Cardinality(S) <= 1
<1>1. CASE S = {}
    BY <1>1, FS_EmptySet
<1>2. CASE S # {}
    <2>1. PICK x \in S : TRUE
        BY <1>2
    <2>2. S = {x}
        BY <2>1
    <2> QED BY <2>2, FS_Singleton
<1> QED BY <1>1, <1>2

LEMMA AloneInSet ==
    ASSUME NEW S, IsFiniteSet(S), ~Conflicts(S), NEW x \in S
    PROVE  S = {x}
<1>1. Cardinality(S) \in Nat /\ Cardinality(S) # 0
    BY FS_CardinalityType, FS_EmptySet
<1>2. Cardinality(S) = 1
    BY <1>1 DEF Conflicts
<1> QED BY <1>2, FS_Singleton

LEMMA ListedFinite ==
    ASSUME TypeOK, ShapeInv
    PROVE  IsFiniteSet(listed)
<1>1. IsFiniteSet(1..logons)
    BY FS_Interval DEF TypeOK
<1> QED BY <1>1, FS_Subset DEF ShapeInv

\* Among as many names and one more there is a new one.
LEMMA FreshName ==
    ASSUME NEW used, IsFiniteSet(used)
    PROVE  \E p \in 1..(Cardinality(used) + 1) : p \notin used
<1> DEFINE names == 1..(Cardinality(used) + 1)
<1>1. Cardinality(used) \in Nat
    BY FS_CardinalityType
<1>2. IsFiniteSet(names) /\ Cardinality(names) = Cardinality(used) + 1
    BY <1>1, FS_Interval
<1>3. ~(names \subseteq used)
    <2>1. names \subseteq used => Cardinality(names) <= Cardinality(used)
        BY FS_Subset
    <2> QED BY <2>1, <1>1, <1>2
<1> QED BY <1>3

LEMMA NewPidFresh ==
    ASSUME IsFiniteSet(ctls)
    PROVE  /\ NewPid \in Nat \ {0}
           /\ \A c \in ctls : c.pid # NewPid
           /\ NewPid \notin {runtime.pid, entry.pid, entry.recorded, removed.pid}
<1> DEFINE pids == {c.pid : c \in ctls}
           others == {runtime.pid, entry.pid, entry.recorded, removed.pid}
           used == pids \cup others
           f == [c \in ctls |-> c.pid]
<1>1. f \in Surjection(ctls, pids)
    BY DEF Surjection
<1>2. IsFiniteSet(pids)
    BY <1>1, FS_Surjection
<1>3. IsFiniteSet(others)
    <2>1. IsFiniteSet({runtime.pid})
        BY FS_Singleton
    <2>2. IsFiniteSet({runtime.pid} \cup {entry.pid})
        BY <2>1, FS_AddElement
    <2>3. IsFiniteSet({runtime.pid} \cup {entry.pid} \cup {entry.recorded})
        BY <2>2, FS_AddElement
    <2>4. IsFiniteSet({runtime.pid} \cup {entry.pid} \cup {entry.recorded} \cup {removed.pid})
        BY <2>3, FS_AddElement
    <2>5. others = {runtime.pid} \cup {entry.pid} \cup {entry.recorded} \cup {removed.pid}
        OBVIOUS
    <2> QED BY <2>4, <2>5
<1>4. IsFiniteSet(used)
    BY <1>2, <1>3, FS_Union
<1>5. Cardinality(used) \in Nat
    BY <1>4, FS_CardinalityType
<1>6. \E p \in 1..(Cardinality(used) + 1) : p \notin used
    BY <1>4, FreshName
<1>7. NewPid = CHOOSE p \in 1..(Cardinality(used) + 1) : p \notin used
    BY DEF NewPid
<1>8. NewPid \in 1..(Cardinality(used) + 1) /\ NewPid \notin used
    BY <1>6, <1>7
<1> QED BY <1>8, <1>5

-----------------------------------------------------------------------------
(* Types and shape. *)

\* The parts of TypeOK.
RunnerOK(r) ==
    /\ r.runner # "none" => r.present /\ r.session # 0 /\ r.logon # 0
    /\ r.pid # 0 <=> r.runner \in {"launched", "watching"}
RegistrationOK(r) == r \in Entries /\ RunnerOK(r)
WindowsOK ==
    /\ listed \subseteq 1..MaxLogons /\ leaving \subseteq listed /\ logons \in 0..MaxLogons
    /\ touched \subseteq 0..MaxLogons /\ events \in Nat
SessionsOK == sessions \in Nat /\ signaled \subseteq 1..sessions
ControllersOK == ctls \subseteq [pid : Nat \ {0}, session : 1..sessions, logon : 1..logons]
RecordsOK ==
    /\ runtime \in [session : Nat, logon : 0..MaxLogons, pid : Nat]
    /\ issued \subseteq [logon : Nat, session : Nat]
LoopOK ==
    /\ host \in {"up", "starting", "down", "torn", "failed", "off"}
    /\ loop \in {"idle", "reconcile", "list", "apply", "ending", "logoff", "shutdown"}
    /\ ending \subseteq 1..MaxLogons /\ call \in {"idle", "register", "unregister", "ending"}
SeenOK == seen \in [sessions : SUBSET (1..MaxLogons), conflict : BOOLEAN, registered : BOOLEAN]

LEMMA TypeParts ==
    TypeOK <=> /\ WindowsOK /\ SessionsOK /\ ControllersOK /\ RecordsOK /\ LoopOK
               /\ SeenOK /\ registered \in BOOLEAN /\ queue \in Seq(Commands)
               /\ RegistrationOK(entry) /\ RegistrationOK(removed)
BY DEF TypeOK, WindowsOK, SessionsOK, ControllersOK, RecordsOK, LoopOK, SeenOK, RegistrationOK,
       RunnerOK

LEMMA BlankOK == RegistrationOK(Blank) /\ RegistrationOK(NoEntry)
<1>1. Blank \in Entries
    BY HostAssumption DEF Blank, Entries
<1>2. NoEntry \in Entries
    BY <1>1 DEF NoEntry, Entries
<1>3. RunnerOK(Blank) /\ RunnerOK(NoEntry)
    BY DEF RunnerOK, Blank, NoEntry
<1> QED BY <1>1, <1>2, <1>3 DEF RegistrationOK

LEMMA ReconciledOK ==
    ASSUME TypeOK
    PROVE  RegistrationOK(Reconciled) /\ Reconciled.present
BY TypeParts, BlankOK DEF Reconciled, Blank

LEMMA EntryFields ==
    ASSUME NEW r, RegistrationOK(r)
    PROVE  /\ r.session \in Nat /\ r.logon \in 0..MaxLogons /\ r.pid \in Nat /\ r.recorded \in Nat
           /\ r.runner \in {"none", "backoff", "launched", "watching"}
           /\ r.runner # "none" => r.session \in Nat \ {0} /\ r.logon \in 1..MaxLogons
BY HostAssumption DEF RegistrationOK, RunnerOK, Entries

\* An entry with other fields.
LEMMA EntryUpdates ==
    ASSUME NEW r \in Entries
    PROVE  LET Runners == {"none", "backoff", "launched", "watching"}
           IN /\ \A s \in Nat, n \in 0..MaxLogons, p \in Nat, run \in Runners :
                   [r EXCEPT !.session = s, !.logon = n, !.runner = run, !.pid = p] \in Entries
              /\ \A run \in Runners, p \in Nat : [r EXCEPT !.runner = run, !.pid = p] \in Entries
              /\ \A run \in Runners : [r EXCEPT !.runner = run] \in Entries
              /\ \A q \in Nat : [r EXCEPT !.recorded = q] \in Entries
              /\ \A s \in Nat, n \in 0..MaxLogons, q \in Nat :
                   [r EXCEPT !.session = s, !.logon = n, !.recorded = q] \in Entries
              /\ \A s \in Nat : [r EXCEPT !.session = s] \in Entries
<1> DEFINE Runners == {"none", "backoff", "launched", "watching"}
<1>1. \A s \in Nat, n \in 0..MaxLogons, p \in Nat, run \in Runners :
        [r EXCEPT !.session = s, !.logon = n, !.runner = run, !.pid = p] \in Entries
    BY DEF Entries
<1>2. \A run \in Runners, p \in Nat : [r EXCEPT !.runner = run, !.pid = p] \in Entries
    BY DEF Entries
<1>3. \A run \in Runners : [r EXCEPT !.runner = run] \in Entries
    BY DEF Entries
<1>4. \A q \in Nat : [r EXCEPT !.recorded = q] \in Entries
    BY DEF Entries
<1>5. \A s \in Nat, n \in 0..MaxLogons, q \in Nat :
        [r EXCEPT !.session = s, !.logon = n, !.recorded = q] \in Entries
    BY DEF Entries
<1>6. \A s \in Nat : [r EXCEPT !.session = s] \in Entries
    BY DEF Entries
<1> QED BY <1>1, <1>2, <1>3, <1>4, <1>5, <1>6

\* The outcomes of StartRunner(r, n, process, other).
SessionFor(r) == IF r.session = 0 THEN sessions + 1 ELSE r.session
Begun(r, n, run, p) ==
    /\ entry' = [r EXCEPT !.session = SessionFor(r), !.logon = n, !.runner = run, !.pid = p]
    /\ sessions' = IF r.session = 0 THEN sessions + 1 ELSE sessions
    /\ issued' = issued \cup {[logon |-> n, session |-> SessionFor(r)]}
    /\ runtime' = Persisted(entry')
Adopts(r, n, process) ==
    Adoptable(process, n) /\ Begun(r, n, "watching", process) /\ UNCHANGED <<ctls, events>>
Launches(r, n, process) ==
    /\ ~Adoptable(process, n) /\ NewController(SessionFor(r), n) /\ UNCHANGED events
    /\ Begun(r, n, "watching", NewPid)
Retries(r, n, process) ==
    ~Adoptable(process, n) /\ LaunchFails(n) /\ Begun(r, n, "backoff", 0)
Fails(other) == Happens /\ entry' = other /\ UNCHANGED <<ctls, sessions, issued>>

LEMMA StartCases ==
    ASSUME NEW r, NEW n, NEW process, NEW other, StartRunner(r, n, process, other)
    PROVE  \/ Adopts(r, n, process) \/ Launches(r, n, process)
           \/ Retries(r, n, process) \/ Fails(other)
BY DEF StartRunner, Adopts, Launches, Retries, Fails, Begun, SessionFor

LEMMA StartEvents ==
    ASSUME events \in Nat, NEW r, NEW n, NEW process, NEW other, StartRunner(r, n, process, other)
    PROVE  events' \in Nat
BY StartCases DEF Adopts, Launches, Retries, Fails, LaunchFails, Happens

\* The host crashes while it writes the first record of a session.
LEMMA SaveCrash ==
    ASSUME TypeOK, ShapeInv, NEW n \in listed \cup seen.sessions, CrashInSave(n)
    PROVE  /\ n \in 1..logons /\ n \in 1..MaxLogons
           /\ Running /\ host' = "torn" /\ HostLost
           /\ sessions \in Nat /\ sessions' = sessions + 1
           /\ issued' = issued \cup {[logon |-> n, session |-> sessions + 1]}
           /\ \/ UNCHANGED ctls
              \/ ctls' = ctls \cup {[pid |-> NewPid, session |-> sessions + 1, logon |-> n]}
           /\ runtime' = NoRuntime /\ touched' = touched \cup {n} /\ events' = events + 1
           /\ \/ loop = "apply" /\ seen.registered /\ ~seen.conflict /\ n \in seen.sessions
              \/ runtime = NoRuntime /\ n \in listed /\ ~Conflicts(listed)
<1>1. n \in 1..logons /\ n \in 1..MaxLogons /\ sessions \in Nat
    BY TypeParts DEF ShapeInv, WindowsOK, SeenOK, SessionsOK
<1>2. \/ UNCHANGED ctls
      \/ ctls' = ctls \cup {[pid |-> NewPid, session |-> sessions + 1, logon |-> n]}
    BY DEF CrashInSave, NewController
<1> QED BY <1>1, <1>2 DEF CrashInSave, ReconcileRecords, RegisterRecords, Happens, Running

LEMMA InitIInv ==
    ASSUME Init
    PROVE  IInv
<1>1. TypeOK
    <2>1. WindowsOK /\ SessionsOK /\ ControllersOK
        BY HostAssumption DEF Init, WindowsOK, SessionsOK, ControllersOK
    <2>2. RecordsOK /\ LoopOK /\ SeenOK
        BY HostAssumption DEF Init, RecordsOK, LoopOK, SeenOK, NoRuntime, NoReading
    <2>3. registered \in BOOLEAN /\ queue \in Seq(Commands)
        BY DEF Init
    <2> QED BY <2>1, <2>2, <2>3, TypeParts, BlankOK DEF Init
<1>2. ShapeInv
    BY FS_EmptySet DEF Init, ShapeInv, Running, Blank, NoEntry, NoRuntime, NoReading
<1>3. SessionInv
    BY DEF Init, SessionInv, Blank, NoEntry, NoRuntime
<1>4. PidInv
    BY DEF Init, PidInv
<1>5. EndInv
    BY DEF Init, EndInv, Reading
<1>6. LiveInv
    BY DEF Init, LiveInv, Live
<1> QED BY <1>1, <1>2, <1>3, <1>4, <1>5, <1>6 DEF IInv

LEMMA WindowsStep ==
    ASSUME TypeOK, ShapeInv, [Next]_vars
    PROVE  WindowsOK'
<1>0. /\ WindowsOK /\ entry.logon \in 0..MaxLogons
      /\ seen.sessions \subseteq 0..MaxLogons /\ 1..MaxLogons \subseteq 0..MaxLogons
    BY TypeParts, EntryFields, HostAssumption DEF SeenOK
<1>1. CASE ReconcileStart
    BY <1>1, <1>0, HostAssumption DEF ReconcileStart, Finished, StartRunner,
        Adoptable, NewController, LaunchFails, Happens, WindowsOK
<1>2. CASE HostCrash
    <2>1. touched' \subseteq 0..MaxLogons
        BY <1>2, <1>0 DEF HostCrash, HostLost, Happens, windowsVars, WindowsOK
    <2>2. events' \in Nat /\ UNCHANGED <<listed, leaving, logons>>
        BY <1>2, <1>0 DEF HostCrash, HostLost, Happens, windowsVars, WindowsOK
    <2> QED BY <2>1, <2>2, <1>0 DEF WindowsOK
<1>3. CASE RunnerLaunches
    BY <1>3, <1>0, HostAssumption DEF RunnerLaunches, StartRunner, Adoptable,
        NewController, LaunchFails, Happens, windowsVars, WindowsOK
<1>4. CASE Register
    <2>1. touched' \subseteq 0..MaxLogons
        BY <1>4, <1>0 DEF Register, Calls, Touch, windowsVars, WindowsOK
    <2>2. events' \in Nat /\ UNCHANGED <<listed, leaving, logons>>
        BY <1>4, <1>0 DEF Register, Calls, Happens, windowsVars, WindowsOK
    <2> QED BY <2>1, <2>2, <1>0 DEF WindowsOK
<1>5. CASE RegisterStarts
    <2>1. touched' \subseteq 0..MaxLogons
        BY <1>5, <1>0 DEF RegisterStarts, Touch, windowsVars, WindowsOK
    <2>2. events' \in Nat /\ UNCHANGED <<listed, leaving, logons>>
        BY <1>5, <1>0, StartEvents DEF RegisterStarts, windowsVars, WindowsOK
    <2> QED BY <2>1, <2>2, <1>0 DEF WindowsOK
<1>6. CASE Unregister
    <2>1. touched' \subseteq 0..MaxLogons
        BY <1>6, <1>0 DEF Unregister, Calls, Touch, windowsVars, WindowsOK
    <2>2. events' \in Nat /\ UNCHANGED <<listed, leaving, logons>>
        BY <1>6, <1>0 DEF Unregister, Calls, Happens, windowsVars, WindowsOK
    <2> QED BY <2>1, <2>2, <1>0 DEF WindowsOK
<1>7. CASE UnregisterRemoves
    BY <1>7, <1>0, HostAssumption DEF UnregisterRemoves, Touch, WindowsOK
<1>8. CASE UnregisterEnds
    BY <1>8, <1>0, HostAssumption DEF UnregisterEnds, Touch, windowsVars, WindowsOK
<1>9. CASE RestartController
    BY <1>9, <1>0, HostAssumption DEF RestartController, Happens, windowsVars,
        WindowsOK
<1>10. CASE Logon
    BY <1>10, <1>0, HostAssumption DEF Logon, WindowsOK
<1>11. CASE \E n \in listed : LogoffBegins(n)
    BY <1>11, <1>0, HostAssumption DEF LogoffBegins, WindowsOK
<1>12. CASE \E n \in listed : LogoffEnds(n)
    BY <1>12, <1>0, HostAssumption DEF LogoffEnds, WindowsOK
<1>13. CASE \E command \in {"detach", "preshutdown"} : Control(command)
    BY <1>13, <1>0, HostAssumption DEF Control, Happens, windowsVars, WindowsOK
<1>14. CASE \E c \in ctls : ControllerEnds(c)
    BY <1>14, <1>0, HostAssumption DEF ControllerEnds, Happens, windowsVars, WindowsOK
<1>15. CASE UNCHANGED <<listed, leaving, logons, touched, events>>
    BY <1>15, <1>0 DEF WindowsOK
<1>16. CASE \E n \in listed \cup seen.sessions : CrashInSave(n)
    <2>1. PICK n \in listed \cup seen.sessions : CrashInSave(n)
        BY <1>16
    <2>2. /\ n \in 1..MaxLogons /\ touched' = touched \cup {n} /\ events' = events + 1
          /\ UNCHANGED <<listed, leaving, logons>>
        BY <2>1, SaveCrash DEF HostLost
    <2> QED BY <1>0, <2>2 DEF WindowsOK
<1> QED
    BY <1>1, <1>2, <1>3, <1>4, <1>5, <1>6, <1>7, <1>8, <1>9, <1>10, <1>11, <1>12,
        <1>13, <1>14, <1>15, <1>16 DEF Next, LoopStep, vars, windowsVars, countVars, Tick,
        ReceiveReconcile, ReceiveLogoff, ReceivePreshutdown, ReceiveDetach, ReadSessions,
        ReadRegistrations, ReconcileForget, ReconcileKeep, ReconcileEnd, EndRegistration,
        HostStart, HostStartFails, RunnerSeesExit, RunnerObserves, Finished, Calls

LEMMA RegisteredStep ==
    ASSUME TypeOK, [Next]_vars
    PROVE  registered' \in BOOLEAN
<1>1. CASE Register
    BY <1>1 DEF Register, TypeOK
<1>2. CASE Unregister
    BY <1>2 DEF Unregister, TypeOK
<1>3. CASE UNCHANGED registered
    BY <1>3 DEF TypeOK
<1>4. CASE \E n \in listed \cup seen.sessions : CrashInSave(n)
    <2>1. PICK n \in listed \cup seen.sessions : CrashInSave(n)
        BY <1>4
    <2>2. UNCHANGED registered
        BY <2>1 DEF CrashInSave, HostLost
    <2> QED BY <2>2 DEF TypeOK
<1> QED
    BY <1>1, <1>2, <1>3, <1>4 DEF Next, LoopStep, vars, windowsVars, countVars, Tick,
        ReceiveReconcile, ReceiveLogoff, ReceivePreshutdown, ReceiveDetach, ReadSessions,
        ReadRegistrations, ReconcileForget, ReconcileKeep, ReconcileStart, ReconcileEnd,
        EndRegistration, HostCrash, HostLost, HostStart, HostStartFails, RunnerSeesExit,
        RunnerLaunches, RunnerObserves, RegisterStarts, UnregisterRemoves, UnregisterEnds,
        RestartController, Logon, LogoffBegins, LogoffEnds, Control, ControllerEnds, Finished,
        Calls

LEMMA SessionsStep ==
    ASSUME TypeOK, ShapeInv, SessionInv, [Next]_vars
    PROVE  SessionsOK'
<1>0. /\ SessionsOK /\ entry.session \in 0..sessions /\ Reconciled.session \in 0..sessions
      /\ entry.runner # "none" => entry.session \in 1..sessions
    <2>1. SessionsOK /\ entry.session \in Nat /\ (entry.runner # "none" => entry.session # 0)
        BY TypeParts, EntryFields
    <2>2. entry.session # 0 => entry.session \in 1..sessions
        BY DEF SessionInv
    <2> QED BY <2>1, <2>2 DEF SessionsOK, Reconciled, Blank
<1>1. CASE ReceiveLogoff
    BY <1>1, <1>0 DEF ReceiveLogoff, Signal, countVars, SessionsOK
<1>2. CASE ReceivePreshutdown
    BY <1>2, <1>0 DEF ReceivePreshutdown, Signal, countVars, SessionsOK
<1>3. CASE ReconcileStart
    BY <1>3, <1>0 DEF ReconcileStart, Finished, StartRunner, Adoptable, NewController,
        LaunchFails, Happens, SessionsOK
<1>4. CASE ReconcileEnd
    BY <1>4, <1>0 DEF ReconcileEnd, Signal, countVars, SessionsOK
<1>5. CASE RegisterStarts
    <2>1. signaled' = signaled /\ (sessions' = sessions \/ sessions' = sessions + 1)
        BY <1>5 DEF RegisterStarts, windowsVars, countVars, StartRunner, Reconciled, Blank
    <2> QED BY <2>1, <1>0 DEF SessionsOK
<1>6. CASE UnregisterRemoves
    BY <1>6, <1>0 DEF UnregisterRemoves, Signal, countVars, SessionsOK
<1>7. CASE UNCHANGED <<sessions, signaled>>
    BY <1>7, <1>0 DEF SessionsOK
<1>8. CASE \E n \in listed \cup seen.sessions : CrashInSave(n)
    <2>1. PICK n \in listed \cup seen.sessions : CrashInSave(n)
        BY <1>8
    <2>2. sessions' = sessions + 1
        BY <2>1, SaveCrash
    <2>3. signaled' \subseteq signaled \cup ({Reconciled.session} \ {0})
        BY <2>1 DEF CrashInSave, ReconcileRecords, RegisterRecords
    <2> QED BY <1>0, <2>2, <2>3 DEF SessionsOK
<1> QED
    BY <1>1, <1>2, <1>3, <1>4, <1>5, <1>6, <1>7, <1>8 DEF Next, LoopStep, vars, windowsVars,
        countVars, Tick, ReceiveReconcile, ReceiveDetach, ReadSessions, ReadRegistrations,
        ReconcileForget, ReconcileKeep, EndRegistration, HostCrash, HostLost, HostStart,
        HostStartFails, RunnerSeesExit, RunnerLaunches, RunnerObserves, Register, Unregister,
        UnregisterEnds, RestartController, Logon, LogoffBegins, LogoffEnds, Control,
        ControllerEnds, Finished, Calls

LEMMA PersistedOK ==
    ASSUME RecordsOK, NEW r, RegistrationOK(r)
    PROVE  Persisted(r) \in [session : Nat, logon : 0..MaxLogons, pid : Nat]
BY EntryFields DEF RecordsOK, Persisted

\* The registration that reconcile starts a runner for.
Taken(n) == [ForLogon(Reconciled, n) EXCEPT !.recorded = 0]

LEMMA TakenOK ==
    ASSUME TypeOK, Reconciled.runner = "none", NEW n \in 1..MaxLogons
    PROVE  /\ RegistrationOK(Taken(n)) /\ Taken(n).present
           /\ Taken(n).runner = "none" /\ Taken(n).pid = 0 /\ Taken(n).recorded = 0
           /\ Taken(n).session = IF Reconciled.logon = n THEN Reconciled.session ELSE 0
           /\ Taken(n).logon = IF Reconciled.logon = n THEN n ELSE 0
<1> DEFINE f == [Reconciled EXCEPT !.session = 0, !.logon = 0, !.recorded = 0]
<1>1. Reconciled \in Entries /\ Reconciled.present /\ Reconciled.pid = 0
    BY ReconciledOK DEF RegistrationOK, RunnerOK
<1>2. f \in Entries
    <2>1. 0 \in 0..MaxLogons
        BY HostAssumption
    <2>2. Reconciled \in Entries
        BY <1>1
    <2> QED BY <2>1, <2>2 DEF Entries
<1>3. ForLogon(Reconciled, n) \in Entries
    BY <1>1, <1>2 DEF ForLogon
<1>4. Taken(n) \in Entries
    BY <1>3, EntryUpdates, HostAssumption DEF Taken
<1>5. /\ f.present /\ f.runner = "none" /\ f.pid = 0 /\ f.session = 0 /\ f.logon = 0
    BY <1>1 DEF Entries
<1>6. /\ ForLogon(Reconciled, n).present /\ ForLogon(Reconciled, n).runner = "none"
      /\ ForLogon(Reconciled, n).pid = 0
      /\ ForLogon(Reconciled, n).session = IF Reconciled.logon = n THEN Reconciled.session ELSE 0
      /\ ForLogon(Reconciled, n).logon = IF Reconciled.logon = n THEN n ELSE 0
    BY <1>1, <1>5 DEF ForLogon
<1>7. /\ Taken(n).present = ForLogon(Reconciled, n).present
      /\ Taken(n).runner = ForLogon(Reconciled, n).runner
      /\ Taken(n).pid = ForLogon(Reconciled, n).pid
      /\ Taken(n).session = ForLogon(Reconciled, n).session
      /\ Taken(n).logon = ForLogon(Reconciled, n).logon /\ Taken(n).recorded = 0
    BY <1>3 DEF Taken, Entries
<1> QED BY <1>4, <1>6, <1>7 DEF RegistrationOK, RunnerOK

LEMMA AnewOK ==
    ASSUME TypeOK, Reconciled.runner = "none"
    PROVE  LET r == [Reconciled EXCEPT !.session = 0]
           IN /\ RegistrationOK(r) /\ r.present /\ r.runner = "none" /\ r.session = 0
              /\ r.logon = Reconciled.logon /\ r.recorded = Reconciled.recorded /\ r.pid = 0
<1> DEFINE r == [Reconciled EXCEPT !.session = 0]
<1>1. Reconciled \in Entries /\ Reconciled.present /\ Reconciled.pid = 0
    BY ReconciledOK DEF RegistrationOK, RunnerOK
<1>2. r \in Entries
    BY <1>1, EntryUpdates
<1>3. /\ r.present /\ r.runner = "none" /\ r.session = 0 /\ r.pid = 0
      /\ r.logon = Reconciled.logon /\ r.recorded = Reconciled.recorded
    BY <1>1 DEF Entries
<1> QED BY <1>2, <1>3 DEF RegistrationOK, RunnerOK

\* The fields of a registration whose runner has begun.
LEMMA BegunFields ==
    ASSUME NEW r, RegistrationOK(r), r.present, sessions \in Nat, NEW n \in 1..MaxLogons,
           NEW p \in Nat, NEW run \in {"backoff", "watching"},
           p # 0 <=> run = "watching", Begun(r, n, run, p)
    PROVE  /\ RegistrationOK(entry')
           /\ entry'.present /\ entry'.session = SessionFor(r) /\ entry'.logon = n
           /\ entry'.runner = run /\ entry'.pid = p /\ entry'.recorded = r.recorded
<1>1. r \in Entries /\ SessionFor(r) \in Nat \ {0}
    BY EntryFields DEF SessionFor, RegistrationOK
<1>2. n \in 0..MaxLogons /\ n # 0
    BY HostAssumption
<1>3. entry' \in Entries
    BY <1>1, <1>2, EntryUpdates DEF Begun
<1>4. /\ entry'.present = r.present /\ entry'.session = SessionFor(r) /\ entry'.logon = n
      /\ entry'.runner = run /\ entry'.pid = p /\ entry'.recorded = r.recorded
    BY <1>1 DEF Begun, Entries
<1> QED BY <1>1, <1>2, <1>3, <1>4 DEF RegistrationOK, RunnerOK

LEMMA StartTypes ==
    ASSUME TypeOK, ShapeInv, NEW r, RegistrationOK(r), r.present, r.session \in 0..sessions,
           NEW n \in 1..MaxLogons, NEW process \in Nat, NEW other, RegistrationOK(other),
           StartRunner(r, n, process, other), UNCHANGED logons
    PROVE  /\ ControllersOK' /\ RegistrationOK(entry')
           /\ issued' \subseteq [logon : Nat, session : Nat]
           /\ runtime' = Persisted(entry') \/ entry' = other
<1>1. /\ SessionsOK /\ ControllersOK /\ RecordsOK /\ NewPid \in Nat \ {0}
      /\ listed \subseteq 1..logons /\ SessionFor(r) \in Nat
    BY TypeParts, NewPidFresh, EntryFields DEF ShapeInv, SessionFor, SessionsOK
<1>2. CASE Adopts(r, n, process)
    <2>1. process # 0
        BY <1>1, <1>2 DEF Adopts, Adoptable, ControllersOK
    <2>2. Begun(r, n, "watching", process)
        BY <1>2 DEF Adopts
    <2>3. RegistrationOK(entry')
        BY <1>1, <2>1, <2>2, BegunFields DEF SessionsOK
    <2>4. sessions' \in Nat /\ sessions <= sessions' /\ UNCHANGED ctls
        BY <1>1, <1>2 DEF Adopts, Begun, SessionsOK
    <2>5. ControllersOK'
        BY <1>1, <2>4 DEF ControllersOK, SessionsOK
    <2> QED BY <1>1, <2>2, <2>3, <2>5 DEF Begun, RecordsOK
<1>3. CASE Launches(r, n, process)
    <2>2. Begun(r, n, "watching", NewPid)
        BY <1>3 DEF Launches
    <2>3. RegistrationOK(entry')
        BY <1>1, <2>2, BegunFields DEF SessionsOK
    <2>4. /\ sessions' \in Nat /\ sessions <= sessions' /\ n \in listed
          /\ SessionFor(r) \in 1..sessions'
          /\ ctls' = ctls \cup {[pid |-> NewPid, session |-> SessionFor(r), logon |-> n]}
        BY <1>1, <1>3 DEF Launches, Begun, SessionsOK, NewController, SessionFor
    <2>5. ControllersOK'
        BY <1>1, <2>4 DEF ControllersOK, SessionsOK
    <2> QED BY <1>1, <2>2, <2>3, <2>5 DEF Begun, RecordsOK
<1>4. CASE Retries(r, n, process)
    <2>2. Begun(r, n, "backoff", 0)
        BY <1>4 DEF Retries
    <2>3. RegistrationOK(entry')
        BY <1>1, <2>2, BegunFields DEF SessionsOK
    <2>4. sessions' \in Nat /\ sessions <= sessions' /\ UNCHANGED ctls
        BY <1>1, <1>4 DEF Retries, LaunchFails, Begun, SessionsOK
    <2>5. ControllersOK'
        BY <1>1, <2>4 DEF ControllersOK, SessionsOK
    <2> QED BY <1>1, <2>2, <2>3, <2>5 DEF Begun, RecordsOK
<1>5. CASE Fails(other)
    BY <1>1, <1>5 DEF Fails, ControllersOK, RecordsOK
<1> QED BY <1>2, <1>3, <1>4, <1>5, StartCases

LEMMA ReconcileStartTypes ==
    ASSUME TypeOK, ShapeInv, SessionInv, ReconcileStart
    PROVE  ControllersOK' /\ RecordsOK' /\ RegistrationOK(entry')
<1>1. /\ SessionsOK /\ RecordsOK /\ seen.sessions \subseteq 1..MaxLogons
      /\ Reconciled.session \in 0..sessions /\ Reconciled.recorded \in Nat
    <2>1. /\ SessionsOK /\ RecordsOK /\ entry.session \in Nat /\ Reconciled.recorded \in Nat
          /\ seen.sessions \subseteq 1..MaxLogons
        BY TypeParts, ReconciledOK, EntryFields DEF SeenOK
    <2>2. entry.session # 0 => entry.session \in 1..sessions
        BY DEF SessionInv
    <2> QED BY <2>1, <2>2 DEF SessionsOK, Reconciled, Blank
<1>2. PICK n \in seen.sessions :
        /\ StartRunner(Taken(n), n, ForLogon(Reconciled, n).recorded, Taken(n))
        /\ entry'.runner = "none" => runtime' = IF Reconciled.logon # n THEN NoRuntime ELSE runtime
    BY DEF ReconcileStart, Taken
<1>3. Reconciled.runner = "none" /\ UNCHANGED logons
    BY DEF ReconcileStart, Finished
<1>4. ForLogon(Reconciled, n).recorded \in Nat
    BY <1>1, ReconciledOK DEF ForLogon, RegistrationOK, Entries
<1>5. /\ RegistrationOK(Taken(n)) /\ Taken(n).present /\ Taken(n).session \in 0..sessions
      /\ Taken(n).runner = "none"
    BY <1>1, <1>2, <1>3, TakenOK DEF SessionsOK
<1>6. /\ ControllersOK' /\ RegistrationOK(entry') /\ issued' \subseteq [logon : Nat, session : Nat]
      /\ runtime' = Persisted(entry') \/ entry' = Taken(n)
    BY <1>1, <1>2, <1>3, <1>4, <1>5, StartTypes
<1>7. runtime' \in [session : Nat, logon : 0..MaxLogons, pid : Nat]
    BY <1>1, <1>2, <1>5, <1>6, PersistedOK, HostAssumption DEF RecordsOK, NoRuntime
<1> QED BY <1>6, <1>7 DEF RecordsOK

LEMMA RegisterStartsTypes ==
    ASSUME TypeOK, ShapeInv, RegisterStarts
    PROVE  ControllersOK' /\ RecordsOK' /\ RegistrationOK(entry')
<1>1. /\ SessionsOK /\ ControllersOK /\ RecordsOK /\ listed \subseteq 1..MaxLogons
      /\ RegistrationOK(Reconciled)
    BY TypeParts, ReconciledOK DEF WindowsOK
<1>2. UNCHANGED logons
    BY DEF RegisterStarts, windowsVars
<1>3. ASSUME Reconciled.runner = "none", NEW n \in listed,
             StartRunner([Reconciled EXCEPT !.session = 0], n, 0, Reconciled),
             entry'.runner = "none" => UNCHANGED runtime
      PROVE  ControllersOK' /\ RecordsOK' /\ RegistrationOK(entry')
    <2> DEFINE r == [Reconciled EXCEPT !.session = 0]
    <2>1. RegistrationOK(r) /\ r.present /\ r.session \in 0..sessions
        BY <1>1, <1>3, AnewOK DEF SessionsOK
    <2>2. /\ ControllersOK' /\ RegistrationOK(entry')
          /\ issued' \subseteq [logon : Nat, session : Nat]
          /\ runtime' = Persisted(entry') \/ entry' = Reconciled
        BY <1>1, <1>2, <1>3, <2>1, StartTypes
    <2>3. runtime' \in [session : Nat, logon : 0..MaxLogons, pid : Nat]
        BY <1>1, <1>3, <2>2, PersistedOK DEF RecordsOK
    <2> QED BY <2>2, <2>3 DEF RecordsOK
<1>4. ASSUME entry' = Reconciled, UNCHANGED <<ctls, runtime, events>>, UNCHANGED countVars
      PROVE  ControllersOK' /\ RecordsOK' /\ RegistrationOK(entry')
    BY <1>1, <1>2, <1>4 DEF ControllersOK, RecordsOK, countVars
<1> QED BY <1>3, <1>4 DEF RegisterStarts

LEMMA ControllersStep ==
    ASSUME TypeOK, ShapeInv, SessionInv, [Next]_vars
    PROVE  ControllersOK'
<1>0. /\ ControllersOK /\ listed \subseteq 1..logons /\ logons \in Nat
      /\ entry.runner # "none" => entry.session \in 1..sessions
    BY TypeParts, EntryFields DEF SessionInv, ShapeInv, WindowsOK
<1>1. CASE ReconcileStart
    <2> QED BY <1>1, ReconcileStartTypes
<1>2. CASE EndRegistration
    BY <1>2, <1>0 DEF EndRegistration, JoinRunner, windowsVars, countVars,
        ControllersOK
<1>3. CASE RunnerLaunches
    <2>1. NewPid \in Nat \ {0}
        BY NewPidFresh DEF ShapeInv
    <2> QED BY <1>3, <1>0, <2>1 DEF RunnerLaunches, NewController, LaunchFails, windowsVars,
            ControllersOK
<1>4. CASE RegisterStarts
    <2> QED BY <1>4, RegisterStartsTypes
<1>5. CASE UnregisterEnds
    BY <1>5, <1>0 DEF UnregisterEnds, JoinRunner, windowsVars, countVars,
        ControllersOK
<1>6. CASE RestartController
    BY <1>6, <1>0 DEF RestartController, JoinRunner, windowsVars, countVars,
        ControllersOK
<1>7. CASE Logon
    BY <1>7, <1>0 DEF Logon, countVars, ControllersOK
<1>8. CASE \E n \in listed : LogoffEnds(n)
    BY <1>8, <1>0 DEF LogoffEnds, countVars, ControllersOK
<1>9. CASE \E c \in ctls : ControllerEnds(c)
    BY <1>9, <1>0 DEF ControllerEnds, windowsVars, countVars, ControllersOK
<1>10. CASE UNCHANGED <<ctls, sessions, logons>>
    BY <1>10, <1>0 DEF ControllersOK
<1>11. CASE \E n \in listed \cup seen.sessions : CrashInSave(n)
    <2>1. PICK n \in listed \cup seen.sessions : CrashInSave(n)
        BY <1>11
    <2>2. /\ n \in 1..logons /\ sessions \in Nat /\ sessions' = sessions + 1 /\ UNCHANGED logons
          /\ \/ UNCHANGED ctls
             \/ ctls' = ctls \cup {[pid |-> NewPid, session |-> sessions + 1, logon |-> n]}
        BY <2>1, SaveCrash DEF HostLost
    <2>3. NewPid \in Nat \ {0}
        BY NewPidFresh DEF ShapeInv
    <2> QED BY <1>0, <2>2, <2>3 DEF ControllersOK
<1> QED
    BY <1>1, <1>2, <1>3, <1>4, <1>5, <1>6, <1>7, <1>8, <1>9, <1>10, <1>11 DEF Next, LoopStep,
        vars, windowsVars, countVars, Tick, ReceiveReconcile, ReceiveLogoff, ReceivePreshutdown,
        ReceiveDetach, ReadSessions, ReadRegistrations, ReconcileForget, ReconcileKeep,
        ReconcileEnd, HostCrash, HostLost, HostStart, HostStartFails, RunnerSeesExit,
        RunnerObserves, Register, Unregister, UnregisterRemoves, LogoffBegins, Control,
        Finished, Calls

LEMMA RecordsStep ==
    ASSUME TypeOK, ShapeInv, SessionInv, [Next]_vars
    PROVE  RecordsOK'
<1>0. RecordsOK /\ RegistrationOK(entry)
    BY TypeParts
<1>1. CASE ReceiveDetach
    BY <1>1, <1>0, PersistedOK DEF ReceiveDetach, countVars, RecordsOK
<1>2. CASE ReconcileKeep
    BY <1>2, <1>0, PersistedOK, ReconciledOK DEF ReconcileKeep, Finished, countVars,
        RecordsOK
<1>3. CASE ReconcileStart
    <2> QED BY <1>3, ReconcileStartTypes
<1>4. CASE EndRegistration
    BY <1>4, <1>0, HostAssumption DEF EndRegistration, NoRuntime, countVars, RecordsOK
<1>5. CASE HostStart
    BY <1>5, <1>0, HostAssumption DEF HostStart, NoRuntime, countVars, RecordsOK
<1>6. CASE RunnerSeesExit
    BY <1>6, <1>0, EntryFields DEF RunnerSeesExit, countVars, RecordsOK
<1>7. CASE RunnerObserves
    BY <1>7, <1>0, EntryFields DEF RunnerObserves, countVars, RecordsOK
<1>8. CASE RegisterStarts
    <2> QED BY <1>8, RegisterStartsTypes
<1>9. CASE UnregisterEnds
    BY <1>9, <1>0, HostAssumption DEF UnregisterEnds, NoRuntime, countVars, RecordsOK
<1>10. CASE UNCHANGED <<runtime, issued>>
    BY <1>10, <1>0 DEF RecordsOK
<1>11. CASE \E n \in listed \cup seen.sessions : CrashInSave(n)
    BY <1>11, <1>0, SaveCrash, HostAssumption DEF NoRuntime, RecordsOK
<1> QED
    BY <1>1, <1>2, <1>3, <1>4, <1>5, <1>6, <1>7, <1>8, <1>9, <1>10, <1>11 DEF Next, LoopStep,
        vars, windowsVars, countVars, Tick, ReceiveReconcile, ReceiveLogoff,
        ReceivePreshutdown, ReadSessions, ReadRegistrations, ReconcileForget,
        ReconcileEnd, HostCrash, HostLost, RunnerLaunches, Register, Unregister, UnregisterRemoves,
        RestartController, Logon, LogoffBegins, LogoffEnds, Control, ControllerEnds,
        Finished, Calls, HostStartFails

LEMMA QueueStep ==
    ASSUME TypeOK, [Next]_vars
    PROVE  queue' \in Seq(Commands)
<1>0. queue \in Seq(Commands) /\ WindowsOK
    BY TypeParts
<1>1. CASE ReceiveReconcile
    <2> QED BY <1>1, <1>0 DEF ReceiveReconcile
<1>2. CASE ReceiveLogoff
    <2> QED BY <1>2, <1>0 DEF ReceiveLogoff
<1>3. CASE ReceivePreshutdown
    <2> QED BY <1>3, <1>0 DEF ReceivePreshutdown
<1>4. CASE ReceiveDetach
    <2> QED BY <1>4, <1>0 DEF ReceiveDetach
<1>5. CASE HostCrash
    <2> QED BY <1>5, <1>0 DEF HostCrash, HostLost
<1>6. CASE Logon
    <2>1. [type |-> "reconcile", logon |-> 0] \in Commands
        BY HostAssumption DEF Commands
    <2> QED BY <1>6, <1>0, <2>1 DEF Logon, Notify
<1>7. CASE \E n \in listed : LogoffBegins(n)
    <2>1. PICK n \in listed : LogoffBegins(n)
        BY <1>7
    <2>2. [type |-> "end", logon |-> n] \in Commands
        BY <1>0, HostAssumption DEF WindowsOK, Commands
    <2> QED BY <2>1, <1>0, <2>2 DEF LogoffBegins, Notify
<1>8. CASE \E command \in {"detach", "preshutdown"} : Control(command)
    <2>1. PICK command \in {"detach", "preshutdown"} : Control(command)
        BY <1>8
    <2>2. [type |-> command, logon |-> 0] \in Commands
        BY HostAssumption DEF Commands
    <2> QED BY <2>1, <1>0, <2>2 DEF Control, Notify
<1>9. CASE UNCHANGED queue
    BY <1>9, <1>0 DEF vars
<1>10. CASE \E n \in listed \cup seen.sessions : CrashInSave(n)
    <2>1. PICK n \in listed \cup seen.sessions : CrashInSave(n)
        BY <1>10
    <2>2. queue' = <<>>
        BY <2>1 DEF CrashInSave, HostLost
    <2> QED BY <2>2
<1> QED
    BY <1>1, <1>2, <1>3, <1>4, <1>5, <1>6, <1>7, <1>8, <1>9, <1>10 DEF Next, LoopStep, vars,
        windowsVars, countVars, Tick, ReadSessions, ReadRegistrations, ReconcileForget,
        ReconcileKeep, ReconcileStart, ReconcileEnd, EndRegistration, HostStart, HostStartFails,
        RunnerSeesExit, RunnerLaunches, RunnerObserves, Register, RegisterStarts,
        Unregister, UnregisterRemoves, UnregisterEnds, RestartController, LogoffEnds,
        ControllerEnds, Finished, Calls

LEMMA EntryStep ==
    ASSUME TypeOK, ShapeInv, SessionInv, [Next]_vars
    PROVE  RegistrationOK(entry')
<1>0. RecordsOK /\ RegistrationOK(entry) /\ entry \in Entries /\ RunnerOK(entry)
    BY TypeParts DEF RegistrationOK
<1>1. CASE ReceiveDetach
    BY <1>1, <1>0, BlankOK DEF ReceiveDetach
<1>2. CASE ReconcileForget
    BY <1>2, <1>0, BlankOK DEF ReconcileForget
<1>3. CASE ReconcileKeep
    BY <1>3, <1>0, BlankOK, ReconciledOK DEF ReconcileKeep
<1>4. CASE ReconcileStart
    <2> QED BY <1>4, ReconcileStartTypes
<1>5. CASE EndRegistration
    BY <1>5, <1>0, BlankOK DEF EndRegistration
<1>6. CASE HostCrash
    BY <1>6, <1>0, BlankOK DEF HostCrash, HostLost
<1>7. CASE HostStart
    <2>1. /\ Blank \in Entries
          /\ runtime.session \in Nat /\ runtime.logon \in 0..MaxLogons /\ runtime.pid \in Nat
        BY <1>0, BlankOK DEF RecordsOK, RegistrationOK
    <2> DEFINE read == [Blank EXCEPT !.session = runtime.session, !.logon = runtime.logon,
                                     !.recorded = runtime.pid]
    <2>2. read \in Entries
        BY <2>1, EntryUpdates
    <2>3. RunnerOK(read)
        BY DEF RunnerOK, Blank
    <2> QED BY <1>7, <2>2, <2>3, BlankOK DEF HostStart, RegistrationOK
<1>8. CASE RunnerSeesExit
    <2>1. entry' \in Entries
        BY <1>8, <1>0, EntryUpdates DEF RunnerSeesExit
    <2>2. RunnerOK(entry')
        BY <1>8, <1>0 DEF RunnerSeesExit, RunnerOK, Entries
    <2> QED BY <2>1, <2>2 DEF RegistrationOK
<1>9. CASE RunnerLaunches
    <2>1. /\ NewPid \in Nat \ {0} /\ entry \in Entries
          /\ \/ entry' = [entry EXCEPT !.runner = "launched", !.pid = NewPid]
             \/ entry' = entry
        BY <1>9, <1>0, NewPidFresh DEF RunnerLaunches, ShapeInv
    <2>2. entry' \in Entries
        <3>1. \A p \in Nat : [entry EXCEPT !.runner = "launched", !.pid = p] \in Entries
            BY <1>0, EntryUpdates
        <3> QED BY <2>1, <3>1
    <2>3. RunnerOK(entry')
        BY <1>9, <1>0, <2>1 DEF RunnerLaunches, RunnerOK, Entries
    <2> QED BY <2>2, <2>3 DEF RegistrationOK
<1>10. CASE RunnerObserves
    <2>1. entry' \in Entries
        BY <1>10, <1>0, EntryUpdates DEF RunnerObserves
    <2>2. RunnerOK(entry')
        BY <1>10, <1>0 DEF RunnerObserves, RunnerOK, Entries
    <2> QED BY <2>1, <2>2 DEF RegistrationOK
<1>11. CASE RegisterStarts
    <2> QED BY <1>11, RegisterStartsTypes
<1>12. CASE UnregisterRemoves
    BY <1>12, <1>0, BlankOK DEF UnregisterRemoves
<1>13. CASE UNCHANGED entry
    BY <1>13, <1>0
<1>14. CASE \E n \in listed \cup seen.sessions : CrashInSave(n)
    BY <1>14, BlankOK, SaveCrash DEF HostLost
<1> QED
    BY <1>1, <1>2, <1>3, <1>4, <1>5, <1>6, <1>7, <1>8, <1>9, <1>10, <1>11, <1>12,
        <1>13, <1>14 DEF Next, LoopStep, vars, windowsVars, countVars, Tick, ReceiveReconcile,
        ReceiveLogoff, ReceivePreshutdown, ReadSessions, ReadRegistrations, ReconcileEnd,
        Register, Unregister, UnregisterEnds, RestartController, Logon, LogoffBegins,
        LogoffEnds, Control, ControllerEnds, Finished, Calls, HostStartFails

LEMMA RemovedStep ==
    ASSUME TypeOK, [Next]_vars
    PROVE  RegistrationOK(removed')
<1>0. RegistrationOK(entry) /\ RegistrationOK(removed)
    BY TypeParts
<1>1. CASE ReceiveDetach
    BY <1>1, <1>0, BlankOK DEF ReceiveDetach
<1>2. CASE HostCrash
    BY <1>2, <1>0, BlankOK DEF HostCrash, HostLost
<1>3. CASE UnregisterRemoves
    BY <1>3, <1>0, BlankOK DEF UnregisterRemoves
<1>4. CASE UnregisterEnds
    BY <1>4, <1>0, BlankOK DEF UnregisterEnds
<1>5. CASE UNCHANGED removed
    BY <1>5, <1>0
<1>6. CASE \E n \in listed \cup seen.sessions : CrashInSave(n)
    <2>1. PICK n \in listed \cup seen.sessions : CrashInSave(n)
        BY <1>6
    <2>2. removed' = NoEntry
        BY <2>1 DEF CrashInSave, HostLost
    <2> QED BY <2>2, BlankOK
<1> QED
    BY <1>1, <1>2, <1>3, <1>4, <1>5, <1>6 DEF Next, LoopStep, vars, windowsVars, countVars,
        Tick, ReceiveReconcile, ReceiveLogoff, ReceivePreshutdown, ReadSessions,
        ReadRegistrations, ReconcileForget, ReconcileKeep, ReconcileStart, ReconcileEnd,
        EndRegistration, HostStart, HostStartFails, RunnerSeesExit, RunnerLaunches, RunnerObserves,
        Register, RegisterStarts, Unregister, RestartController, Logon, LogoffBegins,
        LogoffEnds, Control, ControllerEnds, Finished, Calls

LEMMA SeenStep ==
    ASSUME TypeOK, [Next]_vars
    PROVE  SeenOK'
<1>0. SeenOK /\ WindowsOK /\ registered \in BOOLEAN
    BY TypeParts
<1>1. CASE ReadSessions
    <2>0. WithoutEnding(listed) \in SUBSET (1..MaxLogons)
        BY <1>0 DEF WithoutEnding, WindowsOK
    <2>1. Conflicts(listed) \in BOOLEAN
        BY DEF Conflicts
    <2>2. seen' = [seen EXCEPT !.sessions = WithoutEnding(listed), !.conflict = Conflicts(listed)]
        BY <1>1 DEF ReadSessions
    <2> QED BY <1>0, <2>0, <2>1, <2>2 DEF SeenOK
<1>2. CASE ReadRegistrations
    BY <1>2, <1>0 DEF ReadRegistrations, SeenOK
<1>3. CASE ReconcileForget
    BY <1>3, <1>0 DEF ReconcileForget, Finished, NoReading, SeenOK
<1>4. CASE ReconcileKeep
    BY <1>4, <1>0 DEF ReconcileKeep, Finished, NoReading, SeenOK
<1>5. CASE ReconcileStart
    BY <1>5, <1>0 DEF ReconcileStart, Finished, NoReading, SeenOK
<1>6. CASE EndRegistration
    BY <1>6, <1>0 DEF EndRegistration, NoReading, SeenOK
<1>7. CASE HostCrash
    BY <1>7, <1>0 DEF HostCrash, HostLost, NoReading, SeenOK
<1>8. CASE UNCHANGED seen
    BY <1>8, <1>0 DEF SeenOK
<1>9. CASE \E n \in listed \cup seen.sessions : CrashInSave(n)
    <2>1. PICK n \in listed \cup seen.sessions : CrashInSave(n)
        BY <1>9
    <2>2. seen' = NoReading
        BY <2>1 DEF CrashInSave, HostLost
    <2> QED BY <2>2 DEF NoReading, SeenOK
<1> QED
    BY <1>1, <1>2, <1>3, <1>4, <1>5, <1>6, <1>7, <1>8, <1>9 DEF Next, LoopStep, vars,
        windowsVars, countVars, Tick, ReceiveReconcile, ReceiveLogoff, ReceivePreshutdown,
        ReceiveDetach, ReconcileEnd, HostStart, HostStartFails, RunnerSeesExit, RunnerLaunches,
        RunnerObserves, Register, RegisterStarts, Unregister, UnregisterRemoves,
        UnregisterEnds, RestartController, Logon, LogoffBegins, LogoffEnds, Control,
        ControllerEnds, Finished, Calls

LEMMA LoopTypeStep ==
    ASSUME TypeOK, EndInv, [Next]_vars
    PROVE  LoopOK'
<1>0. LoopOK /\ (loop = "logoff" => entry.logon \in 1..MaxLogons)
    BY TypeParts, HostAssumption DEF EndInv, Over, WindowsOK
<1>1. CASE Tick
    BY <1>1, <1>0 DEF Tick, LoopOK
<1>2. CASE ReceiveReconcile
    BY <1>2, <1>0 DEF ReceiveReconcile, LoopOK
<1>3. CASE ReceiveLogoff
    BY <1>3, <1>0 DEF ReceiveLogoff, LoopOK
<1>4. CASE ReceivePreshutdown
    BY <1>4, <1>0 DEF ReceivePreshutdown, LoopOK
<1>5. CASE ReceiveDetach
    BY <1>5, <1>0 DEF ReceiveDetach, LoopOK
<1>6. CASE ReadSessions
    BY <1>6, <1>0 DEF ReadSessions, LoopOK
<1>7. CASE ReadRegistrations
    BY <1>7, <1>0 DEF ReadRegistrations, LoopOK
<1>8. CASE ReconcileForget
    BY <1>8, <1>0 DEF ReconcileForget, Finished, LoopOK
<1>9. CASE ReconcileKeep
    BY <1>9, <1>0 DEF ReconcileKeep, Finished, LoopOK
<1>10. CASE ReconcileStart
    BY <1>10, <1>0 DEF ReconcileStart, Finished, LoopOK
<1>11. CASE ReconcileEnd
    BY <1>11, <1>0 DEF ReconcileEnd, LoopOK
<1>12. CASE EndRegistration
    <2>1. loop = "logoff" => entry.logon \in 1..MaxLogons
        BY <1>12, <1>0
    <2> QED BY <1>12, <1>0, <2>1 DEF EndRegistration, MarkEnding, LoopOK
<1>13. CASE HostCrash
    BY <1>13, <1>0 DEF HostCrash, HostLost, LoopOK
<1>14. CASE HostStart
    BY <1>14, <1>0 DEF HostStart, LoopOK
<1>15. CASE Register
    BY <1>15, <1>0 DEF Register, Calls, LoopOK
<1>16. CASE RegisterStarts
    BY <1>16, <1>0 DEF RegisterStarts, LoopOK
<1>17. CASE Unregister
    BY <1>17, <1>0 DEF Unregister, Calls, LoopOK
<1>18. CASE UnregisterRemoves
    BY <1>18, <1>0 DEF UnregisterRemoves, LoopOK
<1>19. CASE UnregisterEnds
    BY <1>19, <1>0 DEF UnregisterEnds, LoopOK
<1>20. CASE UNCHANGED <<host, loop, ending, call>>
    BY <1>20, <1>0 DEF LoopOK
<1>21. CASE \E n \in listed \cup seen.sessions : CrashInSave(n)
    <2>1. PICK n \in listed \cup seen.sessions : CrashInSave(n)
        BY <1>21
    <2>2. host' = "torn" /\ loop' = "idle" /\ ending' = {} /\ call' = "idle"
        BY <2>1 DEF CrashInSave, HostLost
    <2> QED BY <2>2 DEF LoopOK
<1>22. CASE HostStartFails
    BY <1>22, <1>0 DEF HostStartFails, LoopOK
<1> QED
    BY <1>1, <1>2, <1>3, <1>4, <1>5, <1>6, <1>7, <1>8, <1>9, <1>10, <1>11, <1>12, <1>13, <1>14,
        <1>15, <1>16, <1>17, <1>18, <1>19, <1>20, <1>21, <1>22 DEF Next, LoopStep, vars,
        windowsVars, countVars, RunnerSeesExit, RunnerLaunches, RunnerObserves,
        RestartController, Logon, LogoffBegins, LogoffEnds, Control, ControllerEnds, Finished,
        Calls

LEMMA TypeStep ==
    ASSUME TypeOK, ShapeInv, SessionInv, EndInv, [Next]_vars
    PROVE  TypeOK'
<1>1. WindowsOK' /\ SessionsOK' /\ ControllersOK' /\ RecordsOK' /\ LoopOK' /\ SeenOK'
    BY WindowsStep, SessionsStep, ControllersStep, RecordsStep, LoopTypeStep, SeenStep
<1>2. registered' \in BOOLEAN /\ queue' \in Seq(Commands)
    BY RegisteredStep, QueueStep
<1>3. RegistrationOK(entry') /\ RegistrationOK(removed')
    BY EntryStep, RemovedStep
<1> QED
    BY <1>1, <1>2, <1>3
    DEF TypeOK, WindowsOK, SessionsOK, ControllersOK, RecordsOK, LoopOK, SeenOK, RegistrationOK,
        RunnerOK

\* What a session that was started leaves behind.
Outcome(r, n, process) ==
    /\ entry'.present /\ entry'.session = SessionFor(r) /\ entry'.session # 0
    /\ entry'.logon = n /\ entry'.recorded = r.recorded
    /\ sessions' = IF r.session = 0 THEN sessions + 1 ELSE sessions
    /\ issued' = issued \cup {[logon |-> n, session |-> SessionFor(r)]}
    /\ runtime' = [session |-> SessionFor(r), logon |-> n,
                   pid |-> IF entry'.pid # 0 THEN entry'.pid ELSE r.recorded]
    /\ \/ /\ Adoptable(process, n) /\ entry'.runner = "watching" /\ entry'.pid = process
          /\ UNCHANGED ctls
       \/ /\ ~Adoptable(process, n) /\ entry'.runner = "watching" /\ entry'.pid = NewPid
          /\ n \in listed
          /\ ctls' = ctls \cup {[pid |-> NewPid, session |-> SessionFor(r), logon |-> n]}
       \/ /\ ~Adoptable(process, n) /\ entry'.runner = "backoff" /\ entry'.pid = 0
          /\ UNCHANGED ctls

LEMMA StartOutcome ==
    ASSUME TypeOK, ShapeInv, NEW r, RegistrationOK(r), r.present,
           NEW n \in 1..MaxLogons, NEW process \in Nat, NEW other,
           StartRunner(r, n, process, other)
    PROVE  Fails(other) \/ Outcome(r, n, process)
<1>1. /\ sessions \in Nat /\ ControllersOK /\ NewPid \in Nat \ {0} /\ n # 0
      /\ SessionFor(r) \in Nat \ {0}
    <2>1. sessions \in Nat /\ ControllersOK
        BY TypeParts DEF SessionsOK
    <2>2. NewPid \in Nat \ {0}
        BY NewPidFresh DEF ShapeInv
    <2>3. r.session \in Nat
        BY EntryFields
    <2>4. n # 0
        BY HostAssumption
    <2>5. SessionFor(r) \in Nat \ {0}
        BY <2>1, <2>3 DEF SessionFor
    <2> QED BY <2>1, <2>2, <2>4, <2>5
<1>2. ASSUME NEW p \in Nat, NEW run \in {"backoff", "watching"}, p # 0 <=> run = "watching",
             Begun(r, n, run, p)
      PROVE  /\ entry'.present /\ entry'.session = SessionFor(r) /\ entry'.session # 0
             /\ entry'.logon = n /\ entry'.recorded = r.recorded
             /\ entry'.runner = run /\ entry'.pid = p
             /\ sessions' = IF r.session = 0 THEN sessions + 1 ELSE sessions
             /\ issued' = issued \cup {[logon |-> n, session |-> SessionFor(r)]}
             /\ runtime' = [session |-> SessionFor(r), logon |-> n,
                            pid |-> IF entry'.pid # 0 THEN entry'.pid ELSE r.recorded]
    <2>1. /\ entry'.present /\ entry'.session = SessionFor(r) /\ entry'.logon = n
          /\ entry'.runner = run /\ entry'.pid = p /\ entry'.recorded = r.recorded
        BY <1>1, <1>2, BegunFields
    <2>2. runtime' = Persisted(entry')
        BY <1>2 DEF Begun
    <2>3. runtime' = [session |-> SessionFor(r), logon |-> n,
                      pid |-> IF entry'.pid # 0 THEN entry'.pid ELSE r.recorded]
        BY <1>1, <2>1, <2>2 DEF Persisted
    <2> QED BY <1>1, <1>2, <2>1, <2>3 DEF Begun
<1>3. CASE Adopts(r, n, process)
    <2>1. process # 0
        BY <1>1, <1>3 DEF Adopts, Adoptable, ControllersOK
    <2>2. Begun(r, n, "watching", process) /\ Adoptable(process, n) /\ UNCHANGED ctls
        BY <1>3 DEF Adopts
    <2> QED BY <1>2, <2>1, <2>2 DEF Outcome
<1>4. CASE Launches(r, n, process)
    <2>1. /\ Begun(r, n, "watching", NewPid) /\ ~Adoptable(process, n) /\ n \in listed
          /\ ctls' = ctls \cup {[pid |-> NewPid, session |-> SessionFor(r), logon |-> n]}
        BY <1>4 DEF Launches, NewController
    <2> QED BY <1>1, <1>2, <2>1 DEF Outcome
<1>5. CASE Retries(r, n, process)
    <2>1. Begun(r, n, "backoff", 0) /\ ~Adoptable(process, n) /\ UNCHANGED ctls
        BY <1>5 DEF Retries, LaunchFails
    <2> QED BY <1>2, <2>1 DEF Outcome
<1> QED BY <1>3, <1>4, <1>5, StartCases

\* A reconciliation that starts a session for a logon it has read.
LEMMA ReconcileStartOutcome ==
    ASSUME TypeOK, ShapeInv, ReconcileStart
    PROVE  \E n \in seen.sessions :
             LET process == IF Reconciled.logon = n THEN Reconciled.recorded ELSE 0
             IN \/ Fails(Taken(n)) /\ touched' = touched \cup {n}
                   /\ runtime' = IF Reconciled.logon # n THEN NoRuntime ELSE runtime
                \/ Outcome(Taken(n), n, process) /\ UNCHANGED touched
<1>1. PICK n \in seen.sessions :
        /\ StartRunner(Taken(n), n, ForLogon(Reconciled, n).recorded, Taken(n))
        /\ entry'.runner = "none" => runtime' = IF Reconciled.logon # n THEN NoRuntime ELSE runtime
        /\ touched' = IF entry'.runner = "none" THEN touched \cup {n} ELSE touched
    BY DEF ReconcileStart, Taken
<1>2. n \in 1..MaxLogons /\ Reconciled.runner = "none"
    BY TypeParts DEF SeenOK, ReconcileStart
<1>3. RegistrationOK(Taken(n)) /\ Taken(n).present /\ Taken(n).runner = "none"
    BY <1>2, TakenOK
<1>4. ForLogon(Reconciled, n).recorded = IF Reconciled.logon = n THEN Reconciled.recorded ELSE 0
    BY ReconciledOK DEF ForLogon, RegistrationOK, Entries
<1>5. ForLogon(Reconciled, n).recorded \in Nat
    BY <1>4, ReconciledOK, EntryFields
<1>6. Fails(Taken(n)) \/ Outcome(Taken(n), n, ForLogon(Reconciled, n).recorded)
    BY <1>1, <1>2, <1>3, <1>5, StartOutcome
<1>7. ASSUME Fails(Taken(n))
      PROVE  /\ touched' = touched \cup {n}
             /\ runtime' = IF Reconciled.logon # n THEN NoRuntime ELSE runtime
    BY <1>1, <1>3, <1>7 DEF Fails
<1>8. ASSUME Outcome(Taken(n), n, ForLogon(Reconciled, n).recorded)
      PROVE  /\ Outcome(Taken(n), n, IF Reconciled.logon = n THEN Reconciled.recorded ELSE 0)
             /\ UNCHANGED touched
    <2>1. entry'.runner # "none"
        BY <1>8 DEF Outcome
    <2> QED BY <1>1, <1>4, <1>8, <2>1
<1> QED BY <1>6, <1>7, <1>8

\* A registration call that starts a session, or leaves the entry.
LEMMA RegisterStartsOutcome ==
    ASSUME TypeOK, ShapeInv, RegisterStarts
    PROVE  \/ \E n \in listed :
                /\ Reconciled.runner = "none"
                /\ Outcome([Reconciled EXCEPT !.session = 0], n, 0)
           \/ entry' = Reconciled /\ UNCHANGED <<ctls, runtime, sessions, issued>>
<1>1. ASSUME Reconciled.runner = "none", NEW n \in listed,
             StartRunner([Reconciled EXCEPT !.session = 0], n, 0, Reconciled),
             entry'.runner = "none" => UNCHANGED runtime
      PROVE  \/ Outcome([Reconciled EXCEPT !.session = 0], n, 0)
             \/ entry' = Reconciled /\ UNCHANGED <<ctls, runtime, sessions, issued>>
    <2> DEFINE r == [Reconciled EXCEPT !.session = 0]
    <2>1. RegistrationOK(r) /\ r.present /\ n \in 1..MaxLogons
        BY <1>1, AnewOK, TypeParts DEF WindowsOK
    <2>2. Fails(Reconciled) \/ Outcome(r, n, 0)
        BY <1>1, <2>1, StartOutcome
    <2> QED BY <1>1, <2>2 DEF Fails
<1>2. \/ Reconciled.runner = "none" /\ \E n \in listed :
           /\ StartRunner([Reconciled EXCEPT !.session = 0], n, 0, Reconciled)
           /\ entry'.runner = "none" => UNCHANGED runtime
      \/ entry' = Reconciled /\ UNCHANGED <<ctls, runtime, sessions, issued>>
    BY DEF RegisterStarts, countVars
<1> QED BY <1>1, <1>2

LEMMA ListedStep ==
    ASSUME TypeOK, ShapeInv, [Next]_vars
    PROVE  listed' \subseteq 1..logons' /\ seen'.sessions \subseteq 1..logons'
<1>0. /\ listed \subseteq 1..logons /\ seen.sessions \subseteq 1..logons /\ logons \in Nat
      /\ SeenOK
    BY TypeParts, HostAssumption DEF ShapeInv, WindowsOK
<1>1. CASE ReadSessions
    <2>1. seen' = [seen EXCEPT !.sessions = WithoutEnding(listed), !.conflict = Conflicts(listed)]
        BY <1>1 DEF ReadSessions
    <2>2. seen'.sessions = WithoutEnding(listed)
        BY <2>1, <1>0 DEF SeenOK
    <2>3. UNCHANGED <<listed, logons>>
        BY <1>1 DEF ReadSessions, windowsVars
    <2> QED BY <2>2, <2>3, <1>0 DEF WithoutEnding
<1>2. CASE ReadRegistrations
    <2>1. seen'.sessions = seen.sessions
        BY <1>2, <1>0 DEF ReadRegistrations, SeenOK
    <2> QED BY <1>2, <2>1, <1>0 DEF ReadRegistrations, windowsVars
<1>3. CASE ReconcileForget
    BY <1>3, <1>0 DEF ReconcileForget, Finished, NoReading
<1>4. CASE ReconcileKeep
    BY <1>4, <1>0 DEF ReconcileKeep, Finished, NoReading
<1>5. CASE ReconcileStart
    BY <1>5, <1>0 DEF ReconcileStart, Finished, NoReading
<1>6. CASE EndRegistration
    BY <1>6, <1>0 DEF EndRegistration, windowsVars, NoReading
<1>7. CASE HostCrash
    BY <1>7, <1>0 DEF HostCrash, HostLost, windowsVars, NoReading
<1>8. CASE Logon
    BY <1>8, <1>0 DEF Logon
<1>9. CASE \E n \in listed : LogoffEnds(n)
    BY <1>9, <1>0 DEF LogoffEnds
<1>10. CASE UNCHANGED <<listed, logons, seen>>
    BY <1>10, <1>0
<1>11. CASE \E n \in listed \cup seen.sessions : CrashInSave(n)
    <2>1. PICK n \in listed \cup seen.sessions : CrashInSave(n)
        BY <1>11
    <2>2. seen' = NoReading /\ UNCHANGED <<listed, logons>>
        BY <2>1, SaveCrash DEF HostLost
    <2> QED BY <2>2, <1>0 DEF NoReading
<1> QED
    BY <1>1, <1>2, <1>3, <1>4, <1>5, <1>6, <1>7, <1>8, <1>9, <1>10, <1>11 DEF Next, LoopStep,
        vars, windowsVars, countVars, Tick, ReceiveReconcile, ReceiveLogoff,
        ReceivePreshutdown, ReceiveDetach, ReconcileEnd, HostStart, HostStartFails, RunnerSeesExit,
        RunnerLaunches, RunnerObserves, Register, RegisterStarts, Unregister,
        UnregisterRemoves, UnregisterEnds, RestartController, LogoffBegins, Control,
        ControllerEnds, Finished, Calls

LEMMA FiniteStep ==
    ASSUME TypeOK, ShapeInv, [Next]_vars
    PROVE  IsFiniteSet(ctls')
<1>0. IsFiniteSet(ctls)
    BY DEF ShapeInv
<1>1. ASSUME ctls' \subseteq ctls
      PROVE  IsFiniteSet(ctls')
    BY <1>0, <1>1, FS_Subset
<1>2. ASSUME NEW c, ctls' = ctls \cup {c}
      PROVE  IsFiniteSet(ctls')
    BY <1>0, <1>2, FS_AddElement
<1>3. CASE ReconcileStart
    <2>1. PICK n \in seen.sessions :
            \/ Fails(Taken(n))
            \/ Outcome(Taken(n), n, IF Reconciled.logon = n THEN Reconciled.recorded ELSE 0)
        BY <1>3, ReconcileStartOutcome
    <2> QED BY <1>1, <1>2, <2>1 DEF Fails, Outcome
<1>4. CASE RegisterStarts
    BY <1>1, <1>2, <1>4, RegisterStartsOutcome DEF Outcome
<1>5. CASE RunnerLaunches
    BY <1>1, <1>2, <1>5 DEF RunnerLaunches, NewController, LaunchFails
<1>6. CASE EndRegistration \/ UnregisterEnds \/ RestartController
    BY <1>1, <1>6 DEF EndRegistration, UnregisterEnds, RestartController, JoinRunner
<1>7. CASE \E n \in listed : LogoffEnds(n)
    BY <1>1, <1>7 DEF LogoffEnds
<1>8. CASE \E c \in ctls : ControllerEnds(c)
    BY <1>1, <1>8 DEF ControllerEnds
<1>9. CASE UNCHANGED ctls
    BY <1>0, <1>9
<1>10. CASE \E n \in listed \cup seen.sessions : CrashInSave(n)
    BY <1>1, <1>2, <1>10, SaveCrash
<1> QED
    BY <1>3, <1>4, <1>5, <1>6, <1>7, <1>8, <1>9, <1>10 DEF Next, LoopStep, vars, Tick,
        ReceiveReconcile, ReceiveLogoff, ReceivePreshutdown, ReceiveDetach, ReadSessions,
        ReadRegistrations, ReconcileForget, ReconcileKeep, ReconcileEnd, HostCrash, HostLost,
        HostStart, HostStartFails, RunnerSeesExit, RunnerObserves, Register, Unregister,
        UnregisterRemoves, Logon, LogoffBegins, Control, Finished, Calls

LEMMA PresentStep ==
    ASSUME TypeOK, ShapeInv, [Next]_vars
    PROVE  ~entry'.present => entry' = NoEntry
<1>0. /\ ~entry.present => entry = NoEntry
      /\ entry \in Entries /\ (entry.runner # "none" => entry.present)
    BY TypeParts DEF ShapeInv, RegistrationOK, RunnerOK
<1>1. CASE ReceiveDetach
    BY <1>1, <1>0 DEF ReceiveDetach
<1>2. CASE ReconcileForget
    BY <1>2, <1>0 DEF ReconcileForget
<1>3. CASE ReconcileKeep
    BY <1>3, <1>0, ReconciledOK DEF ReconcileKeep
<1>4. CASE ReconcileStart
    <2>1. PICK n \in seen.sessions :
            \/ Fails(Taken(n))
            \/ Outcome(Taken(n), n, IF Reconciled.logon = n THEN Reconciled.recorded ELSE 0)
        BY <1>4, ReconcileStartOutcome
    <2>2. Taken(n).present
        BY <1>4, TakenOK, TypeParts DEF ReconcileStart, SeenOK
    <2> QED BY <2>1, <2>2 DEF Fails, Outcome
<1>5. CASE EndRegistration
    BY <1>5, <1>0 DEF EndRegistration, Blank
<1>6. CASE HostCrash
    BY <1>6, <1>0 DEF HostCrash, HostLost
<1>7. CASE HostStart
    BY <1>7, <1>0 DEF HostStart, Blank
<1>8. CASE RunnerSeesExit
    BY <1>8, <1>0 DEF RunnerSeesExit, Entries
<1>9. CASE RunnerLaunches
    BY <1>9, <1>0 DEF RunnerLaunches, Entries
<1>10. CASE RunnerObserves
    BY <1>10, <1>0 DEF RunnerObserves, Entries
<1>11. CASE RegisterStarts
    <2> QED BY <1>11, RegisterStartsOutcome, ReconciledOK DEF Outcome
<1>12. CASE UnregisterRemoves
    BY <1>12, <1>0 DEF UnregisterRemoves
<1>13. CASE UNCHANGED entry
    BY <1>13, <1>0
<1>14. CASE \E n \in listed \cup seen.sessions : CrashInSave(n)
    BY <1>14, SaveCrash DEF HostLost
<1> QED
    BY <1>1, <1>2, <1>3, <1>4, <1>5, <1>6, <1>7, <1>8, <1>9, <1>10, <1>11, <1>12,
        <1>13, <1>14 DEF Next, LoopStep, vars, windowsVars, countVars, Tick, ReceiveReconcile,
        ReceiveLogoff, ReceivePreshutdown, ReadSessions, ReadRegistrations, ReconcileEnd,
        Register, Unregister, UnregisterEnds, RestartController, Logon, LogoffBegins,
        LogoffEnds, Control, ControllerEnds, Finished, Calls, HostStartFails

LEMMA HostStateStep ==
    ASSUME TypeOK, ShapeInv, [Next]_vars
    PROVE  /\ loop' # "idle" => Running'
           /\ host' \in {"down", "torn", "failed"} => entry' = NoEntry /\ call' = "idle"
<1>0. /\ loop # "idle" => Running
      /\ host \in {"down", "torn", "failed"} => entry = NoEntry /\ call = "idle"
    BY DEF ShapeInv
<1>1. CASE Tick
    BY <1>1, <1>0 DEF Tick, Running
<1>2. CASE ReceiveReconcile
    BY <1>2, <1>0 DEF ReceiveReconcile, Running
<1>3. CASE ReceiveLogoff
    BY <1>3, <1>0 DEF ReceiveLogoff, Running
<1>4. CASE ReceivePreshutdown
    BY <1>4, <1>0 DEF ReceivePreshutdown, Running
<1>5. CASE ReceiveDetach
    BY <1>5, <1>0 DEF ReceiveDetach, Running
<1>6. CASE ReadSessions
    BY <1>6, <1>0 DEF ReadSessions, Running
<1>7. CASE ReadRegistrations
    BY <1>7, <1>0 DEF ReadRegistrations, Running
<1>8. CASE ReconcileForget
    BY <1>8, <1>0 DEF ReconcileForget, Finished, Running
<1>9. CASE ReconcileKeep
    BY <1>9, <1>0 DEF ReconcileKeep, Finished, Running
<1>10. CASE ReconcileStart
    BY <1>10, <1>0 DEF ReconcileStart, Finished, Running
<1>11. CASE ReconcileEnd
    BY <1>11, <1>0 DEF ReconcileEnd, Running
<1>12. CASE EndRegistration
    BY <1>12, <1>0 DEF EndRegistration, Locked, Running
<1>13. CASE HostCrash
    BY <1>13, <1>0 DEF HostCrash, HostLost, Running
<1>14. CASE HostStart
    BY <1>14, <1>0 DEF HostStart, Running
<1>15. CASE RunnerSeesExit
    BY <1>15, <1>0 DEF RunnerSeesExit, NoEntry, Blank, Running
<1>16. CASE RunnerLaunches
    BY <1>16, <1>0 DEF RunnerLaunches, NoEntry, Blank, Running
<1>17. CASE RunnerObserves
    BY <1>17, <1>0 DEF RunnerObserves, NoEntry, Blank, Running
<1>18. CASE Register
    BY <1>18, <1>0 DEF Register, Calls, Running
<1>19. CASE RegisterStarts
    BY <1>19, <1>0 DEF RegisterStarts, Running
<1>20. CASE Unregister
    BY <1>20, <1>0 DEF Unregister, Calls, Running
<1>21. CASE UnregisterRemoves
    BY <1>21, <1>0 DEF UnregisterRemoves, Running
<1>22. CASE UnregisterEnds
    BY <1>22, <1>0 DEF UnregisterEnds, Running
<1>23. CASE UNCHANGED <<loop, host, entry, call>>
    BY <1>23, <1>0 DEF Running
<1>24. CASE \E n \in listed \cup seen.sessions : CrashInSave(n)
    BY <1>24, SaveCrash DEF HostLost
<1>25. CASE HostStartFails
    BY <1>25, <1>0 DEF HostStartFails, Running
<1> QED
    BY <1>1, <1>2, <1>3, <1>4, <1>5, <1>6, <1>7, <1>8, <1>9, <1>10, <1>11, <1>12, <1>13, <1>14,
        <1>15, <1>16, <1>17, <1>18, <1>19, <1>20, <1>21, <1>22, <1>23, <1>24, <1>25 DEF Next,
        LoopStep, vars, windowsVars, countVars, RestartController, Logon, LogoffBegins,
        LogoffEnds, Control, ControllerEnds, Finished, Calls

LEMMA EntryPairStep ==
    ASSUME TypeOK, ShapeInv, [Next]_vars
    PROVE  entry'.session = 0 <=> entry'.logon = 0
<1>0. /\ entry.session = 0 <=> entry.logon = 0
      /\ runtime.session = 0 <=> runtime.logon = 0
      /\ entry \in Entries
    BY TypeParts DEF ShapeInv, RegistrationOK
<1>1. CASE ReceiveDetach
    BY <1>1, <1>0 DEF ReceiveDetach, NoEntry, Blank
<1>2. CASE ReconcileForget
    BY <1>2, <1>0 DEF ReconcileForget, NoEntry, Blank
<1>3. CASE ReconcileKeep
    BY <1>3, <1>0 DEF ReconcileKeep, Reconciled, Blank
<1>4. CASE ReconcileStart
    <2>1. PICK n \in seen.sessions :
            \/ Fails(Taken(n))
            \/ Outcome(Taken(n), n, IF Reconciled.logon = n THEN Reconciled.recorded ELSE 0)
        BY <1>4, ReconcileStartOutcome
    <2>2. (Taken(n).session = 0 <=> Taken(n).logon = 0) /\ n # 0
        BY <1>4, <1>0, TakenOK, TypeParts DEF ReconcileStart, SeenOK, Reconciled, Blank
    <2> QED BY <2>1, <2>2 DEF Fails, Outcome
<1>5. CASE EndRegistration
    BY <1>5, <1>0 DEF EndRegistration, Blank
<1>6. CASE HostCrash
    BY <1>6, <1>0 DEF HostCrash, HostLost, NoEntry, Blank
<1>7. CASE HostStart
    BY <1>7, <1>0 DEF HostStart, NoEntry, Blank
<1>8. CASE RunnerSeesExit
    BY <1>8, <1>0 DEF RunnerSeesExit, Entries
<1>9. CASE RunnerLaunches
    BY <1>9, <1>0 DEF RunnerLaunches, Entries
<1>10. CASE RunnerObserves
    BY <1>10, <1>0 DEF RunnerObserves, Entries
<1>11. CASE RegisterStarts
    <2>1. (Reconciled.session = 0 <=> Reconciled.logon = 0) /\ 0 \notin listed
        BY <1>0, TypeParts DEF Reconciled, Blank, WindowsOK
    <2> QED BY <1>11, <2>1, RegisterStartsOutcome DEF Outcome
<1>12. CASE UnregisterRemoves
    BY <1>12, <1>0 DEF UnregisterRemoves, NoEntry, Blank
<1>13. CASE UNCHANGED entry
    BY <1>13, <1>0
<1>14. CASE \E n \in listed \cup seen.sessions : CrashInSave(n)
    BY <1>14, SaveCrash DEF HostLost, NoEntry, Blank
<1> QED
    BY <1>1, <1>2, <1>3, <1>4, <1>5, <1>6, <1>7, <1>8, <1>9, <1>10, <1>11, <1>12,
        <1>13, <1>14 DEF Next, LoopStep, vars, windowsVars, countVars, Tick, ReceiveReconcile,
        ReceiveLogoff, ReceivePreshutdown, ReadSessions, ReadRegistrations, ReconcileEnd,
        Register, Unregister, UnregisterEnds, RestartController, Logon, LogoffBegins,
        LogoffEnds, Control, ControllerEnds, Finished, Calls, HostStartFails

LEMMA RecordPairStep ==
    ASSUME TypeOK, ShapeInv, [Next]_vars
    PROVE  runtime'.session = 0 <=> runtime'.logon = 0
<1>0. /\ entry.session = 0 <=> entry.logon = 0
      /\ runtime.session = 0 <=> runtime.logon = 0
    BY DEF ShapeInv
<1>1. CASE ReceiveDetach
    BY <1>1, <1>0 DEF ReceiveDetach, Persisted
<1>2. CASE ReconcileKeep
    BY <1>2, <1>0 DEF ReconcileKeep, Persisted, Reconciled, Blank
<1>3. CASE ReconcileStart
    <2>1. PICK n \in seen.sessions :
            \/ runtime' = IF Reconciled.logon # n THEN NoRuntime ELSE runtime
            \/ Outcome(Taken(n), n, IF Reconciled.logon = n THEN Reconciled.recorded ELSE 0)
        BY <1>3, ReconcileStartOutcome
    <2>2. n # 0
        BY TypeParts DEF SeenOK
    <2>3. ASSUME Outcome(Taken(n), n, IF Reconciled.logon = n THEN Reconciled.recorded ELSE 0)
          PROVE  runtime'.session # 0 /\ runtime'.logon # 0
        BY <2>2, <2>3 DEF Outcome
    <2> QED BY <2>1, <2>3, <1>0 DEF NoRuntime
<1>4. CASE EndRegistration
    BY <1>4, <1>0 DEF EndRegistration, NoRuntime
<1>5. CASE HostStart
    BY <1>5, <1>0 DEF HostStart, NoRuntime
<1>6. CASE RunnerSeesExit
    BY <1>6, <1>0 DEF RunnerSeesExit
<1>7. CASE RunnerObserves
    BY <1>7, <1>0 DEF RunnerObserves
<1>8. CASE RegisterStarts
    <2>1. ASSUME NEW n \in listed, Outcome([Reconciled EXCEPT !.session = 0], n, 0)
          PROVE  runtime'.session # 0 /\ runtime'.logon # 0
        BY <2>1, TypeParts DEF Outcome, WindowsOK
    <2> QED BY <1>8, <1>0, <2>1, RegisterStartsOutcome
<1>9. CASE UnregisterEnds
    BY <1>9, <1>0 DEF UnregisterEnds, NoRuntime
<1>10. CASE UNCHANGED runtime
    BY <1>10, <1>0
<1>11. CASE \E n \in listed \cup seen.sessions : CrashInSave(n)
    BY <1>11, SaveCrash DEF NoRuntime
<1> QED
    BY <1>1, <1>2, <1>3, <1>4, <1>5, <1>6, <1>7, <1>8, <1>9, <1>10, <1>11 DEF Next, LoopStep,
        vars, windowsVars, countVars, Tick, ReceiveReconcile, ReceiveLogoff,
        ReceivePreshutdown, ReadSessions, ReadRegistrations, ReconcileForget,
        ReconcileEnd, HostCrash, HostLost, RunnerLaunches, Register, Unregister, UnregisterRemoves,
        RestartController, Logon, LogoffBegins, LogoffEnds, Control, ControllerEnds,
        Finished, Calls, HostStartFails

LEMMA ShapeStep ==
    ASSUME TypeOK, ShapeInv, [Next]_vars
    PROVE  ShapeInv'
<1>1. listed' \subseteq 1..logons' /\ seen'.sessions \subseteq 1..logons' /\ IsFiniteSet(ctls')
    BY ListedStep, FiniteStep
<1>2. ~entry'.present => entry' = NoEntry
    BY PresentStep
<1>3. /\ loop' # "idle" => Running'
      /\ host' \in {"down", "torn", "failed"} => entry' = NoEntry /\ call' = "idle"
    BY HostStateStep
<1>4. (entry'.session = 0 <=> entry'.logon = 0) /\ (runtime'.session = 0 <=> runtime'.logon = 0)
    BY EntryPairStep, RecordPairStep
<1> QED BY <1>1, <1>2, <1>3, <1>4 DEF ShapeInv

-----------------------------------------------------------------------------
(* Sessions, processes and logoffs. *)

LEMMA NewSession ==
    ASSUME TypeOK, ShapeInv, SessionInv, NEW r, NEW n \in 1..logons, NEW process,
           Outcome(r, n, process), UNCHANGED logons,
           r.session # 0 => [logon |-> n, session |-> r.session] \in issued
    PROVE  SessionInv'
<1> DEFINE new == [logon |-> n, session |-> SessionFor(r)]
<1>1. /\ sessions \in Nat /\ issued' = issued \cup {new}
      /\ sessions' = IF r.session = 0 THEN sessions + 1 ELSE sessions
    BY TypeParts DEF SessionsOK, Outcome
<1>2. \A q \in issued : q.session \in 1..sessions /\ q.logon \in 1..logons
    BY DEF SessionInv
<1>3. \A q, x \in issued : q.session = x.session => q.logon = x.logon
    BY DEF SessionInv
<1>4. \/ r.session = 0 /\ new.session = sessions + 1
      \/ r.session # 0 /\ new \in issued
    BY DEF SessionFor
<1>5. \A q \in issued' : q.session \in 1..sessions' /\ q.logon \in 1..logons'
    BY <1>1, <1>2, <1>4
<1>6. \A q, x \in issued' : q.session = x.session => q.logon = x.logon
    BY <1>1, <1>2, <1>3, <1>4
<1>7. \A q \in {entry', runtime'} : [logon |-> q.logon, session |-> q.session] \in issued'
    <2>1. entry'.logon = n /\ entry'.session = SessionFor(r)
        BY DEF Outcome
    <2>2. runtime'.logon = n /\ runtime'.session = SessionFor(r)
        BY DEF Outcome
    <2> QED BY <1>1, <2>1, <2>2
<1> QED BY <1>5, <1>6, <1>7 DEF SessionInv

LEMMA SessionStep ==
    ASSUME TypeOK, ShapeInv, SessionInv, [Next]_vars
    PROVE  SessionInv'
<1>0. SessionInv /\ entry \in Entries /\ logons \in Nat
    BY TypeParts, HostAssumption DEF RegistrationOK, WindowsOK
<1>1. CASE ReceiveDetach
    BY <1>1, <1>0 DEF ReceiveDetach, Persisted, NoEntry, Blank, countVars,
        windowsVars, SessionInv
<1>2. CASE ReconcileForget
    BY <1>2, <1>0 DEF ReconcileForget, NoEntry, Blank, countVars, Finished, SessionInv
<1>3. CASE ReconcileKeep
    BY <1>3, <1>0 DEF ReconcileKeep, Persisted, Reconciled, Blank, countVars,
        Finished, SessionInv
<1>4. CASE ReconcileStart
    <2>1. PICK n \in seen.sessions :
            \/ Fails(Taken(n)) /\ runtime' = IF Reconciled.logon # n THEN NoRuntime ELSE runtime
            \/ Outcome(Taken(n), n, IF Reconciled.logon = n THEN Reconciled.recorded ELSE 0)
        BY <1>4, ReconcileStartOutcome
    <2>2. UNCHANGED logons /\ n \in 1..logons /\ Reconciled.runner = "none"
        BY <1>4 DEF ReconcileStart, Finished, ShapeInv
    <2>3. /\ Taken(n).session = IF Reconciled.logon = n THEN Reconciled.session ELSE 0
          /\ Taken(n).logon = IF Reconciled.logon = n THEN n ELSE 0
        BY <2>2, TakenOK, TypeParts DEF SeenOK
    <2>4. CASE Outcome(Taken(n), n, IF Reconciled.logon = n THEN Reconciled.recorded ELSE 0)
        <3>1. Taken(n).session # 0 => [logon |-> n, session |-> Taken(n).session] \in issued
            BY <2>3 DEF SessionInv, Reconciled, Blank
        <3> QED BY <2>2, <2>4, <3>1, NewSession
    <2>5. CASE Fails(Taken(n)) /\ runtime' = IF Reconciled.logon # n THEN NoRuntime ELSE runtime
        BY <2>2, <2>3, <2>5 DEF Fails, SessionInv, NoRuntime, Reconciled, Blank
    <2> QED BY <2>1, <2>4, <2>5
<1>5. CASE EndRegistration
    BY <1>5, <1>0 DEF EndRegistration, Blank, NoRuntime, countVars, windowsVars,
        SessionInv
<1>6. CASE HostCrash
    BY <1>6, <1>0 DEF HostCrash, HostLost, NoEntry, Blank, countVars, windowsVars, SessionInv
<1>7. CASE HostStart
    <2>1. \/ entry'.logon = runtime.logon /\ entry'.session = runtime.session /\ UNCHANGED runtime
          \/ entry'.session = 0 /\ runtime' = NoRuntime
        BY <1>7 DEF HostStart, Blank, NoEntry
    <2>2. UNCHANGED <<issued, sessions, logons>>
        BY <1>7 DEF HostStart, countVars, windowsVars
    <2> QED BY <1>0, <2>1, <2>2 DEF SessionInv, NoRuntime
<1>8. CASE RunnerSeesExit
    BY <1>8, <1>0 DEF RunnerSeesExit, Entries, countVars, windowsVars, SessionInv
<1>9. CASE RunnerLaunches
    <2>1. entry'.logon = entry.logon /\ entry'.session = entry.session
        BY <1>9, <1>0 DEF RunnerLaunches, Entries
    <2>2. UNCHANGED <<issued, sessions, logons, runtime>>
        BY <1>9 DEF RunnerLaunches, windowsVars
    <2> QED BY <1>0, <2>1, <2>2 DEF SessionInv
<1>10. CASE RunnerObserves
    BY <1>10, <1>0 DEF RunnerObserves, Entries, countVars, windowsVars, SessionInv
<1>11. CASE RegisterStarts
    <2>1. UNCHANGED logons
        BY <1>11 DEF RegisterStarts, windowsVars
    <2>2. CASE \E n \in listed :
                 Reconciled.runner = "none" /\ Outcome([Reconciled EXCEPT !.session = 0], n, 0)
        BY <2>1, <2>2, NewSession, AnewOK DEF ShapeInv
    <2>3. CASE entry' = Reconciled /\ UNCHANGED <<ctls, runtime, sessions, issued>>
        BY <2>1, <2>3 DEF SessionInv, Reconciled, Blank
    <2> QED BY <1>11, <2>2, <2>3, RegisterStartsOutcome
<1>12. CASE UnregisterRemoves
    BY <1>12, <1>0 DEF UnregisterRemoves, NoEntry, Blank, countVars, SessionInv
<1>13. CASE UnregisterEnds
    BY <1>13, <1>0 DEF UnregisterEnds, NoRuntime, countVars, windowsVars, SessionInv
<1>14. CASE Logon
    BY <1>14, <1>0 DEF Logon, countVars, SessionInv
<1>15. CASE UNCHANGED <<entry, runtime, issued, sessions, logons>>
    BY <1>15, <1>0 DEF SessionInv
<1>16. CASE \E n \in listed \cup seen.sessions : CrashInSave(n)
    <2>1. PICK n \in listed \cup seen.sessions : CrashInSave(n)
        BY <1>16
    <2>2. /\ n \in 1..logons /\ sessions \in Nat /\ sessions' = sessions + 1 /\ UNCHANGED logons
          /\ issued' = issued \cup {[logon |-> n, session |-> sessions + 1]}
          /\ entry' = NoEntry /\ runtime' = NoRuntime
        BY <2>1, SaveCrash DEF HostLost
    <2>3. \A r \in issued : r.session \in 1..sessions /\ r.logon \in 1..logons
        BY <1>0 DEF SessionInv
    <2>4. \A r \in issued' : r.session \in 1..sessions' /\ r.logon \in 1..logons'
        BY <2>2, <2>3
    <2>5. \A r, q \in issued' : r.session = q.session => r.logon = q.logon
        BY <1>0, <2>2, <2>3 DEF SessionInv
    <2>6. entry'.session = 0 /\ runtime'.session = 0
        BY <2>2 DEF NoEntry, Blank, NoRuntime
    <2> QED BY <2>4, <2>5, <2>6 DEF SessionInv
<1> QED
    BY <1>1, <1>2, <1>3, <1>4, <1>5, <1>6, <1>7, <1>8, <1>9, <1>10, <1>11, <1>12,
        <1>13, <1>14, <1>15, <1>16 DEF Next, LoopStep, vars, windowsVars, countVars, Tick,
        ReceiveReconcile, ReceiveLogoff, ReceivePreshutdown, ReadSessions,
        ReadRegistrations, ReconcileEnd, Register, Unregister, RestartController,
        LogoffBegins, LogoffEnds, Control, ControllerEnds, Finished, Calls, HostStartFails

LEMMA PidStep ==
    ASSUME TypeOK, ShapeInv, PidInv, [Next]_vars
    PROVE  PidInv'
<1>0. PidInv /\ \A c \in ctls : c.pid # NewPid
    BY NewPidFresh DEF ShapeInv
<1>1. ASSUME ctls' \subseteq ctls
      PROVE  PidInv'
    BY <1>0, <1>1 DEF PidInv
<1>2. ASSUME NEW s, NEW n, ctls' = ctls \cup {[pid |-> NewPid, session |-> s, logon |-> n]}
      PROVE  PidInv'
    BY <1>0, <1>2 DEF PidInv
<1>3. CASE ReconcileStart
    <2>1. PICK n \in seen.sessions :
            \/ Fails(Taken(n))
            \/ Outcome(Taken(n), n, IF Reconciled.logon = n THEN Reconciled.recorded ELSE 0)
        BY <1>3, ReconcileStartOutcome
    <2> QED BY <1>1, <1>2, <2>1 DEF Fails, Outcome
<1>4. CASE RegisterStarts
    BY <1>1, <1>2, <1>4, RegisterStartsOutcome DEF Outcome
<1>5. CASE RunnerLaunches
    BY <1>1, <1>2, <1>5 DEF RunnerLaunches, NewController, LaunchFails
<1>6. CASE EndRegistration \/ UnregisterEnds \/ RestartController
    BY <1>1, <1>6 DEF EndRegistration, UnregisterEnds, RestartController, JoinRunner
<1>7. CASE \E n \in listed : LogoffEnds(n)
    BY <1>1, <1>7 DEF LogoffEnds
<1>8. CASE \E c \in ctls : ControllerEnds(c)
    BY <1>1, <1>8 DEF ControllerEnds
<1>9. CASE UNCHANGED ctls
    BY <1>1, <1>9
<1>10. CASE \E n \in listed \cup seen.sessions : CrashInSave(n)
    BY <1>1, <1>2, <1>10, SaveCrash
<1> QED
    BY <1>3, <1>4, <1>5, <1>6, <1>7, <1>8, <1>9, <1>10 DEF Next, LoopStep, vars, Tick,
        ReceiveReconcile, ReceiveLogoff, ReceivePreshutdown, ReceiveDetach, ReadSessions,
        ReadRegistrations, ReconcileForget, ReconcileKeep, ReconcileEnd, HostCrash, HostLost,
        HostStart, HostStartFails, RunnerSeesExit, RunnerObserves, Register, Unregister,
        UnregisterRemoves, Logon, LogoffBegins, Control, Finished, Calls

\* A logon that is over stays over.
LEMMA OverStep ==
    ASSUME TypeOK, ShapeInv, [Next]_vars, NEW n, Over(n)
    PROVE  Over(n)'
<1>0. n \in 1..logons /\ logons \in Nat /\ n \notin listed \ leaving
    BY TypeParts, HostAssumption DEF Over, WindowsOK
<1>1. CASE Logon
    BY <1>0, <1>1 DEF Logon, Over
<1>2. CASE \E k \in listed : LogoffBegins(k) \/ LogoffEnds(k)
    BY <1>0, <1>2 DEF LogoffBegins, LogoffEnds, Over
<1>3. CASE UNCHANGED <<listed, leaving, logons>>
    BY <1>0, <1>3 DEF Over
<1>4. CASE \E k \in listed \cup seen.sessions : CrashInSave(k)
    BY <1>0, <1>4, SaveCrash DEF HostLost, Over
<1> QED
    BY <1>1, <1>2, <1>3, <1>4 DEF Next, LoopStep, vars, windowsVars, Tick, ReceiveReconcile,
        ReceiveLogoff, ReceivePreshutdown, ReceiveDetach, ReadSessions, ReadRegistrations,
        ReconcileForget, ReconcileKeep, ReconcileStart, ReconcileEnd, EndRegistration,
        HostCrash, HostLost, HostStart, HostStartFails, RunnerSeesExit, RunnerLaunches,
        RunnerObserves, Register, RegisterStarts, Unregister, UnregisterRemoves, UnregisterEnds,
        RestartController, Control, ControllerEnds, Finished, Calls

LEMMA QueueEndStep ==
    ASSUME TypeOK, ShapeInv, EndInv, [Next]_vars
    PROVE  \A i \in 1..Len(queue') : queue'[i].type = "end" => Over(queue[i].logon)'
<1>0. /\ queue \in Seq(Commands)
      /\ \A i \in 1..Len(queue) : queue[i].type = "end" => Over(queue[i].logon)
    BY TypeParts DEF EndInv
<1>1. CASE ReceiveReconcile
    <2>1. \A i \in 1..Len(queue') : queue'[i] = queue[i + 1] /\ i + 1 \in 1..Len(queue)
        BY <1>1, <1>0 DEF ReceiveReconcile
    <2> QED BY <1>0, <2>1, OverStep
<1>2. CASE ReceiveLogoff
    <2>1. \A i \in 1..Len(queue') : queue'[i] = queue[i + 1] /\ i + 1 \in 1..Len(queue)
        BY <1>2, <1>0 DEF ReceiveLogoff
    <2> QED BY <1>0, <2>1, OverStep
<1>3. CASE ReceivePreshutdown
    <2>1. \A i \in 1..Len(queue') : queue'[i] = queue[i + 1] /\ i + 1 \in 1..Len(queue)
        BY <1>3, <1>0 DEF ReceivePreshutdown
    <2> QED BY <1>0, <2>1, OverStep
<1>4. CASE ReceiveDetach
    BY <1>4, <1>0, OverStep DEF ReceiveDetach
<1>5. CASE HostCrash
    BY <1>5, <1>0, OverStep DEF HostCrash, HostLost
<1>6. CASE Logon
    <2>1. \A i \in 1..Len(queue') :
            queue'[i].type = "end" => i \in 1..Len(queue) /\ queue'[i] = queue[i]
        BY <1>6, <1>0 DEF Logon, Notify
    <2> QED BY <1>0, <2>1, OverStep
<1>7. CASE \E n \in listed : LogoffBegins(n)
    <2>1. PICK n \in listed : LogoffBegins(n)
        BY <1>7
    <2>2. \A i \in 1..Len(queue') :
            (i \in 1..Len(queue) /\ queue'[i] = queue[i]) \/ queue'[i].logon = n
        BY <2>1, <1>0 DEF LogoffBegins, Notify
    <2>3. Over(n)'
        BY <2>1 DEF LogoffBegins, Over, ShapeInv
    <2> QED BY <1>0, <2>2, <2>3, OverStep
<1>8. CASE \E command \in {"detach", "preshutdown"} : Control(command)
    <2>1. \A i \in 1..Len(queue') :
            queue'[i].type = "end" => i \in 1..Len(queue) /\ queue'[i] = queue[i]
        BY <1>8, <1>0 DEF Control, Notify
    <2> QED BY <1>0, <2>1, OverStep
<1>9. CASE UNCHANGED queue
    BY <1>9, <1>0, OverStep
<1>10. CASE \E n \in listed \cup seen.sessions : CrashInSave(n)
    BY <1>10, SaveCrash DEF HostLost
<1> QED
    BY <1>1, <1>2, <1>3, <1>4, <1>5, <1>6, <1>7, <1>8, <1>9, <1>10 DEF Next, LoopStep, vars,
        windowsVars, countVars, Tick, ReadSessions, ReadRegistrations, ReconcileForget,
        ReconcileKeep, ReconcileStart, ReconcileEnd, EndRegistration, HostStart, HostStartFails,
        RunnerSeesExit, RunnerLaunches, RunnerObserves, Register, RegisterStarts,
        Unregister, UnregisterRemoves, UnregisterEnds, RestartController, LogoffEnds,
        ControllerEnds, Finished, Calls

LEMMA EndingStep ==
    ASSUME TypeOK, ShapeInv, EndInv, [Next]_vars
    PROVE  \A n \in ending' : Over(n)'
<1>0. (\A n \in ending : Over(n)) /\ (loop = "logoff" => Over(entry.logon))
    BY DEF EndInv
<1>1. CASE ReceiveDetach
    BY <1>1, <1>0, OverStep DEF ReceiveDetach
<1>2. CASE ReadSessions
    BY <1>2, <1>0, OverStep DEF ReadSessions
<1>3. CASE EndRegistration
    BY <1>3, <1>0, OverStep, OverStep DEF EndRegistration, MarkEnding
<1>4. CASE HostCrash
    BY <1>4, <1>0, OverStep DEF HostCrash, HostLost
<1>5. CASE UNCHANGED ending
    BY <1>5, <1>0, OverStep
<1>6. CASE \E n \in listed \cup seen.sessions : CrashInSave(n)
    BY <1>6, SaveCrash DEF HostLost
<1> QED
    BY <1>1, <1>2, <1>3, <1>4, <1>5, <1>6 DEF Next, LoopStep, vars, windowsVars, countVars,
        Tick, ReceiveReconcile, ReceiveLogoff, ReceivePreshutdown, ReadRegistrations,
        ReconcileForget, ReconcileKeep, ReconcileStart, ReconcileEnd, HostStart, HostStartFails,
        RunnerSeesExit, RunnerLaunches, RunnerObserves, Register, RegisterStarts,
        Unregister, UnregisterRemoves, UnregisterEnds, RestartController, Logon,
        LogoffBegins, LogoffEnds, Control, ControllerEnds, Finished, Calls

LEMMA LogoffStep ==
    ASSUME TypeOK, ShapeInv, EndInv, [Next]_vars
    PROVE  loop' = "logoff" => Over(entry.logon)'
<1>0. (loop = "logoff" => Over(entry.logon)) /\ entry \in Entries /\ queue \in Seq(Commands)
    BY TypeParts DEF EndInv, RegistrationOK
<1>1. CASE Tick
    BY <1>1, <1>0 DEF Tick
<1>2. CASE ReceiveReconcile
    BY <1>2, <1>0 DEF ReceiveReconcile
<1>3. CASE ReceiveLogoff
    <2>1. Over(Head(queue).logon)
        BY <1>3, <1>0 DEF ReceiveLogoff, EndInv
    <2>2. UNCHANGED entry /\ (loop' = "logoff" => entry.logon = Head(queue).logon)
        BY <1>3 DEF ReceiveLogoff
    <2> QED BY <2>1, <2>2, OverStep
<1>4. CASE ReceivePreshutdown
    BY <1>4, <1>0 DEF ReceivePreshutdown
<1>5. CASE ReceiveDetach
    BY <1>5, <1>0 DEF ReceiveDetach
<1>6. CASE ReadSessions
    BY <1>6, <1>0 DEF ReadSessions
<1>7. CASE ReadRegistrations
    BY <1>7, <1>0 DEF ReadRegistrations
<1>8. CASE ReconcileForget
    BY <1>8, <1>0 DEF ReconcileForget, Finished
<1>9. CASE ReconcileKeep
    BY <1>9, <1>0 DEF ReconcileKeep, Finished
<1>10. CASE ReconcileStart
    BY <1>10, <1>0 DEF ReconcileStart, Finished
<1>11. CASE ReconcileEnd
    BY <1>11, <1>0 DEF ReconcileEnd
<1>12. CASE EndRegistration
    BY <1>12, <1>0 DEF EndRegistration
<1>13. CASE HostCrash
    BY <1>13, <1>0 DEF HostCrash, HostLost
<1>14. CASE HostStart
    BY <1>14, <1>0 DEF HostStart
<1>15. CASE RunnerSeesExit
    BY <1>15, <1>0 DEF RunnerSeesExit, Locked
<1>16. CASE RunnerLaunches
    BY <1>16, <1>0 DEF RunnerLaunches, Locked
<1>17. CASE RunnerObserves
    <2>1. entry'.logon = entry.logon /\ UNCHANGED loop
        BY <1>17, <1>0 DEF RunnerObserves, Entries
    <2> QED BY <1>0, <2>1, OverStep
<1>18. CASE RegisterStarts
    BY <1>18, <1>0 DEF RegisterStarts, Locked
<1>19. CASE UnregisterRemoves
    BY <1>19, <1>0 DEF UnregisterRemoves, Locked
<1>20. CASE UNCHANGED <<loop, entry>>
    BY <1>20, <1>0, OverStep
<1>21. CASE \E n \in listed \cup seen.sessions : CrashInSave(n)
    BY <1>21, SaveCrash DEF HostLost
<1> QED
    BY <1>1, <1>2, <1>3, <1>4, <1>5, <1>6, <1>7, <1>8, <1>9, <1>10, <1>11, <1>12,
        <1>13, <1>14, <1>15, <1>16, <1>17, <1>18, <1>19, <1>20, <1>21 DEF Next, LoopStep, vars,
        windowsVars, countVars, Register, Unregister, UnregisterEnds, RestartController,
        Logon, LogoffBegins, LogoffEnds, Control, ControllerEnds, Finished, Calls, HostStartFails

LEMMA ReadingEndStep ==
    ASSUME TypeOK, ShapeInv, EndInv, [Next]_vars
    PROVE  Reading' => seen'.sessions \cap ending' = {}
<1>0. (Reading => seen.sessions \cap ending = {}) /\ SeenOK
    BY TypeParts DEF EndInv
<1>1. CASE Tick
    BY <1>1, <1>0 DEF Tick, Reading
<1>2. CASE ReceiveReconcile
    BY <1>2, <1>0 DEF ReceiveReconcile, Reading
<1>3. CASE ReceiveLogoff
    BY <1>3, <1>0 DEF ReceiveLogoff, Reading
<1>4. CASE ReceivePreshutdown
    BY <1>4, <1>0 DEF ReceivePreshutdown, Reading
<1>5. CASE ReceiveDetach
    BY <1>5, <1>0 DEF ReceiveDetach, Reading
<1>6. CASE ReadSessions
    <2>1. seen' = [seen EXCEPT !.sessions = WithoutEnding(listed), !.conflict = Conflicts(listed)]
        BY <1>6 DEF ReadSessions
    <2>2. seen'.sessions = WithoutEnding(listed)
        BY <2>1, <1>0 DEF SeenOK
    <2> QED BY <1>6, <2>2 DEF ReadSessions, WithoutEnding
<1>7. CASE ReadRegistrations
    <2>1. seen'.sessions = seen.sessions
        BY <1>7, <1>0 DEF ReadRegistrations, SeenOK
    <2> QED BY <1>7, <2>1, <1>0 DEF ReadRegistrations, Reading
<1>8. CASE ReconcileForget
    BY <1>8, <1>0 DEF ReconcileForget, Finished, Reading
<1>9. CASE ReconcileKeep
    BY <1>9, <1>0 DEF ReconcileKeep, Finished, Reading
<1>10. CASE ReconcileStart
    BY <1>10, <1>0 DEF ReconcileStart, Finished, Reading
<1>11. CASE ReconcileEnd
    BY <1>11, <1>0 DEF ReconcileEnd, Reading
<1>12. CASE EndRegistration
    BY <1>12, <1>0 DEF EndRegistration, Reading
<1>13. CASE HostCrash
    BY <1>13, <1>0 DEF HostCrash, HostLost, Reading
<1>14. CASE HostStart
    BY <1>14, <1>0 DEF HostStart, Reading
<1>15. CASE UNCHANGED <<loop, seen, ending>>
    BY <1>15, <1>0 DEF Reading
<1>16. CASE \E n \in listed \cup seen.sessions : CrashInSave(n)
    BY <1>16, SaveCrash DEF HostLost, Reading
<1> QED
    BY <1>1, <1>2, <1>3, <1>4, <1>5, <1>6, <1>7, <1>8, <1>9, <1>10, <1>11, <1>12,
        <1>13, <1>14, <1>15, <1>16 DEF Next, LoopStep, vars, windowsVars, countVars,
        RunnerSeesExit, RunnerLaunches, RunnerObserves, Register, RegisterStarts,
        Unregister, UnregisterRemoves, UnregisterEnds, RestartController, Logon,
        LogoffBegins, LogoffEnds, Control, ControllerEnds, Finished, Calls, HostStartFails

LEMMA EndStep ==
    ASSUME TypeOK, ShapeInv, EndInv, [Next]_vars
    PROVE  EndInv'
BY QueueEndStep, EndingStep, LogoffStep, ReadingEndStep DEF EndInv

-----------------------------------------------------------------------------
(* The logons nobody leaves. *)

\* A step that changes neither what was issued nor what the host knows, and
\* launches nothing.
LEMMA QuietStep ==
    ASSUME NEW n, LogonInv(n), UNCHANGED <<issued, entry, runtime, host>>, ctls' \subseteq ctls,
           IssuedTo(n) => ReadInv(n)', Forgotten => Forgotten'
    PROVE  LogonInv(n)'
<1>1. IssuedTo(n)' = IssuedTo(n)
    BY DEF IssuedTo
<1>2. IssuedTo(n) => KnownInv(n)'
    BY DEF LogonInv, KnownInv, Running
<1>3. \A r, q \in issued' : r.logon = n /\ q.logon = n => r = q
    BY DEF LogonInv
<1>4. ASSUME NEW c \in ctls', c.logon = n
      PROVE  ControllerInv(n, c)'
    <2>1. ControllerInv(n, c)
        BY <1>4 DEF LogonInv
    <2> QED BY <1>1, <2>1 DEF ControllerInv
<1> QED BY <1>1, <1>2, <1>3, <1>4 DEF LogonInv

\* What is known of a logon with a session while the host runs and the user
\* is not forgotten.
LEMMA Known ==
    ASSUME TypeOK, ShapeInv, SessionInv, NEW n \in Live, LogonInv(n), IssuedTo(n), Running,
    ~Forgotten
    PROVE  /\ runtime.logon = n /\ entry.logon = n /\ n # 0
           /\ entry.present /\ entry.session # 0
           /\ Reconciled = entry
           /\ [logon |-> n, session |-> entry.session] \in issued
<1>1. n # 0
    BY TypeParts DEF Live, WindowsOK
<1>2. runtime.logon = n /\ entry.logon = n
    BY DEF LogonInv, KnownInv, Running
<1>3. entry.present
    BY <1>1, <1>2 DEF ShapeInv, NoEntry, Blank
<1>4. entry.session # 0
    BY <1>1, <1>2 DEF ShapeInv
<1> QED BY <1>1, <1>2, <1>3, <1>4 DEF Reconciled, SessionInv

LEMMA ListedReading ==
    ASSUME TypeOK, ShapeInv, EndInv, NEW n \in Live, ReadSessions
    PROVE  ReadInv(n)'
<1>1. IsFiniteSet(listed) /\ n \in listed /\ n \notin ending
    BY ListedFinite DEF Live, EndInv, Over
<1>2. seen' = [seen EXCEPT !.sessions = WithoutEnding(listed), !.conflict = Conflicts(listed)]
    BY DEF ReadSessions
<1>3. SeenOK
    BY TypeParts
<1>4. seen'.sessions = listed \ ending /\ (seen'.conflict <=> Conflicts(listed))
    BY <1>2, <1>3 DEF SeenOK, WithoutEnding
<1>5. ~Conflicts(listed) => listed = {n}
    BY <1>1, AloneInSet
<1>6. loop' = "list"
    BY DEF ReadSessions
<1> QED BY <1>1, <1>4, <1>5, <1>6 DEF ReadInv, Reading

LEMMA ReadRegistrationsStep ==
    ASSUME TypeOK, NEW n, ReadInv(n), ReadRegistrations
    PROVE  ReadInv(n)'
<1>1. SeenOK /\ registered \in BOOLEAN
    BY TypeParts
<1>2. /\ seen'.sessions = seen.sessions /\ (seen'.conflict = seen.conflict)
      /\ (seen'.registered = registered)
    BY <1>1 DEF ReadRegistrations, SeenOK
<1>3. loop = "list" /\ loop' = "apply" /\ UNCHANGED registered
    BY DEF ReadRegistrations
<1> QED BY <1>2, <1>3 DEF ReadInv, Reading

LEMMA ReconcileEndStep ==
    ASSUME TypeOK, ShapeInv, SessionInv, NEW n \in Live, LogonInv(n), ReconcileEnd
    PROVE  ~IssuedTo(n)
<1>1. /\ loop = "apply" /\ seen.registered /\ ~seen.conflict
      /\ Reconciled.logon \notin seen.sessions
    BY DEF ReconcileEnd
<1>2. SUFFICES ASSUME IssuedTo(n) PROVE FALSE
    OBVIOUS
<1>3. seen.sessions = {n}
    BY <1>1, <1>2 DEF LogonInv, ReadInv, Reading
<1>4. Running /\ ~Forgotten
    BY <1>1 DEF ShapeInv, Forgotten
<1> QED BY <1>1, <1>2, <1>3, <1>4, Known

LEMMA ReconcileForgetStep ==
    ASSUME TypeOK, ShapeInv, NEW n \in Live, LogonInv(n), ReconcileForget
    PROVE  LogonInv(n)'
<1>1. /\ loop = "apply" /\ ~seen.registered /\ loop' = "idle"
      /\ host' # "down" /\ n # 0
    BY TypeParts DEF ReconcileForget, Finished, ShapeInv, Running, Live, WindowsOK
<1>2. UNCHANGED <<issued, ctls, runtime, registered>> /\ entry'.logon = 0
    BY DEF ReconcileForget, Finished, countVars, NoEntry, Blank
<1>3. IssuedTo(n) => Forgotten'
    BY <1>1, <1>2 DEF LogonInv, ReadInv, Forgotten
<1>4. IssuedTo(n)' = IssuedTo(n)
    BY <1>2 DEF IssuedTo
<1>5. ReadInv(n)'
    BY <1>1 DEF ReadInv, Reading
<1>6. ASSUME NEW c \in ctls, c.logon = n
      PROVE  ControllerInv(n, c)'
    BY <1>1, <1>2, <1>4, <1>6 DEF LogonInv, ControllerInv
<1> QED BY <1>2, <1>3, <1>4, <1>5, <1>6 DEF LogonInv, KnownInv

LEMMA ReconcileKeepStep ==
    ASSUME TypeOK, ShapeInv, SessionInv, NEW n \in Live, LogonInv(n), ReconcileKeep
    PROVE  LogonInv(n)'
<1>1. /\ loop = "apply" /\ seen.registered /\ loop' = "idle"
      /\ Running /\ host' # "down" /\ ~Forgotten
    BY DEF ReconcileKeep, Finished, ShapeInv, Running, Forgotten
<1>2. UNCHANGED <<issued, ctls>> /\ entry' = Reconciled
    BY DEF ReconcileKeep, countVars
<1>3. IssuedTo(n)' = IssuedTo(n)
    BY <1>2 DEF IssuedTo
<1>4. CASE ~IssuedTo(n)
    BY <1>2, <1>3, <1>4 DEF LogonInv, ControllerInv
<1>5. CASE IssuedTo(n)
    <2>1. /\ runtime.logon = n /\ entry.logon = n /\ n # 0 /\ entry' = entry
          /\ runtime' = runtime \/ runtime' = Persisted(entry)
        BY <1>1, <1>2, <1>5, Known DEF ReconcileKeep
    <2>2. runtime'.logon = n
        BY <2>1 DEF Persisted
    <2>3. ReadInv(n)' /\ KnownInv(n)'
        BY <1>1, <2>1, <2>2 DEF ReadInv, Reading, KnownInv
    <2>4. ASSUME NEW c \in ctls, c.logon = n
          PROVE  ControllerInv(n, c)'
        <3>1. ControllerInv(n, c) /\ RegistrationOK(entry)
            BY <2>4, TypeParts DEF LogonInv
        <3>2. entry.runner \in {"none", "watching"} => c.pid = runtime'.pid
            BY <2>1, <3>1 DEF ControllerInv, Persisted, RegistrationOK, RunnerOK
        <3> QED BY <1>1, <1>2, <1>3, <2>1, <3>1, <3>2 DEF ControllerInv
    <2> QED BY <1>2, <1>3, <2>3, <2>4 DEF LogonInv
<1> QED BY <1>4, <1>5

\* A session is started for a logon that has none, or started again.
LEMMA ReconcileStartStep ==
    ASSUME TypeOK, ShapeInv, SessionInv, NEW n \in Live, LogonInv(n), ReconcileStart, n \in Live'
    PROVE  LogonInv(n)'
<1>1. /\ loop = "apply" /\ seen.registered /\ ~seen.conflict /\ loop' = "idle"
      /\ Running /\ Running' /\ ~Forgotten /\ Reconciled.runner = "none" /\ n # 0
    <2>1. /\ loop = "apply" /\ seen.registered /\ ~seen.conflict /\ loop' = "idle"
          /\ host' = IF host = "starting" THEN "up" ELSE host
          /\ Reconciled.runner = "none"
        BY DEF ReconcileStart, Finished
    <2> QED BY <2>1, TypeParts DEF ShapeInv, Running, Forgotten, Live, WindowsOK
<1>2. host' # "down" /\ ReadInv(n)'
    BY <1>1 DEF Running, ReadInv, Reading
<1>3. PICK m \in seen.sessions :
        LET process == IF Reconciled.logon = m THEN Reconciled.recorded ELSE 0
        IN \/ Fails(Taken(m)) /\ touched' = touched \cup {m}
              /\ runtime' = IF Reconciled.logon # m THEN NoRuntime ELSE runtime
           \/ Outcome(Taken(m), m, process) /\ UNCHANGED touched
    BY ReconcileStartOutcome
<1>4. /\ Taken(m).session = IF Reconciled.logon = m THEN Reconciled.session ELSE 0
      /\ Taken(m).recorded = 0 /\ m # 0
    BY <1>1, TakenOK, TypeParts DEF SeenOK
<1>5. IssuedTo(n) => m = n
    BY <1>1, <1>3 DEF LogonInv, ReadInv, Reading
<1>6. CASE m # n
    <2>1. ~IssuedTo(n) /\ ~IssuedTo(n)'
        BY <1>3, <1>5, <1>6 DEF Fails, Outcome, IssuedTo
    <2>2. \A c \in ctls' : c.logon # n
        BY <1>3, <1>6, <2>1 DEF Fails, Outcome, LogonInv, ControllerInv
    <2> QED BY <2>1, <2>2 DEF LogonInv, IssuedTo
<1>7. CASE m = n /\ IssuedTo(n)
    <2> DEFINE old == [logon |-> n, session |-> entry.session]
    <2>1. /\ runtime.logon = n /\ entry.logon = n /\ Reconciled = entry /\ entry.session # 0
          /\ old \in issued
        BY <1>1, <1>7, Known
    <2>2. Outcome(Taken(n), n, entry.recorded)
        BY <1>3, <1>7, <2>1 DEF Live
    <2>3. SessionFor(Taken(n)) = entry.session
        BY <1>4, <1>7, <2>1 DEF SessionFor
    <2>4. issued' = issued /\ entry'.logon = n /\ runtime'.logon = n
        BY <2>1, <2>2, <2>3 DEF Outcome
    <2>5. IssuedTo(n)' /\ KnownInv(n)'
        BY <1>7, <2>4 DEF IssuedTo, KnownInv
    <2>6. \A c \in ctls : c.logon = n =>
            /\ Adoptable(entry.recorded, n) /\ c.pid = entry.recorded
            /\ \A d \in ctls : d.logon = n => d = c
        BY <1>1, <2>1 DEF LogonInv, ControllerInv, Adoptable
    <2>7. ASSUME NEW c \in ctls', c.logon = n
          PROVE  ControllerInv(n, c)'
        <3>1. CASE Adoptable(entry.recorded, n)
            <4>1. /\ UNCHANGED ctls /\ entry'.runner = "watching" /\ entry'.pid = entry.recorded
                BY <2>2, <3>1 DEF Outcome
            <4>2. entry.recorded # 0
                BY <3>1, TypeParts DEF Adoptable, ControllersOK
            <4>3. runtime'.pid = entry.recorded
                BY <2>2, <4>1, <4>2 DEF Outcome
            <4> QED BY <1>2, <2>5, <2>6, <2>7, <4>1, <4>3 DEF ControllerInv
        <3>2. CASE ~Adoptable(entry.recorded, n)
            <4>1. \A d \in ctls : d.logon # n
                BY <2>6, <3>2
            <4>2. /\ ctls' = ctls \cup
                               {[pid |-> NewPid, session |-> SessionFor(Taken(n)), logon |-> n]}
                  /\ entry'.runner = "watching" /\ entry'.pid = NewPid
                BY <2>2, <2>7, <3>2, <4>1 DEF Outcome
            <4>3. NewPid # 0
                BY NewPidFresh DEF ShapeInv
            <4>4. runtime'.pid = NewPid
                BY <2>2, <4>2, <4>3 DEF Outcome
            <4>5. c.pid = NewPid /\ \A d \in ctls' : d.logon = n => d = c
                BY <2>7, <4>1, <4>2
            <4> QED BY <1>2, <2>5, <4>2, <4>4, <4>5 DEF ControllerInv
        <3> QED BY <3>1, <3>2
    <2> QED BY <1>2, <2>4, <2>5, <2>7 DEF LogonInv
<1>8. CASE m = n /\ ~IssuedTo(n)
    <2> DEFINE new == [logon |-> n, session |-> SessionFor(Taken(n))]
    <2>1. PICK process : Outcome(Taken(n), n, process)
        BY <1>3, <1>8 DEF Live
    <2>2. issued' = issued \cup {new} /\ entry'.logon = n /\ runtime'.logon = n
        BY <2>1 DEF Outcome
    <2>3. IssuedTo(n)' /\ KnownInv(n)'
        <3>1. new \in issued' /\ new.logon = n
            BY <2>2
        <3> QED BY <2>2, <3>1 DEF IssuedTo, KnownInv
    <2>4. \A r, q \in issued' : r.logon = n /\ q.logon = n => r = q
        BY <1>8, <2>2 DEF IssuedTo
    <2>5. \A c \in ctls : c.logon # n
        BY <1>8 DEF LogonInv, ControllerInv
    <2>6. ASSUME NEW c \in ctls', c.logon = n
          PROVE  ControllerInv(n, c)'
        <3>1. /\ ctls' = ctls \cup {[pid |-> NewPid, session |-> SessionFor(Taken(n)), logon |-> n]}
              /\ entry'.runner = "watching" /\ entry'.pid = NewPid
            BY <2>1, <2>5, <2>6 DEF Outcome
        <3>2. NewPid # 0
            BY NewPidFresh DEF ShapeInv
        <3>3. runtime'.pid = NewPid
            BY <2>1, <3>1, <3>2 DEF Outcome
        <3>4. c.pid = NewPid /\ \A d \in ctls' : d.logon = n => d = c
            BY <2>5, <2>6, <3>1
        <3> QED BY <1>2, <2>3, <3>1, <3>3, <3>4 DEF ControllerInv
    <2> QED BY <1>2, <2>3, <2>4, <2>6 DEF LogonInv
<1> QED BY <1>6, <1>7, <1>8

\* Ending the registration of a logon that is over, or of a host that stops.
LEMMA EndRegistrationStep ==
    ASSUME TypeOK, ShapeInv, SessionInv, EndInv, NEW n \in Live, LogonInv(n), EndRegistration
    PROVE  LogonInv(n)'
<1>1. /\ loop \in {"ending", "logoff", "shutdown"} /\ loop' = "idle" /\ Running
      /\ UNCHANGED <<issued, registered>> /\ ctls' \subseteq ctls /\ n # 0
    BY TypeParts DEF EndRegistration, Locked, JoinRunner, countVars, ShapeInv, Live, WindowsOK
<1>2. host' # "down" /\ (loop = "shutdown" => host' = "off")
    <2>1. host' = IF loop = "shutdown" THEN "off" ELSE IF host = "starting" THEN "up" ELSE host
        BY DEF EndRegistration
    <2> QED BY <1>1, <2>1 DEF Running
<1>3. entry'.logon = 0
    BY DEF EndRegistration, ShapeInv, Blank, NoEntry
<1>4. IssuedTo(n)' = IssuedTo(n)
    BY <1>1 DEF IssuedTo
<1>5. IssuedTo(n) => KnownInv(n)'
    <2>1. CASE loop = "shutdown"
        BY <1>2, <2>1 DEF KnownInv
    <2>2. CASE loop = "ending"
        BY <2>2 DEF LogonInv, ReadInv
    <2>3. ASSUME loop = "logoff", IssuedTo(n)
          PROVE  KnownInv(n)'
        <3>1. entry.logon # n
            BY <2>3 DEF EndInv, Over, Live
        <3>2. Forgotten
            BY <1>1, <2>3, <3>1, Known
        <3> QED BY <1>1, <3>2 DEF Forgotten, KnownInv
    <2> QED BY <1>1, <2>1, <2>2, <2>3
<1>6. ReadInv(n)'
    BY <1>1 DEF ReadInv, Reading
<1>7. ASSUME NEW c \in ctls', c.logon = n
      PROVE  ControllerInv(n, c)'
    <2>1. ControllerInv(n, c)
        BY <1>1, <1>7 DEF LogonInv
    <2> QED BY <1>1, <1>2, <1>3, <1>4, <2>1 DEF ControllerInv
<1> QED BY <1>1, <1>4, <1>5, <1>6, <1>7 DEF LogonInv

\* The host stops: the registry record is what its successor knows.
LEMMA HostStopStep ==
    ASSUME TypeOK, ShapeInv, SessionInv, NEW n \in Live, LogonInv(n), ReceiveDetach \/ HostCrash,
           n \in Live'
    PROVE  LogonInv(n)'
<1>1. /\ Running /\ host' \in {"down", "torn"} /\ loop' = "idle" /\ entry' = NoEntry
      /\ UNCHANGED <<issued, registered, ctls>> /\ n # 0
    BY TypeParts DEF ReceiveDetach, HostCrash, HostLost, Running, countVars, Live, WindowsOK
<1>2. ReadInv(n)' /\ ~Running' /\ entry'.logon = 0
    BY <1>1 DEF ReadInv, Reading, Running, NoEntry, Blank
<1>3. IssuedTo(n)' = IssuedTo(n)
    BY <1>1 DEF IssuedTo
<1>4. CASE ~IssuedTo(n)
    BY <1>1, <1>3, <1>4 DEF LogonInv, ControllerInv
<1>5. CASE IssuedTo(n) /\ Forgotten
    <2>1. Forgotten'
        BY <1>1, <1>5 DEF Forgotten
    <2>2. KnownInv(n)'
        BY <2>1 DEF KnownInv
    <2>3. ASSUME NEW c \in ctls, c.logon = n
          PROVE  ControllerInv(n, c)'
        BY <1>1, <1>2, <1>3, <2>1, <2>3 DEF LogonInv, ControllerInv
    <2> QED BY <1>1, <1>2, <1>3, <2>2, <2>3 DEF LogonInv
<1>6. CASE IssuedTo(n) /\ ~Forgotten
    <2>1. runtime.logon = n /\ entry.logon = n /\ entry.present
        BY <1>1, <1>6, Known
    <2>2. /\ runtime'.logon = n
          /\ \/ runtime' = Persisted(entry)
             \/ UNCHANGED runtime /\ entry.runner # "launched"
        BY <1>1, <2>1 DEF ReceiveDetach, HostCrash, Persisted, Live
    <2>3. KnownInv(n)'
        BY <1>2, <2>2 DEF KnownInv
    <2>4. ASSUME NEW c \in ctls, c.logon = n
          PROVE  ControllerInv(n, c)'
        <3>1. ControllerInv(n, c) /\ RegistrationOK(entry)
            BY <2>4, TypeParts DEF LogonInv
        <3>2. /\ entry.runner \in {"none", "launched", "watching"}
              /\ entry.pid # 0 <=> entry.runner \in {"launched", "watching"}
            BY <2>1, <3>1, EntryFields DEF ControllerInv, RegistrationOK, RunnerOK
        <3>3. c.pid = runtime'.pid
            BY <1>1, <2>1, <2>2, <3>1, <3>2 DEF ControllerInv, Persisted
        <3> QED BY <1>1, <1>2, <1>3, <3>1, <3>3 DEF ControllerInv
    <2> QED BY <1>1, <1>2, <1>3, <2>3, <2>4 DEF LogonInv
<1> QED BY <1>4, <1>5, <1>6

\* The host stops while it records a session of another logon.
LEMMA SaveCrashStep ==
    ASSUME TypeOK, ShapeInv, SessionInv, NEW n \in Live, LogonInv(n),
           NEW m \in listed \cup seen.sessions, CrashInSave(m), m # n
    PROVE  LogonInv(n)'
<1>1. /\ Running /\ host' = "torn" /\ loop' = "idle" /\ entry' = NoEntry /\ UNCHANGED registered
      /\ issued' = issued \cup {[logon |-> m, session |-> sessions + 1]}
      /\ \/ UNCHANGED ctls
         \/ ctls' = ctls \cup {[pid |-> NewPid, session |-> sessions + 1, logon |-> m]}
    BY SaveCrash DEF HostLost
<1>2. entry'.logon = 0 /\ n # 0
    BY <1>1, TypeParts DEF NoEntry, Blank, Live, WindowsOK
<1>3. IssuedTo(n)' = IssuedTo(n)
    BY <1>1 DEF IssuedTo
<1>4. IssuedTo(n) => Forgotten
    <2>1. SUFFICES ASSUME IssuedTo(n), ~Forgotten PROVE FALSE
        OBVIOUS
    <2>2. runtime # NoRuntime
        <3>1. runtime.logon = n
            BY <1>1, <2>1, Known
        <3> QED BY <1>2, <3>1 DEF NoRuntime
    <2>3. loop = "apply" /\ ~seen.conflict /\ m \in seen.sessions
        BY <2>2, SaveCrash
    <2> QED BY <2>1, <2>3 DEF LogonInv, ReadInv, Reading
<1>5. Forgotten => Forgotten'
    BY <1>1 DEF Forgotten
<1>6. ReadInv(n)'
    BY <1>1 DEF ReadInv, Reading
<1>7. ASSUME NEW c \in ctls', c.logon = n
      PROVE  ControllerInv(n, c)'
    <2>1. c \in ctls /\ \A d \in ctls' : d.logon = n => d \in ctls
        BY <1>1, <1>7
    <2>2. ControllerInv(n, c)
        BY <1>7, <2>1 DEF LogonInv
    <2> QED BY <1>1, <1>2, <1>3, <2>1, <2>2 DEF ControllerInv
<1>8. \A r, q \in issued' : r.logon = n /\ q.logon = n => r = q
    BY <1>1 DEF LogonInv
<1> QED BY <1>3, <1>4, <1>5, <1>6, <1>7, <1>8 DEF LogonInv, KnownInv

\* A host that cannot read a record does not start.
LEMMA HostStartFailsStep ==
    ASSUME NEW n, LogonInv(n), HostStartFails
    PROVE  LogonInv(n)'
<1>1. /\ host = "torn" /\ host' = "failed"
      /\ UNCHANGED <<issued, registered, ctls, runtime, loop, seen, entry>>
    BY DEF HostStartFails, countVars
<1>2. /\ IssuedTo(n)' = IssuedTo(n) /\ ReadInv(n)' = ReadInv(n) /\ Forgotten' = Forgotten
      /\ ~Running'
    BY <1>1 DEF IssuedTo, ReadInv, Reading, Forgotten, Running
<1>3. KnownInv(n) => KnownInv(n)'
    BY <1>1, <1>2 DEF KnownInv
<1>4. ASSUME NEW c \in ctls, c.logon = n
      PROVE  ControllerInv(n, c)'
    BY <1>1, <1>2, <1>4 DEF LogonInv, ControllerInv
<1> QED BY <1>1, <1>2, <1>3, <1>4 DEF LogonInv

LEMMA HostStartStep ==
    ASSUME TypeOK, ShapeInv, NEW n \in Live, LogonInv(n), HostStart
    PROVE  LogonInv(n)'
<1>1. /\ host = "down" /\ host' = "starting" /\ loop' = "reconcile" /\ Running'
      /\ UNCHANGED <<issued, registered, ctls>> /\ n # 0 /\ ~Running
    BY TypeParts DEF HostStart, Running, countVars, Live, WindowsOK
<1>2. ReadInv(n)'
    BY <1>1 DEF ReadInv, Reading
<1>3. IssuedTo(n)' = IssuedTo(n)
    BY <1>1 DEF IssuedTo
<1>4. CASE ~registered
    <2>1. Forgotten' /\ entry'.logon = 0
        BY <1>1, <1>4 DEF Forgotten, HostStart, NoEntry, Blank
    <2>2. ASSUME NEW c \in ctls, c.logon = n
          PROVE  ControllerInv(n, c)'
        BY <1>1, <1>3, <2>1, <2>2 DEF LogonInv, ControllerInv
    <2> QED BY <1>1, <1>2, <1>3, <2>1, <2>2 DEF LogonInv, KnownInv
<1>5. CASE registered
    <2>1. /\ entry'.logon = runtime.logon /\ entry'.recorded = runtime.pid
          /\ entry'.runner = "none" /\ UNCHANGED runtime
        BY <1>5 DEF HostStart, Blank
    <2>2. IssuedTo(n) => KnownInv(n)'
        BY <1>1, <1>5, <2>1 DEF LogonInv, KnownInv, Forgotten
    <2>3. ASSUME NEW c \in ctls, c.logon = n
          PROVE  ControllerInv(n, c)'
        <3>1. ControllerInv(n, c) /\ c.pid = runtime.pid
            BY <1>1, <1>5, <2>3 DEF LogonInv, ControllerInv, Forgotten
        <3> QED BY <1>1, <1>3, <2>1, <3>1 DEF ControllerInv
    <2> QED BY <1>1, <1>2, <1>3, <2>2, <2>3 DEF LogonInv
<1> QED BY <1>4, <1>5

\* The runner sees its process end, launches another and records it.
LEMMA RunnerStep ==
    ASSUME TypeOK, ShapeInv, SessionInv, NEW n \in Live, LogonInv(n),
           RunnerSeesExit \/ RunnerLaunches \/ RunnerObserves
    PROVE  LogonInv(n)'
<1>1. /\ entry \in Entries /\ entry.runner # "none" /\ entry.session # 0
      /\ entry'.logon = entry.logon /\ entry'.session = entry.session
      /\ UNCHANGED <<issued, registered, host, loop, seen>>
    BY TypeParts DEF RegistrationOK, RunnerOK, RunnerSeesExit, RunnerLaunches, RunnerObserves,
            Entries, countVars
<1>2. host \notin {"down", "torn", "failed"}
    BY <1>1 DEF ShapeInv, NoEntry, Blank
<1>3. /\ IssuedTo(n)' = IssuedTo(n) /\ ReadInv(n)' = ReadInv(n) /\ Forgotten' = Forgotten
      /\ Running' = Running
    BY <1>1 DEF IssuedTo, ReadInv, Reading, Forgotten, Running
<1>4. runtime' = runtime \/ runtime'.logon = entry.logon
    BY DEF RunnerSeesExit, RunnerLaunches, RunnerObserves
<1>5. IssuedTo(n) => KnownInv(n)'
    <2>1. IssuedTo(n) => KnownInv(n)
        BY DEF LogonInv
    <2>2. host = "off" \/ Running
        BY <1>2, TypeParts DEF LoopOK, Running
    <2> QED BY <1>1, <1>3, <1>4, <2>1, <2>2 DEF KnownInv
<1>6. CASE entry.logon # n
    <2>1. ASSUME NEW c \in ctls', c.logon = n
          PROVE  c \in ctls
        BY <1>6, <2>1 DEF RunnerSeesExit, RunnerLaunches, RunnerObserves, NewController, LaunchFails
    <2>2. ASSUME NEW c \in ctls', c.logon = n
          PROVE  ControllerInv(n, c)'
        <3>1. ControllerInv(n, c)
            BY <2>1, <2>2 DEF LogonInv
        <3> QED BY <1>1, <1>2, <1>3, <1>6, <2>1, <3>1 DEF ControllerInv
    <2> QED BY <1>1, <1>3, <1>5, <2>2 DEF LogonInv
<1>7. CASE entry.logon = n
    <2>1. IssuedTo(n)
        BY <1>1, <1>7 DEF SessionInv, IssuedTo
    <2>2. ASSUME NEW c \in ctls', c.logon = n
          PROVE  ControllerInv(n, c)'
        <3>1. CASE RunnerSeesExit
            <4>1. c \in ctls /\ c.pid # entry.pid /\ entry.runner = "watching"
                BY <2>2, <3>1 DEF RunnerSeesExit, Alive
            <4> QED BY <1>7, <2>2, <4>1 DEF LogonInv, ControllerInv
        <3>2. CASE RunnerObserves
            <4>1. /\ c \in ctls /\ ctls' = ctls /\ entry.runner = "launched"
                  /\ entry'.runner = "watching" /\ entry'.pid = entry.pid
                  /\ runtime'.pid = entry.pid
                BY <1>1, <2>2, <3>2 DEF RunnerObserves, Entries
            <4>2. ControllerInv(n, c)
                BY <2>2, <4>1 DEF LogonInv
            <4> QED BY <1>1, <1>2, <1>3, <1>7, <4>1, <4>2 DEF ControllerInv
        <3>3. CASE RunnerLaunches
            <4>1. \A d \in ctls : d.logon # n
                BY <1>7, <3>3 DEF LogonInv, ControllerInv, RunnerLaunches
            <4>2. /\ ctls' = ctls \cup
                               {[pid |-> NewPid, session |-> entry.session, logon |-> entry.logon]}
                  /\ entry' = [entry EXCEPT !.runner = "launched", !.pid = NewPid]
                BY <2>2, <3>3, <4>1 DEF RunnerLaunches, NewController, LaunchFails
            <4>3. entry'.runner = "launched" /\ entry'.pid = NewPid
                BY <1>1, <4>2 DEF Entries
            <4>4. c.pid = NewPid /\ \A d \in ctls' : d.logon = n => d = c
                BY <2>2, <4>1, <4>2
            <4> QED BY <1>1, <1>2, <1>3, <2>1, <4>3, <4>4 DEF ControllerInv
        <3> QED BY <3>1, <3>2, <3>3
    <2> QED BY <1>1, <1>3, <1>5, <2>2 DEF LogonInv
<1> QED BY <1>6, <1>7

LEMMA LiveStep ==
    ASSUME IInv, [Next]_vars
    PROVE  LiveInv'
<1> USE DEF IInv
<1>1. /\ TypeOK /\ ShapeInv /\ SessionInv /\ EndInv /\ WindowsOK
      /\ \A n \in Live : LogonInv(n)
    BY TypeParts DEF LiveInv
<1>2. CASE Register \/ RegisterStarts \/ Unregister \/ UnregisterRemoves \/ UnregisterEnds
    <2>1. listed' \subseteq touched'
        BY <1>2 DEF Register, RegisterStarts, Unregister, UnregisterRemoves, UnregisterEnds, Calls,
                    Touch, windowsVars
    <2> QED BY <2>1 DEF LiveInv, Live
<1>3. CASE Logon
    <2>1. ASSUME NEW n \in Live'
          PROVE  LogonInv(n)'
        <3>1. /\ UNCHANGED <<issued, ctls, entry, runtime, host, loop, seen, registered>>
              /\ n \in Live \/ n = logons + 1
            BY <1>3, <2>1 DEF Logon, countVars, Live
        <3>2. Forgotten' = Forgotten /\ ReadInv(n)' = ReadInv(n)
            BY <3>1 DEF Forgotten, ReadInv, Reading
        <3>3. CASE n \in Live
            BY <1>1, <3>1, <3>2, <3>3, QuietStep DEF LogonInv
        <3>4. CASE n = logons + 1
            <4>1. \A r \in issued' : r.logon # n
                BY <1>1, <3>1, <3>4, HostAssumption DEF SessionInv, WindowsOK
            <4>2. \A c \in ctls' : c.logon # n
                BY <1>1, <3>1, <3>4, TypeParts, HostAssumption DEF ControllersOK, WindowsOK
            <4> QED BY <4>1, <4>2 DEF LogonInv, IssuedTo
        <3> QED BY <3>1, <3>3, <3>4
    <2> QED BY <2>1 DEF LiveInv
<1>4. CASE ReceiveDetach \/ HostCrash
    <2>1. Live' \subseteq Live
        BY <1>4 DEF ReceiveDetach, HostCrash, HostLost, windowsVars, Live
    <2> QED BY <1>1, <1>4, <2>1, HostStopStep DEF LiveInv
<1>5. CASE ReconcileForget
    <2>1. Live' \subseteq Live
        BY <1>5 DEF ReconcileForget, Finished, Live
    <2> QED BY <1>1, <1>5, <2>1, ReconcileForgetStep DEF LiveInv
<1>6. CASE ReconcileKeep
    <2>1. Live' \subseteq Live
        BY <1>6 DEF ReconcileKeep, Finished, Live
    <2> QED BY <1>1, <1>6, <2>1, ReconcileKeepStep DEF LiveInv
<1>7. CASE ReconcileStart
    <2>1. Live' \subseteq Live
        <3>1. touched \subseteq touched'
            BY <1>1, <1>7, ReconcileStartOutcome
        <3> QED BY <1>7, <3>1 DEF ReconcileStart, Finished, Live
    <2> QED BY <1>1, <1>7, <2>1, ReconcileStartStep DEF LiveInv
<1>8. CASE EndRegistration
    <2>1. Live' \subseteq Live
        BY <1>8 DEF EndRegistration, windowsVars, Live
    <2> QED BY <1>1, <1>8, <2>1, EndRegistrationStep DEF LiveInv
<1>9. CASE HostStart
    <2>1. Live' \subseteq Live
        BY <1>9 DEF HostStart, windowsVars, Live
    <2> QED BY <1>1, <1>9, <2>1, HostStartStep DEF LiveInv
<1>10. CASE RunnerSeesExit \/ RunnerLaunches \/ RunnerObserves
    <2>1. Live' \subseteq Live
        BY <1>10 DEF RunnerSeesExit, RunnerLaunches, RunnerObserves, windowsVars, Live
    <2> QED BY <1>1, <1>10, <2>1, RunnerStep DEF LiveInv
<1>11. ASSUME UNCHANGED <<issued, entry, runtime, host, registered>>, ctls' \subseteq ctls,
              Live' \subseteq Live,
              \/ UNCHANGED <<loop, seen>>
              \/ loop' \in {"idle", "reconcile", "logoff", "shutdown"} /\ UNCHANGED seen
              \/ ReadSessions \/ ReadRegistrations \/ ReconcileEnd
       PROVE  LiveInv'
    <2>1. ASSUME NEW n \in Live'
          PROVE  LogonInv(n)'
        <3>1. n \in Live /\ LogonInv(n)
            BY <1>1, <1>11, <2>1
        <3>2. IssuedTo(n) => ReadInv(n)'
            <4>1. IssuedTo(n) => ReadInv(n)
                BY <3>1 DEF LogonInv
            <4>2. CASE UNCHANGED <<loop, seen>>
                BY <1>11, <4>1, <4>2 DEF ReadInv, Reading
            <4>3. CASE loop' \in {"idle", "reconcile", "logoff", "shutdown"}
                BY <4>3 DEF ReadInv, Reading
            <4>4. CASE ReadSessions
                BY <1>1, <3>1, <4>4, ListedReading
            <4>5. CASE ReadRegistrations
                BY <1>1, <4>1, <4>5, ReadRegistrationsStep
            <4>6. CASE ReconcileEnd
                BY <1>1, <3>1, <4>6, ReconcileEndStep
            <4> QED BY <1>11, <4>2, <4>3, <4>4, <4>5, <4>6
        <3>3. Forgotten => Forgotten'
            <4>1. CASE ReadRegistrations
                <5>1. SeenOK /\ registered \in BOOLEAN
                    BY <1>1, TypeParts
                <5>2. seen'.registered = registered
                    BY <4>1, <5>1 DEF ReadRegistrations, SeenOK
                <5> QED BY <1>11, <5>2 DEF Forgotten
            <4>2. CASE UNCHANGED <<loop, seen>>
                BY <1>11, <4>2 DEF Forgotten
            <4>3. CASE loop' # "apply"
                BY <1>11, <4>3 DEF Forgotten
            <4> QED BY <1>11, <4>1, <4>2, <4>3 DEF ReadSessions, ReconcileEnd
        <3> QED BY <1>11, <3>1, <3>2, <3>3, QuietStep
    <2> QED BY <2>1 DEF LiveInv
<1>12. CASE Tick \/ ReceiveReconcile \/ ReceiveLogoff \/ ReceivePreshutdown
    <2>1. /\ UNCHANGED <<issued, entry, runtime, host, registered, ctls, seen, listed, leaving,
                         touched>>
          /\ loop' = loop \/ loop' \in {"reconcile", "logoff", "shutdown"}
        BY <1>12 DEF Tick, ReceiveReconcile, ReceiveLogoff, ReceivePreshutdown, countVars,
                windowsVars
    <2> QED BY <1>11, <2>1 DEF Live
<1>13. CASE ReadSessions \/ ReadRegistrations \/ ReconcileEnd
    <2>1. UNCHANGED <<issued, entry, runtime, host, registered, ctls, listed, leaving, touched>>
        BY <1>13 DEF ReadSessions, ReadRegistrations, ReconcileEnd, countVars, windowsVars
    <2> QED BY <1>11, <1>13, <2>1 DEF Live
<1>14. CASE RestartController \/ \E c \in ctls : ControllerEnds(c)
    <2>1. /\ UNCHANGED <<issued, entry, runtime, host, registered, loop, seen, listed, leaving,
                         touched>>
          /\ ctls' \subseteq ctls
        BY <1>14 DEF RestartController, JoinRunner, ControllerEnds, countVars, windowsVars
    <2> QED BY <1>11, <2>1 DEF Live
<1>15. CASE \E n \in listed : LogoffBegins(n) \/ LogoffEnds(n)
    <2>1. /\ UNCHANGED <<issued, entry, runtime, host, registered, loop, seen, touched>>
          /\ ctls' \subseteq ctls /\ Live' \subseteq Live
        BY <1>15 DEF LogoffBegins, LogoffEnds, countVars, Live
    <2> QED BY <1>11, <2>1
<1>16. CASE \/ \E command \in {"detach", "preshutdown"} : Control(command)
            \/ UNCHANGED vars
    <2>1. UNCHANGED <<issued, entry, runtime, host, registered, ctls, loop, seen, listed, leaving,
                      touched>>
        BY <1>16 DEF Control, vars, countVars, windowsVars
    <2> QED BY <1>11, <2>1 DEF Live
<1>17. CASE \E m \in listed \cup seen.sessions : CrashInSave(m)
    <2>1. PICK m \in listed \cup seen.sessions : CrashInSave(m)
        BY <1>17
    <2>2. Live' \subseteq Live \ {m}
        BY <1>1, <2>1, SaveCrash DEF HostLost, Live
    <2> QED BY <1>1, <2>1, <2>2, SaveCrashStep DEF LiveInv
<1>18. CASE HostStartFails
    <2>1. Live' \subseteq Live
        BY <1>18 DEF HostStartFails, windowsVars, Live
    <2> QED BY <1>1, <1>18, <2>1, HostStartFailsStep DEF LiveInv
<1> QED
    BY <1>2, <1>3, <1>4, <1>5, <1>6, <1>7, <1>8, <1>9, <1>10, <1>12, <1>13, <1>14, <1>15, <1>16,
       <1>17, <1>18
    DEF Next, LoopStep

-----------------------------------------------------------------------------
(* The theorems. *)

LEMMA StepIInv ==
    ASSUME IInv, [Next]_vars
    PROVE  IInv'
BY TypeStep, ShapeStep, SessionStep, PidStep, EndStep, LiveStep DEF IInv

LEMMA Invariance == Spec => []IInv
<1>1. Init => IInv
    BY InitIInv
<1>2. IInv /\ [Next]_vars => IInv'
    BY StepIInv
<1> QED BY <1>1, <1>2, PTL DEF Spec

\* The host's records, its queue of commands and its view of Windows stay well
\* formed: a runner belongs to a session of a logon, and it has a process unless
\* it waits to launch one.
THEOREM HostTypes == Spec => []TypeOK
<1>1. IInv => TypeOK
    BY DEF IInv
<1> QED BY <1>1, Invariance, PTL

LEMMA KeepsOne ==
    ASSUME IInv
    PROVE  OnePerLogon
<1>1. SUFFICES ASSUME NEW n \in Live
               PROVE  /\ Cardinality({r \in issued : r.logon = n}) <= 1
                      /\ Cardinality({c \in ctls : c.logon = n}) <= 1
                      /\ \A r, q \in issued : r.logon = n /\ r.session = q.session => q.logon = n
    BY DEF OnePerLogon, Live
<1>2. LogonInv(n)
    BY DEF IInv, LiveInv
<1>3. Cardinality({r \in issued : r.logon = n}) <= 1
    BY <1>2, AtMostOne DEF LogonInv
<1>4. Cardinality({c \in ctls : c.logon = n}) <= 1
    <2>1. \A c, d \in ctls : c.logon = n /\ d.logon = n => c = d
        BY <1>2 DEF LogonInv, ControllerInv
    <2> QED BY <2>1, AtMostOne
<1>5. \A r, q \in issued : r.logon = n /\ r.session = q.session => q.logon = n
    BY DEF IInv, SessionInv
<1> QED BY <1>3, <1>4, <1>5

\* Whatever the interleaving of reconciliation, runner, registration calls,
\* crashes of the host and of its controllers, detaching for an upgrade and
\* adopting: a logon that nobody leaves keeps one manager session and has at most
\* one controller (reconcile, start_registration and open_existing).
THEOREM OneControllerPerLogon == Spec => []OnePerLogon
<1>1. IInv => OnePerLogon
    BY KeepsOne
<1> QED BY <1>1, Invariance, PTL

LEMMA EndedStep ==
    ASSUME IInv, [Next]_vars, NEW n \in ending, NEW x \in issued' \ issued
    PROVE  x.logon # n \/ n \in touched'
<1> USE DEF IInv
<1>1. CASE ReconcileStart
    <2>1. PICK m \in seen.sessions :
            \/ Fails(Taken(m))
            \/ Outcome(Taken(m), m, IF Reconciled.logon = m THEN Reconciled.recorded ELSE 0)
        BY <1>1, ReconcileStartOutcome
    <2>2. x.logon = m
        BY <2>1 DEF Fails, Outcome
    <2>3. m \notin ending
        BY <1>1 DEF EndInv, Reading, ReconcileStart
    <2> QED BY <2>2, <2>3
<1>2. CASE RegisterStarts
    <2>1. PICK m \in listed : Outcome([Reconciled EXCEPT !.session = 0], m, 0)
        BY <1>2, RegisterStartsOutcome
    <2>2. x.logon = m
        BY <2>1 DEF Outcome
    <2> QED BY <1>2, <2>2 DEF RegisterStarts, Touch
<1>3. CASE UNCHANGED issued
    BY <1>3
<1>4. CASE \E m \in listed \cup seen.sessions : CrashInSave(m)
    <2>1. PICK m \in listed \cup seen.sessions : CrashInSave(m)
        BY <1>4
    <2> QED BY <2>1, SaveCrash
<1> QED
    BY <1>1, <1>2, <1>3, <1>4 DEF Next, LoopStep, vars, countVars, Tick, ReceiveReconcile,
        ReceiveLogoff, ReceivePreshutdown, ReceiveDetach, ReadSessions, ReadRegistrations,
        ReconcileForget, ReconcileKeep, ReconcileEnd, EndRegistration, HostCrash, HostLost,
        HostStart, HostStartFails, RunnerSeesExit, RunnerLaunches, RunnerObserves, Register,
        Unregister, UnregisterRemoves, UnregisterEnds, RestartController, Logon, LogoffBegins,
        LogoffEnds, Control, ControllerEnds, Finished, Calls

\* Once the host has handled the logoff of a logon, no reconciliation starts a
\* session in it again, although Windows still lists it and a reading may be
\* under way (ending_windows_sessions); only a registration call does.
THEOREM EndedLogonsStayEnded == Spec => EndedStaysEnded
<1>1. IInv /\ [Next]_vars =>
        [\A n \in ending : \A r \in issued' \ issued : r.logon # n \/ n \in touched']_vars
    BY EndedStep
<1> QED BY <1>1, Invariance, PTL DEF Spec, EndedStaysEnded

=============================================================================
