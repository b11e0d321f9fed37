----------------------------- MODULE ReloadProofs -----------------------------
(***************************************************************************)
(* For any files, definitions, number of changes and of concurrent loads,  *)
(* a candidate that load_directory accepts is what the directory held at   *)
(* one instant.  The argument: a last-write time names one content of a    *)
(* file, so bytes read under a time that is still the file's are its       *)
(* content; and a time that is the same before and after the second        *)
(* listing was the file's time at the second listing.                      *)
(*                                                                         *)
(* Reload uses load_directory as ConfigDirectory says, so that what is     *)
(* proved of the directory holds of a controller that reloads, crashes and *)
(* starts again; and the restart flag of status is accurate, for any       *)
(* workloads, definitions, number of concurrent calls, faults and starts.  *)
(***************************************************************************)
EXTENDS Reload, TLAPS

-----------------------------------------------------------------------------
(* load_directory *)

File == [content : Contents, modified : Nat \ {0}]
Locals == [at : {"idle", "read", "verify"}, held : [Workloads -> Contents],
           todo : SUBSET Workloads, stamps : [Workloads -> Nat],
           again : [Workloads -> Nat], bytes : [Workloads -> Contents]]

\* The bytes of a file are read after its time was noted, and are its content
\* as long as it keeps that time.
BytesAreCurrent(l, w, file) ==
    /\ l.stamps[w] = 0 => l.bytes[w] = Absent
    /\ l.bytes[w] # Absent /\ l.stamps[w] = file.modified => l.bytes[w] = file.content
    /\ l.at = "read" /\ w \in l.todo => l.stamps[w] = 0

\* After the second listing all the files are read, a listed file is looked at
\* again or will be, and a time that is the same names the content listed.
AgreementIsSound(l, w, file) ==
    /\ l.stamps[w] # 0 => l.bytes[w] # Absent
    /\ l.stamps[w] = file.modified => l.bytes[w] = l.held[w]
    /\ l.again[w] # 0 /\ l.again[w] = l.stamps[w] => l.bytes[w] = l.held[w]
    /\ l.held[w] # Absent => w \in l.todo \/ l.again[w] # 0

\* What a call knows of a file; the times it has noted are never in the future.
FileInv(l, w, file) ==
    /\ l.stamps[w] <= file.modified /\ l.again[w] <= file.modified
    /\ BytesAreCurrent(l, w, file)
    /\ IF l.at = "verify" THEN AgreementIsSound(l, w, file) ELSE l.again[w] = 0

LocalInv(l, d) == l \in Locals /\ \A w \in Workloads : FileInv(l, w, d[w])

\* Times come from the count of changes: a change gives a time never seen.
DirectoryInv ==
    /\ edits \in Nat
    /\ directory \in [Workloads -> File]
    /\ \A w \in Workloads : directory[w].modified <= edits + 1
    /\ load \in [Calls -> Locals]
    /\ \A c \in Calls : LocalInv(load[c], directory)

\* A call that has not begun knows nothing, whatever the directory.
LEMMA IdleInv ==
    ASSUME NEW d \in [Workloads -> File]
    PROVE  LocalInv(Idle, d)
<1>1. Idle \in Locals
  BY DEF Idle, NoBytes, NoStamps, Locals, Contents
<1>2. \A w \in Workloads : FileInv(Idle, w, d[w])
  BY DEF Idle, NoBytes, NoStamps, FileInv, BytesAreCurrent, AgreementIsSound, File
<1>3. QED  BY <1>1, <1>2 DEF LocalInv

\* The next of some files is one of them.
LEMMA NextOfIn == \A files : files # {} => NextOf(files) \in files
BY DEF NextOf

\* A step of one call that leaves the directory alone keeps the invariant if
\* the new locals satisfy it.
LEMMA OneCall ==
    ASSUME DirectoryInv, NEW c \in Calls, NEW l, LocalInv(l, directory),
           Set(c, l), UNCHANGED <<directory, edits>>
    PROVE  DirectoryInv'
<1>1. l \in Locals
  BY DEF LocalInv
<1>2. load' \in [Calls -> Locals]
  BY <1>1 DEF Set, DirectoryInv
<1>3. \A e \in Calls : load'[e] = IF e = c THEN l ELSE load[e]
  BY DEF Set, DirectoryInv
<1>4. \A e \in Calls : LocalInv(load'[e], directory)
  BY <1>3 DEF DirectoryInv
<1>5. QED
  BY <1>2, <1>4 DEF DirectoryInv, LocalInv, FileInv, BytesAreCurrent, AgreementIsSound

\* The first listing.
LEMMA BeginLoadStep ==
    ASSUME DirectoryInv, NEW c \in Calls, BeginLoad(c)
    PROVE  DirectoryInv'
<1> DEFINE l == [Idle EXCEPT !.at = "read", !.todo = Present]
<1>1. l \in Locals
  BY DEF Idle, NoBytes, NoStamps, Locals, Contents, Present
<1>2. \A w \in Workloads : FileInv(l, w, directory[w])
  BY DEF Idle, NoBytes, NoStamps, FileInv, BytesAreCurrent, AgreementIsSound,
     File, DirectoryInv
<1>3. QED
  BY <1>1, <1>2, OneCall DEF BeginLoad, LocalInv

\* A file's time is noted before its bytes are read.
LEMMA EnumerateStep ==
    ASSUME DirectoryInv, NEW c \in Calls, Enumerate(c)
    PROVE  DirectoryInv'
<1> DEFINE w == NextOf(load[c].todo)
<1> DEFINE l == [load[c] EXCEPT !.todo = @ \ {w}, !.stamps[w] = directory[w].modified]
<1>1. load[c] \in Locals /\ w \in Workloads /\ w \in load[c].todo
  BY NextOfIn DEF Enumerate, DirectoryInv, Locals
<1>2. directory[w] \in File
  BY <1>1 DEF DirectoryInv
<1>3. l \in Locals
  BY <1>1, <1>2 DEF Locals, File
<1>4. ASSUME NEW v \in Workloads PROVE FileInv(l, v, directory[v])
  BY <1>1, <1>2 DEF Enumerate, At, DirectoryInv, LocalInv, FileInv, BytesAreCurrent,
     AgreementIsSound, Locals, File
<1>5. QED
  BY <1>3, <1>4, OneCall DEF Enumerate, LocalInv

\* The bytes of a file are its content now.
LEMMA ReadFileStep ==
    ASSUME DirectoryInv, NEW c \in Calls, ReadFile(c)
    PROVE  DirectoryInv'
<1> DEFINE w == NextOf(Unread(c))
<1> DEFINE l == [load[c] EXCEPT !.bytes[w] = directory[w].content]
<1>1. load[c] \in Locals /\ w \in Workloads /\ load[c].stamps[w] # 0
  BY NextOfIn DEF ReadFile, Unread, Known, DirectoryInv
<1>2. directory[w] \in File
  BY <1>1 DEF DirectoryInv
<1>3. l \in Locals
  BY <1>1, <1>2 DEF Locals, File
<1>4. ASSUME NEW v \in Workloads PROVE FileInv(l, v, directory[v])
  BY <1>1, <1>2 DEF ReadFile, At, DirectoryInv, LocalInv, FileInv, BytesAreCurrent,
     AgreementIsSound, Locals, File
<1>5. QED
  BY <1>3, <1>4, OneCall DEF ReadFile, LocalInv

\* The second listing: the bytes under a time that is still the file's are the
\* content listed.
LEMMA ListAgainStep ==
    ASSUME DirectoryInv, NEW c \in Calls, ListAgain(c)
    PROVE  DirectoryInv'
<1> DEFINE l == [load[c] EXCEPT !.at = "verify", !.held = Held, !.todo = Present]
<1>1. load[c] \in Locals
  BY DEF DirectoryInv
<1>2. Held \in [Workloads -> Contents] /\ Present \in SUBSET Workloads
  BY DEF Held, Present, DirectoryInv, File
<1>3. l \in Locals
  BY <1>1, <1>2 DEF Locals
<1>4. ASSUME NEW v \in Workloads PROVE FileInv(l, v, directory[v])
  <2>1. directory[v] \in File /\ FileInv(load[c], v, directory[v])
    BY DEF DirectoryInv, LocalInv
  <2>2. load[c].stamps[v] # 0 => load[c].bytes[v] # Absent
    BY DEF ListAgain, Unread, Known
  <2>3. Held[v] = directory[v].content /\ (v \in Present <=> Held[v] # Absent)
    BY DEF Held, Present
  <2>4. QED
    BY <1>1, <2>1, <2>2, <2>3 DEF ListAgain, At, FileInv, BytesAreCurrent,
       AgreementIsSound, Locals, File
<1>5. QED
  BY <1>3, <1>4, OneCall DEF ListAgain, LocalInv

\* A time noted again that is the one noted first is still the file's.
LEMMA EnumerateAgainStep ==
    ASSUME DirectoryInv, NEW c \in Calls, EnumerateAgain(c)
    PROVE  DirectoryInv'
<1> DEFINE w == NextOf(load[c].todo)
<1> DEFINE l == [load[c] EXCEPT !.todo = @ \ {w}, !.again[w] = directory[w].modified]
<1>1. load[c] \in Locals /\ w \in Workloads /\ w \in load[c].todo
  BY NextOfIn DEF EnumerateAgain, DirectoryInv, Locals
<1>2. directory[w] \in File
  BY <1>1 DEF DirectoryInv
<1>3. l \in Locals
  BY <1>1, <1>2 DEF Locals, File
<1>4. ASSUME NEW v \in Workloads PROVE FileInv(l, v, directory[v])
  BY <1>1, <1>2 DEF EnumerateAgain, At, DirectoryInv, LocalInv, FileInv, BytesAreCurrent,
     AgreementIsSound, Locals, File
<1>5. QED
  BY <1>3, <1>4, OneCall DEF EnumerateAgain, LocalInv

\* A change gives the file a time no call has noted.
LEMMA EditStep ==
    ASSUME DirectoryInv, NEW w \in Workloads, NEW content \in Editable[w], Edit(w, content)
    PROVE  DirectoryInv'
<1>1. content \in Contents
  BY DirectoryAssumption DEF Contents
<1>2. directory' \in [Workloads -> File] /\ edits' \in Nat
  BY <1>1 DEF Edit, DirectoryInv, File
<1>3. \A v \in Workloads : v # w => directory'[v] = directory[v]
  BY DEF Edit, DirectoryInv
<1>4. directory'[w].modified = edits + 2
  BY DEF Edit, DirectoryInv
<1>5. \A v \in Workloads : directory'[v].modified <= edits' + 1
  BY <1>3, <1>4 DEF Edit, DirectoryInv, File
<1>6. ASSUME NEW c \in Calls, NEW v \in Workloads PROVE FileInv(load[c], v, directory'[v])
  <2>1. directory[v] \in File /\ FileInv(load[c], v, directory[v])
        /\ load[c] \in Locals /\ directory[v].modified <= edits + 1 /\ edits \in Nat
    BY DEF DirectoryInv, LocalInv
  <2>2. CASE v = w
    BY <1>4, <2>1, <2>2 DEF FileInv, BytesAreCurrent, AgreementIsSound, Locals, File
  <2>3. CASE v # w
    BY <1>3, <2>1, <2>3
  <2>4. QED  BY <2>2, <2>3
<1>7. load' = load
  BY DEF Edit
<1>8. QED
  BY <1>2, <1>5, <1>6, <1>7
  DEF DirectoryInv, LocalInv, FileInv, BytesAreCurrent, AgreementIsSound

\* Calls that end, for any reason, forget what they knew.
LEMMA ReleaseStep ==
    ASSUME DirectoryInv, UNCHANGED <<directory, edits>>,
           ReleaseAll \/ \E c \in Calls : Set(c, Idle)
    PROVE  DirectoryInv'
<1>1. LocalInv(Idle, directory)
  BY IdleInv DEF DirectoryInv
<1>2. CASE ReleaseAll
  <2>1. load' \in [Calls -> Locals] /\ \A c \in Calls : load'[c] = Idle
    BY <1>1, <1>2 DEF ReleaseAll, LocalInv
  <2>2. QED
    BY <1>1, <2>1 DEF DirectoryInv, LocalInv, FileInv, BytesAreCurrent, AgreementIsSound
<1>3. CASE \E c \in Calls : Set(c, Idle)
  BY <1>1, <1>3, OneCall
<1>4. QED  BY <1>2, <1>3

\* DirectoryInv is inductive: it holds of every state of the directory and its
\* loads.
THEOREM DirectoryInductive == DirectorySpec => []DirectoryInv
<1>1. DirectoryInit => DirectoryInv
  <2> SUFFICES ASSUME DirectoryInit PROVE DirectoryInv
    OBVIOUS
  <2>1. directory \in [Workloads -> File]
    BY DirectoryAssumption DEF DirectoryInit, File, Contents
  <2>2. LocalInv(Idle, directory) /\ Idle \in Locals
    BY <2>1, IdleInv DEF LocalInv
  <2>3. QED
    BY <2>1, <2>2 DEF DirectoryInit, DirectoryInv
<1>2. DirectoryInv /\ [DirectoryNext]_dirVars => DirectoryInv'
  <2> SUFFICES ASSUME DirectoryInv, [DirectoryNext]_dirVars PROVE DirectoryInv'
    OBVIOUS
  <2>1. CASE UNCHANGED dirVars
    BY <2>1 DEF dirVars, DirectoryInv, LocalInv, FileInv, BytesAreCurrent, AgreementIsSound
  <2>2. CASE \E w \in Workloads : \E content \in Editable[w] : Edit(w, content)
    BY <2>2, EditStep
  <2>3. CASE ReleaseAll \/ \E c \in Calls : LoadFails(c) \/ Release(c)
    BY <2>3, ReleaseStep DEF ReleaseAll, LoadFails, Release
  <2>4. CASE \E c \in Calls : \/ BeginLoad(c) \/ Enumerate(c) \/ ReadFile(c)
                              \/ ListAgain(c) \/ EnumerateAgain(c)
    BY <2>4, BeginLoadStep, EnumerateStep, ReadFileStep, ListAgainStep, EnumerateAgainStep
  <2>5. QED
    BY <2>1, <2>2, <2>3, <2>4 DEF DirectoryNext
<1>3. QED
  BY <1>1, <1>2, PTL DEF DirectorySpec

\* load_directory never accepts a mixture of two states of the directory
\* (loader.rs:144), for any files and any number of changes and loads.
THEOREM GenerationsAreNotMixed == DirectorySpec => []NoMixedGeneration
<1>1. DirectoryInv => NoMixedGeneration
  <2> SUFFICES ASSUME DirectoryInv, NEW c \in Calls, Loaded(c)
               PROVE  Candidate(c) = load[c].held
    BY DEF NoMixedGeneration
  <2>1. load[c] \in Locals
    BY DEF DirectoryInv
  <2>2. ASSUME NEW w \in Workloads PROVE load[c].bytes[w] = load[c].held[w]
    BY <2>1 DEF Loaded, At, DirectoryInv, LocalInv, FileInv, BytesAreCurrent,
       AgreementIsSound, Locals
  <2>3. QED
    BY <2>1, <2>2 DEF Candidate, Locals
<1>2. QED
  BY <1>1, DirectoryInductive, PTL

-----------------------------------------------------------------------------
(* Reload *)

\* A free thread is found if there is one.
LEMMA FreeThread ==
    /\ (\E c \in Calls : Free(c)) => (CHOOSE c \in Calls : Free(c)) \in Calls
    /\ (CHOOSE c \in Calls : TRUE) \in Calls
BY DirectoryAssumption

\* A step of a call uses the directory as load_directory does.
LEMMA ReloadStepOnDirectory ==
    ASSUME NEW c \in Calls, ReloadStep(c)
    PROVE  [DirectoryNext]_dirVars
<1>1. CASE Load(c) \/ LoadError(c)
  BY <1>1 DEF Load, LoadError, DirectoryNext
<1>2. CASE RejectKindChange(c) \/ CheckKinds(c)
  BY <1>2 DEF RejectKindChange, CheckKinds, DirectoryNext
<1>3. CASE ReplaceDefinitions(c) \/ LoadWorkloads(c) \/ Install(c) \/ Unchanged(c)
  BY <1>3 DEF ReplaceDefinitions, LoadWorkloads, Install, Unchanged
<1>4. QED  BY <1>1, <1>2, <1>3 DEF ReloadStep

\* Whatever the controller, its supervisors and the editor do, the directory
\* and the calls that read it behave as ConfigDirectory specifies.
THEOREM ReloadLoadsDirectory == Spec => DirectorySpec
<1>1. Init => DirectoryInit
  BY DEF Init
<1>2. [Next]_vars => [DirectoryNext]_dirVars
  <2> SUFFICES ASSUME [Next]_vars PROVE [DirectoryNext]_dirVars
    OBVIOUS
  <2>1. CASE UNCHANGED vars
    BY <2>1 DEF vars
  <2>2. CASE CallReload \/ Open
    BY <2>2, FreeThread DEF CallReload, Open, DirectoryNext
  <2>3. CASE Crash
    BY <2>3 DEF Crash, DirectoryNext
  <2>4. CASE \E c \in Calls : ReloadStep(c)
    BY <2>4, ReloadStepOnDirectory
  <2>5. ASSUME NEW w \in Workloads,
               \/ Start(w) \/ Finish(w) \/ SupervisorStep(w)
               \/ Disconnect(w) \/ ReplaceSupervisor(w)
        PROVE  UNCHANGED dirVars
    BY <2>5 DEF Start, Finish, SupervisorStep, Attach, ReceiveUpdate, ApplyPolicy,
       RecordPolicyApplied, Disconnect, ReplaceSupervisor
  <2>6. CASE \E w \in Workloads : EditFile(w)
    BY <2>6 DEF EditFile, DirectoryNext
  <2>7. QED
    BY <2>1, <2>2, <2>3, <2>4, <2>5, <2>6 DEF Next
<1>3. QED
  BY <1>1, <1>2, PTL DEF Spec, DirectorySpec

\* No reload ever accepts a mixture of two states of the directory
\* (loader.rs:144).
THEOREM ReloadsAreNotMixed == Spec => []NoMixedGeneration
BY ReloadLoadsDirectory, GenerationsAreNotMixed, PTL

-----------------------------------------------------------------------------
(* The restart flag. *)

\* What the controller and the database hold are definitions of the directory.
DefinitionsInv ==
    /\ stored \in [Workloads -> Row] /\ workloads \in [Workloads -> Row]
    /\ step \in [Calls -> {"load", "replace", "fetch", "install", "unchanged"}]
    /\ candidate \in [Calls -> [Workloads -> Contents] \cup {None}]
    /\ rows \in [Calls -> [Workloads -> Row] \cup {None}]
    /\ \A c \in Calls :
          /\ step[c] = "replace" => candidate[c] \in [Workloads -> Contents]
          /\ step[c] = "install" => rows[c] \in [Workloads -> Row]

\* An active execution runs the process of its snapshot in the database.
SnapshotInv ==
    /\ active \in [Workloads -> Active \cup {None}]
    /\ executions \in [Workloads -> Definitions \cup {None}]
    /\ \A w \in Workloads : active[w] # None =>
          /\ active[w] \in Active
          /\ executions[w] \in Definitions /\ executions[w] # None
          /\ active[w].process = executions[w].process

FlagInv == DefinitionsInv /\ SnapshotInv /\ RestartFlagAccurate

\* A row whose definition is one of the directory's, or none.
LEMMA Rows ==
    /\ \A k \in {d.kind : d \in Definitions}, d \in Contents :
          [kind |-> k, definition |-> d] \in Row
    /\ \A r \in Row : r.definition \in Contents /\ r.kind \in {d.kind : d \in Definitions}
    /\ \A d \in Contents : d # Absent => d \in Definitions
BY DEF Row, Contents

\* A call that fails or ends changes none of it.
LEMMA ReturnStep ==
    ASSUME DefinitionsInv, NEW c \in Calls, Return(c),
           UNCHANGED stored, workloads' \in [Workloads -> Row]
    PROVE  DefinitionsInv'
BY DEF DefinitionsInv, Return

\* reconcile_reload makes the flag of each active execution accurate for the
\* definitions it is given.
LEMMA Reconciliation ==
    ASSUME SnapshotInv, NEW r \in [Workloads -> Row], ReconcileReload(r),
           workloads' = r, UNCHANGED executions
    PROVE  SnapshotInv' /\ RestartFlagAccurate'
<1> DEFINE Of(w) == IF active[w] = None THEN None ELSE Reconciled(active[w], r[w].definition)
<1>1. active' = [w \in Workloads |-> Of(w)]
  BY DEF ReconcileReload
<1>2. ASSUME NEW w \in Workloads, active[w] # None
      PROVE  /\ Of(w) \in Active /\ Of(w).process = active[w].process
             /\ Of(w).restart_required <=> /\ r[w].definition # Absent
                                           /\ r[w].definition.process # active[w].process
  <2>1. active[w] \in Active
    BY <1>2 DEF SnapshotInv
  <2>2. r[w].definition # Absent => r[w].definition \in Definitions
    BY Rows
  <2>3. CASE r[w].definition = Absent
    BY <1>2, <2>1, <2>3 DEF Reconciled, Active
  <2>4. CASE r[w].definition # Absent
    <3>1. r[w].definition.policy \in Policies
      BY <2>2, <2>4 DEF Policies
    <3>2. QED
      BY <1>2, <2>1, <2>4, <3>1 DEF Reconciled, Active
  <2>5. QED  BY <2>3, <2>4
<1>3. \A w \in Workloads : active[w] = None => active'[w] = None
  BY <1>1
<1>4. \A w \in Workloads : active[w] # None => active'[w] = Of(w)
  BY <1>1
<1> HIDE DEF Of
<1>5. SnapshotInv'
  BY <1>1, <1>2, <1>3, <1>4 DEF SnapshotInv
<1>6. RestartFlagAccurate'
  BY <1>2, <1>3, <1>4 DEF SnapshotInv, RestartFlagAccurate
<1>7. QED  BY <1>5, <1>6

\* The steps of a call of reload.
LEMMA ReloadStepKeepsFlag ==
    ASSUME FlagInv, DirectoryInv, NEW c \in Calls, ReloadStep(c)
    PROVE  FlagInv'
<1> USE DEF FlagInv
<1>1. CASE Load(c)
  BY <1>1 DEF Load, dbVars, callVars, DefinitionsInv, SnapshotInv, RestartFlagAccurate
<1>2. CASE LoadError(c) \/ RejectKindChange(c)
  <2>1. DefinitionsInv'
    BY <1>2, ReturnStep DEF LoadError, RejectKindChange, dbVars, DefinitionsInv
  <2>2. SnapshotInv' /\ RestartFlagAccurate'
    BY <1>2 DEF LoadError, RejectKindChange, dbVars, SnapshotInv, RestartFlagAccurate
  <2>3. QED  BY <2>1, <2>2
<1>3. CASE CheckKinds(c)
  <2>1. Candidate(c) \in [Workloads -> Contents]
    BY DEF Candidate, DirectoryInv, Locals
  <2>2. DefinitionsInv'
    BY <1>3, <2>1 DEF CheckKinds, dbVars, DefinitionsInv
  <2>3. SnapshotInv' /\ RestartFlagAccurate'
    BY <1>3 DEF CheckKinds, dbVars, SnapshotInv, RestartFlagAccurate
  <2>4. QED  BY <2>2, <2>3
<1>4. CASE ReplaceDefinitions(c)
  <2>1. candidate[c] \in [Workloads -> Contents]
    BY <1>4 DEF ReplaceDefinitions, DefinitionsInv
  <2>2. ASSUME NEW w \in Workloads
        PROVE  [kind |-> IF candidate[c][w] = Absent THEN stored[w].kind
                         ELSE candidate[c][w].kind,
                definition |-> candidate[c][w]] \in Row
    BY <2>1, Rows DEF DefinitionsInv
  <2>3. stored' \in [Workloads -> Row]
    BY <1>4, <2>2 DEF ReplaceDefinitions, DefinitionsInv
  <2>4. DefinitionsInv'
    BY <1>4, <2>3 DEF ReplaceDefinitions, DefinitionsInv
  <2>5. SnapshotInv' /\ RestartFlagAccurate'
    BY <1>4 DEF ReplaceDefinitions, SnapshotInv, RestartFlagAccurate
  <2>6. QED  BY <2>4, <2>5
<1>5. CASE LoadWorkloads(c)
  <2>1. DefinitionsInv'
    BY <1>5 DEF LoadWorkloads, dbVars, DefinitionsInv
  <2>2. SnapshotInv' /\ RestartFlagAccurate'
    BY <1>5 DEF LoadWorkloads, dbVars, SnapshotInv, RestartFlagAccurate
  <2>3. QED  BY <2>1, <2>2
<1>6. CASE Install(c)
  <2>1. rows[c] \in [Workloads -> Row]
    BY <1>6 DEF Install, DefinitionsInv
  <2>2. DefinitionsInv'
    BY <1>6, <2>1, ReturnStep DEF Install, dbVars
  <2>3. SnapshotInv' /\ RestartFlagAccurate'
    BY <1>6, <2>1, Reconciliation DEF Install, dbVars
  <2>4. QED  BY <2>2, <2>3
<1>7. CASE Unchanged(c)
  <2>1. workloads \in [Workloads -> Row]
    BY DEF DefinitionsInv
  <2>2. DefinitionsInv'
    BY <1>7, <2>1, ReturnStep DEF Unchanged, dbVars
  <2>3. SnapshotInv' /\ RestartFlagAccurate'
    BY <1>7, <2>1, Reconciliation DEF Unchanged, dbVars
  <2>4. QED  BY <2>2, <2>3
<1>8. QED
  BY <1>1, <1>2, <1>3, <1>4, <1>5, <1>6, <1>7 DEF ReloadStep

\* An execution starts with the definition in memory: nothing to restart for.
LEMMA StartKeepsFlag ==
    ASSUME FlagInv, NEW w \in Workloads, Start(w)
    PROVE  FlagInv'
<1> DEFINE d == workloads[w].definition
<1>1. d \in Definitions /\ d # Absent
  BY Rows DEF Start, FlagInv, DefinitionsInv
<1>2. [process |-> d.process, policy |-> d.policy,
       restart_required |-> FALSE, policy_sync_pending |-> FALSE] \in Active
  BY <1>1 DEF Active, Policies
<1>3. DefinitionsInv'
  BY DEF Start, FlagInv, DefinitionsInv, callVars
<1>4. d # None
  BY <1>1, ReloadAssumption
<1>5. SnapshotInv'
  BY <1>1, <1>2, <1>4 DEF Start, FlagInv, SnapshotInv
<1>6. RestartFlagAccurate'
  BY <1>1, <1>2, <1>4 DEF Start, FlagInv, SnapshotInv, RestartFlagAccurate
<1>7. QED  BY <1>3, <1>5, <1>6 DEF FlagInv

\* A new controller knows of no flag until it has reloaded.
LEMMA OpenKeepsFlag ==
    ASSUME FlagInv, Open, ~reconciled
    PROVE  FlagInv'
<1>1. DefinitionsInv'
  BY DEF Open, FlagInv, DefinitionsInv, dbVars, callVars
<1>2. ASSUME NEW w \in Workloads, Running(w)
      PROVE  /\ executions[w] \in Definitions
             /\ [process |-> executions[w].process, policy |-> executions[w].policy,
                 restart_required |-> FALSE, policy_sync_pending |-> FALSE] \in Active
  BY <1>2 DEF FlagInv, SnapshotInv, Running, Active, Policies
<1>3. SnapshotInv'
  BY <1>2 DEF Open, FlagInv, SnapshotInv, dbVars, Running
<1>4. RestartFlagAccurate'
  BY DEF Open, RestartFlagAccurate
<1>5. QED  BY <1>1, <1>3, <1>4 DEF FlagInv

\* A controller that is down has reconciled nothing.
NotReconciledDown == controller = "down" => ~reconciled

LEMMA DownKnowsNothing == Spec => []NotReconciledDown
<1>1. Init => NotReconciledDown
  BY DEF Init, NotReconciledDown
<1>2. NotReconciledDown /\ [Next]_vars => NotReconciledDown'
  <2> SUFFICES ASSUME NotReconciledDown, [Next]_vars PROVE NotReconciledDown'
    OBVIOUS
  <2>1. CASE UNCHANGED vars
    BY <2>1 DEF vars, NotReconciledDown
  <2>2. CASE CallReload \/ Open \/ Crash
    BY <2>2 DEF CallReload, Open, Crash, NotReconciledDown
  <2>3. ASSUME NEW c \in Calls, ReloadStep(c) PROVE NotReconciledDown'
    BY <2>3 DEF ReloadStep, Load, LoadError, RejectKindChange, CheckKinds,
       ReplaceDefinitions, LoadWorkloads, Install, Unchanged, Return, NotReconciledDown
  <2>4. ASSUME NEW w \in Workloads,
               \/ Start(w) \/ Finish(w) \/ SupervisorStep(w) \/ Disconnect(w)
               \/ ReplaceSupervisor(w) \/ EditFile(w)
        PROVE  NotReconciledDown'
    BY <2>4 DEF Start, Finish, SupervisorStep, Attach, ReceiveUpdate, ApplyPolicy,
       RecordPolicyApplied, Disconnect, ReplaceSupervisor, EditFile, NotReconciledDown
  <2>5. QED
    BY <2>1, <2>2, <2>3, <2>4 DEF Next
<1>3. QED
  BY <1>1, <1>2, PTL DEF Spec

\* Acknowledgements, connections, faults and the end of an execution.
LEMMA ExecutionKeepsFlag ==
    ASSUME FlagInv, NEW w \in Workloads,
           \/ Finish(w) \/ SupervisorStep(w) \/ Disconnect(w)
           \/ ReplaceSupervisor(w) \/ EditFile(w)
    PROVE  FlagInv'
<1> USE DEF FlagInv
<1>1. DefinitionsInv'
  BY DEF Finish, SupervisorStep, Attach, ReceiveUpdate, ApplyPolicy, RecordPolicyApplied,
     Disconnect, ReplaceSupervisor, EditFile, dbVars, callVars, DefinitionsInv
<1>2. CASE Finish(w)
  BY <1>1, <1>2 DEF Finish, SnapshotInv, RestartFlagAccurate
<1>3. CASE RecordPolicyApplied(w)
  <2>1. CASE UNCHANGED active
    BY <1>1, <1>3, <2>1 DEF RecordPolicyApplied, dbVars, SnapshotInv, RestartFlagAccurate
  <2>2. CASE active' # active
    <3>1. active[w] # None /\ active' = [active EXCEPT ![w].policy_sync_pending = FALSE]
      BY <1>3, <2>2 DEF RecordPolicyApplied, Acknowledges
    <3>2. UNCHANGED <<executions, workloads, reconciled>>
      BY <1>3 DEF RecordPolicyApplied, dbVars
    <3>3. SnapshotInv'
      BY <3>1, <3>2 DEF SnapshotInv, Active
    <3>4. RestartFlagAccurate'
      BY <3>1, <3>2 DEF SnapshotInv, RestartFlagAccurate, Active
    <3>5. QED  BY <1>1, <3>3, <3>4
  <2>3. QED  BY <2>1, <2>2
<1>4. CASE \/ Attach(w) \/ ReceiveUpdate(w) \/ ApplyPolicy(w) \/ Disconnect(w)
           \/ ReplaceSupervisor(w) \/ EditFile(w)
  BY <1>1, <1>4 DEF Attach, ReceiveUpdate, ApplyPolicy, Disconnect, ReplaceSupervisor,
     EditFile, dbVars, SnapshotInv, RestartFlagAccurate
<1>5. QED
  BY <1>2, <1>3, <1>4 DEF SupervisorStep

\* The controller dies; memory is gone and so are the calls.
LEMMA CrashKeepsFlag ==
    ASSUME FlagInv, Crash
    PROVE  FlagInv'
<1>1. DefinitionsInv'
  BY DEF Crash, FlagInv, DefinitionsInv, dbVars
<1>2. SnapshotInv' /\ RestartFlagAccurate'
  BY DEF Crash, FlagInv, SnapshotInv, RestartFlagAccurate, dbVars
<1>3. QED  BY <1>1, <1>2 DEF FlagInv

\* Every step keeps FlagInv, given what is known of the directory.
LEMMA FlagStep ==
    ASSUME FlagInv, DirectoryInv, NotReconciledDown, [Next]_vars
    PROVE  FlagInv'
<1>1. CASE UNCHANGED vars
  BY <1>1 DEF vars, dbVars, callVars, FlagInv, DefinitionsInv, SnapshotInv, RestartFlagAccurate
<1>2. CASE CallReload
  BY <1>2 DEF CallReload, dbVars, callVars, FlagInv, DefinitionsInv, SnapshotInv,
     RestartFlagAccurate
<1>3. CASE Open
  <2>1. ~reconciled
    BY <1>3 DEF Open, NotReconciledDown
  <2>2. QED  BY <1>3, <2>1, OpenKeepsFlag
<1>4. CASE Crash
  BY <1>4, CrashKeepsFlag
<1>5. CASE \E c \in Calls : ReloadStep(c)
  BY <1>5, ReloadStepKeepsFlag
<1>6. CASE \E w \in Workloads : \/ Start(w) \/ Finish(w) \/ SupervisorStep(w)
                                \/ Disconnect(w) \/ ReplaceSupervisor(w) \/ EditFile(w)
  BY <1>6, StartKeepsFlag, ExecutionKeepsFlag
<1>7. QED
  BY <1>1, <1>2, <1>3, <1>4, <1>5, <1>6 DEF Next

\* FlagInv holds in every reachable state.
LEMMA FlagInductive == Spec => []FlagInv
<1>1. Init => FlagInv
  <2> SUFFICES ASSUME Init PROVE FlagInv
    OBVIOUS
  <2>1. stored \in [Workloads -> Row] /\ workloads = stored
    BY DirectoryAssumption DEF Init, DirectoryInit, Row
  <2>2. QED
    BY <2>1 DEF Init, FlagInv, DefinitionsInv, SnapshotInv, RestartFlagAccurate
<1>2. Spec => []DirectoryInv
  BY ReloadLoadsDirectory, DirectoryInductive, PTL
<1>3. FlagInv /\ DirectoryInv /\ NotReconciledDown /\ [Next]_vars => FlagInv'
  BY FlagStep
<1>4. QED
  BY <1>1, <1>2, <1>3, DownKnowsNothing, PTL DEF Spec

\* status tells of a changed definition exactly when there is one
\* (manager.rs:1426), for any workloads, definitions, interleaving of reloads,
\* starts, crashes and replacements.
THEOREM FlagIsAccurate == Spec => []RestartFlagAccurate
<1>1. FlagInv => RestartFlagAccurate  BY DEF FlagInv
<1>2. QED  BY <1>1, FlagInductive, PTL

-----------------------------------------------------------------------------
(* Policy updates. *)

\* x was asked for no later than y.
Before(P, x, y) == \E i, j \in 1..Len(P) : i <= j /\ P[i] = x /\ P[j] = y

\* The policies on the way to a supervisor and back are in the order in which
\* they were asked for: acknowledged, applied, offered, sent.
Ordered(P, s) ==
    /\ Before(P, s.applied, s.applied)
    /\ s.offered # None => Before(P, s.applied, s.offered)
    /\ \A i \in 1..Len(s.commands) :
          /\ Before(P, s.applied, s.commands[i])
          /\ s.offered # None => Before(P, s.offered, s.commands[i])
    /\ \A i, j \in 1..Len(s.commands) : i <= j => Before(P, s.commands[i], s.commands[j])
    /\ \A i \in 1..Len(s.acks) : Before(P, s.acks[i], s.applied)

\* A controller that waits for nothing has a policy that is applied or older.
Settled(P, a, s) == ~a.policy_sync_pending => Before(P, a.policy, s.applied)

\* The policies of an execution begin with that of its snapshot and end with
\* that of the definition in memory, which a reload has made the active one.
MemoryInv(w) ==
    Running(w) =>
      /\ policies[w] # <<>> /\ policies[w][1] = executions[w].policy
      /\ workloads[w].definition # Absent =>
            /\ workloads[w].definition.policy = Last(policies[w])
            /\ reconciled /\ active[w] # None => active[w].policy = Last(policies[w])

OrderInv(w) ==
    Running(w) /\ ~Excepted(w) =>
      /\ Ordered(policies[w], sup[w])
      /\ active[w] # None => Settled(policies[w], active[w], sup[w])

DeliveryTypes == sup \in [Workloads -> Supervisor] /\ policies \in [Workloads -> Seq(Policies)]

DeliveryInv == DeliveryTypes /\ \A w \in Workloads : MemoryInv(w) /\ OrderInv(w)

\* Among policies that do not recur, Before is an order with Last as its end.
LEMMA BeforeOrder ==
    ASSUME NEW S, NEW P \in Seq(S), IsInjective(P)
    PROVE  /\ \A x, y, z : Before(P, x, y) /\ Before(P, y, z) => Before(P, x, z)
           /\ \A x, y : Before(P, x, y) => /\ Before(P, x, x) /\ Before(P, y, y)
                                           /\ Before(P, x, Last(P)) /\ Before(P, y, Last(P))
           /\ \A x : Before(P, Last(P), x) => x = Last(P)
<1>1. DOMAIN P = 1..Len(P) /\ Len(P) \in Nat  OBVIOUS
<1>2. ASSUME NEW x, NEW y, NEW z, Before(P, x, y), Before(P, y, z)
      PROVE  Before(P, x, z)
  <2>1. PICK i \in 1..Len(P), j \in 1..Len(P) : i <= j /\ P[i] = x /\ P[j] = y
    BY <1>2 DEF Before
  <2>2. PICK k \in 1..Len(P), m \in 1..Len(P) : k <= m /\ P[k] = y /\ P[m] = z
    BY <1>2 DEF Before
  <2>3. j = k  BY <1>1, <2>1, <2>2 DEF IsInjective
  <2>4. i <= m  BY <1>1, <2>1, <2>2, <2>3
  <2>5. QED  BY <2>1, <2>2, <2>4 DEF Before
<1>3. ASSUME NEW x, NEW y, Before(P, x, y)
      PROVE  /\ Before(P, x, x) /\ Before(P, y, y)
             /\ Before(P, x, Last(P)) /\ Before(P, y, Last(P))
  <2>1. PICK i \in 1..Len(P), j \in 1..Len(P) : i <= j /\ P[i] = x /\ P[j] = y
    BY <1>3 DEF Before
  <2>2. Len(P) \in 1..Len(P) /\ i <= Len(P) /\ j <= Len(P)  BY <1>1, <2>1
  <2>3. i <= i /\ j <= j  BY <1>1, <2>1
  <2>4. QED  BY <2>1, <2>2, <2>3 DEF Before, Last
<1>4. ASSUME NEW x, Before(P, Last(P), x) PROVE x = Last(P)
  <2>1. PICK i \in 1..Len(P), j \in 1..Len(P) : i <= j /\ P[i] = P[Len(P)] /\ P[j] = x
    BY <1>4 DEF Before, Last
  <2>2. Len(P) \in 1..Len(P)  BY <1>1, <2>1
  <2>3. i = Len(P)  BY <1>1, <2>1, <2>2 DEF IsInjective
  <2>4. j = Len(P)
    <3>1. Len(P) <= j  BY <2>1, <2>3
    <3>2. j \in Int /\ j <= Len(P)  BY <1>1, <2>1
    <3>3. \A m, n \in Int : m <= n /\ n <= m => m = n  OBVIOUS
    <3>4. Len(P) \in Int  BY <1>1
    <3>5. QED  BY <3>1, <3>2, <3>3, <3>4
  <2>5. QED  BY <2>1, <2>4 DEF Last
<1>5. QED  BY <1>2, <1>3, <1>4

\* A policy that is asked for comes last and leaves the others as they are.
LEMMA Extend ==
    ASSUME NEW S, NEW P \in Seq(S), NEW p \in S
    PROVE  /\ Append(P, p) \in Seq(S) /\ Append(P, p) # <<>> /\ Last(Append(P, p)) = p
           /\ P # <<>> => Append(P, p)[1] = P[1]
           /\ \A x, y : Before(P, x, y) => Before(Append(P, p), x, y)
           /\ IsInjective(Append(P, p)) => IsInjective(P)
<1> DEFINE Q == Append(P, p)
<1>1. /\ Q \in Seq(S) /\ Len(Q) = Len(P) + 1 /\ Q[Len(P) + 1] = p /\ Len(P) \in Nat
      /\ \A i \in 1..Len(P) : Q[i] = P[i]
      /\ DOMAIN P = 1..Len(P) /\ DOMAIN Q = 1..Len(Q)
  OBVIOUS
<1> HIDE DEF Q
<1>2. Q # <<>> /\ Last(Q) = p  BY <1>1 DEF Last
<1>3. P # <<>> => Q[1] = P[1]
  <2>1. P # <<>> => 1 \in 1..Len(P)  BY <1>1
  <2>2. QED  BY <1>1, <2>1
<1>4. \A x, y : Before(P, x, y) => Before(Q, x, y)
  <2>1. 1..Len(P) \subseteq 1..Len(Q)  BY <1>1
  <2>2. QED  BY <1>1, <2>1 DEF Before
<1>5. IsInjective(Q) => IsInjective(P)
  <2>1. 1..Len(P) \subseteq 1..Len(Q)  BY <1>1
  <2>2. QED  BY <1>1, <2>1 DEF IsInjective
<1>6. QED  BY <1>1, <1>2, <1>3, <1>4, <1>5 DEF Q

LEMMA OrderedExtends ==
    ASSUME NEW S, NEW P \in Seq(S), NEW p \in S, NEW s, Ordered(P, s)
    PROVE  Ordered(Append(P, p), s)
<1> DEFINE Q == Append(P, p)
<1>1. \A x, y : Before(P, x, y) => Before(Q, x, y)  BY Extend
<1> HIDE DEF Q
<1>2. Ordered(Q, s)  BY <1>1 DEF Ordered
<1>3. QED  BY <1>2 DEF Q

\* The policy asked for last is sent.
LEMMA OrderedSends ==
    ASSUME NEW P \in Seq(Policies), P # <<>>, IsInjective(P), NEW s \in Supervisor, Ordered(P, s)
    PROVE  Ordered(P, [s EXCEPT !.commands = Append(@, Last(P))])
<1> DEFINE C == Append(s.commands, Last(P))
           t == [s EXCEPT !.commands = C]
<1>1. s.commands \in Seq(Policies)  BY DEF Supervisor
<1>2. Last(P) \in Policies /\ Before(P, Last(P), Last(P))
  <2>1. Len(P) \in 1..Len(P) /\ Len(P) <= Len(P)  OBVIOUS
  <2>2. QED  BY <2>1 DEF Last, Before
<1>3. /\ Len(C) = Len(s.commands) + 1 /\ C[Len(s.commands) + 1] = Last(P)
      /\ \A i \in 1..Len(s.commands) : C[i] = s.commands[i]
      /\ Len(s.commands) \in Nat
  BY <1>1, <1>2
<1>4. t.applied = s.applied /\ t.offered = s.offered /\ t.acks = s.acks /\ t.commands = C
  BY DEF Supervisor
<1> HIDE DEF C, t
<1>5. \A i \in 1..Len(C) : i \in 1..Len(s.commands) \/ i = Len(s.commands) + 1
  BY <1>3
<1>6. \A i \in 1..Len(s.commands) : Before(P, s.commands[i], Last(P))
  <2>1. ASSUME NEW i \in 1..Len(s.commands) PROVE Before(P, s.commands[i], Last(P))
    <3>1. Before(P, s.applied, s.commands[i])  BY DEF Ordered
    <3>2. QED  BY <3>1, BeforeOrder
  <2>2. QED  BY <2>1
<1>7. /\ Before(P, s.applied, Last(P))
      /\ s.offered # None => Before(P, s.offered, Last(P))
  BY BeforeOrder DEF Ordered
<1>8. \A i \in 1..Len(C) : /\ Before(P, s.applied, C[i])
                           /\ s.offered # None => Before(P, s.offered, C[i])
  BY <1>3, <1>5, <1>7 DEF Ordered
<1>9. ASSUME NEW i \in 1..Len(C), NEW j \in 1..Len(C), i <= j PROVE Before(P, C[i], C[j])
  <2>1. CASE j \in 1..Len(s.commands)
    <3>1. i \in 1..Len(s.commands)  BY <1>3, <1>9, <2>1
    <3>2. QED  BY <1>3, <1>9, <2>1, <3>1 DEF Ordered
  <2>2. CASE j = Len(s.commands) + 1
    BY <1>2, <1>3, <1>5, <1>6, <2>2
  <2>3. QED  BY <1>5, <2>1, <2>2
<1>10. Ordered(P, t)  BY <1>4, <1>8, <1>9 DEF Ordered
<1>11. QED  BY <1>10 DEF t, C

\* A connection begins with nothing sent, or with the policy asked for last.
LEMMA OrderedConnects ==
    ASSUME NEW P \in Seq(Policies), IsInjective(P), NEW s \in Supervisor, Ordered(P, s),
           NEW b \in BOOLEAN, NEW C \in {<<>>, <<Last(P)>>}
    PROVE  Ordered(P, [s EXCEPT !.connected = b, !.commands = C])
<1> DEFINE t == [s EXCEPT !.connected = b, !.commands = C]
<1>1. t.applied = s.applied /\ t.offered = s.offered /\ t.acks = s.acks /\ t.commands = C
  BY DEF Supervisor
<1>2. \A i \in 1..Len(C) : C[i] = Last(P)
  <2>1. CASE C = <<>>  BY <2>1
  <2>2. CASE C = <<Last(P)>>  BY <2>2
  <2>3. QED  BY <2>1, <2>2
<1>3. /\ Before(P, s.applied, Last(P)) /\ Before(P, Last(P), Last(P))
      /\ s.offered # None => Before(P, s.offered, Last(P))
  BY BeforeOrder DEF Ordered
<1> HIDE DEF t
<1>4. Ordered(P, t)
  <2>1. \A i, j \in 1..Len(C) : i <= j => Before(P, C[i], C[j])  BY <1>2, <1>3
  <2>2. \A i \in 1..Len(C) : /\ Before(P, s.applied, C[i])
                             /\ s.offered # None => Before(P, s.offered, C[i])
    BY <1>2, <1>3
  <2>3. QED  BY <1>1, <2>1, <2>2 DEF Ordered
<1>5. QED  BY <1>4 DEF t

\* So does a link that breaks or ends.
LEMMA OrderedBreaks ==
    ASSUME NEW P \in Seq(Policies), IsInjective(P), NEW s \in Supervisor, Ordered(P, s),
           NEW ended \in BOOLEAN
    PROVE  Ordered(P, Broken(s, ended))
<1> DEFINE t == [s EXCEPT !.connected = FALSE, !.commands = <<>>]
           u == Broken(s, ended)
<1>1. Ordered(P, t)  BY OrderedConnects
<1>2. /\ u.applied = t.applied /\ u.offered = t.offered
      /\ u.acks = t.acks /\ u.commands = t.commands
  BY DEF Broken, Supervisor
<1> HIDE DEF t, u
<1>3. Ordered(P, u)  BY <1>1, <1>2 DEF Ordered
<1>4. QED  BY <1>3 DEF u

LEMMA BrokenIsSupervisor ==
    ASSUME NEW s \in Supervisor, NEW ended \in BOOLEAN
    PROVE  Broken(s, ended) \in Supervisor /\ Broken(s, ended).applied = s.applied
<1>1. <<>> \in Seq(Policies)  OBVIOUS
<1>2. QED  BY <1>1 DEF Broken, Supervisor

\* The supervisor receives the oldest update, in place of an unapplied one.
LEMMA OrderedReceives ==
    ASSUME NEW P, NEW s \in Supervisor, s.commands # <<>>, Ordered(P, s)
    PROVE  Ordered(P, [s EXCEPT !.commands = Tail(@), !.offered = Head(s.commands)])
<1> DEFINE C == Tail(s.commands)
           h == Head(s.commands)
           t == [s EXCEPT !.commands = C, !.offered = h]
<1>1. s.commands \in Seq(Policies)  BY DEF Supervisor
<1>2. /\ h = s.commands[1] /\ Len(s.commands) \in Nat \ {0} /\ Len(C) = Len(s.commands) - 1
      /\ \A i \in 1..Len(C) : C[i] = s.commands[i + 1]
  BY <1>1
<1>3. t.applied = s.applied /\ t.offered = h /\ t.acks = s.acks /\ t.commands = C
  BY DEF Supervisor
<1> HIDE DEF C, h, t
<1>4. 1 \in 1..Len(s.commands) /\ \A i \in 1..Len(C) : i + 1 \in 1..Len(s.commands) /\ 1 <= i + 1
  BY <1>2
<1>5. \A i, j \in 1..Len(C) : i <= j => i + 1 <= j + 1  BY <1>2
<1>6. \A i, j \in 1..Len(C) : i <= j => Before(P, C[i], C[j])
  BY <1>2, <1>4, <1>5 DEF Ordered
<1>7. Before(P, s.applied, h)  BY <1>2, <1>4 DEF Ordered
<1>8. \A i \in 1..Len(C) : Before(P, s.applied, C[i]) /\ Before(P, h, C[i])
  BY <1>2, <1>4 DEF Ordered
<1>9. Ordered(P, t)  BY <1>3, <1>6, <1>7, <1>8 DEF Ordered
<1>10. QED  BY <1>9 DEF t, C, h

\* What was offered is applied and acknowledged.
LEMMA OrderedApplies ==
    ASSUME NEW P \in Seq(Policies), IsInjective(P), NEW s \in Supervisor,
           s.offered # None, Ordered(P, s)
    PROVE  Ordered(P, [s EXCEPT !.applied = s.offered, !.offered = None,
                                !.acks = Append(@, s.offered)])
<1> DEFINE A == Append(s.acks, s.offered)
           t == [s EXCEPT !.applied = s.offered, !.offered = None, !.acks = A]
<1>1. s.acks \in Seq(Policies) /\ s.offered \in Policies  BY DEF Supervisor
<1>2. /\ Len(A) = Len(s.acks) + 1 /\ A[Len(s.acks) + 1] = s.offered /\ Len(s.acks) \in Nat
      /\ \A i \in 1..Len(s.acks) : A[i] = s.acks[i]
  BY <1>1
<1>3. /\ t.applied = s.offered /\ t.offered = None /\ t.acks = A /\ t.commands = s.commands
  BY DEF Supervisor
<1> HIDE DEF A, t
<1>4. Before(P, s.applied, s.offered)  BY DEF Ordered
<1>5. Before(P, s.offered, s.offered)  BY <1>4, BeforeOrder
<1>6. \A i \in 1..Len(s.acks) : Before(P, s.acks[i], s.offered)
  <2>1. \A i \in 1..Len(s.acks) : Before(P, s.acks[i], s.applied)  BY DEF Ordered
  <2>2. QED  BY <1>4, <2>1, BeforeOrder
<1>7. \A i \in 1..Len(A) : i \in 1..Len(s.acks) \/ i = Len(s.acks) + 1  BY <1>2
<1>8. \A i \in 1..Len(A) : Before(P, A[i], s.offered)  BY <1>2, <1>5, <1>6, <1>7
<1>9. Ordered(P, t)  BY <1>3, <1>5, <1>8 DEF Ordered
<1>10. QED  BY <1>9 DEF t, A

\* The oldest acknowledgement is taken from the way.
LEMMA OrderedAcknowledges ==
    ASSUME NEW P, NEW s \in Supervisor, s.acks # <<>>, Ordered(P, s)
    PROVE  /\ Ordered(P, [s EXCEPT !.acks = Tail(@)])
           /\ Before(P, Head(s.acks), s.applied)
<1> DEFINE A == Tail(s.acks)
           t == [s EXCEPT !.acks = A]
<1>1. s.acks \in Seq(Policies)  BY DEF Supervisor
<1>2. /\ Head(s.acks) = s.acks[1] /\ Len(s.acks) \in Nat \ {0} /\ Len(A) = Len(s.acks) - 1
      /\ \A i \in 1..Len(A) : A[i] = s.acks[i + 1]
  BY <1>1
<1>3. /\ t.applied = s.applied /\ t.offered = s.offered /\ t.acks = A
      /\ t.commands = s.commands
  BY DEF Supervisor
<1> HIDE DEF A, t
<1>4. 1 \in 1..Len(s.acks) /\ \A i \in 1..Len(A) : i + 1 \in 1..Len(s.acks)  BY <1>2
<1>5. Before(P, s.acks[1], s.applied) /\ \A i \in 1..Len(A) : Before(P, A[i], s.applied)
  BY <1>2, <1>4 DEF Ordered
<1>6. Ordered(P, t)  BY <1>3, <1>5 DEF Ordered
<1>7. QED  BY <1>2, <1>5, <1>6 DEF t, A

-----------------------------------------------------------------------------
(* The steps of an execution and of its supervisor. *)

\* Only w's execution or supervisor has changed.
LEMMA OtherWorkloads ==
    ASSUME DeliveryInv, NEW w \in Workloads, DeliveryTypes',
           UNCHANGED <<controller, workloads, reconciled>>,
           \A v \in Workloads \ {w} :
              /\ executions'[v] = executions[v] /\ active'[v] = active[v] /\ sup'[v] = sup[v]
              /\ policies'[v] = policies[v] /\ (v \in replaced' <=> v \in replaced),
           MemoryInv(w)', OrderInv(w)'
    PROVE  DeliveryInv'
<1> SUFFICES ASSUME NEW v \in Workloads, v # w PROVE MemoryInv(v)' /\ OrderInv(v)'
  BY DEF DeliveryInv
<1>1. MemoryInv(v) /\ OrderInv(v)  BY DEF DeliveryInv
<1>2. MemoryInv(v)'  BY <1>1 DEF MemoryInv, Running
<1>3. OrderInv(v)'  BY <1>1 DEF OrderInv, Running, Excepted, Recurs
<1>4. QED  BY <1>2, <1>3

\* The supervisor or the connection of w takes a step, and perhaps the
\* controller no longer waits for it.
LEMMA SupervisorChange ==
    ASSUME FlagInv, DeliveryInv, NEW w \in Workloads, NEW s \in Supervisor,
           sup' = [sup EXCEPT ![w] = s],
           UNCHANGED <<executions, controller, workloads, reconciled, policies>>,
           replaced \subseteq replaced', replaced' \subseteq replaced \cup {w},
           \/ active' = active
           \/ active[w] # None /\ active' = [active EXCEPT ![w].policy_sync_pending = FALSE],
           Running(w) /\ ~Excepted(w) /\ w \notin replaced' =>
              /\ Ordered(policies[w], s)
              /\ active[w] # None => Settled(policies[w], active'[w], s)
    PROVE  DeliveryInv'
<1>1. /\ sup \in [Workloads -> Supervisor] /\ policies \in [Workloads -> Seq(Policies)]
      /\ active \in [Workloads -> Active \cup {None}]
      /\ active[w] # None => active[w] \in Active
  BY DEF FlagInv, SnapshotInv, DeliveryInv, DeliveryTypes
<1>2. DeliveryTypes' /\ sup'[w] = s  BY <1>1 DEF DeliveryTypes
<1>3. ASSUME NEW v \in Workloads \ {w}
      PROVE  /\ executions'[v] = executions[v] /\ active'[v] = active[v] /\ sup'[v] = sup[v]
             /\ policies'[v] = policies[v] /\ (v \in replaced' <=> v \in replaced)
  BY <1>1
<1>4. /\ active'[w] # None => active[w] # None
      /\ active[w] # None => active'[w].policy = active[w].policy
  <2>1. CASE active' = active  BY <2>1
  <2>2. CASE active[w] # None /\ active' = [active EXCEPT ![w].policy_sync_pending = FALSE]
    BY <1>1, <2>2 DEF Active
  <2>3. QED  BY <2>1, <2>2
<1>5. MemoryInv(w) /\ OrderInv(w)  BY DEF DeliveryInv
<1>6. MemoryInv(w)'  BY <1>4, <1>5 DEF MemoryInv, Running
<1>7. OrderInv(w)'
  BY <1>2, <1>4 DEF OrderInv, Running, Excepted, Recurs
<1>8. QED  BY <1>2, <1>3, <1>6, <1>7, OtherWorkloads

\* The same for a step the controller does not notice.
LEMMA SupervisorAlone ==
    ASSUME FlagInv, DeliveryInv, NEW w \in Workloads, NEW s \in Supervisor,
           sup' = [sup EXCEPT ![w] = s],
           UNCHANGED <<executions, controller, workloads, reconciled, policies, replaced, active>>,
           IsInjective(policies[w]) /\ Ordered(policies[w], sup[w]) =>
              Ordered(policies[w], s) /\ Before(policies[w], sup[w].applied, s.applied)
    PROVE  DeliveryInv'
<1>1. policies[w] \in Seq(Policies)  BY DEF DeliveryInv, DeliveryTypes
<1>2. OrderInv(w)  BY DEF DeliveryInv
<1>3. ASSUME Running(w), ~Excepted(w)
      PROVE  /\ Ordered(policies[w], s)
             /\ active[w] # None => Settled(policies[w], active[w], s)
  <2>1. /\ IsInjective(policies[w]) /\ Ordered(policies[w], sup[w])
        /\ active[w] # None => Settled(policies[w], active[w], sup[w])
    BY <1>2, <1>3 DEF OrderInv, Excepted, Recurs
  <2>2. Ordered(policies[w], s) /\ Before(policies[w], sup[w].applied, s.applied)
    BY <2>1
  <2>3. \A x, y, z : Before(policies[w], x, y) /\ Before(policies[w], y, z) =>
                        Before(policies[w], x, z)
    BY <1>1, <2>1, BeforeOrder
  <2>4. QED  BY <2>1, <2>2, <2>3 DEF Settled
<1>4. QED  BY <1>3, SupervisorChange

LEMMA AttachDelivers ==
    ASSUME FlagInv, DeliveryInv, NEW w \in Workloads, Attach(w)
    PROVE  DeliveryInv'
<1> DEFINE P == policies[w]
           C == IF active[w].policy_sync_pending /\ workloads[w].definition # Absent
                THEN <<workloads[w].definition.policy>> ELSE <<>>
           s == [sup[w] EXCEPT !.connected = TRUE, !.commands = C]
<1>1. /\ sup \in [Workloads -> Supervisor] /\ sup[w] \in Supervisor /\ P \in Seq(Policies)
  BY DEF DeliveryInv, DeliveryTypes
<1>2. /\ sup' = [sup EXCEPT ![w] = s] /\ active[w] # None /\ controller = "serving"
      /\ UNCHANGED <<executions, controller, workloads, reconciled, policies, replaced, active>>
  BY <1>1 DEF Attach, dbVars, historyVars
<1>3. workloads[w].definition # Absent => workloads[w].definition.policy \in Policies
  <2>1. workloads[w].definition # Absent => workloads[w].definition \in Definitions
    BY Rows DEF FlagInv, DefinitionsInv
  <2>2. QED  BY <2>1 DEF Policies
<1>4. C \in Seq(Policies)  BY <1>3
<1>5. s \in Supervisor /\ s.applied = sup[w].applied
  <2> HIDE DEF C
  <2>1. QED  BY <1>1, <1>4 DEF Supervisor
<1>6. C \in {<<>>, <<Last(P)>>}
  <2>1. Running(w)  BY <1>2 DEF FlagInv, SnapshotInv, Running
  <2>2. workloads[w].definition # Absent => workloads[w].definition.policy = Last(P)
    BY <1>2, <2>1 DEF DeliveryInv, MemoryInv
  <2>3. QED  BY <2>2
<1> HIDE DEF C
<1>7. ASSUME IsInjective(P), Ordered(P, sup[w])
      PROVE  Ordered(P, s) /\ Before(P, sup[w].applied, s.applied)
  <2>1. Ordered(P, s)  BY <1>1, <1>6, <1>7, OrderedConnects
  <2>2. Before(P, sup[w].applied, sup[w].applied)  BY <1>7 DEF Ordered
  <2>3. QED  BY <1>5, <2>1, <2>2
<1> HIDE DEF s
<1>8. QED  BY <1>2, <1>5, <1>7, SupervisorAlone

LEMMA ReceiveDelivers ==
    ASSUME FlagInv, DeliveryInv, NEW w \in Workloads, ReceiveUpdate(w)
    PROVE  DeliveryInv'
<1> DEFINE P == policies[w]
           s == [sup[w] EXCEPT !.commands = Tail(@), !.offered = Head(sup[w].commands)]
<1>1. sup \in [Workloads -> Supervisor] /\ sup[w] \in Supervisor
  BY DEF DeliveryInv, DeliveryTypes
<1>2. /\ sup' = [sup EXCEPT ![w] = s] /\ sup[w].commands # <<>>
      /\ UNCHANGED <<executions, controller, workloads, reconciled, policies, replaced, active>>
  BY <1>1 DEF ReceiveUpdate, dbVars, historyVars
<1>3. Tail(sup[w].commands) \in Seq(Policies) /\ Head(sup[w].commands) \in Policies
  BY <1>1, <1>2 DEF Supervisor
<1>4. s \in Supervisor /\ s.applied = sup[w].applied  BY <1>1, <1>3 DEF Supervisor
<1>5. ASSUME IsInjective(P), Ordered(P, sup[w])
      PROVE  Ordered(P, s) /\ Before(P, sup[w].applied, s.applied)
  <2>1. Ordered(P, s)  BY <1>1, <1>2, <1>5, OrderedReceives
  <2>2. Before(P, sup[w].applied, sup[w].applied)  BY <1>5 DEF Ordered
  <2>3. QED  BY <1>4, <2>1, <2>2
<1> HIDE DEF s
<1>6. QED  BY <1>2, <1>4, <1>5, SupervisorAlone

LEMMA ApplyDelivers ==
    ASSUME FlagInv, DeliveryInv, NEW w \in Workloads, ApplyPolicy(w)
    PROVE  DeliveryInv'
<1> DEFINE P == policies[w]
           s == [sup[w] EXCEPT !.applied = sup[w].offered, !.offered = None,
                               !.acks = Append(@, sup[w].offered)]
<1>1. sup \in [Workloads -> Supervisor] /\ sup[w] \in Supervisor /\ P \in Seq(Policies)
  BY DEF DeliveryInv, DeliveryTypes
<1>2. /\ sup' = [sup EXCEPT ![w] = s] /\ sup[w].offered # None
      /\ UNCHANGED <<executions, controller, workloads, reconciled, policies, replaced, active>>
  BY <1>1 DEF ApplyPolicy, dbVars, historyVars
<1>3. sup[w].offered \in Policies /\ Append(sup[w].acks, sup[w].offered) \in Seq(Policies)
  BY <1>1, <1>2 DEF Supervisor
<1>4. s \in Supervisor /\ s.applied = sup[w].offered  BY <1>1, <1>3 DEF Supervisor
<1>5. ASSUME IsInjective(P), Ordered(P, sup[w])
      PROVE  Ordered(P, s) /\ Before(P, sup[w].applied, s.applied)
  <2>1. Ordered(P, s)  BY <1>1, <1>2, <1>5, OrderedApplies
  <2>2. Before(P, sup[w].applied, sup[w].offered)  BY <1>2, <1>5 DEF Ordered
  <2>3. QED  BY <1>4, <2>1, <2>2
<1> HIDE DEF s
<1>6. QED  BY <1>2, <1>4, <1>5, SupervisorAlone

LEMMA DisconnectDelivers ==
    ASSUME FlagInv, DeliveryInv, NEW w \in Workloads, Disconnect(w)
    PROVE  DeliveryInv'
<1> DEFINE P == policies[w]
<1>1. sup \in [Workloads -> Supervisor] /\ sup[w] \in Supervisor /\ P \in Seq(Policies)
  BY DEF DeliveryInv, DeliveryTypes
<1>2. PICK ended \in BOOLEAN : sup' = [sup EXCEPT ![w] = Broken(sup[w], ended)]
  BY DEF Disconnect
<1>3. UNCHANGED <<executions, controller, workloads, reconciled, policies, replaced, active>>
  BY DEF Disconnect, dbVars
<1> DEFINE s == Broken(sup[w], ended)
<1>4. s \in Supervisor /\ s.applied = sup[w].applied  BY <1>1, BrokenIsSupervisor
<1>5. ASSUME IsInjective(P), Ordered(P, sup[w])
      PROVE  Ordered(P, s) /\ Before(P, sup[w].applied, s.applied)
  <2>1. Ordered(P, s)  BY <1>1, <1>5, OrderedBreaks
  <2>2. Before(P, sup[w].applied, sup[w].applied)  BY <1>5 DEF Ordered
  <2>3. QED  BY <1>4, <2>1, <2>2
<1> HIDE DEF s
<1>6. sup' = [sup EXCEPT ![w] = s]  BY <1>2 DEF s
<1>7. QED  BY <1>3, <1>4, <1>5, <1>6, SupervisorAlone

\* An acknowledgement of the policy asked for last is of what is applied.
LEMMA AcknowledgeDelivers ==
    ASSUME FlagInv, DeliveryInv, NEW w \in Workloads, RecordPolicyApplied(w)
    PROVE  DeliveryInv'
<1> DEFINE P == policies[w]
           s == [sup[w] EXCEPT !.acks = Tail(@)]
<1>1. /\ sup \in [Workloads -> Supervisor] /\ sup[w] \in Supervisor /\ P \in Seq(Policies)
      /\ active \in [Workloads -> Active \cup {None}]
      /\ active[w] # None => active[w] \in Active
  BY DEF DeliveryInv, DeliveryTypes, FlagInv, SnapshotInv
<1>2. /\ sup' = [sup EXCEPT ![w] = s] /\ sup[w].acks # <<>>
      /\ UNCHANGED <<executions, controller, workloads, reconciled, policies, replaced>>
      /\ \/ active' = active
         \/ /\ active[w] # None /\ Head(sup[w].acks) = active[w].policy
            /\ active' = [active EXCEPT ![w].policy_sync_pending = FALSE]
  BY <1>1 DEF RecordPolicyApplied, Acknowledges, dbVars, historyVars
<1>3. Tail(sup[w].acks) \in Seq(Policies)  BY <1>1, <1>2 DEF Supervisor
<1>4. s \in Supervisor /\ s.applied = sup[w].applied  BY <1>1, <1>3 DEF Supervisor
<1>5. ASSUME Running(w), ~Excepted(w)
      PROVE  /\ Ordered(P, s)
             /\ active[w] # None => Settled(P, active'[w], s)
  <2>1. /\ Ordered(P, sup[w])
        /\ active[w] # None => Settled(P, active[w], sup[w])
    BY <1>5 DEF DeliveryInv, OrderInv
  <2>2. Ordered(P, s) /\ Before(P, Head(sup[w].acks), sup[w].applied)
    BY <1>1, <1>2, <2>1, OrderedAcknowledges
  <2>3. CASE active' = active  BY <1>4, <2>1, <2>2, <2>3 DEF Settled
  <2>4. CASE /\ active[w] # None /\ Head(sup[w].acks) = active[w].policy
             /\ active' = [active EXCEPT ![w].policy_sync_pending = FALSE]
    <3>1. active'[w].policy = active[w].policy  BY <1>1, <2>4 DEF Active
    <3>2. QED  BY <1>4, <2>2, <2>4, <3>1 DEF Settled
  <2>5. QED  BY <1>2, <2>3, <2>4
<1> HIDE DEF s
<1>6. QED  BY <1>2, <1>4, <1>5, SupervisorChange

\* A replaced supervisor is excepted until the execution ends.
LEMMA ReplaceDelivers ==
    ASSUME FlagInv, DeliveryInv, NEW w \in Workloads, ReplaceSupervisor(w)
    PROVE  DeliveryInv'
<1> DEFINE s == [NoSupervisor EXCEPT !.applied = executions[w].policy, !.acks = sup[w].acks]
<1>1. sup \in [Workloads -> Supervisor] /\ sup[w] \in Supervisor
  BY DEF DeliveryInv, DeliveryTypes
<1>2. /\ sup' = [sup EXCEPT ![w] = s] /\ replaced' = replaced \cup {w} /\ active[w] # None
      /\ UNCHANGED <<executions, controller, workloads, reconciled, policies, active>>
  BY DEF ReplaceSupervisor, dbVars
<1>3. executions[w].policy \in Policies
  BY <1>2 DEF FlagInv, SnapshotInv, Policies
<1>4. s \in Supervisor
  <2>1. <<>> \in Seq(Policies) /\ sup[w].acks \in Seq(Policies)  BY <1>1 DEF Supervisor
  <2>2. QED  BY <1>3, <2>1 DEF Supervisor, NoSupervisor
<1> HIDE DEF s
<1>5. w \in replaced'  BY <1>2
<1>6. replaced \subseteq replaced' /\ replaced' \subseteq replaced \cup {w}  BY <1>2
<1>7. QED  BY <1>2, <1>4, <1>5, <1>6, SupervisorChange

\* A new execution has asked for one policy, which its supervisor applies.
LEMMA StartDelivers ==
    ASSUME FlagInv, DeliveryInv, NEW w \in Workloads, Start(w)
    PROVE  DeliveryInv'
<1> DEFINE d == workloads[w].definition
           s == [NoSupervisor EXCEPT !.applied = d.policy]
           a == [process |-> d.process, policy |-> d.policy,
                 restart_required |-> FALSE, policy_sync_pending |-> FALSE]
<1>1. /\ sup \in [Workloads -> Supervisor] /\ policies \in [Workloads -> Seq(Policies)]
      /\ active \in [Workloads -> Active \cup {None}]
      /\ executions \in [Workloads -> Definitions \cup {None}]
  BY DEF DeliveryInv, DeliveryTypes, FlagInv, SnapshotInv
<1>2. /\ sup' = [sup EXCEPT ![w] = s] /\ active' = [active EXCEPT ![w] = a]
      /\ executions' = [executions EXCEPT ![w] = d]
      /\ policies' = [policies EXCEPT ![w] = <<d.policy>>] /\ replaced' = replaced \ {w}
      /\ d # Absent /\ UNCHANGED <<controller, workloads, reconciled>>
  BY DEF Start
<1>3. d \in Definitions  BY <1>2, Rows DEF FlagInv, DefinitionsInv
<1>4. d.policy \in Policies  BY <1>3 DEF Policies
<1>5. /\ s \in Supervisor /\ s.applied = d.policy /\ s.offered = None
      /\ s.commands = <<>> /\ s.acks = <<>>
  <2>1. <<>> \in Seq(Policies)  OBVIOUS
  <2>2. QED  BY <1>4, <2>1 DEF Supervisor, NoSupervisor
<1>6. a.policy = d.policy  OBVIOUS
<1> HIDE DEF s, a, d
<1>7. /\ sup'[w] = s /\ active'[w] = a /\ executions'[w] = d /\ policies'[w] = <<d.policy>>
  BY <1>1, <1>2
<1>8. ASSUME NEW v \in Workloads \ {w}
      PROVE  /\ executions'[v] = executions[v] /\ active'[v] = active[v] /\ sup'[v] = sup[v]
             /\ policies'[v] = policies[v] /\ (v \in replaced' <=> v \in replaced)
  BY <1>1, <1>2
<1>9. DeliveryTypes'
  <2>1. <<d.policy>> \in Seq(Policies)  BY <1>4
  <2>2. QED  BY <1>1, <1>2, <1>5, <2>1 DEF DeliveryTypes
<1>10. Before(<<d.policy>>, d.policy, d.policy)
  <2>1. Len(<<d.policy>>) = 1 /\ <<d.policy>>[1] = d.policy  OBVIOUS
  <2>2. 1 \in 1..1 /\ 1 <= 1  OBVIOUS
  <2>3. QED  BY <2>1, <2>2 DEF Before
<1>11. Ordered(<<d.policy>>, s)  BY <1>5, <1>10 DEF Ordered
<1>12. Settled(<<d.policy>>, a, s)  BY <1>5, <1>6, <1>10 DEF Settled
<1>13. OrderInv(w)'  BY <1>7, <1>11, <1>12 DEF OrderInv
<1>14. MemoryInv(w)'
  <2>1. <<d.policy>> # <<>> /\ <<d.policy>>[1] = d.policy /\ Last(<<d.policy>>) = d.policy
    BY DEF Last
  <2>2. workloads'[w].definition = d  BY <1>2 DEF d
  <2>3. QED  BY <1>6, <1>7, <2>1, <2>2 DEF MemoryInv
<1>15. QED  BY <1>2, <1>8, <1>9, <1>13, <1>14, OtherWorkloads

LEMMA FinishDelivers ==
    ASSUME FlagInv, DeliveryInv, NEW w \in Workloads, Finish(w)
    PROVE  DeliveryInv'
<1>1. /\ sup \in [Workloads -> Supervisor] /\ policies \in [Workloads -> Seq(Policies)]
      /\ active \in [Workloads -> Active \cup {None}]
      /\ executions \in [Workloads -> Definitions \cup {None}]
  BY DEF DeliveryInv, DeliveryTypes, FlagInv, SnapshotInv
<1>2. /\ sup' = [sup EXCEPT ![w] = NoSupervisor] /\ active' = [active EXCEPT ![w] = None]
      /\ executions' = [executions EXCEPT ![w] = None]
      /\ UNCHANGED <<policies, replaced, controller, workloads, reconciled>>
  BY DEF Finish, historyVars
<1>3. NoSupervisor \in Supervisor
  <2>1. <<>> \in Seq(Policies)  OBVIOUS
  <2>2. QED  BY <2>1 DEF Supervisor, NoSupervisor
<1>4. DeliveryTypes'  BY <1>1, <1>2, <1>3 DEF DeliveryTypes
<1>5. ASSUME NEW v \in Workloads \ {w}
      PROVE  /\ executions'[v] = executions[v] /\ active'[v] = active[v] /\ sup'[v] = sup[v]
             /\ policies'[v] = policies[v] /\ (v \in replaced' <=> v \in replaced)
  BY <1>1, <1>2
<1>6. ~Running(w)'  BY <1>1, <1>2 DEF Running
<1>7. MemoryInv(w)' /\ OrderInv(w)'  BY <1>6 DEF MemoryInv, OrderInv
<1>8. QED  BY <1>2, <1>4, <1>5, <1>7, OtherWorkloads

-----------------------------------------------------------------------------
(* Reloads, crashes and starts of the controller. *)

\* What Noted makes of the policies of one execution.
LEMMA NotedPolicies ==
    ASSUME DeliveryInv, NEW m \in [Workloads -> Row], NEW w \in Workloads
    PROVE  /\ Noted(m)[w] \in Seq(Policies)
           /\ ~Running(w) => Noted(m)[w] = policies[w]
           /\ Running(w) =>
                /\ Noted(m)[w] # <<>> /\ Noted(m)[w][1] = policies[w][1]
                /\ m[w].definition # Absent => m[w].definition.policy = Last(Noted(m)[w])
                /\ \A x, y : Before(policies[w], x, y) => Before(Noted(m)[w], x, y)
                /\ \A s : Ordered(policies[w], s) => Ordered(Noted(m)[w], s)
                /\ IsInjective(Noted(m)[w]) => IsInjective(policies[w])
<1> DEFINE P == policies[w]
           p == m[w].definition.policy
<1>1. P \in Seq(Policies) /\ (Running(w) => P # <<>>)
  BY DEF DeliveryInv, DeliveryTypes, MemoryInv
<1>2. m[w].definition # Absent => p \in Policies
  <2>1. m[w].definition # Absent => m[w].definition \in Definitions  BY Rows
  <2>2. QED  BY <2>1 DEF Policies
<1>3. Noted(m)[w] = IF Running(w) /\ m[w].definition # Absent /\ p # Last(P)
                    THEN Append(P, p) ELSE P
  BY DEF Noted
<1> HIDE DEF P, p
<1>4. CASE Running(w) /\ m[w].definition # Absent /\ p # Last(P)
  <2>1. Noted(m)[w] = Append(P, p) /\ p \in Policies  BY <1>2, <1>3, <1>4
  <2>2. \A s : Ordered(P, s) => Ordered(Append(P, p), s)  BY <1>1, <2>1, OrderedExtends
  <2>3. QED  BY <1>1, <1>4, <2>1, <2>2, Extend DEF P, p
<1>5. CASE ~(Running(w) /\ m[w].definition # Absent /\ p # Last(P))
  BY <1>1, <1>3, <1>5 DEF P, p
<1>6. QED  BY <1>4, <1>5

\* reconcile_reload asks for the policies of the definitions it is given, and
\* waits wherever the policy it had asked for was another.
LEMMA ReconcileDelivers ==
    ASSUME FlagInv, DeliveryInv, NEW m \in [Workloads -> Row], ReconcileReload(m),
           workloads' = m, UNCHANGED <<executions, replaced>>
    PROVE  DeliveryInv'
<1> DEFINE Of(w) == IF active[w] = None THEN None ELSE Reconciled(active[w], m[w].definition)
           Sent(w) == IF /\ Of(w) # None /\ m[w].definition # Absent
                         /\ Of(w).policy_sync_pending /\ sup[w].connected
                      THEN [sup[w] EXCEPT !.commands = Append(@, m[w].definition.policy)]
                      ELSE sup[w]
<1>1. /\ active' = [w \in Workloads |-> Of(w)]
      /\ sup' = [w \in Workloads |-> Sent(w)] /\ policies' = Noted(m)
  BY DEF ReconcileReload
<1>2. /\ sup \in [Workloads -> Supervisor] /\ policies \in [Workloads -> Seq(Policies)]
      /\ active \in [Workloads -> Active \cup {None}]
  BY DEF DeliveryInv, DeliveryTypes, FlagInv, SnapshotInv
<1>3. policies' = [w \in Workloads |-> Noted(m)[w]]  BY <1>1 DEF Noted
<1>4. ASSUME NEW w \in Workloads
      PROVE  /\ sup'[w] \in Supervisor /\ policies'[w] \in Seq(Policies)
             /\ MemoryInv(w)' /\ OrderInv(w)'
  <2> DEFINE s == sup[w]
             a == active[w]
             d == m[w].definition
             P == policies[w]
             Q == Noted(m)[w]
  <2>1. /\ active'[w] = Of(w) /\ sup'[w] = Sent(w) /\ policies'[w] = Q /\ s \in Supervisor
        /\ (Running(w)' <=> Running(w)) /\ workloads'[w].definition = d
        /\ P \in Seq(Policies)
    BY <1>1, <1>2, <1>3 DEF Running
  <2>2. d # Absent => d.policy \in Policies
    <3>1. d # Absent => d \in Definitions  BY Rows
    <3>2. QED  BY <3>1 DEF Policies
  <2>3. a # None => a \in Active /\ Running(w)
    BY DEF FlagInv, SnapshotInv, Running
  <2>4. a # None => /\ d = Absent => /\ Of(w).policy = a.policy
                                     /\ Of(w).policy_sync_pending = a.policy_sync_pending
                    /\ d # Absent => /\ Of(w).policy = d.policy
                                     /\ ~Of(w).policy_sync_pending =>
                                            ~a.policy_sync_pending /\ a.policy = d.policy
    BY <2>3 DEF Reconciled, Active
  <2>5. /\ Sent(w) \in Supervisor /\ Sent(w).applied = s.applied
        /\ \/ Sent(w) = s
           \/ d # Absent /\ Sent(w) = [s EXCEPT !.commands = Append(@, d.policy)]
    <3>1. CASE Sent(w) = s  BY <2>1, <3>1
    <3>2. CASE d # Absent /\ Sent(w) = [s EXCEPT !.commands = Append(@, d.policy)]
      <4>1. Append(s.commands, d.policy) \in Seq(Policies)
        BY <2>1, <2>2, <3>2 DEF Supervisor
      <4> HIDE DEF Sent, s, d
      <4>2. QED  BY <2>1, <3>2, <4>1 DEF Supervisor
    <3>3. QED  BY <3>1, <3>2
  <2>6. /\ Q \in Seq(Policies)
        /\ Running(w) =>
             /\ Q # <<>> /\ Q[1] = P[1]
             /\ d # Absent => d.policy = Last(Q)
             /\ \A x, y : Before(P, x, y) => Before(Q, x, y)
             /\ \A t : Ordered(P, t) => Ordered(Q, t)
             /\ IsInjective(Q) => IsInjective(P)
    BY NotedPolicies
  <2>7. MemoryInv(w) /\ OrderInv(w)  BY DEF DeliveryInv
  <2> HIDE DEF Of, Sent, s, a, d, P, Q
  <2>8. a = None => Of(w) = None  BY DEF Of, a
  <2>9. MemoryInv(w)'
    <3>1. Running(w) => P # <<>> /\ P[1] = executions[w].policy  BY <2>7 DEF MemoryInv, P
    <3>2. QED  BY <2>1, <2>4, <2>6, <2>8, <3>1 DEF MemoryInv
  <2>10. ASSUME Running(w), IsInjective(Q), w \notin replaced
         PROVE  Ordered(Q, Sent(w)) /\ (Of(w) # None => Settled(Q, Of(w), Sent(w)))
    <3>1. /\ IsInjective(P) /\ Ordered(P, s) /\ (a # None => Settled(P, a, s))
      BY <2>6, <2>7, <2>10 DEF OrderInv, Excepted, Recurs, P, s, a
    <3>2. Ordered(Q, s)  BY <2>6, <2>10, <3>1
    <3>3. Ordered(Q, Sent(w))
      <4>1. CASE Sent(w) = s  BY <3>2, <4>1
      <4>2. CASE d # Absent /\ Sent(w) = [s EXCEPT !.commands = Append(@, d.policy)]
        <5>1. d.policy = Last(Q)  BY <2>6, <2>10, <4>2
        <5>2. Ordered(Q, [s EXCEPT !.commands = Append(@, Last(Q))])
          BY <2>1, <2>6, <2>10, <3>2, OrderedSends
        <5>3. QED  BY <4>2, <5>1, <5>2
      <4>3. QED  BY <2>5, <4>1, <4>2
    <3>4. ASSUME Of(w) # None, ~Of(w).policy_sync_pending
          PROVE  Before(Q, Of(w).policy, s.applied)
      <4>1. a # None  BY <2>8, <3>4
      <4>2. ~a.policy_sync_pending /\ Of(w).policy = a.policy  BY <2>4, <3>4, <4>1
      <4>3. Before(P, a.policy, s.applied)  BY <3>1, <4>1, <4>2 DEF Settled
      <4>4. QED  BY <2>6, <2>10, <4>2, <4>3
    <3>5. QED  BY <2>5, <3>3, <3>4 DEF Settled
  <2>11. OrderInv(w)'  BY <2>1, <2>10 DEF OrderInv, Excepted, Recurs
  <2>12. QED  BY <2>1, <2>5, <2>6, <2>9, <2>11
<1>5. DeliveryTypes'  BY <1>1, <1>3, <1>4 DEF DeliveryTypes
<1>6. QED  BY <1>4, <1>5 DEF DeliveryInv

\* A new controller has asked for the snapshot's policy, which comes first.
LEMMA OpenDelivers ==
    ASSUME FlagInv, DeliveryInv, Open, ~reconciled
    PROVE  DeliveryInv'
<1>1. /\ sup \in [Workloads -> Supervisor] /\ stored \in [Workloads -> Row]
  BY DEF DeliveryInv, DeliveryTypes, FlagInv, DefinitionsInv
<1>2. /\ workloads' = stored /\ policies' = Noted(stored)
      /\ UNCHANGED <<executions, sup, reconciled, replaced>>
      /\ \A w \in Workloads : active'[w] # None =>
            /\ active'[w].policy = executions[w].policy
  BY DEF Open, dbVars
<1>3. policies' = [w \in Workloads |-> Noted(stored)[w]]  BY <1>2 DEF Noted
<1>4. ASSUME NEW w \in Workloads
      PROVE  policies'[w] \in Seq(Policies) /\ MemoryInv(w)' /\ OrderInv(w)'
  <2> DEFINE P == policies[w]
             Q == Noted(stored)[w]
  <2>1. policies'[w] = Q /\ (Running(w)' <=> Running(w))  BY <1>2, <1>3 DEF Running
  <2>2. /\ Q \in Seq(Policies)
        /\ Running(w) =>
             /\ Q # <<>> /\ Q[1] = P[1]
             /\ stored[w].definition # Absent => stored[w].definition.policy = Last(Q)
             /\ \A t : Ordered(P, t) => Ordered(Q, t)
             /\ IsInjective(Q) => IsInjective(P)
    BY <1>1, NotedPolicies
  <2>3. MemoryInv(w) /\ OrderInv(w)  BY DEF DeliveryInv
  <2> HIDE DEF P, Q
  <2>4. Running(w) => Q[1] = executions[w].policy  BY <2>2, <2>3 DEF MemoryInv, P
  <2>5. MemoryInv(w)'  BY <1>2, <2>1, <2>2, <2>4 DEF MemoryInv
  <2>6. ASSUME Running(w), IsInjective(Q), w \notin replaced
        PROVE  /\ Ordered(Q, sup[w])
               /\ active'[w] # None => Before(Q, active'[w].policy, sup[w].applied)
    <3>1. Ordered(P, sup[w])
      BY <2>2, <2>3, <2>6 DEF OrderInv, Excepted, Recurs, P
    <3>2. Ordered(Q, sup[w])  BY <2>2, <2>6, <3>1
    <3>3. PICK i \in 1..Len(Q) : Q[i] = sup[w].applied  BY <3>2 DEF Ordered, Before
    <3>4. 1 \in 1..Len(Q) /\ 1 <= i  BY <2>2, <3>3
    <3>5. Before(Q, Q[1], sup[w].applied)  BY <3>3, <3>4 DEF Before
    <3>6. QED  BY <1>2, <2>4, <2>6, <3>2, <3>5
  <2>7. OrderInv(w)'  BY <1>2, <2>1, <2>6 DEF OrderInv, Excepted, Recurs, Settled
  <2>8. QED  BY <2>1, <2>2, <2>5, <2>7
<1>5. DeliveryTypes'  BY <1>1, <1>2, <1>3, <1>4 DEF DeliveryTypes
<1>6. QED  BY <1>4, <1>5 DEF DeliveryInv

LEMMA CrashDelivers ==
    ASSUME FlagInv, DeliveryInv, Crash
    PROVE  DeliveryInv'
<1>1. sup \in [Workloads -> Supervisor] /\ policies \in [Workloads -> Seq(Policies)]
  BY DEF DeliveryInv, DeliveryTypes
<1>2. PICK ended \in SUBSET Workloads :
          sup' = [w \in Workloads |-> Broken(sup[w], w \in ended)]
  BY DEF Crash
<1>3. /\ \A w \in Workloads : active'[w] = None
      /\ UNCHANGED <<executions, workloads, policies, replaced>>
  BY DEF Crash, dbVars
<1>4. ASSUME NEW w \in Workloads
      PROVE  sup'[w] \in Supervisor /\ MemoryInv(w)' /\ OrderInv(w)'
  <2>1. sup'[w] = Broken(sup[w], w \in ended) /\ sup[w] \in Supervisor /\ (w \in ended) \in BOOLEAN
    BY <1>1, <1>2
  <2>2. sup'[w] \in Supervisor  BY <2>1, BrokenIsSupervisor
  <2>3. MemoryInv(w) /\ OrderInv(w)  BY DEF DeliveryInv
  <2>4. MemoryInv(w)'  BY <1>3, <2>3 DEF MemoryInv, Running
  <2>5. ASSUME Running(w), ~Excepted(w) PROVE Ordered(policies[w], sup'[w])
    <3>1. Ordered(policies[w], sup[w]) /\ IsInjective(policies[w]) /\ policies[w] \in Seq(Policies)
      BY <1>1, <2>3, <2>5 DEF OrderInv, Excepted, Recurs
    <3>2. QED  BY <2>1, <3>1, OrderedBreaks
  <2>6. OrderInv(w)'  BY <1>3, <2>5 DEF OrderInv, Running, Excepted, Recurs
  <2>7. QED  BY <2>2, <2>4, <2>6
<1>5. DeliveryTypes'
  BY <1>1, <1>2, <1>3, <1>4 DEF DeliveryTypes
<1>6. QED  BY <1>4, <1>5 DEF DeliveryInv

\* Steps that touch neither executions nor their supervisors.
LEMMA QuietDelivers ==
    ASSUME DeliveryInv, UNCHANGED <<executions, workloads, active, sup, reconciled, policies, replaced>>
    PROVE  DeliveryInv'
<1>1. ASSUME NEW w \in Workloads PROVE MemoryInv(w)' /\ OrderInv(w)'
  <2>1. MemoryInv(w) /\ OrderInv(w)  BY DEF DeliveryInv
  <2>2. MemoryInv(w)'  BY <2>1 DEF MemoryInv, Running
  <2>3. OrderInv(w)'  BY <2>1 DEF OrderInv, Running, Excepted, Recurs
  <2>4. QED  BY <2>2, <2>3
<1>2. DeliveryTypes'  BY DEF DeliveryInv, DeliveryTypes
<1>3. QED  BY <1>1, <1>2 DEF DeliveryInv

LEMMA ReloadDelivers ==
    ASSUME FlagInv, DeliveryInv, NEW c \in Calls, ReloadStep(c)
    PROVE  DeliveryInv'
<1>1. CASE Load(c) \/ LoadError(c) \/ RejectKindChange(c) \/ CheckKinds(c)
  BY <1>1, QuietDelivers DEF Load, LoadError, RejectKindChange, CheckKinds, dbVars, historyVars
<1>2. CASE ReplaceDefinitions(c) \/ LoadWorkloads(c)
  BY <1>2, QuietDelivers DEF ReplaceDefinitions, LoadWorkloads, dbVars, historyVars
<1>3. CASE Install(c)
  <2>1. rows[c] \in [Workloads -> Row]  BY <1>3 DEF Install, FlagInv, DefinitionsInv
  <2>2. QED  BY <1>3, <2>1, ReconcileDelivers DEF Install, dbVars
<1>4. CASE Unchanged(c)
  <2>1. workloads \in [Workloads -> Row]  BY DEF FlagInv, DefinitionsInv
  <2>2. QED  BY <1>4, <2>1, ReconcileDelivers DEF Unchanged, dbVars
<1>5. QED  BY <1>1, <1>2, <1>3, <1>4 DEF ReloadStep

LEMMA DeliveryStep ==
    ASSUME FlagInv, DeliveryInv, NotReconciledDown, [Next]_vars
    PROVE  DeliveryInv'
<1>1. CASE UNCHANGED vars
  BY <1>1, QuietDelivers DEF vars, dbVars, historyVars
<1>2. CASE CallReload
  BY <1>2, QuietDelivers DEF CallReload, dbVars
<1>3. CASE Open
  <2>1. ~reconciled  BY <1>3 DEF Open, NotReconciledDown
  <2>2. QED  BY <1>3, <2>1, OpenDelivers
<1>4. CASE Crash  BY <1>4, CrashDelivers
<1>5. CASE \E c \in Calls : ReloadStep(c)  BY <1>5, ReloadDelivers
<1>6. ASSUME NEW w \in Workloads,
             \/ Start(w) \/ Finish(w) \/ SupervisorStep(w)
             \/ Disconnect(w) \/ ReplaceSupervisor(w) \/ EditFile(w)
      PROVE  DeliveryInv'
  <2>1. CASE EditFile(w)  BY <2>1, QuietDelivers DEF EditFile, dbVars, historyVars
  <2>2. CASE SupervisorStep(w)
    BY <2>2, AttachDelivers, ReceiveDelivers, ApplyDelivers, AcknowledgeDelivers
       DEF SupervisorStep
  <2>3. QED
    BY <1>6, <2>1, <2>2, StartDelivers, FinishDelivers, DisconnectDelivers, ReplaceDelivers
<1>7. QED  BY <1>1, <1>2, <1>3, <1>4, <1>5, <1>6 DEF Next

\* An acknowledgement is never taken for that of a later update
\* (manager.rs:785): when status shows no pending update, the supervisor has
\* applied the policy of the definition in memory, for any workloads,
\* definitions, calls, breaks of connections, crashes and starts, unless the
\* policy came back to an earlier one or the supervisor was replaced.
THEOREM AcknowledgementsAreForTheNewest == Spec => []AcknowledgedIsApplied
<1>1. Init => DeliveryInv
  <2> SUFFICES ASSUME Init PROVE DeliveryInv
    OBVIOUS
  <2>1. <<>> \in Seq(Policies)  OBVIOUS
  <2>2. NoSupervisor \in Supervisor  BY <2>1 DEF Supervisor, NoSupervisor
  <2>3. DeliveryTypes  BY <2>1, <2>2 DEF Init, DeliveryTypes
  <2>4. \A w \in Workloads : ~Running(w)  BY DEF Init, Running
  <2>5. QED  BY <2>3, <2>4 DEF DeliveryInv, MemoryInv, OrderInv
<1>2. Spec => []FlagInv  BY FlagInductive
<1>3. Spec => []DeliveryInv
  BY <1>1, <1>2, DownKnowsNothing, DeliveryStep, PTL DEF Spec
<1>4. FlagInv /\ DeliveryInv => AcknowledgedIsApplied
  <2> SUFFICES ASSUME FlagInv, DeliveryInv, reconciled, NEW w \in Workloads,
                      active[w] # None, workloads[w].definition # Absent,
                      ~active[w].policy_sync_pending, ~Excepted(w)
               PROVE  sup[w].applied = workloads[w].definition.policy
    BY DEF AcknowledgedIsApplied
  <2>1. Running(w)  BY DEF FlagInv, SnapshotInv, Running
  <2>2. /\ policies[w] \in Seq(Policies) /\ IsInjective(policies[w])
        /\ MemoryInv(w) /\ OrderInv(w)
    BY DEF DeliveryInv, DeliveryTypes, Excepted, Recurs
  <2>3. /\ workloads[w].definition.policy = Last(policies[w])
        /\ active[w].policy = Last(policies[w])
    BY <2>1, <2>2 DEF MemoryInv
  <2>4. Before(policies[w], Last(policies[w]), sup[w].applied)
    BY <2>1, <2>2, <2>3 DEF OrderInv, Settled
  <2>5. sup[w].applied = Last(policies[w])  BY <2>2, <2>4, BeforeOrder
  <2>6. QED  BY <2>3, <2>5
<1>5. QED  BY <1>2, <1>3, <1>4, PTL
=============================================================================
