---------------------------- MODULE ConfigDirectory ----------------------------
(***************************************************************************)
(* load_directory (config/src/loader.rs): how a reload reads workloads.d   *)
(* while somebody edits it.  The directory is enumerated, its files are    *)
(* read, and it is enumerated again; the candidate is accepted if names,   *)
(* sizes and last-write times are the same both times.                     *)
(*                                                                         *)
(* Abstractions.  A file is named by the workload it defines.  Its content *)
(* is the definition it parses to.  A change gives the file a last-write   *)
(* time of its own; its size may or may not change, so that the size       *)
(* comparisons, like every I/O error, limit or malformed file, are a       *)
(* LoadFails that may happen at any step.                                  *)
(***************************************************************************)
EXTENDS Naturals, FiniteSets

CONSTANTS Workloads,     \* the workload IDs of the files
          Definitions,   \* what a file may define
          Absent,        \* there is no file, no definition
          First,         \* what all of them define at first
          Editable,      \* bound: what each file is ever changed to
          Calls,         \* threads of the controller that can load
          MaxEdits       \* bound: changes of the directory

ASSUME DirectoryAssumption ==
    /\ Absent \notin Definitions /\ First \in Definitions /\ Calls # {} /\ MaxEdits \in Nat
    /\ Editable \in [Workloads -> SUBSET (Definitions \cup {Absent})]

VARIABLES
  directory,   \* each file's content and last-write time
  edits,       \* how often the directory has changed
  load         \* load[c]: the locals of load_directory

dirVars == <<directory, edits, load>>

Contents == Definitions \cup {Absent}
Present == {w \in Workloads : directory[w].content # Absent}
Held == [w \in Workloads |-> directory[w].content]

\* Nothing is known of a file yet: no last-write time, no definition.
NoStamps == [w \in Workloads |-> 0]
NoBytes == [w \in Workloads |-> Absent]
Known(stamps) == {w \in Workloads : stamps[w] # 0}

Idle == [at |-> "idle", held |-> NoBytes, todo |-> {}, stamps |-> NoStamps,
         bytes |-> NoBytes, again |-> NoStamps]

\* held is history: the directory when the call listed it for the second time.
DirectoryTypeOK ==
    /\ directory \in [Workloads -> [content : Contents, modified : Nat \ {0}]]
    /\ edits \in Nat
    /\ load \in [Calls -> [at : {"idle", "read", "verify"},
                           held : [Workloads -> Contents], todo : SUBSET Workloads,
                           stamps : [Workloads -> Nat], again : [Workloads -> Nat],
                           bytes : [Workloads -> Contents]]]

\* A directory somebody has written.
DirectoryInit ==
    /\ directory = [w \in Workloads |-> [content |-> First, modified |-> 1]]
    /\ edits = 0
    /\ load = [c \in Calls |-> Idle]

-----------------------------------------------------------------------------
(* load_directory. *)

At(c, where) == load[c].at = where
Set(c, l) == load' = [load EXCEPT ![c] = l]

\* The next of some files, in the order of their names.
NextOf(files) == CHOOSE w \in files : TRUE

\* read_dir, the first time.
BeginLoad(c) ==
    /\ At(c, "idle")
    /\ Set(c, [Idle EXCEPT !.at = "read", !.todo = Present])
    /\ UNCHANGED <<directory, edits>>

\* symlink_metadata of the next entry; it fails if the file is gone.
Enumerate(c) ==
    LET w == NextOf(load[c].todo) IN
    /\ At(c, "read") /\ load[c].todo # {} /\ w \in Present
    /\ Set(c, [load[c] EXCEPT !.todo = @ \ {w}, !.stamps[w] = directory[w].modified])
    /\ UNCHANGED <<directory, edits>>

Unread(c) == {w \in Known(load[c].stamps) : load[c].bytes[w] = Absent}

\* fs::read and parsing, once all the files are enumerated.
ReadFile(c) ==
    LET w == NextOf(Unread(c)) IN
    /\ At(c, "read") /\ load[c].todo = {} /\ Unread(c) # {} /\ w \in Present
    /\ Set(c, [load[c] EXCEPT !.bytes[w] = directory[w].content])
    /\ UNCHANGED <<directory, edits>>

\* read_dir, the second time.
ListAgain(c) ==
    /\ At(c, "read") /\ load[c].todo = {} /\ Unread(c) = {}
    /\ Set(c, [load[c] EXCEPT !.at = "verify", !.held = Held, !.todo = Present])
    /\ UNCHANGED <<directory, edits>>

EnumerateAgain(c) ==
    LET w == NextOf(load[c].todo) IN
    /\ At(c, "verify") /\ load[c].todo # {} /\ w \in Present
    /\ Set(c, [load[c] EXCEPT !.todo = @ \ {w}, !.again[w] = directory[w].modified])
    /\ UNCHANGED <<directory, edits>>

MutTrustNames(c) ==
    At(c, "verify") /\ load[c].todo = {} /\ Known(load[c].stamps) = Known(load[c].again)

\* Nothing changed: the candidate is complete.
Loaded(c) == At(c, "verify") /\ load[c].todo = {} /\ load[c].stamps = load[c].again

\* Any error: of the file system, of a limit, of a file, or ChangedDuringRead.
LoadFails(c) ==
    /\ ~At(c, "idle")
    /\ Set(c, Idle) /\ UNCHANGED <<directory, edits>>

\* What the call made of the candidate does not concern the directory; a call
\* may also die with its controller.
Release(c) == Set(c, Idle) /\ UNCHANGED <<directory, edits>>
ReleaseAll == load' = [c \in Calls |-> Idle] /\ UNCHANGED <<directory, edits>>

\* The definitions of the candidate.
Candidate(c) == load[c].bytes

\* Somebody writes, replaces, creates or removes a file.
Edit(w, content) ==
    /\ edits < MaxEdits /\ edits' = edits + 1
    /\ content # directory[w].content
    /\ directory' = [directory EXCEPT ![w] = [content |-> content, modified |-> edits + 2]]
    /\ UNCHANGED load

DirectoryNext ==
    \/ \E c \in Calls :
          \/ BeginLoad(c) \/ Enumerate(c) \/ ReadFile(c) \/ ListAgain(c)
          \/ EnumerateAgain(c) \/ LoadFails(c) \/ Release(c)
    \/ ReleaseAll
    \/ \E w \in Workloads : \E content \in Editable[w] : Edit(w, content)

DirectorySpec == DirectoryInit /\ [][DirectoryNext]_dirVars

-----------------------------------------------------------------------------

\* A generation is never put together across two states of the directory
\* (loader.rs:144): what a call accepts is what the whole directory held at one
\* instant while the call ran, the instant of its second listing.
NoMixedGeneration ==
    \A c \in Calls : Loaded(c) => Candidate(c) = load[c].held
=============================================================================
