------------------------------ MODULE LogCapture ------------------------------
(***************************************************************************)
(* The output of one attempt on its way from the workload's pipes to a     *)
(* reader: drain_output and the bounded queue (supervisor/src/runner.rs),  *)
(* the segment writer with its rotation, compression and retention         *)
(* (supervisor/src/journal.rs), and the log stream of the controller       *)
(* (controller/src/rpc.rs), which reads the files while they are renamed,  *)
(* compressed and removed under it.                                        *)
(*                                                                         *)
(* Abstractions.  A segment's copies hold the same records, so that a      *)
(* segment is the set of its visible records and the names under which it  *)
(* exists.  Sizes and ages are left out: a segment that is not empty may   *)
(* be due for rotation at any time, and retention may remove any number of *)
(* the oldest files.  A reader lists the tree of a workload in one step.   *)
(* The bytes of an unfinished compression hold no complete record.  A      *)
(* request for some executions, attempts or streams reads less of the same *)
(* files.                                                                  *)
(***************************************************************************)
EXTENDS Naturals, Sequences, FiniteSets, SequencesExt

CONSTANTS Streams,       \* stdout and stderr
          QueueChunks,   \* OUTPUT_QUEUE_CHUNKS
          MaxChunks, MaxPolicies, MaxFaults   \* bounds on what the environment does

ASSUME LogAssumption ==
    /\ Streams # {} /\ QueueChunks \in Nat \ {0}
    /\ MaxChunks \in Nat /\ MaxPolicies \in Nat /\ MaxFaults \in Nat

VARIABLES
  \* The supervisor.
  taken,      \* the capture sequence: chunks read from the pipes
  drained,    \* drained[s]: the chunk a reader of pipe s holds, or 0
  open,       \* the pipes that are open
  queue,      \* the channel to the writer
  writer,     \* run_writer: where it is, and its locals
  \* The file system: each segment of the workload's tree.
  disk,
  \* A log stream of the controller.
  reader,
  \* History.
  discarded,  \* chunks that were never meant to be written
  retired,    \* segments that retention has removed
  missing,    \* records written before the reader listed the files, still unsent
  policies, faults

captureVars == <<taken, drained, open, queue>>
vars == <<captureVars, writer, disk, reader, discarded, retired, missing, policies, faults>>

\* Segment 0 is what an earlier attempt left, with one record, number 0.
Segments == 0..(MaxChunks + MaxPolicies + 1)
Names == {"open", "final", "tmp", "zst"}
Complete == {"open", "final", "zst"}

\* Where finish is: what it does next.
Finishing == {"flush", "close", "compress", "publish", "remove"}

TypeOK ==
    /\ taken \in 0..MaxChunks /\ drained \in [Streams -> 0..MaxChunks] /\ open \subseteq Streams
    /\ queue \in Seq(1..MaxChunks) /\ Len(queue) <= QueueChunks
    /\ writer \in [at : Finishing \cup {"select", "retain", "open", "done", "ended"},
                   then : {"rotate", "resume", "reopen", "end"}, capture : BOOLEAN,
                   segment : Segments, next : 1..(MaxChunks + MaxPolicies + 2),
                   entry : 0..MaxChunks,
                   empty : BOOLEAN, buffer : SUBSET (1..MaxChunks)]
    /\ disk \in [Segments -> [names : SUBSET Names, records : SUBSET (0..MaxChunks)]]
    /\ reader \in [at : {"off", "list", "read", "ended"}, follow : BOOLEAN,
                   todo : SUBSET (Segments \X Names),
                   seen : SUBSET (0..MaxChunks)]
    /\ discarded \subseteq 1..MaxChunks /\ retired \subseteq Segments
    /\ missing \subseteq 0..MaxChunks
    /\ policies \in 0..MaxPolicies /\ faults \in 0..MaxFaults

NoSegment == [names |-> {}, records |-> {}]
NoStream == [at |-> "ended", follow |-> FALSE, todo |-> {}, seen |-> {}]

\* An attempt that captures, or does not, begins; an earlier one may have
\* crashed when a segment existed twice.
Init ==
    \E left \in {{}, {"final", "zst"}}, capture \in BOOLEAN :
    /\ taken = 0 /\ drained = [s \in Streams |-> 0] /\ open = Streams /\ queue = <<>>
    /\ writer = [at |-> "select", then |-> "rotate", capture |-> capture,
                 segment |-> IF capture THEN 1 ELSE 0, next |-> IF capture THEN 2 ELSE 1,
                 entry |-> 0, empty |-> TRUE, buffer |-> {}]
    /\ disk = [s \in Segments |->
                 CASE s = 0 -> [names |-> left, records |-> IF left = {} THEN {} ELSE {0}]
                   [] s = 1 /\ capture -> [names |-> {"open"}, records |-> {}]
                   [] OTHER -> NoSegment]
    /\ reader = [NoStream EXCEPT !.at = "off"]
    /\ discarded = {} /\ retired = {} /\ missing = {}
    /\ policies = 0 /\ faults = 0

\* The records that can be read from the files.
Readable == UNION {disk[s].records : s \in {t \in Segments : disk[t].names \cap Complete # {}}}

\* The records that have been written to files that retention has left alone.
Written == UNION {disk[s].records : s \in Segments \ retired}

-----------------------------------------------------------------------------
(* drain_output. *)

\* A chunk is read from pipe s and takes the next sequence number.
ReadPipe(s) ==
    /\ s \in open /\ drained[s] = 0 /\ taken < MaxChunks
    /\ taken' = taken + 1 /\ drained' = [drained EXCEPT ![s] = taken + 1]
    /\ UNCHANGED <<open, queue, writer, disk, reader, discarded, retired, missing, policies, faults>>

\* try_send: a full queue, or one without a writer, drops the chunk.
Enqueue(s) ==
    /\ drained[s] # 0 /\ drained' = [drained EXCEPT ![s] = 0]
    /\ IF Len(queue) < QueueChunks /\ writer.at \notin {"done", "ended"}
       THEN queue' = Append(queue, drained[s]) /\ UNCHANGED discarded
       ELSE discarded' = discarded \cup {drained[s]} /\ UNCHANGED queue
    /\ UNCHANGED <<taken, open, writer, disk, reader, retired, missing, policies, faults>>

\* The pipe ends; the last sender closes the queue.
ClosePipe(s) ==
    /\ s \in open /\ drained[s] = 0 /\ open' = open \ {s}
    /\ UNCHANGED <<taken, drained, queue, writer, disk, reader, discarded, retired, missing,
                   policies, faults>>

Capture(s) == ReadPipe(s) \/ Enqueue(s) \/ ClosePipe(s)

-----------------------------------------------------------------------------
(* run_writer. *)

Selecting == writer.at = "select"
HasSegment == writer.segment # 0
NotWriter == <<reader, missing, policies, faults>>

\* A complete segment can be rotated; whether it is due is the environment's.
ShouldRotate == ~writer.empty

\* SegmentWriter::write: the entry stays in the buffer, or pushes it out.
Write(w, d, n) ==
    \/ writer' = [w EXCEPT !.buffer = @ \cup {n}, !.empty = FALSE] /\ disk' = d
    \/ /\ writer' = [w EXCEPT !.buffer = {}, !.empty = FALSE]
       /\ disk' = [d EXCEPT ![w.segment].records = @ \cup w.buffer \cup {n}]

\* A chunk arrives; without a segment it is discarded, and one that is due for
\* rotation is finished first.
ReceiveChunk ==
    /\ Selecting /\ queue # <<>> /\ queue' = Tail(queue)
    /\ \/ /\ ~HasSegment /\ discarded' = discarded \cup {Head(queue)}
          /\ UNCHANGED <<writer, disk>>
       \/ /\ HasSegment /\ Write(writer, disk, Head(queue)) /\ UNCHANGED discarded
       \/ /\ HasSegment /\ ShouldRotate
          /\ writer' = [writer EXCEPT !.at = "flush", !.then = "rotate", !.entry = Head(queue)]
          /\ UNCHANGED <<disk, discarded>>
    /\ UNCHANGED <<taken, drained, open, retired>> /\ UNCHANGED NotWriter

\* The flush timer: what is buffered becomes visible, and the segment may be due.
Tick ==
    /\ Selecting /\ HasSegment
    /\ disk' = [disk EXCEPT ![writer.segment].records = @ \cup writer.buffer]
    /\ \/ writer' = [writer EXCEPT !.buffer = {}]
       \/ ShouldRotate /\ writer' = [writer EXCEPT !.buffer = {}, !.at = "flush", !.then = "rotate"]
    /\ UNCHANGED captureVars /\ UNCHANGED <<discarded, retired>> /\ UNCHANGED NotWriter

MutCloseWithoutFinish ==
    /\ Selecting /\ queue = <<>> /\ open = {} /\ \A s \in Streams : drained[s] = 0
    /\ writer' = [writer EXCEPT !.at = "done"]
    /\ UNCHANGED captureVars /\ UNCHANGED <<disk, discarded, retired>> /\ UNCHANGED NotWriter

\* The queue is closed and empty: the last segment is finished.
QueueCloses ==
    /\ Selecting /\ queue = <<>> /\ open = {} /\ \A s \in Streams : drained[s] = 0
    /\ writer' = IF HasSegment THEN [writer EXCEPT !.at = "flush", !.then = "end"]
                 ELSE [writer EXCEPT !.at = "done"]
    /\ UNCHANGED captureVars /\ UNCHANGED <<disk, discarded, retired>> /\ UNCHANGED NotWriter

\* A policy update: capture goes off or on, or a new limit makes the segment due.
ChangePolicy ==
    /\ Selecting /\ policies < MaxPolicies /\ policies' = policies + 1
    /\ \E capture \in BOOLEAN :
         LET w == [writer EXCEPT !.capture = capture] IN
         writer' \in
           IF ~capture /\ HasSegment THEN {[w EXCEPT !.at = "flush", !.then = "resume"]}
           ELSE IF capture /\ ~HasSegment THEN {[w EXCEPT !.at = "open", !.then = "reopen"]}
           ELSE IF capture
                THEN {[w EXCEPT !.at = "retain", !.then = "resume"]} \cup
                     (IF ShouldRotate THEN {[w EXCEPT !.at = "flush", !.then = "reopen"]} ELSE {})
                ELSE {w}
    /\ UNCHANGED captureVars /\ UNCHANGED <<disk, reader, discarded, retired, missing, faults>>

-----------------------------------------------------------------------------
(* SegmentWriter::finish, in the steps a reader or a crash can fall between. *)

\* One step of finish: the segment gets the name gain and loses the name lose.
Finish(here, there, gain, lose) ==
    /\ writer.at = here /\ writer' = [writer EXCEPT !.at = there]
    /\ disk' = [disk EXCEPT ![writer.segment].names = (@ \cup gain) \ lose]
    /\ UNCHANGED captureVars /\ UNCHANGED <<discarded, retired>> /\ UNCHANGED NotWriter

\* flush and sync_all
FinishFlush ==
    /\ writer.at = "flush" /\ writer' = [writer EXCEPT !.at = "close", !.buffer = {}]
    /\ disk' = [disk EXCEPT ![writer.segment].records = @ \cup writer.buffer]
    /\ UNCHANGED captureVars /\ UNCHANGED <<discarded, retired>> /\ UNCHANGED NotWriter

\* The segment gets its final name, unless retention has removed the open file.
FinishRename ==
    "open" \in disk[writer.segment].names /\ Finish("close", "compress", {"final"}, {"open"})

MutRemoveEarly == Finish("compress", "publish", {"tmp"}, {"final"})

FinishCompress == Finish("compress", "publish", {"tmp"}, {})
FinishPublish == Finish("publish", "remove", {"zst"}, {"tmp"})

\* The copy under the final name goes last; then what the caller does.
FinishRemove ==
    /\ writer.at = "remove"
    /\ disk' = [disk EXCEPT ![writer.segment].names = @ \ {"final"}]
    /\ writer' = [writer EXCEPT !.segment = 0, !.empty = TRUE,
         !.at = CASE writer.then \in {"rotate", "end"} -> "retain"
                  [] writer.then = "reopen" -> "open"
                  [] writer.then = "resume" -> "select"]
    /\ UNCHANGED captureVars /\ UNCHANGED <<discarded, retired>> /\ UNCHANGED NotWriter

\* SegmentWriter::open, and the entry that waits for it.
OpenSegment ==
    LET w == [writer EXCEPT !.segment = writer.next, !.next = @ + 1, !.entry = 0,
                            !.at = IF writer.then = "reopen" THEN "retain" ELSE "select",
                            !.then = "resume"]
        d == [disk EXCEPT ![writer.next] = [names |-> {"open"}, records |-> {}]] IN
    /\ writer.at = "open"
    /\ IF writer.entry = 0 THEN writer' = w /\ disk' = d ELSE Write(w, d, writer.entry)
    /\ UNCHANGED captureVars /\ UNCHANGED <<discarded, retired>> /\ UNCHANGED NotWriter

\* The order in which retention meets the files: by segment, copies last.
Rank(f) == 2 * f[1] + (IF f[2] \in {"tmp", "zst"} THEN 1 ELSE 0)
Files == {f \in Segments \X Names : f[2] \in disk[f[1]].names}

\* apply_retention: the oldest files of the workload go, the open one among them.
ApplyRetention ==
    \E k \in {0} \cup {Rank(f) + 1 : f \in Files} :
    LET gone == {f \in Files : Rank(f) < k} IN
    /\ writer.at = "retain"
    /\ disk' = [s \in Segments |-> [disk[s] EXCEPT !.names = {n \in @ : <<s, n>> \notin gone}]]
    /\ retired' = retired \cup {f[1] : f \in {g \in gone : disk'[g[1]].names \cap Complete = {}}}
    /\ writer' = [writer EXCEPT !.at = CASE writer.then = "rotate" -> "open"
                                         [] writer.then = "end" -> "done"
                                         [] OTHER -> "select"]
    /\ UNCHANGED captureVars /\ UNCHANGED discarded /\ UNCHANGED NotWriter

\* An error of any of these steps ends run_writer: chunks have nowhere to go,
\* and the buffer is written as it is dropped, if it can be.
EndWriter ==
    /\ writer' = [writer EXCEPT !.at = "ended", !.buffer = {}]
    /\ disk' \in {disk, [disk EXCEPT ![writer.segment].records = @ \cup writer.buffer]}
    /\ queue' = <<>> /\ discarded' = discarded \cup ToSet(queue)
    /\ UNCHANGED <<taken, drained, open, retired, reader, missing, policies>>

WriterError ==
    /\ writer.at \notin {"select", "done", "ended"}
    /\ \/ faults < MaxFaults /\ faults' = faults + 1
       \/ writer.at = "close" /\ "open" \notin disk[writer.segment].names /\ UNCHANGED faults
    /\ EndWriter

\* The supervisor is killed: what is not in the files is lost.
SupervisorCrash ==
    /\ faults < MaxFaults /\ faults' = faults + 1
    /\ writer.at \notin {"done", "ended"}
    /\ writer' = [writer EXCEPT !.at = "ended", !.buffer = {}]
    /\ queue' = <<>> /\ open' = {} /\ drained' = [s \in Streams |-> 0]
    /\ discarded' = discarded \cup ToSet(queue)
    /\ UNCHANGED <<taken, retired, disk, reader, missing, policies>>

WriterStep ==
    \/ ReceiveChunk \/ Tick \/ QueueCloses \/ ChangePolicy
    \/ FinishFlush \/ FinishRename \/ FinishCompress \/ FinishPublish \/ FinishRemove
    \/ OpenSegment \/ ApplyRetention

-----------------------------------------------------------------------------
(* read_logs and stream_log_files. *)

NotReader == <<captureVars, writer, disk, discarded, retired, policies, faults>>

ReadLogs ==
    /\ reader.at = "off"
    /\ \E follow \in BOOLEAN : reader' = [reader EXCEPT !.at = "list", !.follow = follow]
    /\ UNCHANGED missing /\ UNCHANGED NotReader

\* The files of the workload are listed, the first time or after a pause.
ListFiles ==
    /\ reader.at = "list"
    /\ reader' = [reader EXCEPT !.at = "read", !.todo = Files]
    /\ missing' = Written \ reader.seen /\ UNCHANGED NotReader

\* A file is read and decoded; what has not been sent before is sent.
ReadFile ==
    \E f \in reader.todo :
    /\ reader.at = "read" /\ \A g \in reader.todo : Rank(f) <= Rank(g)
    /\ f \in Files
    /\ reader' = [reader EXCEPT !.todo = @ \ {f},
         !.seen = IF f[2] \in Complete THEN @ \cup disk[f[1]].records ELSE @]
    /\ missing' = missing \ reader'.seen /\ UNCHANGED NotReader

EndStream == reader' = NoStream /\ missing' = {}

\* A file that is gone by now ends the stream with an error.
FileIsGone ==
    \E f \in reader.todo :
    /\ reader.at = "read" /\ f \notin Files
    /\ EndStream /\ UNCHANGED NotReader

MutReadOnce ==
    /\ reader.at = "read" /\ reader.todo = {} /\ ~reader.follow
    /\ EndStream /\ UNCHANGED NotReader

\* All files are read; a follower looks again.
EndOfPass ==
    /\ reader.at = "read" /\ reader.todo = {}
    /\ IF reader.follow THEN reader' = [reader EXCEPT !.at = "list"] /\ missing' = {}
       ELSE EndStream
    /\ UNCHANGED NotReader

ClientLeaves ==
    /\ reader.at \in {"list", "read"}
    /\ EndStream /\ UNCHANGED NotReader

ReaderStep == ListFiles \/ ReadFile \/ FileIsGone \/ EndOfPass

Next ==
    \/ \E s \in Streams : Capture(s)
    \/ WriterStep \/ WriterError \/ SupervisorCrash
    \/ ReadLogs \/ ReaderStep \/ ClientLeaves

Spec == Init /\ [][Next]_vars

\* The tasks run, and the flush timer fires.
FairSpec ==
    /\ Spec /\ WF_vars(ReaderStep) /\ WF_vars(WriterStep)
    /\ \A s \in Streams : WF_vars(Enqueue(s))

-----------------------------------------------------------------------------
(* Properties. *)

\* A pass that ends without an error has sent every record that was written
\* before it began, unless retention had removed it: no renaming or compression,
\* and no crash in the middle of one, hides it (journal.rs:194, rpc.rs:372).
NothingSkipped ==
    reader.at = "read" /\ reader.todo = {} => missing = {}

\* The end of an attempt writes everything out (journal.rs:119): once the writer
\* is done, each chunk that was neither dropped nor unwanted is in a file, or
\* was in a segment that retention has removed.
EverythingWritten ==
    writer.at = "done" =>
        (1..taken) \ discarded \subseteq
            Readable \cup UNION {disk[s].records : s \in retired}

\* A reader that follows catches up with the files whenever the output pauses,
\* unless a file vanishes under it or the client leaves (rpc.rs:392).
FollowDelivers ==
    []<>(reader.follow /\ reader.at \in {"list", "read"} => Readable \subseteq reader.seen)
=============================================================================
