--------------------------- MODULE LogCaptureProofs ---------------------------
(***************************************************************************)
(* For any number of pipes, chunks, policy changes and faults, and any     *)
(* size of the queue: a pass of a reader skips nothing that was written    *)
(* before it, and an attempt that ends well has written everything out.    *)
(*                                                                         *)
(* The argument: a chunk the writer has taken from the queue is in its     *)
(* buffer, waits for the next segment or is a record; a record is in a     *)
(* segment that has a complete file or was removed by retention, because   *)
(* finish takes a name away only when the segment has the next one; and a  *)
(* record a reader still owes is in a listed file of its segment.          *)
(***************************************************************************)
EXTENDS LogCapture, FiniteSetTheorems, TLAPS

\* The chunks the writer has taken from the queue.
Received == (1..taken) \ ({drained[s] : s \in Streams} \cup ToSet(queue) \cup discarded)

\* A chunk is in one place: with a reader of a pipe, in the queue, or discarded.
PlaceInv ==
    /\ \A s \in Streams : drained[s] \in 0..taken
    /\ \A s, t \in Streams : s # t /\ drained[s] # 0 => drained[s] # drained[t]
    /\ \A i \in 1..Len(queue) : queue[i] \in 1..taken
    /\ \A i, j \in 1..Len(queue) : i # j => queue[i] # queue[j]
    /\ \A s \in Streams, i \in 1..Len(queue) : drained[s] # queue[i]
    /\ discarded \subseteq 1..taken
    /\ \A i \in 1..Len(queue) : queue[i] \notin discarded
    /\ \A s \in Streams : drained[s] \notin discarded

\* A segment may be opened without a chunk or a policy change to account for it.
Due == \/ writer.at = "open"
       \/ writer.at \in Finishing \cup {"retain"} /\ writer.then = "rotate"
       \/ writer.at \in Finishing /\ writer.then = "reopen"
       \/ ~writer.empty

\* Each segment after the first is opened for a chunk or a policy change, so
\* that the segments do not run out.
CountInv ==
    /\ writer.next <= 2 + Cardinality(Received) + policies
    /\ writer.at # "ended" =>
         /\ Due => writer.next <= 1 + Cardinality(Received) + policies
         /\ writer.entry # 0 => writer.next <= Cardinality(Received) + policies

\* Where the writer is and what its locals are then.
WriterInv ==
    writer.at # "ended" =>
        /\ writer.segment < writer.next
        /\ writer.at \in Finishing => writer.segment # 0
        /\ writer.at \in {"open", "done"} => writer.segment = 0
        /\ writer.at = "retain" /\ writer.then \in {"rotate", "end"} => writer.segment = 0
        /\ writer.segment = 0 => writer.empty
        /\ writer.buffer # {} => writer.segment # 0 /\ writer.at \in {"select", "flush", "retain"}
        /\ writer.entry # 0 =>
             writer.at \in Finishing \cup {"retain", "open"} /\ writer.then = "rotate"

\* The queue is closed and empty.
Closed == open = {} /\ queue = <<>> /\ \A s \in Streams : drained[s] = 0

EndInv ==
    /\ writer.then = "end" => writer.at \in Finishing \cup {"retain", "done", "ended"}
    /\ writer.at = "done" \/ (writer.then = "end" /\ writer.at # "ended") => Closed

\* The file of the segment that is being written or finished.
OpenInv ==
    writer.segment # 0 =>
        /\ writer.at \in {"select", "flush", "close", "retain"} =>
             \/ disk[writer.segment].names = {"open"}
             \/ disk[writer.segment].names = {} /\ writer.segment \in retired
        /\ writer.at \in {"compress", "publish"} => "final" \in disk[writer.segment].names
        /\ writer.at = "remove" => "zst" \in disk[writer.segment].names

\* Every record is in a complete file, or retention has removed it; segments
\* that were not opened do not exist.
StoredInv ==
    /\ \A s \in Segments :
         disk[s].records = {} \/ disk[s].names \cap Complete # {} \/ s \in retired
    /\ \A s \in Segments : s >= writer.next => disk[s] = NoSegment

\* No chunk the writer has received is lost while it runs.
Recorded == UNION {disk[s].records : s \in Segments}
HeldInv ==
    writer.at # "ended" =>
        Received \subseteq writer.buffer \cup {writer.entry} \cup Recorded

\* A record that the reader still owes is in a complete file it has to read.
OwedInv ==
    reader.at = "read" =>
        \A x \in missing :
            \E f \in reader.todo : f[2] \in Complete /\ x \in disk[f[1]].records

IInv == /\ TypeOK /\ PlaceInv /\ CountInv /\ WriterInv /\ EndInv /\ OpenInv
        /\ StoredInv /\ HeldInv /\ OwedInv

\* The parts of TypeOK.
Writers == [at : Finishing \cup {"select", "retain", "open", "done", "ended"},
            then : {"rotate", "resume", "reopen", "end"}, capture : BOOLEAN,
            segment : Segments, next : 1..(MaxChunks + MaxPolicies + 2),
            entry : 0..MaxChunks, empty : BOOLEAN, buffer : SUBSET (1..MaxChunks)]
Disks == [Segments -> [names : SUBSET Names, records : SUBSET (0..MaxChunks)]]
Readers == [at : {"off", "list", "read", "ended"}, follow : BOOLEAN,
            todo : SUBSET (Segments \X Names), seen : SUBSET (0..MaxChunks)]
CaptureOK ==
    /\ taken \in 0..MaxChunks /\ drained \in [Streams -> 0..MaxChunks] /\ open \subseteq Streams
    /\ queue \in Seq(1..MaxChunks) /\ Len(queue) <= QueueChunks
    /\ discarded \subseteq 1..MaxChunks
CountsOK ==
    /\ retired \subseteq Segments /\ missing \subseteq 0..MaxChunks
    /\ policies \in 0..MaxPolicies /\ faults \in 0..MaxFaults

LEMMA TypeParts ==
    TypeOK <=> CaptureOK /\ writer \in Writers /\ disk \in Disks /\ reader \in Readers /\ CountsOK
BY DEF TypeOK, CaptureOK, Writers, Disks, Readers, CountsOK

-----------------------------------------------------------------------------
(* Chunks on their way to the writer. *)

LEMMA CaptureStep ==
    ASSUME CaptureOK, [Next]_vars
    PROVE  CaptureOK'
<1> USE LogAssumption
<1>1. ASSUME NEW s \in Streams, ReadPipe(s)
      PROVE  CaptureOK'
    BY <1>1 DEF ReadPipe, CaptureOK
<1>2. ASSUME NEW s \in Streams, Enqueue(s)
      PROVE  CaptureOK'
    <2>1. drained[s] \in 1..MaxChunks
        BY <1>2 DEF Enqueue, CaptureOK
    <2>2. drained' \in [Streams -> 0..MaxChunks] /\ UNCHANGED <<taken, open>>
        BY <1>2 DEF Enqueue, CaptureOK
    <2>3. \/ queue' = queue /\ discarded' = discarded \cup {drained[s]}
          \/ /\ queue' = Append(queue, drained[s]) /\ Len(queue) < QueueChunks
             /\ discarded' = discarded
        BY <1>2 DEF Enqueue
    <2>4. queue' \in Seq(1..MaxChunks) /\ Len(queue') <= QueueChunks
        <3>1. /\ Append(queue, drained[s]) \in Seq(1..MaxChunks)
              /\ Len(Append(queue, drained[s])) = Len(queue) + 1 /\ Len(queue) \in Nat
            BY <2>1 DEF CaptureOK
        <3>2. CASE queue' = queue
            BY <3>2 DEF CaptureOK
        <3>3. CASE queue' = Append(queue, drained[s]) /\ Len(queue) < QueueChunks
            BY <3>1, <3>3
        <3> QED BY <2>3, <3>2, <3>3
    <2> QED BY <2>1, <2>2, <2>3, <2>4 DEF CaptureOK
<1>3. ASSUME NEW s \in Streams, ClosePipe(s)
      PROVE  CaptureOK'
    BY <1>3 DEF ClosePipe, CaptureOK
<1>4. CASE ReceiveChunk
    <2>1. /\ queue' = Tail(queue) /\ queue # <<>> /\ UNCHANGED <<taken, drained, open>>
          /\ discarded' = discarded \/ discarded' = discarded \cup {Head(queue)}
        BY <1>4 DEF ReceiveChunk
    <2>2. /\ Head(queue) \in 1..MaxChunks
          /\ Tail(queue) \in Seq(1..MaxChunks) /\ Len(Tail(queue)) <= QueueChunks
        BY <2>1 DEF CaptureOK
    <2> QED BY <2>1, <2>2 DEF CaptureOK
<1>5. CASE WriterError
    <2>1. /\ queue' = <<>> /\ discarded' = discarded \cup ToSet(queue)
          /\ UNCHANGED <<taken, drained, open>>
        BY <1>5 DEF WriterError, EndWriter
    <2>2. ToSet(queue) \subseteq 1..MaxChunks
        BY DEF CaptureOK, ToSet
    <2>3. <<>> \in Seq(1..MaxChunks) /\ Len(<<>>) <= QueueChunks
        OBVIOUS
    <2> QED BY <2>1, <2>2, <2>3 DEF CaptureOK
<1>6. CASE SupervisorCrash
    <2>1. /\ queue' = <<>> /\ discarded' = discarded \cup ToSet(queue) /\ open' = {}
          /\ drained' = [s \in Streams |-> 0] /\ UNCHANGED taken
        BY <1>6 DEF SupervisorCrash
    <2>2. ToSet(queue) \subseteq 1..MaxChunks
        BY DEF CaptureOK, ToSet
    <2>3. <<>> \in Seq(1..MaxChunks) /\ Len(<<>>) <= QueueChunks
        OBVIOUS
    <2>4. drained' \in [Streams -> 0..MaxChunks]
        BY <2>1
    <2> QED BY <2>1, <2>2, <2>3, <2>4 DEF CaptureOK
<1>7. CASE UNCHANGED <<taken, drained, open, queue, discarded>>
    BY <1>7 DEF CaptureOK
<1> QED
    BY <1>1, <1>2, <1>3, <1>4, <1>5, <1>6, <1>7
    DEF Next, Capture, WriterStep, ReaderStep, vars, captureVars, NotReader, Tick, QueueCloses,
        ChangePolicy, FinishFlush, FinishRename, FinishCompress, FinishPublish, FinishRemove,
        Finish, OpenSegment, ApplyRetention, ReadLogs, ListFiles, ReadFile, FileIsGone, EndOfPass,
        ClientLeaves

LEMMA PlaceStep ==
    ASSUME CaptureOK, PlaceInv, [Next]_vars
    PROVE  PlaceInv'
<1> USE LogAssumption
<1>1. ASSUME NEW s \in Streams, ReadPipe(s)
      PROVE  PlaceInv'
    <2>1. /\ taken' = taken + 1 /\ UNCHANGED <<queue, discarded>> /\ taken \in Nat
          /\ \A t \in Streams : drained'[t] = IF t = s THEN taken + 1 ELSE drained[t]
        BY <1>1 DEF ReadPipe, CaptureOK
    <2> QED BY <2>1 DEF PlaceInv
<1>2. ASSUME NEW s \in Streams, Enqueue(s)
      PROVE  PlaceInv'
    <2>1. /\ \A t \in Streams : drained'[t] = IF t = s THEN 0 ELSE drained[t]
          /\ drained[s] \in 1..taken /\ UNCHANGED taken /\ taken \in Nat
          /\ \A t \in Streams \ {s} : drained[t] # drained[s]
        BY <1>2 DEF Enqueue, CaptureOK, PlaceInv
    <2>2. CASE UNCHANGED queue /\ discarded' = discarded \cup {drained[s]}
        <3>1. /\ \A t \in Streams : drained'[t] \in 0..taken /\ drained'[t] \notin discarded'
              /\ \A t, u \in Streams : t # u /\ drained'[t] # 0 => drained'[t] # drained'[u]
            BY <2>1, <2>2 DEF PlaceInv
        <3>2. \A t \in Streams, i \in 1..Len(queue) : drained'[t] # queue[i]
            BY <2>1 DEF PlaceInv
        <3>3. /\ \A i \in 1..Len(queue) : queue[i] \notin discarded'
              /\ discarded' \subseteq 1..taken
            BY <2>1, <2>2 DEF PlaceInv
        <3> QED BY <2>1, <2>2, <3>1, <3>2, <3>3 DEF PlaceInv
    <2>3. CASE queue' = Append(queue, drained[s]) /\ UNCHANGED discarded
        <3>1. /\ Len(queue') = Len(queue) + 1 /\ Len(queue) \in Nat
              /\ \A i \in 1..Len(queue) : queue'[i] = queue[i]
              /\ queue'[Len(queue) + 1] = drained[s]
            BY <2>3 DEF CaptureOK
        <3>2. \A i \in 1..Len(queue') : queue'[i] \in 1..taken /\ queue'[i] \notin discarded
            BY <2>1, <3>1 DEF PlaceInv
        <3>3. \A i, j \in 1..Len(queue') : i # j => queue'[i] # queue'[j]
            BY <2>1, <3>1 DEF PlaceInv
        <3>4. \A t \in Streams, i \in 1..Len(queue') : drained'[t] # queue'[i]
            BY <2>1, <3>1 DEF PlaceInv
        <3>5. /\ \A t \in Streams : drained'[t] \in 0..taken /\ drained'[t] \notin discarded
              /\ \A t, u \in Streams : t # u /\ drained'[t] # 0 => drained'[t] # drained'[u]
            BY <2>1 DEF PlaceInv
        <3> QED BY <2>1, <2>3, <3>2, <3>3, <3>4, <3>5 DEF PlaceInv
    <2> QED BY <1>2, <2>2, <2>3 DEF Enqueue
<1>3. ASSUME NEW s \in Streams, ClosePipe(s)
      PROVE  PlaceInv'
    BY <1>3 DEF ClosePipe, PlaceInv
<1>4. CASE ReceiveChunk
    <2>1. /\ queue' = Tail(queue) /\ queue # <<>> /\ UNCHANGED <<taken, drained, open>>
          /\ discarded' = discarded \/ discarded' = discarded \cup {Head(queue)}
        BY <1>4 DEF ReceiveChunk
    <2>2. /\ Len(queue) \in Nat \ {0} /\ Len(queue') = Len(queue) - 1 /\ Head(queue) = queue[1]
          /\ \A i \in 1..Len(queue') : queue'[i] = queue[i + 1] /\ i + 1 \in 2..Len(queue)
        BY <2>1 DEF CaptureOK
    <2>3. \A i, j \in 1..Len(queue') : i # j => queue'[i] # queue'[j]
        BY <2>2 DEF PlaceInv
    <2>4. \A i \in 1..Len(queue') : queue'[i] # Head(queue)
        BY <2>2 DEF PlaceInv
    <2>5. Head(queue) \in 1..taken /\ \A s \in Streams : drained[s] # Head(queue)
        BY <2>2 DEF PlaceInv
    <2>6. \A i \in 1..Len(queue') :
            /\ queue'[i] \in 1..taken /\ queue'[i] \notin discarded
            /\ \A s \in Streams : drained[s] # queue'[i]
        BY <2>2 DEF PlaceInv
    <2> QED BY <2>1, <2>3, <2>4, <2>5, <2>6 DEF PlaceInv
<1>5. CASE WriterError \/ SupervisorCrash
    <2>1. /\ queue' = <<>> /\ discarded' = discarded \cup ToSet(queue) /\ UNCHANGED taken
          /\ drained' = drained \/ drained' = [s \in Streams |-> 0]
        BY <1>5 DEF WriterError, EndWriter, SupervisorCrash
    <2>2. \A x \in ToSet(queue) : x \in 1..taken /\ \A s \in Streams : drained[s] # x
        BY DEF CaptureOK, PlaceInv, ToSet
    <2>3. taken \in Nat /\ Len(<<>>) = 0
        BY DEF CaptureOK
    <2> QED BY <2>1, <2>2, <2>3 DEF PlaceInv
<1>7. CASE UNCHANGED <<taken, drained, open, queue, discarded>>
    BY <1>7 DEF PlaceInv
<1> QED
    BY <1>1, <1>2, <1>3, <1>4, <1>5, <1>7
    DEF Next, Capture, WriterStep, ReaderStep, vars, captureVars, NotReader, Tick, QueueCloses,
        ChangePolicy, FinishFlush, FinishRename, FinishCompress, FinishPublish, FinishRemove,
        Finish, OpenSegment, ApplyRetention, ReadLogs, ListFiles, ReadFile, FileIsGone, EndOfPass,
        ClientLeaves

LEMMA HeadAndTail ==
    ASSUME NEW S, NEW q \in Seq(S), q # <<>>
    PROVE  /\ Head(q) \in S /\ Head(q) = q[1] /\ Len(q) \in Nat \ {0}
           /\ Tail(q) \in Seq(S) /\ Len(Tail(q)) = Len(q) - 1
           /\ \A i \in 1..Len(Tail(q)) : Tail(q)[i] = q[i + 1] /\ i + 1 \in 2..Len(q)
           /\ ToSet(q) = ToSet(Tail(q)) \cup {Head(q)}
<1>1. Len(q) \in Nat \ {0}
    OBVIOUS
<1>2. Head(q) \in S /\ Head(q) = q[1]
    BY <1>1
<1>3. /\ Tail(q) \in Seq(S) /\ Len(Tail(q)) = Len(q) - 1
      /\ \A i \in 1..Len(Tail(q)) : Tail(q)[i] = q[i + 1]
    BY <1>1
<1>4. \A i \in 1..Len(Tail(q)) : i + 1 \in 2..Len(q)
    BY <1>1, <1>3
<1>5. DOMAIN q = 1..Len(q) /\ DOMAIN Tail(q) = 1..Len(Tail(q))
    BY <1>3
<1>6. ASSUME NEW x \in ToSet(q)
      PROVE  x \in ToSet(Tail(q)) \cup {Head(q)}
    <2>1. PICK i \in 1..Len(q) : x = q[i]
        BY <1>5, <1>6 DEF ToSet
    <2>2. CASE i = 1
        BY <1>2, <2>1, <2>2
    <2>3. CASE i # 1
        <3>1. i - 1 \in 1..Len(Tail(q)) /\ (i - 1) + 1 = i
            BY <1>1, <1>3, <2>1, <2>3
        <3>2. x = Tail(q)[i - 1]
            BY <1>3, <2>1, <3>1
        <3> QED BY <1>5, <3>1, <3>2 DEF ToSet
    <2> QED BY <2>2, <2>3
<1>7. Head(q) \in ToSet(q)
    BY <1>1, <1>2, <1>5 DEF ToSet
<1>8. ToSet(Tail(q)) \subseteq ToSet(q)
    BY <1>1, <1>3, <1>4, <1>5 DEF ToSet
<1> QED BY <1>1, <1>2, <1>3, <1>4, <1>6, <1>7, <1>8

LEMMA ReceivedFinite ==
    ASSUME CaptureOK
    PROVE  /\ Received \subseteq 1..MaxChunks /\ IsFiniteSet(Received)
           /\ Cardinality(Received) \in 0..MaxChunks
<1>1. Received \subseteq 1..MaxChunks
    BY LogAssumption DEF Received, CaptureOK
<1>2. IsFiniteSet(1..MaxChunks) /\ Cardinality(1..MaxChunks) = MaxChunks
    BY LogAssumption, FS_Interval
<1>3. IsFiniteSet(Received) /\ Cardinality(Received) <= MaxChunks
    BY <1>1, <1>2, FS_Subset
<1> QED BY <1>1, <1>3, FS_CardinalityType, LogAssumption

\* Only the writer receives, and only while it has a segment.
LEMMA ReceivedSame ==
    ASSUME CaptureOK, PlaceInv, [Next]_vars, ~(ReceiveChunk /\ HasSegment), ~SupervisorCrash
    PROVE  Received' = Received
<1>1. ASSUME NEW s \in Streams, ReadPipe(s)
      PROVE  Received' = Received
    <2>1. /\ taken' = taken + 1 /\ UNCHANGED <<queue, discarded>> /\ taken \in Nat
          /\ \A t \in Streams : drained'[t] = IF t = s THEN taken + 1 ELSE drained[t]
          /\ drained[s] = 0
        BY <1>1 DEF ReadPipe, CaptureOK
    <2>2. ASSUME NEW x \in 1..taken
          PROVE  x \in {drained'[t] : t \in Streams} <=> x \in {drained[t] : t \in Streams}
        BY <2>1, <2>2
    <2>3. taken + 1 \in {drained'[t] : t \in Streams}
        BY <2>1
    <2>4. 1..taken' = (1..taken) \cup {taken + 1}
        BY <2>1
    <2> QED BY <2>1, <2>2, <2>3, <2>4 DEF Received
<1>2. ASSUME NEW s \in Streams, Enqueue(s)
      PROVE  Received' = Received
    <2>1. /\ \A t \in Streams : drained'[t] = IF t = s THEN 0 ELSE drained[t]
          /\ UNCHANGED taken
        BY <1>2 DEF Enqueue, CaptureOK
    <2>2. ASSUME NEW x \in 1..taken
          PROVE  x \in {drained'[t] : t \in Streams} \cup {drained[s]}
                   <=> x \in {drained[t] : t \in Streams}
        <3>1. x # 0
            BY <2>2
        <3> QED BY <2>1, <3>1
    <2>3. ToSet(queue') \cup discarded' = ToSet(queue) \cup discarded \cup {drained[s]}
        <3>1. CASE UNCHANGED queue /\ discarded' = discarded \cup {drained[s]}
            BY <3>1
        <3>2. CASE queue' = Append(queue, drained[s]) /\ UNCHANGED discarded
            <4>1. /\ Len(queue') = Len(queue) + 1 /\ Len(queue) \in Nat
                  /\ \A i \in 1..Len(queue) : queue'[i] = queue[i]
                  /\ queue'[Len(queue) + 1] = drained[s]
                  /\ DOMAIN queue' = 1..Len(queue') /\ DOMAIN queue = 1..Len(queue)
                BY <3>2 DEF CaptureOK, PlaceInv
            <4>2. ToSet(queue') = ToSet(queue) \cup {drained[s]}
                BY <4>1 DEF ToSet
            <4> QED BY <3>2, <4>2
        <3> QED BY <1>2, <3>1, <3>2 DEF Enqueue
    <2> QED BY <2>1, <2>2, <2>3 DEF Received
<1>3. ASSUME NEW s \in Streams, ClosePipe(s)
      PROVE  Received' = Received
    BY <1>3 DEF ClosePipe, Received
<1>4. CASE ReceiveChunk
    <2>1. /\ queue' = Tail(queue) /\ queue # <<>> /\ UNCHANGED <<taken, drained>>
          /\ discarded' = discarded \cup {Head(queue)}
        BY <1>4 DEF ReceiveChunk
    <2>2. ToSet(queue) = ToSet(Tail(queue)) \cup {Head(queue)}
        BY <2>1, HeadAndTail DEF CaptureOK
    <2> QED BY <2>1, <2>2 DEF Received
<1>5. CASE WriterError
    <2>1. /\ queue' = <<>> /\ discarded' = discarded \cup ToSet(queue)
          /\ UNCHANGED <<taken, drained>>
        BY <1>5 DEF WriterError, EndWriter
    <2>2. ToSet(<<>>) = {}
        BY DEF ToSet
    <2> QED BY <2>1, <2>2 DEF Received
<1>7. CASE UNCHANGED <<taken, drained, open, queue, discarded>>
    BY <1>7 DEF Received
<1> QED
    BY <1>1, <1>2, <1>3, <1>4, <1>5, <1>7
    DEF Next, Capture, WriterStep, ReaderStep, vars, captureVars, NotReader, Tick, QueueCloses,
        ChangePolicy, FinishFlush, FinishRename, FinishCompress, FinishPublish, FinishRemove,
        Finish, OpenSegment, ApplyRetention, ReadLogs, ListFiles, ReadFile, FileIsGone, EndOfPass,
        ClientLeaves

LEMMA ReceivedChunk ==
    ASSUME CaptureOK, PlaceInv, ReceiveChunk, HasSegment
    PROVE  /\ Received' = Received \cup {Head(queue)} /\ Head(queue) \in 1..MaxChunks
           /\ Cardinality(Received') = Cardinality(Received) + 1
<1>1. /\ queue' = Tail(queue) /\ queue # <<>> /\ UNCHANGED <<taken, drained, discarded>>
    BY DEF ReceiveChunk
<1>2. /\ Head(queue) = queue[1] /\ Len(queue) \in Nat \ {0} /\ Head(queue) \in 1..MaxChunks
      /\ Tail(queue) \in Seq(1..MaxChunks)
      /\ \A i \in 1..Len(Tail(queue)) : Tail(queue)[i] = queue[i + 1] /\ i + 1 \in 2..Len(queue)
      /\ ToSet(queue) = ToSet(Tail(queue)) \cup {Head(queue)}
    BY <1>1, HeadAndTail DEF CaptureOK
<1>3. /\ Head(queue) \in 1..taken /\ Head(queue) \notin discarded
      /\ Head(queue) \notin {drained[s] : s \in Streams}
    BY <1>2 DEF PlaceInv
<1>4. Head(queue) \notin ToSet(Tail(queue))
    <2>1. \A i \in 1..Len(Tail(queue)) : Tail(queue)[i] # queue[1]
        BY <1>2 DEF PlaceInv
    <2>2. DOMAIN Tail(queue) = 1..Len(Tail(queue))
        BY <1>2
    <2> QED BY <1>2, <2>1, <2>2 DEF ToSet
<1>5. Received' = Received \cup {Head(queue)} /\ Head(queue) \notin Received
    BY <1>1, <1>2, <1>3, <1>4 DEF Received
<1> QED BY <1>2, <1>5, ReceivedFinite, FS_AddElement

\* The number of chunks received never falls.
LEMMA ReceivedGrows ==
    ASSUME CaptureOK, PlaceInv, [Next]_vars
    PROVE  /\ Received \subseteq Received' /\ Cardinality(Received) <= Cardinality(Received')
           /\ Cardinality(Received') \in Nat
<1>1. CASE ReceiveChunk /\ HasSegment
    BY <1>1, ReceivedChunk, ReceivedFinite
<1>2. CASE SupervisorCrash
    <2>1. /\ queue' = <<>> /\ discarded' = discarded \cup ToSet(queue) /\ UNCHANGED taken
          /\ drained' = [s \in Streams |-> 0]
        BY <1>2 DEF SupervisorCrash
    <2>2. ToSet(<<>>) = {} /\ \A x \in 1..taken : x \notin {drained'[s] : s \in Streams}
        BY <2>1 DEF ToSet, CaptureOK
    <2>3. Received \subseteq Received'
        BY <2>1, <2>2 DEF Received
    <2>4. CaptureOK'
        BY CaptureStep
    <2>5. IsFiniteSet(Received')
        <3>1. Received' \subseteq 1..MaxChunks
            BY <2>4, LogAssumption DEF Received, CaptureOK
        <3>2. IsFiniteSet(1..MaxChunks)
            BY LogAssumption, FS_Interval
        <3> QED BY <3>1, <3>2, FS_Subset
    <2> QED BY <2>3, <2>5, FS_Subset, FS_CardinalityType
<1>3. CASE ~(ReceiveChunk /\ HasSegment) /\ ~SupervisorCrash
    <2>1. Received' = Received
        BY <1>3, ReceivedSame
    <2> QED BY <2>1, ReceivedFinite
<1> QED BY <1>1, <1>2, <1>3

-----------------------------------------------------------------------------
(* The writer's locals and the files. *)

\* The invariants that the writer's steps can disturb.
WriterAll ==
    /\ writer \in Writers /\ disk \in Disks
    /\ CountInv /\ WriterInv /\ EndInv /\ OpenInv /\ StoredInv /\ HeldInv

Places == Finishing \cup {"select", "retain", "open", "done", "ended"}
Callers == {"rotate", "resume", "reopen", "end"}

LEMMA NoSegmentYet == 0 \in Segments
BY LogAssumption DEF Segments

LEMMA WriterFacts ==
    ASSUME writer \in Writers, CaptureOK, CountsOK
    PROVE  /\ writer.at \in Places /\ writer.then \in Callers
           /\ writer.segment \in Segments /\ writer.segment \in Nat /\ writer.next \in Nat \ {0}
           /\ writer.entry \in 0..MaxChunks /\ writer.buffer \subseteq 1..MaxChunks
           /\ policies \in Nat /\ policies <= MaxPolicies
           /\ Cardinality(Received) \in Nat /\ Cardinality(Received) <= MaxChunks
<1>1. /\ writer.at \in Places /\ writer.then \in Callers /\ writer.segment \in Segments
      /\ writer.next \in 1..(MaxChunks + MaxPolicies + 2)
      /\ writer.entry \in 0..MaxChunks /\ writer.buffer \subseteq 1..MaxChunks
    BY DEF Writers, Places, Callers
<1>2. writer.segment \in Nat /\ writer.next \in Nat \ {0}
    BY <1>1, LogAssumption DEF Segments
<1>3. policies \in Nat /\ policies <= MaxPolicies
    BY LogAssumption DEF CountsOK
<1> QED BY <1>1, <1>2, <1>3, ReceivedFinite

\* What the writer becomes: its place, its caller, and its other locals.
Becomes(a, t, s, n, e, m, b) ==
    /\ writer'.at = a /\ writer'.then = t /\ writer'.segment = s /\ writer'.next = n
    /\ writer'.entry = e /\ (writer'.empty <=> m) /\ writer'.buffer = b

\* Records r are added to segment s.
Stores(s, r) ==
    /\ \A t \in Segments : t # s => disk'[t] = disk[t]
    /\ disk'[s].names = disk[s].names /\ disk'[s].records = disk[s].records \cup r

\* Segment s gets new names.
Renames(s, names) ==
    /\ \A t \in Segments : t # s => disk'[t] = disk[t]
    /\ disk'[s].names = names /\ disk'[s].records = disk[s].records

\* No record is taken out of a segment.
Grows == \A s \in Segments : disk[s].records \subseteq disk'[s].records

LEMMA StoresRecords ==
    ASSUME disk \in Disks, NEW s \in Segments, NEW r \in SUBSET (1..MaxChunks),
           disk' = [disk EXCEPT ![s].records = @ \cup r]
    PROVE  disk' \in Disks /\ Stores(s, r) /\ Grows
<1>1. 1..MaxChunks \subseteq 0..MaxChunks
    BY LogAssumption
<1>2. disk[s] \in [names : SUBSET Names, records : SUBSET (0..MaxChunks)]
    BY DEF Disks
<1>3. [disk[s] EXCEPT !.records = @ \cup r] \in
          [names : SUBSET Names, records : SUBSET (0..MaxChunks)]
    BY <1>1, <1>2
<1>4. /\ disk' = [disk EXCEPT ![s] = [disk[s] EXCEPT !.records = @ \cup r]]
      /\ disk'[s] = [disk[s] EXCEPT !.records = @ \cup r]
      /\ \A t \in Segments : t # s => disk'[t] = disk[t]
    BY DEF Disks
<1>5. disk' \in Disks
    BY <1>3, <1>4 DEF Disks
<1> QED BY <1>2, <1>4, <1>5 DEF Stores, Grows

LEMMA RenamesFiles ==
    ASSUME disk \in Disks, NEW s \in Segments, NEW names \in SUBSET Names,
           disk' = [disk EXCEPT ![s].names = names]
    PROVE  disk' \in Disks /\ Renames(s, names) /\ Grows
<1>2. disk[s] \in [names : SUBSET Names, records : SUBSET (0..MaxChunks)]
    BY DEF Disks
<1>3. [disk[s] EXCEPT !.names = names] \in [names : SUBSET Names, records : SUBSET (0..MaxChunks)]
    BY <1>2
<1>4. /\ disk'[s] = [disk[s] EXCEPT !.names = names]
      /\ \A t \in Segments : t # s => disk'[t] = disk[t]
    BY DEF Disks
<1>5. disk' \in Disks
    BY <1>3, <1>4 DEF Disks
<1> QED BY <1>2, <1>4, <1>5 DEF Renames, Grows

\* What is recorded in a segment that is kept is stored.
LEMMA StoresKeep ==
    ASSUME StoredInv, NEW s \in Segments, NEW r, Stores(s, r), s < writer.next,
           r = {} \/ disk[s].names \cap Complete # {} \/ s \in retired,
           writer'.next = writer.next, retired' = retired, writer.next \in Nat
    PROVE  StoredInv' /\ Recorded' = Recorded \cup r
<1>1. StoredInv'
    <2>1. ASSUME NEW t \in Segments
          PROVE  /\ \/ disk'[t].records = {} \/ disk'[t].names \cap Complete # {} \/ t \in retired'
                 /\ t >= writer'.next => disk'[t] = NoSegment
        <3>1. CASE t = s
            <4>1. ~(t >= writer'.next)
                BY <3>1, LogAssumption DEF Segments
            <4> QED BY <3>1, <4>1 DEF StoredInv, Stores
        <3>2. CASE t # s
            BY <3>2 DEF StoredInv, Stores
        <3> QED BY <3>1, <3>2
    <2> QED BY <2>1 DEF StoredInv
<1>2. Recorded' = Recorded \cup r
    BY DEF Recorded, Stores
<1> QED BY <1>1, <1>2

LEMMA RenamesKeep ==
    ASSUME StoredInv, NEW s \in Segments, NEW names, Renames(s, names), s < writer.next,
           names \cap Complete # {} \/ s \in retired,
           writer'.next = writer.next, retired' = retired, writer.next \in Nat
    PROVE  StoredInv' /\ Recorded' = Recorded
<1>1. StoredInv'
    <2>1. ASSUME NEW t \in Segments
          PROVE  /\ \/ disk'[t].records = {} \/ disk'[t].names \cap Complete # {} \/ t \in retired'
                 /\ t >= writer'.next => disk'[t] = NoSegment
        <3>1. CASE t = s
            <4>1. ~(t >= writer'.next)
                BY <3>1, LogAssumption DEF Segments
            <4> QED BY <3>1, <4>1 DEF StoredInv, Renames
        <3>2. CASE t # s
            BY <3>2 DEF StoredInv, Renames
        <3> QED BY <3>1, <3>2
    <2> QED BY <2>1 DEF StoredInv
<1>2. Recorded' = Recorded
    BY DEF Recorded, Renames
<1> QED BY <1>1, <1>2

-----------------------------------------------------------------------------
(* The steps of finish. *)

LEMMA FinishFlushStep ==
    ASSUME CaptureOK, CountsOK, PlaceInv, WriterAll, FinishFlush
    PROVE  WriterAll' /\ Grows
<1>1. /\ writer' = [writer EXCEPT !.at = "close", !.buffer = {}] /\ writer.at = "flush"
      /\ disk' = [disk EXCEPT ![writer.segment].records = @ \cup writer.buffer]
      /\ UNCHANGED <<taken, drained, open, queue, discarded, retired, policies>>
    BY DEF FinishFlush, captureVars, NotWriter
<1>2. writer' \in Writers
    <2>1. writer \in Writers
        BY DEF WriterAll
    <2>2. "close" \in Places
        BY DEF Places, Finishing
    <2>3. [writer EXCEPT !.at = "close", !.buffer = {}] \in Writers
        BY <2>1, <2>2 DEF Writers, Places
    <2> QED BY <1>1, <2>3
<1> USE WriterFacts DEF WriterAll
<1>3. Becomes("close", writer.then, writer.segment, writer.next, writer.entry, writer.empty, {})
    BY <1>1 DEF Writers, Becomes
<1>4. disk' \in Disks /\ Stores(writer.segment, writer.buffer) /\ Grows
    BY <1>1, StoresRecords
<1>5. Received' = Received
    BY <1>1 DEF Received
<1>6. CountInv'
    BY <1>1, <1>3, <1>5 DEF CountInv, Due, Becomes, Finishing
<1>7. WriterInv'
    BY <1>1, <1>3 DEF WriterInv, Becomes, Finishing
<1>8. EndInv'
    BY <1>1, <1>3 DEF EndInv, Becomes, Finishing, Closed
<1>9. OpenInv'
    BY <1>1, <1>3, <1>4 DEF OpenInv, Becomes, Stores
<1>10. StoredInv' /\ Recorded' = Recorded \cup writer.buffer
    <2>1. writer.segment < writer.next
        BY <1>1 DEF WriterInv
    <2>2. \/ writer.buffer = {} \/ disk[writer.segment].names \cap Complete # {}
          \/ writer.segment \in retired
        BY <1>1 DEF WriterInv, OpenInv, Complete, Finishing
    <2> QED BY <1>1, <1>3, <1>4, <2>1, <2>2, StoresKeep DEF Becomes
<1>11. HeldInv'
    BY <1>1, <1>3, <1>5, <1>10 DEF HeldInv, Becomes
<1> QED BY <1>2, <1>4, <1>6, <1>7, <1>8, <1>9, <1>10, <1>11

\* A step of finish that changes the names of the segment keeps a complete file.
LEMMA FinishNames ==
    ASSUME CaptureOK, CountsOK, PlaceInv, WriterAll,
           NEW here \in Finishing, NEW there \in Finishing,
           NEW gain \in SUBSET Names, NEW lose \in SUBSET Names,
           here # "flush", there # "flush", there # "close", Finish(here, there, gain, lose),
           ((disk[writer.segment].names \cup gain) \ lose) \cap Complete # {},
           there \in {"compress", "publish"} =>
               "final" \in (disk[writer.segment].names \cup gain) \ lose,
           there = "remove" => "zst" \in (disk[writer.segment].names \cup gain) \ lose
    PROVE  WriterAll' /\ Grows
<1> DEFINE names == (disk[writer.segment].names \cup gain) \ lose
<1>1. /\ writer' = [writer EXCEPT !.at = there] /\ writer.at = here
      /\ disk' = [disk EXCEPT ![writer.segment].names = (@ \cup gain) \ lose]
      /\ UNCHANGED <<taken, drained, open, queue, discarded, retired, policies>>
    BY DEF Finish, captureVars, NotWriter
<1>2. writer' \in Writers
    <2>1. writer \in Writers
        BY DEF WriterAll
    <2>2. [writer EXCEPT !.at = there] \in Writers
        BY <2>1 DEF Writers
    <2> QED BY <1>1, <2>2
<1> USE WriterFacts DEF WriterAll
<1>3. Becomes(there, writer.then, writer.segment, writer.next, writer.entry, writer.empty,
              writer.buffer)
    BY <1>1 DEF Writers, Becomes
<1>4. disk' \in Disks /\ Renames(writer.segment, names) /\ Grows
    <2>1. names \in SUBSET Names
        BY DEF Disks
    <2>2. disk' = [disk EXCEPT ![writer.segment].names = names]
        BY <1>1 DEF Disks
    <2> HIDE DEF names
    <2> QED BY <2>1, <2>2, RenamesFiles
<1>5. Received' = Received
    BY <1>1 DEF Received
<1>6. CountInv'
    BY <1>1, <1>3, <1>5 DEF CountInv, Due, Becomes, Finishing
<1>7. WriterInv'
    BY <1>1, <1>3 DEF WriterInv, Becomes, Finishing
<1>8. EndInv'
    BY <1>1, <1>3 DEF EndInv, Becomes, Finishing, Closed
<1>9. OpenInv'
    BY <1>1, <1>3, <1>4 DEF OpenInv, Becomes, Renames, Finishing
<1>10. StoredInv' /\ Recorded' = Recorded
    <2>1. writer.segment < writer.next
        BY <1>1 DEF WriterInv, Finishing
    <2> HIDE DEF names
    <2>2. names \cap Complete # {}
        BY DEF names
    <2> QED BY <1>1, <1>3, <1>4, <2>1, <2>2, RenamesKeep DEF Becomes
<1>11. HeldInv'
    BY <1>1, <1>3, <1>5, <1>10 DEF HeldInv, Becomes, Finishing
<1> QED BY <1>2, <1>4, <1>6, <1>7, <1>8, <1>9, <1>10, <1>11

LEMMA FinishNamesStep ==
    ASSUME CaptureOK, CountsOK, PlaceInv, WriterAll,
           FinishRename \/ FinishCompress \/ FinishPublish
    PROVE  WriterAll' /\ Grows
<1> USE WriterFacts DEF WriterAll
<1>0. /\ {"close", "compress", "publish", "remove"} \subseteq Finishing
      /\ {"open", "final", "tmp", "zst"} \subseteq Names
    BY DEF Finishing, Names
<1>1. CASE FinishRename
    <2>1. Finish("close", "compress", {"final"}, {"open"})
        BY <1>1 DEF FinishRename
    <2>2. "final" \in (disk[writer.segment].names \cup {"final"}) \ {"open"}
        OBVIOUS
    <2> QED BY <1>0, <2>1, <2>2, FinishNames DEF Complete
<1>2. CASE FinishCompress
    <2>1. Finish("compress", "publish", {"tmp"}, {}) /\ writer.at = "compress"
        BY <1>2 DEF FinishCompress, Finish
    <2>2. "final" \in (disk[writer.segment].names \cup {"tmp"}) \ {}
        BY <2>1 DEF WriterInv, OpenInv, Finishing
    <2>3. ((disk[writer.segment].names \cup {"tmp"}) \ {}) \cap Complete # {}
        BY <2>2 DEF Complete
    <2>4. {"tmp"} \in SUBSET Names /\ {} \in SUBSET Names
        BY <1>0
    <2> QED BY <1>0, <2>1, <2>2, <2>3, <2>4, FinishNames
<1>3. CASE FinishPublish
    <2>1. Finish("publish", "remove", {"zst"}, {"tmp"}) /\ writer.at = "publish"
        BY <1>3 DEF FinishPublish, Finish
    <2>2. "zst" \in (disk[writer.segment].names \cup {"zst"}) \ {"tmp"}
        OBVIOUS
    <2> QED BY <1>0, <2>1, <2>2, FinishNames DEF Complete
<1> QED BY <1>1, <1>2, <1>3

LEMMA FinishRemoveStep ==
    ASSUME CaptureOK, CountsOK, PlaceInv, WriterAll, FinishRemove
    PROVE  WriterAll' /\ Grows
<1> DEFINE names == disk[writer.segment].names \ {"final"}
           a == CASE writer.then \in {"rotate", "end"} -> "retain"
                  [] writer.then = "reopen" -> "open"
                  [] writer.then = "resume" -> "select"
<1>1. /\ writer' = [writer EXCEPT !.segment = 0, !.empty = TRUE, !.at = a]
      /\ writer.at = "remove"
      /\ disk' = [disk EXCEPT ![writer.segment].names = @ \ {"final"}]
      /\ UNCHANGED <<taken, drained, open, queue, discarded, retired, policies>>
    BY DEF FinishRemove, captureVars, NotWriter
<1>2. /\ writer.then \in {"rotate", "end"} => a = "retain"
      /\ writer.then = "reopen" => a = "open"
      /\ writer.then = "resume" => a = "select"
    BY WriterFacts DEF WriterAll, Callers
<1> HIDE DEF a
<1>3. writer' \in Writers
    <2>1. writer \in Writers /\ a \in Places
        BY <1>2, WriterFacts DEF WriterAll, Callers, Places
    <2>2. [writer EXCEPT !.segment = 0, !.empty = TRUE, !.at = a] \in Writers
        BY <2>1, NoSegmentYet DEF Writers, Places
    <2> QED BY <1>1, <2>2
<1> USE WriterFacts DEF WriterAll
<1>4. Becomes(a, writer.then, 0, writer.next, writer.entry, TRUE, writer.buffer)
    BY <1>1 DEF Writers, Becomes
<1>5. disk' \in Disks /\ Renames(writer.segment, names) /\ Grows
    <2>1. names \in SUBSET Names
        BY DEF Disks
    <2>2. disk' = [disk EXCEPT ![writer.segment].names = names]
        BY <1>1 DEF Disks
    <2> HIDE DEF names
    <2> QED BY <2>1, <2>2, RenamesFiles
<1>6. Received' = Received
    BY <1>1 DEF Received
<1>7. CountInv'
    BY <1>1, <1>2, <1>4, <1>6 DEF CountInv, Due, Becomes, Finishing, Callers
<1>8. WriterInv'
    BY <1>1, <1>2, <1>4 DEF WriterInv, Becomes, Finishing, Callers
<1>9. EndInv'
    BY <1>1, <1>2, <1>4 DEF EndInv, Becomes, Finishing, Closed, Callers
<1>10. OpenInv'
    BY <1>4 DEF OpenInv, Becomes
<1>11. StoredInv' /\ Recorded' = Recorded
    <2>1. writer.segment < writer.next
        BY <1>1 DEF WriterInv
    <2>2. names \cap Complete # {}
        BY <1>1 DEF OpenInv, WriterInv, Finishing, Complete
    <2> HIDE DEF names
    <2> QED BY <1>1, <1>4, <1>5, <2>1, <2>2, RenamesKeep DEF Becomes
<1>12. HeldInv'
    BY <1>1, <1>4, <1>6, <1>11 DEF HeldInv, Becomes
<1> QED BY <1>3, <1>5, <1>7, <1>8, <1>9, <1>10, <1>11, <1>12

-----------------------------------------------------------------------------
(* The steps of run_writer around finish. *)

\* A step that leaves the writer and the files alone.
LEMMA WriterIdle ==
    ASSUME WriterAll, UNCHANGED <<writer, disk, retired, policies>>, Received' = Received,
           Closed => Closed'
    PROVE  WriterAll' /\ Grows
<1>1. CountInv'
    BY DEF WriterAll, CountInv, Due
<1>2. WriterInv' /\ EndInv' /\ OpenInv' /\ StoredInv'
    BY DEF WriterAll, WriterInv, EndInv, OpenInv, StoredInv
<1>3. HeldInv'
    BY DEF WriterAll, HeldInv, Recorded
<1> QED BY <1>1, <1>2, <1>3 DEF WriterAll, Grows

LEMMA TickStep ==
    ASSUME CaptureOK, CountsOK, PlaceInv, WriterAll, Tick
    PROVE  WriterAll' /\ Grows
<1>1. /\ writer.at = "select" /\ writer.segment # 0
      /\ \/ writer' = [writer EXCEPT !.buffer = {}]
         \/ /\ ~writer.empty
            /\ writer' = [writer EXCEPT !.buffer = {}, !.at = "flush", !.then = "rotate"]
      /\ disk' = [disk EXCEPT ![writer.segment].records = @ \cup writer.buffer]
      /\ UNCHANGED <<taken, drained, open, queue, discarded, retired, policies>>
    BY DEF Tick, captureVars, NotWriter, Selecting, HasSegment, ShouldRotate
<1>2. writer' \in Writers
    <2>1. writer \in Writers
        BY DEF WriterAll
    <2>2. /\ [writer EXCEPT !.buffer = {}] \in Writers
          /\ [writer EXCEPT !.buffer = {}, !.at = "flush", !.then = "rotate"] \in Writers
        BY <2>1 DEF Writers, Finishing
    <2> QED BY <1>1, <2>2
<1> USE WriterFacts DEF WriterAll
<1>3. \/ Becomes("select", writer.then, writer.segment, writer.next, writer.entry,
                 writer.empty, {})
      \/ /\ ~writer.empty
         /\ Becomes("flush", "rotate", writer.segment, writer.next, writer.entry,
                    writer.empty, {})
    BY <1>1 DEF Writers, Becomes
<1>4. disk' \in Disks /\ Stores(writer.segment, writer.buffer) /\ Grows
    BY <1>1, StoresRecords
<1>5. Received' = Received
    BY <1>1 DEF Received
<1>6. CountInv'
    BY <1>1, <1>3, <1>5 DEF CountInv, Due, Becomes, Finishing
<1>7. WriterInv'
    BY <1>1, <1>3 DEF WriterInv, Becomes, Finishing
<1>8. EndInv'
    BY <1>1, <1>3 DEF EndInv, Becomes, Finishing, Closed
<1>9. OpenInv'
    BY <1>1, <1>3, <1>4 DEF OpenInv, Becomes, Stores
<1>10. StoredInv' /\ Recorded' = Recorded \cup writer.buffer
    <2>1. writer.segment < writer.next
        BY <1>1 DEF WriterInv
    <2>2. disk[writer.segment].names \cap Complete # {} \/ writer.segment \in retired
        BY <1>1 DEF OpenInv, Complete
    <2>3. writer'.next = writer.next
        BY <1>3 DEF Becomes
    <2> QED BY <1>1, <1>4, <2>1, <2>2, <2>3, StoresKeep
<1>11. HeldInv'
    BY <1>1, <1>3, <1>5, <1>10 DEF HeldInv, Becomes
<1> QED BY <1>2, <1>4, <1>6, <1>7, <1>8, <1>9, <1>10, <1>11

LEMMA QueueClosesStep ==
    ASSUME CaptureOK, CountsOK, PlaceInv, WriterAll, QueueCloses
    PROVE  WriterAll' /\ Grows
<1>1. /\ writer.at = "select" /\ Closed /\ UNCHANGED disk
      /\ \/ writer.segment # 0 /\ writer' = [writer EXCEPT !.at = "flush", !.then = "end"]
         \/ writer.segment = 0 /\ writer' = [writer EXCEPT !.at = "done"]
      /\ UNCHANGED <<taken, drained, open, queue, discarded, retired, policies>>
    BY DEF QueueCloses, captureVars, NotWriter, Selecting, HasSegment, Closed
<1>2. writer' \in Writers
    <2>1. writer \in Writers
        BY DEF WriterAll
    <2>2. /\ [writer EXCEPT !.at = "flush", !.then = "end"] \in Writers
          /\ [writer EXCEPT !.at = "done"] \in Writers
        BY <2>1 DEF Writers, Finishing
    <2> QED BY <1>1, <2>2
<1> USE WriterFacts DEF WriterAll
<1>3. \/ /\ writer.segment # 0
         /\ Becomes("flush", "end", writer.segment, writer.next, writer.entry, writer.empty,
                    writer.buffer)
      \/ /\ writer.segment = 0
         /\ Becomes("done", writer.then, writer.segment, writer.next, writer.entry,
                    writer.empty, writer.buffer)
    BY <1>1 DEF Writers, Becomes
<1>4. Received' = Received
    BY <1>1 DEF Received
<1>5. CountInv'
    BY <1>1, <1>3, <1>4 DEF CountInv, Due, Becomes, Finishing
<1>6. WriterInv'
    BY <1>1, <1>3 DEF WriterInv, Becomes, Finishing
<1>7. EndInv'
    BY <1>1, <1>3 DEF EndInv, Becomes, Finishing, Closed
<1>8. OpenInv'
    BY <1>1, <1>3 DEF OpenInv, Becomes
<1>9. StoredInv'
    BY <1>1, <1>3 DEF StoredInv, Becomes
<1>10. HeldInv'
    BY <1>1, <1>3, <1>4 DEF HeldInv, Becomes, Recorded
<1> QED BY <1>1, <1>2, <1>5, <1>6, <1>7, <1>8, <1>9, <1>10 DEF Grows

LEMMA ChangePolicyStep ==
    ASSUME CaptureOK, CountsOK, PlaceInv, WriterAll, ChangePolicy
    PROVE  WriterAll' /\ Grows
<1> DEFINE w(c) == [writer EXCEPT !.capture = c]
<1>1. /\ writer.at = "select" /\ UNCHANGED disk /\ policies' = policies + 1
      /\ UNCHANGED <<taken, drained, open, queue, discarded, retired>>
    BY DEF ChangePolicy, captureVars, Selecting
<1>a. PICK c \in BOOLEAN :
        writer' \in
          IF ~c /\ HasSegment THEN {[w(c) EXCEPT !.at = "flush", !.then = "resume"]}
          ELSE IF c /\ ~HasSegment THEN {[w(c) EXCEPT !.at = "open", !.then = "reopen"]}
          ELSE IF c
               THEN {[w(c) EXCEPT !.at = "retain", !.then = "resume"]} \cup
                    (IF ShouldRotate THEN {[w(c) EXCEPT !.at = "flush", !.then = "reopen"]} ELSE {})
               ELSE {w(c)}
    BY Zenon DEF ChangePolicy
<1> HIDE DEF w
<1>2. \/ writer.segment # 0 /\ writer' = [w(c) EXCEPT !.at = "flush", !.then = "resume"]
      \/ writer.segment = 0 /\ writer' = [w(c) EXCEPT !.at = "open", !.then = "reopen"]
      \/ writer.segment # 0 /\ writer' = [w(c) EXCEPT !.at = "retain", !.then = "resume"]
      \/ writer.segment # 0 /\ writer' = [w(c) EXCEPT !.at = "flush", !.then = "reopen"]
      \/ writer' = w(c)
    <2>1. CASE ~c /\ HasSegment
        BY <1>a, <2>1 DEF HasSegment
    <2>2. CASE c /\ ~HasSegment
        BY <1>a, <2>2 DEF HasSegment
    <2>3. CASE c /\ HasSegment
        BY <1>a, <2>3 DEF HasSegment
    <2>4. CASE ~c /\ ~HasSegment
        BY <1>a, <2>4
    <2> QED BY <2>1, <2>2, <2>3, <2>4
<1> USE DEF w
<1>3. writer' \in Writers
    <2>1. writer \in Writers
        BY DEF WriterAll
    <2>2. w(c) \in Writers
        BY <2>1 DEF Writers
    <2> HIDE DEF w
    <2>3. /\ [w(c) EXCEPT !.at = "flush", !.then = "resume"] \in Writers
          /\ [w(c) EXCEPT !.at = "open", !.then = "reopen"] \in Writers
          /\ [w(c) EXCEPT !.at = "retain", !.then = "resume"] \in Writers
          /\ [w(c) EXCEPT !.at = "flush", !.then = "reopen"] \in Writers
        BY <2>2 DEF Writers, Finishing
    <2> QED BY <1>2, <2>2, <2>3
<1> DEFINE Goes(a, t) == Becomes(a, t, writer.segment, writer.next, writer.entry, writer.empty,
                                 writer.buffer)
<1>4. \/ writer.segment # 0 /\ Goes("flush", "resume")
      \/ writer.segment = 0 /\ Goes("open", "reopen")
      \/ writer.segment # 0 /\ Goes("retain", "resume")
      \/ writer.segment # 0 /\ Goes("flush", "reopen")
      \/ Goes("select", writer.then)
    <2>1. writer \in Writers
        BY DEF WriterAll
    <2> QED BY <1>1, <1>2, <2>1 DEF Writers, Becomes
<1> USE WriterFacts DEF WriterAll
<1>5. Received' = Received
    BY <1>1 DEF Received
<1>6. writer.entry = 0
    BY <1>1 DEF WriterInv, Finishing
<1>7. CountInv'
    BY <1>1, <1>4, <1>5, <1>6 DEF CountInv, Becomes
<1>8. WriterInv'
    BY <1>1, <1>4, <1>6 DEF WriterInv, Becomes, Finishing
<1>9. EndInv'
    BY <1>1, <1>4 DEF EndInv, Becomes, Finishing, Closed
<1>10. OpenInv'
    BY <1>1, <1>4 DEF OpenInv, Becomes
<1>11. StoredInv'
    BY <1>1, <1>4 DEF StoredInv, Becomes
<1>12. HeldInv'
    BY <1>1, <1>4, <1>5 DEF HeldInv, Becomes, Recorded
<1> QED BY <1>1, <1>3, <1>7, <1>8, <1>9, <1>10, <1>11, <1>12 DEF Grows

LEMMA ReceiveChunkStep ==
    ASSUME CaptureOK, CountsOK, PlaceInv, WriterAll, ReceiveChunk, HasSegment
    PROVE  WriterAll' /\ Grows
<1> DEFINE n == Head(queue)
<1>1. /\ writer.at = "select" /\ writer.segment # 0 /\ queue # <<>>
      /\ UNCHANGED <<retired, policies>>
      /\ \/ writer' = [writer EXCEPT !.buffer = @ \cup {n}, !.empty = FALSE] /\ disk' = disk
         \/ /\ writer' = [writer EXCEPT !.buffer = {}, !.empty = FALSE]
            /\ disk' = [disk EXCEPT ![writer.segment].records = @ \cup writer.buffer \cup {n}]
         \/ /\ ~writer.empty /\ disk' = disk
            /\ writer' = [writer EXCEPT !.at = "flush", !.then = "rotate", !.entry = n]
    BY DEF ReceiveChunk, NotWriter, Selecting, HasSegment, ShouldRotate, Write
<1>2. /\ Received' = Received \cup {n} /\ n \in 1..MaxChunks
      /\ Cardinality(Received') = Cardinality(Received) + 1
    BY ReceivedChunk
<1> HIDE DEF n
<1>3. writer' \in Writers
    <2>1. writer \in Writers
        BY DEF WriterAll
    <2>2. n \in 0..MaxChunks
        BY <1>2
    <2>3. [writer EXCEPT !.buffer = @ \cup {n}, !.empty = FALSE] \in Writers
        BY <1>2, <2>1 DEF Writers
    <2>4. [writer EXCEPT !.buffer = {}, !.empty = FALSE] \in Writers
        BY <2>1 DEF Writers
    <2>5. [writer EXCEPT !.at = "flush", !.then = "rotate", !.entry = n] \in Writers
        BY <2>1, <2>2 DEF Writers, Finishing
    <2> QED BY <1>1, <2>3, <2>4, <2>5
<1> USE WriterFacts DEF WriterAll
<1> DEFINE s == writer.segment
           Buffers == Becomes("select", writer.then, s, writer.next, writer.entry, FALSE,
                              writer.buffer \cup {n})
           Spills == Becomes("select", writer.then, s, writer.next, writer.entry, FALSE, {})
           Rotates == Becomes("flush", "rotate", s, writer.next, n, FALSE, writer.buffer)
<1>4. \/ Buffers /\ disk' = disk
      \/ Spills /\ disk' = [disk EXCEPT ![s].records = @ \cup (writer.buffer \cup {n})]
      \/ Rotates /\ disk' = disk /\ ~writer.empty
    <2>1. CASE writer' = [writer EXCEPT !.buffer = @ \cup {n}, !.empty = FALSE] /\ disk' = disk
        BY <1>1, <2>1 DEF Writers, Becomes
    <2>2. CASE /\ writer' = [writer EXCEPT !.buffer = {}, !.empty = FALSE]
               /\ disk' = [disk EXCEPT ![s].records = @ \cup writer.buffer \cup {n}]
        <3>1. Spills
            BY <1>1, <2>2 DEF Writers, Becomes
        <3>2. disk[s].records \cup writer.buffer \cup {n} =
                  disk[s].records \cup (writer.buffer \cup {n})
            OBVIOUS
        <3>3. disk' = [disk EXCEPT ![s].records = @ \cup (writer.buffer \cup {n})]
            BY <2>2, <3>2 DEF Disks
        <3> QED BY <3>1, <3>3
    <2>3. CASE /\ ~writer.empty /\ disk' = disk
               /\ writer' = [writer EXCEPT !.at = "flush", !.then = "rotate", !.entry = n]
        BY <1>1, <2>3 DEF Writers, Becomes
    <2> QED BY <1>1, <2>1, <2>2, <2>3
<1>5. writer.entry = 0 /\ writer.then # "end" /\ writer.segment < writer.next /\ n # 0
    BY <1>1, <1>2 DEF WriterInv, EndInv, Finishing
<1>6. CountInv'
    BY <1>1, <1>2, <1>4, <1>5 DEF CountInv, Due, Becomes, Finishing
<1>7. WriterInv'
    BY <1>1, <1>4, <1>5 DEF WriterInv, Becomes, Finishing
<1>8. EndInv'
    BY <1>1, <1>4, <1>5 DEF EndInv, Becomes
<1>9. CASE (Buffers \/ Rotates) /\ disk' = disk
    <2>1. OpenInv'
        BY <1>1, <1>4, <1>9 DEF OpenInv, Becomes
    <2>2. StoredInv'
        BY <1>1, <1>4, <1>9 DEF StoredInv, Becomes
    <2>3. HeldInv'
        <3>1. Recorded' = Recorded
            BY <1>9 DEF Recorded
        <3> QED BY <1>1, <1>2, <1>5, <1>9, <3>1, ReceivedFinite DEF HeldInv, Becomes
    <2> QED BY <1>3, <1>6, <1>7, <1>8, <1>9, <2>1, <2>2, <2>3 DEF Grows
<1>10. CASE Spills /\ disk' = [disk EXCEPT ![s].records = @ \cup (writer.buffer \cup {n})]
    <2>1. writer.buffer \cup {n} \in SUBSET (1..MaxChunks)
        BY <1>2
    <2>2. disk' \in Disks /\ Stores(s, writer.buffer \cup {n}) /\ Grows
        BY <1>10, <2>1, StoresRecords
    <2>3. OpenInv'
        BY <1>1, <1>10, <2>2 DEF OpenInv, Becomes, Stores
    <2>4. StoredInv' /\ Recorded' = Recorded \cup (writer.buffer \cup {n})
        <3>1. disk[s].names \cap Complete # {} \/ s \in retired
            BY <1>1 DEF OpenInv, Complete
        <3>2. writer'.next = writer.next
            BY <1>10 DEF Becomes
        <3> QED BY <1>1, <1>5, <2>2, <3>1, <3>2, StoresKeep
    <2>5. HeldInv'
        BY <1>1, <1>2, <1>5, <1>10, <2>4, ReceivedFinite DEF HeldInv, Becomes
    <2> QED BY <1>3, <1>6, <1>7, <1>8, <2>2, <2>3, <2>4, <2>5
<1> QED BY <1>4, <1>9, <1>10

LEMMA OpenSegmentStep ==
    ASSUME CaptureOK, CountsOK, PlaceInv, WriterAll, OpenSegment
    PROVE  WriterAll' /\ Grows
<1> DEFINE a == IF writer.then = "reopen" THEN "retain" ELSE "select"
           w == [writer EXCEPT !.segment = writer.next, !.next = @ + 1, !.entry = 0,
                               !.at = a, !.then = "resume"]
           fresh == [names |-> {"open"}, records |-> {}]
           d == [disk EXCEPT ![writer.next] = fresh]
           x == writer.entry
<1>1. /\ writer.at = "open"
      /\ UNCHANGED <<taken, drained, open, queue, discarded, retired, policies>>
      /\ \/ x = 0 /\ writer' = w /\ disk' = d
         \/ /\ x # 0 /\ writer' = [w EXCEPT !.buffer = @ \cup {x}, !.empty = FALSE]
            /\ disk' = d
         \/ /\ x # 0 /\ writer' = [w EXCEPT !.buffer = {}, !.empty = FALSE]
            /\ disk' = [d EXCEPT ![w.segment].records = @ \cup w.buffer \cup {x}]
    BY DEF OpenSegment, Write, captureVars, NotWriter
<1>2. /\ writer.segment = 0 /\ writer.buffer = {} /\ writer.empty
      /\ x # 0 => writer.then = "rotate"
    BY <1>1 DEF WriterAll, WriterInv
<1>3. /\ writer.next <= 1 + Cardinality(Received) + policies
      /\ x # 0 => writer.next <= Cardinality(Received) + policies
    BY <1>1 DEF WriterAll, CountInv, Due
<1>4. /\ writer.next \in Segments /\ writer.next # 0
      /\ writer.next + 1 \in 1..(MaxChunks + MaxPolicies + 2)
    BY <1>3, WriterFacts, LogAssumption DEF WriterAll, Segments
<1>5. a \in {"retain", "select"}
    OBVIOUS
<1>6. x \in 0..MaxChunks
    BY WriterFacts DEF WriterAll
<1>7. writer \in Writers
    BY DEF WriterAll
<1> HIDE DEF a, x
<1>8. w \in Writers
    <2>1. 0 \in 0..MaxChunks
        BY LogAssumption
    <2>2. [writer EXCEPT !.segment = writer.next, !.next = writer.next + 1, !.entry = 0,
                         !.at = a, !.then = "resume"] \in Writers
        BY <1>4, <1>5, <1>7, <2>1 DEF Writers
    <2> QED BY <2>2
<1>9. /\ w.at = a /\ w.then = "resume" /\ w.segment = writer.next /\ w.next = writer.next + 1
      /\ w.entry = 0 /\ w.buffer = writer.buffer /\ (w.empty <=> writer.empty)
    BY <1>7 DEF Writers
<1>10. /\ d \in Disks /\ d[writer.next] = fresh
       /\ \A t \in Segments : t # writer.next => d[t] = disk[t]
    <2>1. fresh \in [names : SUBSET Names, records : SUBSET (0..MaxChunks)]
        BY DEF Names
    <2>2. disk \in Disks
        BY DEF WriterAll
    <2> HIDE DEF fresh
    <2> QED BY <1>4, <2>1, <2>2 DEF Disks
<1>a. d[writer.next].names = {"open"} /\ d[writer.next].records = {}
    BY <1>10
<1> HIDE DEF w, d, fresh
<1> DEFINE Opens(m, b, r) ==
              /\ Becomes(a, "resume", writer.next, writer.next + 1, 0, m, b)
              /\ \A t \in Segments : t # writer.next => disk'[t] = disk[t]
              /\ disk'[writer.next].names = {"open"} /\ disk'[writer.next].records = r
<1>11. /\ writer' \in Writers /\ disk' \in Disks
       /\ \/ x = 0 /\ Opens(TRUE, {}, {})
          \/ x # 0 /\ Opens(FALSE, {x}, {})
          \/ x # 0 /\ Opens(FALSE, {}, {x})
    <2>1. CASE x = 0 /\ writer' = w /\ disk' = d
        BY <1>2, <1>8, <1>9, <1>10, <1>a, <2>1 DEF Becomes
    <2>2. ASSUME x # 0
          PROVE  /\ [w EXCEPT !.buffer = @ \cup {x}, !.empty = FALSE] \in Writers
                 /\ [w EXCEPT !.buffer = {}, !.empty = FALSE] \in Writers
        <3>1. x \in 1..MaxChunks
            BY <1>6, <2>2
        <3> QED BY <1>8, <3>1 DEF Writers
    <2>3. CASE x # 0 /\ writer' = [w EXCEPT !.buffer = @ \cup {x}, !.empty = FALSE] /\ disk' = d
        <3>1. Becomes(a, "resume", writer.next, writer.next + 1, 0, FALSE, {x})
            BY <1>2, <1>8, <1>9, <2>3 DEF Becomes, Writers
        <3>2. writer' \in Writers
            BY <2>2, <2>3
        <3> QED BY <1>10, <1>a, <2>3, <3>1, <3>2
    <2>4. CASE /\ x # 0 /\ writer' = [w EXCEPT !.buffer = {}, !.empty = FALSE]
               /\ disk' = [d EXCEPT ![w.segment].records = @ \cup w.buffer \cup {x}]
        <3>1. Becomes(a, "resume", writer.next, writer.next + 1, 0, FALSE, {})
            BY <1>2, <1>8, <1>9, <2>4 DEF Becomes, Writers
        <3>2. writer' \in Writers
            BY <2>2, <2>4
        <3>3. x \in 0..MaxChunks /\ w.segment = writer.next /\ w.buffer = {}
            BY <1>2, <1>6, <1>9
        <3>4. /\ disk'[writer.next] = [d[writer.next] EXCEPT !.records = @ \cup w.buffer \cup {x}]
              /\ \A t \in Segments : t # writer.next => disk'[t] = d[t]
            BY <1>4, <1>10, <2>4, <3>3 DEF Disks
        <3>5. /\ disk'[writer.next] \in [names : SUBSET Names, records : SUBSET (0..MaxChunks)]
              /\ disk'[writer.next].names = {"open"} /\ disk'[writer.next].records = {x}
            <4>1. d[writer.next] \in [names : SUBSET Names, records : SUBSET (0..MaxChunks)]
                BY <1>4, <1>10 DEF Disks
            <4>2. [d[writer.next] EXCEPT !.records = @ \cup {} \cup {x}] \in
                      [names : SUBSET Names, records : SUBSET (0..MaxChunks)]
                BY <3>3, <4>1
            <4>3. /\ disk'[writer.next].names = d[writer.next].names
                  /\ disk'[writer.next].records = d[writer.next].records \cup {} \cup {x}
                BY <3>3, <3>4, <4>1
            <4> QED BY <1>a, <3>3, <3>4, <4>2, <4>3
        <3>6. disk' \in Disks
            BY <1>4, <1>10, <2>4, <3>3, <3>4, <3>5 DEF Disks
        <3> QED BY <1>10, <2>4, <3>1, <3>2, <3>4, <3>5, <3>6
    <2> QED BY <1>1, <2>1, <2>3, <2>4
<1>b. /\ \A t \in Segments : t # writer.next => disk'[t] = disk[t]
      /\ disk'[writer.next].names = {"open"} /\ writer'.next = writer.next + 1
    BY <1>11 DEF Becomes
<1>12. Received' = Received
    BY <1>1 DEF Received
<1> USE WriterFacts DEF WriterAll
<1>13. CountInv'
    BY <1>1, <1>3, <1>5, <1>11, <1>12 DEF CountInv, Due, Becomes, Finishing
<1>14. WriterInv'
    BY <1>4, <1>5, <1>11 DEF WriterInv, Becomes, Finishing
<1>15. EndInv'
    BY <1>5, <1>11 DEF EndInv, Becomes
<1>16. OpenInv'
    BY <1>5, <1>11 DEF OpenInv, Becomes
<1>17. StoredInv'
    <2>1. ASSUME NEW t \in Segments
          PROVE  /\ \/ disk'[t].records = {} \/ disk'[t].names \cap Complete # {} \/ t \in retired'
                 /\ t >= writer'.next => disk'[t] = NoSegment
        <3>1. writer'.next = writer.next + 1 /\ t \in Nat
            BY <1>b, LogAssumption DEF Segments
        <3>2. CASE t = writer.next
            BY <1>b, <3>1, <3>2 DEF Complete
        <3>3. CASE t # writer.next
            BY <1>1, <1>b, <3>1, <3>3 DEF StoredInv
        <3> QED BY <3>2, <3>3
    <2> QED BY <2>1 DEF StoredInv
<1>18. HeldInv'
    <2>1. disk[writer.next].records = {}
        BY <1>4 DEF StoredInv, NoSegment
    <2>2. Recorded \subseteq Recorded' /\ disk'[writer.next].records \subseteq Recorded'
        BY <1>4, <1>b, <2>1 DEF Recorded
    <2>3. Received \subseteq {x} \cup Recorded /\ 0 \notin Received
        BY <1>1, <1>2, ReceivedFinite DEF HeldInv, x
    <2> QED BY <1>11, <1>12, <2>2, <2>3 DEF HeldInv, Becomes
<1>19. Grows
    <2>1. disk[writer.next].records = {}
        BY <1>4 DEF StoredInv, NoSegment
    <2> QED BY <1>b, <2>1 DEF Grows
<1> QED BY <1>11, <1>13, <1>14, <1>15, <1>16, <1>17, <1>18, <1>19

\* What retention takes away is remembered; it adds nothing to the files.
LEMMA RetentionEffect ==
    ASSUME CountsOK, disk \in Disks, ApplyRetention
    PROVE  /\ disk' \in Disks /\ retired \subseteq retired' /\ retired' \subseteq Segments
           /\ \A s \in Segments :
                /\ disk'[s].names \subseteq disk[s].names /\ disk'[s].records = disk[s].records
                /\ disk[s].names \cap Complete # {} /\ disk'[s].names \cap Complete = {}
                     => s \in retired'
<1>1. PICK k \in {0} \cup {Rank(f) + 1 : f \in Files} :
        LET gone == {f \in Files : Rank(f) < k} IN
        /\ disk' = [s \in Segments |-> [disk[s] EXCEPT !.names = {n \in @ : <<s, n>> \notin gone}]]
        /\ retired' =
             retired \cup {f[1] : f \in {g \in gone : disk'[g[1]].names \cap Complete = {}}}
    BY Zenon DEF ApplyRetention
<1> DEFINE gone == {f \in Files : Rank(f) < k}
<1>2. gone \subseteq Segments \X Names /\ \A f \in gone : f[1] \in Segments
    BY DEF Files
<1>3. /\ disk' = [s \in Segments |-> [disk[s] EXCEPT !.names = {n \in @ : <<s, n>> \notin gone}]]
      /\ retired' = retired \cup {f[1] : f \in {g \in gone : disk'[g[1]].names \cap Complete = {}}}
    BY <1>1
<1> HIDE DEF gone
<1>4. ASSUME NEW s \in Segments
      PROVE  /\ disk'[s] \in [names : SUBSET Names, records : SUBSET (0..MaxChunks)]
             /\ disk'[s].names = {n \in disk[s].names : <<s, n>> \notin gone}
             /\ disk'[s].records = disk[s].records
    <2>1. disk[s] \in [names : SUBSET Names, records : SUBSET (0..MaxChunks)]
        BY DEF Disks
    <2>2. disk'[s] = [disk[s] EXCEPT !.names = {n \in disk[s].names : <<s, n>> \notin gone}]
        BY <1>3
    <2>3. {n \in disk[s].names : <<s, n>> \notin gone} \in SUBSET Names
        BY <2>1
    <2> QED BY <2>1, <2>2, <2>3
<1>5. disk' \in Disks
    BY <1>3, <1>4 DEF Disks
<1>6. retired \subseteq retired' /\ retired' \subseteq Segments
    BY <1>2, <1>3 DEF CountsOK
<1>7. ASSUME NEW s \in Segments, disk[s].names \cap Complete # {}, disk'[s].names \cap Complete = {}
      PROVE  s \in retired'
    <2>1. PICK n \in disk[s].names : n \in Complete /\ <<s, n>> \in gone
        BY <1>4, <1>7
    <2>2. <<s, n>>[1] = s
        OBVIOUS
    <2>3. <<s, n>> \in {g \in gone : disk'[g[1]].names \cap Complete = {}}
        BY <1>7, <2>1, <2>2
    <2> QED BY <1>3, <2>2, <2>3
<1> QED BY <1>4, <1>5, <1>6, <1>7

LEMMA ApplyRetentionStep ==
    ASSUME CaptureOK, CountsOK, PlaceInv, WriterAll, ApplyRetention
    PROVE  WriterAll' /\ Grows
<1> DEFINE a == CASE writer.then = "rotate" -> "open"
                  [] writer.then = "end" -> "done"
                  [] OTHER -> "select"
<1>1. /\ writer.at = "retain" /\ writer' = [writer EXCEPT !.at = a]
      /\ UNCHANGED <<taken, drained, open, queue, discarded, policies>>
    BY DEF ApplyRetention, captureVars, NotWriter
<1>2. /\ writer.then = "rotate" => a = "open"
      /\ writer.then = "end" => a = "done"
      /\ writer.then \notin {"rotate", "end"} => a = "select"
    BY WriterFacts DEF WriterAll, Callers
<1> HIDE DEF a
<1>3. writer' \in Writers
    <2>1. writer \in Writers
        BY DEF WriterAll
    <2>2. a \in {"open", "done", "select"}
        BY <1>2
    <2>3. [writer EXCEPT !.at = a] \in Writers
        BY <2>1, <2>2 DEF Writers
    <2> QED BY <1>1, <2>3
<1> USE WriterFacts DEF WriterAll
<1>4. Becomes(a, writer.then, writer.segment, writer.next, writer.entry, writer.empty,
              writer.buffer)
    BY <1>1 DEF Writers, Becomes
<1>5. /\ disk' \in Disks /\ retired \subseteq retired'
      /\ \A s \in Segments :
           /\ disk'[s].names \subseteq disk[s].names /\ disk'[s].records = disk[s].records
           /\ disk[s].names \cap Complete # {} /\ disk'[s].names \cap Complete = {}
                => s \in retired'
    BY RetentionEffect
<1>6. Received' = Received
    BY <1>1 DEF Received
<1>7. CountInv'
    BY <1>1, <1>2, <1>4, <1>6 DEF CountInv, Due, Becomes, Finishing, Callers
<1>8. WriterInv'
    BY <1>1, <1>2, <1>4 DEF WriterInv, Becomes, Finishing, Callers
<1>9. EndInv'
    BY <1>1, <1>2, <1>4 DEF EndInv, Becomes, Finishing, Closed, Callers
<1>10. OpenInv'
    <2>1. SUFFICES ASSUME writer.segment # 0
                   PROVE  \/ disk'[writer.segment].names = {"open"}
                          \/ disk'[writer.segment].names = {} /\ writer.segment \in retired'
        BY <1>1, <1>2, <1>4 DEF OpenInv, Becomes, Callers
    <2>2. \/ disk[writer.segment].names = {"open"}
          \/ disk[writer.segment].names = {} /\ writer.segment \in retired
        BY <1>1, <2>1 DEF OpenInv
    <2>3. CASE disk[writer.segment].names = {"open"}
        <3>1. disk'[writer.segment].names \in {{"open"}, {}}
            BY <1>5, <2>3
        <3>2. disk[writer.segment].names \cap Complete # {}
            BY <2>3 DEF Complete
        <3> QED BY <1>5, <3>1, <3>2
    <2> QED BY <1>5, <2>2, <2>3
<1>11. StoredInv'
    <2>1. ASSUME NEW s \in Segments, s >= writer'.next
          PROVE  disk'[s] = NoSegment
        <3>1. disk[s] = NoSegment
            BY <1>4, <2>1 DEF StoredInv, Becomes
        <3>2. disk'[s].names = {} /\ disk'[s].records = {}
            BY <1>5, <3>1 DEF NoSegment
        <3>3. disk'[s] \in [names : SUBSET Names, records : SUBSET (0..MaxChunks)]
            BY <1>5 DEF Disks
        <3> QED BY <3>2, <3>3 DEF NoSegment
    <2> QED BY <1>5, <2>1 DEF StoredInv
<1>12. HeldInv'
    <2>1. Recorded' = Recorded
        BY <1>5 DEF Recorded
    <2> QED BY <1>1, <1>4, <1>6, <2>1 DEF HeldInv, Becomes
<1> QED BY <1>3, <1>5, <1>7, <1>8, <1>9, <1>10, <1>11, <1>12 DEF Grows

LEMMA WriterErrorStep ==
    ASSUME CaptureOK, CountsOK, PlaceInv, WriterAll, WriterError
    PROVE  WriterAll' /\ Grows
<1>1. /\ writer.at \notin {"select", "done", "ended"} /\ UNCHANGED <<retired, policies>>
      /\ writer' = [writer EXCEPT !.at = "ended", !.buffer = {}]
      /\ \/ disk' = disk
         \/ disk' = [disk EXCEPT ![writer.segment].records = @ \cup writer.buffer]
    BY DEF WriterError, EndWriter
<1>2. Received' = Received
    <2>1. /\ queue' = <<>> /\ discarded' = discarded \cup ToSet(queue)
          /\ UNCHANGED <<taken, drained>>
        BY DEF WriterError, EndWriter
    <2>2. ToSet(<<>>) = {}
        BY DEF ToSet
    <2> QED BY <2>1, <2>2 DEF Received
<1>3. writer' \in Writers
    <2>1. writer \in Writers
        BY DEF WriterAll
    <2>2. [writer EXCEPT !.at = "ended", !.buffer = {}] \in Writers
        BY <2>1 DEF Writers
    <2> QED BY <1>1, <2>2
<1> USE WriterFacts DEF WriterAll
<1>4. Becomes("ended", writer.then, writer.segment, writer.next, writer.entry, writer.empty, {})
    BY <1>1 DEF Writers, Becomes
<1>5. CountInv' /\ WriterInv' /\ EndInv' /\ OpenInv' /\ HeldInv'
    BY <1>1, <1>2, <1>4 DEF CountInv, WriterInv, EndInv, OpenInv, HeldInv, Becomes
<1>6. CASE disk' = disk
    <2>1. StoredInv'
        BY <1>1, <1>4, <1>6 DEF StoredInv, Becomes
    <2> QED BY <1>3, <1>5, <1>6, <2>1 DEF Grows
<1>7. CASE disk' = [disk EXCEPT ![writer.segment].records = @ \cup writer.buffer]
    <2>1. disk' \in Disks /\ Stores(writer.segment, writer.buffer) /\ Grows
        BY <1>7, StoresRecords
    <2>2. /\ writer.segment < writer.next /\ writer'.next = writer.next
          /\ \/ writer.buffer = {} \/ disk[writer.segment].names \cap Complete # {}
             \/ writer.segment \in retired
        BY <1>1, <1>4 DEF WriterInv, OpenInv, Complete, Becomes
    <2>3. StoredInv'
        BY <1>1, <2>1, <2>2, StoresKeep
    <2> QED BY <1>3, <1>5, <2>1, <2>3
<1> QED BY <1>1, <1>6, <1>7

LEMMA SupervisorCrashStep ==
    ASSUME CaptureOK, CountsOK, PlaceInv, WriterAll, SupervisorCrash
    PROVE  WriterAll' /\ Grows
<1>1. /\ writer' = [writer EXCEPT !.at = "ended", !.buffer = {}]
      /\ UNCHANGED <<disk, retired, policies>>
    BY DEF SupervisorCrash
<1>2. Cardinality(Received) <= Cardinality(Received') /\ Cardinality(Received') \in Nat
    BY ReceivedGrows DEF Next
<1>3. writer' \in Writers
    <2>1. writer \in Writers
        BY DEF WriterAll
    <2>2. [writer EXCEPT !.at = "ended", !.buffer = {}] \in Writers
        BY <2>1 DEF Writers
    <2> QED BY <1>1, <2>2
<1> USE WriterFacts DEF WriterAll
<1>4. Becomes("ended", writer.then, writer.segment, writer.next, writer.entry, writer.empty, {})
    BY <1>1 DEF Writers, Becomes
<1>5. CountInv' /\ WriterInv' /\ EndInv' /\ OpenInv' /\ HeldInv'
    BY <1>1, <1>2, <1>4 DEF CountInv, WriterInv, EndInv, OpenInv, HeldInv, Becomes
<1>6. StoredInv'
    BY <1>1, <1>4 DEF StoredInv, Becomes
<1> QED BY <1>1, <1>3, <1>5, <1>6 DEF Grows

-----------------------------------------------------------------------------
(* What a step leaves alone. *)

LEMMA ReaderAlone ==
    ASSUME ReadLogs \/ ReaderStep \/ ClientLeaves \/ UNCHANGED vars
    PROVE  UNCHANGED NotReader
<1>1. ReadLogs => UNCHANGED NotReader
    BY Zenon DEF ReadLogs
<1>2. ListFiles => UNCHANGED NotReader
    BY Zenon DEF ListFiles
<1>3. ReadFile => UNCHANGED NotReader
    BY Zenon DEF ReadFile
<1>4. FileIsGone => UNCHANGED NotReader
    BY Zenon DEF FileIsGone
<1>5. EndOfPass => UNCHANGED NotReader
    BY Zenon DEF EndOfPass
<1>6. ClientLeaves => UNCHANGED NotReader
    BY Zenon DEF ClientLeaves
<1>7. UNCHANGED vars => UNCHANGED NotReader
    BY DEF vars, NotReader
<1> QED BY <1>1, <1>2, <1>3, <1>4, <1>5, <1>6, <1>7 DEF ReaderStep

LEMMA ReaderUntouched ==
    ASSUME [Next]_vars, ~ReadLogs, ~ReaderStep, ~ClientLeaves
    PROVE  UNCHANGED <<reader, missing>>
<1>1. ASSUME NEW s \in Streams, Capture(s)
      PROVE  UNCHANGED <<reader, missing>>
    BY <1>1 DEF Capture, ReadPipe, Enqueue, ClosePipe
<1>2. CASE ReceiveChunk \/ Tick \/ QueueCloses
    BY <1>2 DEF ReceiveChunk, Tick, QueueCloses, NotWriter
<1>3. CASE ChangePolicy
    BY <1>3 DEF ChangePolicy
<1>4. CASE FinishFlush \/ FinishRename \/ FinishCompress \/ FinishPublish \/ FinishRemove
    BY <1>4 DEF FinishFlush, FinishRename, FinishCompress, FinishPublish, FinishRemove, Finish,
                NotWriter
<1>5. CASE OpenSegment
    BY <1>5 DEF OpenSegment, NotWriter
<1>6. CASE ApplyRetention
    BY <1>6 DEF ApplyRetention, NotWriter
<1>7. CASE WriterError \/ SupervisorCrash
    BY <1>7 DEF WriterError, EndWriter, SupervisorCrash
<1>8. CASE UNCHANGED vars
    BY <1>8 DEF vars
<1> QED BY <1>1, <1>2, <1>3, <1>4, <1>5, <1>6, <1>7, <1>8 DEF Next, WriterStep

LEMMA WriterAllStep ==
    ASSUME CaptureOK, CountsOK, PlaceInv, WriterAll, [Next]_vars
    PROVE  WriterAll' /\ Grows
<1>1. CASE ReceiveChunk /\ HasSegment
    BY <1>1, ReceiveChunkStep
<1>2. CASE SupervisorCrash
    BY <1>2, SupervisorCrashStep
<1>3. CASE WriterError
    BY <1>3, WriterErrorStep
<1>4. CASE Tick \/ QueueCloses \/ ChangePolicy
    BY <1>4, TickStep, QueueClosesStep, ChangePolicyStep
<1>5. CASE FinishFlush \/ FinishRename \/ FinishCompress \/ FinishPublish \/ FinishRemove
    BY <1>5, FinishFlushStep, FinishNamesStep, FinishRemoveStep
<1>6. CASE OpenSegment \/ ApplyRetention
    BY <1>6, OpenSegmentStep, ApplyRetentionStep
<1>7. ASSUME \/ \E s \in Streams : Capture(s)
             \/ ReceiveChunk \/ ReadLogs \/ ReaderStep \/ ClientLeaves \/ UNCHANGED vars,
             ~SupervisorCrash, ~(ReceiveChunk /\ HasSegment)
      PROVE  WriterAll' /\ Grows
    <2>1. Received' = Received
        BY <1>7, ReceivedSame
    <2>2. /\ UNCHANGED <<writer, disk, retired, policies>>
          /\ Closed => Closed'
        <3>1. ASSUME NEW s \in Streams, Capture(s)
              PROVE  UNCHANGED <<writer, disk, retired, policies>> /\ (Closed => Closed')
            BY <3>1 DEF Capture, ReadPipe, Enqueue, ClosePipe, Closed
        <3>2. CASE ReceiveChunk
            BY <1>7, <3>2 DEF ReceiveChunk, Closed, NotWriter, HasSegment
        <3>3. CASE ReadLogs \/ ReaderStep \/ ClientLeaves \/ UNCHANGED vars
            <4>1. UNCHANGED NotReader
                BY <3>3, ReaderAlone
            <4> QED BY <4>1 DEF NotReader, captureVars, Closed
        <3> QED BY <1>7, <3>1, <3>2, <3>3
    <2> QED BY <2>1, <2>2, WriterIdle
<1> QED BY <1>1, <1>2, <1>3, <1>4, <1>5, <1>6, <1>7 DEF Next, WriterStep

-----------------------------------------------------------------------------
(* The reader. *)

LEMMA FilesListed == Files \subseteq Segments \X Names
BY DEF Files

LEMMA StreamReaders == NoStream \in Readers
BY DEF NoStream, Readers

LEMMA ReaderType ==
    ASSUME disk \in Disks, reader \in Readers, [Next]_vars
    PROVE  reader' \in Readers
<1>1. CASE ReadLogs
    <2>1. PICK c \in BOOLEAN : reader' = [reader EXCEPT !.at = "list", !.follow = c]
        BY <1>1, Zenon DEF ReadLogs
    <2>2. [reader EXCEPT !.at = "list", !.follow = c] \in Readers
        BY DEF Readers
    <2> QED BY <2>1, <2>2
<1>2. CASE ListFiles
    <2>1. reader' = [reader EXCEPT !.at = "read", !.todo = Files]
        BY <1>2 DEF ListFiles
    <2>2. [reader EXCEPT !.at = "read", !.todo = Files] \in Readers
        BY FilesListed DEF Readers
    <2> QED BY <2>1, <2>2
<1>3. CASE ReadFile
    <2>1. PICK f \in reader.todo :
            /\ f \in Files
            /\ reader' = [reader EXCEPT !.todo = @ \ {f},
                 !.seen = IF f[2] \in Complete THEN @ \cup disk[f[1]].records ELSE @]
        BY <1>3, Zenon DEF ReadFile
    <2>2. f[1] \in Segments
        BY <2>1, FilesListed
    <2>3. disk[f[1]].records \subseteq 0..MaxChunks
        BY <2>2 DEF Disks
    <2>4. [reader EXCEPT !.todo = @ \ {f}, !.seen = @ \cup disk[f[1]].records] \in Readers
        BY <2>3 DEF Readers
    <2>5. [reader EXCEPT !.todo = @ \ {f}, !.seen = @] \in Readers
        BY DEF Readers
    <2> QED BY <2>1, <2>4, <2>5
<1>4. CASE EndOfPass
    <2>1. reader' = [reader EXCEPT !.at = "list"] \/ reader' = NoStream
        BY <1>4 DEF EndOfPass, EndStream
    <2>2. [reader EXCEPT !.at = "list"] \in Readers
        BY DEF Readers
    <2> QED BY <2>1, <2>2, StreamReaders
<1>5. CASE FileIsGone \/ ClientLeaves
    BY <1>5, StreamReaders DEF FileIsGone, ClientLeaves, EndStream
<1>6. CASE UNCHANGED reader
    BY <1>6
<1> QED
    BY <1>1, <1>2, <1>3, <1>4, <1>5, <1>6, ReaderUntouched DEF ReaderStep

LEMMA CountsStep ==
    ASSUME CountsOK, disk \in Disks, [Next]_vars
    PROVE  CountsOK'
<1>1. Written \subseteq 0..MaxChunks
    BY DEF Written, Disks
<1>2. CASE ApplyRetention
    <2>1. retired' \subseteq Segments
        BY <1>2, RetentionEffect
    <2> QED BY <1>2, <2>1 DEF ApplyRetention, NotWriter, CountsOK
<1>3. CASE ChangePolicy
    BY <1>3, LogAssumption DEF ChangePolicy, CountsOK
<1>4. CASE WriterError \/ SupervisorCrash
    BY <1>4, LogAssumption DEF WriterError, EndWriter, SupervisorCrash, CountsOK
<1>5. CASE ReadLogs \/ ReaderStep \/ ClientLeaves
    <2>1. UNCHANGED <<retired, policies, faults>>
        BY <1>5, ReaderAlone DEF NotReader
    <2>2. missing' \in {missing, {}, Written \ reader.seen, missing \ reader'.seen}
        <3>1. ReadLogs => missing' = missing
            BY Zenon DEF ReadLogs
        <3>2. ListFiles => missing' = Written \ reader.seen
            BY Zenon DEF ListFiles
        <3>3. ReadFile => missing' = missing \ reader'.seen
            BY Zenon DEF ReadFile
        <3>4. FileIsGone \/ ClientLeaves \/ EndOfPass => missing' = {}
            BY DEF FileIsGone, ClientLeaves, EndOfPass, EndStream
        <3> QED BY <1>5, <3>1, <3>2, <3>3, <3>4 DEF ReaderStep
    <2> QED BY <1>1, <2>1, <2>2 DEF CountsOK
<1>6. CASE UNCHANGED <<retired, policies, faults>> /\ UNCHANGED missing
    BY <1>6 DEF CountsOK
<1>7. ASSUME \/ \E s \in Streams : Capture(s)
             \/ WriterStep /\ ~ApplyRetention /\ ~ChangePolicy
             \/ UNCHANGED vars
      PROVE  UNCHANGED <<retired, policies, faults>>
    <2>1. ASSUME NEW s \in Streams, Capture(s)
          PROVE  UNCHANGED <<retired, policies, faults>>
        BY <2>1 DEF Capture, ReadPipe, Enqueue, ClosePipe
    <2>2. CASE ReceiveChunk \/ Tick \/ QueueCloses
        BY <2>2 DEF ReceiveChunk, Tick, QueueCloses, NotWriter
    <2>3. CASE FinishFlush \/ FinishRename \/ FinishCompress \/ FinishPublish \/ FinishRemove
        BY <2>3 DEF FinishFlush, FinishRename, FinishCompress, FinishPublish, FinishRemove, Finish,
                    NotWriter
    <2>4. CASE OpenSegment
        BY <2>4 DEF OpenSegment, NotWriter
    <2>5. CASE UNCHANGED vars
        BY <2>5 DEF vars
    <2> QED BY <1>7, <2>1, <2>2, <2>3, <2>4, <2>5 DEF WriterStep
<1> QED BY <1>2, <1>3, <1>4, <1>5, <1>6, <1>7, ReaderUntouched DEF Next, WriterStep

\* What the reader owes was in the files it listed; a record stays in its segment.
LEMMA OwedStep ==
    ASSUME disk \in Disks, reader \in Readers, StoredInv, OwedInv, Grows, [Next]_vars
    PROVE  OwedInv'
<1>1. CASE ListFiles
    <2>1. /\ reader'.todo = Files /\ missing' = Written \ reader.seen /\ UNCHANGED disk
        BY <1>1 DEF ListFiles, NotReader, Readers
    <2>2. ASSUME NEW x \in missing'
          PROVE  \E f \in reader'.todo : f[2] \in Complete /\ x \in disk'[f[1]].records
        <3>1. PICK s \in Segments \ retired : x \in disk[s].records
            BY <2>1, <2>2 DEF Written
        <3>2. PICK n \in Complete : n \in disk[s].names
            BY <3>1 DEF StoredInv
        <3>3. <<s, n>> \in Files /\ <<s, n>>[1] = s /\ <<s, n>>[2] = n
            BY <3>1, <3>2 DEF Files, Complete, Names
        <3> QED BY <2>1, <3>1, <3>2, <3>3
    <2> QED BY <2>2 DEF OwedInv
<1>2. CASE ReadFile
    <2>1. PICK f \in reader.todo :
            /\ reader.at = "read" /\ f \in Files
            /\ reader' = [reader EXCEPT !.todo = @ \ {f},
                 !.seen = IF f[2] \in Complete THEN @ \cup disk[f[1]].records ELSE @]
            /\ missing' = missing \ reader'.seen /\ UNCHANGED NotReader
        BY <1>2, Zenon DEF ReadFile
    <2>a. UNCHANGED disk
        BY <2>1 DEF NotReader
    <2>2. /\ reader'.todo = reader.todo \ {f}
          /\ f[2] \in Complete => disk[f[1]].records \subseteq reader'.seen
        BY <2>1 DEF Readers
    <2>3. ASSUME NEW x \in missing'
          PROVE  \E g \in reader'.todo : g[2] \in Complete /\ x \in disk'[g[1]].records
        <3>1. x \in missing /\ x \notin reader'.seen
            BY <2>1, <2>3
        <3>2. PICK g \in reader.todo : g[2] \in Complete /\ x \in disk[g[1]].records
            BY <2>1, <3>1 DEF OwedInv
        <3>3. g # f
            BY <2>2, <3>1, <3>2
        <3> QED BY <2>a, <2>2, <3>2, <3>3
    <2> QED BY <2>3 DEF OwedInv
<1>3. CASE EndOfPass \/ FileIsGone \/ ClientLeaves
    <2>1. missing' = {}
        BY <1>3 DEF EndOfPass, FileIsGone, ClientLeaves, EndStream
    <2> QED BY <2>1 DEF OwedInv
<1>4. CASE ReadLogs
    <2>1. reader'.at = "list"
        BY <1>4 DEF ReadLogs, Readers
    <2> QED BY <2>1 DEF OwedInv
<1>5. CASE UNCHANGED <<reader, missing>>
    <2>1. \A f \in reader.todo : f[1] \in Segments
        BY DEF Readers
    <2> QED BY <1>5, <2>1 DEF OwedInv, Grows
<1> QED BY <1>1, <1>2, <1>3, <1>4, <1>5, ReaderUntouched DEF ReaderStep

-----------------------------------------------------------------------------
(* The inductive invariant. *)

LEMMA InvInit ==
    ASSUME Init
    PROVE  IInv
<1>1. PICK left \in {{}, {"final", "zst"}}, c \in BOOLEAN :
        /\ taken = 0 /\ drained = [s \in Streams |-> 0] /\ open = Streams /\ queue = <<>>
        /\ writer = [at |-> "select", then |-> "rotate", capture |-> c,
                     segment |-> IF c THEN 1 ELSE 0, next |-> IF c THEN 2 ELSE 1,
                     entry |-> 0, empty |-> TRUE, buffer |-> {}]
        /\ disk = [s \in Segments |->
                     CASE s = 0 -> [names |-> left, records |-> IF left = {} THEN {} ELSE {0}]
                       [] s = 1 /\ c -> [names |-> {"open"}, records |-> {}]
                       [] OTHER -> NoSegment]
        /\ reader = [NoStream EXCEPT !.at = "off"]
        /\ discarded = {} /\ retired = {} /\ missing = {}
        /\ policies = 0 /\ faults = 0
    BY Zenon DEF Init
<1>2. 0 \in Segments /\ 1 \in Segments
    BY LogAssumption DEF Segments
<1>3. CaptureOK /\ CountsOK
    BY <1>1, LogAssumption DEF CaptureOK, CountsOK
<1>4. reader \in Readers /\ reader.at = "off"
    BY <1>1 DEF Readers, NoStream
<1>5. writer \in Writers
    <2>1. /\ 1 \in 1..(MaxChunks + MaxPolicies + 2) /\ 2 \in 1..(MaxChunks + MaxPolicies + 2)
          /\ 0 \in 0..MaxChunks
        BY LogAssumption
    <2>2. CASE c = TRUE
        BY <1>1, <1>2, <2>1, <2>2 DEF Writers
    <2>3. CASE c = FALSE
        BY <1>1, <1>2, <2>1, <2>3 DEF Writers
    <2> QED BY <2>2, <2>3
<1>6. /\ writer.at = "select" /\ writer.then = "rotate" /\ writer.entry = 0 /\ writer.empty
      /\ writer.buffer = {}
      /\ \/ c /\ writer.segment = 1 /\ writer.next = 2
         \/ ~c /\ writer.segment = 0 /\ writer.next = 1
    BY <1>1
<1>7. /\ disk \in Disks
      /\ \A s \in Segments : disk[s].records = {} \/ disk[s].names \cap Complete # {}
      /\ c => disk[1].names = {"open"}
      /\ \A s \in Segments : s # 0 /\ (c => s # 1) => disk[s] = NoSegment
    <2>1. ASSUME NEW s \in Segments
          PROVE  /\ disk[s] \in [names : SUBSET Names, records : SUBSET (0..MaxChunks)]
                 /\ disk[s].records = {} \/ disk[s].names \cap Complete # {}
                 /\ c /\ s = 1 => disk[s].names = {"open"}
                 /\ s # 0 /\ (c => s # 1) => disk[s] = NoSegment
        <3>1. CASE s = 0
            <4>1. disk[s] = [names |-> left, records |-> IF left = {} THEN {} ELSE {0}]
                BY <1>1, <3>1
            <4>2. 0 \in 0..MaxChunks /\ left \subseteq Names /\ (left = {} \/ "final" \in left)
                BY LogAssumption DEF Names
            <4>3. /\ disk[s].names = left
                  /\ disk[s].records = IF left = {} THEN {} ELSE {0}
                BY <4>1
            <4> QED BY <3>1, <4>1, <4>2, <4>3 DEF Complete
        <3>2. CASE s = 1 /\ c
            <4>1. disk[s] = [names |-> {"open"}, records |-> {}]
                BY <1>1, <3>2
            <4> QED BY <3>2, <4>1 DEF Names
        <3>3. CASE s # 0 /\ ~(s = 1 /\ c)
            <4>1. disk[s] = NoSegment
                BY <1>1, <3>3
            <4> QED BY <3>3, <4>1 DEF NoSegment
        <3> QED BY <3>1, <3>2, <3>3
    <2>2. disk \in Disks
        BY <1>1, <2>1 DEF Disks
    <2> QED BY <1>2, <2>1, <2>2
<1>8. Received = {}
    BY <1>1 DEF Received
<1>9. PlaceInv
    BY <1>1 DEF PlaceInv
<1>10. CountInv
    <2>1. Cardinality(Received) = 0
        BY <1>8, FS_EmptySet
    <2> QED BY <1>1, <1>6, <2>1 DEF CountInv, Due, Finishing
<1>11. WriterInv /\ EndInv
    BY <1>6 DEF WriterInv, EndInv, Finishing
<1>12. OpenInv
    BY <1>6, <1>7 DEF OpenInv
<1>13. StoredInv
    BY <1>6, <1>7, LogAssumption DEF StoredInv, Segments
<1>14. HeldInv /\ OwedInv
    BY <1>4, <1>8 DEF HeldInv, OwedInv
<1> QED
    BY <1>3, <1>4, <1>5, <1>7, <1>9, <1>10, <1>11, <1>12, <1>13, <1>14, TypeParts DEF IInv

LEMMA InvStep ==
    ASSUME IInv, [Next]_vars
    PROVE  IInv'
<1>1. /\ CaptureOK /\ writer \in Writers /\ disk \in Disks /\ reader \in Readers /\ CountsOK
      /\ PlaceInv /\ StoredInv /\ OwedInv /\ WriterAll
    BY TypeParts DEF IInv, WriterAll
<1>2. CaptureOK' /\ PlaceInv'
    BY <1>1, CaptureStep, PlaceStep
<1>3. WriterAll' /\ Grows
    BY <1>1, WriterAllStep
<1>4. reader' \in Readers /\ CountsOK'
    BY <1>1, ReaderType, CountsStep
<1>5. OwedInv'
    BY <1>1, <1>3, OwedStep
<1>6. TypeOK'
    BY <1>2, <1>3, <1>4 DEF WriterAll, TypeOK, CaptureOK, Writers, Disks, Readers, CountsOK
<1> QED BY <1>2, <1>3, <1>5, <1>6 DEF IInv, WriterAll

LEMMA InvHolds == Spec => []IInv
<1>1. Init => IInv
    BY InvInit
<1>2. IInv /\ [Next]_vars => IInv'
    BY InvStep
<1> QED BY <1>1, <1>2, PTL DEF Spec

\* The queue stays within OUTPUT_QUEUE_CHUNKS, and the writer never needs more
\* segments than chunks and policy changes account for (runner.rs:780,
\* journal.rs:119).
THEOREM LogTypes == Spec => []TypeOK
<1>1. IInv => TypeOK
    BY DEF IInv
<1> QED BY <1>1, InvHolds, PTL

\* A pass of stream_log_files that ends without an error has sent every record
\* written before it began, unless retention had removed it: finish renames,
\* compresses and removes in an order that always leaves a complete copy
\* (journal.rs:194, rpc.rs:372).
THEOREM PassesSkipNothing == Spec => []NothingSkipped
<1>1. IInv => NothingSkipped
    BY DEF IInv, OwedInv, NothingSkipped
<1> QED BY <1>1, InvHolds, PTL

\* Once the writer is done, each chunk that was neither dropped nor unwanted is
\* in a file that can be read, or was in a segment that retention removed
\* (run_writer, journal.rs:119).
THEOREM AttemptsAreWrittenOut == Spec => []EverythingWritten
<1>1. ASSUME IInv, writer.at = "done"
      PROVE  (1..taken) \ discarded \subseteq Readable \cup UNION {disk[s].records : s \in retired}
    <2>1. Closed /\ writer.buffer = {} /\ writer.entry = 0 /\ writer.entry \notin Received
        <3>1. Received \subseteq 1..MaxChunks
            BY <1>1, TypeParts, ReceivedFinite DEF IInv
        <3>2. Closed /\ writer.buffer = {} /\ writer.entry = 0
            BY <1>1 DEF IInv, EndInv, WriterInv, Finishing
        <3> QED BY <3>1, <3>2
    <2>2. Received = (1..taken) \ discarded
        <3>1. \A x \in 1..taken : x \notin {drained[s] : s \in Streams}
            BY <2>1 DEF Closed
        <3>2. ToSet(queue) = {}
            BY <2>1 DEF Closed, ToSet
        <3> QED BY <3>1, <3>2 DEF Received
    <2>3. Received \subseteq Recorded
        BY <1>1, <2>1 DEF IInv, HeldInv
    <2>4. Recorded \subseteq Readable \cup UNION {disk[s].records : s \in retired}
        BY <1>1 DEF IInv, StoredInv, Recorded, Readable
    <2> QED BY <2>2, <2>3, <2>4
<1>2. IInv => EverythingWritten
    BY <1>1 DEF EverythingWritten
<1> QED BY <1>2, InvHolds, PTL

=============================================================================
