---------------------------- MODULE RuntimeJournal ----------------------------
(***************************************************************************)
(* The runtime journal of one execution as a file: supervisor processes    *)
(* that follow one another read it when they start, append frames to it    *)
(* and may die between any two writes (supervisor/src/journal.rs).         *)
(*                                                                         *)
(* Abstractions.  The file is a sequence of words: a frame is a word with  *)
(* its length, the words of its payload and a checksum word.  Written      *)
(* words stay; a write is not torn within a word.  A word of one frame     *)
(* read as part of another never makes the checksum right; read as a       *)
(* length it is too large, too long for the file, or misleading.           *)
(***************************************************************************)
EXTENDS Naturals, Sequences, SequencesExt

CONSTANTS
  Lengths,     \* possible payload lengths, in words
  MaxFrames,   \* bound: frames begun
  MaxCrashes   \* bound: supervisor processes that die

VARIABLES
  file,        \* the words of runtime.susm-journal.open
  proc,        \* the supervisor: "down", "up", "append", "unusable" once open has failed
  frames,      \* RuntimeJournalInner.frames: what this process has read or appended
  writing,     \* words of the frame being appended that are not written yet
  synced,      \* history: frames whose append has returned
  begun,       \* number of frames begun
  crashes      \* number of crashes so far

vars == <<file, proc, frames, writing, synced, begun, crashes>>

\* A word says which frame it was written for, what it is and, for a length,
\* its value.
Word(n, kind, len) == [frame |-> n, kind |-> kind, length |-> len]
FrameWords(n, len) ==
  <<Word(n, "length", len)>> \o [i \in 1 .. len |-> Word(n, "payload", len)]
    \o <<Word(n, "checksum", len)>>

TypeOK ==
  /\ \A i \in 1 .. Len(file) : file[i].frame \in 1 .. begun
  /\ proc \in {"down", "up", "append", "unusable"}
  /\ frames \in Seq(1 .. begun) /\ synced \in Seq(1 .. begun)
  /\ writing # <<>> => proc = "append"
  /\ begun \in 0 .. MaxFrames /\ crashes \in 0 .. MaxCrashes

Init ==
  /\ file = <<>> /\ proc = "down" /\ frames = <<>> /\ writing = <<>> /\ synced = <<>>
  /\ begun = 0 /\ crashes = 0

-----------------------------------------------------------------------------
\* The lengths a word can be taken for: any but a length word is payload or
\* checksum bytes, whose value nothing constrains.
LengthsOf(w) == IF w.kind = "length" THEN {w.length} ELSE Lengths \cup {Len(file)}

\* The words at an offset are a frame as it was written: the checksum fits.
Fits(offset, len) == SubSeq(file, offset, offset + len + 1) = FrameWords(file[offset].frame, len)

\* read_runtime_frames from an offset on: the result and the frames before it.
\* The loop ends at an incomplete tail, or with an error at a bad checksum.
ReadFrom[offset \in 1 .. Len(file) + 1] ==
  IF offset > Len(file) THEN {[ok |-> TRUE, frames |-> <<>>]}
  ELSE UNION {
    IF offset + len + 1 > Len(file) THEN {[ok |-> TRUE, frames |-> <<>>]}
    ELSE IF ~Fits(offset, len) THEN {[ok |-> FALSE, frames |-> <<>>]}
    ELSE {[r EXCEPT !.frames = <<file[offset].frame>> \o @] : r \in ReadFrom[offset + len + 2]} :
      len \in LengthsOf(file[offset])}

\* RuntimeJournal::open: what was read is kept, and the file is opened for
\* appending as it is.
OpenJournal ==
  /\ proc = "down"
  /\ \E r \in ReadFrom[1] :
       /\ proc' = IF r.ok THEN "up" ELSE "unusable"
       /\ frames' = IF r.ok THEN r.frames ELSE <<>>
  /\ UNCHANGED <<file, writing, synced, begun, crashes>>

\* append: the length, the payload and the checksum are written, the file is
\* flushed, and then the frame counts.
BeginAppend ==
  /\ proc = "up"
  /\ begun < MaxFrames
  /\ begun' = begun + 1
  /\ proc' = "append"
  /\ \E len \in Lengths : writing' = FrameWords(begun + 1, len)
  /\ UNCHANGED <<file, frames, synced, crashes>>

WriteWord ==
  /\ writing # <<>>
  /\ file' = Append(file, Head(writing))
  /\ writing' = Tail(writing)
  /\ UNCHANGED <<proc, frames, synced, begun, crashes>>

FinishAppend ==
  /\ proc = "append" /\ writing = <<>>
  /\ proc' = "up"
  /\ frames' = Append(frames, begun)
  /\ synced' = Append(synced, begun)
  /\ UNCHANGED <<file, writing, begun, crashes>>

Crash ==
  /\ proc \in {"up", "append"}
  /\ crashes < MaxCrashes
  /\ crashes' = crashes + 1
  /\ proc' = "down"
  /\ frames' = <<>> /\ writing' = <<>>
  /\ UNCHANGED <<file, synced, begun>>

Next == OpenJournal \/ BeginAppend \/ WriteWord \/ FinishAppend \/ Crash

Spec == Init /\ [][Next]_vars

-----------------------------------------------------------------------------
(* Property. *)

\* supervisor-runtime.md:36: recovery accepts complete valid frames and ignores
\* only an incomplete tail.  So a process that has opened a journal nobody
\* damaged knows every frame whose append returned, and open does not fail.
SyncedIsRecovered ==
  /\ proc # "unusable"
  /\ proc \in {"up", "append"} => ToSet(synced) \subseteq ToSet(frames)
=============================================================================
