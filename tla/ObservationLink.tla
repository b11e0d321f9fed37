--------------------------- MODULE ObservationLink ---------------------------
(***************************************************************************)
(* How the observations of ONE execution travel from the supervisor's      *)
(* runtime journal to the controller's database, over attachments that     *)
(* break and processes that crash.                                         *)
(*                                                                         *)
(*   supervisor   runner.rs RuntimeRecorder::observe appends to the        *)
(*                journal, then hands the observation to the link task;    *)
(*                controller_link.rs run attaches, replays the journal     *)
(*                after the controller's cursor and forwards live ones;    *)
(*   controller   supervisor_rpc.rs attach answers Welcome and             *)
(*                acknowledges what storage.rs commit_observation applied. *)
(*                                                                         *)
(* The runner task, the link task and one controller task per attachment   *)
(* run concurrently; a stale attachment task may still drain its buffered  *)
(* requests while the next attachment is being served.                     *)
(*                                                                         *)
(* Abstractions.  Frames are appended atomically.  Sequence numbers are    *)
(* positions in the journal (the journal file is never compacted by this   *)
(* code).  Commands (stop, update-policy) and the process-identity checks  *)
(* of attach_supervisor are not part of this module.  At most one          *)
(* supervisor process of the execution is alive at a time.                 *)
(***************************************************************************)
EXTENDS Naturals, Sequences

CONSTANTS Kinds,          \* observation kinds
          TerminalKinds,  \* those recorded with terminal = true
          MaxObs,         \* bound: observations one execution records
          MaxFaults       \* bound: crashes and lost connections

ASSUME KindsAssumption == TerminalKinds \subseteq Kinds
ASSUME BoundsAssumption == MaxObs \in Nat /\ MaxFaults \in Nat

VARIABLES
  \* Durable: the runtime journal, result.pb, the executions row.
  journal,      \* kinds of the observation frames; the n-th has sequence n
  acked,        \* greatest committed_sequence of an Acknowledgement frame
  result,       \* result.pb has been renamed into place
  committed,    \* executions.committed_sequence
  applied,      \* history: the observations commit_observation applied
  \* The supervisor process.
  proc,         \* "up", "down" (crashed) or "exited" (main returned)
  runner,       \* where the runner task is
  live,         \* the unbounded channel from the runner to the link
  link,         \* where the link task is
  conn,         \* its current attachment, 0 before the first
  recCommitted, \* recovery.committed_sequence, read when it connected
  sent,         \* sent_sequence
  replayTo,     \* last sequence of the observations_after snapshot
  term,         \* terminal_sequence, 0 for None
  obsOpen,      \* observations_open
  \* The controller process.
  ctl,          \* "up" or "down"
  active,       \* the execution is in State.active
  owned,        \* its locally_owned flag: this controller spawned the child
  \* Per attachment.
  req,          \* observations on the request stream
  resp,         \* responses on the response stream
  server,       \* where the controller's attach task is
  seen,         \* committed_sequence that task read from storage
  broken,       \* the transport is lost
  faults        \* faults so far

durableVars == <<journal, acked, result, committed, applied>>
runnerVars == <<proc, runner>>
linkVars == <<link, conn, recCommitted, sent, replayTo, term, obsOpen>>
controllerVars == <<ctl, active, owned>>
streamVars == <<req, resp, server, seen, broken>>
vars == <<journal, acked, result, committed, applied, proc, runner, live,
          link, conn, recCommitted, sent, replayTo, term, obsOpen,
          ctl, active, owned, req, resp, server, seen, broken, faults>>

\* While the execution is active a connection is only given up after a fault,
\* so this many suffice.
Conns == 1..(MaxFaults + 1)

Observation == [seq : Nat \ {0}, kind : Kinds]
Response == [type : {"welcome", "ack", "error"}, seq : Nat]

Larger(m, n) == IF m < n THEN n ELSE m

\* One type invariant: cursors, channels and streams stay in shape.
TypeOK ==
    /\ journal \in Seq(Kinds) /\ applied \in Seq(Kinds)
    /\ acked \in Nat /\ committed \in Nat /\ result \in BOOLEAN
    /\ proc \in {"up", "down", "exited"}
    /\ runner \in {"running", "publishing", "result", "finished"}
    /\ live \in Seq(Observation)
    /\ link \in {"connecting", "greeting", "replaying", "attached",
                 "returned", "failed"}
    /\ conn \in 0..(MaxFaults + 1)
    /\ recCommitted \in Nat /\ sent \in Nat /\ replayTo \in Nat
    /\ term \in Nat /\ obsOpen \in BOOLEAN
    /\ ctl \in {"up", "down"} /\ active \in BOOLEAN /\ owned \in BOOLEAN
    /\ req \in [Conns -> Seq(Observation)]
    /\ resp \in [Conns -> Seq(Response)]
    /\ server \in [Conns -> {"none", "reading", "serving", "closed"}]
    /\ seen \in [Conns -> Nat] /\ broken \in [Conns -> BOOLEAN]
    /\ faults \in Nat

\* A first supervisor has just been spawned for a new execution.
Init ==
    /\ journal = <<>> /\ acked = 0 /\ result = FALSE
    /\ committed = 0 /\ applied = <<>>
    /\ proc = "up" /\ runner = "running" /\ live = <<>>
    /\ link = "connecting" /\ conn = 0 /\ recCommitted = 0
    /\ sent = 0 /\ replayTo = 0 /\ term = 0 /\ obsOpen = TRUE
    /\ ctl = "up" /\ active = TRUE /\ owned = TRUE
    /\ req = [c \in Conns |-> <<>>] /\ resp = [c \in Conns |-> <<>>]
    /\ server = [c \in Conns |-> "none"] /\ seen = [c \in Conns |-> 0]
    /\ broken = [c \in Conns |-> FALSE]
    /\ faults = 0

-----------------------------------------------------------------------------
(* The runner task. *)

ObservationAt(n) == [seq |-> n, kind |-> journal[n]]

\* RuntimeRecorder::observe, first half: the frame is appended and synced.
Observe(k) ==
    /\ proc = "up" /\ runner = "running"
    /\ Len(journal) < MaxObs
    /\ journal' = Append(journal, k)
    /\ runner' = "publishing"
    /\ UNCHANGED <<acked, result, committed, applied, proc, live, faults>>
    /\ UNCHANGED linkVars /\ UNCHANGED controllerVars /\ UNCHANGED streamVars

\* Second half: the observation goes to the link's channel.
Publish ==
    /\ proc = "up" /\ runner = "publishing"
    /\ live' = Append(live, ObservationAt(Len(journal)))
    /\ runner' = IF journal[Len(journal)] \in TerminalKinds
                   THEN "result" ELSE "running"
    /\ UNCHANGED <<proc, faults>> /\ UNCHANGED durableVars
    /\ UNCHANGED linkVars /\ UNCHANGED controllerVars /\ UNCHANGED streamVars

\* finish_execution_kind writes result.pb only after the terminal observation;
\* run then returns and drops the sender of the channel.
WriteResult ==
    /\ proc = "up" /\ runner = "result"
    /\ result' = TRUE
    /\ runner' = "finished"
    /\ UNCHANGED <<journal, acked, committed, applied, proc, live, faults>>
    /\ UNCHANGED linkVars /\ UNCHANGED controllerVars /\ UNCHANGED streamVars

\* main waits at most five seconds for the link, then finalizes and exits.
Exit ==
    /\ proc = "up" /\ runner = "finished"
    /\ proc' = "exited"
    /\ broken' = [c \in Conns |-> broken[c] \/ c = conn]
    /\ UNCHANGED <<runner, live, req, resp, server, seen, faults>>
    /\ UNCHANGED durableVars /\ UNCHANGED linkVars /\ UNCHANGED controllerVars

-----------------------------------------------------------------------------
(* The link task: one iteration of the loop of controller_link::run. *)

Lost(c) == broken[c] \/ server[c] = "closed"

\* The locals of the loop body are dropped, the response stream among them.
Leave(next) ==
    /\ link' = next
    /\ recCommitted' = 0 /\ sent' = 0 /\ replayTo' = 0 /\ term' = 0
    /\ obsOpen' = TRUE
    /\ resp' = [c \in Conns |-> IF c = conn THEN <<>> ELSE resp[c]]
    /\ UNCHANGED <<conn, req, server, seen, broken>>

\* The pipe accepts the connection; journal.recovery() is read for the Hello.
Connect ==
    /\ proc = "up" /\ link = "connecting" /\ ctl = "up"
    /\ conn < MaxFaults + 1
    /\ conn' = conn + 1
    /\ recCommitted' = acked
    /\ link' = "greeting"
    /\ UNCHANGED <<live, sent, replayTo, term, obsOpen, faults>>
    /\ UNCHANGED durableVars /\ UNCHANGED runnerVars
    /\ UNCHANGED controllerVars /\ UNCHANGED streamVars

\* attach fails, or its stream ends without a Welcome: try again in 250 ms.
GreetingRetry ==
    /\ proc = "up" /\ link = "greeting" /\ Lost(conn)
    /\ Leave("connecting")
    /\ UNCHANGED <<live, faults>> /\ UNCHANGED durableVars
    /\ UNCHANGED runnerVars /\ UNCHANGED controllerVars

\* The task ends with an error: the `?` on responses.message() when the
\* stream breaks between its headers and the Welcome.
GreetingFailed ==
    /\ proc = "up" /\ link = "greeting" /\ Lost(conn) /\ resp[conn] # <<>>
    /\ Leave("failed")
    /\ UNCHANGED <<live, faults>> /\ UNCHANGED durableVars
    /\ UNCHANGED runnerVars /\ UNCHANGED controllerVars

\* Where the replay starts: sent_sequence = welcome.committed_sequence.
ResumeAfter(welcome) == welcome

\* The acknowledgement journalled for a Welcome ahead of the journal's own.
WelcomeAcknowledgement(welcome) ==
    IF welcome > recCommitted THEN Larger(acked, welcome) ELSE acked

ReceiveWelcome ==
    /\ proc = "up" /\ link = "greeting" /\ resp[conn] # <<>>
    /\ Head(resp[conn]).type = "welcome"
    /\ LET welcome == Head(resp[conn]).seq IN
         /\ acked' = WelcomeAcknowledgement(welcome)
         /\ sent' = ResumeAfter(welcome)
    /\ replayTo' = Len(journal)
    /\ term' = 0 /\ obsOpen' = TRUE
    /\ resp' = [resp EXCEPT ![conn] = Tail(@)]
    /\ link' = "replaying"
    /\ UNCHANGED <<journal, result, committed, applied, live, conn,
                   recCommitted, req, server, seen, broken, faults>>
    /\ UNCHANGED runnerVars /\ UNCHANGED controllerVars

\* send_observation: a lost attachment has dropped the receiving half of the
\* request stream, or has not dropped it yet and swallows the message.
Send(m) ==
    /\ req' = [req EXCEPT ![conn] = Append(@, m)]
    /\ sent' = m.seq
    /\ term' = IF m.kind \in TerminalKinds THEN m.seq ELSE term

\* The for loop over journal.observations_after(committed).
Replay ==
    /\ proc = "up" /\ link = "replaying" /\ sent < replayTo
    /\ Send(ObservationAt(sent + 1))
    /\ UNCHANGED <<live, link, conn, recCommitted, replayTo, obsOpen,
                   resp, server, seen, broken, faults>>
    /\ UNCHANGED durableVars /\ UNCHANGED runnerVars /\ UNCHANGED controllerVars

ReplayDone ==
    /\ proc = "up" /\ link = "replaying" /\ sent >= replayTo
    /\ link' = "attached"
    /\ UNCHANGED <<live, conn, recCommitted, sent, replayTo, term, obsOpen, faults>>
    /\ UNCHANGED durableVars /\ UNCHANGED runnerVars
    /\ UNCHANGED controllerVars /\ UNCHANGED streamVars

MutSkipNext(m) == m.seq <= sent + 1

\* A live observation the replay has covered already.
AlreadySent(m) == m.seq <= sent

ForwardLive ==
    /\ proc = "up" /\ link = "attached" /\ obsOpen /\ live # <<>>
    /\ live' = Tail(live)
    /\ IF AlreadySent(Head(live))
         THEN UNCHANGED <<req, sent, term>>
         ELSE Send(Head(live))
    /\ UNCHANGED <<link, conn, recCommitted, replayTo, obsOpen,
                   resp, server, seen, broken, faults>>
    /\ UNCHANGED durableVars /\ UNCHANGED runnerVars /\ UNCHANGED controllerVars

\* send_observation fails, in the replay or in the select: the task ends.
SendFailed ==
    /\ proc = "up"
    /\ \/ link = "replaying" /\ sent < replayTo
       \/ link = "attached" /\ obsOpen /\ live # <<>> /\ ~AlreadySent(Head(live))
    /\ Lost(conn)
    /\ Leave("failed")
    /\ UNCHANGED <<live, faults>> /\ UNCHANGED durableVars
    /\ UNCHANGED runnerVars /\ UNCHANGED controllerVars

Terminals == {n \in 1..Len(journal) : journal[n] \in TerminalKinds}

\* n is the last terminal observation of the whole journal, 0 for None.
IsLastTerminal(n) ==
    IF Terminals = {} THEN n = 0
    ELSE n \in Terminals /\ \A m \in Terminals : m <= n

\* The runner has dropped its sender and the channel is drained.
LiveClosed ==
    /\ proc = "up" /\ link = "attached" /\ obsOpen
    /\ live = <<>> /\ runner = "finished"
    /\ obsOpen' = FALSE
    /\ \E n \in Terminals \cup {0} :
         IsLastTerminal(n) /\ term' = IF term = 0 THEN n ELSE term
    /\ UNCHANGED <<live, link, conn, recCommitted, sent, replayTo, faults>>
    /\ UNCHANGED durableVars /\ UNCHANGED runnerVars
    /\ UNCHANGED controllerVars /\ UNCHANGED streamVars

\* terminal_sequence.is_some_and(|terminal| acknowledged >= terminal)
EndsLink(n) == term # 0 /\ n >= term

ReceiveAck ==
    /\ proc = "up" /\ link = "attached" /\ resp[conn] # <<>>
    /\ Head(resp[conn]).type = "ack"
    /\ acked' = Larger(acked, Head(resp[conn]).seq)
    /\ IF EndsLink(Head(resp[conn]).seq)
         THEN Leave("returned")
         ELSE /\ resp' = [resp EXCEPT ![conn] = Tail(@)]
              /\ UNCHANGED linkVars /\ UNCHANGED <<req, server, seen, broken>>
    /\ UNCHANGED <<journal, result, committed, applied, live, faults>>
    /\ UNCHANGED runnerVars /\ UNCHANGED controllerVars

\* The response stream ends or carries an error: reconnect in 250 ms.
LinkBreak ==
    /\ proc = "up" /\ link = "attached" /\ Lost(conn)
    /\ Leave("connecting")
    /\ UNCHANGED <<live, faults>> /\ UNCHANGED durableVars
    /\ UNCHANGED runnerVars /\ UNCHANGED controllerVars

-----------------------------------------------------------------------------
(* The controller: one attach task per connection, the owner of the child  *)
(* process or the recovery monitor, and the database.                      *)

\* attach_supervisor reads the row before it takes the state lock.
ReadStored(c) ==
    /\ ctl = "up" /\ c = conn /\ link = "greeting"
    /\ server[c] = "none" /\ ~broken[c]
    /\ seen' = [seen EXCEPT ![c] = committed]
    /\ server' = [server EXCEPT ![c] = "reading"]
    /\ UNCHANGED <<live, req, resp, broken, faults>>
    /\ UNCHANGED durableVars /\ UNCHANGED runnerVars
    /\ UNCHANGED linkVars /\ UNCHANGED controllerVars

\* A response; nobody reads one on an attachment the link has dropped.
Respond(c, r) ==
    resp' = [resp EXCEPT ![c] =
               IF c = conn /\ link \in {"greeting", "replaying", "attached"}
                 THEN Append(@, r) ELSE @]

\* Under the lock: the execution must still be active.
Welcome(c) ==
    /\ ctl = "up" /\ server[c] = "reading"
    /\ IF active
         THEN /\ server' = [server EXCEPT ![c] = "serving"]
              /\ Respond(c, [type |-> "welcome", seq |-> seen[c]])
         ELSE /\ server' = [server EXCEPT ![c] = "closed"]
              /\ UNCHANGED resp
    /\ seen' = [seen EXCEPT ![c] = 0]
    /\ UNCHANGED <<live, req, broken, faults>>
    /\ UNCHANGED durableVars /\ UNCHANGED runnerVars
    /\ UNCHANGED linkVars /\ UNCHANGED controllerVars

MutApplyDuplicates(m) == m.seq <= committed + 1

\* commit_observation applies an observation: it is the next one.
IsNext(m) == m.seq = committed + 1

\* commit_observation answers Ok(false) for one at or below the cursor.
IsDuplicate(m) == m.seq <= committed

\* A terminal observation of an adopted execution ends it; for a locally
\* owned one the exit of the child process does.
Terminalizes(m) == m.kind \in TerminalKinds /\ active /\ ~owned

MutAckAhead(m) == m.seq + 1

\* The cursor value acknowledged for an observation.
Acknowledges(m) == m.seq

\* One inbound observation: record_supervisor_observation, then the response.
Record(c) ==
    /\ ctl = "up" /\ server[c] = "serving" /\ req[c] # <<>>
    /\ LET m == Head(req[c])
           accepted == IsNext(m) \/ IsDuplicate(m)
       IN
         /\ applied' = IF IsNext(m) THEN Append(applied, m.kind) ELSE applied
         /\ committed' = IF IsNext(m) THEN m.seq ELSE committed
         /\ active' = (active /\ ~(IsNext(m) /\ Terminalizes(m)))
         /\ Respond(c, IF accepted THEN [type |-> "ack", seq |-> Acknowledges(m)]
                                   ELSE [type |-> "error", seq |-> 0])
         /\ server' = [server EXCEPT ![c] = IF accepted THEN "serving" ELSE "closed"]
    /\ req' = [req EXCEPT ![c] = Tail(@)]
    /\ UNCHANGED <<journal, acked, result, live, ctl, owned, seen, broken, faults>>
    /\ UNCHANGED runnerVars /\ UNCHANGED linkVars

\* The attach task notices that its peer is gone, or that the command channel
\* of an execution that is no longer active is closed.
ServerClose(c) ==
    /\ ctl = "up"
    /\ \/ broken[c] /\ server[c] \in {"reading", "serving"}
       \/ ~active /\ server[c] = "serving"
    /\ server' = [server EXCEPT ![c] = "closed"]
    /\ UNCHANGED <<live, req, resp, seen, broken, faults>>
    /\ UNCHANGED durableVars /\ UNCHANGED runnerVars
    /\ UNCHANGED linkVars /\ UNCHANGED controllerVars

MutOnlyChildExit == owned /\ proc # "up"

\* The controller may read result.pb: run_execution after its child exited,
\* the recovery monitor of an adopted execution at any poll.
ResultVisible == owned => proc # "up"

FinishFromResult ==
    /\ ctl = "up" /\ active /\ result /\ ResultVisible
    /\ active' = FALSE
    /\ UNCHANGED <<live, ctl, owned, faults>> /\ UNCHANGED durableVars
    /\ UNCHANGED runnerVars /\ UNCHANGED linkVars /\ UNCHANGED streamVars

\* run_execution, or the recovery monitor after three seconds, starts a
\* replacement that recovers the journal.
Respawn ==
    /\ ctl = "up" /\ active /\ proc = "down" /\ ~result
    /\ proc' = "up"
    /\ owned' = TRUE
    /\ UNCHANGED <<runner, live, ctl, active, faults>> /\ UNCHANGED durableVars
    /\ UNCHANGED linkVars /\ UNCHANGED streamVars

-----------------------------------------------------------------------------
(* Faults. *)

Fault == faults < MaxFaults /\ faults' = faults + 1

\* The attachment's transport is lost under both ends.
ConnectionLost ==
    /\ Fault
    /\ conn > 0 /\ ~broken[conn]
    /\ broken' = [broken EXCEPT ![conn] = TRUE]
    /\ UNCHANGED <<live, req, resp, server, seen>> /\ UNCHANGED durableVars
    /\ UNCHANGED runnerVars /\ UNCHANGED linkVars /\ UNCHANGED controllerVars

\* The supervisor process dies: its channel, its tasks and its pipe with it.
SupervisorCrash ==
    /\ Fault
    /\ proc = "up"
    /\ proc' = "down" /\ runner' = "running" /\ live' = <<>>
    /\ link' = "connecting" /\ recCommitted' = 0
    /\ sent' = 0 /\ replayTo' = 0 /\ term' = 0 /\ obsOpen' = TRUE
    /\ resp' = [c \in Conns |-> IF c = conn THEN <<>> ELSE resp[c]]
    /\ broken' = [c \in Conns |-> broken[c] \/ c = conn]
    /\ UNCHANGED <<conn, req, server, seen>>
    /\ UNCHANGED durableVars /\ UNCHANGED controllerVars

\* The controller process dies: every attach task and every pipe with it.
ControllerCrash ==
    /\ Fault
    /\ ctl = "up"
    /\ ctl' = "down"
    /\ server' = [c \in Conns |-> IF server[c] \in {"reading", "serving"}
                                    THEN "closed" ELSE server[c]]
    /\ broken' = [c \in Conns |-> broken[c] \/ c = conn]
    /\ UNCHANGED <<live, active, owned, req, resp, seen>> /\ UNCHANGED durableVars
    /\ UNCHANGED runnerVars /\ UNCHANGED linkVars

\* The host restarts the controller; Manager::open adopts the execution.
ControllerRestart ==
    /\ ctl = "down"
    /\ ctl' = "up" /\ owned' = FALSE
    /\ UNCHANGED <<live, active, faults>> /\ UNCHANGED durableVars
    /\ UNCHANGED runnerVars /\ UNCHANGED linkVars /\ UNCHANGED streamVars

-----------------------------------------------------------------------------

LinkStep ==
    \/ Connect \/ GreetingRetry \/ GreetingFailed \/ ReceiveWelcome
    \/ Replay \/ ReplayDone \/ ForwardLive \/ SendFailed \/ LiveClosed
    \/ ReceiveAck \/ LinkBreak

ServerStep(c) == ReadStored(c) \/ Welcome(c) \/ Record(c) \/ ServerClose(c)

Next ==
    \/ \E k \in Kinds : Observe(k)
    \/ Publish \/ WriteResult \/ Exit
    \/ LinkStep
    \/ \E c \in Conns : ServerStep(c)
    \/ FinishFromResult \/ Respawn
    \/ ConnectionLost \/ SupervisorCrash \/ ControllerCrash \/ ControllerRestart

Spec == Init /\ [][Next]_vars

\* Every task is scheduled again (tokio), the host restarts the controller
\* (launcher.rs run_controller) and the controller replaces a dead supervisor
\* (manager.rs run_execution, start_recovery_monitors).  Nothing obliges the
\* workload to produce another observation.
Fairness ==
    /\ WF_vars(Publish) /\ WF_vars(WriteResult) /\ WF_vars(Exit)
    /\ WF_vars(LinkStep)
    /\ \A c \in Conns : WF_vars(ServerStep(c))
    /\ WF_vars(FinishFromResult) /\ WF_vars(Respawn)
    /\ WF_vars(ControllerRestart)

FairSpec == Spec /\ Fairness

-----------------------------------------------------------------------------
(* Properties. *)

\* commit_observation applies a supervisor's observations exactly once and in
\* recording order, across replays, stale attachments and crashes: what the
\* row has absorbed is the journal up to the cursor.
CommittedPrefix ==
    /\ committed = Len(applied)
    /\ Len(applied) <= Len(journal)
    /\ \A n \in 1..Len(applied) : applied[n] = journal[n]

\* No attach task ever meets the ObservationOutOfOrder error: whatever
\* attachment an observation arrives on, the cursor has reached its
\* predecessor.
NoGap ==
    \A c \in Conns :
        server[c] = "serving" /\ req[c] # <<>> => Head(req[c]).seq <= committed + 1

\* The journal never records an acknowledgement of an observation the
\* database has not committed: after any crash the two cursors agree on what
\* may be forgotten.
AckedIsCommitted == acked <= committed

\* While attached, the link has sent, is replaying, or will be handed every
\* journalled observation: none falls between the observations_after
\* snapshot and the live channel.
NothingForgotten ==
    link \in {"replaying", "attached"} =>
        \A n \in (Larger(sent, replayTo) + 1)..Len(journal) :
            \/ \E i \in 1..Len(live) : live[i].seq = n
            \/ n = Len(journal) /\ runner = "publishing"

\* The link task returns Ok only when a terminal observation is committed.
ReturnsAfterTerminal ==
    link = "returned" => \E n \in 1..committed : journal[n] \in TerminalKinds

\* The link implements the abstract log.
Log == INSTANCE ObservationLog WITH log <- journal, delivered <- applied
ImplementsLog == Log!LogSpec

\* Every journalled observation is committed, unless the execution is over
\* first or the link task has ended.
EventuallyCommitted ==
    \A n \in 1..MaxObs :
        Len(journal) >= n ~> \/ committed >= n
                             \/ ~active
                             \/ link \in {"returned", "failed"}

\* Once result.pb is in place the controller ends the execution, whichever
\* process crashes.
ResultEndsExecution == result ~> ~active

-----------------------------------------------------------------------------
(* The inductive invariant behind CommittedPrefix, NoGap, AckedIsCommitted, *)
(* NothingForgotten and ReturnsAfterTerminal.                               *)

\* A message is a faithful copy of a journalled observation.
Journalled(m) == m.seq <= Len(journal) /\ m.kind = journal[m.seq]

\* Every request stream carries consecutive journalled observations, and the
\* controller's cursor has reached the predecessor of the first.
RequestsInv ==
    \A c \in Conns :
        /\ server[c] \in {"none", "reading"} => req[c] = <<>>
        /\ \A i \in 1..Len(req[c]) : Journalled(req[c][i])
        /\ \A i \in 1..Len(req[c]) : req[c][i].seq = req[c][1].seq + i - 1
        /\ server[c] = "serving" /\ req[c] # <<>> => req[c][1].seq <= committed + 1

\* Nothing the controller has said, or is about to say, is ahead of its cursor.
ResponsesInv ==
    \A c \in Conns :
        /\ seen[c] <= committed
        /\ \A i \in 1..Len(resp[c]) : resp[c][i].seq <= committed

\* An attachment that does not exist yet is untouched, and one that is still
\* being greeted has carried no observation.
FreshInv ==
    /\ \A c \in Conns : c > conn =>
          server[c] = "none" /\ req[c] = <<>> /\ resp[c] = <<>>
    /\ link \in {"greeting", "replaying", "attached"} => conn \in Conns
    /\ link = "greeting" => req[conn] = <<>>
    /\ link = "greeting" /\ resp[conn] # <<>> => server[conn] \in {"serving", "closed"}

\* sent_sequence is the last request of the current attachment.
SentInv ==
    link \in {"replaying", "attached"} =>
        /\ server[conn] \in {"serving", "closed"}
        /\ sent <= Len(journal) /\ replayTo <= Len(journal)
        /\ link = "attached" => replayTo <= sent
        /\ req[conn] # <<>> => req[conn][Len(req[conn])].seq = sent
        /\ req[conn] = <<>> /\ server[conn] = "serving" => sent <= committed

\* How many observations the runner has handed to the link's channel or,
\* before this process, to a predecessor's.
Published == IF runner = "publishing" THEN Len(journal) - 1 ELSE Len(journal)

\* The channel is the tail of what was published, and reaches back to what
\* the link has sent or will replay.
LiveInv ==
    /\ runner = "publishing" => Len(journal) > 0
    /\ \A i \in 1..Len(live) :
          Journalled(live[i]) /\ live[i].seq = Published - Len(live) + i
    /\ link \in {"replaying", "attached"} =>
          Published - Len(live) <= Larger(sent, replayTo)

\* terminal_sequence is the sequence of a terminal observation.
TermInv ==
    link \in {"replaying", "attached"} /\ term # 0 => term \in Terminals

IInv ==
    /\ TypeOK
    /\ CommittedPrefix
    /\ AckedIsCommitted
    /\ ReturnsAfterTerminal
    /\ RequestsInv /\ ResponsesInv /\ FreshInv /\ SentInv /\ LiveInv /\ TermInv
=============================================================================
