----------------------------- MODULE ManagerProofs -----------------------------
(***************************************************************************)
(* Proofs about Manager, for every number of executions, processes, faults *)
(* and sessions, and every launch budget.                                  *)
(*                                                                         *)
(* The argument.  Identifiers are only handed out (IdsInv), and a          *)
(* controller that is down remembers nothing (DownInv), so an execution    *)
(* becomes active once per controller at most.  While it is active exactly *)
(* one task drives it, the owner or the monitor (DriverInv), and a row is  *)
(* closed before its execution leaves the active map (OpenInv, ClosedInv). *)
(* A replacement is decided by the task that takes the execution out of    *)
(* the active map, hence by one task at most (ClaimInv); a crash in        *)
(* between loses the decision, never the closed row that forbids a second. *)
(* TriggerInv dates the rows of an enabled job by the claim of their       *)
(* session, and BudgetInv pays every charged failure with a fault.         *)
(***************************************************************************)
EXTENDS Manager, FiniteSetTheorems, SequenceTheorems, TLAPS

\* Nothing names an execution that has no row.
IdsInv ==
    /\ active.exec <= Len(rows)
    /\ \A e \in Execs : owner[e] # "none" \/ monitor[e] # "none" => e <= Len(rows)
    /\ \A c \in Conns : /\ conn[c].exec <= Len(rows)
                        /\ conn[c].phase # "none" => conn[c].exec # 0 /\ conn[c].pid # 0
    /\ \A p \in Pids : /\ sup[p].exec <= Len(rows)
                       /\ sup[p].up => sup[p].exec # 0
    /\ \A e \in 1..Len(rows) : rows[e].of <= Len(rows)

\* A controller that is down has no memory and no tasks.
DownInv ==
    ctl = "down" =>
        /\ active.exec = 0
        /\ \A e \in Execs : owner[e] = "none" /\ monitor[e] = "none"
        /\ \A c \in Conns : conn[c].phase = "none"

\* The rows of an enabled job belong to sessions that were claimed, one each.
TriggerInv ==
    /\ triggered <= session
    /\ Kind = "job" =>
         /\ \A e \in 1..Len(rows) : rows[e].auto => rows[e].sess <= triggered
         /\ \A d, e \in 1..Len(rows) :
              rows[d].auto /\ rows[e].auto /\ rows[d].sess = rows[e].sess => d = e

\* An owned execution is driven by its owner, an adopted one by its monitor,
\* none by both; a monitor that has seen the result took the execution out of
\* the map.
DriverInv ==
    /\ active.exec # 0 =>
         IF active.owned THEN owner[active.exec] \notin {"none", "replace"}
                         ELSE monitor[active.exec] = "poll"
    /\ \A e \in Execs : monitor[e] \in {"none", "poll"} \/ active.exec # e
    /\ \A e \in Execs : monitor[e] = "none" \/ owner[e] = "none"

\* The row of the active execution is open until a task that will take the
\* execution out of the map has closed it.
OpenInv ==
    active.exec # 0 =>
        \/ rows[active.exec].open
        \/ owner[active.exec] = "remove"
        \/ \E c \in Conns : conn[c].phase = "committed" /\ conn[c].exec = active.exec

\* An open row has not been finished by a task, nor replaced.
ClosedInv ==
    \A e \in 1..Len(rows) :
        rows[e].open =>
            /\ owner[e] \notin {"remove", "replace"} /\ monitor[e] # "replace"
            /\ \A c \in Conns : conn[c].exec = e => conn[c].phase \notin {"committed", "replace"}
            /\ \A d \in 1..Len(rows) : rows[d].of # e

\* The claims to the replacement of e: its owner, its monitor, a connection, or
\* the replacement that was started.
OwnerClaims(e) == owner[e] = "replace"
MonitorClaims(e) == monitor[e] \in {"finishThenReplace", "replace"}
ConnClaims(e, c) == conn[c].phase = "replace" /\ conn[c].exec = e
RowClaims(e, d) == rows[d].of = e

\* At most one of them exists, and none while e is active.
ClaimInv ==
    \A e \in Execs :
        /\ \A d \in 1..Len(rows) :
             RowClaims(e, d) =>
                 /\ active.exec # e /\ ~OwnerClaims(e) /\ ~MonitorClaims(e)
                 /\ \A c \in Conns : ~ConnClaims(e, c)
                 /\ \A f \in 1..Len(rows) : RowClaims(e, f) => f = d
        /\ \A c \in Conns :
             ConnClaims(e, c) =>
                 /\ active.exec # e /\ ~OwnerClaims(e) /\ ~MonitorClaims(e)
                 /\ \A f \in Conns : ConnClaims(e, f) => f = c
        /\ OwnerClaims(e) => active.exec # e /\ ~MonitorClaims(e)
        /\ MonitorClaims(e) => active.exec # e

\* The child of e died of a fault that its owner has not noticed yet.
Uncharged(e) ==
    owner[e] \in {"spawned", "recorded", "waiting"} /\ ~sup[child[e]].up /\ ~result[e]

\* Failures are paid with faults, and the budget is only reached at the end.
BudgetInv ==
    /\ \A e \in Execs :
         /\ owner[e] \in {"spawned", "recorded", "waiting", "stopping"} =>
              child[e] # 0 /\ sup[child[e]].exec = e
         /\ owner[e] # "finish" => fails[e] < LaunchBudget
         /\ fails[e] <= faults
         /\ Uncharged(e) => fails[e] < faults
         /\ fin[e] = "unavailable" => faults >= LaunchBudget
    /\ GivenUpAfterBudget

StructInv ==
    /\ IdsInv /\ DownInv /\ TriggerInv /\ DriverInv /\ OpenInv /\ ClosedInv /\ ClaimInv

IInv == TypeOK /\ StructInv /\ BudgetInv

-----------------------------------------------------------------------------
(* Facts about the state. *)

LEMMA RowFacts ==
    ASSUME IInv
    PROVE  /\ MaxExecs \in Nat /\ Len(rows) \in Nat /\ Len(rows) <= MaxExecs
           /\ rows \in Seq(Row) /\ DOMAIN rows = 1..Len(rows)
           /\ \A e \in 1..Len(rows) : rows[e] \in Row /\ e \in Execs
<1>1. rows \in Seq(Row) /\ Len(rows) <= MaxExecs /\ MaxExecs \in Nat
  BY ManagerAssumption DEF IInv, TypeOK, DurableTypeOK
<1>2. Len(rows) \in Nat /\ DOMAIN rows = 1..Len(rows)
  BY <1>1, LenProperties
<1>3. \A e \in 1..Len(rows) : rows[e] \in Row
  BY <1>1, ElementOfSeq
<1>4. QED  BY <1>1, <1>2, <1>3 DEF Execs

\* What stays of the table when a row is updated.
LEMMA UpdateRow ==
    ASSUME IInv, NEW e \in 1..Len(rows), NEW r \in Row, rows' = [rows EXCEPT ![e] = r]
    PROVE  /\ rows' \in Seq(Row) /\ Len(rows') = Len(rows)
           /\ \A d \in 1..Len(rows) : rows'[d] = IF d = e THEN r ELSE rows[d]
BY RowFacts, ExceptSeq

\* Recording a process id changes nothing the invariant speaks of.
SameRows ==
    /\ Len(rows') = Len(rows)
    /\ \A e \in 1..Len(rows) :
         /\ rows'[e].open = rows[e].open /\ rows'[e].outcome = rows[e].outcome
         /\ rows'[e].sess = rows[e].sess /\ rows'[e].auto = rows[e].auto
         /\ rows'[e].of = rows[e].of

LEMMA RecordPid ==
    ASSUME IInv, NEW e \in 1..Len(rows), NEW p \in 0..MaxPids,
           rows' = [rows EXCEPT ![e].pid = p]
    PROVE  rows' \in Seq(Row) /\ Len(rows') <= MaxExecs /\ SameRows
<1> DEFINE r == [rows[e] EXCEPT !.pid = p]
<1>1. rows[e] \in Row
  BY RowFacts
<1>2. /\ r \in Row /\ r.open = rows[e].open /\ r.outcome = rows[e].outcome
      /\ r.sess = rows[e].sess /\ r.auto = rows[e].auto /\ r.of = rows[e].of
  BY <1>1 DEF Row
<1>3. rows' = [rows EXCEPT ![e] = r]
  OBVIOUS
<1> HIDE DEF r
<1>4. QED  BY <1>2, <1>3, UpdateRow, RowFacts DEF SameRows

\* Closing a row changes that row only.
ClosedRow(e, outcome) ==
    /\ Len(rows') = Len(rows)
    /\ ~rows'[e].open /\ rows'[e].outcome = outcome
    /\ rows'[e].sess = rows[e].sess /\ rows'[e].auto = rows[e].auto /\ rows'[e].of = rows[e].of
    /\ \A d \in 1..Len(rows) : d # e => rows'[d] = rows[d]

LEMMA CloseFacts ==
    ASSUME IInv, NEW e \in 1..Len(rows), NEW outcome \in Outcomes \cup {"none"},
           CloseRow(e, outcome)
    PROVE  rows' \in Seq(Row) /\ Len(rows') <= MaxExecs /\ ClosedRow(e, outcome)
<1> DEFINE r == [rows[e] EXCEPT !.open = FALSE, !.outcome = outcome]
<1>1. rows[e] \in Row
  BY RowFacts
<1>2. /\ r \in Row /\ ~r.open /\ r.outcome = outcome
      /\ r.sess = rows[e].sess /\ r.auto = rows[e].auto /\ r.of = rows[e].of
  BY <1>1 DEF Row
<1>3. rows' = [rows EXCEPT ![e] = r]
  BY RowFacts DEF CloseRow
<1> HIDE DEF r
<1>4. QED  BY <1>2, <1>3, UpdateRow, RowFacts DEF ClosedRow

-----------------------------------------------------------------------------
(* Most steps leave the structure alone. *)

\* A connection that is not terminalizing comes, goes or is marked.
QuietConns ==
    \A c \in Conns :
        \/ /\ conn'[c].exec = conn[c].exec /\ conn'[c].pid = conn[c].pid
           /\ conn'[c].phase = conn[c].phase
        \/ /\ {conn[c].phase, conn'[c].phase} \subseteq {"none", "serving", "checked"}
           /\ conn'[c].exec <= Len(rows)
           /\ conn'[c].phase # "none" =>
                ctl # "down" /\ conn'[c].exec # 0 /\ conn'[c].pid # 0

\* An owner at work moves on.
QuietOwners ==
    \A e \in Execs :
        \/ owner'[e] = owner[e]
        \/ {owner[e], owner'[e]} \cap {"none", "remove", "replace"} = {}

QuietProcesses ==
    \A p \in Pids : /\ sup'[p].exec <= Len(rows)
                    /\ sup'[p].up => sup'[p].exec # 0

LEMMA QuietStep ==
    ASSUME IInv, SameRows, QuietConns, QuietOwners, QuietProcesses,
           UNCHANGED <<triggered, session, ctl, monitor>>,
           active'.exec = active.exec, active'.owned = active.owned
    PROVE  StructInv'
<1> USE DEF SameRows
<1>1. IdsInv'
  BY DEF IInv, StructInv, IdsInv, QuietConns, QuietOwners, QuietProcesses
<1>2. DownInv'
  BY DEF IInv, StructInv, DownInv, QuietConns, QuietOwners
<1>3. TriggerInv'
  BY DEF IInv, StructInv, TriggerInv
<1>4. active.exec # 0 => active.exec \in Execs /\ active.exec \in 1..Len(rows)
  BY RowFacts DEF IInv, TypeOK, MemoryTypeOK, Active, Execs, StructInv, IdsInv
<1>5. DriverInv'
  <2>1. DriverInv
    BY DEF IInv, StructInv
  <2>2. active'.exec # 0 =>
          IF active'.owned THEN owner'[active'.exec] \notin {"none", "replace"}
                           ELSE monitor'[active'.exec] = "poll"
    BY <1>4, <2>1 DEF DriverInv, QuietOwners
  <2>3. /\ \A e \in Execs : monitor'[e] \in {"none", "poll"} \/ active'.exec # e
        /\ \A e \in Execs : monitor'[e] = "none" \/ owner'[e] = "none"
    BY <2>1 DEF DriverInv, QuietOwners
  <2>4. QED  BY <2>2, <2>3 DEF DriverInv
<1>6. OpenInv'
  BY <1>4 DEF IInv, StructInv, OpenInv, QuietOwners, QuietConns
<1>7. ClosedInv'
  <2> SUFFICES ASSUME NEW e \in 1..Len(rows'), rows'[e].open
               PROVE  /\ owner'[e] \notin {"remove", "replace"} /\ monitor'[e] # "replace"
                      /\ \A c \in Conns : conn'[c].exec = e =>
                           conn'[c].phase \notin {"committed", "replace"}
                      /\ \A d \in 1..Len(rows') : rows'[d].of # e
    BY DEF ClosedInv
  <2>1. e \in 1..Len(rows) /\ e \in Execs /\ rows[e].open
    BY RowFacts
  <2>2. /\ owner[e] \notin {"remove", "replace"} /\ monitor[e] # "replace"
        /\ \A c \in Conns : conn[c].exec = e => conn[c].phase \notin {"committed", "replace"}
        /\ \A d \in 1..Len(rows) : rows[d].of # e
    BY <2>1 DEF IInv, StructInv, ClosedInv
  <2>3. owner'[e] \notin {"remove", "replace"}
    BY <2>1, <2>2 DEF QuietOwners
  <2>4. \A c \in Conns : conn'[c].exec = e => conn'[c].phase \notin {"committed", "replace"}
    BY <2>2 DEF QuietConns
  <2>5. QED  BY <2>2, <2>3, <2>4
<1>8. ClaimInv'
  <2>1. \A e \in Execs : owner'[e] = "replace" <=> owner[e] = "replace"
    BY DEF QuietOwners
  <2>2. \A c \in Conns : conn'[c].phase = "replace" \/ conn[c].phase = "replace" =>
          conn'[c].phase = conn[c].phase /\ conn'[c].exec = conn[c].exec
    BY DEF QuietConns
  <2>3. QED
    BY <2>1, <2>2 DEF IInv, StructInv, ClaimInv, OwnerClaims, MonitorClaims, ConnClaims,
       RowClaims
<1>9. QED  BY <1>1, <1>2, <1>3, <1>5, <1>6, <1>7, <1>8 DEF StructInv

\* Unless an owner counts a failure, finishes or takes over, the budget is as it
\* was: no outcome is invented, and a child that dies undetected costs a fault.
LEMMA BudgetStep ==
    ASSUME IInv, UNCHANGED <<fails, child>>, faults' \in Nat, faults <= faults',
           \A e \in Execs :
               /\ owner'[e] \in {"spawned", "recorded", "waiting", "stopping"} =>
                    child[e] # 0 /\ sup'[child[e]].exec = e
               /\ owner'[e] # "finish" => owner[e] # "finish"
               /\ Uncharged(e)' => Uncharged(e) \/ faults < faults'
               /\ fin'[e] = "unavailable" => fin[e] = "unavailable",
           \A e \in 1..Len(rows') :
               rows'[e].outcome = "unavailable" =>
                   \/ e \in 1..Len(rows) /\ rows[e].outcome = "unavailable"
                   \/ e \in Execs /\ fin[e] = "unavailable"
    PROVE  BudgetInv'
<1>1. faults \in Nat /\ LaunchBudget \in Nat /\ (\A e \in Execs : fails[e] \in Nat)
  BY ManagerAssumption DEF IInv, TypeOK, ProcessTypeOK, TaskTypeOK
<1>2. GivenUpAfterBudget'
  BY <1>1 DEF IInv, BudgetInv, GivenUpAfterBudget
<1>3. ASSUME NEW e \in Execs
      PROVE  /\ owner'[e] # "finish" => fails'[e] < LaunchBudget
             /\ fails'[e] <= faults'
             /\ Uncharged(e)' => fails'[e] < faults'
             /\ fin'[e] = "unavailable" => faults' >= LaunchBudget
  <2>1. fails[e] \in Nat /\ fails'[e] = fails[e] /\ fails[e] <= faults
    BY <1>1, <1>3 DEF IInv, BudgetInv
  <2>2. Uncharged(e)' => fails'[e] < faults'
    BY <1>1, <1>3, <2>1 DEF IInv, BudgetInv
  <2>3. QED  BY <1>1, <1>3, <2>1, <2>2 DEF IInv, BudgetInv
<1>4. QED  BY <1>2, <1>3 DEF BudgetInv

LEMMA QuietSame ==
    ASSUME IInv
    PROVE  /\ UNCHANGED rows => SameRows
           /\ UNCHANGED conn => QuietConns
           /\ UNCHANGED owner => QuietOwners
           /\ UNCHANGED sup => QuietProcesses
<1>1. UNCHANGED rows => SameRows
  BY DEF SameRows
<1>2. UNCHANGED conn => QuietConns
  BY DEF QuietConns
<1>3. UNCHANGED owner => QuietOwners
  BY DEF QuietOwners
<1>4. UNCHANGED sup => QuietProcesses
  BY DEF QuietProcesses, IInv, StructInv, IdsInv
<1>5. QED  BY <1>1, <1>2, <1>3, <1>4

\* The child of an owner that has one.
LEMMA ChildFacts ==
    ASSUME IInv, NEW e \in Execs,
           owner[e] \in {"spawned", "recorded", "waiting", "stopping"}
    PROVE  child[e] \in Pids /\ sup[child[e]].exec = e
<1>1. child[e] \in 0..MaxPids /\ child[e] # 0 /\ sup[child[e]].exec = e /\ MaxPids \in Nat
  BY ManagerAssumption DEF IInv, TypeOK, TaskTypeOK, BudgetInv
<1>2. QED  BY <1>1 DEF Pids

\* A step that touches no owner, kills no process and produces no result.
LEMMA BudgetSame ==
    ASSUME IInv, SameRows, UNCHANGED <<fails, child, owner, fin, result, faults>>,
           \A p \in Pids : sup'[p].exec = sup[p].exec /\ sup'[p].up = sup[p].up
    PROVE  BudgetInv'
<1>1. faults' \in Nat /\ faults <= faults'
  BY DEF IInv, TypeOK, ProcessTypeOK
<1>2. ASSUME NEW e \in Execs
      PROVE  /\ owner'[e] \in {"spawned", "recorded", "waiting", "stopping"} =>
                  child[e] # 0 /\ sup'[child[e]].exec = e
             /\ Uncharged(e)' => Uncharged(e)
  BY <1>2, ChildFacts DEF IInv, BudgetInv, Uncharged
<1>3. \A e \in 1..Len(rows') : rows'[e].outcome = "unavailable" =>
        e \in 1..Len(rows) /\ rows[e].outcome = "unavailable"
  BY DEF SameRows
<1>4. QED  BY <1>1, <1>2, <1>3, BudgetStep

-----------------------------------------------------------------------------
(* User commands and the end of the session. *)

LEMMA BroadcastFacts ==
    ASSUME IInv, NEW e, Broadcast(e)
    PROVE  conn' \in [Conns -> Connection] /\ QuietConns
<1>1. conn \in [Conns -> Connection]
  BY DEF IInv, TypeOK, ProcessTypeOK
<1>2. \A c \in Conns : /\ conn'[c] = [conn[c] EXCEPT !.cmd = conn[c].cmd \/ conn[c].exec = e]
                       /\ conn[c] \in Connection
  BY <1>1 DEF Broadcast
<1>3. conn' \in [Conns -> Connection]
  BY <1>1, <1>2 DEF Broadcast, Connection
<1>4. \A c \in Conns : /\ conn'[c].exec = conn[c].exec /\ conn'[c].pid = conn[c].pid
                       /\ conn'[c].phase = conn[c].phase
  BY <1>2 DEF Connection
<1>5. QED  BY <1>3, <1>4 DEF QuietConns

LEMMA CancelFacts ==
    ASSUME IInv, NEW restart \in BOOLEAN, Cancel(restart)
    PROVE  /\ active' \in Active /\ active'.exec = active.exec /\ active'.owned = active.owned
           /\ cancelled' \in [Execs -> BOOLEAN]
           /\ conn' \in [Conns -> Connection] /\ QuietConns
<1>1. active \in Active /\ cancelled \in [Execs -> BOOLEAN]
  BY DEF IInv, TypeOK, MemoryTypeOK
<1>2. active' = [active EXCEPT !.state = "stopping", !.after = active.after \/ restart]
  BY DEF Cancel, After
<1>3. active' \in Active /\ active'.exec = active.exec /\ active'.owned = active.owned
  BY <1>1, <1>2 DEF Active
<1>4. cancelled' \in [Execs -> BOOLEAN]
  BY <1>1 DEF Cancel
<1>5. QED  BY <1>3, <1>4, BroadcastFacts DEF Cancel

LEMMA CommandStep ==
    ASSUME IInv, StopCommand \/ RestartCommand
    PROVE  IInv'
<1>1. /\ \E restart \in BOOLEAN : Cancel(restart)
      /\ UNCHANGED <<rows, triggered, said, result, session, ctl, ending, owner, fails, child,
                     fin, monitor, rerun, sup, faults>>
  BY DEF StopCommand, RestartCommand, durableVars, taskVars
<1>2. /\ active' \in Active /\ active'.exec = active.exec /\ active'.owned = active.owned
      /\ cancelled' \in [Execs -> BOOLEAN] /\ conn' \in [Conns -> Connection] /\ QuietConns
  BY <1>1, CancelFacts
<1>3. TypeOK'
  BY <1>1, <1>2 DEF IInv, TypeOK, DurableTypeOK, MemoryTypeOK, TaskTypeOK, ProcessTypeOK
<1>4. StructInv'
  BY <1>1, <1>2, QuietSame, QuietStep
<1>5. BudgetInv'
  BY <1>1, QuietSame, BudgetSame
<1>6. QED  BY <1>3, <1>4, <1>5 DEF IInv

LEMMA RerunCheckStep ==
    ASSUME IInv, RerunCheck
    PROVE  IInv'
<1>1. /\ UNCHANGED <<rows, triggered, said, result, session, ctl, ending, active, cancelled,
                     owner, fails, child, fin, monitor, sup, conn, faults>>
      /\ rerun' \in {"cancel", "start"}
  BY DEF RerunCheck, durableVars, memoryVars
<1>2. TypeOK'
  BY <1>1 DEF IInv, TypeOK, DurableTypeOK, MemoryTypeOK, TaskTypeOK, ProcessTypeOK
<1>3. StructInv'
  BY <1>1, QuietSame, QuietStep
<1>4. BudgetInv'
  BY <1>1, QuietSame, BudgetSame
<1>5. QED  BY <1>2, <1>3, <1>4 DEF IInv

LEMMA EndSessionStep ==
    ASSUME IInv, EndSession
    PROVE  IInv'
<1>1. /\ UNCHANGED <<rows, triggered, said, result, session, ctl, owner, fails, child, fin,
                     monitor, rerun, faults>>
      /\ ending' = TRUE
      /\ sup' = [p \in Pids |-> [sup[p] EXCEPT !.stop = sup[p].stop \/ sup[p].up]]
      /\ IF active.exec = 0
           THEN UNCHANGED <<active, cancelled, conn>>
           ELSE /\ active' = [active EXCEPT !.after = FALSE, !.state = "stopping"]
                /\ cancelled' = [cancelled EXCEPT ![active.exec] = TRUE]
                /\ Broadcast(active.exec)
  BY DEF EndSession, durableVars, taskVars
<1>2. /\ active \in Active /\ cancelled \in [Execs -> BOOLEAN] /\ sup \in [Pids -> Process]
      /\ conn \in [Conns -> Connection]
  BY DEF IInv, TypeOK, MemoryTypeOK, ProcessTypeOK
<1>3. active' \in Active /\ active'.exec = active.exec /\ active'.owned = active.owned
  <2>1. active' = active \/ active' = [active EXCEPT !.after = FALSE, !.state = "stopping"]
    BY <1>1
  <2>2. QED  BY <1>2, <2>1 DEF Active
<1>4. /\ cancelled' \in [Execs -> BOOLEAN] /\ conn' \in [Conns -> Connection] /\ QuietConns
  BY <1>1, <1>2, BroadcastFacts, QuietSame
<1>5. /\ sup' \in [Pids -> Process]
      /\ \A p \in Pids : sup'[p].exec = sup[p].exec /\ sup'[p].up = sup[p].up
  <2>1. ASSUME NEW p \in Pids
        PROVE  LET q == [sup[p] EXCEPT !.stop = sup[p].stop \/ sup[p].up]
               IN  q \in Process /\ q.exec = sup[p].exec /\ q.up = sup[p].up
    BY <1>2 DEF Process
  <2>2. QED  BY <1>1, <2>1
<1>6. TypeOK'
  BY <1>1, <1>3, <1>4, <1>5
     DEF IInv, TypeOK, DurableTypeOK, MemoryTypeOK, TaskTypeOK, ProcessTypeOK
<1>7. QuietProcesses
  BY <1>5 DEF QuietProcesses, IInv, StructInv, IdsInv
<1>8. StructInv'
  BY <1>1, <1>3, <1>4, <1>7, QuietSame, QuietStep
<1>9. BudgetInv'
  BY <1>1, <1>5, QuietSame, BudgetSame
<1>10. QED  BY <1>6, <1>8, <1>9 DEF IInv

-----------------------------------------------------------------------------
(* run_execution: the owner at work. *)

\* A task of e runs, so e has a row.
LEMMA TaskFacts ==
    ASSUME IInv, NEW e \in Execs, owner[e] # "none" \/ monitor[e] # "none"
    PROVE  e \in 1..Len(rows)
<1>1. e <= Len(rows) /\ MaxExecs \in Nat /\ Len(rows) \in Nat
  BY RowFacts DEF IInv, StructInv, IdsInv
<1>2. QED  BY <1>1 DEF Execs

\* The owner of e moves on without counting a failure; a child it keeps is the
\* one it had.
LEMMA BudgetOwnerMoves ==
    ASSUME IInv, SameRows, NEW e \in Execs, NEW pc,
           UNCHANGED <<fails, child, result, faults>>,
           \A p \in Pids : sup'[p].exec = sup[p].exec /\ sup'[p].up = sup[p].up,
           \A d \in Execs : owner'[d] = IF d = e THEN pc ELSE owner[d],
           owner[e] # "finish", pc # "spawned",
           pc \in {"recorded", "waiting", "stopping"} =>
               owner[e] \in {"spawned", "recorded", "waiting"},
           \A d \in Execs : fin'[d] = "unavailable" => fin[d] = "unavailable"
    PROVE  BudgetInv'
<1>1. faults' \in Nat /\ faults <= faults'
  BY DEF IInv, TypeOK, ProcessTypeOK
<1>2. ASSUME NEW d \in Execs
      PROVE  /\ owner'[d] \in {"spawned", "recorded", "waiting", "stopping"} =>
                  child[d] # 0 /\ sup'[child[d]].exec = d
             /\ Uncharged(d)' => Uncharged(d)
  <2>1. owner'[d] \in {"spawned", "recorded", "waiting", "stopping"} =>
          owner[d] \in {"spawned", "recorded", "waiting", "stopping"}
    BY <1>2
  <2>2. CASE owner[d] \in {"spawned", "recorded", "waiting", "stopping"}
    <3>1. child[d] \in Pids /\ sup[child[d]].exec = d /\ child[d] # 0
      BY <1>2, <2>2, ChildFacts DEF Pids
    <3>2. QED  BY <1>2, <3>1 DEF Uncharged
  <2>3. QED  BY <2>1, <2>2 DEF Uncharged
<1>3. \A d \in 1..Len(rows') : rows'[d].outcome = "unavailable" =>
        d \in 1..Len(rows) /\ rows[d].outcome = "unavailable"
  BY DEF SameRows
<1>4. QED  BY <1>1, <1>2, <1>3, BudgetStep

LEMMA OwnerCancelledStep ==
    ASSUME IInv, NEW e \in Execs, OwnerCancelled(e)
    PROVE  IInv'
<1>1. /\ UNCHANGED <<rows, triggered, said, result, session, ctl, ending, active, cancelled,
                     fails, child, monitor, rerun, sup, conn, faults>>
      /\ owner' = [owner EXCEPT ![e] = "finish"] /\ fin' = [fin EXCEPT ![e] = "stopped"]
      /\ owner[e] \in {"loop", "backoff"}
  BY DEF OwnerCancelled, OwnerIs, durableVars, memoryVars
<1>2. TypeOK'
  BY <1>1 DEF IInv, TypeOK, DurableTypeOK, MemoryTypeOK, TaskTypeOK, ProcessTypeOK, Outcomes
<1>3. \A d \in Execs : /\ owner'[d] = IF d = e THEN "finish" ELSE owner[d]
                       /\ fin'[d] = IF d = e THEN "stopped" ELSE fin[d]
  BY <1>1 DEF IInv, TypeOK, TaskTypeOK
<1>4. QuietOwners
  BY <1>1, <1>3 DEF QuietOwners
<1>5. StructInv'
  BY <1>1, <1>4, QuietSame, QuietStep
<1>6. BudgetInv'
  BY <1>1, <1>3, QuietSame, BudgetOwnerMoves
<1>7. QED  BY <1>2, <1>5, <1>6 DEF IInv

\* A new process is nobody's child yet.
LEMMA OwnerSpawnStep ==
    ASSUME IInv, NEW e \in Execs, OwnerSpawn(e)
    PROVE  IInv'
<1>1. PICK p \in Pids : /\ sup[p].exec = 0
                        /\ sup' = [sup EXCEPT ![p] = [NoProcess EXCEPT !.exec = e, !.up = TRUE]]
                        /\ child' = [child EXCEPT ![e] = p]
  BY DEF OwnerSpawn
<1>2. /\ UNCHANGED <<rows, triggered, said, result, session, ctl, ending, active, cancelled,
                     fails, fin, monitor, rerun, conn, faults>>
      /\ owner' = [owner EXCEPT ![e] = "spawned"] /\ owner[e] = "loop"
  BY DEF OwnerSpawn, OwnerIs, durableVars, memoryVars
<1> DEFINE q == [NoProcess EXCEPT !.exec = e, !.up = TRUE]
<1>3. e \in 1..Len(rows) /\ e \in 0..MaxExecs /\ e # 0
  BY <1>2, TaskFacts, RowFacts
<1>4. q \in Process /\ q.exec = e /\ q.up
  BY <1>3 DEF NoProcess, Process
<1>5. p \in 0..MaxPids /\ p # 0
  BY ManagerAssumption DEF Pids
<1>6. sup' = [sup EXCEPT ![p] = q]
  BY <1>1
<1> HIDE DEF q
<1>7. TypeOK'
  <2>1. sup' \in [Pids -> Process]
    BY <1>4, <1>6 DEF IInv, TypeOK, ProcessTypeOK
  <2>2. TaskTypeOK'
    BY <1>1, <1>2, <1>5 DEF IInv, TypeOK, TaskTypeOK
  <2>3. QED
    BY <1>2, <2>1, <2>2 DEF IInv, TypeOK, DurableTypeOK, MemoryTypeOK, ProcessTypeOK
<1>8. /\ \A d \in Execs : /\ owner'[d] = IF d = e THEN "spawned" ELSE owner[d]
                          /\ child'[d] = IF d = e THEN p ELSE child[d]
      /\ \A r \in Pids : sup'[r] = IF r = p THEN q ELSE sup[r]
  BY <1>1, <1>2, <1>6 DEF IInv, TypeOK, TaskTypeOK, ProcessTypeOK
<1>9. QuietOwners
  BY <1>2, <1>8 DEF QuietOwners
<1>10. QuietProcesses
  BY <1>3, <1>4, <1>8 DEF QuietProcesses, IInv, StructInv, IdsInv
<1>11. StructInv'
  BY <1>2, <1>9, <1>10, QuietSame, QuietStep
<1>12. BudgetInv'
  <2>1. ASSUME NEW d \in Execs, d # e
        PROVE  /\ owner'[d] \in {"spawned", "recorded", "waiting", "stopping"} =>
                    child'[d] # 0 /\ sup'[child'[d]].exec = d
               /\ Uncharged(d)' => Uncharged(d)
    <3>1. CASE owner[d] \in {"spawned", "recorded", "waiting", "stopping"}
      <4>1. child[d] \in Pids /\ sup[child[d]].exec = d /\ d # 0
        BY <3>1, ChildFacts, RowFacts DEF Execs
      <4>2. child[d] # p /\ child[d] # 0
        BY <1>1, <4>1 DEF Pids
      <4>3. QED  BY <1>2, <1>8, <2>1, <4>1, <4>2 DEF Uncharged
    <3>2. QED  BY <1>8, <2>1, <3>1 DEF Uncharged
  <2>2. ~Uncharged(e)' /\ child'[e] # 0 /\ sup'[child'[e]].exec = e
    BY <1>4, <1>5, <1>8 DEF Uncharged
  <2>3. QED  BY <1>2, <1>8, <2>1, <2>2 DEF IInv, BudgetInv, GivenUpAfterBudget
<1>13. QED  BY <1>7, <1>11, <1>12 DEF IInv

LEMMA OwnerRecordPidStep ==
    ASSUME IInv, NEW e \in Execs, OwnerRecordPid(e)
    PROVE  IInv'
<1>1. /\ UNCHANGED <<triggered, said, result, session, ctl, ending, active, cancelled,
                     fails, child, fin, monitor, rerun, sup, conn, faults>>
      /\ rows' = [rows EXCEPT ![e].pid = child[e]]
      /\ owner' = [owner EXCEPT ![e] = "recorded"] /\ owner[e] = "spawned"
  BY DEF OwnerRecordPid, OwnerIs, memoryVars
<1>2. child[e] \in 0..MaxPids
  BY DEF IInv, TypeOK, TaskTypeOK
<1>3. rows' \in Seq(Row) /\ Len(rows') <= MaxExecs /\ SameRows
  BY <1>1, <1>2, TaskFacts, RecordPid
<1>4. TypeOK'
  BY <1>1, <1>3 DEF IInv, TypeOK, DurableTypeOK, MemoryTypeOK, TaskTypeOK, ProcessTypeOK
<1>5. \A d \in Execs : owner'[d] = IF d = e THEN "recorded" ELSE owner[d]
  BY <1>1 DEF IInv, TypeOK, TaskTypeOK
<1>6. StructInv'
  <2>1. QuietOwners
    BY <1>1, <1>5 DEF QuietOwners
  <2>2. QED  BY <1>1, <1>3, <2>1, QuietSame, QuietStep
<1>7. BudgetInv'
  BY <1>1, <1>3, <1>5, BudgetOwnerMoves
<1>8. QED  BY <1>4, <1>6, <1>7 DEF IInv

LEMMA OwnerPublishPidStep ==
    ASSUME IInv, NEW e \in Execs, OwnerPublishPid(e)
    PROVE  IInv'
<1>1. /\ UNCHANGED <<rows, triggered, said, result, session, ctl, ending, cancelled,
                     fails, child, fin, monitor, rerun, sup, conn, faults>>
      /\ active' = IF active.exec = e
                     THEN [active EXCEPT !.pid = child[e], !.state = "live"] ELSE active
      /\ owner' = [owner EXCEPT ![e] = "waiting"] /\ owner[e] = "recorded"
  BY DEF OwnerPublishPid, OwnerIs, durableVars
<1>2. child[e] \in 0..MaxPids /\ active \in Active
  BY DEF IInv, TypeOK, TaskTypeOK, MemoryTypeOK
<1>3. active' \in Active /\ active'.exec = active.exec /\ active'.owned = active.owned
  BY <1>1, <1>2 DEF Active
<1>4. TypeOK'
  BY <1>1, <1>3 DEF IInv, TypeOK, DurableTypeOK, MemoryTypeOK, TaskTypeOK, ProcessTypeOK
<1>5. \A d \in Execs : owner'[d] = IF d = e THEN "waiting" ELSE owner[d]
  BY <1>1 DEF IInv, TypeOK, TaskTypeOK
<1>6. QuietOwners
  BY <1>1, <1>5 DEF QuietOwners
<1>7. StructInv'
  BY <1>1, <1>3, <1>6, QuietSame, QuietStep
<1>8. BudgetInv'
  BY <1>1, <1>5, QuietSame, BudgetOwnerMoves
<1>9. QED  BY <1>4, <1>7, <1>8 DEF IInv

LEMMA OwnerStopStep ==
    ASSUME IInv, NEW e \in Execs, OwnerStop(e)
    PROVE  IInv'
<1> DEFINE p == child[e]
<1>1. /\ UNCHANGED <<rows, triggered, said, result, session, ctl, ending, active, cancelled,
                     fails, child, fin, monitor, rerun, conn, faults>>
      /\ sup' = [sup EXCEPT ![p].stop = sup[p].stop \/ sup[p].up]
      /\ owner' = [owner EXCEPT ![e] = "stopping"] /\ owner[e] = "waiting"
  BY DEF OwnerStop, OwnerIs, durableVars, memoryVars
<1>2. p \in Pids /\ sup \in [Pids -> Process]
  BY <1>1, ChildFacts DEF IInv, TypeOK, ProcessTypeOK
<1>3. /\ sup' \in [Pids -> Process]
      /\ \A r \in Pids : sup'[r].exec = sup[r].exec /\ sup'[r].up = sup[r].up
  BY <1>1, <1>2 DEF Process
<1>4. TypeOK'
  BY <1>1, <1>3 DEF IInv, TypeOK, DurableTypeOK, MemoryTypeOK, TaskTypeOK, ProcessTypeOK
<1>5. \A d \in Execs : owner'[d] = IF d = e THEN "stopping" ELSE owner[d]
  BY <1>1 DEF IInv, TypeOK, TaskTypeOK
<1>6. QuietOwners
  BY <1>1, <1>5 DEF QuietOwners
<1>7. QuietProcesses
  BY <1>3 DEF QuietProcesses, IInv, StructInv, IdsInv
<1>8. StructInv'
  BY <1>1, <1>6, <1>7, QuietSame, QuietStep
<1>9. BudgetInv'
  BY <1>1, <1>3, <1>5, QuietSame, BudgetOwnerMoves
<1>10. QED  BY <1>4, <1>8, <1>9 DEF IInv

LEMMA OwnerRetryStep ==
    ASSUME IInv, NEW e \in Execs, OwnerRetry(e)
    PROVE  IInv'
<1>1. /\ UNCHANGED <<rows, triggered, said, result, session, ctl, ending, active, cancelled,
                     fails, child, fin, monitor, rerun, sup, conn, faults>>
      /\ owner' = [owner EXCEPT ![e] = "loop"] /\ owner[e] = "backoff"
  BY DEF OwnerRetry, OwnerIs, durableVars, memoryVars
<1>2. TypeOK'
  BY <1>1 DEF IInv, TypeOK, DurableTypeOK, MemoryTypeOK, TaskTypeOK, ProcessTypeOK
<1>3. \A d \in Execs : owner'[d] = IF d = e THEN "loop" ELSE owner[d]
  BY <1>1 DEF IInv, TypeOK, TaskTypeOK
<1>4. QuietOwners
  BY <1>1, <1>3 DEF QuietOwners
<1>5. StructInv'
  BY <1>1, <1>4, QuietSame, QuietStep
<1>6. BudgetInv'
  BY <1>1, <1>3, QuietSame, BudgetOwnerMoves
<1>7. QED  BY <1>2, <1>5, <1>6 DEF IInv

-----------------------------------------------------------------------------
(* Failures: a process that dies, a spawn that fails, the owner that counts. *)

\* Die leaves the process table in shape and forgets no process.
LEMMA DieFacts ==
    ASSUME IInv, NEW p \in Pids, Die(p)
    PROVE  /\ sup' \in [Pids -> Process] /\ conn' \in [Conns -> Connection]
           /\ \A r \in Pids : /\ sup'[r].exec = sup[r].exec
                              /\ r # p => sup'[r] = sup[r]
           /\ ~sup'[p].up
           /\ QuietConns /\ QuietProcesses
<1> DEFINE q == [NoProcess EXCEPT !.exec = sup[p].exec]
<1>1. sup \in [Pids -> Process] /\ conn \in [Conns -> Connection]
  BY DEF IInv, TypeOK, ProcessTypeOK
<1>2. q \in Process /\ q.exec = sup[p].exec /\ ~q.up
  BY <1>1 DEF NoProcess, Process
<1>3. sup' = [sup EXCEPT ![p] = q]
  BY DEF Die
<1> HIDE DEF q
<1>4. /\ sup' \in [Pids -> Process] /\ ~sup'[p].up
      /\ \A r \in Pids : sup'[r].exec = sup[r].exec /\ (r # p => sup'[r] = sup[r])
  BY <1>1, <1>2, <1>3
<1>5. \A c \in Conns : /\ conn'[c] = [conn[c] EXCEPT !.lost = conn[c].lost \/ conn[c].pid = p]
                       /\ conn[c] \in Connection
  BY <1>1 DEF Die
<1>6. conn' \in [Conns -> Connection]
  BY <1>1, <1>5 DEF Die, Connection
<1>7. QuietConns
  BY <1>5 DEF QuietConns, Connection
<1>8. QuietProcesses
  BY <1>4 DEF QuietProcesses, IInv, StructInv, IdsInv
<1>9. QED  BY <1>4, <1>6, <1>7, <1>8

\* A process that dies: of a fault, after its result, or killed by its owner.
LEMMA DieStep ==
    ASSUME IInv, NEW p \in Pids, Die(p),
           UNCHANGED <<rows, triggered, said, result, session, ctl, ending, active, cancelled,
                       owner, fails, child, fin, monitor, rerun>>,
           faults' \in 0..MaxFaults,
           \/ faults' = faults + 1
           \/ faults' = faults /\ sup[p].exec \in Execs /\ result[sup[p].exec]
           \/ faults' = faults /\ \E e \in Execs : owner[e] = "stopping" /\ child[e] = p
    PROVE  IInv'
<1>1. TypeOK'
  BY DieFacts DEF IInv, TypeOK, DurableTypeOK, MemoryTypeOK, TaskTypeOK, ProcessTypeOK
<1>2. StructInv'
  BY DieFacts, QuietSame, QuietStep
<1>3. faults \in Nat /\ faults' \in Nat /\ faults <= faults'
  BY DEF IInv, TypeOK, ProcessTypeOK
<1>4. ASSUME NEW d \in Execs
      PROVE  /\ owner'[d] \in {"spawned", "recorded", "waiting", "stopping"} =>
                  child[d] # 0 /\ sup'[child[d]].exec = d
             /\ Uncharged(d)' => Uncharged(d) \/ faults < faults'
  <2>1. CASE owner[d] \in {"spawned", "recorded", "waiting", "stopping"}
    <3>1. child[d] \in Pids /\ sup[child[d]].exec = d /\ child[d] # 0
      BY <1>4, <2>1, ChildFacts DEF Pids
    <3>2. CASE child[d] # p
      BY <3>1, <3>2, DieFacts DEF Uncharged
    <3>3. CASE child[d] = p /\ faults' = faults + 1
      BY <1>3, <3>1, <3>3, DieFacts
    <3>4. CASE child[d] = p /\ result[sup[p].exec]
      BY <1>4, <3>1, <3>4, DieFacts DEF Uncharged
    <3>5. CASE child[d] = p /\ \E e \in Execs : owner[e] = "stopping" /\ child[e] = p
      <4>1. PICK e \in Execs : owner[e] = "stopping" /\ child[e] = p
        BY <3>5
      <4>2. e = d
        BY <3>1, <3>5, <4>1, ChildFacts
      <4>3. QED  BY <3>1, <4>1, <4>2, DieFacts DEF Uncharged
    <3>6. QED  BY <3>2, <3>3, <3>4, <3>5
  <2>2. QED  BY <2>1 DEF Uncharged
<1>5. BudgetInv'
  BY <1>3, <1>4, BudgetStep
<1>6. QED  BY <1>1, <1>2, <1>5 DEF IInv

LEMMA OwnerKillStep ==
    ASSUME IInv, NEW e \in Execs, OwnerKill(e)
    PROVE  IInv'
<1>1. /\ Die(child[e]) /\ owner[e] = "stopping"
      /\ UNCHANGED <<rows, triggered, said, result, session, ctl, ending, active, cancelled,
                     owner, fails, child, fin, monitor, rerun, faults>>
  BY DEF OwnerKill, OwnerIs, durableVars, memoryVars, taskVars
<1>2. child[e] \in Pids
  BY <1>1, ChildFacts
<1>3. faults' \in 0..MaxFaults
  BY <1>1 DEF IInv, TypeOK, ProcessTypeOK
<1>4. QED  BY <1>1, <1>2, <1>3, DieStep

LEMMA SupervisorDiesStep ==
    ASSUME IInv, NEW p \in Pids, SupervisorExits(p) \/ SupervisorCrash(p)
    PROVE  IInv'
<1>1. /\ Die(p) /\ sup[p].up
      /\ UNCHANGED <<rows, triggered, said, result, session, ctl, ending, active, cancelled,
                     owner, fails, child, fin, monitor, rerun>>
      /\ \/ faults' = faults /\ result[sup[p].exec]
         \/ faults < MaxFaults /\ faults' = faults + 1
  BY DEF SupervisorExits, SupervisorCrash, Fault, durableVars, memoryVars, taskVars
<1>2. sup[p].exec # 0 /\ sup[p].exec \in 0..MaxExecs /\ faults \in 0..MaxFaults
  BY <1>1 DEF IInv, StructInv, IdsInv, TypeOK, ProcessTypeOK, Process
<1>3. sup[p].exec \in Execs /\ faults' \in 0..MaxFaults
  BY <1>1, <1>2, ManagerAssumption DEF Execs
<1>4. QED  BY <1>1, <1>3, DieStep

\* The owner of e counts a failure that a fault has paid for.
LEMMA CountFailureStep ==
    ASSUME IInv, NEW e \in Execs, CountFailure(e), owner[e] \notin {"none", "finish", "remove", "replace"},
           UNCHANGED <<rows, triggered, said, result, session, ctl, ending, active, cancelled,
                       child, monitor, rerun, sup, conn>>,
           faults' \in 0..MaxFaults, faults <= faults', fails[e] < faults'
    PROVE  IInv'
<1> DEFINE last == fails[e] + 1 >= LaunchBudget
<1>1. /\ fails \in [Execs -> 0..LaunchBudget] /\ LaunchBudget \in Nat
      /\ fin \in [Execs -> Outcomes \cup {"none"}] /\ faults \in Nat /\ faults' \in Nat
      /\ fails[e] < LaunchBudget
  BY ManagerAssumption DEF IInv, TypeOK, TaskTypeOK, ProcessTypeOK, BudgetInv
<1>2. fails[e] + 1 \in 0..LaunchBudget
  BY <1>1
<1>3. TypeOK'
  <2>1. fails' \in [Execs -> 0..LaunchBudget] /\ fin' \in [Execs -> Outcomes \cup {"none"}]
    BY <1>1, <1>2 DEF CountFailure, Outcomes
  <2>2. TaskTypeOK'
    BY <2>1 DEF IInv, TypeOK, TaskTypeOK, CountFailure
  <2>3. QED  BY <2>2 DEF IInv, TypeOK, DurableTypeOK, MemoryTypeOK, ProcessTypeOK
<1>4. /\ \A d \in Execs : d # e => /\ owner'[d] = owner[d] /\ fails'[d] = fails[d]
                                   /\ fin'[d] = fin[d]
      /\ owner'[e] = IF last THEN "finish" ELSE "backoff"
      /\ fails'[e] = fails[e] + 1
      /\ fin'[e] = IF last THEN "unavailable" ELSE fin[e]
  BY <1>1 DEF CountFailure, IInv, TypeOK, TaskTypeOK
<1>5. QuietOwners
  BY <1>4 DEF QuietOwners
<1>6. StructInv'
  BY <1>5, QuietSame, QuietStep
<1>7. ASSUME NEW d \in Execs, d # e
      PROVE  /\ owner'[d] \in {"spawned", "recorded", "waiting", "stopping"} =>
                  child'[d] # 0 /\ sup'[child'[d]].exec = d
             /\ owner'[d] # "finish" => fails'[d] < LaunchBudget
             /\ fails'[d] <= faults'
             /\ Uncharged(d)' => fails'[d] < faults'
             /\ fin'[d] = "unavailable" => faults' >= LaunchBudget
  <2>1. fails[d] \in Nat
    BY <1>1, <1>7
  <2>2. QED  BY <1>1, <1>4, <1>7, <2>1 DEF IInv, BudgetInv, Uncharged
<1>8. /\ owner'[e] \notin {"spawned", "recorded", "waiting", "stopping"}
      /\ owner'[e] # "finish" => fails'[e] < LaunchBudget
      /\ fails'[e] <= faults'
      /\ fin'[e] = "unavailable" => faults' >= LaunchBudget
  <2>1. fails[e] \in Nat
    BY <1>1
  <2>2. fin[e] = "unavailable" => faults >= LaunchBudget
    BY DEF IInv, BudgetInv
  <2>3. QED  BY <1>1, <1>4, <2>1, <2>2
<1>9. GivenUpAfterBudget'
  BY <1>1 DEF IInv, BudgetInv, GivenUpAfterBudget
<1>10. BudgetInv'
  BY <1>7, <1>8, <1>9 DEF BudgetInv, Uncharged
<1>11. QED  BY <1>3, <1>6, <1>10 DEF IInv

LEMMA OwnerSpawnFailsStep ==
    ASSUME IInv, NEW e \in Execs, OwnerSpawnFails(e)
    PROVE  IInv'
<1>1. /\ CountFailure(e) /\ owner[e] = "loop" /\ faults < MaxFaults /\ faults' = faults + 1
      /\ UNCHANGED <<rows, triggered, said, result, session, ctl, ending, active, cancelled,
                     child, monitor, rerun, sup, conn>>
  BY DEF OwnerSpawnFails, OwnerIs, Fault, durableVars, memoryVars
<1>2. faults \in Nat /\ faults' \in 0..MaxFaults /\ faults <= faults' /\ fails[e] < faults'
  <2>1. faults \in Nat /\ MaxFaults \in Nat /\ LaunchBudget \in Nat /\ fails[e] \in 0..LaunchBudget
        /\ fails[e] <= faults
    BY ManagerAssumption DEF IInv, TypeOK, ProcessTypeOK, TaskTypeOK, BudgetInv
  <2>2. QED  BY <1>1, <2>1
<1>3. QED  BY <1>1, <1>2, CountFailureStep

LEMMA OwnerReapStep ==
    ASSUME IInv, NEW e \in Execs, OwnerReap(e)
    PROVE  IInv'
<1>1. /\ owner[e] \in {"waiting", "stopping"} /\ ~sup[child[e]].up
      /\ UNCHANGED <<rows, triggered, said, result, session, ctl, ending, active, cancelled,
                     child, monitor, rerun, sup, conn, faults>>
  BY DEF OwnerReap, OwnerIs, durableVars, memoryVars
<1>2. CASE Charged(e)
  <2>1. Uncharged(e) /\ CountFailure(e)
    BY <1>1, <1>2 DEF Charged, Uncharged, OwnerReap
  <2>2. fails[e] < faults' /\ faults' \in 0..MaxFaults /\ faults <= faults'
    BY <1>1, <2>1 DEF IInv, BudgetInv, TypeOK, ProcessTypeOK
  <2>3. QED  BY <1>1, <2>1, <2>2, CountFailureStep
<1>3. CASE ~Charged(e)
  <2>1. /\ owner' = [owner EXCEPT ![e] = "finish"] /\ UNCHANGED fails
        /\ fin' = [fin EXCEPT ![e] = IF result[e] THEN "reported" ELSE "stopped"]
    BY <1>3 DEF OwnerReap
  <2>2. TypeOK'
    BY <1>1, <2>1
       DEF IInv, TypeOK, DurableTypeOK, MemoryTypeOK, TaskTypeOK, ProcessTypeOK, Outcomes
  <2>3. \A d \in Execs : /\ owner'[d] = IF d = e THEN "finish" ELSE owner[d]
                         /\ fin'[d] = "unavailable" => fin[d] = "unavailable"
    BY <2>1 DEF IInv, TypeOK, TaskTypeOK
  <2>4. QuietOwners
    BY <1>1, <2>3 DEF QuietOwners
  <2>5. StructInv'
    BY <1>1, <2>4, QuietSame, QuietStep
  <2>6. BudgetInv'
    BY <1>1, <2>1, <2>3, QuietSame, BudgetOwnerMoves
  <2>7. QED  BY <2>2, <2>5, <2>6 DEF IInv
<1>4. QED  BY <1>2, <1>3

-----------------------------------------------------------------------------
(* Attachments and supervisors. *)

\* A running task of a connection names an execution and a process.
LEMMA ConnFacts ==
    ASSUME IInv, NEW c \in Conns, conn[c].phase # "none"
    PROVE  /\ conn[c].exec \in Execs /\ conn[c].exec \in 1..Len(rows) /\ conn[c].pid \in Pids
           /\ ctl # "down"
<1>1. /\ conn[c].exec \in 0..MaxExecs /\ conn[c].pid \in 0..MaxPids
      /\ conn[c].exec # 0 /\ conn[c].pid # 0 /\ conn[c].exec <= Len(rows)
      /\ MaxExecs \in Nat /\ MaxPids \in Nat /\ Len(rows) \in Nat
  BY RowFacts, ManagerAssumption
     DEF IInv, StructInv, IdsInv, TypeOK, ProcessTypeOK, Connection
<1>2. QED  BY <1>1 DEF Execs, Pids, IInv, StructInv, DownInv

LEMMA ProcessFacts ==
    ASSUME IInv, NEW p \in Pids, sup[p].up
    PROVE  sup[p].exec \in Execs /\ sup[p].exec \in 1..Len(rows)
<1>1. /\ sup[p].exec # 0 /\ sup[p].exec \in 0..MaxExecs /\ sup[p].exec <= Len(rows)
      /\ MaxExecs \in Nat /\ Len(rows) \in Nat
  BY RowFacts, ManagerAssumption DEF IInv, StructInv, IdsInv, TypeOK, ProcessTypeOK, Process
<1>2. QED  BY <1>1 DEF Execs

LEMMA AttachStep ==
    ASSUME IInv, NEW p \in Pids, Attach(p)
    PROVE  IInv'
<1> DEFINE k == [NoConn EXCEPT !.pid = p, !.exec = sup[p].exec, !.phase = "serving"]
<1>1. PICK c \in Conns :
        /\ conn[c].phase = "none" /\ conn' = [conn EXCEPT ![c] = k]
        /\ sup' = [sup EXCEPT ![p].conn = c]
        /\ active' = [active EXCEPT !.pid = p, !.state = "live", !.att = c]
  BY DEF Attach
<1>2. /\ ctl = "serving" /\ sup[p].up /\ active.exec = sup[p].exec
      /\ rows' = IF active.owned THEN [rows EXCEPT ![active.exec].pid = p] ELSE rows
      /\ UNCHANGED <<triggered, said, result, session, ctl, ending, cancelled, owner, fails,
                     child, fin, monitor, rerun, faults>>
  BY DEF Attach, MayAttach, taskVars
<1>3. sup[p].exec \in Execs /\ sup[p].exec \in 1..Len(rows) /\ p \in 0..MaxPids /\ p # 0
  BY <1>2, ProcessFacts, ManagerAssumption DEF Pids
<1>4. rows' \in Seq(Row) /\ Len(rows') <= MaxExecs /\ SameRows
  BY <1>2, <1>3, RecordPid, RowFacts, QuietSame
<1>5. /\ active \in Active /\ sup \in [Pids -> Process] /\ conn \in [Conns -> Connection]
      /\ sup[p].exec \in 0..MaxExecs
  BY DEF IInv, TypeOK, MemoryTypeOK, ProcessTypeOK, Process
<1>6. /\ k \in Connection /\ k.exec = sup[p].exec /\ k.pid = p /\ k.phase = "serving"
  BY <1>3, <1>5 DEF NoConn, Connection, Phases
<1> HIDE DEF k
<1>7. active' \in Active /\ active'.exec = active.exec /\ active'.owned = active.owned
  BY <1>1, <1>3, <1>5 DEF Active
<1>8. /\ sup' \in [Pids -> Process]
      /\ \A r \in Pids : sup'[r].exec = sup[r].exec /\ sup'[r].up = sup[r].up
  BY <1>1, <1>5 DEF Process
<1>9. /\ conn' \in [Conns -> Connection]
      /\ \A d \in Conns : conn'[d] = IF d = c THEN k ELSE conn[d]
  BY <1>1, <1>5, <1>6
<1>10. TypeOK'
  BY <1>2, <1>4, <1>7, <1>8, <1>9
     DEF IInv, TypeOK, DurableTypeOK, MemoryTypeOK, TaskTypeOK, ProcessTypeOK
<1>11. QuietConns
  BY <1>1, <1>2, <1>3, <1>6, <1>9, RowFacts DEF QuietConns
<1>12. QuietProcesses
  BY <1>8 DEF QuietProcesses, IInv, StructInv, IdsInv
<1>13. StructInv'
  BY <1>2, <1>4, <1>7, <1>11, <1>12, QuietSame, QuietStep
<1>14. BudgetInv'
  BY <1>2, <1>4, <1>8, BudgetSame
<1>15. QED  BY <1>10, <1>13, <1>14 DEF IInv

LEMMA DeliverCommandStep ==
    ASSUME IInv, NEW c \in Conns, DeliverCommand(c)
    PROVE  IInv'
<1> DEFINE p == conn[c].pid
<1>1. /\ UNCHANGED <<rows, triggered, said, result, session, ctl, ending, active, cancelled,
                     owner, fails, child, fin, monitor, rerun, faults>>
      /\ sup' = [sup EXCEPT ![p].stop = TRUE]
      /\ conn' = [conn EXCEPT ![c].cmd = FALSE] /\ conn[c].phase = "serving"
  BY DEF DeliverCommand, Serving, durableVars, memoryVars, taskVars
<1>2. p \in Pids /\ sup \in [Pids -> Process] /\ conn \in [Conns -> Connection]
  BY <1>1, ConnFacts DEF IInv, TypeOK, ProcessTypeOK
<1>3. /\ sup' \in [Pids -> Process]
      /\ \A r \in Pids : sup'[r].exec = sup[r].exec /\ sup'[r].up = sup[r].up
  <2>1. LET q == [sup[p] EXCEPT !.stop = TRUE]
        IN  q \in Process /\ q.exec = sup[p].exec /\ q.up = sup[p].up
    BY <1>2 DEF Process
  <2>2. QED  BY <1>1, <1>2, <2>1
<1>4. /\ conn' \in [Conns -> Connection]
      /\ \A d \in Conns : /\ conn'[d].exec = conn[d].exec /\ conn'[d].pid = conn[d].pid
                          /\ conn'[d].phase = conn[d].phase
  BY <1>1, <1>2 DEF Connection
<1>5. TypeOK'
  BY <1>1, <1>3, <1>4
     DEF IInv, TypeOK, DurableTypeOK, MemoryTypeOK, TaskTypeOK, ProcessTypeOK
<1>6. QuietConns /\ QuietProcesses
  BY <1>3, <1>4 DEF QuietConns, QuietProcesses, IInv, StructInv, IdsInv
<1>7. StructInv'
  BY <1>1, <1>6, QuietSame, QuietStep
<1>8. BudgetInv'
  BY <1>1, <1>3, QuietSame, BudgetSame
<1>9. QED  BY <1>5, <1>7, <1>8 DEF IInv

LEMMA RecordProgressStep ==
    ASSUME IInv, NEW c \in Conns, RecordProgress(c)
    PROVE  IInv'
<1>1. /\ UNCHANGED <<rows, triggered, said, result, session, ctl, ending, cancelled,
                     owner, fails, child, fin, monitor, rerun, sup, conn, faults>>
      /\ active' = [active EXCEPT !.state = "live"]
  BY DEF RecordProgress, durableVars, taskVars
<1>2. active' \in Active /\ active'.exec = active.exec /\ active'.owned = active.owned
  BY <1>1 DEF IInv, TypeOK, MemoryTypeOK, Active
<1>3. TypeOK'
  BY <1>1, <1>2 DEF IInv, TypeOK, DurableTypeOK, MemoryTypeOK, TaskTypeOK, ProcessTypeOK
<1>4. StructInv'
  BY <1>1, <1>2, QuietSame, QuietStep
<1>5. BudgetInv'
  BY <1>1, QuietSame, BudgetSame
<1>6. QED  BY <1>3, <1>4, <1>5 DEF IInv

\* A connection changes its phase before the row is touched.
LEMMA ConnPhaseStep ==
    ASSUME IInv, NEW c \in Conns, NEW phase \in {"serving", "checked"},
           conn[c].phase \in {"serving", "checked"},
           conn' = [conn EXCEPT ![c].phase = phase], said' \in [Execs -> BOOLEAN],
           UNCHANGED <<rows, triggered, result, session, ctl, ending, active, cancelled,
                       owner, fails, child, fin, monitor, rerun, sup, faults>>
    PROVE  IInv'
<1>1. conn \in [Conns -> Connection]
  BY DEF IInv, TypeOK, ProcessTypeOK
<1>2. /\ conn' \in [Conns -> Connection]
      /\ \A d \in Conns : /\ conn'[d].exec = conn[d].exec /\ conn'[d].pid = conn[d].pid
                          /\ conn'[d].phase = IF d = c THEN phase ELSE conn[d].phase
  BY <1>1 DEF Connection, Phases
<1>3. TypeOK'
  BY <1>2 DEF IInv, TypeOK, DurableTypeOK, MemoryTypeOK, TaskTypeOK, ProcessTypeOK
<1>4. conn[c].exec \in 1..Len(rows) /\ conn[c].pid \in Pids /\ ctl # "down"
  BY ConnFacts
<1>5. conn[c].exec # 0 /\ conn[c].exec <= Len(rows) /\ conn[c].pid # 0
  BY <1>4, RowFacts, ManagerAssumption DEF Pids
<1>6. QuietConns
  BY <1>2, <1>4, <1>5 DEF QuietConns
<1>7. StructInv'
  BY <1>6, QuietSame, QuietStep
<1>8. BudgetInv'
  BY QuietSame, BudgetSame
<1>9. QED  BY <1>3, <1>7, <1>8 DEF IInv

LEMMA RecordTerminalStep ==
    ASSUME IInv, NEW c \in Conns, RecordTerminal(c)
    PROVE  IInv'
<1>1. /\ UNCHANGED <<rows, triggered, result, session, ctl, ending, active, cancelled,
                     owner, fails, child, fin, monitor, rerun, sup, faults>>
      /\ conn[c].phase = "serving"
      /\ \/ conn' = [conn EXCEPT ![c].phase = "checked"] /\ UNCHANGED said
         \/ said' = [said EXCEPT ![conn[c].exec] = FALSE] /\ UNCHANGED conn
  BY DEF RecordTerminal, Serving, memoryVars, taskVars
<1>2. said \in [Execs -> BOOLEAN] /\ conn \in [Conns -> Connection]
  BY DEF IInv, TypeOK, DurableTypeOK, ProcessTypeOK
<1>3. CASE conn' = [conn EXCEPT ![c].phase = "checked"] /\ UNCHANGED said
  BY <1>1, <1>2, <1>3, ConnPhaseStep
<1>4. CASE said' = [said EXCEPT ![conn[c].exec] = FALSE] /\ UNCHANGED conn
  <2>1. conn' = [conn EXCEPT ![c].phase = "serving"]
    BY <1>1, <1>2, <1>4 DEF Connection
  <2>2. said' \in [Execs -> BOOLEAN]
    BY <1>2, <1>4
  <2>3. QED  BY <1>1, <2>1, <2>2, ConnPhaseStep
<1>5. QED  BY <1>1, <1>3, <1>4

LEMMA DisconnectedStep ==
    ASSUME IInv, NEW c \in Conns, Disconnected(c)
    PROVE  IInv'
<1>1. /\ UNCHANGED <<rows, triggered, said, result, session, ctl, ending, cancelled,
                     owner, fails, child, fin, monitor, rerun, faults>>
      /\ conn[c].phase = "serving" /\ conn' = [conn EXCEPT ![c] = NoConn]
      /\ sup' = [p \in Pids |-> [sup[p] EXCEPT !.conn = IF sup[p].conn = c THEN 0 ELSE sup[p].conn]]
      /\ active' \in {active, [active EXCEPT !.state = "recovering", !.att = 0]}
  BY DEF Disconnected, Serving, durableVars, taskVars
<1>2. /\ active \in Active /\ sup \in [Pids -> Process] /\ conn \in [Conns -> Connection]
  BY DEF IInv, TypeOK, MemoryTypeOK, ProcessTypeOK
<1>3. active' \in Active /\ active'.exec = active.exec /\ active'.owned = active.owned
  BY <1>1, <1>2 DEF Active
<1>4. /\ sup' \in [Pids -> Process]
      /\ \A r \in Pids : sup'[r].exec = sup[r].exec /\ sup'[r].up = sup[r].up
  <2>1. ASSUME NEW r \in Pids
        PROVE  sup'[r] = sup[r] \/ sup'[r] = [sup[r] EXCEPT !.conn = 0]
    BY <1>1, <1>2 DEF Process
  <2>2. ASSUME NEW r \in Pids
        PROVE  sup'[r] \in Process /\ sup'[r].exec = sup[r].exec /\ sup'[r].up = sup[r].up
    <3>1. sup[r] \in Process
      BY <1>2
    <3>2. CASE sup'[r] = sup[r]
      BY <3>1, <3>2
    <3>3. CASE sup'[r] = [sup[r] EXCEPT !.conn = 0]
      BY <3>1, <3>3 DEF Process
    <3>4. QED  BY <2>1, <3>2, <3>3
  <2>3. QED  BY <1>1, <2>2
<1>5. NoConn \in Connection /\ NoConn.exec = 0 /\ NoConn.phase = "none"
  BY ManagerAssumption DEF NoConn, Connection, Phases
<1>6. /\ conn' \in [Conns -> Connection]
      /\ \A d \in Conns : conn'[d] = IF d = c THEN NoConn ELSE conn[d]
  BY <1>1, <1>2, <1>5
<1>7. TypeOK'
  BY <1>1, <1>3, <1>4, <1>6
     DEF IInv, TypeOK, DurableTypeOK, MemoryTypeOK, TaskTypeOK, ProcessTypeOK
<1>8. QuietConns
  BY <1>1, <1>5, <1>6, RowFacts DEF QuietConns
<1>9. QuietProcesses
  BY <1>4 DEF QuietProcesses, IInv, StructInv, IdsInv
<1>10. StructInv'
  BY <1>1, <1>3, <1>8, <1>9, QuietSame, QuietStep
<1>11. BudgetInv'
  BY <1>1, <1>4, QuietSame, BudgetSame
<1>12. QED  BY <1>7, <1>10, <1>11 DEF IInv

LEMMA SupervisorEndsStep ==
    ASSUME IInv, NEW p \in Pids, SupervisorEnds(p)
    PROVE  IInv'
<1>1. /\ UNCHANGED <<rows, triggered, result, session, ctl, ending, active, cancelled,
                     owner, fails, child, fin, monitor, rerun, conn, faults>>
      /\ sup' = [sup EXCEPT ![p].out = TRUE]
      /\ said' = [said EXCEPT ![sup[p].exec] = TRUE]
  BY DEF SupervisorEnds, memoryVars, taskVars
<1>2. said \in [Execs -> BOOLEAN] /\ sup \in [Pids -> Process]
  BY DEF IInv, TypeOK, DurableTypeOK, ProcessTypeOK
<1>3. /\ sup' \in [Pids -> Process] /\ said' \in [Execs -> BOOLEAN]
      /\ \A r \in Pids : sup'[r].exec = sup[r].exec /\ sup'[r].up = sup[r].up
  BY <1>1, <1>2 DEF Process
<1>4. TypeOK'
  BY <1>1, <1>3 DEF IInv, TypeOK, DurableTypeOK, MemoryTypeOK, TaskTypeOK, ProcessTypeOK
<1>5. QuietProcesses
  BY <1>3 DEF QuietProcesses, IInv, StructInv, IdsInv
<1>6. StructInv'
  BY <1>1, <1>5, QuietSame, QuietStep
<1>7. BudgetInv'
  BY <1>1, <1>3, QuietSame, BudgetSame
<1>8. QED  BY <1>4, <1>6, <1>7 DEF IInv

LEMMA SupervisorResultStep ==
    ASSUME IInv, NEW p \in Pids, SupervisorResult(p)
    PROVE  IInv'
<1>1. /\ UNCHANGED <<rows, triggered, said, session, ctl, ending, active, cancelled,
                     owner, fails, child, fin, monitor, rerun, sup, conn, faults>>
      /\ result' = [result EXCEPT ![sup[p].exec] = TRUE]
  BY DEF SupervisorResult, memoryVars, taskVars
<1>2. result' \in [Execs -> BOOLEAN] /\ \A e \in Execs : result[e] => result'[e]
  BY <1>1 DEF IInv, TypeOK, DurableTypeOK
<1>3. TypeOK'
  BY <1>1, <1>2 DEF IInv, TypeOK, DurableTypeOK, MemoryTypeOK, TaskTypeOK, ProcessTypeOK
<1>4. StructInv'
  BY <1>1, QuietSame, QuietStep
<1>5. faults' \in Nat /\ faults <= faults'
  BY <1>1 DEF IInv, TypeOK, ProcessTypeOK
<1>6. \A e \in Execs : /\ owner'[e] \in {"spawned", "recorded", "waiting", "stopping"} =>
                             child[e] # 0 /\ sup'[child[e]].exec = e
                       /\ Uncharged(e)' => Uncharged(e)
  BY <1>1, <1>2 DEF IInv, BudgetInv, Uncharged
<1>7. BudgetInv'
  BY <1>1, <1>5, <1>6, BudgetStep
<1>8. QED  BY <1>3, <1>4, <1>7 DEF IInv

LEMMA ConnectionLostStep ==
    ASSUME IInv, NEW p \in Pids, ConnectionLost(p)
    PROVE  IInv'
<1> DEFINE c == sup[p].conn
<1>1. /\ UNCHANGED <<rows, triggered, said, result, session, ctl, ending, active, cancelled,
                     owner, fails, child, fin, monitor, rerun>>
      /\ c # 0 /\ faults < MaxFaults /\ faults' = faults + 1
      /\ conn' = [conn EXCEPT ![c].lost = TRUE] /\ sup' = [sup EXCEPT ![p].conn = 0]
  BY DEF ConnectionLost, Fault, durableVars, memoryVars, taskVars
<1>2. /\ sup \in [Pids -> Process] /\ conn \in [Conns -> Connection] /\ faults \in 0..MaxFaults
      /\ MaxFaults \in Nat
  BY ManagerAssumption DEF IInv, TypeOK, ProcessTypeOK
<1>3. c \in Conns
  BY <1>1, <1>2 DEF Process
<1>4. /\ sup' \in [Pids -> Process] /\ faults' \in 0..MaxFaults /\ faults' \in Nat
      /\ faults < faults' /\ faults <= faults'
      /\ \A r \in Pids : sup'[r].exec = sup[r].exec /\ sup'[r].up = sup[r].up
  BY <1>1, <1>2 DEF Process
<1>5. /\ conn' \in [Conns -> Connection]
      /\ \A d \in Conns : /\ conn'[d].exec = conn[d].exec /\ conn'[d].pid = conn[d].pid
                          /\ conn'[d].phase = conn[d].phase
  BY <1>1, <1>2, <1>3 DEF Connection
<1>6. TypeOK'
  BY <1>1, <1>4, <1>5
     DEF IInv, TypeOK, DurableTypeOK, MemoryTypeOK, TaskTypeOK, ProcessTypeOK
<1>7. QuietConns /\ QuietProcesses
  BY <1>4, <1>5 DEF QuietConns, QuietProcesses, IInv, StructInv, IdsInv
<1>8. StructInv'
  BY <1>1, <1>7, QuietSame, QuietStep
<1>9. \A e \in Execs : owner'[e] \in {"spawned", "recorded", "waiting", "stopping"} =>
                           child[e] # 0 /\ sup'[child[e]].exec = e
  <2> SUFFICES ASSUME NEW e \in Execs,
                      owner'[e] \in {"spawned", "recorded", "waiting", "stopping"}
               PROVE  child[e] # 0 /\ sup'[child[e]].exec = e
    OBVIOUS
  <2>1. child[e] \in Pids /\ sup[child[e]].exec = e
    BY <1>1, ChildFacts
  <2>2. QED  BY <1>4, <2>1 DEF Pids
<1>10. BudgetInv'
  BY <1>1, <1>4, <1>9, BudgetStep
<1>11. QED  BY <1>6, <1>8, <1>10 DEF IInv

-----------------------------------------------------------------------------
(* A new execution. *)

\* start appends an open row and makes it the active execution.
LEMMA StartFacts ==
    ASSUME IInv, NEW auto \in BOOLEAN, NEW of \in 0..Len(rows), Start(auto, of)
    PROVE  LET n == Len(rows) + 1 IN
           /\ n \in Execs /\ active.exec = 0
           /\ rows' \in Seq(Row) /\ Len(rows') = n /\ Len(rows') <= MaxExecs
           /\ \A d \in 1..Len(rows) : rows'[d] = rows[d]
           /\ rows'[n].open /\ rows'[n].outcome = "none" /\ rows'[n].sess = session
           /\ rows'[n].auto = auto /\ rows'[n].of = of
           /\ active' \in Active /\ active'.exec = n /\ active'.owned
<1> DEFINE n == Len(rows) + 1
           r == [open |-> TRUE, outcome |-> "none", pid |-> 0, sess |-> session,
                 auto |-> auto, of |-> of]
<1>1. /\ active.exec = 0 /\ Len(rows) < MaxExecs /\ rows' = Append(rows, r)
      /\ active' = [NoActive EXCEPT !.exec = n, !.owned = TRUE]
  BY DEF Start, CanStart
<1>2. /\ MaxExecs \in Nat /\ Len(rows) \in Nat /\ rows \in Seq(Row) /\ MaxPids \in Nat
      /\ session \in 1..MaxSessions
  BY RowFacts, ManagerAssumption DEF IInv, TypeOK, DurableTypeOK
<1>3. n \in Execs /\ n \in 0..MaxExecs /\ of \in 0..MaxExecs /\ 0 \in 0..MaxPids
  BY <1>1, <1>2 DEF Execs
<1>4. r \in Row
  BY <1>2, <1>3 DEF Row
<1>5. active' \in Active /\ active'.exec = n /\ active'.owned
  BY <1>1, <1>3 DEF NoActive, Active
<1>6. /\ r.open /\ r.outcome = "none" /\ r.sess = session /\ r.auto = auto /\ r.of = of
  OBVIOUS
<1> HIDE DEF r
<1>7. /\ rows' \in Seq(Row) /\ Len(rows') = n /\ rows'[n] = r
      /\ \A d \in 1..Len(rows) : rows'[d] = rows[d]
  BY <1>1, <1>2, <1>4, AppendProperties
<1>8. Len(rows') <= MaxExecs
  BY <1>1, <1>2, <1>7
<1>9. QED  BY <1>1, <1>3, <1>5, <1>6, <1>7, <1>8

\* The structure when execution n starts for the task that claimed the
\* replacement of of, or for nobody (of = 0).
LEMMA StartStruct ==
    ASSUME IInv, NEW auto \in BOOLEAN, NEW of \in 0..Len(rows), Start(auto, of),
           ctl' = "serving", UNCHANGED <<session, sup>>,
           IF auto /\ Kind = "job" THEN triggered # session /\ triggered' = session
                                   ELSE triggered' = triggered,
           owner'[Len(rows) + 1] = "loop",
           \A d \in Execs : d # Len(rows) + 1 =>
               owner'[d] = owner[d] \/ (owner[d] = "replace" /\ owner'[d] = "none"),
           \A d \in Execs :
               monitor'[d] = monitor[d] \/ (monitor[d] = "replace" /\ monitor'[d] = "none"),
           \A c \in Conns :
               /\ conn'[c].exec = conn[c].exec /\ conn'[c].pid = conn[c].pid
               /\ \/ conn'[c].phase = conn[c].phase
                  \/ conn[c].phase = "replace" /\ conn'[c].phase = "serving",
           of # 0 => /\ ~rows[of].open /\ owner'[of] # "replace"
                     /\ monitor'[of] \notin {"finishThenReplace", "replace"}
                     /\ \A c \in Conns : conn[c].exec = of => conn'[c].phase # "replace"
                     /\ \A d \in 1..Len(rows) : rows[d].of # of
    PROVE  StructInv'
<1> DEFINE n == Len(rows) + 1
<1>1. /\ n \in Execs /\ active.exec = 0 /\ Len(rows') = n
      /\ \A d \in 1..Len(rows) : rows'[d] = rows[d]
      /\ rows'[n].open /\ rows'[n].sess = session
      /\ rows'[n].auto = auto /\ rows'[n].of = of
      /\ active'.exec = n /\ active'.owned
  BY StartFacts
<1>2. Len(rows) \in Nat /\ Execs \subseteq Nat \ {0} /\ n > Len(rows) /\ n # 0
  BY RowFacts DEF Execs
<1>3. /\ \A d \in 1..Len(rows) : rows[d].of \in Nat
      /\ \A d \in 1..n : d = n \/ d \in 1..Len(rows)
      /\ \A d \in 1..Len(rows) : d # n /\ d \in Execs
  BY <1>2, RowFacts DEF Row, Execs
<1>4. owner[n] = "none" /\ monitor[n] = "none" /\ monitor'[n] = "none"
  BY <1>1, <1>2 DEF IInv, StructInv, IdsInv
<1>5. \A c \in Conns : conn[c].exec # n /\ conn[c].exec <= n /\ conn[c].exec \in Nat
  BY <1>2 DEF IInv, StructInv, IdsInv, TypeOK, ProcessTypeOK, Connection
<1>6. IdsInv'
  <2>1. \A e \in Execs : owner'[e] # "none" \/ monitor'[e] # "none" => e <= n
    BY <1>1, <1>2, <1>4 DEF IInv, StructInv, IdsInv
  <2>2. \A c \in Conns : /\ conn'[c].exec <= n
                         /\ conn'[c].phase # "none" => conn'[c].exec # 0 /\ conn'[c].pid # 0
    BY <1>5 DEF IInv, StructInv, IdsInv
  <2>3. \A p \in Pids : sup'[p].exec <= n /\ (sup'[p].up => sup'[p].exec # 0)
    <3>1. \A p \in Pids : sup[p].exec \in Nat
      BY DEF IInv, TypeOK, ProcessTypeOK, Process
    <3>2. QED  BY <1>2, <3>1 DEF IInv, StructInv, IdsInv
  <2>4. \A e \in 1..n : rows'[e].of <= n
    BY <1>1, <1>2, <1>3 DEF IInv, StructInv, IdsInv
  <2>5. QED  BY <1>1, <1>2, <2>1, <2>2, <2>3, <2>4 DEF IdsInv
<1>7. DownInv'
  BY DEF DownInv
<1>8. TriggerInv'
  <2>1. triggered \in Nat /\ session \in Nat /\ triggered <= session
    BY DEF IInv, TypeOK, DurableTypeOK, StructInv, TriggerInv
  <2>2. \A d \in 1..Len(rows) : rows[d].sess \in Nat
    <3>1. \A r \in Row : r.sess \in Nat
      BY ManagerAssumption DEF Row
    <3>2. \A d \in 1..Len(rows) : rows[d] \in Row
      BY RowFacts
    <3>3. QED  BY <3>1, <3>2
  <2>3. triggered' <= session'
    BY <2>1
  <2>4. CASE Kind = "job" /\ auto
    <3>1. \A d \in 1..Len(rows) : rows[d].auto => rows[d].sess < session
      BY <2>1, <2>2, <2>4 DEF IInv, StructInv, TriggerInv
    <3>2. \A e \in 1..n : rows'[e].auto => rows'[e].sess <= triggered'
      BY <1>1, <1>3, <2>1, <2>2, <2>4, <3>1
    <3>3. \A d, e \in 1..Len(rows) :
            rows[d].auto /\ rows[e].auto /\ rows[d].sess = rows[e].sess => d = e
      BY <2>4 DEF IInv, StructInv, TriggerInv
    <3>4. \A d \in 1..Len(rows) : rows[d].auto => rows[d].sess # session
      BY <2>1, <2>2, <3>1
    <3>5. \A d, e \in 1..n :
            rows'[d].auto /\ rows'[e].auto /\ rows'[d].sess = rows'[e].sess => d = e
      BY <1>1, <1>3, <3>3, <3>4
    <3>6. QED  BY <1>1, <2>3, <3>2, <3>5 DEF TriggerInv
  <2>5. CASE ~(Kind = "job" /\ auto)
    BY <1>1, <1>3, <2>3, <2>5 DEF IInv, StructInv, TriggerInv
  <2>6. QED  BY <2>4, <2>5
<1>9. DriverInv'
  <2>1. \A d \in Execs : monitor'[d] \in {"none", "poll"} \/ n # d
    BY <1>4
  <2>2. \A d \in Execs : monitor'[d] = "none" \/ owner'[d] = "none"
    BY <1>4 DEF IInv, StructInv, DriverInv
  <2>3. QED  BY <1>1, <2>1, <2>2 DEF DriverInv
<1>10. OpenInv'
  BY <1>1 DEF OpenInv
<1>11. ClosedInv'
  <2> SUFFICES ASSUME NEW e \in 1..n, rows'[e].open
               PROVE  /\ owner'[e] \notin {"remove", "replace"} /\ monitor'[e] # "replace"
                      /\ \A c \in Conns : conn'[c].exec = e =>
                           conn'[c].phase \notin {"committed", "replace"}
                      /\ \A d \in 1..n : rows'[d].of # e
    BY <1>1 DEF ClosedInv
  <2>1. CASE e = n
    <3>1. \A d \in 1..n : rows'[d].of # n
      BY <1>1, <1>2, <1>3 DEF IInv, StructInv, IdsInv
    <3>2. QED  BY <1>4, <1>5, <2>1, <3>1
  <2>2. CASE e \in 1..Len(rows)
    <3>1. rows[e].open /\ e # n /\ e \in Execs /\ e # 0
      BY <1>1, <1>3, <2>2, <1>2
    <3>2. /\ owner[e] \notin {"remove", "replace"} /\ monitor[e] # "replace"
          /\ \A c \in Conns : conn[c].exec = e => conn[c].phase \notin {"committed", "replace"}
          /\ \A d \in 1..Len(rows) : rows[d].of # e
      BY <2>2, <3>1 DEF IInv, StructInv, ClosedInv
    <3>3. of # e
      BY <3>1
    <3>4. \A d \in 1..n : rows'[d].of # e
      BY <1>1, <1>3, <3>2, <3>3
    <3>5. QED  BY <3>1, <3>2, <3>4
  <2>3. QED  BY <1>3, <2>1, <2>2
<1>12. ClaimInv'
  <2> SUFFICES ASSUME NEW e \in Execs
               PROVE  /\ \A d \in 1..n :
                           rows'[d].of = e =>
                               /\ n # e /\ owner'[e] # "replace"
                               /\ monitor'[e] \notin {"finishThenReplace", "replace"}
                               /\ \A c \in Conns : ~(conn'[c].phase = "replace" /\ conn'[c].exec = e)
                               /\ \A f \in 1..n : rows'[f].of = e => f = d
                      /\ \A c \in Conns :
                           conn'[c].phase = "replace" /\ conn'[c].exec = e =>
                               /\ n # e /\ owner'[e] # "replace"
                               /\ monitor'[e] \notin {"finishThenReplace", "replace"}
                               /\ \A f \in Conns :
                                    conn'[f].phase = "replace" /\ conn'[f].exec = e => f = c
                      /\ owner'[e] = "replace" =>
                           n # e /\ monitor'[e] \notin {"finishThenReplace", "replace"}
                      /\ monitor'[e] \in {"finishThenReplace", "replace"} => n # e
    BY <1>1 DEF ClaimInv, OwnerClaims, MonitorClaims, ConnClaims, RowClaims
  <2>1. /\ owner'[e] = "replace" => owner[e] = "replace" /\ e # n
        /\ monitor'[e] \in {"finishThenReplace", "replace"} => 
             monitor[e] \in {"finishThenReplace", "replace"} /\ e # n
        /\ \A c \in Conns : conn'[c].phase = "replace" /\ conn'[c].exec = e =>
             conn[c].phase = "replace" /\ conn[c].exec = e /\ e # n
    BY <1>4, <1>5
  <2>2. \A d \in 1..Len(rows) :
          rows[d].of = e =>
              /\ n # e /\ owner'[e] # "replace"
              /\ monitor'[e] \notin {"finishThenReplace", "replace"}
              /\ \A c \in Conns : ~(conn'[c].phase = "replace" /\ conn'[c].exec = e)
              /\ \A f \in 1..Len(rows) : rows[f].of = e => f = d
              /\ of # e
    <3>1. \A d \in 1..Len(rows) : rows[d].of = e => n # e /\ of # e
      BY <1>2 DEF IInv, StructInv, IdsInv
    <3>2. QED
      BY <2>1, <3>1 DEF IInv, StructInv, ClaimInv, OwnerClaims, MonitorClaims, ConnClaims, RowClaims
  <2>3. of = e => /\ n # e /\ owner'[e] # "replace"
                  /\ monitor'[e] \notin {"finishThenReplace", "replace"}
                  /\ \A c \in Conns : ~(conn'[c].phase = "replace" /\ conn'[c].exec = e)
                  /\ \A f \in 1..Len(rows) : rows[f].of # e
    BY <1>2
  <2>4. \A d \in 1..n :
          rows'[d].of = e =>
              /\ n # e /\ owner'[e] # "replace"
              /\ monitor'[e] \notin {"finishThenReplace", "replace"}
              /\ \A c \in Conns : ~(conn'[c].phase = "replace" /\ conn'[c].exec = e)
              /\ \A f \in 1..n : rows'[f].of = e => f = d
    BY <1>1, <1>3, <2>2, <2>3
  <2>5. \A c \in Conns :
          conn'[c].phase = "replace" /\ conn'[c].exec = e =>
              /\ n # e /\ owner'[e] # "replace"
              /\ monitor'[e] \notin {"finishThenReplace", "replace"}
              /\ \A f \in Conns : conn'[f].phase = "replace" /\ conn'[f].exec = e => f = c
    BY <2>1 DEF IInv, StructInv, ClaimInv, OwnerClaims, MonitorClaims, ConnClaims
  <2>6. QED
    BY <2>1, <2>4, <2>5 DEF IInv, StructInv, ClaimInv, OwnerClaims, MonitorClaims
<1>13. QED  BY <1>6, <1>7, <1>8, <1>9, <1>10, <1>11, <1>12 DEF StructInv

\* The budget when an execution starts: a new owner, one task that is done.
LEMMA StartBudget ==
    ASSUME IInv, NEW auto \in BOOLEAN, NEW of \in 0..Len(rows), Start(auto, of),
           UNCHANGED <<result, fails, child, fin, sup, faults>>,
           owner'[Len(rows) + 1] = "loop",
           \A d \in Execs : d # Len(rows) + 1 =>
               owner'[d] = owner[d] \/ (owner[d] = "replace" /\ owner'[d] = "none")
    PROVE  BudgetInv'
<1> DEFINE n == Len(rows) + 1
<1>1. /\ n \in Execs /\ Len(rows') = n /\ rows'[n].outcome = "none"
      /\ \A d \in 1..Len(rows) : rows'[d] = rows[d]
  BY StartFacts
<1>2. Len(rows) \in Nat /\ \A d \in 1..n : d = n \/ d \in 1..Len(rows)
  BY RowFacts
<1>3. owner[n] = "none"
  BY <1>1, <1>2 DEF IInv, StructInv, IdsInv
<1>4. faults' \in Nat /\ faults <= faults'
  BY DEF IInv, TypeOK, ProcessTypeOK
<1>5. \A d \in Execs :
        /\ owner'[d] \in {"spawned", "recorded", "waiting", "stopping"} =>
             child[d] # 0 /\ sup'[child[d]].exec = d
        /\ owner'[d] # "finish" => owner[d] # "finish"
        /\ Uncharged(d)' => Uncharged(d)
  BY <1>3 DEF IInv, BudgetInv, Uncharged
<1>6. \A d \in 1..Len(rows') : rows'[d].outcome = "unavailable" =>
        d \in 1..Len(rows) /\ rows[d].outcome = "unavailable"
  BY <1>1, <1>2
<1>7. QED  BY <1>4, <1>5, <1>6, BudgetStep

LEMMA StartEnabledStep ==
    ASSUME IInv, StartEnabled
    PROVE  IInv'
<1>1. /\ ctl = "starting" /\ ctl' = "serving"
      /\ UNCHANGED <<said, result, session, ending, cancelled, fails, child, fin, monitor,
                     rerun, sup, conn, faults>>
  BY DEF StartEnabled
<1>2. CASE UNCHANGED <<rows, active, owner, triggered>>
  <2>1. TypeOK'
    BY <1>1, <1>2
       DEF IInv, TypeOK, DurableTypeOK, MemoryTypeOK, TaskTypeOK, ProcessTypeOK
  <2>2. StructInv'
    BY <1>1, <1>2 DEF IInv, StructInv, IdsInv, DownInv, TriggerInv, DriverInv, OpenInv,
       ClosedInv, ClaimInv, OwnerClaims, MonitorClaims, ConnClaims, RowClaims
  <2>3. BudgetInv'
    BY <1>1, <1>2, QuietSame, BudgetSame
  <2>4. QED  BY <2>1, <2>2, <2>3 DEF IInv
<1>3. CASE /\ Start(TRUE, 0) /\ ClaimsSession
           /\ owner' = [owner EXCEPT ![Len(rows) + 1] = "loop"]
           /\ triggered' = IF Kind = "job" THEN session ELSE triggered
  <2>1. 0 \in 0..Len(rows)
    BY RowFacts
  <2>2. /\ Len(rows) + 1 \in Execs /\ rows' \in Seq(Row) /\ Len(rows') <= MaxExecs
        /\ active' \in Active
    BY <1>3, <2>1, StartFacts
  <2>3. triggered' \in 0..MaxSessions
    BY <1>3, ManagerAssumption DEF IInv, TypeOK, DurableTypeOK
  <2>4. TypeOK'
    BY <1>1, <1>3, <2>2, <2>3
       DEF IInv, TypeOK, DurableTypeOK, MemoryTypeOK, TaskTypeOK, ProcessTypeOK
  <2>5. \A d \in Execs : owner'[d] = IF d = Len(rows) + 1 THEN "loop" ELSE owner[d]
    BY <1>3 DEF IInv, TypeOK, TaskTypeOK
  <2>6. IF Kind = "job" THEN triggered # session /\ triggered' = session
                        ELSE triggered' = triggered
    BY <1>3 DEF ClaimsSession
  <2>7. StructInv'
    BY <1>1, <1>3, <2>1, <2>2, <2>5, <2>6, StartStruct
  <2>8. BudgetInv'
    BY <1>1, <1>3, <2>1, <2>2, <2>5, StartBudget
  <2>9. QED  BY <2>4, <2>7, <2>8 DEF IInv
<1>4. QED  BY <1>2, <1>3 DEF StartEnabled

\* A start on a command.
LEMMA CommandStartStep ==
    ASSUME IInv, ctl = "serving", Start(FALSE, 0),
           owner' = [owner EXCEPT ![Len(rows) + 1] = "loop"],
           rerun' \in {"none", "cancel", "start"},
           UNCHANGED <<triggered, said, result, session, ctl, ending, cancelled, fails, child,
                       fin, monitor, sup, conn, faults>>
    PROVE  IInv'
<1>1. 0 \in 0..Len(rows)
  BY RowFacts
<1>2. /\ Len(rows) + 1 \in Execs /\ rows' \in Seq(Row) /\ Len(rows') <= MaxExecs
      /\ active' \in Active
  BY <1>1, StartFacts
<1>3. TypeOK'
  BY <1>2 DEF IInv, TypeOK, DurableTypeOK, MemoryTypeOK, TaskTypeOK, ProcessTypeOK
<1>4. \A d \in Execs : owner'[d] = IF d = Len(rows) + 1 THEN "loop" ELSE owner[d]
  BY DEF IInv, TypeOK, TaskTypeOK
<1>5. StructInv'
  BY <1>1, <1>2, <1>4, StartStruct
<1>6. BudgetInv'
  BY <1>1, <1>2, <1>4, StartBudget
<1>7. QED  BY <1>3, <1>5, <1>6 DEF IInv

LEMMA StartCommandStep ==
    ASSUME IInv, StartCommand
    PROVE  IInv'
<1>1. rerun' \in {"none", "cancel", "start"}
  BY DEF StartCommand, IInv, TypeOK, TaskTypeOK
<1>2. QED  BY <1>1, CommandStartStep DEF StartCommand

LEMMA RerunActStep ==
    ASSUME IInv, RerunAct
    PROVE  IInv'
<1>1. /\ UNCHANGED <<triggered, said, result, session, ctl, ending, fails, child, fin, monitor,
                     sup, faults>>
      /\ ctl = "serving" /\ rerun' = "none"
  BY DEF RerunAct
<1>2. CASE Start(FALSE, 0) /\ owner' = [owner EXCEPT ![Len(rows) + 1] = "loop"]
           /\ UNCHANGED <<cancelled, conn>>
  BY <1>1, <1>2, CommandStartStep
<1>3. CASE UNCHANGED <<rows, owner>>
           /\ (Cancel(TRUE) \/ UNCHANGED <<active, cancelled, conn>>)
  <2>1. /\ active' \in Active /\ active'.exec = active.exec /\ active'.owned = active.owned
        /\ cancelled' \in [Execs -> BOOLEAN] /\ conn' \in [Conns -> Connection] /\ QuietConns
    <3>1. CASE Cancel(TRUE)
      BY <3>1, CancelFacts
    <3>2. CASE UNCHANGED <<active, cancelled, conn>>
      BY <3>2, QuietSame DEF IInv, TypeOK, MemoryTypeOK, ProcessTypeOK
    <3>3. QED  BY <1>3, <3>1, <3>2
  <2>2. TypeOK'
    BY <1>1, <1>3, <2>1
       DEF IInv, TypeOK, DurableTypeOK, MemoryTypeOK, TaskTypeOK, ProcessTypeOK
  <2>3. StructInv'
    BY <1>1, <1>3, <2>1, QuietSame, QuietStep
  <2>4. BudgetInv'
    BY <1>1, <1>3, QuietSame, BudgetSame
  <2>5. QED  BY <2>2, <2>3, <2>4 DEF IInv
<1>4. QED  BY <1>2, <1>3 DEF RerunAct

\* start_replacement by the task that claimed it: the claim becomes a row, or
\* is dropped because another execution is active or the session ends.
LEMMA ReplaceStep ==
    ASSUME IInv, NEW e \in Execs, NEW owner1, Replace(e, owner1), ctl = "serving",
           owner1 \in [Execs -> {"none", "loop", "spawned", "recorded", "waiting", "stopping",
                                 "backoff", "finish", "remove", "replace"}],
           \A d \in Execs : owner1[d] = owner[d] \/ (owner[d] = "replace" /\ owner1[d] = "none"),
           monitor' \in [Execs -> {"none", "poll", "finish", "finishThenReplace", "replace"}],
           \A d \in Execs :
               monitor'[d] = monitor[d] \/ (monitor[d] = "replace" /\ monitor'[d] = "none"),
           conn' \in [Conns -> Connection],
           \A c \in Conns :
               /\ conn'[c].exec = conn[c].exec /\ conn'[c].pid = conn[c].pid
               /\ \/ conn'[c].phase = conn[c].phase
                  \/ conn[c].phase = "replace" /\ conn'[c].phase = "serving",
           e \in 1..Len(rows) /\ ~rows[e].open,
           owner1[e] # "replace" /\ monitor'[e] \notin {"finishThenReplace", "replace"},
           \A c \in Conns : conn[c].exec = e => conn'[c].phase # "replace",
           \A d \in 1..Len(rows) : rows[d].of # e,
           UNCHANGED <<triggered, said, result, session, ctl, ending, cancelled, fails, child,
                       fin, rerun, sup, faults>>
    PROVE  IInv'
<1>1. CASE Start(FALSE, e) /\ owner' = [owner1 EXCEPT ![Len(rows) + 1] = "loop"]
  <2>1. e \in 0..Len(rows)
    BY RowFacts
  <2>2. /\ Len(rows) + 1 \in Execs /\ rows' \in Seq(Row) /\ Len(rows') <= MaxExecs
        /\ active' \in Active
    BY <1>1, <2>1, StartFacts
  <2>3. TypeOK'
    BY <1>1, <2>2 DEF IInv, TypeOK, DurableTypeOK, MemoryTypeOK, TaskTypeOK, ProcessTypeOK
  <2>4. \A d \in Execs : owner'[d] = IF d = Len(rows) + 1 THEN "loop" ELSE owner1[d]
    BY <1>1
  <2>5. owner'[e] # "replace"
    BY <2>4
  <2>6. StructInv'
    BY <1>1, <2>1, <2>2, <2>4, <2>5, StartStruct
  <2>7. BudgetInv'
    BY <1>1, <2>1, <2>2, <2>4, StartBudget
  <2>8. QED  BY <2>3, <2>6, <2>7 DEF IInv
<1>2. CASE owner' = owner1 /\ UNCHANGED <<rows, active>>
  <2>1. TypeOK'
    BY <1>2 DEF IInv, TypeOK, DurableTypeOK, MemoryTypeOK, TaskTypeOK, ProcessTypeOK
  <2>2. IdsInv' /\ DownInv'
    BY <1>2 DEF IInv, StructInv, IdsInv, DownInv
  <2>3. TriggerInv'
    BY <1>2 DEF IInv, StructInv, TriggerInv
  <2>4. active.exec # 0 => active.exec \in Execs
    BY ManagerAssumption DEF IInv, TypeOK, MemoryTypeOK, Active, Execs
  <2>5. DriverInv'
    BY <1>2, <2>4 DEF IInv, StructInv, DriverInv
  <2>6. OpenInv'
    <3>1. OpenInv
      BY DEF IInv, StructInv
    <3>2. owner[active.exec] = "remove" /\ active.exec # 0 => owner'[active.exec] = "remove"
      BY <1>2, <2>4
    <3>3. \A c \in Conns : conn[c].phase = "committed" =>
             conn'[c].phase = "committed" /\ conn'[c].exec = conn[c].exec
      OBVIOUS
    <3>4. QED  BY <1>2, <3>1, <3>2, <3>3 DEF OpenInv
  <2>7. ClosedInv'
    <3> SUFFICES ASSUME NEW d \in 1..Len(rows), rows[d].open
                 PROVE  /\ owner'[d] \notin {"remove", "replace"} /\ monitor'[d] # "replace"
                        /\ \A c \in Conns : conn'[c].exec = d =>
                             conn'[c].phase \notin {"committed", "replace"}
                        /\ \A f \in 1..Len(rows) : rows[f].of # d
      BY <1>2 DEF ClosedInv
    <3>1. d \in Execs
      BY RowFacts
    <3>2. /\ owner[d] \notin {"remove", "replace"} /\ monitor[d] # "replace"
          /\ \A c \in Conns : conn[c].exec = d => conn[c].phase \notin {"committed", "replace"}
          /\ \A f \in 1..Len(rows) : rows[f].of # d
      BY DEF IInv, StructInv, ClosedInv
    <3>3. owner'[d] \notin {"remove", "replace"} /\ monitor'[d] # "replace"
      BY <1>2, <3>1, <3>2
    <3>4. QED  BY <3>2, <3>3
  <2>8. ClaimInv'
    BY <1>2 DEF IInv, StructInv, ClaimInv, OwnerClaims, MonitorClaims, ConnClaims, RowClaims
  <2>9. StructInv'
    BY <2>2, <2>3, <2>5, <2>6, <2>7, <2>8 DEF StructInv
  <2>10. BudgetInv'
    <3>1. faults' \in Nat /\ faults <= faults'
      BY DEF IInv, TypeOK, ProcessTypeOK
    <3>2. \A d \in Execs :
            /\ owner'[d] \in {"spawned", "recorded", "waiting", "stopping"} =>
                 child[d] # 0 /\ sup'[child[d]].exec = d
            /\ owner'[d] # "finish" => owner[d] # "finish"
            /\ Uncharged(d)' => Uncharged(d)
      BY <1>2 DEF IInv, BudgetInv, Uncharged
    <3>3. QED  BY <1>2, <3>1, <3>2, BudgetStep
  <2>11. QED  BY <2>1, <2>9, <2>10 DEF IInv
<1>3. QED  BY <1>1, <1>2 DEF Replace

\* The claim of a task is the only one, and the row it is about is closed.
LEMMA OwnerReplaceStep ==
    ASSUME IInv, NEW e \in Execs, OwnerReplace(e)
    PROVE  IInv'
<1> DEFINE owner1 == [owner EXCEPT ![e] = "none"]
<1>1. /\ owner[e] = "replace" /\ ctl = "serving" /\ Replace(e, owner1)
      /\ UNCHANGED <<triggered, said, result, session, ctl, ending, cancelled, fails, child,
                     fin, monitor, rerun, sup, conn, faults>>
  BY DEF OwnerReplace, OwnerIs
<1>2. /\ owner1 \in [Execs -> {"none", "loop", "spawned", "recorded", "waiting", "stopping",
                               "backoff", "finish", "remove", "replace"}]
      /\ \A d \in Execs : owner1[d] = IF d = e THEN "none" ELSE owner[d]
      /\ monitor' \in [Execs -> {"none", "poll", "finish", "finishThenReplace", "replace"}]
      /\ conn' \in [Conns -> Connection]
  BY <1>1 DEF IInv, TypeOK, TaskTypeOK, ProcessTypeOK
<1> HIDE DEF owner1
<1>3. e \in 1..Len(rows) /\ ~rows[e].open
  BY <1>1, TaskFacts DEF IInv, StructInv, ClosedInv
<1>4. /\ monitor[e] \notin {"finishThenReplace", "replace"}
      /\ \A c \in Conns : conn[c].exec = e => conn[c].phase # "replace"
      /\ \A d \in 1..Len(rows) : rows[d].of # e
  BY <1>1 DEF IInv, StructInv, ClaimInv, OwnerClaims, MonitorClaims, ConnClaims, RowClaims
<1>5. QED  BY <1>1, <1>2, <1>3, <1>4, ReplaceStep

LEMMA MonitorReplaceStep ==
    ASSUME IInv, NEW e \in Execs, MonitorReplace(e)
    PROVE  IInv'
<1>1. /\ monitor[e] = "replace" /\ ctl = "serving" /\ Replace(e, owner)
      /\ monitor' = [monitor EXCEPT ![e] = "none"]
      /\ UNCHANGED <<triggered, said, result, session, ctl, ending, cancelled, fails, child,
                     fin, rerun, sup, conn, faults>>
  BY DEF MonitorReplace, MonitorIs
<1>2. /\ owner \in [Execs -> {"none", "loop", "spawned", "recorded", "waiting", "stopping",
                              "backoff", "finish", "remove", "replace"}]
      /\ monitor' \in [Execs -> {"none", "poll", "finish", "finishThenReplace", "replace"}]
      /\ \A d \in Execs : monitor'[d] = IF d = e THEN "none" ELSE monitor[d]
      /\ conn' \in [Conns -> Connection]
  BY <1>1 DEF IInv, TypeOK, TaskTypeOK, ProcessTypeOK
<1>3. e \in 1..Len(rows) /\ ~rows[e].open
  BY <1>1, TaskFacts DEF IInv, StructInv, ClosedInv
<1>4. /\ owner[e] # "replace"
      /\ \A c \in Conns : conn[c].exec = e => conn[c].phase # "replace"
      /\ \A d \in 1..Len(rows) : rows[d].of # e
  BY <1>1 DEF IInv, StructInv, ClaimInv, OwnerClaims, MonitorClaims, ConnClaims, RowClaims
<1>5. QED  BY <1>1, <1>2, <1>3, <1>4, ReplaceStep

\* The effect of a connection's step on its phase.
LEMMA PhaseFacts ==
    ASSUME IInv, NEW c \in Conns, NEW phase \in Phases, conn' = [conn EXCEPT ![c].phase = phase]
    PROVE  /\ conn' \in [Conns -> Connection]
           /\ \A d \in Conns : /\ conn'[d].exec = conn[d].exec /\ conn'[d].pid = conn[d].pid
                               /\ conn'[d].phase = IF d = c THEN phase ELSE conn[d].phase
<1>1. conn \in [Conns -> Connection]
  BY DEF IInv, TypeOK, ProcessTypeOK
<1>2. QED  BY <1>1 DEF Connection

LEMMA ConnReplaceStep ==
    ASSUME IInv, NEW c \in Conns, ConnReplace(c)
    PROVE  IInv'
<1> DEFINE e == conn[c].exec
<1>1. /\ conn[c].phase = "replace" /\ ctl = "serving" /\ Replace(e, owner)
      /\ conn' = [conn EXCEPT ![c].phase = "serving"]
      /\ UNCHANGED <<triggered, said, result, session, ctl, ending, cancelled, fails, child,
                     fin, monitor, rerun, sup, faults>>
  BY DEF ConnReplace
<1>2. /\ owner \in [Execs -> {"none", "loop", "spawned", "recorded", "waiting", "stopping",
                              "backoff", "finish", "remove", "replace"}]
      /\ monitor' \in [Execs -> {"none", "poll", "finish", "finishThenReplace", "replace"}]
  BY <1>1 DEF IInv, TypeOK, TaskTypeOK
<1>3. /\ conn' \in [Conns -> Connection]
      /\ \A d \in Conns : /\ conn'[d].exec = conn[d].exec /\ conn'[d].pid = conn[d].pid
                          /\ conn'[d].phase = IF d = c THEN "serving" ELSE conn[d].phase
  BY <1>1, PhaseFacts DEF Phases
<1>4. e \in Execs /\ e \in 1..Len(rows)
  BY <1>1, ConnFacts
<1>5. ~rows[e].open
  BY <1>1, <1>4 DEF IInv, StructInv, ClosedInv
<1>6. /\ owner[e] # "replace" /\ monitor[e] \notin {"finishThenReplace", "replace"}
      /\ \A d \in Conns : conn[d].phase = "replace" /\ conn[d].exec = e => d = c
      /\ \A d \in 1..Len(rows) : rows[d].of # e
  BY <1>1, <1>4 DEF IInv, StructInv, ClaimInv, OwnerClaims, MonitorClaims, ConnClaims, RowClaims
<1>7. \A d \in Conns : conn[d].exec = e => conn'[d].phase # "replace"
  BY <1>3, <1>6
<1> HIDE DEF e
<1>8. QED  BY <1>1, <1>2, <1>3, <1>4, <1>5, <1>6, <1>7, ReplaceStep

-----------------------------------------------------------------------------
(* The end of an execution: the row is closed, then the active entry goes. *)

\* The active execution has a row.
LEMMA ActiveFacts ==
    ASSUME IInv, active.exec # 0
    PROVE  active.exec \in Execs /\ active.exec \in 1..Len(rows) /\ ctl # "down"
BY RowFacts DEF IInv, TypeOK, MemoryTypeOK, Active, Execs, StructInv, IdsInv, DownInv

\* Closing the row of e, whose task goes on to take e out of the active map.
LEMMA CloseStruct ==
    ASSUME IInv, NEW e \in Execs, NEW outcome, e \in 1..Len(rows), ClosedRow(e, outcome),
           ctl # "down", UNCHANGED <<triggered, session, ctl, active, sup>>,
           \A d \in Execs : d # e => owner'[d] = owner[d] /\ monitor'[d] = monitor[d],
           owner'[e] = owner[e] \/ (owner[e] = "finish" /\ owner'[e] = "remove"),
           \/ monitor'[e] = monitor[e]
           \/ monitor[e] = "finish" /\ monitor'[e] = "none"
           \/ monitor[e] = "finishThenReplace" /\ monitor'[e] = "replace",
           \A c \in Conns :
               /\ conn'[c].exec = conn[c].exec /\ conn'[c].pid = conn[c].pid
               /\ \/ conn'[c].phase = conn[c].phase
                  \/ conn[c].exec = e /\ conn[c].phase = "checked" /\ conn'[c].phase = "committed",
           active.exec = e => \/ owner'[e] = "remove"
                              \/ \E c \in Conns : conn'[c].phase = "committed" /\ conn'[c].exec = e
    PROVE  StructInv'
<1>1. /\ Len(rows') = Len(rows) /\ ~rows'[e].open
      /\ \A d \in 1..Len(rows) : /\ rows'[d].sess = rows[d].sess /\ rows'[d].auto = rows[d].auto
                                 /\ rows'[d].of = rows[d].of
                                 /\ d # e => rows'[d].open = rows[d].open
  BY DEF ClosedRow
<1>2. IdsInv'
  BY <1>1 DEF IInv, StructInv, IdsInv
<1>3. DownInv'
  BY DEF DownInv
<1>4. TriggerInv'
  BY <1>1 DEF IInv, StructInv, TriggerInv
<1>5. DriverInv'
  BY ActiveFacts DEF IInv, StructInv, DriverInv
<1>6. OpenInv'
  BY <1>1, ActiveFacts DEF IInv, StructInv, OpenInv
<1>7. ClosedInv'
  <2> SUFFICES ASSUME NEW d \in 1..Len(rows), rows'[d].open
               PROVE  /\ owner'[d] \notin {"remove", "replace"} /\ monitor'[d] # "replace"
                      /\ \A c \in Conns : conn'[c].exec = d =>
                           conn'[c].phase \notin {"committed", "replace"}
                      /\ \A f \in 1..Len(rows) : rows'[f].of # d
    BY <1>1 DEF ClosedInv
  <2>1. d # e /\ rows[d].open /\ d \in Execs
    BY <1>1, RowFacts
  <2>2. /\ owner[d] \notin {"remove", "replace"} /\ monitor[d] # "replace"
        /\ \A c \in Conns : conn[c].exec = d => conn[c].phase \notin {"committed", "replace"}
        /\ \A f \in 1..Len(rows) : rows[f].of # d
    BY <2>1 DEF IInv, StructInv, ClosedInv
  <2>3. owner'[d] = owner[d] /\ monitor'[d] = monitor[d]
    BY <2>1
  <2>4. \A c \in Conns : conn'[c].exec = d => conn'[c].phase \notin {"committed", "replace"}
    BY <2>1, <2>2
  <2>5. QED  BY <1>1, <2>2, <2>3, <2>4
<1>8. ClaimInv'
  <2>1. \A d \in Execs : /\ owner'[d] = "replace" <=> owner[d] = "replace"
                         /\ monitor'[d] \in {"finishThenReplace", "replace"} <=>
                              monitor[d] \in {"finishThenReplace", "replace"}
    OBVIOUS
  <2>2. \A c \in Conns : conn'[c].phase = "replace" <=> conn[c].phase = "replace"
    OBVIOUS
  <2>3. ClaimInv /\ active'.exec = active.exec
    BY DEF IInv, StructInv
  <2>4. \A d \in Execs : /\ OwnerClaims(d)' <=> OwnerClaims(d)
                         /\ MonitorClaims(d)' <=> MonitorClaims(d)
    BY <2>1 DEF OwnerClaims, MonitorClaims
  <2>5. \A d \in Execs, c \in Conns : ConnClaims(d, c)' <=> ConnClaims(d, c)
    BY <2>2 DEF ConnClaims
  <2>6. \A d \in Execs, f \in 1..Len(rows) : RowClaims(d, f)' <=> RowClaims(d, f)
    BY <1>1 DEF RowClaims
  <2>7. QED  BY <1>1, <2>3, <2>4, <2>5, <2>6 DEF ClaimInv
<1>9. QED  BY <1>2, <1>3, <1>4, <1>5, <1>6, <1>7, <1>8 DEF StructInv

LEMMA OwnerFinishStep ==
    ASSUME IInv, NEW e \in Execs, OwnerFinish(e)
    PROVE  IInv'
<1>1. /\ ctl # "down" /\ owner[e] = "finish" /\ CloseRow(e, fin[e])
      /\ owner' = [owner EXCEPT ![e] = "remove"] /\ fails' = [fails EXCEPT ![e] = 0]
      /\ child' = [child EXCEPT ![e] = 0] /\ fin' = [fin EXCEPT ![e] = "none"]
      /\ UNCHANGED <<triggered, said, result, session, ctl, ending, active, cancelled,
                     monitor, rerun, sup, conn, faults>>
  BY DEF OwnerFinish, OwnerIs, memoryVars
<1>2. e \in 1..Len(rows) /\ fin[e] \in Outcomes \cup {"none"}
  BY <1>1, TaskFacts DEF IInv, TypeOK, TaskTypeOK
<1>3. rows' \in Seq(Row) /\ Len(rows') <= MaxExecs /\ ClosedRow(e, fin[e])
  BY <1>1, <1>2, CloseFacts
<1>4. 0 \in 0..LaunchBudget /\ 0 \in 0..MaxPids
  BY ManagerAssumption
<1>5. TypeOK'
  BY <1>1, <1>3, <1>4
     DEF IInv, TypeOK, DurableTypeOK, MemoryTypeOK, TaskTypeOK, ProcessTypeOK
<1>6. \A d \in Execs : /\ owner'[d] = IF d = e THEN "remove" ELSE owner[d]
                       /\ fails'[d] = IF d = e THEN 0 ELSE fails[d]
                       /\ child'[d] = IF d = e THEN 0 ELSE child[d]
                       /\ fin'[d] = IF d = e THEN "none" ELSE fin[d]
  BY <1>1 DEF IInv, TypeOK, TaskTypeOK
<1>7. StructInv'
  BY <1>1, <1>2, <1>3, <1>6, CloseStruct
<1>8. BudgetInv'
  <2>1. faults \in Nat /\ LaunchBudget \in Nat \ {0}
    BY ManagerAssumption DEF IInv, TypeOK, ProcessTypeOK
  <2>2. GivenUpAfterBudget'
    BY <1>1, <1>2, <1>3 DEF IInv, BudgetInv, GivenUpAfterBudget, ClosedRow
  <2>3. ~Uncharged(e)'
    BY <1>6 DEF Uncharged
  <2>4. \A d \in Execs : d # e => (Uncharged(d)' => Uncharged(d))
    BY <1>1, <1>6 DEF Uncharged
  <2>5. QED  BY <1>1, <1>6, <2>1, <2>2, <2>3, <2>4 DEF IInv, BudgetInv
<1>9. QED  BY <1>5, <1>7, <1>8 DEF IInv

LEMMA MonitorFinishStep ==
    ASSUME IInv, NEW e \in Execs, MonitorFinish(e)
    PROVE  IInv'
<1>1. /\ ctl # "down" /\ monitor[e] \in {"finish", "finishThenReplace"} /\ CloseRow(e, fin[e])
      /\ monitor' = [monitor EXCEPT ![e] = IF monitor[e] = "finish" THEN "none" ELSE "replace"]
      /\ fin' = [fin EXCEPT ![e] = "none"]
      /\ UNCHANGED <<triggered, said, result, session, ctl, ending, active, cancelled, owner,
                     fails, child, rerun, sup, conn, faults>>
  BY DEF MonitorFinish, MonitorIs, memoryVars
<1>2. e \in 1..Len(rows) /\ fin[e] \in Outcomes \cup {"none"}
  BY <1>1, TaskFacts DEF IInv, TypeOK, TaskTypeOK
<1>3. rows' \in Seq(Row) /\ Len(rows') <= MaxExecs /\ ClosedRow(e, fin[e])
  BY <1>1, <1>2, CloseFacts
<1>4. TypeOK'
  BY <1>1, <1>3 DEF IInv, TypeOK, DurableTypeOK, MemoryTypeOK, TaskTypeOK, ProcessTypeOK
<1>5. \A d \in Execs : /\ monitor'[d] = IF d = e
                                          THEN IF monitor[e] = "finish" THEN "none" ELSE "replace"
                                          ELSE monitor[d]
                       /\ fin'[d] = IF d = e THEN "none" ELSE fin[d]
  BY <1>1 DEF IInv, TypeOK, TaskTypeOK
<1>6. active.exec # e
  BY <1>1 DEF IInv, StructInv, DriverInv
<1>7. StructInv'
  BY <1>1, <1>2, <1>3, <1>5, <1>6, CloseStruct
<1>8. BudgetInv'
  <2>1. faults' \in Nat /\ faults <= faults'
    BY <1>1 DEF IInv, TypeOK, ProcessTypeOK
  <2>2. \A d \in 1..Len(rows') : rows'[d].outcome = "unavailable" =>
          \/ d \in 1..Len(rows) /\ rows[d].outcome = "unavailable"
          \/ d \in Execs /\ fin[d] = "unavailable"
    BY <1>2, <1>3 DEF ClosedRow
  <2>3. \A d \in Execs : 
          /\ owner'[d] \in {"spawned", "recorded", "waiting", "stopping"} =>
               child[d] # 0 /\ sup'[child[d]].exec = d
          /\ Uncharged(d)' => Uncharged(d)
    BY <1>1 DEF IInv, BudgetInv, Uncharged
  <2>4. QED  BY <1>1, <1>5, <2>1, <2>2, <2>3, BudgetStep
<1>9. QED  BY <1>4, <1>7, <1>8 DEF IInv

LEMMA CommitTerminalStep ==
    ASSUME IInv, NEW c \in Conns, CommitTerminal(c)
    PROVE  IInv'
<1> DEFINE e == conn[c].exec
<1>1. /\ ctl # "down" /\ conn[c].phase = "checked"
      /\ UNCHANGED <<triggered, result, session, ctl, ending, active, cancelled, owner, fails,
                     child, fin, monitor, rerun, sup, faults>>
  BY DEF CommitTerminal, memoryVars, taskVars
<1>2. e \in Execs /\ e \in 1..Len(rows) /\ said \in [Execs -> BOOLEAN]
  BY <1>1, ConnFacts DEF IInv, TypeOK, DurableTypeOK
<1>3. CASE ~said[e]
  <2>1. conn' = [conn EXCEPT ![c].phase = "serving"] /\ UNCHANGED <<rows, said>>
    BY <1>3 DEF CommitTerminal
  <2>2. QED  BY <1>1, <1>2, <2>1, ConnPhaseStep
<1>4. CASE said[e]
  <2>1. /\ CloseRow(e, "reported") /\ said' = [said EXCEPT ![e] = FALSE]
        /\ conn' = [conn EXCEPT ![c].phase = "committed"]
    BY <1>4 DEF CommitTerminal
  <2>2. rows' \in Seq(Row) /\ Len(rows') <= MaxExecs /\ ClosedRow(e, "reported")
    BY <1>2, <2>1, CloseFacts DEF Outcomes
  <2>3. /\ conn' \in [Conns -> Connection]
        /\ \A d \in Conns : /\ conn'[d].exec = conn[d].exec /\ conn'[d].pid = conn[d].pid
                            /\ conn'[d].phase = IF d = c THEN "committed" ELSE conn[d].phase
    BY <2>1, PhaseFacts DEF Phases
  <2>4. said' \in [Execs -> BOOLEAN]
    BY <1>2, <2>1
  <2>5. TypeOK'
    BY <1>1, <2>2, <2>3, <2>4
       DEF IInv, TypeOK, DurableTypeOK, MemoryTypeOK, TaskTypeOK, ProcessTypeOK
  <2>6. conn'[c].phase = "committed" /\ conn'[c].exec = e
    BY <2>3
  <2> HIDE DEF e
  <2>7. \A d \in Conns : \/ conn'[d].phase = conn[d].phase
                         \/ /\ conn[d].exec = e /\ conn[d].phase = "checked"
                            /\ conn'[d].phase = "committed"
    BY <1>1, <2>3 DEF e
  <2>8. StructInv'
    BY <1>1, <1>2, <2>2, <2>3, <2>6, <2>7, CloseStruct
  <2>9. BudgetInv'
    <3>1. faults' \in Nat /\ faults <= faults'
      BY <1>1 DEF IInv, TypeOK, ProcessTypeOK
    <3>2. \A d \in 1..Len(rows') : rows'[d].outcome = "unavailable" =>
            d \in 1..Len(rows) /\ rows[d].outcome = "unavailable"
      BY <1>2, <2>2 DEF ClosedRow
    <3>3. \A d \in Execs :
            /\ owner'[d] \in {"spawned", "recorded", "waiting", "stopping"} =>
                 child[d] # 0 /\ sup'[child[d]].exec = d
            /\ Uncharged(d)' => Uncharged(d)
      BY <1>1 DEF IInv, BudgetInv, Uncharged
    <3>4. QED  BY <1>1, <3>1, <3>2, <3>3, BudgetStep
  <2>10. QED  BY <2>5, <2>8, <2>9 DEF IInv
<1>5. QED  BY <1>3, <1>4

\* A task of e takes e out of the active map, if it is there, and claims the
\* replacement only then.
LEMMA RemoveStruct ==
    ASSUME IInv, NEW e \in Execs, e \in 1..Len(rows), ctl # "down",
           UNCHANGED <<rows, triggered, session, ctl, sup>>,
           IF active.exec = e THEN active'.exec = 0 ELSE active' = active,
           \A d \in Execs : d # e => owner'[d] = owner[d] /\ monitor'[d] = monitor[d],
           \A c \in Conns : conn'[c].exec = conn[c].exec /\ conn'[c].pid = conn[c].pid,
           \/ /\ owner[e] = "remove" /\ owner'[e] \in {"none", "replace"}
              /\ owner'[e] = "replace" => active.exec = e
              /\ monitor'[e] = monitor[e] /\ UNCHANGED conn
           \/ /\ monitor[e] = "poll" /\ monitor'[e] \in {"finish", "finishThenReplace"}
              /\ active.exec = e /\ owner'[e] = owner[e] /\ UNCHANGED conn
           \/ \E c \in Conns :
                /\ conn[c].exec = e /\ conn[c].phase = "committed"
                /\ conn'[c].phase \in {"serving", "replace"}
                /\ conn'[c].phase = "replace" => active.exec = e
                /\ \A d \in Conns : d # c => conn'[d].phase = conn[d].phase
                /\ owner'[e] = owner[e] /\ monitor'[e] = monitor[e]
    PROVE  StructInv'
<1>1. 0 <= Len(rows) /\ e # 0 /\ (active'.exec # 0 => active' = active /\ active.exec # e)
  BY RowFacts
<1>2. IdsInv'
  <2>1. \A d \in Execs : owner'[d] # "none" \/ monitor'[d] # "none" => d <= Len(rows)
    BY RowFacts DEF IInv, StructInv, IdsInv
  <2>2. \A c \in Conns : conn'[c].phase # "none" => conn[c].phase # "none"
    OBVIOUS
  <2>3. QED  BY <1>1, <2>1, <2>2 DEF IInv, StructInv, IdsInv
<1>3. DownInv'
  BY DEF DownInv
<1>4. TriggerInv'
  BY DEF IInv, StructInv, TriggerInv
<1>5. DriverInv'
  <2>1. active'.exec # 0 =>
          IF active'.owned THEN owner'[active'.exec] \notin {"none", "replace"}
                           ELSE monitor'[active'.exec] = "poll"
    BY <1>1, ActiveFacts DEF IInv, StructInv, DriverInv
  <2>2. \A d \in Execs : monitor'[d] \in {"none", "poll"} \/ active'.exec # d
    <3>1. active'.exec # e
      BY <1>1
    <3>2. \A d \in Execs : d # 0
      BY RowFacts DEF Execs
    <3>3. QED  BY <1>1, <3>1, <3>2 DEF IInv, StructInv, DriverInv
  <2>3. \A d \in Execs : monitor'[d] = "none" \/ owner'[d] = "none"
    <3>1. monitor'[e] = "none" \/ owner'[e] = "none"
      BY DEF IInv, StructInv, DriverInv
    <3>2. QED  BY <3>1 DEF IInv, StructInv, DriverInv
  <2>4. QED  BY <2>1, <2>2, <2>3 DEF DriverInv
<1>6. OpenInv'
  BY <1>1, ActiveFacts DEF IInv, StructInv, OpenInv
<1>7. ClosedInv'
  <2> SUFFICES ASSUME NEW d \in 1..Len(rows), rows[d].open
               PROVE  /\ owner'[d] \notin {"remove", "replace"} /\ monitor'[d] # "replace"
                      /\ \A c \in Conns : conn'[c].exec = d =>
                           conn'[c].phase \notin {"committed", "replace"}
                      /\ \A f \in 1..Len(rows) : rows[f].of # d
    BY DEF ClosedInv
  <2>1. /\ d \in Execs /\ owner[d] \notin {"remove", "replace"} /\ monitor[d] # "replace"
        /\ \A c \in Conns : conn[c].exec = d => conn[c].phase \notin {"committed", "replace"}
        /\ \A f \in 1..Len(rows) : rows[f].of # d
    BY RowFacts DEF IInv, StructInv, ClosedInv
  <2>2. QED  BY <2>1
<1>8. ClaimInv'
  <2>1. ASSUME NEW d \in Execs, d # e
        PROVE  /\ owner'[d] = owner[d] /\ monitor'[d] = monitor[d]
               /\ active'.exec = d => active.exec = d
               /\ \A c \in Conns : conn'[c].phase = "replace" /\ conn'[c].exec = d =>
                    conn[c].phase = "replace" /\ conn[c].exec = d
    <3>1. active'.exec = d => active.exec = d
      BY <1>1, <2>1 DEF Execs
    <3>2. QED  BY <2>1, <3>1
  <2>2. active'.exec # e
    BY <1>1
  <2>3. CASE owner'[e] = "replace" /\ owner[e] = "remove"
    BY <2>1, <2>2, <2>3
       DEF IInv, StructInv, ClaimInv, OwnerClaims, MonitorClaims, ConnClaims, RowClaims
  <2>4. CASE owner'[e] = "none" /\ owner[e] = "remove"
    BY <2>1, <2>2, <2>4
       DEF IInv, StructInv, ClaimInv, OwnerClaims, MonitorClaims, ConnClaims, RowClaims
  <2>5. CASE monitor[e] = "poll" /\ monitor'[e] # "poll"
    BY <2>1, <2>2, <2>5
       DEF IInv, StructInv, ClaimInv, OwnerClaims, MonitorClaims, ConnClaims, RowClaims
  <2>6. CASE \E c \in Conns :
               /\ conn[c].exec = e /\ conn[c].phase = "committed"
               /\ conn'[c].phase \in {"serving", "replace"}
               /\ conn'[c].phase = "replace" => active.exec = e
               /\ \A d \in Conns : d # c => conn'[d].phase = conn[d].phase
               /\ owner'[e] = owner[e] /\ monitor'[e] = monitor[e]
    <3>1. PICK c \in Conns :
               /\ conn[c].exec = e /\ conn[c].phase = "committed"
               /\ conn'[c].phase \in {"serving", "replace"}
               /\ conn'[c].phase = "replace" => active.exec = e
               /\ \A d \in Conns : d # c => conn'[d].phase = conn[d].phase
               /\ owner'[e] = owner[e] /\ monitor'[e] = monitor[e]
      BY <2>6
    <3>2. CASE conn'[c].phase = "replace"
      BY <2>1, <2>2, <3>1, <3>2
         DEF IInv, StructInv, ClaimInv, OwnerClaims, MonitorClaims, ConnClaims, RowClaims
    <3>3. CASE conn'[c].phase = "serving"
      BY <2>1, <2>2, <3>1, <3>3
         DEF IInv, StructInv, ClaimInv, OwnerClaims, MonitorClaims, ConnClaims, RowClaims
    <3>4. QED  BY <3>1, <3>2, <3>3
  <2>7. QED  BY <2>3, <2>4, <2>5, <2>6
<1>9. QED  BY <1>2, <1>3, <1>4, <1>5, <1>6, <1>7, <1>8 DEF StructInv

\* The budget when tasks leave: no owner but one that has finished.
LEMMA RemoveBudget ==
    ASSUME IInv, UNCHANGED <<rows, result, fails, child, sup, faults>>,
           \A d \in Execs : /\ \/ owner'[d] = owner[d]
                               \/ owner[d] = "remove" /\ owner'[d] \in {"none", "replace"}
                            /\ fin'[d] = "unavailable" => fin[d] = "unavailable"
    PROVE  BudgetInv'
<1>1. faults' \in Nat /\ faults <= faults'
  BY DEF IInv, TypeOK, ProcessTypeOK
<1>2. \A d \in Execs :
        /\ owner'[d] \in {"spawned", "recorded", "waiting", "stopping"} =>
             child[d] # 0 /\ sup'[child[d]].exec = d
        /\ owner'[d] # "finish" => owner[d] # "finish"
        /\ Uncharged(d)' => Uncharged(d)
  BY DEF IInv, BudgetInv, Uncharged
<1>3. QED  BY <1>1, <1>2, BudgetStep

LEMMA NoActiveType == NoActive \in Active /\ NoActive.exec = 0
BY ManagerAssumption DEF NoActive, Active

LEMMA OwnerRemoveStep ==
    ASSUME IInv, NEW e \in Execs, OwnerRemove(e)
    PROVE  IInv'
<1> DEFINE pc == IF Restarts(e) THEN "replace" ELSE "none"
<1>1. /\ ctl # "down" /\ owner[e] = "remove" /\ owner' = [owner EXCEPT ![e] = pc]
      /\ active' = IF active.exec = e THEN NoActive ELSE active
      /\ UNCHANGED <<rows, triggered, said, result, session, ctl, ending, cancelled, fails,
                     child, fin, monitor, rerun, sup, conn, faults>>
  BY DEF OwnerRemove, OwnerIs, durableVars
<1>2. pc \in {"none", "replace"} /\ (pc = "replace" => active.exec = e)
  BY DEF Restarts
<1> HIDE DEF pc
<1>3. e \in 1..Len(rows) /\ active' \in Active
  BY <1>1, TaskFacts, NoActiveType DEF IInv, TypeOK, MemoryTypeOK
<1>4. TypeOK'
  BY <1>1, <1>2, <1>3
     DEF IInv, TypeOK, DurableTypeOK, MemoryTypeOK, TaskTypeOK, ProcessTypeOK
<1>5. \A d \in Execs : owner'[d] = IF d = e THEN pc ELSE owner[d]
  BY <1>1 DEF IInv, TypeOK, TaskTypeOK
<1>6. StructInv'
  BY <1>1, <1>2, <1>3, <1>5, NoActiveType, RemoveStruct
<1>7. BudgetInv'
  BY <1>1, <1>2, <1>5, RemoveBudget
<1>8. QED  BY <1>4, <1>6, <1>7 DEF IInv

LEMMA RemoveTerminalStep ==
    ASSUME IInv, NEW c \in Conns, RemoveTerminal(c)
    PROVE  IInv'
<1> DEFINE e == conn[c].exec
           phase == IF Restarts(e) THEN "replace" ELSE "serving"
<1>1. /\ ctl # "down" /\ conn[c].phase = "committed"
      /\ conn' = [conn EXCEPT ![c].phase = phase]
      /\ active' = IF active.exec = e THEN NoActive ELSE active
      /\ UNCHANGED <<rows, triggered, said, result, session, ctl, ending, cancelled, owner,
                     fails, child, fin, monitor, rerun, sup, faults>>
  BY DEF RemoveTerminal, durableVars, taskVars
<1>2. /\ phase \in {"serving", "replace"} /\ phase \in Phases
      /\ phase = "replace" => active.exec = e
  BY DEF Restarts, Phases
<1>3. e \in Execs /\ e \in 1..Len(rows) /\ active' \in Active
  BY <1>1, ConnFacts, NoActiveType DEF IInv, TypeOK, MemoryTypeOK
<1> HIDE DEF phase
<1>4. /\ conn' \in [Conns -> Connection]
      /\ \A d \in Conns : /\ conn'[d].exec = conn[d].exec /\ conn'[d].pid = conn[d].pid
                          /\ conn'[d].phase = IF d = c THEN phase ELSE conn[d].phase
  BY <1>1, <1>2, PhaseFacts
<1>5. TypeOK'
  BY <1>1, <1>3, <1>4
     DEF IInv, TypeOK, DurableTypeOK, MemoryTypeOK, TaskTypeOK, ProcessTypeOK
<1>6. IF active.exec = e THEN active'.exec = 0 ELSE active' = active
  BY <1>1, NoActiveType
<1>7. StructInv'
  BY <1>1, <1>2, <1>3, <1>4, <1>6, RemoveStruct
<1>8. BudgetInv'
  BY <1>1, RemoveBudget
<1>9. QED  BY <1>5, <1>7, <1>8 DEF IInv

-----------------------------------------------------------------------------
(* The recovery monitor. *)

\* A monitor with nothing left to watch ends.
LEMMA MonitorDoneStep ==
    ASSUME IInv, NEW e \in Execs, monitor[e] = "poll", ~Adopted(e), ctl # "down",
           monitor' = [monitor EXCEPT ![e] = "none"],
           UNCHANGED <<rows, triggered, said, result, session, ctl, ending, active, cancelled,
                       owner, fails, child, fin, rerun, sup, conn, faults>>
    PROVE  IInv'
<1>1. TypeOK'
  BY DEF IInv, TypeOK, DurableTypeOK, MemoryTypeOK, TaskTypeOK, ProcessTypeOK
<1>2. \A d \in Execs : monitor'[d] = IF d = e THEN "none" ELSE monitor[d]
  BY DEF IInv, TypeOK, TaskTypeOK
<1>3. IdsInv' /\ DownInv' /\ TriggerInv'
  BY <1>2 DEF IInv, StructInv, IdsInv, DownInv, TriggerInv
<1>4. DriverInv'
  BY <1>2, ActiveFacts DEF IInv, StructInv, DriverInv, Adopted
<1>5. OpenInv' 
  BY DEF IInv, StructInv, OpenInv
<1>6. ClosedInv'
  BY <1>2, RowFacts DEF IInv, StructInv, ClosedInv
<1>7. ClaimInv'
  BY <1>2 DEF IInv, StructInv, ClaimInv, OwnerClaims, MonitorClaims, ConnClaims, RowClaims
<1>8. StructInv'
  BY <1>3, <1>4, <1>5, <1>6, <1>7 DEF StructInv
<1>9. BudgetInv'
  BY RemoveBudget
<1>10. QED  BY <1>1, <1>8, <1>9 DEF IInv

LEMMA MonitorGoneStep ==
    ASSUME IInv, NEW e \in Execs, MonitorGone(e)
    PROVE  IInv'
BY MonitorDoneStep DEF MonitorGone, MonitorIs, Unwatched, Adopted, durableVars, memoryVars

LEMMA MonitorResultStep ==
    ASSUME IInv, NEW e \in Execs, MonitorResult(e)
    PROVE  IInv'
<1>1. /\ ctl # "down" /\ monitor[e] = "poll"
      /\ UNCHANGED <<rows, triggered, said, result, session, ctl, ending, cancelled, owner,
                     fails, child, rerun, sup, conn, faults>>
  BY DEF MonitorResult, MonitorIs, durableVars
<1>2. CASE ~Adopted(e)
  BY <1>1, <1>2, MonitorDoneStep DEF MonitorResult
<1>3. CASE Adopted(e)
  <2> DEFINE pc == IF Restarts(e) THEN "finishThenReplace" ELSE "finish"
             how == IF active.state = "stopping" THEN "stopped" ELSE "reported"
  <2>1. /\ fin' = [fin EXCEPT ![e] = how] /\ monitor' = [monitor EXCEPT ![e] = pc]
        /\ active' = NoActive /\ active.exec = e
    BY <1>3 DEF MonitorResult, Adopted
  <2>2. pc \in {"finish", "finishThenReplace"} /\ how \in {"stopped", "reported"}
    OBVIOUS
  <2> HIDE DEF pc, how
  <2>3. e \in 1..Len(rows) /\ active' \in Active /\ active'.exec = 0
    BY <1>1, <2>1, TaskFacts, NoActiveType
  <2>4. TypeOK'
    BY <1>1, <2>1, <2>2, <2>3
       DEF IInv, TypeOK, DurableTypeOK, MemoryTypeOK, TaskTypeOK, ProcessTypeOK, Outcomes
  <2>5. \A d \in Execs : /\ monitor'[d] = IF d = e THEN pc ELSE monitor[d]
                         /\ fin'[d] = IF d = e THEN how ELSE fin[d]
    BY <2>1 DEF IInv, TypeOK, TaskTypeOK
  <2>6. StructInv'
    BY <1>1, <2>1, <2>2, <2>3, <2>5, RemoveStruct
  <2>7. BudgetInv'
    BY <1>1, <2>2, <2>5, RemoveBudget
  <2>8. QED  BY <2>4, <2>6, <2>7 DEF IInv
<1>4. QED  BY <1>2, <1>3

\* The monitor becomes the owner of a supervisor it will spawn.
LEMMA MonitorTakeOverStep ==
    ASSUME IInv, NEW e \in Execs, MonitorTakeOver(e)
    PROVE  IInv'
<1>1. /\ ctl # "down" /\ monitor[e] = "poll" /\ active.exec = e
      /\ active' = [active EXCEPT !.owned = TRUE, !.state = "live"]
      /\ monitor' = [monitor EXCEPT ![e] = "none"] /\ owner' = [owner EXCEPT ![e] = "loop"]
      /\ fails' = [fails EXCEPT ![e] = 0]
      /\ UNCHANGED <<rows, triggered, said, result, session, ctl, ending, cancelled, child,
                     fin, rerun, sup, conn, faults>>
  BY DEF MonitorTakeOver, MonitorIs, durableVars
<1>2. active' \in Active /\ active'.exec = e /\ active'.owned
  BY <1>1 DEF IInv, TypeOK, MemoryTypeOK, Active
<1>3. 0 \in 0..LaunchBudget /\ LaunchBudget \in Nat \ {0} /\ faults \in Nat
  BY ManagerAssumption DEF IInv, TypeOK, ProcessTypeOK
<1>4. TypeOK'
  BY <1>1, <1>2, <1>3
     DEF IInv, TypeOK, DurableTypeOK, MemoryTypeOK, TaskTypeOK, ProcessTypeOK
<1>5. \A d \in Execs : /\ monitor'[d] = IF d = e THEN "none" ELSE monitor[d]
                       /\ owner'[d] = IF d = e THEN "loop" ELSE owner[d]
                       /\ fails'[d] = IF d = e THEN 0 ELSE fails[d]
  BY <1>1 DEF IInv, TypeOK, TaskTypeOK
<1>6. owner[e] = "none" /\ e \in 1..Len(rows) /\ e # 0 /\ e <= Len(rows)
  BY <1>1, TaskFacts, RowFacts DEF IInv, StructInv, DriverInv
<1>7. IdsInv' /\ DownInv' /\ TriggerInv'
  BY <1>1, <1>2, <1>5, <1>6 DEF IInv, StructInv, IdsInv, DownInv, TriggerInv
<1>8. DriverInv'
  BY <1>1, <1>2, <1>5 DEF IInv, StructInv, DriverInv
<1>9. OpenInv'
  BY <1>1, <1>2, <1>6 DEF IInv, StructInv, OpenInv
<1>10. ClosedInv'
  BY <1>1, <1>5, RowFacts DEF IInv, StructInv, ClosedInv
<1>11. ClaimInv'
  BY <1>1, <1>2, <1>5
     DEF IInv, StructInv, ClaimInv, OwnerClaims, MonitorClaims, ConnClaims, RowClaims
<1>12. StructInv'
  BY <1>7, <1>8, <1>9, <1>10, <1>11 DEF StructInv
<1>13. BudgetInv'
  <2>1. ~Uncharged(e)' /\ \A d \in Execs : d # e => (Uncharged(d)' => Uncharged(d))
    BY <1>1, <1>5 DEF Uncharged
  <2>2. GivenUpAfterBudget'
    BY <1>1 DEF IInv, BudgetInv, GivenUpAfterBudget
  <2>3. QED  BY <1>1, <1>3, <1>5, <2>1, <2>2 DEF IInv, BudgetInv
<1>14. QED  BY <1>4, <1>12, <1>13 DEF IInv

-----------------------------------------------------------------------------
(* The controller starts and ends. *)

\* Manager::open closes the rows of ended sessions and changes no other.
LEMMA OpenRowFacts ==
    ASSUME IInv, Open
    PROVE  /\ rows' \in Seq(Row) /\ Len(rows') = Len(rows)
           /\ \A e \in 1..Len(rows) :
                /\ rows'[e].sess = rows[e].sess /\ rows'[e].auto = rows[e].auto
                /\ rows'[e].of = rows[e].of /\ (rows'[e].open => rows[e].open)
                /\ rows'[e].outcome \in {rows[e].outcome, "stopped"}
                /\ rows[e].open /\ rows[e].sess = session => rows'[e].open
<1> DEFINE ended(e) == e \in OpenRows \ {d \in OpenRows : rows[d].sess = session}
           closed(e) == [rows[e] EXCEPT !.open = FALSE, !.outcome = "stopped", !.pid = 0]
           new(e) == IF ended(e) THEN closed(e) ELSE rows[e]
<1>1. rows' = [e \in 1..Len(rows) |-> new(e)]
  BY DEF Open
<1>2. Len(rows) \in Nat /\ 0 \in 0..MaxPids
  BY RowFacts, ManagerAssumption
<1>3. ASSUME NEW e \in 1..Len(rows)
      PROVE  /\ new(e) \in Row /\ new(e).sess = rows[e].sess /\ new(e).auto = rows[e].auto
             /\ new(e).of = rows[e].of /\ (new(e).open => rows[e].open)
             /\ new(e).outcome \in {rows[e].outcome, "stopped"}
             /\ rows[e].open /\ rows[e].sess = session => new(e).open
  <2>1. rows[e] \in Row
    BY <1>3, RowFacts
  <2>2. CASE ended(e)
    <3>1. /\ closed(e) \in Row /\ closed(e).sess = rows[e].sess /\ closed(e).auto = rows[e].auto
          /\ closed(e).of = rows[e].of /\ ~closed(e).open /\ closed(e).outcome = "stopped"
      BY <1>2, <2>1 DEF Row, Outcomes
    <3>2. ~(rows[e].open /\ rows[e].sess = session)
      BY <2>2 DEF OpenRows
    <3>3. new(e) = closed(e)
      BY <2>2
    <3> HIDE DEF closed, new, ended
    <3>4. QED  BY <3>1, <3>2, <3>3
  <2>3. CASE ~ended(e)
    BY <2>1, <2>3
  <2>4. QED  BY <2>2, <2>3
<1> HIDE DEF new
<1>4. rows' \in [1..Len(rows) -> Row]
  BY <1>1, <1>3
<1>5. rows' \in Seq(Row) /\ Len(rows') = Len(rows)
  BY <1>2, <1>4
<1>6. \A e \in 1..Len(rows) : rows'[e] = new(e)
  BY <1>1
<1>7. QED  BY <1>3, <1>5, <1>6

LEMMA OpenStep ==
    ASSUME IInv, Open
    PROVE  IInv'
<1>1. /\ ctl = "down" /\ ctl' = "starting"
      /\ UNCHANGED <<triggered, said, result, session, ending, cancelled, owner, fails, child,
                     fin, rerun, sup, conn, faults>>
      /\ \/ active' = NoActive /\ UNCHANGED monitor
         \/ \E e \in OpenRows :
              /\ rows[e].sess = session
              /\ active' = [NoActive EXCEPT !.exec = e, !.pid = rows[e].pid, !.state = "recovering"]
              /\ monitor' = [monitor EXCEPT ![e] = "poll"]
  BY DEF Open
<1>2. /\ rows' \in Seq(Row) /\ Len(rows') = Len(rows)
      /\ \A e \in 1..Len(rows) :
           /\ rows'[e].sess = rows[e].sess /\ rows'[e].auto = rows[e].auto
           /\ rows'[e].of = rows[e].of /\ (rows'[e].open => rows[e].open)
           /\ rows'[e].outcome \in {rows[e].outcome, "stopped"}
           /\ rows[e].open /\ rows[e].sess = session => rows'[e].open
  BY OpenRowFacts
<1>3. /\ \A e \in Execs : owner[e] = "none" /\ monitor[e] = "none"
      /\ \A c \in Conns : conn[c].phase = "none"
  BY <1>1 DEF IInv, StructInv, DownInv
<1>4. BudgetInv'
  <2>1. faults' \in Nat /\ faults <= faults'
    <3>1. faults' = faults
      BY <1>1
    <3>2. faults \in Nat
      BY DEF IInv, TypeOK, ProcessTypeOK
    <3>3. QED  BY <3>1, <3>2
  <2>2. \A e \in 1..Len(rows') : rows'[e].outcome = "unavailable" =>
          e \in 1..Len(rows) /\ rows[e].outcome = "unavailable"
    BY <1>2
  <2>3. \A e \in Execs : ~Uncharged(e)'
    BY <1>1, <1>3 DEF Uncharged
  <2>4. QED  BY <1>1, <1>3, <2>1, <2>2, <2>3, BudgetStep
<1>5. TriggerInv'
  <2>1. TriggerInv
    BY DEF IInv, StructInv
  <2>2. triggered' = triggered /\ session' = session
    BY <1>1
  <2>3. QED  BY <1>2, <2>1, <2>2 DEF TriggerInv
<1>6. CASE active' = NoActive /\ UNCHANGED monitor
  <2>1. active' \in Active /\ active'.exec = 0 /\ 0 <= Len(rows)
    BY <1>6, NoActiveType, RowFacts
  <2>2. TypeOK'
    BY <1>1, <1>2, <1>6, <2>1
       DEF IInv, TypeOK, DurableTypeOK, MemoryTypeOK, TaskTypeOK, ProcessTypeOK
  <2>3. IdsInv' /\ DownInv' /\ DriverInv' /\ OpenInv'
    BY <1>1, <1>2, <1>3, <1>6, <2>1 DEF IInv, StructInv, IdsInv, DownInv, DriverInv, OpenInv
  <2>4. ClosedInv'
    BY <1>1, <1>2, <1>6 DEF IInv, StructInv, ClosedInv
  <2>5. ClaimInv'
    <3>1. \A e \in Execs : e # 0
      BY RowFacts DEF Execs
    <3>2. QED
      BY <1>1, <1>2, <1>6, <2>1, <3>1
         DEF IInv, StructInv, ClaimInv, OwnerClaims, MonitorClaims, ConnClaims, RowClaims
  <2>6. QED  BY <1>4, <1>5, <2>2, <2>3, <2>4, <2>5 DEF IInv, StructInv
<1>7. CASE \E e \in OpenRows :
             /\ rows[e].sess = session
             /\ active' = [NoActive EXCEPT !.exec = e, !.pid = rows[e].pid, !.state = "recovering"]
             /\ monitor' = [monitor EXCEPT ![e] = "poll"]
  <2>1. PICK e \in OpenRows :
             /\ rows[e].sess = session
             /\ active' = [NoActive EXCEPT !.exec = e, !.pid = rows[e].pid, !.state = "recovering"]
             /\ monitor' = [monitor EXCEPT ![e] = "poll"]
    BY <1>7
  <2>2. e \in 1..Len(rows) /\ rows[e].open /\ rows'[e].open
    BY <1>2, <2>1 DEF OpenRows
  <2>3. /\ e \in Execs /\ e \in 0..MaxExecs /\ rows[e].pid \in 0..MaxPids /\ e # 0
        /\ e <= Len(rows)
    BY <2>2, RowFacts DEF Row, Execs
  <2>4. active' \in Active /\ active'.exec = e /\ ~active'.owned
    BY <2>1, <2>3 DEF NoActive, Active
  <2>5. TypeOK'
    BY <1>1, <1>2, <2>1, <2>4
       DEF IInv, TypeOK, DurableTypeOK, MemoryTypeOK, TaskTypeOK, ProcessTypeOK
  <2>6. \A d \in Execs : monitor'[d] = IF d = e THEN "poll" ELSE "none"
    BY <1>3, <2>1 DEF IInv, TypeOK, TaskTypeOK
  <2>7. IdsInv' /\ DownInv'
    BY <1>1, <1>2, <1>3, <2>3, <2>4, <2>6 DEF IInv, StructInv, IdsInv, DownInv
  <2>8. DriverInv' /\ OpenInv'
    BY <1>1, <1>3, <2>2, <2>3, <2>4, <2>6 DEF DriverInv, OpenInv
  <2>9. ClosedInv'
    <3>1. \A d \in 1..Len(rows) : d \in Execs
      BY RowFacts
    <3>2. \A d \in 1..Len(rows) : rows[d].open => \A f \in 1..Len(rows) : rows[f].of # d
      BY DEF IInv, StructInv, ClosedInv
    <3>3. /\ \A d \in Execs : owner'[d] = "none" /\ monitor'[d] # "replace"
          /\ \A c \in Conns : conn'[c].phase = "none"
      BY <1>1, <1>3, <2>6
    <3>4. QED  BY <1>2, <3>1, <3>2, <3>3 DEF ClosedInv
  <2>10. ClaimInv'
    <3>1. \A d \in 1..Len(rows) : rows[d].of # e
      BY <2>2 DEF IInv, StructInv, ClosedInv
    <3>2. \A d \in Execs, f, g \in 1..Len(rows) : rows[f].of = d /\ rows[g].of = d => f = g
      BY DEF IInv, StructInv, ClaimInv, RowClaims
    <3>3. /\ \A d \in Execs : owner'[d] = "none" /\ monitor'[d] \in {"none", "poll"}
          /\ \A c \in Conns : conn'[c].phase = "none"
      BY <1>1, <1>3, <2>6
    <3>4. QED
      BY <1>2, <2>4, <3>1, <3>2, <3>3
         DEF ClaimInv, OwnerClaims, MonitorClaims, ConnClaims, RowClaims
  <2>11. QED  BY <1>4, <1>5, <2>5, <2>7, <2>8, <2>9, <2>10 DEF IInv, StructInv
<1>8. QED  BY <1>1, <1>6, <1>7

\* The controller is gone with all it had in memory.
LEMMA ForgetStep ==
    ASSUME IInv, Forget, UNCHANGED <<rows, triggered, said, result>>,
           session' \in 1..MaxSessions, session <= session', faults' \in 0..MaxFaults,
           faults <= faults', sup' \in [Pids -> Process], QuietProcesses
    PROVE  IInv'
<1>1. /\ ctl' = "down" /\ ending' = FALSE /\ active' = NoActive
      /\ cancelled' = [e \in Execs |-> FALSE]
      /\ owner' = [e \in Execs |-> "none"] /\ fails' = [e \in Execs |-> 0]
      /\ child' = [e \in Execs |-> 0] /\ fin' = [e \in Execs |-> "none"]
      /\ monitor' = [e \in Execs |-> "none"] /\ rerun' = "none"
      /\ conn' = [c \in Conns |-> NoConn]
  BY DEF Forget
<1>2. NoConn \in Connection /\ NoConn.exec = 0 /\ NoConn.phase = "none"
  BY ManagerAssumption DEF NoConn, Connection, Phases
<1>3. /\ 0 \in 0..LaunchBudget /\ 0 \in 0..MaxPids /\ LaunchBudget \in Nat \ {0}
      /\ 0 <= Len(rows) /\ faults \in Nat /\ faults' \in Nat /\ 0 <= faults'
      /\ \A e \in Execs : e # 0
  BY ManagerAssumption, RowFacts DEF Execs, IInv, TypeOK, ProcessTypeOK
<1>4. TypeOK'
  <2>1. MemoryTypeOK'
    BY <1>1, NoActiveType DEF MemoryTypeOK
  <2>2. TaskTypeOK'
    BY <1>1, <1>3 DEF TaskTypeOK
  <2>3. DurableTypeOK' /\ ProcessTypeOK'
    BY <1>1, <1>2 DEF IInv, TypeOK, DurableTypeOK, ProcessTypeOK
  <2>4. QED  BY <2>1, <2>2, <2>3 DEF TypeOK
<1>5. /\ active'.exec = 0
      /\ \A e \in Execs : /\ owner'[e] = "none" /\ monitor'[e] = "none" /\ fails'[e] = 0
                          /\ fin'[e] = "none"
      /\ \A c \in Conns : conn'[c].phase = "none" /\ conn'[c].exec = 0
  BY <1>1, <1>2, NoActiveType
<1>6. IdsInv'
  BY <1>3, <1>5 DEF IInv, StructInv, IdsInv, QuietProcesses
<1>7. DownInv' /\ DriverInv' /\ OpenInv'
  BY <1>3, <1>5 DEF DownInv, DriverInv, OpenInv
<1>8. TriggerInv'
  <2>1. triggered \in Nat /\ session \in Nat /\ session' \in Nat
    BY DEF IInv, TypeOK, DurableTypeOK
  <2>2. QED  BY <2>1 DEF IInv, StructInv, TriggerInv
<1>9. ClosedInv'
  BY <1>5, RowFacts DEF IInv, StructInv, ClosedInv
<1>10. ClaimInv'
  BY <1>3, <1>5
     DEF IInv, StructInv, ClaimInv, OwnerClaims, MonitorClaims, ConnClaims, RowClaims
<1>11. BudgetInv'
  <2>1. GivenUpAfterBudget'
    BY <1>3 DEF IInv, BudgetInv, GivenUpAfterBudget
  <2>2. QED  BY <1>3, <1>5, <2>1 DEF BudgetInv, Uncharged
<1>12. QED  BY <1>4, <1>6, <1>7, <1>8, <1>9, <1>10, <1>11 DEF IInv, StructInv

LEMMA ControllerCrashStep ==
    ASSUME IInv, ControllerCrash
    PROVE  IInv'
<1>1. /\ Forget /\ faults < MaxFaults /\ faults' = faults + 1
      /\ sup' = [p \in Pids |-> [sup[p] EXCEPT !.conn = 0]]
      /\ UNCHANGED <<rows, triggered, said, result, session>>
  BY DEF ControllerCrash, Fault, durableVars
<1>2. sup \in [Pids -> Process] /\ faults \in 0..MaxFaults /\ MaxFaults \in Nat
  BY ManagerAssumption DEF IInv, TypeOK, ProcessTypeOK
<1>3. /\ sup' \in [Pids -> Process]
      /\ \A p \in Pids : sup'[p].exec = sup[p].exec /\ sup'[p].up = sup[p].up
  BY <1>1, <1>2 DEF Process
<1>4. QuietProcesses
  BY <1>3 DEF QuietProcesses, IInv, StructInv, IdsInv
<1>5. faults' \in 0..MaxFaults /\ faults <= faults'
  BY <1>1, <1>2
<1>6. session' \in 1..MaxSessions /\ session <= session'
  BY <1>1 DEF IInv, TypeOK, DurableTypeOK
<1>7. QED  BY <1>1, <1>3, <1>4, <1>5, <1>6, ForgetStep

LEMMA NewSessionStep ==
    ASSUME IInv, NewSession
    PROVE  IInv'
<1>1. /\ Forget /\ session < MaxSessions /\ session' = session + 1
      /\ sup' = [p \in Pids |-> NoProcess]
      /\ UNCHANGED <<rows, triggered, said, result, faults>>
  BY DEF NewSession
<1>2. NoProcess \in Process /\ NoProcess.exec = 0 /\ ~NoProcess.up
  BY ManagerAssumption DEF NoProcess, Process
<1>3. sup' \in [Pids -> Process] /\ QuietProcesses
  BY <1>1, <1>2, RowFacts DEF QuietProcesses
<1>4. session' \in 1..MaxSessions /\ session <= session'
  BY <1>1, ManagerAssumption DEF IInv, TypeOK, DurableTypeOK
<1>5. faults' \in 0..MaxFaults /\ faults <= faults'
  BY <1>1 DEF IInv, TypeOK, ProcessTypeOK
<1>6. QED  BY <1>1, <1>3, <1>4, <1>5, ForgetStep

-----------------------------------------------------------------------------
(* The theorems. *)

LEMMA IInvInit == Init => IInv
<1> SUFFICES ASSUME Init PROVE IInv
  OBVIOUS
<1>1. /\ rows = <<>> /\ triggered = 0 /\ session = 1 /\ ctl = "down" /\ ending = FALSE
      /\ active = NoActive /\ rerun = "none" /\ faults = 0
      /\ said = [e \in Execs |-> FALSE] /\ result = [e \in Execs |-> FALSE]
      /\ cancelled = [e \in Execs |-> FALSE]
      /\ owner = [e \in Execs |-> "none"] /\ fails = [e \in Execs |-> 0]
      /\ child = [e \in Execs |-> 0] /\ fin = [e \in Execs |-> "none"]
      /\ monitor = [e \in Execs |-> "none"]
      /\ sup = [p \in Pids |-> NoProcess] /\ conn = [c \in Conns |-> NoConn]
  BY DEF Init
<1>2. /\ NoConn \in Connection /\ NoConn.exec = 0 /\ NoConn.phase = "none"
      /\ NoProcess \in Process /\ NoProcess.exec = 0 /\ ~NoProcess.up
  BY ManagerAssumption DEF NoConn, Connection, Phases, NoProcess, Process
<1>3. rows \in Seq(Row) /\ Len(rows) = 0 /\ 1..Len(rows) = {}
  BY <1>1, EmptySeq
<1>4. /\ 0 \in 0..LaunchBudget /\ 0 \in 0..MaxPids /\ LaunchBudget \in Nat \ {0}
      /\ 0 <= MaxExecs /\ 0 \in 0..MaxSessions /\ 1 \in 1..MaxSessions /\ 0 \in 0..MaxFaults
      /\ \A e \in Execs : e # 0
  BY ManagerAssumption DEF Execs
<1>5. TypeOK
  <2>1. DurableTypeOK
    BY <1>1, <1>3, <1>4 DEF DurableTypeOK
  <2>2. MemoryTypeOK
    BY <1>1, NoActiveType DEF MemoryTypeOK
  <2>3. TaskTypeOK
    BY <1>1, <1>4 DEF TaskTypeOK
  <2>4. ProcessTypeOK
    BY <1>1, <1>2, <1>4 DEF ProcessTypeOK
  <2>5. QED  BY <2>1, <2>2, <2>3, <2>4 DEF TypeOK
<1>6. /\ active.exec = 0
      /\ \A e \in Execs : owner[e] = "none" /\ monitor[e] = "none" /\ fails[e] = 0 /\ fin[e] = "none"
      /\ \A c \in Conns : conn[c].phase = "none" /\ conn[c].exec = 0
      /\ \A p \in Pids : sup[p].exec = 0 /\ ~sup[p].up
  BY <1>1, <1>2, NoActiveType
<1>7. IdsInv /\ DownInv /\ DriverInv /\ OpenInv
  BY <1>3, <1>4, <1>6 DEF IdsInv, DownInv, DriverInv, OpenInv
<1>8. TriggerInv
  BY <1>1, <1>3 DEF TriggerInv
<1>9. ClosedInv
  BY <1>3 DEF ClosedInv
<1>10. ClaimInv
  BY <1>3, <1>4, <1>6 DEF ClaimInv, OwnerClaims, MonitorClaims, ConnClaims, RowClaims
<1>11. BudgetInv
  BY <1>1, <1>3, <1>4, <1>6 DEF BudgetInv, Uncharged, GivenUpAfterBudget
<1>12. QED  BY <1>5, <1>7, <1>8, <1>9, <1>10, <1>11 DEF IInv, StructInv

LEMMA IInvStep == IInv /\ [Next]_vars => IInv'
<1> SUFFICES ASSUME IInv, [Next]_vars PROVE IInv'
  OBVIOUS
<1>1. CASE UNCHANGED vars
  <2>1. TypeOK'
    BY <1>1 DEF vars, IInv, TypeOK, DurableTypeOK, MemoryTypeOK, TaskTypeOK, ProcessTypeOK
  <2>2. StructInv'
    BY <1>1, QuietSame, QuietStep DEF vars
  <2>3. BudgetInv'
    BY <1>1, QuietSame, BudgetSame DEF vars
  <2>4. QED  BY <2>1, <2>2, <2>3 DEF IInv
<1>2. CASE Open \/ StartEnabled \/ UserStep \/ RerunAct
  BY <1>2, OpenStep, StartEnabledStep, StartCommandStep, CommandStep, RerunCheckStep,
     EndSessionStep, RerunActStep DEF UserStep
<1>3. ASSUME NEW e \in Execs, OwnerStep(e) \/ OwnerSpawnFails(e)
      PROVE  IInv'
  BY <1>3, OwnerCancelledStep, OwnerSpawnStep, OwnerRecordPidStep, OwnerPublishPidStep,
     OwnerStopStep, OwnerKillStep, OwnerReapStep, OwnerRetryStep, OwnerFinishStep,
     OwnerRemoveStep, OwnerReplaceStep, OwnerSpawnFailsStep DEF OwnerStep
<1>4. ASSUME NEW e \in Execs, MonitorStep(e)
      PROVE  IInv'
  BY <1>4, MonitorResultStep, MonitorFinishStep, MonitorReplaceStep, MonitorGoneStep,
     MonitorTakeOverStep DEF MonitorStep
<1>5. ASSUME NEW c \in Conns, ConnStep(c) \/ RecordProgress(c)
      PROVE  IInv'
  BY <1>5, DeliverCommandStep, RecordTerminalStep, CommitTerminalStep, RemoveTerminalStep,
     ConnReplaceStep, DisconnectedStep, RecordProgressStep DEF ConnStep
<1>6. ASSUME NEW p \in Pids,
             \/ Attach(p) \/ SupervisorEnds(p) \/ SupervisorResult(p)
             \/ SupervisorExits(p) \/ SupervisorCrash(p) \/ ConnectionLost(p)
      PROVE  IInv'
  BY <1>6, AttachStep, SupervisorEndsStep, SupervisorResultStep, SupervisorDiesStep,
     ConnectionLostStep
<1>7. CASE ControllerCrash \/ NewSession
  BY <1>7, ControllerCrashStep, NewSessionStep
<1>8. QED  BY <1>1, <1>2, <1>3, <1>4, <1>5, <1>6, <1>7 DEF Next

LEMMA Invariance == Spec => []IInv
BY IInvInit, IInvStep, PTL DEF Spec

\* The manager's table, memory, tasks, processes and connections keep their
\* shape; in particular no failure count passes the launch budget.
THEOREM ManagerTypes == Spec => []TypeOK
<1>1. IInv => TypeOK
  BY DEF IInv
<1>2. QED  BY <1>1, Invariance, PTL

\* manager.rs strands no execution: whatever commands, crashes, disconnections
\* and terminal reports race, an active execution has a task that will end it,
\* and its row is open but for the end of that task.
THEOREM ActiveExecutionsAreDriven == Spec => []ActiveIsDriven
<1>1. IInv => ActiveIsDriven
  BY DEF IInv, StructInv, DriverInv, OpenInv, ActiveIsDriven
<1>2. QED  BY <1>1, Invariance, PTL

\* An execution is given up as unavailable only after as many crashes and failed
\* spawns as the launch budget allows; a supervisor that ended in good order, or
\* was stopped, is never counted.
THEOREM BudgetIsPaidByFaults == Spec => []GivenUpAfterBudget
<1>1. IInv => GivenUpAfterBudget
  BY DEF IInv, BudgetInv
<1>2. QED  BY <1>1, Invariance, PTL

\* A set without two different elements.
LEMMA AtMostOne ==
    ASSUME NEW S, \A x, y \in S : x = y
    PROVE  Cardinality(S) = IF S = {} THEN 0 ELSE 1
<1>1. CASE S = {}
  BY <1>1, FS_EmptySet
<1>2. CASE S # {}
  <2>1. PICK x : x \in S
    BY <1>2
  <2>2. S = {x}
    BY <2>1
  <2>3. QED  BY <1>2, <2>2, FS_Singleton
<1>3. QED  BY <1>1, <1>2

\* The claim of the session and the row of the job are one transaction, so an
\* enabled job is triggered once in a session however often the controller
\* crashes and starts again.
THEOREM EnabledJobsTriggerOnce == Spec => []EnabledJobOncePerSession
<1>1. IInv => EnabledJobOncePerSession
  <2> SUFFICES ASSUME IInv, Kind = "job", NEW s \in 1..MaxSessions
               PROVE  Cardinality({e \in 1..Len(rows) : rows[e].auto /\ rows[e].sess = s}) <= 1
    BY DEF EnabledJobOncePerSession
  <2> DEFINE S == {e \in 1..Len(rows) : rows[e].auto /\ rows[e].sess = s}
  <2>1. \A x, y \in S : x = y
    BY DEF IInv, StructInv, TriggerInv
  <2>2. Cardinality(S) = IF S = {} THEN 0 ELSE 1
    BY <2>1, AtMostOne
  <2>3. QED  BY <2>2
<1>2. QED  BY <1>1, Invariance, PTL

\* Restarts that repeat, and an owner, a monitor and a connection that end the
\* same execution, decide on one replacement between them and start at most one,
\* also across crashes of the controller.
THEOREM ReplacementsCoalesce == Spec => []ReplacedOnce
<1>1. IInv => ReplacedOnce
  <2> SUFFICES ASSUME IInv, NEW e \in Execs
               PROVE  Replacements(e) <= 1
    BY DEF ReplacedOnce
  <2> DEFINE R == {d \in 1..Len(rows) : rows[d].of = e}
             C == {c \in Conns : conn[c].phase = "replace" /\ conn[c].exec = e}
             o == IF owner[e] = "replace" THEN 1 ELSE 0
             m == IF monitor[e] \in {"finishThenReplace", "replace"} THEN 1 ELSE 0
  <2>1. /\ \A x, y \in R : x = y
        /\ R # {} => C = {} /\ o = 0 /\ m = 0
    BY DEF IInv, StructInv, ClaimInv, OwnerClaims, MonitorClaims, ConnClaims, RowClaims
  <2>2. /\ \A x, y \in C : x = y
        /\ C # {} => o = 0 /\ m = 0
    BY DEF IInv, StructInv, ClaimInv, OwnerClaims, MonitorClaims, ConnClaims
  <2>3. o \in {0, 1} /\ m \in {0, 1} /\ (o = 0 \/ m = 0)
    BY DEF IInv, StructInv, ClaimInv, OwnerClaims, MonitorClaims
  <2>4. /\ Cardinality(R) = IF R = {} THEN 0 ELSE 1
        /\ Cardinality(C) = IF C = {} THEN 0 ELSE 1
    BY <2>1, <2>2, AtMostOne
  <2>5. Replacements(e) = Cardinality(R) + o + m + Cardinality(C)
    BY DEF Replacements
  <2> HIDE DEF R, C, o, m
  <2>6. QED  BY <2>1, <2>2, <2>3, <2>4, <2>5
<1>2. QED  BY <1>1, Invariance, PTL
=============================================================================
