------------------------ MODULE ObservationLinkProofs ------------------------
(***************************************************************************)
(* Proofs about ObservationLink: IInv is inductive, and with it            *)
(* CommittedPrefix, NoGap, AckedIsCommitted, NothingForgotten,             *)
(* ReturnsAfterTerminal and the implementation of ObservationLog hold for  *)
(* every journal length, every number of faults and every set of kinds.    *)
(***************************************************************************)
EXTENDS ObservationLink, TLAPS

-----------------------------------------------------------------------------
(* Sequences. *)

LEMMA AppendFacts ==
    ASSUME NEW S, NEW s \in Seq(S), NEW e \in S
    PROVE  /\ Append(s, e) \in Seq(S)
           /\ Len(Append(s, e)) = Len(s) + 1
           /\ Append(s, e) # <<>>
           /\ \A i \in 1..Len(s) : Append(s, e)[i] = s[i]
           /\ Append(s, e)[Len(s) + 1] = e
  OBVIOUS

LEMMA TailFacts ==
    ASSUME NEW S, NEW s \in Seq(S), s # <<>>
    PROVE  /\ Tail(s) \in Seq(S)
           /\ Len(s) > 0
           /\ Len(Tail(s)) = Len(s) - 1
           /\ Head(s) = s[1]
           /\ Head(s) \in S
           /\ \A i \in 1..Len(Tail(s)) : Tail(s)[i] = s[i + 1]
           /\ Tail(s) # <<>> => Len(s) > 1
  <1>1. Len(s) \in Nat /\ Len(s) > 0
    OBVIOUS
  <1>2. Tail(s) \in Seq(S) /\ Len(Tail(s)) = Len(s) - 1
    OBVIOUS
  <1>3. Head(s) = s[1] /\ Head(s) \in S
    BY <1>1
  <1>4. \A i \in 1..Len(Tail(s)) : Tail(s)[i] = s[i + 1]
    BY <1>1, <1>2
  <1>5. Tail(s) # <<>> => Len(s) > 1
    BY <1>1, <1>2
  <1>6. QED
    BY <1>1, <1>2, <1>3, <1>4, <1>5

LEMMA EmptyFacts ==
    ASSUME NEW S
    PROVE  <<>> \in Seq(S) /\ Len(<<>>) = 0
  OBVIOUS

LEMMA LenFacts ==
    ASSUME NEW S, NEW s \in Seq(S)
    PROVE  /\ Len(s) \in Nat
           /\ s = <<>> <=> Len(s) = 0
           /\ \A i \in 1..Len(s) : s[i] \in S
  OBVIOUS

LEMMA ConnsFacts ==
    /\ MaxFaults + 1 \in Nat
    /\ \A c \in Conns : c \in Nat /\ c > 0
  BY BoundsAssumption DEF Conns

LEMMA RequestTypes ==
    ASSUME TypeOK, NEW c \in Conns
    PROVE  /\ req[c] \in Seq(Observation) /\ Len(req[c]) \in Nat
           /\ \A i \in 1..Len(req[c]) :
                 req[c][i] \in Observation /\ req[c][i].seq \in Nat \ {0}
  <1>1. req[c] \in Seq(Observation)
    BY DEF TypeOK
  <1>2. \A i \in 1..Len(req[c]) : req[c][i] \in Observation
    BY <1>1, LenFacts
  <1>3. QED
    BY <1>1, <1>2, LenFacts DEF Observation

LEMMA ResponseTypes ==
    ASSUME TypeOK, NEW c \in Conns
    PROVE  /\ resp[c] \in Seq(Response) /\ Len(resp[c]) \in Nat
           /\ \A i \in 1..Len(resp[c]) :
                 resp[c][i] \in Response /\ resp[c][i].seq \in Nat
  <1>1. resp[c] \in Seq(Response)
    BY DEF TypeOK
  <1>2. \A i \in 1..Len(resp[c]) : resp[c][i] \in Response
    BY <1>1, LenFacts
  <1>3. QED
    BY <1>1, <1>2, LenFacts DEF Response

LEMMA LiveTypes ==
    ASSUME TypeOK
    PROVE  /\ live \in Seq(Observation) /\ Len(live) \in Nat
           /\ \A i \in 1..Len(live) :
                 live[i] \in Observation /\ live[i].seq \in Nat \ {0}
  <1>1. live \in Seq(Observation)
    BY DEF TypeOK
  <1>2. \A i \in 1..Len(live) : live[i] \in Observation
    BY <1>1, LenFacts
  <1>3. QED
    BY <1>1, <1>2, LenFacts DEF Observation

-----------------------------------------------------------------------------
(* The initial state. *)

LEMMA InitIInv == Init => IInv
  <1> SUFFICES ASSUME Init PROVE IInv
      OBVIOUS
  <1> USE BoundsAssumption
  <1>1. TypeOK
    <2>1. req \in [Conns -> Seq(Observation)] /\ resp \in [Conns -> Seq(Response)]
      BY EmptyFacts DEF Init
    <2>2. broken \in [Conns -> BOOLEAN] /\ seen \in [Conns -> Nat]
      BY DEF Init
    <2>3. journal \in Seq(Kinds) /\ applied \in Seq(Kinds) /\ live \in Seq(Observation)
      BY EmptyFacts DEF Init
    <2>4. server \in [Conns -> {"none", "reading", "serving", "closed"}]
      BY DEF Init
    <2>5. conn \in 0..(MaxFaults + 1)
      BY DEF Init
    <2>6. QED
      BY <2>1, <2>2, <2>3, <2>4, <2>5 DEF Init, TypeOK
  <1>2. CommittedPrefix /\ AckedIsCommitted /\ ReturnsAfterTerminal
    BY DEF Init, CommittedPrefix, AckedIsCommitted, ReturnsAfterTerminal
  <1>3. RequestsInv /\ ResponsesInv
    BY DEF Init, RequestsInv, ResponsesInv
  <1>4. FreshInv /\ SentInv /\ LiveInv /\ TermInv
    BY DEF Init, FreshInv, SentInv, LiveInv, TermInv, Published
  <1>5. QED
    BY <1>1, <1>2, <1>3, <1>4 DEF IInv

-----------------------------------------------------------------------------
(* What a step leaves alone. *)

LEMMA Frames ==
    ASSUME IInv
    PROVE  /\ UNCHANGED <<journal, committed, applied>> => CommittedPrefix'
           /\ UNCHANGED <<acked, committed>> => AckedIsCommitted'
           /\ UNCHANGED <<link, committed, journal>> => ReturnsAfterTerminal'
           /\ UNCHANGED <<server, req, journal, committed>> => RequestsInv'
           /\ UNCHANGED <<seen, resp, committed>> => ResponsesInv'
           /\ UNCHANGED <<server, req, resp, conn, link>> => FreshInv'
           /\ UNCHANGED <<link, server, conn, sent, replayTo, journal, req, committed>>
                => SentInv'
           /\ UNCHANGED <<runner, journal, live, link, sent, replayTo>> => LiveInv'
           /\ UNCHANGED <<link, term, journal>> => TermInv'
  <1>1. UNCHANGED <<journal, committed, applied>> => CommittedPrefix'
    BY DEF IInv, CommittedPrefix
  <1>2. UNCHANGED <<acked, committed>> => AckedIsCommitted'
    BY DEF IInv, AckedIsCommitted
  <1>3. UNCHANGED <<link, committed, journal>> => ReturnsAfterTerminal'
    BY DEF IInv, ReturnsAfterTerminal
  <1>4. UNCHANGED <<server, req, journal, committed>> => RequestsInv'
    BY DEF IInv, RequestsInv, Journalled
  <1>5. UNCHANGED <<seen, resp, committed>> => ResponsesInv'
    BY DEF IInv, ResponsesInv
  <1>6. UNCHANGED <<server, req, resp, conn, link>> => FreshInv'
    BY DEF IInv, FreshInv
  <1>7. UNCHANGED <<link, server, conn, sent, replayTo, journal, req, committed>>
          => SentInv'
    BY DEF IInv, SentInv
  <1>8. UNCHANGED <<runner, journal, live, link, sent, replayTo>> => LiveInv'
    BY DEF IInv, LiveInv, Published, Journalled, Larger
  <1>9. UNCHANGED <<link, term, journal>> => TermInv'
    BY DEF IInv, TermInv, Terminals
  <1>10. QED
    BY <1>1, <1>2, <1>3, <1>4, <1>5, <1>6, <1>7, <1>8, <1>9

-----------------------------------------------------------------------------
(* One lemma per action. *)

LEMMA ObserveIInv ==
    ASSUME IInv, NEW k \in Kinds, Observe(k)
    PROVE  IInv'
  <1> USE BoundsAssumption DEF IInv, durableVars, runnerVars, linkVars,
                               controllerVars, streamVars
  <1>1. TypeOK'
    BY DEF TypeOK, Observe
  <1>2. CommittedPrefix'
    BY DEF TypeOK, Observe, CommittedPrefix
  <1>a. /\ Len(journal') = Len(journal) + 1
        /\ \A i \in 1..Len(journal) : journal'[i] = journal[i]
        /\ Len(journal) \in Nat
    BY AppendFacts DEF TypeOK, Observe
  <1>3. ReturnsAfterTerminal'
    <2>1. link' = link /\ committed' = committed /\ committed <= Len(journal)
      BY DEF Observe, CommittedPrefix
    <2>2. committed \in Nat
      BY DEF TypeOK
    <2>3. \A n \in 1..committed : journal'[n] = journal[n]
      BY <1>a, <2>1, <2>2
    <2>4. QED
      BY <2>1, <2>3 DEF ReturnsAfterTerminal
  <1>4. RequestsInv'
    <2>1. UNCHANGED <<server, req, committed>>
      BY DEF Observe
    <2>2. ASSUME NEW c \in Conns, NEW i \in 1..Len(req[c])
          PROVE  Journalled(req[c][i])'
      <3>1. req[c][i].seq \in 1..Len(journal) /\ Journalled(req[c][i])
        BY RequestTypes, <1>a DEF RequestsInv, Journalled
      <3>2. QED
        BY <1>a, <2>1, <3>1 DEF Journalled
    <2>3. QED
      BY <2>1, <2>2 DEF RequestsInv
  <1>5. SentInv'
    <2>1. UNCHANGED <<link, server, conn, sent, replayTo, req, committed>>
      BY DEF Observe
    <2>2. sent \in Nat /\ replayTo \in Nat
      BY DEF TypeOK
    <2>3. /\ sent <= Len(journal) => sent <= Len(journal')
          /\ replayTo <= Len(journal) => replayTo <= Len(journal')
      BY <1>a, <2>2
    <2>4. QED
      BY <2>1, <2>3 DEF SentInv
  <1>6. LiveInv'
    <2>1. UNCHANGED <<live, link, sent, replayTo>> /\ Published' = Published
      BY <1>a DEF Observe, Published
    <2>2. ASSUME NEW i \in 1..Len(live)
          PROVE  Journalled(live[i])'
      <3>1. live[i].seq \in 1..Len(journal) /\ Journalled(live[i])
        BY LiveTypes, <1>a DEF LiveInv, Journalled
      <3>2. QED
        BY <1>a, <2>1, <3>1 DEF Journalled
    <2>3. QED
      BY <1>a, <2>1, <2>2 DEF LiveInv, Larger
  <1>7. TermInv'
    BY DEF TypeOK, Observe, TermInv, Terminals
  <1>8. AckedIsCommitted' /\ ResponsesInv' /\ FreshInv'
    BY Frames DEF Observe
  <1>9. QED
    BY <1>1, <1>2, <1>3, <1>4, <1>5, <1>6, <1>7, <1>8

LEMMA PublishIInv ==
    ASSUME IInv, Publish
    PROVE  IInv'
  <1> USE BoundsAssumption DEF IInv, durableVars, runnerVars, linkVars,
                               controllerVars, streamVars
  <1>a. /\ Len(journal) \in Nat /\ Len(journal) > 0
        /\ ObservationAt(Len(journal)) \in Observation
        /\ ObservationAt(Len(journal)).seq = Len(journal)
        /\ Journalled(ObservationAt(Len(journal)))
    BY LenFacts DEF TypeOK, Publish, LiveInv, ObservationAt, Observation, Journalled
  <1>1. TypeOK'
    BY <1>a, AppendFacts DEF TypeOK, Publish
  <1>2. LiveInv'
    <2>1. /\ Published' = Len(journal) /\ Published = Len(journal) - 1
          /\ UNCHANGED <<journal, link, sent, replayTo>>
      BY DEF Publish, Published
    <2>2. /\ Len(live') = Len(live) + 1 /\ Len(live) \in Nat
          /\ \A i \in 1..Len(live) : live'[i] = live[i]
          /\ live'[Len(live) + 1] = ObservationAt(Len(journal))
      BY <1>a, AppendFacts DEF Publish, TypeOK
    <2>3. ASSUME NEW i \in 1..Len(live')
          PROVE  Journalled(live'[i]) /\ live'[i].seq = Published' - Len(live') + i
      <3>1. CASE i \in 1..Len(live)
        BY <1>a, <2>1, <2>2, <3>1, LiveTypes DEF LiveInv
      <3>2. CASE i = Len(live) + 1
        BY <1>a, <2>1, <2>2, <3>2
      <3>3. QED
        BY <2>2, <3>1, <3>2
    <2>4. QED
      BY <1>a, <2>1, <2>2, <2>3 DEF LiveInv, Journalled, Larger
  <1>3. CommittedPrefix' /\ AckedIsCommitted' /\ ReturnsAfterTerminal' /\ RequestsInv' /\ ResponsesInv' /\ FreshInv' /\ SentInv' /\ TermInv'
    BY Frames DEF Publish
  <1>4. QED
    BY <1>1, <1>2, <1>3

LEMMA WriteResultIInv ==
    ASSUME IInv, WriteResult
    PROVE  IInv'
  <1> USE BoundsAssumption DEF IInv, durableVars, runnerVars, linkVars,
                               controllerVars, streamVars
  <1>1. TypeOK'
    BY DEF TypeOK, WriteResult
  <1>2. LiveInv'
    BY DEF TypeOK, WriteResult, LiveInv, Published, Journalled, Larger
  <1>3. CommittedPrefix' /\ AckedIsCommitted' /\ ReturnsAfterTerminal' /\ RequestsInv' /\ ResponsesInv' /\ FreshInv' /\ SentInv' /\ TermInv'
    BY Frames DEF WriteResult
  <1>4. QED
    BY <1>1, <1>2, <1>3

LEMMA ExitIInv ==
    ASSUME IInv, Exit
    PROVE  IInv'
  <1> USE BoundsAssumption DEF IInv, durableVars, runnerVars, linkVars,
                               controllerVars, streamVars
  <1>1. TypeOK'
    BY DEF TypeOK, Exit
  <1>2. CommittedPrefix' /\ AckedIsCommitted' /\ ReturnsAfterTerminal' /\ RequestsInv' /\ ResponsesInv' /\ FreshInv' /\ SentInv' /\ LiveInv' /\ TermInv'
    BY Frames DEF Exit
  <1>3. QED
    BY <1>1, <1>2

LEMMA ConnectIInv ==
    ASSUME IInv, Connect
    PROVE  IInv'
  <1> USE BoundsAssumption DEF IInv, durableVars, runnerVars, linkVars,
                               controllerVars, streamVars
  <1>a. conn' = conn + 1 /\ conn' \in Conns /\ conn \in Nat /\ link' = "greeting"
    BY DEF TypeOK, Connect, Conns
  <1>1. TypeOK'
    BY <1>a DEF TypeOK, Connect, Conns
  <1>2. FreshInv'
    <2>1. server[conn'] = "none" /\ req[conn'] = <<>> /\ resp[conn'] = <<>>
      BY <1>a DEF FreshInv
    <2>2. ASSUME NEW c \in Conns, c > conn'
          PROVE  server[c] = "none" /\ req[c] = <<>> /\ resp[c] = <<>>
      BY <1>a, <2>2, ConnsFacts DEF FreshInv
    <2>3. QED
      BY <1>a, <2>1, <2>2 DEF FreshInv, Connect
  <1>3. ReturnsAfterTerminal' /\ SentInv' /\ TermInv'
    BY <1>a DEF ReturnsAfterTerminal, SentInv, TermInv
  <1>4. LiveInv'
    BY <1>a DEF Connect, LiveInv, Published, Journalled
  <1>5. CommittedPrefix' /\ AckedIsCommitted' /\ RequestsInv' /\ ResponsesInv'
    BY Frames DEF Connect
  <1>6. QED
    BY <1>1, <1>2, <1>3, <1>4, <1>5

\* The link drops its attachment; what it will not read again is forgotten.
LEMMA LeaveFacts ==
    ASSUME IInv, NEW next \in {"connecting", "failed", "returned"}, Leave(next),
           UNCHANGED <<journal, committed, runner, live>>
    PROVE  /\ resp' \in [Conns -> Seq(Response)]
           /\ RequestsInv' /\ ResponsesInv' /\ FreshInv' /\ SentInv' /\ LiveInv' /\ TermInv'
  <1> USE BoundsAssumption DEF IInv, durableVars, runnerVars, linkVars,
                               controllerVars, streamVars
  <1>1. resp' \in [Conns -> Seq(Response)]
    BY EmptyFacts DEF Leave, TypeOK
  <1>2. ResponsesInv'
    BY DEF Leave, ResponsesInv
  <1>3. FreshInv'
    BY DEF Leave, FreshInv
  <1>4. SentInv' /\ TermInv'
    BY DEF Leave, SentInv, TermInv
  <1>5. LiveInv'
    BY DEF Leave, LiveInv, Published, Journalled
  <1>6. RequestsInv'
    BY Frames DEF Leave
  <1>7. QED
    BY <1>1, <1>2, <1>3, <1>4, <1>5, <1>6

LEMMA LeaveIInv ==
    ASSUME IInv, NEW next \in {"connecting", "failed"}, Leave(next),
           UNCHANGED <<live, faults, durableVars, runnerVars, controllerVars>>
    PROVE  IInv'
  <1> USE BoundsAssumption DEF IInv, durableVars, runnerVars, linkVars,
                               controllerVars, streamVars
  <1>1. TypeOK'
    BY LeaveFacts DEF Leave, TypeOK
  <1>2. ReturnsAfterTerminal'
    BY DEF Leave, ReturnsAfterTerminal
  <1>3. CommittedPrefix' /\ AckedIsCommitted'
    BY Frames
  <1>4. QED
    BY <1>1, <1>2, <1>3, LeaveFacts

LEMMA GreetingRetryIInv ==
    ASSUME IInv, GreetingRetry
    PROVE  IInv'
  BY LeaveIInv DEF GreetingRetry

LEMMA GreetingFailedIInv ==
    ASSUME IInv, GreetingFailed
    PROVE  IInv'
  BY LeaveIInv DEF GreetingFailed

\* The link takes the first response of its attachment.
LEMMA TakeResponse ==
    ASSUME IInv, NEW c \in Conns, resp[c] # <<>>,
           resp' = [resp EXCEPT ![c] = Tail(@)], UNCHANGED <<committed, seen>>
    PROVE  /\ Head(resp[c]).seq \in Nat /\ Head(resp[c]).seq <= committed
           /\ resp' \in [Conns -> Seq(Response)]
           /\ ResponsesInv'
  <1> USE BoundsAssumption DEF IInv, durableVars, runnerVars, linkVars,
                               controllerVars, streamVars
  <1>1. /\ Len(resp[c]) > 0 /\ Len(resp[c]) \in Nat
        /\ Head(resp[c]) = resp[c][1]
        /\ Tail(resp[c]) \in Seq(Response)
        /\ Len(Tail(resp[c])) = Len(resp[c]) - 1
        /\ \A i \in 1..Len(Tail(resp[c])) : Tail(resp[c])[i] = resp[c][i + 1]
    BY ResponseTypes, TailFacts
  <1>2. Head(resp[c]).seq \in Nat /\ Head(resp[c]).seq <= committed
    BY <1>1, ResponseTypes DEF ResponsesInv
  <1>3. resp' \in [Conns -> Seq(Response)]
    BY <1>1 DEF TypeOK
  <1>4. ASSUME NEW d \in Conns, NEW i \in 1..Len(resp'[d])
        PROVE  resp'[d][i].seq <= committed
    <2>1. CASE d = c
      <3>1. resp'[d] = Tail(resp[c]) /\ i + 1 \in 1..Len(resp[c])
        BY <1>1, <2>1 DEF TypeOK
      <3>2. QED
        BY <1>1, <2>1, <3>1 DEF ResponsesInv
    <2>2. CASE d # c
      <3>1. resp'[d] = resp[d]
        BY <2>2 DEF TypeOK
      <3>2. QED
        BY <3>1 DEF ResponsesInv
    <2>3. QED
      BY <2>1, <2>2
  <1>5. ResponsesInv'
    BY <1>4 DEF ResponsesInv
  <1>6. QED
    BY <1>2, <1>3, <1>5

LEMMA ReceiveWelcomeIInv ==
    ASSUME IInv, ReceiveWelcome
    PROVE  IInv'
  <1> USE BoundsAssumption DEF IInv, durableVars, runnerVars, linkVars,
                               controllerVars, streamVars
  <1> DEFINE w == Head(resp[conn]).seq
  <1>a. conn \in Conns /\ resp[conn] # <<>> /\ req[conn] = <<>>
        /\ server[conn] \in {"serving", "closed"}
    BY DEF ReceiveWelcome, FreshInv
  <1>c. committed \in Nat /\ Len(journal) \in Nat /\ committed <= Len(journal)
    BY LenFacts DEF TypeOK, CommittedPrefix
  <1>d. /\ sent' = w /\ replayTo' = Len(journal) /\ link' = "replaying" /\ term' = 0
        /\ acked' = WelcomeAcknowledgement(w)
        /\ resp' = [resp EXCEPT ![conn] = Tail(@)]
        /\ UNCHANGED <<journal, committed, live, runner, conn, req, server, seen>>
    BY DEF ReceiveWelcome, ResumeAfter
  <1>b. w \in Nat /\ w <= committed /\ resp' \in [Conns -> Seq(Response)] /\ ResponsesInv'
    BY <1>a, <1>d, TakeResponse
  <1>e. acked' \in Nat /\ acked' <= committed
    BY <1>b, <1>d DEF TypeOK, WelcomeAcknowledgement, Larger, AckedIsCommitted
  <1> HIDE DEF w
  <1>1. TypeOK'
    <2>1. UNCHANGED <<applied, result, proc, recCommitted, ctl, active, owned, broken, faults>>
          /\ obsOpen' = TRUE
      BY DEF ReceiveWelcome
    <2>2. sent' \in Nat /\ replayTo' \in Nat /\ term' \in Nat
      BY <1>b, <1>c, <1>d
    <2>3. QED
      BY <1>b, <1>d, <1>e, <2>1, <2>2 DEF TypeOK
  <1>2. AckedIsCommitted'
    BY <1>d, <1>e DEF AckedIsCommitted
  <1>3. ReturnsAfterTerminal' /\ TermInv'
    BY <1>d DEF ReturnsAfterTerminal, TermInv
  <1>5. FreshInv'
    BY <1>a, <1>d, ConnsFacts DEF FreshInv, TypeOK
  <1>6. SentInv'
    BY <1>a, <1>b, <1>c, <1>d DEF SentInv
  <1>7. LiveInv'
    <2>1. Published' - Len(live') <= Larger(sent', replayTo')
      BY <1>b, <1>c, <1>d, LiveTypes DEF Published, Larger
    <2>2. QED
      BY <1>d, <2>1 DEF LiveInv, Published, Journalled
  <1>8. CommittedPrefix' /\ RequestsInv'
    BY Frames DEF ReceiveWelcome
  <1>9. QED
    BY <1>b, <1>1, <1>2, <1>3, <1>5, <1>6, <1>7, <1>8

\* The link sends the observation after the last one it sent.
LEMMA SendFacts ==
    ASSUME IInv, link \in {"replaying", "attached"},
           NEW m \in Observation, Journalled(m), m.seq = sent + 1, Send(m),
           UNCHANGED <<journal, committed, server, resp, link, conn, replayTo>>
    PROVE  /\ req' \in [Conns -> Seq(Observation)] /\ sent' \in Nat /\ term' \in Nat
           /\ RequestsInv' /\ FreshInv' /\ SentInv' /\ TermInv'
  <1> USE BoundsAssumption DEF IInv, durableVars, runnerVars, linkVars,
                               controllerVars, streamVars
  <1>a. /\ conn \in Conns /\ sent \in Nat /\ committed \in Nat /\ Len(journal) \in Nat
        /\ server[conn] \in {"serving", "closed"}
    BY LenFacts DEF FreshInv, SentInv, TypeOK
  <1>b. /\ req' = [req EXCEPT ![conn] = Append(@, m)]
        /\ sent' = sent + 1
        /\ term' = IF m.kind \in TerminalKinds THEN m.seq ELSE term
    BY DEF Send
  <1>c. /\ req'[conn] = Append(req[conn], m)
        /\ \A c \in Conns : c # conn => req'[c] = req[c]
    BY <1>a, <1>b DEF TypeOK
  <1>d. /\ req[conn] \in Seq(Observation) /\ Len(req[conn]) \in Nat
        /\ req'[conn] \in Seq(Observation)
        /\ Len(req'[conn]) = Len(req[conn]) + 1 /\ req'[conn] # <<>>
        /\ \A i \in 1..Len(req[conn]) : req'[conn][i] = req[conn][i]
        /\ req'[conn][Len(req[conn]) + 1] = m
    BY <1>a, <1>c, AppendFacts, RequestTypes
  <1>e. req[conn] # <<>> =>
          /\ Len(req[conn]) > 0
          /\ req[conn][1].seq \in Nat
          /\ sent = req[conn][1].seq + Len(req[conn]) - 1
    <2>1. req[conn] # <<>> => Len(req[conn]) > 0
      BY <1>d, LenFacts
    <2>2. \A i \in 1..Len(req[conn]) : req[conn][i].seq = req[conn][1].seq + i - 1
      BY <1>a DEF RequestsInv
    <2>3. req[conn] # <<>> => req[conn][Len(req[conn])].seq = sent
      BY DEF SentInv
    <2>4. req[conn] # <<>> => req[conn][1].seq \in Nat
      BY <1>a, <1>d, <2>1, RequestTypes
    <2>5. req[conn] # <<>> => Len(req[conn]) \in 1..Len(req[conn])
      BY <1>d, <2>1
    <2>6. req[conn] # <<>> =>
            req[conn][Len(req[conn])].seq = req[conn][1].seq + Len(req[conn]) - 1
      BY <2>2, <2>5
    <2>7. QED
      BY <1>d, <2>1, <2>3, <2>4, <2>6
  <1>1. req' \in [Conns -> Seq(Observation)] /\ sent' \in Nat /\ term' \in Nat
    BY <1>a, <1>b, <1>d DEF TypeOK
  <1>2. RequestsInv'
    <2>1. ASSUME NEW c \in Conns, c # conn
          PROVE  /\ server'[c] \in {"none", "reading"} => req'[c] = <<>>
                 /\ \A i \in 1..Len(req'[c]) : Journalled(req'[c][i])
                 /\ \A i \in 1..Len(req'[c]) : req'[c][i].seq = req'[c][1].seq + i - 1
                 /\ server'[c] = "serving" /\ req'[c] # <<>>
                      => req'[c][1].seq <= committed' + 1
      BY <1>c, <2>1 DEF RequestsInv, Journalled
    <2>2. ASSUME NEW i \in 1..Len(req'[conn])
          PROVE  Journalled(req'[conn][i]) /\ req'[conn][i].seq = req'[conn][1].seq + i - 1
      <3>1. CASE i = Len(req[conn]) + 1
        <4>1. CASE req[conn] = <<>>
          BY <1>a, <1>d, <3>1, <4>1 DEF Journalled
        <4>2. CASE req[conn] # <<>>
          <5>1. req'[conn][i] = m /\ req'[conn][1] = req[conn][1]
            BY <1>d, <1>e, <3>1, <4>2
          <5>2. m.seq = req[conn][1].seq + i - 1
            <6>1. /\ sent = req[conn][1].seq + Len(req[conn]) - 1
                  /\ req[conn][1].seq \in Nat /\ Len(req[conn]) \in Nat
              BY <1>d, <1>e, <4>2
            <6>2. QED
              BY <3>1, <6>1
          <5>3. QED
            BY <5>1, <5>2 DEF Journalled
        <4>3. QED
          BY <4>1, <4>2
      <3>2. CASE i \in 1..Len(req[conn])
        <4>1. req'[conn][i] = req[conn][i] /\ req'[conn][1] = req[conn][1]
          BY <1>d, <3>2
        <4>2. QED
          BY <1>a, <3>2, <4>1 DEF RequestsInv
      <3>3. QED
        BY <1>d, <3>1, <3>2
    <2>3. server[conn] = "serving" => req'[conn][1].seq <= committed + 1
      <3>1. CASE req[conn] = <<>>
        BY <1>a, <1>d, <3>1 DEF SentInv
      <3>2. CASE req[conn] # <<>>
        <4>1. req'[conn][1] = req[conn][1]
          BY <1>d, <1>e, <3>2
        <4>2. QED
          BY <1>a, <3>2, <4>1 DEF RequestsInv
      <3>3. QED
        BY <3>1, <3>2
    <2>4. QED
      BY <1>a, <2>1, <2>2, <2>3 DEF RequestsInv, Journalled
  <1>3. FreshInv'
    BY <1>a, <1>c, ConnsFacts DEF FreshInv, TypeOK
  <1>4. SentInv'
    BY <1>a, <1>b, <1>d DEF SentInv, Journalled, TypeOK
  <1>5. TermInv'
    BY <1>a, <1>b DEF TermInv, Terminals, Journalled
  <1>6. QED
    BY <1>1, <1>2, <1>3, <1>4, <1>5

LEMMA ReplayIInv ==
    ASSUME IInv, Replay
    PROVE  IInv'
  <1> USE BoundsAssumption DEF IInv, durableVars, runnerVars, linkVars,
                               controllerVars, streamVars
  <1> DEFINE m == ObservationAt(sent + 1)
  <1>a. /\ sent \in Nat /\ sent + 1 \in 1..Len(journal)
        /\ sent + 1 <= replayTo /\ replayTo \in Nat
    BY LenFacts DEF Replay, SentInv, TypeOK
  <1>b. m \in Observation /\ Journalled(m) /\ m.seq = sent + 1
    BY <1>a, LenFacts DEF TypeOK, ObservationAt, Observation, Journalled
  <1>c. /\ Send(m) /\ link = "replaying"
        /\ UNCHANGED <<journal, committed, server, resp, link, conn, replayTo, live, runner>>
    BY DEF Replay
  <1>d. /\ req' \in [Conns -> Seq(Observation)] /\ sent' \in Nat /\ term' \in Nat
        /\ RequestsInv' /\ FreshInv' /\ SentInv' /\ TermInv'
    BY <1>b, <1>c, SendFacts
  <1>1. TypeOK'
    BY <1>d DEF TypeOK, Replay
  <1>2. LiveInv'
    <2>1. Larger(sent, replayTo) = Larger(sent', replayTo')
      BY <1>a, <1>b, <1>c DEF Larger, Send
    <2>2. QED
      BY <1>c, <2>1 DEF LiveInv, Published, Journalled
  <1>3. CommittedPrefix' /\ AckedIsCommitted' /\ ReturnsAfterTerminal' /\ ResponsesInv'
    BY Frames DEF Replay
  <1>4. QED
    BY <1>d, <1>1, <1>2, <1>3

LEMMA ReplayDoneIInv ==
    ASSUME IInv, ReplayDone
    PROVE  IInv'
  <1> USE BoundsAssumption DEF IInv, durableVars, runnerVars, linkVars,
                               controllerVars, streamVars
  <1>1. TypeOK'
    BY DEF TypeOK, ReplayDone
  <1>2. ReturnsAfterTerminal'
    BY DEF TypeOK, ReplayDone, ReturnsAfterTerminal
  <1>3. FreshInv'
    BY DEF TypeOK, ReplayDone, FreshInv
  <1>4. SentInv'
    BY DEF TypeOK, ReplayDone, SentInv
  <1>5. LiveInv'
    BY DEF TypeOK, ReplayDone, LiveInv, Published, Journalled, Larger
  <1>6. TermInv'
    BY DEF TypeOK, ReplayDone, TermInv, Terminals
  <1>7. CommittedPrefix' /\ AckedIsCommitted' /\ RequestsInv' /\ ResponsesInv'
    BY Frames DEF ReplayDone
  <1>8. QED
    BY <1>1, <1>2, <1>3, <1>4, <1>5, <1>6, <1>7

LEMMA ForwardLiveIInv ==
    ASSUME IInv, ForwardLive
    PROVE  IInv'
  <1> USE BoundsAssumption DEF IInv, durableVars, runnerVars, linkVars,
                               controllerVars, streamVars
  <1> DEFINE m == Head(live)
  <1>a. /\ live # <<>> /\ live' = Tail(live) /\ link = "attached"
        /\ UNCHANGED <<journal, acked, committed, applied, server, resp, seen, link,
                       conn, replayTo, runner>>
    BY DEF ForwardLive
  <1>b. /\ Len(live) > 0 /\ Len(live) \in Nat /\ m = live[1] /\ m \in Observation
        /\ Len(live') = Len(live) - 1 /\ live' \in Seq(Observation)
        /\ \A i \in 1..Len(live') : live'[i] = live[i + 1]
    BY <1>a, LiveTypes, TailFacts
  <1>c. /\ Journalled(m) /\ m.seq \in Nat /\ m.seq = Published - Len(live) + 1
        /\ Len(journal) \in Nat /\ Published \in Nat
        /\ sent \in Nat /\ replayTo <= sent /\ replayTo \in Nat
        /\ Published - Len(live) <= sent
    <2>1. Len(journal) \in Nat /\ sent \in Nat /\ replayTo \in Nat
      BY LenFacts DEF TypeOK
    <2>2. Published \in Nat /\ replayTo <= sent
      BY <1>a, <2>1 DEF LiveInv, SentInv, Published
    <2>3. /\ Journalled(m) /\ m.seq = Published - Len(live) + 1
          /\ Published - Len(live) <= Larger(sent, replayTo)
      BY <1>a, <1>b DEF LiveInv
    <2>4. m.seq \in Nat
      BY <1>b, LiveTypes
    <2>5. Larger(sent, replayTo) = sent
      BY <2>1, <2>2 DEF Larger
    <2>6. QED
      BY <2>1, <2>2, <2>3, <2>4, <2>5
  <1>d. ~AlreadySent(m) => m.seq = sent + 1 /\ Send(m)
    BY <1>b, <1>c DEF AlreadySent, ForwardLive
  <1>e. AlreadySent(m) => UNCHANGED <<req, sent, term>>
    BY DEF ForwardLive
  <1>1. /\ req' \in [Conns -> Seq(Observation)] /\ sent' \in Nat /\ term' \in Nat
        /\ RequestsInv' /\ FreshInv' /\ SentInv' /\ TermInv'
    <2>1. CASE AlreadySent(m)
      BY <1>a, <1>e, <2>1, Frames DEF TypeOK
    <2>2. CASE ~AlreadySent(m)
      BY <1>a, <1>b, <1>c, <1>d, <2>2, SendFacts
    <2>3. QED
      BY <2>1, <2>2
  <1>2. TypeOK'
    BY <1>b, <1>1 DEF TypeOK, ForwardLive
  <1>3. LiveInv'
    <2>1. Published' = Published
      BY <1>a DEF Published
    <2>2. ASSUME NEW i \in 1..Len(live')
          PROVE  Journalled(live'[i]) /\ live'[i].seq = Published' - Len(live') + i
      <3>1. i + 1 \in 1..Len(live)
        BY <1>b
      <3>2. QED
        BY <1>a, <1>b, <1>c, <2>1, <3>1 DEF LiveInv, Journalled
    <2>3. Published' - Len(live') <= Larger(sent', replayTo')
      <3>1. sent' >= m.seq
        BY <1>c, <1>d, <1>e DEF AlreadySent, Send
      <3>2. QED
        BY <1>a, <1>b, <1>c, <1>1, <2>1, <3>1 DEF Larger
    <2>4. QED
      BY <1>a, <2>2, <2>3 DEF LiveInv, Journalled
  <1>4. CommittedPrefix' /\ AckedIsCommitted' /\ ReturnsAfterTerminal' /\ ResponsesInv'
    BY <1>a, Frames
  <1>5. QED
    BY <1>1, <1>2, <1>3, <1>4

LEMMA SendFailedIInv ==
    ASSUME IInv, SendFailed
    PROVE  IInv'
  BY LeaveIInv DEF SendFailed

LEMMA LiveClosedIInv ==
    ASSUME IInv, LiveClosed
    PROVE  IInv'
  <1> USE BoundsAssumption DEF IInv, durableVars, runnerVars, linkVars,
                               controllerVars, streamVars
  <1>1. term' \in Nat /\ (term' # 0 => term' = term \/ term' \in Terminals)
    <2>1. Terminals \subseteq Nat
      BY LenFacts DEF Terminals, TypeOK
    <2>2. QED
      BY <2>1 DEF LiveClosed, IsLastTerminal, TypeOK
  <1>2. TypeOK'
    BY <1>1 DEF TypeOK, LiveClosed
  <1>3. TermInv'
    BY <1>1 DEF TermInv, LiveClosed, Terminals
  <1>4. CommittedPrefix' /\ AckedIsCommitted' /\ ReturnsAfterTerminal' /\ RequestsInv'
        /\ ResponsesInv' /\ FreshInv' /\ SentInv' /\ LiveInv'
    BY Frames DEF LiveClosed
  <1>5. QED
    BY <1>2, <1>3, <1>4

LEMMA ReceiveAckIInv ==
    ASSUME IInv, ReceiveAck
    PROVE  IInv'
  <1> USE BoundsAssumption DEF IInv, durableVars, runnerVars, linkVars,
                               controllerVars, streamVars
  <1> DEFINE n == Head(resp[conn]).seq
  <1>a. /\ conn \in Conns /\ resp[conn] # <<>> /\ link = "attached"
        /\ acked' = Larger(acked, n)
        /\ UNCHANGED <<journal, committed, applied, live, runner, seen>>
    BY DEF ReceiveAck, FreshInv, Leave
  <1>b. n \in Nat /\ n <= committed
    BY <1>a, ResponseTypes, TailFacts DEF ResponsesInv
  <1>c. acked' \in Nat /\ AckedIsCommitted'
    BY <1>a, <1>b DEF AckedIsCommitted, Larger, TypeOK
  <1>d. CommittedPrefix'
    BY <1>a, Frames
  <1> HIDE DEF n
  <1>1. CASE EndsLink(n)
    <2>1. Leave("returned")
      BY <1>1 DEF ReceiveAck, n
    <2>2. term \in 1..committed /\ journal[term] \in TerminalKinds
      BY <1>1, <1>a, <1>b DEF EndsLink, TermInv, Terminals, TypeOK
    <2>3. ReturnsAfterTerminal'
      BY <1>a, <2>2 DEF ReturnsAfterTerminal
    <2>4. TypeOK'
      BY <1>c, <2>1, <1>a, LeaveFacts DEF Leave, TypeOK, ReceiveAck
    <2>5. QED
      BY <1>a, <1>c, <1>d, <2>1, <2>3, <2>4, LeaveFacts
  <1>2. CASE ~EndsLink(n)
    <2>1. /\ resp' = [resp EXCEPT ![conn] = Tail(@)]
          /\ UNCHANGED linkVars /\ UNCHANGED <<req, server, seen, broken>>
      BY <1>2 DEF ReceiveAck, n
    <2>2. resp' \in [Conns -> Seq(Response)] /\ ResponsesInv'
      BY <1>a, <2>1, TakeResponse
    <2>3. TypeOK'
      BY <1>a, <1>c, <2>1, <2>2 DEF TypeOK, ReceiveAck
    <2>4. FreshInv'
      BY <1>a, <2>1, ConnsFacts DEF FreshInv, TypeOK
    <2>5. ReturnsAfterTerminal' /\ RequestsInv' /\ SentInv' /\ LiveInv' /\ TermInv'
      BY <1>a, <2>1, Frames
    <2>6. QED
      BY <1>c, <1>d, <2>2, <2>3, <2>4, <2>5
  <1>3. QED
    BY <1>1, <1>2

LEMMA LinkBreakIInv ==
    ASSUME IInv, LinkBreak
    PROVE  IInv'
  BY LeaveIInv DEF LinkBreak

LEMMA ReadStoredIInv ==
    ASSUME IInv, NEW c \in Conns, ReadStored(c)
    PROVE  IInv'
  <1> USE BoundsAssumption DEF IInv, durableVars, runnerVars, linkVars,
                               controllerVars, streamVars
  <1>1. TypeOK'
    BY DEF TypeOK, ReadStored
  <1>2. RequestsInv'
    BY DEF TypeOK, ReadStored, RequestsInv, Journalled
  <1>3. ResponsesInv'
    BY DEF TypeOK, ReadStored, ResponsesInv
  <1>4. FreshInv'
    BY DEF TypeOK, ReadStored, FreshInv
  <1>5. SentInv'
    BY DEF TypeOK, ReadStored, SentInv
  <1>6. CommittedPrefix' /\ AckedIsCommitted' /\ ReturnsAfterTerminal' /\ LiveInv' /\ TermInv'
    BY Frames DEF ReadStored
  <1>7. QED
    BY <1>1, <1>2, <1>3, <1>4, <1>5, <1>6

\* The controller appends a response that is not ahead of its cursor.
LEMMA RespondFacts ==
    ASSUME IInv, NEW c \in Conns, NEW r \in Response, Respond(c, r),
           r.seq <= committed', committed' \in Nat, committed <= committed'
    PROVE  /\ resp' \in [Conns -> Seq(Response)]
           /\ \A d \in Conns : \A i \in 1..Len(resp'[d]) : resp'[d][i].seq <= committed'
           /\ \A d \in Conns : d # conn => resp'[d] = resp[d]
  <1> USE BoundsAssumption DEF IInv, durableVars, runnerVars, linkVars,
                               controllerVars, streamVars
  <1>1. /\ resp[c] \in Seq(Response) /\ Len(resp[c]) \in Nat
        /\ Append(resp[c], r) \in Seq(Response)
        /\ Len(Append(resp[c], r)) = Len(resp[c]) + 1
        /\ \A i \in 1..Len(resp[c]) : Append(resp[c], r)[i] = resp[c][i]
        /\ Append(resp[c], r)[Len(resp[c]) + 1] = r
    BY ResponseTypes, AppendFacts
  <1>2. resp' \in [Conns -> Seq(Response)]
    BY <1>1 DEF Respond, TypeOK
  <1>3. /\ resp'[c] = Append(resp[c], r) \/ resp'[c] = resp[c]
        /\ \A d \in Conns : d # c => resp'[d] = resp[d]
    BY DEF Respond, TypeOK
  <1>4. ASSUME NEW d \in Conns, NEW i \in 1..Len(resp[d])
        PROVE  resp[d][i].seq <= committed'
    <2>1. resp[d][i].seq \in Nat /\ committed \in Nat
      BY ResponseTypes DEF TypeOK
    <2>2. resp[d][i].seq <= committed
      BY DEF ResponsesInv
    <2>3. QED
      BY <2>1, <2>2
  <1>5. ASSUME NEW i \in 1..Len(Append(resp[c], r))
        PROVE  Append(resp[c], r)[i].seq <= committed'
    <2>1. CASE i \in 1..Len(resp[c])
      BY <1>1, <1>4, <2>1
    <2>2. CASE i = Len(resp[c]) + 1
      BY <1>1, <2>2
    <2>3. QED
      BY <1>1, <2>1, <2>2
  <1>6. \A d \in Conns : d # conn => resp'[d] = resp[d]
    BY DEF Respond, TypeOK
  <1>7. QED
    BY <1>2, <1>3, <1>4, <1>5, <1>6

LEMMA WelcomeIInv ==
    ASSUME IInv, NEW c \in Conns, Welcome(c)
    PROVE  IInv'
  <1> USE BoundsAssumption DEF IInv, durableVars, runnerVars, linkVars,
                               controllerVars, streamVars
  <1> DEFINE r == [type |-> "welcome", seq |-> seen[c]]
  <1>a. /\ server[c] = "reading" /\ req[c] = <<>> /\ c <= conn /\ conn \in Nat
        /\ UNCHANGED <<journal, acked, committed, applied, live, runner, link, conn,
                       sent, replayTo, term, req>>
        /\ seen' = [seen EXCEPT ![c] = 0]
    BY ConnsFacts DEF Welcome, RequestsInv, FreshInv, TypeOK
  <1>b. r \in Response /\ r.seq <= committed' /\ committed' \in Nat
    BY <1>a DEF Response, ResponsesInv, TypeOK
  <1>c. /\ resp' \in [Conns -> Seq(Response)]
        /\ \A d \in Conns : \A i \in 1..Len(resp'[d]) : resp'[d][i].seq <= committed'
        /\ \A d \in Conns : d # conn => resp'[d] = resp[d]
        /\ server'[c] = "closed" => resp' = resp
    <2>1. CASE active
      <3>1. Respond(c, r) /\ server'[c] = "serving"
        BY <2>1 DEF Welcome, TypeOK
      <3>2. committed <= committed'
        BY <1>a, <1>b
      <3>3. QED
        BY <1>b, <3>1, <3>2, RespondFacts
    <2>2. CASE ~active
      BY <1>a, <2>2 DEF Welcome, TypeOK, ResponsesInv
    <2>3. QED
      BY <2>1, <2>2
  <1>d. /\ server'[c] \in {"serving", "closed"}
        /\ \A d \in Conns : d # c => server'[d] = server[d]
        /\ server' \in [Conns -> {"none", "reading", "serving", "closed"}]
    BY DEF Welcome, TypeOK
  <1> HIDE DEF r
  <1>1. TypeOK'
    BY <1>a, <1>c, <1>d DEF TypeOK, Welcome
  <1>2. RequestsInv'
    BY <1>a, <1>d DEF RequestsInv, Journalled
  <1>3. ResponsesInv'
    <2>1. \A d \in Conns : seen'[d] \in {0, seen[d]} /\ seen[d] <= committed
      BY <1>a DEF ResponsesInv, TypeOK
    <2>2. \A d \in Conns : seen'[d] <= committed'
      BY <1>a, <1>b, <2>1
    <2>3. QED
      BY <1>c, <2>2 DEF ResponsesInv
  <1>4. FreshInv'
    <2>1. \A d \in Conns : d > conn =>
            server'[d] = "none" /\ req'[d] = <<>> /\ resp'[d] = <<>>
      <3>1. ASSUME NEW d \in Conns, d > conn
            PROVE  server'[d] = "none" /\ req'[d] = <<>> /\ resp'[d] = <<>>
        <4>1. d # c /\ d # conn
          BY <1>a, <3>1, ConnsFacts
        <4>2. server[d] = "none" /\ req[d] = <<>> /\ resp[d] = <<>>
          BY <3>1 DEF FreshInv
        <4>3. QED
          BY <1>a, <1>c, <1>d, <4>1, <4>2
      <3>2. QED
        BY <3>1
    <2>2. link = "greeting" /\ resp'[conn] # <<>> => server'[conn] \in {"serving", "closed"}
      <3>1. CASE conn = c
        BY <1>d, <3>1
      <3>2. CASE conn # c
        <4>1. conn \in Conns => server'[conn] = server[conn]
          BY <1>d, <3>2
        <4>2. link = "greeting" => conn \in Conns
          BY DEF FreshInv
        <4>3. resp'[conn] = resp[conn]
          BY <3>2 DEF Welcome, Respond, TypeOK
        <4>4. QED
          BY <4>1, <4>2, <4>3 DEF FreshInv
      <3>3. QED
        BY <3>1, <3>2
    <2>3. QED
      BY <1>a, <2>1, <2>2 DEF FreshInv
  <1>5. SentInv'
    BY <1>a, <1>d DEF SentInv, FreshInv
  <1>6. CommittedPrefix' /\ AckedIsCommitted' /\ ReturnsAfterTerminal' /\ LiveInv' /\ TermInv'
    BY <1>a, Frames
  <1>7. QED
    BY <1>1, <1>2, <1>3, <1>4, <1>5, <1>6

LEMMA RecordIInv ==
    ASSUME IInv, NEW c \in Conns, Record(c)
    PROVE  IInv'
  <1> USE BoundsAssumption DEF IInv, durableVars, runnerVars, linkVars,
                               controllerVars, streamVars
  <1> DEFINE m == Head(req[c])
             r == IF IsNext(m) \/ IsDuplicate(m)
                    THEN [type |-> "ack", seq |-> Acknowledges(m)]
                    ELSE [type |-> "error", seq |-> 0]
  <1>a. /\ req[c] # <<>> /\ server[c] = "serving" /\ Respond(c, r)
        /\ applied' = IF IsNext(m) THEN Append(applied, m.kind) ELSE applied
        /\ committed' = IF IsNext(m) THEN m.seq ELSE committed
        /\ server' = [server EXCEPT ![c] =
                        IF IsNext(m) \/ IsDuplicate(m) THEN "serving" ELSE "closed"]
        /\ req' = [req EXCEPT ![c] = Tail(@)]
        /\ UNCHANGED <<journal, acked, live, runner, link, conn, sent, replayTo, term, seen>>
    BY DEF Record
  <1>b. /\ Len(req[c]) > 0 /\ Len(req[c]) \in Nat /\ m = req[c][1] /\ m \in Observation
        /\ m.seq \in Nat /\ m.seq > 0 /\ m.kind \in Kinds
        /\ Tail(req[c]) \in Seq(Observation) /\ Len(Tail(req[c])) = Len(req[c]) - 1
        /\ \A i \in 1..Len(Tail(req[c])) : Tail(req[c])[i] = req[c][i + 1]
        /\ Tail(req[c]) # <<>> => Len(req[c]) > 1
    <2>1. req[c] \in Seq(Observation)
      BY RequestTypes
    <2>2. /\ Len(req[c]) > 0 /\ m = req[c][1] /\ m \in Observation
          /\ Tail(req[c]) \in Seq(Observation) /\ Len(Tail(req[c])) = Len(req[c]) - 1
          /\ \A i \in 1..Len(Tail(req[c])) : Tail(req[c])[i] = req[c][i + 1]
          /\ Tail(req[c]) # <<>> => Len(req[c]) > 1
      BY <1>a, <2>1, TailFacts
    <2>3. m.seq \in Nat \ {0} /\ m.kind \in Kinds
      BY <2>2 DEF Observation
    <2>4. Len(req[c]) \in Nat
      BY <2>1, LenFacts
    <2>5. m.seq \in Nat /\ m.seq > 0
      BY <2>3
    <2>6. QED
      BY <2>2, <2>3, <2>4, <2>5
  <1>c. /\ Journalled(m) /\ m.seq <= committed + 1
        /\ committed \in Nat /\ Len(journal) \in Nat
        /\ committed = Len(applied) /\ committed <= Len(journal)
    BY <1>a, <1>b, LenFacts DEF RequestsInv, TypeOK, CommittedPrefix
  <1>d. /\ committed' \in Nat /\ committed <= committed' /\ m.seq <= committed'
        /\ committed' <= Len(journal)
        /\ server' = server
    <2>1. IsNext(m) \/ IsDuplicate(m)
      BY <1>b, <1>c DEF IsNext, IsDuplicate
    <2>2. server' = server
      BY <1>a, <2>1 DEF TypeOK
    <2>3. QED
      BY <1>a, <1>b, <1>c, <2>2 DEF IsNext, Journalled
  <1>e. r \in Response /\ r.seq <= committed'
    BY <1>b, <1>d DEF Acknowledges, Response
  <1>f. /\ resp' \in [Conns -> Seq(Response)]
        /\ \A d \in Conns : \A i \in 1..Len(resp'[d]) : resp'[d][i].seq <= committed'
        /\ \A d \in Conns : d # conn => resp'[d] = resp[d]
    BY <1>a, <1>d, <1>e, RespondFacts
  <1>g. /\ req' \in [Conns -> Seq(Observation)] /\ req'[c] = Tail(req[c])
        /\ \A d \in Conns : d # c => req'[d] = req[d]
    BY <1>a, <1>b DEF TypeOK
  <1>h. /\ applied' \in Seq(Kinds) /\ Len(applied') = committed'
        /\ \A n \in 1..Len(applied') : applied'[n] = journal[n]
    <2>1. CASE IsNext(m)
      <3>1. /\ applied' \in Seq(Kinds) /\ Len(applied') = Len(applied) + 1
            /\ \A n \in 1..Len(applied) : applied'[n] = applied[n]
            /\ applied'[Len(applied) + 1] = m.kind
        BY <1>a, <1>b, <2>1, AppendFacts DEF TypeOK
      <3>2. m.seq = Len(applied) + 1 /\ committed' = m.seq /\ m.kind = journal[m.seq]
        BY <1>a, <1>c, <2>1 DEF IsNext, Journalled
      <3>3. \A n \in 1..Len(applied) : applied[n] = journal[n]
        BY DEF CommittedPrefix
      <3>4. QED
        BY <1>c, <3>1, <3>2, <3>3
    <2>2. CASE ~IsNext(m)
      BY <1>a, <1>c, <2>2 DEF CommittedPrefix, TypeOK
    <2>3. QED
      BY <2>1, <2>2
  <1> HIDE DEF m, r
  <1>1. TypeOK'
    BY <1>a, <1>d, <1>f, <1>g, <1>h DEF TypeOK, Record
  <1>2. CommittedPrefix'
    BY <1>a, <1>d, <1>h DEF CommittedPrefix
  <1>3. AckedIsCommitted'
    BY <1>a, <1>c, <1>d DEF AckedIsCommitted, TypeOK
  <1>4. ReturnsAfterTerminal'
    BY <1>a, <1>c, <1>d DEF ReturnsAfterTerminal
  <1>5. RequestsInv'
    <2>1. ASSUME NEW d \in Conns
          PROVE  /\ server'[d] \in {"none", "reading"} => req'[d] = <<>>
                 /\ \A i \in 1..Len(req'[d]) : Journalled(req'[d][i])
                 /\ \A i \in 1..Len(req'[d]) : req'[d][i].seq = req'[d][1].seq + i - 1
                 /\ server'[d] = "serving" /\ req'[d] # <<>>
                      => req'[d][1].seq <= committed' + 1
      <3>1. CASE d # c
        <4>1. req'[d] = req[d] /\ server'[d] = server[d]
          BY <1>d, <1>g, <3>1
        <4>2. req[d] # <<>> => Len(req[d]) > 0 /\ req[d][1].seq \in Nat
          BY RequestTypes, LenFacts
        <4>3. QED
          BY <1>c, <1>d, <4>1, <4>2 DEF RequestsInv
      <3>2. CASE d = c
        <4>1. req'[d] = Tail(req[c]) /\ server'[d] = "serving"
          BY <1>a, <1>d, <1>g, <3>2
        <4>2. ASSUME NEW i \in 1..Len(req'[d])
              PROVE  /\ Journalled(req'[d][i])
                     /\ req'[d][i].seq = req'[d][1].seq + i - 1
          <5>1. /\ i + 1 \in 1..Len(req[c]) /\ 2 \in 1..Len(req[c])
                /\ req'[d][i] = req[c][i + 1] /\ req'[d][1] = req[c][2]
            BY <1>b, <4>1
          <5>2. /\ Journalled(req[c][i + 1])
                /\ req[c][i + 1].seq = req[c][1].seq + (i + 1) - 1
                /\ req[c][2].seq = req[c][1].seq + 2 - 1
            BY <5>1 DEF RequestsInv
          <5>3. req[c][1].seq \in Nat /\ i \in Nat
            BY <1>b DEF m
          <5>4. Journalled(req'[d][i])
            BY <5>1, <5>2
          <5>5. req'[d][i].seq = req[c][1].seq + i /\ req'[d][1].seq = req[c][1].seq + 1
            BY <5>1, <5>2, <5>3
          <5>6. QED
            BY <5>3, <5>4, <5>5
        <4>3. req'[d] # <<>> => req'[d][1].seq <= committed' + 1
          <5>1. req'[d] # <<>> => 2 \in 1..Len(req[c]) /\ req'[d][1] = req[c][2]
            BY <1>b, <4>1
          <5>2. req'[d] # <<>> => req[c][2].seq = req[c][1].seq + 2 - 1
            BY <5>1 DEF RequestsInv
          <5>3. req[c][1].seq \in Nat /\ req[c][1].seq <= committed'
            BY <1>b, <1>d DEF m
          <5>4. committed' \in Nat
            BY <1>d
          <5>5. req'[d] # <<>> => req'[d][1].seq = req[c][1].seq + 1
            BY <5>1, <5>2, <5>3
          <5>6. QED
            BY <5>3, <5>4, <5>5
        <4>4. QED
          BY <4>1, <4>2, <4>3
      <3>3. QED
        BY <3>1, <3>2
    <2>2. journal' = journal
      BY <1>a
    <2>3. QED
      BY <2>1, <2>2 DEF RequestsInv, Journalled
  <1>6. ResponsesInv'
    <2>1. \A d \in Conns : seen'[d] = seen[d] /\ seen[d] \in Nat /\ seen[d] <= committed
      BY <1>a DEF ResponsesInv, TypeOK
    <2>2. \A d \in Conns : seen'[d] <= committed'
      BY <1>c, <1>d, <2>1
    <2>3. QED
      BY <1>f, <2>2 DEF ResponsesInv
  <1>7. FreshInv'
    <2>1. ~(c > conn) /\ (link = "greeting" => c # conn)
      BY <1>a DEF FreshInv
    <2>2. ASSUME NEW d \in Conns, d > conn
          PROVE  server'[d] = "none" /\ req'[d] = <<>> /\ resp'[d] = <<>>
      <3>0. conn \in Nat /\ d \in Nat
        BY ConnsFacts DEF TypeOK
      <3>1. d # c /\ d # conn
        BY <2>1, <2>2, <3>0
      <3>2. server[d] = "none" /\ req[d] = <<>> /\ resp[d] = <<>>
        BY <2>2 DEF FreshInv
      <3>3. QED
        BY <1>d, <1>f, <1>g, <3>1, <3>2
    <2>3. link = "greeting" => conn \in Conns /\ req'[conn] = <<>> /\ resp'[conn] = resp[conn]
      BY <1>a, <1>g, <2>1 DEF FreshInv, Respond, TypeOK
    <2>4. QED
      BY <1>a, <1>d, <2>2, <2>3 DEF FreshInv
  <1>8. SentInv'
    <2>1. SUFFICES ASSUME link \in {"replaying", "attached"}
                   PROVE  /\ req'[conn] # <<>> => req'[conn][Len(req'[conn])].seq = sent
                          /\ req'[conn] = <<>> /\ server'[conn] = "serving" => sent <= committed'
      BY <1>a, <1>d DEF SentInv
    <2>2. conn \in Conns /\ sent \in Nat
      BY <2>1 DEF FreshInv, TypeOK
    <2>3. CASE conn # c
      BY <1>c, <1>d, <1>g, <2>1, <2>2, <2>3 DEF SentInv
    <2>4. CASE conn = c
      <3>1. req[c][Len(req[c])].seq = sent
        BY <1>a, <2>1, <2>4 DEF SentInv
      <3>2. CASE Tail(req[c]) = <<>>
        <4>1. Len(req[c]) = 1
          <5>1. Len(Tail(req[c])) = 0
            BY <3>2, EmptyFacts
          <5>2. QED
            BY <1>b, <5>1
        <4>2. QED
          BY <1>b, <1>d, <1>g, <2>4, <3>1, <3>2, <4>1 DEF m
      <3>3. CASE Tail(req[c]) # <<>>
        <4>1. /\ Len(Tail(req[c])) \in 1..Len(Tail(req[c]))
              /\ Len(Tail(req[c])) + 1 = Len(req[c])
          BY <1>b, <3>3
        <4>2. Tail(req[c])[Len(Tail(req[c]))] = req[c][Len(req[c])]
          BY <1>b, <4>1
        <4>3. QED
          BY <1>g, <2>4, <3>1, <3>3, <4>2
      <3>4. QED
        BY <3>2, <3>3
    <2>5. QED
      BY <2>3, <2>4
  <1>9. LiveInv' /\ TermInv'
    BY <1>a, Frames
  <1>10. QED
    BY <1>1, <1>2, <1>3, <1>4, <1>5, <1>6, <1>7, <1>8, <1>9

LEMMA ServerCloseIInv ==
    ASSUME IInv, NEW c \in Conns, ServerClose(c)
    PROVE  IInv'
  <1> USE BoundsAssumption DEF IInv, durableVars, runnerVars, linkVars,
                               controllerVars, streamVars
  <1>1. TypeOK'
    BY DEF TypeOK, ServerClose
  <1>2. RequestsInv'
    BY DEF TypeOK, ServerClose, RequestsInv, Journalled
  <1>3. FreshInv'
    BY DEF TypeOK, ServerClose, FreshInv
  <1>4. SentInv'
    BY DEF TypeOK, ServerClose, SentInv
  <1>5. CommittedPrefix' /\ AckedIsCommitted' /\ ReturnsAfterTerminal' /\ ResponsesInv' /\ LiveInv' /\ TermInv'
    BY Frames DEF ServerClose
  <1>6. QED
    BY <1>1, <1>2, <1>3, <1>4, <1>5

LEMMA FinishFromResultIInv ==
    ASSUME IInv, FinishFromResult
    PROVE  IInv'
  <1> USE BoundsAssumption DEF IInv, durableVars, runnerVars, linkVars,
                               controllerVars, streamVars
  <1>1. TypeOK'
    BY DEF TypeOK, FinishFromResult
  <1>2. CommittedPrefix' /\ AckedIsCommitted' /\ ReturnsAfterTerminal' /\ RequestsInv' /\ ResponsesInv' /\ FreshInv' /\ SentInv' /\ LiveInv' /\ TermInv'
    BY Frames DEF FinishFromResult
  <1>3. QED
    BY <1>1, <1>2

LEMMA RespawnIInv ==
    ASSUME IInv, Respawn
    PROVE  IInv'
  <1> USE BoundsAssumption DEF IInv, durableVars, runnerVars, linkVars,
                               controllerVars, streamVars
  <1>1. TypeOK'
    BY DEF TypeOK, Respawn
  <1>2. CommittedPrefix' /\ AckedIsCommitted' /\ ReturnsAfterTerminal' /\ RequestsInv' /\ ResponsesInv' /\ FreshInv' /\ SentInv' /\ LiveInv' /\ TermInv'
    BY Frames DEF Respawn
  <1>3. QED
    BY <1>1, <1>2

LEMMA ConnectionLostIInv ==
    ASSUME IInv, ConnectionLost
    PROVE  IInv'
  <1> USE BoundsAssumption DEF IInv, durableVars, runnerVars, linkVars,
                               controllerVars, streamVars
  <1>1. TypeOK'
    <2>1. broken' \in [Conns -> BOOLEAN]
      BY Zenon DEF TypeOK, ConnectionLost
    <2>2. faults' \in Nat
      BY DEF TypeOK, ConnectionLost, Fault
    <2>3. QED
      BY <2>1, <2>2 DEF TypeOK, ConnectionLost
  <1>2. CommittedPrefix' /\ AckedIsCommitted' /\ ReturnsAfterTerminal' /\ RequestsInv' /\ ResponsesInv' /\ FreshInv' /\ SentInv' /\ LiveInv' /\ TermInv'
    BY Frames DEF ConnectionLost, Fault
  <1>3. QED
    BY <1>1, <1>2

LEMMA SupervisorCrashIInv ==
    ASSUME IInv, SupervisorCrash
    PROVE  IInv'
  <1> USE BoundsAssumption DEF IInv, durableVars, runnerVars, linkVars,
                               controllerVars, streamVars
  <1>1. TypeOK'
    BY DEF TypeOK, SupervisorCrash, Fault
  <1>2. ReturnsAfterTerminal'
    BY DEF TypeOK, SupervisorCrash, Fault, ReturnsAfterTerminal
  <1>3. ResponsesInv'
    BY DEF TypeOK, SupervisorCrash, Fault, ResponsesInv
  <1>4. FreshInv'
    BY DEF TypeOK, SupervisorCrash, Fault, FreshInv
  <1>5. SentInv'
    BY DEF TypeOK, SupervisorCrash, Fault, SentInv
  <1>6. LiveInv'
    BY DEF TypeOK, SupervisorCrash, Fault, LiveInv, Published, Journalled, Larger
  <1>7. TermInv'
    BY DEF TypeOK, SupervisorCrash, Fault, TermInv, Terminals
  <1>8. CommittedPrefix' /\ AckedIsCommitted' /\ RequestsInv'
    BY Frames DEF SupervisorCrash, Fault
  <1>9. QED
    BY <1>1, <1>2, <1>3, <1>4, <1>5, <1>6, <1>7, <1>8

LEMMA ControllerCrashIInv ==
    ASSUME IInv, ControllerCrash
    PROVE  IInv'
  <1> USE BoundsAssumption DEF IInv, durableVars, runnerVars, linkVars,
                               controllerVars, streamVars
  <1>1. TypeOK'
    BY DEF TypeOK, ControllerCrash, Fault
  <1>2. RequestsInv'
    BY DEF TypeOK, ControllerCrash, Fault, RequestsInv, Journalled
  <1>3. FreshInv'
    BY DEF TypeOK, ControllerCrash, Fault, FreshInv
  <1>4. SentInv'
    <2>1. link \in {"replaying", "attached"} => conn \in Conns
      BY DEF FreshInv
    <2>2. conn \in Conns /\ server[conn] \in {"serving", "closed"} => server'[conn] = "closed"
      BY DEF ControllerCrash
    <2>3. UNCHANGED <<link, conn, sent, replayTo, journal, req, committed>>
      BY DEF ControllerCrash
    <2>4. QED
      BY <2>1, <2>2, <2>3 DEF SentInv
  <1>5. CommittedPrefix' /\ AckedIsCommitted' /\ ReturnsAfterTerminal' /\ ResponsesInv' /\ LiveInv' /\ TermInv'
    BY Frames DEF ControllerCrash, Fault
  <1>6. QED
    BY <1>1, <1>2, <1>3, <1>4, <1>5

LEMMA ControllerRestartIInv ==
    ASSUME IInv, ControllerRestart
    PROVE  IInv'
  <1> USE BoundsAssumption DEF IInv, durableVars, runnerVars, linkVars,
                               controllerVars, streamVars
  <1>1. TypeOK'
    BY DEF TypeOK, ControllerRestart
  <1>2. CommittedPrefix' /\ AckedIsCommitted' /\ ReturnsAfterTerminal' /\ RequestsInv' /\ ResponsesInv' /\ FreshInv' /\ SentInv' /\ LiveInv' /\ TermInv'
    BY Frames DEF ControllerRestart
  <1>3. QED
    BY <1>1, <1>2

-----------------------------------------------------------------------------
(* Every step preserves the invariant. *)

LEMMA NextIInv ==
    ASSUME IInv, [Next]_vars
    PROVE  IInv'
  <1>1. ASSUME NEW k \in Kinds, Observe(k) PROVE IInv'
    BY <1>1, ObserveIInv
  <1>2. CASE Publish \/ WriteResult \/ Exit
    BY <1>2, PublishIInv, WriteResultIInv, ExitIInv
  <1>3. CASE LinkStep
    BY <1>3, ConnectIInv, GreetingRetryIInv, GreetingFailedIInv, ReceiveWelcomeIInv,
       ReplayIInv, ReplayDoneIInv, ForwardLiveIInv, SendFailedIInv, LiveClosedIInv,
       ReceiveAckIInv, LinkBreakIInv DEF LinkStep
  <1>4. ASSUME NEW c \in Conns, ServerStep(c) PROVE IInv'
    BY <1>4, ReadStoredIInv, WelcomeIInv, RecordIInv, ServerCloseIInv DEF ServerStep
  <1>5. CASE FinishFromResult \/ Respawn
    BY <1>5, FinishFromResultIInv, RespawnIInv
  <1>6. CASE ConnectionLost \/ SupervisorCrash \/ ControllerCrash \/ ControllerRestart
    BY <1>6, ConnectionLostIInv, SupervisorCrashIInv, ControllerCrashIInv,
       ControllerRestartIInv
  <1>7. CASE UNCHANGED vars
    <2>1. TypeOK'
      BY <1>7 DEF IInv, TypeOK, vars
    <2>2. QED
      BY <1>7, <2>1, Frames DEF IInv, vars
  <1>8. QED
    BY <1>1, <1>2, <1>3, <1>4, <1>5, <1>6, <1>7 DEF Next

\* IInv holds in every state of every behaviour of the link, the controller's
\* attach tasks and the crashes of both processes.
THEOREM Inductive == Spec => []IInv
  <1>1. Init => IInv
    BY InitIInv
  <1>2. IInv /\ [Next]_vars => IInv'
    BY NextIInv
  <1>3. QED
    BY <1>1, <1>2, PTL DEF Spec

\* Every variable keeps its type: no sequence number leaves Nat, no stream
\* carries anything but observations and responses.
THEOREM TypeCorrect == Spec => []TypeOK
  <1>1. IInv => TypeOK
    BY DEF IInv
  <1>2. QED
    BY <1>1, Inductive, PTL

\* commit_observation applies each journalled observation once and in order,
\* for every number of observations, reconnections and crashes.
THEOREM ExactlyOnceInOrder == Spec => []CommittedPrefix
  <1>1. IInv => CommittedPrefix
    BY DEF IInv
  <1>2. QED
    BY <1>1, Inductive, PTL

\* The ObservationOutOfOrder error of commit_observation is unreachable.
THEOREM NeverOutOfOrder == Spec => []NoGap
  <1>1. ASSUME IInv PROVE NoGap
    <2>1. SUFFICES ASSUME NEW c \in Conns, server[c] = "serving", req[c] # <<>>
                   PROVE  Head(req[c]).seq <= committed + 1
      BY DEF NoGap
    <2>2. req[c] \in Seq(Observation)
      BY <1>1, RequestTypes DEF IInv
    <2>3. Head(req[c]) = req[c][1]
      BY <2>1, <2>2, TailFacts
    <2>4. req[c][1].seq <= committed + 1
      BY <1>1, <2>1 DEF IInv, RequestsInv
    <2>5. QED
      BY <2>3, <2>4
  <1>2. QED
    BY <1>1, Inductive, PTL

\* RuntimeJournal::acknowledge is only ever given a cursor the database holds.
THEOREM AcknowledgementsAreCommitted == Spec => []AckedIsCommitted
  <1>1. IInv => AckedIsCommitted
    BY DEF IInv
  <1>2. QED
    BY <1>1, Inductive, PTL

\* No observation falls between the observations_after snapshot of the link
\* and the channel the runner publishes to.
THEOREM NoneForgotten == Spec => []NothingForgotten
  <1>1. ASSUME IInv PROVE NothingForgotten
    <2>1. SUFFICES ASSUME link \in {"replaying", "attached"},
                          NEW n \in (Larger(sent, replayTo) + 1)..Len(journal),
                          ~(n = Len(journal) /\ runner = "publishing")
                   PROVE  \E i \in 1..Len(live) : live[i].seq = n
      BY DEF NothingForgotten
    <2>2. /\ sent \in Nat /\ replayTo \in Nat /\ Len(journal) \in Nat /\ Len(live) \in Nat
          /\ Larger(sent, replayTo) \in Nat
      BY <1>1, LenFacts, LiveTypes DEF IInv, TypeOK, Larger
    <2>3. n \in Nat /\ n > Larger(sent, replayTo) /\ n <= Published
      BY <2>1, <2>2 DEF Published
    <2>4. Published \in Nat /\ Published - Len(live) <= Larger(sent, replayTo)
      BY <1>1, <2>1, <2>2 DEF IInv, LiveInv, Published
    <2>5. n - (Published - Len(live)) \in 1..Len(live)
      BY <2>2, <2>3, <2>4
    <2>6. live[n - (Published - Len(live))].seq
            = Published - Len(live) + (n - (Published - Len(live)))
      BY <1>1, <2>5 DEF IInv, LiveInv
    <2>7. live[n - (Published - Len(live))].seq = n
      BY <2>2, <2>3, <2>4, <2>6
    <2>8. QED
      BY <2>5, <2>7
  <1>2. QED
    BY <1>1, Inductive, PTL

\* controller_link::run returns Ok only once a terminal observation of the
\* execution is in the database.
THEOREM ReturnIsTerminal == Spec => []ReturnsAfterTerminal
  <1>1. IInv => ReturnsAfterTerminal
    BY DEF IInv
  <1>2. QED
    BY <1>1, Inductive, PTL

-----------------------------------------------------------------------------
(* The link implements the abstract log. *)

\* Only record_supervisor_observation delivers, and only what comes next.
LEMMA RecordDelivers ==
    ASSUME IInv, NEW c \in Conns, Record(c)
    PROVE  [Log!LogNext]_(Log!logVars)
  <1> DEFINE m == Head(req[c])
  <1>1. CASE IsNext(m)
    <2>1. req[c] \in Seq(Observation) /\ req[c] # <<>> /\ server[c] = "serving"
      BY RequestTypes DEF IInv, Record
    <2>2. m = req[c][1] /\ 1 \in 1..Len(req[c])
      BY <2>1, TailFacts, LenFacts
    <2>3. m.seq <= Len(journal) /\ m.kind = journal[m.seq]
      BY <2>2 DEF IInv, RequestsInv, Journalled
    <2>4. m.seq = Len(applied) + 1
      BY <1>1 DEF IInv, CommittedPrefix, IsNext
    <2>5. Len(applied) \in Nat /\ Len(journal) \in Nat
      BY LenFacts DEF IInv, TypeOK
    <2>6. applied' = Append(applied, journal[Len(applied) + 1]) /\ journal' = journal
      BY <1>1, <2>3, <2>4 DEF Record
    <2>7. QED
      BY <2>3, <2>4, <2>5, <2>6 DEF Log!LogNext, Log!Deliver
  <1>2. CASE ~IsNext(m)
    BY <1>2 DEF Record, Log!logVars
  <1>3. QED
    BY <1>1, <1>2

\* The journal, the link and the database together implement the log: what
\* the runner records is delivered without loss, duplication or reordering
\* through lost connections and crashes of both processes.
THEOREM LinkImplementsLog == Spec => ImplementsLog
  <1>1. Init => Log!LogInit
    BY DEF Init, Log!LogInit
  <1>2. ASSUME IInv, [Next]_vars PROVE [Log!LogNext]_(Log!logVars)
    <2> USE DEF durableVars, Log!logVars
    <2>1. ASSUME NEW k \in Kinds, Observe(k) PROVE Log!LogNext
      BY <2>1 DEF Observe, Log!LogNext, Log!Record
    <2>2. CASE Publish \/ WriteResult \/ Exit
      BY <2>2 DEF Publish, WriteResult, Exit
    <2>3. CASE LinkStep
      BY <2>3 DEF LinkStep, Connect, GreetingRetry, GreetingFailed, ReceiveWelcome,
         Replay, ReplayDone, ForwardLive, SendFailed, LiveClosed, ReceiveAck, LinkBreak
    <2>4. ASSUME NEW c \in Conns, ServerStep(c) PROVE [Log!LogNext]_(Log!logVars)
      BY <1>2, <2>4, RecordDelivers DEF ServerStep, ReadStored, Welcome, ServerClose
    <2>5. CASE FinishFromResult \/ Respawn
      BY <2>5 DEF FinishFromResult, Respawn
    <2>6. CASE ConnectionLost \/ SupervisorCrash \/ ControllerCrash \/ ControllerRestart
      BY <2>6 DEF ConnectionLost, SupervisorCrash, ControllerCrash, ControllerRestart
    <2>7. CASE UNCHANGED vars
      BY <2>7 DEF vars
    <2>8. QED
      BY <1>2, <2>1, <2>2, <2>3, <2>4, <2>5, <2>6, <2>7 DEF Next
  <1>3. QED
    BY <1>1, <1>2, Inductive, PTL DEF Spec, ImplementsLog, Log!LogSpec, Log!logVars
=============================================================================
