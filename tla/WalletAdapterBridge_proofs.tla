--------------------- MODULE WalletAdapterBridge_proofs ---------------------
(***************************************************************************)
(* Theorems about the composed write path, wallet, router, sender, tracker *)
(* and chain, for every set of nodes, every deadline, every number of      *)
(* bundle polls and every guard setting.                                   *)
(*                                                                         *)
(* The tracker's invariant IInv (ConfirmationTracker_proofs) is reused: a  *)
(* step of the composition is a step of the tracker or of the chain, or    *)
(* leaves what IInv is about alone, except that a bundle is included and   *)
(* that a broadcast puts the transaction in flight again.                  *)
(***************************************************************************)
EXTENDS WalletAdapterBridge, ConfirmationTracker_proofs

-----------------------------------------------------------------------------
(* The inductive invariant.                                                *)

\* The sender's tracker: it has no subscription and runs only after the first
\* broadcast returned; nobody offers the transaction before it was sent.
PhaseInv ==
  /\ wsPc = "off"
  /\ sPc \in {"idle", "guarding", "sending", "acked"} =>
       pc = "idle" /\ outcome = "none"
  /\ sPc \in {"idle", "guarding", "sending"} => ~offered
  /\ sPc = "done" => outcome \in Terminal

\* What may be announced up to the reply of the first broadcast.
Early == {"cluster-detected", "cluster-mismatch", "pending"}

Only(E) == \A e \in EventNames : Emitted(e) => e \in E

\* Which events there are where the sender stands.
EventsInv ==
  /\ sPc \in {"idle", "guarding"} => events = <<>>
  /\ sPc \in {"sending", "acked"} => Only(Early)
  /\ sPc = "tracking" => Only(Early \cup {"sent"})
  /\ NothingAfterTheEnd
  /\ \A e \in {"confirmed", "expired"} :
       Emitted(e) => sPc = "done" /\ outcome = e
  /\ Emitted("sent") /\ Emitted("failed") => sPc = "done" /\ outcome = "failed"

\* Under "throw", a cluster that was detected to be wrong ended the call.
GuardInv ==
  guard = "throw" /\ cluster = "other" /\ Emitted("cluster-detected") =>
    sPc = "threw" /\ pc = "idle" /\ ~offered

\* The router between the wallet and the sender.
RouteInv ==
  /\ bPc # "dispatched" => sPc = "idle" /\ jPc = "idle"
  /\ jito /\ jPc \in {"idle", "submitting", "polling"} => sPc = "idle"
  /\ ~jito => jPc = "idle"
  /\ jPc \in {"idle", "submitting"} => polls = 0
  /\ jPc = "polling" => polls < MaxBundlePolls
  /\ jPc = "done" => sPc \in {"done", "threw"}

\* A bundle that was included stays executed if no block is abandoned.
BundleInv ==
  ~Forks => (bundle = "included" \/ jPc = "landed" => Executed = "ok")

BridgeInv ==
  /\ BridgeTypeOK
  /\ IInv
  /\ PhaseInv
  /\ EventsInv
  /\ EndIsTold
  /\ GuardInv
  /\ RouteInv
  /\ BundleInv

-----------------------------------------------------------------------------
(* The events.                                                             *)

\* One more event that was not there, after no terminal one.
LEMMA AppendEvent ==
  ASSUME events \in Seq(EventNames), NEW e \in EventNames,
         events' = Append(events, e)
  PROVE  /\ events' \in Seq(EventNames)
         /\ \A x : Emitted(x)' <=> Emitted(x) \/ x = e
         /\ NothingAfterTheEnd /\ ~Emitted(e) /\ (\A t \in Terminal : ~Emitted(t))
              => NothingAfterTheEnd'
<1>1. /\ events' \in Seq(EventNames)
      /\ Len(events) \in Nat
      /\ DOMAIN events = 1..Len(events)
      /\ DOMAIN events' = 1..(Len(events) + 1)
      /\ events'[Len(events) + 1] = e
      /\ \A i \in 1..Len(events) : events'[i] = events[i]
  OBVIOUS
<1>2. ASSUME NEW x PROVE Emitted(x)' <=> Emitted(x) \/ x = e
  <2>1. \A i \in DOMAIN events' : i \in DOMAIN events \/ i = Len(events) + 1
    BY <1>1
  <2>2. \A i \in DOMAIN events : i \in DOMAIN events'
    BY <1>1
  <2>3. Len(events) + 1 \in DOMAIN events'
    BY <1>1
  <2> QED BY <1>1, <2>1, <2>2, <2>3 DEF Emitted
<1>3. ASSUME NothingAfterTheEnd, ~Emitted(e), \A t \in Terminal : ~Emitted(t),
             NEW i \in DOMAIN events', NEW j \in DOMAIN events', i < j
      PROVE  events'[i] \notin Terminal /\ events'[i] # events'[j]
  <2>1. i \in DOMAIN events /\ events'[i] = events[i]
    BY <1>1, <1>3
  <2>2. events[i] \notin Terminal /\ events[i] # e
    BY <1>3, <2>1 DEF Emitted
  <2>3. CASE j \in DOMAIN events
    BY <1>1, <1>3, <2>1, <2>3 DEF NothingAfterTheEnd
  <2>4. CASE j = Len(events) + 1
    BY <1>1, <2>1, <2>2, <2>4
  <2> QED BY <1>1, <2>3, <2>4
<1> QED BY <1>1, <1>2, <1>3 DEF NothingAfterTheEnd

\* What the guard and the first broadcast announce.
OpenWith(es) ==
  \/ es = events \o <<"pending">>
  \/ es = Append(events, "cluster-detected") \o <<"pending">>
  \/ es = (events \o <<"cluster-detected", "cluster-mismatch">>) \o <<"pending">>
  \/ es = events \o <<"cluster-detected", "cluster-mismatch">>

LEMMA OpeningEvents ==
  ASSUME events = <<>>, OpenWith(events')
  PROVE  /\ events' \in Seq(EventNames)
         /\ Only(Early)'
         /\ NothingAfterTheEnd'
         /\ events' = events \o <<"pending">> => ~Emitted("cluster-detected")'
<1> USE DEF EventNames, Only, Emitted, Early, NothingAfterTheEnd, Terminal
<1>1. CASE events' = events \o <<"pending">>
  BY <1>1
<1>2. CASE events' = Append(events, "cluster-detected") \o <<"pending">>
  BY <1>2
<1>3. CASE events' = (events \o <<"cluster-detected", "cluster-mismatch">>)
                       \o <<"pending">>
  BY <1>3
<1>4. CASE events' = events \o <<"cluster-detected", "cluster-mismatch">>
  BY <1>4
<1> QED BY <1>1, <1>2, <1>3, <1>4 DEF OpenWith

LEMMA OpeningSteps ==
  ASSUME EventsInv, Call \/ Guard
  PROVE  /\ events = <<>>
         /\ \/ sPc' = "guarding" /\ events' = events
            \/ /\ sPc' = "sending"
               /\ OpenWith(events')
               /\ cluster = "other" /\ guard = "throw" =>
                    events' = events \o <<"pending">>
            \/ sPc' = "threw" /\ OpenWith(events')
<1>1. events = <<>>
  BY DEF EventsInv, Call, Guard
<1>2. CASE Call
  BY <1>1, <1>2 DEF Call, StartBroadcast, OpenWith
<1>3. CASE Guard
  <2>1. PICK d \in {cluster, "unknown"} : GuardLets(d) \/ GuardWarns(d) \/ GuardThrows(d)
    BY <1>3 DEF Guard
  <2>2. CASE GuardLets(d)
    BY <1>1, <2>1, <2>2 DEF GuardLets, StartBroadcast, OpenWith
  <2>3. CASE GuardWarns(d)
    BY <1>1, <2>1, <2>3 DEF GuardWarns, StartBroadcast, OpenWith
  <2>4. CASE GuardThrows(d)
    BY <1>1, <2>4 DEF GuardThrows, OpenWith
  <2> QED BY <2>1, <2>2, <2>3, <2>4
<1> QED BY <1>2, <1>3

-----------------------------------------------------------------------------
(* The tracker under the sender.                                           *)

\* IInv does not depend on whether a leader holds a copy, nor on whether the
\* tracker sleeps.
LEMMA InflightIInv ==
  ASSUME IInv, Sleep \/ UNCHANGED trackVars,
         UNCHANGED <<height, tip, landedAt, landedErr, view>>, inflight' \in BOOLEAN
  PROVE  IInv'
<1>1. /\ pc' = pc \/ (pc = "sleep" /\ pc' = "top")
      /\ UNCHANGED <<reply, horizon, pollRes, wsPc, notice, wsRes, aborted, race,
                     outcome>>
  BY DEF Sleep, trackVars
<1>2. TrackerTypeOK'
  BY <1>1 DEF IInv, TrackerTypeOK, LedgerTypeOK
<1>3. LedgerInv'
  BY DEF IInv, LedgerInv
<1>4. TruthInv'
  BY <1>1 DEF IInv, TruthInv, Held, Replied, IsConfirmed, IsFailed, Depth
<1>5. RoundInv'
  BY <1>1 DEF IInv, RoundInv, Undecided, Unseen, Depth
<1>6. RaceInv'
  BY <1>1 DEF IInv, RaceInv
<1>7. DeadlineInv'
  BY <1>1 DEF IInv, DeadlineInv
<1> QED BY <1>2, <1>3, <1>4, <1>5, <1>6, <1>7 DEF IInv

\* A bundle is included under the conditions of any other inclusion.
LEMMA BundleIncludedIInv ==
  ASSUME IInv, BundleIncluded PROVE IInv'
<1> USE DEF BundleIncluded
<1>1. UNCHANGED trackVars
  OBVIOUS
<1>2. TrackerTypeOK'
  BY <1>1 DEF IInv, TrackerTypeOK, LedgerTypeOK, trackVars
<1>3. LedgerInv'
  BY DEF IInv, LedgerInv
<1>4. TruthInv'
  BY <1>1 DEF IInv, TruthInv, Held, Replied, IsConfirmed, IsFailed, Depth, trackVars
<1>5. RoundInv'
  BY <1>1 DEF IInv, RoundInv, Undecided, Unseen, Depth, trackVars
<1>6. RaceInv'
  BY <1>1 DEF IInv, RaceInv, trackVars
<1>7. DeadlineInv'
  BY <1>1 DEF IInv, DeadlineInv, trackVars
<1> QED BY <1>2, <1>3, <1>4, <1>5, <1>6, <1>7 DEF IInv

\* A tracker without a subscription takes no step before track was called, and
\* settles once.
LEMMA TrackStepPhase ==
  ASSUME IInv, wsPc = "off", TrackStep \/ Sleep
  PROVE  /\ pc # "idle"
         /\ wsPc' = "off"
         /\ outcome # "none" => outcome' = outcome
<1>1. wsRes = "none" /\ (race # "none" => pollRes # "none")
      /\ (pc = "halted" <=> pollRes # "none")
  BY DEF IInv, RaceInv
<1>2. CASE PollLoopStep \/ Sleep
  BY <1>2
  DEF PollLoopStep, Poll, TopAbstains, Answer, AnswerFails, RoundRejects,
      RoundAbstains, RoundDecides, RoundPends, RoundSettled, ReadHeight,
      ReadHeightFails, SettlePoll, Sleep
<1>3. ~WsStep /\ ~StreamEnds /\ ~\E n \in Nodes : Notify(n)
  BY DEF WsStep, StreamEnds, Subscribed, SubscribeFails, StreamClosed, CloseFails,
     WsAbstains, WsGoes, SettleWs, Notify
<1>4. CASE RaceStep
  BY <1>1, <1>4
  DEF RaceStep, PollWins, WsWins, WsDecides, FallBackToPoll, SettleTrack, Decisive
<1> QED BY <1>2, <1>3, <1>4 DEF TrackStep

-----------------------------------------------------------------------------
(* The steps of the composition.                                           *)

\* The chain or the block engine moves, and the call does not.
ChainMoves ==
  /\ (LedgerNext /\ UNCHANGED bundle) \/ BundleIncluded \/ BundleDropped
  /\ UNCHANGED <<trackVars, sendVars, jPc, polls, bPc, jito>>

\* Wallet and router move, and neither the chain nor the sender does.
WalletMoves ==
  /\ \/ SignAndSend
     \/ SigningRejected
     \/ bPc = "signing" /\ bPc' = "dispatched" /\ jito /\ Route /\ UNCHANGED jito
     \/ bPc = "dispatched" /\ jito /\ RouteStep /\ UNCHANGED <<bPc, jito>>
  /\ UNCHANGED <<ledgerVars, trackVars, sendVars>>

\* The sender moves: it is called by the bridge, or runs once dispatched.
SenderMoves ==
  /\ \/ bPc = "signing" /\ bPc' = "dispatched" /\ ~jito /\ Call
     \/ Dispatched /\ SendStep /\ UNCHANGED bPc
  /\ UNCHANGED <<routeVars, jito>>

\* The sender's tracker moves, its sleep hook included.
TrackerMoves ==
  /\ Dispatched
  /\ \/ TrackStep /\ UNCHANGED <<ledgerVars, sendVars>>
     \/ Rebroadcast
  /\ UNCHANGED <<routeVars, bPc, jito>>

LEMMA BridgeSplits ==
  ASSUME [BridgeNext]_bridgeVars
  PROVE  ChainMoves \/ WalletMoves \/ SenderMoves \/ TrackerMoves
         \/ UNCHANGED bridgeVars
<1>1. CASE LedgerNext /\ UNCHANGED <<trackVars, sendVars, routeVars, bPc, jito>>
  BY <1>1 DEF ChainMoves, routeVars
<1>2. CASE SignAndSend \/ SigningRejected
  BY <1>2 DEF SignAndSend, SigningRejected, WalletMoves, routerVars
<1>3. CASE Dispatch
  <2>1. CASE jito
    BY <1>3, <2>1 DEF Dispatch, WalletMoves, Route
  <2>2. CASE ~jito
    BY <1>3, <2>2 DEF Dispatch, SenderMoves
  <2> QED BY <2>1, <2>2
<1>4. CASE bPc = "dispatched" /\ jito /\ RouteStep /\ UNCHANGED <<bPc, jito>>
  BY <1>4 DEF WalletMoves, RouteStep, Route, EngineTakes, Submitted, EngineFails,
     PollBundle, FallbackSettled
<1>5. CASE EngineStep /\ UNCHANGED <<bPc, jito>>
  BY <1>5 DEF EngineStep, ChainMoves, BundleIncluded, BundleDropped
<1>6. CASE Dispatched /\ SenderRuns /\ UNCHANGED <<bPc, jito>>
  BY <1>6 DEF SenderRuns, SenderMoves, TrackerMoves
<1> QED BY <1>1, <1>2, <1>3, <1>4, <1>5, <1>6 DEF BridgeNext, WalletStep

LEMMA BridgeStepIInv ==
  ASSUME BridgeInv, [BridgeNext]_bridgeVars PROVE IInv'
<1>1. IInv
  BY DEF BridgeInv
<1>2. ASSUME UNCHANGED <<ledgerVars, trackVars>> PROVE IInv'
  BY <1>1, <1>2, NextIInv DEF trackerVars
<1>3. CASE ChainMoves
  <2>1. CASE LedgerNext
    BY <1>1, <1>3, <2>1, NextIInv DEF ChainMoves, TrackerNext
  <2>2. CASE BundleIncluded
    BY <1>1, <2>2, BundleIncludedIInv
  <2>3. CASE BundleDropped
    BY <1>2, <2>3 DEF BundleDropped
  <2> QED BY <1>3, <2>1, <2>2, <2>3 DEF ChainMoves
<1>4. CASE WalletMoves
  BY <1>2, <1>4 DEF WalletMoves
<1>5. CASE SenderMoves
  <2>1. CASE Call \/ Guard \/ BroadcastThrows \/ TrackRejected \/ TrackReturned
    BY <1>2, <2>1 DEF Call, Guard, BroadcastThrows, TrackRejected, TrackReturned
  <2>2. ASSUME NEW n \in Nodes, FirstForwarded(n) PROVE IInv'
    BY <1>1, <2>2, InflightIInv DEF FirstForwarded, Forward
  <2>3. CASE BroadcastReturns
    <3>1. Track(Clients) /\ UNCHANGED ledgerVars
      BY <2>3 DEF BroadcastReturns
    <3> QED BY <1>1, <3>1, NextIInv DEF TrackerNext
  <2> QED BY <1>5, <2>1, <2>2, <2>3 DEF SenderMoves, SendStep
<1>6. CASE TrackerMoves
  <2>1. CASE TrackStep /\ UNCHANGED <<ledgerVars, sendVars>>
    BY <1>1, <2>1, NextIInv DEF TrackerNext
  <2>2. CASE Rebroadcast
    <3>1. Sleep /\ UNCHANGED <<height, tip, landedAt, landedErr, view>>
      BY <2>2 DEF Rebroadcast, NotForwarded, Forward, ledgerVars
    <3>2. inflight' \in BOOLEAN
      BY <1>1, <2>2 DEF Rebroadcast, NotForwarded, Forward, ledgerVars, IInv,
         TrackerTypeOK, LedgerTypeOK
    <3> QED BY <1>1, <3>1, <3>2, InflightIInv
  <2> QED BY <1>6, <2>1, <2>2 DEF TrackerMoves
<1>7. CASE UNCHANGED bridgeVars
  BY <1>2, <1>7 DEF bridgeVars, routerVars
<1> QED BY <1>3, <1>4, <1>5, <1>6, <1>7, BridgeSplits

\* Where the router's loop may lead: a status either ends it, or it polls
\* again while polls are left.
LEMMA RouteStepLoop ==
  ASSUME BridgeInv, WalletMoves
  PROVE  /\ jPc' \in {"idle", "submitting", "polling", "fallback", "landed", "done",
                      "threw"}
         /\ polls' \in 0..MaxBundlePolls
         /\ jPc' = "polling" => polls' < MaxBundlePolls
         /\ jPc' = "landed" => jPc = "landed" \/ bundle = "included"
         /\ jPc' = "done" => jPc = "done" \/ sPc \in {"done", "threw"}
<1> DEFINE Goal ==
      /\ jPc' \in {"idle", "submitting", "polling", "fallback", "landed", "done",
                   "threw"}
      /\ polls' \in 0..MaxBundlePolls
      /\ jPc' = "polling" => polls' < MaxBundlePolls
      /\ jPc' = "landed" => jPc = "landed" \/ bundle = "included"
      /\ jPc' = "done" => jPc = "done" \/ sPc \in {"done", "threw"}
<1>1. /\ jPc \in {"idle", "submitting", "polling", "fallback", "landed", "done", "threw"}
      /\ polls \in 0..MaxBundlePolls /\ MaxBundlePolls \in Nat
      /\ bundle \in {"none", "queued", "included", "dropped"}
      /\ jPc = "polling" => polls < MaxBundlePolls
  BY RouterAssumption
  DEF RouterAssumption, BridgeInv, BridgeTypeOK, RouterTypeOK, RouteInv
<1>2. CASE UNCHANGED <<jPc, polls>>
  BY <1>1, <1>2
<1>3. CASE Route \/ EngineFails \/ FallbackSettled
  BY <1>1, <1>3 DEF Route, EngineFails, FallbackSettled
<1>4. CASE Submitted
  <2>1. polls' = polls /\ jPc = "submitting" /\ jPc' = LoopOr(0)
    BY <1>4 DEF Submitted
  <2>2. polls = 0
    BY <2>1 DEF BridgeInv, RouteInv
  <2> QED BY <1>1, <2>1, <2>2 DEF LoopOr
<1>5. CASE PollBundle
  <2>1. PICK s \in EngineStatuses :
          /\ jPc' = AfterStatus(s, polls)
          /\ polls' = IF s = "Pending" THEN polls + 1 ELSE polls
    BY <1>5 DEF PollBundle
  <2>2. /\ s \in {"Pending", "Invalid", "Failed", "Landed"}
        /\ s = "Landed" => bundle = "included"
    BY <1>1, <2>1 DEF EngineStatuses
  <2>3. jPc = "polling"
    BY <1>5 DEF PollBundle
  <2>4. CASE s = "Landed"
    BY <1>1, <2>1, <2>2, <2>4 DEF AfterStatus
  <2>5. CASE s \in {"Failed", "Invalid"}
    BY <1>1, <2>1, <2>5 DEF AfterStatus
  <2>6. CASE s = "Pending"
    <3>1. jPc' = LoopOr(polls + 1) /\ polls' = polls + 1
      BY <2>1, <2>6 DEF AfterStatus
    <3> QED BY <1>1, <2>3, <3>1 DEF LoopOr
  <2> QED BY <2>2, <2>4, <2>5, <2>6
<1>6. UNCHANGED <<jPc, polls>> \/ Route \/ EngineFails \/ FallbackSettled \/ Submitted
      \/ PollBundle
  BY DEF WalletMoves, SignAndSend, SigningRejected, RouteStep, EngineTakes, routerVars,
     routeVars
<1> QED BY <1>2, <1>3, <1>4, <1>5, <1>6

\* The sender's own variables, by the step it takes.
LEMMA SendStepPhase ==
  ASSUME BridgeInv, SendStep
  PROVE  \/ (Call \/ Guard) /\ UNCHANGED <<wsPc, pc, outcome, offered>>
         \/ /\ sPc = "sending" /\ sPc' = "acked"
            /\ UNCHANGED <<wsPc, pc, outcome, events>>
         \/ /\ sPc = "acked" /\ sPc' = "tracking"
            /\ events' = Append(events, "sent")
            /\ wsPc' = "off" /\ UNCHANGED <<outcome, offered>>
         \/ /\ sPc \in {"sending", "acked"} /\ sPc' = "threw"
            /\ events' = Append(events, "failed")
            /\ UNCHANGED <<wsPc, pc, outcome, offered>>
         \/ /\ sPc = "tracking" /\ sPc' = "threw"
            /\ UNCHANGED <<wsPc, pc, outcome, events, offered>>
         \/ /\ sPc = "tracking" /\ sPc' = "done" /\ outcome \in Terminal
            /\ events' = Append(events, outcome)
            /\ UNCHANGED <<wsPc, pc, outcome, offered>>
<1> USE DEF trackVars
<1>1. CASE Call \/ Guard
  BY <1>1 DEF Call, Guard
<1>2. ASSUME NEW n \in Nodes, FirstForwarded(n)
      PROVE  /\ sPc = "sending" /\ sPc' = "acked"
             /\ UNCHANGED <<wsPc, pc, outcome, events>>
  BY <1>2 DEF FirstForwarded
<1>3. CASE BroadcastReturns
  BY <1>3, SenderAssumption DEF BroadcastReturns, Track, SenderAssumption
<1>4. CASE BroadcastThrows
  BY <1>4 DEF BroadcastThrows
<1>5. CASE TrackRejected
  BY <1>5 DEF TrackRejected
<1>6. CASE TrackReturned
  <2>1. outcome \in Terminal => TerminalEvent(outcome) = outcome
    BY DEF Terminal, TerminalEvent, Decisive
  <2> QED BY <1>6, <2>1 DEF TrackReturned
<1> QED BY <1>1, <1>2, <1>3, <1>4, <1>5, <1>6 DEF SendStep

LEMMA BridgeStepPhase ==
  ASSUME BridgeInv, [BridgeNext]_bridgeVars PROVE PhaseInv'
<1> USE DEF BridgeInv, PhaseInv
<1>1. CASE UNCHANGED <<trackVars, sendVars>>
  BY <1>1 DEF trackVars, sendVars
<1>2. CASE SenderMoves
  <2>1. SendStep
    BY <1>2 DEF SenderMoves, SendStep
  <2>2. CASE (Call \/ Guard) /\ UNCHANGED <<wsPc, pc, outcome, offered>>
    <3>1. sPc' \in {"guarding", "sending", "threw"} /\ sPc \in {"idle", "guarding"}
      BY <2>2, OpeningSteps DEF Call, Guard
    <3> QED BY <2>2, <3>1
  <2> QED BY <2>1, <2>2, SendStepPhase
<1>3. CASE TrackerMoves
  <2>1. IInv /\ wsPc = "off" /\ (TrackStep \/ Sleep) /\ UNCHANGED sPc
    BY <1>3 DEF TrackerMoves, Rebroadcast, sendVars
  <2>2. pc # "idle" /\ wsPc' = "off" /\ (outcome # "none" => outcome' = outcome)
    BY <2>1, TrackStepPhase
  <2> QED BY <2>1, <2>2 DEF Terminal
<1> QED
  BY <1>1, <1>2, <1>3, BridgeSplits DEF ChainMoves, WalletMoves, bridgeVars, routerVars

LEMMA BridgeStepType ==
  ASSUME BridgeInv, [BridgeNext]_bridgeVars PROVE BridgeTypeOK'
<1> USE DEF BridgeInv, BridgeTypeOK, RouterTypeOK, SenderTypeOK
<1>1. TrackerTypeOK'
  BY BridgeStepIInv DEF IInv
<1>2. CASE ChainMoves
  <2>1. bundle' \in {"none", "queued", "included", "dropped"}
    BY <1>2 DEF ChainMoves, BundleIncluded, BundleDropped
  <2> QED BY <1>1, <1>2, <2>1 DEF ChainMoves, sendVars
<1>3. CASE WalletMoves
  <2>1. /\ bPc' \in {"idle", "signing", "dispatched", "threw"} /\ jito' \in BOOLEAN
    BY <1>3 DEF WalletMoves, SignAndSend, SigningRejected
  <2>2. bundle' \in {"none", "queued", "included", "dropped"}
    BY <1>3 DEF WalletMoves, SignAndSend, SigningRejected, RouteStep, Route,
       EngineTakes, Submitted, EngineFails, PollBundle, FallbackSettled, routerVars,
       routeVars
  <2>3. /\ jPc' \in {"idle", "submitting", "polling", "fallback", "landed", "done", "threw"}
        /\ polls' \in 0..MaxBundlePolls
    BY <1>3, RouteStepLoop
  <2> QED BY <1>1, <1>3, <2>1, <2>2, <2>3 DEF WalletMoves, sendVars
<1>4. CASE SenderMoves
  <2>1. UNCHANGED <<guard, cluster, routeVars, jito>> /\ (bPc' = bPc \/ bPc' = "dispatched")
    BY <1>4 DEF SenderMoves, SendStep, Call, Guard, FirstForwarded, BroadcastReturns,
       BroadcastThrows, TrackRejected, TrackReturned
  <2>2. SendStep
    BY <1>4 DEF SenderMoves, SendStep
  <2>3. offered' \in BOOLEAN
    BY <2>2 DEF SendStep, Call, Guard, FirstForwarded, Forward, BroadcastReturns,
       BroadcastThrows, TrackRejected, TrackReturned
  <2>4. sPc' \in {"idle", "guarding", "sending", "acked", "tracking", "done", "threw"}
    BY <2>2, OpeningSteps, SendStepPhase
  <2>5. events' \in Seq(EventNames)
    <3>1. CASE Call \/ Guard
      BY <3>1, OpeningSteps, OpeningEvents
    <3>2. CASE events' = events
      BY <3>2
    <3>3. ASSUME NEW e \in EventNames, events' = Append(events, e)
          PROVE  events' \in Seq(EventNames)
      BY <3>3, AppendEvent
    <3> QED BY <2>2, <3>1, <3>2, <3>3, SendStepPhase DEF EventNames, Terminal
  <2> QED BY <1>1, <2>1, <2>3, <2>4, <2>5 DEF routeVars
<1>5. CASE TrackerMoves
  <2>1. UNCHANGED <<sPc, guard, cluster, events, routeVars, bPc, jito>>
    BY <1>5 DEF TrackerMoves, Rebroadcast, sendVars
  <2>2. offered' \in BOOLEAN
    BY <1>5 DEF TrackerMoves, Rebroadcast, NotForwarded, Forward, sendVars
  <2> QED BY <1>1, <2>1, <2>2 DEF routeVars
<1>6. CASE UNCHANGED bridgeVars
  BY <1>1, <1>6 DEF bridgeVars, routerVars, sendVars, routeVars
<1> QED BY <1>2, <1>3, <1>4, <1>5, <1>6, BridgeSplits

\* EventsInv reads nothing but these.
LEMMA EventsStay ==
  ASSUME EventsInv, UNCHANGED <<sPc, events>>,
         sPc = "done" => outcome' = outcome
  PROVE  EventsInv'
  BY DEF EventsInv, Only, Emitted, NothingAfterTheEnd

LEMMA BridgeStepEvents ==
  ASSUME BridgeInv, [BridgeNext]_bridgeVars PROVE EventsInv'
<1>1. /\ EventsInv /\ PhaseInv /\ events \in Seq(EventNames)
  BY DEF BridgeInv, BridgeTypeOK, RouterTypeOK, SenderTypeOK
<1>2. CASE UNCHANGED <<trackVars, sendVars>>
  BY <1>1, <1>2, EventsStay DEF trackVars, sendVars
<1>3. CASE TrackerMoves
  <2>1. IInv /\ wsPc = "off" /\ (TrackStep \/ Sleep) /\ UNCHANGED <<sPc, events>>
    BY <1>1, <1>3 DEF TrackerMoves, Rebroadcast, sendVars, BridgeInv, PhaseInv
  <2>2. outcome # "none" => outcome' = outcome
    BY <2>1, TrackStepPhase
  <2>3. sPc = "done" => outcome # "none"
    BY <1>1 DEF PhaseInv, Terminal
  <2> QED BY <1>1, <2>1, <2>2, <2>3, EventsStay
<1>4. CASE SenderMoves
  <2>1. SendStep
    BY <1>4 DEF SenderMoves, SendStep
  <2>2. CASE Call \/ Guard
    <3>1. events = <<>>
      BY <1>1, <2>2, OpeningSteps
    <3>2. CASE sPc' = "guarding" /\ events' = events
      BY <1>1, <3>1, <3>2 DEF EventsInv, Emitted, Only, NothingAfterTheEnd
    <3>3. CASE sPc' \in {"sending", "threw"} /\ OpenWith(events')
      <4>1. Only(Early)' /\ NothingAfterTheEnd'
        BY <3>1, <3>3, OpeningEvents
      <4>2. \A e \in {"confirmed", "expired", "sent", "failed"} : ~Emitted(e)'
        BY <4>1 DEF Only, Early, EventNames
      <4> QED BY <3>3, <4>1, <4>2 DEF EventsInv
    <3> QED BY <1>1, <2>2, <3>2, <3>3, OpeningSteps
  <2>3. CASE sPc = "sending" /\ sPc' = "acked" /\ UNCHANGED events
    BY <1>1, <2>3 DEF EventsInv, Only, Emitted, NothingAfterTheEnd
  <2>4. CASE sPc = "acked" /\ sPc' = "tracking" /\ events' = Append(events, "sent")
    <3>1. Only(Early) /\ NothingAfterTheEnd
      BY <1>1, <2>4 DEF EventsInv
    <3>2. /\ ~Emitted("sent") /\ ~Emitted("failed")
          /\ \A t \in Terminal : ~Emitted(t)
      BY <3>1 DEF Only, Early, EventNames, Terminal
    <3>3. /\ NothingAfterTheEnd'
          /\ \A x : Emitted(x)' <=> Emitted(x) \/ x = "sent"
      BY <1>1, <2>4, <3>1, <3>2, AppendEvent DEF EventNames
    <3>4. Only(Early \cup {"sent"})'
      BY <3>1, <3>3 DEF Only
    <3> QED BY <2>4, <3>2, <3>3, <3>4 DEF EventsInv, Terminal
  <2>5. CASE /\ sPc \in {"sending", "acked"} /\ sPc' = "threw"
             /\ events' = Append(events, "failed")
    <3>1. Only(Early) /\ NothingAfterTheEnd
      BY <1>1, <2>5 DEF EventsInv
    <3>2. ~Emitted("sent") /\ \A t \in Terminal : ~Emitted(t)
      BY <3>1 DEF Only, Early, EventNames, Terminal
    <3>3. /\ NothingAfterTheEnd'
          /\ \A x : Emitted(x)' <=> Emitted(x) \/ x = "failed"
      BY <1>1, <2>5, <3>1, <3>2, AppendEvent DEF EventNames, Terminal
    <3> QED BY <2>5, <3>2, <3>3 DEF EventsInv, Terminal
  <2>6. CASE sPc = "tracking" /\ sPc' = "threw" /\ UNCHANGED events
    <3>1. Only(Early \cup {"sent"}) /\ NothingAfterTheEnd
      BY <1>1, <2>6 DEF EventsInv
    <3>2. \A t \in Terminal : ~Emitted(t)
      BY <3>1 DEF Only, Early, EventNames, Terminal
    <3>3. NothingAfterTheEnd' /\ \A x : Emitted(x)' <=> Emitted(x)
      BY <2>6, <3>1 DEF NothingAfterTheEnd, Emitted
    <3> QED BY <2>6, <3>2, <3>3 DEF EventsInv, Terminal
  <2>7. CASE /\ sPc = "tracking" /\ sPc' = "done" /\ outcome \in Terminal
             /\ events' = Append(events, outcome) /\ UNCHANGED outcome
    <3>1. Only(Early \cup {"sent"}) /\ NothingAfterTheEnd
      BY <1>1, <2>7 DEF EventsInv
    <3>2. \A t \in Terminal : ~Emitted(t)
      BY <3>1 DEF Only, Early, EventNames, Terminal
    <3>3. outcome \in EventNames /\ ~Emitted(outcome)
      BY <2>7, <3>2 DEF EventNames, Terminal
    <3>4. /\ NothingAfterTheEnd'
          /\ \A x : Emitted(x)' <=> Emitted(x) \/ x = outcome
      BY <1>1, <2>7, <3>1, <3>2, <3>3, AppendEvent
    <3> QED BY <2>7, <3>2, <3>4 DEF EventsInv, Terminal
  <2> QED BY <2>1, <2>2, <2>3, <2>4, <2>5, <2>6, <2>7, SendStepPhase
<1> QED
  BY <1>2, <1>3, <1>4, BridgeSplits DEF ChainMoves, WalletMoves, bridgeVars, routerVars

\* A call that ends says so, or is one of the two kinds that do not.
LEMMA BridgeStepEnd ==
  ASSUME BridgeInv, [BridgeNext]_bridgeVars PROVE EndIsTold'
<1>1. /\ EndIsTold /\ EventsInv /\ events \in Seq(EventNames)
      /\ sPc = "done" => outcome # "none"
  BY DEF BridgeInv, BridgeTypeOK, RouterTypeOK, SenderTypeOK, PhaseInv, Terminal
<1>2. ASSUME UNCHANGED <<sPc, guard, events>>, outcome # "none" => outcome' = outcome
      PROVE  EndIsTold'
  BY <1>1, <1>2 DEF EndIsTold, Emitted
<1>3. CASE UNCHANGED <<trackVars, sendVars>>
  BY <1>2, <1>3 DEF trackVars, sendVars
<1>4. CASE TrackerMoves
  <2>1. /\ IInv /\ wsPc = "off" /\ (TrackStep \/ Sleep)
        /\ UNCHANGED <<sPc, guard, events>>
    BY <1>4 DEF TrackerMoves, Rebroadcast, sendVars, BridgeInv, PhaseInv
  <2> QED BY <1>2, <2>1, TrackStepPhase
<1>5. CASE SenderMoves
  <2>1. SendStep
    BY <1>5 DEF SenderMoves, SendStep
  <2>2. CASE Call
    BY <2>2 DEF Call, StartBroadcast, EndIsTold
  <2>3. CASE Guard
    <3>1. PICK d \in {cluster, "unknown"} : GuardLets(d) \/ GuardWarns(d) \/ GuardThrows(d)
      BY <2>3 DEF Guard
    <3>2. CASE GuardLets(d) \/ GuardWarns(d)
      BY <3>2 DEF GuardLets, GuardWarns, StartBroadcast, EndIsTold
    <3>3. CASE GuardThrows(d)
      <4>1. events = <<>> /\ guard' = "throw" /\ sPc' = "threw"
        BY <1>1, <2>3, <3>3 DEF Guard, GuardThrows, EventsInv
      <4>2. events'[2] = "cluster-mismatch" /\ 2 \in DOMAIN events'
        BY <3>3, <4>1 DEF GuardThrows
      <4> QED BY <4>1, <4>2 DEF EndIsTold, Emitted
    <3> QED BY <3>1, <3>2, <3>3
  <2>4. CASE (\E n \in Nodes : FirstForwarded(n)) \/ BroadcastReturns
    BY <2>4 DEF FirstForwarded, BroadcastReturns, EndIsTold
  <2>5. CASE BroadcastThrows
    <3>1. sPc' = "threw" /\ Emitted("failed")'
      BY <1>1, <2>5, AppendEvent DEF BroadcastThrows, EventNames
    <3> QED BY <3>1 DEF EndIsTold, Terminal
  <2>6. CASE TrackRejected
    BY <2>6 DEF TrackRejected, EndIsTold, trackVars
  <2>7. CASE TrackReturned
    <3>1. /\ sPc' = "done" /\ outcome' = outcome /\ outcome \in EventNames
          /\ events' = Append(events, outcome)
      BY <2>7 DEF TrackReturned, TerminalEvent, Terminal, Decisive, EventNames, trackVars
    <3>2. Emitted(outcome)'
      BY <1>1, <3>1, AppendEvent
    <3> QED BY <3>1, <3>2 DEF EndIsTold
  <2> QED BY <2>1, <2>2, <2>3, <2>4, <2>5, <2>6, <2>7 DEF SendStep
<1> QED
  BY <1>3, <1>4, <1>5, BridgeSplits DEF ChainMoves, WalletMoves, bridgeVars, routerVars

LEMMA BridgeStepGuard ==
  ASSUME BridgeInv, [BridgeNext]_bridgeVars PROVE GuardInv'
<1>1. GuardInv /\ PhaseInv /\ EventsInv /\ events \in Seq(EventNames)
  BY DEF BridgeInv, BridgeTypeOK, RouterTypeOK, SenderTypeOK
<1>2. ASSUME UNCHANGED <<sPc, pc, guard, cluster, events, offered>> PROVE GuardInv'
  BY <1>1, <1>2 DEF GuardInv, Emitted
<1>3. CASE TrackerMoves
  <2>1. pc # "idle"
    BY <1>1, <1>3, TrackStepPhase DEF TrackerMoves, Rebroadcast, BridgeInv, PhaseInv
  <2>2. UNCHANGED <<guard, cluster, events>>
    BY <1>3 DEF TrackerMoves, Rebroadcast, sendVars
  <2> QED BY <1>1, <2>1, <2>2 DEF GuardInv, Emitted
<1>4. CASE SenderMoves
  <2>1. SendStep /\ UNCHANGED <<guard, cluster>>
    BY <1>4 DEF SenderMoves, SendStep, Call, Guard, FirstForwarded, BroadcastReturns,
       BroadcastThrows, TrackRejected, TrackReturned
  <2>2. CASE (Call \/ Guard) /\ UNCHANGED <<pc, offered>>
    <3>1. sPc \in {"idle", "guarding"} /\ pc = "idle" /\ ~offered /\ events = <<>>
      BY <1>1, <2>2 DEF Call, Guard, PhaseInv, EventsInv
    <3>2. CASE sPc' = "guarding" /\ events' = events
      BY <3>1, <3>2 DEF GuardInv, Emitted
    <3>3. CASE /\ sPc' = "sending" /\ OpenWith(events')
               /\ cluster = "other" /\ guard = "throw" =>
                    events' = events \o <<"pending">>
      BY <2>1, <3>1, <3>3, OpeningEvents DEF GuardInv
    <3>4. CASE sPc' = "threw"
      BY <2>2, <3>1, <3>4 DEF GuardInv
    <3> QED BY <1>1, <2>2, <3>2, <3>3, <3>4, OpeningSteps
  <2>3. ASSUME sPc # "threw",
               \/ events' = events
               \/ \E e \in {"sent", "failed", "confirmed", "expired"} :
                    events' = Append(events, e)
        PROVE  GuardInv'
    <3>1. ~(guard = "throw" /\ cluster = "other" /\ Emitted("cluster-detected"))
      BY <1>1, <2>3 DEF GuardInv
    <3>2. Emitted("cluster-detected")' => Emitted("cluster-detected")
      <4>1. CASE events' = events
        BY <4>1 DEF Emitted
      <4>2. ASSUME NEW e \in {"sent", "failed", "confirmed", "expired"},
                   events' = Append(events, e)
            PROVE  Emitted("cluster-detected")' => Emitted("cluster-detected")
        <5>1. e \in EventNames /\ e # "cluster-detected"
          BY DEF EventNames
        <5> QED BY <1>1, <4>2, <5>1, AppendEvent
      <4> QED BY <2>3, <4>1, <4>2
    <3> QED BY <2>1, <3>1, <3>2 DEF GuardInv
  <2> QED BY <2>1, <2>2, <2>3, SendStepPhase DEF Terminal
<1> QED
  BY <1>2, <1>3, <1>4, BridgeSplits
  DEF ChainMoves, WalletMoves, bridgeVars, routerVars, trackVars, sendVars

LEMMA BridgeStepRoute ==
  ASSUME BridgeInv, [BridgeNext]_bridgeVars PROVE RouteInv'
<1>1. RouteInv
  BY DEF BridgeInv
<1>2. CASE UNCHANGED <<sPc, jPc, polls, bPc, jito>>
  BY <1>1, <1>2 DEF RouteInv
<1>3. CASE WalletMoves
  <2>1. UNCHANGED <<sPc, jito>>
    BY <1>3 DEF WalletMoves, SignAndSend, SigningRejected, sendVars
  <2>2. CASE SignAndSend \/ SigningRejected
    BY <1>1, <2>1, <2>2 DEF SignAndSend, SigningRejected, RouteInv, routerVars, routeVars
  <2>3. CASE bPc' = "dispatched" /\ jito /\ RouteStep
    <3>1. /\ jPc' = "polling" => polls' < MaxBundlePolls
          /\ jPc' = "done" => jPc = "done" \/ sPc \in {"done", "threw"}
      BY <1>3, RouteStepLoop
    <3>2. /\ jPc' \in {"idle", "submitting"} =>
                jPc \in {"idle", "submitting"} /\ polls' = polls
          /\ jPc' = "polling" => jPc \in {"submitting", "polling"}
      <4>1. CASE Route \/ EngineTakes \/ EngineFails \/ FallbackSettled
        BY <4>1 DEF Route, EngineTakes, EngineFails, FallbackSettled
      <4>2. CASE Submitted
        BY <4>2 DEF Submitted, LoopOr
      <4>3. CASE PollBundle
        BY <4>3 DEF PollBundle, AfterStatus, LoopOr
      <4> QED BY <2>3, <4>1, <4>2, <4>3 DEF RouteStep
    <3> QED BY <1>1, <2>1, <2>3, <3>1, <3>2 DEF RouteInv
  <2> QED BY <1>3, <2>2, <2>3 DEF WalletMoves, RouteStep
<1>4. CASE SenderMoves
  <2>1. UNCHANGED <<jPc, polls, jito>> /\ bPc' = "dispatched" /\ (jito => jPc = "fallback")
    BY <1>4 DEF SenderMoves, Dispatched, routeVars
  <2> QED BY <1>1, <2>1 DEF RouteInv
<1>5. CASE TrackerMoves
  BY <1>2, <1>5 DEF TrackerMoves, Rebroadcast, routeVars, sendVars
<1> QED
  BY <1>2, <1>3, <1>4, <1>5, BridgeSplits
  DEF ChainMoves, bridgeVars, routerVars, sendVars, routeVars

LEMMA BridgeStepBundle ==
  ASSUME BridgeInv, [BridgeNext]_bridgeVars PROVE BundleInv'
<1> SUFFICES ASSUME ~Forks, bundle' = "included" \/ jPc' = "landed"
             PROVE  Executed' = "ok"
  BY DEF BundleInv
<1>1. BundleInv /\ LedgerTypeOK /\ LedgerInv
  BY DEF BridgeInv, IInv, TrackerTypeOK
<1>2. CASE bundle = "included" \/ jPc = "landed"
  <2>1. Executed = "ok"
    BY <1>1, <1>2 DEF BundleInv
  <2>2. ASSUME UNCHANGED <<tip, landedAt, landedErr>> PROVE Executed' = "ok"
    BY <2>1, <2>2 DEF Executed
  <2>3. CASE ChainMoves
    <3>1. CASE LedgerNext
      BY <1>1, <2>1, <3>1, ExecutedStays
    <3>2. CASE BundleIncluded
      BY <3>2 DEF BundleIncluded, Executed
    <3>3. CASE BundleDropped
      BY <2>2, <3>3 DEF BundleDropped, ledgerVars
    <3> QED BY <2>3, <3>1, <3>2, <3>3 DEF ChainMoves
  <2>4. CASE WalletMoves \/ UNCHANGED bridgeVars
    BY <2>2, <2>4 DEF WalletMoves, bridgeVars, routerVars, ledgerVars
  <2>5. CASE SenderMoves
    BY <2>2, <2>5 DEF SenderMoves, SendStep, Call, Guard, FirstForwarded, Forward,
       BroadcastReturns, BroadcastThrows, TrackRejected, TrackReturned, ledgerVars
  <2>6. CASE TrackerMoves
    BY <2>2, <2>6 DEF TrackerMoves, Rebroadcast, NotForwarded, Forward, ledgerVars
  <2> QED BY <2>3, <2>4, <2>5, <2>6, BridgeSplits
<1>3. CASE BundleIncluded
  BY <1>3 DEF BundleIncluded, Executed
<1>4. CASE ~BundleIncluded /\ bundle # "included" /\ jPc # "landed"
  <2>1. CASE WalletMoves
    <3>1. jPc' # "landed"
      BY <1>4, <2>1, RouteStepLoop
    <3>2. bundle' # "included"
      BY <1>4, <2>1 DEF WalletMoves, SignAndSend, SigningRejected, RouteStep, Route,
         EngineTakes, Submitted, EngineFails, PollBundle, FallbackSettled, routerVars,
         routeVars
    <3> QED BY <3>1, <3>2
  <2>2. CASE ~WalletMoves
    BY <1>4, <2>2, BridgeSplits
    DEF ChainMoves, BundleDropped, SenderMoves, TrackerMoves, bridgeVars, routerVars,
        routeVars
  <2> QED BY <2>1, <2>2
<1> QED BY <1>2, <1>3, <1>4

LEMMA BridgeInitInv == BridgeInit => BridgeInv
<1> SUFFICES ASSUME BridgeInit PROVE BridgeInv
  OBVIOUS
<1> USE DEF BridgeInit, RouterInit, SenderInit, SendInit
<1>1. IInv
  BY InitIInv DEF TrackerInit
<1>2. BridgeTypeOK
  <2>1. events \in Seq(EventNames)
    OBVIOUS
  <2>2. SenderTypeOK
    BY <1>1, <2>1 DEF IInv, SenderTypeOK
  <2>3. polls \in 0..MaxBundlePolls
    BY RouterAssumption DEF RouterAssumption
  <2> QED BY <2>2, <2>3 DEF BridgeTypeOK, RouterTypeOK
<1>3. PhaseInv
  BY DEF PhaseInv, TrackInit
<1>4. \A e : ~Emitted(e)
  BY DEF Emitted
<1>5. EventsInv /\ EndIsTold /\ GuardInv
  BY <1>4 DEF EventsInv, EndIsTold, GuardInv, Only, NothingAfterTheEnd
<1>6. RouteInv /\ BundleInv
  BY DEF RouteInv, BundleInv
<1> QED BY <1>1, <1>2, <1>3, <1>5, <1>6 DEF BridgeInv

\* BridgeInv holds throughout signAndSend, on every route and under every guard
\* setting (wallet-adapter-bridge.ts:83-86, router.ts:60-86, sender.ts:112-196).
THEOREM BridgeInductive == BridgeSpec => []BridgeInv
<1>1. BridgeInv /\ [BridgeNext]_bridgeVars => BridgeInv'
  BY BridgeStepIInv, BridgeStepType, BridgeStepPhase, BridgeStepEvents, BridgeStepEnd,
     BridgeStepGuard, BridgeStepRoute, BridgeStepBundle
  DEF BridgeInv
<1> QED BY <1>1, BridgeInitInv, PTL DEF BridgeSpec

-----------------------------------------------------------------------------
(* Theorems.                                                               *)

\* The state of the whole write path stays of its type; the router's loop
\* counter never passes its bound (router.ts, lines 64-66).
THEOREM BridgeTypeCorrect == BridgeSpec => []BridgeTypeOK
  BY BridgeInductive, PTL DEF BridgeInv

\* Under "throw", a transaction that left for a wrong cluster left because
\* the detection said "unknown", in whichever order the first broadcast, its
\* lost reply and the rebroadcasts happen (sender.ts, lines 69-97, 122-124).
THEOREM WrongClusterIsStopped == BridgeSpec => []WrongClusterNeverSent
<1>1. BridgeInv => WrongClusterNeverSent
  BY DEF BridgeInv, GuardInv, WrongClusterNeverSent
<1> QED BY <1>1, BridgeInductive, PTL

\* What the events say of the chain is so when they say it and ever after, if
\* no processed block is abandoned (sender.ts, lines 155, 188-194).
THEOREM EventsTellTheTruth ==
  ASSUME ~Forks PROVE BridgeSpec => []EventsAreTrue
<1>1. ASSUME BridgeInv PROVE EventsAreTrue
  <2>1. /\ Emitted("confirmed") => outcome = "confirmed"
        /\ Emitted("expired") => outcome = "expired"
        /\ Emitted("sent") /\ Emitted("failed") => outcome = "failed"
    BY <1>1 DEF BridgeInv, EventsInv
  <2>2. /\ outcome = "confirmed" => IsConfirmed
        /\ outcome = "failed" => IsFailed
    BY <1>1 DEF BridgeInv, IInv, TruthInv, Held
  <2>3. outcome = "expired" => height > LastValidBlockHeight
    <3>1. wsRes # "abstain"
      BY <1>1 DEF BridgeInv, PhaseInv, IInv, RaceInv
    <3> QED BY <1>1, <3>1 DEF BridgeInv, IInv, DeadlineInv
  <2> QED BY <2>1, <2>2, <2>3 DEF EventsAreTrue, IsConfirmed, IsFailed
<1> QED BY <1>1, BridgeInductive, PTL

\* No event is emitted twice and none follows a terminal one, whichever of the
\* places that end the call did; and a call that is over emitted a terminal
\* one, unless the guard refused or the tracker rejected (sender.ts, lines
\* 90-97, 141-155, 179-194).
THEOREM EventsEnd == BridgeSpec => []EventsEndOnce
<1>1. BridgeInv => EventsEndOnce
  BY DEF BridgeInv, EventsInv, EventsEndOnce
<1> QED BY <1>1, BridgeInductive, PTL

\* The route "jito" is only reported of a transaction in a block, if no
\* processed block is abandoned (router.ts, lines 49-58, 67-76).
THEOREM JitoRouteLanded ==
  ASSUME ~Forks PROVE BridgeSpec => []JitoRouteHasLanded
<1>1. BridgeInv => JitoRouteHasLanded
  BY DEF BridgeInv, BundleInv, JitoRouteHasLanded
<1> QED BY <1>1, BridgeInductive, PTL

-----------------------------------------------------------------------------
(* Refinement.                                                             *)

\* What the tracker says of the chain when it settled is so.
OutcomeHolds ==
  /\ outcome = "confirmed" => Executed = "ok"
  /\ outcome = "failed" => Executed = "err"
  /\ outcome = "expired" => height >= LastValidBlockHeight

LEMMA OutcomeIsTrue == ~Forks /\ BridgeInv => OutcomeHolds
<1> SUFFICES ASSUME ~Forks, BridgeInv PROVE OutcomeHolds
  OBVIOUS
<1>1. /\ outcome = "confirmed" => IsConfirmed
      /\ outcome = "failed" => IsFailed
  BY DEF BridgeInv, IInv, TruthInv, Held
<1>2. /\ IsConfirmed => Executed = "ok"
      /\ IsFailed => Executed = "err"
  BY DEF BridgeInv, IInv, LedgerInv, IsConfirmed, IsFailed, Executed
<1>3. outcome = "expired" => height > LastValidBlockHeight
  BY DEF BridgeInv, PhaseInv, IInv, RaceInv, DeadlineInv
<1>4. height \in Nat /\ LastValidBlockHeight \in Nat
  BY LedgerAssumption
  DEF LedgerAssumption, BridgeInv, IInv, TrackerTypeOK, LedgerTypeOK
<1> QED BY <1>1, <1>2, <1>3, <1>4 DEF OutcomeHolds

\* The chain and the engine execute and kill the transaction, and settle no call.
LEMMA ChainMovesRefine ==
  ASSUME ~Forks, BridgeInv, ChainMoves
  PROVE  [BridgePromise!SettledNext]_(BridgePromise!settledVars)
<1> USE DEF BridgePromise!SettledNext, BridgePromise!settledVars
<1>1. BridgeOutcome' = BridgeOutcome
  BY DEF ChainMoves, BridgeOutcome, RouteOutcome, SendOutcome, trackVars, sendVars
<1>2. IInv /\ UNCHANGED trackVars
  BY DEF BridgeInv, ChainMoves
<1>3. CASE LedgerNext
  <2>1. [Promise!SettledNext]_(Promise!settledVars) /\ outcome' = outcome
    BY <1>2, <1>3, LedgerStepRefines DEF trackVars
  <2>2. \/ Promise!Execute
        \/ Promise!Die
        \/ Executed' = Executed
           /\ (height >= LastValidBlockHeight)' = (height >= LastValidBlockHeight)
    BY <2>1 DEF Promise!SettledNext, Promise!settledVars, Promise!Settle
  <2> QED BY <1>1, <2>2
    DEF Promise!Execute, Promise!Die, BridgePromise!Execute, BridgePromise!Die
<1>4. CASE BundleIncluded
  <2>1. /\ Executed = "no" /\ Executed' = "ok" /\ height' = height
        /\ height < LastValidBlockHeight
    BY <1>4 DEF BundleIncluded, Executed
  <2>2. ~(height >= LastValidBlockHeight)
    BY <1>2, <2>1, LedgerAssumption
    DEF LedgerAssumption, IInv, TrackerTypeOK, LedgerTypeOK
  <2> QED BY <1>1, <2>1, <2>2 DEF BridgePromise!Execute
<1>5. CASE BundleDropped
  BY <1>1, <1>5 DEF BundleDropped, Executed, ledgerVars
<1> QED BY <1>3, <1>4, <1>5 DEF ChainMoves

\* A call that settles does so once, with the truth.
LEMMA OutcomeSettles ==
  ASSUME ~Forks, BridgeInv, BridgeInv', [BridgeNext]_bridgeVars, ~ChainMoves
  PROVE  \/ BridgeOutcome' = BridgeOutcome
         \/ /\ BridgeOutcome = "none"
            /\ BridgeOutcome' \in {"confirmed", "failed", "expired", "rejected"}
            /\ \/ BridgeOutcome' = "rejected"
               \/ BridgeOutcome' = "confirmed" /\ Executed' = "ok"
               \/ BridgeOutcome' = outcome'
<1> USE DEF BridgeOutcome, RouteOutcome
<1>1. RouteInv /\ RouteInv' /\ BundleInv' /\ PhaseInv /\ PhaseInv'
  BY DEF BridgeInv
<1>2. CASE UNCHANGED bridgeVars
  BY <1>2 DEF SendOutcome, bridgeVars, routerVars, trackVars, sendVars, routeVars
<1>3. CASE WalletMoves
  <2>1. SendOutcome' = SendOutcome /\ UNCHANGED <<sPc, outcome>>
    BY <1>3 DEF WalletMoves, SendOutcome, trackVars, sendVars
  <2>2. CASE SignAndSend \/ SigningRejected
    BY <2>2 DEF SignAndSend, SigningRejected
  <2>3. CASE bPc = "signing" /\ bPc' = "dispatched" /\ jito /\ Route /\ UNCHANGED jito
    BY <2>3 DEF Route
  <2>4. CASE bPc = "dispatched" /\ jito /\ RouteStep /\ UNCHANGED <<bPc, jito>>
    <3>1. BridgeOutcome = RouteOutcome /\ BridgeOutcome' = RouteOutcome'
      BY <2>4
    <3>2. CASE Route \/ EngineTakes
      BY <2>1, <3>1, <3>2 DEF Route, EngineTakes
    <3>3. CASE Submitted
      BY <3>1, <3>3 DEF Submitted, LoopOr
    <3>4. CASE EngineFails
      BY <3>1, <3>4 DEF EngineFails
    <3>5. CASE PollBundle
      <4>1. jPc = "polling" /\ jPc' \in {"landed", "fallback", "polling"}
        BY <3>5 DEF PollBundle, AfterStatus, LoopOr
      <4>2. jPc' = "landed" => Executed' = "ok"
        BY <1>1 DEF BundleInv
      <4> QED BY <3>1, <4>1, <4>2
    <3>6. CASE FallbackSettled
      <4>1. jPc = "fallback" /\ jPc' = "done" /\ sPc \in {"done", "threw"}
        BY <3>6 DEF FallbackSettled
      <4>2. SendOutcome = "rejected" \/ (SendOutcome = outcome /\ outcome \in Terminal)
        BY <1>1, <4>1 DEF SendOutcome, PhaseInv
      <4> QED BY <2>1, <3>1, <4>1, <4>2 DEF Terminal
    <3> QED BY <2>4, <3>2, <3>3, <3>4, <3>5, <3>6 DEF RouteStep
  <2> QED BY <1>3, <2>2, <2>3, <2>4 DEF WalletMoves
<1>4. ASSUME (SenderMoves \/ TrackerMoves), jito PROVE BridgeOutcome' = BridgeOutcome
  BY <1>4 DEF SenderMoves, TrackerMoves, Dispatched, routeVars
<1>5. CASE SenderMoves /\ ~jito
  <2>1. /\ bPc' = "dispatched" /\ ~jito'
        /\ bPc # "dispatched" => bPc = "signing"
        /\ SendStep
    BY <1>5 DEF SenderMoves, SendStep, Dispatched
  <2>2. BridgeOutcome' = SendOutcome'
    BY <2>1
  <2>3. BridgeOutcome = "none"
    <3>1. sPc \notin {"done", "threw"}
      BY <2>1 DEF SendStep, Call, Guard, FirstForwarded, BroadcastReturns,
         BroadcastThrows, TrackRejected, TrackReturned
    <3> QED BY <1>5, <2>1, <3>1 DEF SendOutcome
  <2>4. \/ SendOutcome' = "none"
        \/ SendOutcome' = "rejected"
        \/ SendOutcome' = outcome' /\ outcome' \in Terminal
    BY <1>1 DEF SendOutcome, PhaseInv
  <2> QED BY <2>2, <2>3, <2>4 DEF Terminal
<1>6. CASE TrackerMoves /\ ~jito
  <2>1. UNCHANGED <<sPc, bPc, jito, jPc>>
    BY <1>6 DEF TrackerMoves, Rebroadcast, sendVars, routeVars
  <2>2. sPc = "done" => outcome' = outcome
    BY <1>1, <1>6, TrackStepPhase
    DEF TrackerMoves, Rebroadcast, BridgeInv, PhaseInv, Terminal
  <2>3. SendOutcome' = SendOutcome
    BY <2>1, <2>2 DEF SendOutcome
  <2> QED BY <2>1, <2>3
<1> QED BY <1>2, <1>3, <1>4, <1>5, <1>6, BridgeSplits

\* The whole write path implements SettledOutcome, whatever the wallet, the
\* block engine and the nodes do, as long as no processed block is abandoned:
\* the dApp gets the tracker's promise (wallet-adapter-bridge.ts, lines 83-138,
\* router.ts, lines 60-86, sender.ts, lines 99-184).
THEOREM WritePathKeepsPromise ==
  ASSUME ~Forks PROVE BridgeSpec => BridgeKeepsPromise
<1>1. BridgeInit => BridgePromise!SettledInit
  BY LedgerAssumption
  DEF LedgerAssumption, BridgeInit, RouterInit, SenderInit, LedgerInit, Executed,
      BridgeOutcome, BridgePromise!SettledInit
<1>2. ASSUME BridgeInv, BridgeInv', [BridgeNext]_bridgeVars
      PROVE  [BridgePromise!SettledNext]_(BridgePromise!settledVars)
  <2>1. CASE ChainMoves
    BY <1>2, <2>1, ChainMovesRefine
  <2>2. CASE ~ChainMoves
    <3>1. Executed' = Executed /\ height' = height
      <4>1. CASE WalletMoves \/ UNCHANGED bridgeVars
        BY <4>1 DEF WalletMoves, bridgeVars, routerVars, ledgerVars, Executed
      <4>2. CASE SenderMoves
        BY <4>2 DEF SenderMoves, SendStep, Call, Guard, FirstForwarded, Forward,
           BroadcastReturns, BroadcastThrows, TrackRejected, TrackReturned, ledgerVars,
           Executed
      <4>3. CASE TrackerMoves
        BY <4>3 DEF TrackerMoves, Rebroadcast, NotForwarded, Forward, ledgerVars, Executed
      <4> QED BY <1>2, <2>2, <4>1, <4>2, <4>3, BridgeSplits
    <3>2. CASE BridgeOutcome' = BridgeOutcome
      BY <3>1, <3>2 DEF BridgePromise!settledVars
    <3>3. CASE BridgeOutcome' # BridgeOutcome
      <4>1. /\ BridgeOutcome = "none"
            /\ BridgeOutcome' \in {"confirmed", "failed", "expired", "rejected"}
            /\ \/ BridgeOutcome' = "rejected"
               \/ BridgeOutcome' = "confirmed" /\ Executed' = "ok"
               \/ BridgeOutcome' = outcome'
        BY <1>2, <2>2, <3>3, OutcomeSettles
      <4>2. /\ outcome' = "confirmed" => Executed' = "ok"
            /\ outcome' = "failed" => Executed' = "err"
            /\ outcome' = "expired" => height' >= LastValidBlockHeight
        <5>1. OutcomeHolds'
          BY <1>2, OutcomeIsTrue, PTL
        <5> QED BY <5>1 DEF OutcomeHolds
      <4>3. BridgePromise!Settle(BridgeOutcome')
        BY <3>1, <4>1, <4>2 DEF BridgePromise!Settle
      <4> QED BY <4>1, <4>3 DEF BridgePromise!SettledNext
    <3> QED BY <3>2, <3>3
  <2> QED BY <2>1, <2>2
<1> QED
  BY <1>1, <1>2, BridgeInductive, PTL
  DEF BridgeSpec, BridgeKeepsPromise, BridgePromise!SettledSpec

=============================================================================
