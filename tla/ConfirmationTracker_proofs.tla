--------------------- MODULE ConfirmationTracker_proofs ---------------------
(***************************************************************************)
(* Theorems about ConfirmationTracker, for every set of nodes and clients, *)
(* every deadline, finality depth and bound, with or without forks.        *)
(***************************************************************************)
EXTENDS ConfirmationTracker, TLAPS

-----------------------------------------------------------------------------
(* The inductive invariant.                                                *)

\* Nodes never run ahead of the chain, and the chain executes the
\* transaction only while its blockhash lives, and once.
LedgerInv ==
  /\ \A n \in Nodes : view[n] <= height
  /\ landedAt <= height
  /\ landedAt <= LastValidBlockHeight
  /\ tip # "none" => landedAt = 0 /\ height < LastValidBlockHeight

IsConfirmed == landedAt # 0 /\ ~landedErr /\ height >= landedAt + Depth

IsFailed == tip = "err" \/ (landedAt # 0 /\ landedErr)

\* Somebody holds result r: an answer, the notification, either promise or
\* the caller.
Held(r) ==
  \/ Replied(r)
  \/ r \in {pollRes, notice, wsRes, outcome}

TruthInv ==
  /\ Held("confirmed") => IsConfirmed
  /\ ~Forks /\ Held("failed") => IsFailed

\* What landed is above everything an undecided round has looked at.
Unseen ==
  landedAt # 0 =>
    IF landedErr THEN landedAt > horizon ELSE landedAt + Depth > horizon

Undecided == \A c \in Clients : reply[c] \notin Decisive

RoundInv ==
  /\ horizon <= height
  /\ Undecided => Unseen
  /\ pc = "height" \/ pollRes = "expired" => Undecided

\* The two racers and the signal between them.
RaceInv ==
  /\ pc = "halted" <=> pollRes # "none"
  /\ race = "none" <=> pollRes = "none" /\ wsRes = "none"
  /\ race = "poll" => pollRes # "none"
  /\ race = "ws" => wsRes # "none"
  /\ notice # "none" => aborted
  /\ outcome = "none" /\ aborted => notice # "none"
  /\ wsPc \in {"off", "subscribing", "open"} => notice = "none"
  /\ wsPc = "closing" => notice # "none"
  /\ wsPc = "abstaining" /\ notice # "none" => CloseErrors
  /\ wsRes = "abstain" /\ outcome = "none" => CloseErrors
  /\ wsRes = "abstain" => aborted
  /\ wsRes # "none" <=> wsPc = "settled"
  /\ pc = "idle" => wsPc = "off"

DeadlineInv ==
  /\ pollRes = "expired" => height > LastValidBlockHeight
  /\ notice # "none" => landedAt # 0
  /\ ~CloseErrors /\ outcome = "expired" => pollRes = "expired"
  /\ outcome = "expired" =>
       pollRes = "expired" \/ (notice # "none" /\ wsRes = "abstain")

IInv ==
  /\ TrackerTypeOK
  /\ LedgerInv
  /\ TruthInv
  /\ RoundInv
  /\ RaceInv
  /\ DeadlineInv

-----------------------------------------------------------------------------
(* Types.                                                                  *)

LEMMA InitType == TrackerInit => TrackerTypeOK
<1> SUFFICES ASSUME LedgerInit, TrackInit PROVE TrackerTypeOK
  BY DEF TrackerInit
<1>1. LedgerTypeOK
  <2>1. 0 \in 0..MaxHeight
    BY LedgerAssumption DEF LedgerAssumption
  <2> QED
    BY <2>1 DEF LedgerInit, LedgerTypeOK
<1>2. horizon \in 0..MaxHeight
  BY LedgerAssumption DEF LedgerAssumption, TrackInit
<1>3. reply \in
        [Clients -> Decisive \cup {"unasked", "waiting", "pending", "error"}]
  BY DEF TrackInit
<1> QED
  BY <1>1, <1>2, <1>3 DEF TrackInit, TrackerTypeOK

LEMMA LedgerStepType ==
  LedgerTypeOK /\ LedgerNext => LedgerTypeOK'
<1> SUFFICES ASSUME LedgerTypeOK, LedgerNext PROVE LedgerTypeOK'
  OBVIOUS
<1> USE LedgerAssumption DEF LedgerAssumption, LedgerTypeOK
<1>1. CASE Include
  BY <1>1 DEF Include
<1>2. CASE Confirm
  <2>1. landedErr' \in BOOLEAN
    BY <1>2 DEF Confirm
  <2>2. height' \in 0..MaxHeight /\ landedAt' \in 0..MaxHeight
    BY <1>2 DEF Confirm
  <2> QED
    BY <1>2, <2>1, <2>2 DEF Confirm
<1>3. CASE Rollback \/ Drop
  BY <1>3 DEF Rollback, Drop
<1>4. ASSUME NEW n \in Nodes, CatchUp(n) PROVE LedgerTypeOK'
  BY <1>4 DEF CatchUp
<1> QED BY <1>1, <1>2, <1>3, <1>4 DEF LedgerNext

\* A settled round yields a result of the poll loop, or "pending".
LEMMA VerdictType == RoundVerdict \in {"rejected", "failed", "confirmed", "pending"}
  BY DEF RoundVerdict

LEMMA ClassifyType ==
  ASSUME NEW s PROVE Classify(s) \in Decisive \cup {"pending"}
  BY DEF Classify, Decisive

LEMMA TrackStepType ==
  TrackerTypeOK /\ UNCHANGED ledgerVars /\ (TrackStep \/ Sleep \/ \E S \in SUBSET Clients : Track(S))
    => TrackerTypeOK'
<1> SUFFICES ASSUME TrackerTypeOK, UNCHANGED ledgerVars,
                    TrackStep \/ Sleep \/ \E S \in SUBSET Clients : Track(S)
             PROVE  TrackerTypeOK'
  OBVIOUS
<1> USE LedgerAssumption, TrackerAssumption
    DEF LedgerAssumption, TrackerAssumption, TrackerTypeOK, LedgerTypeOK, ledgerVars, Decisive, PollResults, Outcomes
<1>1. ASSUME NEW S \in SUBSET Clients, Track(S) \/ Poll(S) PROVE TrackerTypeOK'
  BY <1>1 DEF Track, Poll, AskRound
<1>2. ASSUME NEW c \in Clients, NEW n \in Nodes, Answer(c, n)
      PROVE  TrackerTypeOK'
  BY <1>2, ClassifyType DEF Answer
<1>3. ASSUME NEW c \in Clients, AnswerFails(c) PROVE TrackerTypeOK'
  BY <1>3 DEF AnswerFails
<1>4. CASE TopAbstains \/ RoundRejects \/ RoundAbstains \/ RoundDecides \/ RoundPends
  BY <1>4, VerdictType
  DEF TopAbstains, RoundRejects, RoundAbstains, RoundDecides, RoundPends, SettlePoll
<1>5. ASSUME NEW c \in Clients, NEW n \in Nodes, ReadHeight(c, n)
      PROVE  TrackerTypeOK'
  BY <1>5 DEF ReadHeight, SettlePoll
<1>6. CASE ReadHeightFails \/ Sleep
  BY <1>6 DEF ReadHeightFails, Sleep, SettlePoll
<1>7. CASE WsStep \/ StreamEnds
  BY <1>7 DEF WsStep, StreamEnds, Subscribed, SubscribeFails, StreamClosed, CloseFails,
     WsAbstains, WsGoes, SettleWs
<1>8. ASSUME NEW n \in Nodes, Notify(n) PROVE TrackerTypeOK'
  BY <1>8 DEF Notify
<1>9. CASE RaceStep
  BY <1>9 DEF RaceStep, PollWins, WsWins, WsDecides, FallBackToPoll, SettleTrack
<1> QED
  BY <1>1, <1>2, <1>3, <1>4, <1>5, <1>6, <1>7, <1>8, <1>9
  DEF TrackStep, PollLoopStep

-----------------------------------------------------------------------------
(* The chain.                                                              *)

LEMMA LedgerStepInv ==
  LedgerTypeOK /\ LedgerInv /\ LedgerNext => LedgerInv'
<1> SUFFICES ASSUME LedgerTypeOK, LedgerInv, LedgerNext PROVE LedgerInv'
  OBVIOUS
<1> USE LedgerAssumption DEF LedgerAssumption, LedgerTypeOK, LedgerInv
<1>1. CASE Include
  BY <1>1 DEF Include
<1>2. CASE Confirm
  BY <1>2 DEF Confirm
<1>3. CASE Rollback \/ Drop
  BY <1>3 DEF Rollback, Drop
<1>4. ASSUME NEW n \in Nodes, CatchUp(n) PROVE LedgerInv'
  BY <1>4 DEF CatchUp
<1> QED BY <1>1, <1>2, <1>3, <1>4 DEF LedgerNext

\* The chain grows, what landed stays as it is, and what lands does so in the
\* block that is confirmed next.
LEMMA LedgerStepGrows ==
  LedgerTypeOK /\ LedgerInv /\ LedgerNext =>
    /\ height' >= height
    /\ landedAt # 0 => landedAt' = landedAt /\ landedErr' = landedErr
    /\ landedAt = 0 /\ landedAt' # 0 => landedAt' = height + 1
    /\ ~Forks /\ tip = "err" => tip' = "err" \/ (landedAt' # 0 /\ landedErr')
<1> SUFFICES ASSUME LedgerTypeOK, LedgerInv, LedgerNext
             PROVE  /\ height' >= height
                    /\ landedAt # 0 => landedAt' = landedAt /\ landedErr' = landedErr
                    /\ landedAt = 0 /\ landedAt' # 0 => landedAt' = height + 1
                    /\ ~Forks /\ tip = "err" =>
                         tip' = "err" \/ (landedAt' # 0 /\ landedErr')
  OBVIOUS
<1> USE LedgerAssumption DEF LedgerAssumption, LedgerTypeOK, LedgerInv
<1>1. CASE Include
  BY <1>1 DEF Include
<1>2. CASE Confirm
  <2>1. height' = height + 1 /\ (landedAt # 0 => tip = "none")
    BY <1>2 DEF Confirm
  <2>2. tip = "err" => landedErr'
    BY <1>2 DEF Confirm
  <2> QED
    BY <1>2, <2>1, <2>2 DEF Confirm
<1>3. CASE Rollback \/ Drop
  BY <1>3 DEF Rollback, Drop
<1>4. ASSUME NEW n \in Nodes, CatchUp(n)
      PROVE  UNCHANGED <<height, tip, landedAt, landedErr>>
  BY <1>4 DEF CatchUp
<1> QED BY <1>1, <1>2, <1>3, <1>4 DEF LedgerNext

LEMMA DepthType == Depth \in Nat
  BY LedgerAssumption DEF LedgerAssumption, Depth

\* What a node says of the transaction is so; what it does not say, it
\* cannot know yet.
LEMMA NodeTells ==
  ASSUME LedgerTypeOK, LedgerInv, NEW n \in Nodes, NEW s \in NodeStatuses(n)
  PROVE  /\ Classify(s) = "confirmed" => IsConfirmed
         /\ Classify(s) = "failed" => IsFailed
         /\ Classify(s) \notin Decisive /\ landedAt # 0 =>
              IF landedErr THEN landedAt > view[n] ELSE landedAt + Depth > view[n]
<1> USE LedgerAssumption, TrackerAssumption
    DEF LedgerAssumption, TrackerAssumption, LedgerTypeOK, LedgerInv, Decisive
<1>1. CASE landedAt # 0 /\ landedAt <= view[n]
  <2>1. s = LandedStatus(n)
    BY <1>1 DEF NodeStatuses
  <2>2. s.seen /\ s.err = landedErr
        /\ s.rank = IF view[n] >= landedAt + FinalDepth THEN 2 ELSE 1
    BY <2>1 DEF LandedStatus
  <2>3. Classify(s) = "failed" => landedErr
    BY <2>2 DEF Classify
  <2>4. Classify(s) = "confirmed" => ~landedErr /\ s.rank >= TargetRank
    BY <2>2 DEF Classify
  <2>5. Classify(s) \notin Decisive => ~landedErr /\ ~(s.rank >= TargetRank)
    BY <2>2 DEF Classify
  <2>6. s.rank >= TargetRank <=> view[n] >= landedAt + Depth
    BY <1>1, <2>2 DEF Depth
  <2>7. view[n] <= height /\ view[n] \in Nat
    OBVIOUS
  <2> QED
    BY <1>1, <2>3, <2>4, <2>5, <2>6, <2>7, DepthType DEF IsConfirmed, IsFailed
<1>2. CASE ~(landedAt # 0 /\ landedAt <= view[n])
  <2>1. s \in {NoStatus} \cup
              {[seen |-> TRUE, err |-> r = "err", rank |-> 0] : r \in Processed(n)}
    BY <1>2 DEF NodeStatuses
  <2>2. s = NoStatus \/ \E r \in Processed(n) :
                            s = [seen |-> TRUE, err |-> r = "err", rank |-> 0]
    BY <2>1
  <2>3. /\ Classify(s) # "confirmed"
        /\ Classify(s) = "failed" => "err" \in Processed(n)
    <3>1. CASE s = NoStatus
      BY <3>1 DEF NoStatus, Classify
    <3>2. ASSUME NEW r \in Processed(n),
                 s = [seen |-> TRUE, err |-> r = "err", rank |-> 0]
          PROVE  /\ Classify(s) # "confirmed"
                 /\ Classify(s) = "failed" => "err" \in Processed(n)
      <4>1. s.rank = 0 /\ (s.err <=> r = "err")
        BY <3>2
      <4> QED BY <4>1 DEF Classify
    <3> QED BY <2>2, <3>1, <3>2
  <2>4. "err" \in Processed(n) => IsFailed
    BY DEF Processed, IsFailed
  <2> QED
    BY <1>2, <2>3, <2>4, DepthType
<1> QED BY <1>1, <1>2

\* Without forks an execution is for good.
LEMMA ExecutedStays ==
  ASSUME ~Forks, LedgerTypeOK, LedgerInv, LedgerNext, Executed = "ok"
  PROVE  Executed' = "ok"
<1> USE DEF LedgerTypeOK, LedgerInv, Executed
<1>1. CASE Include
  BY <1>1 DEF Include
<1>2. CASE Confirm
  <2>1. CASE tip = "none"
    BY <1>2, <2>1 DEF Confirm
  <2>2. CASE tip # "none"
    <3>1. landedAt = 0 /\ tip = "ok"
      BY <2>2
    <3>2. landedAt' = height + 1 /\ landedErr' = (tip = "err")
      BY <1>2, <2>2 DEF Confirm
    <3>3. height \in Nat
      OBVIOUS
    <3>4. landedAt' # 0
      BY <3>2, <3>3
    <3>5. Executed' = IF tip = "err" THEN "err" ELSE "ok"
      BY <3>2, <3>4
    <3> QED BY <3>1, <3>5
  <2> QED BY <2>1, <2>2
<1>3. CASE Rollback \/ Drop
  BY <1>3 DEF Rollback, Drop
<1>4. ASSUME NEW n \in Nodes, CatchUp(n) PROVE Executed' = "ok"
  BY <1>4 DEF CatchUp
<1> QED BY <1>1, <1>2, <1>3, <1>4 DEF LedgerNext

-----------------------------------------------------------------------------
(* The race.                                                               *)

\* One step of a track call, its beginning and its sleep included.
CallStep ==
  \/ \E S \in SUBSET Clients : Track(S)
  \/ TrackStep
  \/ Sleep

LEMMA CallStepRaceInv ==
  TrackerTypeOK /\ RaceInv /\ CallStep => RaceInv'
<1> SUFFICES ASSUME TrackerTypeOK, RaceInv, CallStep PROVE RaceInv'
  OBVIOUS
<1> USE DEF TrackerTypeOK, RaceInv
<1>1. ASSUME NEW S \in SUBSET Clients, Track(S) \/ Poll(S) PROVE RaceInv'
  BY <1>1 DEF Track, Poll, AskRound
<1>2. ASSUME NEW c \in Clients, NEW n \in Nodes, Answer(c, n) PROVE RaceInv'
  BY <1>2 DEF Answer
<1>3. ASSUME NEW c \in Clients, AnswerFails(c) PROVE RaceInv'
  BY <1>3 DEF AnswerFails
<1>4. CASE TopAbstains \/ RoundRejects \/ RoundAbstains \/ ReadHeightFails
  BY <1>4
  DEF TopAbstains, RoundRejects, RoundAbstains, RoundSettled, ReadHeightFails, SettlePoll
<1>5. CASE RoundDecides
  BY <1>5 DEF RoundDecides, RoundSettled, SettlePoll, Decisive
<1>6. CASE RoundPends \/ Sleep
  BY <1>6 DEF RoundPends, RoundSettled, Sleep
<1>7. ASSUME NEW c \in Clients, NEW n \in Nodes, ReadHeight(c, n) PROVE RaceInv'
  BY <1>7 DEF ReadHeight, SettlePoll
<1>8. CASE WsStep \/ StreamEnds
  <2>1. CASE Subscribed \/ SubscribeFails \/ CloseFails \/ StreamEnds
    BY <2>1 DEF StreamEnds, Subscribed, SubscribeFails, CloseFails, WsGoes
  <2>2. CASE StreamClosed
    BY <2>2 DEF StreamClosed, SettleWs, Decisive
  <2>3. CASE WsAbstains
    BY <2>3 DEF WsAbstains, SettleWs
  <2> QED BY <1>8, <2>1, <2>2, <2>3 DEF WsStep
<1>9. ASSUME NEW n \in Nodes, Notify(n) PROVE RaceInv'
  BY <1>9 DEF Notify
<1>10. CASE RaceStep
  BY <1>10
  DEF RaceStep, PollWins, WsWins, WsDecides, FallBackToPoll, SettleTrack, Decisive,
      PollResults
<1> QED
  BY <1>1, <1>2, <1>3, <1>4, <1>5, <1>6, <1>7, <1>8, <1>9, <1>10
  DEF CallStep, TrackStep, PollLoopStep

-----------------------------------------------------------------------------
(* Rounds.                                                                 *)

LEMMA CallStepRoundInv ==
  TrackerTypeOK /\ LedgerInv /\ RaceInv /\ RoundInv /\ CallStep /\ UNCHANGED ledgerVars
    => RoundInv'
<1> SUFFICES ASSUME TrackerTypeOK, LedgerInv, RaceInv, RoundInv, CallStep,
                    UNCHANGED ledgerVars
             PROVE  RoundInv'
  OBVIOUS
<1> USE LedgerAssumption DEF LedgerAssumption, RoundInv, ledgerVars
<1>a. /\ LedgerTypeOK
      /\ height \in Nat /\ landedAt \in Nat /\ horizon \in Nat
      /\ reply \in
           [Clients -> Decisive \cup {"unasked", "waiting", "pending", "error"}]
  BY DEF TrackerTypeOK, LedgerTypeOK
<1>b. Depth' = Depth /\ Depth \in Nat
  BY DepthType DEF Depth
<1>1. ASSUME NEW S \in SUBSET Clients, Track(S) \/ Poll(S) PROVE RoundInv'
  <2>1. horizon' = 0 /\ pc' = "status" /\ pollRes' = pollRes
    BY <1>1 DEF Track, Poll, AskRound
  <2>2. pollRes = "none"
    BY <1>1 DEF Track, Poll, RaceInv
  <2>3. Unseen'
    BY <1>a, <1>b, <2>1 DEF Unseen
  <2> QED BY <1>a, <2>1, <2>2, <2>3
<1>2. ASSUME NEW c \in Clients, NEW n \in Nodes, Answer(c, n) PROVE RoundInv'
  <2>1. PICK s \in NodeStatuses(n) : reply' = [reply EXCEPT ![c] = Classify(s)]
    BY <1>2 DEF Answer
  <2>2. /\ pc = "status" /\ pc' = "status" /\ pollRes' = pollRes
        /\ reply[c] = "waiting"
        /\ horizon' = IF view[n] > horizon THEN view[n] ELSE horizon
    BY <1>2 DEF Answer
  <2>3. view[n] \in Nat /\ view[n] <= height
    BY <1>a DEF LedgerTypeOK, LedgerInv
  <2>4. pollRes = "none"
    BY <2>2 DEF RaceInv
  <2>5. ASSUME Undecided' PROVE Unseen'
    <3>1. Undecided
      BY <1>a, <2>1, <2>2, <2>5 DEF Undecided, Decisive
    <3>2. Classify(s) \notin Decisive
      BY <1>a, <2>1, <2>5 DEF Undecided
    <3>3. landedAt # 0 =>
            IF landedErr THEN landedAt > view[n] ELSE landedAt + Depth > view[n]
      BY <1>a, <3>2, NodeTells
    <3> QED BY <1>a, <1>b, <2>2, <2>3, <3>1, <3>3 DEF Unseen
  <2> QED BY <1>a, <2>2, <2>3, <2>4, <2>5
<1>3. ASSUME NEW c \in Clients, AnswerFails(c) PROVE RoundInv'
  <2>1. reply[c] = "waiting" /\ reply' = [reply EXCEPT ![c] = "error"]
    BY <1>3 DEF AnswerFails
  <2>2. Undecided' => Undecided
    BY <1>a, <2>1 DEF Undecided, Decisive
  <2> QED BY <1>3, <1>b, <2>2 DEF AnswerFails, RaceInv, Unseen
<1>4. ASSUME UNCHANGED <<reply, horizon>>,
             pc' = "height" => Undecided,
             pollRes' = "expired" => Undecided
      PROVE  RoundInv'
  BY <1>b, <1>4 DEF Undecided, Unseen
<1>5. CASE TopAbstains \/ RoundRejects \/ RoundAbstains \/ ReadHeightFails
  BY <1>4, <1>5
  DEF TopAbstains, RoundRejects, RoundAbstains, ReadHeightFails, SettlePoll
<1>6. CASE RoundDecides
  BY <1>4, <1>6 DEF RoundDecides, SettlePoll, Decisive
<1>7. CASE RoundPends
  <2>1. Undecided
    BY <1>7 DEF RoundPends, RoundVerdict, Replied, Undecided, Decisive
  <2> QED BY <1>4, <1>7, <2>1 DEF RoundPends
<1>8. ASSUME NEW c \in Clients, NEW n \in Nodes, ReadHeight(c, n) PROVE RoundInv'
  BY <1>4, <1>8 DEF ReadHeight, SettlePoll
<1>9. CASE Sleep
  BY <1>4, <1>9 DEF Sleep
<1>10. CASE WsStep \/ StreamEnds \/ \E n \in Nodes : Notify(n)
  <2>1. UNCHANGED <<pc, reply, horizon, pollRes>>
    BY <1>10 DEF WsStep, StreamEnds, Subscribed, SubscribeFails, StreamClosed,
       CloseFails, WsAbstains, WsGoes, SettleWs, Notify
  <2> QED BY <1>4, <2>1
<1>11. CASE RaceStep
  <2>1. UNCHANGED <<pc, reply, horizon, pollRes>>
    BY <1>11 DEF RaceStep, PollWins, WsWins, WsDecides, FallBackToPoll, SettleTrack
  <2> QED BY <1>4, <2>1
<1> QED
  BY <1>1, <1>2, <1>3, <1>5, <1>6, <1>7, <1>8, <1>9, <1>10, <1>11
  DEF CallStep, TrackStep, PollLoopStep

-----------------------------------------------------------------------------
(* Results.                                                                *)

LEMMA LedgerStepTruthInv ==
  LedgerTypeOK /\ LedgerInv /\ TruthInv /\ LedgerNext /\ UNCHANGED trackVars
    => TruthInv'
<1> SUFFICES ASSUME LedgerTypeOK, LedgerInv, TruthInv, LedgerNext, UNCHANGED trackVars
             PROVE  TruthInv'
  OBVIOUS
<1>1. \A r : Held(r)' <=> Held(r)
  BY DEF Held, Replied, trackVars
<1>2. IsConfirmed => IsConfirmed'
  <2>1. Depth' = Depth /\ Depth \in Nat /\ height \in Nat /\ height' \in Nat
        /\ landedAt \in Nat
    BY DepthType, LedgerStepType, LedgerAssumption
    DEF Depth, LedgerTypeOK, LedgerAssumption
  <2> QED BY <2>1, LedgerStepGrows DEF IsConfirmed
<1>3. ~Forks /\ IsFailed => IsFailed'
  BY LedgerStepGrows DEF IsFailed
<1> QED BY <1>1, <1>2, <1>3 DEF TruthInv

\* A step creates a decisive result only from a node that tells the truth.
LEMMA CallStepHeld ==
  ASSUME TrackerTypeOK, LedgerInv, CallStep, NEW r \in Decisive, Held(r)'
  PROVE  \/ Held(r)
         \/ r = "confirmed" /\ IsConfirmed
         \/ r = "failed" /\ IsFailed
<1> USE DEF Held, Decisive
<1>a. /\ LedgerTypeOK
      /\ reply \in
           [Clients -> Decisive \cup {"unasked", "waiting", "pending", "error"}]
  BY DEF TrackerTypeOK
<1>1. ASSUME NEW S \in SUBSET Clients, Track(S) \/ Poll(S) PROVE Held(r)
  BY <1>1 DEF Track, Poll, AskRound, Replied
<1>2. ASSUME NEW c \in Clients, NEW n \in Nodes, Answer(c, n), ~Held(r)
      PROVE  \/ r = "confirmed" /\ IsConfirmed
             \/ r = "failed" /\ IsFailed
  <2>1. PICK s \in NodeStatuses(n) : reply' = [reply EXCEPT ![c] = Classify(s)]
    BY <1>2 DEF Answer
  <2>2. Replied(r)'
    BY <1>2 DEF Answer
  <2>3. Classify(s) = r
    BY <1>a, <1>2, <2>1, <2>2 DEF Replied
  <2> QED BY <1>a, <2>3, NodeTells
<1>3. ASSUME NEW c \in Clients, AnswerFails(c) PROVE Held(r)
  BY <1>a, <1>3 DEF AnswerFails, Replied
<1>4. CASE TopAbstains \/ RoundRejects \/ RoundAbstains \/ ReadHeightFails
           \/ RoundPends \/ Sleep
  BY <1>4
  DEF TopAbstains, RoundRejects, RoundAbstains, ReadHeightFails, RoundPends, Sleep,
      SettlePoll, Replied
<1>5. CASE RoundDecides
  <2>1. RoundVerdict = r => Replied(r)
    BY DEF RoundVerdict
  <2> QED BY <1>5, <2>1 DEF RoundDecides, SettlePoll, Replied
<1>6. ASSUME NEW c \in Clients, NEW n \in Nodes, ReadHeight(c, n) PROVE Held(r)
  BY <1>6 DEF ReadHeight, SettlePoll, Replied
<1>7. CASE WsStep \/ StreamEnds
  BY <1>7 DEF WsStep, StreamEnds, Subscribed, SubscribeFails, StreamClosed, CloseFails,
     WsAbstains, WsGoes, SettleWs, Replied
<1>8. ASSUME NEW n \in Nodes, Notify(n), ~Held(r)
      PROVE  \/ r = "confirmed" /\ IsConfirmed
             \/ r = "failed" /\ IsFailed
  <2>1. r = notice' /\ notice' = IF landedErr THEN "failed" ELSE "confirmed"
    BY <1>8 DEF Notify, Replied
  <2>2. landedAt # 0 /\ (~landedErr => view[n] >= landedAt + Depth)
    BY <1>8, LedgerAssumption, TrackerAssumption
    DEF Notify, LandedStatus, Depth, LedgerAssumption, TrackerAssumption, TrackerTypeOK,
        LedgerTypeOK
  <2>3. view[n] <= height /\ view[n] \in Nat /\ height \in Nat /\ landedAt \in Nat
    BY <1>a, LedgerAssumption DEF LedgerInv, LedgerTypeOK, LedgerAssumption
  <2> QED BY <2>1, <2>2, <2>3, DepthType DEF IsConfirmed, IsFailed
<1>9. CASE RaceStep
  BY <1>9 DEF RaceStep, PollWins, WsWins, WsDecides, FallBackToPoll, SettleTrack, Replied
<1> QED
  BY <1>1, <1>2, <1>3, <1>4, <1>5, <1>6, <1>7, <1>8, <1>9
  DEF CallStep, TrackStep, PollLoopStep

LEMMA CallStepTruthInv ==
  TrackerTypeOK /\ LedgerInv /\ TruthInv /\ CallStep /\ UNCHANGED ledgerVars
    => TruthInv'
<1> SUFFICES ASSUME TrackerTypeOK, LedgerInv, TruthInv, CallStep, UNCHANGED ledgerVars
             PROVE  TruthInv'
  OBVIOUS
<1>1. (IsConfirmed' <=> IsConfirmed) /\ (IsFailed' <=> IsFailed)
  BY DEF IsConfirmed, IsFailed, Depth, ledgerVars
<1>2. Held("confirmed")' => IsConfirmed
  BY CallStepHeld DEF TruthInv, Decisive
<1>3. ~Forks /\ Held("failed")' => IsFailed
  BY CallStepHeld DEF TruthInv, Decisive
<1> QED BY <1>1, <1>2, <1>3 DEF TruthInv

-----------------------------------------------------------------------------
(* The deadline.                                                           *)

LEMMA CallStepDeadlineInv ==
  TrackerTypeOK /\ LedgerInv /\ RaceInv /\ DeadlineInv /\ CallStep /\ UNCHANGED ledgerVars
    => DeadlineInv'
<1> SUFFICES ASSUME TrackerTypeOK, LedgerInv, RaceInv, DeadlineInv, CallStep,
                    UNCHANGED ledgerVars
             PROVE  DeadlineInv'
  OBVIOUS
<1> USE DEF DeadlineInv, ledgerVars
<1>1. ASSUME NEW S \in SUBSET Clients, Track(S) \/ Poll(S) PROVE DeadlineInv'
  BY <1>1 DEF Track, Poll
<1>2. ASSUME NEW c \in Clients, NEW n \in Nodes, Answer(c, n) PROVE DeadlineInv'
  BY <1>2 DEF Answer
<1>3. ASSUME NEW c \in Clients, AnswerFails(c) PROVE DeadlineInv'
  BY <1>3 DEF AnswerFails
<1>4. ASSUME UNCHANGED <<outcome, notice, wsRes>>,
             pollRes = "none" \/ pollRes' = pollRes,
             pollRes' = "expired" => height > LastValidBlockHeight
      PROVE  DeadlineInv'
  BY <1>4
<1>5. CASE TopAbstains \/ RoundRejects \/ RoundAbstains \/ ReadHeightFails
  BY <1>5
  DEF TopAbstains, RoundRejects, RoundAbstains, RoundSettled, ReadHeightFails,
      SettlePoll, RaceInv
<1>6. CASE RoundDecides
  BY <1>6 DEF RoundDecides, RoundSettled, SettlePoll, RaceInv, Decisive
<1>7. CASE RoundPends \/ Sleep
  BY <1>7 DEF RoundPends, Sleep
<1>8. ASSUME NEW c \in Clients, NEW n \in Nodes, ReadHeight(c, n) PROVE DeadlineInv'
  <2>1. view[n] \in Nat /\ view[n] <= height /\ height \in Nat
        /\ LastValidBlockHeight \in Nat
    BY LedgerAssumption DEF TrackerTypeOK, LedgerTypeOK, LedgerInv, LedgerAssumption
  <2> QED BY <1>4, <1>8, <2>1 DEF ReadHeight, SettlePoll, PastDeadline, RaceInv
<1>9. CASE WsStep \/ StreamEnds \/ \E n \in Nodes : Notify(n)
  <2>1. UNCHANGED <<pollRes, outcome>>
    BY <1>9 DEF WsStep, StreamEnds, Subscribed, SubscribeFails, StreamClosed,
       CloseFails, WsAbstains, WsGoes, SettleWs, Notify
  <2>2. notice # "none" /\ wsRes = "abstain" => notice' # "none" /\ wsRes' = "abstain"
    BY <1>9 DEF RaceInv, WsStep, StreamEnds, Subscribed, SubscribeFails, StreamClosed,
       CloseFails, WsAbstains, WsGoes, SettleWs, Notify
  <2>3. notice' # "none" => notice # "none" \/ landedAt # 0
    BY <1>9 DEF WsStep, StreamEnds, Subscribed, SubscribeFails, StreamClosed,
       CloseFails, WsAbstains, WsGoes, SettleWs, Notify
  <2> QED BY <2>1, <2>2, <2>3
<1>10. CASE RaceStep
  <2>1. CASE PollWins
    BY <2>1 DEF PollWins, SettleTrack
  <2>2. CASE WsWins \/ WsDecides
    BY <2>2 DEF WsWins, WsDecides, SettleTrack, TrackerTypeOK, RaceInv, Decisive
  <2>3. CASE FallBackToPoll
    BY <2>3 DEF FallBackToPoll, SettleTrack, RaceInv
  <2> QED BY <1>10, <2>1, <2>2, <2>3 DEF RaceStep
<1> QED
  BY <1>1, <1>2, <1>3, <1>5, <1>6, <1>7, <1>8, <1>9, <1>10
  DEF CallStep, TrackStep, PollLoopStep

-----------------------------------------------------------------------------
(* The invariant.                                                          *)

LEMMA InitIInv == TrackerInit => IInv
<1> SUFFICES ASSUME TrackerInit PROVE IInv
  OBVIOUS
<1> USE LedgerAssumption DEF LedgerAssumption, TrackerInit, LedgerInit, TrackInit
<1>1. TrackerTypeOK
  BY InitType
<1>2. LedgerInv
  BY DEF LedgerInv
<1>3. TruthInv
  BY DEF TruthInv, Held, Replied
<1>4. RoundInv
  BY DEF RoundInv, Unseen, Undecided, Decisive
<1>5. RaceInv /\ DeadlineInv
  BY DEF RaceInv, DeadlineInv
<1> QED BY <1>1, <1>2, <1>3, <1>4, <1>5 DEF IInv

LEMMA NextSplits ==
  [TrackerNext]_trackerVars =>
    \/ LedgerNext /\ UNCHANGED trackVars
    \/ CallStep /\ UNCHANGED ledgerVars
    \/ UNCHANGED ledgerVars /\ UNCHANGED trackVars
  BY DEF TrackerNext, CallStep, trackerVars

LEMMA NextIInv == IInv /\ [TrackerNext]_trackerVars => IInv'
<1> SUFFICES ASSUME IInv, [TrackerNext]_trackerVars PROVE IInv'
  OBVIOUS
<1> USE DEF IInv
<1>1. CASE LedgerNext /\ UNCHANGED trackVars
  <2>1. LedgerTypeOK /\ LedgerTypeOK' /\ LedgerInv'
    BY <1>1, LedgerStepType, LedgerStepInv DEF TrackerTypeOK
  <2>2. TrackerTypeOK'
    BY <1>1, <2>1 DEF TrackerTypeOK, trackVars
  <2>3. TruthInv'
    BY <1>1, <2>1, LedgerStepTruthInv
  <2>4. /\ height' >= height
        /\ landedAt # 0 => landedAt' = landedAt /\ landedErr' = landedErr
        /\ landedAt = 0 /\ landedAt' # 0 => landedAt' = height + 1
    BY <1>1, <2>1, LedgerStepGrows
  <2>5. /\ height \in Nat /\ height' \in Nat /\ horizon \in Nat /\ landedAt \in Nat
        /\ LastValidBlockHeight \in Nat
        /\ Depth' = Depth /\ Depth \in Nat
    BY <2>1, DepthType, LedgerAssumption
    DEF TrackerTypeOK, LedgerTypeOK, LedgerAssumption, Depth
  <2>6. RoundInv'
    BY <1>1, <2>4, <2>5 DEF RoundInv, Undecided, Unseen, trackVars
  <2>7. RaceInv'
    BY <1>1 DEF RaceInv, trackVars
  <2>8. DeadlineInv'
    BY <1>1, <2>4, <2>5 DEF DeadlineInv, trackVars
  <2> QED BY <2>1, <2>2, <2>3, <2>6, <2>7, <2>8
<1>2. CASE CallStep /\ UNCHANGED ledgerVars
  <2>1. TrackerTypeOK'
    BY <1>2, TrackStepType DEF CallStep
  <2>2. LedgerInv'
    BY <1>2 DEF LedgerInv, ledgerVars
  <2> QED
    BY <1>2, <2>1, <2>2, CallStepTruthInv, CallStepRoundInv, CallStepRaceInv,
       CallStepDeadlineInv
<1>3. CASE UNCHANGED ledgerVars /\ UNCHANGED trackVars
  BY <1>3
  DEF ledgerVars, trackVars, TrackerTypeOK, LedgerTypeOK, LedgerInv, TruthInv,
      IsConfirmed, IsFailed, Held, Replied, RoundInv, Undecided, Unseen, Depth,
      RaceInv, DeadlineInv
<1> QED BY <1>1, <1>2, <1>3, NextSplits

\* IInv holds throughout a track call, whatever the chain and the nodes do
\* (confirmation.ts:127-313).
THEOREM InductiveInvariant == TrackerSpec => []IInv
  BY InitIInv, NextIInv, PTL DEF TrackerSpec

-----------------------------------------------------------------------------
(* Theorems.                                                               *)

\* The state of a track call and of the chain stays of its type
\* (confirmation.ts, lines 57-103).
THEOREM TypeCorrect == TrackerSpec => []TrackerTypeOK
  BY InductiveInvariant, PTL DEF IInv

\* A "confirmed" is true, and final if "finalized" was asked for, even if
\* processed blocks are abandoned and streams fail to close (lines 127-159).
THEOREM ConfirmedTruth == TrackerSpec => []ConfirmedIsTrue
<1>1. IInv => ConfirmedIsTrue
  BY DEF IInv, TruthInv, Held, IsConfirmed, ConfirmedIsTrue
<1> QED BY <1>1, InductiveInvariant, PTL

\* If no processed block is ever abandoned, a "failed" is true (line 300).
THEOREM FailedTruth ==
  ASSUME ~Forks PROVE TrackerSpec => []FailedIsTrue
<1>1. IInv => FailedIsTrue
  BY DEF IInv, TruthInv, Held, IsFailed, FailedIsTrue
<1> QED BY <1>1, InductiveInvariant, PTL

\* Only the poll loop expires a transaction, unless a notified stream failed to
\* close (lines 12-13, 148-151).
THEOREM ExpiryFromPollLoop == TrackerSpec => []ExpiryOnlyFromPollLoop
<1>1. IInv => ExpiryOnlyFromPollLoop
  BY DEF IInv, DeadlineInv, ExpiryOnlyFromPollLoop
<1> QED BY <1>1, InductiveInvariant, PTL

\* What an expired transaction did on the chain, no node that answered the
\* last round could have known (lines 176-199).  A notified stream that fails to
\* close is excluded: track then says "expired" of what it was told has landed
\* (lines 148-151, 230-237).
THEOREM ExpiredMissesOnlyUnseen ==
  ASSUME ~CloseErrors PROVE TrackerSpec => []ExpiredMissesOnlyUnseenBlocks
<1>1. IInv => ExpiredMissesOnlyUnseenBlocks
  BY DEF IInv, DeadlineInv, RoundInv, Unseen, ExpiredMissesOnlyUnseenBlocks
<1> QED BY <1>1, InductiveInvariant, PTL

\* An expired transaction is at rest, also if a notified stream failed to close:
\* either the deadline was compared with the height of a node, and no node runs
\* ahead of the chain, or the transaction has landed (lines 148-151, 192-199).
THEOREM ExpiryIsFinal == TrackerSpec => ExpiredIsFinal
<1>1. ASSUME IInv, [TrackerNext]_trackerVars, outcome = "expired"
      PROVE  UNCHANGED <<tip, landedAt, landedErr>>
  <2>1. (height > LastValidBlockHeight) \/ landedAt # 0
    BY <1>1 DEF IInv, DeadlineInv
  <2>2. /\ height \in Nat /\ LastValidBlockHeight \in Nat
        /\ tip = "none"
    BY <1>1, <2>1, LedgerAssumption
    DEF IInv, LedgerInv, TrackerTypeOK, LedgerTypeOK, LedgerAssumption
  <2>3. ASSUME LedgerNext PROVE UNCHANGED <<tip, landedAt, landedErr>>
    BY <2>1, <2>2, <2>3 DEF LedgerNext, Include, Confirm, Rollback, Drop, CatchUp
  <2> QED BY <1>1, <2>3, NextSplits DEF ledgerVars
<1> QED BY <1>1, InductiveInvariant, PTL DEF ExpiredIsFinal, TrackerSpec

\* No status poll follows a notification (lines 161-163, 174).
THEOREM NotificationEndsPolling == TrackerSpec => NoStatusPollAfterNotification
<1>1. ASSUME IInv, [TrackerNext]_trackerVars, notice # "none", pc # "status"
      PROVE  pc' # "status"
  <2>1. aborted
    BY <1>1 DEF IInv, RaceInv
  <2>2. pc # "idle"
    BY <1>1 DEF IInv, RaceInv
  <2>3. ASSUME CallStep PROVE pc' # "status"
    <3>1. CASE PollLoopStep
      BY <1>1, <2>1, <3>1
      DEF PollLoopStep, Poll, TopAbstains, Answer, AnswerFails, RoundRejects,
          RoundAbstains, RoundDecides, RoundPends, RoundSettled, ReadHeight,
          ReadHeightFails, SettlePoll
    <3>2. CASE WsStep \/ StreamEnds \/ \E n \in Nodes : Notify(n)
      BY <1>1, <3>2 DEF WsStep, StreamEnds, Subscribed, SubscribeFails, StreamClosed,
         CloseFails, WsAbstains, WsGoes, SettleWs, Notify
    <3>3. CASE RaceStep
      BY <1>1, <3>3 DEF RaceStep, PollWins, WsWins, WsDecides, FallBackToPoll, SettleTrack
    <3>4. CASE Sleep \/ \E S \in SUBSET Clients : Track(S)
      BY <2>2, <3>4 DEF Sleep, Track
    <3> QED BY <2>3, <3>1, <3>2, <3>3, <3>4 DEF CallStep, TrackStep
  <2> QED BY <1>1, <2>3, NextSplits DEF trackVars
<1> QED BY <1>1, InductiveInvariant, PTL DEF NoStatusPollAfterNotification, TrackerSpec

\* A poll loop that was notified settles with ABSTAIN or an error, never with
\* a verdict of its own (lines 181, 196).
THEOREM NotifiedPollLoop == TrackerSpec => NotifiedPollLoopConcludesNothing
<1>1. ASSUME IInv, [TrackerNext]_trackerVars, notice # "none", pollRes = "none"
      PROVE  pollRes' \in {"none", "abstain", "rejected"}
  <2>1. aborted
    BY <1>1 DEF IInv, RaceInv
  <2>2. ASSUME CallStep PROVE pollRes' \in {"none", "abstain", "rejected"}
    <3>1. CASE PollLoopStep
      BY <1>1, <2>1, <3>1
      DEF PollLoopStep, Poll, TopAbstains, Answer, AnswerFails, RoundRejects,
          RoundAbstains, RoundDecides, RoundPends, RoundSettled, ReadHeight,
          ReadHeightFails, SettlePoll
    <3>2. CASE WsStep \/ StreamEnds \/ \E n \in Nodes : Notify(n)
      BY <1>1, <3>2 DEF WsStep, StreamEnds, Subscribed, SubscribeFails, StreamClosed,
         CloseFails, WsAbstains, WsGoes, SettleWs, Notify
    <3>3. CASE RaceStep
      BY <1>1, <3>3 DEF RaceStep, PollWins, WsWins, WsDecides, FallBackToPoll, SettleTrack
    <3>4. CASE Sleep \/ \E S \in SUBSET Clients : Track(S)
      BY <1>1, <3>4 DEF Sleep, Track
    <3> QED BY <2>2, <3>1, <3>2, <3>3, <3>4 DEF CallStep, TrackStep
  <2> QED BY <1>1, <2>2, NextSplits DEF trackVars
<1> QED BY <1>1, InductiveInvariant, PTL DEF NotifiedPollLoopConcludesNothing, TrackerSpec

-----------------------------------------------------------------------------
(* Refinement.                                                             *)

LEMMA LedgerStepRefines ==
  ASSUME ~Forks, IInv, LedgerNext, UNCHANGED trackVars
  PROVE  [Promise!SettledNext]_(Promise!settledVars)
<1> USE LedgerAssumption
    DEF LedgerAssumption, IInv, TrackerTypeOK, LedgerTypeOK, LedgerInv, trackVars,
        Executed, Promise!SettledNext, Promise!settledVars
<1>1. CASE Include
  BY <1>1 DEF Include, Promise!Execute
<1>2. CASE Confirm
  <2>1. Executed' = Executed
    <3>1. CASE tip = "none"
      BY <1>2, <3>1 DEF Confirm
    <3>2. CASE tip # "none"
      <4>1. landedAt = 0 /\ landedAt' = height + 1 /\ landedErr' = (tip = "err")
        BY <1>2, <3>2 DEF Confirm
      <4>2. landedAt' # 0
        BY <4>1
      <4>3. Executed = tip
        BY <3>2, <4>1
      <4>4. Executed' = IF tip = "err" THEN "err" ELSE "ok"
        BY <4>1, <4>2
      <4>5. tip \in {"ok", "err"}
        BY <3>2
      <4> QED BY <4>3, <4>4, <4>5
    <3> QED BY <3>1, <3>2
  <2>2. \/ (height' >= LastValidBlockHeight) = (height >= LastValidBlockHeight)
        \/ ~(height >= LastValidBlockHeight) /\ (height' >= LastValidBlockHeight)
    BY <1>2 DEF Confirm
  <2> QED BY <1>2, <2>1, <2>2 DEF Confirm, Promise!Die
<1>3. CASE Rollback
  BY <1>3 DEF Rollback
<1>4. CASE Drop
  BY <1>4 DEF Drop
<1>5. ASSUME NEW n \in Nodes, CatchUp(n)
      PROVE  UNCHANGED Promise!settledVars
  BY <1>5 DEF CatchUp
<1> QED BY <1>1, <1>2, <1>3, <1>4, <1>5 DEF LedgerNext

LEMMA CallStepRefines ==
  ASSUME ~Forks, ~CloseErrors, IInv, IInv', CallStep, UNCHANGED ledgerVars
  PROVE  [Promise!SettledNext]_(Promise!settledVars)
<1>1. Executed' = Executed /\ height' = height
  BY DEF Executed, ledgerVars
<1>2. CASE outcome' = outcome
  BY <1>1, <1>2 DEF Promise!settledVars
<1>3. CASE outcome' # outcome
  <2>1. outcome = "none" /\ outcome' \in {"confirmed", "failed", "expired", "rejected"}
    <3>1. RaceStep
      BY <1>3 DEF CallStep, TrackStep, PollLoopStep, Track, Poll, TopAbstains, Answer,
         AnswerFails, RoundRejects, RoundAbstains, RoundDecides, RoundPends, ReadHeight,
         ReadHeightFails, Sleep, SettlePoll, WsStep, StreamEnds, Subscribed,
         SubscribeFails, StreamClosed, CloseFails, WsAbstains, WsGoes, SettleWs, Notify
    <3>2. outcome = "none"
      BY <3>1 DEF RaceStep, PollWins, WsWins, WsDecides, FallBackToPoll, SettleTrack
    <3> QED BY <1>3, <3>2 DEF IInv, TrackerTypeOK, Outcomes
  <2>2. outcome' = "confirmed" => Executed = "ok"
    <3>1. outcome' = "confirmed" => landedAt' # 0 /\ ~landedErr'
      BY DEF IInv, TruthInv, Held, IsConfirmed
    <3> QED BY <3>1 DEF Executed, ledgerVars
  <2>3. outcome' = "failed" => Executed = "err"
    <3>1. outcome' = "failed" => tip' = "err" \/ (landedAt' # 0 /\ landedErr')
      BY DEF IInv, TruthInv, Held, IsFailed
    <3> QED BY <3>1 DEF Executed, ledgerVars, IInv, LedgerInv
  <2>4. outcome' = "expired" => height >= LastValidBlockHeight
    <3>1. outcome' = "expired" => height' > LastValidBlockHeight
      BY DEF IInv, DeadlineInv
    <3> QED BY <1>1, <3>1, LedgerAssumption
        DEF IInv, TrackerTypeOK, LedgerTypeOK, LedgerAssumption
  <2>5. Promise!Settle(outcome')
    BY <1>1, <2>1, <2>2, <2>3, <2>4 DEF Promise!Settle
  <2> QED BY <2>1, <2>5 DEF Promise!SettledNext
<1> QED BY <1>2, <1>3

\* The tracker implements SettledOutcome: each step of it, or of the chain, is
\* one the promise allows or leaves the promise's state alone (lines 19-20,
\* 118-159).
THEOREM TrackerKeepsPromise ==
  ASSUME ~Forks, ~CloseErrors PROVE TrackerSpec => KeepsPromise
<1>1. TrackerInit => Promise!SettledInit
  BY LedgerAssumption
  DEF LedgerAssumption, TrackerInit, LedgerInit, TrackInit, Executed, Promise!SettledInit
<1>2. ASSUME IInv, IInv', [TrackerNext]_trackerVars
      PROVE  [Promise!SettledNext]_(Promise!settledVars)
  <2>1. CASE UNCHANGED ledgerVars /\ UNCHANGED trackVars
    BY <2>1 DEF ledgerVars, trackVars, Executed, Promise!settledVars
  <2> QED BY <1>2, <2>1, NextSplits, LedgerStepRefines, CallStepRefines
<1> QED
  BY <1>1, <1>2, InductiveInvariant, PTL DEF TrackerSpec, KeepsPromise, Promise!SettledSpec

=============================================================================
