------------------------- MODULE ConfirmationTracker ------------------------
(***************************************************************************)
(* One call of ConfirmationTracker.track: the poll loop, the optional      *)
(* WebSocket path that races it, and the combination of the two            *)
(* (src/src/tx/confirmation.ts).                                           *)
(*                                                                         *)
(* A call to an RPC client is two steps where an interleaving can tell:    *)
(* the request leaves (Track, Poll), and a node behind the client answers  *)
(* it (Answer).  getBlockHeight is one step, at the time the node answers: *)
(* between the answer and the continuation only `aborted' matters to the   *)
(* loop, and the continuation tests it.                                    *)
(***************************************************************************)
EXTENDS Ledger

CONSTANTS
  Clients,        \* the RPC clients track may poll
  Backends,       \* Backends[c]: the nodes that may serve a call of client c
  K,              \* endpoints to query per round (multiEndpoint.k)
  TargetRank,     \* 1 for commitment "confirmed", 2 for "finalized"
  Subscriptions,  \* a subscriptions transport was injected
  CloseErrors     \* the notification stream's return() may reject

ASSUME TrackerAssumption ==
  /\ Clients # {}
  /\ IsFiniteSet(Clients)
  /\ Backends \in [Clients -> (SUBSET Nodes) \ {{}}]
  /\ K \in Nat \ {0}
  /\ TargetRank \in {1, 2}
  /\ Subscriptions \in BOOLEAN
  /\ CloseErrors \in BOOLEAN

VARIABLES
  pc,        \* where the poll loop stands
  reply,     \* reply[c]: the classified answer of client c in this round
  horizon,   \* history: the highest view that answered in this round
  pollRes,   \* what pollPromise settled with
  wsPc,      \* where wsWait stands
  notice,    \* the result the notification carried
  wsRes,     \* what wsPromise settled with
  aborted,   \* ac.signal.aborted
  race,      \* which promise settled first: Promise.race's winner
  outcome    \* how track settled

trackVars ==
  <<pc, reply, horizon, pollRes, wsPc, notice, wsRes, aborted, race, outcome>>
trackerVars == <<ledgerVars, trackVars>>

Decisive == {"confirmed", "failed"}
PollResults == {"confirmed", "failed", "expired", "rejected", "abstain"}
Outcomes == {"confirmed", "failed", "expired", "rejected"}

TrackerTypeOK ==
  /\ LedgerTypeOK
  /\ pc \in {"idle", "top", "status", "height", "sleep", "halted"}
  /\ reply \in
       [Clients -> Decisive \cup {"unasked", "waiting", "pending", "error"}]
  /\ horizon \in 0..MaxHeight
  /\ pollRes \in PollResults \cup {"none"}
  /\ wsPc \in {"off", "subscribing", "open", "closing", "abstaining", "settled"}
  /\ notice \in Decisive \cup {"none"}
  /\ wsRes \in Decisive \cup {"none", "abstain"}
  /\ aborted \in BOOLEAN
  /\ race \in {"none", "poll", "ws"}
  /\ outcome \in Outcomes \cup {"none"}

TrackInit ==
  /\ pc = "idle"
  /\ reply = [c \in Clients |-> "unasked"]
  /\ horizon = 0
  /\ pollRes = "none"
  /\ wsPc = "off"
  /\ notice = "none"
  /\ wsRes = "none"
  /\ aborted = FALSE
  /\ race = "none"
  /\ outcome = "none"

TrackerInit == LedgerInit /\ TrackInit

-----------------------------------------------------------------------------
(* What the code computes.                                                 *)

\* Fault: the commitment is looked at before the error.
ClassifyRankFirst(s) ==
  IF ~s.seen THEN "pending"
  ELSE IF s.rank >= TargetRank THEN "confirmed"
  ELSE IF s.err THEN "failed"
  ELSE "pending"

\* classifyStatus: an error wins whatever the commitment.
Classify(s) ==
  IF ~s.seen THEN "pending"
  ELSE IF s.err THEN "failed"
  ELSE IF s.rank >= TargetRank THEN "confirmed"
  ELSE "pending"

Asked == {c \in Clients : reply[c] # "unasked"}

Replied(r) == \E c \in Clients : reply[c] = r

\* Fault: a rejected call counts as a failed transaction.
VerdictErrorIsFailure ==
  IF Replied("failed") \/ Replied("error") THEN "failed"
  ELSE IF Replied("confirmed") THEN "confirmed"
  ELSE "pending"

\* Fault: every client must confirm, not any.
VerdictUnanimous ==
  IF Cardinality(Asked) = 1 /\ Replied("error") THEN "rejected"
  ELSE IF Replied("failed") THEN "failed"
  ELSE IF Replied("confirmed") /\ ~Replied("pending") THEN "confirmed"
  ELSE "pending"

\* checkStatus once every call of the round has settled.  One client: its
\* rejection is the round's.  Several: allSettled tolerates rejections, even
\* of all of them.
RoundVerdict ==
  IF Cardinality(Asked) = 1 /\ Replied("error") THEN "rejected"
  ELSE IF Replied("failed") THEN "failed"
  ELSE IF Replied("confirmed") THEN "confirmed"
  ELSE "pending"

\* Fault: the next block is compared, and the deadline block itself excluded.
PastDeadlineEarly(h) == h + 1 >= LastValidBlockHeight

\* Fault: the block after the deadline is waited for, and can be missed.
PastDeadlineExactly(h) == h = LastValidBlockHeight + 1

PastDeadline(h) == h > LastValidBlockHeight

-----------------------------------------------------------------------------
(* The poll loop.                                                          *)

SettlePoll(r) ==
  /\ pc' = "halted"
  /\ pollRes' = r
  /\ race' = IF race = "none" THEN "poll" ELSE race
  /\ UNCHANGED <<reply, horizon, wsPc, notice, wsRes, aborted, outcome>>

\* statusClients() are some of the clients, at most K; each is asked.
AskRound(S) ==
  /\ S # {}
  /\ Cardinality(S) <= K
  /\ pc' = "status"
  /\ reply' = [c \in Clients |-> IF c \in S THEN "waiting" ELSE "unasked"]
  /\ horizon' = 0

\* track() is called: the poll loop runs up to its first await, then wsWait.
Track(S) ==
  /\ pc = "idle"
  /\ AskRound(S)
  /\ wsPc' = IF Subscriptions THEN "subscribing" ELSE "off"
  /\ UNCHANGED <<pollRes, notice, wsRes, aborted, race, outcome>>

\* Fault: the signal is not tested at the top of the loop (line 174).
PollIgnoringAbort(S) ==
  /\ pc = "top"
  /\ AskRound(S)
  /\ UNCHANGED <<pollRes, wsPc, notice, wsRes, aborted, race, outcome>>

Poll(S) ==
  /\ pc = "top"
  /\ ~aborted
  /\ AskRound(S)
  /\ UNCHANGED <<pollRes, wsPc, notice, wsRes, aborted, race, outcome>>

TopAbstains ==
  /\ pc = "top"
  /\ aborted
  /\ SettlePoll("abstain")

Answer(c, n) ==
  /\ pc = "status"
  /\ reply[c] = "waiting"
  /\ n \in Backends[c]
  /\ \E s \in NodeStatuses(n) : reply' = [reply EXCEPT ![c] = Classify(s)]
  /\ horizon' = IF view[n] > horizon THEN view[n] ELSE horizon
  /\ UNCHANGED <<pc, pollRes, wsPc, notice, wsRes, aborted, race, outcome>>

AnswerFails(c) ==
  /\ pc = "status"
  /\ reply[c] = "waiting"
  /\ reply' = [reply EXCEPT ![c] = "error"]
  /\ UNCHANGED
       <<pc, horizon, pollRes, wsPc, notice, wsRes, aborted, race, outcome>>

RoundSettled == pc = "status" /\ ~Replied("waiting")

\* The rejection propagates out of the loop before `aborted' is tested.
RoundRejects ==
  /\ RoundSettled
  /\ RoundVerdict = "rejected"
  /\ SettlePoll("rejected")

RoundAbstains ==
  /\ RoundSettled
  /\ RoundVerdict # "rejected"
  /\ aborted
  /\ SettlePoll("abstain")

\* Fault: a settled round always ends the loop.
RoundAlwaysDecides ==
  /\ RoundSettled
  /\ RoundVerdict # "rejected"
  /\ ~aborted
  /\ SettlePoll(RoundVerdict)

\* Fault: the signal is not tested after the status query (line 181).
RoundDecidesIgnoringAbort ==
  /\ RoundSettled
  /\ RoundVerdict \in Decisive
  /\ SettlePoll(RoundVerdict)

RoundDecides ==
  /\ RoundSettled
  /\ RoundVerdict \in Decisive
  /\ ~aborted
  /\ SettlePoll(RoundVerdict)

RoundPends ==
  /\ RoundSettled
  /\ RoundVerdict = "pending"
  /\ ~aborted
  /\ pc' = "height"
  /\ UNCHANGED
       <<reply, horizon, pollRes, wsPc, notice, wsRes, aborted, race, outcome>>

\* statusClients() is computed anew, so any client may be its first.
ReadHeight(c, n) ==
  /\ pc = "height"
  /\ n \in Backends[c]
  /\ \/ aborted /\ SettlePoll("abstain")
     \/ ~aborted /\ PastDeadline(view[n]) /\ SettlePoll("expired")
     \/ /\ ~aborted
        /\ ~PastDeadline(view[n])
        /\ pc' = "sleep"
        /\ UNCHANGED <<reply, horizon, pollRes, wsPc, notice, wsRes, aborted,
                       race, outcome>>

ReadHeightFails ==
  /\ pc = "height"
  /\ SettlePoll("rejected")

Sleep ==
  /\ pc = "sleep"
  /\ pc' = "top"
  /\ UNCHANGED
       <<reply, horizon, pollRes, wsPc, notice, wsRes, aborted, race, outcome>>

-----------------------------------------------------------------------------
(* The WebSocket path.                                                     *)

WsGoes(from, to) ==
  /\ wsPc = from
  /\ wsPc' = to
  /\ UNCHANGED
       <<pc, reply, horizon, pollRes, notice, wsRes, aborted, race, outcome>>

Subscribed == WsGoes("subscribing", "open")

SubscribeFails == WsGoes("subscribing", "abstaining")

\* The stream ends, or throws, without a notification.
StreamEnds == WsGoes("open", "abstaining")

\* Node n pushes the result once the transaction has the target commitment.
\* The loop body aborts the poll loop, then its `return' awaits the stream's
\* return() before wsPromise can settle.
Notify(n) ==
  /\ wsPc = "open"
  /\ landedAt # 0
  /\ landedAt <= view[n]
  /\ LandedStatus(n).rank >= TargetRank
  /\ aborted' = TRUE
  /\ notice' = IF landedErr THEN "failed" ELSE "confirmed"
  /\ wsPc' = "closing"
  /\ UNCHANGED <<pc, reply, horizon, pollRes, wsRes, race, outcome>>

SettleWs(from, r) ==
  /\ wsPc = from
  /\ wsPc' = "settled"
  /\ wsRes' = r
  /\ race' = IF race = "none" THEN "ws" ELSE race
  /\ UNCHANGED <<pc, reply, horizon, pollRes, notice, aborted, outcome>>

StreamClosed == SettleWs("closing", notice)

\* return() rejects: the catch clause swallows it and the result is lost.
CloseFails == CloseErrors /\ WsGoes("closing", "abstaining")

\* waitForAbort resolves.
WsAbstains == aborted /\ SettleWs("abstaining", "abstain")

-----------------------------------------------------------------------------
(* track: the combination of the two promises.                             *)

\* `finally' aborts whatever still runs; pure polling has no such clause.
SettleTrack(o) ==
  /\ outcome = "none"
  /\ outcome' = o
  /\ aborted' = (aborted \/ Subscriptions)
  /\ UNCHANGED <<pc, reply, horizon, pollRes, wsPc, notice, wsRes, race>>

PollWins ==
  /\ race = "poll"
  /\ pollRes # "abstain"
  /\ SettleTrack(pollRes)

WsWins ==
  /\ race = "ws"
  /\ wsRes # "abstain"
  /\ SettleTrack(wsRes)

\* The poll loop's ABSTAIN won the race: the result is on wsPromise.
WsDecides ==
  /\ race = "poll"
  /\ pollRes = "abstain"
  /\ wsRes \in Decisive
  /\ SettleTrack(wsRes)

\* Fault: track gives up on the poll loop's ABSTAIN without awaiting wsPromise.
FallBackWithoutAwaiting ==
  /\ race = "poll"
  /\ pollRes = "abstain"
  /\ SettleTrack("expired")

\* Both were awaited and wsPromise abstained.
FallBackToPoll ==
  /\ race = "ws" \/ pollRes = "abstain"
  /\ wsRes = "abstain"
  /\ pollRes # "none"
  /\ SettleTrack(IF pollRes = "abstain" THEN "expired" ELSE pollRes)

-----------------------------------------------------------------------------

PollLoopStep ==
  \/ \E S \in SUBSET Clients : Poll(S)
  \/ TopAbstains
  \/ \E c \in Clients, n \in Nodes : Answer(c, n)
  \/ \E c \in Clients : AnswerFails(c)
  \/ RoundRejects
  \/ RoundAbstains
  \/ RoundDecides
  \/ RoundPends
  \/ \E c \in Clients, n \in Nodes : ReadHeight(c, n)
  \/ ReadHeightFails

WsStep ==
  \/ Subscribed
  \/ SubscribeFails
  \/ StreamClosed
  \/ CloseFails
  \/ WsAbstains

RaceStep ==
  \/ PollWins
  \/ WsWins
  \/ WsDecides
  \/ FallBackToPoll

\* Everything track() does after it was called, except to sleep.
TrackStep ==
  \/ PollLoopStep
  \/ WsStep
  \/ StreamEnds
  \/ \E n \in Nodes : Notify(n)
  \/ RaceStep

TrackerNext ==
  \/ LedgerNext /\ UNCHANGED trackVars
  \/ /\ \/ \E S \in SUBSET Clients : Track(S)
        \/ TrackStep
        \/ Sleep
     /\ UNCHANGED ledgerVars

TrackerSpec == TrackerInit /\ [][TrackerNext]_trackerVars

\* Every call is answered or fails, every timer fires and every ready
\* continuation runs.  An open stream owes nothing.
TrackFairness ==
  /\ WF_trackVars(PollLoopStep)
  /\ WF_trackVars(Sleep)
  /\ WF_trackVars(WsStep)
  /\ WF_trackVars(RaceStep)

FairTrackerSpec ==
  /\ TrackerSpec
  /\ WF_trackVars(\E S \in SUBSET Clients : Track(S))
  /\ LedgerFairness
  /\ TrackFairness

-----------------------------------------------------------------------------
(* Properties.                                                             *)

\* The confirmed blocks the target commitment needs on top.
Depth == IF TargetRank = 2 THEN FinalDepth ELSE 0

\* "confirmed" is only reported of a transaction whose execution succeeded
\* in a block that already has the target commitment, whichever of the two
\* racers said so and however old its answer is (track, lines 127-159).
ConfirmedIsTrue ==
  outcome = "confirmed" =>
    /\ landedAt # 0
    /\ ~landedErr
    /\ height >= landedAt + Depth

\* "failed" is only reported of a transaction whose execution failed, be it
\* in a block that is only processed (classifyStatus, line 300).
FailedIsTrue ==
  outcome = "failed" => tip = "err" \/ (landedAt # 0 /\ landedErr)

\* An expired transaction that did land was not at the target commitment (or
\* had not failed) in any block known to a node that answered the last round
\* of status queries: the status is read before the height (lines 176-199).
\* It says nothing of a round whose calls all failed (line 283: no node answered),
\* and does not hold if the stream of a notification may fail to close.
ExpiredMissesOnlyUnseenBlocks ==
  outcome = "expired" /\ landedAt # 0 =>
    IF landedErr THEN landedAt > horizon ELSE landedAt + Depth > horizon

\* The poll loop, on the block height, concludes "expired".  The fallbacks of
\* track to expired() are what the caller gets in one case only: a notified
\* stream failed to close (lines 12-13, 148-151, 230-237).
ExpiryOnlyFromPollLoop ==
  outcome = "expired" =>
    pollRes = "expired" \/ (notice # "none" /\ wsRes = "abstain")

\* Once "expired" was reported, what the chain did with the transaction never
\* changes again, even if every call of the last status round failed: signing a
\* new one is then as safe as that round (lines 192-199).
ExpiredIsFinal ==
  [][outcome = "expired" => UNCHANGED <<tip, landedAt, landedErr>>]_trackerVars

\* After the notification the poll loop asks for no further status
\* (lines 161-163, 174).
NoStatusPollAfterNotification ==
  [][notice # "none" /\ pc # "status" => pc' # "status"]_trackerVars

\* After the notification a running poll loop only abstains or rejects: an
\* answer still in flight cannot become a second verdict (lines 181, 196).
NotifiedPollLoopConcludesNothing ==
  [][notice # "none" /\ pollRes = "none" =>
       pollRes' \in {"none", "abstain", "rejected"}]_trackerVars

\* track always settles: neither racer can wait for the other for ever, and
\* the loop ends at the latest when block height passes the deadline
\* (lines 120-126, 141-151, 234-237).
TrackSettles == <>(outcome # "none")

-----------------------------------------------------------------------------
(* The tracker keeps the promise of SettledOutcome.                        *)

Executed ==
  IF landedAt # 0 THEN (IF landedErr THEN "err" ELSE "ok")
  ELSE IF tip = "none" THEN "no" ELSE tip

Promise == INSTANCE SettledOutcome WITH
  executed <- Executed,
  dead <- (height >= LastValidBlockHeight)

\* Without forks, and when closing a stream does not fail, every step of the
\* tracker and of the chain is a step SettledOutcome allows.
KeepsPromise == Promise!SettledSpec

-----------------------------------------------------------------------------
(* What a comment of the source says and the code does not do.             *)

\* An expired transaction had no status in the last round: "block height passes
\* the deadline and the signature still has no status" (lines 5-6).
ExpiredHadNoStatus ==
  outcome = "expired" /\ landedAt # 0 => landedAt > horizon

=============================================================================
