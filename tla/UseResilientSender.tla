------------------------- MODULE UseResilientSender -------------------------
(***************************************************************************)
(* The React hook (src/src/react/use-resilient-sender.tsx) over the wallet *)
(* bridge's signAndSend (src/src/wallet/wallet-adapter-bridge.ts), with    *)
(* several sends under way, whose senders share one cluster detector.      *)
(*                                                                         *)
(* A sender is reduced to what the hook sees of it (TransactionSender has  *)
(* the rest): its guard in mode "throw", the events it emits, and how it   *)
(* settles.  Its events reach the hook only if it shares the hook's        *)
(* emitter.  There is no Jito router.  Beside the hook, signAndSendAll of  *)
(* the same bridge sends a batch.                                          *)
(***************************************************************************)
EXTENDS ClusterDetector, Sequences

CONSTANTS
  Batch,      \* the sends of the batch, in order; the others are the hook's
  MaxSends    \* bound: sends in all, those of the batch included

Members == {Batch[i] : i \in DOMAIN Batch}

ASSUME FrontAssumption ==
  /\ Batch \in Seq(Callers)
  /\ \A i, j \in DOMAIN Batch : Batch[i] = Batch[j] => i = j
  /\ MaxSends \in Nat

VARIABLES
  shared,    \* the sender emits into the hook's emitter
  wrong,     \* the RPC is on a known cluster other than the expected
  phase,     \* where each send stands
  result,    \* how a send's promise settles
  status,    \* the hook's status
  error,     \* the hook's error is not null
  last,      \* history: the send whose promise the hook saw settle last
  batch      \* where signAndSendAll stands, or how its promise settled

hookVars == <<shared, wrong, phase, result, status, error, last>>
frontVars == <<detectorVars, hookVars, batch>>

Verdicts == {"confirmed", "failed", "expired"}

FrontTypeOK ==
  /\ DetectorTypeOK
  /\ shared \in BOOLEAN
  /\ wrong \in BOOLEAN
  /\ phase \in [Callers -> {"idle", "signing", "guarding", "sending",
                            "tracking", "ended", "settled"}]
  /\ result \in [Callers -> Verdicts \cup {"none", "threw"}]
  /\ status \in Verdicts \cup {"idle", "pending", "sent"}
  /\ error \in BOOLEAN
  /\ last \in (Callers \ Members) \cup {Nobody}
  /\ batch \in {"idle", "signing", "sending", "returned", "threw"}

FrontInit ==
  /\ DetectorInit
  /\ shared \in BOOLEAN
  /\ wrong \in BOOLEAN
  /\ phase = [c \in Callers |-> "idle"]
  /\ result = [c \in Callers |-> "none"]
  /\ status = "idle"
  /\ error = FALSE
  /\ last = Nobody
  /\ batch = "idle"

-----------------------------------------------------------------------------

Goes(c, from, to) ==
  /\ phase[c] = from
  /\ phase' = [phase EXCEPT ![c] = to]
  /\ UNCHANGED <<shared, wrong, last, batch>>

\* The sender emits an event of that name.
Emits(e) == status' = IF shared THEN e ELSE status

Ends(c, r) == result' = [result EXCEPT ![c] = r]

Begun == {c \in Callers \ Members : phase[c] # "idle"}
             \cup (IF batch = "idle" THEN {} ELSE Members)

\* The hook's signAndSend is called.
SignAndSend(c) ==
  /\ Cardinality(Begun) < MaxSends
  /\ c \notin Members
  /\ Goes(c, "idle", "signing")
  /\ error' = FALSE
  /\ status' = "pending"
  /\ UNCHANGED <<result, detectorVars>>

\* The wallet signs, and the sender's guard asks for the cluster.
Signs(c) ==
  /\ Goes(c, "signing", "guarding")
  /\ Detect(c)
  /\ UNCHANGED <<result, status, error>>

\* The user rejects, and nothing is sent.
SigningRejected(c) ==
  /\ Goes(c, "signing", "ended")
  /\ Ends(c, "threw")
  /\ UNCHANGED <<status, error, detectorVars>>

\* Fault: an unknown cluster holds the send back.
GuardPassesKnownOnly(c) ==
  /\ detected[c] = "named"
  /\ ~wrong
  /\ Goes(c, "guarding", "sending")
  /\ Emits("pending")
  /\ UNCHANGED <<result, error, detectorVars>>

\* An unknown cluster never holds a send back.
GuardPasses(c) ==
  /\ detected[c] # "none"
  /\ ~(wrong /\ detected[c] = "named")
  /\ Goes(c, "guarding", "sending")
  /\ Emits("pending")
  /\ UNCHANGED <<result, error, detectorVars>>

GuardThrows(c) ==
  /\ wrong
  /\ detected[c] = "named"
  /\ Goes(c, "guarding", "ended")
  /\ Ends(c, "threw")
  /\ UNCHANGED <<status, error, detectorVars>>

BroadcastReturns(c) ==
  /\ Goes(c, "sending", "tracking")
  /\ Emits("sent")
  /\ UNCHANGED <<result, error, detectorVars>>

BroadcastThrows(c) ==
  /\ Goes(c, "sending", "ended")
  /\ Emits("failed")
  /\ Ends(c, "threw")
  /\ UNCHANGED <<error, detectorVars>>

TrackReturns(c) ==
  /\ Goes(c, "tracking", "ended")
  /\ \E v \in Verdicts : Emits(v) /\ Ends(c, v)
  /\ UNCHANGED <<error, detectorVars>>

TrackRejects(c) ==
  /\ Goes(c, "tracking", "ended")
  /\ Ends(c, "threw")
  /\ UNCHANGED <<status, error, detectorVars>>

\* Fault: the hook relies on the events for the status of a landed send.
HookTrustsEvents(c) ==
  /\ c \notin Members /\ phase[c] = "ended"
  /\ phase' = [phase EXCEPT ![c] = "settled"]
  /\ status' = IF result[c] = "threw" THEN "failed" ELSE status
  /\ error' = (error \/ result[c] = "threw")
  /\ last' = c
  /\ UNCHANGED <<shared, wrong, result, batch, detectorVars>>

\* Fault: a rejection is shown like an outcome.
HookShowsRejection(c) ==
  /\ c \notin Members /\ phase[c] = "ended"
  /\ phase' = [phase EXCEPT ![c] = "settled"]
  /\ status' = result[c]
  /\ error' = (error \/ result[c] = "threw")
  /\ last' = c
  /\ UNCHANGED <<shared, wrong, result, batch, detectorVars>>

\* The hook's continuation: what it shows comes from the promise, not from the
\* events.
HookContinues(c) ==
  /\ c \notin Members /\ phase[c] = "ended"
  /\ phase' = [phase EXCEPT ![c] = "settled"]
  /\ status' = IF result[c] = "threw" THEN "failed" ELSE result[c]
  /\ error' = (error \/ result[c] = "threw")
  /\ last' = c
  /\ UNCHANGED <<shared, wrong, result, batch, detectorVars>>

-----------------------------------------------------------------------------
(* signAndSendAll.                                                         *)

SignAndSendAll ==
  /\ batch = "idle" /\ Batch # <<>>
  /\ Cardinality(Begun \cup Members) <= MaxSends
  /\ batch' = "signing"
  /\ UNCHANGED <<hookVars, detectorVars>>

\* dispatch of the i-th transaction up to its first await.
DispatchMember(i) ==
  /\ phase' = [phase EXCEPT ![Batch[i]] = "guarding"]
  /\ Detect(Batch[i])
  /\ batch' = "sending"

\* One prompt for all, or one after the other: all are signed before the first
\* is sent.
BatchSigned ==
  /\ batch = "signing"
  /\ DispatchMember(1)
  /\ UNCHANGED <<shared, wrong, result, status, error, last>>

BatchRejected ==
  /\ batch = "signing"
  /\ batch' = "threw"
  /\ UNCHANGED <<hookVars, detectorVars>>

\* Fault: a send that throws is passed over.
MemberContinuesAnyway(i) ==
  /\ phase[Batch[i]] = "ended"
  /\ IF i < Len(Batch)
     THEN /\ phase' = [phase EXCEPT ![Batch[i]] = "settled", ![Batch[i + 1]] = "guarding"]
          /\ Detect(Batch[i + 1])
          /\ UNCHANGED batch
     ELSE /\ phase' = [phase EXCEPT ![Batch[i]] = "settled"]
          /\ batch' = "returned"
          /\ UNCHANGED detectorVars
  /\ UNCHANGED <<shared, wrong, result, status, error, last>>

\* The next one is sent when this one has settled; one that threw ends the
\* batch, and the results before it are dropped.
MemberContinues(i) ==
  /\ phase[Batch[i]] = "ended"
  /\ IF i < Len(Batch) /\ result[Batch[i]] # "threw"
     THEN /\ phase' = [phase EXCEPT ![Batch[i]] = "settled", ![Batch[i + 1]] = "guarding"]
          /\ Detect(Batch[i + 1])
          /\ UNCHANGED batch
     ELSE /\ phase' = [phase EXCEPT ![Batch[i]] = "settled"]
          /\ batch' = IF result[Batch[i]] = "threw" THEN "threw" ELSE "returned"
          /\ UNCHANGED detectorVars
  /\ UNCHANGED <<shared, wrong, result, status, error, last>>

BatchStep ==
  \/ BatchSigned
  \/ BatchRejected
  \/ \E i \in DOMAIN Batch : MemberContinues(i)

-----------------------------------------------------------------------------

Continues(c) ==
  \/ Signs(c)
  \/ SigningRejected(c)
  \/ GuardPasses(c)
  \/ GuardThrows(c)
  \/ BroadcastReturns(c)
  \/ BroadcastThrows(c)
  \/ TrackReturns(c)
  \/ TrackRejects(c)
  \/ HookContinues(c)

FrontNext ==
  \/ \E c \in Callers : SignAndSend(c) \/ Continues(c)
  \/ SignAndSendAll
  \/ BatchStep
  \/ DetectorStep /\ UNCHANGED <<hookVars, batch>>

FrontSpec == FrontInit /\ [][FrontNext]_frontVars

\* The wallet answers, the lookup is answered or fails, a sender settles (see
\* TransactionSender), and ready continuations run.
FairFrontSpec ==
  /\ FrontSpec
  /\ WF_frontVars(DetectorStep /\ UNCHANGED <<hookVars, batch>>)
  /\ WF_frontVars(BatchStep)
  /\ \A c \in Callers : WF_frontVars(Continues(c))

-----------------------------------------------------------------------------
(* Properties.                                                             *)

\* When no send is under way the hook shows how the last one to settle ended,
\* with an error if it threw, although the events of several sends were mixed
\* and may not reach the hook at all (lines 64-89) - unless a batch that the
\* hook knows nothing of emits into its emitter.
StatusIsLastSettled ==
  /\ \A c \in Callers : phase[c] \in {"idle", "settled"}
  /\ last # Nobody
  /\ shared => batch \in {"idle", "signing"}
  => /\ status = IF result[last] = "threw" THEN "failed" ELSE result[last]
     /\ result[last] = "threw" => error

\* Nothing of a batch leaves before the transaction before it has settled
\* without throwing, and the batch returns only if all did: a batch that threw
\* has sent a prefix, whose results are lost, and can be resumed behind it
\* (bridge lines 93-99).
BatchSendsPrefix ==
  /\ \A i, j \in DOMAIN Batch :
       i < j /\ phase[Batch[j]] # "idle" =>
         phase[Batch[i]] = "settled" /\ result[Batch[i]] \in Verdicts
  /\ batch = "returned" => \A c \in Members : result[c] \in Verdicts

\* No send hangs on the shared lookup: once nothing new is begun, every
\* signAndSend and every batch settles (sender lines 76-97, detector 35-46).
SendsSettle ==
  <>[](/\ \A c \in Callers : phase[c] \in {"idle", "settled"}
       /\ batch \in {"idle", "returned", "threw"})

=============================================================================
