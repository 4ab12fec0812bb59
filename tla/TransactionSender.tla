-------------------------- MODULE TransactionSender -------------------------
(***************************************************************************)
(* One call of TransactionSender.sendAndConfirm: the cluster guard, the    *)
(* first broadcast, the tracker whose sleep rebroadcasts the same bytes,   *)
(* and the lifecycle events (src/src/tx/sender.ts).                        *)
(*                                                                         *)
(* The tracker is the sender's own, over its one RPC client and without    *)
(* subscriptions.  A broadcast reaches a node behind that client, which    *)
(* forwards it or refuses it; the reply to a forwarded one may be lost.    *)
(***************************************************************************)
EXTENDS ConfirmationTracker, Sequences

CONSTANT GuardModes    \* the clusterGuard settings a sender may have

ASSUME SenderAssumption ==
  /\ GuardModes # {}
  /\ GuardModes \subseteq {"off", "warn", "throw"}
  /\ Cardinality(Clients) = 1
  /\ ~Subscriptions

VARIABLES
  sPc,       \* where sendAndConfirm stands
  guard,     \* this sender's clusterGuard
  cluster,   \* the cluster the RPC is on: "expected" or "other"
  events,    \* the lifecycle events emitted so far
  offered    \* history: a node took the transaction from this call

sendVars == <<sPc, guard, cluster, events, offered>>
senderVars == <<ledgerVars, trackVars, sendVars>>

EventNames ==
  {"cluster-detected", "cluster-mismatch", "pending", "sent", "confirmed",
   "failed", "expired"}

Terminal == {"confirmed", "failed", "expired"}

SenderTypeOK ==
  /\ TrackerTypeOK
  /\ sPc \in {"idle", "guarding", "sending", "acked", "tracking", "done", "threw"}
  /\ guard \in GuardModes
  /\ cluster \in {"expected", "other"}
  /\ events \in Seq(EventNames)
  /\ offered \in BOOLEAN

SendInit ==
  /\ sPc = "idle"
  /\ guard \in GuardModes
  /\ cluster \in {"expected", "other"}
  /\ events = <<>>
  /\ offered = FALSE

\* Nobody has seen the transaction before the call.
SenderInit == LedgerInit /\ ~inflight /\ TrackInit /\ SendInit

Emitted(e) == \E i \in DOMAIN events : events[i] = e

-----------------------------------------------------------------------------
(* The RPC's sendTransaction.                                              *)

\* Preflight refuses a signature the node has seen land, and a blockhash that
\* is dead at the node's height.
Accepts(n) ==
  /\ ~(landedAt # 0 /\ landedAt <= view[n])
  /\ ~PastDeadline(view[n])

Reachable == UNION {Backends[c] : c \in Clients}

\* A node forwards the transaction to the leader.
Forward(n) ==
  /\ n \in Reachable
  /\ Accepts(n)
  /\ inflight' = TRUE
  /\ offered' = TRUE
  /\ UNCHANGED <<height, tip, landedAt, landedErr, view>>

\* Nobody takes it: refused, or the request is lost.
NotForwarded == UNCHANGED <<ledgerVars, offered>>

-----------------------------------------------------------------------------
(* sendAndConfirm up to the tracker.                                       *)

\* "pending" is emitted and the first broadcast leaves.
StartBroadcast(emitted) ==
  /\ sPc' = "sending"
  /\ events' = emitted \o <<"pending">>

Call ==
  /\ sPc = "idle"
  /\ \/ guard = "off" /\ StartBroadcast(events)
     \/ guard # "off" /\ sPc' = "guarding" /\ UNCHANGED events
  /\ UNCHANGED <<ledgerVars, trackVars, guard, cluster, offered>>

\* detectFromRpc settles: it names the cluster, or says "unknown" because the
\* lookup failed or the genesis hash is in no table.
GuardLets(d) ==
  \/ d = "unknown" /\ StartBroadcast(events)
  \/ d = "expected" /\ StartBroadcast(Append(events, "cluster-detected"))

\* Fault: only "off" was told apart, and "throw" proceeds like "warn".
GuardWarnsAlways(d) ==
  /\ d = "other"
  /\ StartBroadcast(events \o <<"cluster-detected", "cluster-mismatch">>)

GuardWarns(d) ==
  /\ d = "other"
  /\ guard = "warn"
  /\ StartBroadcast(events \o <<"cluster-detected", "cluster-mismatch">>)

GuardThrows(d) ==
  /\ d = "other"
  /\ guard = "throw"
  /\ sPc' = "threw"
  /\ events' = events \o <<"cluster-detected", "cluster-mismatch">>

Guard ==
  /\ sPc = "guarding"
  /\ \E d \in {cluster, "unknown"} : GuardLets(d) \/ GuardWarns(d) \/ GuardThrows(d)
  /\ UNCHANGED <<ledgerVars, trackVars, guard, cluster, offered>>

FirstForwarded(n) ==
  /\ sPc = "sending"
  /\ sPc' = "acked"
  /\ Forward(n)
  /\ UNCHANGED <<trackVars, guard, cluster, events>>

\* The reply arrives; "sent" is emitted and the tracker's first poll leaves.
BroadcastReturns ==
  /\ sPc = "acked"
  /\ sPc' = "tracking"
  /\ events' = Append(events, "sent")
  /\ Track(Clients)
  /\ UNCHANGED <<ledgerVars, guard, cluster, offered>>

\* Fault: the error of the first broadcast is announced and then ignored.
BroadcastErrorIgnored ==
  /\ sPc \in {"sending", "acked"}
  /\ sPc' = "tracking"
  /\ events' = Append(events, "failed")
  /\ Track(Clients)
  /\ UNCHANGED <<ledgerVars, guard, cluster, offered>>

\* Fault: the error leaves without being announced.
BroadcastThrowsSilently ==
  /\ sPc \in {"sending", "acked"}
  /\ sPc' = "threw"
  /\ UNCHANGED <<ledgerVars, trackVars, guard, cluster, events, offered>>

\* The call rejects: a node refused, or a reply was lost.
BroadcastThrows ==
  /\ sPc \in {"sending", "acked"}
  /\ sPc' = "threw"
  /\ events' = Append(events, "failed")
  /\ UNCHANGED <<ledgerVars, trackVars, guard, cluster, offered>>

-----------------------------------------------------------------------------
(* The tracker and its sleep hook.                                         *)

\* The hook resends, swallows any error and sleeps.
Rebroadcast ==
  /\ Sleep
  /\ NotForwarded \/ \E n \in Nodes : Forward(n)
  /\ UNCHANGED <<sPc, guard, cluster, events>>

\* track() rejects, and its error leaves sendAndConfirm.
TrackRejected ==
  /\ sPc = "tracking"
  /\ outcome = "rejected"
  /\ sPc' = "threw"
  /\ UNCHANGED <<ledgerVars, trackVars, guard, cluster, events, offered>>

\* Fault: whatever did not fail is announced as confirmed.
TerminalEventDefaultsToConfirmed(o) == IF o = "failed" THEN o ELSE "confirmed"

\* The event of an outcome: whatever is neither confirmed nor failed expired.
TerminalEvent(o) == IF o \in Decisive THEN o ELSE "expired"

TrackReturned ==
  /\ sPc = "tracking"
  /\ outcome \in Terminal
  /\ sPc' = "done"
  /\ events' = Append(events, TerminalEvent(outcome))
  /\ UNCHANGED <<ledgerVars, trackVars, guard, cluster, offered>>

-----------------------------------------------------------------------------

SendStep ==
  \/ Call
  \/ Guard
  \/ \E n \in Nodes : FirstForwarded(n)
  \/ BroadcastReturns
  \/ BroadcastThrows
  \/ TrackRejected
  \/ TrackReturned

SenderNext ==
  \/ LedgerNext /\ UNCHANGED <<trackVars, sendVars>>
  \/ TrackStep /\ UNCHANGED <<ledgerVars, sendVars>>
  \/ Rebroadcast
  \/ SendStep

SenderSpec == SenderInit /\ [][SenderNext]_senderVars

-----------------------------------------------------------------------------
(* Properties.                                                             *)

\* Under "throw", a transaction leaves for a wrong cluster only when the
\* detection said "unknown" (lines 69-97, 122-124).
WrongClusterNeverSent ==
  guard = "throw" /\ cluster = "other" /\ offered =>
    ~Emitted("cluster-detected")

\* What the events tell a UI is so on the chain, at the time and for good:
\* landed for "confirmed", failed on chain for a "failed" that follows "sent",
\* past the deadline for "expired" (lines 155, 188-194).
EventsAreTrue ==
  /\ Emitted("confirmed") => landedAt # 0 /\ ~landedErr
  /\ Emitted("sent") /\ Emitted("failed") =>
       tip = "err" \/ (landedAt # 0 /\ landedErr)
  /\ Emitted("expired") => height > LastValidBlockHeight

NothingAfterTheEnd ==
  \A i, j \in DOMAIN events :
    i < j => events[i] \notin Terminal /\ events[i] # events[j]

EndIsTold ==
  /\ sPc = "done" => Emitted(outcome)
  /\ sPc = "threw" =>
       \/ \E t \in Terminal : Emitted(t)
       \/ guard = "throw" /\ Emitted("cluster-mismatch")
       \/ outcome = "rejected"

\* A UI sees each event once and nothing after the terminal one, whichever of
\* the two places that emit "failed" did it; and it does see a terminal one when
\* the call is over, unless the cluster guard refused the transaction or the
\* tracker rejected, of which no event tells (lines 90-97, 141-155, 179-194).
EventsEndOnce == NothingAfterTheEnd /\ EndIsTold

\* How sendAndConfirm settled.
SendOutcome ==
  CASE sPc = "done" -> outcome
    [] sPc = "threw" -> "rejected"
    [] OTHER -> "none"

-----------------------------------------------------------------------------
(* What a comment of the source says and the code does not do.             *)

\* A transaction whose first broadcast failed never lands.
FirstErrorIsFinal ==
  sPc = "threw" /\ Emitted("failed") => landedAt = 0

=============================================================================
