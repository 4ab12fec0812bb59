------------------------------ MODULE JitoRouter ----------------------------
(***************************************************************************)
(* One call of JitoRouter.sendWithFallback: the transaction goes to the    *)
(* Jito block engine as a bundle, the engine is polled a bounded number of *)
(* times, and unless it says "Landed" the same bytes go to the             *)
(* TransactionSender (src/src/jito/router.ts).                             *)
(*                                                                         *)
(* The block engine is external: it holds the bundle until a leader takes  *)
(* it or it is dropped, and what it reports lags behind.                   *)
(***************************************************************************)
EXTENDS TransactionSender

CONSTANT MaxBundlePolls    \* status polls before the fallback

ASSUME RouterAssumption == MaxBundlePolls \in Nat

VARIABLES
  jPc,      \* where sendWithFallback stands
  polls,    \* its loop counter i
  bundle    \* the engine's copy: "none", "queued", "included" or "dropped"

routeVars == <<jPc, polls, bundle>>
routerVars == <<ledgerVars, trackVars, sendVars, routeVars>>

RouterTypeOK ==
  /\ SenderTypeOK
  /\ jPc \in {"idle", "submitting", "polling", "fallback", "landed", "done", "threw"}
  /\ polls \in 0..MaxBundlePolls
  /\ bundle \in {"none", "queued", "included", "dropped"}

RouterInit ==
  /\ SenderInit
  /\ jPc = "idle"
  /\ polls = 0
  /\ bundle = "none"

-----------------------------------------------------------------------------
(* The block engine.                                                       *)

\* A leader of the intended cluster takes the bundle.  Bundles are atomic: one
\* that would fail is not included.
BundleIncluded ==
  /\ bundle = "queued"
  /\ cluster = "expected"
  /\ landedAt = 0
  /\ tip = "none"
  /\ height < LastValidBlockHeight
  /\ bundle' = "included"
  /\ tip' = "ok"
  /\ UNCHANGED <<height, landedAt, landedErr, inflight, view>>
  /\ UNCHANGED <<trackVars, sendVars, jPc, polls>>

BundleDropped ==
  /\ bundle = "queued"
  /\ bundle' = "dropped"
  /\ UNCHANGED <<ledgerVars, trackVars, sendVars, jPc, polls>>

\* What getInflightBundleStatuses may say.  "Invalid" means that the engine
\* does not know the id, be it not yet or no longer.
EngineStatuses ==
  CASE bundle = "queued"   -> {"Pending", "Invalid"}
    [] bundle = "dropped"  -> {"Pending", "Invalid", "Failed"}
    [] bundle = "included" -> {"Pending", "Landed"}
    [] OTHER               -> {"Invalid"}

-----------------------------------------------------------------------------
(* sendWithFallback.                                                       *)

Route ==
  /\ jPc = "idle"
  /\ jPc' = "submitting"
  /\ UNCHANGED <<ledgerVars, trackVars, sendVars, polls, bundle>>

\* The engine takes the bundle; its reply may come before or after.
EngineTakes ==
  /\ jPc = "submitting"
  /\ bundle = "none"
  /\ bundle' = "queued"
  /\ UNCHANGED <<ledgerVars, trackVars, sendVars, jPc, polls>>

\* The loop's test: another poll, or the fallback.
LoopOr(i) == IF i < MaxBundlePolls THEN "polling" ELSE "fallback"

Submitted ==
  /\ jPc = "submitting"
  /\ bundle # "none"
  /\ jPc' = LoopOr(0)
  /\ UNCHANGED <<ledgerVars, trackVars, sendVars, polls, bundle>>

\* sendBundle or getInflightBundleStatuses rejects, and nothing catches it.
EngineFails ==
  /\ jPc \in {"submitting", "polling"}
  /\ jPc' = "threw"
  /\ UNCHANGED <<ledgerVars, trackVars, sendVars, polls, bundle>>

\* Fault: a pending bundle, of which there is only the receipt, has landed.
AfterStatusTrustingReceipt(s, i) ==
  CASE s \in {"Landed", "Pending"} -> "landed"
    [] s \in {"Failed", "Invalid"} -> "fallback"
    [] OTHER -> LoopOr(i + 1)

\* Where a status leads: it ends the loop, or the loop sleeps and goes on.
AfterStatus(s, i) ==
  CASE s = "Landed" -> "landed"
    [] s \in {"Failed", "Invalid"} -> "fallback"
    [] OTHER -> LoopOr(i + 1)

PollBundle ==
  /\ jPc = "polling"
  /\ \E s \in EngineStatuses :
       /\ jPc' = AfterStatus(s, polls)
       /\ polls' = IF s = "Pending" THEN polls + 1 ELSE polls
  /\ UNCHANGED <<ledgerVars, trackVars, sendVars, bundle>>

\* The fallback sender settled, and the router with it.
FallbackSettled ==
  /\ jPc = "fallback"
  /\ sPc \in {"done", "threw"}
  /\ jPc' = "done"
  /\ UNCHANGED <<ledgerVars, trackVars, sendVars, polls, bundle>>

-----------------------------------------------------------------------------

RouteStep ==
  \/ Route
  \/ EngineTakes
  \/ Submitted
  \/ EngineFails
  \/ PollBundle
  \/ FallbackSettled

EngineStep == BundleIncluded \/ BundleDropped

\* A step of the fallback sender, its tracker included.
SenderRuns ==
  /\ \/ TrackStep /\ UNCHANGED <<ledgerVars, sendVars>>
     \/ Rebroadcast
     \/ SendStep
  /\ UNCHANGED routeVars

FallbackStep == jPc = "fallback" /\ SenderRuns

RouterNext ==
  \/ LedgerNext /\ UNCHANGED <<trackVars, sendVars, routeVars>>
  \/ RouteStep
  \/ EngineStep
  \/ FallbackStep

RouterSpec == RouterInit /\ [][RouterNext]_routerVars

-----------------------------------------------------------------------------
(* Properties.                                                             *)

\* The route "jito" is only reported of a transaction that is in a block: a
\* bundle_id is a receipt, not a landing (lines 49-58, 67-76).
JitoRouteHasLanded ==
  jPc = "landed" => Executed = "ok"

\* How sendWithFallback settled.
RouteOutcome ==
  CASE jPc = "landed" -> "confirmed"
    [] jPc = "threw"  -> "rejected"
    [] jPc = "done"   -> SendOutcome
    [] OTHER          -> "none"

-----------------------------------------------------------------------------
(* What a comment of the source says and the code does not do.             *)

\* Unless the bundle landed, the transaction was handed to the RPC sender.
AlwaysFallsBack ==
  jPc \in {"done", "threw"} => sPc # "idle"

=============================================================================
