------------------------ MODULE WalletAdapterBridge -------------------------
(***************************************************************************)
(* One call of WalletAdapterBridge.signAndSend: the wallet signs or        *)
(* refuses, and the signed transaction is dispatched to the JitoRouter, if *)
(* the bridge has one, or straight to the TransactionSender                *)
(* (src/src/wallet/wallet-adapter-bridge.ts).                              *)
(*                                                                         *)
(* This is the composition of the write path: wallet, router, sender,      *)
(* tracker, block engine and chain.  Without a router it is also           *)
(* ResilientWalletAdapter.signAndSend (src/src/wallet/adapter.ts).         *)
(***************************************************************************)
EXTENDS JitoRouter

VARIABLES
  bPc,    \* where signAndSend stands
  jito    \* a JitoRouter was configured

bridgeVars == <<routerVars, bPc, jito>>

BridgeTypeOK ==
  /\ RouterTypeOK
  /\ bPc \in {"idle", "signing", "dispatched", "threw"}
  /\ jito \in BOOLEAN

BridgeInit ==
  /\ RouterInit
  /\ bPc = "idle"
  /\ jito \in BOOLEAN

-----------------------------------------------------------------------------

SignAndSend ==
  /\ bPc = "idle"
  /\ bPc' = "signing"
  /\ UNCHANGED <<routerVars, jito>>

\* The wallet refuses, or its signing fails; the translated error is thrown.
SigningRejected ==
  /\ bPc = "signing"
  /\ bPc' = "threw"
  /\ UNCHANGED <<routerVars, jito>>

\* The wallet signed: dispatch calls the router or the sender, which runs up
\* to its first await.
Dispatch ==
  /\ bPc = "signing"
  /\ bPc' = "dispatched"
  /\ IF jito THEN Route ELSE Call /\ UNCHANGED routeVars
  /\ UNCHANGED jito

WalletStep == SignAndSend \/ SigningRejected \/ Dispatch

\* The sender runs for the bridge or as the router's fallback.
Dispatched == bPc = "dispatched" /\ (jito => jPc = "fallback")

BridgeNext ==
  \/ LedgerNext /\ UNCHANGED <<trackVars, sendVars, routeVars, bPc, jito>>
  \/ WalletStep
  \/ /\ \/ bPc = "dispatched" /\ jito /\ RouteStep
        \/ EngineStep
        \/ Dispatched /\ SenderRuns
     /\ UNCHANGED <<bPc, jito>>

BridgeSpec == BridgeInit /\ [][BridgeNext]_bridgeVars

\* The user answers the wallet's prompt, every call is answered or fails and
\* every timer fires.  The engine owes nothing: a bundle may stay queued.
FairBridgeSpec ==
  /\ BridgeSpec
  /\ LedgerFairness
  /\ WF_bridgeVars(WalletStep)
  /\ WF_routerVars(bPc = "dispatched" /\ jito /\ RouteStep)
  /\ WF_trackVars(Dispatched /\ PollLoopStep)
  /\ WF_trackVars(Dispatched /\ RaceStep)
  /\ WF_senderVars(Dispatched /\ Rebroadcast)
  /\ WF_senderVars(Dispatched /\ SendStep)

-----------------------------------------------------------------------------
(* Properties.                                                             *)

\* How signAndSend settled.
BridgeOutcome ==
  CASE bPc = "threw"                -> "rejected"
    [] bPc = "dispatched" /\ jito   -> RouteOutcome
    [] bPc = "dispatched" /\ ~jito  -> SendOutcome
    [] OTHER                        -> "none"

BridgePromise == INSTANCE SettledOutcome WITH
  executed <- Executed,
  dead <- (height >= LastValidBlockHeight),
  outcome <- BridgeOutcome

\* The dApp that calls signAndSend gets the tracker's promise, although copies
\* of the transaction are resent until the last round and a bundle may still
\* land while the fallback runs (bridge.ts lines 83-138, router.ts lines 60-86,
\* sender.ts lines 99-184).
BridgeKeepsPromise == BridgePromise!SettledSpec

\* signAndSend always settles, whatever the engine answers: its polls are
\* bounded and the sender ends at the deadline (router.ts lines 64-85).
BridgeSettles == <>(BridgeOutcome # "none")

=============================================================================
