---------------------------- MODULE MockCluster -----------------------------
(***************************************************************************)
(* The simulated network of the demo and of the tests: MockCluster, whose  *)
(* clock only moves when told to, behind three MockEndpoints that share it *)
(* and add faults (src/test/harness/mock-cluster.ts, mock-endpoint.ts).    *)
(*                                                                         *)
(* One signature is followed at a time.  Rates of a fault between 0 and 1  *)
(* are a choice.  Heights count from the construction of the cluster.      *)
(***************************************************************************)
EXTENDS Naturals

CONSTANT BlockhashValidity    \* BLOCKHASH_VALIDITY_BLOCKS

ASSUME MockAssumption == BlockhashValidity \in Nat

VARIABLES
  blockHeight,
  tx,        \* the followed PendingTx: its status, "none" if never accepted
  landAt     \* its landAtBlockHeight

mockVars == <<blockHeight, tx, landAt>>

MockTypeOK ==
  /\ blockHeight \in Nat
  /\ tx \in {"none", "pending", "dropped", "landed", "reverted", "expired"}
  /\ landAt \in Nat

MockInit ==
  /\ blockHeight = 0
  /\ tx = "none"
  /\ landAt = 0

\* A signature nobody has sent yet is followed from here on.
NewSignature == tx' = "none" /\ UNCHANGED <<blockHeight, landAt>>

\* rpcSendTransaction: only the first broadcast of a signature is recorded, so
\* one that was dropped stays dropped however often it is resent.
rpcSendTransaction(dropped) ==
  /\ IF tx = "none"
     THEN /\ tx' = IF dropped THEN "dropped" ELSE "pending"
          /\ landAt' = blockHeight + 1
     ELSE UNCHANGED <<tx, landAt>>
  /\ UNCHANGED blockHeight

\* advanceSlots(1).  The deadline is that of the last blockhash minted, and
\* the lab never asks for one: it is the first, minted at construction.
advanceSlots ==
  LET h == blockHeight + 1 IN
  /\ blockHeight' = h
  /\ tx' = IF tx # "pending" THEN tx
           ELSE IF h > BlockhashValidity THEN "expired"
           ELSE IF h >= landAt THEN "landed"
           ELSE tx
  /\ UNCHANGED landAt

\* rpcGetSignatureStatuses gives a status without error.
HasStatus == tx = "landed"

-----------------------------------------------------------------------------
(* The fault profiles.                                                     *)

Endpoints == 1..3

\* What a fault with this rate may do to a request.
Chance(rate) ==
  CASE rate = "never"  -> {FALSE}
    [] rate = "always" -> {TRUE}
    [] OTHER           -> BOOLEAN

ok == [drop |-> "never", rate429 |-> "never"]

\* SCENARIO_FAULTS of the lab, without latency and lag, which no broadcast and
\* no status depends on.
ScenarioFaults(s) ==
  CASE s = "drop" -> [e \in Endpoints |-> [ok EXCEPT !.drop = "always"]]
    [] s = "429" -> [e \in Endpoints |->
         IF e = 1 THEN [ok EXCEPT !.rate429 = "always"] ELSE ok]
    [] s = "congestion" ->
         <<[ok EXCEPT !.rate429 = "maybe"], [ok EXCEPT !.drop = "maybe"], ok>>
    [] OTHER -> [e \in Endpoints |-> ok]

\* The fates of a broadcast through endpoint e: refused, or taken and dropped
\* or not.
Fates(s, e) ==
  LET f == ScenarioFaults(s)[e] IN
  {r \in {"refused"} : TRUE \in Chance(f.rate429)}
    \cup IF FALSE \in Chance(f.rate429)
         THEN {IF d THEN "dropped" ELSE "taken" : d \in Chance(f.drop)}
         ELSE {}

\* Through the pool the request fails over until an endpoint takes it, in an
\* order that the endpoints' health decides.
PoolFates(s) == (UNION {Fates(s, e) : e \in Endpoints}) \ {"refused"}

=============================================================================
