---------------------------- MODULE HealthMonitor ---------------------------
(***************************************************************************)
(* What the kit believes about each RPC endpoint (src/src/rpc/health.ts):  *)
(* the last slot it reported and how many calls failed in a row.  Latency  *)
(* only breaks ties between equally fresh endpoints, so ties are broken    *)
(* either way; errorRate and lastError are shown, never read.              *)
(***************************************************************************)
EXTENDS Naturals, Sequences, FiniteSets

CONSTANTS
  Configured,        \* the endpoints, in the order they were configured
  MaxSlotLag,        \* slots behind the freshest before an endpoint is stale
  FailureThreshold,  \* failures in a row before it is ejected
  MaxSlot            \* bound: no endpoint goes beyond this slot

Endpoints == {Configured[i] : i \in DOMAIN Configured}

ASSUME HealthAssumption ==
  /\ Configured \in Seq(Endpoints)
  /\ \A i, j \in DOMAIN Configured : Configured[i] = Configured[j] => i = j
  /\ MaxSlotLag \in Nat
  /\ FailureThreshold \in Nat \ {0}
  /\ MaxSlot \in Nat \ {0}

VARIABLE health    \* health[e]: its last slot (0 for null) and its failures

\* Failures are counted up to the threshold: nothing tells more of them apart.
HealthTypeOK ==
  health \in [Endpoints -> [slot : 0..MaxSlot, failures : 0..FailureThreshold]]

HealthInit == health = [e \in Endpoints |-> [slot |-> 0, failures |-> 0]]

\* A call succeeded; s is the slot it carried, 0 if it carried none.  A slot
\* replaces the one before, be it older or newer.
AfterSuccess(e, s) ==
  [health EXCEPT
     ![e] = [slot |-> IF s = 0 THEN @.slot ELSE s, failures |-> 0]]

AfterFailure(e) ==
  [health EXCEPT
     ![e].failures = IF @ < FailureThreshold THEN @ + 1 ELSE @]

Ejected(h, e) == h[e].failures >= FailureThreshold

\* More than MaxSlotLag behind the freshest slot seen; an endpoint whose slot
\* is unknown is not stale.
Stale(h, e) ==
  /\ h[e].slot # 0
  /\ \E f \in Endpoints : h[f].slot > h[e].slot + MaxSlotLag

IsHealthy(h, e) == ~Ejected(h, e) /\ ~Stale(h, e)

Healthy == {e \in Endpoints : IsHealthy(health, e)}

\* rankByFreshness: the freshest first, unknown slots last, ties by latency.
MayPrecede(e, f) == health[e].slot >= health[f].slot

=============================================================================
