-------------------------- MODULE ResilientRpcPool --------------------------
(***************************************************************************)
(* The failover transport (src/src/rpc/pool.ts): concurrent requests over  *)
(* one health monitor and one credit bucket.  A request probes the slot of *)
(* every endpoint, ranks them, and tries them in turn.                     *)
(*                                                                         *)
(* A call to an endpoint is answered in two steps: the endpoint answers,   *)
(* with the slot it is at then, and later the continuation runs in the     *)
(* pool, so answers may arrive in either order.  A failure carries nothing *)
(* and is one step.                                                        *)
(***************************************************************************)
EXTENDS HealthMonitor, CreditRateLimiter

CONSTANTS
  Requests,      \* the calls a client may have outstanding at a time
  MaxAttempts    \* endpoints a request tries at most

ASSUME PoolAssumption ==
  /\ MaxAttempts \in Nat \ {0}
  /\ Methods # {}

VARIABLES
  freshnessAware,  \* the option of that name
  slotOf,   \* slotOf[e]: the slot endpoint e is at
  rPc,      \* where each request stands
  method,   \* its method
  wire,     \* wire[r][e]: r's call to e, and the slot of an answer under way
  rest,     \* the endpoints it has still to try, the current one first
  tried,    \* the endpoints that failed it, in order
  told      \* lastHealthy: what connection:health last said of an endpoint

requestVars == <<rPc, method, wire, rest, tried>>
poolVars == <<freshnessAware, slotOf, requestVars, told, health, limiterVars>>

Calls == [st : {"idle", "asked", "ok"}, slot : 0..MaxSlot]
NoCall == [st |-> "idle", slot |-> 0]
NewCall == [st |-> "asked", slot |-> 0]

PoolTypeOK ==
  /\ HealthTypeOK
  /\ LimiterTypeOK
  /\ freshnessAware \in BOOLEAN
  /\ slotOf \in [Endpoints -> 1..MaxSlot]
  /\ rPc \in [Requests -> {"idle", "probing", "calling", "failed"}]
  /\ method \in [Requests -> Methods]
  /\ wire \in [Requests -> [Endpoints -> Calls]]
  /\ rest \in [Requests -> Seq(Endpoints)]
  /\ tried \in [Requests -> Seq(Endpoints)]
  /\ told \in [Endpoints -> BOOLEAN]

PoolInit ==
  /\ HealthInit
  /\ LimiterInit
  /\ freshnessAware \in BOOLEAN
  /\ slotOf = [e \in Endpoints |-> 1]
  /\ rPc = [r \in Requests |-> "idle"]
  /\ method = [r \in Requests |-> CHOOSE m \in Methods : TRUE]
  /\ wire = [r \in Requests |-> [e \in Endpoints |-> NoCall]]
  /\ rest = [r \in Requests |-> <<>>]
  /\ tried = [r \in Requests |-> <<>>]
  /\ told = [e \in Endpoints |-> TRUE]

-----------------------------------------------------------------------------
(* The endpoints.                                                          *)

Advance(e) ==
  /\ slotOf[e] < MaxSlot
  /\ slotOf' = [slotOf EXCEPT ![e] = @ + 1]
  /\ UNCHANGED <<freshnessAware, requestVars, told, health, limiterVars>>

Serve(r, e) ==
  /\ wire[r][e].st = "asked"
  /\ wire' = [wire EXCEPT ![r][e] = [st |-> "ok", slot |-> slotOf[e]]]
  /\ UNCHANGED <<freshnessAware, slotOf, rPc, method, rest, tried, told, health,
                 limiterVars>>

-----------------------------------------------------------------------------
(* Outcomes are recorded, and connection:health emitted if one flips.      *)

\* Fault: a failed probe is recorded without a look at what it changes.
NoteSuccessesOnly(e, h) ==
  /\ health' = h
  /\ told' = IF Ejected(h, e) THEN told ELSE [told EXCEPT ![e] = IsHealthy(h, e)]

Note(e, h) ==
  /\ health' = h
  /\ told' = [told EXCEPT ![e] = IsHealthy(h, e)]

-----------------------------------------------------------------------------
(* The attempts of a request.                                              *)

Settle(r, verdict, attempts) ==
  /\ rPc' = [rPc EXCEPT ![r] = verdict]
  /\ tried' = [tried EXCEPT ![r] = attempts]
  /\ rest' = [rest EXCEPT ![r] = <<>>]
  /\ wire' = [wire EXCEPT ![r] = [e \in Endpoints |-> NoCall]]

\* What the loop may still try of the order o after the given attempts.
Attemptable(o, attempts) ==
  SubSeq(o, 1, IF Len(attempts) + Len(o) <= MaxAttempts
               THEN Len(o) ELSE MaxAttempts - Len(attempts))

\* The loop goes on with order o: there is nothing left to try, the bucket is
\* dry for this endpoint and so for all that remain, or the next call leaves.
Proceed(r, o, attempts) ==
  LET next == Attemptable(o, attempts) IN
  \/ /\ next = <<>>
     /\ Settle(r, "failed", attempts)
     /\ UNCHANGED limiterVars
  \/ /\ next # <<>>
     /\ ~Affordable(method[r])
     /\ Settle(r, "failed", attempts \o next)
     /\ Refill
  \/ /\ next # <<>>
     /\ Acquire(method[r])
     /\ rPc' = [rPc EXCEPT ![r] = "calling"]
     /\ rest' = [rest EXCEPT ![r] = o]
     /\ tried' = [tried EXCEPT ![r] = attempts]
     /\ wire' = [wire EXCEPT ![r][Head(o)] = NewCall]

\* Fault: endpoints that are not healthy are not probed.
RequestProbingHealthy(r, m) ==
  /\ rPc[r] \in {"idle", "failed"}
  /\ rPc' = [rPc EXCEPT ![r] = "probing"]
  /\ method' = [method EXCEPT ![r] = m]
  /\ wire' = [wire EXCEPT ![r] = [e \in Endpoints |->
                IF freshnessAware /\ e \in Healthy THEN NewCall ELSE NoCall]]
  /\ tried' = [tried EXCEPT ![r] = <<>>]
  /\ UNCHANGED <<freshnessAware, slotOf, rest, told, health, limiterVars>>

\* A client calls; if freshness matters, every endpoint's slot is asked for.
Request(r, m) ==
  /\ rPc[r] \in {"idle", "failed"}
  /\ rPc' = [rPc EXCEPT ![r] = "probing"]
  /\ method' = [method EXCEPT ![r] = m]
  /\ wire' = [wire EXCEPT ![r] = [e \in Endpoints |->
                IF freshnessAware THEN NewCall ELSE NoCall]]
  /\ tried' = [tried EXCEPT ![r] = <<>>]
  /\ UNCHANGED <<freshnessAware, slotOf, rest, told, health, limiterVars>>

ProbeSucceeds(r, e) ==
  /\ rPc[r] = "probing"
  /\ wire[r][e].st = "ok"
  /\ Note(e, AfterSuccess(e, wire[r][e].slot))
  /\ wire' = [wire EXCEPT ![r][e] = NoCall]
  /\ UNCHANGED <<freshnessAware, slotOf, rPc, method, rest, tried, limiterVars>>

\* A probe's failure goes no further.
ProbeFails(r, e) ==
  /\ rPc[r] = "probing"
  /\ wire[r][e].st = "asked"
  /\ Note(e, AfterFailure(e))
  /\ wire' = [wire EXCEPT ![r][e] = NoCall]
  /\ UNCHANGED <<freshnessAware, slotOf, rPc, method, rest, tried, limiterVars>>

\* attemptOrder: the healthy endpoints as they are ranked, then the others as
\* they are configured.
Precedes(e, f) ==
  \/ e \in Healthy /\ f \notin Healthy
  \/ e \in Healthy /\ f \in Healthy /\ MayPrecede(e, f)
  \/ /\ e \notin Healthy /\ f \notin Healthy
     /\ \E i, j \in DOMAIN Configured :
          i < j /\ Configured[i] = e /\ Configured[j] = f

OrdersOf(S) ==
  {o \in [1..Cardinality(S) -> S] :
     \A i, j \in DOMAIN o : i < j => o[i] # o[j] /\ Precedes(o[i], o[j])}

\* Fault: endpoints that are not healthy are no last resort.
OrdersOfHealthyOnly ==
  IF ~freshnessAware \/ Healthy = {} THEN {Configured} ELSE OrdersOf(Healthy)

AttemptOrders == IF ~freshnessAware THEN {Configured} ELSE OrdersOf(Endpoints)

StartAttempts(r) ==
  /\ rPc[r] = "probing"
  /\ \A e \in Endpoints : wire[r][e].st = "idle"
  /\ \E o \in AttemptOrders : Proceed(r, o, <<>>)
  /\ UNCHANGED <<freshnessAware, slotOf, method, told, health>>

\* The slot a call's answer brings to the monitor: only getSlot's does.
SlotSeen(r, e) == IF method[r] = "getSlot" THEN wire[r][e].slot ELSE 0

CallSucceeds(r) ==
  LET e == Head(rest[r]) IN
  /\ rPc[r] = "calling"
  /\ wire[r][e].st = "ok"
  /\ Note(e, AfterSuccess(e, SlotSeen(r, e)))
  /\ Settle(r, "idle", <<>>)
  /\ UNCHANGED <<freshnessAware, slotOf, method, limiterVars>>

\* Fault: the endpoint that failed is tried again, and not counted.
CallRetried(r) ==
  LET e == Head(rest[r]) IN
  /\ rPc[r] = "calling"
  /\ wire[r][e].st = "asked"
  /\ Note(e, AfterFailure(e))
  /\ Proceed(r, rest[r], tried[r])
  /\ UNCHANGED <<freshnessAware, slotOf, method>>

CallFails(r) ==
  LET e == Head(rest[r]) IN
  /\ rPc[r] = "calling"
  /\ wire[r][e].st = "asked"
  /\ Note(e, AfterFailure(e))
  /\ Proceed(r, Tail(rest[r]), Append(tried[r], e))
  /\ UNCHANGED <<freshnessAware, slotOf, method>>

\* The clock moves, or somebody reads available().
LimiterStep ==
  /\ Tick \/ Refill
  /\ UNCHANGED <<freshnessAware, slotOf, requestVars, told, health>>

-----------------------------------------------------------------------------

Return(r) ==
  \/ \E e \in Endpoints : Serve(r, e) \/ ProbeSucceeds(r, e) \/ ProbeFails(r, e)
  \/ StartAttempts(r)
  \/ CallSucceeds(r)
  \/ CallFails(r)

PoolNext ==
  \/ \E e \in Endpoints : Advance(e)
  \/ \E r \in Requests, m \in Methods : Request(r, m)
  \/ \E r \in Requests : Return(r)
  \/ LimiterStep

PoolSpec == PoolInit /\ [][PoolNext]_poolVars

\* Every call is answered or fails, and every continuation runs.
FairPoolSpec == PoolSpec /\ \A r \in Requests : WF_poolVars(Return(r))

-----------------------------------------------------------------------------
(* Properties.                                                             *)

\* AllEndpointsFailedError is thrown only when as many different endpoints as
\* the request may try have failed it (or could not be paid for), also those
\* the monitor holds for unhealthy, whatever other requests did to the ranking
\* meanwhile (lines 125-166, 192-203).
FailsOnlyAfterAll ==
  \A r \in Requests :
    /\ Len(tried[r]) <= MaxAttempts
    /\ rPc[r] = "failed" =>
         LET ends == {tried[r][i] : i \in DOMAIN tried[r]} IN
         \/ Cardinality(ends) = MaxAttempts
         \/ ends = Endpoints

\* A UI was told of every endpoint that is ejected for its failures: the last
\* connection:health event of it said unhealthy, whoever's call or probe
\* made the count (lines 206-230).
ToldOfEjection ==
  \A e \in Endpoints : Ejected(health, e) => ~told[e]

\* Every request is, in the end, served or failed, and the client may call
\* again, also while others change the ranking (lines 110-170).
RequestsSettle == \A r \in Requests : []<>(rPc[r] \in {"idle", "failed"})

\* Endpoint e fails a call of request r.
FailsAt(r, e) ==
  \/ ProbeFails(r, e)
  \/ rest[r] # <<>> /\ e = Head(rest[r]) /\ CallFails(r)

\* An endpoint that has stopped failing does not stay ejected while requests
\* are made: ejected endpoints are still probed (lines 192-195, 224).
EjectionEnds ==
  \A e \in Endpoints :
    /\ []<>(freshnessAware /\ \E r \in Requests : rPc[r] = "probing")
    /\ <>[][\A r \in Requests : ~FailsAt(r, e)]_poolVars
    => []<>~Ejected(health, e)

=============================================================================
