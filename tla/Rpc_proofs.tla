----------------------------- MODULE Rpc_proofs -----------------------------
(***************************************************************************)
(* Theorems about the failover pool (rpc/pool.ts, rpc/health.ts), for any  *)
(* endpoints, requests, methods, thresholds and number of attempts, and    *)
(* about the credit bucket beside the provider's count                     *)
(* (rpc/rate-limit.ts), for any weights, rate and window.                  *)
(***************************************************************************)
EXTENDS ResilientRpcPool, CreditBudget, FiniteSetTheorems, SequenceTheorems, TLAPS

-----------------------------------------------------------------------------
(* The inductive invariant of the pool.                                    *)

\* The endpoints in s.
Ends(s) == {s[i] : i \in DOMAIN s}

Distinct(s) == \A i, j \in DOMAIN s : i # j => s[i] # s[j]

\* Every endpoint is in exactly one of the two, once.
Divides(attempts, o) ==
  /\ Distinct(attempts) /\ Distinct(o)
  /\ Ends(attempts) \cap Ends(o) = {}
  /\ Ends(attempts) \cup Ends(o) = Endpoints

\* Where a request at pc stands with the endpoints o before it and those that
\* failed it behind.
AttemptOK(pc, o, attempts) ==
  /\ pc \in {"idle", "probing"} => attempts = <<>>
  /\ pc = "calling" =>
       /\ o # <<>>
       /\ Len(attempts) < MaxAttempts
       /\ Divides(attempts, o)
  /\ pc = "failed" =>
       /\ Len(attempts) <= MaxAttempts
       /\ Distinct(attempts)
       /\ Len(attempts) = MaxAttempts \/ Ends(attempts) = Endpoints

\* The loop of every request, whatever the others do to the monitor meanwhile:
\* the order is a list of its own, taken once (pool.ts:120-166).
AttemptInv == \A r \in Requests : AttemptOK(rPc[r], rest[r], tried[r])

\* The part of the type invariant that a request's own steps disturb.
RequestsTypeOK ==
  /\ rPc \in [Requests -> {"idle", "probing", "calling", "failed"}]
  /\ wire \in [Requests -> [Endpoints -> Calls]]
  /\ rest \in [Requests -> Seq(Endpoints)]
  /\ tried \in [Requests -> Seq(Endpoints)]

PoolInv == PoolTypeOK /\ ToldOfEjection /\ AttemptInv

-----------------------------------------------------------------------------
(* The order of the attempts.                                              *)

LEMMA EndpointsFinite == IsFiniteSet(Endpoints)
<1> DEFINE n == Len(Configured)
<1>1. n \in Nat /\ DOMAIN Configured = 1..n /\ Configured \in [1..n -> Endpoints]
  BY HealthAssumption
<1>2. Configured \in Surjection(1..n, Endpoints)
  BY <1>1 DEF Surjection, Endpoints
<1>3. IsFiniteSet(1..n)
  BY <1>1, FS_Interval
<1> QED
  BY <1>2, <1>3, FS_Surjection

\* attemptOrder() leaves no endpoint out and names none twice, however the
\* ranking breaks its ties (pool.ts:192-203).
LEMMA OrderIsComplete ==
  ASSUME NEW o \in AttemptOrders
  PROVE  /\ o \in Seq(Endpoints)
         /\ Divides(<<>>, o)
<1>0. /\ DOMAIN << >> = {}
      /\ Ends(<<>>) = {} /\ Distinct(<<>>)
  BY DEF Ends, Distinct
<1>1. CASE ~freshnessAware
  <2>1. o = Configured
    BY <1>1 DEF AttemptOrders
  <2>2. Distinct(o) /\ Ends(o) = Endpoints /\ o \in Seq(Endpoints)
    BY <2>1, HealthAssumption DEF Distinct, Ends, Endpoints
  <2> QED
    BY <1>0, <2>2 DEF Divides
<1>2. CASE freshnessAware
  <2> DEFINE n == Cardinality(Endpoints)
  <2>1. n \in Nat /\ IsFiniteSet(Endpoints)
    BY EndpointsFinite, FS_CardinalityType
  <2>2. /\ o \in [1..n -> Endpoints]
        /\ \A i, j \in 1..n : i < j => o[i] # o[j]
    BY <1>2 DEF AttemptOrders, OrdersOf
  <2>3. \A i, j \in 1..n : i # j => o[i] # o[j]
    BY <2>1, <2>2
  <2>4. o \in Injection(1..n, Endpoints)
    BY <2>2, <2>3 DEF Injection, IsInjective
  <2>5. Cardinality(1..n) = n
    BY <2>1, FS_Interval
  <2>6. o \in Surjection(1..n, Endpoints)
    BY <2>1, <2>4, <2>5, FS_Injection
  <2>7. Ends(o) = Endpoints
    BY <2>2, <2>6 DEF Surjection, Ends
  <2>8. Distinct(o) /\ o \in Seq(Endpoints)
    BY <2>1, <2>2, <2>3 DEF Distinct
  <2> QED
    BY <1>0, <2>7, <2>8 DEF Divides
<1> QED
  BY <1>1, <1>2

LEMMA Concat ==
  ASSUME NEW s \in Seq(Endpoints), NEW t \in Seq(Endpoints),
         Distinct(s), Distinct(t), Ends(s) \cap Ends(t) = {}
  PROVE  /\ s \o t \in Seq(Endpoints)
         /\ Len(s \o t) = Len(s) + Len(t)
         /\ Distinct(s \o t)
         /\ Ends(s \o t) = Ends(s) \cup Ends(t)
<1> DEFINE u == s \o t
           m == Len(s)
           n == Len(t)
<1>1. /\ u \in Seq(Endpoints) /\ m \in Nat /\ n \in Nat
      /\ Len(u) = m + n
      /\ DOMAIN s = 1..m /\ DOMAIN t = 1..n /\ DOMAIN u = 1..(m + n)
  OBVIOUS
<1>2. /\ \A i \in 1..m : u[i] = s[i]
      /\ \A i \in 1..n : u[m + i] = t[i]
  OBVIOUS
<1>3. \A i \in 1..(m + n) : i \in 1..m \/ \E k \in 1..n : i = m + k
  <2>1. \A i \in (m + 1)..(m + n) : i - m \in 1..n /\ i = m + (i - m)
    BY <1>1
  <2> QED
    BY <1>1, <2>1
<1>4. Ends(u) = Ends(s) \cup Ends(t)
  <2>1. \A i \in 1..n : m + i \in 1..(m + n)
    BY <1>1
  <2>2. \A i \in 1..m : i \in 1..(m + n)
    BY <1>1
  <2> HIDE DEF u, m, n
  <2>3. Ends(u) = {u[i] : i \in 1..(m + n)}
    BY <1>1 DEF Ends
  <2>4. Ends(s) = {s[i] : i \in 1..m} /\ Ends(t) = {t[i] : i \in 1..n}
    BY <1>1 DEF Ends
  <2>5. \A i \in 1..(m + n) : u[i] \in Ends(s) \cup Ends(t)
    BY <1>2, <1>3, <2>4
  <2>6. \A i \in 1..m : s[i] \in Ends(u)
    BY <1>2, <2>2, <2>3
  <2>7. \A i \in 1..n : t[i] \in Ends(u)
    BY <1>2, <2>1, <2>3
  <2> QED
    BY <2>3, <2>4, <2>5, <2>6, <2>7
<1>5. Distinct(u)
  <2> SUFFICES ASSUME NEW i \in 1..(m + n), NEW j \in 1..(m + n), i # j
               PROVE  u[i] # u[j]
    BY <1>1 DEF Distinct
  <2> HIDE DEF u, m, n
  <2>1. \A k \in 1..m, l \in 1..n : s[k] # t[l]
    BY <1>1 DEF Ends
  <2>2. CASE i \in 1..m /\ j \in 1..m
    BY <1>1, <1>2, <2>2 DEF Distinct
  <2>3. CASE i \in 1..m /\ \E k \in 1..n : j = m + k
    BY <1>2, <2>1, <2>3
  <2>4. CASE j \in 1..m /\ \E k \in 1..n : i = m + k
    BY <1>2, <2>1, <2>4
  <2>5. CASE /\ \E k \in 1..n : i = m + k
             /\ \E k \in 1..n : j = m + k
    <3>1. PICK k \in 1..n, l \in 1..n : i = m + k /\ j = m + l
      BY <2>5
    <3>2. u[i] = t[k] /\ u[j] = t[l] /\ k # l
      BY <1>2, <3>1
    <3> QED
      BY <1>1, <3>2 DEF Distinct
  <2> QED
    BY <1>3, <2>2, <2>3, <2>4, <2>5
<1> QED
  BY <1>1, <1>4, <1>5

\* What the loop may still try has not failed yet, fits under the limit, and
\* is cut only by it (pool.ts:125-131).
LEMMA NextAttempts ==
  ASSUME NEW o \in Seq(Endpoints), NEW attempts \in Seq(Endpoints),
         Divides(attempts, o), Len(attempts) <= MaxAttempts
  PROVE  LET next == Attemptable(o, attempts) IN
         /\ next \in Seq(Endpoints)
         /\ Distinct(next)
         /\ Ends(next) \cap Ends(attempts) = {}
         /\ Len(attempts) + Len(next) <= MaxAttempts
         /\ Len(attempts) + Len(next) < MaxAttempts => next = o
         /\ next # <<>> => o # <<>> /\ Len(attempts) < MaxAttempts
<1> DEFINE next == Attemptable(o, attempts)
           n == IF Len(attempts) + Len(o) <= MaxAttempts
                THEN Len(o) ELSE MaxAttempts - Len(attempts)
<1>1. /\ n \in 0..Len(o) /\ Len(attempts) \in Nat /\ Len(o) \in Nat
      /\ Len(attempts) + n <= MaxAttempts
      /\ Len(attempts) + n < MaxAttempts => n = Len(o)
  BY PoolAssumption
<1>2. next = SubSeq(o, 1, n)
  BY DEF Attemptable
<1>3. /\ next \in Seq(Endpoints) /\ Len(next) = n
      /\ \A i \in 1..n : next[i] = o[i] /\ i \in DOMAIN o
  <2> HIDE DEF n, next
  <2>1. \A i \in 1..n : o[i] \in Endpoints
    BY <1>1
  <2> QED
    BY <1>1, <1>2, <2>1, SubSeqProperties
<1>4. n = Len(o) => next = o
  <2> HIDE DEF n, next
  <2> QED
    BY <1>2, SubSeqFull
<1>5. DOMAIN next = 1..n
  BY <1>3
<1>6. Distinct(next) /\ Ends(next) \subseteq Ends(o)
  <2> HIDE DEF n, next
  <2> QED
    BY <1>3, <1>5 DEF Divides, Distinct, Ends
<1>7. Ends(next) \cap Ends(attempts) = {}
  BY <1>6 DEF Divides
<1>8. next # <<>> => o # <<>> /\ Len(attempts) < MaxAttempts
  <2>1. next # <<>> => n > 0
    BY <1>1, <1>3
  <2>2. n > 0 => Len(o) > 0 /\ Len(attempts) < MaxAttempts
    BY <1>1, PoolAssumption
  <2> QED
    BY <2>1, <2>2
<1> HIDE DEF n, next
<1>9. Len(attempts) + Len(next) < MaxAttempts => next = o
  BY <1>1, <1>3, <1>4
<1> QED
  BY <1>1, <1>3, <1>6, <1>7, <1>8, <1>9 DEF next

\* A failure moves one endpoint from those before the request to those behind.
LEMMA OneMoreTried ==
  ASSUME NEW o \in Seq(Endpoints), NEW attempts \in Seq(Endpoints),
         o # <<>>, Len(attempts) < MaxAttempts, Divides(attempts, o)
  PROVE  /\ Tail(o) \in Seq(Endpoints)
         /\ Append(attempts, Head(o)) \in Seq(Endpoints)
         /\ Len(Append(attempts, Head(o))) <= MaxAttempts
         /\ Divides(Append(attempts, Head(o)), Tail(o))
<1> DEFINE e == Head(o)
           t == Tail(o)
           u == Append(attempts, e)
           m == Len(attempts)
           n == Len(t)
<1>1. /\ m \in Nat /\ n \in Nat /\ DOMAIN attempts = 1..m
      /\ t \in Seq(Endpoints) /\ DOMAIN t = 1..n /\ \A i \in 1..n : t[i] = o[i + 1]
      /\ DOMAIN o = 1..(n + 1) /\ e = o[1] /\ e \in Endpoints
  BY HeadTailProperties, LenProperties
<1>2. /\ u \in Seq(Endpoints) /\ Len(u) = m + 1 /\ DOMAIN u = 1..(m + 1)
      /\ \A i \in 1..m : u[i] = attempts[i]
      /\ u[m + 1] = e
  BY <1>1
<1>3. \A i \in 1..(m + 1) : i \in 1..m \/ i = m + 1
  BY <1>1
<1>4. /\ \A i \in 1..(n + 1) : i = 1 \/ \E k \in 1..n : i = k + 1
      /\ \A k \in 1..n : k + 1 \in 1..(n + 1) /\ k + 1 # 1
      /\ 1 \in 1..(n + 1)
  <2>1. \A i \in 2..(n + 1) : i - 1 \in 1..n /\ i = (i - 1) + 1
    BY <1>1
  <2> QED
    BY <1>1, <2>1
<1> HIDE DEF e, t, u, m, n
<1>5. Ends(u) = Ends(attempts) \cup {e}
  <2>1. m + 1 \in 1..(m + 1) /\ \A i \in 1..m : i \in 1..(m + 1)
    BY <1>1
  <2>2. Ends(attempts) = {attempts[i] : i \in 1..m} /\ Ends(u) = {u[i] : i \in 1..(m + 1)}
    BY <1>1, <1>2 DEF Ends
  <2> QED
    BY <1>2, <1>3, <2>1, <2>2
<1>6. Ends(o) = {e} \cup Ends(t)
  <2>1. Ends(o) = {o[i] : i \in 1..(n + 1)} /\ Ends(t) = {t[i] : i \in 1..n}
    BY <1>1 DEF Ends
  <2>2. ASSUME NEW i \in 1..(n + 1)
        PROVE  o[i] \in {e} \cup Ends(t)
    <3>1. CASE i = 1
      BY <1>1, <3>1
    <3>2. ASSUME NEW k \in 1..n, i = k + 1
          PROVE  o[i] \in Ends(t)
      <4>1. o[i] = t[k]
        BY <1>1, <3>2
      <4> QED
        BY <2>1, <4>1
    <3> QED
      BY <1>4, <3>1, <3>2
  <2>3. e \in Ends(o) /\ \A i \in 1..n : t[i] \in Ends(o)
    BY <1>1, <1>4, <2>1
  <2> QED
    BY <2>1, <2>2, <2>3
<1>7. e \notin Ends(t) /\ Distinct(t)
  <2>1. \A i, j \in 1..(n + 1) : i # j => o[i] # o[j]
    BY <1>1 DEF Divides, Distinct
  <2>2. \A k \in 1..n : e # t[k]
    BY <1>1, <1>4, <2>1
  <2>3. \A i, j \in 1..n : i # j => i + 1 # j + 1
    BY <1>1
  <2>4. \A i, j \in 1..n : i # j => t[i] # t[j]
    BY <1>1, <1>4, <2>1, <2>3
  <2> QED
    BY <1>1, <2>2, <2>4 DEF Distinct, Ends
<1>8. e \notin Ends(attempts)
  BY <1>6 DEF Divides
<1>9. Distinct(u)
  <2>1. \A i \in 1..m : u[i] # u[m + 1]
    BY <1>1, <1>2, <1>8 DEF Ends
  <2>2. \A i, j \in 1..m : i # j => u[i] # u[j]
    BY <1>1, <1>2 DEF Divides, Distinct
  <2> QED
    BY <1>2, <1>3, <2>1, <2>2 DEF Distinct
<1>10. Divides(u, t)
  BY <1>5, <1>6, <1>7, <1>8, <1>9 DEF Divides
<1>11. Len(u) <= MaxAttempts
  BY <1>1, <1>2, PoolAssumption DEF m
<1> QED
  BY <1>1, <1>2, <1>10, <1>11 DEF e, t, u

LEMMA DistinctEnds ==
  ASSUME NEW s \in Seq(Endpoints), Distinct(s)
  PROVE  Cardinality(Ends(s)) = Len(s)
<1> DEFINE n == Len(s)
<1>1. n \in Nat /\ DOMAIN s = 1..n
  OBVIOUS
<1>2. s \in [1..n -> Ends(s)]
  BY <1>1 DEF Ends
<1>3. s \in Bijection(1..n, Ends(s))
  BY <1>1, <1>2 DEF Bijection, Injection, Surjection, IsInjective, Distinct, Ends
<1> QED
  BY <1>1, <1>3, FS_CountingElements DEF ExistsBijection

-----------------------------------------------------------------------------
(* The steps of the pool.                                                  *)

LEMMA LimiterTypeKept ==
  ASSUME LimiterTypeOK,
         Tick \/ Refill \/ UNCHANGED limiterVars \/ \E m \in Methods : Acquire(m)
  PROVE  LimiterTypeOK'
<1> USE LimiterAssumption DEF LimiterTypeOK, Refilled, Anchored
<1>1. CASE Tick
  BY <1>1 DEF Tick
<1>2. CASE Refill
  BY <1>2 DEF Refill
<1>3. CASE UNCHANGED limiterVars
  BY <1>3 DEF limiterVars
<1>4. ASSUME NEW m \in Methods, Acquire(m)
      PROVE  LimiterTypeOK'
  BY <1>4 DEF Acquire, Affordable
<1> QED
  BY <1>1, <1>2, <1>3, <1>4

LEMMA CallRecords == NoCall \in Calls /\ NewCall \in Calls
  BY HealthAssumption DEF NoCall, NewCall, Calls

\* A request ends.
LEMMA SettleKeeps ==
  ASSUME RequestsTypeOK, AttemptInv, NEW r \in Requests,
         NEW verdict \in {"idle", "failed"}, NEW attempts \in Seq(Endpoints),
         AttemptOK(verdict, <<>>, attempts), Settle(r, verdict, attempts)
  PROVE  RequestsTypeOK' /\ AttemptInv'
<1>1. RequestsTypeOK'
  BY CallRecords DEF Settle, RequestsTypeOK
<1>2. AttemptOK(rPc'[r], rest'[r], tried'[r])
  BY DEF Settle, RequestsTypeOK
<1>3. \A q \in Requests \ {r} :
        rPc'[q] = rPc[q] /\ rest'[q] = rest[q] /\ tried'[q] = tried[q]
  BY DEF Settle, RequestsTypeOK
<1> QED
  BY <1>1, <1>2, <1>3 DEF AttemptInv

\* The loop goes on, gives up, or finds the bucket dry (pool.ts:122-138).
LEMMA ProceedKeeps ==
  ASSUME RequestsTypeOK, AttemptInv, LimiterTypeOK, method \in [Requests -> Methods],
         NEW r \in Requests,
         NEW o \in Seq(Endpoints), NEW attempts \in Seq(Endpoints),
         Divides(attempts, o), Len(attempts) <= MaxAttempts,
         Proceed(r, o, attempts)
  PROVE  RequestsTypeOK' /\ AttemptInv' /\ LimiterTypeOK'
<1> DEFINE next == Attemptable(o, attempts)
<1>1. /\ next \in Seq(Endpoints)
      /\ Distinct(next)
      /\ Ends(next) \cap Ends(attempts) = {}
      /\ Len(attempts) + Len(next) <= MaxAttempts
      /\ Len(attempts) + Len(next) < MaxAttempts => next = o
      /\ next # <<>> => o # <<>> /\ Len(attempts) < MaxAttempts
  BY NextAttempts
<1>2. CASE next = <<>> /\ Settle(r, "failed", attempts) /\ UNCHANGED limiterVars
  <2>1. Len(attempts) = MaxAttempts \/ Ends(attempts) = Endpoints
    <3>1. CASE Len(attempts) < MaxAttempts
      <4>1. o = <<>>
        <5>1. Len(next) = 0
          BY <1>2
        <5> QED
          BY <1>1, <1>2, <3>1, <5>1, PoolAssumption
      <4>2. Ends(o) = {}
        BY <4>1 DEF Ends
      <4> QED
        BY <4>2 DEF Divides
    <3> QED
      BY <3>1, PoolAssumption
  <2>2. AttemptOK("failed", <<>>, attempts)
    BY <2>1 DEF AttemptOK, Divides
  <2> QED
    BY <1>2, <2>2, SettleKeeps, LimiterTypeKept
<1>3. CASE next # <<>> /\ Settle(r, "failed", attempts \o next) /\ Refill
  <2> HIDE DEF next
  <2>1. /\ attempts \o next \in Seq(Endpoints)
        /\ Len(attempts \o next) = Len(attempts) + Len(next)
        /\ Distinct(attempts \o next)
        /\ Ends(attempts \o next) = Ends(attempts) \cup Ends(next)
    BY <1>1, Concat DEF Divides
  <2>2. Len(attempts \o next) = MaxAttempts \/ Ends(attempts \o next) = Endpoints
    BY <1>1, <2>1, PoolAssumption DEF Divides
  <2>3. AttemptOK("failed", <<>>, attempts \o next)
    BY <1>1, <2>1, <2>2 DEF AttemptOK
  <2> QED
    BY <1>3, <2>1, <2>3, SettleKeeps, LimiterTypeKept
<1>4. CASE /\ next # <<>>
           /\ Acquire(method[r])
           /\ rPc' = [rPc EXCEPT ![r] = "calling"]
           /\ rest' = [rest EXCEPT ![r] = o]
           /\ tried' = [tried EXCEPT ![r] = attempts]
           /\ wire' = [wire EXCEPT ![r][Head(o)] = NewCall]
  <2> HIDE DEF next
  <2>1. RequestsTypeOK'
    <3>1. Head(o) \in Endpoints
      BY <1>1, <1>4
    <3> QED
      BY <1>4, <3>1, CallRecords DEF RequestsTypeOK
  <2>2. AttemptOK("calling", o, attempts)
    BY <1>1, <1>4 DEF AttemptOK
  <2>3. AttemptOK(rPc'[r], rest'[r], tried'[r])
    BY <1>4, <2>2 DEF RequestsTypeOK
  <2>4. \A q \in Requests \ {r} :
          rPc'[q] = rPc[q] /\ rest'[q] = rest[q] /\ tried'[q] = tried[q]
    BY <1>4 DEF RequestsTypeOK
  <2>5. AttemptInv'
    BY <2>3, <2>4 DEF AttemptInv
  <2>6. LimiterTypeOK'
    BY <1>4, LimiterTypeKept
  <2> QED
    BY <2>1, <2>5, <2>6
<1> QED
  BY <1>2, <1>3, <1>4 DEF Proceed

\* An outcome is recorded: whoever's it is, connection:health is up to date
\* for its endpoint afterwards (pool.ts:206-213).
LEMMA NoteKeeps ==
  ASSUME HealthTypeOK, told \in [Endpoints -> BOOLEAN], ToldOfEjection,
         NEW e \in Endpoints, NEW s \in 0..MaxSlot,
         Note(e, AfterSuccess(e, s)) \/ Note(e, AfterFailure(e))
  PROVE  /\ HealthTypeOK'
         /\ told' \in [Endpoints -> BOOLEAN]
         /\ ToldOfEjection'
<1> USE HealthAssumption DEF HealthTypeOK
<1>1. PICK h : /\ Note(e, h)
               /\ h \in [Endpoints -> [slot : 0..MaxSlot, failures : 0..FailureThreshold]]
               /\ \A f \in Endpoints \ {e} : h[f] = health[f]
  <2>1. CASE Note(e, AfterSuccess(e, s))
    <3>1. AfterSuccess(e, s) \in
            [Endpoints -> [slot : 0..MaxSlot, failures : 0..FailureThreshold]]
      BY DEF AfterSuccess
    <3>2. \A f \in Endpoints \ {e} : AfterSuccess(e, s)[f] = health[f]
      BY DEF AfterSuccess
    <3> QED
      BY <2>1, <3>1, <3>2
  <2>2. CASE Note(e, AfterFailure(e))
    <3>1. AfterFailure(e) \in
            [Endpoints -> [slot : 0..MaxSlot, failures : 0..FailureThreshold]]
      BY DEF AfterFailure
    <3>2. \A f \in Endpoints \ {e} : AfterFailure(e)[f] = health[f]
      BY DEF AfterFailure
    <3> QED
      BY <2>2, <3>1, <3>2
  <2> QED
    BY <2>1, <2>2
<1>2. HealthTypeOK'
  BY <1>1 DEF Note
<1>3. IsHealthy(h, e) \in BOOLEAN
  BY DEF IsHealthy
<1>4. told' \in [Endpoints -> BOOLEAN] /\ told'[e] = IsHealthy(h, e)
  BY <1>1, <1>3 DEF Note
<1>5. \A f \in Endpoints \ {e} : told'[f] = told[f] /\ health'[f] = health[f]
  BY <1>1 DEF Note
<1>6. Ejected(health', e) => ~told'[e]
  BY <1>1, <1>4 DEF Note, IsHealthy
<1>7. ToldOfEjection'
  BY <1>5, <1>6 DEF ToldOfEjection, Ejected
<1> QED
  BY <1>2, <1>4, <1>7

LEMMA PoolInvHolds == PoolInit => PoolInv
<1> SUFFICES ASSUME PoolInit
             PROVE  PoolInv
  OBVIOUS
<1> USE DEF PoolInit
<1>1. HealthTypeOK /\ LimiterTypeOK
  BY HealthAssumption, LimiterAssumption DEF HealthInit, HealthTypeOK, LimiterInit, LimiterTypeOK
<1>2. (CHOOSE m \in Methods : TRUE) \in Methods
  BY PoolAssumption
<1>3. PoolTypeOK
  BY <1>1, <1>2, HealthAssumption, CallRecords DEF PoolTypeOK
<1>4. ToldOfEjection
  BY HealthAssumption DEF ToldOfEjection, Ejected, HealthInit
<1>5. AttemptInv
  BY DEF AttemptInv, AttemptOK
<1> QED
  BY <1>3, <1>4, <1>5 DEF PoolInv

LEMMA PoolInvKept == PoolInv /\ [PoolNext]_poolVars => PoolInv'
<1> SUFFICES ASSUME PoolInv, [PoolNext]_poolVars
             PROVE  PoolInv'
  OBVIOUS
<1> USE HealthAssumption DEF PoolInv
<1>1. /\ RequestsTypeOK /\ LimiterTypeOK /\ HealthTypeOK
      /\ freshnessAware \in BOOLEAN /\ slotOf \in [Endpoints -> 1..MaxSlot]
      /\ method \in [Requests -> Methods] /\ told \in [Endpoints -> BOOLEAN]
      /\ ToldOfEjection /\ AttemptInv
  BY DEF PoolTypeOK, RequestsTypeOK
<1>2. ASSUME RequestsTypeOK', LimiterTypeOK', HealthTypeOK',
             freshnessAware' \in BOOLEAN, slotOf' \in [Endpoints -> 1..MaxSlot],
             method' \in [Requests -> Methods], told' \in [Endpoints -> BOOLEAN],
             ToldOfEjection', AttemptInv'
      PROVE  PoolInv'
  BY <1>2 DEF PoolTypeOK, RequestsTypeOK
<1>3. ASSUME NEW e \in Endpoints, Advance(e)
      PROVE  PoolInv'
  <2>1. slotOf' \in [Endpoints -> 1..MaxSlot]
    BY <1>1, <1>3 DEF Advance
  <2> QED
    BY <1>1, <1>2, <1>3, <2>1
       DEF Advance, requestVars, limiterVars, RequestsTypeOK, LimiterTypeOK, HealthTypeOK,
           ToldOfEjection, Ejected, AttemptInv
<1>4. ASSUME NEW r \in Requests, NEW m \in Methods, Request(r, m)
      PROVE  PoolInv'
  <2>1. RequestsTypeOK'
    BY <1>1, <1>4, CallRecords, EmptySeq DEF Request, RequestsTypeOK
  <2>2. AttemptOK(rPc'[r], rest'[r], tried'[r])
    BY <1>1, <1>4 DEF Request, RequestsTypeOK, AttemptOK
  <2>3. \A q \in Requests \ {r} :
          rPc'[q] = rPc[q] /\ rest'[q] = rest[q] /\ tried'[q] = tried[q]
    BY <1>1, <1>4 DEF Request, RequestsTypeOK
  <2>4. AttemptInv'
    BY <1>1, <2>2, <2>3 DEF AttemptInv
  <2>5. method' \in [Requests -> Methods]
    BY <1>1, <1>4 DEF Request
  <2> QED
    BY <1>1, <1>2, <1>4, <2>1, <2>4, <2>5
       DEF Request, limiterVars, LimiterTypeOK, HealthTypeOK, ToldOfEjection, Ejected
<1>5. ASSUME NEW r \in Requests, NEW e \in Endpoints, Serve(r, e)
      PROVE  PoolInv'
  <2>1. [st |-> "ok", slot |-> slotOf[e]] \in Calls
    BY <1>1 DEF Calls
  <2>2. RequestsTypeOK'
    BY <1>1, <1>5, <2>1 DEF Serve, RequestsTypeOK
  <2> QED
    BY <1>1, <1>2, <1>5, <2>2
       DEF Serve, limiterVars, LimiterTypeOK, HealthTypeOK, ToldOfEjection, Ejected, AttemptInv
<1>6. ASSUME NEW r \in Requests, NEW e \in Endpoints, ProbeSucceeds(r, e) \/ ProbeFails(r, e)
      PROVE  PoolInv'
  <2>1. /\ Note(e, AfterSuccess(e, wire[r][e].slot)) \/ Note(e, AfterFailure(e))
        /\ wire' = [wire EXCEPT ![r][e] = NoCall]
        /\ UNCHANGED <<freshnessAware, slotOf, rPc, method, rest, tried, limiterVars>>
    BY <1>6 DEF ProbeSucceeds, ProbeFails
  <2>2. wire[r][e].slot \in 0..MaxSlot
    BY <1>1 DEF RequestsTypeOK, Calls
  <2>3. HealthTypeOK' /\ told' \in [Endpoints -> BOOLEAN] /\ ToldOfEjection'
    BY <1>1, <2>1, <2>2, NoteKeeps
  <2>4. RequestsTypeOK'
    BY <1>1, <2>1, CallRecords DEF RequestsTypeOK
  <2> QED
    BY <1>1, <1>2, <2>1, <2>3, <2>4 DEF limiterVars, LimiterTypeOK, AttemptInv
<1>7. ASSUME NEW r \in Requests, StartAttempts(r)
      PROVE  PoolInv'
  <2>1. PICK o \in AttemptOrders : Proceed(r, o, <<>>)
    BY <1>7 DEF StartAttempts
  <2>2. o \in Seq(Endpoints) /\ Divides(<<>>, o)
    BY <2>1, OrderIsComplete
  <2>3. << >> \in Seq(Endpoints) /\ Len(<< >>) <= MaxAttempts
    BY PoolAssumption, EmptySeq
  <2>4. RequestsTypeOK' /\ AttemptInv' /\ LimiterTypeOK'
    BY <1>1, <2>1, <2>2, <2>3, ProceedKeeps
  <2> QED
    BY <1>1, <1>2, <1>7, <2>4 DEF StartAttempts, HealthTypeOK, ToldOfEjection, Ejected
<1>8. ASSUME NEW r \in Requests, rPc[r] = "calling"
      PROVE  /\ rest[r] \in Seq(Endpoints) /\ rest[r] # <<>> /\ Head(rest[r]) \in Endpoints
             /\ tried[r] \in Seq(Endpoints) /\ Len(tried[r]) < MaxAttempts
             /\ Divides(tried[r], rest[r])
  BY <1>1, <1>8 DEF RequestsTypeOK, AttemptInv, AttemptOK
<1>9. ASSUME NEW r \in Requests, CallSucceeds(r)
      PROVE  PoolInv'
  <2> DEFINE e == Head(rest[r])
  <2>1. /\ rPc[r] = "calling"
        /\ Note(e, AfterSuccess(e, SlotSeen(r, e)))
        /\ Settle(r, "idle", <<>>)
        /\ UNCHANGED <<freshnessAware, slotOf, method, limiterVars>>
    BY <1>9 DEF CallSucceeds
  <2>2. e \in Endpoints
    BY <1>8, <2>1
  <2>3. SlotSeen(r, e) \in 0..MaxSlot
    BY <1>1, <2>2 DEF SlotSeen, RequestsTypeOK, Calls
  <2>4. HealthTypeOK' /\ told' \in [Endpoints -> BOOLEAN] /\ ToldOfEjection'
    BY <1>1, <2>1, <2>2, <2>3, NoteKeeps
  <2>5. << >> \in Seq(Endpoints) /\ AttemptOK("idle", <<>>, <<>>)
    BY EmptySeq DEF AttemptOK
  <2>6. RequestsTypeOK' /\ AttemptInv'
    BY <1>1, <2>1, <2>5, SettleKeeps
  <2> QED
    BY <1>1, <1>2, <2>1, <2>4, <2>6 DEF limiterVars, LimiterTypeOK
<1>10. ASSUME NEW r \in Requests, CallFails(r)
       PROVE  PoolInv'
  <2> DEFINE e == Head(rest[r])
             o == Tail(rest[r])
             attempts == Append(tried[r], e)
  <2>1. /\ rPc[r] = "calling"
        /\ Note(e, AfterFailure(e))
        /\ Proceed(r, o, attempts)
        /\ UNCHANGED <<freshnessAware, slotOf, method>>
    BY <1>10 DEF CallFails
  <2>2. /\ rest[r] \in Seq(Endpoints) /\ rest[r] # <<>> /\ e \in Endpoints
        /\ tried[r] \in Seq(Endpoints) /\ Len(tried[r]) < MaxAttempts
        /\ Divides(tried[r], rest[r])
    BY <1>8, <2>1
  <2>3. /\ o \in Seq(Endpoints) /\ attempts \in Seq(Endpoints)
        /\ Len(attempts) <= MaxAttempts /\ Divides(attempts, o)
    BY <2>2, OneMoreTried
  <2>4. HealthTypeOK' /\ told' \in [Endpoints -> BOOLEAN] /\ ToldOfEjection'
    BY <1>1, <2>1, <2>2, NoteKeeps
  <2>5. RequestsTypeOK' /\ AttemptInv' /\ LimiterTypeOK'
    <3> HIDE DEF e, o, attempts
    <3> QED
      BY <1>1, <2>1, <2>3, ProceedKeeps
  <2> QED
    BY <1>1, <1>2, <2>1, <2>4, <2>5
<1>11. CASE LimiterStep
  <2>1. LimiterTypeOK'
    BY <1>1, <1>11, LimiterTypeKept DEF LimiterStep
  <2> QED
    BY <1>1, <1>2, <1>11, <2>1
       DEF LimiterStep, requestVars, RequestsTypeOK, HealthTypeOK, ToldOfEjection, Ejected,
           AttemptInv
<1>12. CASE UNCHANGED poolVars
  BY <1>1, <1>2, <1>12
     DEF poolVars, requestVars, limiterVars, RequestsTypeOK, LimiterTypeOK, HealthTypeOK,
         ToldOfEjection, Ejected, AttemptInv
<1> QED
  BY <1>3, <1>4, <1>5, <1>6, <1>7, <1>9, <1>10, <1>11, <1>12 DEF PoolNext, Return

-----------------------------------------------------------------------------
(* The theorems about the pool.                                            *)

\* PoolInv, the invariant the properties of the pool follow from, holds
\* throughout (pool.ts:110-231).
THEOREM PoolInductive == PoolSpec => []PoolInv
BY PoolInvHolds, PoolInvKept, PTL DEF PoolSpec

\* The pool, its monitor and its bucket keep their types.
THEOREM PoolTypeCorrect == PoolSpec => []PoolTypeOK
<1>1. PoolInv => PoolTypeOK
  BY DEF PoolInv
<1> QED
  BY <1>1, PoolInductive, PTL

\* A UI was told of every endpoint that is ejected for its failures, with any
\* number of requests and probes that fail at the same time (pool.ts:206-230).
THEOREM EjectionIsTold == PoolSpec => []ToldOfEjection
<1>1. PoolInv => ToldOfEjection
  BY DEF PoolInv
<1> QED
  BY <1>1, PoolInductive, PTL

\* AllEndpointsFailedError means that as many different endpoints as maxAttempts
\* allows failed the request or could not be paid for, and all of them if there
\* are no more, in every ranking and with any other requests (pool.ts:125-166).
THEOREM FailureIsExhaustive == PoolSpec => []FailsOnlyAfterAll
<1>1. PoolInv => FailsOnlyAfterAll
  <2> SUFFICES ASSUME PoolInv, NEW r \in Requests
               PROVE  /\ Len(tried[r]) <= MaxAttempts
                      /\ rPc[r] = "failed" =>
                           \/ Cardinality(Ends(tried[r])) = MaxAttempts
                           \/ Ends(tried[r]) = Endpoints
    BY DEF FailsOnlyAfterAll, Ends
  <2>1. /\ rPc[r] \in {"idle", "probing", "calling", "failed"}
        /\ tried[r] \in Seq(Endpoints)
        /\ AttemptOK(rPc[r], rest[r], tried[r])
    BY DEF PoolInv, PoolTypeOK, AttemptInv
  <2>2. Len(tried[r]) <= MaxAttempts
    BY <2>1, PoolAssumption, EmptySeq DEF AttemptOK
  <2>3. ASSUME rPc[r] = "failed", Len(tried[r]) = MaxAttempts
        PROVE  Cardinality(Ends(tried[r])) = MaxAttempts
    BY <2>1, <2>3, DistinctEnds, PoolAssumption DEF AttemptOK
  <2> QED
    BY <2>1, <2>2, <2>3 DEF AttemptOK
<1> QED
  BY <1>1, PoolInductive, PTL
-----------------------------------------------------------------------------
(* The credit bucket and the provider's count.                             *)

\* What was spent in the last ticks came from the present refill and, if they
\* reach back before it, from one more.
AtMostSpent ==
  \A i \in Ages :
    spent[i] <= (CreditsPerWindow - credits)
                + (IF i < elapsed THEN 0 ELSE CreditsPerWindow)

\* What the present refill has lost was spent since it was made.
AtLeastSpent ==
  \A i \in Ages : i >= elapsed => spent[i] >= CreditsPerWindow - credits

BudgetInv == BudgetTypeOK /\ AtMostSpent /\ AtLeastSpent

\* The bucket holds what its present window has not spent, and no window of the
\* provider's meets more than two of its own (rate-limit.ts:58-75).
THEOREM BudgetInductive == BudgetSpec => []BudgetInv
<1> USE LimiterAssumption
<1>1. BudgetInit => BudgetInv
  BY DEF BudgetInit, LimiterInit, BudgetInv, BudgetTypeOK, LimiterTypeOK, AtMostSpent,
         AtLeastSpent, Ages
<1>2. ASSUME BudgetInv, [BudgetNext]_budgetVars
      PROVE  BudgetInv'
  <2> USE DEF BudgetInv, BudgetTypeOK, LimiterTypeOK, AtMostSpent, AtLeastSpent, Ages
  <2>1. ASSUME NEW m \in Methods, Pay(m)
        PROVE  BudgetInv'
    <3>1. Cost[m] \in Nat
      OBVIOUS
    <3>2. CASE elapsed >= Window
      BY <1>2, <2>1, <3>1, <3>2 DEF Pay, Acquire, Affordable, Refilled, Anchored
    <3>3. CASE ~(elapsed >= Window)
      BY <1>2, <2>1, <3>1, <3>3 DEF Pay, Acquire, Affordable, Refilled, Anchored
    <3> QED
      BY <3>2, <3>3
  <2>2. CASE PayNothing
    BY <1>2, <2>2 DEF PayNothing, Refill, Refilled, Anchored
  <2>3. CASE Pass
    BY <1>2, <2>3 DEF Pass, Tick
  <2>4. CASE UNCHANGED budgetVars
    BY <1>2, <2>4 DEF budgetVars, limiterVars
  <2> QED
    BY <1>2, <2>1, <2>2, <2>3, <2>4 DEF BudgetNext
<1> QED
  BY <1>1, <1>2, PTL DEF BudgetSpec

\* A provider that counts over any window of the clock sees at most twice the
\* configured rate, whatever is called and when, for every table of weights
\* (rate-limit.ts:58-75).
THEOREM ProviderSeesTwiceTheRate == BudgetSpec => []SlidingWindowHolds
<1>1. BudgetInv => SlidingWindowHolds
  BY LimiterAssumption
     DEF BudgetInv, BudgetTypeOK, LimiterTypeOK, AtMostSpent, SlidingWindowHolds, Counted, Ages
<1> QED
  BY <1>1, BudgetInductive, PTL

\* tryAcquire refuses a call the bucket could ever pay for only if the provider
\* would have counted more than the configured rate (rate-limit.ts:67-75).
THEOREM LimiterNoStricter == BudgetSpec => []RefusedOnlyIfSpent
<1>1. BudgetInv => RefusedOnlyIfSpent
  BY LimiterAssumption
     DEF BudgetInv, BudgetTypeOK, LimiterTypeOK, AtLeastSpent, RefusedOnlyIfSpent, Counted,
         Ages, Affordable, Refilled
<1> QED
  BY <1>1, BudgetInductive, PTL


=============================================================================
