----------------------------- MODULE Cli_proofs -----------------------------
(***************************************************************************)
(* Theorems about the command line tool (cli/index.ts, cli/diagnose.ts),   *)
(* for any list of URLs, ejection threshold, lag and slots, and about the  *)
(* fee advice (fees/), for any samples, units and prices.                  *)
(***************************************************************************)
EXTENDS Cli, Fees, FiniteSetTheorems, SequenceTheorems, TLAPS

-----------------------------------------------------------------------------
(* The inductive invariant of the tool.                                    *)

Answers == [ok : BOOLEAN, slot : 0..MaxSlot, done : BOOLEAN]

\* The answers that failed for the endpoint e.
Failed(e) == {i \in Alike(e) : probes[i].done /\ ~probes[i].ok}

\* The types, as far as the properties need them.
CliTypeOK ==
  /\ HealthTypeOK
  /\ cPc \in {"command", "probe", "explain", "probing", "explaining", "done"}
  /\ DOMAIN flags = DOMAIN Values
  /\ flags.rpc \in Seq(Endpoints)

\* Nothing has been asked of any endpoint.
NothingAsked == probes = <<>> /\ report = NoReport /\ told = "none"

\* The monitor knows of each endpoint its last answer, and counts no more
\* failures than the endpoint's calls that failed.
Heard ==
  \A e \in Endpoints :
    /\ health[e].slot # 0 =>
         \E i \in Alike(e) : probes[i].ok /\ probes[i].slot = health[e].slot
    /\ (\E i \in Alike(e) : probes[i].ok) => health[e].slot # 0
    /\ health[e].failures <= Cardinality(Failed(e))

\* While the probes of Promise.all are out (diagnose.ts:72-97).
Probing ==
  /\ flags.rpc # <<>>
  /\ probes \in [DOMAIN flags.rpc -> Answers]
  /\ \A i \in DOMAIN probes : probes[i].ok => probes[i].done /\ probes[i].slot # 0
  /\ report = NoReport /\ told = "none"
  /\ Heard

\* What each stretch of the run has done so far, and at its end what it says.
CliPhaseInv ==
  /\ cPc \in {"command", "probe", "explain"} => HealthInit /\ NothingAsked
  /\ cPc = "explaining" => NothingAsked
  /\ cPc = "probing" => Probing
  /\ cPc = "done" => ExitCodeIsTrue /\ FreshestIsFresh

CliInv == CliTypeOK /\ CliPhaseInv

-----------------------------------------------------------------------------
(* Endpoints and their probes.                                             *)

LEMMA FlagNames == DOMAIN Values = {"rpc", "sig", "lvbh"} /\ Values["rpc"] = Endpoints
BY DEF Values

LEMMA AlikeFinite ==
  ASSUME NEW e, DOMAIN probes = 1..Len(flags.rpc), Len(flags.rpc) \in Nat
  PROVE  /\ IsFiniteSet(Alike(e)) /\ IsFiniteSet(Failed(e))
         /\ Cardinality(Alike(e)) \in Nat /\ Cardinality(Failed(e)) \in Nat
<1>1. IsFiniteSet(DOMAIN probes)
  BY FS_Interval
<1>2. Alike(e) \subseteq DOMAIN probes /\ Failed(e) \subseteq Alike(e)
  BY DEF Alike, Failed
<1>3. IsFiniteSet(Alike(e))
  BY <1>1, <1>2, FS_Subset
<1> QED
  BY <1>2, <1>3, FS_Subset, FS_CardinalityType

LEMMA PairHasTwo ==
  ASSUME NEW a, NEW b, Cardinality({a, b}) <= 1
  PROVE  a = b
<1> SUFFICES ASSUME a # b
             PROVE  FALSE
  OBVIOUS
<1>1. IsFiniteSet({a}) /\ Cardinality({a}) = 1
  BY FS_Singleton
<1>2. Cardinality({a} \cup {b}) = 1 + 1
  BY <1>1, FS_AddElement
<1>3. {a} \cup {b} = {a, b}
  OBVIOUS
<1> QED
  BY <1>2, <1>3

\* Some element of a set of endpoints has the highest slot.
LEMMA SomeFreshest ==
  ASSUME NEW S, S \subseteq Endpoints, S # {}, HealthTypeOK
  PROVE  \E e \in S : \A f \in S : health[f].slot <= health[e].slot
<1> DEFINE T == {n \in Nat : \E e \in S : n = MaxSlot - health[e].slot}
           R == OpToRel(<, Nat)
<1>1. \A e \in S : health[e].slot \in 0..MaxSlot /\ MaxSlot - health[e].slot \in T
  BY HealthAssumption DEF HealthTypeOK
<1>2. T \subseteq Nat /\ T # {}
  BY <1>1
<1>3. IsWellFoundedOn(R, Nat)
  BY NatLessThanWellFounded
<1> HIDE DEF R
<1>4. PICK n \in T : \A m \in T : ~(<<m, n>> \in R)
  <2> HIDE DEF T
  <2> QED
    BY <1>2, <1>3, WFMin
<1>5. \A m \in T : m >= n
  <2> HIDE DEF T
  <2>1. ASSUME NEW m \in T
        PROVE  m >= n
    <3>1. m \in Nat /\ n \in Nat
      BY <1>2
    <3>2. m < n => <<m, n>> \in R
      BY <3>1 DEF R, OpToRel
    <3> QED
      BY <1>4, <3>1, <3>2
  <2> QED
    BY <2>1
<1>6. PICK e \in S : n = MaxSlot - health[e].slot
  BY <1>4
<1>7. \A f \in S : health[f].slot <= health[e].slot
  <2> HIDE DEF T
  <2>1. ASSUME NEW f \in S
        PROVE  health[f].slot <= health[e].slot
    <3>1. MaxSlot - health[f].slot >= MaxSlot - health[e].slot
      BY <1>1, <1>5, <1>6
    <3> QED
      BY <1>1, <3>1, HealthAssumption
  <2> QED
    BY <2>1
<1> QED
  BY <1>7

\* What has been heard, once all have answered, is enough to name the freshest.
LEMMA ReportIsFresh ==
  ASSUME CliTypeOK, Probing, \A i \in DOMAIN probes : probes[i].done,
         Up # {}, NamedAtMost(FailureThreshold)
  PROVE  /\ FirstRanked # {}
         /\ \A e \in FirstRanked : \E i \in Alike(e) : probes[i].ok
         /\ NamedAtMost(1) =>
              \A e \in FirstRanked : \A i \in Alike(e), j \in Up :
                probes[i].slot >= probes[j].slot
<1> DEFINE n == Len(flags.rpc)
<1>1. /\ n \in Nat /\ DOMAIN flags.rpc = 1..n /\ DOMAIN probes = 1..n
      /\ \A i \in 1..n : flags.rpc[i] \in Endpoints /\ flags.rpc[i] \in Named
      /\ probes \in [1..n -> Answers]
  BY DEF CliTypeOK, Probing, Named
<1>2. Named \subseteq Endpoints
  BY <1>1 DEF Named
<1>3. \A e \in Endpoints : health[e].slot \in 0..MaxSlot /\ health[e].failures \in Nat
  BY HealthAssumption DEF CliTypeOK, HealthTypeOK
<1>4. \A e \in Endpoints : health[e].slot # 0 => e \in Named
  BY <1>1 DEF Probing, Heard, Alike
<1>5. ASSUME NEW e \in Named, health[e].slot # 0
      PROVE  ~Ejected(health, e)
  <2>1. PICK i \in Alike(e) : probes[i].ok
    BY <1>2, <1>5 DEF Probing, Heard
  <2>2. Failed(e) \subseteq Alike(e) /\ Failed(e) # Alike(e)
    BY <2>1 DEF Failed
  <2>3. /\ IsFiniteSet(Alike(e))
        /\ Cardinality(Alike(e)) \in Nat /\ Cardinality(Failed(e)) \in Nat
    BY <1>1, AlikeFinite
  <2>4. Cardinality(Failed(e)) < Cardinality(Alike(e))
    BY <2>2, <2>3, FS_Subset
  <2>5. health[e].failures <= Cardinality(Failed(e))
    BY <1>2 DEF Probing, Heard
  <2>6. Cardinality(Alike(e)) <= FailureThreshold
    BY DEF NamedAtMost
  <2> QED
    BY <1>2, <1>3, <2>3, <2>4, <2>5, <2>6, HealthAssumption DEF Ejected
<1>6. ASSUME NEW e \in Named, health[e].slot # 0,
             \A f \in Named : health[f].slot <= health[e].slot
      PROVE  e \in Healthy
  <2>1. ~Stale(health, e)
    <3>1. \A f \in Endpoints : health[f].slot <= health[e].slot
      BY <1>2, <1>3, <1>4, <1>6
    <3> QED
      BY <1>2, <1>3, <3>1, HealthAssumption DEF Stale
  <2> QED
    BY <1>2, <1>5, <1>6, <2>1 DEF Healthy, IsHealthy
<1>7. \A j \in Up : /\ flags.rpc[j] \in Named
                    /\ health[flags.rpc[j]].slot # 0
  BY <1>1, <1>2 DEF Up, Alike, Probing, Heard
<1>8. PICK e \in Named : \A f \in Named : health[f].slot <= health[e].slot
  <2>1. Named # {}
    BY <1>7
  <2> QED
    BY <1>2, <2>1, SomeFreshest DEF CliTypeOK
<1>9. health[e].slot # 0
  <2>1. PICK j \in Up : TRUE
    OBVIOUS
  <2> QED
    BY <1>2, <1>3, <1>7, <1>8, <2>1
<1>10. e \in Healthy
  BY <1>6, <1>8, <1>9
<1>11. e \in FirstRanked
  BY <1>8, <1>10 DEF FirstRanked
<1>12. \A f \in FirstRanked : f \in Named /\ health[f].slot >= health[e].slot
  BY <1>10 DEF FirstRanked
<1>13. \A f \in FirstRanked : f \in Named /\ health[f].slot # 0
  BY <1>2, <1>3, <1>9, <1>12
<1>14. \A f \in FirstRanked : \E i \in Alike(f) : probes[i].ok
  BY <1>2, <1>13 DEF Probing, Heard
<1>15. ASSUME NamedAtMost(1), NEW f \in FirstRanked, NEW i \in Alike(f), NEW j \in Up
       PROVE  probes[i].slot >= probes[j].slot
  <2>1. ASSUME NEW g \in Named, NEW k \in Alike(g), health[g].slot # 0
        PROVE  probes[k].slot = health[g].slot
    <3>1. PICK l \in Alike(g) : probes[l].slot = health[g].slot
      BY <1>2, <2>1 DEF Probing, Heard
    <3>2. k = l
      <4>1. Cardinality(Alike(g)) <= 1 /\ IsFiniteSet(Alike(g))
        BY <1>1, <1>15, AlikeFinite DEF NamedAtMost
      <4>2. Cardinality({k, l}) <= 1
        BY <1>1, <3>1, <4>1, AlikeFinite, FS_Subset, FS_CardinalityType
      <4> QED
        BY <4>2, PairHasTwo
    <3> QED
      BY <3>1, <3>2
  <2>2. probes[i].slot = health[f].slot
    BY <1>13, <2>1
  <2>3. j \in Alike(flags.rpc[j])
    BY DEF Up, Alike
  <2>4. probes[j].slot = health[flags.rpc[j]].slot
    BY <1>7, <2>1, <2>3
  <2>5. health[flags.rpc[j]].slot <= health[e].slot /\ health[e].slot <= health[f].slot
    BY <1>7, <1>8, <1>12
  <2> QED
    BY <1>2, <1>3, <1>7, <1>12, <2>2, <2>4, <2>5
<1> QED
  BY <1>11, <1>14, <1>15

\* A probe is answered: the monitor knows the slot, and no failure counts.
LEMMA AnswerIsHeard ==
  ASSUME CliTypeOK, cPc = "probing", Probing, NEW i \in DOMAIN probes, ProbeAnswers(i)
  PROVE  CliTypeOK' /\ Probing'
<1> DEFINE n == Len(flags.rpc)
<1>0. PICK u \in Endpoints : u = flags.rpc[i]
  BY DEF CliTypeOK, Probing
<1>1. /\ n \in Nat /\ DOMAIN flags.rpc = 1..n /\ DOMAIN probes = 1..n
      /\ i \in 1..n
      /\ probes \in [1..n -> Answers]
  BY DEF CliTypeOK, Probing
<1>2. PICK s \in 1..MaxSlot :
        /\ probes' = [probes EXCEPT ![i] = [ok |-> TRUE, slot |-> s, done |-> TRUE]]
        /\ health' = AfterSuccess(u, s)
  BY <1>0 DEF ProbeAnswers
<1>3. UNCHANGED <<cPc, flags, report, told, code>> /\ ~probes[i].done
  BY DEF ProbeAnswers
<1>4. s \in 0..MaxSlot /\ s # 0
  BY HealthAssumption
<1>5. health' \in [Endpoints -> [slot : 0..MaxSlot, failures : 0..FailureThreshold]]
  BY <1>1, <1>2, <1>4, HealthAssumption DEF AfterSuccess, CliTypeOK, HealthTypeOK
<1>6. /\ health'[u].slot = s /\ health'[u].failures = 0
      /\ \A e \in Endpoints \ {u} : health'[e] = health[e]
  BY <1>1, <1>2, <1>4 DEF AfterSuccess, CliTypeOK, HealthTypeOK
<1>7. probes' \in [1..n -> Answers]
  BY <1>1, <1>2, <1>4 DEF Answers
<1>8. /\ probes'[i].ok /\ probes'[i].slot = s /\ probes'[i].done
      /\ \A j \in 1..n : j # i => probes'[j] = probes[j]
  BY <1>1, <1>2
<1>9. \A e : Alike(e)' = Alike(e)
  BY <1>1, <1>3, <1>7 DEF Alike
<1>10. i \in Alike(u) /\ \A e \in Endpoints \ {u} : i \notin Alike(e)
  BY <1>0 DEF Alike
<1>11. \A e \in Endpoints : Alike(e) \subseteq 1..n
  BY <1>1 DEF Alike
<1>12. \A e \in Endpoints \ {u} : Failed(e)' = Failed(e)
  BY <1>8, <1>9, <1>10, <1>11 DEF Failed
<1>13. Cardinality(Failed(u)') \in Nat
  <2>1. IsFiniteSet(1..n)
    BY <1>1, FS_Interval
  <2>2. Failed(u)' \subseteq 1..n
    BY <1>9, <1>11 DEF Failed
  <2> QED
    BY <2>1, <2>2, FS_Subset, FS_CardinalityType
<1>14. Heard'
  <2>1. ASSUME NEW e \in Endpoints \ {u}
        PROVE  /\ health'[e].slot # 0 =>
                    \E j \in Alike(e)' : probes'[j].ok /\ probes'[j].slot = health'[e].slot
               /\ (\E j \in Alike(e)' : probes'[j].ok) => health'[e].slot # 0
               /\ health'[e].failures <= Cardinality(Failed(e)')
    BY <1>6, <1>8, <1>9, <1>10, <1>11, <1>12 DEF Probing, Heard
  <2>2. /\ \E j \in Alike(u)' : probes'[j].ok /\ probes'[j].slot = health'[u].slot
        /\ health'[u].slot # 0
        /\ health'[u].failures <= Cardinality(Failed(u)')
    BY <1>4, <1>6, <1>8, <1>9, <1>10, <1>13
  <2> QED
    BY <1>1, <2>1, <2>2 DEF Heard
<1>15. \A j \in 1..n : probes'[j].ok => probes'[j].done /\ probes'[j].slot # 0
  BY <1>1, <1>4, <1>8 DEF Probing
<1> QED
  BY <1>1, <1>3, <1>5, <1>7, <1>14, <1>15 DEF CliTypeOK, HealthTypeOK, Probing, NothingAsked

\* A probe fails: the monitor counts at most one failure more.
LEMMA FailureIsHeard ==
  ASSUME CliTypeOK, cPc = "probing", Probing, NEW i \in DOMAIN probes, ProbeFails(i)
  PROVE  CliTypeOK' /\ Probing'
<1> DEFINE n == Len(flags.rpc)
<1>0. PICK u \in Endpoints : u = flags.rpc[i]
  BY DEF CliTypeOK, Probing
<1>1. /\ n \in Nat /\ DOMAIN flags.rpc = 1..n /\ DOMAIN probes = 1..n
      /\ i \in 1..n
      /\ probes \in [1..n -> Answers]
  BY DEF CliTypeOK, Probing
<1>2. /\ probes' = [probes EXCEPT ![i].done = TRUE]
      /\ health' = AfterFailure(u)
      /\ UNCHANGED <<cPc, flags, report, told, code>> /\ ~probes[i].done
  BY <1>0 DEF ProbeFails
<1>3. health' \in [Endpoints -> [slot : 0..MaxSlot, failures : 0..FailureThreshold]]
  <2>1. health \in [Endpoints -> [slot : 0..MaxSlot, failures : 0..FailureThreshold]]
    BY DEF CliTypeOK, HealthTypeOK
  <2>2. AfterFailure(u) \in
          [Endpoints -> [slot : 0..MaxSlot, failures : 0..FailureThreshold]]
    <3>1. /\ health[u] \in [slot : 0..MaxSlot, failures : 0..FailureThreshold]
          /\ (IF health[u].failures < FailureThreshold
              THEN health[u].failures + 1 ELSE health[u].failures) \in 0..FailureThreshold
      BY <2>1, HealthAssumption
    <3> QED
      BY <2>1, <3>1 DEF AfterFailure
  <2> QED
    BY <1>2, <2>2
<1>4. /\ health'[u].slot = health[u].slot
      /\ health'[u].failures <= health[u].failures + 1
      /\ \A e \in Endpoints \ {u} : health'[e] = health[e]
  BY <1>1, <1>2, HealthAssumption DEF AfterFailure, CliTypeOK, HealthTypeOK
<1>5. probes' \in [1..n -> Answers]
  BY <1>1, <1>2 DEF Answers
<1>6. /\ ~probes[i].ok
      /\ ~probes'[i].ok /\ probes'[i].done
      /\ \A j \in 1..n : j # i => probes'[j] = probes[j]
  BY <1>1, <1>2 DEF Probing, Answers
<1>7. \A e : Alike(e)' = Alike(e)
  BY <1>1, <1>2, <1>5 DEF Alike
<1>8. i \in Alike(u) /\ \A e \in Endpoints \ {u} : i \notin Alike(e)
  BY <1>0 DEF Alike
<1>9. \A e \in Endpoints : Alike(e) \subseteq 1..n
  BY <1>1 DEF Alike
<1>10. \A e \in Endpoints \ {u} : Failed(e)' = Failed(e)
  BY <1>6, <1>7, <1>8, <1>9 DEF Failed
<1>11. Failed(u)' = Failed(u) \cup {i} /\ i \notin Failed(u)
  BY <1>1, <1>2, <1>6, <1>7, <1>8, <1>9 DEF Failed
<1>12. Cardinality(Failed(u)') = Cardinality(Failed(u)) + 1
  BY <1>1, <1>11, AlikeFinite, FS_AddElement
<1>13. Heard'
  <2>1. ASSUME NEW e \in Endpoints \ {u}
        PROVE  /\ health'[e].slot # 0 =>
                    \E j \in Alike(e)' : probes'[j].ok /\ probes'[j].slot = health'[e].slot
               /\ (\E j \in Alike(e)' : probes'[j].ok) => health'[e].slot # 0
               /\ health'[e].failures <= Cardinality(Failed(e)')
    BY <1>4, <1>6, <1>7, <1>8, <1>9, <1>10 DEF Probing, Heard
  <2>2. /\ health'[u].slot # 0 =>
             \E j \in Alike(u)' : probes'[j].ok /\ probes'[j].slot = health'[u].slot
        /\ (\E j \in Alike(u)' : probes'[j].ok) => health'[u].slot # 0
    <3>1. \A j \in Alike(u) : j # i => probes'[j] = probes[j]
      BY <1>1, <1>6, <1>9
    <3> QED
      BY <1>1, <1>4, <1>6, <1>7, <3>1 DEF Probing, Heard
  <2>3. health'[u].failures <= Cardinality(Failed(u)')
    <3>1. health[u].failures <= Cardinality(Failed(u)) /\ Cardinality(Failed(u)) \in Nat
      BY <1>1, AlikeFinite DEF Probing, Heard
    <3>2. health[u].failures \in Nat /\ health'[u].failures \in Nat
      BY <1>1, <1>3, HealthAssumption DEF CliTypeOK, HealthTypeOK
    <3> QED
      BY <1>4, <1>12, <3>1, <3>2
  <2> QED
    BY <1>1, <2>1, <2>2, <2>3 DEF Heard
<1>14. \A j \in 1..n : probes'[j].ok => probes'[j].done /\ probes'[j].slot # 0
  BY <1>1, <1>6 DEF Probing
<1> QED
  BY <1>1, <1>2, <1>3, <1>5, <1>13, <1>14 DEF CliTypeOK, HealthTypeOK, Probing, NothingAsked

\* The report is made from what has been heard.
LEMMA ReportKeeps ==
  ASSUME CliTypeOK, cPc = "probing", Probing, Reports
  PROVE  ExitCodeIsTrue' /\ FreshestIsFresh'
<1> DEFINE n == Len(flags.rpc)
<1>1. /\ n \in Nat /\ n # 0 /\ DOMAIN flags.rpc = 1..n /\ DOMAIN probes = 1..n
      /\ probes # <<>>
  BY DEF CliTypeOK, Probing
<1>2. /\ \A i \in DOMAIN probes : probes[i].done
      /\ report' = [report EXCEPT !.freshest = FirstRanked, !.healthyCount = Cardinality(Up)]
      /\ cPc' = "done" /\ code' = IF Up # {} THEN 0 ELSE 1
      /\ UNCHANGED <<health, flags, probes, told>>
  BY DEF Reports, Exits
<1>3. /\ report'.freshest = FirstRanked /\ report'.healthyCount = Cardinality(Up)
      /\ report'.verdict = "none" /\ told' = "none"
  BY <1>2 DEF Probing, NoReport
<1>4. IsFiniteSet(Up)
  <2>1. IsFiniteSet(1..n) /\ Up \subseteq 1..n
    BY <1>1, FS_Interval DEF Up
  <2> QED
    BY <2>1, FS_Subset
<1>5. Cardinality(Up) \in Nat /\ (Cardinality(Up) > 0 <=> Up # {})
  BY <1>4, FS_EmptySet, FS_CardinalityType
<1>6. ExitCodeIsTrue'
  BY <1>1, <1>2, <1>3, <1>5 DEF ExitCodeIsTrue
<1>7. /\ Up' = Up /\ \A e : Alike(e)' = Alike(e)
      /\ \A m : NamedAtMost(m)' <=> NamedAtMost(m)
  BY <1>2 DEF Up, Alike, NamedAtMost, Named
<1>8. FreshestIsFresh'
  BY <1>2, <1>3, <1>5, <1>7, ReportIsFresh DEF FreshestIsFresh
<1> QED
  BY <1>6, <1>8

LEMMA CliInvHolds == CliInit => CliInv
<1> SUFFICES ASSUME CliInit
             PROVE  CliInv
  OBVIOUS
<1>1. HealthTypeOK
  BY HealthAssumption DEF CliInit, HealthInit, HealthTypeOK
<1>2. DOMAIN flags = DOMAIN Values /\ flags.rpc = <<>>
  BY FlagNames DEF CliInit
<1>3. CliTypeOK
  BY <1>1, <1>2, EmptySeq DEF CliTypeOK, CliInit
<1>4. CliPhaseInv
  BY DEF CliPhaseInv, CliInit, NothingAsked
<1> QED
  BY <1>3, <1>4 DEF CliInv

\* A tool that exits before it asks anything exits with 2.
LEMMA UsageError ==
  ASSUME NothingAsked, Exits(2), UNCHANGED <<health, flags, probes, report, told>>
  PROVE  ExitCodeIsTrue' /\ FreshestIsFresh'
BY DEF NothingAsked, NoReport, Exits, ExitCodeIsTrue, FreshestIsFresh

LEMMA CliInvKept == CliInv /\ [CliNext]_cliVars => CliInv'
<1> SUFFICES ASSUME CliInv, [CliNext]_cliVars
             PROVE  CliInv'
  OBVIOUS
<1> USE DEF CliInv
<1>0. ASSUME UNCHANGED <<health, flags>>,
             cPc' \in {"command", "probe", "explain", "probing", "explaining", "done"}
      PROVE  CliTypeOK'
  BY <1>0 DEF CliTypeOK, HealthTypeOK
<1>1. CASE parseArgs
  <2>1. CliTypeOK'
    BY <1>0, <1>1 DEF parseArgs
  <2> QED
    BY <1>1, <2>1 DEF parseArgs, CliPhaseInv, NothingAsked, HealthInit
<1>2. ASSUME NEW k \in DOMAIN Values, collectFlags(k)
      PROVE  CliInv'
  <2>1. PICK v \in Values[k] : flags' = [flags EXCEPT ![k] = Append(@, v)]
    BY <1>2 DEF collectFlags
  <2>2. DOMAIN flags' = DOMAIN Values
    BY <2>1 DEF CliTypeOK
  <2>3. flags'.rpc \in Seq(Endpoints)
    <3>1. CASE k = "rpc"
      <4>1. v \in Endpoints
        BY <2>1, <3>1, FlagNames
      <4> QED
        BY <2>1, <3>1, <4>1, FlagNames DEF CliTypeOK
    <3>2. CASE k # "rpc"
      BY <2>1, <3>2, FlagNames DEF CliTypeOK
    <3> QED
      BY <3>1, <3>2
  <2>4. CliTypeOK'
    BY <1>2, <2>2, <2>3 DEF collectFlags, CliTypeOK, HealthTypeOK
  <2> QED
    BY <1>2, <2>4 DEF collectFlags, CliPhaseInv, NothingAsked, HealthInit
<1>3. CASE Malformed \/ Rejected
  <2>1. /\ NothingAsked /\ Exits(2)
        /\ UNCHANGED <<health, flags, probes, report, told>>
    BY <1>3 DEF Malformed, Rejected, CliPhaseInv
  <2>2. ExitCodeIsTrue' /\ FreshestIsFresh' /\ cPc' = "done"
    BY <2>1, UsageError DEF Exits
  <2>3. CliTypeOK'
    BY <1>0, <2>1, <2>2
  <2> QED
    BY <2>2, <2>3 DEF CliPhaseInv
<1>4. CASE Starts
  <2>1. /\ HealthInit /\ NothingAsked /\ flags.rpc \in Seq(Endpoints)
        /\ UNCHANGED <<health, flags, report, told, code>>
    BY <1>4 DEF Starts, CliPhaseInv, CliTypeOK
  <2>2. CASE cPc # "probe"
    <3>1. cPc' = "explaining" /\ UNCHANGED probes
      BY <1>4, <2>2 DEF Starts
    <3>2. CliTypeOK'
      BY <1>0, <2>1, <3>1
    <3> QED
      BY <2>1, <3>1, <3>2 DEF CliPhaseInv, NothingAsked
  <2>3. CASE cPc = "probe"
    <3>1. /\ cPc' = "probing" /\ flags.rpc # <<>>
          /\ probes' = [i \in DOMAIN flags.rpc |-> Waiting]
      BY <1>4, <2>3 DEF Starts, WellFormed
    <3>2. CliTypeOK'
      BY <1>0, <2>1, <3>1
    <3>3. Waiting \in Answers /\ ~Waiting.ok
      BY HealthAssumption DEF Waiting, Answers
    <3>4. /\ probes' \in [DOMAIN flags.rpc -> Answers]
          /\ \A i \in DOMAIN probes' : ~probes'[i].ok
      BY <3>1, <3>3
    <3>5. ASSUME NEW e \in Endpoints
          PROVE  /\ health'[e].slot = 0 /\ health'[e].failures = 0
                 /\ \A i \in Alike(e)' : ~probes'[i].ok
                 /\ Cardinality(Failed(e)') \in Nat
      <4>1. health'[e].slot = 0 /\ health'[e].failures = 0
        BY <2>1 DEF HealthInit
      <4>2. \A i \in Alike(e)' : ~probes'[i].ok
        BY <3>4 DEF Alike
      <4>3. Failed(e)' = {}
        BY <2>1, <3>1 DEF Failed, Alike, Waiting
      <4> QED
        BY <4>1, <4>2, <4>3, FS_EmptySet
    <3>6. Heard'
      BY <3>5 DEF Heard
    <3>7. Probing'
      BY <2>1, <3>1, <3>4, <3>6 DEF Probing, NothingAsked
    <3> QED
      BY <3>1, <3>2, <3>7 DEF CliPhaseInv
  <2> QED
    BY <2>2, <2>3
<1>5. ASSUME NEW i \in DOMAIN probes, ProbeAnswers(i) \/ ProbeFails(i)
      PROVE  CliInv'
  <2>1. cPc = "probing" /\ Probing /\ cPc' = cPc /\ CliTypeOK
    BY <1>5 DEF ProbeAnswers, ProbeFails, CliPhaseInv
  <2>2. CliTypeOK' /\ Probing'
    BY <1>5, <2>1, AnswerIsHeard, FailureIsHeard
  <2> QED
    BY <2>1, <2>2 DEF CliPhaseInv
<1>6. CASE Reports
  <2>1. cPc = "probing" /\ Probing /\ CliTypeOK
    BY <1>6 DEF Reports, CliPhaseInv
  <2>2. ExitCodeIsTrue' /\ FreshestIsFresh'
    BY <1>6, <2>1, ReportKeeps
  <2>3. cPc' = "done" /\ UNCHANGED <<health, flags>>
    BY <1>6 DEF Reports, Exits
  <2>4. CliTypeOK'
    BY <1>0, <2>3
  <2> QED
    BY <2>2, <2>3, <2>4 DEF CliPhaseInv
<1>7. CASE Explained \/ ExplainFails
  <2>1. /\ cPc = "explaining" /\ probes = <<>> /\ report = NoReport /\ told = "none"
        /\ UNCHANGED <<health, flags, probes>> /\ cPc' = "done"
    BY <1>7 DEF Explained, ExplainFails, Exits, CliPhaseInv, NothingAsked
  <2>2. ASSUME Explained
        PROVE  ExitCodeIsTrue' /\ FreshestIsFresh'
    <3>1. PICK v \in Verdicts :
            /\ report' = [report EXCEPT !.verdict = v]
            /\ code' = IF v = "expired" THEN 1 ELSE 0
            /\ told' = told
      BY <2>2 DEF Explained, Exits
    <3>2. report'.verdict = v /\ report'.healthyCount = 0
      BY <2>1, <3>1 DEF NoReport
    <3> QED
      BY <2>1, <3>1, <3>2 DEF ExitCodeIsTrue, FreshestIsFresh, Verdicts, CliPhaseInv
  <2>3. ASSUME ExplainFails
        PROVE  ExitCodeIsTrue' /\ FreshestIsFresh'
    <3>1. report' = [report EXCEPT !.verdict = "failed"] /\ code' = 1
      BY <2>3 DEF ExplainFails, Exits
    <3>2. report'.verdict = "failed" /\ report'.healthyCount = 0
      BY <2>1, <3>1 DEF NoReport
    <3> QED
      BY <2>1, <3>1, <3>2 DEF ExitCodeIsTrue, FreshestIsFresh
  <2>4. ExitCodeIsTrue' /\ FreshestIsFresh'
    BY <1>7, <2>2, <2>3
  <2>5. CliTypeOK'
    BY <1>0, <2>1
  <2> QED
    BY <2>1, <2>4, <2>5 DEF CliPhaseInv
<1>8. CASE UNCHANGED cliVars
  <2>1. CliTypeOK'
    BY <1>8 DEF cliVars, CliTypeOK, HealthTypeOK
  <2>2. UNCHANGED <<health, cPc, flags, probes, report, told, code>>
    BY <1>8 DEF cliVars
  <2>3. \A e : Alike(e)' = Alike(e) /\ Failed(e)' = Failed(e)
    BY <2>2 DEF Alike, Failed
  <2>4. Probing => Probing'
    BY <2>2, <2>3 DEF Probing, Heard
  <2>5. ExitCodeIsTrue => ExitCodeIsTrue'
    BY <2>2 DEF ExitCodeIsTrue
  <2>6. Up' = Up /\ \A m : NamedAtMost(m)' <=> NamedAtMost(m)
    BY <2>2, <2>3 DEF Up, NamedAtMost, Named
  <2>7. FreshestIsFresh => FreshestIsFresh'
    BY <2>2, <2>3, <2>6 DEF FreshestIsFresh
  <2>8. CliPhaseInv'
    BY <2>2, <2>4, <2>5, <2>7 DEF CliPhaseInv, NothingAsked, HealthInit
  <2> QED
    BY <2>1, <2>8
<1> QED
  BY <1>1, <1>2, <1>3, <1>4, <1>5, <1>6, <1>7, <1>8 DEF CliNext

-----------------------------------------------------------------------------
(* The theorems about the tool.                                            *)

\* CliInv, which says what each stretch of a run has asked and heard, holds
\* throughout (index.ts:60-268, diagnose.ts:72-97).
THEOREM CliInductive == CliSpec => []CliInv
BY CliInvHolds, CliInvKept, PTL DEF CliSpec

\* The exit code tells a wrong invocation, an answer and an error apart, for any
\* flags and any answers (index.ts:235-268).
THEOREM ExitCodeTellsTheTruth == CliSpec => []ExitCodeIsTrue
<1>1. CliInv => ExitCodeIsTrue
  BY DEF CliInv, CliPhaseInv, ExitCodeIsTrue
<1> QED
  BY <1>1, CliInductive, PTL

\* The endpoint named as the freshest answered, and no other that answered had a
\* higher slot, for any number of endpoints, any order of their answers and
\* failures and any lag allowed (diagnose.ts:72-97).
THEOREM FreshestWasHeard == CliSpec => []FreshestIsFresh
<1>1. CliInv => FreshestIsFresh
  BY DEF CliInv, CliPhaseInv, FreshestIsFresh
<1> QED
  BY <1>1, CliInductive, PTL

-----------------------------------------------------------------------------
(* The fee advice, for any samples, units and prices.                      *)

\* Every level has a rank among n samples, and a higher level no lower one
\* (oracles.ts:56-57).
LEMMA RankFacts ==
  ASSUME NEW n \in Nat \ {0}
  PROVE  /\ {Rank(n, 0), Rank(n, 25), Rank(n, 50), Rank(n, 75), Rank(n, 100)} \subseteq 1..n
         /\ Rank(n, 0) <= Rank(n, 25) /\ Rank(n, 25) <= Rank(n, 50)
         /\ Rank(n, 50) <= Rank(n, 75) /\ Rank(n, 75) <= Rank(n, 100)
<1> DEFINE m == n - 1
<1>1. m \in Nat /\ n = m + 1
  OBVIOUS
<1>2. /\ Rank(n, 0) = 1 + (100 \div 200)
      /\ Rank(n, 25) = 1 + (50 * m + 100) \div 200
      /\ Rank(n, 50) = 1 + (100 * m + 100) \div 200
      /\ Rank(n, 75) = 1 + (150 * m + 100) \div 200
      /\ Rank(n, 100) = 1 + (200 * m + 100) \div 200
  BY <1>1 DEF Rank, Round
<1> HIDE DEF m
<1>3. /\ 100 \div 200 = 0
      /\ (50 * m + 100) \div 200 \in 0..m
      /\ (50 * m + 100) \div 200 <= (100 * m + 100) \div 200
      /\ (100 * m + 100) \div 200 \in 0..m
      /\ (100 * m + 100) \div 200 <= (150 * m + 100) \div 200
      /\ (150 * m + 100) \div 200 \in 0..m
      /\ (150 * m + 100) \div 200 <= (200 * m + 100) \div 200
      /\ (200 * m + 100) \div 200 \in 0..m
  BY <1>1, SMT
<1> QED
  BY <1>1, <1>2, <1>3

\* The levels of the native oracle never fall from one level to the next, for
\* any samples, and the dearest is the highest of them: the sender that asks
\* for more does not pay less (oracles.ts:43-67).
THEOREM NativeLevelsMonotonic ==
  ASSUME NEW s \in Seq(Nat), Sorted(s)
  PROVE  Monotonic(NativeLevels(s))
<1>1. CASE s = <<>>
  BY <1>1 DEF Monotonic, NativeLevels, FeeLevel
<1>2. CASE s # <<>>
  <2> DEFINE n == Len(s)
  <2>1. n \in Nat \ {0}
    BY <1>2
  <2>2. \A i, j \in 1..n : i <= j => s[i] <= s[j]
    BY DEF Sorted
  <2>3. /\ NativeLevels(s).min = s[Rank(n, 0)]
        /\ NativeLevels(s).low = s[Rank(n, 25)]
        /\ NativeLevels(s).medium = s[Rank(n, 50)]
        /\ NativeLevels(s).high = s[Rank(n, 75)]
        /\ NativeLevels(s).veryHigh = s[Rank(n, 100)]
    BY <1>2 DEF NativeLevels, FeeLevel, Percent, percentile
  <2> HIDE DEF n
  <2>4. /\ {Rank(n, 0), Rank(n, 25), Rank(n, 50), Rank(n, 75), Rank(n, 100)} \subseteq 1..n
        /\ Rank(n, 0) <= Rank(n, 25) /\ Rank(n, 25) <= Rank(n, 50)
        /\ Rank(n, 50) <= Rank(n, 75) /\ Rank(n, 75) <= Rank(n, 100)
    BY <2>1, RankFacts
  <2>5. /\ s[Rank(n, 0)] <= s[Rank(n, 25)]
        /\ s[Rank(n, 25)] <= s[Rank(n, 50)]
        /\ s[Rank(n, 50)] <= s[Rank(n, 75)]
        /\ s[Rank(n, 75)] <= s[Rank(n, 100)]
    BY <2>2, <2>4
  <2> QED
    BY <2>3, <2>5 DEF Monotonic
<1> QED
  BY <1>1, <1>2

\* With a margin of at least 100 percent the limit covers the simulated units,
\* and the priority fee is the least that pays for it (estimator.ts:64-77).
THEOREM BudgetCovers ==
  ASSUME NEW units \in Nat, NEW cuMargin \in Nat, cuMargin >= 100, NEW price \in Nat
  PROVE  Covers(estimate(units, cuMargin, price), units)
<1> DEFINE x == units * cuMargin
           limit == Round(x, 100)
           due == limit * price
<1>1. x \in Nat /\ x >= 100 * units
  OBVIOUS
<1>2. limit \in Nat /\ limit >= units
  BY <1>1, SMT DEF Round
<1>3. due \in Nat
  BY <1>2
<1>4. /\ Ceil(due, 1000000) * 1000000 >= due
      /\ (Ceil(due, 1000000) - 1) * 1000000 < due
  <2> HIDE DEF due
  <2> QED
    BY <1>3, SMT DEF Ceil
<1> QED
  BY <1>2, <1>4 DEF Covers, estimate

\* How far apart two numbers are.
Apart(x, y) == IF x <= y THEN y - x ELSE x - y

\* percentile() takes the sample that lies nearest to p percent of the way, for
\* any number of samples: no other rank is nearer (oracles.ts:53-57).
THEOREM RankIsNearest ==
  ASSUME NEW n \in Nat \ {0}, NEW l \in FeeLevel, NEW r \in 1..n
  PROVE  Apart(100 * (Rank(n, Percent[l]) - 1), Percent[l] * (n - 1))
           <= Apart(100 * (r - 1), Percent[l] * (n - 1))
<1> DEFINE p == Percent[l]
           d == p * (n - 1)
           q == (2 * d + 100) \div 200
<1>1. p \in {0, 25, 50, 75, 100}
  BY DEF FeeLevel, Percent
<1>2. d \in Nat
  BY <1>1
<1>3. Rank(n, p) - 1 = q
  <2>1. Rank(n, p) = 1 + q
    BY DEF Rank, Round
  <2> HIDE DEF d
  <2>2. q \in Nat
    BY <1>2, SMT
  <2> HIDE DEF q
  <2> QED
    BY <2>1, <2>2
<1> HIDE DEF d
<1>4. q \in Nat /\ 200 * q <= 2 * d + 100 /\ 2 * d + 100 < 200 * q + 200
  BY <1>2, SMT
<1> HIDE DEF q
<1>5. Apart(100 * q, d) <= Apart(100 * (r - 1), d)
  <2> DEFINE s == r - 1
  <2>1. s \in Nat
    OBVIOUS
  <2>2. s = q \/ s <= q - 1 \/ s >= q + 1
    BY <1>4, <2>1
  <2> SUFFICES Apart(100 * q, d) <= Apart(100 * s, d)
    OBVIOUS
  <2> HIDE DEF s
  <2>3. CASE s = q
    BY <1>2, <1>4, <2>3 DEF Apart
  <2>4. CASE s <= q - 1
    <3>1. 100 * s <= d /\ d - 100 * s >= 50
      BY <1>2, <1>4, <2>1, <2>4
    <3>2. 100 * q - d <= 50 /\ d - 100 * q <= 50
      BY <1>2, <1>4
    <3> QED
      BY <1>2, <1>4, <2>1, <3>1, <3>2 DEF Apart
  <2>5. CASE s >= q + 1
    <3>1. 100 * s >= d /\ 100 * s - d >= 50
      BY <1>2, <1>4, <2>1, <2>5
    <3>2. 100 * q - d <= 50 /\ d - 100 * q <= 50
      BY <1>2, <1>4
    <3> QED
      BY <1>2, <1>4, <2>1, <3>1, <3>2 DEF Apart
  <2> QED
    BY <2>2, <2>3, <2>4, <2>5
<1> QED
  BY <1>3, <1>5 DEF d

=============================================================================
