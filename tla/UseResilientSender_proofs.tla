---------------------- MODULE UseResilientSender_proofs ---------------------
(***************************************************************************)
(* Theorems about the React hook, the batch beside it and the cluster      *)
(* detector their senders share, for every set of callers, every batch and *)
(* every bound on the number of sends.                                     *)
(***************************************************************************)
EXTENDS UseResilientSender, FiniteSetTheorems, TLAPS

-----------------------------------------------------------------------------
(* The inductive invariant.                                                *)

\* A lookup under way is the cached one and awaited by the caller that began
\* it; once a lookup has succeeded it stays cached.
LookupInv ==
  /\ lookups \subseteq {cache}
  /\ \A p \in lookups : awaits[p] = p
  /\ \A c \in Callers : detected[c] = "named" => lookups = {} /\ cache # Nobody
  /\ cache # Nobody /\ cache \notin lookups => detected[cache] = "named"

\* A send that ended has a result.
EndInv == \A c \in Callers : phase[c] \in {"ended", "settled"} => result[c] # "none"

\* The batch is sent in order, each after the one before has settled well.
BatchInv ==
  /\ batch = "signing" => Batch # <<>>
  /\ batch \in {"idle", "signing"} => \A c \in Members : phase[c] = "idle"
  /\ \A i, j \in DOMAIN Batch :
       i < j /\ phase[Batch[j]] # "idle" =>
         phase[Batch[i]] = "settled" /\ result[Batch[i]] \in Verdicts
  /\ batch = "returned" =>
       \A c \in Members : phase[c] = "settled" /\ result[c] \in Verdicts

\* The batch emits nothing into the hook's emitter so far.
HookAlone == shared => batch \in {"idle", "signing"}

AtRest == \A c \in Callers \ Members : phase[c] \in {"idle", "settled"}

\* What the hook shows when none of its own sends is under way.
ShownInv ==
  /\ last # Nobody => phase[last] = "settled"
  /\ last # Nobody /\ HookAlone /\ AtRest =>
       /\ status = IF result[last] = "threw" THEN "failed" ELSE result[last]
       /\ result[last] = "threw" => error

FrontInv ==
  /\ FrontTypeOK
  /\ LookupInv
  /\ EndInv
  /\ BatchInv
  /\ ShownInv

-----------------------------------------------------------------------------
(* The shared lookup.                                                      *)

LEMMA DetectInv ==
  ASSUME DetectorTypeOK, LookupInv, NEW c \in Callers, Detect(c)
  PROVE  DetectorTypeOK' /\ LookupInv'
<1> USE DetectorAssumption DEF DetectorAssumption, DetectorTypeOK, LookupInv
<1>1. CASE cache # Nobody
  BY <1>1 DEF Detect
<1>2. CASE cache = Nobody
  <2>1. lookups = {} /\ \A d \in Callers : detected[d] # "named"
    BY <1>2
  <2>2. /\ cache' = c /\ lookups' = {c} /\ detected' = detected
        /\ awaits' = [awaits EXCEPT ![c] = c]
    BY <1>2, <2>1 DEF Detect
  <2> QED BY <2>1, <2>2
<1> QED BY <1>1, <1>2

LEMMA DetectorStepInv ==
  ASSUME DetectorTypeOK, LookupInv, DetectorStep
  PROVE  DetectorTypeOK' /\ LookupInv'
<1> USE DetectorAssumption DEF DetectorAssumption, DetectorTypeOK, LookupInv
<1>1. ASSUME NEW p \in Callers, LookupSucceeds(p)
      PROVE  DetectorTypeOK' /\ LookupInv'
  <2>1. lookups = {p} /\ cache = p /\ awaits[p] = p /\ lookups' = {}
    BY <1>1 DEF LookupSucceeds
  <2>2. /\ detected' = [c \in Callers |-> IF awaits[c] = p THEN "named" ELSE detected[c]]
        /\ UNCHANGED <<cache, awaits>>
    BY <1>1 DEF LookupSucceeds, Answer
  <2> QED BY <2>1, <2>2
<1>2. ASSUME NEW p \in Callers, LookupFails(p)
      PROVE  DetectorTypeOK' /\ LookupInv'
  <2>1. lookups = {p} /\ lookups' = {} /\ \A c \in Callers : detected[c] # "named"
    BY <1>2 DEF LookupFails
  <2>2. /\ detected' = [c \in Callers |-> IF awaits[c] = p THEN "unknown" ELSE detected[c]]
        /\ cache' = Nobody /\ UNCHANGED awaits
    BY <1>2 DEF LookupFails, Answer
  <2> QED BY <2>1, <2>2
<1>3. ASSUME NEW c \in Callers, LateAnswer(c)
      PROVE  DetectorTypeOK' /\ LookupInv'
  <2>1. /\ awaits[c] \in Callers /\ detected[c] = "none"
        /\ detected' = [detected EXCEPT ![c] = detected[awaits[c]]]
        /\ UNCHANGED <<cache, lookups, awaits>>
    BY <1>3 DEF LateAnswer
  <2> QED BY <2>1
<1> QED BY <1>1, <1>2, <1>3 DEF DetectorStep

-----------------------------------------------------------------------------
(* A send.                                                                 *)

\* A send that is under way moves on, ends with a result, or is picked up by the
\* hook; its events change the status only through a shared emitter.
LEMMA ContinuesMoves ==
  ASSUME FrontTypeOK, NEW c \in Callers, Continues(c)
  PROVE  /\ phase[c] \notin {"idle", "settled"}
         /\ UNCHANGED <<shared, wrong, batch>>
         /\ Detect(c) \/ UNCHANGED detectorVars
         /\ \/ /\ \E to \in {"guarding", "sending", "tracking", "ended"} :
                     phase' = [phase EXCEPT ![c] = to]
               /\ phase'[c] = "ended" =>
                    \E r \in Verdicts \cup {"threw"} : result' = [result EXCEPT ![c] = r]
               /\ phase'[c] # "ended" => UNCHANGED result
               /\ UNCHANGED <<last, error>>
               /\ shared \/ UNCHANGED status
               /\ status' \in Verdicts \cup {"idle", "pending", "sent"}
            \/ HookContinues(c)
<1> USE DEF FrontTypeOK
<1>1. CASE Signs(c)
  BY <1>1 DEF Signs, Goes
<1>2. CASE SigningRejected(c) \/ GuardThrows(c) \/ TrackRejects(c)
  BY <1>2 DEF SigningRejected, GuardThrows, TrackRejects, Goes, Ends
<1>3. CASE GuardPasses(c) \/ BroadcastReturns(c)
  BY <1>3 DEF GuardPasses, BroadcastReturns, Goes, Emits
<1>4. CASE BroadcastThrows(c)
  BY <1>4 DEF BroadcastThrows, Goes, Emits, Ends, Verdicts
<1>5. CASE TrackReturns(c)
  BY <1>5 DEF TrackReturns, Goes, Emits, Ends
<1>6. CASE HookContinues(c)
  BY <1>6 DEF HookContinues
<1> QED BY <1>1, <1>2, <1>3, <1>4, <1>5, <1>6 DEF Continues

LEMMA MembersAreCallers ==
  /\ Members \subseteq Callers
  /\ \A i \in DOMAIN Batch : Batch[i] \in Members
  /\ DOMAIN Batch = 1..Len(Batch) /\ Len(Batch) \in Nat
  BY FrontAssumption DEF FrontAssumption, Members

LEMMA ContinuesInv ==
  ASSUME FrontInv, NEW c \in Callers, Continues(c) PROVE FrontInv'
<1> USE DEF FrontInv
<1>1. /\ phase[c] \notin {"idle", "settled"}
      /\ UNCHANGED <<shared, wrong, batch>>
      /\ Detect(c) \/ UNCHANGED detectorVars
  BY ContinuesMoves
<1>2. DetectorTypeOK' /\ LookupInv'
  BY <1>1, DetectInv DEF FrontTypeOK, DetectorTypeOK, LookupInv, detectorVars
<1>3. phase \in [Callers -> {"idle", "signing", "guarding", "sending", "tracking", "ended",
                            "settled"}]
      /\ result \in [Callers -> Verdicts \cup {"none", "threw"}]
  BY DEF FrontTypeOK
<1>4. c \in Members => batch \notin {"idle", "signing", "returned"}
  BY <1>1 DEF BatchInv
<1>5. ASSUME NEW to \in {"guarding", "sending", "tracking", "ended"},
             phase' = [phase EXCEPT ![c] = to],
             to = "ended" =>
               \E r \in Verdicts \cup {"threw"} : result' = [result EXCEPT ![c] = r],
             to # "ended" => UNCHANGED result,
             UNCHANGED <<last, error>>,
             shared \/ UNCHANGED status,
             status' \in Verdicts \cup {"idle", "pending", "sent"}
      PROVE  FrontInv'
  <2>1. /\ result' \in [Callers -> Verdicts \cup {"none", "threw"}]
        /\ \A d \in Callers : d # c => result'[d] = result[d] /\ phase'[d] = phase[d]
        /\ phase'[c] = to
        /\ to = "ended" => result'[c] # "none"
    BY <1>3, <1>5 DEF Verdicts
  <2>2. FrontTypeOK'
    BY <1>1, <1>2, <1>5, <2>1 DEF FrontTypeOK
  <2>3. EndInv'
    BY <1>5, <2>1 DEF EndInv
  <2>4. BatchInv'
    <3>1. batch \in {"idle", "signing"} => \A d \in Members : phase'[d] = "idle"
      BY <1>4, <2>1, MembersAreCallers DEF BatchInv
    <3>2. ASSUME NEW i \in DOMAIN Batch, NEW j \in DOMAIN Batch,
                 i < j, phase'[Batch[j]] # "idle"
          PROVE  phase'[Batch[i]] = "settled" /\ result'[Batch[i]] \in Verdicts
      <4>1. phase[Batch[j]] # "idle"
        BY <1>1, <2>1, <3>2, MembersAreCallers
      <4>2. phase[Batch[i]] = "settled" /\ result[Batch[i]] \in Verdicts
        BY <3>2, <4>1 DEF BatchInv
      <4> QED BY <1>1, <2>1, <4>2, MembersAreCallers
    <3>3. batch = "returned" =>
            \A d \in Members : phase'[d] = "settled" /\ result'[d] \in Verdicts
      BY <1>4, <2>1, MembersAreCallers DEF BatchInv
    <3>4. batch' = "signing" => Batch # <<>>
      BY <1>1 DEF BatchInv
    <3> QED BY <1>1, <3>1, <3>2, <3>3, <3>4 DEF BatchInv
  <2>5. ShownInv'
    <3>1. last # Nobody => last # c /\ last \in Callers \ Members
      BY <1>1 DEF ShownInv, FrontTypeOK
    <3>2. last' # Nobody => phase'[last'] = "settled"
      BY <1>5, <2>1, <3>1 DEF ShownInv
    <3>3. ASSUME last' # Nobody, HookAlone', AtRest'
          PROVE  /\ status' = IF result'[last'] = "threw" THEN "failed" ELSE result'[last']
                 /\ result'[last'] = "threw" => error'
      <4>1. c \in Members
        BY <1>5, <2>1, <3>3 DEF AtRest
      <4>2. ~shared
        BY <1>1, <1>4, <3>3, <4>1 DEF HookAlone
      <4>3. HookAlone /\ AtRest
        BY <2>1, <3>3, <4>1, <4>2 DEF HookAlone, AtRest
      <4>4. last # Nobody /\ result'[last] = result[last]
        BY <1>5, <2>1, <3>1, <3>3
      <4> QED BY <1>5, <4>2, <4>3, <4>4 DEF ShownInv
    <3> QED BY <3>2, <3>3 DEF ShownInv
  <2> QED BY <1>2, <2>2, <2>3, <2>4, <2>5
<1>6. CASE HookContinues(c)
  <2>1. /\ c \notin Members /\ phase[c] = "ended" /\ result[c] # "none"
        /\ phase' = [phase EXCEPT ![c] = "settled"]
        /\ status' = IF result[c] = "threw" THEN "failed" ELSE result[c]
        /\ error' = (error \/ result[c] = "threw")
        /\ last' = c /\ UNCHANGED result
    BY <1>6 DEF HookContinues, EndInv
  <2>2. /\ \A d \in Callers : d # c => phase'[d] = phase[d]
        /\ phase'[c] = "settled"
    BY <1>3, <2>1
  <2>3. FrontTypeOK'
    BY <1>1, <1>2, <1>3, <2>1 DEF FrontTypeOK, Verdicts
  <2>4. EndInv'
    BY <2>1, <2>2 DEF EndInv
  <2>5. \A d \in Members : phase'[d] = phase[d]
    BY <2>1, <2>2, MembersAreCallers
  <2>6. BatchInv'
    BY <1>1, <2>1, <2>5, MembersAreCallers DEF BatchInv
  <2>7. ShownInv'
    BY <2>1, <2>2 DEF ShownInv
  <2> QED BY <1>2, <2>3, <2>4, <2>6, <2>7
<1> QED
  <2>1. CASE ~HookContinues(c)
    <3>1. PICK to \in {"guarding", "sending", "tracking", "ended"} :
            phase' = [phase EXCEPT ![c] = to]
      BY <2>1, ContinuesMoves
    <3>2. phase'[c] = to
      BY <1>3, <3>1
    <3> QED BY <1>5, <2>1, <3>1, <3>2, ContinuesMoves
  <2> QED BY <1>6, <2>1

LEMMA SignAndSendInv ==
  ASSUME FrontInv, NEW c \in Callers, SignAndSend(c) PROVE FrontInv'
<1> USE DEF FrontInv
<1>1. /\ c \notin Members /\ phase[c] = "idle"
      /\ phase' = [phase EXCEPT ![c] = "signing"]
      /\ error' = FALSE /\ status' = "pending"
      /\ UNCHANGED <<shared, wrong, last, batch, result>> /\ UNCHANGED detectorVars
  BY DEF SignAndSend, Goes
<1>2. /\ phase \in [Callers -> {"idle", "signing", "guarding", "sending", "tracking",
                                "ended", "settled"}]
      /\ phase'[c] = "signing"
      /\ \A d \in Callers : d # c => phase'[d] = phase[d]
  BY <1>1 DEF FrontTypeOK
<1>3. LookupInv' /\ DetectorTypeOK'
  BY <1>1 DEF FrontTypeOK, DetectorTypeOK, LookupInv, detectorVars
<1>4. FrontTypeOK'
  BY <1>1, <1>2, <1>3 DEF FrontTypeOK
<1>5. EndInv'
  BY <1>1, <1>2 DEF EndInv
<1>6. \A d \in Members : phase'[d] = phase[d]
  BY <1>1, <1>2, MembersAreCallers
<1>7. BatchInv'
  BY <1>1, <1>6, MembersAreCallers DEF BatchInv
<1>8. ShownInv'
  <2>1. ~AtRest'
    BY <1>1, <1>2 DEF AtRest
  <2>2. last # Nobody => last # c /\ last \in Callers
    BY <1>1 DEF ShownInv, FrontTypeOK
  <2> QED BY <1>1, <1>2, <2>1, <2>2 DEF ShownInv
<1> QED BY <1>3, <1>4, <1>5, <1>7, <1>8

-----------------------------------------------------------------------------
(* The batch.                                                              *)

\* The hook is not concerned by what only moves the batch forward.
LEMMA ShownStays ==
  ASSUME FrontInv, UNCHANGED <<shared, result, status, error, last>>,
         batch \notin {"idle", "signing"} => batch' \notin {"idle", "signing"},
         \A c \in Callers \ Members : phase'[c] = phase[c]
  PROVE  ShownInv'
<1>1. HookAlone' => HookAlone
  BY DEF HookAlone
<1>2. AtRest' => AtRest
  BY DEF AtRest
<1>3. last # Nobody => phase'[last] = phase[last]
  BY DEF FrontInv, FrontTypeOK
<1> QED BY <1>1, <1>2, <1>3 DEF FrontInv, ShownInv

LEMMA SignAndSendAllInv ==
  ASSUME FrontInv, SignAndSendAll PROVE FrontInv'
<1> USE DEF FrontInv
<1>1. /\ batch = "idle" /\ batch' = "signing" /\ Batch # <<>>
      /\ UNCHANGED <<shared, wrong, phase, result, status, error, last>>
      /\ UNCHANGED <<cache, lookups, awaits, detected>>
  BY DEF SignAndSendAll, hookVars, detectorVars
<1>2. FrontTypeOK' /\ LookupInv' /\ EndInv'
  BY <1>1 DEF FrontTypeOK, DetectorTypeOK, LookupInv, EndInv
<1>3. BatchInv'
  BY <1>1 DEF BatchInv
<1>4. ShownInv'
  BY <1>1, ShownStays
<1> QED BY <1>2, <1>3, <1>4

LEMMA BatchRejectedInv ==
  ASSUME FrontInv, BatchRejected PROVE FrontInv'
<1> USE DEF FrontInv
<1>1. /\ batch = "signing" /\ batch' = "threw"
      /\ UNCHANGED <<shared, wrong, phase, result, status, error, last>>
      /\ UNCHANGED <<cache, lookups, awaits, detected>>
  BY DEF BatchRejected, hookVars, detectorVars
<1>2. FrontTypeOK' /\ LookupInv' /\ EndInv'
  BY <1>1 DEF FrontTypeOK, DetectorTypeOK, LookupInv, EndInv
<1>3. BatchInv'
  BY <1>1 DEF BatchInv
<1>4. ShownInv'
  BY <1>1, ShownStays
<1> QED BY <1>2, <1>3, <1>4

LEMMA BatchSignedInv ==
  ASSUME FrontInv, BatchSigned PROVE FrontInv'
<1> USE DEF FrontInv
<1>1. /\ batch = "signing" /\ batch' = "sending" /\ Batch # <<>>
      /\ phase' = [phase EXCEPT ![Batch[1]] = "guarding"] /\ Detect(Batch[1])
      /\ UNCHANGED <<shared, wrong, result, status, error, last>>
  BY DEF BatchSigned, DispatchMember, BatchInv
<1>2. 1 \in DOMAIN Batch /\ Batch[1] \in Members /\ Batch[1] \in Callers
  BY <1>1, MembersAreCallers, FrontAssumption DEF FrontAssumption
<1>3. /\ phase \in [Callers -> {"idle", "signing", "guarding", "sending", "tracking",
                                "ended", "settled"}]
      /\ phase'[Batch[1]] = "guarding"
      /\ \A d \in Callers : d # Batch[1] => phase'[d] = phase[d]
  BY <1>1, <1>2 DEF FrontTypeOK
<1>4. LookupInv' /\ DetectorTypeOK'
  BY <1>1, <1>2, DetectInv DEF FrontTypeOK
<1>5. FrontTypeOK'
  BY <1>1, <1>2, <1>3, <1>4 DEF FrontTypeOK
<1>6. EndInv'
  BY <1>1, <1>3 DEF EndInv
<1>7. BatchInv'
  <2>1. \A j \in DOMAIN Batch : phase'[Batch[j]] # "idle" => j = 1
    <3> SUFFICES ASSUME NEW j \in DOMAIN Batch, j # 1 PROVE phase'[Batch[j]] = "idle"
      OBVIOUS
    <3>1. Batch[j] # Batch[1] /\ Batch[j] \in Callers /\ phase[Batch[j]] = "idle"
      BY <1>1, <1>2, MembersAreCallers, FrontAssumption DEF FrontAssumption, BatchInv
    <3> QED BY <1>3, <3>1
  <2> QED BY <1>1, <2>1, MembersAreCallers DEF BatchInv
<1>8. ShownInv'
  BY <1>1, <1>2, <1>3, ShownStays
<1> QED BY <1>4, <1>5, <1>6, <1>7, <1>8

LEMMA MemberContinuesInv ==
  ASSUME FrontInv, NEW i \in DOMAIN Batch, MemberContinues(i) PROVE FrontInv'
<1> USE DEF FrontInv
<1>1. /\ phase[Batch[i]] = "ended"
      /\ UNCHANGED <<shared, wrong, result, status, error, last>>
  BY DEF MemberContinues
<1>2. /\ phase \in [Callers -> {"idle", "signing", "guarding", "sending", "tracking",
                                "ended", "settled"}]
      /\ result \in [Callers -> Verdicts \cup {"none", "threw"}]
      /\ i \in 1..Len(Batch) /\ Len(Batch) \in Nat /\ DOMAIN Batch = 1..Len(Batch)
      /\ \A j \in DOMAIN Batch : Batch[j] \in Members /\ Batch[j] \in Callers
      /\ \A j, k \in DOMAIN Batch : Batch[j] = Batch[k] => j = k
  BY MembersAreCallers, FrontAssumption DEF FrontAssumption, FrontTypeOK
<1>3. /\ \A j \in DOMAIN Batch : j > i => phase[Batch[j]] = "idle"
      /\ \A j \in DOMAIN Batch :
           j < i => phase[Batch[j]] = "settled" /\ result[Batch[j]] \in Verdicts
  BY <1>1, <1>2 DEF BatchInv
<1>4. batch \notin {"idle", "signing", "returned"} /\ result[Batch[i]] # "none"
  BY <1>1, <1>2 DEF BatchInv, EndInv
<1>5. CASE i < Len(Batch) /\ result[Batch[i]] # "threw"
  <2>1. /\ phase' = [phase EXCEPT ![Batch[i]] = "settled", ![Batch[i + 1]] = "guarding"]
        /\ Detect(Batch[i + 1]) /\ UNCHANGED batch
    BY <1>5 DEF MemberContinues
  <2>2. i + 1 \in DOMAIN Batch /\ Batch[i + 1] # Batch[i]
    BY <1>2, <1>5
  <2>3. /\ phase'[Batch[i]] = "settled"
        /\ phase'[Batch[i + 1]] = "guarding"
        /\ \A d \in Callers : d \notin {Batch[i], Batch[i + 1]} => phase'[d] = phase[d]
    BY <1>2, <2>1, <2>2
  <2>4. LookupInv' /\ DetectorTypeOK'
    BY <1>2, <2>1, <2>2, DetectInv DEF FrontTypeOK
  <2>5. FrontTypeOK'
    BY <1>1, <1>2, <2>1, <2>2, <2>4 DEF FrontTypeOK
  <2>6. EndInv'
    BY <1>1, <1>4, <2>3 DEF EndInv
  <2>7. BatchInv'
    <3>1. \A j \in DOMAIN Batch : j > i + 1 => phase'[Batch[j]] = "idle"
      BY <1>2, <1>3, <2>2, <2>3
    <3>2. \A j \in DOMAIN Batch :
            j <= i => phase'[Batch[j]] = "settled" /\ result[Batch[j]] \in Verdicts
      <4> SUFFICES ASSUME NEW j \in DOMAIN Batch, j <= i
                   PROVE  phase'[Batch[j]] = "settled" /\ result[Batch[j]] \in Verdicts
        OBVIOUS
      <4>1. CASE j = i
        BY <1>2, <1>4, <1>5, <2>3, <4>1
      <4>2. CASE j < i
        <5>1. Batch[j] \notin {Batch[i], Batch[i + 1]}
          BY <1>2, <2>2, <4>2
        <5> QED BY <1>2, <1>3, <2>3, <4>2, <5>1
      <4> QED BY <1>2, <4>1, <4>2
    <3>3. ASSUME NEW j \in DOMAIN Batch, NEW k \in DOMAIN Batch,
                 j < k, phase'[Batch[k]] # "idle"
          PROVE  phase'[Batch[j]] = "settled" /\ result'[Batch[j]] \in Verdicts
      <4>1. j <= i
        BY <1>2, <3>1, <3>3
      <4> QED BY <1>1, <3>2, <4>1
    <3> QED BY <1>4, <2>1, <3>3 DEF BatchInv
  <2>8. ShownInv'
    BY <1>1, <1>2, <2>1, <2>2, <2>3, ShownStays
  <2> QED BY <2>4, <2>5, <2>6, <2>7, <2>8
<1>6. CASE ~(i < Len(Batch) /\ result[Batch[i]] # "threw")
  <2>1. /\ phase' = [phase EXCEPT ![Batch[i]] = "settled"]
        /\ batch' = IF result[Batch[i]] = "threw" THEN "threw" ELSE "returned"
        /\ UNCHANGED detectorVars
    BY <1>6 DEF MemberContinues
  <2>2. /\ phase'[Batch[i]] = "settled"
        /\ \A d \in Callers : d # Batch[i] => phase'[d] = phase[d]
    BY <1>2, <2>1
  <2>3. LookupInv' /\ DetectorTypeOK'
    BY <2>1 DEF FrontTypeOK, DetectorTypeOK, LookupInv, detectorVars
  <2>4. FrontTypeOK'
    BY <1>1, <1>2, <2>1, <2>3 DEF FrontTypeOK
  <2>5. EndInv'
    BY <1>1, <1>4, <2>2 DEF EndInv
  <2>6. BatchInv'
    <3>1. ASSUME NEW j \in DOMAIN Batch, NEW k \in DOMAIN Batch,
                 j < k, phase'[Batch[k]] # "idle"
          PROVE  phase'[Batch[j]] = "settled" /\ result'[Batch[j]] \in Verdicts
      <4>1. k <= i
        BY <1>2, <1>3, <2>2, <3>1
      <4>2. j < i /\ Batch[j] # Batch[i]
        BY <1>2, <3>1, <4>1
      <4> QED BY <1>1, <1>2, <1>3, <2>2, <4>2
    <3>2. ASSUME batch' = "returned", NEW d \in Members
          PROVE  phase'[d] = "settled" /\ result'[d] \in Verdicts
      <4>1. i = Len(Batch) /\ result[Batch[i]] \in Verdicts
        BY <1>2, <1>4, <1>6, <2>1, <3>2
      <4>2. PICK j \in DOMAIN Batch : d = Batch[j]
        BY DEF Members
      <4>3. CASE j = i
        BY <1>1, <2>2, <4>1, <4>2, <4>3
      <4>4. CASE j # i
        BY <1>1, <1>2, <1>3, <2>2, <4>1, <4>2, <4>4
      <4> QED BY <4>3, <4>4
    <3>3. batch' \notin {"idle", "signing"}
      BY <2>1
    <3> QED BY <3>1, <3>2, <3>3 DEF BatchInv
  <2>7. ShownInv'
    BY <1>1, <1>2, <2>1, <2>2, ShownStays
  <2> QED BY <2>3, <2>4, <2>5, <2>6, <2>7
<1> QED BY <1>5, <1>6

-----------------------------------------------------------------------------
(* The invariant.                                                          *)

LEMMA FrontInitInv == FrontInit => FrontInv
<1> SUFFICES ASSUME FrontInit PROVE FrontInv
  OBVIOUS
<1> USE DetectorAssumption DEF DetectorAssumption, FrontInit, DetectorInit
<1>1. FrontTypeOK
  BY DEF FrontTypeOK, DetectorTypeOK
<1>2. LookupInv /\ EndInv /\ ShownInv
  BY DEF LookupInv, EndInv, ShownInv
<1>3. BatchInv
  BY MembersAreCallers DEF BatchInv
<1> QED BY <1>1, <1>2, <1>3 DEF FrontInv

\* FrontInv holds throughout: one lookup, a batch sent in order, and a status
\* that at rest is the last settled send's (use-resilient-sender.tsx:50-91,
\* wallet-adapter-bridge.ts:93-100).
THEOREM FrontInductive == FrontSpec => []FrontInv
<1>1. ASSUME FrontInv, [FrontNext]_frontVars PROVE FrontInv'
  <2>1. CASE DetectorStep /\ UNCHANGED <<hookVars, batch>>
    <3>1. DetectorTypeOK' /\ LookupInv'
      BY <1>1, <2>1, DetectorStepInv DEF FrontInv, FrontTypeOK
    <3>2. /\ UNCHANGED <<shared, wrong, phase, result, status, error, last>>
          /\ UNCHANGED batch
      BY <2>1 DEF hookVars
    <3> QED BY <1>1, <3>1, <3>2
      DEF FrontInv, FrontTypeOK, EndInv, BatchInv, ShownInv, HookAlone, AtRest
  <2>2. CASE UNCHANGED frontVars
    BY <1>1, <2>2
    DEF FrontInv, FrontTypeOK, DetectorTypeOK, LookupInv, EndInv, BatchInv, ShownInv,
        HookAlone, AtRest, frontVars, hookVars, detectorVars
  <2> QED
    BY <1>1, <2>1, <2>2, SignAndSendInv, ContinuesInv, SignAndSendAllInv, BatchSignedInv,
       BatchRejectedInv, MemberContinuesInv
    DEF FrontNext, BatchStep
<1> QED BY <1>1, FrontInitInv, PTL DEF FrontSpec

-----------------------------------------------------------------------------
(* Theorems.                                                               *)

\* The state of the hook, the batch and the detector stays of its type: a send
\* whose promise settles with no result is never picked up (lines 64-89).
THEOREM FrontTypeCorrect == FrontSpec => []FrontTypeOK
  BY FrontInductive, PTL DEF FrontInv

\* However calls and answers interleave, there is one lookup at a time, none
\* after one succeeded, and no caller finds a failed one in the cache
\* (cluster.ts, lines 31-46).
THEOREM LookupIsShared == FrontSpec => []LookupsShared
<1>1. ASSUME FrontInv PROVE LookupsShared
  <2>1. Cardinality(lookups) <= 1
    <3>1. lookups = {} \/ lookups = {cache}
      BY <1>1 DEF FrontInv, LookupInv
    <3>2. Cardinality({}) = 0 /\ Cardinality({cache}) = 1
      BY FS_EmptySet, FS_Singleton
    <3> QED BY <3>1, <3>2
  <2> QED BY <1>1, <2>1 DEF FrontInv, LookupInv, LookupsShared
<1> QED BY <1>1, FrontInductive, PTL

\* The hook's last word is how the last of its sends ended, for any number of
\* sends whose events are mixed, and whether or not they reach the hook
\* (use-resilient-sender.tsx, lines 64-89).
THEOREM HookTellsLastSettled == FrontSpec => []StatusIsLastSettled
<1>1. FrontInv => StatusIsLastSettled
  BY DEF FrontInv, ShownInv, HookAlone, AtRest, StatusIsLastSettled
<1> QED BY <1>1, FrontInductive, PTL

\* What a batch has sent is a prefix of it, settled in order, for batches of any
\* length (wallet-adapter-bridge.ts, lines 93-99).
THEOREM BatchSendsInOrder == FrontSpec => []BatchSendsPrefix
<1>1. FrontInv => BatchSendsPrefix
  BY DEF FrontInv, BatchInv, BatchSendsPrefix
<1> QED BY <1>1, FrontInductive, PTL

=============================================================================
