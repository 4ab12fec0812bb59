-------------------------- MODULE Diagnostics_proofs ------------------------
(***************************************************************************)
(* Theorems about an operator's query beside a tracker, for every set of   *)
(* nodes and clients, every deadline and finality depth, with              *)
(* subscriptions that may fail to close.  The tracker's invariant IInv     *)
(* (ConfirmationTracker_proofs) is reused.                                 *)
(***************************************************************************)
EXTENDS Diagnostics, ConfirmationTracker_proofs

-----------------------------------------------------------------------------
(* The inductive invariant.                                                *)

\* A status that is no landing says so: the transaction is above what its node
\* knew, or carries an error.
NotLanded == landedAt # 0 => landedAt > known \/ (landedErr /\ onChain)

\* What the operator was told is so: a "confirmed" as long as no processed
\* block is abandoned, an "expired" for good.
VerdictInv ==
  /\ known <= height
  /\ dPc = "height" \/ verdict = "expired" => NotLanded
  /\ ~Forks /\ verdict = "confirmed" => Executed = "ok"
  /\ verdict = "expired" => height > LastValidBlockHeight

DiagInv == IInv /\ DiagTypeOK /\ VerdictInv

LEMMA DiagInitInv == DiagInit => DiagInv
<1> SUFFICES ASSUME DiagInit PROVE DiagInv
  OBVIOUS
<1>1. IInv
  BY InitIInv DEF DiagInit
<1>2. known \in 0..MaxHeight /\ known <= height /\ NotLanded
  BY LedgerAssumption
  DEF LedgerAssumption, DiagInit, TrackerInit, LedgerInit, NotLanded
<1> QED BY <1>1, <1>2 DEF DiagInit, DiagInv, IInv, DiagTypeOK, VerdictInv

\* A status without an error is only given of a transaction that executed.
LEMMA NodeSaysExecuted ==
  ASSUME LedgerTypeOK, LedgerInv, NEW n \in Nodes, NEW s \in NodeStatuses(n),
         s.seen, ~s.err
  PROVE  Executed = "ok"
<1> USE DEF LedgerTypeOK, LedgerInv, Executed
<1>1. CASE landedAt # 0 /\ landedAt <= view[n]
  <2>1. s.err = landedErr
    BY <1>1 DEF NodeStatuses, LandedStatus
  <2> QED BY <1>1, <2>1
<1>2. CASE ~(landedAt # 0 /\ landedAt <= view[n])
  <2>1. s # NoStatus
    BY DEF NoStatus
  <2>2. PICK r \in Processed(n) : s = [seen |-> TRUE, err |-> r = "err", rank |-> 0]
    BY <1>2, <2>1 DEF NodeStatuses
  <2>3. r = "ok"
    BY <2>2 DEF Processed
  <2>4. \/ landedAt = view[n] + 1 /\ landedErr = FALSE
        \/ tip = "ok"
    BY <2>3 DEF Processed
  <2>5. view[n] \in Nat
    BY LedgerAssumption DEF LedgerAssumption
  <2> QED BY <2>4, <2>5
<1> QED BY <1>1, <1>2

\* A status that is no landing is of a transaction its node cannot know in a
\* confirmed block, or carries the error.
LEMMA NodeSaysNotLanded ==
  ASSUME LedgerTypeOK, NEW n \in Nodes, NEW s \in NodeStatuses(n), ~Landed(s),
         landedAt # 0
  PROVE  landedAt > view[n] \/ (landedErr /\ s.seen)
<1>1. CASE landedAt <= view[n]
  <2>1. s = LandedStatus(n)
    BY <1>1 DEF NodeStatuses
  <2> QED BY <2>1 DEF LandedStatus, Landed
<1>2. CASE ~(landedAt <= view[n])
  BY <1>2, LedgerAssumption DEF LedgerAssumption, LedgerTypeOK
<1> QED BY <1>1, <1>2

LEMMA ExplainStepInv ==
  ASSUME DiagInv, ExplainStep, UNCHANGED trackerVars
  PROVE  DiagTypeOK' /\ VerdictInv'
<1>1. /\ TrackerTypeOK' /\ Executed' = Executed
      /\ UNCHANGED <<height, landedAt, landedErr>>
  BY DEF DiagInv, DiagTypeOK, TrackerTypeOK, LedgerTypeOK, Executed, trackerVars,
     ledgerVars, trackVars
<1>2. CASE Explain
  BY <1>1, <1>2 DEF Explain, DiagInv, DiagTypeOK, VerdictInv, NotLanded
<1>3. ASSUME NEW n \in Nodes, ReadStatus(n) PROVE DiagTypeOK' /\ VerdictInv'
  <2>1. PICK s \in NodeStatuses(n) :
          /\ onChain' = s.seen
          /\ \/ Landed(s) /\ Tell("confirmed")
             \/ ~Landed(s) /\ dPc' = "height" /\ UNCHANGED verdict
    BY <1>3 DEF ReadStatus
  <2>a. known' = view[n] /\ known' \in 0..MaxHeight /\ known' <= height
    BY <1>3 DEF ReadStatus, DiagInv, IInv, TrackerTypeOK, LedgerTypeOK, LedgerInv
  <2>2. s.seen \in BOOLEAN
    <3>1. \/ s = LandedStatus(n)
          \/ s = NoStatus
          \/ \E r \in Processed(n) : s = [seen |-> TRUE, err |-> r = "err", rank |-> 0]
      BY DEF NodeStatuses
    <3>2. CASE s = LandedStatus(n)
      BY <3>2 DEF LandedStatus
    <3>3. CASE s = NoStatus
      BY <3>3 DEF NoStatus
    <3>4. ASSUME NEW r \in Processed(n), s = [seen |-> TRUE, err |-> r = "err", rank |-> 0]
          PROVE  s.seen \in BOOLEAN
      BY <3>4
    <3> QED BY <3>1, <3>2, <3>3, <3>4
  <2>3. CASE Landed(s) /\ Tell("confirmed")
    <3>1. Executed = "ok"
      BY <2>3, NodeSaysExecuted DEF DiagInv, IInv, TrackerTypeOK, Landed
    <3> QED BY <1>1, <2>1, <2>2, <2>3, <2>a, <3>1
        DEF Tell, DiagInv, DiagTypeOK, VerdictInv
  <2>4. CASE ~Landed(s) /\ dPc' = "height" /\ UNCHANGED verdict
    <3>1. NotLanded'
      BY <1>1, <2>1, <2>4, <2>a, NodeSaysNotLanded
      DEF NotLanded, DiagInv, IInv, TrackerTypeOK
    <3> QED BY <1>1, <2>1, <2>2, <2>4, <2>a, <3>1 DEF DiagInv, DiagTypeOK, VerdictInv
  <2> QED BY <2>1, <2>3, <2>4
<1>4. ASSUME NEW n \in Nodes, CompareHeight(n) PROVE DiagTypeOK' /\ VerdictInv'
  <2>1. /\ view[n] \in Nat /\ height \in Nat /\ LastValidBlockHeight \in Nat
        /\ view[n] <= height
    BY LedgerAssumption
    DEF LedgerAssumption, DiagInv, IInv, TrackerTypeOK, LedgerTypeOK, LedgerInv
  <2>2. /\ dPc = "height" /\ dPc' = "done" /\ UNCHANGED <<onChain, known>>
        /\ verdict' = IF PastDeadline(view[n]) THEN "expired" ELSE "pending"
    BY <1>4 DEF CompareHeight, Tell
  <2>3. NotLanded'
    BY <1>1, <2>2 DEF DiagInv, VerdictInv, NotLanded
  <2> QED BY <1>1, <2>1, <2>2, <2>3 DEF PastDeadline, DiagInv, DiagTypeOK, VerdictInv
<1>5. CASE ExplainRejects
  BY <1>1, <1>5 DEF ExplainRejects, Tell, DiagInv, DiagTypeOK, VerdictInv
<1> QED BY <1>2, <1>3, <1>4, <1>5 DEF ExplainStep

LEMMA TrackerStepVerdict ==
  ASSUME DiagInv, TrackerNext, UNCHANGED diagVars PROVE VerdictInv'
<1>1. CASE LedgerNext
  <2>1. /\ LedgerTypeOK /\ LedgerInv /\ height' >= height
        /\ landedAt # 0 => landedAt' = landedAt /\ landedErr' = landedErr
        /\ landedAt = 0 /\ landedAt' # 0 => landedAt' = height + 1
    BY <1>1, LedgerStepGrows DEF DiagInv, IInv, TrackerTypeOK
  <2>2. height \in Nat /\ height' \in Nat /\ LastValidBlockHeight \in Nat
    BY <1>1, <2>1, LedgerStepType, LedgerAssumption DEF LedgerAssumption, LedgerTypeOK
  <2>3. known \in Nat /\ known <= height /\ UNCHANGED <<dPc, onChain, known, verdict>>
    BY LedgerAssumption DEF LedgerAssumption, DiagInv, DiagTypeOK, VerdictInv, diagVars
  <2>4. NotLanded => NotLanded'
    BY <2>1, <2>2, <2>3 DEF NotLanded
  <2> QED BY <1>1, <2>1, <2>2, <2>3, <2>4, ExecutedStays DEF DiagInv, VerdictInv
<1>2. CASE UNCHANGED ledgerVars
  BY <1>2 DEF DiagInv, VerdictInv, NotLanded, Executed, diagVars, ledgerVars
<1> QED BY <1>1, <1>2 DEF TrackerNext

\* What an operator was told by explainTransaction stays so beside any track
\* call (diagnose.ts:107-138).
THEOREM DiagInductive == DiagSpec => []DiagInv
<1>1. ASSUME DiagInv, [DiagNext]_diagnosedVars PROVE DiagInv'
  <2>1. IInv'
    BY <1>1, NextIInv DEF DiagInv, DiagNext, diagnosedVars
  <2>2. CASE TrackerNext /\ UNCHANGED diagVars
    BY <1>1, <2>1, <2>2, TrackerStepVerdict DEF DiagInv, DiagTypeOK, IInv, diagVars
  <2>3. CASE ExplainStep /\ UNCHANGED trackerVars
    BY <1>1, <2>1, <2>3, ExplainStepInv DEF DiagInv
  <2>4. CASE UNCHANGED diagnosedVars
    BY <1>1, <2>1, <2>4
    DEF DiagInv, DiagTypeOK, IInv, VerdictInv, NotLanded, Executed, diagnosedVars, diagVars,
        trackerVars, ledgerVars
  <2> QED BY <1>1, <2>2, <2>3, <2>4 DEF DiagNext
<1> QED BY <1>1, DiagInitInv, PTL DEF DiagSpec

-----------------------------------------------------------------------------
(* Theorems.                                                               *)

\* Where what the operator was told and what the program reports differ, one of
\* the causes DisagreementHasCause names is there, whichever nodes answered
\* whom, if no processed block is abandoned and closing a stream does not fail
\* (diagnose.ts, lines 111-132; confirmation.ts, lines 176-199).
THEOREM DisagreementCause ==
  ASSUME ~Forks, ~CloseErrors PROVE DiagSpec => []DisagreementHasCause
<1>1. ASSUME DiagInv PROVE DisagreementHasCause
  <2>1. verdict = "confirmed" => Executed = "ok"
    BY <1>1 DEF DiagInv, VerdictInv
  <2>2. outcome = "failed" => Executed = "err"
    <3>1. outcome = "failed" => IsFailed
      BY <1>1 DEF DiagInv, IInv, TruthInv, Held
    <3> QED BY <1>1, <3>1 DEF DiagInv, IInv, LedgerInv, IsFailed, Executed
  <2>3. ASSUME verdict = "confirmed", outcome = "expired"
        PROVE  landedAt # 0 /\ landedAt + Depth > horizon
    <3>1. pollRes = "expired"
      BY <1>1, <2>3 DEF DiagInv, IInv, DeadlineInv
    <3>2. height > LastValidBlockHeight /\ Unseen
      BY <1>1, <3>1 DEF DiagInv, IInv, DeadlineInv, RoundInv
    <3>3. tip = "none"
      BY <1>1, <3>2, LedgerAssumption
      DEF LedgerAssumption, DiagInv, IInv, TrackerTypeOK, LedgerTypeOK, LedgerInv
    <3>4. landedAt # 0 /\ ~landedErr
      BY <2>1, <2>3, <3>3 DEF Executed
    <3> QED BY <3>2, <3>4 DEF Unseen
  <2>4. verdict = "expired" => NotLanded
    BY <1>1 DEF DiagInv, VerdictInv
  <2> QED BY <2>1, <2>2, <2>3, <2>4 DEF DisagreementHasCause, NotLanded
<1> QED BY <1>1, DiagInductive, PTL

\* When the operator was told "expired", the chain does nothing more with the
\* transaction, with or without forks: no node is ahead of the chain
\* (diagnose.ts, lines 123-132).
THEOREM DiagnosedExpiryFinal == DiagSpec => DiagnosedExpiryIsFinal
<1>1. ASSUME DiagInv, [DiagNext]_diagnosedVars, verdict = "expired"
      PROVE  UNCHANGED <<tip, landedAt, landedErr>>
  <2>1. height > LastValidBlockHeight /\ height \in Nat /\ LastValidBlockHeight \in Nat
    BY <1>1, LedgerAssumption
    DEF LedgerAssumption, DiagInv, VerdictInv, IInv, TrackerTypeOK, LedgerTypeOK
  <2>2. tip = "none"
    BY <1>1, <2>1 DEF DiagInv, IInv, LedgerInv
  <2>3. ASSUME LedgerNext PROVE UNCHANGED <<tip, landedAt, landedErr>>
    BY <2>1, <2>2, <2>3 DEF LedgerNext, Include, Confirm, Rollback, Drop, CatchUp
  <2> QED BY <1>1, <2>3
    DEF DiagNext, TrackerNext, diagnosedVars, trackerVars, ledgerVars
<1> QED BY <1>1, DiagInductive, PTL DEF DiagnosedExpiryIsFinal, DiagSpec

=============================================================================
