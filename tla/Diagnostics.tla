----------------------------- MODULE Diagnostics ----------------------------
(***************************************************************************)
(* An operator asks once what became of a transaction,                     *)
(* Diagnostics.explainTransaction (src/src/cli/diagnose.ts), while a       *)
(* tracker may still be following it.  The operator's RPC is served by any *)
(* of the nodes, a different one for each of the two queries at worst.     *)
(***************************************************************************)
EXTENDS ConfirmationTracker

VARIABLES
  dPc,       \* where explainTransaction stands
  onChain,   \* its local `status' is not null
  known,     \* history: the view of the node its status is from
  verdict    \* what it returned

diagVars == <<dPc, onChain, known, verdict>>
diagnosedVars == <<trackerVars, diagVars>>

DiagTypeOK ==
  /\ TrackerTypeOK
  /\ dPc \in {"idle", "status", "height", "done"}
  /\ onChain \in BOOLEAN
  /\ known \in 0..MaxHeight
  /\ verdict \in {"none", "confirmed", "expired", "pending", "rejected"}

DiagInit ==
  /\ TrackerInit
  /\ dPc = "idle"
  /\ onChain = FALSE
  /\ known = 0
  /\ verdict = "none"

-----------------------------------------------------------------------------

Tell(v) ==
  /\ dPc' = "done"
  /\ verdict' = v

Explain ==
  /\ dPc = "idle"
  /\ dPc' = "status"
  /\ UNCHANGED <<onChain, known, verdict>>

\* Fault: a status is a landing, whatever the execution's result.
LandedIgnoringError(s) == s.seen

\* Fault: a status below commitment finalized is no landing yet.
LandedFinally(s) == s.seen /\ ~s.err /\ s.rank = 2

\* Any status without an error is a landing, be it only processed; one with an
\* error is treated as none.
Landed(s) == s.seen /\ ~s.err

ReadStatus(n) ==
  /\ dPc = "status"
  /\ known' = view[n]
  /\ \E s \in NodeStatuses(n) :
       /\ onChain' = s.seen
       /\ \/ Landed(s) /\ Tell("confirmed")
          \/ ~Landed(s) /\ dPc' = "height" /\ UNCHANGED verdict

CompareHeight(n) ==
  /\ dPc = "height"
  /\ Tell(IF PastDeadline(view[n]) THEN "expired" ELSE "pending")
  /\ UNCHANGED <<onChain, known>>

ExplainRejects ==
  /\ dPc \in {"status", "height"}
  /\ Tell("rejected")
  /\ UNCHANGED <<onChain, known>>

-----------------------------------------------------------------------------

ExplainStep ==
  \/ Explain
  \/ \E n \in Nodes : ReadStatus(n) \/ CompareHeight(n)
  \/ ExplainRejects

DiagNext ==
  \/ TrackerNext /\ UNCHANGED diagVars
  \/ ExplainStep /\ UNCHANGED trackerVars

DiagSpec == DiagInit /\ [][DiagNext]_diagnosedVars

\* The operator need not ask.
FairDiagSpec ==
  /\ DiagSpec
  /\ WF_trackVars(\E S \in SUBSET Clients : Track(S))
  /\ LedgerFairness
  /\ TrackFairness

-----------------------------------------------------------------------------
(* Properties.                                                             *)

\* The verdict is not always the tracker's, whoever asks first; where the two
\* differ about a transaction that landed, it is in one of these ways only
\* (lines 10-12, 104-132).  The operator says confirmed: the program may say
\* expired, of a block that was short of the target commitment for every node
\* of its last round, and never failed.  The operator says expired: the block
\* was above what the node that gave the status knew, or the status carried
\* the execution's error.
DisagreementHasCause ==
  /\ verdict = "confirmed" =>
       /\ outcome # "failed"
       /\ outcome = "expired" => landedAt # 0 /\ landedAt + Depth > horizon
  /\ verdict = "expired" /\ landedAt # 0 =>
       landedAt > known \/ (landedErr /\ onChain)

\* When the operator was told "expired", and to rebuild the transaction, the
\* chain does nothing more with the old one (lines 123-132).
DiagnosedExpiryIsFinal ==
  [][verdict = "expired" => UNCHANGED <<tip, landedAt, landedErr>>]_diagnosedVars

-----------------------------------------------------------------------------
(* What a comment of the source says and the code does not do.             *)

\* A transaction is "expired" if it had not landed: "the blockhash expired
\* before the transaction landed" (lines 128-129).
DiagnosedExpiredHadNotLanded == verdict = "expired" => ~onChain

=============================================================================
