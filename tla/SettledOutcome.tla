--------------------------- MODULE SettledOutcome ---------------------------
(***************************************************************************)
(* What ConfirmationTracker.track promises, with everything about nodes,   *)
(* polls and subscriptions forgotten.  A transaction is executed at most   *)
(* once, and only until its blockhash dies; a call settles at most once,   *)
(* reports "confirmed" or "failed" only of a transaction executed with     *)
(* that result, and "expired" only when what happened to the transaction   *)
(* can no longer change.                                                   *)
(*                                                                         *)
(* It does not say that an expired transaction was never executed: the     *)
(* code cannot promise it (ConfirmationTracker, ExpiredNeverLanded).       *)
(***************************************************************************)

VARIABLES
  executed,   \* "no", "ok" or "err"
  dead,       \* the blockhash is no longer valid
  outcome     \* "none", or how the call settled

settledVars == <<executed, dead, outcome>>

SettledInit ==
  /\ executed = "no"
  /\ dead = FALSE
  /\ outcome = "none"

Execute ==
  /\ executed = "no"
  /\ ~dead
  /\ executed' \in {"ok", "err"}
  /\ UNCHANGED <<dead, outcome>>

\* The block that kills the blockhash may itself be the one in which the
\* transaction was executed before.
Die ==
  /\ ~dead
  /\ dead' = TRUE
  /\ UNCHANGED <<executed, outcome>>

Settle(o) ==
  /\ outcome = "none"
  /\ o = "confirmed" => executed = "ok"
  /\ o = "failed" => executed = "err"
  /\ o = "expired" => dead
  /\ outcome' = o
  /\ UNCHANGED <<executed, dead>>

SettledNext ==
  \/ Execute
  \/ Die
  \/ \E o \in {"confirmed", "failed", "expired", "rejected"} : Settle(o)

SettledSpec == SettledInit /\ [][SettledNext]_settledVars

=============================================================================
