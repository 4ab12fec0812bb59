------------------------------- MODULE Ledger -------------------------------
(***************************************************************************)
(* The Solana cluster as the kit sees it: one signed transaction, the      *)
(* chain that may or may not include it, and the RPC nodes that report on  *)
(* it.  Nothing here is code of the kit; it is what the kit's calls        *)
(* sendTransaction, getSignatureStatuses, getBlockHeight and               *)
(* signatureNotifications are answered from.                               *)
(*                                                                         *)
(* Blocks 1..height are confirmed and never revert.  At most one block on  *)
(* top of them is processed but not yet confirmed; `tip' says whether that *)
(* block holds the transaction.  A node lags: view[n] is the height of the *)
(* newest confirmed block node n has.                                      *)
(***************************************************************************)
EXTENDS Naturals, FiniteSets

CONSTANTS
  Nodes,                  \* the RPC nodes
  LastValidBlockHeight,   \* the last block that may include the transaction
  FinalDepth,             \* confirmed blocks on top that make a block final
  MaxHeight,              \* bound: the chain stops growing here
  Forks                   \* may a processed block be abandoned?

ASSUME LedgerAssumption ==
  /\ Nodes # {}
  /\ LastValidBlockHeight \in Nat \ {0}
  /\ FinalDepth \in Nat \ {0}
  /\ MaxHeight \in Nat
  /\ MaxHeight > LastValidBlockHeight
  /\ Forks \in BOOLEAN

VARIABLES
  height,     \* confirmed block height
  tip,        \* the transaction in the processed block: "none", "ok" or "err"
  landedAt,   \* the confirmed block that holds it, 0 while there is none
  landedErr,  \* it landed, and its execution failed
  inflight,   \* a leader holds a copy it may still include
  view        \* view[n]: confirmed height known to node n

ledgerVars == <<height, tip, landedAt, landedErr, inflight, view>>

LedgerTypeOK ==
  /\ height \in 0..MaxHeight
  /\ tip \in {"none", "ok", "err"}
  /\ landedAt \in 0..MaxHeight
  /\ landedErr \in BOOLEAN
  /\ inflight \in BOOLEAN
  /\ view \in [Nodes -> 0..MaxHeight]

LedgerInit ==
  /\ height = 0
  /\ tip = "none"
  /\ landedAt = 0
  /\ landedErr = FALSE
  /\ inflight \in BOOLEAN
  /\ view = [n \in Nodes |-> 0]

-----------------------------------------------------------------------------

\* A leader puts the transaction in the block it is producing.  The runtime
\* takes a signature once, and not after its blockhash has died.
Include ==
  /\ inflight
  /\ landedAt = 0
  /\ tip = "none"
  /\ height < LastValidBlockHeight
  /\ tip' \in {"ok", "err"}
  /\ UNCHANGED <<height, landedAt, landedErr, inflight, view>>

\* The processed block is confirmed.
Confirm ==
  /\ height < MaxHeight
  /\ height' = height + 1
  /\ landedAt' = IF tip = "none" THEN landedAt ELSE height + 1
  /\ landedErr' = IF tip = "none" THEN landedErr ELSE tip = "err"
  /\ tip' = "none"
  /\ UNCHANGED <<inflight, view>>

\* The processed block is abandoned for another one at the same height.
Rollback ==
  /\ Forks
  /\ tip # "none"
  /\ tip' = "none"
  /\ UNCHANGED <<height, landedAt, landedErr, inflight, view>>

\* Every leader copy is lost: the packet or the queue entry is dropped.
Drop ==
  /\ inflight
  /\ inflight' = FALSE
  /\ UNCHANGED <<height, tip, landedAt, landedErr, view>>

\* Node n learns of newer confirmed blocks.
CatchUp(n) ==
  /\ view[n] < height
  /\ \E h \in (view[n] + 1)..height : view' = [view EXCEPT ![n] = h]
  /\ UNCHANGED <<height, tip, landedAt, landedErr, inflight>>

LedgerNext ==
  \/ Include
  \/ Confirm
  \/ Rollback
  \/ Drop
  \/ \E n \in Nodes : CatchUp(n)

\* The chain keeps producing blocks and every node keeps following it.
LedgerFairness ==
  /\ WF_ledgerVars(Confirm)
  /\ \A n \in Nodes : WF_ledgerVars(CatchUp(n))

-----------------------------------------------------------------------------

Status == [seen : BOOLEAN, err : BOOLEAN, rank : 0..2]

\* getSignatureStatuses answers null.
NoStatus == [seen |-> FALSE, err |-> FALSE, rank |-> 0]

\* The node has the block of the transaction and knows how deep it is.
LandedStatus(n) ==
  [seen |-> TRUE,
   err  |-> landedErr,
   rank |-> IF view[n] >= landedAt + FinalDepth THEN 2 ELSE 1]

\* The result of the transaction in the block after the node's newest
\* confirmed one: the node may or may not have processed that block.
Processed(n) ==
  {r \in {"ok", "err"} :
     \/ landedAt = view[n] + 1 /\ landedErr = (r = "err")
     \/ view[n] = height /\ tip = r}

\* What node n may answer to getSignatureStatuses now.
NodeStatuses(n) ==
  IF landedAt # 0 /\ landedAt <= view[n]
  THEN {LandedStatus(n)}
  ELSE {NoStatus} \cup
       {[seen |-> TRUE, err |-> r = "err", rank |-> 0] : r \in Processed(n)}

=============================================================================
