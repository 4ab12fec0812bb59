------------------------- MODULE MCTransactionSender ------------------------
(* Instances of TransactionSender for TLC. *)
EXTENDS TransactionSender

\* The sender's one client is a gateway: any node may serve any of its calls.
GatewayBackends == [c \in Clients |-> Nodes]

=============================================================================
