----------------------- MODULE MCConfirmationTracker ------------------------
(* Instances of ConfirmationTracker for TLC. *)
EXTENDS ConfirmationTracker

\* Every client is a gateway: any node may serve any of its calls.
GatewayBackends == [c \in Clients |-> Nodes]

\* Every client talks to the node it is named after.
OwnBackend == [c \in Clients |-> {c}]

=============================================================================
