---------------------------- MODULE MCJitoRouter ----------------------------
(* Instances of JitoRouter for TLC. *)
EXTENDS JitoRouter

\* The sender's one client is a gateway: any node may serve any of its calls.
GatewayBackends == [c \in Clients |-> Nodes]

=============================================================================
