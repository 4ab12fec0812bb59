----------------------- MODULE MCWalletAdapterBridge ------------------------
(* Instances of WalletAdapterBridge for TLC. *)
EXTENDS WalletAdapterBridge

\* The sender's one client is a gateway: any node may serve any of its calls.
GatewayBackends == [c \in Clients |-> Nodes]

=============================================================================
