---------------------------- MODULE MCDiagnostics ---------------------------
(* Instances of Diagnostics, and of the tracker beside it, for TLC. *)
EXTENDS Diagnostics

\* A client named after a node talks to it, any other is a gateway.
OneGateway == [c \in Clients |-> IF c \in Nodes THEN {c} ELSE Nodes]

=============================================================================
