------------------------ MODULE MCResilientRpcPool --------------------------
(* Instances of ResilientRpcPool for TLC. *)
EXTENDS ResilientRpcPool

CONSTANTS a, b

TwoEndpoints == <<a, b>>

\* The method whose answers carry a slot, also when they are late.
OneMethod == [m \in {"getSlot"} |-> 2]

=============================================================================
