------------------------ MODULE MCUseResilientSender ------------------------
(* Instances of UseResilientSender for TLC: the callers are model values. *)
EXTENDS UseResilientSender

CONSTANTS b1, b2

BatchOfTwo == <<b1, b2>>

=============================================================================
