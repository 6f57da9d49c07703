---------------------------- MODULE MCPortForward ----------------------------
(* An instance of PortForward for TLC.                                      *)
EXTENDS PortForward

CONSTANTS f1, c1

\* One user for each of two forwards, which share one context and one slot.
MCUsers == [f \in Fwd |-> IF f = f1 THEN {c1} ELSE Cid \ {c1}]
=============================================================================
