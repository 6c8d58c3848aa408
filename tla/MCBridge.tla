------------------------------ MODULE MCBridge ------------------------------
(* Bounds for TLC: the configurations give main's two arguments and        *)
(* MAX_NUM_OF_SHIPS.                                                       *)
EXTENDS Bridge
=============================================================================
