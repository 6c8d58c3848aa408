-------------------------------- MODULE MCBoat --------------------------------
(* Bounds for TLC are the constants' values in the configurations.         *)
EXTENDS Boat
=============================================================================
