----------------------------- MODULE MCShmChannel -----------------------------
(* Values for TLC.  The first line of one client and the last of the other *)
(* have no newline, so that stdout has kept a line when one comes with a   *)
(* newline, and one without.                                               *)
EXTENDS ShmChannel

CONSTANTS c1, c2

TwoUnended == {<<c1, 1>>, <<c2, 2>>}

OneUnended == {<<c1, 1>>}
=============================================================================
