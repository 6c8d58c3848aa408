------------------------------- MODULE Crossing -------------------------------
(***************************************************************************)
(* What the bridge simulation promises: vehicles go over (or under) the    *)
(* bridge one at a time, each at most once, a car only while the bridge is *)
(* lowered and a ship only while it is raised, and the span moves only     *)
(* while nothing is passing.                                               *)
(***************************************************************************)
CONSTANTS Cars, Ships

VARIABLES
  passing,      \* the vehicles that are on (or under) the bridge
  passed,       \* the vehicles that have been
  span          \* "CLOSE": lowered, cars may drive; "OPEN": raised

vars == <<passing, passed, span>>

Vehicles == Cars \cup Ships

Init ==
  /\ passing = {}
  /\ passed = {}
  /\ span = "CLOSE"

Enter(v) ==
  /\ passing = {}
  /\ v \notin passed
  /\ span = IF v \in Cars THEN "CLOSE" ELSE "OPEN"
  /\ passing' = {v}
  /\ UNCHANGED <<passed, span>>

Leave(v) ==
  /\ v \in passing
  /\ passing' = passing \ {v}
  /\ passed' = passed \cup {v}
  /\ UNCHANGED span

MoveSpan ==
  /\ passing = {}
  /\ span' \in {"CLOSE", "OPEN"} \ {span}
  /\ UNCHANGED <<passing, passed>>

Next ==
  \/ \E v \in Vehicles : Enter(v) \/ Leave(v)
  \/ MoveSpan

Spec == Init /\ [][Next]_vars
=============================================================================
