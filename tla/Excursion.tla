------------------------------ MODULE Excursion ------------------------------
(***************************************************************************)
(* What the boat promises: seats are booked and given back only while it   *)
(* lies at the coast, nobody books a seat that is not there, the boat      *)
(* leaves full or not at all, whoever has a seat when it leaves has it     *)
(* when it returns, and it makes no more trips than it was told to.        *)
(***************************************************************************)
EXTENDS Naturals, FiniteSets

CONSTANTS Passengers, SEATS, NUM_OF_TRIPS

VARIABLES
  seated,       \* the passengers with a seat
  atSea,
  trips         \* the trips the boat has come back from

vars == <<seated, atSea, trips>>

Init ==
  /\ seated = {}
  /\ atSea = FALSE
  /\ trips = 0

Book(p) ==
  /\ ~ atSea
  /\ p \notin seated
  /\ Cardinality(seated) < SEATS
  /\ seated' = seated \cup {p}
  /\ UNCHANGED <<atSea, trips>>

GiveBack(p) ==
  /\ ~ atSea
  /\ p \in seated
  /\ seated' = seated \ {p}
  /\ UNCHANGED <<atSea, trips>>

Depart ==
  /\ ~ atSea
  /\ trips < NUM_OF_TRIPS
  /\ Cardinality(seated) = SEATS
  /\ atSea' = TRUE
  /\ UNCHANGED <<seated, trips>>

Return ==
  /\ atSea
  /\ atSea' = FALSE
  /\ trips' = trips + 1
  /\ UNCHANGED seated

Next == Depart \/ Return \/ \E p \in Passengers : Book(p) \/ GiveBack(p)

Spec == Init /\ [][Next]_vars
=============================================================================
