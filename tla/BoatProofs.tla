------------------------------ MODULE BoatProofs ------------------------------
(***************************************************************************)
(* For every number of passengers, trips, seats and places on the stair,   *)
(* whether forks fail or not: seats and stair are never overbooked, nobody *)
(* is left over from a trip, the boat implements Excursion, and whenever   *)
(* nobody can move it is for one of the named reasons.                     *)
(***************************************************************************)
EXTENDS Boat, FiniteSetTheorems, TLAPS

USE BoatAssumption

-----------------------------------------------------------------------------
(* The passengers at some steps are finitely many.                         *)
LEMMA AtCount ==
  ASSUME NEW S
  PROVE  /\ At(S) \subseteq Passengers
         /\ IsFiniteSet(At(S))
         /\ Cardinality(At(S)) \in Nat
         /\ Cardinality(At(S)) = 0 <=> At(S) = {}
<1>1. IsFiniteSet(Passengers)
  BY FS_Interval DEF Passengers
<1>2. At(S) \subseteq Passengers
  BY DEF At
<1>3. QED
  BY <1>1, <1>2, FS_Subset, FS_CardinalityType, FS_EmptySet

LEMMA SeatsType ==
  /\ Seats \in Nat /\ Seats > 0
  /\ Seats <= NUM_OF_PASS
BY DEF Seats

(* A passenger's step, without EXCEPT, and what it does to the number of   *)
(* passengers at the steps S.                                              *)
LEMMA GotoMoves ==
  ASSUME TypeOK, NEW p \in Passengers, NEW from, NEW to \in Steps,
         Goto(p, from, to)
  PROVE  /\ pc' \in [Passengers -> Steps]
         /\ pc[p] = from /\ pc'[p] = to
         /\ \A q \in Passengers : q # p => pc'[q] = pc[q]
BY DEF Goto, TypeOK, Steps

LEMMA GotoCounts ==
  ASSUME TypeOK, NEW p \in Passengers, NEW from, NEW to \in Steps,
         Goto(p, from, to), NEW S
  PROVE  /\ (from \in S <=> to \in S) =>
              At(S)' = At(S) /\ Cardinality(At(S)') = Cardinality(At(S))
         /\ from \notin S /\ to \in S =>
              Cardinality(At(S)') = Cardinality(At(S)) + 1
         /\ from \in S /\ to \notin S =>
              Cardinality(At(S)') = Cardinality(At(S)) - 1
<1>1. /\ pc[p] = from /\ pc'[p] = to
      /\ \A q \in Passengers : q # p => pc'[q] = pc[q]
  BY GotoMoves
<1>2. (from \in S <=> to \in S) => At(S)' = At(S)
  BY <1>1 DEF At
<1>3. ASSUME from \notin S, to \in S
      PROVE  Cardinality(At(S)') = Cardinality(At(S)) + 1
  <2>1. At(S)' = At(S) \cup {p} /\ p \notin At(S)
    BY <1>1, <1>3 DEF At
  <2>2. QED
    BY <2>1, AtCount, FS_AddElement
<1>4. ASSUME from \in S, to \notin S
      PROVE  Cardinality(At(S)') = Cardinality(At(S)) - 1
  <2>1. At(S)' = At(S) \ {p} /\ p \in At(S)
    BY <1>1, <1>4 DEF At
  <2>2. QED
    BY <2>1, AtCount, FS_RemoveElement
<1>5. QED
  BY <1>2, <1>3, <1>4

(* The semaphore calls, one semaphore at a time.                           *)
LEMMA SemaphoreCalls ==
  ASSUME sem \in [Semaphors -> Nat], NEW s \in Semaphors, NEW n \in Nat
  PROVE  /\ P_oper(s, n) => /\ sem' \in [Semaphors -> Nat]
                            /\ sem[s] >= n
                            /\ sem'[s] = sem[s] - n
                            /\ \A t \in Semaphors : t # s => sem'[t] = sem[t]
         /\ V_oper(s, n) => /\ sem' \in [Semaphors -> Nat]
                            /\ sem'[s] = sem[s] + n
                            /\ \A t \in Semaphors : t # s => sem'[t] = sem[t]
         /\ Z_oper(s) => sem[s] = 0 /\ sem' = sem
BY DEF P_oper, V_oper, Z_oper

-----------------------------------------------------------------------------
(* What a passenger's step from one operation to the next does to the      *)
(* semaphores it counts with.                                              *)
Takes(p, from, to, s) == Goto(p, from, to) /\ P_oper(s, 1)
Gives(p, from, to, s) == Goto(p, from, to) /\ V_oper(s, 1)
Looks(p, from, to) == Goto(p, from, to) /\ UNCHANGED sem

(* The thirteen operations, as what they take, give or look at.            *)
LEMMA PassengerSteps ==
  ASSUME TypeOK, NEW p \in Passengers, Passenger(p)
  PROVE  \/ Looks(p, "coast", "first_look") /\ sem["STAIR_DOWN"] = 0
         \/ Looks(p, "first_look", "out") /\ IsLastTrip
         \/ Looks(p, "first_look", "book") /\ ~ IsLastTrip
         \/ Takes(p, "book", "second_look", "NUM_ON_BOAT")
         \/ Looks(p, "second_look", "out_with_seat") /\ IsLastTrip
         \/ Looks(p, "second_look", "gangway") /\ ~ IsLastTrip
         \/ Takes(p, "gangway", "boarding", "NUM_ON_STAIR")
         \/ Gives(p, "boarding", "aboard", "NUM_ON_STAIR")
         \/ Looks(p, "aboard", "sailing") /\ sem["START_OF_TRIP"] = 0
         \/ Looks(p, "sailing", "arrived") /\ sem["END_OF_TRIP"] = 0
         \/ Looks(p, "arrived", "disembark") /\ sem["STAIR_DOWN"] = 0
         \/ Takes(p, "disembark", "leaving", "NUM_ON_STAIR")
         \/ Gives(p, "leaving", "island", "NUM_ON_STAIR")
         \/ Gives(p, "island", "landed", "NUM_ON_BOAT")
         \/ Takes(p, "landed", "coast", "NUM_ON_COAST")
BY DEF Passenger, WaitForStair, FirstLook, Book, SecondLook, StepOnStair,
       StepIntoBoat, WaitForStart, WaitForEnd, WaitForStairAgain, StepOffBoat,
       StepOffStair, FreeSeat, BackOnCoast, Z_oper, Takes, Gives, Looks

DoorNames == {"STAIR_DOWN", "START_OF_TRIP", "END_OF_TRIP", "LAST_TRIP"}

(* Passengers neither open nor close a door, and leave the captain alone.  *)
LEMMA PassengerKeeps ==
  ASSUME TypeOK, NEW p \in Passengers, Passenger(p)
  PROVE  /\ TypeOK'
         /\ \A s \in DoorNames : sem'[s] = sem[s]
         /\ UNCHANGED <<captain, i, main, index>>
<1>1. UNCHANGED <<captain, i, main, index>>
  BY DEF Passenger
<1>2. /\ sem' \in [Semaphors -> Nat]
      /\ \A s \in DoorNames : sem'[s] = sem[s]
  BY PassengerSteps, SemaphoreCalls
  DEF TypeOK, Semaphors, DoorNames, Takes, Gives, Looks
<1>3. pc' \in [Passengers -> Steps]
  <2>1. PICK from \in Steps, to \in Steps : Goto(p, from, to)
    BY PassengerSteps DEF Takes, Gives, Looks, Steps, Holding, Behind, GoingAshore
  <2>2. QED
    BY <2>1, GotoMoves
<1>4. QED
  BY <1>1, <1>2, <1>3 DEF TypeOK, Steps

LEMMA PassengerSeats ==
  ASSUME TypeOK, SeatsExact, NEW p \in Passengers, Passenger(p)
  PROVE  SeatsExact'
<1> USE DEF Steps, Holding, Behind, GoingAshore
<1>1. /\ Cardinality(Holders) \in Nat
      /\ sem \in [Semaphors -> Nat]
      /\ sem["NUM_ON_BOAT"] \in Nat
      /\ sem["NUM_ON_BOAT"] + Cardinality(Holders) = Seats
  BY AtCount DEF Holders, TypeOK, Semaphors, SeatsExact
<1>2. CASE Takes(p, "book", "second_look", "NUM_ON_BOAT")
  <2>1. sem'["NUM_ON_BOAT"] = sem["NUM_ON_BOAT"] - 1
    BY <1>1, <1>2, SemaphoreCalls DEF Takes, Semaphors
  <2>2. Cardinality(Holders') = Cardinality(Holders) + 1
    BY <1>2, GotoCounts DEF Takes, Holders
  <2>3. QED
    BY <1>1, <2>1, <2>2 DEF SeatsExact
<1>3. CASE Gives(p, "island", "landed", "NUM_ON_BOAT")
  <2>1. sem'["NUM_ON_BOAT"] = sem["NUM_ON_BOAT"] + 1
    BY <1>1, <1>3, SemaphoreCalls DEF Gives, Semaphors
  <2>2. Cardinality(Holders') = Cardinality(Holders) - 1
    BY <1>3, GotoCounts DEF Gives, Holders
  <2>3. QED
    BY <1>1, <2>1, <2>2 DEF SeatsExact
<1>4. CASE /\ ~ Takes(p, "book", "second_look", "NUM_ON_BOAT")
           /\ ~ Gives(p, "island", "landed", "NUM_ON_BOAT")
  <2>1. sem'["NUM_ON_BOAT"] = sem["NUM_ON_BOAT"]
    BY <1>1, <1>4, PassengerSteps, SemaphoreCalls
    DEF Takes, Gives, Looks, Semaphors
  <2>2. PICK from \in Steps, to \in Steps :
          Goto(p, from, to) /\ (from \in Holding <=> to \in Holding)
    BY <1>4, PassengerSteps DEF Takes, Gives, Looks
  <2>3. Cardinality(Holders') = Cardinality(Holders)
    BY <2>2, GotoCounts DEF Holders
  <2>4. QED
    BY <1>1, <2>1, <2>3 DEF SeatsExact
<1>5. QED
  BY <1>2, <1>3, <1>4

LEMMA PassengerStair ==
  ASSUME TypeOK, StairExact, NEW p \in Passengers, Passenger(p)
  PROVE  StairExact'
<1> DEFINE S == {"boarding", "leaving"}
<1> USE DEF Steps, Holding, Behind, GoingAshore
<1>1. /\ Cardinality(OnStair) \in Nat
      /\ sem \in [Semaphors -> Nat]
      /\ sem["NUM_ON_STAIR"] \in Nat
  BY AtCount DEF OnStair, TypeOK, Semaphors
<1>2. captain' = captain
  BY PassengerKeeps
<1>3. CASE \/ Takes(p, "gangway", "boarding", "NUM_ON_STAIR")
           \/ Takes(p, "disembark", "leaving", "NUM_ON_STAIR")
  <2>1. sem'["NUM_ON_STAIR"] = sem["NUM_ON_STAIR"] - 1
    BY <1>1, <1>3, SemaphoreCalls DEF Takes, Semaphors
  <2>2. Cardinality(OnStair') = Cardinality(OnStair) + 1
    BY <1>3, GotoCounts DEF Takes, OnStair
  <2>3. QED
    BY <1>1, <1>2, <2>1, <2>2 DEF StairExact
<1>4. CASE \/ Gives(p, "boarding", "aboard", "NUM_ON_STAIR")
           \/ Gives(p, "leaving", "island", "NUM_ON_STAIR")
  <2>1. sem'["NUM_ON_STAIR"] = sem["NUM_ON_STAIR"] + 1
    BY <1>1, <1>4, SemaphoreCalls DEF Gives, Semaphors
  <2>2. Cardinality(OnStair') = Cardinality(OnStair) - 1
    BY <1>4, GotoCounts DEF Gives, OnStair
  <2>3. QED
    BY <1>1, <1>2, <2>1, <2>2 DEF StairExact
<1>5. CASE /\ ~ Takes(p, "gangway", "boarding", "NUM_ON_STAIR")
           /\ ~ Takes(p, "disembark", "leaving", "NUM_ON_STAIR")
           /\ ~ Gives(p, "boarding", "aboard", "NUM_ON_STAIR")
           /\ ~ Gives(p, "leaving", "island", "NUM_ON_STAIR")
  <2>1. sem'["NUM_ON_STAIR"] = sem["NUM_ON_STAIR"]
    BY <1>1, <1>5, PassengerSteps, SemaphoreCalls
    DEF Takes, Gives, Looks, Semaphors
  <2>2. PICK from \in Steps, to \in Steps :
          Goto(p, from, to) /\ (from \in S <=> to \in S)
    BY <1>5, PassengerSteps DEF Takes, Gives, Looks
  <2>3. Cardinality(OnStair') = Cardinality(OnStair)
    BY <2>2, GotoCounts DEF OnStair
  <2>4. QED
    BY <1>1, <1>2, <2>1, <2>3 DEF StairExact
<1>6. QED
  BY <1>3, <1>4, <1>5

(* A passenger makes GoingAshore steps only while the stair is lowered     *)
(* after a trip.                                                           *)
LEMMA PassengerPlaces ==
  ASSUME IInv, NEW p \in Passengers, Passenger(p)
  PROVE  /\ NobodyLeftOver'
         /\ captain # "empty" => At(GoingAshore \ {"arrived"})' = {}
         /\ captain = "close_end" => Travellers' = {}
         /\ captain # "empty" => sem'["NUM_ON_COAST"] = sem["NUM_ON_COAST"]
         /\ captain \in {"raise", "sweep", "swept", "depart", "sail", "lower"} =>
              sem'["NUM_ON_BOAT"] = sem["NUM_ON_BOAT"]
<1> USE DEF IInv, Steps, Holding, Behind, GoingAshore
<1>1. /\ sem \in [Semaphors -> Nat]
      /\ captain' = captain
      /\ captain \in {"prepare", "close_start", "trip", "fill", "raise", "sweep",
                      "swept", "depart", "sail", "lower", "empty", "close_end",
                      "refill", "again", "done"}
  BY PassengerKeeps DEF TypeOK
<1>2. captain # "empty" => pc[p] \notin {"disembark", "leaving", "island", "landed"}
  BY DEF Phases, At
<1>3. /\ captain \notin {"lower", "empty"} => pc[p] # "arrived"
      /\ captain = "close_end" => pc[p] # "sailing"
  BY DEF NobodyLeftOver, Phases, Travellers, At
<1>4. /\ sem["END_OF_TRIP"] = 0 => captain \in {"lower", "empty", "close_end"}
      /\ captain \in {"lower"} => sem["STAIR_DOWN"] = 1
      /\ captain = "close_end" => sem["START_OF_TRIP"] = 1
  BY DEF Doors
<1>5. captain \in {"raise", "sweep", "swept", "depart", "sail", "lower"} =>
        sem["NUM_ON_BOAT"] = 0
  BY DEF Phases
<1>6. PICK from \in Steps, to \in Steps :
        /\ Goto(p, from, to)
        /\ to \in GoingAshore \ {"arrived"} =>
             from \in GoingAshore /\ (from = "arrived" => sem["STAIR_DOWN"] = 0)
        /\ to = "arrived" => from = "sailing" /\ sem["END_OF_TRIP"] = 0
        /\ to = "sailing" => sem["START_OF_TRIP"] = 0
  BY PassengerSteps DEF Takes, Gives, Looks
<1>7. /\ pc[p] = from /\ pc'[p] = to
      /\ \A q \in Passengers : q # p => pc'[q] = pc[q]
  BY <1>6, GotoMoves
<1>8. captain # "empty" => to \notin GoingAshore \ {"arrived"}
  BY <1>1, <1>2, <1>3, <1>4, <1>6, <1>7
<1>9. captain \notin {"lower", "empty"} => to \notin GoingAshore
  BY <1>1, <1>3, <1>4, <1>6, <1>7, <1>8
<1>10. captain = "close_end" => to # "sailing"
  BY <1>4, <1>6
<1>11. NobodyLeftOver'
  BY <1>1, <1>7, <1>9 DEF NobodyLeftOver
<1>12. captain # "empty" => At(GoingAshore \ {"arrived"})' = {}
  BY <1>7, <1>8 DEF At, Phases
<1>13. captain = "close_end" => Travellers' = {}
  BY <1>7, <1>9, <1>10 DEF At, Phases, Travellers
<1>14. captain # "empty" => sem'["NUM_ON_COAST"] = sem["NUM_ON_COAST"]
  <2>1. captain # "empty" => ~ Takes(p, "landed", "coast", "NUM_ON_COAST")
    BY <1>2 DEF Takes, Goto
  <2>2. QED
    BY <1>1, <2>1, PassengerSteps, SemaphoreCalls
    DEF Takes, Gives, Looks, Semaphors
<1>15. ASSUME captain \in {"raise", "sweep", "swept", "depart", "sail", "lower"}
       PROVE  sem'["NUM_ON_BOAT"] = sem["NUM_ON_BOAT"]
  <2>1. ~ Takes(p, "book", "second_look", "NUM_ON_BOAT")
    BY <1>1, <1>5, <1>15, SemaphoreCalls DEF Takes, Semaphors
  <2>2. ~ Gives(p, "island", "landed", "NUM_ON_BOAT")
    BY <1>2, <1>15 DEF Gives, Goto
  <2>3. QED
    BY <1>1, <2>1, <2>2, PassengerSteps, SemaphoreCalls
    DEF Takes, Gives, Looks, Semaphors
<1>16. QED
  BY <1>11, <1>12, <1>13, <1>14, <1>15

(* The doors, and with them the captain's promises, stay as they are.      *)
LEMMA PassengerPhases ==
  ASSUME IInv, NEW p \in Passengers, Passenger(p)
  PROVE  Doors' /\ Phases' /\ Outsiders'
<1>1. /\ \A s \in DoorNames : sem'[s] = sem[s]
      /\ UNCHANGED <<captain, i, main, index>>
  BY PassengerKeeps DEF IInv
<1>2. Doors'
  BY <1>1 DEF IInv, Doors, DoorNames
<1>3. Phases'
  BY <1>1, PassengerPlaces DEF IInv, Phases
<1>4. Outsiders'
  <2>1. PICK from \in Steps, to \in Steps :
          /\ Goto(p, from, to)
          /\ from # "unborn" /\ to # "unborn"
          /\ to \in {"out", "out_with_seat"} => IsLastTrip
    BY PassengerSteps
    DEF IInv, Takes, Gives, Looks, Steps, Holding, Behind, GoingAshore
  <2>2. /\ pc[p] = from /\ pc'[p] = to
        /\ \A q \in Passengers : q # p => pc'[q] = pc[q]
    BY <2>1, GotoMoves DEF IInv
  <2>3. IsLastTrip' <=> IsLastTrip
    BY <1>1 DEF IsLastTrip, DoorNames
  <2>4. At({"out", "out_with_seat"})' # {} => IsLastTrip'
    BY <2>1, <2>2, <2>3 DEF IInv, Outsiders, At
  <2>5. \A q \in Passengers : pc'[q] = "unborn" <=> q > index'
    BY <1>1, <2>1, <2>2 DEF IInv, Outsiders
  <2>6. QED
    BY <2>4, <2>5 DEF Outsiders
<1>5. QED
  BY <1>2, <1>3, <1>4

(* Travellers come back and are counted; the door to the trip is closed    *)
(* for those that are behind.                                              *)
LEMMA PassengerCoast ==
  ASSUME IInv, NEW p \in Passengers, Passenger(p)
  PROVE  CoastExact'
<1> DEFINE T == GoingAshore \cup {"sailing"}
<1> USE DEF IInv, Steps, Holding, Behind, GoingAshore
<1>1. captain' = captain
  BY PassengerKeeps
<1> SUFFICES ASSUME captain \in {"sail", "lower", "empty"}
             PROVE  /\ Cardinality(Travellers') <= sem'["NUM_ON_COAST"]
                    /\ sem'["NUM_ON_COAST"] <=
                         Cardinality(Travellers') + Cardinality(At(Behind)')
  BY <1>1 DEF CoastExact
<1>2. /\ sem["START_OF_TRIP"] = 1
      /\ sem \in [Semaphors -> Nat] /\ sem["NUM_ON_COAST"] \in Nat
      /\ Cardinality(Travellers) \in Nat /\ Cardinality(At(Behind)) \in Nat
      /\ Cardinality(Travellers) <= sem["NUM_ON_COAST"]
      /\ sem["NUM_ON_COAST"] <= Cardinality(Travellers) + Cardinality(At(Behind))
  BY AtCount DEF Doors, TypeOK, Semaphors, CoastExact, Travellers
<1>3. CASE Takes(p, "landed", "coast", "NUM_ON_COAST")
  <2>1. sem'["NUM_ON_COAST"] = sem["NUM_ON_COAST"] - 1
    BY <1>2, <1>3, SemaphoreCalls DEF Takes, Semaphors
  <2>2. /\ Cardinality(Travellers') = Cardinality(Travellers) - 1
        /\ Cardinality(At(Behind)') = Cardinality(At(Behind))
    BY <1>3, GotoCounts DEF Takes, Travellers
  <2>3. QED
    BY <1>2, <2>1, <2>2
<1>4. CASE ~ Takes(p, "landed", "coast", "NUM_ON_COAST")
  <2>1. sem'["NUM_ON_COAST"] = sem["NUM_ON_COAST"]
    BY <1>2, <1>4, PassengerSteps, SemaphoreCalls
    DEF Takes, Gives, Looks, Semaphors
  <2>2. PICK from \in Steps, to \in Steps :
          /\ Goto(p, from, to)
          /\ from \in T <=> to \in T
          /\ from \in Behind => to \in Behind
    BY <1>2, <1>4, PassengerSteps DEF Takes, Gives, Looks
  <2>3. Cardinality(Travellers') = Cardinality(Travellers)
    BY <2>2, GotoCounts DEF Travellers
  <2>4. \/ Cardinality(At(Behind)') = Cardinality(At(Behind))
        \/ Cardinality(At(Behind)') = Cardinality(At(Behind)) + 1
    <3> HIDE DEF Behind
    <3>1. QED
      BY <2>2, GotoCounts
  <2>5. QED
    BY <1>2, <2>1, <2>3, <2>4
<1>5. QED
  BY <1>3, <1>4

(* On the last trip nobody comes under way any more.                       *)
LEMMA PassengerLastTrip ==
  ASSUME IInv, NEW p \in Passengers, Passenger(p)
  PROVE  LastTrip'
<1> USE DEF IInv
<1>1. /\ sem \in [Semaphors -> Nat] /\ sem["NUM_ON_COAST"] \in Nat
      /\ Cardinality(At(Under)) \in Nat
  BY AtCount DEF TypeOK, Semaphors
<1>2. /\ UNCHANGED <<captain, i>>
      /\ IsLastTrip' <=> IsLastTrip
      /\ sem'["START_OF_TRIP"] = sem["START_OF_TRIP"]
  BY PassengerKeeps DEF IsLastTrip, DoorNames
<1>3. ASSUME IsLastTrip
      PROVE  \E from \in Steps, to \in Steps :
               /\ Goto(p, from, to)
               /\ to \in Under => from \in Under
               /\ \/ /\ from = "landed" /\ to = "coast"
                     /\ sem'["NUM_ON_COAST"] = sem["NUM_ON_COAST"] - 1
                  \/ /\ from \in Under => to \in Under
                     /\ sem'["NUM_ON_COAST"] = sem["NUM_ON_COAST"]
  <2> USE DEF Steps, Holding, Behind, GoingAshore, Under
  <2>1. CASE Takes(p, "landed", "coast", "NUM_ON_COAST")
    BY <1>1, <2>1, SemaphoreCalls DEF Takes, Semaphors
  <2>2. CASE ~ Takes(p, "landed", "coast", "NUM_ON_COAST")
    <3>1. sem'["NUM_ON_COAST"] = sem["NUM_ON_COAST"]
      BY <1>1, <2>2, PassengerSteps, SemaphoreCalls
      DEF Takes, Gives, Looks, Semaphors
    <3>2. \E from \in Steps, to \in Steps :
            Goto(p, from, to) /\ (from \in Under <=> to \in Under)
      BY <1>3, <2>2, PassengerSteps DEF Takes, Gives, Looks
    <3>3. QED
      BY <3>1, <3>2
  <2>3. QED
    BY <2>1, <2>2
<1>4. ASSUME IsLastTrip, captain \in {"sail", "lower", "empty"}
      PROVE  Cardinality(At(Under)') <= sem'["NUM_ON_COAST"]
  <2>1. PICK from \in Steps, to \in Steps :
               /\ Goto(p, from, to)
               /\ to \in Under => from \in Under
               /\ \/ /\ from = "landed" /\ to = "coast"
                     /\ sem'["NUM_ON_COAST"] = sem["NUM_ON_COAST"] - 1
                  \/ /\ from \in Under => to \in Under
                     /\ sem'["NUM_ON_COAST"] = sem["NUM_ON_COAST"]
    BY <1>3, <1>4
  <2>2. Cardinality(At(Under)) <= sem["NUM_ON_COAST"]
    BY <1>4 DEF LastTrip
  <2>3. "landed" \in Under /\ "coast" \notin Under
    BY DEF Under, GoingAshore
  <2>4. CASE from = "landed" /\ to = "coast"
    BY <1>1, <2>1, <2>2, <2>3, <2>4, GotoCounts
  <2>5. CASE ~ (from = "landed" /\ to = "coast")
    BY <1>1, <2>1, <2>2, <2>5, GotoCounts
  <2>6. QED
    BY <2>4, <2>5
<1>5. ASSUME IsLastTrip, At(Under) = {}
      PROVE  At(Under)' = {}
  <2>1. PICK from \in Steps, to \in Steps :
          Goto(p, from, to) /\ (to \in Under => from \in Under)
    BY <1>3, <1>5
  <2>2. /\ pc[p] = from /\ pc'[p] = to
        /\ \A q \in Passengers : q # p => pc'[q] = pc[q]
    BY <2>1, GotoMoves
  <2>3. QED
    BY <1>5, <2>1, <2>2 DEF At
<1>6. QED
  BY <1>2, <1>4, <1>5 DEF LastTrip

LEMMA PassengerStep ==
  ASSUME IInv, NEW p \in Passengers, Passenger(p)
  PROVE  IInv'
<1>1. TypeOK' /\ SeatsExact' /\ StairExact'
  BY PassengerKeeps, PassengerSeats, PassengerStair DEF IInv
<1>2. CoastExact' /\ NobodyLeftOver' /\ Doors' /\ Phases' /\ Outsiders'
  BY PassengerCoast, PassengerPlaces, PassengerPhases
<1>3. LastTrip'
  BY PassengerLastTrip
<1>4. QED
  BY <1>1, <1>2, <1>3 DEF IInv

-----------------------------------------------------------------------------
(* The captain's steps: what each takes, gives or waits for.               *)
Moves(from, to) == captain = from /\ captain' = to

Less(s, n) ==
  /\ sem' \in [Semaphors -> Nat]
  /\ sem[s] >= n /\ sem'[s] = sem[s] - n
  /\ \A t \in Semaphors : t # s => sem'[t] = sem[t]

More(s, n) ==
  /\ sem' \in [Semaphors -> Nat]
  /\ sem'[s] = sem[s] + n
  /\ \A t \in Semaphors : t # s => sem'[t] = sem[t]

LEMMA CaptainSteps ==
  ASSUME TypeOK, Captain
  PROVE  /\ UNCHANGED <<pc, main, index>>
         /\ captain # "again" => i' = i
         /\ \/ Moves("prepare", "close_start") /\ Less("STAIR_DOWN", 1)
            \/ Moves("close_start", "trip") /\ Less("START_OF_TRIP", 1)
            \/ /\ Moves("trip", "fill") /\ i < NUM_OF_TRIPS
               /\ IF i = NUM_OF_TRIPS - 1 THEN More("LAST_TRIP", 1)
                                          ELSE UNCHANGED sem
            \/ Moves("trip", "done") /\ UNCHANGED sem /\ i >= NUM_OF_TRIPS
            \/ Moves("fill", "raise") /\ UNCHANGED sem /\ sem["NUM_ON_BOAT"] = 0
            \/ Moves("raise", "sweep") /\ More("STAIR_DOWN", 1)
            \/ Moves("sweep", "swept") /\ Less("NUM_ON_STAIR", CAP_OF_STAIR)
            \/ Moves("swept", "depart") /\ More("NUM_ON_STAIR", CAP_OF_STAIR)
            \/ Moves("depart", "sail") /\ More("START_OF_TRIP", 1)
            \/ Moves("sail", "lower") /\ Less("END_OF_TRIP", 1)
            \/ Moves("lower", "empty") /\ Less("STAIR_DOWN", 1)
            \/ /\ Moves("empty", "close_end")
               /\ UNCHANGED sem /\ sem["NUM_ON_COAST"] = 0
            \/ Moves("close_end", "refill") /\ More("END_OF_TRIP", 1)
            \/ /\ Moves("refill", "done") /\ More("NUM_ON_COAST", Seats)
               /\ i = NUM_OF_TRIPS - 1
            \/ /\ Moves("refill", "again") /\ More("NUM_ON_COAST", Seats)
               /\ i # NUM_OF_TRIPS - 1
            \/ Moves("again", "trip") /\ Less("START_OF_TRIP", 1) /\ i' = i + 1
<1> USE DEF CaptainGoto, Moves, Semaphors, Less, More
<1>1. UNCHANGED <<pc, main, index>> /\ (captain # "again" => i' = i)
  BY DEF Captain, Again
<1>2. sem \in [Semaphors -> Nat] /\ CAP_OF_STAIR \in Nat /\ Seats \in Nat
  BY SeatsType DEF TypeOK
<1>3. CASE LowerFirst \/ CloseStart
  BY <1>1, <1>2, <1>3, SemaphoreCalls DEF LowerFirst, CloseStart
<1>4. CASE Announce
  BY <1>1, <1>2, <1>4, SemaphoreCalls DEF Announce
<1>5. CASE Fill \/ Raise
  BY <1>1, <1>2, <1>5, SemaphoreCalls DEF Fill, Raise, Z_oper
<1>6. CASE Sweep \/ Swept
  BY <1>1, <1>2, <1>6, SemaphoreCalls DEF Sweep, Swept
<1>7. CASE Depart \/ Sail \/ Lower
  BY <1>1, <1>2, <1>7, SemaphoreCalls DEF Depart, Sail, Lower
<1>8. CASE Empty \/ CloseEnd
  BY <1>1, <1>2, <1>8, SemaphoreCalls DEF Empty, CloseEnd, Z_oper
<1>9. CASE Refill
  BY <1>1, <1>2, <1>9, SemaphoreCalls DEF Refill
<1>10. CASE Again /\ i' = i + 1
  BY <1>1, <1>2, <1>10, SemaphoreCalls DEF Again
<1>11. QED
  BY <1>3, <1>4, <1>5, <1>6, <1>7, <1>8, <1>9, <1>10 DEF Captain

(* On departure every seat is taken by a traveller or by somebody who is   *)
(* too late.                                                               *)
LEMMA DepartureCount ==
  ASSUME IInv, captain = "depart"
  PROVE  /\ Cardinality(Travellers) <= Seats
         /\ Seats <= Cardinality(Travellers) + Cardinality(At(Behind))
<1> USE DEF IInv
<1>1. \A p \in Passengers : pc[p] \notin GoingAshore
  BY DEF NobodyLeftOver
<1>2. /\ Travellers \cup At(Behind) = Holders
      /\ Travellers \cap At(Behind) = {}
  BY <1>1 DEF Travellers, Holders, At, Holding, Behind, GoingAshore
<1>3. Cardinality(Holders) =
        Cardinality(Travellers) + Cardinality(At(Behind)) - Cardinality({})
  BY <1>2, AtCount, FS_Union DEF Travellers
<1>4. Cardinality(Holders) = Seats
  BY AtCount DEF SeatsExact, Phases, TypeOK, Holders
<1>5. QED
  BY <1>3, <1>4, AtCount, FS_EmptySet DEF Travellers

LEMMA CaptainStep ==
  ASSUME IInv, Captain
  PROVE  IInv'
<1> USE DEF IInv
<1>1. /\ UNCHANGED <<pc, main, index>>
      /\ \A S : At(S)' = At(S)
  BY CaptainSteps DEF At
<1>2. /\ Holders' = Holders /\ OnStair' = OnStair /\ Travellers' = Travellers
      /\ Cardinality(Holders) \in Nat /\ Cardinality(OnStair) \in Nat
      /\ Cardinality(Travellers) \in Nat
  BY <1>1, AtCount DEF Holders, OnStair, Travellers
<1>3. /\ sem \in [Semaphors -> Nat] /\ i \in Nat /\ Seats \in Nat
      /\ CAP_OF_STAIR \in Nat /\ NUM_OF_TRIPS \in Nat
      /\ \A s \in Semaphors : sem[s] \in Nat
  BY SeatsType DEF TypeOK
<1>4. TypeOK'
  <2>1. sem' \in [Semaphors -> Nat]
    BY <1>3, CaptainSteps DEF Less, More
  <2>2. /\ captain' \in {"prepare", "close_start", "trip", "fill", "raise",
                         "sweep", "swept", "depart", "sail", "lower", "empty",
                         "close_end", "refill", "again", "done"}
    BY CaptainSteps DEF Moves
  <2>3. i' \in 0 .. NUM_OF_TRIPS /\ (i' < NUM_OF_TRIPS \/ NUM_OF_TRIPS = 0)
    BY <1>3, CaptainSteps DEF TypeOK, Phases, Moves
  <2>4. QED
    BY <1>1, <2>1, <2>2, <2>3 DEF TypeOK
<1>5. SeatsExact'
  <2>1. sem'["NUM_ON_BOAT"] = sem["NUM_ON_BOAT"]
    BY CaptainSteps DEF Less, More, Semaphors
  <2>2. QED
    BY <1>2, <2>1 DEF SeatsExact
<1>6. StairExact'
  BY <1>2, <1>3, CaptainSteps DEF StairExact, Less, More, Semaphors, Moves
<1>7. CoastExact'
  <2>1. CASE captain = "depart"
    BY <1>1, <1>2, <1>3, <2>1, CaptainSteps, DepartureCount
    DEF CoastExact, Phases, More, Semaphors, Moves
  <2>2. CASE captain # "depart"
    BY <1>1, <1>2, <1>3, <2>2, CaptainSteps
    DEF CoastExact, Less, More, Semaphors, Moves
  <2>3. QED
    BY <2>1, <2>2
<1>8. captain = "empty" /\ captain' # "empty" => Travellers = {}
  <2> SUFFICES ASSUME captain = "empty", captain' # "empty" PROVE Travellers = {}
    OBVIOUS
  <2>1. sem["NUM_ON_COAST"] = 0
    BY CaptainSteps DEF Moves
  <2>2. Cardinality(Travellers) = 0
    BY <1>2, <2>1 DEF CoastExact
  <2>3. QED
    BY <2>2, AtCount DEF Travellers
<1>9. NobodyLeftOver'
  <2>1. CASE captain = "empty"
    BY <1>1, <1>8, <2>1 DEF NobodyLeftOver, Travellers, At
  <2>2. CASE captain # "empty"
    <3>1. captain' \notin {"lower", "empty"} => captain \notin {"lower", "empty"}
      BY <2>2, CaptainSteps DEF Moves
    <3>2. QED
      BY <1>1, <3>1 DEF NobodyLeftOver
  <2>3. QED
    BY <2>1, <2>2
<1>10. Doors'
  BY <1>3, CaptainSteps DEF Doors, Less, More, Semaphors, Moves
<1>11. Phases'
  <2>1. captain' \in {"raise", "sweep", "swept", "depart", "sail", "lower"} =>
          sem'["NUM_ON_BOAT"] = 0
    BY CaptainSteps DEF Phases, Less, More, Semaphors, Moves
  <2>2. /\ captain' \in {"close_end", "refill"} => sem'["NUM_ON_COAST"] = 0
        /\ captain' \notin {"sail", "lower", "empty", "close_end", "refill"} =>
             sem'["NUM_ON_COAST"] = Seats
    BY <1>3, CaptainSteps DEF Phases, Less, More, Semaphors, Moves
  <2>3. /\ captain' # "empty" => At(GoingAshore \ {"arrived"})' = {}
        /\ captain' = "close_end" => Travellers' = {}
    <3>1. CASE captain = "empty"
      <4>1. captain' = "close_end" /\ Travellers = {}
        BY <1>8, <3>1, CaptainSteps DEF Moves
      <4>2. QED
        BY <1>1, <1>2, <4>1 DEF Travellers, At
    <3>2. CASE captain # "empty"
      <4>1. captain' # "close_end"
        BY <3>2, CaptainSteps DEF Moves
      <4>2. QED
        BY <1>1, <3>2, <4>1 DEF Phases
    <3>3. QED
      BY <3>1, <3>2
  <2>4. /\ captain' \notin {"prepare", "close_start", "trip", "done"} =>
             i' < NUM_OF_TRIPS
        /\ captain' = "again" => i' + 1 < NUM_OF_TRIPS
    BY <1>3, CaptainSteps DEF Phases, Moves
  <2>5. QED
    BY <2>1, <2>2, <2>3, <2>4 DEF Phases
<1>12. Outsiders'
  <2>1. IsLastTrip => IsLastTrip'
    BY <1>3, CaptainSteps DEF IsLastTrip, Less, More, Semaphors
  <2>2. QED
    BY <1>1, <2>1 DEF Outsiders
<1>13. LastTrip'
  <2>1. /\ IsLastTrip' =>
             captain' \notin {"prepare", "close_start", "trip", "again"}
        /\ captain' \in {"fill", "raise", "sweep", "swept", "depart", "sail",
                         "lower", "empty", "close_end", "refill"} =>
             (IsLastTrip' <=> i' = NUM_OF_TRIPS - 1)
    BY <1>3, CaptainSteps DEF LastTrip, IsLastTrip, Less, More, Semaphors, Moves
  <2>2. captain' = "done" =>
          IF IsLastTrip' THEN sem'["START_OF_TRIP"] = 1 ELSE NUM_OF_TRIPS = 0
    BY <1>3, CaptainSteps
    DEF LastTrip, IsLastTrip, More, Semaphors, Moves, TypeOK, Doors
  <2>3. IsLastTrip' /\ captain' \in {"sail", "lower", "empty"} =>
          Cardinality(At(Under)') <= sem'["NUM_ON_COAST"]
    <3>1. CASE captain = "depart"
      <4>1. captain' = "sail" /\ sem'["NUM_ON_COAST"] = Seats
        BY <1>3, <3>1, CaptainSteps DEF Phases, More, Semaphors, Moves
      <4>2. At(Under) \subseteq Holders
        BY <3>1 DEF At, Under, Holders, Holding, Behind, NobodyLeftOver
      <4>3. Cardinality(At(Under)) <= Cardinality(Holders)
        BY <4>2, AtCount, FS_Subset DEF Holders
      <4>4. Cardinality(Holders) <= Seats
        BY <1>2, <1>3 DEF SeatsExact, Semaphors
      <4>5. QED
        BY <1>1, <1>2, <1>3, <4>1, <4>3, <4>4, AtCount
    <3>2. CASE captain # "depart"
      BY <1>1, <1>3, <3>2, CaptainSteps
      DEF LastTrip, IsLastTrip, Less, More, Semaphors, Moves
    <3>3. QED
      BY <3>1, <3>2
  <2>4. IsLastTrip' /\ captain' \in {"close_end", "refill", "done"} =>
          At(Under)' = {}
    <3>1. CASE captain = "empty"
      BY <1>1, <1>3, <3>1, CaptainSteps, AtCount
      DEF LastTrip, IsLastTrip, Moves
    <3>2. CASE captain # "empty"
      BY <1>1, <1>3, <3>2, CaptainSteps
      DEF LastTrip, IsLastTrip, More, Semaphors, Moves
    <3>3. QED
      BY <3>1, <3>2
  <2>5. QED
    BY <2>1, <2>2, <2>3, <2>4 DEF LastTrip
<1>14. QED
  BY <1>4, <1>5, <1>6, <1>7, <1>9, <1>10, <1>11, <1>12, <1>13

-----------------------------------------------------------------------------
LEMMA MainStep ==
  ASSUME IInv, Main \/ ForkFails
  PROVE  IInv'
<1> USE DEF IInv
<1>1. UNCHANGED <<sem, captain, i>>
  BY DEF Main, Fork, MainReturns, ForkFails
<1>2. CASE Fork
  <2> DEFINE p == index + 1
  <2>1. /\ index' = p /\ p \in Passengers /\ main' = main
        /\ Goto(p, "unborn", "coast")
    BY <1>2 DEF Fork, TypeOK, Passengers
  <2> HIDE DEF p
  <2>2. /\ pc' \in [Passengers -> Steps]
        /\ pc[p] = "unborn" /\ pc'[p] = "coast"
        /\ \A q \in Passengers : q # p => pc'[q] = pc[q]
    BY <2>1, GotoMoves DEF Steps
  <2>3. ASSUME NEW S, "unborn" \notin S, "coast" \notin S
        PROVE  At(S)' = At(S)
    BY <2>2, <2>3 DEF At
  <2>4. /\ Holders' = Holders /\ OnStair' = OnStair /\ Travellers' = Travellers
        /\ At(Behind)' = At(Behind)
        /\ At(GoingAshore \ {"arrived"})' = At(GoingAshore \ {"arrived"})
        /\ At({"out", "out_with_seat"})' = At({"out", "out_with_seat"})
        /\ At(Under)' = At(Under)
    BY <2>3 DEF Holders, OnStair, Travellers, Holding, Behind, GoingAshore, Under
  <2>5. TypeOK'
    BY <1>1, <1>2, <2>1, <2>2 DEF TypeOK, Steps, Passengers
  <2>6. SeatsExact' /\ StairExact' /\ CoastExact' /\ Doors' /\ Phases'
    BY <1>1, <2>4 DEF SeatsExact, StairExact, CoastExact, Doors, Phases
  <2>7. NobodyLeftOver'
    BY <1>1, <2>2 DEF NobodyLeftOver, GoingAshore
  <2>8. \A q \in Passengers : pc'[q] = "unborn" <=> q > index'
    BY <2>1, <2>2 DEF Outsiders, TypeOK, Passengers, p
  <2>9. Outsiders' /\ LastTrip'
    BY <1>1, <2>4, <2>8 DEF Outsiders, LastTrip, IsLastTrip
  <2>10. QED
    BY <2>5, <2>6, <2>7, <2>9
<1>3. CASE MainReturns \/ ForkFails
  <2>1. /\ UNCHANGED <<pc, index>>
        /\ main' = "exited"
    BY <1>3 DEF MainReturns, ForkFails
  <2>2. /\ Holders' = Holders /\ OnStair' = OnStair /\ Travellers' = Travellers
        /\ \A S : At(S)' = At(S)
    BY <2>1 DEF At, Holders, OnStair, Travellers
  <2>3. QED
    BY <1>1, <2>1, <2>2
    DEF TypeOK, SeatsExact, StairExact, CoastExact, Doors, Phases,
        NobodyLeftOver, Outsiders, LastTrip, IsLastTrip
<1>4. QED
  BY <1>2, <1>3 DEF Main

LEMMA InitEstablishes == Init => IInv
<1> SUFFICES ASSUME Init PROVE IInv
  OBVIOUS
<1> USE DEF Init
<1>1. ASSUME NEW S, "unborn" \notin S
      PROVE  At(S) = {} /\ Cardinality(At(S)) = 0
  BY <1>1, AtCount DEF At
<1>2. /\ Cardinality(Holders) = 0 /\ Cardinality(OnStair) = 0
      /\ Travellers = {}
      /\ At(GoingAshore \ {"arrived"}) = {}
      /\ At({"out", "out_with_seat"}) = {}
  BY <1>1 DEF Holders, OnStair, Travellers, Holding, Behind, GoingAshore
<1>3. TypeOK
  <2>1. sem \in [Semaphors -> Nat]
    BY SeatsType DEF Semaphors
  <2>2. pc \in [Passengers -> Steps]
    BY DEF Steps
  <2>3. QED
    BY <2>1, <2>2 DEF TypeOK, Steps
<1>4. SeatsExact /\ StairExact
  BY <1>2, SeatsType DEF SeatsExact, StairExact
<1>5. CoastExact /\ NobodyLeftOver /\ Doors
  BY DEF CoastExact, NobodyLeftOver, Doors, GoingAshore
<1>6. Phases
  BY <1>2 DEF Phases
<1>7. Outsiders
  BY <1>2 DEF Outsiders, Passengers
<1>8. LastTrip
  BY DEF LastTrip, IsLastTrip
<1>9. QED
  BY <1>3, <1>4, <1>5, <1>6, <1>7, <1>8 DEF IInv

LEMMA NextPreserves == IInv /\ [Next]_vars => IInv'
<1> SUFFICES ASSUME IInv, [Next]_vars PROVE IInv'
  OBVIOUS
<1>1. CASE UNCHANGED vars
  <2>1. /\ UNCHANGED <<sem, pc, captain, i, main, index>>
        /\ Holders' = Holders /\ OnStair' = OnStair /\ Travellers' = Travellers
        /\ \A S : At(S)' = At(S)
    BY <1>1 DEF vars, At, Holders, OnStair, Travellers
  <2>2. TypeOK' /\ SeatsExact' /\ StairExact' /\ CoastExact'
    BY <2>1 DEF IInv, TypeOK, SeatsExact, StairExact, CoastExact
  <2>3. NobodyLeftOver' /\ Doors'
    BY <2>1 DEF IInv, NobodyLeftOver, Doors
  <2>4. Phases' /\ Outsiders' /\ LastTrip'
    BY <2>1 DEF IInv, Phases, Outsiders, LastTrip, IsLastTrip
  <2>5. QED
    BY <2>2, <2>3, <2>4 DEF IInv
<1>2. QED
  BY <1>1, PassengerStep, CaptainStep, MainStep DEF Next

(* The inductive invariant holds for all parameters, forks failing or not. *)
THEOREM Invariance == Spec => []IInv
<1>1. QED
  BY InitEstablishes, NextPreserves, PTL DEF Spec

(* Every variable keeps its type; no semaphore goes below zero.            *)
THEOREM TypeCorrect == Spec => []TypeOK
<1>1. IInv => TypeOK
  BY DEF IInv
<1>2. QED
  BY <1>1, Invariance, PTL

(* The seats and the places on the stair are never overbooked, and none is *)
(* lost, whoever boards, lands, sweeps the stair or leaves with a seat.    *)
THEOREM NeverOverbooked == Spec => [](SeatsExact /\ StairExact)
<1>1. IInv => SeatsExact /\ StairExact
  BY DEF IInv
<1>2. QED
  BY <1>1, Invariance, PTL

(* Nobody is left over from a trip when the captain says that it is        *)
(* finished.                                                               *)
THEOREM AllAshore == Spec => []NobodyLeftOver
<1>1. IInv => NobodyLeftOver
  BY DEF IInv
<1>2. QED
  BY <1>1, Invariance, PTL

(* The captain waits for the travellers and for those that were too late.  *)
THEOREM CoastCount == Spec => []CoastExact
<1>1. IInv => CoastExact
  BY DEF IInv
<1>2. QED
  BY <1>1, Invariance, PTL

-----------------------------------------------------------------------------
(* There are four ways for the program to stop and no other: home, no trip *)
(* to make, waiting for a boat that cannot fill any more, or for somebody  *)
(* who was too late.  When the captain has made his trips everybody is     *)
(* home who does not wait for a seat that was taken away.                  *)
LEMMA StandstillPlaces ==
  ASSUME IInv, Standstill
  PROVE  /\ OnStair = {}
         /\ captain # "swept" /\ sem["NUM_ON_STAIR"] = CAP_OF_STAIR
         /\ \A p \in Passengers : PassengerStuck(p) /\ pc[p] \in Steps
         /\ captain # "sweep"
<1> USE DEF IInv
<1>1. /\ sem["NUM_ON_STAIR"] \in Nat
      /\ CaptainStuck /\ \A p \in Passengers : PassengerStuck(p)
      /\ \A p \in Passengers : pc[p] \in Steps
  BY DEF TypeOK, Semaphors, Standstill
<1>2. OnStair = {}
  BY <1>1 DEF OnStair, At, PassengerStuck
<1>3. captain # "swept"
  BY <1>1 DEF CaptainStuck
<1>4. sem["NUM_ON_STAIR"] = CAP_OF_STAIR
  BY <1>1, <1>2, <1>3, FS_EmptySet DEF StairExact
<1>5. QED
  BY <1>1, <1>2, <1>3, <1>4 DEF CaptainStuck

LEMMA StandstillHome ==
  ASSUME IInv, Standstill, captain = "done", IsLastTrip, NEW p \in Passengers
  PROVE  \/ pc[p] \in {"unborn", "out", "out_with_seat"}
         \/ pc[p] = "book" /\ SeatsTakenAway
<1> USE DEF IInv
<1>1. At(Under) = {} /\ sem["STAIR_DOWN"] = 0
  BY DEF LastTrip, Doors
<1>2. \A q \in Passengers :
        \/ pc[q] \in {"unborn", "out", "out_with_seat"}
        \/ pc[q] = "book" /\ sem["NUM_ON_BOAT"] = 0
  BY <1>1, StandstillPlaces
  DEF PassengerStuck, Steps, Holding, Behind, GoingAshore, At, Under
<1>3. Holders = At({"out_with_seat"})
  BY <1>2 DEF Holders, At, Holding, Behind, GoingAshore
<1>4. sem["NUM_ON_BOAT"] = 0 => SeatsTakenAway
  BY <1>3, AtCount DEF SeatsExact, SeatsTakenAway
<1>5. QED
  BY <1>2, <1>4

LEMMA StandstillFilling ==
  ASSUME IInv, Standstill, captain = "fill"
  PROVE  /\ IsLastTrip \/ index < NUM_OF_PASS
         /\ At(Steps \ {"unborn", "out", "out_with_seat", "sailing"}) = {}
<1> USE DEF IInv
<1>1. sem["NUM_ON_BOAT"] \in Nat \ {0}
  BY DEF TypeOK, Semaphors, Standstill, CaptainStuck
<1>2. /\ sem["STAIR_DOWN"] = 0 /\ sem["START_OF_TRIP"] = 0
      /\ \A p \in Passengers : pc[p] \notin GoingAshore
  BY DEF Doors, NobodyLeftOver
<1>3. \A p \in Passengers : pc[p] \in {"unborn", "out", "out_with_seat", "sailing"}
  BY <1>1, <1>2, StandstillPlaces
  DEF PassengerStuck, Steps, Holding, Behind, GoingAshore
<1>4. ASSUME ~ IsLastTrip, index >= NUM_OF_PASS
      PROVE  FALSE
  <2>1. \A p \in Passengers : pc[p] # "unborn" /\ pc[p] \notin {"out", "out_with_seat"}
    BY <1>4 DEF Outsiders, TypeOK, Passengers, At
  <2>2. Holders = Passengers
    BY <1>3, <2>1 DEF Holders, At, Holding
  <2>3. Cardinality(Passengers) = NUM_OF_PASS
    BY FS_Interval DEF Passengers
  <2>4. sem["NUM_ON_BOAT"] + NUM_OF_PASS = Seats
    BY <2>2, <2>3 DEF SeatsExact
  <2>5. QED
    BY <1>1, <2>4, SeatsType
<1>5. QED
  BY <1>3, <1>4 DEF TypeOK, At

LEMMA StandstillEmptying ==
  ASSUME IInv, Standstill, captain = "empty"
  PROVE  At(Behind) # {} /\ Travellers = {}
<1> USE DEF IInv
<1>1. sem["NUM_ON_COAST"] \in Nat \ {0}
  BY DEF TypeOK, Semaphors, Standstill, CaptainStuck
<1>2. sem["STAIR_DOWN"] = 0 /\ sem["END_OF_TRIP"] = 0
  BY DEF Doors
<1>3. Travellers = {}
  BY <1>1, <1>2, StandstillPlaces DEF Travellers, At, PassengerStuck, GoingAshore
<1>4. Cardinality(At(Behind)) # 0
  BY <1>1, <1>3, FS_EmptySet, AtCount DEF CoastExact
<1>5. QED
  BY <1>3, <1>4, AtCount

THEOREM StandstillShape == Spec => []StandstillExplained
<1>1. IInv => StandstillExplained
  <2> SUFFICES ASSUME IInv, Standstill
               PROVE  StandstillExplained
    BY DEF StandstillExplained
  <2>1. CASE captain = "done" /\ IsLastTrip
    BY <2>1, StandstillHome DEF StandstillExplained
  <2>2. CASE captain = "done" /\ ~ IsLastTrip
    BY <2>2 DEF IInv, LastTrip, StandstillExplained
  <2>3. CASE captain = "fill"
    BY <2>3, StandstillFilling DEF StandstillExplained
  <2>4. CASE captain = "empty"
    BY <2>4, StandstillEmptying DEF StandstillExplained
  <2>5. QED
    BY <2>1, <2>2, <2>3, <2>4, StandstillPlaces DEF Standstill, CaptainStuck
<1>2. QED
  BY <1>1, Invariance, PTL

-----------------------------------------------------------------------------
(* A step brings the passenger nearer to its place, and the door at the    *)
(* end of the trip, on which the others' ways depend, stays as it is.      *)
LEMMA PassengerDescends ==
  ASSUME IInv, NEW p \in Passengers, Passenger(p)
  PROVE  PassengerGetsOn(p)
<1> DEFINE end == sem["END_OF_TRIP"]
<1>1. /\ sem'["END_OF_TRIP"] = end
      /\ sem["START_OF_TRIP"] = 0 => end = 1
  <2>1. sem["START_OF_TRIP"] = 0 => captain \notin {"lower", "empty", "close_end"}
    BY DEF IInv, Doors
  <2>2. QED
    BY <2>1, PassengerKeeps DEF IInv, Doors, DoorNames
<1> HIDE DEF end
<1>2. PICK from \in Steps, to \in Steps :
        Goto(p, from, to) /\ RoundFrom(to, end) < RoundFrom(from, end)
  <2>1. PICK from \in Steps, to \in Steps :
          /\ Goto(p, from, to)
          /\ <<from, to>> \in
               {<<"coast", "first_look">>, <<"first_look", "out">>,
                <<"first_look", "book">>, <<"book", "second_look">>,
                <<"second_look", "out_with_seat">>, <<"second_look", "gangway">>,
                <<"gangway", "boarding">>, <<"boarding", "aboard">>,
                <<"aboard", "sailing">>, <<"sailing", "arrived">>,
                <<"arrived", "disembark">>, <<"disembark", "leaving">>,
                <<"leaving", "island">>, <<"island", "landed">>,
                <<"landed", "coast">>}
          /\ to = "sailing" => end = 1
          /\ from = "sailing" => end = 0
    BY <1>1, PassengerSteps
    DEF Takes, Gives, Looks, IInv, Steps, Holding, Behind, GoingAshore, end
  <2>2. RoundFrom(to, end) < RoundFrom(from, end)
    BY <2>1 DEF RoundFrom
  <2>3. QED
    BY <2>1, <2>2
<1>3. /\ pc[p] = from /\ pc'[p] = to
      /\ \A q \in Passengers : q # p => pc'[q] = pc[q]
  BY <1>2, GotoMoves DEF IInv
<1>4. QED
  BY <1>1, <1>2, <1>3 DEF PassengerGetsOn, RoundLeft, end

LEMMA CaptainDescends ==
  ASSUME IInv, Captain
  PROVE  CaptainLeft' < CaptainLeft
<1>1. i \in Nat /\ NUM_OF_TRIPS \in Nat
  BY DEF IInv, TypeOK
<1>2. CASE captain = "again"
  BY <1>1, <1>2, CaptainSteps DEF IInv, Moves, CaptainLeft
<1>3. CASE captain # "again"
  BY <1>1, <1>3, CaptainSteps DEF IInv, Moves, CaptainLeft
<1>4. QED
  BY <1>2, <1>3

LEMMA ForkDescends ==
  ASSUME IInv, Fork
  PROVE  \E p \in Passengers : PassengerGetsOn(p)
<1>1. /\ index + 1 \in Passengers /\ UNCHANGED sem
      /\ Goto(index + 1, "unborn", "coast")
  BY DEF Fork, IInv, TypeOK, Passengers
<1>2. PICK p \in Passengers : Goto(p, "unborn", "coast")
  BY <1>1
<1>3. /\ pc[p] = "unborn" /\ pc'[p] = "coast"
      /\ \A q \in Passengers : q # p => pc'[q] = pc[q]
  BY <1>2, GotoMoves DEF IInv, Steps
<1>4. PassengerGetsOn(p)
  BY <1>1, <1>3 DEF PassengerGetsOn, RoundLeft, RoundFrom
<1>5. QED
  BY <1>4

(* For all parameters: between two steps of the captain no passenger gets  *)
(* round the three doors twice, and what is left to do is a number, so     *)
(* that the steps of an execution run out.                                 *)
THEOREM RoundsEnd ==
  Spec => OnceRound /\ [](CaptainLeft \in Nat /\ \A p \in Passengers : RoundLeft(p) \in Nat)
<1>1. IInv /\ [Next]_vars => [StepGetsOn]_vars
  <2> SUFFICES ASSUME IInv, Next PROVE StepGetsOn
    OBVIOUS
  <2>1. CASE \E p \in Passengers : Passenger(p)
    BY <2>1, PassengerDescends DEF Passenger, StepGetsOn
  <2>2. CASE Captain
    BY <2>2, CaptainDescends DEF StepGetsOn
  <2>3. CASE Fork
    BY <2>3, ForkDescends DEF Fork, StepGetsOn
  <2>4. CASE MainReturns \/ ForkFails
    BY <2>4 DEF MainReturns, ForkFails, StepGetsOn
  <2>5. QED
    BY <2>1, <2>2, <2>3, <2>4 DEF Next, Main
<1>2. IInv => CaptainLeft \in Nat /\ \A p \in Passengers : RoundLeft(p) \in Nat
  <2> SUFFICES ASSUME IInv
               PROVE  CaptainLeft \in Nat /\ \A p \in Passengers : RoundLeft(p) \in Nat
    OBVIOUS
  <2>1. CaptainLeft \in Nat
    BY DEF IInv, TypeOK, CaptainLeft
  <2>2. ASSUME NEW p \in Passengers PROVE RoundLeft(p) \in Nat
    <3>1. \A step \in Steps : RoundFrom(step, sem["END_OF_TRIP"]) \in Nat
      BY DEF Steps, Holding, Behind, GoingAshore, RoundFrom
    <3>2. pc[p] \in Steps
      BY DEF IInv, TypeOK
    <3>3. QED
      BY <3>1, <3>2 DEF RoundLeft
  <2>3. QED
    BY <2>1, <2>2
<1>3. QED
  BY <1>1, <1>2, Invariance, PTL DEF Spec, OnceRound

-----------------------------------------------------------------------------
(* Excursion sees the seats, the boat at sea from the raising of the stair *)
(* to its lowering, and the trips it has come back from.                   *)
AtSea == captain \in {"sweep", "swept", "depart", "sail", "lower"}

Trips ==
  IF captain = "done" THEN NUM_OF_TRIPS
  ELSE i + IF captain \in {"empty", "close_end", "refill", "again"} THEN 1 ELSE 0

(* Excursion's Cardinality is the one of FiniteSets.                       *)
LEMMA SameCardinality ==
  ASSUME NEW S
  PROVE  ExcursionImpl!Cardinality(S) = Cardinality(S)
BY DEF ExcursionImpl!Cardinality, Cardinality

LEMMA InitRefines == Init => ExcursionImpl!Init
<1> SUFFICES ASSUME Init PROVE ExcursionImpl!Init
  OBVIOUS
<1>1. Holders = {}
  BY DEF Init, Holders, At, Holding, Behind, GoingAshore
<1>2. QED
  BY <1>1 DEF Init, ExcursionImpl!Init

LEMMA PassengerRefines ==
  ASSUME IInv, NEW p \in Passengers, Passenger(p)
  PROVE  \/ ExcursionImpl!Book(p)
         \/ ExcursionImpl!GiveBack(p)
         \/ UNCHANGED ExcursionImpl!vars
<1> USE DEF IInv, Steps, Holding, Behind, GoingAshore
<1>1. captain' = captain /\ i' = i
  BY PassengerKeeps
<1>2. /\ sem \in [Semaphors -> Nat]
      /\ Cardinality(Holders) \in Nat
      /\ sem["NUM_ON_BOAT"] \in Nat
      /\ sem["NUM_ON_BOAT"] + Cardinality(Holders) = Seats
  BY AtCount DEF Holders, TypeOK, Semaphors, SeatsExact
<1>3. AtSea => sem["NUM_ON_BOAT"] = 0
  BY DEF AtSea, Phases
<1>4. CASE Takes(p, "book", "second_look", "NUM_ON_BOAT")
  <2>1. sem["NUM_ON_BOAT"] > 0
    BY <1>2, <1>4, SemaphoreCalls DEF Takes, Semaphors
  <2>2. /\ pc[p] = "book" /\ pc'[p] = "second_look"
        /\ \A q \in Passengers : q # p => pc'[q] = pc[q]
    BY <1>4, GotoMoves DEF Takes
  <2>3. Holders' = Holders \cup {p} /\ p \notin Holders
    BY <2>2 DEF Holders, At
  <2>4. ~ AtSea /\ Cardinality(Holders) < Seats
    BY <1>2, <1>3, <2>1, SeatsType
  <2>5. QED
    BY <1>1, <2>3, <2>4, SameCardinality DEF ExcursionImpl!Book, AtSea
<1>5. CASE Gives(p, "island", "landed", "NUM_ON_BOAT")
  <2>1. /\ pc[p] = "island" /\ pc'[p] = "landed"
        /\ \A q \in Passengers : q # p => pc'[q] = pc[q]
    BY <1>5, GotoMoves DEF Gives
  <2>2. Holders' = Holders \ {p} /\ p \in Holders
    BY <2>1 DEF Holders, At
  <2>3. captain = "empty"
    BY <2>1 DEF Phases, At
  <2>4. QED
    BY <1>1, <2>2, <2>3 DEF ExcursionImpl!GiveBack
<1>6. CASE /\ ~ Takes(p, "book", "second_look", "NUM_ON_BOAT")
           /\ ~ Gives(p, "island", "landed", "NUM_ON_BOAT")
  <2>1. PICK from \in Steps, to \in Steps :
          Goto(p, from, to) /\ (from \in Holding <=> to \in Holding)
    BY <1>6, PassengerSteps DEF Takes, Gives, Looks
  <2>2. Holders' = Holders
    BY <2>1, GotoCounts DEF Holders
  <2>3. QED
    BY <1>1, <2>2 DEF ExcursionImpl!vars
<1>7. QED
  BY <1>4, <1>5, <1>6

LEMMA CaptainRefines ==
  ASSUME IInv, Captain
  PROVE  \/ ExcursionImpl!Depart
         \/ ExcursionImpl!Return
         \/ UNCHANGED ExcursionImpl!vars
<1> USE DEF IInv
<1>1. Holders' = Holders
  BY CaptainSteps DEF Holders, At
<1>2. i \in Nat /\ NUM_OF_TRIPS \in Nat
  BY DEF TypeOK
<1>3. CASE captain = "raise"
  <2>1. captain' = "sweep" /\ i' = i
    BY <1>3, CaptainSteps DEF Moves
  <2>2. Cardinality(Holders) = Seats
    BY <1>3, AtCount DEF Phases, SeatsExact, TypeOK, Holders
  <2>3. i < NUM_OF_TRIPS
    BY <1>3 DEF Phases
  <2>4. ExcursionImpl!Depart
    BY <1>1, <1>2, <1>3, <2>1, <2>2, <2>3, SameCardinality
    DEF ExcursionImpl!Depart
  <2>5. QED
    BY <2>4
<1>4. CASE captain = "lower"
  <2>1. captain' = "empty" /\ i' = i
    BY <1>4, CaptainSteps DEF Moves
  <2>2. ExcursionImpl!Return
    BY <1>1, <1>2, <1>4, <2>1 DEF ExcursionImpl!Return
  <2>3. QED
    BY <2>2
<1>5. CASE captain \notin {"raise", "lower"}
  <2>1. AtSea' <=> AtSea
    BY <1>5, CaptainSteps DEF Moves, AtSea
  <2>2. Trips' = Trips
    <3>1. CASE captain = "trip"
      BY <1>2, <3>1, CaptainSteps DEF Moves, Trips, TypeOK
    <3>2. CASE captain # "trip"
      BY <1>2, <1>5, <3>2, CaptainSteps DEF Moves, Trips
    <3>3. QED
      BY <3>1, <3>2
  <2>3. QED
    BY <1>1, <2>1, <2>2 DEF ExcursionImpl!vars, AtSea, Trips
<1>6. QED
  BY <1>3, <1>4, <1>5

(* For all parameters, forks failing or not, the program implements        *)
(* Excursion: seats change hands only at the coast, the boat leaves full,  *)
(* and makes no more trips than it was told to.                            *)
THEOREM Refinement == Spec => ImplementsExcursion
<1>1. IInv /\ [Next]_vars => [ExcursionImpl!Next]_(ExcursionImpl!vars)
  <2> SUFFICES ASSUME IInv, [Next]_vars
               PROVE  [ExcursionImpl!Next]_(ExcursionImpl!vars)
    OBVIOUS
  <2>1. CASE \E p \in Passengers : Passenger(p)
    BY <2>1, PassengerRefines DEF ExcursionImpl!Next
  <2>2. CASE Captain
    BY <2>2, CaptainRefines DEF ExcursionImpl!Next
  <2>3. CASE Main \/ ForkFails
    <3>1. UNCHANGED <<captain, i>>
      BY <2>3 DEF Main, Fork, MainReturns, ForkFails
    <3>2. Holders' = Holders
      <4>1. CASE UNCHANGED pc
        BY <4>1 DEF Holders, At
      <4>2. CASE Fork
        BY <4>2 DEF Fork, Goto, Holders, At, Holding, Behind, GoingAshore,
           IInv, TypeOK
      <4>3. QED
        BY <2>3, <4>1, <4>2 DEF Main, MainReturns, ForkFails
    <3>3. QED
      BY <3>1, <3>2 DEF ExcursionImpl!vars
  <2>4. CASE UNCHANGED vars
    BY <2>4 DEF vars, ExcursionImpl!vars, Holders, At
  <2>5. QED
    BY <2>1, <2>2, <2>3, <2>4 DEF Next
<1>2. QED
  BY <1>1, InitRefines, Invariance, PTL
  DEF Spec, ImplementsExcursion, ExcursionImpl!Spec

=============================================================================
