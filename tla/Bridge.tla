-------------------------------- MODULE Bridge --------------------------------
(***************************************************************************)
(* bridge.c: main forks one process per car and per ship, waits for all of *)
(* them and removes the IPC objects.  Each vehicle enrols in the shared    *)
(* counters, waits for its side's turn (semaphore CAR or SHIP), takes the  *)
(* BRIDGE, crosses, and before it leaves decides which side goes next and  *)
(* moves the span to suit.                                                 *)
(*                                                                         *)
(* A step is one semaphore call together with the shared-memory accesses   *)
(* next to it; those happen under SHRD_VAR only, and MutualExclusion       *)
(* below says that no two processes are between its P and its V, so they   *)
(* can be taken as atomic.                                                 *)
(***************************************************************************)
EXTENDS SysVSem, FiniteSets

CONSTANTS
  NUM_OF_CARS, NUM_OF_SHIPS,    \* main's two arguments
  MAX_NUM_OF_SHIPS,             \* more waiting ships than this go before cars
  FORK_MAY_FAIL                 \* whether fork() may return a negative pid

ASSUME BridgeAssumption ==
  /\ NUM_OF_CARS \in Nat
  /\ NUM_OF_SHIPS \in Nat
  /\ MAX_NUM_OF_SHIPS \in Nat
  /\ FORK_MAY_FAIL \in BOOLEAN

VARIABLES
  pc,           \* the next operation of each vehicle
  waiting,      \* num_of_waiting_cars and num_of_waiting_ships
  bridge_cond,  \* "CLOSE" or "OPEN"
  main,         \* the next operation of main
  index         \* the loop variable of main's two loops

vars == <<sem, pc, waiting, bridge_cond, main, index>>

-----------------------------------------------------------------------------
NumOfVehicles == NUM_OF_CARS + NUM_OF_SHIPS

Vehicles == 0 .. NumOfVehicles - 1

(* main makes the even indices cars and the odd ones ships, whatever the   *)
(* two numbers are.                                                        *)
IsCar(v) == v % 2 = 0

Kind(v) == IF IsCar(v) THEN "cars" ELSE "ships"

Turn(v) == IF IsCar(v) THEN "CAR" ELSE "SHIP"

Semaphors == {"CAR", "SHIP", "BRIDGE", "SHRD_VAR"}

Steps == {"unborn", "arrive", "enroll", "queue", "enter", "cross", "decide",
          "unlock", "leave", "exited", "reaped"}

(* The state main's Init leaves before the first fork.                     *)
Init ==
  /\ sem = [CAR |-> 1, SHIP |-> 0, BRIDGE |-> 1, SHRD_VAR |-> 1]
  /\ waiting = [cars |-> 0, ships |-> 0]
  /\ bridge_cond = "CLOSE"
  /\ pc = [v \in Vehicles |-> "unborn"]
  /\ main = "fork"
  /\ index = 0

-----------------------------------------------------------------------------
Goto(v, from, to) ==
  /\ pc[v] = from
  /\ pc' = [pc EXCEPT ![v] = to]

(* Start of Car_method and Ship_method: take the shared data, ...          *)
Arrive(v) ==
  /\ Goto(v, "arrive", "enroll")
  /\ P_oper("SHRD_VAR", 1)
  /\ UNCHANGED <<waiting, bridge_cond>>

(* ... count oneself as waiting, and release it.                           *)
Enroll(v) ==
  /\ Goto(v, "enroll", "queue")
  /\ waiting' = [waiting EXCEPT ![Kind(v)] = @ + 1]
  /\ V_oper("SHRD_VAR", 1)
  /\ UNCHANGED bridge_cond

(* Wait for the turn of one's side, ...                                    *)
Queue(v) ==
  /\ Goto(v, "queue", "enter")
  /\ P_oper(Turn(v), 1)
  /\ UNCHANGED <<waiting, bridge_cond>>

(* ... then for the bridge itself.                                         *)
Enter(v) ==
  /\ Goto(v, "enter", "cross")
  /\ P_oper("BRIDGE", 1)
  /\ UNCHANGED <<waiting, bridge_cond>>

(* The vehicle is over; it takes the shared data again.                    *)
Cross(v) ==
  /\ Goto(v, "cross", "decide")
  /\ P_oper("SHRD_VAR", 1)
  /\ UNCHANGED <<waiting, bridge_cond>>

(* Mutants of ShipsGoNext: ships are not checked for when no car waits; a  *)
(* few ships left behind the last car are forgotten; one ship less is too  *)
(* many.                                                                   *)
ShipsGoNextUnchecked(w) == w["ships"] > MAX_NUM_OF_SHIPS \/ w["cars"] = 0
ShipsGoNextIfMany(w) == w["ships"] > MAX_NUM_OF_SHIPS
ShipsGoNextEarly(w) ==
  w["ships"] >= MAX_NUM_OF_SHIPS \/ (w["cars"] = 0 /\ w["ships"] # 0)

(* The test both methods make on the counters to choose who goes next.     *)
ShipsGoNext(w) ==
  \/ w["ships"] > MAX_NUM_OF_SHIPS
  \/ w["cars"] = 0 /\ w["ships"] # 0

(* Mutant of SpanFor: nobody lowers the bridge again.                      *)
SpanRaisedOnly(side) == IF side = "SHIP" THEN "OPEN" ELSE bridge_cond

(* The position the employees bring the span to for the chosen side.       *)
SpanFor(side) == IF side = "SHIP" THEN "OPEN" ELSE "CLOSE"

(* Mutant of Discount: Ship_method keeps Car_method's decrement.           *)
DiscountCar(v) == [waiting EXCEPT !["cars"] = @ - 1]

(* The counters once v is no longer waiting.                               *)
Discount(v) == [waiting EXCEPT ![Kind(v)] = @ - 1]

(* No longer waiting: choose the next side, move the span if needed, and   *)
(* give that side its turn.                                                *)
Decide(v) ==
  LET side == IF ShipsGoNext(Discount(v)) THEN "SHIP" ELSE "CAR"
  IN  /\ Goto(v, "decide", "unlock")
      /\ waiting' = Discount(v)
      /\ bridge_cond' = SpanFor(side)
      /\ V_oper(side, 1)

Unlock(v) ==
  /\ Goto(v, "unlock", "leave")
  /\ V_oper("SHRD_VAR", 1)
  /\ UNCHANGED <<waiting, bridge_cond>>

Leave(v) ==
  /\ Goto(v, "leave", "exited")
  /\ V_oper("BRIDGE", 1)
  /\ UNCHANGED <<waiting, bridge_cond>>

Method(v) ==
  /\ \/ Arrive(v) \/ Enroll(v) \/ Queue(v) \/ Enter(v)
     \/ Cross(v) \/ Decide(v) \/ Unlock(v) \/ Leave(v)
  /\ UNCHANGED <<main, index>>

Car_method(v) == IsCar(v) /\ Method(v)

Ship_method(v) == ~ IsCar(v) /\ Method(v)

-----------------------------------------------------------------------------
(* The condition of both loops of main.                                    *)
MoreVehicles == index < NumOfVehicles

(* First loop of main: one child per index.                                *)
Fork ==
  /\ main = "fork"
  /\ MoreVehicles
  /\ pc' = [pc EXCEPT ![index] = "arrive"]
  /\ index' = index + 1
  /\ UNCHANGED <<sem, waiting, bridge_cond, main>>

(* fork fails: main returns at once and leaves the children and the IPC    *)
(* objects behind.                                                         *)
ForkFails ==
  /\ FORK_MAY_FAIL
  /\ main = "fork"
  /\ MoreVehicles
  /\ main' = "failed"
  /\ UNCHANGED <<sem, pc, waiting, bridge_cond, index>>

AllForked ==
  /\ main = "fork"
  /\ index = NumOfVehicles
  /\ main' = "wait"
  /\ index' = 0
  /\ UNCHANGED <<sem, pc, waiting, bridge_cond>>

(* Second loop: wait() reaps one child that has exited.                    *)
Wait ==
  /\ main = "wait"
  /\ MoreVehicles
  /\ \E v \in Vehicles : Goto(v, "exited", "reaped")
  /\ index' = index + 1
  /\ UNCHANGED <<sem, waiting, bridge_cond, main>>

(* semctl and shmctl with IPC_RMID.                                        *)
Remove ==
  /\ main = "wait"
  /\ index = NumOfVehicles
  /\ main' = "end"
  /\ UNCHANGED <<sem, pc, waiting, bridge_cond, index>>

Main == Fork \/ AllForked \/ Wait \/ Remove

Next ==
  \/ \E v \in Vehicles : Car_method(v) \/ Ship_method(v)
  \/ Main
  \/ ForkFails

Spec == Init /\ [][Next]_vars

(* The kernel schedules every process that is not blocked for ever.        *)
Fairness ==
  /\ \A v \in Vehicles : WF_vars(Car_method(v) \/ Ship_method(v))
  /\ WF_vars(Main)

FairSpec == Spec /\ Fairness

-----------------------------------------------------------------------------
(* What a vehicle holds at each step.                                      *)
HoldsShared(v) == pc[v] \in {"enroll", "decide", "unlock"}

HoldsBridge(v) == pc[v] \in {"cross", "decide", "unlock", "leave"}

HoldsTurn(v) == pc[v] \in {"enter", "cross", "decide"}

Enrolled(v) == pc[v] \in {"queue", "enter", "cross", "decide"}

Gone(v) == pc[v] \in {"exited", "reaped"}

(* The type of the state; every semaphore stays binary, so no V_oper comes *)
(* near the kernel's limit and the unsigned counters never wrap below 0.   *)
TypeOK ==
  /\ sem \in [Semaphors -> 0 .. 1]
  /\ pc \in [Vehicles -> Steps]
  /\ waiting \in [{"cars", "ships"} -> Nat]
  /\ bridge_cond \in {"CLOSE", "OPEN"}
  /\ main \in {"fork", "failed", "wait", "end"}
  /\ index \in 0 .. NumOfVehicles

(* No two vehicles hold the shared data, the bridge or the turn at once.   *)
MutualExclusion ==
  \A u, v \in Vehicles : u # v =>
    /\ ~ (HoldsShared(u) /\ HoldsShared(v))
    /\ ~ (HoldsBridge(u) /\ HoldsBridge(v))
    /\ ~ (HoldsTurn(u) /\ HoldsTurn(v))

(* From the moment a side can be given the turn until the vehicle that     *)
(* took it has crossed, the span is in the position that side needs: a car *)
(* never drives over a raised bridge, a ship never meets a lowered one.    *)
SpanMatchesTraffic ==
  /\ \A v \in Vehicles :
       HoldsTurn(v) => bridge_cond = IF IsCar(v) THEN "CLOSE" ELSE "OPEN"
  /\ sem["CAR"] = 1 => bridge_cond = "CLOSE"
  /\ sem["SHIP"] = 1 => bridge_cond = "OPEN"

(* Each shared counter is the number of vehicles of its kind between their *)
(* increment and their decrement.                                          *)
WaitingCountsExact ==
  \A k \in {"cars", "ships"} :
    waiting[k] = Cardinality({v \in Vehicles : Kind(v) = k /\ Enrolled(v)})

(* A turn given to the ships is never lost: while it is free there is a    *)
(* ship in the queue to take it.                                           *)
ShipTurnIsUsed ==
  sem["SHIP"] = 1 => \E v \in Vehicles : ~ IsCar(v) /\ pc[v] = "queue"

(* The semaphore call a vehicle is at cannot complete.                     *)
Blocked(v) ==
  \/ pc[v] \in {"arrive", "cross"} /\ sem["SHRD_VAR"] = 0
  \/ pc[v] = "queue" /\ sem[Turn(v)] = 0
  \/ pc[v] = "enter" /\ sem["BRIDGE"] = 0

(* The only way the vehicles can come to a standstill: those that are left *)
(* are ships in the queue, every car that was started has passed, and the  *)
(* turn lies with the cars.  main waits for ever for such ships only.      *)
StandstillOnlyForShips ==
  (\A v \in Vehicles : Blocked(v) \/ Gone(v) \/ pc[v] = "unborn") =>
    /\ \A v \in Vehicles : Blocked(v) =>
         ~ IsCar(v) /\ pc[v] = "queue" /\ sem["CAR"] = 1
    /\ main = "wait" /\ MoreVehicles /\ (\A v \in Vehicles : pc[v] # "exited") =>
         \E v \in Vehicles : Blocked(v)

(* The IPC objects are removed only when every child has been reaped: no   *)
(* semop of a child ever meets a removed set (its exit(0) branch).         *)
RemovedOnlyAfterAll ==
  main = "end" => \A v \in Vehicles : pc[v] = "reaped"

-----------------------------------------------------------------------------
(* Every token is accounted for: SHRD_VAR and BRIDGE are taken exactly     *)
(* while a vehicle is between their P and V; CAR and SHIP are one turn,    *)
(* taken exactly while a vehicle has it and has not passed it on.          *)
TokensExact ==
  /\ sem["SHRD_VAR"] = 0 <=> \E v \in Vehicles : HoldsShared(v)
  /\ sem["BRIDGE"] = 0 <=> \E v \in Vehicles : HoldsBridge(v)
  /\ sem["CAR"] + sem["SHIP"] <= 1
  /\ sem["CAR"] + sem["SHIP"] = 0 <=> \E v \in Vehicles : HoldsTurn(v)

(* Where main is in its loops tells which children exist and how many it   *)
(* has reaped.                                                             *)
MainKeepsCount ==
  /\ main = "fork" => \A v \in Vehicles : pc[v] = "unborn" <=> v >= index
  /\ main \in {"wait", "end"} => \A v \in Vehicles : pc[v] # "unborn"
  /\ main \in {"fork", "failed"} => \A v \in Vehicles : pc[v] # "reaped"
  /\ main = "wait" => index = Cardinality({v \in Vehicles : pc[v] = "reaped"})

(* The inductive invariant: each part needs the others to be preserved.    *)
(* The decision of a vehicle is right because the counters are exact,      *)
(* these because the shared data are held by one vehicle at a time, and    *)
(* the span because the turn is.                                           *)
IInv ==
  /\ TypeOK
  /\ TokensExact
  /\ MutualExclusion
  /\ SpanMatchesTraffic
  /\ WaitingCountsExact
  /\ ShipTurnIsUsed
  /\ MainKeepsCount
  /\ RemovedOnlyAfterAll

-----------------------------------------------------------------------------
(* The vehicles keep the promise of the abstract crossing.                 *)
CrossingImpl == INSTANCE Crossing WITH
  Cars <- {v \in Vehicles : IsCar(v)},
  Ships <- {v \in Vehicles : ~ IsCar(v)},
  passing <- {v \in Vehicles : pc[v] = "cross"},
  passed <- {v \in Vehicles : pc[v] \in {"decide", "unlock", "leave"} \/ Gone(v)},
  span <- bridge_cond

ImplementsCrossing == CrossingImpl!Spec

EnrolledShips == {v \in Vehicles : ~ IsCar(v) /\ Enrolled(v)}

EnrolledCars == {v \in Vehicles : IsCar(v) /\ Enrolled(v)}

(* Whoever gives the turn away gives it by who really waits at that        *)
(* moment, vehicles that enrolled while it was on the bridge included: to  *)
(* ships only when there are some, and too many or no car; to the cars     *)
(* only when the ships are few, and to nobody only when nobody waits.      *)
TurnFollowsQueues ==
  [][ /\ sem["SHIP"] < sem'["SHIP"] =>
           /\ EnrolledShips' # {}
           /\ EnrolledCars' # {} => Cardinality(EnrolledShips') > MAX_NUM_OF_SHIPS
      /\ sem["CAR"] < sem'["CAR"] =>
           /\ Cardinality(EnrolledShips') <= MAX_NUM_OF_SHIPS
           /\ EnrolledCars' = {} => EnrolledShips' = {}
    ]_sem

(* The operations each vehicle and main still have before them.            *)
VehicleLeft(v) ==
  [unborn |-> 10, arrive |-> 9, enroll |-> 8, queue |-> 7, enter |-> 6, cross |-> 5,
   decide |-> 4, unlock |-> 3, leave |-> 2, exited |-> 1, reaped |-> 0][pc[v]]

MainLeft ==
  [fork |-> NumOfVehicles - index + NumOfVehicles + 2,
   wait |-> NumOfVehicles - index + 1, end |-> 0, failed |-> 0][main]

(* Nobody goes round for nothing: every step is a vehicle's or main's, and *)
(* brings it nearer to its end and nobody away from it.  No execution has  *)
(* infinitely many steps.                                                  *)
StepGetsOn ==
  \/ /\ UNCHANGED <<main, index>>
     /\ \E v \in Vehicles : /\ VehicleLeft(v)' < VehicleLeft(v)
                           /\ \A u \in Vehicles \ {v} : VehicleLeft(u)' = VehicleLeft(u)
  \/ /\ MainLeft' < MainLeft
     /\ \A v \in Vehicles : VehicleLeft(v)' <= VehicleLeft(v)

StepsGetOn == [][StepGetsOn]_vars

(* Every car that starts gets over: ships cannot keep the turn from cars   *)
(* for ever.                                                               *)
CarsAlwaysPass ==
  \A v \in Vehicles : IsCar(v) => (pc[v] = "arrive" ~> Gone(v))

(* A ship that is in the queue while some car still has its decision to    *)
(* make gets through.                                                      *)
ShipsAheadOfACarPass ==
  \A s \in Vehicles : ~ IsCar(s) =>
    (/\ pc[s] = "queue"
     /\ \E c \in Vehicles :
          IsCar(c) /\ pc[c] \in {"arrive", "enroll", "queue", "enter", "cross"}
     ~> Gone(s))

(* The comment in main: shared memory and semaphores are removed.  It      *)
(* needs every child to exit; the code does not get there when ships come  *)
(* after the last car has left the turn with the cars.                     *)
ResourcesRemoved == <>(main = "end")
=============================================================================
