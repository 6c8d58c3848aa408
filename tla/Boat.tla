--------------------------------- MODULE Boat ---------------------------------
(***************************************************************************)
(* my_boat.c: a captain takes passengers on a number of trips.  The        *)
(* semaphores count the free seats (NUM_ON_BOAT), the free places on the   *)
(* stair (NUM_ON_STAIR) and the passengers that have still to come back to *)
(* the coast (NUM_ON_COAST); STAIR_DOWN, START_OF_TRIP and END_OF_TRIP are *)
(* doors that are open at zero, and LAST_TRIP is a flag.                   *)
(*                                                                         *)
(* A step is one semaphore call of one process.  A door that opens and     *)
(* closes again is missed by a process that comes late to its Z_oper: this *)
(* is where the program can stop, and the properties say where it does     *)
(* not.                                                                    *)
(***************************************************************************)
EXTENDS SysVSem, FiniteSets

CONSTANTS
  NUM_OF_PASS, NUM_OF_TRIPS, CAP_OF_BOAT, CAP_OF_STAIR,  \* main's arguments
  FORK_MAY_FAIL         \* whether fork() of a passenger may fail

(* With a capacity of 0, V_oper would be a Z_oper to the kernel.           *)
ASSUME BoatAssumption ==
  /\ NUM_OF_PASS \in Nat \ {0}
  /\ NUM_OF_TRIPS \in Nat
  /\ CAP_OF_BOAT \in Nat \ {0}
  /\ CAP_OF_STAIR \in Nat \ {0}
  /\ FORK_MAY_FAIL \in BOOLEAN

VARIABLES
  pc,           \* the next operation of each passenger
  captain,      \* the next operation of the captain
  i,            \* the captain's loop variable
  main,         \* what main does
  index         \* the passengers main has forked

vars == <<sem, pc, captain, i, main, index>>

-----------------------------------------------------------------------------
Passengers == 1 .. NUM_OF_PASS

Semaphors == {"STAIR_DOWN", "START_OF_TRIP", "NUM_ON_BOAT", "NUM_ON_STAIR",
              "END_OF_TRIP", "NUM_ON_COAST", "LAST_TRIP"}

(* main gives the captain no more seats than there are passengers.         *)
Seats == IF CAP_OF_BOAT < NUM_OF_PASS THEN CAP_OF_BOAT ELSE NUM_OF_PASS

(* What Sems_processing leaves, before the captain is forked.              *)
Init ==
  /\ sem = [STAIR_DOWN |-> 1, START_OF_TRIP |-> 1, END_OF_TRIP |-> 1,
            NUM_ON_BOAT |-> Seats, NUM_ON_STAIR |-> CAP_OF_STAIR,
            NUM_ON_COAST |-> Seats, LAST_TRIP |-> 0]
  /\ pc = [p \in Passengers |-> "unborn"]
  /\ captain = "prepare"
  /\ i = 0
  /\ main = "fork"
  /\ index = 0

-----------------------------------------------------------------------------
Goto(p, from, to) ==
  /\ pc[p] = from
  /\ pc' = [pc EXCEPT ![p] = to]

IsLastTrip == sem["LAST_TRIP"] # 0

WaitForStair(p) ==
  /\ Goto(p, "coast", "first_look")
  /\ Z_oper("STAIR_DOWN")

FirstLook(p) ==
  /\ Goto(p, "first_look", IF IsLastTrip THEN "out" ELSE "book")
  /\ UNCHANGED sem

Book(p) ==
  /\ Goto(p, "book", "second_look")
  /\ P_oper("NUM_ON_BOAT", 1)

(* Mutant of SecondLook: the last trip is looked for before booking only.  *)
SecondLookDropped(p) ==
  /\ Goto(p, "second_look", "gangway")
  /\ UNCHANGED sem

(* The break after booking: the seat is not given back.                    *)
SecondLook(p) ==
  /\ Goto(p, "second_look", IF IsLastTrip THEN "out_with_seat" ELSE "gangway")
  /\ UNCHANGED sem

StepOnStair(p) ==
  /\ Goto(p, "gangway", "boarding")
  /\ P_oper("NUM_ON_STAIR", 1)

StepIntoBoat(p) ==
  /\ Goto(p, "boarding", "aboard")
  /\ V_oper("NUM_ON_STAIR", 1)

WaitForStart(p) ==
  /\ Goto(p, "aboard", "sailing")
  /\ Z_oper("START_OF_TRIP")

WaitForEnd(p) ==
  /\ Goto(p, "sailing", "arrived")
  /\ Z_oper("END_OF_TRIP")

WaitForStairAgain(p) ==
  /\ Goto(p, "arrived", "disembark")
  /\ Z_oper("STAIR_DOWN")

StepOffBoat(p) ==
  /\ Goto(p, "disembark", "leaving")
  /\ P_oper("NUM_ON_STAIR", 1)

StepOffStair(p) ==
  /\ Goto(p, "leaving", "island")
  /\ V_oper("NUM_ON_STAIR", 1)

(* Mutant of FreeSeat: the place on the stair is given back instead.       *)
FreeStairTwice(p) ==
  /\ Goto(p, "island", "landed")
  /\ V_oper("NUM_ON_STAIR", 1)

FreeSeat(p) ==
  /\ Goto(p, "island", "landed")
  /\ V_oper("NUM_ON_BOAT", 1)

BackOnCoast(p) ==
  /\ Goto(p, "landed", "coast")
  /\ P_oper("NUM_ON_COAST", 1)

Passenger(p) ==
  /\ \/ WaitForStair(p) \/ FirstLook(p) \/ Book(p) \/ SecondLook(p)
     \/ StepOnStair(p) \/ StepIntoBoat(p) \/ WaitForStart(p) \/ WaitForEnd(p)
     \/ WaitForStairAgain(p) \/ StepOffBoat(p) \/ StepOffStair(p)
     \/ FreeSeat(p) \/ BackOnCoast(p)
  /\ UNCHANGED <<captain, i, main, index>>

-----------------------------------------------------------------------------
CaptainGoto(from, to) ==
  /\ captain = from
  /\ captain' = to

LowerFirst == CaptainGoto("prepare", "close_start") /\ P_oper("STAIR_DOWN", 1)

CloseStart == CaptainGoto("close_start", "trip") /\ P_oper("START_OF_TRIP", 1)

(* The head of the loop.                                                   *)
Announce ==
  \/ /\ i < NUM_OF_TRIPS
     /\ CaptainGoto("trip", "fill")
     /\ IF i = NUM_OF_TRIPS - 1 THEN V_oper("LAST_TRIP", 1) ELSE UNCHANGED sem
  \/ /\ i >= NUM_OF_TRIPS
     /\ CaptainGoto("trip", "done")
     /\ UNCHANGED sem

(* Mutant of Fill: the captain does not wait for a full boat.              *)
FillNot == CaptainGoto("fill", "raise") /\ UNCHANGED sem

Fill == CaptainGoto("fill", "raise") /\ Z_oper("NUM_ON_BOAT")

Raise == CaptainGoto("raise", "sweep") /\ V_oper("STAIR_DOWN", 1)

Sweep == CaptainGoto("sweep", "swept") /\ P_oper("NUM_ON_STAIR", CAP_OF_STAIR)

(* Mutant of Swept: one place is given back of those taken.                *)
SweptOne == CaptainGoto("swept", "depart") /\ V_oper("NUM_ON_STAIR", 1)

Swept == CaptainGoto("swept", "depart") /\ V_oper("NUM_ON_STAIR", CAP_OF_STAIR)

(* Mutant of Depart: the door to the trip is not closed.                   *)
DepartUnmarked == CaptainGoto("depart", "sail") /\ UNCHANGED sem

Depart == CaptainGoto("depart", "sail") /\ V_oper("START_OF_TRIP", 1)

(* Mutant of Sail: the end of the trip is not told.                        *)
SailOn == CaptainGoto("sail", "lower") /\ UNCHANGED sem

Sail == CaptainGoto("sail", "lower") /\ P_oper("END_OF_TRIP", 1)

Lower == CaptainGoto("lower", "empty") /\ P_oper("STAIR_DOWN", 1)

(* Mutant of Empty: the captain does not wait for the passengers.          *)
EmptyNot == CaptainGoto("empty", "close_end") /\ UNCHANGED sem

Empty == CaptainGoto("empty", "close_end") /\ Z_oper("NUM_ON_COAST")

CloseEnd == CaptainGoto("close_end", "refill") /\ V_oper("END_OF_TRIP", 1)

Refill ==
  /\ CaptainGoto("refill", IF i = NUM_OF_TRIPS - 1 THEN "done" ELSE "again")
  /\ V_oper("NUM_ON_COAST", Seats)

Again == CaptainGoto("again", "trip") /\ P_oper("START_OF_TRIP", 1)

Captain ==
  /\ \/ /\ \/ LowerFirst \/ CloseStart \/ Announce \/ Fill \/ Raise \/ Sweep
           \/ Swept \/ Depart \/ Sail \/ Lower \/ Empty \/ CloseEnd \/ Refill
        /\ UNCHANGED i
     \/ Again /\ i' = i + 1
  /\ UNCHANGED <<pc, main, index>>

-----------------------------------------------------------------------------
Fork ==
  /\ main = "fork"
  /\ index < NUM_OF_PASS
  /\ index' = index + 1
  /\ Goto(index', "unborn", "coast")
  /\ UNCHANGED <<sem, captain, i, main>>

(* fork() fails: main ends, captain and passengers go on without it.       *)
ForkFails ==
  /\ FORK_MAY_FAIL
  /\ main = "fork"
  /\ index < NUM_OF_PASS
  /\ main' = "exited"
  /\ UNCHANGED <<sem, pc, captain, i, index>>

MainReturns ==
  /\ main = "fork"
  /\ index = NUM_OF_PASS
  /\ main' = "exited"
  /\ UNCHANGED <<sem, pc, captain, i, index>>

Main == Fork \/ MainReturns

Next ==
  \/ \E p \in Passengers : Passenger(p)
  \/ Captain
  \/ Main
  \/ ForkFails

Spec == Init /\ [][Next]_vars

(* Every process that is not blocked for ever runs.                        *)
Fairness ==
  /\ \A p \in Passengers : WF_vars(Passenger(p))
  /\ WF_vars(Captain)
  /\ WF_vars(Main)

FairSpec == Spec /\ Fairness

-----------------------------------------------------------------------------
(* Passengers with a seat that are not past the door of a trip, or have    *)
(* left the program with the seat; those that are on their way ashore; all *)
(* that have a seat.                                                       *)
Behind == {"second_look", "gangway", "boarding", "aboard", "out_with_seat"}

GoingAshore == {"arrived", "disembark", "leaving", "island", "landed"}

Holding == Behind \cup {"sailing"} \cup (GoingAshore \ {"landed"})

Steps == Holding \cup GoingAshore \cup {"unborn", "coast", "first_look", "book", "out"}

At(steps) == {p \in Passengers : pc[p] \in steps}

Holders == At(Holding)

OnStair == At({"boarding", "leaving"})

(* Past the door of a trip and not back on the coast.                      *)
Travellers == At(GoingAshore \cup {"sailing"})

TypeOK ==
  /\ sem \in [Semaphors -> Nat]
  /\ pc \in [Passengers -> Steps]
  /\ captain \in {"prepare", "close_start", "trip", "fill", "raise", "sweep",
                  "swept", "depart", "sail", "lower", "empty", "close_end",
                  "refill", "again", "done"}
  /\ i \in 0 .. NUM_OF_TRIPS
  /\ i < NUM_OF_TRIPS \/ NUM_OF_TRIPS = 0
  /\ main \in {"fork", "exited"}
  /\ index \in 0 .. NUM_OF_PASS

(* Every seat is free or with one passenger: none is booked twice, and     *)
(* those that leave with a seat take it for ever.                          *)
SeatsExact == sem["NUM_ON_BOAT"] + Cardinality(Holders) = Seats

(* No more passengers on the stair than it carries, and none while the     *)
(* captain has it to himself.                                              *)
StairExact ==
  sem["NUM_ON_STAIR"] + Cardinality(OnStair)
    + (IF captain = "swept" THEN CAP_OF_STAIR ELSE 0) = CAP_OF_STAIR

(* From "another journey is finished" to the next departure nobody is left *)
(* over from the journey: whoever was in it is back on the coast.          *)
NobodyLeftOver ==
  captain \notin {"lower", "empty"} =>
    \A p \in Passengers : pc[p] \notin GoingAshore

(* While the captain waits for passengers to come back, the number he      *)
(* waits for is that of the travellers and of those that were too late for *)
(* the door and will never come.                                           *)
CoastExact ==
  captain \in {"sail", "lower", "empty"} =>
    /\ Cardinality(Travellers) <= sem["NUM_ON_COAST"]
    /\ sem["NUM_ON_COAST"] <= Cardinality(Travellers) + Cardinality(At(Behind))

(* What the captain has done to the doors when he is at a step.            *)
Doors ==
  /\ sem["STAIR_DOWN"] =
       IF captain \in {"prepare", "sweep", "swept", "depart", "sail", "lower"}
       THEN 1 ELSE 0
  /\ captain \in {"trip", "fill", "raise", "sweep", "swept", "depart"} =>
       sem["START_OF_TRIP"] = 0
  /\ captain \in {"prepare", "close_start", "sail", "lower", "empty",
                  "close_end", "refill", "again"} =>
       sem["START_OF_TRIP"] = 1
  /\ sem["END_OF_TRIP"] =
       IF captain \in {"lower", "empty", "close_end"} THEN 0 ELSE 1

(* The seats and the coast when he is there.                               *)
Phases ==
  /\ captain \in {"raise", "sweep", "swept", "depart", "sail", "lower"} =>
       sem["NUM_ON_BOAT"] = 0
  /\ captain \in {"close_end", "refill"} => sem["NUM_ON_COAST"] = 0
  /\ captain \notin {"sail", "lower", "empty", "close_end", "refill"} =>
       sem["NUM_ON_COAST"] = Seats
  /\ captain # "empty" => At(GoingAshore \ {"arrived"}) = {}
  /\ captain = "close_end" => Travellers = {}
  /\ captain \notin {"prepare", "close_start", "trip", "done"} =>
       i < NUM_OF_TRIPS
  /\ captain = "again" => i + 1 < NUM_OF_TRIPS

(* Who is out has seen the flag of the last trip; who is not forked yet is *)
(* not started.                                                            *)
Outsiders ==
  /\ At({"out", "out_with_seat"}) # {} => IsLastTrip
  /\ \A p \in Passengers : pc[p] = "unborn" <=> p > index

(* Between boarding a trip and being back from it.                         *)
Under == {"gangway", "boarding", "aboard", "sailing"} \cup GoingAshore

(* The flag of the last trip is raised for the last boarding, once and for *)
(* good.  From the last departure on nobody comes under way any more, and  *)
(* the captain goes away only when nobody is.                              *)
LastTrip ==
  /\ IsLastTrip => captain \notin {"prepare", "close_start", "trip", "again"}
  /\ captain \in {"fill", "raise", "sweep", "swept", "depart", "sail", "lower",
                  "empty", "close_end", "refill"} =>
       (IsLastTrip <=> i = NUM_OF_TRIPS - 1)
  /\ captain = "done" =>
       IF IsLastTrip THEN sem["START_OF_TRIP"] = 1 ELSE NUM_OF_TRIPS = 0
  /\ IsLastTrip /\ captain \in {"sail", "lower", "empty"} =>
       Cardinality(At(Under)) <= sem["NUM_ON_COAST"]
  /\ IsLastTrip /\ captain \in {"close_end", "refill", "done"} =>
       At(Under) = {}

(* The inductive invariant.                                                *)
IInv ==
  /\ TypeOK
  /\ SeatsExact
  /\ StairExact
  /\ CoastExact
  /\ NobodyLeftOver
  /\ Doors
  /\ Phases
  /\ Outsiders
  /\ LastTrip

(* No process can make a step.                                             *)
PassengerStuck(p) ==
  \/ pc[p] \in {"unborn", "out", "out_with_seat"}
  \/ pc[p] \in {"coast", "arrived"} /\ sem["STAIR_DOWN"] # 0
  \/ pc[p] = "book" /\ sem["NUM_ON_BOAT"] = 0
  \/ pc[p] \in {"gangway", "disembark"} /\ sem["NUM_ON_STAIR"] = 0
  \/ pc[p] = "aboard" /\ sem["START_OF_TRIP"] # 0
  \/ pc[p] = "sailing" /\ sem["END_OF_TRIP"] # 0
  \/ pc[p] = "landed" /\ sem["NUM_ON_COAST"] = 0

CaptainStuck ==
  \/ captain = "done"
  \/ captain = "fill" /\ sem["NUM_ON_BOAT"] # 0
  \/ captain = "sweep" /\ sem["NUM_ON_STAIR"] < CAP_OF_STAIR
  \/ captain = "empty" /\ sem["NUM_ON_COAST"] # 0

Standstill ==
  /\ main = "exited"
  /\ CaptainStuck
  /\ \A p \in Passengers : PassengerStuck(p)

(* Those who have gone with a seat have taken every seat with them.        *)
SeatsTakenAway == Cardinality(At({"out_with_seat"})) = Seats

(* The program stops at four places only.  The captain has made his trips, *)
(* and everybody has gone home but those who wait for seats that others    *)
(* have taken away; he was told to make no trip; he waits for a full boat  *)
(* with passengers that wait in it, because others saw the flag of the     *)
(* last trip and left, or were never forked; or all travellers are back    *)
(* and he waits for those that came too late for the trip.                 *)
StandstillExplained ==
  Standstill =>
    \/ /\ captain = "done" /\ IsLastTrip
       /\ \A p \in Passengers :
            \/ pc[p] \in {"unborn", "out", "out_with_seat"}
            \/ pc[p] = "book" /\ SeatsTakenAway
    \/ captain = "done" /\ NUM_OF_TRIPS = 0
    \/ /\ captain = "fill" /\ (IsLastTrip \/ index < NUM_OF_PASS)
       /\ At(Steps \ {"unborn", "out", "out_with_seat", "sailing"}) = {}
    \/ captain = "empty" /\ At(Behind) # {} /\ Travellers = {}

(* The promise of Excursion.                                               *)
ExcursionImpl == INSTANCE Excursion WITH
  SEATS <- Seats,
  seated <- Holders,
  atSea <- captain \in {"sweep", "swept", "depart", "sail", "lower"},
  trips <- IF captain = "done" THEN NUM_OF_TRIPS
           ELSE i + IF captain \in {"empty", "close_end", "refill", "again"}
                    THEN 1 ELSE 0

ImplementsExcursion == ExcursionImpl!Spec

(* Whoever is past the door when the boat leaves comes back to the coast,  *)
(* also from a trip for which others were too late.                        *)
TravellersLand ==
  \A p \in Passengers :
    captain = "depart" /\ pc[p] = "sailing" ~> pc[p] = "coast"

(* Once the captain has gone away after his last trip, every passenger     *)
(* that was forked gets to the end of the program, unless all seats are    *)
(* taken away by passengers that left by the second break: those who wait  *)
(* to book then wait for ever.                                             *)
PassengersGoHome ==
  captain = "done" /\ IsLastTrip ~> \A p \in Passengers :
    \/ pc[p] \in {"out", "out_with_seat"}
    \/ pc[p] = "unborn" /\ main = "exited"
    \/ pc[p] = "book" /\ SeatsTakenAway

(* The captain's operations still to come: he goes round once a trip.      *)
CaptainLeft ==
  12 * (NUM_OF_TRIPS - i) +
    [prepare |-> 14, close_start |-> 13, trip |-> 12, fill |-> 11, raise |-> 10,
     sweep |-> 9, swept |-> 8, depart |-> 7, sail |-> 6, lower |-> 5,
     empty |-> 4, close_end |-> 3, refill |-> 2, again |-> 1,
     done |-> 0][captain]

(* A passenger's operations from a step up to the seat in the boat or the  *)
(* way out, as long as the captain makes no step: who sits in the boat     *)
(* comes ashore and boards again if the end of the trip is open, and sits  *)
(* there otherwise.                                                        *)
RoundFrom(step, end) ==
  [unborn |-> 8, coast |-> 7, first_look |-> 6, book |-> 5, second_look |-> 4,
   gangway |-> 3, boarding |-> 2, aboard |-> 1,
   sailing |-> IF end = 0 THEN 13 ELSE 0,
   arrived |-> 12, disembark |-> 11, leaving |-> 10, island |-> 9, landed |-> 8,
   out |-> 0, out_with_seat |-> 0][step]

RoundLeft(p) == RoundFrom(pc[p], sem["END_OF_TRIP"])

PassengerGetsOn(p) ==
  /\ RoundLeft(p)' < RoundLeft(p)
  /\ \A q \in Passengers \ {p} : RoundLeft(q)' = RoundLeft(q)

(* The three doors of a trip are never open so that a passenger gets round *)
(* them twice: every step is one of the captain's, who gets on, or brings  *)
(* one passenger nearer to its place and leaves the others where they are, *)
(* or ends main.  No execution has infinitely many of these.               *)
StepGetsOn ==
  \/ CaptainLeft' < CaptainLeft
  \/ UNCHANGED <<captain, i>> /\ \E p \in Passengers : PassengerGetsOn(p)
  \/ UNCHANGED <<sem, pc, captain, i>> /\ main = "fork" /\ main' = "exited"

OnceRound == [][StepGetsOn]_vars

(* The captain makes the trips he was started for.                         *)
AllTripsMade == <>(captain = "done")
=============================================================================
