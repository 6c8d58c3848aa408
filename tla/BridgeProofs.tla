----------------------------- MODULE BridgeProofs -----------------------------
(***************************************************************************)
(* For every number of cars and ships: the inductive invariant IInv of     *)
(* Bridge is preserved, so its parts hold in every reachable state; the    *)
(* standstill property follows from it; and Bridge implements Crossing.    *)
(*                                                                         *)
(* Nothing below depends on which indices are cars: IsCar is never         *)
(* expanded.                                                               *)
(***************************************************************************)
EXTENDS Bridge, FiniteSetTheorems, TLAPS

(* The vehicles are finitely many, and as many as main's loops count.      *)
LEMMA VehiclesFinite ==
  /\ NumOfVehicles \in Nat
  /\ IsFiniteSet(Vehicles)
  /\ Cardinality(Vehicles) = NumOfVehicles
<1>1. NumOfVehicles \in Nat
  BY BridgeAssumption DEF NumOfVehicles
<1>2. IsFiniteSet(Vehicles) /\ Cardinality(Vehicles) = NumOfVehicles
  <2>1. 0 \in Int /\ NumOfVehicles - 1 \in Int
    BY <1>1
  <2>2. IsFiniteSet(0 .. NumOfVehicles - 1)
    BY <2>1, FS_Interval
  <2>3. Cardinality(0 .. NumOfVehicles - 1)
          = IF 0 > NumOfVehicles - 1 THEN 0 ELSE NumOfVehicles - 1 - 0 + 1
    BY <2>1, FS_Interval
  <2>4. QED
    BY <1>1, <2>2, <2>3 DEF Vehicles
<1>3. QED
  BY <1>1, <1>2

(* A subset of the vehicles is finite and its size is a natural number; it *)
(* grows by one with a new element and shrinks by one with an old one.     *)
LEMMA CountSubset ==
  ASSUME NEW S \in SUBSET Vehicles, NEW v \in Vehicles
  PROVE  /\ Cardinality(S) \in Nat
         /\ v \notin S => Cardinality(S \cup {v}) = Cardinality(S) + 1
         /\ v \in S => /\ Cardinality(S) > 0
                       /\ Cardinality(S \ {v}) = Cardinality(S) - 1
<1>1. IsFiniteSet(S)
  BY VehiclesFinite, FS_Subset
<1>2. Cardinality(S) \in Nat
  BY <1>1, FS_CardinalityType
<1>3. v \notin S => Cardinality(S \cup {v}) = Cardinality(S) + 1
  BY <1>1, FS_AddElement
<1>4. v \in S => Cardinality(S \ {v}) = Cardinality(S) - 1
  BY <1>1, FS_RemoveElement
<1>5. v \in S => Cardinality(S) > 0
  BY <1>1, <1>2, FS_EmptySet
<1>6. QED
  BY <1>2, <1>3, <1>4, <1>5

(* What Goto does to pc, without EXCEPT.                                   *)
LEMMA GotoMoves ==
  ASSUME pc \in [Vehicles -> Steps],
         NEW v \in Vehicles, NEW from \in Steps, NEW to \in Steps,
         Goto(v, from, to)
  PROVE  /\ pc' \in [Vehicles -> Steps]
         /\ pc[v] = from
         /\ pc'[v] = to
         /\ \A u \in Vehicles : u # v => pc'[u] = pc[u]
BY DEF Goto

(* What the semaphore calls do, one semaphore at a time.                   *)
LEMMA SemaphoreCalls ==
  ASSUME sem \in [Semaphors -> Int], NEW s \in Semaphors
  PROVE  /\ P_oper(s, 1) => /\ sem' \in [Semaphors -> Int]
                            /\ sem[s] >= 1
                            /\ sem'[s] = sem[s] - 1
                            /\ \A t \in Semaphors : t # s => sem'[t] = sem[t]
         /\ V_oper(s, 1) => /\ sem' \in [Semaphors -> Int]
                            /\ sem'[s] = sem[s] + 1
                            /\ \A t \in Semaphors : t # s => sem'[t] = sem[t]
BY DEF P_oper, V_oper

-----------------------------------------------------------------------------
(* A vehicle's step that is neither its birth nor its burial leaves main's *)
(* account of the children as it was.                                      *)
LEMMA VehicleKeepsMain ==
  ASSUME TypeOK, MainKeepsCount, RemovedOnlyAfterAll,
         NEW v \in Vehicles,
         NEW from \in Steps \ {"unborn", "reaped"},
         NEW to \in Steps \ {"unborn", "reaped"},
         Goto(v, from, to), UNCHANGED <<main, index>>
  PROVE  (MainKeepsCount /\ RemovedOnlyAfterAll)'
<1>1. /\ pc[v] = from
      /\ pc'[v] = to
      /\ \A u \in Vehicles : u # v => pc'[u] = pc[u]
  BY GotoMoves DEF TypeOK
<1>2. \A u \in Vehicles : /\ pc'[u] = "unborn" <=> pc[u] = "unborn"
                          /\ pc'[u] = "reaped" <=> pc[u] = "reaped"
  BY <1>1
<1>3. {u \in Vehicles : pc'[u] = "reaped"} = {u \in Vehicles : pc[u] = "reaped"}
  BY <1>2
<1>4. QED
  BY <1>2, <1>3 DEF MainKeepsCount, RemovedOnlyAfterAll

(* The counters stay exact when nobody enrols or stops waiting.            *)
LEMMA SameEnrolled ==
  ASSUME WaitingCountsExact, UNCHANGED waiting,
         \A u \in Vehicles : Enrolled(u)' <=> Enrolled(u)
  PROVE  WaitingCountsExact'
<1>1. \A k : {u \in Vehicles : Kind(u) = k /\ Enrolled(u)'}
              = {u \in Vehicles : Kind(u) = k /\ Enrolled(u)}
  OBVIOUS
<1>2. QED
  BY <1>1 DEF WaitingCountsExact

(* Enrolling adds the vehicle to the counter of its kind, ...              *)
LEMMA OneMoreEnrolled ==
  ASSUME TypeOK, WaitingCountsExact,
         NEW v \in Vehicles, ~ Enrolled(v),
         waiting' = [waiting EXCEPT ![Kind(v)] = @ + 1],
         \A u \in Vehicles : Enrolled(u)' <=> Enrolled(u) \/ u = v
  PROVE  /\ WaitingCountsExact'
         /\ waiting' \in [{"cars", "ships"} -> Nat]
<1> DEFINE Q(k) == {u \in Vehicles : Kind(u) = k /\ Enrolled(u)}
           R(k) == {u \in Vehicles : Kind(u) = k /\ Enrolled(u)'}
<1>1. waiting' \in [{"cars", "ships"} -> Nat]
  BY DEF TypeOK, Kind
<1>2. ASSUME NEW k \in {"cars", "ships"}
      PROVE  waiting'[k] = Cardinality(R(k))
  <2>1. waiting[k] = Cardinality(Q(k))
    BY DEF WaitingCountsExact
  <2>2. CASE Kind(v) = k
    <3>1. v \notin Q(k) /\ R(k) = Q(k) \cup {v}
      BY <2>2
    <3>2. Cardinality(R(k)) = Cardinality(Q(k)) + 1
      BY <3>1, CountSubset
    <3>3. QED
      BY <2>1, <2>2, <3>2 DEF TypeOK
  <2>3. CASE Kind(v) # k
    <3>1. R(k) = Q(k)
      BY <2>3
    <3>2. QED
      BY <2>1, <2>3, <3>1 DEF TypeOK
  <2>4. QED
    BY <2>2, <2>3
<1>3. QED
  BY <1>1, <1>2 DEF WaitingCountsExact

(* ... and Discount takes it out again, never below zero.                  *)
LEMMA OneLessEnrolled ==
  ASSUME TypeOK, WaitingCountsExact,
         NEW v \in Vehicles, Enrolled(v),
         waiting' = Discount(v),
         \A u \in Vehicles : Enrolled(u)' <=> Enrolled(u) /\ u # v
  PROVE  /\ WaitingCountsExact'
         /\ waiting' \in [{"cars", "ships"} -> Nat]
<1> DEFINE Q(k) == {u \in Vehicles : Kind(u) = k /\ Enrolled(u)}
           R(k) == {u \in Vehicles : Kind(u) = k /\ Enrolled(u)'}
<1>1. ASSUME NEW k \in {"cars", "ships"}
      PROVE  waiting'[k] = Cardinality(R(k)) /\ waiting'[k] \in Nat
  <2>1. waiting[k] = Cardinality(Q(k)) /\ waiting[k] \in Nat
    BY DEF WaitingCountsExact, TypeOK
  <2>2. CASE Kind(v) = k
    <3>1. v \in Q(k) /\ R(k) = Q(k) \ {v}
      BY <2>2
    <3>2. /\ Cardinality(R(k)) = Cardinality(Q(k)) - 1
          /\ Cardinality(Q(k)) > 0
      BY <3>1, CountSubset
    <3>3. waiting'[k] = waiting[k] - 1
      BY <2>2 DEF TypeOK, Discount
    <3>4. QED
      BY <2>1, <3>2, <3>3
  <2>3. CASE Kind(v) # k
    <3>1. R(k) = Q(k)
      BY <2>3
    <3>2. waiting'[k] = waiting[k]
      BY <2>3 DEF TypeOK, Discount
    <3>3. QED
      BY <2>1, <3>1, <3>2
  <2>4. QED
    BY <2>2, <2>3
<1>2. waiting' \in [{"cars", "ships"} -> Nat]
  BY <1>1 DEF TypeOK, Discount
<1>3. QED
  BY <1>1, <1>2 DEF WaitingCountsExact

(* A free turn of the ships keeps its taker while neither the turn nor the *)
(* queue changes.                                                          *)
LEMMA SameQueue ==
  ASSUME ShipTurnIsUsed, sem'["SHIP"] = sem["SHIP"],
         \A u \in Vehicles : pc[u] = "queue" => pc'[u] = "queue"
  PROVE  ShipTurnIsUsed'
BY DEF ShipTurnIsUsed

-----------------------------------------------------------------------------
(* IInv is preserved by every operation of a vehicle, one lemma each.      *)
LEMMA ArriveStep ==
  ASSUME IInv, NEW v \in Vehicles, Arrive(v), UNCHANGED <<main, index>>
  PROVE  IInv'
<1> USE DEF IInv
<1>1. /\ pc' \in [Vehicles -> Steps]
      /\ pc[v] = "arrive" /\ pc'[v] = "enroll"
      /\ \A u \in Vehicles : u # v => pc'[u] = pc[u]
  BY GotoMoves DEF TypeOK, Arrive, Steps
<1>2. /\ sem' \in [Semaphors -> Int]
      /\ sem["SHRD_VAR"] >= 1
      /\ sem'["SHRD_VAR"] = sem["SHRD_VAR"] - 1
      /\ \A t \in Semaphors : t # "SHRD_VAR" => sem'[t] = sem[t]
  BY SemaphoreCalls DEF TypeOK, Arrive, Semaphors
<1>3. waiting' = waiting /\ bridge_cond' = bridge_cond
  BY DEF Arrive
<1>4. TypeOK'
  BY <1>1, <1>2, <1>3 DEF TypeOK
<1>5. \A u \in Vehicles : ~ HoldsShared(u)
  BY <1>2 DEF TokensExact, TypeOK, Semaphors
<1>6. \A u \in Vehicles : /\ HoldsShared(u)' <=> u = v
                          /\ HoldsBridge(u)' <=> HoldsBridge(u)
                          /\ HoldsTurn(u)' <=> HoldsTurn(u)
                          /\ Enrolled(u)' <=> Enrolled(u)
  BY <1>1, <1>5 DEF HoldsShared, HoldsBridge, HoldsTurn, Enrolled
<1>7. TokensExact'
  <2>1. /\ sem'["SHRD_VAR"] = 0
        /\ sem'["BRIDGE"] = sem["BRIDGE"]
        /\ sem'["CAR"] = sem["CAR"]
        /\ sem'["SHIP"] = sem["SHIP"]
    BY <1>2 DEF TypeOK, Semaphors
  <2>2. QED
    BY <1>6, <2>1 DEF TokensExact
<1>8. MutualExclusion'
  BY <1>6 DEF MutualExclusion
<1>9. SpanMatchesTraffic'
  BY <1>2, <1>3, <1>6 DEF SpanMatchesTraffic, Semaphors
<1>10. WaitingCountsExact'
  BY <1>3, <1>6, SameEnrolled
<1>11. ShipTurnIsUsed'
  BY <1>1, <1>2, SameQueue DEF Semaphors
<1>12. (MainKeepsCount /\ RemovedOnlyAfterAll)'
  BY VehicleKeepsMain DEF Arrive, Steps
<1>13. QED
  BY <1>4, <1>7, <1>8, <1>9, <1>10, <1>11, <1>12

LEMMA EnrollStep ==
  ASSUME IInv, NEW v \in Vehicles, Enroll(v), UNCHANGED <<main, index>>
  PROVE  IInv'
<1> USE DEF IInv
<1>1. /\ pc' \in [Vehicles -> Steps]
      /\ pc[v] = "enroll" /\ pc'[v] = "queue"
      /\ \A u \in Vehicles : u # v => pc'[u] = pc[u]
  BY GotoMoves DEF TypeOK, Enroll, Steps
<1>2. /\ sem' \in [Semaphors -> Int]
      /\ sem'["SHRD_VAR"] = sem["SHRD_VAR"] + 1
      /\ \A t \in Semaphors : t # "SHRD_VAR" => sem'[t] = sem[t]
  BY SemaphoreCalls DEF TypeOK, Enroll, Semaphors
<1>3. bridge_cond' = bridge_cond
  BY DEF Enroll
<1>4. HoldsShared(v) /\ sem["SHRD_VAR"] = 0
  BY <1>1 DEF HoldsShared, TokensExact
<1>5. \A u \in Vehicles : /\ ~ HoldsShared(u)'
                          /\ HoldsBridge(u)' <=> HoldsBridge(u)
                          /\ HoldsTurn(u)' <=> HoldsTurn(u)
                          /\ Enrolled(u)' <=> Enrolled(u) \/ u = v
  BY <1>1, <1>4
  DEF MutualExclusion, HoldsShared, HoldsBridge, HoldsTurn, Enrolled
<1>6. WaitingCountsExact' /\ waiting' \in [{"cars", "ships"} -> Nat]
  BY <1>1, <1>5, OneMoreEnrolled DEF Enroll, Enrolled
<1>7. TypeOK'
  BY <1>1, <1>2, <1>3, <1>4, <1>6 DEF TypeOK
<1>8. TokensExact'
  <2>1. /\ sem'["SHRD_VAR"] = 1
        /\ sem'["BRIDGE"] = sem["BRIDGE"]
        /\ sem'["CAR"] = sem["CAR"]
        /\ sem'["SHIP"] = sem["SHIP"]
    BY <1>2, <1>4 DEF Semaphors
  <2>2. QED
    BY <1>5, <2>1 DEF TokensExact
<1>9. MutualExclusion'
  BY <1>5 DEF MutualExclusion
<1>10. SpanMatchesTraffic'
  BY <1>2, <1>3, <1>5 DEF SpanMatchesTraffic, Semaphors
<1>11. ShipTurnIsUsed'
  BY <1>1, <1>2, SameQueue DEF Semaphors
<1>12. (MainKeepsCount /\ RemovedOnlyAfterAll)'
  BY VehicleKeepsMain DEF Enroll, Steps
<1>13. QED
  BY <1>6, <1>7, <1>8, <1>9, <1>10, <1>11, <1>12

LEMMA QueueStep ==
  ASSUME IInv, NEW v \in Vehicles, Queue(v), UNCHANGED <<main, index>>
  PROVE  IInv'
<1> USE DEF IInv
<1>1. /\ pc' \in [Vehicles -> Steps]
      /\ pc[v] = "queue" /\ pc'[v] = "enter"
      /\ \A u \in Vehicles : u # v => pc'[u] = pc[u]
  BY GotoMoves DEF TypeOK, Queue, Steps
<1>2. Turn(v) \in {"CAR", "SHIP"} /\ (Turn(v) = "CAR" <=> IsCar(v))
  BY DEF Turn
<1>3. /\ sem' \in [Semaphors -> Int]
      /\ sem[Turn(v)] >= 1
      /\ sem'[Turn(v)] = sem[Turn(v)] - 1
      /\ \A t \in Semaphors : t # Turn(v) => sem'[t] = sem[t]
  BY <1>2, SemaphoreCalls DEF TypeOK, Queue, Semaphors
<1>4. waiting' = waiting /\ bridge_cond' = bridge_cond
  BY DEF Queue
<1>5. TypeOK'
  BY <1>1, <1>2, <1>3, <1>4 DEF TypeOK, Semaphors
<1>6. /\ sem["CAR"] + sem["SHIP"] = 1
      /\ sem'["CAR"] = 0 /\ sem'["SHIP"] = 0
  BY <1>2, <1>3 DEF TokensExact, TypeOK, Semaphors
<1>7. \A u \in Vehicles : ~ HoldsTurn(u)
  BY <1>6 DEF TokensExact
<1>8. \A u \in Vehicles : /\ HoldsShared(u)' <=> HoldsShared(u)
                          /\ HoldsBridge(u)' <=> HoldsBridge(u)
                          /\ HoldsTurn(u)' <=> u = v
                          /\ Enrolled(u)' <=> Enrolled(u)
  BY <1>1, <1>7 DEF HoldsShared, HoldsBridge, HoldsTurn, Enrolled
<1>9. TokensExact'
  <2>1. /\ sem'["SHRD_VAR"] = sem["SHRD_VAR"]
        /\ sem'["BRIDGE"] = sem["BRIDGE"]
    BY <1>2, <1>3 DEF Semaphors
  <2>2. QED
    BY <1>6, <1>8, <2>1 DEF TokensExact
<1>10. MutualExclusion'
  BY <1>8 DEF MutualExclusion
<1>11. SpanMatchesTraffic'
  <2>1. bridge_cond = IF IsCar(v) THEN "CLOSE" ELSE "OPEN"
    BY <1>2, <1>3 DEF SpanMatchesTraffic, TypeOK, Semaphors
  <2>2. QED
    BY <1>4, <1>6, <1>8, <2>1 DEF SpanMatchesTraffic
<1>12. WaitingCountsExact'
  BY <1>4, <1>8, SameEnrolled
<1>13. ShipTurnIsUsed'
  BY <1>6 DEF ShipTurnIsUsed
<1>14. (MainKeepsCount /\ RemovedOnlyAfterAll)'
  BY VehicleKeepsMain DEF Queue, Steps
<1>15. QED
  BY <1>5, <1>9, <1>10, <1>11, <1>12, <1>13, <1>14

LEMMA EnterStep ==
  ASSUME IInv, NEW v \in Vehicles, Enter(v), UNCHANGED <<main, index>>
  PROVE  IInv'
<1> USE DEF IInv
<1>1. /\ pc' \in [Vehicles -> Steps]
      /\ pc[v] = "enter" /\ pc'[v] = "cross"
      /\ \A u \in Vehicles : u # v => pc'[u] = pc[u]
  BY GotoMoves DEF TypeOK, Enter, Steps
<1>2. /\ sem' \in [Semaphors -> Int]
      /\ sem["BRIDGE"] >= 1
      /\ sem'["BRIDGE"] = sem["BRIDGE"] - 1
      /\ \A t \in Semaphors : t # "BRIDGE" => sem'[t] = sem[t]
  BY SemaphoreCalls DEF TypeOK, Enter, Semaphors
<1>3. waiting' = waiting /\ bridge_cond' = bridge_cond
  BY DEF Enter
<1>4. TypeOK'
  BY <1>1, <1>2, <1>3 DEF TypeOK
<1>5. \A u \in Vehicles : ~ HoldsBridge(u)
  BY <1>2 DEF TokensExact, TypeOK, Semaphors
<1>6. \A u \in Vehicles : /\ HoldsShared(u)' <=> HoldsShared(u)
                          /\ HoldsBridge(u)' <=> u = v
                          /\ HoldsTurn(u)' <=> HoldsTurn(u)
                          /\ Enrolled(u)' <=> Enrolled(u)
  BY <1>1, <1>5 DEF HoldsShared, HoldsBridge, HoldsTurn, Enrolled
<1>7. TokensExact'
  <2>1. /\ sem'["BRIDGE"] = 0
        /\ sem'["SHRD_VAR"] = sem["SHRD_VAR"]
        /\ sem'["CAR"] = sem["CAR"]
        /\ sem'["SHIP"] = sem["SHIP"]
    BY <1>2 DEF TypeOK, Semaphors
  <2>2. QED
    BY <1>6, <2>1 DEF TokensExact
<1>8. MutualExclusion'
  BY <1>6 DEF MutualExclusion
<1>9. SpanMatchesTraffic'
  BY <1>2, <1>3, <1>6 DEF SpanMatchesTraffic, Semaphors
<1>10. WaitingCountsExact'
  BY <1>3, <1>6, SameEnrolled
<1>11. ShipTurnIsUsed'
  BY <1>1, <1>2, SameQueue DEF Semaphors
<1>12. (MainKeepsCount /\ RemovedOnlyAfterAll)'
  BY VehicleKeepsMain DEF Enter, Steps
<1>13. QED
  BY <1>4, <1>7, <1>8, <1>9, <1>10, <1>11, <1>12

LEMMA CrossStep ==
  ASSUME IInv, NEW v \in Vehicles, Cross(v), UNCHANGED <<main, index>>
  PROVE  IInv'
<1> USE DEF IInv
<1>1. /\ pc' \in [Vehicles -> Steps]
      /\ pc[v] = "cross" /\ pc'[v] = "decide"
      /\ \A u \in Vehicles : u # v => pc'[u] = pc[u]
  BY GotoMoves DEF TypeOK, Cross, Steps
<1>2. /\ sem' \in [Semaphors -> Int]
      /\ sem["SHRD_VAR"] >= 1
      /\ sem'["SHRD_VAR"] = sem["SHRD_VAR"] - 1
      /\ \A t \in Semaphors : t # "SHRD_VAR" => sem'[t] = sem[t]
  BY SemaphoreCalls DEF TypeOK, Cross, Semaphors
<1>3. waiting' = waiting /\ bridge_cond' = bridge_cond
  BY DEF Cross
<1>4. TypeOK'
  BY <1>1, <1>2, <1>3 DEF TypeOK
<1>5. \A u \in Vehicles : ~ HoldsShared(u)
  BY <1>2 DEF TokensExact, TypeOK, Semaphors
<1>6. \A u \in Vehicles : /\ HoldsShared(u)' <=> u = v
                          /\ HoldsBridge(u)' <=> HoldsBridge(u)
                          /\ HoldsTurn(u)' <=> HoldsTurn(u)
                          /\ Enrolled(u)' <=> Enrolled(u)
  BY <1>1, <1>5 DEF HoldsShared, HoldsBridge, HoldsTurn, Enrolled
<1>7. TokensExact'
  <2>1. /\ sem'["SHRD_VAR"] = 0
        /\ sem'["BRIDGE"] = sem["BRIDGE"]
        /\ sem'["CAR"] = sem["CAR"]
        /\ sem'["SHIP"] = sem["SHIP"]
    BY <1>2 DEF TypeOK, Semaphors
  <2>2. QED
    BY <1>6, <2>1 DEF TokensExact
<1>8. MutualExclusion'
  BY <1>6 DEF MutualExclusion
<1>9. SpanMatchesTraffic'
  BY <1>2, <1>3, <1>6 DEF SpanMatchesTraffic, Semaphors
<1>10. WaitingCountsExact'
  BY <1>3, <1>6, SameEnrolled
<1>11. ShipTurnIsUsed'
  BY <1>1, <1>2, SameQueue DEF Semaphors
<1>12. (MainKeepsCount /\ RemovedOnlyAfterAll)'
  BY VehicleKeepsMain DEF Cross, Steps
<1>13. QED
  BY <1>4, <1>7, <1>8, <1>9, <1>10, <1>11, <1>12

(* The decision: the only vehicle that has the turn, the bridge and the    *)
(* shared data gives the turn to the cars, or to the ships when the        *)
(* counters, which are exact, say that one of them waits.                  *)
LEMMA DecideStep ==
  ASSUME IInv, NEW v \in Vehicles, Decide(v), UNCHANGED <<main, index>>
  PROVE  IInv'
<1> USE DEF IInv
<1> DEFINE side == IF ShipsGoNext(Discount(v)) THEN "SHIP" ELSE "CAR"
<1>1. /\ pc' \in [Vehicles -> Steps]
      /\ pc[v] = "decide" /\ pc'[v] = "unlock"
      /\ \A u \in Vehicles : u # v => pc'[u] = pc[u]
  BY GotoMoves DEF TypeOK, Decide, Steps
<1>2. /\ waiting' = Discount(v)
      /\ bridge_cond' = SpanFor(side)
      /\ V_oper(side, 1)
  BY DEF Decide
<1>3. /\ sem' \in [Semaphors -> Int]
      /\ sem'[side] = sem[side] + 1
      /\ \A t \in Semaphors : t # side => sem'[t] = sem[t]
  BY <1>2, SemaphoreCalls DEF TypeOK, Semaphors
<1>4. /\ HoldsShared(v) /\ HoldsBridge(v) /\ HoldsTurn(v) /\ Enrolled(v)
      /\ \A u \in Vehicles : HoldsTurn(u) => u = v
  BY <1>1 DEF HoldsShared, HoldsBridge, HoldsTurn, Enrolled, MutualExclusion
<1>5. sem["CAR"] = 0 /\ sem["SHIP"] = 0
  BY <1>4 DEF TokensExact, TypeOK, Semaphors
<1>6. \A u \in Vehicles : /\ HoldsShared(u)' <=> HoldsShared(u)
                          /\ HoldsBridge(u)' <=> HoldsBridge(u)
                          /\ ~ HoldsTurn(u)'
                          /\ Enrolled(u)' <=> Enrolled(u) /\ u # v
  BY <1>1, <1>4 DEF HoldsShared, HoldsBridge, HoldsTurn, Enrolled
<1>7. WaitingCountsExact' /\ waiting' \in [{"cars", "ships"} -> Nat]
  BY <1>2, <1>4, <1>6, OneLessEnrolled
<1>8. /\ sem'["SHRD_VAR"] = sem["SHRD_VAR"]
      /\ sem'["BRIDGE"] = sem["BRIDGE"]
      /\ sem'["CAR"] = IF side = "CAR" THEN 1 ELSE 0
      /\ sem'["SHIP"] = IF side = "SHIP" THEN 1 ELSE 0
  BY <1>3, <1>5 DEF Semaphors
<1>9. TypeOK'
  BY <1>1, <1>2, <1>3, <1>7, <1>8 DEF TypeOK, Semaphors, SpanFor
<1>10. TokensExact'
  BY <1>6, <1>8 DEF TokensExact
<1>11. MutualExclusion'
  BY <1>6 DEF MutualExclusion
<1>12. SpanMatchesTraffic'
  BY <1>2, <1>6, <1>8 DEF SpanMatchesTraffic, SpanFor
<1>13. ShipTurnIsUsed'
  <2>1. SUFFICES ASSUME sem'["SHIP"] = 1
                 PROVE  \E u \in Vehicles : ~ IsCar(u) /\ pc'[u] = "queue"
    BY DEF ShipTurnIsUsed
  <2>2. ShipsGoNext(waiting')
    BY <1>2, <1>8, <2>1
  <2>3. waiting'["ships"] # 0
    BY <1>7, <2>2, BridgeAssumption DEF ShipsGoNext
  <2>4. waiting'["ships"]
          = Cardinality({u \in Vehicles : Kind(u) = "ships" /\ Enrolled(u)'})
    BY <1>7 DEF WaitingCountsExact
  <2>5. PICK u \in Vehicles : Kind(u) = "ships" /\ Enrolled(u)'
    <3>1. {u \in Vehicles : Kind(u) = "ships" /\ Enrolled(u)'} # {}
      BY <2>3, <2>4, FS_EmptySet
    <3>2. QED
      BY <3>1
  <2>6. pc'[u] = "queue"
    BY <1>6, <2>5 DEF Enrolled, HoldsTurn
  <2>7. ~ IsCar(u)
    BY <2>5 DEF Kind
  <2>8. QED
    BY <2>6, <2>7
<1>14. (MainKeepsCount /\ RemovedOnlyAfterAll)'
  BY VehicleKeepsMain DEF Decide, Steps
<1>15. QED
  BY <1>7, <1>9, <1>10, <1>11, <1>12, <1>13, <1>14

LEMMA UnlockStep ==
  ASSUME IInv, NEW v \in Vehicles, Unlock(v), UNCHANGED <<main, index>>
  PROVE  IInv'
<1> USE DEF IInv
<1>1. /\ pc' \in [Vehicles -> Steps]
      /\ pc[v] = "unlock" /\ pc'[v] = "leave"
      /\ \A u \in Vehicles : u # v => pc'[u] = pc[u]
  BY GotoMoves DEF TypeOK, Unlock, Steps
<1>2. /\ sem' \in [Semaphors -> Int]
      /\ sem'["SHRD_VAR"] = sem["SHRD_VAR"] + 1
      /\ \A t \in Semaphors : t # "SHRD_VAR" => sem'[t] = sem[t]
  BY SemaphoreCalls DEF TypeOK, Unlock, Semaphors
<1>3. waiting' = waiting /\ bridge_cond' = bridge_cond
  BY DEF Unlock
<1>4. HoldsShared(v) /\ sem["SHRD_VAR"] = 0
  BY <1>1 DEF HoldsShared, TokensExact
<1>5. TypeOK'
  BY <1>1, <1>2, <1>3, <1>4 DEF TypeOK
<1>6. \A u \in Vehicles : /\ ~ HoldsShared(u)'
                          /\ HoldsBridge(u)' <=> HoldsBridge(u)
                          /\ HoldsTurn(u)' <=> HoldsTurn(u)
                          /\ Enrolled(u)' <=> Enrolled(u)
  BY <1>1, <1>4
  DEF MutualExclusion, HoldsShared, HoldsBridge, HoldsTurn, Enrolled
<1>7. TokensExact'
  <2>1. /\ sem'["SHRD_VAR"] = 1
        /\ sem'["BRIDGE"] = sem["BRIDGE"]
        /\ sem'["CAR"] = sem["CAR"]
        /\ sem'["SHIP"] = sem["SHIP"]
    BY <1>2, <1>4 DEF Semaphors
  <2>2. QED
    BY <1>6, <2>1 DEF TokensExact
<1>8. MutualExclusion'
  BY <1>6 DEF MutualExclusion
<1>9. SpanMatchesTraffic'
  BY <1>2, <1>3, <1>6 DEF SpanMatchesTraffic, Semaphors
<1>10. WaitingCountsExact'
  BY <1>3, <1>6, SameEnrolled
<1>11. ShipTurnIsUsed'
  BY <1>1, <1>2, SameQueue DEF Semaphors
<1>12. (MainKeepsCount /\ RemovedOnlyAfterAll)'
  BY VehicleKeepsMain DEF Unlock, Steps
<1>13. QED
  BY <1>5, <1>7, <1>8, <1>9, <1>10, <1>11, <1>12

LEMMA LeaveStep ==
  ASSUME IInv, NEW v \in Vehicles, Leave(v), UNCHANGED <<main, index>>
  PROVE  IInv'
<1> USE DEF IInv
<1>1. /\ pc' \in [Vehicles -> Steps]
      /\ pc[v] = "leave" /\ pc'[v] = "exited"
      /\ \A u \in Vehicles : u # v => pc'[u] = pc[u]
  BY GotoMoves DEF TypeOK, Leave, Steps
<1>2. /\ sem' \in [Semaphors -> Int]
      /\ sem'["BRIDGE"] = sem["BRIDGE"] + 1
      /\ \A t \in Semaphors : t # "BRIDGE" => sem'[t] = sem[t]
  BY SemaphoreCalls DEF TypeOK, Leave, Semaphors
<1>3. waiting' = waiting /\ bridge_cond' = bridge_cond
  BY DEF Leave
<1>4. HoldsBridge(v) /\ sem["BRIDGE"] = 0
  BY <1>1 DEF HoldsBridge, TokensExact
<1>5. TypeOK'
  BY <1>1, <1>2, <1>3, <1>4 DEF TypeOK
<1>6. \A u \in Vehicles : /\ HoldsShared(u)' <=> HoldsShared(u)
                          /\ ~ HoldsBridge(u)'
                          /\ HoldsTurn(u)' <=> HoldsTurn(u)
                          /\ Enrolled(u)' <=> Enrolled(u)
  BY <1>1, <1>4
  DEF MutualExclusion, HoldsShared, HoldsBridge, HoldsTurn, Enrolled
<1>7. TokensExact'
  <2>1. /\ sem'["BRIDGE"] = 1
        /\ sem'["SHRD_VAR"] = sem["SHRD_VAR"]
        /\ sem'["CAR"] = sem["CAR"]
        /\ sem'["SHIP"] = sem["SHIP"]
    BY <1>2, <1>4 DEF Semaphors
  <2>2. QED
    BY <1>6, <2>1 DEF TokensExact
<1>8. MutualExclusion'
  BY <1>6 DEF MutualExclusion
<1>9. SpanMatchesTraffic'
  BY <1>2, <1>3, <1>6 DEF SpanMatchesTraffic, Semaphors
<1>10. WaitingCountsExact'
  BY <1>3, <1>6, SameEnrolled
<1>11. ShipTurnIsUsed'
  BY <1>1, <1>2, SameQueue DEF Semaphors
<1>12. (MainKeepsCount /\ RemovedOnlyAfterAll)'
  BY VehicleKeepsMain DEF Leave, Steps
<1>13. QED
  BY <1>5, <1>7, <1>8, <1>9, <1>10, <1>11, <1>12

-----------------------------------------------------------------------------
(* main's steps move a vehicle only between steps in which it holds        *)
(* nothing, and leave the IPC objects alone.                               *)
LEMMA MainKeepsTraffic ==
  ASSUME IInv,
         UNCHANGED <<sem, waiting, bridge_cond>>,
         pc' \in [Vehicles -> Steps],
         \A u \in Vehicles :
           \/ pc'[u] = pc[u]
           \/ pc[u] = "unborn" /\ pc'[u] = "arrive"
           \/ pc[u] = "exited" /\ pc'[u] = "reaped"
  PROVE  /\ TokensExact'
         /\ MutualExclusion'
         /\ SpanMatchesTraffic'
         /\ WaitingCountsExact'
         /\ ShipTurnIsUsed'
<1> USE DEF IInv
<1>1. \A u \in Vehicles : /\ HoldsShared(u)' <=> HoldsShared(u)
                          /\ HoldsBridge(u)' <=> HoldsBridge(u)
                          /\ HoldsTurn(u)' <=> HoldsTurn(u)
                          /\ Enrolled(u)' <=> Enrolled(u)
                          /\ pc[u] = "queue" => pc'[u] = "queue"
  BY DEF HoldsShared, HoldsBridge, HoldsTurn, Enrolled
<1>2. TokensExact'
  BY <1>1 DEF TokensExact
<1>3. MutualExclusion'
  BY <1>1 DEF MutualExclusion
<1>4. SpanMatchesTraffic'
  BY <1>1 DEF SpanMatchesTraffic
<1>5. WaitingCountsExact'
  BY <1>1, SameEnrolled
<1>6. ShipTurnIsUsed'
  BY <1>1, SameQueue
<1>7. QED
  BY <1>2, <1>3, <1>4, <1>5, <1>6

LEMMA MainStep ==
  ASSUME IInv, Main \/ ForkFails
  PROVE  IInv'
<1> USE DEF IInv
<1>1. CASE Fork
  <2>1. index \in Vehicles /\ index \in Nat
    BY <1>1, VehiclesFinite DEF Fork, MoreVehicles, TypeOK, Vehicles
  <2>2. /\ pc' \in [Vehicles -> Steps]
        /\ pc[index] = "unborn" /\ pc'[index] = "arrive"
        /\ \A u \in Vehicles : u # index => pc'[u] = pc[u]
    BY <1>1, <2>1 DEF Fork, TypeOK, MainKeepsCount, Steps
  <2>3. TypeOK'
    BY <1>1, <2>1, <2>2, VehiclesFinite DEF Fork, MoreVehicles, TypeOK
  <2>4. MainKeepsCount' /\ RemovedOnlyAfterAll'
    <3>1. \A u \in Vehicles : pc'[u] = "unborn" <=> u >= index + 1
      BY <1>1, <2>1, <2>2 DEF Fork, MainKeepsCount, Vehicles
    <3>2. \A u \in Vehicles : pc'[u] # "reaped"
      BY <1>1, <2>2 DEF Fork, MainKeepsCount
    <3>3. QED
      BY <1>1, <3>1, <3>2 DEF Fork, MainKeepsCount, RemovedOnlyAfterAll
  <2>5. QED
    BY <1>1, <2>2, <2>3, <2>4, MainKeepsTraffic DEF Fork
<1>2. CASE AllForked
  <2>1. \A v \in Vehicles : pc[v] # "unborn" /\ pc[v] # "reaped"
    BY <1>2, VehiclesFinite DEF AllForked, MainKeepsCount, Vehicles
  <2>2. {v \in Vehicles : pc[v] = "reaped"} = {}
    BY <2>1
  <2>3. MainKeepsCount' /\ RemovedOnlyAfterAll'
    BY <1>2, <2>1, <2>2, FS_EmptySet
    DEF AllForked, MainKeepsCount, RemovedOnlyAfterAll
  <2>4. TypeOK'
    BY <1>2, VehiclesFinite DEF AllForked, TypeOK
  <2>5. QED
    BY <1>2, <2>3, <2>4, MainKeepsTraffic DEF AllForked, TypeOK
<1>3. CASE Wait
  <2>1. PICK v \in Vehicles : Goto(v, "exited", "reaped")
    BY <1>3 DEF Wait
  <2>2. /\ pc' \in [Vehicles -> Steps]
        /\ pc[v] = "exited" /\ pc'[v] = "reaped"
        /\ \A u \in Vehicles : u # v => pc'[u] = pc[u]
    BY <2>1, GotoMoves DEF TypeOK, Steps
  <2>3. TypeOK'
    BY <1>3, <2>2, VehiclesFinite DEF Wait, MoreVehicles, TypeOK
  <2>4. MainKeepsCount' /\ RemovedOnlyAfterAll'
    <3> DEFINE R == {u \in Vehicles : pc[u] = "reaped"}
               RR == {u \in Vehicles : pc'[u] = "reaped"}
    <3>1. v \notin R /\ RR = R \cup {v}
      BY <2>2
    <3>2. Cardinality(RR) = Cardinality(R) + 1
      BY <3>1, CountSubset
    <3>3. index' = Cardinality(RR)
      BY <1>3, <3>2 DEF Wait, MainKeepsCount
    <3>4. \A u \in Vehicles : pc'[u] # "unborn"
      BY <1>3, <2>2 DEF Wait, MainKeepsCount
    <3>5. QED
      BY <1>3, <3>3, <3>4 DEF Wait, MainKeepsCount, RemovedOnlyAfterAll
  <2>5. QED
    BY <1>3, <2>2, <2>3, <2>4, MainKeepsTraffic DEF Wait
<1>4. CASE Remove
  <2>1. Cardinality({v \in Vehicles : pc[v] = "reaped"}) = NumOfVehicles
    BY <1>4 DEF Remove, MainKeepsCount
  <2>2. {v \in Vehicles : pc[v] = "reaped"} = Vehicles
    BY <2>1, VehiclesFinite, FS_Subset
  <2>3. \A v \in Vehicles : pc[v] = "reaped"
    BY <2>2
  <2>4. MainKeepsCount' /\ RemovedOnlyAfterAll'
    BY <1>4, <2>3 DEF Remove, MainKeepsCount, RemovedOnlyAfterAll
  <2>5. TypeOK'
    BY <1>4 DEF Remove, TypeOK
  <2>6. QED
    BY <1>4, <2>4, <2>5, MainKeepsTraffic DEF Remove, TypeOK
<1>5. CASE ForkFails
  <2>1. TypeOK'
    BY <1>5 DEF ForkFails, TypeOK
  <2>2. MainKeepsCount' /\ RemovedOnlyAfterAll'
    BY <1>5 DEF ForkFails, MainKeepsCount, RemovedOnlyAfterAll
  <2>3. QED
    BY <1>5, <2>1, <2>2, MainKeepsTraffic DEF ForkFails, TypeOK
<1>6. QED
  BY <1>1, <1>2, <1>3, <1>4, <1>5 DEF Main

-----------------------------------------------------------------------------
LEMMA InitEstablishes == Init => IInv
<1> SUFFICES ASSUME Init PROVE IInv
  OBVIOUS
<1> USE DEF Init
<1>1. TypeOK
  BY VehiclesFinite DEF TypeOK, Semaphors, Steps
<1>2. \A v \in Vehicles : /\ pc[v] = "unborn"
                          /\ ~ HoldsShared(v) /\ ~ HoldsBridge(v)
                          /\ ~ HoldsTurn(v) /\ ~ Enrolled(v)
  BY DEF HoldsShared, HoldsBridge, HoldsTurn, Enrolled
<1>3. TokensExact /\ MutualExclusion
  BY <1>2 DEF TokensExact, MutualExclusion
<1>4. SpanMatchesTraffic /\ ShipTurnIsUsed
  BY <1>2 DEF SpanMatchesTraffic, ShipTurnIsUsed
<1>5. WaitingCountsExact
  <2>1. \A k : {v \in Vehicles : Kind(v) = k /\ Enrolled(v)} = {}
    BY <1>2
  <2>2. QED
    BY <2>1, FS_EmptySet DEF WaitingCountsExact
<1>6. MainKeepsCount /\ RemovedOnlyAfterAll
  BY DEF MainKeepsCount, RemovedOnlyAfterAll, Vehicles
<1>7. QED
  BY <1>1, <1>3, <1>4, <1>5, <1>6 DEF IInv

LEMMA VehicleStep ==
  ASSUME IInv, NEW v \in Vehicles, Car_method(v) \/ Ship_method(v)
  PROVE  IInv'
<1>1. Method(v)
  BY DEF Car_method, Ship_method
<1>2. UNCHANGED <<main, index>>
  BY <1>1 DEF Method
<1>3. QED
  BY <1>1, <1>2, ArriveStep, EnrollStep, QueueStep, EnterStep, CrossStep,
     DecideStep, UnlockStep, LeaveStep DEF Method

LEMMA NextPreserves == IInv /\ [Next]_vars => IInv'
<1> SUFFICES ASSUME IInv, [Next]_vars PROVE IInv'
  OBVIOUS
<1>1. CASE \E v \in Vehicles : Car_method(v) \/ Ship_method(v)
  BY <1>1, VehicleStep
<1>2. CASE Main \/ ForkFails
  BY <1>2, MainStep
<1>3. CASE UNCHANGED vars
  <2> USE <1>3 DEF vars
  <2>1. TypeOK'
    BY DEF IInv, TypeOK
  <2>2. MainKeepsCount' /\ RemovedOnlyAfterAll'
    BY DEF IInv, MainKeepsCount, RemovedOnlyAfterAll
  <2>3. QED
    BY <2>1, <2>2, MainKeepsTraffic DEF IInv, TypeOK
<1>4. QED
  BY <1>1, <1>2, <1>3 DEF Next

(* In every reachable state of every run the inductive invariant holds.    *)
THEOREM Invariance == Spec => []IInv
<1>1. QED
  BY InitEstablishes, NextPreserves, PTL DEF Spec

(* Every variable keeps its type: in particular every semaphore stays      *)
(* binary and no counter of waiting vehicles is decremented at zero.       *)
THEOREM TypeCorrect == Spec => []TypeOK
<1>1. IInv => TypeOK
  BY DEF IInv
<1>2. QED
  BY <1>1, Invariance, PTL

(* Shared data, bridge and turn are each held by one vehicle at a time.    *)
THEOREM Exclusion == Spec => []MutualExclusion
<1>1. IInv => MutualExclusion
  BY DEF IInv
<1>2. QED
  BY <1>1, Invariance, PTL

(* No car drives over a raised bridge, no ship meets a lowered one.        *)
THEOREM SpanSafe == Spec => []SpanMatchesTraffic
<1>1. IInv => SpanMatchesTraffic
  BY DEF IInv
<1>2. QED
  BY <1>1, Invariance, PTL

(* The counters the decisions are made on are exact.                       *)
THEOREM CountsExact == Spec => []WaitingCountsExact
<1>1. IInv => WaitingCountsExact
  BY DEF IInv
<1>2. QED
  BY <1>1, Invariance, PTL

(* Ships are given the turn only while one of them waits for it.           *)
THEOREM ShipTurnUsed == Spec => []ShipTurnIsUsed
<1>1. IInv => ShipTurnIsUsed
  BY DEF IInv
<1>2. QED
  BY <1>1, Invariance, PTL

(* main removes the IPC objects only when it has reaped every child.       *)
THEOREM RemovalIsLast == Spec => []RemovedOnlyAfterAll
<1>1. IInv => RemovedOnlyAfterAll
  BY DEF IInv
<1>2. QED
  BY <1>1, Invariance, PTL

(* When nothing moves any more, only ships are left behind, in their       *)
(* queue, and the turn is with the cars.                                   *)
THEOREM StandstillLeavesShips == Spec => []StandstillOnlyForShips
<1>1. ASSUME IInv, \A v \in Vehicles : Blocked(v) \/ Gone(v) \/ pc[v] = "unborn",
             NEW v \in Vehicles, Blocked(v)
      PROVE  ~ IsCar(v) /\ pc[v] = "queue" /\ sem["CAR"] = 1
  <2> USE <1>1 DEF IInv
  <2>1. \A u \in Vehicles : ~ HoldsShared(u)
    BY DEF Blocked, Gone, HoldsShared
  <2>2. sem["SHRD_VAR"] # 0
    BY <2>1 DEF TokensExact
  <2>3. \A u \in Vehicles : ~ HoldsBridge(u)
    BY <2>2 DEF Blocked, Gone, HoldsBridge
  <2>4. sem["BRIDGE"] # 0
    BY <2>3 DEF TokensExact
  <2>5. \A u \in Vehicles : Blocked(u) => pc[u] = "queue" /\ sem[Turn(u)] = 0
    BY <2>2, <2>4 DEF Blocked
  <2>6. \A u \in Vehicles : ~ HoldsTurn(u)
    BY <2>5 DEF Gone, HoldsTurn
  <2>7. sem["CAR"] + sem["SHIP"] = 1
    BY <2>6 DEF TokensExact, TypeOK, Semaphors
  <2>8. sem["SHIP"] = 0
    <3>1. SUFFICES ASSUME sem["SHIP"] = 1 PROVE FALSE
      BY DEF TypeOK, Semaphors
    <3>2. PICK u \in Vehicles : ~ IsCar(u) /\ pc[u] = "queue"
      BY <3>1 DEF ShipTurnIsUsed
    <3>3. Blocked(u)
      BY <3>2 DEF Gone
    <3>4. QED
      BY <2>5, <3>1, <3>2, <3>3 DEF Turn
  <2>9. sem["CAR"] = 1
    BY <2>7, <2>8 DEF TypeOK, Semaphors
  <2>10. QED
    BY <2>5, <2>9 DEF Turn
<1>2. ASSUME IInv, \A v \in Vehicles : Blocked(v) \/ Gone(v) \/ pc[v] = "unborn",
             main = "wait", MoreVehicles, \A v \in Vehicles : pc[v] # "exited"
      PROVE  \E v \in Vehicles : Blocked(v)
  <2>1. \A v \in Vehicles : pc[v] # "unborn"
    BY <1>2 DEF IInv, MainKeepsCount
  <2>2. SUFFICES ASSUME \A v \in Vehicles : pc[v] = "reaped" PROVE FALSE
    BY <1>2, <2>1 DEF Gone
  <2>3. {v \in Vehicles : pc[v] = "reaped"} = Vehicles
    BY <2>2
  <2>4. index = Cardinality(Vehicles)
    BY <1>2, <2>3 DEF IInv, MainKeepsCount
  <2>5. QED
    BY <1>2, <2>4, VehiclesFinite DEF MoreVehicles
<1>3. IInv => StandstillOnlyForShips
  BY <1>1, <1>2 DEF StandstillOnlyForShips
<1>4. QED
  BY <1>3, Invariance, PTL

(* Only a decision raises the turn, and the counters it is made on are the *)
(* numbers of those who wait.                                              *)
LEMMA DecisionFollowsQueues ==
  ASSUME IInv, IInv', NEW v \in Vehicles, Decide(v)
  PROVE  /\ sem["SHIP"] < sem'["SHIP"] =>
              /\ EnrolledShips' # {}
              /\ EnrolledCars' # {} => Cardinality(EnrolledShips') > MAX_NUM_OF_SHIPS
         /\ sem["CAR"] < sem'["CAR"] =>
              /\ Cardinality(EnrolledShips') <= MAX_NUM_OF_SHIPS
              /\ EnrolledCars' = {} => EnrolledShips' = {}
<1>1. /\ EnrolledShips' = {u \in Vehicles : Kind(u) = "ships" /\ Enrolled(u)'}
      /\ EnrolledCars' = {u \in Vehicles : Kind(u) = "cars" /\ Enrolled(u)'}
  BY DEF EnrolledShips, EnrolledCars, Kind
<1>2. /\ waiting'["ships"] = Cardinality(EnrolledShips')
      /\ waiting'["cars"] = Cardinality(EnrolledCars')
  BY <1>1 DEF IInv, WaitingCountsExact
<1>3. /\ waiting'["ships"] = 0 <=> EnrolledShips' = {}
      /\ waiting'["cars"] = 0 <=> EnrolledCars' = {}
      /\ waiting'["ships"] \in Nat
  <2>1. EnrolledShips' \subseteq Vehicles /\ EnrolledCars' \subseteq Vehicles
    BY <1>1
  <2>2. IsFiniteSet(EnrolledShips') /\ IsFiniteSet(EnrolledCars')
    BY <2>1, VehiclesFinite, FS_Subset
  <2>3. QED
    BY <1>2, <2>2, FS_EmptySet DEF IInv, TypeOK
<1>4. IF ShipsGoNext(waiting') THEN sem'["CAR"] = sem["CAR"]
                               ELSE sem'["SHIP"] = sem["SHIP"]
  BY SemaphoreCalls DEF Decide, IInv, TypeOK, Semaphors
<1>5. sem["SHIP"] \in 0 .. 1 /\ sem["CAR"] \in 0 .. 1
  BY DEF IInv, TypeOK, Semaphors
<1> DEFINE ships == waiting'["ships"]
           cars == waiting'["cars"]
<1>6. ships \in Nat /\ cars \in Nat /\ MAX_NUM_OF_SHIPS \in Nat
  BY <1>3, BridgeAssumption DEF IInv, TypeOK
<1>7. sem["SHIP"] < sem'["SHIP"] => /\ ships # 0
                                    /\ cars # 0 => ships > MAX_NUM_OF_SHIPS
  BY <1>4, <1>5, <1>6 DEF ShipsGoNext
<1>8. sem["CAR"] < sem'["CAR"] => /\ ships <= MAX_NUM_OF_SHIPS
                                  /\ cars = 0 => ships = 0
  BY <1>4, <1>5, <1>6 DEF ShipsGoNext
<1>9. QED
  BY <1>2, <1>3, <1>7, <1>8

(* Every turn is given by the queues as they really are: the counters are  *)
(* exact when they are read, and nobody enrols between the decision and    *)
(* the V_oper that follows from it.                                        *)
THEOREM TurnsAreRight == Spec => TurnFollowsQueues
<1> DEFINE Right ==
      /\ sem["SHIP"] < sem'["SHIP"] =>
           /\ EnrolledShips' # {}
           /\ EnrolledCars' # {} => Cardinality(EnrolledShips') > MAX_NUM_OF_SHIPS
      /\ sem["CAR"] < sem'["CAR"] =>
           /\ Cardinality(EnrolledShips') <= MAX_NUM_OF_SHIPS
           /\ EnrolledCars' = {} => EnrolledShips' = {}
<1>1. IInv /\ IInv' /\ [Next]_vars => [Right]_sem
  <2> SUFFICES ASSUME IInv, IInv', Next PROVE Right \/ sem' = sem
    BY DEF vars
  <2>1. ASSUME NEW v \in Vehicles, Method(v) PROVE Right
    <3>1. CASE Decide(v)
      BY <3>1, DecisionFollowsQueues
    <3>2. CASE ~ Decide(v)
      <4>1. sem'["SHIP"] <= sem["SHIP"] /\ sem'["CAR"] <= sem["CAR"]
        <5>1. Turn(v) \in {"CAR", "SHIP"}
          BY DEF Turn
        <5>2. QED
          BY <2>1, <3>2, <5>1, SemaphoreCalls
          DEF Method, Arrive, Enroll, Queue, Enter, Cross, Unlock, Leave, IInv,
              TypeOK, Semaphors
      <4>2. QED
        BY <4>1 DEF IInv, TypeOK, Semaphors
    <3>3. QED
      BY <3>1, <3>2
  <2>2. CASE Main \/ ForkFails
    BY <2>2 DEF Main, Fork, ForkFails, AllForked, Wait, Remove
  <2>3. QED
    BY <2>1, <2>2 DEF Next, Car_method, Ship_method
<1>2. QED
  BY <1>1, Invariance, PTL DEF Spec, TurnFollowsQueues

-----------------------------------------------------------------------------
(* The bridge implements the abstract crossing.                            *)
LEMMA InitRefines == Init => CrossingImpl!Init
BY DEF Init, CrossingImpl!Init, Gone

LEMMA VehicleRefines ==
  ASSUME IInv, NEW v \in Vehicles, Method(v)
  PROVE  [CrossingImpl!Next]_(CrossingImpl!vars)
<1> USE DEF IInv
<1> DEFINE P == {u \in Vehicles : pc[u] = "cross"}
           D == {u \in Vehicles : pc[u] \in {"decide", "unlock", "leave"} \/ Gone(u)}
<1> USE DEF CrossingImpl!vars
<1>1. CASE \/ Arrive(v) \/ Enroll(v) \/ Queue(v) \/ Unlock(v) \/ Leave(v)
  <2>1. /\ \A u \in Vehicles : u # v => pc'[u] = pc[u]
        /\ pc[v] # "cross" /\ pc'[v] # "cross"
        /\ (pc[v] \in {"decide", "unlock", "leave"} \/ Gone(v))
             <=> (pc'[v] \in {"decide", "unlock", "leave"} \/ Gone(v)')
    BY <1>1, GotoMoves
    DEF Arrive, Enroll, Queue, Unlock, Leave, TypeOK, Steps, Gone
  <2>2. P' = P /\ D' = D
    BY <2>1 DEF Gone
  <2>3. bridge_cond' = bridge_cond
    BY <1>1 DEF Arrive, Enroll, Queue, Unlock, Leave
  <2>4. QED
    BY <2>2, <2>3
<1>2. CASE Enter(v)
  <2>1. /\ \A u \in Vehicles : u # v => pc'[u] = pc[u]
        /\ pc[v] = "enter" /\ pc'[v] = "cross"
    BY <1>2, GotoMoves DEF Enter, TypeOK, Steps
  <2>2. \A u \in Vehicles : ~ HoldsBridge(u)
    BY <1>2 DEF Enter, P_oper, TokensExact
  <2>3. P = {} /\ P' = {v} /\ D' = D /\ v \notin D
    BY <2>1, <2>2 DEF HoldsBridge, Gone
  <2>4. bridge_cond = IF IsCar(v) THEN "CLOSE" ELSE "OPEN"
    BY <2>1 DEF SpanMatchesTraffic, HoldsTurn
  <2>5. CrossingImpl!Enter(v)
    BY <1>2, <2>3, <2>4 DEF CrossingImpl!Enter, Enter
  <2>6. QED
    BY <2>5 DEF CrossingImpl!Next, CrossingImpl!Vehicles
<1>3. CASE Cross(v)
  <2>1. /\ \A u \in Vehicles : u # v => pc'[u] = pc[u]
        /\ pc[v] = "cross" /\ pc'[v] = "decide"
    BY <1>3, GotoMoves DEF Cross, TypeOK, Steps
  <2>2. v \in P /\ P' = P \ {v} /\ D' = D \cup {v}
    BY <2>1 DEF Gone
  <2>3. CrossingImpl!Leave(v)
    BY <1>3, <2>2 DEF CrossingImpl!Leave, Cross
  <2>4. QED
    BY <2>3 DEF CrossingImpl!Next, CrossingImpl!Vehicles
<1>4. CASE Decide(v)
  <2>1. /\ \A u \in Vehicles : u # v => pc'[u] = pc[u]
        /\ pc[v] = "decide" /\ pc'[v] = "unlock"
    BY <1>4, GotoMoves DEF Decide, TypeOK, Steps
  <2>2. P = {}
    BY <2>1 DEF MutualExclusion, HoldsBridge
  <2>3. P' = P /\ D' = D
    BY <2>1 DEF Gone
  <2>4. bridge_cond' \in {"CLOSE", "OPEN"}
    BY <1>4 DEF Decide, SpanFor
  <2>5. CASE bridge_cond' = bridge_cond
    BY <2>3, <2>5
  <2>6. CASE bridge_cond' # bridge_cond
    <3>1. CrossingImpl!MoveSpan
      BY <2>2, <2>3, <2>4, <2>6 DEF CrossingImpl!MoveSpan
    <3>2. QED
      BY <3>1 DEF CrossingImpl!Next
  <2>7. QED
    BY <2>5, <2>6
<1>5. QED
  BY <1>1, <1>2, <1>3, <1>4 DEF Method

LEMMA MainRefines ==
  ASSUME IInv, Main \/ ForkFails
  PROVE  UNCHANGED CrossingImpl!vars
<1> USE DEF IInv
<1>1. \A u \in Vehicles :
        \/ pc'[u] = pc[u]
        \/ pc[u] = "unborn" /\ pc'[u] = "arrive"
        \/ pc[u] = "exited" /\ pc'[u] = "reaped"
  <2>1. CASE Fork
    <3>1. index \in Vehicles
      BY <2>1, VehiclesFinite DEF Fork, MoreVehicles, TypeOK, Vehicles
    <3>2. pc[index] = "unborn"
      BY <2>1, <3>1 DEF Fork, MainKeepsCount, TypeOK
    <3>3. QED
      BY <2>1, <3>1, <3>2 DEF Fork, TypeOK
  <2>2. CASE Wait
    BY <2>2, GotoMoves DEF Wait, TypeOK, Steps
  <2>3. CASE AllForked \/ Remove \/ ForkFails
    BY <2>3 DEF AllForked, Remove, ForkFails
  <2>4. QED
    BY <2>1, <2>2, <2>3 DEF Main
<1>2. bridge_cond' = bridge_cond
  BY DEF Main, Fork, AllForked, Wait, Remove, ForkFails
<1>3. QED
  BY <1>1, <1>2 DEF CrossingImpl!vars, Gone

(* For every number of vehicles, the program implements Crossing: vehicles *)
(* pass one at a time, once each, with the span where they need it, and    *)
(* the span moves only while nothing passes.                               *)
THEOREM Refinement == Spec => ImplementsCrossing
<1>1. IInv /\ [Next]_vars => [CrossingImpl!Next]_(CrossingImpl!vars)
  <2> SUFFICES ASSUME IInv, [Next]_vars
               PROVE  [CrossingImpl!Next]_(CrossingImpl!vars)
    OBVIOUS
  <2>1. CASE \E v \in Vehicles : Car_method(v) \/ Ship_method(v)
    BY <2>1, VehicleRefines DEF Car_method, Ship_method
  <2>2. CASE Main \/ ForkFails
    BY <2>2, MainRefines
  <2>3. CASE UNCHANGED vars
    BY <2>3 DEF vars, CrossingImpl!vars, Gone
  <2>4. QED
    BY <2>1, <2>2, <2>3 DEF Next
<1>2. QED
  BY <1>1, InitRefines, Invariance, PTL
  DEF Spec, ImplementsCrossing, CrossingImpl!Spec

-----------------------------------------------------------------------------
(* What is left to do is a number, and after one of pc's steps it is less. *)
LEMMA LeftOf ==
  ASSUME IInv
  PROVE  MainLeft \in Nat /\ \A v \in Vehicles : VehicleLeft(v) \in Nat
<1>1. /\ index \in Nat /\ index <= NumOfVehicles /\ NumOfVehicles \in Nat
      /\ main \in {"fork", "failed", "wait", "end"}
  BY VehiclesFinite DEF IInv, TypeOK
<1>2. MainLeft \in Nat
  BY <1>1 DEF MainLeft
<1>3. ASSUME NEW v \in Vehicles PROVE VehicleLeft(v) \in Nat
  <2>1. pc[v] \in Steps
    BY DEF IInv, TypeOK
  <2>2. QED
    BY <2>1 DEF Steps, VehicleLeft
<1>4. QED
  BY <1>2, <1>3

LEMMA MethodDescends ==
  ASSUME IInv, NEW v \in Vehicles, Method(v)
  PROVE  /\ VehicleLeft(v)' < VehicleLeft(v)
         /\ \A u \in Vehicles \ {v} : VehicleLeft(u)' = VehicleLeft(u)
<1>1. /\ \/ pc[v] = "arrive" /\ pc'[v] = "enroll"
         \/ pc[v] = "enroll" /\ pc'[v] = "queue"
         \/ pc[v] = "queue" /\ pc'[v] = "enter"
         \/ pc[v] = "enter" /\ pc'[v] = "cross"
         \/ pc[v] = "cross" /\ pc'[v] = "decide"
         \/ pc[v] = "decide" /\ pc'[v] = "unlock"
         \/ pc[v] = "unlock" /\ pc'[v] = "leave"
         \/ pc[v] = "leave" /\ pc'[v] = "exited"
      /\ \A u \in Vehicles : u # v => pc'[u] = pc[u]
  BY DEF Method, Arrive, Enroll, Queue, Enter, Cross, Decide, Unlock, Leave,
         Goto, IInv, TypeOK
<1>2. VehicleLeft(v)' < VehicleLeft(v)
  BY <1>1 DEF VehicleLeft
<1>3. \A u \in Vehicles \ {v} : VehicleLeft(u)' = VehicleLeft(u)
  BY <1>1 DEF VehicleLeft
<1>4. QED
  BY <1>2, <1>3

(* For any number of cars and ships: every step brings a vehicle or main   *)
(* nearer to its end and nobody away from it (StepsGetOn), and what is     *)
(* left to do is a number, so that the steps of an execution run out.      *)
THEOREM StepsRunOut ==
  Spec => /\ StepsGetOn
          /\ [](MainLeft \in Nat /\ \A v \in Vehicles : VehicleLeft(v) \in Nat)
<1>1. IInv /\ [Next]_vars => [StepGetsOn]_vars
  <2> SUFFICES ASSUME IInv, Next PROVE StepGetsOn
    OBVIOUS
  <2>1. ASSUME NEW v \in Vehicles, Car_method(v) \/ Ship_method(v) PROVE StepGetsOn
    <3>1. Method(v)
      BY <2>1 DEF Car_method, Ship_method
    <3>2. UNCHANGED <<main, index>>
      BY <3>1 DEF Method
    <3>3. QED
      BY <3>1, <3>2, MethodDescends DEF StepGetsOn
  <2>2. CASE Main \/ ForkFails
    <3>1. /\ index \in Nat /\ NumOfVehicles \in Nat /\ index <= NumOfVehicles
          /\ MoreVehicles => index < NumOfVehicles
      BY VehiclesFinite DEF IInv, TypeOK, MoreVehicles
    <3>2. MainLeft' < MainLeft
      BY <2>2, <3>1 DEF Main, Fork, ForkFails, AllForked, Wait, Remove, MainLeft
    <3>3. ASSUME NEW u \in Vehicles PROVE VehicleLeft(u)' <= VehicleLeft(u)
      <4>1. \/ pc'[u] = pc[u]
            \/ pc[u] = "unborn" /\ pc'[u] = "arrive"
            \/ pc[u] = "exited" /\ pc'[u] = "reaped"
        <5>1. CASE Fork
          <6>1. u = index => pc[u] = "unborn"
            BY <5>1 DEF Fork, IInv, TypeOK, MainKeepsCount
          <6>2. QED
            BY <5>1, <6>1 DEF Fork, IInv, TypeOK
        <5>2. CASE Wait
          BY <5>2 DEF Wait, Goto, IInv, TypeOK
        <5>3. CASE AllForked \/ Remove \/ ForkFails
          BY <5>3 DEF AllForked, Remove, ForkFails
        <5>4. QED
          BY <2>2, <5>1, <5>2, <5>3 DEF Main
      <4>2. CASE pc'[u] = pc[u]
        <5>1. VehicleLeft(u)' = VehicleLeft(u)
          BY <4>2 DEF VehicleLeft
        <5>2. QED
          BY <5>1, LeftOf
      <4>3. CASE pc'[u] # pc[u]
        BY <4>1, <4>3 DEF VehicleLeft
      <4>4. QED
        BY <4>2, <4>3
    <3>4. QED
      BY <3>2, <3>3 DEF StepGetsOn
  <2>3. QED
    BY <2>1, <2>2 DEF Next
<1>2. IInv => MainLeft \in Nat /\ \A v \in Vehicles : VehicleLeft(v) \in Nat
  BY LeftOf
<1>3. QED
  BY <1>1, <1>2, Invariance, PTL DEF Spec, StepsGetOn
=============================================================================
