------------------------------ MODULE ThreadsProofs ------------------------------
(* Proofs about Threads, for every number of threads and of ones: the      *)
(* invariant, and what main prints.  The ones added are a set, and the     *)
(* counter is compared with its cardinality.                               *)
EXTENDS Threads, FiniteSetTheorems, TLAPS

Q == expctd_val \div num_of_threads
R == expctd_val % num_of_threads

LEMMA Division ==
  ASSUME TypeOK
  PROVE  /\ num_of_threads \in Nat \ {0} /\ expctd_val \in Nat
         /\ num_of_threads <= MAX_THREADS /\ expctd_val <= MAX_EXPECTED
         /\ Q \in Nat /\ R \in Nat /\ R < num_of_threads
         /\ expctd_val = num_of_threads * Q + R
<1>1. /\ num_of_threads \in Nat \ {0} /\ expctd_val \in Nat
      /\ num_of_threads <= MAX_THREADS /\ expctd_val <= MAX_EXPECTED
  BY ThreadsAssumption DEF TypeOK, ThreadsAssumption, All
<1>2. ASSUME NEW n \in Nat, NEW d \in Nat \ {0}
      PROVE  /\ n \div d \in Nat /\ n % d \in Nat /\ n % d < d
             /\ n = d * (n \div d) + (n % d)
  <2>1. n % d \in 0 .. d - 1
    OBVIOUS
  <2>2. n = d * (n \div d) + (n % d)
    OBVIOUS
  <2>3. n \div d \in Nat
    OBVIOUS
  <2>4. QED
    BY <2>1, <2>2, <2>3
<1>3. QED
  BY <1>1, <1>2 DEF Q, R

(* q <= n * q, and the shares add up.                                      *)
LEMMA Multiples ==
  ASSUME NEW n \in Nat \ {0}, NEW q \in Nat
  PROVE  /\ n * q \in Nat /\ q <= n * q
         /\ (n - 1) * q + q = n * q
         /\ q = 0 => n * q = 0
         /\ q = 1 => n * q = n
         /\ q > 0 => n <= n * q
         /\ n = 1 => n * q = q
  OBVIOUS

LEMMA ParamNat ==
  ASSUME TypeOK, NEW t \in Threads
  PROVE  /\ Param(t) \in Nat /\ Param(t) <= expctd_val
         /\ Param(t) = IF t = 1 THEN Q + R ELSE Q
<1>1. Param(t) = Q + IF t = 1 THEN R ELSE 0
  BY DEF Param, Q, R
<1>2. Q <= num_of_threads * Q /\ num_of_threads * Q \in Nat
  BY Division, Multiples
<1>3. QED
  BY <1>1, <1>2, Division

LEMMA ThreadsFinite ==
  ASSUME TypeOK
  PROVE  Threads \subseteq All /\ 1 \in Threads /\ Threads \subseteq Nat \ {0}
<1>1. num_of_threads \in Nat \ {0} /\ num_of_threads <= MAX_THREADS /\ MAX_THREADS \in Nat
  BY Division, ThreadsAssumption DEF ThreadsAssumption
<1>2. QED
  BY <1>1 DEF Threads, All

LEMMA OnesFinite == IsFiniteSet(Ones) /\ Cardinality(Ones) \in Nat
<1>1. IsFiniteSet(All) /\ IsFiniteSet(1 .. MAX_EXPECTED)
  BY ThreadsAssumption, FS_Interval DEF ThreadsAssumption, All
<1>2. IsFiniteSet(All \X (1 .. MAX_EXPECTED))
  BY <1>1, FS_Product
<1>3. Ones \subseteq All \X (1 .. MAX_EXPECTED)
  BY DEF Ones
<1>4. QED
  BY <1>2, <1>3, FS_Subset, FS_CardinalityType

LEMMA Column ==
  ASSUME NEW x, NEW T, IsFiniteSet(T)
  PROVE  IsFiniteSet({x} \X T) /\ Cardinality({x} \X T) = Cardinality(T)
<1>1. IsFiniteSet({x}) /\ Cardinality({x}) = 1
  BY FS_Singleton
<1>2. IsFiniteSet({x} \X T) /\ Cardinality({x} \X T) = Cardinality({x}) * Cardinality(T)
  BY <1>1, FS_Product
<1>3. Cardinality(T) \in Nat
  BY FS_CardinalityType
<1>4. 1 * Cardinality(T) = Cardinality(T)
  BY <1>3
<1>5. QED
  BY <1>1, <1>2, <1>4

LEMMA Interval ==
  ASSUME NEW m \in Nat, NEW n \in Nat
  PROVE  IsFiniteSet((m + 1) .. (m + n)) /\ Cardinality((m + 1) .. (m + n)) = n
<1> DEFINE a == m + 1
           b == m + n
<1>1. a \in Int /\ b \in Int /\ (IF a > b THEN 0 ELSE b - a + 1) = n
  OBVIOUS
<1> HIDE DEF a, b
<1>2. IsFiniteSet(a .. b) /\ Cardinality(a .. b) = n
  BY <1>1, FS_Interval
<1>3. QED
  BY <1>2 DEF a, b

(* An addition of a by thread t puts a new elements into Ones.             *)
LEMMA OnesGrow ==
  ASSUME TypeOK, NEW t \in Threads, NEW a \in Nat, added[t] + a <= MAX_EXPECTED,
         added' = [added EXCEPT ![t] = @ + a], UNCHANGED num_of_threads
  PROVE  Cardinality(Ones') = Cardinality(Ones) + a
<1> DEFINE I == (added[t] + 1) .. (added[t] + a)
           New == {t} \X I
<1>1. t \in All /\ added[t] \in Nat
  BY ThreadsFinite DEF TypeOK
<1>2. Threads' = Threads
  BY DEF Threads
<1>3. added'[t] = added[t] + a /\ \A u \in All : u # t => added'[u] = added[u]
  BY <1>1 DEF TypeOK
<1>4. I \subseteq 1 .. MAX_EXPECTED
  BY <1>1, ThreadsAssumption DEF ThreadsAssumption
<1>5. ASSUME NEW o \in All \X (1 .. MAX_EXPECTED)
      PROVE  o \in Ones' <=> o \in Ones \/ o \in New
  <2>1. o[1] \in All /\ o[2] \in Nat /\ o[2] >= 1 /\ o = <<o[1], o[2]>>
    BY ThreadsAssumption DEF ThreadsAssumption
  <2>2. o \in New <=> o[1] = t /\ o[2] \in I
    BY <2>1
  <2>3. o \in Ones <=> o[1] \in Threads /\ o[2] <= added[o[1]]
    BY DEF Ones
  <2>4. o \in Ones' <=> o[1] \in Threads /\ o[2] <= added'[o[1]]
    BY <1>2 DEF Ones
  <2>5. CASE o[1] = t
    BY <1>1, <1>3, <2>1, <2>2, <2>3, <2>4, <2>5
  <2>6. CASE o[1] # t
    BY <1>3, <2>1, <2>2, <2>3, <2>4, <2>6
  <2>7. QED
    BY <2>5, <2>6
<1>6. New \subseteq All \X (1 .. MAX_EXPECTED)
  BY <1>1, <1>4
<1>7. Ones' = Ones \union New
  BY <1>5, <1>6 DEF Ones
<1>8. Ones \intersect New = {}
  BY <1>1 DEF Ones
<1>9. IsFiniteSet(I) /\ Cardinality(I) = a
  BY <1>1, Interval
<1>10. IsFiniteSet(New) /\ Cardinality(New) = a
  <2> HIDE DEF I
  <2>1. QED
    BY <1>9, Column
<1>11. Cardinality({}) = 0
  BY FS_EmptySet
<1> HIDE DEF New
<1>12. Cardinality(Ones \union New) =
         Cardinality(Ones) + Cardinality(New) - Cardinality(Ones \intersect New)
  BY <1>10, OnesFinite, FS_Union
<1>13. Cardinality(Ones') = Cardinality(Ones) + a - 0
  BY <1>7, <1>8, <1>10, <1>11, <1>12, Zenon
<1>14. QED
  BY <1>13, OnesFinite

(* When every thread has added its share there are expctd_val of them.     *)
LEMMA OnesTotal ==
  ASSUME TypeOK, \A t \in Threads : added[t] = Param(t)
  PROVE  Cardinality(Ones) = expctd_val
<1> DEFINE First == {1} \X (1 .. (Q + R))
           Others == (2 .. num_of_threads) \X (1 .. Q)
<1>1. /\ Q \in Nat /\ R \in Nat /\ num_of_threads \in Nat \ {0}
      /\ num_of_threads <= MAX_THREADS /\ MAX_THREADS \in Nat /\ MAX_EXPECTED \in Nat
      /\ expctd_val = num_of_threads * Q + R /\ expctd_val <= MAX_EXPECTED
  BY Division, ThreadsAssumption DEF ThreadsAssumption
<1>2. Q + R <= MAX_EXPECTED /\ Q <= MAX_EXPECTED
  BY <1>1, Multiples
<1>3. ASSUME NEW o \in All \X (1 .. MAX_EXPECTED)
      PROVE  o \in Ones <=> o \in First \/ o \in Others
  <2>1. o[1] \in Nat /\ o[1] >= 1 /\ o[2] \in Nat /\ o[2] >= 1 /\ o = <<o[1], o[2]>>
    BY <1>1 DEF All
  <2>2. o \in Ones <=> o[1] \in Threads /\ o[2] <= Param(o[1])
    BY DEF Ones
  <2>3. o[1] \in Threads <=> o[1] <= num_of_threads
    BY <1>1, <2>1 DEF Threads
  <2>4. o \in First <=> o[1] = 1 /\ o[2] <= Q + R
    BY <1>1, <2>1
  <2>5. o \in Others <=> o[1] # 1 /\ o[1] <= num_of_threads /\ o[2] <= Q
    BY <1>1, <2>1
  <2>6. o[1] \in Threads => Param(o[1]) = IF o[1] = 1 THEN Q + R ELSE Q
    BY ParamNat
  <2>7. QED
    BY <1>1, <2>1, <2>2, <2>3, <2>4, <2>5, <2>6
<1>4. First \subseteq All \X (1 .. MAX_EXPECTED)
  BY <1>1, <1>2 DEF All
<1>5. Others \subseteq All \X (1 .. MAX_EXPECTED)
  BY <1>1, <1>2 DEF All
<1>6. Ones = First \union Others
  BY <1>3, <1>4, <1>5 DEF Ones
<1>7. First \intersect Others = {}
  BY <1>1
<1>8. IsFiniteSet(First) /\ Cardinality(First) = Q + R
  <2> DEFINE T == 1 .. (Q + R)
  <2>1. T = (0 + 1) .. (0 + (Q + R)) /\ Q + R \in Nat
    BY <1>1
  <2>2. IsFiniteSet(T) /\ Cardinality(T) = Q + R
    BY <2>1, Interval
  <2> HIDE DEF T
  <2>3. IsFiniteSet({1} \X T) /\ Cardinality({1} \X T) = Q + R
    BY <2>2, Column
  <2>4. QED
    BY <2>3 DEF T
<1>9. IsFiniteSet(Others) /\ Cardinality(Others) = (num_of_threads - 1) * Q
  <2>1. IsFiniteSet(1 .. Q) /\ Cardinality(1 .. Q) = Q
    BY <1>1, FS_Interval
  <2>2. IsFiniteSet(2 .. num_of_threads) /\ Cardinality(2 .. num_of_threads) = num_of_threads - 1
    BY <1>1, FS_Interval
  <2>3. QED
    BY <2>1, <2>2, FS_Product
<1>10. Cardinality({}) = 0
  BY FS_EmptySet
<1> HIDE DEF First, Others
<1>11. (num_of_threads - 1) * Q + Q = num_of_threads * Q /\ (num_of_threads - 1) * Q \in Nat
  BY <1>1, Multiples
<1>12. Cardinality(First \union Others) =
         Cardinality(First) + Cardinality(Others) - Cardinality(First \intersect Others)
  BY <1>8, <1>9, FS_Union
<1>13. Cardinality(Ones) = Q + R + (num_of_threads - 1) * Q
  BY <1>1, <1>6, <1>7, <1>8, <1>9, <1>10, <1>11, <1>12
<1>14. QED
  BY <1>1, <1>11, <1>13

LEMMA OnesNone ==
  ASSUME TypeOK, \A t \in Threads : added[t] = 0
  PROVE  Cardinality(Ones) = 0
<1>1. Ones = {}
  BY ThreadsFinite, ThreadsAssumption DEF Ones, ThreadsAssumption, TypeOK
<1>2. QED
  BY <1>1, FS_EmptySet

LEMMA OnesSame ==
  ASSUME UNCHANGED <<num_of_threads, added>>
  PROVE  Ones' = Ones /\ Threads' = Threads
BY DEF Ones, Threads

-----------------------------------------------------------------------------
LEMMA InitIInv == Init => IInv
<1> SUFFICES ASSUME Init PROVE IInv
  OBVIOUS
<1>1. TypeOK
  BY ThreadsAssumption DEF ThreadsAssumption, Init, TypeOK, All
<1>2. Threads \subseteq All
  BY <1>1, ThreadsFinite
<1>3. MutexHeld /\ MainPhases
  BY <1>1, <1>2, Division DEF Init, MutexHeld, Holds, MainPhases, Nobody, Threads
<1>4. Phases
  <2> SUFFICES ASSUME NEW t \in Threads
               PROVE  added[t] = 0 /\ pc[t] = "none" /\ Param(t) \in Nat
    BY DEF Phases
  <2>1. QED
    BY <1>1, <1>2, ParamNat DEF Init
<1>5. CounterSound
  <2>1. Cardinality(Ones) = 0
    BY <1>1, <1>2, OnesNone DEF Init
  <2>2. QED
    BY <1>2, <2>1 DEF Init, CounterSound
<1>6. QED
  BY <1>1, <1>3, <1>4, <1>5 DEF IInv

(* A thread between load and store adds something, so that at most one     *)
(* thread is there where the counter is guarded.                           *)
LEMMA Sole ==
  ASSUME IInv, Guarded, NEW t \in Threads, NEW u \in Threads,
         pc[t] \in {"load", "store"}, pc[u] \in {"load", "store"}
  PROVE  t = u
<1>1. CASE num_of_algo # 1
  <2>1. Holds(t) /\ Holds(u)
    BY <1>1 DEF Holds
  <2>2. QED
    BY <2>1 DEF IInv, MutexHeld
<1>2. CASE num_of_algo = 1
  <2>1. ASSUME NEW v \in Threads, pc[v] \in {"load", "store"}
        PROVE  v = 1
    <3>1. added[v] + 1 <= Param(v) /\ added[v] \in Nat
      BY <1>2, <2>1, ThreadsFinite DEF IInv, Phases, Add, TypeOK
    <3>2. Param(v) > 0
      BY <3>1, ParamNat DEF IInv
    <3>3. CASE num_of_threads = 1
      BY <3>3 DEF Threads
    <3>4. CASE expctd_val < num_of_threads
      <4>1. Q = 0
        BY <3>4, Division, Multiples DEF IInv
      <4>2. QED
        BY <3>2, <4>1, ParamNat DEF IInv
    <3>5. QED
      BY <1>2, <3>3, <3>4 DEF Guarded, Alone
  <2>2. QED
    BY <2>1
<1>3. QED
  BY <1>1, <1>2

(* The counter's part of the invariant where nothing is added and nothing  *)
(* is loaded.                                                              *)
LEMMA CounterSame ==
  ASSUME CounterSound, UNCHANGED <<args, counter, added, reg>>,
         \A u \in Threads : pc'[u] = "store" => pc[u] = "store"
  PROVE  CounterSound'
<1>1. Ones' = Ones /\ Threads' = Threads /\ Guarded' = Guarded
  BY OnesSame DEF args, Guarded, Alone
<1>2. QED
  BY <1>1 DEF CounterSound, args

LEMMA LockKeeps ==
  ASSUME IInv, NEW t \in Threads, Lock(t), UNCHANGED <<args, mainVars>>
  PROVE  IInv'
<1>1. TypeOK /\ t \in All /\ Threads \subseteq All /\ Threads' = Threads /\ Nobody \notin Threads
  BY ThreadsFinite DEF IInv, args, Threads, Nobody
<1>2. /\ pc[t] = "lock" /\ pthr_mut = Nobody /\ pthr_mut' = t
      /\ pc'[t] = IF num_of_algo = 3 THEN Loop(t, 0) ELSE "load"
      /\ \A u \in Threads : u # t => pc'[u] = pc[u]
      /\ UNCHANGED <<counter, added, reg>>
  BY <1>1 DEF Lock, Goto, TypeOK
<1>3. /\ num_of_algo # 1 /\ pc'[t] \in {"load", "unlock"}
      /\ pc'[t] = "unlock" => num_of_algo = 3 /\ ~(0 < Param(t))
      /\ pc'[t] = "load" => (num_of_algo = 3 => 0 < Param(t))
  BY <1>2 DEF IInv, Phases, Loop
<1>4. TypeOK'
  BY <1>1, <1>2, <1>3 DEF TypeOK, Lock, Goto, args, mainVars, Threads
<1>5. MutexHeld'
  BY <1>1, <1>2, <1>3 DEF IInv, MutexHeld, Holds, args
<1>6. Phases'
  <2>1. ASSUME NEW u \in Threads PROVE Param(u)' = Param(u) /\ Add(u)' = Add(u)
    BY DEF Param, Add, args
  <2>2. Param(t) \in Nat /\ added[t] \in Nat
    BY <1>1, ParamNat DEF TypeOK
  <2>3. /\ pc'[t] = "load" => added[t] + Add(t) <= Param(t)
        /\ pc'[t] = "load" /\ num_of_algo = 4 => added[t] = 0
        /\ pc'[t] = "unlock" => added[t] = Param(t) /\ num_of_algo = 3
    BY <1>2, <1>3, <2>2 DEF IInv, Phases, Add, TypeOK
  <2>4. QED
    BY <1>1, <1>2, <1>3, <2>1, <2>3 DEF IInv, Phases, args
<1>7. MainPhases'
  BY <1>1, <1>2, <1>3 DEF IInv, MainPhases, args, mainVars
<1>8. CounterSound'
  BY <1>1, <1>2, <1>3, CounterSame DEF IInv
<1>9. QED
  BY <1>4, <1>5, <1>6, <1>7, <1>8 DEF IInv

LEMMA LoadKeeps ==
  ASSUME IInv, NEW t \in Threads, Load(t), UNCHANGED <<args, mainVars>>
  PROVE  IInv'
<1>1. TypeOK /\ t \in All /\ Threads \subseteq All /\ Threads' = Threads
  BY ThreadsFinite DEF IInv, args, Threads
<1>2. /\ pc[t] = "load" /\ pc'[t] = "store" /\ reg'[t] = counter
      /\ \A u \in Threads : u # t => pc'[u] = pc[u] /\ reg'[u] = reg[u]
      /\ UNCHANGED <<counter, added, pthr_mut>>
  BY <1>1 DEF Load, Goto, TypeOK
<1>3. TypeOK'
  BY <1>1, <1>2 DEF TypeOK, Load, Goto, args, mainVars, Threads
<1>4. MutexHeld'
  BY <1>1, <1>2 DEF IInv, MutexHeld, Holds, args
<1>5. Phases'
  <2>1. ASSUME NEW u \in Threads PROVE Param(u)' = Param(u) /\ Add(u)' = Add(u)
    BY DEF Param, Add, args
  <2>2. QED
    BY <1>1, <1>2, <2>1 DEF IInv, Phases, args
<1>6. MainPhases'
  BY <1>1, <1>2 DEF IInv, MainPhases, args, mainVars
<1>7. CounterSound'
  <2>1. Ones' = Ones /\ Guarded' = Guarded /\ num_of_algo' = num_of_algo
    BY <1>2, OnesSame DEF args, Guarded, Alone
  <2>2. ASSUME Guarded, NEW u \in Threads, pc'[u] = "store"
        PROVE  reg'[u] = counter'
    BY <1>1, <1>2, <2>2 DEF IInv, CounterSound
  <2>3. ASSUME num_of_algo = 1, NEW u \in Threads, pc'[u] = "store", added[u] > 0
        PROVE  reg'[u] > 0
    BY <1>1, <1>2, <2>3 DEF IInv, CounterSound
  <2>4. ASSUME NEW u \in Threads, pc'[u] = "store"
        PROVE  reg'[u] <= Cardinality(Ones)
    BY <1>1, <1>2, <2>4 DEF IInv, CounterSound
  <2>5. QED
    BY <1>1, <1>2, <2>1, <2>2, <2>3, <2>4 DEF IInv, CounterSound
<1>8. QED
  BY <1>3, <1>4, <1>5, <1>6, <1>7 DEF IInv

LEMMA UnlockKeeps ==
  ASSUME IInv, NEW t \in Threads, Unlock(t), UNCHANGED <<args, mainVars>>
  PROVE  IInv'
<1>1. TypeOK /\ t \in All /\ Threads \subseteq All /\ Threads' = Threads /\ Nobody \notin Threads
  BY ThreadsFinite DEF IInv, args, Threads, Nobody
<1>2. /\ pc[t] = "unlock" /\ pthr_mut' = Nobody
      /\ pc'[t] = IF num_of_algo = 2 THEN Loop(t, added[t]) ELSE "done"
      /\ \A u \in Threads : u # t => pc'[u] = pc[u]
      /\ UNCHANGED <<counter, added, reg>>
  BY <1>1 DEF Unlock, Goto, TypeOK
<1>3. /\ pc'[t] \in {"lock", "done"} /\ num_of_algo # 1
      /\ pc'[t] = "lock" => num_of_algo = 2 /\ added[t] < Param(t)
      /\ pc'[t] = "done" => added[t] = Param(t)
  <2>1. added[t] \in Nat /\ Param(t) \in Nat /\ added[t] <= Param(t)
    BY <1>1, ParamNat DEF IInv, TypeOK, Phases
  <2>2. QED
    BY <1>2, <2>1 DEF IInv, Phases, Loop
<1>4. TypeOK'
  BY <1>1, <1>2, <1>3 DEF TypeOK, Unlock, Goto, args, mainVars, Threads
<1>5. pthr_mut = t
  BY <1>2 DEF IInv, MutexHeld, Holds
<1>6. MutexHeld'
  BY <1>1, <1>2, <1>3, <1>5 DEF IInv, MutexHeld, Holds, args
<1>7. Phases'
  <2>1. ASSUME NEW u \in Threads PROVE Param(u)' = Param(u) /\ Add(u)' = Add(u)
    BY DEF Param, Add, args
  <2>2. QED
    BY <1>1, <1>2, <1>3, <2>1 DEF IInv, Phases, args
<1>8. MainPhases'
  BY <1>1, <1>2, <1>3 DEF IInv, MainPhases, args, mainVars
<1>9. CounterSound'
  BY <1>1, <1>2, <1>3, CounterSame DEF IInv
<1>10. QED
  BY <1>4, <1>6, <1>7, <1>8, <1>9 DEF IInv

LEMMA StoreKeeps ==
  ASSUME IInv, NEW t \in Threads, Store(t), UNCHANGED <<args, mainVars>>
  PROVE  IInv'
<1> DEFINE a == Add(t)
<1>1. TypeOK /\ t \in All /\ Threads \subseteq All /\ Threads' = Threads
  BY ThreadsFinite DEF IInv, args, Threads
<1>2. a \in Nat /\ added[t] \in Nat /\ Param(t) \in Nat /\ reg[t] \in Nat
  BY <1>1, ParamNat DEF TypeOK, Add
<1>3. /\ pc[t] = "store" /\ counter' = reg[t] + a /\ added'[t] = added[t] + a
      /\ pc'[t] = IF num_of_algo \in {2, 4} THEN "unlock" ELSE Loop(t, added[t] + 1)
      /\ \A u \in Threads : u # t => pc'[u] = pc[u] /\ added'[u] = added[u]
      /\ UNCHANGED <<reg, pthr_mut>>
  BY <1>1 DEF Store, Goto, TypeOK
<1>4. /\ added[t] + a <= Param(t)
      /\ num_of_algo = 4 => a = Param(t) /\ added[t] = 0
      /\ num_of_algo # 4 => a = 1
  BY <1>3 DEF IInv, Phases, Add
<1>5. /\ pc'[t] \in {"unlock", "load", "done"}
      /\ pc'[t] = "unlock" => num_of_algo # 1
      /\ pc'[t] = "unlock" /\ num_of_algo # 2 => added'[t] = Param(t)
      /\ pc'[t] = "done" => added'[t] = Param(t) /\ num_of_algo = 1
      /\ pc'[t] = "load" => num_of_algo \in {1, 3} /\ added'[t] + a <= Param(t)
  <2>1. CASE num_of_algo \in {2, 4}
    BY <1>2, <1>3, <1>4, <2>1
  <2>2. CASE num_of_algo \notin {2, 4}
    <3>1. num_of_algo \in {1, 3} /\ a = 1 /\ pc'[t] = Loop(t, added[t] + 1)
      BY <1>1, <1>3, <1>4, <2>2 DEF TypeOK
    <3>2. CASE added[t] + 1 < Param(t)
      BY <1>2, <1>3, <3>1, <3>2 DEF Loop
    <3>3. CASE ~(added[t] + 1 < Param(t))
      BY <1>2, <1>3, <1>4, <3>1, <3>3 DEF Loop
    <3>4. QED
      BY <3>2, <3>3
  <2>3. QED
    BY <2>1, <2>2
<1>6. Param(t) <= MAX_EXPECTED
  BY <1>1, <1>2, ParamNat, Division, ThreadsAssumption DEF ThreadsAssumption
<1>7. Cardinality(Ones') = Cardinality(Ones) + a /\ Cardinality(Ones) \in Nat
  <2>1. added' = [added EXCEPT ![t] = @ + a] /\ UNCHANGED num_of_threads
    BY DEF Store, args
  <2>2. added[t] + a <= MAX_EXPECTED
    BY <1>2, <1>4, <1>6, ThreadsAssumption DEF ThreadsAssumption
  <2> HIDE DEF a
  <2>3. QED
    BY <1>1, <1>2, <2>1, <2>2, OnesGrow, OnesFinite
<1>8. TypeOK'
  <2>1. counter' \in Nat
    BY <1>2, <1>3
  <2>2. added' \in [All -> Nat]
    BY <1>1, <1>2 DEF Store, TypeOK
  <2>3. QED
    BY <1>1, <1>3, <1>5, <2>1, <2>2 DEF TypeOK, Store, Goto, args, mainVars, Threads
<1>9. MutexHeld'
  BY <1>1, <1>3, <1>5 DEF IInv, MutexHeld, Holds, args
<1>10. Phases'
  <2>1. ASSUME NEW u \in Threads PROVE Param(u)' = Param(u) /\ Add(u)' = Add(u)
    BY DEF Param, Add, args
  <2>2. added'[t] <= Param(t)
    BY <1>3, <1>4
  <2>3. QED
    BY <1>1, <1>3, <1>5, <2>1, <2>2 DEF IInv, Phases, args
<1>11. MainPhases'
  <2>1. t <= num_of_threads
    BY <1>1, Division DEF Threads
  <2>2. main # "printed"
    BY <1>3, <2>1 DEF IInv, MainPhases
  <2>3. QED
    BY <1>1, <1>3, <1>5, <2>2 DEF IInv, MainPhases, args, mainVars
<1>12. CounterSound'
  <2> HIDE DEF a
  <2>1. Guarded' = Guarded /\ num_of_algo' = num_of_algo
    BY DEF args, Guarded, Alone
  <2>2. counter' <= Cardinality(Ones')
    BY <1>2, <1>3, <1>7 DEF IInv, CounterSound
  <2>3. ASSUME NEW u \in Threads, pc'[u] = "store"
        PROVE  u # t /\ pc[u] = "store" /\ added'[u] = added[u] /\ reg'[u] = reg[u]
    BY <1>3, <1>5, <2>3
  <2>4. ASSUME NEW u \in Threads, pc'[u] = "store"
        PROVE  reg'[u] <= Cardinality(Ones')
    <3>1. reg[u] <= Cardinality(Ones) /\ reg[u] \in Nat
      BY <1>1, <2>3, <2>4 DEF IInv, CounterSound, TypeOK
    <3>2. QED
      BY <1>2, <1>7, <2>3, <2>4, <3>1
  <2>5. ASSUME Guarded
        PROVE  /\ counter' = Cardinality(Ones')
               /\ \A u \in Threads : pc'[u] # "store"
    <3>1. reg[t] = Cardinality(Ones)
      BY <1>3, <2>5 DEF IInv, CounterSound
    <3>2. QED
      BY <1>3, <1>7, <2>3, <2>5, <3>1, Sole
  <2>6. ASSUME num_of_algo = 1
        PROVE  /\ counter' > 0
               /\ \A u \in Threads : pc'[u] = "store" /\ added'[u] > 0 => reg'[u] > 0
               /\ counter' = 1 => added'[t] = 1
    <3>1. a = 1 /\ (added[t] > 0 => reg[t] > 0)
      BY <1>3, <1>4, <2>6 DEF IInv, CounterSound
    <3>2. \A u \in Threads : pc'[u] = "store" /\ added'[u] > 0 => reg'[u] > 0
      BY <2>3, <2>6 DEF IInv, CounterSound
    <3>3. QED
      BY <1>2, <1>3, <3>1, <3>2
  <2>7. QED
    BY <1>1, <2>1, <2>2, <2>4, <2>5, <2>6 DEF CounterSound
<1>13. QED
  BY <1>8, <1>9, <1>10, <1>11, <1>12 DEF IInv

-----------------------------------------------------------------------------
LEMMA CreateKeeps ==
  ASSUME IInv, Create, UNCHANGED args
  PROVE  IInv'
<1> DEFINE t == created + 1
<1>1. /\ TypeOK /\ Threads \subseteq All /\ Threads' = Threads /\ Nobody \notin Threads
      /\ Threads \subseteq Nat \ {0}
  BY ThreadsFinite DEF IInv, args, Threads, Nobody
<1>2. /\ created \in Nat /\ created < num_of_threads /\ num_of_threads \in Nat
      /\ t \in Threads /\ main = "create" /\ joined = 0
  BY <1>1, Division DEF Create, IInv, MainPhases, TypeOK, Threads
<1>3. PICK first \in {Begin(t), "failed"} : pc' = [pc EXCEPT ![t] = first]
  BY DEF Create
<1>4. pc[t] = "none" /\ added[t] = 0
  BY <1>1, <1>2 DEF IInv, MainPhases
<1>5. Param(t) \in Nat
  BY <1>1, <1>2, ParamNat
<1>6. /\ pc'[t] = first
      /\ \A u \in Threads : u # t => pc'[u] = pc[u]
      /\ UNCHANGED <<counter, pthr_mut, added, reg, joined, shown>>
  BY <1>1, <1>2, <1>3 DEF Create, TypeOK
<1>7. /\ first \in {"lock", "load", "done", "failed"}
      /\ first = "load" => num_of_algo = 1 /\ 0 < Param(t)
      /\ first = "done" => num_of_algo # 4 /\ Param(t) = 0
      /\ first = "lock" => num_of_algo # 1 /\ (num_of_algo = 2 => 0 < Param(t))
  BY <1>1, <1>5 DEF Begin, Loop, TypeOK
<1>8. TypeOK'
  <2>1. main' \in {"create", "join"} /\ created' \in 0 .. num_of_threads
    BY <1>2 DEF Create
  <2>2. pc' \in [All -> {"none", "lock", "load", "store", "unlock", "done", "failed"}]
    BY <1>1, <1>3, <1>7 DEF TypeOK
  <2>3. QED
    BY <1>1, <1>6, <2>1, <2>2 DEF TypeOK, args, Threads
<1>9. MutexHeld'
  <2>1. pthr_mut # t
    BY <1>2, <1>4 DEF IInv, MutexHeld, Holds
  <2>2. QED
    BY <1>1, <1>6, <1>7, <2>1 DEF IInv, MutexHeld, Holds, args
<1>10. Phases'
  <2>1. ASSUME NEW u \in Threads PROVE Param(u)' = Param(u) /\ Add(u)' = Add(u)
    BY DEF Param, Add, args
  <2>2. /\ first = "load" => added[t] + Add(t) <= Param(t) /\ num_of_algo # 4
        /\ first = "done" => added[t] = Param(t)
    BY <1>4, <1>5, <1>7 DEF Add
  <2>3. QED
    BY <1>1, <1>4, <1>6, <1>7, <2>1, <2>2 DEF IInv, Phases, args
<1>11. MainPhases'
  <2>1. /\ main' = "create" => created' < num_of_threads
        /\ main' # "create" => created' = num_of_threads /\ main' = "join"
        /\ created' = created + 1
    BY <1>2 DEF Create
  <2>2. ASSUME NEW u \in Threads
        PROVE  /\ u > created' => pc'[u] = "none" /\ added'[u] = 0
               /\ u <= created' => pc'[u] # "none"
               /\ ~(u <= joined')
    BY <1>1, <1>2, <1>6, <1>7, <2>1 DEF IInv, MainPhases
  <2>3. QED
    BY <1>1, <1>2, <1>6, <2>1, <2>2 DEF MainPhases, args
<1>12. CounterSound'
  BY <1>1, <1>6, <1>7, CounterSame DEF IInv
<1>13. QED
  BY <1>8, <1>9, <1>10, <1>11, <1>12 DEF IInv

(* The other steps of main change nothing but what main keeps.             *)
LEMMA MainKeeps ==
  ASSUME IInv, Join \/ JoinUnset \/ ShowCounter \/ ClockFails, UNCHANGED args
  PROVE  IInv'
<1> USE DEF Join, JoinUnset, ShowCounter, ClockFails, threadVars
<1>1. UNCHANGED threadVars /\ Threads' = Threads /\ TypeOK
  BY DEF args, Threads, IInv
<1>2. joined \in Nat /\ num_of_threads \in Nat /\ joined <= num_of_threads
  BY <1>1, Division DEF TypeOK
<1>3. /\ created' = created
      /\ (joined' = joined) \/ (joined < num_of_threads /\ joined' = joined + 1)
      /\ main' \in {"join", "printed", "exit", "crashed"}
      /\ (shown' = shown) \/ (shown' = counter)
  <2>1. CASE Join
    BY <2>1
  <2>2. CASE JoinUnset
    BY <2>2
  <2>3. CASE ShowCounter
    BY <2>3
  <2>4. CASE ClockFails
    BY <2>4
  <2>5. QED
    BY <2>1, <2>2, <2>3, <2>4
<1>4. joined' \in 0 .. num_of_threads
  BY <1>2, <1>3
<1>5. TypeOK'
  BY <1>1, <1>3, <1>4 DEF TypeOK, args
<1>6. MutexHeld' /\ Phases'
  BY <1>1 DEF IInv, MutexHeld, Holds, Phases, Param, Add, args
<1>7. MainPhases'
  <2>1. ASSUME NEW u \in Threads, u <= joined'
        PROVE  pc[u] \in {"done", "failed"}
    <3>1. u \in Nat
      BY <1>1, ThreadsFinite
    <3>2. CASE u <= joined
      BY <3>2 DEF IInv, MainPhases
    <3>3. CASE ~(u <= joined)
      <4>1. joined' = joined + 1 /\ u = joined + 1
        BY <1>2, <1>3, <2>1, <3>1, <3>3
      <4>2. QED
        BY <1>2, <4>1
    <3>4. QED
      BY <3>2, <3>3
  <2>2. QED
    BY <1>1, <1>3, <2>1 DEF IInv, MainPhases, args
<1>8. CounterSound'
  BY <1>1, CounterSame DEF IInv
<1>9. QED
  BY <1>5, <1>6, <1>7, <1>8 DEF IInv

LEMMA NextIInv == IInv /\ [Next]_vars => IInv'
<1> SUFFICES ASSUME IInv, [Next]_vars PROVE IInv'
  OBVIOUS
<1>1. CASE UNCHANGED vars
  <2>1. UNCHANGED <<args, mainVars, threadVars>>
    BY <1>1 DEF vars
  <2>2. CounterSound'
    BY <2>1, CounterSame DEF IInv, threadVars
  <2>3. QED
    BY <2>1, <2>2 DEF args, mainVars, threadVars, IInv, TypeOK, MutexHeld, Holds,
       Phases, MainPhases, Param, Add, Threads
<1>2. ASSUME NEW t \in Threads, Thread(t) PROVE IInv'
  BY <1>2, LockKeeps, LoadKeeps, StoreKeeps, UnlockKeeps DEF Thread
<1>3. CASE (Main \/ JoinUnset) /\ UNCHANGED args
  BY <1>3, CreateKeeps, MainKeeps DEF Main
<1>4. QED
  BY <1>1, <1>2, <1>3 DEF Next

-----------------------------------------------------------------------------
(* The mutex is held by the thread between its lock and its unlock, and    *)
(* the counter is what was added where it is guarded, and bounded by it    *)
(* where it is not (IInv), for every number of threads and of ones.        *)
THEOREM Invariance == Spec => []IInv
<1>1. QED
  BY InitIInv, NextIInv, PTL DEF Spec

(* What main prints: exactly what was expected with the mutex or with a    *)
(* single working thread; without, never more, and at least 2 or 1.        *)
THEOREM ShownIsBounded == Spec => []ShownBounds
<1>1. IInv => ShownBounds
  <2> SUFFICES ASSUME IInv, main = "printed", ~Failed PROVE ShownBounds
    BY DEF ShownBounds
  <2>1. TypeOK /\ Threads \subseteq Nat \ {0} /\ 1 \in Threads /\ Threads \subseteq All
    BY ThreadsFinite DEF IInv
  <2>2. shown = counter /\ \A t \in Threads : pc[t] = "done"
    BY <2>1, Division DEF IInv, MainPhases, Threads, Failed
  <2>3. \A t \in Threads : added[t] = Param(t)
    BY <2>2 DEF IInv, Phases
  <2>4. Cardinality(Ones) = expctd_val
    BY <2>1, <2>3, OnesTotal
  <2>5. shown <= expctd_val /\ (Guarded => shown = expctd_val)
    BY <2>2, <2>4 DEF IInv, CounterSound
  <2>6. Q \in Nat /\ R \in Nat /\ num_of_threads \in Nat \ {0} /\ R < num_of_threads
        /\ expctd_val = num_of_threads * Q + R /\ shown \in Nat /\ expctd_val \in Nat
    BY <2>1, Division DEF TypeOK
  <2>7. ASSUME expctd_val > 0 PROVE shown > 0
    <3>1. CASE Guarded
      BY <2>5, <2>7, <3>1
    <3>2. CASE num_of_algo = 1
      <4>1. Q > 0 \/ R > 0
        BY <2>6, <2>7, Multiples
      <4>2. added[1] > 0
        BY <2>1, <2>3, <2>6, <4>1, ParamNat
      <4>3. QED
        BY <2>1, <2>2, <3>2, <4>2 DEF IInv, CounterSound
    <3>3. QED
      BY <3>1, <3>2 DEF Guarded
  <2>8. ASSUME expctd_val >= 2 * num_of_threads PROVE shown >= 2
    <3>1. expctd_val >= 2 /\ expctd_val > 0
      BY <2>6, <2>8
    <3>2. CASE Guarded
      BY <2>5, <3>1, <3>2
    <3>3. CASE num_of_algo = 1
      <4>1. Q # 0 /\ Q # 1
        BY <2>6, <2>8, Multiples
      <4>2. \A t \in Threads : added[t] # 1
        BY <2>1, <2>3, <2>6, <4>1, ParamNat
      <4>3. shown # 1
        BY <2>2, <3>3, <4>2 DEF IInv, CounterSound
      <4>4. QED
        BY <2>6, <2>7, <3>1, <4>3
    <3>4. QED
      BY <3>2, <3>3 DEF Guarded
  <2>9. QED
    BY <2>5, <2>7, <2>8 DEF ShownBounds
<1>2. QED
  BY <1>1, Invariance, PTL

-----------------------------------------------------------------------------
(* What main waits for in a join comes, or waits for the mutex, and then   *)
(* the thread that holds it can go on (NobodyWaitsForEver).                *)
THEOREM StandstillNever == Spec => []NobodyWaitsForEver
<1>1. IInv => NobodyWaitsForEver
  <2> SUFFICES ASSUME IInv PROVE NobodyWaitsForEver
    OBVIOUS
  <2>1. TypeOK /\ Threads \subseteq All /\ num_of_threads \in Nat \ {0}
    BY ThreadsFinite, Division DEF IInv
  <2>2. ASSUME pthr_mut \in Threads PROVE pc[pthr_mut] \in {"load", "store", "unlock"}
    BY <2>2 DEF IInv, MutexHeld, Holds
  <2>3. ASSUME main = "join", joined < num_of_threads
        PROVE  \/ pc[joined + 1] \in {"done", "failed"}
               \/ CanGoOn(joined + 1)
               \/ pc[joined + 1] = "lock" /\ pthr_mut \in Threads /\ CanGoOn(pthr_mut)
    <3> DEFINE t == joined + 1
    <3>1. t \in Threads /\ t \in All /\ t <= created
      BY <2>1, <2>3 DEF IInv, TypeOK, MainPhases, Threads
    <3>2. pc[t] \in {"lock", "load", "store", "unlock", "done", "failed"}
      BY <2>1, <3>1 DEF IInv, TypeOK, MainPhases
    <3>3. CASE pc[t] # "lock"
      BY <3>2, <3>3 DEF CanGoOn
    <3>4. CASE pc[t] = "lock"
      BY <2>1, <2>2, <3>4 DEF CanGoOn, TypeOK
    <3>5. QED
      BY <3>3, <3>4
  <2>4. ASSUME main = "printed", pthr_mut \in Threads PROVE FALSE
    <3>1. pthr_mut <= joined
      BY <2>1, <2>4 DEF IInv, MainPhases, Threads
    <3>2. QED
      BY <2>2, <2>4, <3>1 DEF IInv, MainPhases
  <2>5. QED
    BY <2>1, <2>3, <2>4 DEF NobodyWaitsForEver, TypeOK
<1>2. QED
  BY <1>1, Invariance, PTL

-----------------------------------------------------------------------------
(* Where a thread is in its round, and what it has still to add.           *)
LEMMA LeftOf ==
  ASSUME IInv, NEW t \in Threads
  PROVE  /\ Param(t) \in Nat /\ added[t] \in Nat /\ added[t] <= Param(t)
         /\ pc[t] = "none" => ThreadLeft(t) = 4 * (Param(t) - added[t]) + 5
         /\ pc[t] = "lock" => ThreadLeft(t) = 4 * (Param(t) - added[t]) + 4
         /\ pc[t] = "load" => ThreadLeft(t) = 4 * (Param(t) - added[t]) + 3
         /\ pc[t] = "store" => ThreadLeft(t) = 4 * (Param(t) - added[t]) + 2
         /\ pc[t] = "unlock" =>
              ThreadLeft(t) = 4 * (Param(t) - added[t]) + IF num_of_algo = 2 THEN 5 ELSE 1
         /\ pc[t] \in {"done", "failed"} => ThreadLeft(t) = 4 * (Param(t) - added[t])
         /\ ThreadLeft(t) \in Nat
<1>1. Param(t) \in Nat /\ added[t] \in Nat /\ added[t] <= Param(t) /\ t \in All
  BY ParamNat, ThreadsFinite DEF IInv, TypeOK, Phases
<1>2. pc[t] \in {"none", "lock", "load", "store", "unlock", "done", "failed"}
  BY <1>1 DEF IInv, TypeOK
<1>3. QED
  BY <1>1, <1>2 DEF ThreadLeft

(* An operation of a thread brings it nearer to its end.                   *)
LEMMA ThreadDescends ==
  ASSUME IInv, NEW t \in Threads, Thread(t)
  PROVE  ThreadLeft(t)' < ThreadLeft(t)
<1> DEFINE After(place) == [none |-> 5, lock |-> 4, load |-> 3, store |-> 2,
              unlock |-> IF num_of_algo = 2 THEN 5 ELSE 1, done |-> 0, failed |-> 0][place]
<1>1. /\ t \in All /\ pc \in [All -> {"none", "lock", "load", "store", "unlock", "done", "failed"}]
      /\ added \in [All -> Nat] /\ num_of_algo \in 1 .. 4
      /\ Param(t) \in Nat /\ added[t] \in Nat /\ added[t] <= Param(t)
  BY LeftOf, ThreadsFinite DEF IInv, TypeOK
<1>2. ThreadLeft(t)' = 4 * (Param(t) - added'[t]) + After(pc'[t])
  BY DEF Thread, args, Param, ThreadLeft
<1>3. CASE Lock(t)
  <2>1. added'[t] = added[t] /\ pc[t] = "lock" /\ num_of_algo # 1
        /\ pc'[t] = IF num_of_algo = 3 THEN Loop(t, 0) ELSE "load"
    BY <1>1, <1>3 DEF Lock, Goto, IInv, Phases
  <2>2. After(pc'[t]) \in {1, 3}
    BY <2>1 DEF Loop
  <2>3. ThreadLeft(t) = 4 * (Param(t) - added[t]) + 4
    BY <2>1, LeftOf
  <2> HIDE DEF After
  <2>4. QED
    BY <1>1, <1>2, <2>1, <2>2, <2>3
<1>4. CASE Load(t)
  <2>1. added'[t] = added[t] /\ pc[t] = "load" /\ pc'[t] = "store"
    BY <1>1, <1>4 DEF Load, Goto
  <2>2. ThreadLeft(t) = 4 * (Param(t) - added[t]) + 3
    BY <2>1, LeftOf
  <2>3. QED
    BY <1>1, <1>2, <2>1, <2>2
<1>5. CASE Store(t)
  <2>1. /\ pc[t] = "store" /\ added'[t] = added[t] + Add(t)
        /\ pc'[t] = IF num_of_algo \in {2, 4} THEN "unlock" ELSE Loop(t, added[t] + 1)
    BY <1>1, <1>5 DEF Store, Goto
  <2>2. Add(t) \in Nat /\ (num_of_algo # 4 => Add(t) = 1)
    BY <1>1 DEF Add
  <2>3. /\ After(pc'[t]) \in 0 .. 5
        /\ num_of_algo = 4 => After(pc'[t]) = 1
    BY <1>1, <2>1 DEF Loop
  <2>4. ThreadLeft(t) = 4 * (Param(t) - added[t]) + 2
    BY <2>1, LeftOf
  <2> HIDE DEF After
  <2>5. QED
    BY <1>1, <1>2, <2>1, <2>2, <2>3, <2>4
<1>6. CASE Unlock(t)
  <2>1. /\ added'[t] = added[t] /\ pc[t] = "unlock"
        /\ pc'[t] = IF num_of_algo = 2 THEN Loop(t, added[t]) ELSE "done"
    BY <1>1, <1>6 DEF Unlock, Goto
  <2>2. After(pc'[t]) < After("unlock") /\ After(pc'[t]) \in Nat
    BY <1>1, <2>1 DEF Loop
  <2>3. /\ ThreadLeft(t) = 4 * (Param(t) - added[t]) + After("unlock")
        /\ After("unlock") \in Nat
    BY <2>1, LeftOf
  <2> HIDE DEF After
  <2>4. QED
    BY <1>1, <1>2, <2>1, <2>2, <2>3
<1>7. QED
  BY <1>3, <1>4, <1>5, <1>6 DEF Thread

(* For any number of threads and of ones: every step brings one thread, or *)
(* main, nearer to its end (StepsGetOn), and what is left to do is a       *)
(* number, so that the steps of an execution run out.                      *)
THEOREM StepsRunOut ==
  Spec => StepsGetOn /\ [](MainLeft \in Nat /\ \A t \in Threads : ThreadLeft(t) \in Nat)
<1>1. IInv /\ [Next]_vars => [StepGetsOn]_vars
  <2> SUFFICES ASSUME IInv, Next PROVE StepGetsOn
    OBVIOUS
  <2>1. ASSUME NEW t \in Threads, Thread(t) PROVE StepGetsOn
    <3>1. ASSUME NEW u \in Threads \ {t} PROVE ThreadLeft(u)' = ThreadLeft(u)
      <4>1. t \in All /\ u \in All /\ u # t
        BY ThreadsFinite DEF IInv
      <4>2. pc'[u] = pc[u] /\ added'[u] = added[u]
        BY <2>1, <4>1 DEF Thread, Lock, Load, Store, Unlock, Goto, IInv, TypeOK
      <4>3. QED
        BY <2>1, <4>2 DEF Thread, args, ThreadLeft, Param
    <3>2. QED
      BY <2>1, <3>1, ThreadDescends DEF Thread, StepGetsOn
  <2>2. CASE (Main \/ JoinUnset) /\ UNCHANGED args
    <3>1. /\ created \in Nat /\ joined \in Nat /\ num_of_threads \in Nat
          /\ created <= num_of_threads /\ joined <= num_of_threads
          /\ UNCHANGED <<num_of_threads, num_of_algo, expctd_val>>
      BY <2>2, Division DEF IInv, TypeOK, args
    <3>2. CASE Create
      <4>1. created < num_of_threads /\ created + 1 \in Threads /\ joined' = joined
        BY <3>1, <3>2 DEF Create, IInv, MainPhases, Threads
      <4>2. MainLeft' < MainLeft
        BY <3>1, <3>2, <4>1 DEF Create, MainLeft
      <4>3. ASSUME NEW t \in Threads PROVE ThreadLeft(t)' <= ThreadLeft(t)
        <5>1. t \in All /\ Param(t) \in Nat /\ added[t] \in Nat /\ added'[t] = added[t]
              /\ Param(t)' = Param(t)
          BY <3>1, <3>2, LeftOf, ThreadsFinite DEF Create, IInv, Param
        <5>2. CASE t # created + 1
          <6>1. pc'[t] = pc[t]
            BY <3>2, <5>1, <5>2 DEF Create, IInv, TypeOK
          <6>2. ThreadLeft(t)' = ThreadLeft(t)
            BY <3>1, <5>1, <6>1 DEF ThreadLeft
          <6>3. QED
            BY <6>2, LeftOf
        <5>3. CASE t = created + 1
          <6>1. pc[t] = "none"
            BY <3>1, <4>1, <5>3 DEF IInv, MainPhases
          <6>2. pc'[t] \in {"lock", "load", "done", "unlock", "failed"}
            BY <3>2, <5>1, <5>3 DEF Create, Begin, Loop, IInv, TypeOK
          <6>3. ThreadLeft(t)' <= 4 * (Param(t) - added[t]) + 5
            BY <3>1, <5>1, <6>2 DEF ThreadLeft
          <6>4. QED
            BY <6>1, <6>3, LeftOf
        <5>4. QED
          BY <5>2, <5>3
      <4>4. QED
        BY <4>2, <4>3 DEF StepGetsOn
    <3>3. CASE Join \/ JoinUnset \/ ShowCounter \/ ClockFails
      <4>1. UNCHANGED <<created, threadVars>>
        BY <3>3 DEF Join, JoinUnset, ShowCounter, ClockFails
      <4>2. MainLeft' < MainLeft
        BY <3>1, <3>3 DEF Join, JoinUnset, ShowCounter, ClockFails, MainLeft
      <4>3. ASSUME NEW t \in Threads PROVE ThreadLeft(t)' <= ThreadLeft(t)
        <5>1. ThreadLeft(t)' = ThreadLeft(t)
          BY <3>1, <4>1 DEF threadVars, ThreadLeft, Param
        <5>2. QED
          BY <5>1, LeftOf
      <4>4. QED
        BY <4>2, <4>3 DEF StepGetsOn
    <3>4. QED
      BY <2>2, <3>2, <3>3 DEF Main
  <2>3. QED
    BY <2>1, <2>2 DEF Next
<1>2. IInv => MainLeft \in Nat /\ \A t \in Threads : ThreadLeft(t) \in Nat
  <2> SUFFICES ASSUME IInv PROVE MainLeft \in Nat
    BY LeftOf
  <2>1. /\ created \in Nat /\ joined \in Nat /\ num_of_threads \in Nat
        /\ created <= num_of_threads /\ joined <= num_of_threads
    BY Division DEF IInv, TypeOK
  <2>2. QED
    BY <2>1 DEF MainLeft
<1>3. QED
  BY <1>1, <1>2, Invariance, PTL DEF Spec, StepsGetOn
=============================================================================
