--------------------------------- MODULE Threads ---------------------------------
(***************************************************************************)
(* my_pthreads.c: num_of_threads threads add expctd_val ones to a shared   *)
(* counter by one of four algorithms, main joins them and prints what it   *)
(* expected and what it got.                                               *)
(*                                                                         *)
(* The Makefile builds without optimisation: counter++ is a load and a     *)
(* store, between which other threads run.  The loop of the fourth         *)
(* algorithm counts in a local variable and is one step with what follows. *)
(***************************************************************************)
EXTENDS Naturals, FiniteSets

CONSTANTS
  MAX_THREADS,          \* bound on num_of_threads
  MAX_EXPECTED          \* bound on expctd_val

ASSUME ThreadsAssumption ==
  /\ MAX_THREADS \in Nat \ {0}
  /\ MAX_EXPECTED \in Nat

VARIABLES
  num_of_threads, num_of_algo, expctd_val,      \* the arguments
  main,         \* what main does
  created,      \* calls of pthread_create made
  joined,       \* calls of pthread_join that have returned
  shown,        \* what main has printed
  counter,
  pthr_mut,     \* the thread that holds it
  pc,           \* the next step of each thread
  added,        \* what each thread has added: i of the first three algorithms
  reg           \* the counter as each thread has loaded it

args == <<num_of_threads, num_of_algo, expctd_val>>
mainVars == <<main, created, joined, shown>>
threadVars == <<counter, pthr_mut, pc, added, reg>>
vars == <<args, mainVars, threadVars>>

All == 1 .. MAX_THREADS
Threads == 1 .. num_of_threads
Nobody == 0

Init ==
  /\ num_of_threads \in All
  /\ num_of_algo \in 1 .. 4
  /\ expctd_val \in 0 .. MAX_EXPECTED
  /\ main = "create" /\ created = 0 /\ joined = 0 /\ shown = 0
  /\ counter = 0
  /\ pthr_mut = Nobody
  /\ pc = [t \in All |-> "none"]
  /\ added = [t \in All |-> 0]
  /\ reg = [t \in All |-> 0]

(* Mutant of Param: nobody gets the remainder.                             *)
ParamWithoutRest(t) == expctd_val \div num_of_threads

(* value_per_threads; the first thread takes the remainder too.            *)
Param(t) ==
  expctd_val \div num_of_threads + IF t = 1 THEN expctd_val % num_of_threads ELSE 0

-----------------------------------------------------------------------------
(* What one counter++, or the fourth algorithm's only addition, adds.      *)
Add(t) == IF num_of_algo = 4 THEN Param(t) ELSE 1

(* Where the loop goes on when n additions are made.                       *)
Loop(t, n) ==
  IF n < Param(t) THEN IF num_of_algo = 2 THEN "lock" ELSE "load"
  ELSE IF num_of_algo = 3 THEN "unlock" ELSE "done"

Begin(t) == IF num_of_algo \in {3, 4} THEN "lock" ELSE Loop(t, 0)

Goto(t, from, to) ==
  /\ pc[t] = from
  /\ pc' = [pc EXCEPT ![t] = to]

(* Mutant of Lock: the mutex is not looked at.                             *)
LockAnyway(t) ==
  /\ Goto(t, "lock", IF num_of_algo = 3 THEN Loop(t, 0) ELSE "load")
  /\ pthr_mut' = t
  /\ UNCHANGED <<counter, added, reg>>

Lock(t) ==
  /\ pthr_mut = Nobody
  /\ Goto(t, "lock", IF num_of_algo = 3 THEN Loop(t, 0) ELSE "load")
  /\ pthr_mut' = t
  /\ UNCHANGED <<counter, added, reg>>

Load(t) ==
  /\ Goto(t, "load", "store")
  /\ reg' = [reg EXCEPT ![t] = counter]
  /\ UNCHANGED <<counter, pthr_mut, added>>

Store(t) ==
  /\ Goto(t, "store", IF num_of_algo \in {2, 4} THEN "unlock" ELSE Loop(t, added[t] + 1))
  /\ counter' = reg[t] + Add(t)
  /\ added' = [added EXCEPT ![t] = @ + Add(t)]
  /\ UNCHANGED <<pthr_mut, reg>>

(* Mutant of Unlock: the mutex stays locked.                               *)
UnlockForgotten(t) ==
  /\ Goto(t, "unlock", IF num_of_algo = 2 THEN Loop(t, added[t]) ELSE "done")
  /\ UNCHANGED <<counter, pthr_mut, added, reg>>

Unlock(t) ==
  /\ Goto(t, "unlock", IF num_of_algo = 2 THEN Loop(t, added[t]) ELSE "done")
  /\ pthr_mut' = Nobody
  /\ UNCHANGED <<counter, added, reg>>

Thread(t) ==
  /\ main \notin {"exit", "crashed"}
  /\ Lock(t) \/ Load(t) \/ Store(t) \/ Unlock(t)
  /\ UNCHANGED <<args, mainVars>>

-----------------------------------------------------------------------------
(* pthread_create, whose result nobody looks at.                           *)
Create ==
  /\ main = "create"
  /\ created' = created + 1
  /\ main' = IF created + 1 = num_of_threads THEN "join" ELSE "create"
  /\ \E first \in {Begin(created + 1), "failed"} : pc' = [pc EXCEPT ![created + 1] = first]
  /\ UNCHANGED <<joined, shown, counter, pthr_mut, added, reg>>

(* pthread_join of a thread that has ended.                                *)
Join ==
  /\ main = "join" /\ joined < num_of_threads
  /\ pc[joined + 1] = "done"
  /\ joined' = joined + 1
  /\ UNCHANGED <<main, created, shown, threadVars>>

(* pthread_join of a pthread_t that was never set: it returns, or the      *)
(* program crashes, or it waits.                                           *)
JoinUnset ==
  /\ main = "join" /\ joined < num_of_threads
  /\ pc[joined + 1] = "failed"
  /\ \/ joined' = joined + 1 /\ UNCHANGED main
     \/ main' = "crashed" /\ UNCHANGED joined
  /\ UNCHANGED <<created, shown, threadVars>>

(* main has unlocked the mutex once, before My_threads and without having *)
(* it, which has no effect on a default mutex of glibc.                    *)
ShowCounter ==
  /\ main = "join" /\ joined = num_of_threads
  /\ main' = "printed"
  /\ shown' = counter
  /\ UNCHANGED <<created, joined, threadVars>>

(* clock_gettime fails, before the first thread or after the last.         *)
ClockFails ==
  /\ \/ main = "create" /\ created = 0
     \/ main = "join" /\ joined = num_of_threads
  /\ main' = "exit"
  /\ UNCHANGED <<created, joined, shown, threadVars>>

Main == Create \/ Join \/ ShowCounter \/ ClockFails

Next ==
  \/ \E t \in Threads : Thread(t)
  \/ (Main \/ JoinUnset) /\ UNCHANGED args

Spec == Init /\ [][Next]_vars

(* The system schedules every thread, and no thread locks the mutex more   *)
(* than expctd_val times, so that one that waits for it gets it; nothing   *)
(* says that a join of nothing ever returns.                               *)
FairSpec ==
  /\ Spec
  /\ WF_vars(Main /\ UNCHANGED args)
  /\ \A t \in All : WF_vars(t \in Threads /\ Thread(t))

-----------------------------------------------------------------------------
Failed == \E t \in Threads : pc[t] = "failed"

(* Every 1 that a thread has added: the j-th of thread t.                  *)
Ones == {o \in All \X (1 .. MAX_EXPECTED) : o[1] \in Threads /\ o[2] <= added[o[1]]}

TypeOK ==
  /\ num_of_threads \in All
  /\ num_of_algo \in 1 .. 4
  /\ expctd_val \in 0 .. MAX_EXPECTED
  /\ main \in {"create", "join", "printed", "exit", "crashed"}
  /\ created \in 0 .. num_of_threads
  /\ joined \in 0 .. num_of_threads
  /\ shown \in Nat
  /\ counter \in Nat
  /\ pthr_mut \in {Nobody} \union Threads
  /\ pc \in [All -> {"none", "lock", "load", "store", "unlock", "done", "failed"}]
  /\ added \in [All -> Nat]
  /\ reg \in [All -> Nat]

(* Whether the counter is only ever changed by one thread at a time: under *)
(* the mutex, or because the first thread alone has something to add.      *)
Alone == num_of_threads = 1 \/ expctd_val < num_of_threads
Guarded == num_of_algo # 1 \/ Alone

(* The mutex is held by the one thread that is between its lock and its    *)
(* unlock.                                                                 *)
Holds(t) ==
  \/ pc[t] = "unlock"
  \/ pc[t] \in {"load", "store"} /\ num_of_algo # 1

MutexHeld == \A t \in Threads : Holds(t) <=> pthr_mut = t

(* How much each thread has added where it is.                             *)
Phases ==
  \A t \in Threads :
    /\ added[t] <= Param(t)
    /\ pc[t] \in {"load", "store"} => added[t] + Add(t) <= Param(t)
    /\ pc[t] = "unlock" /\ num_of_algo # 2 => added[t] = Param(t)
    /\ pc[t] = "lock" => num_of_algo # 1
    /\ pc[t] = "lock" /\ num_of_algo = 2 => added[t] < Param(t)
    /\ pc[t] = "lock" /\ num_of_algo \in {3, 4} => added[t] = 0
    /\ pc[t] = "done" => added[t] = Param(t)
    /\ pc[t] = "unlock" => num_of_algo # 1
    /\ pc[t] \in {"load", "store"} /\ num_of_algo = 4 => added[t] = 0

MainPhases ==
  /\ main = "create" => created < num_of_threads /\ joined = 0
  /\ main \in {"join", "printed"} => created = num_of_threads
  /\ main = "printed" => joined = num_of_threads /\ shown = counter
  /\ \A t \in Threads :
       /\ t > created => pc[t] = "none" /\ added[t] = 0
       /\ t <= created => pc[t] # "none"
       /\ t <= joined => pc[t] \in {"done", "failed"}

(* The counter never exceeds the ones added, and equals their number where *)
(* it is guarded.  Without the mutex it can fall back, but not below 1     *)
(* once something is added, and it is 1 only as long as some thread has    *)
(* added a single 1.                                                       *)
CounterSound ==
  /\ counter <= Cardinality(Ones)
  /\ \A t \in Threads : pc[t] = "store" => reg[t] <= Cardinality(Ones)
  /\ Guarded =>
       /\ counter = Cardinality(Ones)
       /\ \A t \in Threads : pc[t] = "store" => reg[t] = counter
  /\ num_of_algo = 1 =>
       /\ (\E t \in Threads : added[t] > 0) => counter > 0
       /\ \A t \in Threads : pc[t] = "store" /\ added[t] > 0 => reg[t] > 0
       /\ counter = 1 => \E t \in Threads : added[t] = 1

IInv == TypeOK /\ MutexHeld /\ Phases /\ MainPhases /\ CounterSound

(* What main prints when every thread could be created.  The three         *)
(* algorithms with the mutex get what was expected; without it (line 32)   *)
(* the first gets it only where one thread has all the work, never more,   *)
(* and as little as 2, or 1 if a thread adds a single one.                 *)
ShownBounds ==
  main = "printed" /\ ~Failed =>
    /\ shown <= expctd_val
    /\ Guarded => shown = expctd_val
    /\ expctd_val > 0 => shown > 0
    /\ expctd_val >= 2 * num_of_threads => shown >= 2

(* A thread whose next step nothing holds up.                              *)
CanGoOn(t) ==
  \/ pc[t] \in {"load", "store", "unlock"}
  \/ pc[t] = "lock" /\ pthr_mut = Nobody

(* While main waits in a join, the thread it joins can go on, or waits for *)
(* the mutex and the thread that holds it can go on: whoever waits waits   *)
(* for somebody who runs, in whatever order threads are created, started   *)
(* and joined.  The mutex is free when main has joined them all.           *)
NobodyWaitsForEver ==
  /\ main = "join" /\ joined < num_of_threads =>
       \/ pc[joined + 1] \in {"done", "failed"}
       \/ CanGoOn(joined + 1)
       \/ pc[joined + 1] = "lock" /\ pthr_mut \in Threads /\ CanGoOn(pthr_mut)
  /\ main = "printed" => pthr_mut = Nobody

(* What a thread has still to add and the operations of the round it is    *)
(* in; calls main has still to make.                                       *)
ThreadLeft(t) ==
  4 * (Param(t) - added[t]) +
    [none |-> 5, lock |-> 4, load |-> 3, store |-> 2,
     unlock |-> IF num_of_algo = 2 THEN 5 ELSE 1, done |-> 0, failed |-> 0][pc[t]]

MainLeft ==
  (num_of_threads - created) + (num_of_threads - joined) +
    IF main \in {"create", "join"} THEN 1 ELSE 0

(* No thread goes round for nothing: every step brings one thread nearer   *)
(* to its end and leaves main and the others where they are, or is main's  *)
(* and brings main nearer to its end and no thread away from it.  No       *)
(* execution has infinitely many steps.                                    *)
StepGetsOn ==
  \/ /\ UNCHANGED mainVars
     /\ \E t \in Threads : /\ ThreadLeft(t)' < ThreadLeft(t)
                          /\ \A u \in Threads \ {t} : ThreadLeft(u)' = ThreadLeft(u)
  \/ /\ MainLeft' < MainLeft
     /\ \A t \in Threads : ThreadLeft(t)' <= ThreadLeft(t)

StepsGetOn == [][StepGetsOn]_vars

(* The threads do not wait for one another for ever: main comes to its     *)
(* end, unless some thread could not be created.                           *)
MainEnds == <>(main \in {"printed", "exit"} \/ Failed)
=============================================================================
