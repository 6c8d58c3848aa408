------------------------------- MODULE Runners -------------------------------
(***************************************************************************)
(* runners_proc.c: main forks a judge and num_of_runnrs runners, which     *)
(* talk over one message queue.  A runner reports that it has come; the    *)
(* judge, when all have, calls them one after the other and waits for each *)
(* to answer; then it tells all of them that the competition is over.  The *)
(* call to runner r and r's answer are messages of the same type r.        *)
(*                                                                         *)
(* A step is one message call.  main does not wait for its children.       *)
(***************************************************************************)
EXTENDS MsgQueue, FiniteSets

CONSTANTS
  num_of_runnrs,        \* main's argument
  FORK_MAY_FAIL         \* whether fork() may return a negative pid

ASSUME RunnersAssumption ==
  /\ num_of_runnrs \in Nat
  /\ FORK_MAY_FAIL \in BOOLEAN

VARIABLES
  pc,           \* the next operation of each runner
  judge,        \* the next operation of the judge
  i,            \* the judge's loop variable
  main,         \* the next operation of main
  index         \* main's loop variable

judge_vars == <<judge, i>>
main_vars == <<main, index>>
vars == <<queue, qnum, pc, judge, i, main, index>>

-----------------------------------------------------------------------------
Racers == 1 .. num_of_runnrs

RUN_IS_OVR == num_of_runnrs + 1

RUNNR_CAME == num_of_runnrs + 2

Types == 1 .. num_of_runnrs + 2

Init ==
  /\ queue = [t \in Types |-> 0]
  /\ qnum = 0
  /\ pc = [r \in Racers |-> "unborn"]
  /\ judge = "unborn"
  /\ i = 0
  /\ main = "judge"
  /\ index = 0

-----------------------------------------------------------------------------
Goto(r, from, to) ==
  /\ pc[r] = from
  /\ pc' = [pc EXCEPT ![r] = to]

Come(r) == Goto(r, "come", "ready") /\ msgsnd(RUNNR_CAME)

(* Mutant of StartRun: the runner takes any runner's call.                 *)
StartOnAnyCall(r) ==
  Goto(r, "ready", "run") /\ \E q \in Racers : msgrcv(q)

StartRun(r) == Goto(r, "ready", "run") /\ msgrcv(r)

(* Mutant of EndRun: no answer.                                            *)
EndRunSilently(r) == Goto(r, "run", "finish") /\ UNCHANGED <<queue, qnum>>

EndRun(r) == Goto(r, "run", "finish") /\ msgsnd(r)

GoAway(r) == Goto(r, "finish", "away") /\ msgrcv(RUN_IS_OVR)

Runner(r) ==
  /\ Come(r) \/ StartRun(r) \/ EndRun(r) \/ GoAway(r)
  /\ UNCHANGED <<judge_vars, main_vars>>

-----------------------------------------------------------------------------
(* A judge's loop runs while i is below num_of_runnrs; Loop is one message *)
(* of a loop whose body ends there, NextLoop its exit.                     *)
Loop(at) ==
  /\ judge = at
  /\ i < num_of_runnrs
  /\ i' = i + 1
  /\ UNCHANGED judge

(* Mutant of NextLoop: one iteration is missing.                           *)
NextLoopEarly(from, to) ==
  /\ judge = from
  /\ i >= num_of_runnrs - 1
  /\ judge' = to
  /\ i' = 0
  /\ UNCHANGED <<queue, qnum>>

NextLoop(from, to) ==
  /\ judge = from
  /\ i = num_of_runnrs
  /\ judge' = to
  /\ i' = 0
  /\ UNCHANGED <<queue, qnum>>

Gather == Loop("gather") /\ msgrcv(RUNNR_CAME)

Call ==
  /\ judge = "call"
  /\ i < num_of_runnrs
  /\ msgsnd(i + 1)
  /\ judge' = "answer"
  /\ UNCHANGED i

(* Mutant of Answer: the judge calls the next one at once.                 *)
NoAnswer ==
  /\ judge = "answer"
  /\ judge' = "call"
  /\ i' = i + 1
  /\ UNCHANGED <<queue, qnum>>

(* msgrcv of the type the judge has just sent: the answer of the runner or *)
(* the call itself, if the runner has not taken it yet.                    *)
Answer ==
  /\ judge = "answer"
  /\ msgrcv(i + 1)
  /\ judge' = "call"
  /\ i' = i + 1

Close == Loop("close") /\ msgsnd(RUN_IS_OVR)

Judge ==
  /\ \/ Gather
     \/ NextLoop("gather", "call")
     \/ Call
     \/ Answer
     \/ NextLoop("call", "close")
     \/ Close
     \/ NextLoop("close", "done")
  /\ UNCHANGED <<pc, main_vars>>

-----------------------------------------------------------------------------
ForkJudge ==
  /\ main = "judge"
  /\ main' = "fork"
  /\ judge' = "gather"
  /\ UNCHANGED <<queue, qnum, pc, i, index>>

ForkRunner ==
  /\ main = "fork"
  /\ index < num_of_runnrs
  /\ pc' = [pc EXCEPT ![index + 1] = "come"]
  /\ index' = index + 1
  /\ UNCHANGED <<queue, qnum, judge_vars, main>>

(* main returns without waiting for anyone and without removing the queue. *)
MainEnds ==
  /\ main = "fork"
  /\ index = num_of_runnrs
  /\ main' = "end"
  /\ UNCHANGED <<queue, qnum, pc, judge_vars, index>>

(* A fork fails: main returns, the processes it has started remain.        *)
ForkFails ==
  /\ FORK_MAY_FAIL
  /\ \/ main = "judge"
     \/ main = "fork" /\ index < num_of_runnrs
  /\ main' = "failed"
  /\ UNCHANGED <<queue, qnum, pc, judge_vars, index>>

Main == ForkJudge \/ ForkRunner \/ MainEnds

Next ==
  \/ \E r \in Racers : Runner(r)
  \/ Judge
  \/ Main
  \/ ForkFails

Spec == Init /\ [][Next]_vars

(* The kernel schedules every process that is not blocked for ever.        *)
Fairness ==
  /\ \A r \in Racers : WF_vars(Runner(r))
  /\ WF_vars(Judge)
  /\ WF_vars(Main)

FairSpec == Spec /\ Fairness

-----------------------------------------------------------------------------
At(steps) == {r \in Racers : pc[r] \in steps}

Started == {"gather", "call", "answer", "close", "done"}

TypeOK ==
  /\ queue \in [Types -> Nat]
  /\ qnum \in 0 .. QUEUE_LIMIT
  /\ pc \in [Racers -> {"unborn", "come", "ready", "run", "finish", "away"}]
  /\ judge \in {"unborn"} \cup Started
  /\ i \in 0 .. num_of_runnrs
  /\ main \in {"judge", "fork", "end", "failed"}
  /\ index \in 0 .. num_of_runnrs

(* How many newcomers the judge has heard, and how many ends it has told.  *)
Heard == IF judge = "unborn" THEN 0 ELSE IF judge = "gather" THEN i ELSE num_of_runnrs

Told == IF judge = "close" THEN i ELSE IF judge = "done" THEN num_of_runnrs ELSE 0

(* No message is lost or taken by the wrong kind of receiver: those in the *)
(* queue are the newcomers not heard yet, the one call or answer between   *)
(* the judge and the runner whose turn it is, and the ends not taken; and  *)
(* the kernel's count is their sum.                                        *)
MessagesExact ==
  /\ Heard + queue[RUNNR_CAME] = Cardinality(At({"ready", "run", "finish", "away"}))
  /\ queue[RUN_IS_OVR] + Cardinality(At({"away"})) = Told
  /\ \A r \in Racers :
       queue[r] + (IF pc[r] = "run" THEN 1 ELSE 0)
         = IF judge = "answer" /\ i + 1 = r THEN 1 ELSE 0
  /\ qnum = queue[RUNNR_CAME] + queue[RUN_IS_OVR]
              + IF judge = "answer" /\ pc[i + 1] # "run" THEN 1 ELSE 0

(* The judge starts the competition only when every runner has come.       *)
AllHaveCome ==
  judge \in {"call", "answer", "close", "done"} =>
    \A r \in Racers : pc[r] \in {"ready", "run", "finish", "away"}

(* A runner has run only if the judge has called it and got an answer, or  *)
(* is waiting for one: runs follow the judge's calls, whose order is that  *)
(* of the numbers and not that of the arrivals.                            *)
RunsFollowCalls ==
  \A r \in At({"run", "finish", "away"}) :
    \/ judge = "call" /\ r <= i
    \/ judge = "answer" /\ r <= i + 1
    \/ judge \in {"close", "done"}

(* main's loop variable tells who exists.                                  *)
MainKeepsCount ==
  /\ \A r \in Racers : pc[r] = "unborn" <=> r > index
  /\ main = "judge" => judge = "unborn" /\ index = 0
  /\ main \in {"fork", "end"} => judge # "unborn"
  /\ main = "end" => index = num_of_runnrs
  /\ judge = "unborn" => i = 0
  /\ judge = "answer" => i < num_of_runnrs

(* The inductive invariant.                                                *)
IInv ==
  /\ TypeOK
  /\ MessagesExact
  /\ RunsFollowCalls
  /\ MainKeepsCount

(* Nobody who is there can make a step.                                    *)
Standstill ==
  /\ main \in {"end", "failed"}
  /\ \A r \in At({"come", "run"}) : QueueFull
  /\ \A r \in At({"ready"}) : queue[r] = 0
  /\ At({"finish"}) # {} => queue[RUN_IS_OVR] = 0
  /\ CASE judge = "gather" -> i < num_of_runnrs /\ queue[RUNNR_CAME] = 0
       [] judge \in {"call", "close"} -> i < num_of_runnrs /\ QueueFull
       [] judge = "answer" -> queue[i + 1] = 0
       [] OTHER -> TRUE

(* The ways it can come to that: a fork has failed and the judge waits for *)
(* a runner that does not exist; or the calls are over and the only ones   *)
(* that remain are runners whose call the judge has taken back, with the   *)
(* judge itself, if the ends meant for them fill the queue.                *)
StandstillExplained ==
  Standstill =>
    \/ main = "failed" /\ judge \in {"unborn", "gather"}
    \/ /\ judge = "done" \/ (judge = "close" /\ QueueFull)
       /\ At({"ready"}) \cup At({"away"}) = Racers

(* The message calls each process still has before it, at most: a runner   *)
(* four, the judge four for each runner and one step out of each loop.     *)
RunnerLeft(r) ==
  [unborn |-> 5, come |-> 4, ready |-> 3, run |-> 2, finish |-> 1, away |-> 0][pc[r]]

JudgeLeft ==
  [unborn |-> 4 * num_of_runnrs + 4,
   gather |-> num_of_runnrs - i + 3 * num_of_runnrs + 3,
   call |-> 2 * (num_of_runnrs - i) + num_of_runnrs + 2,
   answer |-> 2 * (num_of_runnrs - i) - 1 + num_of_runnrs + 2,
   close |-> num_of_runnrs - i + 1,
   done |-> 0][judge]

MainLeft ==
  [judge |-> num_of_runnrs + 2, fork |-> num_of_runnrs - index + 1,
   end |-> 0, failed |-> 0][main]

(* No process goes round for nothing: every step is a runner's, the        *)
(* judge's or main's, and brings it nearer to its end and nobody away from *)
(* it.  No execution has infinitely many steps.                            *)
StepGetsOn ==
  \/ /\ UNCHANGED <<judge_vars, main_vars>>
     /\ \E r \in Racers : /\ RunnerLeft(r)' < RunnerLeft(r)
                         /\ \A q \in Racers \ {r} : RunnerLeft(q)' = RunnerLeft(q)
  \/ UNCHANGED <<pc, main_vars>> /\ JudgeLeft' < JudgeLeft
  \/ /\ MainLeft' < MainLeft
     /\ JudgeLeft' <= JudgeLeft
     /\ \A r \in Racers : RunnerLeft(r)' <= RunnerLeft(r)

StepsGetOn == [][StepGetsOn]_vars

(* Every runner that has been let run gets to go away.                     *)
RacersGoAway == \A r \in Racers : pc[r] = "run" ~> pc[r] = "away"

(* If no fork fails the judge gets through all the calls, whatever it takes *)
(* back, and also tells every end, unless the ends meant for runners whose *)
(* call it took back fill the queue.                                       *)
JudgeFinishes ==
  <>[](judge = "done" \/ main = "failed" \/ (judge = "close" /\ QueueFull))

(* The competition is a Race.                                              *)
RaceImpl == INSTANCE Race WITH
  Runners <- Racers,
  running <- At({"run"}),
  finished <- At({"finish", "away"}),
  away <- At({"away"}),
  over <- judge \in {"close", "done"}

ImplementsRace == RaceImpl!Spec

(* The comment in Judge: the message that ends the wait after the call to  *)
(* runner r is r's, so r has finished when the judge goes on.  The message *)
(* may be the judge's own call, taken back.                                *)
JudgeHearsRunner ==
  \A r \in Racers :
    judge \in {"close", "done"} \/ (judge = "call" /\ r <= i)
      => pc[r] \in {"finish", "away"}
=============================================================================
