---------------------------- MODULE RunnersProofs ----------------------------
(***************************************************************************)
(* For every number of runners and every size of the queue: the inductive  *)
(* invariant IInv of Runners is preserved; from it follow the counts of    *)
(* messages, that nobody is called before all have come, what a standstill *)
(* can look like, and that Runners implements Race.                        *)
(***************************************************************************)
EXTENDS Runners, FiniteSetTheorems, TLAPS

USE QueueAssumption, RunnersAssumption

(* The runners are finitely many, as many as the argument says.            *)
LEMMA RacersFinite ==
  /\ IsFiniteSet(Racers)
  /\ Cardinality(Racers) = num_of_runnrs
BY FS_Interval DEF Racers

(* The runners that are at some of the steps are a finite set of at most   *)
(* num_of_runnrs; with that many they are all of them, with 0 none.        *)
LEMMA AtCounts ==
  ASSUME NEW S
  PROVE  /\ IsFiniteSet(At(S))
         /\ Cardinality(At(S)) \in Nat
         /\ Cardinality(At(S)) <= num_of_runnrs
         /\ Cardinality(At(S)) = num_of_runnrs => At(S) = Racers
         /\ Cardinality(At(S)) = 0 => At(S) = {}
<1>1. At(S) \subseteq Racers
  BY DEF At
<1>2. IsFiniteSet(At(S))
  BY <1>1, RacersFinite, FS_Subset
<1>3. /\ Cardinality(At(S)) <= num_of_runnrs
      /\ Cardinality(At(S)) = num_of_runnrs => At(S) = Racers
  BY <1>1, RacersFinite, FS_Subset
<1>4. /\ Cardinality(At(S)) \in Nat
      /\ Cardinality(At(S)) = 0 => At(S) = {}
  BY <1>2, FS_CardinalityType, FS_EmptySet
<1>5. QED
  BY <1>2, <1>3, <1>4

(* The number of runners at steps S when one of them moves: one more when  *)
(* it gets there, the same when it stays in or out.                        *)
LEMMA AtMoves ==
  ASSUME TypeOK, NEW S, NEW r \in Racers, NEW from, NEW to,
         Goto(r, from, to)
  PROVE  /\ from \notin S /\ to \in S =>
              /\ At(S)' = At(S) \cup {r}
              /\ Cardinality(At(S)') = Cardinality(At(S)) + 1
         /\ (from \in S <=> to \in S) => At(S)' = At(S)
<1>1. /\ pc[r] = from /\ pc'[r] = to
      /\ \A q \in Racers : q # r => pc'[q] = pc[q]
  BY DEF Goto, TypeOK
<1>2. ASSUME from \notin S, to \in S
      PROVE  /\ At(S)' = At(S) \cup {r}
             /\ Cardinality(At(S)') = Cardinality(At(S)) + 1
  <2>1. At(S)' = At(S) \cup {r} /\ r \notin At(S)
    BY <1>1, <1>2 DEF At
  <2>2. QED
    BY <2>1, AtCounts, FS_AddElement
<1>3. (from \in S <=> to \in S) => At(S)' = At(S)
  BY <1>1 DEF At
<1>4. QED
  BY <1>2, <1>3

(* The types of messages are distinct.                                     *)
LEMMA TypesDistinct ==
  /\ RUN_IS_OVR \in Types /\ RUNNR_CAME \in Types
  /\ RUN_IS_OVR # RUNNR_CAME
  /\ \A r \in Racers : r \in Types /\ r # RUN_IS_OVR /\ r # RUNNR_CAME
BY DEF RUN_IS_OVR, RUNNR_CAME, Types, Racers

(* What the message calls do to the counts, one type at a time.            *)
LEMMA MessageCalls ==
  ASSUME TypeOK, NEW t \in Types
  PROVE  /\ msgsnd(t) => /\ queue' \in [Types -> Nat]
                         /\ qnum' \in 0 .. QUEUE_LIMIT
                         /\ qnum < QUEUE_LIMIT
                         /\ qnum' = qnum + 1
                         /\ queue'[t] = queue[t] + 1
                         /\ \A u \in Types : u # t => queue'[u] = queue[u]
         /\ msgrcv(t) => /\ queue' \in [Types -> Nat]
                         /\ queue[t] > 0
                         /\ qnum' = qnum - 1
                         /\ queue'[t] = queue[t] - 1
                         /\ \A u \in Types : u # t => queue'[u] = queue[u]
BY DEF msgsnd, msgrcv, QueueFull, TypeOK

-----------------------------------------------------------------------------
(* A runner's message leaves main's account of the processes as it was.    *)
LEMMA RunnerKeepsMain ==
  ASSUME TypeOK, MainKeepsCount, NEW r \in Racers, NEW from, NEW to,
         Goto(r, from, to), from # "unborn", to # "unborn",
         UNCHANGED <<judge, i, main, index>>
  PROVE  MainKeepsCount'
BY DEF MainKeepsCount, Goto, TypeOK, Racers

LEMMA ComeStep ==
  ASSUME IInv, NEW r \in Racers, Come(r), UNCHANGED <<judge, i, main, index>>
  PROVE  IInv'
<1> USE DEF IInv
<1>1. /\ Goto(r, "come", "ready")
      /\ pc[r] = "come" /\ pc'[r] = "ready"
      /\ \A q \in Racers : q # r => pc'[q] = pc[q]
      /\ pc' \in [Racers -> {"unborn", "come", "ready", "run", "finish", "away"}]
  BY DEF Come, Goto, TypeOK
<1>2. /\ queue' \in [Types -> Nat]
      /\ qnum' \in 0 .. QUEUE_LIMIT
      /\ qnum' = qnum + 1
      /\ queue'[RUNNR_CAME] = queue[RUNNR_CAME] + 1
      /\ queue'[RUN_IS_OVR] = queue[RUN_IS_OVR]
      /\ \A q \in Racers : queue'[q] = queue[q]
  BY TypesDistinct, MessageCalls DEF Come
<1>3. TypeOK'
  BY <1>1, <1>2 DEF TypeOK
<1>4. MessagesExact'
  <2>1. /\ Cardinality(At({"ready", "run", "finish", "away"})')
             = Cardinality(At({"ready", "run", "finish", "away"})) + 1
        /\ At({"away"})' = At({"away"})
    BY <1>1, AtMoves
  <2>2. Heard' = Heard /\ Told' = Told
    BY DEF Heard, Told
  <2>3. Heard \in Nat /\ queue[RUNNR_CAME] \in Nat
        /\ queue[RUN_IS_OVR] \in Nat
    BY TypesDistinct DEF Heard, TypeOK
  <2>4. Heard' + queue'[RUNNR_CAME]
          = Cardinality(At({"ready", "run", "finish", "away"})')
    BY <1>2, <2>1, <2>2, <2>3 DEF MessagesExact
  <2>5. queue'[RUN_IS_OVR] + Cardinality(At({"away"})') = Told'
    BY <1>2, <2>1, <2>2 DEF MessagesExact
  <2>6. \A q \in Racers : pc'[q] = "run" <=> pc[q] = "run"
    BY <1>1
  <2>7. judge = "answer" => i + 1 \in Racers
    BY DEF MainKeepsCount, TypeOK, Racers
  <2>8. qnum' = queue'[RUNNR_CAME] + queue'[RUN_IS_OVR]
                  + IF judge' = "answer" /\ pc'[i' + 1] # "run" THEN 1 ELSE 0
    BY <1>2, <2>3, <2>6, <2>7 DEF MessagesExact
  <2>9. QED
    BY <1>2, <2>4, <2>5, <2>6, <2>8 DEF MessagesExact
<1>5. RunsFollowCalls'
  BY <1>1 DEF RunsFollowCalls, At
<1>6. MainKeepsCount'
  BY <1>1, RunnerKeepsMain
<1>7. QED
  BY <1>3, <1>4, <1>5, <1>6

LEMMA StartRunStep ==
  ASSUME IInv, NEW r \in Racers, StartRun(r), UNCHANGED <<judge, i, main, index>>
  PROVE  IInv'
<1> USE DEF IInv
<1>1. /\ Goto(r, "ready", "run")
      /\ pc[r] = "ready" /\ pc'[r] = "run"
      /\ \A q \in Racers : q # r => pc'[q] = pc[q]
      /\ pc' \in [Racers -> {"unborn", "come", "ready", "run", "finish", "away"}]
  BY DEF StartRun, Goto, TypeOK
<1>2. /\ queue' \in [Types -> Nat]
      /\ queue[r] > 0 /\ queue[r] \in Nat
      /\ qnum' = qnum - 1
      /\ queue'[r] = queue[r] - 1
      /\ queue'[RUNNR_CAME] = queue[RUNNR_CAME]
      /\ queue'[RUN_IS_OVR] = queue[RUN_IS_OVR]
      /\ \A q \in Racers : q # r => queue'[q] = queue[q]
  BY TypesDistinct, MessageCalls DEF StartRun, TypeOK
<1>3. judge = "answer" /\ i + 1 = r /\ queue[r] = 1
  BY <1>1, <1>2 DEF MessagesExact
<1>4. MessagesExact'
  <2>1. /\ At({"ready", "run", "finish", "away"})'
             = At({"ready", "run", "finish", "away"})
        /\ At({"away"})' = At({"away"})
    BY <1>1, AtMoves
  <2>2. Heard' = Heard /\ Told' = Told
    BY DEF Heard, Told
  <2>3. /\ Heard' + queue'[RUNNR_CAME]
             = Cardinality(At({"ready", "run", "finish", "away"})')
        /\ queue'[RUN_IS_OVR] + Cardinality(At({"away"})') = Told'
    BY <1>2, <2>1, <2>2 DEF MessagesExact
  <2>4. \A q \in Racers :
          queue'[q] + (IF pc'[q] = "run" THEN 1 ELSE 0)
            = IF judge' = "answer" /\ i' + 1 = q THEN 1 ELSE 0
    BY <1>1, <1>2, <1>3 DEF MessagesExact
  <2>5. qnum = queue[RUNNR_CAME] + queue[RUN_IS_OVR] + 1
    BY <1>1, <1>3 DEF MessagesExact
  <2>6. qnum' = queue'[RUNNR_CAME] + queue'[RUN_IS_OVR] + 0
    BY <1>2, <2>5, TypesDistinct DEF TypeOK
  <2>7. QED
    BY <1>1, <1>3, <2>3, <2>4, <2>6 DEF MessagesExact
<1>5. TypeOK'
  <2>1. qnum >= 1
    BY <1>1, <1>3, TypesDistinct DEF MessagesExact, TypeOK
  <2>2. QED
    BY <1>1, <1>2, <2>1 DEF TypeOK
<1>6. RunsFollowCalls'
  BY <1>1, <1>3 DEF RunsFollowCalls, At, TypeOK, Racers
<1>7. MainKeepsCount'
  BY <1>1, RunnerKeepsMain
<1>8. QED
  BY <1>4, <1>5, <1>6, <1>7

LEMMA EndRunStep ==
  ASSUME IInv, NEW r \in Racers, EndRun(r), UNCHANGED <<judge, i, main, index>>
  PROVE  IInv'
<1> USE DEF IInv
<1>1. /\ Goto(r, "run", "finish")
      /\ pc[r] = "run" /\ pc'[r] = "finish"
      /\ \A q \in Racers : q # r => pc'[q] = pc[q]
      /\ pc' \in [Racers -> {"unborn", "come", "ready", "run", "finish", "away"}]
  BY DEF EndRun, Goto, TypeOK
<1>2. /\ queue' \in [Types -> Nat]
      /\ qnum' \in 0 .. QUEUE_LIMIT
      /\ qnum' = qnum + 1
      /\ queue'[r] = queue[r] + 1
      /\ queue'[RUNNR_CAME] = queue[RUNNR_CAME]
      /\ queue'[RUN_IS_OVR] = queue[RUN_IS_OVR]
      /\ \A q \in Racers : q # r => queue'[q] = queue[q]
  BY TypesDistinct, MessageCalls DEF EndRun
<1>3. judge = "answer" /\ i + 1 = r /\ queue[r] = 0
  BY <1>1, TypesDistinct DEF MessagesExact, TypeOK
<1>4. TypeOK'
  BY <1>1, <1>2 DEF TypeOK
<1>5. MessagesExact'
  <2>1. /\ At({"ready", "run", "finish", "away"})'
             = At({"ready", "run", "finish", "away"})
        /\ At({"away"})' = At({"away"})
    BY <1>1, AtMoves
  <2>2. Heard' = Heard /\ Told' = Told
    BY DEF Heard, Told
  <2>3. /\ Heard' + queue'[RUNNR_CAME]
             = Cardinality(At({"ready", "run", "finish", "away"})')
        /\ queue'[RUN_IS_OVR] + Cardinality(At({"away"})') = Told'
    BY <1>2, <2>1, <2>2 DEF MessagesExact
  <2>4. \A q \in Racers :
          queue'[q] + (IF pc'[q] = "run" THEN 1 ELSE 0)
            = IF judge' = "answer" /\ i' + 1 = q THEN 1 ELSE 0
    BY <1>1, <1>2, <1>3 DEF MessagesExact
  <2>5. qnum = queue[RUNNR_CAME] + queue[RUN_IS_OVR] + 0
    BY <1>1, <1>3 DEF MessagesExact
  <2>6. qnum' = queue'[RUNNR_CAME] + queue'[RUN_IS_OVR] + 1
    BY <1>2, <2>5, TypesDistinct DEF TypeOK
  <2>7. QED
    BY <1>1, <1>3, <2>3, <2>4, <2>6 DEF MessagesExact
<1>6. RunsFollowCalls'
  BY <1>1, <1>3 DEF RunsFollowCalls, At
<1>7. MainKeepsCount'
  BY <1>1, RunnerKeepsMain
<1>8. QED
  BY <1>4, <1>5, <1>6, <1>7

LEMMA GoAwayStep ==
  ASSUME IInv, NEW r \in Racers, GoAway(r), UNCHANGED <<judge, i, main, index>>
  PROVE  IInv'
<1> USE DEF IInv
<1>1. /\ Goto(r, "finish", "away")
      /\ pc[r] = "finish" /\ pc'[r] = "away"
      /\ \A q \in Racers : q # r => pc'[q] = pc[q]
      /\ pc' \in [Racers -> {"unborn", "come", "ready", "run", "finish", "away"}]
  BY DEF GoAway, Goto, TypeOK
<1>2. /\ queue' \in [Types -> Nat]
      /\ queue[RUN_IS_OVR] > 0
      /\ qnum' = qnum - 1
      /\ queue'[RUN_IS_OVR] = queue[RUN_IS_OVR] - 1
      /\ queue'[RUNNR_CAME] = queue[RUNNR_CAME]
      /\ \A q \in Racers : queue'[q] = queue[q]
  BY TypesDistinct, MessageCalls DEF GoAway
<1>3. judge \in {"close", "done"}
  BY <1>2, AtCounts, TypesDistinct DEF MessagesExact, Told, TypeOK
<1>4. MessagesExact'
  <2>1. /\ At({"ready", "run", "finish", "away"})'
             = At({"ready", "run", "finish", "away"})
        /\ Cardinality(At({"away"})') = Cardinality(At({"away"})) + 1
    BY <1>1, AtMoves
  <2>2. Heard' = Heard /\ Told' = Told
    BY DEF Heard, Told
  <2>3. /\ queue[RUN_IS_OVR] \in Nat /\ queue[RUNNR_CAME] \in Nat
        /\ Cardinality(At({"away"})) \in Nat
    BY AtCounts, TypesDistinct DEF TypeOK
  <2>4. Heard' + queue'[RUNNR_CAME]
          = Cardinality(At({"ready", "run", "finish", "away"})')
    BY <1>2, <2>1, <2>2 DEF MessagesExact
  <2>5. queue'[RUN_IS_OVR] + Cardinality(At({"away"})') = Told'
    BY <1>2, <2>1, <2>2, <2>3 DEF MessagesExact
  <2>6. \A q \in Racers :
          queue'[q] + (IF pc'[q] = "run" THEN 1 ELSE 0)
            = IF judge' = "answer" /\ i' + 1 = q THEN 1 ELSE 0
    BY <1>1, <1>2 DEF MessagesExact
  <2>7. qnum' = queue'[RUNNR_CAME] + queue'[RUN_IS_OVR] + 0
    BY <1>2, <1>3, <2>3 DEF MessagesExact
  <2>8. QED
    BY <1>3, <2>4, <2>5, <2>6, <2>7 DEF MessagesExact
<1>5. TypeOK'
  <2>1. qnum >= 1
    BY <1>2, <1>3, TypesDistinct DEF MessagesExact, TypeOK
  <2>2. QED
    BY <1>1, <1>2, <2>1 DEF TypeOK
<1>6. RunsFollowCalls'
  BY <1>1, <1>3 DEF RunsFollowCalls, At
<1>7. MainKeepsCount'
  BY <1>1, RunnerKeepsMain
<1>8. QED
  BY <1>4, <1>5, <1>6, <1>7

-----------------------------------------------------------------------------
(* A judge's step leaves the runners where they are.                       *)
LEMMA SamePlaces ==
  ASSUME UNCHANGED pc
  PROVE  \A S : At(S)' = At(S)
BY DEF At

LEMMA GatherStep ==
  ASSUME IInv, Gather, UNCHANGED <<pc, main, index>>
  PROVE  IInv'
<1> USE DEF IInv
<1>1. /\ judge = "gather" /\ judge' = "gather"
      /\ i < num_of_runnrs /\ i' = i + 1
  BY DEF Gather, Loop
<1>2. /\ queue' \in [Types -> Nat]
      /\ queue[RUNNR_CAME] > 0
      /\ qnum' = qnum - 1
      /\ queue'[RUNNR_CAME] = queue[RUNNR_CAME] - 1
      /\ queue'[RUN_IS_OVR] = queue[RUN_IS_OVR]
      /\ \A q \in Racers : queue'[q] = queue[q]
  BY TypesDistinct, MessageCalls DEF Gather
<1>3. /\ queue[RUNNR_CAME] \in Nat /\ queue[RUN_IS_OVR] \in Nat
      /\ i \in Nat
  BY TypesDistinct DEF TypeOK
<1>4. qnum = queue[RUNNR_CAME] + queue[RUN_IS_OVR]
  BY <1>1, <1>3 DEF MessagesExact
<1>5. TypeOK'
  BY <1>1, <1>2, <1>3, <1>4 DEF TypeOK
<1>6. MessagesExact'
  <2>1. Heard = i /\ Heard' = i + 1 /\ Told = 0 /\ Told' = 0
    BY <1>1 DEF Heard, Told
  <2>2. /\ Heard' + queue'[RUNNR_CAME]
             = Cardinality(At({"ready", "run", "finish", "away"})')
        /\ queue'[RUN_IS_OVR] + Cardinality(At({"away"})') = Told'
    BY <1>2, <1>3, <2>1, SamePlaces DEF MessagesExact
  <2>3. QED
    BY <1>1, <1>2, <1>3, <1>4, <2>2 DEF MessagesExact
<1>7. RunsFollowCalls'
  BY <1>1 DEF RunsFollowCalls, At
<1>8. MainKeepsCount'
  BY <1>1 DEF MainKeepsCount
<1>9. QED
  BY <1>5, <1>6, <1>7, <1>8

LEMMA CallStep ==
  ASSUME IInv, Call, UNCHANGED <<pc, main, index>>
  PROVE  IInv'
<1> USE DEF IInv
<1>1. /\ judge = "call" /\ judge' = "answer"
      /\ i < num_of_runnrs /\ i' = i
  BY DEF Call
<1>2. i + 1 \in Racers /\ i \in Nat
  BY <1>1 DEF TypeOK, Racers
<1>3. /\ queue' \in [Types -> Nat]
      /\ qnum' \in 0 .. QUEUE_LIMIT
      /\ qnum' = qnum + 1
      /\ queue'[i + 1] = queue[i + 1] + 1
      /\ queue'[RUNNR_CAME] = queue[RUNNR_CAME]
      /\ queue'[RUN_IS_OVR] = queue[RUN_IS_OVR]
      /\ \A q \in Racers : q # i + 1 => queue'[q] = queue[q]
  BY <1>2, TypesDistinct, MessageCalls DEF Call
<1>4. /\ queue[RUNNR_CAME] \in Nat /\ queue[RUN_IS_OVR] \in Nat
      /\ \A q \in Racers : queue[q] \in Nat
  BY TypesDistinct DEF TypeOK
<1>5. \A q \in Racers : queue[q] = 0 /\ pc[q] # "run"
  BY <1>1, <1>4 DEF MessagesExact
<1>6. TypeOK'
  BY <1>1, <1>3 DEF TypeOK, Started
<1>7. MessagesExact'
  <2>1. Heard = Heard' /\ Told = Told'
    BY <1>1 DEF Heard, Told
  <2>2. /\ Heard' + queue'[RUNNR_CAME]
             = Cardinality(At({"ready", "run", "finish", "away"})')
        /\ queue'[RUN_IS_OVR] + Cardinality(At({"away"})') = Told'
    BY <1>3, <2>1, SamePlaces DEF MessagesExact
  <2>3. qnum = queue[RUNNR_CAME] + queue[RUN_IS_OVR]
    BY <1>1, <1>4 DEF MessagesExact
  <2>4. pc'[i' + 1] # "run"
    BY <1>1, <1>2, <1>5
  <2>5. qnum' = queue'[RUNNR_CAME] + queue'[RUN_IS_OVR] + 1
    BY <1>3, <2>3
  <2>6. \A q \in Racers :
          queue'[q] + (IF pc'[q] = "run" THEN 1 ELSE 0)
            = IF judge' = "answer" /\ i' + 1 = q THEN 1 ELSE 0
    BY <1>1, <1>3, <1>5
  <2>7. QED
    BY <1>1, <2>2, <2>4, <2>5, <2>6 DEF MessagesExact
<1>8. RunsFollowCalls'
  BY <1>1, <1>2 DEF RunsFollowCalls, At, Racers
<1>9. MainKeepsCount'
  BY <1>1 DEF MainKeepsCount
<1>10. QED
  BY <1>6, <1>7, <1>8, <1>9

(* The judge takes a message of runner i + 1's type: either the answer,    *)
(* after which the runner is past its run, or the call, in which case the  *)
(* runner has not run.                                                     *)
LEMMA AnswerStep ==
  ASSUME IInv, Answer, UNCHANGED <<pc, main, index>>
  PROVE  IInv'
<1> USE DEF IInv
<1>1. /\ judge = "answer" /\ judge' = "call"
      /\ i' = i + 1
  BY DEF Answer
<1>2. i + 1 \in Racers /\ i \in Nat /\ i < num_of_runnrs
  BY <1>1 DEF TypeOK, Racers, MainKeepsCount
<1>3. /\ queue' \in [Types -> Nat]
      /\ queue[i + 1] > 0
      /\ qnum' = qnum - 1
      /\ queue'[i + 1] = queue[i + 1] - 1
      /\ queue'[RUNNR_CAME] = queue[RUNNR_CAME]
      /\ queue'[RUN_IS_OVR] = queue[RUN_IS_OVR]
      /\ \A q \in Racers : q # i + 1 => queue'[q] = queue[q]
  BY <1>2, TypesDistinct, MessageCalls DEF Answer
<1>4. /\ queue[RUNNR_CAME] \in Nat /\ queue[RUN_IS_OVR] \in Nat
      /\ \A q \in Racers : queue[q] \in Nat
  BY TypesDistinct DEF TypeOK
<1>5. /\ queue[i + 1] = 1 /\ pc[i + 1] # "run"
      /\ \A q \in Racers : q # i + 1 => queue[q] = 0 /\ pc[q] # "run"
  BY <1>1, <1>2, <1>3, <1>4 DEF MessagesExact
<1>6. qnum = queue[RUNNR_CAME] + queue[RUN_IS_OVR] + 1
  BY <1>1, <1>5 DEF MessagesExact
<1>7. TypeOK'
  BY <1>1, <1>2, <1>3, <1>4, <1>6 DEF TypeOK, Started
<1>8. MessagesExact'
  <2>1. Heard = Heard' /\ Told = Told'
    BY <1>1 DEF Heard, Told
  <2>2. /\ Heard' + queue'[RUNNR_CAME]
             = Cardinality(At({"ready", "run", "finish", "away"})')
        /\ queue'[RUN_IS_OVR] + Cardinality(At({"away"})') = Told'
    BY <1>3, <2>1, SamePlaces DEF MessagesExact
  <2>3. \A q \in Racers : queue'[q] = 0 /\ pc'[q] # "run"
    BY <1>3, <1>5
  <2>4. qnum' = queue'[RUNNR_CAME] + queue'[RUN_IS_OVR] + 0
    BY <1>3, <1>4, <1>6
  <2>5. QED
    BY <1>1, <2>2, <2>3, <2>4 DEF MessagesExact
<1>9. RunsFollowCalls'
  BY <1>1, <1>2, <1>5 DEF RunsFollowCalls, At, Racers
<1>10. MainKeepsCount'
  BY <1>1 DEF MainKeepsCount
<1>11. QED
  BY <1>7, <1>8, <1>9, <1>10

LEMMA CloseStep ==
  ASSUME IInv, Close, UNCHANGED <<pc, main, index>>
  PROVE  IInv'
<1> USE DEF IInv
<1>1. /\ judge = "close" /\ judge' = "close"
      /\ i < num_of_runnrs /\ i' = i + 1
  BY DEF Close, Loop
<1>2. /\ queue' \in [Types -> Nat]
      /\ qnum' \in 0 .. QUEUE_LIMIT
      /\ qnum' = qnum + 1
      /\ queue'[RUN_IS_OVR] = queue[RUN_IS_OVR] + 1
      /\ queue'[RUNNR_CAME] = queue[RUNNR_CAME]
      /\ \A q \in Racers : queue'[q] = queue[q]
  BY TypesDistinct, MessageCalls DEF Close
<1>3. /\ queue[RUNNR_CAME] \in Nat /\ queue[RUN_IS_OVR] \in Nat
      /\ i \in Nat /\ Cardinality(At({"away"})) \in Nat
  BY TypesDistinct, AtCounts DEF TypeOK
<1>4. TypeOK'
  BY <1>1, <1>2, <1>3 DEF TypeOK
<1>5. MessagesExact'
  <2>1. Heard' = Heard /\ Told = i /\ Told' = i + 1
    BY <1>1 DEF Heard, Told
  <2>2. /\ Heard' + queue'[RUNNR_CAME]
             = Cardinality(At({"ready", "run", "finish", "away"})')
        /\ queue'[RUN_IS_OVR] + Cardinality(At({"away"})') = Told'
    BY <1>2, <1>3, <2>1, SamePlaces DEF MessagesExact
  <2>3. QED
    BY <1>1, <1>2, <1>3, <2>2 DEF MessagesExact
<1>6. RunsFollowCalls'
  BY <1>1 DEF RunsFollowCalls, At
<1>7. MainKeepsCount'
  BY <1>1 DEF MainKeepsCount
<1>8. QED
  BY <1>4, <1>5, <1>6, <1>7

(* The exits of the judge's three loops.                                   *)
LEMMA NextLoopStep ==
  ASSUME IInv, UNCHANGED <<pc, main, index>>,
         \/ NextLoop("gather", "call")
         \/ NextLoop("call", "close")
         \/ NextLoop("close", "done")
  PROVE  IInv'
<1> USE DEF IInv
<1>1. /\ UNCHANGED <<queue, qnum>>
      /\ i = num_of_runnrs /\ i' = 0
      /\ \/ judge = "gather" /\ judge' = "call"
         \/ judge = "call" /\ judge' = "close"
         \/ judge = "close" /\ judge' = "done"
  BY DEF NextLoop
<1>2. TypeOK'
  BY <1>1 DEF TypeOK, Started
<1>3. MessagesExact'
  <2>1. Heard' = Heard /\ Told' = Told
    BY <1>1 DEF Heard, Told
  <2>2. QED
    BY <1>1, <2>1, SamePlaces DEF MessagesExact
<1>4. RunsFollowCalls'
  BY <1>1 DEF RunsFollowCalls, At
<1>5. MainKeepsCount'
  BY <1>1 DEF MainKeepsCount
<1>6. QED
  BY <1>2, <1>3, <1>4, <1>5

LEMMA MainStep ==
  ASSUME IInv, Main \/ ForkFails
  PROVE  IInv'
<1> USE DEF IInv
<1>1. CASE ForkRunner
  <2>1. /\ index < num_of_runnrs /\ index \in Nat
        /\ index + 1 \in Racers /\ index' = index + 1
        /\ main = "fork"
        /\ UNCHANGED <<queue, qnum, judge, i, main>>
    BY <1>1 DEF ForkRunner, TypeOK, Racers, judge_vars
  <2>2. /\ pc[index + 1] = "unborn" /\ pc'[index + 1] = "come"
        /\ \A q \in Racers : q # index + 1 => pc'[q] = pc[q]
        /\ pc' \in [Racers -> {"unborn", "come", "ready", "run", "finish", "away"}]
    BY <1>1, <2>1 DEF ForkRunner, TypeOK, MainKeepsCount
  <2>3. TypeOK'
    BY <2>1, <2>2 DEF TypeOK
  <2>4. MessagesExact'
    <3>1. /\ At({"ready", "run", "finish", "away"})'
               = At({"ready", "run", "finish", "away"})
          /\ At({"away"})' = At({"away"})
      BY <2>1, <2>2 DEF At
    <3>2. \A q \in Racers : pc'[q] = "run" <=> pc[q] = "run"
      BY <2>2
    <3>3. Heard' = Heard /\ Told' = Told
      BY <2>1 DEF Heard, Told
    <3>4. judge = "answer" => i + 1 \in Racers
      BY DEF MainKeepsCount, TypeOK, Racers
    <3>5. QED
      BY <2>1, <3>1, <3>2, <3>3, <3>4 DEF MessagesExact
  <2>5. RunsFollowCalls'
    BY <2>1, <2>2 DEF RunsFollowCalls, At
  <2>6. MainKeepsCount'
    BY <2>1, <2>2 DEF MainKeepsCount, Racers
  <2>7. QED
    BY <2>3, <2>4, <2>5, <2>6
<1>2. CASE ForkJudge
  <2>1. /\ main = "judge" /\ main' = "fork"
        /\ judge = "unborn" /\ judge' = "gather" /\ i = 0
        /\ UNCHANGED <<queue, qnum, pc, i, index>>
    BY <1>2 DEF ForkJudge, MainKeepsCount
  <2>2. TypeOK'
    BY <2>1 DEF TypeOK, Started
  <2>3. MessagesExact'
    <3>1. Heard' = Heard /\ Told' = Told
      BY <2>1 DEF Heard, Told
    <3>2. QED
      BY <2>1, <3>1, SamePlaces DEF MessagesExact
  <2>4. RunsFollowCalls'
    BY <2>1 DEF RunsFollowCalls, At
  <2>5. MainKeepsCount'
    BY <2>1 DEF MainKeepsCount
  <2>6. QED
    BY <2>2, <2>3, <2>4, <2>5
<1>3. CASE MainEnds \/ ForkFails
  <2>1. /\ main' \in {"end", "failed"}
        /\ main' = "end" => main = "fork" /\ index = num_of_runnrs
        /\ UNCHANGED <<queue, qnum, pc, judge, i, index>>
    BY <1>3 DEF MainEnds, ForkFails, judge_vars
  <2>2. TypeOK'
    BY <2>1 DEF TypeOK
  <2>3. MessagesExact' /\ RunsFollowCalls'
    BY <2>1, SamePlaces DEF MessagesExact, RunsFollowCalls, Heard, Told
  <2>4. MainKeepsCount'
    BY <2>1 DEF MainKeepsCount
  <2>5. QED
    BY <2>2, <2>3, <2>4
<1>4. QED
  BY <1>1, <1>2, <1>3 DEF Main

-----------------------------------------------------------------------------
LEMMA InitEstablishes == Init => IInv
<1> SUFFICES ASSUME Init PROVE IInv
  OBVIOUS
<1> USE DEF Init
<1>1. TypeOK
  BY DEF TypeOK
<1>2. MessagesExact
  <2>1. At({"ready", "run", "finish", "away"}) = {} /\ At({"away"}) = {}
    BY DEF At
  <2>2. /\ Cardinality(At({"ready", "run", "finish", "away"})) = 0
        /\ Cardinality(At({"away"})) = 0
    BY <2>1, FS_EmptySet
  <2>3. \A t \in Types : queue[t] = 0
    OBVIOUS
  <2>4. QED
    BY <2>2, <2>3, TypesDistinct DEF MessagesExact, Heard, Told
<1>3. RunsFollowCalls
  BY DEF RunsFollowCalls, At
<1>4. MainKeepsCount
  BY DEF MainKeepsCount, Racers
<1>5. QED
  BY <1>1, <1>2, <1>3, <1>4 DEF IInv

LEMMA NextPreserves == IInv /\ [Next]_vars => IInv'
<1> SUFFICES ASSUME IInv, [Next]_vars PROVE IInv'
  OBVIOUS
<1>1. ASSUME NEW r \in Racers, Runner(r)
      PROVE  IInv'
  BY <1>1, ComeStep, StartRunStep, EndRunStep, GoAwayStep
  DEF Runner, judge_vars, main_vars
<1>2. CASE Judge
  BY <1>2, GatherStep, CallStep, AnswerStep, CloseStep, NextLoopStep
  DEF Judge, main_vars
<1>3. CASE Main \/ ForkFails
  BY <1>3, MainStep
<1>4. CASE UNCHANGED vars
  <2> USE <1>4 DEF vars
  <2>1. TypeOK'
    BY DEF IInv, TypeOK
  <2>2. MessagesExact'
    BY SamePlaces DEF IInv, MessagesExact, Heard, Told
  <2>3. RunsFollowCalls'
    BY DEF IInv, RunsFollowCalls, At
  <2>4. MainKeepsCount'
    BY DEF IInv, MainKeepsCount
  <2>5. QED
    BY <2>1, <2>2, <2>3, <2>4 DEF IInv
<1>5. QED
  BY <1>1, <1>2, <1>3, <1>4 DEF Next

(* The inductive invariant holds in every reachable state.                 *)
THEOREM Invariance == Spec => []IInv
<1>1. QED
  BY InitEstablishes, NextPreserves, PTL DEF Spec

(* Every variable keeps its type; the queue never holds more than fits.    *)
THEOREM TypeCorrect == Spec => []TypeOK
<1>1. IInv => TypeOK
  BY DEF IInv
<1>2. QED
  BY <1>1, Invariance, PTL

(* Every message in the queue is accounted for.                            *)
THEOREM MessageAccount == Spec => []MessagesExact
<1>1. IInv => MessagesExact
  BY DEF IInv
<1>2. QED
  BY <1>1, Invariance, PTL

(* The runners run in the order in which the judge calls them.             *)
THEOREM RunOrder == Spec => []RunsFollowCalls
<1>1. IInv => RunsFollowCalls
  BY DEF IInv
<1>2. QED
  BY <1>1, Invariance, PTL

(* Once the judge has heard num_of_runnrs newcomers, all have come: the    *)
(* runners counted are num_of_runnrs of num_of_runnrs.                     *)
LEMMA HeardMeansCome == IInv => AllHaveCome
<1> SUFFICES ASSUME IInv, judge \in {"call", "answer", "close", "done"}
             PROVE  At({"ready", "run", "finish", "away"}) = Racers
  BY DEF AllHaveCome, At
<1>1. Heard = num_of_runnrs
  BY DEF Heard
<1>2. queue[RUNNR_CAME] \in Nat
  BY TypesDistinct DEF IInv, TypeOK
<1>3. Cardinality(At({"ready", "run", "finish", "away"})) >= num_of_runnrs
  BY <1>1, <1>2 DEF IInv, MessagesExact
<1>4. QED
  BY <1>3, AtCounts

(* The competition does not start before everybody has come.               *)
THEOREM AllCome == Spec => []AllHaveCome
<1>1. QED
  BY HeardMeansCome, Invariance, PTL

(* While the judge has not begun to tell the end, the queue holds nothing  *)
(* but newcomers and the one call or answer under way.                     *)
LEMMA QueueEmpty ==
  ASSUME IInv, judge \notin {"close", "done"}
  PROVE  /\ queue[RUN_IS_OVR] = 0
         /\ judge \in {"call", "answer"} => queue[RUNNR_CAME] = 0
<1> USE DEF IInv
<1>1. /\ queue[RUN_IS_OVR] \in Nat /\ queue[RUNNR_CAME] \in Nat
  BY TypesDistinct DEF TypeOK
<1>2. queue[RUN_IS_OVR] = 0
  BY <1>1, AtCounts DEF MessagesExact, Told
<1>3. judge \in {"call", "answer"} => queue[RUNNR_CAME] = 0
  BY <1>1, AtCounts DEF MessagesExact, Heard
<1>4. QED
  BY <1>2, <1>3

(* What a standstill can look like: a fork failed and the judge waits for  *)
(* a runner that does not exist, or only runners whose call was taken back *)
(* remain, with the judge if the queue is too small.                       *)
THEOREM StandstillShape == Spec => []StandstillExplained
<1>1. ASSUME IInv, Standstill
      PROVE  \/ main = "failed" /\ judge \in {"unborn", "gather"}
             \/ /\ judge = "done" \/ (judge = "close" /\ QueueFull)
                /\ At({"ready"}) \cup At({"away"}) = Racers
  <2> USE <1>1 DEF IInv
  <2>1. /\ queue[RUN_IS_OVR] \in Nat /\ queue[RUNNR_CAME] \in Nat
        /\ qnum \in Nat
    BY TypesDistinct DEF TypeOK
  <2>2. CASE judge = "unborn"
    BY <2>2 DEF Standstill, MainKeepsCount
  <2>3. CASE judge = "gather"
    <3>1. SUFFICES ASSUME main = "end" PROVE FALSE
      BY <2>3 DEF Standstill
    <3>2. queue[RUNNR_CAME] = 0 /\ i < num_of_runnrs
      BY <2>3 DEF Standstill
    <3>3. qnum = 0
      BY <2>3, <3>2, QueueEmpty DEF MessagesExact
    <3>4. ~ QueueFull
      BY <3>3 DEF QueueFull
    <3>5. \A r \in Racers : pc[r] \in {"ready", "run", "finish", "away"}
      BY <3>1, <3>4 DEF Standstill, At, MainKeepsCount, TypeOK, Racers
    <3>6. Cardinality(At({"ready", "run", "finish", "away"})) = num_of_runnrs
      BY <3>5, RacersFinite DEF At
    <3>7. QED
      BY <2>3, <3>2, <3>6 DEF MessagesExact, Heard, TypeOK
  <2>4. CASE judge = "call"
    <3>1. qnum = 0
      BY <2>4, QueueEmpty DEF MessagesExact
    <3>2. QED
      BY <2>4, <3>1 DEF Standstill, QueueFull
  <2>5. CASE judge = "answer"
    <3>1. i + 1 \in Racers /\ queue[i + 1] = 0
      BY <2>5 DEF Standstill, MainKeepsCount, TypeOK, Racers
    <3>2. pc[i + 1] = "run"
      BY <2>5, <3>1 DEF MessagesExact
    <3>3. qnum = 0
      BY <2>5, <3>2, QueueEmpty DEF MessagesExact
    <3>4. QED
      BY <3>1, <3>2, <3>3 DEF Standstill, QueueFull, At
  <2>6. CASE judge \in {"close", "done"}
    <3>1. \A r \in Racers : pc[r] \in {"ready", "run", "finish", "away"}
      BY <2>6, HeardMeansCome DEF AllHaveCome
    <3>2. \A r \in Racers : pc[r] # "run"
      BY <2>6, TypesDistinct DEF MessagesExact, TypeOK
    <3>3. queue[RUNNR_CAME] = 0
      BY <2>1, <2>6, AtCounts DEF MessagesExact, Heard
    <3>4. judge = "close" => i < num_of_runnrs /\ QueueFull
      BY DEF Standstill
    <3>5. At({"finish"}) = {}
      <4>1. SUFFICES ASSUME At({"finish"}) # {} PROVE FALSE
        OBVIOUS
      <4>2. queue[RUN_IS_OVR] = 0
        BY <4>1 DEF Standstill
      <4>3. qnum = 0
        BY <2>6, <3>3, <4>2 DEF MessagesExact
      <4>4. judge = "done"
        BY <2>6, <3>4, <4>3 DEF QueueFull
      <4>5. At({"away"}) = Racers
        BY <4>2, <4>4, AtCounts DEF MessagesExact, Told
      <4>6. QED
        BY <4>1, <4>5 DEF At
    <3>6. QED
      BY <2>6, <3>1, <3>2, <3>4, <3>5 DEF At
  <2>7. QED
    BY <2>2, <2>3, <2>4, <2>5, <2>6 DEF TypeOK, Started
<1>2. IInv => StandstillExplained
  BY <1>1 DEF StandstillExplained
<1>3. QED
  BY <1>2, Invariance, PTL

-----------------------------------------------------------------------------
LEMMA InitRefines == Init => RaceImpl!Init
BY DEF Init, RaceImpl!Init, At

LEMMA RunnerRefines ==
  ASSUME IInv, NEW r \in Racers, Runner(r)
  PROVE  [RaceImpl!Next]_(RaceImpl!vars)
<1> USE DEF IInv, RaceImpl!vars
<1>1. UNCHANGED <<judge, i>>
  BY DEF Runner, judge_vars
<1>2. CASE Come(r)
  <2>1. Goto(r, "come", "ready")
    BY <1>2 DEF Come
  <2>2. /\ At({"run"})' = At({"run"})
        /\ At({"finish", "away"})' = At({"finish", "away"})
        /\ At({"away"})' = At({"away"})
    BY <2>1, AtMoves
  <2>3. QED
    BY <1>1, <2>2
<1>3. CASE StartRun(r)
  <2>1. Goto(r, "ready", "run") /\ pc[r] = "ready"
    BY <1>3 DEF StartRun, Goto
  <2>2. queue[r] > 0 /\ queue[r] \in Nat
    BY <1>3, TypesDistinct, MessageCalls DEF StartRun, TypeOK
  <2>3. judge = "answer" /\ i + 1 = r
    BY <2>1, <2>2 DEF MessagesExact
  <2>4. At({"run"}) = {} /\ r \notin At({"finish", "away"})
    <3>1. \A q \in Racers : pc[q] = "run" => q = r
      BY <2>3, TypesDistinct DEF MessagesExact, TypeOK
    <3>2. QED
      BY <2>1, <3>1 DEF At
  <2>5. /\ At({"run"})' = At({"run"}) \cup {r}
        /\ At({"finish", "away"})' = At({"finish", "away"})
        /\ At({"away"})' = At({"away"})
    BY <2>1, AtMoves
  <2>6. RaceImpl!Start(r)
    BY <1>1, <2>3, <2>4, <2>5 DEF RaceImpl!Start
  <2>7. QED
    BY <2>6 DEF RaceImpl!Next
<1>4. CASE EndRun(r)
  <2>1. Goto(r, "run", "finish") /\ pc[r] = "run" /\ pc'[r] = "finish"
        /\ \A q \in Racers : q # r => pc'[q] = pc[q]
    BY <1>4 DEF EndRun, Goto, TypeOK
  <2>2. /\ r \in At({"run"}) /\ At({"run"})' = At({"run"}) \ {r}
        /\ At({"finish", "away"})' = At({"finish", "away"}) \cup {r}
        /\ At({"away"})' = At({"away"})
    BY <2>1 DEF At
  <2>3. RaceImpl!Finish(r)
    BY <1>1, <2>2 DEF RaceImpl!Finish
  <2>4. QED
    BY <2>3 DEF RaceImpl!Next
<1>5. CASE GoAway(r)
  <2>1. Goto(r, "finish", "away") /\ pc[r] = "finish"
    BY <1>5 DEF GoAway, Goto
  <2>2. queue[RUN_IS_OVR] > 0
    BY <1>5, TypesDistinct, MessageCalls DEF GoAway
  <2>3. judge \in {"close", "done"}
    BY <2>2, QueueEmpty
  <2>4. /\ At({"run"})' = At({"run"})
        /\ At({"finish", "away"})' = At({"finish", "away"})
        /\ At({"away"})' = At({"away"}) \cup {r}
        /\ r \in At({"finish", "away"}) \ At({"away"})
    <3>1. /\ At({"run"})' = At({"run"})
          /\ At({"finish", "away"})' = At({"finish", "away"})
          /\ At({"away"})' = At({"away"}) \cup {r}
      BY <2>1, AtMoves
    <3>2. r \in At({"finish", "away"}) \ At({"away"})
      BY <2>1 DEF At
    <3>3. QED
      BY <3>1, <3>2
  <2>5. RaceImpl!GoAway(r)
    BY <1>1, <2>3, <2>4 DEF RaceImpl!GoAway
  <2>6. QED
    BY <2>5 DEF RaceImpl!Next
<1>6. QED
  BY <1>2, <1>3, <1>4, <1>5 DEF Runner

LEMMA OthersRefine ==
  ASSUME IInv, Judge \/ Main \/ ForkFails
  PROVE  [RaceImpl!Next]_(RaceImpl!vars)
<1> USE DEF IInv, RaceImpl!vars
<1>1. CASE Judge
  <2>1. \A S : At(S)' = At(S)
    BY <1>1, SamePlaces DEF Judge
  <2>2. CASE NextLoop("call", "close")
    <3>1. judge = "call" /\ judge' = "close"
      BY <2>2 DEF NextLoop
    <3>2. At({"run"}) = {}
      BY <3>1, TypesDistinct DEF MessagesExact, At, TypeOK
    <3>3. RaceImpl!End
      BY <2>1, <3>1, <3>2 DEF RaceImpl!End
    <3>4. QED
      BY <3>3 DEF RaceImpl!Next
  <2>3. CASE ~ NextLoop("call", "close")
    <3>1. (judge \in {"close", "done"})' <=> judge \in {"close", "done"}
      BY <1>1, <2>3 DEF Judge, Gather, Call, Answer, Close, Loop, NextLoop
    <3>2. QED
      BY <2>1, <3>1
  <2>4. QED
    BY <2>2, <2>3
<1>2. CASE Main \/ ForkFails
  <2>1. /\ At({"run"})' = At({"run"})
        /\ At({"finish", "away"})' = At({"finish", "away"})
        /\ At({"away"})' = At({"away"})
    <3>1. CASE ForkRunner
      <4>1. index + 1 \in Racers
        BY <3>1 DEF ForkRunner, TypeOK, Racers
      <4>2. pc[index + 1] = "unborn"
        BY <4>1 DEF MainKeepsCount, TypeOK
      <4>3. QED
        BY <3>1, <4>1, <4>2 DEF ForkRunner, TypeOK, At
    <3>2. CASE ~ ForkRunner
      BY <1>2, <3>2, SamePlaces DEF Main, ForkJudge, MainEnds, ForkFails
    <3>3. QED
      BY <3>1, <3>2
  <2>2. (judge \in {"close", "done"})' <=> judge \in {"close", "done"}
    BY <1>2
    DEF Main, ForkJudge, ForkRunner, MainEnds, ForkFails, judge_vars,
        MainKeepsCount
  <2>3. QED
    BY <2>1, <2>2
<1>3. QED
  BY <1>1, <1>2

(* For every number of runners the program implements Race: the runners    *)
(* run one at a time and each at most once, nobody starts after the end    *)
(* was told, and only those that have run go away.                         *)
THEOREM Refinement == Spec => ImplementsRace
<1>1. IInv /\ [Next]_vars => [RaceImpl!Next]_(RaceImpl!vars)
  <2> SUFFICES ASSUME IInv, [Next]_vars
               PROVE  [RaceImpl!Next]_(RaceImpl!vars)
    OBVIOUS
  <2>1. CASE \E r \in Racers : Runner(r)
    BY <2>1, RunnerRefines
  <2>2. CASE Judge \/ Main \/ ForkFails
    BY <2>2, OthersRefine
  <2>3. CASE UNCHANGED vars
    BY <2>3, SamePlaces DEF vars, RaceImpl!vars
  <2>4. QED
    BY <2>1, <2>2, <2>3 DEF Next
<1>2. QED
  BY <1>1, InitRefines, Invariance, PTL
  DEF Spec, ImplementsRace, RaceImpl!Spec

-----------------------------------------------------------------------------
(* What is left to do, by position.                                        *)
LEMMA LeftOf ==
  ASSUME IInv
  PROVE  /\ \A r \in Racers :
              /\ RunnerLeft(r) \in Nat
              /\ pc[r] = "unborn" => RunnerLeft(r) = 5
              /\ pc[r] = "come" => RunnerLeft(r) = 4
              /\ pc[r] = "ready" => RunnerLeft(r) = 3
              /\ pc[r] = "run" => RunnerLeft(r) = 2
              /\ pc[r] = "finish" => RunnerLeft(r) = 1
         /\ JudgeLeft \in Nat
         /\ MainLeft \in Nat
<1>1. /\ i \in Nat /\ i <= num_of_runnrs /\ (judge = "answer" => i < num_of_runnrs)
      /\ index \in Nat /\ index <= num_of_runnrs
  BY DEF IInv, TypeOK, MainKeepsCount
<1>2. JudgeLeft \in Nat /\ MainLeft \in Nat
  BY <1>1 DEF IInv, TypeOK, Started, JudgeLeft, MainLeft
<1>3. QED
  BY <1>2 DEF IInv, TypeOK, RunnerLeft

LEMMA JudgeDescends ==
  ASSUME IInv, Judge
  PROVE  JudgeLeft' < JudgeLeft
<1>1. /\ i \in Nat /\ i <= num_of_runnrs
      /\ judge = "answer" => i < num_of_runnrs
  BY DEF IInv, TypeOK, MainKeepsCount
<1>2. \/ judge \in {"gather", "close"} /\ judge' = judge /\ i' = i + 1 /\ i < num_of_runnrs
      \/ judge = "call" /\ judge' = "answer" /\ i' = i /\ i < num_of_runnrs
      \/ judge = "answer" /\ judge' = "call" /\ i' = i + 1
      \/ /\ i = num_of_runnrs /\ i' = 0
         /\ \/ judge = "gather" /\ judge' = "call"
            \/ judge = "call" /\ judge' = "close"
            \/ judge = "close" /\ judge' = "done"
  BY DEF Judge, Gather, Call, Answer, Close, Loop, NextLoop
<1>3. QED
  BY <1>1, <1>2 DEF JudgeLeft

(* For any number of runners and any size of the queue: every step brings  *)
(* one process nearer to its end and none away from it (StepsGetOn), and   *)
(* what is left to do is a number, so that the steps of an execution run   *)
(* out.                                                                    *)
THEOREM StepsRunOut ==
  Spec => /\ StepsGetOn
          /\ [](/\ JudgeLeft \in Nat
                /\ MainLeft \in Nat
                /\ \A r \in Racers : RunnerLeft(r) \in Nat)
<1>1. IInv /\ [Next]_vars => [StepGetsOn]_vars
  <2> SUFFICES ASSUME IInv, Next PROVE StepGetsOn
    OBVIOUS
  <2>1. ASSUME NEW r \in Racers, Runner(r) PROVE StepGetsOn
    <3>1. /\ \/ pc[r] = "come" /\ pc'[r] = "ready"
             \/ pc[r] = "ready" /\ pc'[r] = "run"
             \/ pc[r] = "run" /\ pc'[r] = "finish"
             \/ pc[r] = "finish" /\ pc'[r] = "away"
          /\ \A q \in Racers : q # r => pc'[q] = pc[q]
      BY <2>1 DEF Runner, Come, StartRun, EndRun, GoAway, Goto, IInv, TypeOK
    <3>2. RunnerLeft(r)' < RunnerLeft(r)
      BY <3>1 DEF RunnerLeft
    <3>3. \A q \in Racers \ {r} : RunnerLeft(q)' = RunnerLeft(q)
      BY <3>1 DEF RunnerLeft
    <3>4. QED
      BY <2>1, <3>2, <3>3 DEF Runner, StepGetsOn
  <2>2. CASE Judge
    BY <2>2, JudgeDescends DEF Judge, StepGetsOn
  <2>3. CASE ForkRunner
    <3>1. /\ main = "fork" /\ main' = main /\ index' = index + 1
          /\ index \in Nat /\ index < num_of_runnrs /\ index + 1 \in Racers
          /\ JudgeLeft' = JudgeLeft
      BY <2>3 DEF ForkRunner, judge_vars, JudgeLeft, IInv, TypeOK, Racers
    <3>2. MainLeft' < MainLeft
      BY <3>1 DEF MainLeft
    <3>3. ASSUME NEW r \in Racers PROVE RunnerLeft(r)' <= RunnerLeft(r)
      <4>1. CASE r = index + 1
        <5>1. pc[r] = "unborn" /\ pc'[r] = "come"
          BY <2>3, <3>1, <4>1 DEF ForkRunner, IInv, TypeOK, MainKeepsCount
        <5>2. QED
          BY <5>1 DEF RunnerLeft
      <4>2. CASE r # index + 1
        <5>1. pc'[r] = pc[r]
          BY <2>3, <4>2 DEF ForkRunner, IInv, TypeOK
        <5>2. RunnerLeft(r)' = RunnerLeft(r)
          BY <5>1 DEF RunnerLeft
        <5>3. QED
          BY <5>2, LeftOf
      <4>3. QED
        BY <4>1, <4>2
    <3>4. QED
      BY <3>1, <3>2, <3>3, LeftOf DEF StepGetsOn
  <2>4. CASE ForkJudge \/ MainEnds \/ ForkFails
    <3>1. pc' = pc /\ i' = i /\ index' = index /\ index \in Nat /\ index <= num_of_runnrs
      BY <2>4 DEF ForkJudge, MainEnds, ForkFails, judge_vars, IInv, TypeOK
    <3>2. MainLeft' < MainLeft
      BY <2>4, <3>1 DEF ForkJudge, MainEnds, ForkFails, MainLeft
    <3>3. JudgeLeft' <= JudgeLeft
      <4>1. CASE ForkJudge
        <5>1. judge = "unborn" /\ judge' = "gather" /\ i' = 0
          BY <3>1, <4>1 DEF ForkJudge, IInv, MainKeepsCount
        <5>2. QED
          BY <5>1 DEF JudgeLeft
      <4>2. CASE MainEnds \/ ForkFails
        <5>1. JudgeLeft' = JudgeLeft
          BY <4>2 DEF MainEnds, ForkFails, judge_vars, JudgeLeft
        <5>2. QED
          BY <5>1, LeftOf
      <4>3. QED
        BY <2>4, <4>1, <4>2
    <3>4. \A r \in Racers : RunnerLeft(r)' = RunnerLeft(r)
      BY <3>1 DEF RunnerLeft
    <3>5. QED
      BY <3>2, <3>3, <3>4, LeftOf DEF StepGetsOn
  <2>5. QED
    BY <2>1, <2>2, <2>3, <2>4 DEF Next, Main
<1>2. IInv => /\ JudgeLeft \in Nat
              /\ MainLeft \in Nat
              /\ \A r \in Racers : RunnerLeft(r) \in Nat
  BY LeftOf
<1>3. QED
  BY <1>1, <1>2, Invariance, PTL DEF Spec, StepsGetOn
=============================================================================
