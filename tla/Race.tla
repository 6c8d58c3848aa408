--------------------------------- MODULE Race ---------------------------------
(***************************************************************************)
(* What the competition promises: the runners run one at a time and each   *)
(* at most once; once it is over nobody starts any more, and only then the *)
(* runners that have run go away.  It promises no order among them.        *)
(***************************************************************************)
CONSTANT Runners        \* the runners' numbers

VARIABLES running, finished, away, over

vars == <<running, finished, away, over>>

Init ==
  /\ running = {}
  /\ finished = {}
  /\ away = {}
  /\ over = FALSE

Start(r) ==
  /\ ~ over
  /\ running = {}
  /\ r \notin finished
  /\ running' = {r}
  /\ UNCHANGED <<finished, away, over>>

Finish(r) ==
  /\ r \in running
  /\ running' = running \ {r}
  /\ finished' = finished \cup {r}
  /\ UNCHANGED <<away, over>>

End ==
  /\ running = {}
  /\ over' = TRUE
  /\ UNCHANGED <<running, finished, away>>

GoAway(r) ==
  /\ over
  /\ r \in finished \ away
  /\ away' = away \cup {r}
  /\ UNCHANGED <<running, finished, over>>

Next ==
  \/ \E r \in Runners : Start(r) \/ Finish(r) \/ GoAway(r)
  \/ End

Spec == Init /\ [][Next]_vars
=============================================================================
