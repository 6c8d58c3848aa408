# Verification of the third-semester system programs

The repository is a semester of small UNIX programs in C.  Most of them exist to make
several processes (or threads) cooperate through one kernel mechanism: System V
semaphores and shared memory, System V message queues, signals, pipes, POSIX threads.
This directory holds TLA+ models of those programs, TLC configurations that check them
on small instances, and TLAPS proofs of what matters most for every instance.

## 1. Inventory

| Part | State it keeps | Operations | How its actors interact | What is hard | What makes it correct |
|---|---|---|---|---|---|
| Bridge simulator, `semaphs_tasks/bridge_simulator` | semaphores CAR, SHIP, BRIDGE, SHRD_VAR; shared counters of waiting cars and ships, position of the span | `Car_method`, `Ship_method`, `Init`, `main` (fork, wait, remove) | one process per vehicle; shared memory under SHRD_VAR; a turn token handed from vehicle to vehicle | the turn can be left with the side that has nobody; ships go first under load; fork may fail | one vehicle at a time, span in its position, exact counters, turn never lost to the ships, removal last, cars do not starve |
| Boat trips, `7sem` | six semaphores counting seats, stairs, the trip, passengers on the coast; shared boat state | `Captain`, `Passengers`, `Sems_processing`, `main` | one captain, many passengers, barriers built of P, V and wait-for-zero | wait-for-zero is not a latch: a process that comes late misses it; the last trip is announced while passengers board | seats and stair never overbooked, boat full on departure, all on shore before the next trip |
| Runners, `6sem/runners_proc.c` | one System V message queue, messages are only types | `Judge`, `Runner`, `main` | a judge and n runners on one queue, call and answer have the same type | the judge can take back its own call; fork may fail; the queue is bounded | each runner called once, runs before the judge goes on, every runner gets the end |
| Line channel, `8sem` | semaphores CHANNEL, MEMORY; one line of shared memory; the buffer of the server's stdout | client `My_write`, `Start_working`; server `Start_working` | clients exclude each other on CHANNEL, the server frees it after printing | the set outlives the server: a restart adds a token; a process dies holding one | no line lost or torn, one client at a time in the channel, each line printed |
| Signals, `semA/unreliable_sig.c` | one bit in flight, signal masks and handlers of two processes | writer's and reader's loops and handlers | SIGUSR1/SIGUSR2 ping-pong, one signal per bit and per acknowledgement | a signal before its handler is installed; a handler that fails; standard signals do not queue | the bytes read are the bytes written, neither side waits for ever |
| Threads, `9sem/my_pthreads.c` | a global counter, one mutex, the shares | `First_algo` to `Fourth_algo`, `My_threads`, `main` | threads add to one counter, main joins them | the unprotected increment, shares with a remainder, a thread that was not created | exact totals (three of the four algorithms), bounds for the first, main gets to its end |
| Word counter on a pipe, `5sem/my_pipe.c` | pipe contents, in-word flag, counters | `Counter_func`, parent and child | a child executes a command that writes to the pipe, the parent counts it in chunks | chunk boundaries, end of file with several writers, full pipe, a pipe that could not be made | counts do not depend on the chunks, the report is that of the whole output, parent drains before it waits |
| Copy, `3sem/my_cp` (two programs) | descriptors, flags, buffer position | `Check_dir`, `Buffer_processing`, `Copy_file`, `Dst_process`, `My_read`, `My_write`, `Simple_copy` | one process and the kernel's answers | short reads and writes, errors in the middle, descriptors left open, results taken the wrong way round | a finished copy equals the original; what a short write does; how many files can be copied |
| Herdsmen on a message queue, `msg_task/herdsmans` | message queue, globals | herdsmen and main | none: each has its own copy of the globals, sends four messages and receives none | messages nobody receives | queue does not fill |
| Herdsmen on semaphores, `semaphs_tasks/herdsmans` | semaphores, shared herd | herdsman, main | as above | does not compile (`Shared` is not declared) | - |
| fork and exec exercises, `4sem`, `Final_work` | process tree | fork, wait, exec | parent and children | children that return into main's loop | number of processes, order |
| `1sem`, `2sem`, `3sem/my_cat.c`, `semB` | none beyond a buffer | echo, hello, id, cat, pid test | one process, pure I/O | - | - |

The hazards these parts are exposed to are listed with their lines in `PROJECT.json`.

## 2. Modules and plan

Every part that is modelled has a detailed module (what the code does, one action per kernel
call), an abstract specification where what it promises is more than a formula about its
result, an `MC...` module with its `.cfg`
files for TLC, and a `...Proofs` module for TLAPS.

| Part | Abstract | Detailed | TLC | Proofs |
|---|---|---|---|---|
| semaphore wrappers of all three semaphore programs | - | `SysVSem` | with its users | with its users |
| bridge simulator | `Crossing` | `Bridge` | `MCBridge` | `BridgeProofs` |
| runners | `Race` | `MsgQueue`, `Runners` | `MCRunners` | `RunnersProofs` |
| line channel | `LineChannel` | `ShmChannel` | `MCShmChannel` | `ShmChannelProofs` |
| boat trips | `Excursion` | `Boat` | `MCBoat` | `BoatProofs` |
| signals | `ByteStream` | `UnreliableSig` | `MCUnreliableSig` | `UnreliableSigProofs` |
| word counter on a pipe | `WordReport` | `PipeCount` | `MCPipeCount` | `PipeCountProofs` |
| file copy | - | `CopyFile` | `MCCopyFile` | `CopyFileProofs` |
| threads | - | `Threads` | `MCThreads` | `ThreadsProofs` |

`SysVSem` is shared: `Bridge`, `ShmChannel` and `Boat` extend it and declare their own
semaphores.  The programs do not interact with each other.

No module declares a RECURSIVE operator, so each can be proved about.  Section 14 says what
of the repository is left out and why.

How one call becomes one action.  A System V semop with one sembuf, a msgsnd or msgrcv and a
kill are atomic in the kernel, so an action is one such call together with the code up to
the next one; `pc` (or `captain`, `judge`, `server`, `reader`, `writer`) names the call a
process is at.  A call that blocks is an action that is not enabled.  Accesses to shared
memory are in the same action only where a semaphore excludes the others (bridge), and then
the exclusion is itself checked and proved; where it is in doubt they are actions of their
own (line channel: one per half of the line; threads: the load and the store of `counter++`).

## 3. Bridge simulator

`Bridge.tla` models bridge.c.  Arrive, Enroll, Queue, Enter, Cross, Decide, Unlock and Leave
are, in this order, the semaphore calls of Car_method and of Ship_method, which differ only
in the counter and the turn (`Kind`, `Turn`).  `Decide` is the whole passage between P and V
of SHRD_VAR that takes the vehicle out of its counter, chooses the next side, moves the span
and gives the turn.  main is a process too: Fork, AllForked, Wait, Remove, ForkFails.
Vehicles are main's loop indices; the even ones are cars, whatever the two arguments are
(line 206): `NUM_OF_CARS = 3, NUM_OF_SHIPS = 4` makes four cars and three ships.

* Run `bridge`: three cars and three ships, the code's limit (2), any fork may fail,
  106 645 states.  Three ships are the fewest that can exceed the limit, and with three cars
  a car can wait behind ships that go first twice.
* Run `bridge_stranded` (expected violation, two vehicles): the last car finds no ship
  enrolled and leaves the turn with the cars; a ship that enrols later waits for ever and
  main never removes the IPC objects, which the comment at line 218 says it does.
* `StandstillOnlyForShips` says that this is the only way to get stuck: whenever no started
  vehicle can move, those left are ships in their queue, and every car has passed; and main
  waits for ever only for such a ship.
* `TurnFollowsQueues` says that the turn is given by who really waits at that moment, however
  many have enrolled while the giver was on the bridge: to the ships only if there are some,
  and more than the limit or no car; to the cars only if the ships are few, and to nobody
  only if nobody waits.  `ShipTurnIsUsed` (part of `IInv`) says that a free turn of the
  ships has a ship in the queue to take it: the decision at line 38 is not stale.
* `CarsAlwaysPass` and `ShipsAheadOfACarPass` are the liveness the code does have: a ship
  that waits while some car still has to decide gets over.

The inductive invariant: the choice of the next side is right because the counters are exact
(`WaitingCountsExact`); they are exact because one vehicle at a time holds SHRD_VAR, which
needs the tokens to be accounted for (`TokensExact`); the span is right because one vehicle
at a time has the turn (`SpanMatchesTraffic`, `MutualExclusion`); `ShipTurnIsUsed` needs all
of these; and `RemovedOnlyAfterAll` needs main's count of the children it has reaped
(`MainKeepsCount`).  `IInv` is their conjunction with `TypeOK`.

## 4. Runners

`Runners.tla` models runners_proc.c.  A message is its type; `MsgQueue` keeps one count per
type and the number of all messages.  msgsnd blocks at `QUEUE_LIMIT` messages, msgrcv until
there is one of its type; who receives is decided by the kernel, i.e. by any interleaving.
The calls pass 8 as the size of a body that the structure does not have, so 8 bytes next to
it are copied along; no property looks at them.  The judge's three loops are Gather, Call and
Answer, Close; a runner is Come, StartRun, EndRun, GoAway; main forks and does not wait.

* Run `runners`: five runners on a queue that holds three messages, so both the reports and
  the ends can fill it; any fork may fail; 2 762 states.
* Run `runners_takeback` (expected violation): the judge's call (line 48) and the answer it
  then waits for (line 56) have the same type.  If the runner is not scheduled in between the
  judge receives its own call, goes on, and that runner waits for ever, although the comment
  at lines 54-55 says that the runner has finished.
* `StandstillExplained`: nobody can move only if a fork has failed while the judge gathers,
  or all that remain are runners whose call was taken back (with the judge, when the ends
  meant for them fill the queue).
* `AllHaveCome` (a theorem): the first call is sent only when all runners have come.
* `RacersGoAway`, `JudgeFinishes`: a runner that has run goes away; the judge gets through
  all calls whatever it takes back, and through the ends unless these fill the queue.

README.md:68 of the sources says that runners run in the order of their arrival; the code
calls them by number, since RUNNR_CAME carries none.  `Race` promises that they run one at a
time and each at most once, and no order; the order of the judge's calls is in
`RunsFollowCalls`, as what the code does, and the disagreement is among the findings.

`IInv` is `TypeOK`, the account of every message (`MessagesExact`), the position of the
judge's calls (`RunsFollowCalls`) and main's (`MainKeepsCount`).  The account needs the
position (whose call may be in the queue) and the position needs the account (who can have
received a call).

## 5. Line channel

`ShmChannel.tla` models client.c and server.c.  The clients' My_write is Take, Fgets and
FgetsRest (fgets writes straight into shared memory: one action per half of the line), Give,
Wait, or FgetsEnds and Unlock at the end of a file; Start_working is Open.  The server is
Create, FirstFree, and the loop TakeMemory, PrintFirst, PrintRest, Free, AwaitTaken.
KillClient and KillServer may end a process before any call: the semaphore set is persistent
and no call uses SEM_UNDO, so a token the process has stays taken.  Restart runs the server's
main on the existing set.  The removal at server.c:40-43 stands behind an endless loop and is
never reached.

What fgets gets is called a line, whether it ends in a newline or not: the last of a file may
not (`Unended`), and a line longer than the buffer is several here, all but the last without
one.  main makes stdout line buffered (server.c:36), so printf puts a line on the terminal
only with a newline: `stdout` is what has been printed and is kept back, `out` what is on the
terminal, and `Printf` moves from one to the other.  A text without a newline is kept behind
what is kept already; if there is no room, the old goes to the terminal and at least the end
of the new one is kept.  Nothing flushes stdout, and a server that is killed loses it.

* Run `shm`: two clients, one file of two lines each, two of the four lines without a newline
  (the first line of one client and the last of the other, so that stdout has kept a line
  when one comes with a newline, and when one comes without), up to two processes killed, one
  restart, weak fairness; 347 304 states.  Two clients are the fewest that can meet in the buffer; a
  second token needs one kill and one restart, and the other kill can then hit who has it.
* `TokenExact` (part of `IInv`) bounds the tokens: one, and at most one more per restart.
* `LinesPrintedOnce`: until the server is started again what has been printed are whole
  lines; of the lines a client has sent every one is printed but the one still on its way,
  once, and in the order of its file, whoever was killed.  All of them that end in a newline
  are on the terminal; only others are kept by stdout, and lost if the server is killed.
* `StandstillExplained`: clients are kept waiting for ever only by a process that was killed
  or, after a restart, by a server that waits for the channel to be taken while the clients
  wait for it to take the line a second token has let into the memory.
* `StepsGetOn`: Z_oper on MEMORY is not a latch, but nobody is sent round by it: every step
  that is not a kill or a restart brings one client nearer to its end (`ClientLeft`) and
  moves no other, or the server nearer to its P_oper (`ServerLeft`).
* `ImplementsLineChannel`: until then the programs implement `LineChannel`, which puts whole
  lines on the terminal, once, in the order of sending, and may hold back only lines without
  a newline (`held`), which are lost when the server goes down (`down`); its `renewed`
  becomes true with the restart, after which it promises nothing.
* Run `shm_two` (expected violation): main opens an existing set with IPC_CREAT alone and
  Start_working adds 1 to CHANNEL in any case (server.c:6), so a server that was killed and
  started again lets two clients into the buffer; the comments at client.c:10 and server.c:10
  say that the process takes control of the channel.
* `ClientsFinish` holds if nobody is killed, `LinesArrive` if the server is not: a line sent
  by a client that is then killed is still printed, and gets to the terminal if it ends in a
  newline.  A text that does not may stay in stdout for ever, which is one of the findings.

`IInv` is `TypeOK`, `TokenExact`, the bound on a line being read, and, as long as the server
has not been restarted, `BufferExact`.  That one process at a time is in control follows from
the token (theorem Control); that a line is whole (`WholeUntilRestart`, part of `IInv`,
theorem BufferWhole) follows from control together with what each half belongs to.  The
theorems hold for any number of kills and restarts; that Control, BufferWhole, LinesOnce and
Refinement stop at the first restart is necessary, as `shm_two` shows.

## 6. Boat trips

`Boat.tla` models my_boat.c.  `pc[p]` runs through Passengers (WaitForStair to BackOnCoast),
`captain` through Captain (LowerFirst to Again); each is one P_oper, V_oper or Z_oper, with
the tests of LAST_TRIP as actions of their own.  Z_oper on STAIR_DOWN, START_OF_TRIP and
END_OF_TRIP is a door: open at zero, and missed by who comes when it is shut again.

* Run `boat`: four passengers, two seats, two places on the stair, two trips (one that is
  not the last, one that is), any fork may fail, 194 060 states.  There are passengers ashore
  while the boat is out, and more than one on the stair.
* Run `boat_trips` (expected violation): a passenger with a seat that is not scheduled before
  the captain shuts START_OF_TRIP (line 89) waits at line 30 for the next trip, and the
  captain at line 99 for that passenger.  The same happens on the last trip when passengers
  see LAST_TRIP, leave, and the boat never gets full (lines 12, 18, 78).
* `StandstillExplained` says that the program stops at four places only: the captain has
  made his trips and everybody has gone home but those who wait for seats that others have
  taken away; he was told to make no trip; he waits for a full boat because others saw the
  flag of the last trip and left, or were never forked; or he waits on the shore for those
  that came too late for the trip, when all travellers are back.
* `TravellersLand`: a traveller gets back to the coast even if others were too late.
* `PassengersGoHome`: after the last trip everybody gets to the end of the program, unless
  all seats are taken away.  The break at line 18 keeps the seat that line 16 has booked; once
  as many passengers have left by it as there are seats, those at line 16 wait for ever.  It
  takes twice as many passengers as seats and one more, so the exception does not
  occur with the four passengers and two seats of the run; it does with three passengers, one
  seat and three trips.
* `OnceRound`: the three doors of a trip are never open so that a passenger gets round them
  twice while the captain stands: every step is one of his, or brings one passenger nearer to
  its seat in the boat or to the way out.

Two remarks from reading the code.  A passenger books its seat (line 16) before it waits for
the stair (line 21); README.md:90 of the sources tells it the other way round.  START_OF_TRIP
is zero from the captain's preparations on, so that line 30 lets passengers pass before the
trip begins, not from its beginning, as the comment at line 29 has it.  Both are findings.
'Full' is therefore said of seats booked: a passenger with a seat may still be on the way to
the boat when it leaves, and is then one of those that came too late.

`IInv`: the accounts of seats and stair, what the captain's position says about the doors
(`Doors`) and about the counts (`Phases`), the exactness of his count (`CoastExact`: it is
that of the travellers and latecomers, so that by `NobodyLeftOver` a fast passenger that
books again is not counted for the old trip), who has left (`Outsiders`), and how far the
trips are when the flag is up (`LastTrip`).  The count needs the doors (nobody joins while
he is at sea), the doors only the position.  `LastTrip` is what the standstill needs: the
flag goes up for the last trip and not before, the captain is done only after it, and when
he has ended it nobody is under way any more whose seat would come back.

The model assumes capacities of at least 1 (`BoatAssumption`): P_oper and V_oper with 0 are
Z_oper to the kernel, and values beyond short are cast to others.

## 7. Signals

`UnreliableSig.tla` models unreliable_sig.c.  `pending` is the child's set of pending
signals, `acked` the parent's SIGUSR1: a second signal of a kind that is pending is lost.
A handler's signal is blocked while it runs (BSD semantics, which signal() has with glibc); a
signal without a handler ends the process.  Reader_method is Enter, Read, EndOfFile,
HandlerFails, Send and Shift; the shift comes after the kill, as in the code.  Writer_method
is Deliver, Add and Ack for each of its two signals.  A byte is the sequence of its bits.

* Run `signals`: three files, all bytes of three bits, up to three of them, any fork, open or
  read may fail; 52 586 states.  Three bits are enough for a bit that is first, last or
  neither; three bytes for var and c to be used again.
* `OneInFlight` (part of `IInv`): at most one bit, acknowledgement or SIGTERM exists, hence no
  signal is ever lost although they do not queue, and no handler interrupts the other.
* `BitsExact` (part of `IInv`): parent and child agree on every bit, whether it is pending,
  being added or acknowledged, and although c is shifted late.
* `StandstillExplained`: the program stops before its end only because the handler met an
  error (it returns without a signal, and both wait for ever), because the child's first
  SIGUSR1 came before the parent's signal() and ended it (line 115), or because the first
  file could not be opened.  In every case all that was read has been written.
* `EverythingIsWritten`: the converse, under fairness.

## 8. Word counter on a pipe

`PipeCount.tla` models my_pipe.c.  The parent is Fork, Close, Read, Count (one byte in
Word_counter and in Str_counter), EndOfFile, ReadFails or ReadElsewhere, and Wait; `got` is
what the reads have taken from the pipe and `i` what has been looked at.  Exec is the child's
execvp or its exit.  The command itself is external and may be any program: BeginWrite and EndWrite are
a write that waits while the pipe is full, Spawn leaves an heir that has the write end too,
Exit and Kill end either.  A byte is a letter, a space or a newline, which is all that
isspace and the test for `\n` tell apart.

* Run `pipe`: up to five bytes through a pipe that holds two, read two at a time, with and
  without the option; pipe, fork and exec may fail; 26 183 states.  Five bytes give a word
  that is cut by a read, two words in one read, and a command that waits for room twice.
* `ImplementsWordReport`: the report is that of the whole output by `WordReport`'s reference
  definition (a word begins where a letter follows no letter), however it was cut into reads,
  and it comes when nobody has the write end any more, the heir included.
* `NobodyWaitsForEver`: a parent that waits, in read or in wait, waits for a process that can
  go on, and a process that waits in write for a parent that can and is still to read,
  whoever is killed: parent and command never wait for each other.
* `ProgramEnds`: so the parent gets to its end, if the command does.

The result of pipe is not looked at, and then fd was never set.  If fd[0] is no descriptor
read returns -1 and the loop adds it to the bytes (lines 213-217), so the report says -1
bytes; `CountsExact` says that this is the only case in which the bytes are not those read.
If it happens to be another descriptor (ReadElsewhere) the parent counts something else, and
nothing is promised, not even that it ends.

`IInv` is `TypeOK`, the exactness of the counters for the bytes looked at (`CountsExact`) and
what the parent's position tells (`Phases`).  `Phases` says among other things that the
parent reads elsewhere only when there is no pipe: without that the invariant would allow a
command that waits in write on a pipe nobody reads.  The proof of the count needs one lemma:
the words that begin among n + 1 bytes are those among n, and one more or none.

## 9. File copy

`CopyFile.tla` models my_cp.c and stupid_my_cp.c; they share My_read and My_write.  CheckDir
is Check_dir; OpenSrc, OpenDst and SimpleOpenDst are the opens (with the keys in
Dst_process); Ask is the question that -i puts for a destination that is there; Read is
My_read's read; Write is one round of My_write's loop; WriteEnd its last one, with nothing to
write; Break an error of either; Close the two closes.
`Return` is what the callers make of a result, and `MoreNames` the loop of
Buffer_processing.  A byte of the source is its position in it, so that `out` shows what was
written where; what read has not filled of the buffer is Junk.

* Run `copy`: both programs, up to three files of up to four bytes, a buffer of three,
  descriptors for two copies and a half; every read and write may be short, every call may
  fail; 56 567 states.  A buffer of three bytes takes three writes, which is where the
  buffer is moved to a wrong place; the third file of a directory meets the limit.
* `CopiedIsExact`: a copy that gets to its end is the source byte for byte, and all of the
  destination if this was no longer before.  Nothing is said of the exit status.
* `OutExact` (part of `IInv`): also of a copy that is broken off what is written is the
  beginning of the source, up to a chunk that two writes have cut.
* `CopyEnds`: the program ends, unless it comes to a chunk that was cut and of which nothing
  is left (`Spins`), or the question is never answered.

What the code does with the edges, all of it in the model; the first three disagree with the
comments of My_write and My_read and with README.md:38, which calls my_cp a realisation of cp,
and are findings:

* My_write's loop goes on while the last write took less than the whole chunk (line 119), so
  after a short write it never ends by success: when all is written it writes nothing for
  ever.  Line 117 moves the buffer by all that was written so far, so the third write of a
  chunk writes bytes from behind the right ones.
* My_read returns true at the end of the file and false on an error; Copy_file (line 260)
  takes true for a failure: a complete copy exits with 1 and leaves two descriptors open, a
  broken one exits with 0 if the closes succeed.  `LeaksExact` (part of `IInv`) gives the
  theorem `CopiesLimited`: a directory takes no more files than half the descriptors.
* Nothing truncates the destination, so the end of a longer old file stays behind the copy.
* A destination that does not exist is refused by Check_dir; with a file as the last argument
  only the first name is copied.
* The question is written by the same My_write, which may spin on it, and the read of the
  answer waits: the program may stay at Ask for ever.
* stupid_my_cp's second open has no write mode, so a new file gives a descriptor that cannot
  be written to, and the first write fails.

`IInv` is `TypeOK`, the relation of what was taken and written (`OutExact`), `LeaksExact` and
the programs' ways through their functions (`Paths`).

## 10. Threads

`Threads.tla` models my_pthreads.c.  `Param` is the share of a thread (the first takes the
remainder); Begin and Loop are the control of the four algorithms, Lock, Load, Store and
Unlock their steps.  The Makefile builds without optimisation, so that `counter++` is a load
and a store, between which others run.  The fourth algorithm counts in a local variable and
adds it once.  main is Create, Join, ShowCounter, ClockFails; the result of pthread_create
is not looked at, so a join may get a pthread_t that was never set (JoinUnset): it returns,
crashes or waits.  main first unlocks the mutex without having it (line 128), which POSIX
leaves undefined and which has no effect on a default mutex of glibc; it is left out.

* Run `threads`: up to three threads and seven ones, all four algorithms; 36 047 states.
  The shares are then zero, one, two or more, with and without a remainder.
* `ShownBounds`: with the mutex, or where one thread has all the work, main prints exactly
  what was expected.  Without it never more, at least 1, and at least 2 if every thread adds
  two: a thread's last store can only throw away what the others have added after its load.
* `NobodyWaitsForEver`: the thread main waits for can go on, or waits for the mutex and the
  thread that holds it can go on; when main has joined them all the mutex is free.
* `MainEnds`: main gets to its end if every thread was created.

`IInv` is `TypeOK`, `MutexHeld`, how much each thread has added where it is (`Phases`),
main's position (`MainPhases`), and `CounterSound`, which compares the counter with the
cardinality of the set of ones added (`Ones`); the set takes the place of a sum over the
threads, which would need induction.

## 11. Fairness

Every process is weakly fair (`FairSpec` of each module): the kernel schedules a process
that can run, and nothing more.  It is not assumed who gets a semaphore or message when
several wait.  Failures (ForkFails, the errors) and kills are never fair: they may happen.  In
`Runners`, a runner's EndRun and the judge's calls compete for room in the queue; weak
fairness is enough because nothing takes the room again for ever.  In `PipeCount` the
command's processes are weakly fair too, since a command that never ends is never reported.
In `Threads` it is enough for the mutex as well: no thread locks it more often than its
share.  JoinUnset is not fair there: nothing says that such a join returns.  In `CopyFile`
the one process is fair but for the round of My_write that has nothing left to write, since
nobody makes that write fail, and for the answer to the question, which the user need not
give.  No run uses symmetry.

Deadlock is not checked as such (`CHECK_DEADLOCK FALSE`), since every program ends or waits
for ever by design; for the programs of several processes the `Standstill...` and
`NobodyWaitsForEver` invariants say exactly where, and are proved, and for the copy `CopyEnds`
says that it ends.  The predicates they are built from are written from the guards, without
ENABLED; on the instances of the runs TLC finds them equal to it (`Standstill` to
`~ ENABLED Next`, `Blocked`, `ClientStuck`, `ServerStuck` and `CanGoOn` to that of the process,
while main, or the process of the command, is there).

## 12. What is proved

For every value of the constants that satisfies the named assumptions (`BridgeAssumption`,
`QueueAssumption`, `RunnersAssumption`, `ChannelAssumption`, `BoatAssumption`,
`SigAssumption`, `PipeAssumption`, `CopyAssumption`, `ThreadsAssumption`), TLAPS checks, in
each `...Proofs` module:

* `Invariance`: `Spec => []IInv`, with one lemma per action (or per process, where the actions
  are small) that it preserves `IInv`;
* a theorem for each other safety property of the passing runs, and for the parts of `IInv`
  a reader would ask for;
* `Refinement`: `Spec` implies the abstract specification under the refinement mapping of
  the module's `INSTANCE`, where there is one.  The abstract modules are small enough to be
  read as the promise: one vehicle at a time, one runner at a time and each once, whole lines
  once and in order, a full boat on departure, each byte once, the report of the whole output.

What the theorems say beyond `IInv` and the refinement:

| Program | Safety | Where it can stop | That its steps run out |
|---|---|---|---|
| bridge | `TurnsAreRight` (an action property), `RemovalIsLast` | `StandstillLeavesShips` | `StepsRunOut` |
| runners | `AllCome` | `StandstillShape` | `StepsRunOut` |
| line channel | `LinesOnce`, `Control`, `BufferWhole` | `StandstillShape` | `StepsRunOut` |
| boat | `AllAshore`, `CoastCount` | `StandstillShape` | `RoundsEnd` |
| signals | `NoSignalMerged`, `Agreement` | `StandstillShape` | `StepsRunOut` |
| pipe | `CountsAreExact` | `StandstillNever` | `StepsRunOut` |
| copy | `CopiesAreExact`, `CopiesLimited` | one process: it waits for an answer only | `StepsRunOut` |
| threads | `ShownIsBounded` | `StandstillNever` | `StepsRunOut` |

The last two columns are the two halves of the liveness that does not depend on fairness
alone, for every value of the constants.  The first half says in which states nobody can
move; each follows from `IInv`, which had to be strengthened for two of them (`LastTrip` in
`Boat`, `Phases` in `PipeCount`).  The second half says that there are no endless executions
other than those that kill and restart processes, so that such a state is always reached.  It
is a step property, `StepsGetOn` or `OnceRound`: a measure per process, built from what
the code counts (bytes and lines still to come, trips, shares, bits of a byte) and its place
in the code, is lowered by every step, and no step raises another's; with it the theorem
says that the measures stay natural numbers.  Where a step may raise one, the
property says in exchange for what: a client's line gives the server work, a trip of the
captain sends the passengers round again, a byte read gives the bits of a byte to send, a
name gives a file to copy; and the theorem, or the measure of the giver, bounds how often.
For the copy the one step that gets on nowhere, the writing of nothing, changes nothing, and
is, with the question, the end `CopyEnds` allows for.

Both halves with weak fairness give the liveness properties: a process that can move and is
not run for ever contradicts fairness, and the rest is the reading of the standstill theorem.
That last step needs ENABLED, which is out of the prover's reach, so these stay with TLC, on
the instances of the runs: `CarsAlwaysPass`, `ShipsAheadOfACarPass`, `RacersGoAway`,
`JudgeFinishes`, `ClientsFinish`, `LinesArrive`, `TravellersLand`, `PassengersGoHome`,
`EverythingIsWritten`, `ProgramEnds`, `CopyEnds`, `MainEnds`.  No safety property of a passing
run is only model-checked.

`LinesOnce` is the end-to-end statement of the line channel: it speaks of the lines printed,
on the terminal, kept in stdout and in the files instead of the buffer.  It is inductive together with `IInv`, and
its proof goes by the steps of the refinement: a line is sent, or delivered, or the server goes down.  `ShownBounds` for
the unprotected algorithm and `CoastExact` for the captain's count are those whose arguments
a reader would least guess; their proofs are the place to look.

`IInv` is an invariant of a run of each module as well, so every formula proved was first
found true by TLC.  `StepsGetOn` takes part in the run `shm`, `OnceRound` in `boat`; for the
other programs it was checked on the same instances and has no entry of its own, because the
theorem says more.  Some corollaries (`Exclusion`, `SpanSafe`, `ShipTurnUsed`,
`NeverOverbooked`, `MessageAccount`, `AllCome`, `Control`, `BufferWhole`) state a part or
consequence of `IInv` and have no entry either.

## 13. Disagreements found

`PROJECT.json` lists, under "findings", with the line that says otherwise.  Four of them are
shown by runs of their own, whose property is what a comment or document says and which TLC
finds violated: the ships left behind (bridge.c:68), the call taken back (runners_proc.c:56),
the second token (server.c:6), and the trips that are never made (my_boat.c:99).

For the others a passing run shows what the code does instead, in the property named there,
which claims no more than that:

* the runners run by number, not in the order of arrival (runners_proc.c:48);
* a text without a newline stays in the server's stdout (server.c:36);
* passengers book the seat before the stair, and pass line 30 before the trip begins
  (my_boat.c:16 and 30);
* My_write spins after a short write (my_cp.c:119) and moves its buffer too far (line 117);
* a complete copy gives status 1 and leaves its files open, a broken one gives 0
  (my_cp.c:260);
* an older, longer destination keeps its end (my_cp.c:233).

## 14. Not modelled

* Herdsmen on a message queue (`msg_task/herdsmans`): the counters that should tell one
  herdsman from the next are globals, and fork copies them.  Each process takes the same
  path, sends four messages and receives none; the processes share nothing but room in the
  queue, and there is no protocol to state a property about.
* Herdsmen on semaphores (`semaphs_tasks/herdsmans`) and `my_cat.c` do not compile.
* `4sem` and `Final_work`: a process tree with one wait each, and command lines handed to
  exec; nothing is shared, and what is left is output.
* `1sem`, `2sem`, `semB`: sequential output without state.

In the modelled parts printing, delays, and failures of the calls that set up IPC objects
before any process exists are left out; so are the text of the copy's question, the building
of path names, isspace on bytes that are negative as char, and arguments outside the ranges
the programs expect.  The `note` of each component in `PROJECT.json` says so per part.
