------------------------------ MODULE ShmChannel ------------------------------
(***************************************************************************)
(* client.c and server.c: clients copy their files line by line through    *)
(* one buffer of shared memory to the server's terminal.  The semaphores   *)
(* CHANNEL and MEMORY pass one token around: free channel, client in       *)
(* control, line in memory, server printing, free channel.                 *)
(*                                                                         *)
(* fgets writes straight into the shared buffer and printf reads straight  *)
(* from it, so both are two steps here, one per half of the line.  Any     *)
(* process may be killed anywhere: the semaphore set is persistent and     *)
(* nothing is undone.  A server that is started again finds the old set.   *)
(*                                                                         *)
(* What fgets gets is called a line here; it need not end in a newline (the *)
(* last of a file, a piece of one longer than the buffer).  The server's   *)
(* stdout is line buffered, and keeps such a text back.                    *)
(***************************************************************************)
EXTENDS SysVSem, Sequences, FiniteSets

CONSTANTS
  Clients,
  FILES,                \* files named on a client's command line
  MAX_LINES,            \* bound on the lines a client reads altogether
  Unended,              \* those of them that do not end in a newline
  MAX_KILLS,            \* bound on processes killed
  MAX_RESTARTS          \* bound on restarts of a killed server

Lines == {<<c, n>> : c \in Clients, n \in 1 .. MAX_LINES}

ASSUME ChannelAssumption ==
  /\ IsFiniteSet(Clients)
  /\ FILES \in Nat
  /\ MAX_LINES \in Nat
  /\ Unended \subseteq Lines
  /\ MAX_KILLS \in Nat
  /\ MAX_RESTARTS \in Nat

VARIABLES
  exists,       \* whether the memory segment and the set have been created
  main_buffer,  \* the two halves of the shared buffer
  pc,           \* the next operation of each client
  file,         \* the files each client has opened
  read,         \* the lines each client has put into the memory
  server,       \* the next operation of the server
  got,          \* the half of a line the server has read
  out,          \* the lines that are on the terminal
  stdout,       \* those that the server's stdout keeps, or has the end of
  up,           \* whether the server has not been killed
  dead,         \* the clients that have been killed
  restarts

client_vars == <<pc, file, read>>
server_vars == <<server, got, out, stdout>>
fault_vars == <<up, dead, restarts>>
vars == <<sem, exists, main_buffer, client_vars, server_vars, fault_vars>>

-----------------------------------------------------------------------------
None == <<>>

Init ==
  /\ sem = [CHANNEL |-> 0, MEMORY |-> 0]
  /\ exists = FALSE
  /\ main_buffer = [half \in 1 .. 2 |-> None]
  /\ pc = [c \in Clients |-> "start"]
  /\ file = [c \in Clients |-> 0]
  /\ read = [c \in Clients |-> 0]
  /\ server = "off"
  /\ got = None
  /\ out = <<>>
  /\ stdout = <<>>
  /\ up = TRUE
  /\ dead = {}
  /\ restarts = 0

-----------------------------------------------------------------------------
Goto(c, from, to) ==
  /\ pc[c] = from
  /\ pc' = [pc EXCEPT ![c] = to]

(* The client's main: without the server's segment and set it gives up.    *)
Attach(c) ==
  /\ Goto(c, "start", IF exists THEN "open" ELSE "done")
  /\ UNCHANGED <<sem, main_buffer, file, read>>

(* Mutant of Open: the loop over the command line does not advance.        *)
OpenSame(c) ==
  /\ \/ file[c] < FILES /\ Goto(c, "open", "take")
     \/ Goto(c, "open", "done")
  /\ UNCHANGED <<sem, main_buffer, file, read>>

(* Next file of the command line, if there is one and it can be opened.    *)
Open(c) ==
  /\ \/ /\ file[c] < FILES
        /\ Goto(c, "open", "take")
        /\ file' = [file EXCEPT ![c] = @ + 1]
     \/ /\ Goto(c, "open", "done")
        /\ UNCHANGED file
  /\ UNCHANGED <<sem, main_buffer, read>>

Take(c) ==
  /\ Goto(c, "take", "fgets")
  /\ P_oper("CHANNEL", 1)
  /\ UNCHANGED <<main_buffer, file, read>>

NextLine(c) == <<c, read[c] + 1>>

(* fgets gets a line: one half is in the buffer, ...                       *)
Fgets(c) ==
  /\ Goto(c, "fgets", "rest")
  /\ read[c] < MAX_LINES
  /\ main_buffer' = [main_buffer EXCEPT ![1] = NextLine(c)]
  /\ UNCHANGED <<sem, file, read>>

(* ... and the other one.                                                  *)
FgetsRest(c) ==
  /\ Goto(c, "rest", "give")
  /\ main_buffer' = [main_buffer EXCEPT ![2] = NextLine(c)]
  /\ UNCHANGED <<sem, file, read>>

(* fgets returns NULL: the end of this file.                               *)
FgetsEnds(c) ==
  /\ Goto(c, "fgets", "eof")
  /\ UNCHANGED <<sem, main_buffer, file, read>>

(* Mutant of Unlock: the branch for the end of the file only breaks.       *)
BreakLocked(c) ==
  /\ Goto(c, "eof", "open")
  /\ UNCHANGED <<sem, main_buffer, file, read>>

Unlock(c) ==
  /\ Goto(c, "eof", "open")
  /\ V_oper("CHANNEL", 1)
  /\ UNCHANGED <<main_buffer, file, read>>

Give(c) ==
  /\ Goto(c, "give", "wait")
  /\ V_oper("MEMORY", 1)
  /\ read' = [read EXCEPT ![c] = @ + 1]
  /\ UNCHANGED <<main_buffer, file>>

Wait(c) ==
  /\ Goto(c, "wait", "take")
  /\ Z_oper("MEMORY")
  /\ UNCHANGED <<main_buffer, file, read>>

Client(c) ==
  /\ c \notin dead
  /\ \/ Attach(c) \/ Open(c) \/ Take(c) \/ Fgets(c) \/ FgetsRest(c)
     \/ FgetsEnds(c) \/ Unlock(c) \/ Give(c) \/ Wait(c)
  /\ UNCHANGED <<exists, server_vars, fault_vars>>

-----------------------------------------------------------------------------
ServerGoto(from, to) ==
  /\ server = from
  /\ server' = to

Create ==
  /\ ServerGoto("off", "init")
  /\ exists' = TRUE
  /\ UNCHANGED <<sem, got, out, stdout>>

FirstFree ==
  /\ ServerGoto("init", "memory")
  /\ V_oper("CHANNEL", 1)
  /\ UNCHANGED <<exists, got, out, stdout>>

TakeMemory ==
  /\ ServerGoto("memory", "first")
  /\ P_oper("MEMORY", 1)
  /\ UNCHANGED <<exists, got, out, stdout>>

(* Mutant of PrintFirst: the channel is freed before the line is printed.  *)
FreeTooEarly ==
  /\ ServerGoto("first", "rest")
  /\ got' = main_buffer[1]
  /\ V_oper("CHANNEL", 1)
  /\ UNCHANGED <<exists, out, stdout>>

PrintFirst ==
  /\ ServerGoto("first", "rest")
  /\ got' = main_buffer[1]
  /\ UNCHANGED <<sem, exists, out, stdout>>

(* What is printed is a line only if both halves read belong to one.       *)
Text == IF got = main_buffer[2] THEN got ELSE None

(* Mutant of Printf: stdout is fully buffered.                             *)
PrintWhenFull(text) ==
  \/ out' = out /\ stdout' = Append(stdout, text)
  \/ stdout # <<>> /\ out' = out \o stdout /\ stdout' = <<text>>

(* A newline takes the text, and what stdout has kept, to the terminal.    *)
(* Without one the text is kept too; if there is not enough room, what was *)
(* kept goes to the terminal and at least the end of the text is kept.     *)
Printf(text) ==
  \/ /\ text \notin Unended
     /\ out' = out \o Append(stdout, text)
     /\ stdout' = <<>>
  \/ /\ text \in Unended \cup {None}
     /\ out' = out
     /\ stdout' = Append(stdout, text)
  \/ /\ text \in Unended \cup {None}
     /\ stdout # <<>>
     /\ out' = out \o stdout
     /\ stdout' = <<text>>

PrintRest ==
  /\ ServerGoto("rest", "free")
  /\ Printf(Text)
  /\ UNCHANGED <<sem, exists, got>>

(* Mutant of Free: the channel is not freed.                               *)
FreeForgotten ==
  /\ ServerGoto("free", "zero")
  /\ UNCHANGED <<sem, exists, got, out, stdout>>

Free ==
  /\ ServerGoto("free", "zero")
  /\ V_oper("CHANNEL", 1)
  /\ UNCHANGED <<exists, got, out, stdout>>

AwaitTaken ==
  /\ ServerGoto("zero", "memory")
  /\ Z_oper("CHANNEL")
  /\ UNCHANGED <<exists, got, out, stdout>>

Server ==
  /\ up
  /\ \/ Create \/ FirstFree \/ TakeMemory \/ PrintFirst \/ PrintRest
     \/ Free \/ AwaitTaken
  /\ UNCHANGED <<main_buffer, client_vars, fault_vars>>

-----------------------------------------------------------------------------
Kills == Cardinality(dead) + restarts + IF up THEN 0 ELSE 1

(* The kernel or the user kills a client ...                               *)
KillClient(c) ==
  /\ Kills < MAX_KILLS
  /\ pc[c] \notin {"start", "done"}
  /\ c \notin dead
  /\ dead' = dead \cup {c}
  /\ UNCHANGED <<sem, exists, main_buffer, client_vars, server_vars, up, restarts>>

(* ... or the server, whose loop has no other end; what its stdout has     *)
(* kept is gone.                                                           *)
KillServer ==
  /\ Kills < MAX_KILLS
  /\ up
  /\ server # "off"
  /\ up' = FALSE
  /\ stdout' = <<>>
  /\ UNCHANGED <<sem, exists, main_buffer, client_vars, server, got, out, dead, restarts>>

(* The server's main on a set that is there already.                       *)
Restart ==
  /\ ~ up
  /\ restarts < MAX_RESTARTS
  /\ up' = TRUE
  /\ restarts' = restarts + 1
  /\ server' = "init"
  /\ UNCHANGED <<sem, exists, main_buffer, client_vars, got, out, stdout, dead>>

Next ==
  \/ \E c \in Clients : Client(c) \/ KillClient(c)
  \/ Server
  \/ KillServer
  \/ Restart

Spec == Init /\ [][Next]_vars

(* Every live process that is not blocked for ever runs.                   *)
Fairness ==
  /\ \A c \in Clients : WF_vars(Client(c))
  /\ WF_vars(Server)

FairSpec == Spec /\ Fairness

-----------------------------------------------------------------------------
InControl(c) == pc[c] \in {"fgets", "rest", "give", "eof"}

Controllers == {c \in Clients : InControl(c)}

Printing == server \in {"first", "rest", "free"}

TypeOK ==
  /\ sem \in [{"CHANNEL", "MEMORY"} -> Nat]
  /\ exists \in BOOLEAN
  /\ main_buffer \in [1 .. 2 -> Lines \cup {None}]
  /\ pc \in [Clients -> {"start", "open", "take", "fgets", "rest", "give",
                         "eof", "wait", "done"}]
  /\ file \in [Clients -> 0 .. FILES]
  /\ read \in [Clients -> 0 .. MAX_LINES]
  /\ server \in {"off", "init", "memory", "first", "rest", "free", "zero"}
  /\ got \in Lines \cup {None}
  /\ out \in Seq(Lines \cup {None})
  /\ stdout \in Seq(Lines \cup {None})
  /\ up \in BOOLEAN
  /\ dead \in SUBSET Clients
  /\ restarts \in 0 .. MAX_RESTARTS

(* The comments of both programs: whoever has passed its P_oper has the    *)
(* channel under control, clients and server alike.                        *)
OneInControl ==
  /\ \A b, c \in Clients : InControl(b) /\ InControl(c) => b = c
  /\ Printing => \A c \in Clients : ~ InControl(c)

(* The set survives a server that is killed, and its token with it.  Until *)
(* a server is started on it a second time one process is in control,      *)
(* whoever has been killed ...                                             *)
ControlUntilRestart == restarts = 0 => OneInControl

(* Tokens in the channel, in the memory, with a client or with the server, *)
(* dead or alive.                                                          *)
Tokens ==
  sem["CHANNEL"] + sem["MEMORY"]
    + Cardinality(Controllers)
    + IF Printing THEN 1 ELSE 0

(* There is exactly one token from the server's first V_oper on; each      *)
(* restart may add one, because the set kept the old one, and never loses  *)
(* one.                                                                    *)
TokenExact ==
  LET own == IF server \in {"off", "init"} THEN 0 ELSE 1
  IN  Tokens \in own .. own + restarts

(* A line lies in the memory for the server.                               *)
LineWaits == sem["MEMORY"] > 0 \/ server \in {"first", "rest"}

(* The line waiting is whole and is the last one its client has sent; the  *)
(* half the server has read belongs to it; and a client that has written a *)
(* half finds it again.                                                    *)
BufferExact ==
  /\ LineWaits => \E c \in Clients :
       /\ read[c] > 0
       /\ \A half \in 1 .. 2 : main_buffer[half] = <<c, read[c]>>
  /\ server = "rest" => got = main_buffer[2]
  /\ \A c \in Clients :
       /\ pc[c] \in {"rest", "give"} => main_buffer[1] = NextLine(c)
       /\ pc[c] = "give" => main_buffer[2] = NextLine(c)

(* ... and a line is never torn or overwritten before it is printed.       *)
WholeUntilRestart == restarts = 0 => BufferExact

(* The lines of a client that have been printed, those of them that are on *)
(* the terminal, and the line on its way.                                  *)
Shown == out \o stdout

Printed(c) == {n \in 1 .. MAX_LINES : \E k \in 1 .. Len(Shown) : Shown[k] = <<c, n>>}

OnTerminal(c) == {n \in 1 .. MAX_LINES : \E k \in 1 .. Len(out) : out[k] = <<c, n>>}

OnItsWay(c) == {n \in {read[c]} : LineWaits /\ main_buffer[1] = <<c, n>>}

(* From end to end: until a server is started a second time every line     *)
(* sent is printed or on its way, never both; none is printed twice, each  *)
(* client's are in order, and nothing else is printed.  stdout keeps only  *)
(* lines without a newline, and only these are lost if the server is       *)
(* killed: every other one that is not on its way is on the terminal.      *)
LinesPrintedOnce ==
  restarts = 0 =>
    /\ \A k \in 1 .. Len(Shown) : Shown[k] \in Lines
    /\ \A k \in 1 .. Len(stdout) : stdout[k] \in Unended
    /\ \A c \in Clients :
         /\ Printed(c) \subseteq (1 .. read[c]) \ OnItsWay(c)
         /\ up => Printed(c) = (1 .. read[c]) \ OnItsWay(c)
         /\ \A n \in (1 .. read[c]) \ OnItsWay(c) :
              n \in OnTerminal(c) \/ <<c, n>> \in Unended
         /\ \A m, n \in 1 .. MAX_LINES, j, k \in 1 .. Len(Shown) :
              j < k /\ Shown[j] = <<c, m>> /\ Shown[k] = <<c, n>> => m < n

(* The inductive invariant; OneInControl follows from TokenExact.          *)
IInv ==
  /\ TypeOK
  /\ TokenExact
  /\ \A c \in Clients : pc[c] \in {"rest", "give"} => read[c] < MAX_LINES
  /\ WholeUntilRestart

(* Neither a client nor the server can make a step.                        *)
ClientStuck(c) ==
  \/ c \in dead
  \/ pc[c] = "done"
  \/ pc[c] = "take" /\ sem["CHANNEL"] = 0
  \/ pc[c] = "wait" /\ sem["MEMORY"] # 0

ServerStuck ==
  \/ ~ up
  \/ server = "memory" /\ sem["MEMORY"] = 0
  \/ server = "zero" /\ sem["CHANNEL"] # 0

(* Clients are kept waiting for ever only by a process that was killed:    *)
(* the server; a client in control of the channel; or a server that was    *)
(* started again and now waits for the channel to be taken, while every    *)
(* client waits for it to take the line a second token let into memory.    *)
StandstillExplained ==
  ServerStuck /\ (\A c \in Clients : ClientStuck(c)) =>
    \/ ~ up
    \/ \E c \in dead : InControl(c)
    \/ \A c \in Clients : c \in dead \/ pc[c] = "done"
    \/ restarts > 0 /\ server = "zero" /\ sem["MEMORY"] > 0

(* The promise of LineChannel.                                             *)
ChannelImpl == INSTANCE LineChannel WITH
  sent <- read,
  transit <- IF LineWaits THEN main_buffer[1] ELSE None,
  held <- stdout,
  down <- ~ up,
  renewed <- restarts > 0

ImplementsLineChannel == ChannelImpl!Spec

(* If nobody is killed every client gets to its end, ...                   *)
ClientsFinish ==
  [](up /\ dead = {}) => \A c \in Clients : pc[c] = "open" ~> pc[c] = "done"

(* ... and while the server is not killed every line sent is printed, also *)
(* a line of a client that was killed after sending it, and gets to the    *)
(* terminal if it ends in a newline.  One that does not may stay in stdout *)
(* for ever.                                                               *)
LinesArrive ==
  []up => \A c \in Clients, n \in 1 .. MAX_LINES :
    read[c] = n ~> IF <<c, n>> \in Unended THEN n \in Printed(c) ELSE n \in OnTerminal(c)

(* What a client has still to do: files to open, lines to read, and the    *)
(* operations of the file or line it is at.                                *)
ClientLeft(c) ==
  5 * (FILES - file[c]) + 5 * (MAX_LINES - read[c]) +
    [start |-> 2, open |-> 1, take |-> 5, fgets |-> 4, rest |-> 3, give |-> 2,
     eof |-> 2, wait |-> 6, done |-> 0][pc[c]]

(* What the server has still to do with the lines in the memory.           *)
ServerLeft ==
  5 * sem["MEMORY"] +
    [off |-> 6, init |-> 5, first |-> 4, rest |-> 3, free |-> 2, zero |-> 1,
     memory |-> 0][server]

(* No client waits, or is sent round, without getting on with its files:   *)
(* every step that is not a kill or a restart brings one client nearer to  *)
(* its end and leaves the others where they are, or is the server's and    *)
(* brings it nearer to its P_oper.  Only clients give the server work, so  *)
(* no execution has infinitely many of these steps.                        *)
StepGetsOn ==
  \/ \E c \in Clients :
       /\ ClientLeft(c)' < ClientLeft(c)
       /\ \A b \in Clients \ {c} : ClientLeft(b)' = ClientLeft(b)
  \/ UNCHANGED client_vars /\ ServerLeft' < ServerLeft
  \/ UNCHANGED <<sem, client_vars>> /\ <<up, dead>>' # <<up, dead>>

StepsGetOn == [][StepGetsOn]_vars
=============================================================================
