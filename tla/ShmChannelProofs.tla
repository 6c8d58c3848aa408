--------------------------- MODULE ShmChannelProofs ---------------------------
(***************************************************************************)
(* For every set of clients, every number of files and lines, and any      *)
(* processes killed: there is one token and at most one more per restart;  *)
(* and as long as the server is not started twice, one process at a time   *)
(* is in control of the channel and the programs implement LineChannel.    *)
(***************************************************************************)
EXTENDS ShmChannel, FiniteSetTheorems, TLAPS

USE ChannelAssumption DEF WholeUntilRestart

ClientSteps == {"start", "open", "take", "fgets", "rest", "give", "eof",
                "wait", "done"}

Controlling == {"fgets", "rest", "give", "eof"}

-----------------------------------------------------------------------------
(* The clients in control are finitely many; what becomes of their number  *)
(* when one comes in or goes out; at most one of them is the same as any   *)
(* two being equal.                                                        *)
LEMMA ControllersCount ==
  /\ Controllers \subseteq Clients
  /\ IsFiniteSet(Controllers)
  /\ Cardinality(Controllers) \in Nat
<1>1. Controllers \subseteq Clients
  BY DEF Controllers
<1>2. QED
  BY <1>1, FS_Subset, FS_CardinalityType

LEMMA ControllersFew ==
  /\ Cardinality(Controllers) = 0 => \A c \in Clients : ~ InControl(c)
  /\ Cardinality(Controllers) <= 1 =>
       \A b, c \in Clients : InControl(b) /\ InControl(c) => b = c
<1>1. Cardinality(Controllers) = 0 => \A c \in Clients : ~ InControl(c)
  BY ControllersCount, FS_EmptySet DEF Controllers
<1>2. ASSUME Cardinality(Controllers) <= 1,
             NEW b \in Clients, NEW c \in Clients, InControl(b), InControl(c)
      PROVE  b = c
  <2>1. SUFFICES ASSUME b # c PROVE FALSE
    OBVIOUS
  <2>2. b \in Controllers /\ c \in Controllers \ {b}
    BY <1>2, <2>1 DEF Controllers
  <2>3. /\ IsFiniteSet(Controllers \ {b})
        /\ Cardinality(Controllers \ {b}) = Cardinality(Controllers) - 1
    BY <2>2, ControllersCount, FS_RemoveElement
  <2>4. Cardinality(Controllers \ {b}) = 0
    BY <1>2, <2>3, ControllersCount, FS_CardinalityType
  <2>5. Controllers \ {b} = {}
    BY <2>3, <2>4, FS_EmptySet
  <2>6. QED
    BY <2>2, <2>5
<1>3. QED
  BY <1>1, <1>2

(* A client's step, without EXCEPT, and what it does to the controllers.   *)
LEMMA GotoMoves ==
  ASSUME TypeOK, NEW c \in Clients, NEW from, NEW to \in ClientSteps,
         Goto(c, from, to)
  PROVE  /\ pc' \in [Clients -> ClientSteps]
         /\ pc[c] = from /\ pc'[c] = to
         /\ \A b \in Clients : b # c => pc'[b] = pc[b]
         /\ (from \in Controlling <=> to \in Controlling) =>
              Controllers' = Controllers
         /\ from \notin Controlling /\ to \in Controlling =>
              Cardinality(Controllers') = Cardinality(Controllers) + 1
         /\ from \in Controlling /\ to \notin Controlling =>
              Cardinality(Controllers') = Cardinality(Controllers) - 1
<1>1. /\ pc' \in [Clients -> ClientSteps]
      /\ pc[c] = from /\ pc'[c] = to
      /\ \A b \in Clients : b # c => pc'[b] = pc[b]
  BY DEF Goto, TypeOK, ClientSteps
<1>2. \A b \in Clients : /\ InControl(b) <=> pc[b] \in Controlling
                         /\ InControl(b)' <=> pc'[b] \in Controlling
  BY DEF InControl, Controlling
<1>3. (from \in Controlling <=> to \in Controlling) => Controllers' = Controllers
  BY <1>1, <1>2 DEF Controllers
<1>4. ASSUME from \notin Controlling, to \in Controlling
      PROVE  Cardinality(Controllers') = Cardinality(Controllers) + 1
  <2>1. Controllers' = Controllers \cup {c} /\ c \notin Controllers
    BY <1>1, <1>2, <1>4 DEF Controllers
  <2>2. QED
    BY <2>1, ControllersCount, FS_AddElement
<1>5. ASSUME from \in Controlling, to \notin Controlling
      PROVE  Cardinality(Controllers') = Cardinality(Controllers) - 1
  <2>1. Controllers' = Controllers \ {c} /\ c \in Controllers
    BY <1>1, <1>2, <1>5 DEF Controllers
  <2>2. QED
    BY <2>1, ControllersCount, FS_RemoveElement
<1>6. QED
  BY <1>1, <1>3, <1>4, <1>5

(* One token can be in one place only.                                     *)
LEMMA OnePlace ==
  ASSUME TypeOK, TokenExact, restarts = 0
  PROVE  /\ OneInControl
         /\ \A c \in Clients : InControl(c) =>
              sem["CHANNEL"] = 0 /\ sem["MEMORY"] = 0 /\ ~ Printing
         /\ sem["CHANNEL"] > 0 =>
              sem["MEMORY"] = 0 /\ ~ Printing /\ \A c \in Clients : ~ InControl(c)
         /\ sem["MEMORY"] > 0 =>
              sem["MEMORY"] = 1 /\ ~ Printing /\ \A c \in Clients : ~ InControl(c)
         /\ Printing => sem["CHANNEL"] = 0 /\ sem["MEMORY"] = 0
<1> DEFINE K == Cardinality(Controllers)
           p == IF Printing THEN 1 ELSE 0
<1>1. /\ sem["CHANNEL"] \in Nat /\ sem["MEMORY"] \in Nat
      /\ K \in Nat /\ p \in 0 .. 1 /\ (Printing <=> p = 1)
  BY ControllersCount DEF TypeOK
<1>2. sem["CHANNEL"] + sem["MEMORY"] + K + p <= 1
  BY <1>1 DEF TokenExact, Tokens
<1>3. K <= 1
  BY <1>1, <1>2
<1>4. K = 0 => \A c \in Clients : ~ InControl(c)
  BY ControllersFew
<1>5. \A c \in Clients : InControl(c) => K = 1
  BY <1>1, <1>3, <1>4
<1>6. OneInControl
  BY <1>1, <1>2, <1>3, <1>5, ControllersFew DEF OneInControl
<1>7. QED
  BY <1>1, <1>2, <1>4, <1>5, <1>6

(* The semaphore calls, one semaphore at a time.                           *)
LEMMA SemaphoreCalls ==
  ASSUME sem \in [{"CHANNEL", "MEMORY"} -> Nat], NEW s \in {"CHANNEL", "MEMORY"}
  PROVE  /\ P_oper(s, 1) => /\ sem' \in [{"CHANNEL", "MEMORY"} -> Nat]
                            /\ sem[s] > 0
                            /\ sem'[s] = sem[s] - 1
                            /\ \A t \in {"CHANNEL", "MEMORY"} :
                                 t # s => sem'[t] = sem[t]
         /\ V_oper(s, 1) => /\ sem' \in [{"CHANNEL", "MEMORY"} -> Nat]
                            /\ sem'[s] = sem[s] + 1
                            /\ \A t \in {"CHANNEL", "MEMORY"} :
                                 t # s => sem'[t] = sem[t]
         /\ Z_oper(s) => sem' = sem
BY DEF P_oper, V_oper, Z_oper

-----------------------------------------------------------------------------
(* What a client's step leaves alone.                                      *)
Rest == <<exists, server, got, out, stdout, up, dead, restarts>>

(* The buffer stays exact while neither it nor what is said about it moves. *)
LEMMA SameBuffer ==
  ASSUME BufferExact, UNCHANGED <<main_buffer, read, got>>,
         LineWaits' => LineWaits,
         server' = "rest" => server = "rest",
         \A c \in Clients : /\ pc'[c] = "rest" => pc[c] = "rest"
                            /\ pc'[c] = "give" => pc[c] = "give"
  PROVE  BufferExact'
BY DEF BufferExact, NextLine

(* Steps of a client that do not touch the token.                          *)
LEMMA QuietStep ==
  ASSUME IInv, NEW c \in Clients, UNCHANGED Rest,
         Attach(c) \/ Open(c) \/ FgetsEnds(c) \/ Wait(c)
  PROVE  IInv'
<1> USE DEF IInv, Rest
<1>1. PICK from \in ClientSteps, to \in ClientSteps : Goto(c, from, to)
                 /\ (from \in Controlling <=> to \in Controlling)
                 /\ to \notin {"rest", "give"}
  BY DEF Attach, Open, FgetsEnds, Wait, ClientSteps, Controlling
<1>2. /\ pc' \in [Clients -> ClientSteps]
      /\ \A b \in Clients : b # c => pc'[b] = pc[b]
      /\ pc'[c] = to
      /\ Controllers' = Controllers
  BY <1>1, GotoMoves
<1>3. UNCHANGED <<sem, main_buffer, read>>
  BY DEF Attach, Open, FgetsEnds, Wait, Z_oper
<1>4. file' \in [Clients -> 0 .. FILES]
  BY DEF Attach, Open, FgetsEnds, Wait, TypeOK
<1>5. TypeOK'
  BY <1>2, <1>3, <1>4 DEF TypeOK, ClientSteps
<1>6. TokenExact'
  BY <1>2, <1>3 DEF TokenExact, Tokens, Printing
<1>7. \A b \in Clients : /\ pc'[b] = "rest" => pc[b] = "rest"
                         /\ pc'[b] = "give" => pc[b] = "give"
  BY <1>1, <1>2
<1>8. restarts' = 0 => BufferExact'
  BY <1>3, <1>7, SameBuffer DEF LineWaits
<1>9. QED
  BY <1>3, <1>5, <1>6, <1>7, <1>8

LEMMA TakeStep ==
  ASSUME IInv, NEW c \in Clients, UNCHANGED Rest, Take(c)
  PROVE  IInv'
<1> USE DEF IInv, Rest
<1>1. /\ pc' \in [Clients -> ClientSteps]
      /\ \A b \in Clients : b # c => pc'[b] = pc[b]
      /\ pc'[c] = "fgets"
      /\ Cardinality(Controllers') = Cardinality(Controllers) + 1
  BY GotoMoves DEF Take, ClientSteps, Controlling
<1>2. /\ sem' \in [{"CHANNEL", "MEMORY"} -> Nat]
      /\ sem["CHANNEL"] > 0
      /\ sem'["CHANNEL"] = sem["CHANNEL"] - 1
      /\ sem'["MEMORY"] = sem["MEMORY"]
  BY SemaphoreCalls DEF Take, TypeOK
<1>3. UNCHANGED <<main_buffer, file, read>>
  BY DEF Take
<1>4. TypeOK'
  BY <1>1, <1>2, <1>3 DEF TypeOK, ClientSteps
<1>5. TokenExact'
  <2>1. Tokens' = Tokens
    BY <1>1, <1>2, ControllersCount DEF Tokens, Printing, TypeOK
  <2>2. QED
    BY <2>1 DEF TokenExact
<1>6. \A b \in Clients : /\ pc'[b] = "rest" => pc[b] = "rest"
                         /\ pc'[b] = "give" => pc[b] = "give"
  BY <1>1
<1>7. restarts' = 0 => BufferExact'
  BY <1>2, <1>3, <1>6, SameBuffer DEF LineWaits
<1>8. QED
  BY <1>3, <1>4, <1>5, <1>6, <1>7

LEMMA UnlockStep ==
  ASSUME IInv, NEW c \in Clients, UNCHANGED Rest, Unlock(c)
  PROVE  IInv'
<1> USE DEF IInv, Rest
<1>1. /\ pc' \in [Clients -> ClientSteps]
      /\ \A b \in Clients : b # c => pc'[b] = pc[b]
      /\ pc'[c] = "open"
      /\ Cardinality(Controllers') = Cardinality(Controllers) - 1
  BY GotoMoves DEF Unlock, ClientSteps, Controlling
<1>2. /\ sem' \in [{"CHANNEL", "MEMORY"} -> Nat]
      /\ sem'["CHANNEL"] = sem["CHANNEL"] + 1
      /\ sem'["MEMORY"] = sem["MEMORY"]
  BY SemaphoreCalls DEF Unlock, TypeOK
<1>3. UNCHANGED <<main_buffer, file, read>>
  BY DEF Unlock
<1>4. TypeOK'
  BY <1>1, <1>2, <1>3 DEF TypeOK, ClientSteps
<1>5. TokenExact'
  <2>1. Tokens' = Tokens
    BY <1>1, <1>2, ControllersCount DEF Tokens, Printing, TypeOK
  <2>2. QED
    BY <2>1 DEF TokenExact
<1>6. \A b \in Clients : /\ pc'[b] = "rest" => pc[b] = "rest"
                         /\ pc'[b] = "give" => pc[b] = "give"
  BY <1>1
<1>7. restarts' = 0 => BufferExact'
  BY <1>2, <1>3, <1>6, SameBuffer DEF LineWaits
<1>8. QED
  BY <1>3, <1>4, <1>5, <1>6, <1>7

(* fgets writes both halves while nobody else is in control and no line is *)
(* waiting.                                                                *)
LEMMA FgetsStep ==
  ASSUME IInv, NEW c \in Clients, UNCHANGED Rest, Fgets(c) \/ FgetsRest(c)
  PROVE  IInv'
<1> USE DEF IInv, Rest
<1>1. PICK from \in {"fgets", "rest"}, to \in {"rest", "give"} :
        /\ Goto(c, from, to)
        /\ from = "fgets" <=> to = "rest"
        /\ to = "rest" => Fgets(c)
        /\ to = "give" => FgetsRest(c)
  BY DEF Fgets, FgetsRest
<1>2. /\ pc' \in [Clients -> ClientSteps]
      /\ \A b \in Clients : b # c => pc'[b] = pc[b]
      /\ pc[c] = from /\ pc'[c] = to
      /\ Controllers' = Controllers
  BY <1>1, GotoMoves DEF ClientSteps, Controlling
<1>3. UNCHANGED <<sem, file, read>>
  BY DEF Fgets, FgetsRest
<1>4. read[c] < MAX_LINES /\ NextLine(c) \in Lines
  BY <1>1, <1>2 DEF Fgets, NextLine, Lines, TypeOK
<1>5. /\ main_buffer' \in [1 .. 2 -> Lines \cup {None}]
      /\ to = "rest" => main_buffer'[1] = NextLine(c)
      /\ to = "give" => /\ main_buffer'[2] = NextLine(c)
                        /\ main_buffer'[1] = main_buffer[1]
  BY <1>1, <1>4 DEF Fgets, FgetsRest, TypeOK
<1>6. TypeOK'
  BY <1>2, <1>3, <1>5 DEF TypeOK, ClientSteps
<1>7. TokenExact'
  BY <1>2, <1>3 DEF TokenExact, Tokens, Printing
<1>8. \A b \in Clients : pc'[b] \in {"rest", "give"} => read'[b] < MAX_LINES
  BY <1>2, <1>3, <1>4
<1>9. ASSUME restarts = 0 PROVE BufferExact'
  <2>1. InControl(c)
    BY <1>2 DEF InControl
  <2>2. /\ \A b \in Clients : b # c => ~ InControl(b)
        /\ ~ LineWaits /\ server # "rest"
    BY <1>9, <2>1, OnePlace DEF OneInControl, LineWaits, Printing
  <2>3. ~ LineWaits'
    BY <1>3, <2>2 DEF LineWaits
  <2>4. \A b \in Clients : b # c => pc'[b] \notin {"rest", "give"}
    BY <1>2, <2>2 DEF InControl
  <2>5. main_buffer'[1] = NextLine(c)
    BY <1>1, <1>2, <1>5, <1>9 DEF BufferExact
  <2>6. NextLine(c)' = NextLine(c)
    BY <1>3 DEF NextLine
  <2>7. QED
    BY <1>2, <1>5, <2>2, <2>3, <2>4, <2>5, <2>6 DEF BufferExact
<1>10. QED
  BY <1>6, <1>7, <1>8, <1>9

(* The line goes to the server whole.                                      *)
LEMMA GiveStep ==
  ASSUME IInv, NEW c \in Clients, UNCHANGED Rest, Give(c)
  PROVE  IInv'
<1> USE DEF IInv, Rest
<1>1. /\ pc' \in [Clients -> ClientSteps]
      /\ \A b \in Clients : b # c => pc'[b] = pc[b]
      /\ pc[c] = "give" /\ pc'[c] = "wait"
      /\ Cardinality(Controllers') = Cardinality(Controllers) - 1
  BY GotoMoves DEF Give, ClientSteps, Controlling
<1>2. /\ sem' \in [{"CHANNEL", "MEMORY"} -> Nat]
      /\ sem'["MEMORY"] = sem["MEMORY"] + 1
      /\ sem'["CHANNEL"] = sem["CHANNEL"]
  BY SemaphoreCalls DEF Give, TypeOK
<1>3. /\ UNCHANGED <<main_buffer, file>>
      /\ read[c] < MAX_LINES
      /\ read' = [read EXCEPT ![c] = @ + 1]
  BY <1>1 DEF Give
<1>4. TypeOK'
  BY <1>1, <1>2, <1>3 DEF TypeOK, ClientSteps
<1>5. TokenExact'
  <2>1. Tokens' = Tokens
    BY <1>1, <1>2, ControllersCount DEF Tokens, Printing, TypeOK
  <2>2. QED
    BY <2>1 DEF TokenExact
<1>6. \A b \in Clients : pc'[b] \in {"rest", "give"} => read'[b] < MAX_LINES
  BY <1>1, <1>3 DEF TypeOK
<1>7. ASSUME restarts = 0 PROVE BufferExact'
  <2>1. InControl(c)
    BY <1>1 DEF InControl
  <2>2. /\ \A b \in Clients : b # c => ~ InControl(b)
        /\ server # "rest"
    BY <1>7, <2>1, OnePlace DEF OneInControl, Printing
  <2>3. \A b \in Clients : pc'[b] \notin {"rest", "give"}
    BY <1>1, <2>2 DEF InControl
  <2>4. read'[c] = read[c] + 1 /\ read'[c] > 0
    BY <1>3 DEF TypeOK
  <2>5. \A half \in 1 .. 2 : main_buffer'[half] = <<c, read'[c]>>
    BY <1>1, <1>3, <1>7, <2>4 DEF BufferExact, NextLine
  <2>6. QED
    BY <2>2, <2>3, <2>4, <2>5 DEF BufferExact
<1>8. QED
  BY <1>4, <1>5, <1>6, <1>7

-----------------------------------------------------------------------------
LEMMA ServerStep ==
  ASSUME IInv, Server
  PROVE  IInv'
<1> USE DEF IInv
<1>1. /\ UNCHANGED <<main_buffer, pc, file, read, up, dead, restarts>>
      /\ Controllers' = Controllers
  BY DEF Server, client_vars, fault_vars, Controllers, InControl
<1>2. \A c \in Clients : pc'[c] \in {"rest", "give"} => read'[c] < MAX_LINES
  BY <1>1
<1>3. CASE Create
  <2>1. /\ server = "off" /\ server' = "init" /\ exists' = TRUE
        /\ UNCHANGED <<sem, got, out, stdout>>
    BY <1>3 DEF Create, ServerGoto
  <2>2. TypeOK'
    BY <1>1, <2>1 DEF TypeOK
  <2>3. TokenExact'
    BY <1>1, <2>1 DEF TokenExact, Tokens, Printing
  <2>4. restarts' = 0 => BufferExact'
    BY <1>1, <2>1, SameBuffer DEF LineWaits
  <2>5. QED
    BY <1>2, <2>2, <2>3, <2>4
<1>4. CASE FirstFree
  <2>1. /\ server = "init" /\ server' = "memory"
        /\ UNCHANGED <<exists, got, out, stdout>>
        /\ sem' \in [{"CHANNEL", "MEMORY"} -> Nat]
        /\ sem'["CHANNEL"] = sem["CHANNEL"] + 1
        /\ sem'["MEMORY"] = sem["MEMORY"]
    BY <1>4, SemaphoreCalls DEF FirstFree, ServerGoto, TypeOK
  <2>2. TypeOK'
    BY <1>1, <2>1 DEF TypeOK
  <2>3. TokenExact'
    <3>1. /\ sem["CHANNEL"] \in Nat /\ sem["MEMORY"] \in Nat
          /\ Cardinality(Controllers) \in Nat /\ Cardinality(Controllers') \in Nat
          /\ Cardinality(Controllers') = Cardinality(Controllers)
      BY <1>1, ControllersCount DEF TypeOK
    <3>2. ~ Printing /\ ~ Printing'
      BY <2>1 DEF Printing
    <3>3. Tokens' = Tokens + 1 /\ Tokens \in Nat
      BY <2>1, <3>1, <3>2 DEF Tokens
    <3>4. QED
      BY <1>1, <2>1, <3>3 DEF TokenExact, TypeOK
  <2>4. restarts' = 0 => BufferExact'
    BY <1>1, <2>1, SameBuffer DEF LineWaits
  <2>5. QED
    BY <1>2, <2>2, <2>3, <2>4
<1>5. CASE TakeMemory
  <2>1. /\ server = "memory" /\ server' = "first"
        /\ UNCHANGED <<exists, got, out, stdout>>
        /\ sem' \in [{"CHANNEL", "MEMORY"} -> Nat]
        /\ sem["MEMORY"] > 0
        /\ sem'["MEMORY"] = sem["MEMORY"] - 1
        /\ sem'["CHANNEL"] = sem["CHANNEL"]
    BY <1>5, SemaphoreCalls DEF TakeMemory, ServerGoto, TypeOK
  <2>2. TypeOK'
    BY <1>1, <2>1 DEF TypeOK
  <2>3. TokenExact'
    <3>1. Tokens' = Tokens
      BY <1>1, <2>1, ControllersCount DEF Tokens, Printing, TypeOK
    <3>2. QED
      BY <1>1, <2>1, <3>1 DEF TokenExact
  <2>4. restarts' = 0 => BufferExact'
    BY <1>1, <2>1, SameBuffer DEF LineWaits
  <2>5. QED
    BY <1>2, <2>2, <2>3, <2>4
<1>6. CASE PrintFirst
  <2>1. /\ server = "first" /\ server' = "rest"
        /\ got' = main_buffer[1]
        /\ UNCHANGED <<sem, exists, out, stdout>>
    BY <1>6 DEF PrintFirst, ServerGoto
  <2>2. TypeOK'
    BY <1>1, <2>1 DEF TypeOK
  <2>3. TokenExact'
    BY <1>1, <2>1 DEF TokenExact, Tokens, Printing
  <2>4. ASSUME restarts' = 0 PROVE BufferExact'
    <3>1. LineWaits /\ BufferExact
      BY <1>1, <2>1, <2>4 DEF LineWaits
    <3>2. main_buffer[1] = main_buffer[2]
      BY <3>1 DEF BufferExact
    <3>3. QED
      BY <1>1, <2>1, <3>1, <3>2 DEF BufferExact, NextLine
  <2>5. QED
    BY <1>2, <2>2, <2>3, <2>4
<1>7. CASE PrintRest
  <2>1. /\ server = "rest" /\ server' = "free"
        /\ Printf(Text)
        /\ UNCHANGED <<sem, exists, got>>
    BY <1>7 DEF PrintRest, ServerGoto
  <2>2. out' \in Seq(Lines \cup {None}) /\ stdout' \in Seq(Lines \cup {None})
    <3>1. Text \in Lines \cup {None}
      BY DEF Text, TypeOK
    <3> DEFINE S == Lines \cup {None}
    <3>2. out \in Seq(S) /\ stdout \in Seq(S) /\ <<>> \in Seq(S)
      BY DEF TypeOK
    <3> HIDE DEF S
    <3>3. Append(stdout, Text) \in Seq(S) /\ <<Text>> \in Seq(S)
      BY <3>1, <3>2 DEF S
    <3>4. out \o Append(stdout, Text) \in Seq(S) /\ out \o stdout \in Seq(S)
      BY <3>2, <3>3
    <3>5. out' \in Seq(S) /\ stdout' \in Seq(S)
      BY <2>1, <3>2, <3>3, <3>4 DEF Printf
    <3>6. QED
      BY <3>5 DEF S
  <2>3. TypeOK'
    BY <1>1, <2>1, <2>2 DEF TypeOK
  <2>4. TokenExact'
    BY <1>1, <2>1 DEF TokenExact, Tokens, Printing
  <2>5. restarts' = 0 => BufferExact'
    BY <1>1, <2>1, SameBuffer DEF LineWaits
  <2>6. QED
    BY <1>2, <2>3, <2>4, <2>5
<1>8. CASE Free
  <2>1. /\ server = "free" /\ server' = "zero"
        /\ UNCHANGED <<exists, got, out, stdout>>
        /\ sem' \in [{"CHANNEL", "MEMORY"} -> Nat]
        /\ sem'["CHANNEL"] = sem["CHANNEL"] + 1
        /\ sem'["MEMORY"] = sem["MEMORY"]
    BY <1>8, SemaphoreCalls DEF Free, ServerGoto, TypeOK
  <2>2. TypeOK'
    BY <1>1, <2>1 DEF TypeOK
  <2>3. TokenExact'
    <3>1. Tokens' = Tokens
      BY <1>1, <2>1, ControllersCount DEF Tokens, Printing, TypeOK
    <3>2. QED
      BY <1>1, <2>1, <3>1 DEF TokenExact
  <2>4. restarts' = 0 => BufferExact'
    BY <1>1, <2>1, SameBuffer DEF LineWaits
  <2>5. QED
    BY <1>2, <2>2, <2>3, <2>4
<1>9. CASE AwaitTaken
  <2>1. /\ server = "zero" /\ server' = "memory"
        /\ UNCHANGED <<sem, exists, got, out, stdout>>
    BY <1>9 DEF AwaitTaken, ServerGoto, Z_oper
  <2>2. TypeOK'
    BY <1>1, <2>1 DEF TypeOK
  <2>3. TokenExact'
    BY <1>1, <2>1 DEF TokenExact, Tokens, Printing
  <2>4. restarts' = 0 => BufferExact'
    BY <1>1, <2>1, SameBuffer DEF LineWaits
  <2>5. QED
    BY <1>2, <2>2, <2>3, <2>4
<1>10. QED
  BY <1>3, <1>4, <1>5, <1>6, <1>7, <1>8, <1>9 DEF Server

LEMMA FaultStep ==
  ASSUME IInv, \/ \E c \in Clients : KillClient(c)
               \/ KillServer
               \/ Restart
  PROVE  IInv'
<1> USE DEF IInv
<1>1. /\ UNCHANGED <<sem, exists, main_buffer, pc, file, read, got, out>>
      /\ stdout' = stdout \/ stdout' = <<>>
      /\ Controllers' = Controllers
  BY DEF KillClient, KillServer, Restart, client_vars, server_vars,
         Controllers, InControl
<1>2. stdout' \in Seq(Lines \cup {None})
  <2> DEFINE S == Lines \cup {None}
  <2>1. stdout \in Seq(S)
    BY DEF TypeOK
  <2> HIDE DEF S
  <2>2. <<>> \in Seq(S)
    OBVIOUS
  <2>3. stdout' \in Seq(S)
    BY <1>1, <2>1, <2>2
  <2>4. QED
    BY <2>3 DEF S
<1>3. CASE \/ \E c \in Clients : KillClient(c)
           \/ KillServer
  <2>1. server' = server /\ restarts' = restarts
    BY <1>3 DEF KillClient, KillServer, server_vars
  <2>2. TypeOK'
    BY <1>2, <1>1, <1>3, <2>1 DEF TypeOK, KillClient, KillServer
  <2>3. TokenExact'
    BY <1>1, <2>1 DEF TokenExact, Tokens, Printing
  <2>4. restarts' = 0 => BufferExact'
    BY <1>1, <2>1, SameBuffer DEF LineWaits
  <2>5. QED
    BY <1>1, <2>2, <2>3, <2>4
<1>4. CASE Restart
  <2>1. server' = "init" /\ restarts' = restarts + 1
    BY <1>4 DEF Restart
  <2>2. TypeOK'
    BY <1>2, <1>1, <1>4 DEF TypeOK, Restart
  <2>3. TokenExact'
    <3> DEFINE others == sem["CHANNEL"] + sem["MEMORY"] + Cardinality(Controllers)
    <3>1. /\ sem["CHANNEL"] \in Nat /\ sem["MEMORY"] \in Nat
          /\ Cardinality(Controllers) \in Nat
          /\ restarts \in Nat
      BY ControllersCount DEF TypeOK
    <3>2. others \in Nat
      BY <3>1
    <3>3. others <= 1 + restarts
      <4>1. CASE Printing
        BY <3>1, <4>1 DEF TokenExact, Tokens, Printing
      <4>2. CASE ~ Printing
        BY <3>1, <4>2 DEF TokenExact, Tokens
      <4>3. QED
        BY <4>1, <4>2
    <3>4. Tokens' = others
      BY <1>1, <2>1, <3>1 DEF Tokens, Printing
    <3>5. Tokens' \in 0 .. restarts + 1
      <4> HIDE DEF others
      <4>1. QED
        BY <3>1, <3>2, <3>3, <3>4
    <3>6. QED
      BY <2>1, <3>1, <3>5 DEF TokenExact
  <2>4. restarts' # 0
    BY <2>1 DEF TypeOK
  <2>5. QED
    BY <1>1, <2>2, <2>3, <2>4
<1>5. QED
  BY <1>3, <1>4

-----------------------------------------------------------------------------
LEMMA InitEstablishes == Init => IInv
<1> SUFFICES ASSUME Init PROVE IInv
  OBVIOUS
<1> USE DEF Init
<1>1. TypeOK
  <2>1. out \in Seq(Lines \cup {None})
    OBVIOUS
  <2>2. main_buffer \in [1 .. 2 -> Lines \cup {None}]
    OBVIOUS
  <2>3. /\ sem \in [{"CHANNEL", "MEMORY"} -> Nat]
        /\ pc \in [Clients -> {"start", "open", "take", "fgets", "rest", "give",
                               "eof", "wait", "done"}]
    OBVIOUS
  <2>4. /\ file \in [Clients -> 0 .. FILES]
        /\ read \in [Clients -> 0 .. MAX_LINES]
        /\ restarts \in 0 .. MAX_RESTARTS
    OBVIOUS
  <2>5. /\ exists \in BOOLEAN /\ up \in BOOLEAN
        /\ server \in {"off", "init", "memory", "first", "rest", "free", "zero"}
        /\ got \in Lines \cup {None}
        /\ dead \in SUBSET Clients
    OBVIOUS
  <2>6. stdout \in Seq(Lines \cup {None})
    OBVIOUS
  <2>7. QED
    BY <2>1, <2>2, <2>3, <2>4, <2>5, <2>6 DEF TypeOK
<1>2. TokenExact
  <2>1. Controllers = {}
    BY DEF Controllers, InControl
  <2>2. QED
    BY <2>1, FS_EmptySet DEF TokenExact, Tokens, Printing
<1>3. BufferExact
  BY DEF BufferExact, LineWaits
<1>4. QED
  BY <1>1, <1>2, <1>3 DEF IInv

LEMMA NextPreserves == IInv /\ [Next]_vars => IInv'
<1> SUFFICES ASSUME IInv, [Next]_vars PROVE IInv'
  OBVIOUS
<1>1. ASSUME NEW c \in Clients, Client(c) PROVE IInv'
  <2>1. UNCHANGED Rest
    BY <1>1 DEF Client, Rest, server_vars, fault_vars
  <2>2. QED
    BY <1>1, <2>1, QuietStep, TakeStep, UnlockStep, FgetsStep, GiveStep
    DEF Client
<1>2. CASE Server
  BY <1>2, ServerStep
<1>3. CASE (\E c \in Clients : KillClient(c)) \/ KillServer \/ Restart
  BY <1>3, FaultStep
<1>4. CASE UNCHANGED vars
  <2>1. UNCHANGED <<sem, exists, main_buffer, pc, file, read, server, got,
                    out, stdout, up, dead, restarts>>
    BY <1>4 DEF vars, client_vars, server_vars, fault_vars
  <2>2. Controllers' = Controllers
    BY <2>1 DEF Controllers, InControl
  <2>3. TypeOK' /\ TokenExact'
    BY <2>1, <2>2 DEF IInv, TypeOK, TokenExact, Tokens, Printing
  <2>4. restarts' = 0 => BufferExact'
    BY <2>1, SameBuffer DEF IInv, LineWaits
  <2>5. QED
    BY <2>1, <2>3, <2>4 DEF IInv
<1>5. QED
  BY <1>1, <1>2, <1>3, <1>4 DEF Next

(* The inductive invariant holds whoever is killed or started again.       *)
THEOREM Invariance == Spec => []IInv
<1>1. QED
  BY InitEstablishes, NextPreserves, PTL DEF Spec

(* Every variable keeps its type.                                          *)
THEOREM TypeCorrect == Spec => []TypeOK
<1>1. IInv => TypeOK
  BY DEF IInv
<1>2. QED
  BY <1>1, Invariance, PTL

(* There is one token, and at most one more for each restart of the server. *)
THEOREM TokensBounded == Spec => []TokenExact
<1>1. IInv => TokenExact
  BY DEF IInv
<1>2. QED
  BY <1>1, Invariance, PTL

(* Nobody waits for ever but for a killed process or a doubled token:      *)
(* clients at P_oper(CHANNEL) and a server at P_oper(MEMORY) cannot all be *)
(* waiting while the token is there.                                       *)
THEOREM StandstillShape == Spec => []StandstillExplained
<1>1. IInv => StandstillExplained
  <2> SUFFICES ASSUME IInv, ServerStuck, \A c \in Clients : ClientStuck(c), up,
                      \A c \in dead : ~ InControl(c),
                      NEW d \in Clients, d \notin dead, pc[d] # "done"
               PROVE  restarts > 0 /\ server = "zero" /\ sem["MEMORY"] > 0
    BY DEF StandstillExplained
  <2>1. /\ sem["CHANNEL"] \in Nat /\ sem["MEMORY"] \in Nat /\ restarts \in Nat
        /\ dead \subseteq Clients
    BY DEF IInv, TypeOK
  <2>2. \A c \in Clients : ~ InControl(c)
    BY DEF ClientStuck, InControl
  <2>3. Cardinality(Controllers) = 0
    BY <2>2, FS_EmptySet DEF Controllers
  <2>4. \/ pc[d] = "take" /\ sem["CHANNEL"] = 0
        \/ pc[d] = "wait" /\ sem["MEMORY"] > 0
    BY <2>1 DEF ClientStuck
  <2>5. CASE server = "memory" /\ sem["MEMORY"] = 0
    <3>1. Tokens = 0
      BY <2>1, <2>3, <2>4, <2>5 DEF Tokens, Printing
    <3>2. QED
      BY <2>1, <2>5, <3>1 DEF IInv, TokenExact
  <2>6. CASE server = "zero" /\ sem["CHANNEL"] # 0
    <3>1. sem["MEMORY"] > 0
      BY <2>4, <2>6
    <3>2. restarts # 0
      BY <2>1, <2>6, <3>1, OnePlace DEF IInv
    <3>3. QED
      BY <2>1, <2>6, <3>1, <3>2
  <2>7. QED
    BY <2>5, <2>6 DEF ServerStuck
<1>2. QED
  BY <1>1, Invariance, PTL

-----------------------------------------------------------------------------
(* Until a server is started on the old set one process at a time is in    *)
(* control of the channel, whoever is killed.                              *)
THEOREM Control == Spec => []ControlUntilRestart
<1>1. IInv => ControlUntilRestart
  BY OnePlace DEF IInv, ControlUntilRestart
<1>2. QED
  BY <1>1, Invariance, PTL

(* ... and what the server finds in the buffer is the whole line sent.     *)
THEOREM BufferWhole == Spec => []WholeUntilRestart
<1>1. IInv => WholeUntilRestart
  BY DEF IInv
<1>2. QED
  BY <1>1, Invariance, PTL

-----------------------------------------------------------------------------
(* LineChannel sees a line in transit from a client's V_oper(MEMORY) until *)
(* it is printed.                                                          *)
LEMMA InitRefines == Init => ChannelImpl!Init
BY DEF Init, ChannelImpl!Init, ChannelImpl!None, LineWaits, None

LEMMA ClientRefines ==
  ASSUME IInv, restarts = 0, NEW c \in Clients, Client(c)
  PROVE  ChannelImpl!Send(c) \/ UNCHANGED ChannelImpl!vars
<1> USE DEF IInv
<1>1. UNCHANGED <<server, got, out, stdout, up, restarts>>
  BY DEF Client, server_vars, fault_vars
<1>2. sem["CHANNEL"] \in Nat /\ sem["MEMORY"] \in Nat
  BY DEF TypeOK
<1>3. CASE Give(c)
  <2>1. InControl(c)
    BY <1>3 DEF Give, Goto, InControl
  <2>2. sem["MEMORY"] = 0 /\ ~ Printing /\ ~ LineWaits
    BY <2>1, OnePlace DEF LineWaits, Printing
  <2>3. sem'["MEMORY"] = sem["MEMORY"] + 1
    BY <1>3, SemaphoreCalls DEF Give, TypeOK
  <2>4. LineWaits'
    BY <1>2, <2>3 DEF LineWaits
  <2>5. main_buffer'[1] = <<c, read[c] + 1>>
    BY <1>3 DEF Give, Goto, BufferExact, NextLine
  <2>6. read' = [read EXCEPT ![c] = @ + 1]
    BY <1>3 DEF Give
  <2>7. ChannelImpl!Send(c)
    BY <1>1, <2>2, <2>4, <2>5, <2>6 DEF ChannelImpl!Send, ChannelImpl!None, None
  <2>8. QED
    BY <2>7
<1>4. CASE Fgets(c) \/ FgetsRest(c)
  <2>1. InControl(c)
    BY <1>4 DEF Fgets, FgetsRest, Goto, InControl
  <2>2. ~ LineWaits
    BY <2>1, OnePlace DEF LineWaits, Printing
  <2>3. UNCHANGED <<sem, read>>
    BY <1>4 DEF Fgets, FgetsRest
  <2>4. QED
    BY <1>1, <2>2, <2>3 DEF ChannelImpl!vars, LineWaits
<1>5. CASE Take(c) \/ Unlock(c)
  <2>1. UNCHANGED <<main_buffer, read>> /\ sem'["MEMORY"] = sem["MEMORY"]
    BY <1>5, SemaphoreCalls DEF Take, Unlock, TypeOK
  <2>2. QED
    BY <1>1, <2>1 DEF ChannelImpl!vars, LineWaits
<1>6. CASE Attach(c) \/ Open(c) \/ FgetsEnds(c) \/ Wait(c)
  BY <1>1, <1>6 DEF Attach, Open, FgetsEnds, Wait, Z_oper, ChannelImpl!vars,
     LineWaits
<1>7. QED
  BY <1>3, <1>4, <1>5, <1>6 DEF Client

LEMMA ServerRefines ==
  ASSUME IInv, restarts = 0, Server
  PROVE  ChannelImpl!Deliver \/ UNCHANGED ChannelImpl!vars
<1> USE DEF IInv
<1>1. up /\ UNCHANGED <<main_buffer, read, up, restarts>>
  BY DEF Server, client_vars, fault_vars
<1>2. sem["CHANNEL"] \in Nat /\ sem["MEMORY"] \in Nat
  BY DEF TypeOK
<1>3. CASE TakeMemory
  <2>1. LineWaits /\ LineWaits' /\ out' = out /\ stdout' = stdout
    BY <1>2, <1>3, SemaphoreCalls DEF TakeMemory, ServerGoto, LineWaits, TypeOK
  <2>2. QED
    BY <1>1, <2>1 DEF ChannelImpl!vars
<1>4. CASE PrintRest
  <2>1. /\ server = "rest" /\ server' = "free" /\ sem' = sem
        /\ Printf(Text)
    BY <1>4 DEF PrintRest, ServerGoto
  <2>2. sem["MEMORY"] = 0 /\ LineWaits
    BY <2>1, OnePlace DEF Printing, LineWaits
  <2>3. ~ LineWaits'
    BY <2>1, <2>2 DEF LineWaits
  <2>4. PICK c \in Clients : \A half \in 1 .. 2 : main_buffer[half] = <<c, read[c]>>
    BY <2>2 DEF BufferExact
  <2>5. main_buffer[1] = main_buffer[2] /\ main_buffer[1] # <<>>
    <3>1. main_buffer[1] = <<c, read[c]>> /\ main_buffer[2] = <<c, read[c]>>
      BY <2>4
    <3>2. <<c, read[c]>> # <<>>
      OBVIOUS
    <3>3. QED
      BY <3>1, <3>2
  <2>6. Text = main_buffer[1] /\ Text # None
    BY <2>1, <2>5 DEF BufferExact, Text, None
  <2>7. ChannelImpl!Deliver
    <3>1. \/ out' = out \o Append(stdout, Text) /\ stdout' = <<>>
          \/ out' = out \o stdout /\ stdout' = <<Text>> /\ Text \in Unended
          \/ out' = out /\ stdout' = Append(stdout, Text) /\ Text \in Unended
      BY <2>1, <2>6 DEF Printf
    <3>2. QED
      BY <1>1, <2>2, <2>3, <2>6, <3>1 DEF ChannelImpl!Deliver, ChannelImpl!None, None
  <2>8. QED
    BY <2>7
<1>5. CASE Create \/ FirstFree \/ PrintFirst \/ Free \/ AwaitTaken
  <2>1. sem'["MEMORY"] = sem["MEMORY"] /\ out' = out /\ stdout' = stdout
    BY <1>5, SemaphoreCalls
    DEF Create, FirstFree, PrintFirst, Free, AwaitTaken, TypeOK
  <2>2. server' \in {"first", "rest"} <=> server \in {"first", "rest"}
    BY <1>5 DEF Create, FirstFree, PrintFirst, Free, AwaitTaken, ServerGoto
  <2>3. QED
    BY <1>1, <2>1, <2>2 DEF ChannelImpl!vars, LineWaits
<1>6. QED
  BY <1>3, <1>4, <1>5 DEF Server

LEMMA NextRefines ==
  ASSUME IInv, [Next]_vars
  PROVE  [ChannelImpl!Next]_(ChannelImpl!vars)
<1>1. restarts \in Nat /\ restarts' \in {restarts, restarts + 1}
  BY DEF IInv, TypeOK, Next, Client, Server, KillClient, KillServer, Restart,
     vars, fault_vars
<1>2. CASE restarts' > 0
  BY <1>2 DEF ChannelImpl!Next
<1>3. CASE restarts' = 0
  <2>1. restarts = 0
    BY <1>1, <1>3
  <2>2. CASE \E c \in Clients : Client(c)
    BY <1>3, <2>1, <2>2, ClientRefines DEF ChannelImpl!Next
  <2>3. CASE Server
    BY <1>3, <2>1, <2>3, ServerRefines DEF ChannelImpl!Next
  <2>4. CASE \E c \in Clients : KillClient(c)
    <3>1. UNCHANGED <<sem, main_buffer, read, server, out, stdout, up, restarts>>
      BY <2>4 DEF KillClient, client_vars, server_vars
    <3>2. QED
      BY <3>1 DEF ChannelImpl!vars, LineWaits
  <2>5. CASE KillServer
    <3>1. /\ UNCHANGED <<sem, main_buffer, read, server, out, restarts>>
          /\ up /\ ~ up' /\ stdout' = <<>>
      BY <2>5 DEF KillServer, client_vars
    <3>2. ChannelImpl!GoDown
      BY <3>1 DEF ChannelImpl!GoDown, LineWaits
    <3>3. QED
      BY <1>3, <3>2 DEF ChannelImpl!Next
  <2>6. CASE Restart
    BY <1>3, <2>1, <2>6 DEF Restart
  <2>7. CASE UNCHANGED vars
    BY <2>7 DEF vars, client_vars, server_vars, fault_vars, ChannelImpl!vars,
       LineWaits
  <2>8. QED
    BY <2>2, <2>3, <2>4, <2>5, <2>6, <2>7 DEF Next
<1>4. QED
  BY <1>1, <1>2, <1>3

(* For any number of clients, files and lines, and any processes killed,   *)
(* until the server is started again the programs implement LineChannel:   *)
(* every line that appears is whole, once on the terminal and in the order *)
(* of sending.                                                             *)
THEOREM Refinement == Spec => ImplementsLineChannel
<1>1. IInv /\ [Next]_vars => [ChannelImpl!Next]_(ChannelImpl!vars)
  BY NextRefines
<1>2. QED
  BY <1>1, InitRefines, Invariance, PTL
  DEF Spec, ImplementsLineChannel, ChannelImpl!Spec

-----------------------------------------------------------------------------
(* From end to end.  The steps are those of LineChannel: a line is sent, a *)
(* line is printed, the server goes down, or nothing of it changes.        *)
Transit == IF LineWaits THEN main_buffer[1] ELSE None

Sends(c) ==
  /\ Transit = None /\ Transit' = <<c, read[c] + 1>>
  /\ read' = [read EXCEPT ![c] = @ + 1]
  /\ UNCHANGED <<out, stdout, up>>

Delivers ==
  /\ up /\ up' = up
  /\ Transit # None /\ Transit' = None
  /\ \/ out' = out \o Append(stdout, Transit) /\ stdout' = <<>>
     \/ out' = out \o stdout /\ stdout' = <<Transit>> /\ Transit \in Unended
     \/ out' = out /\ stdout' = Append(stdout, Transit) /\ Transit \in Unended
  /\ read' = read

GoesDown ==
  /\ ~ up'
  /\ stdout' = <<>>
  /\ Transit' = Transit /\ UNCHANGED <<read, out>>

LEMMA ChannelSteps ==
  ASSUME IInv, [Next]_vars, restarts' = 0
  PROVE  /\ restarts = 0
         /\ \/ \E c \in Clients : Sends(c)
            \/ Delivers
            \/ GoesDown
            \/ Transit' = Transit /\ UNCHANGED <<read, out, stdout, up>>
<1>1. /\ restarts = 0
      /\ up \in BOOLEAN /\ up' \in BOOLEAN
  BY NextPreserves
  DEF IInv, TypeOK, Next, Client, Server, KillClient, KillServer, Restart,
     vars, fault_vars
<1>2. CASE \E c \in Clients : ChannelImpl!Send(c)
  BY <1>1, <1>2
  DEF ChannelImpl!Send, ChannelImpl!None, None, Transit, Sends
<1>3. CASE ChannelImpl!Deliver
  <2>1. up /\ up' = up
    BY <1>1, <1>3, Zenon DEF ChannelImpl!Deliver
  <2>2. QED
    BY <1>1, <1>3, <2>1
    DEF ChannelImpl!Deliver, ChannelImpl!None, None, Transit, Delivers
<1>4. CASE ChannelImpl!GoDown
  <2>1. ~ up'
    BY <1>1, <1>4, Zenon DEF ChannelImpl!GoDown
  <2>2. QED
    BY <1>1, <1>4, <2>1
    DEF ChannelImpl!GoDown, Transit, GoesDown
<1>5. CASE UNCHANGED ChannelImpl!vars
  BY <1>1, <1>5 DEF ChannelImpl!vars, Transit
<1>6. QED
  BY <1>1, <1>2, <1>3, <1>4, <1>5, NextRefines DEF ChannelImpl!Next

LEMMA OnItsWayIsTransit ==
  ASSUME NEW c \in Clients
  PROVE  /\ OnItsWay(c) = {n \in {read[c]} : Transit = <<c, n>>}
         /\ OnItsWay(c)' = {n \in {read'[c]} : Transit' = <<c, n>>}
<1>1. \A n : <<c, n>> # None
  BY DEF None
<1>2. QED
  BY <1>1 DEF OnItsWay, Transit

(* What has been printed is on the terminal or kept by stdout, and a line  *)
(* printed goes behind it in either case.                                  *)
LEMMA ShownParts ==
  ASSUME TypeOK
  PROVE  /\ Len(Shown) \in Nat /\ Len(out) \in Nat /\ Len(stdout) \in Nat
         /\ Len(Shown) = Len(out) + Len(stdout)
         /\ \A k \in 1 .. Len(out) : Shown[k] = out[k]
         /\ \A k \in 1 .. Len(stdout) : Shown[Len(out) + k] = stdout[k]
BY DEF TypeOK, Shown

LEMMA ShownGrows ==
  ASSUME TypeOK, Delivers
  PROVE  /\ Len(Shown') = Len(Shown) + 1
         /\ \A k \in 1 .. Len(Shown) : Shown'[k] = Shown[k]
         /\ Shown'[Len(Shown) + 1] = Transit
<1> DEFINE S == Lines \cup {None}
<1>1. out \in Seq(S) /\ stdout \in Seq(S) /\ Transit \in S
  BY DEF TypeOK, Transit
<1> HIDE DEF S
<1>2. /\ Append(stdout, Transit) \in Seq(S)
      /\ Len(Append(stdout, Transit)) = Len(stdout) + 1
      /\ \A k \in 1 .. Len(stdout) : Append(stdout, Transit)[k] = stdout[k]
      /\ Append(stdout, Transit)[Len(stdout) + 1] = Transit
  BY <1>1
<1>3. CASE out' = out \o Append(stdout, Transit) /\ stdout' = <<>>
  <2>1. out' \in Seq(S) /\ <<>> \in Seq(S)
    BY <1>1, <1>2, <1>3
  <2>2. Len(out') = Len(out) + Len(stdout) + 1
    BY <1>1, <1>2, <1>3
  <2>3. Len(Shown') = Len(out') /\ \A k \in 1 .. Len(out') : Shown'[k] = out'[k]
    BY <1>3, <2>1 DEF Shown
  <2>4. QED
    BY <1>1, <1>2, <1>3, <2>2, <2>3 DEF Shown
<1>4. CASE out' = out \o stdout /\ stdout' = <<Transit>>
  BY <1>1, <1>4 DEF Shown
<1>5. CASE out' = out /\ stdout' = Append(stdout, Transit)
  BY <1>1, <1>2, <1>5 DEF Shown
<1>6. QED
  BY <1>3, <1>4, <1>5 DEF Delivers

(* A line sent is on its way first ...                                     *)
LEMMA SendKeepsLines ==
  ASSUME TypeOK, LinesPrintedOnce, restarts = 0, NEW c \in Clients, Sends(c)
  PROVE  LinesPrintedOnce'
<1>1. /\ \A b \in Clients : Printed(b)' = Printed(b) /\ OnTerminal(b)' = OnTerminal(b)
      /\ \A b \in Clients : read[b] \in Nat
      /\ Shown' = Shown /\ stdout' = stdout /\ up' = up
      /\ read'[c] = read[c] + 1
      /\ \A b \in Clients \ {c} : read'[b] = read[b]
  BY DEF Sends, Printed, OnTerminal, Shown, TypeOK
<1>2. \A b \in Clients : \A n : <<b, n>> # None
  BY DEF None
<1>3. \A b \in Clients : OnItsWay(b) = {}
  BY <1>2, OnItsWayIsTransit DEF Sends
<1>4. \A b \in Clients : OnItsWay(b)' = {n \in {read'[b]} : Transit' = <<b, n>>}
  BY OnItsWayIsTransit
<1>5. \A b \in Clients : (1 .. read'[b]) \ OnItsWay(b)' = (1 .. read[b]) \ OnItsWay(b)
  <2>1. OnItsWay(c)' = {read[c] + 1}
    BY <1>1, <1>4 DEF Sends
  <2>2. (1 .. read'[c]) \ OnItsWay(c)' = 1 .. read[c]
    BY <1>1, <2>1
  <2>3. \A b \in Clients \ {c} : OnItsWay(b)' = {}
    BY <1>4 DEF Sends
  <2>4. QED
    BY <1>1, <1>3, <2>2, <2>3
<1>6. QED
  BY <1>1, <1>5 DEF LinesPrintedOnce

(* ... and then printed, behind the lines its client has sent before.      *)
LEMMA DeliverKeepsLines ==
  ASSUME IInv, IInv', LinesPrintedOnce, restarts = 0, Delivers
  PROVE  LinesPrintedOnce'
<1> DEFINE L == Len(Shown)
<1>1. PICK c \in Clients : read[c] > 0 /\ Transit = <<c, read[c]>>
  BY DEF Delivers, Transit, None, IInv, BufferExact
<1>2. /\ L \in Nat
      /\ \A b \in Clients : read[b] \in 0 .. MAX_LINES
  BY ShownParts DEF IInv, TypeOK
<1>3. /\ Len(Shown') = L + 1
      /\ \A k \in 1 .. L : Shown'[k] = Shown[k]
      /\ Shown'[L + 1] = <<c, read[c]>>
      /\ read' = read
  BY <1>1, ShownGrows DEF IInv, Delivers
<1> HIDE DEF L
<1>4. /\ Printed(c)' = Printed(c) \cup {read[c]}
      /\ \A b \in Clients \ {c} : Printed(b)' = Printed(b)
  <2>1. ASSUME NEW b \in Clients, NEW n \in 1 .. MAX_LINES
        PROVE  (\E k \in 1 .. L + 1 : Shown'[k] = <<b, n>>) <=>
                 \/ \E k \in 1 .. L : Shown[k] = <<b, n>>
                 \/ b = c /\ n = read[c]
    <3>1. \A k \in 1 .. L + 1 : k \in 1 .. L \/ k = L + 1
      BY <1>2
    <3>2. L + 1 \in 1 .. L + 1 /\ \A k \in 1 .. L : k \in 1 .. L + 1
      BY <1>2
    <3>3. QED
      BY <1>3, <3>1, <3>2
  <2>2. \A b \in Clients, n \in 1 .. MAX_LINES :
          n \in Printed(b)' <=> n \in Printed(b) \/ (b = c /\ n = read[c])
    BY <1>3, <2>1 DEF Printed, L
  <2>3. \A b \in Clients : /\ Printed(b) \subseteq 1 .. MAX_LINES
                           /\ Printed(b)' \subseteq 1 .. MAX_LINES
    BY DEF Printed
  <2>4. read[c] \in 1 .. MAX_LINES
    BY <1>1, <1>2
  <2>5. QED
    BY <2>2, <2>3, <2>4
<1>5. \A b \in Clients : /\ OnItsWay(b) = IF b = c THEN {read[c]} ELSE {}
                         /\ OnItsWay(b)' = {}
  <2>1. \A b \in Clients : \A n : <<b, n>> # None
    BY DEF None
  <2>2. \A b \in Clients : OnItsWay(b) = IF b = c THEN {read[c]} ELSE {}
    BY <1>1, OnItsWayIsTransit
  <2>3. \A b \in Clients : OnItsWay(b)' = {}
    BY <2>1, OnItsWayIsTransit DEF Delivers
  <2>4. QED
    BY <2>2, <2>3
<1>6. /\ Printed(c) = (1 .. read[c]) \ {read[c]}
      /\ \A b \in Clients : Printed(b)' = 1 .. read[b]
  <2>1. \A b \in Clients : Printed(b) = (1 .. read[b]) \ OnItsWay(b)
    BY DEF LinesPrintedOnce, Delivers
  <2>2. Printed(c) = (1 .. read[c]) \ {read[c]}
    BY <1>5, <2>1
  <2>3. Printed(c)' = 1 .. read[c]
    BY <1>1, <1>2, <1>4, <2>2
  <2>4. \A b \in Clients \ {c} : Printed(b)' = 1 .. read[b]
    BY <1>4, <1>5, <2>1
  <2>5. QED
    BY <2>2, <2>3, <2>4
<1>7. \A k \in 1 .. L + 1 : Shown'[k] \in Lines
  <2>1. <<c, read[c]>> \in Lines
    BY <1>1, <1>2 DEF Lines
  <2>2. \A k \in 1 .. L : Shown'[k] \in Lines
    BY <1>3 DEF LinesPrintedOnce, L
  <2>3. QED
    BY <1>2, <1>3, <2>1, <2>2
<1>8. \A k \in 1 .. Len(stdout') : stdout'[k] \in Unended
  <2>1. stdout \in Seq(Lines \cup {None})
    BY DEF IInv, TypeOK
  <2>2. \A k \in 1 .. Len(stdout) : stdout[k] \in Unended
    BY DEF LinesPrintedOnce
  <2>3. \/ stdout' = <<>>
        \/ stdout' = <<Transit>> /\ Transit \in Unended
        \/ stdout' = Append(stdout, Transit) /\ Transit \in Unended
    BY DEF Delivers
  <2>4. QED
    BY <2>1, <2>2, <2>3
<1>9. ASSUME NEW b \in Clients, NEW n \in 1 .. read[b]
      PROVE  n \in OnTerminal(b)' \/ <<b, n>> \in Unended
  <2>1. n \in Printed(b)' /\ n \in 1 .. MAX_LINES
    BY <1>2, <1>6
  <2>2. PICK k \in 1 .. Len(Shown') : Shown'[k] = <<b, n>>
    BY <2>1 DEF Printed
  <2>3. /\ Len(Shown') \in Nat /\ Len(out') \in Nat /\ Len(stdout') \in Nat
        /\ Len(Shown') = Len(out') + Len(stdout')
        /\ \A j \in 1 .. Len(out') : Shown'[j] = out'[j]
        /\ \A j \in 1 .. Len(stdout') : Shown'[Len(out') + j] = stdout'[j]
    <3> DEFINE S == Lines \cup {None}
    <3>1. out' \in Seq(S) /\ stdout' \in Seq(S)
      BY DEF IInv, TypeOK, Lines, None
    <3> HIDE DEF S
    <3>2. Shown' = out' \o stdout'
      BY DEF Shown
    <3>3. QED
      BY <3>1, <3>2
  <2>4. CASE k <= Len(out')
    BY <2>1, <2>2, <2>3, <2>4 DEF OnTerminal
  <2>5. CASE k > Len(out')
    <3>1. k - Len(out') \in 1 .. Len(stdout') /\ Len(out') + (k - Len(out')) = k
      BY <2>3, <2>5
    <3>2. QED
      BY <1>8, <2>2, <2>3, <3>1
  <2>6. QED
    BY <2>3, <2>4, <2>5
<1>10. ASSUME NEW b \in Clients, NEW m \in 1 .. MAX_LINES, NEW n \in 1 .. MAX_LINES,
              NEW j \in 1 .. L + 1, NEW k \in 1 .. L + 1,
              j < k, Shown'[j] = <<b, m>>, Shown'[k] = <<b, n>>
       PROVE  m < n
  <2>1. j \in 1 .. L /\ Shown[j] = <<b, m>>
    BY <1>2, <1>3, <1>10
  <2>2. CASE k \in 1 .. L
    BY <1>3, <1>10, <2>1, <2>2 DEF LinesPrintedOnce, L
  <2>3. CASE k = L + 1
    <3>1. b = c /\ n = read[c]
      BY <1>3, <1>10, <2>3
    <3>2. m \in Printed(c)
      BY <2>1, <3>1 DEF Printed, L
    <3>3. QED
      BY <1>2, <1>6, <3>1, <3>2
  <2>4. QED
    BY <1>2, <2>2, <2>3
<1>11. Len(Shown') = L + 1 /\ read' = read
  BY <1>3
<1>12. ASSUME NEW b \in Clients
       PROVE  /\ Printed(b)' = (1 .. read'[b]) \ OnItsWay(b)'
              /\ \A n \in (1 .. read'[b]) \ OnItsWay(b)' :
                   n \in OnTerminal(b)' \/ <<b, n>> \in Unended
  <2>1. Printed(b)' = 1 .. read'[b] /\ (1 .. read'[b]) \ OnItsWay(b)' = 1 .. read[b]
    BY <1>5, <1>6, <1>11
  <2>2. QED
    BY <1>9, <1>11, <2>1
<1>13. /\ \A k \in 1 .. Len(Shown') : Shown'[k] \in Lines
       /\ \A b \in Clients, m, n \in 1 .. MAX_LINES, j, k \in 1 .. Len(Shown') :
            j < k /\ Shown'[j] = <<b, m>> /\ Shown'[k] = <<b, n>> => m < n
  BY <1>7, <1>10, <1>11
<1>14. QED
  BY <1>8, <1>12, <1>13 DEF LinesPrintedOnce

(* A server that goes down leaves what is on the terminal.                 *)
LEMMA DownKeepsLines ==
  ASSUME TypeOK, LinesPrintedOnce, restarts = 0, GoesDown
  PROVE  LinesPrintedOnce'
<1>1. /\ Len(out) \in Nat /\ Len(Shown) \in Nat /\ Len(out) <= Len(Shown)
      /\ \A k \in 1 .. Len(out) : Shown[k] = out[k]
  BY ShownParts
<1>2. Shown' = out /\ stdout' = <<>> /\ read' = read /\ ~ up'
  BY DEF GoesDown, Shown, TypeOK
<1>3. \A k \in 1 .. Len(Shown') : k \in 1 .. Len(Shown) /\ Shown'[k] = Shown[k]
  BY <1>1, <1>2
<1>4. Len(stdout') = 0
  BY <1>2
<1>5. ASSUME NEW b \in Clients
      PROVE  /\ Printed(b)' \subseteq Printed(b)
             /\ OnTerminal(b)' = OnTerminal(b)
             /\ OnItsWay(b)' = OnItsWay(b)
  <2>1. Printed(b)' \subseteq Printed(b)
    BY <1>3 DEF Printed
  <2>2. OnTerminal(b)' = OnTerminal(b)
    BY DEF OnTerminal, GoesDown
  <2>3. OnItsWay(b)' = OnItsWay(b)
    BY OnItsWayIsTransit DEF GoesDown
  <2>4. QED
    BY <2>1, <2>2, <2>3
<1>6. /\ \A k \in 1 .. Len(Shown') : Shown'[k] \in Lines
      /\ \A k \in 1 .. Len(stdout') : stdout'[k] \in Unended
  BY <1>3, <1>4 DEF LinesPrintedOnce
<1>7. ASSUME NEW b \in Clients
      PROVE  /\ Printed(b)' \subseteq (1 .. read'[b]) \ OnItsWay(b)'
             /\ \A n \in (1 .. read'[b]) \ OnItsWay(b)' :
                  n \in OnTerminal(b)' \/ <<b, n>> \in Unended
  BY <1>2, <1>5 DEF LinesPrintedOnce
<1>8. ASSUME NEW b \in Clients, NEW m \in 1 .. MAX_LINES, NEW n \in 1 .. MAX_LINES,
             NEW j \in 1 .. Len(Shown'), NEW k \in 1 .. Len(Shown'),
             j < k, Shown'[j] = <<b, m>>, Shown'[k] = <<b, n>>
      PROVE  m < n
  <2>1. /\ j \in 1 .. Len(Shown) /\ Shown[j] = <<b, m>>
        /\ k \in 1 .. Len(Shown) /\ Shown[k] = <<b, n>>
    BY <1>3, <1>8
  <2>2. QED
    BY <1>8, <2>1 DEF LinesPrintedOnce
<1>9. QED
  BY <1>2, <1>6, <1>7, <1>8 DEF LinesPrintedOnce

(* For any number of clients, files and lines, and any processes killed:   *)
(* until the server is started again every line that was sent is printed   *)
(* or on its way to be, none is printed twice, and each client's appear in *)
(* order; only lines without a newline are kept by stdout or lost with it. *)
THEOREM LinesOnce == Spec => []LinesPrintedOnce
<1>1. Init => LinesPrintedOnce
  <2> SUFFICES ASSUME Init PROVE LinesPrintedOnce
    OBVIOUS
  <2>1. Len(Shown) = 0 /\ Len(stdout) = 0
    BY DEF Init, Shown
  <2>2. \A c \in Clients : Printed(c) = {} /\ read[c] = 0
    BY <2>1 DEF Init, Printed
  <2>3. QED
    BY <2>1, <2>2 DEF LinesPrintedOnce
<1>2. IInv /\ IInv' /\ LinesPrintedOnce /\ [Next]_vars => LinesPrintedOnce'
  <2> SUFFICES ASSUME IInv, IInv', LinesPrintedOnce, [Next]_vars, restarts' = 0
               PROVE  LinesPrintedOnce'
    BY DEF LinesPrintedOnce
  <2>1. restarts = 0
    BY ChannelSteps
  <2>2. CASE \E c \in Clients : Sends(c)
    BY <2>1, <2>2, SendKeepsLines DEF IInv
  <2>3. CASE Delivers
    BY <2>1, <2>3, DeliverKeepsLines
  <2>4. CASE GoesDown
    BY <2>1, <2>4, DownKeepsLines DEF IInv
  <2>5. CASE Transit' = Transit /\ UNCHANGED <<read, out, stdout, up>>
    <3>1. \A c \in Clients : OnItsWay(c)' = OnItsWay(c)
      BY <2>5, OnItsWayIsTransit
    <3>2. Shown' = Shown
      BY <2>5 DEF Shown
    <3>3. \A c \in Clients : Printed(c)' = Printed(c) /\ OnTerminal(c)' = OnTerminal(c)
      BY <2>5, <3>2 DEF Printed, OnTerminal
    <3>4. QED
      BY <2>1, <2>5, <3>1, <3>2, <3>3 DEF LinesPrintedOnce
  <2>6. QED
    BY <2>2, <2>3, <2>4, <2>5, ChannelSteps
<1>3. QED
  BY <1>1, <1>2, Invariance, PTL DEF Spec

-----------------------------------------------------------------------------
(* A client's step brings it nearer to its end; the others stay.           *)
LEMMA ClientDescends ==
  ASSUME IInv, NEW c \in Clients, Client(c)
  PROVE  /\ ClientLeft(c)' < ClientLeft(c)
         /\ \A b \in Clients \ {c} : ClientLeft(b)' = ClientLeft(b)
<1> USE DEF IInv
<1>1. /\ \A b \in Clients : /\ file[b] \in 0 .. FILES
                           /\ read[b] \in 0 .. MAX_LINES
                           /\ pc[b] \in ClientSteps
      /\ FILES \in Nat /\ MAX_LINES \in Nat
  BY DEF TypeOK, ClientSteps
<1>2. /\ pc' \in [Clients -> ClientSteps]
      /\ \A b \in Clients \ {c} :
           pc'[b] = pc[b] /\ file'[b] = file[b] /\ read'[b] = read[b]
  BY DEF Client, Attach, Open, Take, Fgets, FgetsRest, FgetsEnds, Unlock, Give,
         Wait, Goto, TypeOK, ClientSteps
<1>3. \/ <<pc[c], pc'[c]>> \in
            {<<"start", "open">>, <<"start", "done">>, <<"open", "done">>,
             <<"take", "fgets">>, <<"fgets", "rest">>, <<"rest", "give">>,
             <<"fgets", "eof">>, <<"eof", "open">>, <<"wait", "take">>}
         /\ file'[c] = file[c] /\ read'[c] = read[c]
      \/ /\ pc[c] = "open" /\ pc'[c] = "take"
         /\ file'[c] = file[c] + 1 /\ read'[c] = read[c]
      \/ /\ pc[c] = "give" /\ pc'[c] = "wait"
         /\ file'[c] = file[c] /\ read'[c] = read[c] + 1
  BY DEF Client, Attach, Open, Take, Fgets, FgetsRest, FgetsEnds, Unlock, Give,
         Wait, Goto, TypeOK, ClientSteps
<1>4. ClientLeft(c)' < ClientLeft(c)
  BY <1>1, <1>3 DEF ClientLeft
<1>5. QED
  BY <1>2, <1>4 DEF ClientLeft

(* A step of the server brings it nearer to its P_oper(MEMORY), or takes a *)
(* line out of the memory.                                                 *)
LEMMA ServerDescends ==
  ASSUME IInv, Server
  PROVE  UNCHANGED client_vars /\ ServerLeft' < ServerLeft
<1>1. /\ sem["MEMORY"] \in Nat
      /\ sem \in [{"CHANNEL", "MEMORY"} -> Nat]
      /\ UNCHANGED client_vars
  BY DEF IInv, TypeOK, Server
<1>2. CASE TakeMemory
  <2>1. sem'["MEMORY"] = sem["MEMORY"] - 1
    BY <1>1, <1>2, SemaphoreCalls DEF TakeMemory
  <2>2. QED
    BY <1>1, <1>2, <2>1 DEF TakeMemory, ServerGoto, ServerLeft
<1>3. CASE ~ TakeMemory
  <2>1. sem'["MEMORY"] = sem["MEMORY"]
    BY <1>1, <1>3, SemaphoreCalls
    DEF Server, Create, FirstFree, PrintFirst, PrintRest, Free, AwaitTaken
  <2>2. <<server, server'>> \in
          {<<"off", "init">>, <<"init", "memory">>, <<"first", "rest">>,
           <<"rest", "free">>, <<"free", "zero">>, <<"zero", "memory">>}
    BY <1>3 DEF Server, ServerGoto, Create, FirstFree, PrintFirst, PrintRest,
                Free, AwaitTaken
  <2>3. QED
    BY <1>1, <2>1, <2>2 DEF ServerLeft
<1>4. QED
  BY <1>2, <1>3

(* For any number of clients, files and lines: every step that is not a    *)
(* kill or a restart brings one client, or the server with the lines it    *)
(* has, nearer to the end, and what is left to do is a number, so that the *)
(* steps of an execution run out.                                          *)
THEOREM StepsRunOut ==
  Spec => StepsGetOn /\ [](ServerLeft \in Nat /\ \A c \in Clients : ClientLeft(c) \in Nat)
<1>1. IInv /\ [Next]_vars => [StepGetsOn]_vars
  <2> SUFFICES ASSUME IInv, Next PROVE StepGetsOn
    OBVIOUS
  <2>1. ASSUME NEW c \in Clients, Client(c) PROVE StepGetsOn
    BY <2>1, ClientDescends DEF StepGetsOn
  <2>2. CASE Server
    BY <2>2, ServerDescends DEF StepGetsOn
  <2>3. ASSUME NEW c \in Clients, KillClient(c) PROVE StepGetsOn
    BY <2>3 DEF KillClient, StepGetsOn
  <2>4. CASE KillServer \/ Restart
    BY <2>4 DEF KillServer, Restart, StepGetsOn
  <2>5. QED
    BY <2>1, <2>2, <2>3, <2>4 DEF Next
<1>2. IInv => ServerLeft \in Nat /\ \A c \in Clients : ClientLeft(c) \in Nat
  <2> SUFFICES ASSUME IInv
               PROVE  ServerLeft \in Nat /\ \A c \in Clients : ClientLeft(c) \in Nat
    OBVIOUS
  <2>1. ServerLeft \in Nat
    BY DEF IInv, TypeOK, ServerLeft
  <2>2. ASSUME NEW c \in Clients PROVE ClientLeft(c) \in Nat
    <3>1. FILES - file[c] \in Nat /\ MAX_LINES - read[c] \in Nat
      BY DEF IInv, TypeOK
    <3>2. pc[c] \in {"start", "open", "take", "fgets", "rest", "give", "eof", "wait", "done"}
      BY DEF IInv, TypeOK
    <3>3. QED
      BY <3>1, <3>2 DEF ClientLeft
  <2>3. QED
    BY <2>1, <2>2
<1>3. QED
  BY <1>1, <1>2, Invariance, PTL DEF Spec, StepsGetOn

=============================================================================
