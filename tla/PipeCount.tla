------------------------------- MODULE PipeCount -------------------------------
(***************************************************************************)
(* my_pipe.c: the parent forks a child that executes a command and, with   *)
(* the option, counts what the command writes to its end of a pipe.        *)
(*                                                                         *)
(* The command is any program: it writes, leaves an heir behind that has   *)
(* the pipe's write end too, ends or is killed.  A write waits while the   *)
(* pipe is full, a read while it is empty and someone has its write end;   *)
(* the read takes any part of what is there.  Longer writes are several of *)
(* one byte.  Without option or pipe the command writes elsewhere.         *)
(***************************************************************************)
EXTENDS Integers, Sequences, FiniteSets

CONSTANTS
  BUF_SIZE,
  CAPACITY,             \* bytes the pipe holds
  MAX_OUTPUT            \* bound on the bytes the command writes

ASSUME PipeAssumption ==
  /\ BUF_SIZE \in Nat \ {0}
  /\ CAPACITY \in Nat \ {0}
  /\ MAX_OUTPUT \in Nat

VARIABLES
  opt,          \* whether the option was given
  piped,        \* whether pipe succeeded: its result is not looked at
  parent,       \* the next call of the parent
  proc,         \* the processes of the command
  output,       \* what they have written to the pipe
  got,          \* how many bytes of it the parent has read
  i,            \* how many of them it has looked at
  bytes, words, lines,  \* struct Counter_t
  in_word       \* pos_in_word

counts == <<got, i, bytes, words, lines, in_word>>
vars == <<opt, piped, parent, proc, output, counts>>

Bytes == {"letter", "space", "newline"}

IsSpace(b) == b # "letter"

Connected == opt /\ piped

Init ==
  /\ opt \in BOOLEAN
  /\ piped \in BOOLEAN
  /\ parent = "fork"
  /\ proc = [p \in {"child", "heir"} |-> "none"]
  /\ output = <<>>
  /\ got = 0 /\ i = 0
  /\ bytes = 0 /\ words = 0 /\ lines = 0
  /\ in_word = FALSE

-----------------------------------------------------------------------------
ParentGoto(from, to) ==
  /\ parent = from
  /\ parent' = to

(* Mutant of ParentHolds: the parent does not close it before it reads.    *)
ParentHoldsOn == parent \in {"fork", "close", "read", "count"}

(* The parent's own copy of the write end is open until it closes it.      *)
ParentHolds == parent \in {"fork", "close"}

Alive(p) == proc[p] \in {"start", "running", "writing"}

WriteEndOpen == ParentHolds \/ \E p \in DOMAIN proc : Alive(p)

Unread == Len(output) - got

(* Mutant of Fork: the parent waits for the child before it reads.         *)
ForkAndWait ==
  /\ ParentGoto("fork", "wait")
  /\ \/ proc' = [proc EXCEPT !["child"] = "start"]
     \/ UNCHANGED proc
  /\ UNCHANGED counts

(* A fork that fails leaves the parent on its way.                         *)
Fork ==
  /\ ParentGoto("fork", IF opt THEN "close" ELSE "wait")
  /\ \/ proc' = [proc EXCEPT !["child"] = "start"]
     \/ UNCHANGED proc
  /\ UNCHANGED counts

Close ==
  /\ ParentGoto("close", "read")
  /\ UNCHANGED <<proc, counts>>

Read ==
  /\ ParentGoto("read", "count")
  /\ \E r \in 1 .. BUF_SIZE :
       /\ r <= Unread
       /\ got' = got + r
       /\ bytes' = bytes + r
  /\ UNCHANGED <<proc, i, words, lines, in_word>>

(* Mutant of CountByte: each chunk begins outside of a word.               *)
CountByteAfresh ==
  LET b == output[i + 1]
  IN  /\ i' = i + 1
      /\ words' = IF ~ IsSpace(b) /\ ~ in_word THEN words + 1 ELSE words
      /\ in_word' = (~ IsSpace(b) /\ i + 1 < got)
      /\ lines' = IF b = "newline" THEN lines + 1 ELSE lines
      /\ UNCHANGED <<got, bytes>>

(* Word_counter and Str_counter, one round of each.                        *)
CountByte ==
  LET b == output[i + 1]
  IN  /\ i' = i + 1
      /\ words' = IF ~ IsSpace(b) /\ ~ in_word THEN words + 1 ELSE words
      /\ in_word' = ~ IsSpace(b)
      /\ lines' = IF b = "newline" THEN lines + 1 ELSE lines
      /\ UNCHANGED <<got, bytes>>

Count ==
  /\ ParentGoto("count", IF i + 1 = got THEN "read" ELSE "count")
  /\ CountByte
  /\ UNCHANGED proc

(* Mutant of EndOfFile: the loop ends when the pipe is empty for a moment. *)
EndWhenEmpty ==
  /\ ParentGoto("read", "wait")
  /\ piped
  /\ Unread = 0
  /\ UNCHANGED <<proc, counts>>

(* read returns 0.                                                         *)
EndOfFile ==
  /\ ParentGoto("read", "wait")
  /\ piped
  /\ Unread = 0 /\ ~ WriteEndOpen
  /\ UNCHANGED <<proc, counts>>

(* Without a pipe fd was never set.  Where fd[0] is no descriptor, read    *)
(* returns -1, and that is added to the bytes like any other result ...    *)
ReadFails ==
  /\ ParentGoto("read", "wait")
  /\ ~ piped
  /\ bytes' = bytes - 1
  /\ UNCHANGED <<proc, got, i, words, lines, in_word>>

(* ... and where it is another one, what is counted has nothing to do with *)
(* the command, and nobody knows when it ends.                             *)
ReadElsewhere ==
  /\ ParentGoto("read", "elsewhere")
  /\ ~ piped
  /\ UNCHANGED <<proc, counts>>

(* wait returns when the child has ended, or at once if there is none.     *)
Wait ==
  /\ ParentGoto("wait", "done")
  /\ ~ Alive("child")
  /\ UNCHANGED <<proc, counts>>

Parent ==
  /\ \/ Fork \/ Close \/ Read \/ Count \/ EndOfFile \/ Wait
     \/ ReadFails \/ ReadElsewhere
  /\ UNCHANGED <<opt, piped, output>>

-----------------------------------------------------------------------------
ProcGoto(p, from, to) ==
  /\ proc[p] = from
  /\ proc' = [proc EXCEPT ![p] = to]

(* The child's execvp, or its exit(0) when that fails.                     *)
Exec ==
  /\ ProcGoto("child", "start", "running") \/ ProcGoto("child", "start", "ended")
  /\ UNCHANGED output

(* The command starts a process that outlives it, perhaps.                 *)
Spawn ==
  /\ proc["child"] = "running"
  /\ ProcGoto("heir", "none", "running")
  /\ UNCHANGED output

Writing == {p \in DOMAIN proc : proc[p] = "writing"}

(* Calls write ...                                                         *)
BeginWrite(p) ==
  /\ Connected
  /\ Len(output) + Cardinality(Writing) < MAX_OUTPUT
  /\ ProcGoto(p, "running", "writing")
  /\ UNCHANGED output

(* ... which waits until there is room.                                    *)
EndWrite(p) ==
  /\ Unread < CAPACITY
  /\ ProcGoto(p, "writing", "running")
  /\ \E b \in Bytes : output' = Append(output, b)

Exit(p) ==
  /\ ProcGoto(p, "running", "ended")
  /\ UNCHANGED output

Command(p) ==
  /\ \/ p = "child" /\ Exec
     \/ p = "heir" /\ Spawn
     \/ BeginWrite(p) \/ EndWrite(p) \/ Exit(p)
  /\ UNCHANGED <<opt, piped, parent, counts>>

(* A process of the command is killed, wherever it is.                     *)
Kill(p) ==
  /\ Alive(p)
  /\ proc' = [proc EXCEPT ![p] = "ended"]
  /\ UNCHANGED <<opt, piped, parent, output, counts>>

Next == Parent \/ \E p \in DOMAIN proc : Command(p) \/ Kill(p)

Spec == Init /\ [][Next]_vars

(* The parent runs, and the command and its heir do not run for ever.      *)
FairSpec ==
  Spec /\ WF_vars(Parent) /\ \A p \in {"child", "heir"} : WF_vars(Command(p))

-----------------------------------------------------------------------------
(* The promise of WordReport; a report is due with the option only, and    *)
(* nothing is promised when there is no pipe.                              *)
ReportImpl == INSTANCE WordReport WITH
  report <- IF Connected /\ parent \in {"wait", "done"}
            THEN <<bytes, words, lines>> ELSE <<>>

(* The report comes when nobody can write any more, and its numbers are    *)
(* those of the whole output, in whatever pieces it was read (my_pipe.c    *)
(* 202-220): a word cut by the end of a read is one word.                  *)
ImplementsWordReport == ReportImpl!Spec

TypeOK ==
  /\ opt \in BOOLEAN /\ piped \in BOOLEAN /\ in_word \in BOOLEAN
  /\ parent \in {"fork", "close", "read", "count", "elsewhere", "wait", "done"}
  /\ proc \in [{"child", "heir"} ->
                 {"none", "start", "running", "writing", "ended"}]
  /\ output \in Seq(Bytes)
  /\ got \in Nat /\ i \in Nat
  /\ bytes \in Int /\ words \in Nat /\ lines \in Nat

(* The numbers so far are those of the bytes looked at so far.             *)
CountsExact ==
  /\ i <= got /\ got <= Len(output)
  /\ words = Cardinality(ReportImpl!WordStarts(output, i))
  /\ lines = Cardinality(ReportImpl!LineEnds(output, i))
  /\ in_word <=> i > 0 /\ ~ IsSpace(output[i])
  /\ bytes = IF opt /\ ~ piped /\ parent \in {"wait", "done"} THEN -1 ELSE got

(* What the parent's position tells about the bytes and the processes.     *)
Phases ==
  /\ parent = "count" <=> i < got
  /\ parent \in {"close", "read", "count"} => opt
  /\ parent = "elsewhere" => ~ piped
  /\ parent = "fork" => \A p \in DOMAIN proc : proc[p] = "none"
  /\ proc["child"] = "none" => proc["heir"] = "none"
  /\ ~ Connected => output = <<>> /\ Writing = {}
  /\ Connected /\ parent \in {"wait", "done"} => Unread = 0 /\ ~ WriteEndOpen
  /\ parent = "done" => ~ Alive("child")

(* The inductive invariant.                                                *)
IInv == TypeOK /\ CountsExact /\ Phases

(* Whose next call nothing holds up.                                       *)
ParentCanGoOn ==
  \/ parent \in {"fork", "close", "count"}
  \/ parent = "read" /\ (Unread > 0 \/ ~ WriteEndOpen \/ ~ piped)
  \/ parent = "wait" /\ ~ Alive("child")

CanGoOn(p) ==
  \/ proc[p] \in {"start", "running"}
  \/ proc[p] = "writing" /\ Unread < CAPACITY

(* A parent that waits, in read or in wait, waits for a process that can   *)
(* go on, and one that waits in write for a parent that can and is still   *)
(* to read: with its own write end closed before the first read, and wait  *)
(* after the last one, they never wait for each other.                     *)
NobodyWaitsForEver ==
  /\ parent = "read" => ParentCanGoOn \/ \E p \in DOMAIN proc : CanGoOn(p)
  /\ parent = "wait" => ParentCanGoOn \/ CanGoOn("child")
  /\ \A p \in DOMAIN proc : Alive(p) /\ ~ CanGoOn(p) =>
       parent \in {"close", "read", "count"} /\ ParentCanGoOn

(* Calls the parent has still to make, and the processes of the command,   *)
(* at most: a read for every byte, and two operations for every write.     *)
ParentLeft ==
  (MAX_OUTPUT - got) + 2 * (MAX_OUTPUT - i) +
    [fork |-> 4, close |-> 3, read |-> 2, count |-> 2,
     wait |-> 1, elsewhere |-> 0, done |-> 0][parent]

ProcLeft(p) ==
  [none |-> 4, start |-> 3, running |-> 2, writing |-> 1, ended |-> 0][proc[p]]

CommandLeft ==
  2 * (MAX_OUTPUT - Len(output)) + ProcLeft("child") + ProcLeft("heir")

(* The parent reads and counts each byte once and never goes round for     *)
(* nothing: every step brings it, or the command, nearer to its end and    *)
(* the other no further away from it.                                      *)
StepGetsOn ==
  \/ ParentLeft' < ParentLeft /\ CommandLeft' <= CommandLeft
  \/ ParentLeft' = ParentLeft /\ CommandLeft' < CommandLeft

StepsGetOn == [][StepGetsOn]_vars

(* The pipe is drained while the command writes, however little it holds,  *)
(* and its end is seen: parent and command never wait for each other, and  *)
(* the program ends, whoever is killed and whichever call fails, unless it *)
(* reads from a descriptor that no pipe has given it.                      *)
ProgramEnds == <>(parent \in {"elsewhere", "done"})
=============================================================================
