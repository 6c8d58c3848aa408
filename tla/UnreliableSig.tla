---------------------------- MODULE UnreliableSig ----------------------------
(***************************************************************************)
(* unreliable_sig.c: the parent reads files, the child writes what it has  *)
(* read, and all that passes between them are signals: SIGUSR1 and SIGUSR2 *)
(* are a bit 0 and a bit 1 on the way to the child, and SIGUSR1 is the     *)
(* acknowledgement on the way back.  The work is done in the handlers.     *)
(*                                                                         *)
(* kill adds a signal to the pending ones, where two of a kind are one.  A *)
(* signal is delivered when its own handler is not running; before there   *)
(* is a handler it ends the process.  An int or char is the sequence of    *)
(* its bits, the lowest first, and c >>= 1 moves on to the next one.       *)
(***************************************************************************)
EXTENDS Integers, Sequences

CONSTANTS
  BITS,                 \* bits of a char: 8
  FILES,                \* files named on the command line
  MAX_BYTES,            \* bound on the bytes read altogether
  ERRORS,               \* whether open, read and fork may fail
  Bytes                 \* the bytes that files contain

ASSUME SigAssumption ==
  /\ BITS \in Nat \ {0}
  /\ FILES \in Nat
  /\ MAX_BYTES \in Nat
  /\ ERRORS \in BOOLEAN
  /\ Bytes \subseteq [1 .. BITS -> 0 .. 1]

VARIABLES
  reader,       \* the next operation of the parent, in main or the handler
  acked,        \* whether SIGUSR1 is pending for the parent
  f_n,          \* the files not opened yet
  c, shifted,   \* the byte read last, and how far it has been shifted
  i,            \* the bits of it that have been sent
  taken,        \* the bytes read
  err,          \* whether Reader_method has printed an error
  writer,       \* the next operation of the child's main
  handler,      \* the next operation of Writer_method, per signal
  pending,      \* the signals pending for the child
  var, index,   \* Writer_method's byte and the bits in it
  out           \* the bytes written

reader_vars == <<reader, f_n, c, shifted, i, taken, err>>
writer_vars == <<writer, handler, var, index, out>>
vars == <<reader_vars, writer_vars, acked, pending>>

-----------------------------------------------------------------------------
Signals == {"SIGUSR1", "SIGUSR2"}

(* n & 0x7                                                                 *)
Mask(n) == n % BITS

Zero == [b \in 1 .. BITS |-> 0]

(* Right after fork.  The parent has to open the first file, if one is     *)
(* named, and goes on also when there is no child.                         *)
Init ==
  /\ reader = IF FILES > 0 THEN "open" ELSE "install"
  /\ acked = FALSE
  /\ f_n = IF FILES > 0 THEN FILES - 1 ELSE 0
  /\ c = Zero
  /\ shifted = 0
  /\ i = 0
  /\ taken = <<>>
  /\ err = FALSE
  /\ writer = "install" \/ (ERRORS /\ writer = "none")
  /\ handler = [s \in Signals |-> "none"]
  /\ pending = {}
  /\ var = Zero
  /\ index = 0
  /\ out = <<>>

-----------------------------------------------------------------------------
Goto(from, to) ==
  /\ reader = from
  /\ reader' = to

Open ==
  /\ Goto("open", "install") \/ (ERRORS /\ Goto("open", "ended"))
  /\ UNCHANGED <<acked, f_n, c, shifted, i, taken, err, pending>>

Install ==
  /\ Goto("install", "wait")
  /\ UNCHANGED <<acked, f_n, c, shifted, i, taken, err, pending>>

(* The child was faster than the parent's signal().                        *)
DefaultAction ==
  /\ acked
  /\ \E from \in {"open", "install"} : Goto(from, "killed")
  /\ UNCHANGED <<acked, f_n, c, shifted, i, taken, err, pending>>

(* SIGUSR1 is delivered: the next bit, or first the next byte.             *)
Enter ==
  /\ acked
  /\ acked' = FALSE
  /\ i' = Mask(i)
  /\ Goto("wait", IF i' = 0 THEN "read" ELSE "send")
  /\ UNCHANGED <<f_n, c, shifted, taken, err, pending>>

Read ==
  /\ Len(taken) < MAX_BYTES
  /\ Goto("read", "send")
  /\ \E b \in Bytes : c' = b /\ taken' = Append(taken, b)
  /\ shifted' = 0
  /\ UNCHANGED <<acked, f_n, i, err, pending>>

(* read returns 0: the next file is opened, or there is none and the child *)
(* is ended.                                                               *)
EndOfFile ==
  /\ \/ f_n = 0 /\ Goto("read", "wait") /\ pending' = pending \cup {"SIGTERM"}
     \/ f_n # 0 /\ Goto("read", "read") /\ UNCHANGED pending
  /\ f_n' = f_n - 1
  /\ UNCHANGED <<acked, c, shifted, i, taken, err>>

(* read fails, or the open of the next file does: the handler returns.     *)
HandlerFails ==
  /\ ERRORS
  /\ Goto("read", "wait")
  /\ err' = TRUE
  /\ f_n' \in IF f_n > 0 THEN {f_n, f_n - 1} ELSE {f_n}
  /\ UNCHANGED <<acked, c, shifted, i, taken, pending>>

Bit == IF shifted < BITS THEN c[shifted + 1] ELSE 0

Send ==
  /\ Goto("send", "shift")
  /\ i' = i + 1
  /\ pending' = pending \cup {IF Bit = 1 THEN "SIGUSR2" ELSE "SIGUSR1"}
  /\ UNCHANGED <<acked, f_n, c, shifted, taken, err>>

(* Mutant of Shift: the handler forgets c >>= 1.                           *)
ShiftForgotten ==
  /\ Goto("shift", "wait")
  /\ UNCHANGED <<acked, f_n, c, shifted, i, taken, err, pending>>

(* c >>= 1 comes after the kill.  The child may be faster; but its answer  *)
(* is not delivered before the handler returns.                            *)
Shift ==
  /\ Goto("shift", "wait")
  /\ shifted' = shifted + 1
  /\ UNCHANGED <<acked, f_n, c, i, taken, err, pending>>

WaitReturns ==
  /\ writer \in {"none", "dead"}
  /\ Goto("wait", "ended")
  /\ UNCHANGED <<acked, f_n, c, shifted, i, taken, err, pending>>

Reader ==
  /\ \/ Open \/ Install \/ DefaultAction \/ Enter \/ Read \/ EndOfFile
     \/ HandlerFails \/ Send \/ Shift \/ WaitReturns
  /\ UNCHANGED writer_vars

-----------------------------------------------------------------------------
WriterInstall ==
  /\ writer = "install"
  /\ writer' = "first"
  /\ UNCHANGED <<acked, handler, pending, var, index, out>>

First ==
  /\ writer = "first"
  /\ writer' = "pause"
  /\ acked' = TRUE
  /\ UNCHANGED <<handler, pending, var, index, out>>

(* A signal with no handler ends the child.                                *)
Terminate ==
  /\ writer \notin {"none", "dead"}
  /\ IF writer = "install" THEN pending # {} ELSE "SIGTERM" \in pending
  /\ writer' = "dead"
  /\ UNCHANGED <<acked, handler, pending, var, index, out>>

Deliver(s) ==
  /\ writer \in {"first", "pause"}
  /\ s \in pending
  /\ handler[s] = "none"
  /\ pending' = pending \ {s}
  /\ handler' = [handler EXCEPT ![s] = "add"]
  /\ UNCHANGED <<writer, acked, var, index, out>>

(* Mutant of Add: var is not cleared for the next byte.                    *)
AddUncleared(s) ==
  /\ writer # "dead"
  /\ handler[s] = "add"
  /\ handler' = [handler EXCEPT ![s] = "ack"]
  /\ var' = [var EXCEPT ![index + 1] = IF s = "SIGUSR2" THEN 1 ELSE @]
  /\ index' = Mask(index + 1)
  /\ out' = IF index' = 0 THEN Append(out, var') ELSE out
  /\ UNCHANGED <<writer, acked, pending>>

(* The bit is added to var; a byte that is complete is written.            *)
Add(s) ==
  LET byte == [var EXCEPT ![index + 1] = IF s = "SIGUSR2" THEN 1 ELSE @]
  IN  /\ writer # "dead"
      /\ handler[s] = "add"
      /\ handler' = [handler EXCEPT ![s] = "ack"]
      /\ index' = Mask(index + 1)
      /\ IF index' = 0
         THEN var' = Zero /\ out' = Append(out, byte)
         ELSE var' = byte /\ UNCHANGED out
      /\ UNCHANGED <<writer, acked, pending>>

(* Mutant of Ack: only whole bytes are acknowledged.                       *)
AckByte(s) ==
  /\ writer # "dead"
  /\ handler[s] = "ack"
  /\ handler' = [handler EXCEPT ![s] = "none"]
  /\ acked' = (acked \/ index = 0)
  /\ UNCHANGED <<writer, pending, var, index, out>>

(* The acknowledgement, and the return from the handler, which has nothing *)
(* left to do.                                                             *)
Ack(s) ==
  /\ writer # "dead"
  /\ handler[s] = "ack"
  /\ handler' = [handler EXCEPT ![s] = "none"]
  /\ acked' = TRUE
  /\ UNCHANGED <<writer, pending, var, index, out>>

(* Were both handlers running, either could go on here; the invariant says *)
(* that they never are.                                                    *)
Writer ==
  /\ \/ WriterInstall \/ First \/ Terminate
     \/ \E s \in Signals : Deliver(s) \/ Add(s) \/ Ack(s)
  /\ UNCHANGED reader_vars

Next == Reader \/ Writer

Spec == Init /\ [][Next]_vars

(* The kernel schedules both processes and delivers what is pending.       *)
FairSpec == Spec /\ WF_vars(Reader) /\ WF_vars(Writer)

-----------------------------------------------------------------------------
TypeOK ==
  /\ reader \in {"open", "install", "wait", "read", "send", "shift", "ended",
                 "killed"}
  /\ acked \in BOOLEAN
  /\ f_n \in -1 .. FILES
  /\ c \in [1 .. BITS -> 0 .. 1]
  /\ shifted \in 0 .. BITS
  /\ i \in 0 .. BITS
  /\ taken \in Seq(Bytes)
  /\ err \in BOOLEAN
  /\ writer \in {"none", "install", "first", "pause", "dead"}
  /\ handler \in [Signals -> {"none", "add", "ack"}]
  /\ pending \in SUBSET (Signals \cup {"SIGTERM"})
  /\ var \in [1 .. BITS -> 0 .. 1]
  /\ index \in 0 .. BITS - 1
  /\ out \in Seq(Bytes)

(* The signal s is on its way to be added to var.                          *)
Coming(s) == s \in pending \/ handler[s] = "add"

Begun == writer \in {"pause", "dead"}

(* All that can make the exchange go on, or has ended it.                  *)
Tokens ==
  LET N(P) == IF P THEN 1 ELSE 0
  IN  N(acked) + N(reader \in {"read", "send"}) + N("SIGTERM" \in pending)
        + N(err) + N("SIGUSR1" \in pending) + N("SIGUSR2" \in pending)
        + N(handler["SIGUSR1"] # "none") + N(handler["SIGUSR2"] # "none")

(* No signal is sent while another one is on its way: none is merged with  *)
(* one of its kind, no handler interrupts the other, and SIGTERM comes     *)
(* when nothing else does.                                                 *)
OneInFlight == Tokens = IF Begun THEN 1 ELSE 0

(* The two processes agree on every bit: the child's byte is what the      *)
(* parent has sent of its own, the bit coming is the next, and the bytes   *)
(* written are those read but for the one that is being sent.              *)
BitsExact ==
  LET coming == \E s \in Signals : Coming(s)
      whole == reader # "send" /\ ~ coming /\ Mask(i) = 0
  IN  /\ index = IF coming THEN i - 1 ELSE Mask(i)
      /\ var = [b \in 1 .. BITS |-> IF b <= index THEN c[b] ELSE 0]
      /\ \A s \in Signals : Coming(s) => c[i] = IF s = "SIGUSR2" THEN 1 ELSE 0
      /\ IF whole THEN taken = out ELSE taken = Append(out, c)
      /\ reader = "read" => i = 0
      /\ reader = "send" => shifted = i /\ i < BITS
      /\ reader = "shift" => i > 0 /\ shifted = i - 1
      /\ reader = "wait" /\ i > 0 => shifted = i
(* Where main and the errors of the handler can leave the parent.          *)
Phases ==
  /\ i > 0 =>
       /\ reader \in {"wait", "send", "shift"} /\ writer = "pause"
       /\ ~ err /\ "SIGTERM" \notin pending
  /\ f_n < 0 \/ writer = "dead" => "SIGTERM" \in pending
  /\ reader \in {"open", "install", "killed"} => taken = <<>>
  /\ reader = "ended" =>
       writer \in {"none", "dead"} \/ (ERRORS /\ taken = <<>>)

(* The inductive invariant.                                                *)
IInv ==
  /\ TypeOK
  /\ OneInFlight
  /\ BitsExact
  /\ Phases

(* Neither process can make a step.                                        *)
Standstill ==
  /\ \/ reader \in {"ended", "killed"}
     \/ reader = "wait" /\ ~ acked /\ writer \notin {"none", "dead"}
  /\ \/ writer \in {"none", "dead"}
     \/ /\ writer = "pause"
        /\ pending = {}
        /\ \A s \in Signals : handler[s] = "none"

(* Both processes end, or one of three things has happened: the handler    *)
(* has returned with an error and without a signal; SIGUSR1 came before    *)
(* the parent's signal(); or the first file could not be opened.  In every *)
(* case all that was read has been written.                                *)
StandstillExplained ==
  Standstill =>
    /\ out = taken
    /\ \/ reader = "ended" /\ writer \in {"none", "dead"}
       \/ reader = "wait" /\ err
       \/ reader = "killed" /\ taken = <<>>
       \/ reader = "ended" /\ ERRORS /\ taken = <<>>

(* Once its handler is installed, and unless that meets an error, the      *)
(* parent gets to the end of its files with everything written.            *)
EverythingIsWritten ==
  reader = "wait" ~>
    (reader = "ended" /\ writer \in {"none", "dead"} /\ out = taken) \/ err

(* The bits of the byte read last that are still to be sent, and what is   *)
(* still to be done about the signals on their way and by both mains.      *)
BitsLeft == IF i = 0 /\ reader # "send" THEN 0 ELSE BITS - i

AckLeft == IF acked THEN 2 ELSE 0

SignalLeft(s) ==
  (IF s \in pending THEN 5 ELSE 0) + [none |-> 0, add |-> 4, ack |-> 3][handler[s]]

SignalsLeft == SignalLeft("SIGUSR1") + SignalLeft("SIGUSR2")

ReaderLeft ==
  [open |-> 3, install |-> 2, read |-> 2, send |-> 2, shift |-> 2, wait |-> 1,
   ended |-> 0, killed |-> 0][reader]

WriterLeft == [install |-> 5, first |-> 4, pause |-> 1, none |-> 0, dead |-> 0][writer]

(* What is left to do until the next byte is read.                         *)
Left ==
  6 * BitsLeft + (f_n + 1) + AckLeft + SignalsLeft + ReaderLeft + WriterLeft

(* The signals do not go to and fro for nothing: every step reads a byte   *)
(* or leaves less to do for those that have been read.                     *)
StepGetsOn ==
  \/ Len(taken') = Len(taken) + 1
  \/ taken' = taken /\ Left' < Left

StepsGetOn == [][StepGetsOn]_vars

(* The promise of ByteStream.                                              *)
StreamImpl == INSTANCE ByteStream

ImplementsByteStream == StreamImpl!Spec
=============================================================================
