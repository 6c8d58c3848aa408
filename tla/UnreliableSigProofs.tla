-------------------------- MODULE UnreliableSigProofs --------------------------
(***************************************************************************)
(* For every number of bits in a byte, of files and of bytes, and whatever *)
(* fails: one signal is in flight at a time, parent and child agree on     *)
(* every bit, the program implements ByteStream, and it stops only at its  *)
(* end or for one of the named reasons.                                    *)
(***************************************************************************)
EXTENDS UnreliableSig, SequenceTheorems, TLAPS

USE SigAssumption

-----------------------------------------------------------------------------
(* Masking a counter that runs up to BITS.                                 *)
LEMMA ModBits ==
  \A n \in 0 .. BITS : Mask(n) = IF n = BITS THEN 0 ELSE n
BY DEF Mask

(* Steps of the parent's main.                                             *)
LEMMA MainStep ==
  ASSUME IInv, Open \/ Install \/ DefaultAction, UNCHANGED writer_vars
  PROVE  IInv'
<1> USE DEF Open, Install, DefaultAction, Goto, writer_vars
<1>1. TypeOK'
  BY DEF IInv, TypeOK
<1>2. OneInFlight'
  BY DEF IInv, OneInFlight, Tokens, Begun
<1>3. BitsExact'
  BY DEF IInv, BitsExact, Coming, Phases
<1>4. Phases'
  BY DEF IInv, Phases
<1>5. QED
  BY <1>1, <1>2, <1>3, <1>4 DEF IInv

(* wait returns when there is no child, or when SIGTERM has ended it.      *)
LEMMA WaitReturnsStep ==
  ASSUME IInv, WaitReturns, UNCHANGED writer_vars
  PROVE  IInv'
<1> USE DEF WaitReturns, Goto, writer_vars
<1>1. TypeOK'
  BY DEF IInv, TypeOK
<1>2. OneInFlight'
  BY DEF IInv, OneInFlight, Tokens, Begun
<1>3. BitsExact'
  BY DEF IInv, BitsExact, Coming
<1>4. Phases'
  BY DEF IInv, Phases
<1>5. QED
  BY <1>1, <1>2, <1>3, <1>4 DEF IInv

(* The acknowledgement is taken and i masked.                              *)
LEMMA EnterStep ==
  ASSUME IInv, Enter, UNCHANGED writer_vars
  PROVE  IInv'
<1>1. TypeOK'
  <2>1. reader' \in {"read", "send"} /\ i' \in 0 .. BITS
    BY ModBits DEF IInv, TypeOK, Enter, Goto
  <2>2. QED
    BY <2>1 DEF IInv, Enter, TypeOK, writer_vars
<1>2. OneInFlight'
  BY DEF IInv, Enter, Goto, writer_vars, OneInFlight, Tokens, Begun
<1>3. BitsExact'
  BY ModBits
     DEF IInv, Enter, Goto, TypeOK, writer_vars, Signals, OneInFlight, Tokens,
         BitsExact, Coming
<1>4. Phases'
  BY DEF IInv, Enter, Goto, writer_vars, OneInFlight, Tokens, Begun, Phases
<1>5. QED
  BY <1>1, <1>2, <1>3, <1>4 DEF IInv

(* A byte is read: the one before it has been written.                     *)
LEMMA ReadStep ==
  ASSUME IInv, Read, UNCHANGED writer_vars
  PROVE  IInv'
<1>1. TypeOK'
  BY DEF IInv, Read, Goto, TypeOK, writer_vars
<1>2. OneInFlight'
  BY DEF IInv, Read, Goto, writer_vars, OneInFlight, Tokens, Begun
<1>3. BitsExact'
  BY ModBits DEF IInv, Read, Goto, TypeOK, writer_vars, BitsExact, Coming
<1>4. Phases'
  BY DEF IInv, Read, Goto, writer_vars, Phases
<1>5. QED
  BY <1>1, <1>2, <1>3, <1>4 DEF IInv

(* The next file, or SIGTERM; f_n has not been counted below 0 before.     *)
LEMMA EndOfFileStep ==
  ASSUME IInv, EndOfFile, UNCHANGED writer_vars
  PROVE  IInv'
<1>1. f_n \in 0 .. FILES
  BY DEF IInv, EndOfFile, Goto, TypeOK, OneInFlight, Tokens, Phases
<1>2. TypeOK'
  BY <1>1 DEF IInv, EndOfFile, Goto, TypeOK, writer_vars
<1>3. OneInFlight'
  BY DEF IInv, EndOfFile, Goto, writer_vars, OneInFlight, Tokens, Begun
<1>4. BitsExact'
  BY <1>1 DEF IInv, EndOfFile, Goto, writer_vars, Signals, BitsExact, Coming
<1>5. Phases'
  BY <1>1 DEF IInv, EndOfFile, Goto, writer_vars, Phases
<1>6. QED
  BY <1>2, <1>3, <1>4, <1>5 DEF IInv

(* The handler gives up: there will be no signal any more.                 *)
LEMMA HandlerFailsStep ==
  ASSUME IInv, HandlerFails, UNCHANGED writer_vars
  PROVE  IInv'
<1>1. TypeOK'
  BY DEF IInv, HandlerFails, Goto, TypeOK, writer_vars
<1>2. OneInFlight'
  BY DEF IInv, HandlerFails, Goto, writer_vars, OneInFlight, Tokens, Begun
<1>3. BitsExact'
  BY DEF IInv, HandlerFails, Goto, writer_vars, BitsExact, Coming
<1>4. Phases'
  BY DEF IInv, HandlerFails, Goto, TypeOK, writer_vars, Phases
<1>5. QED
  BY <1>1, <1>2, <1>3, <1>4 DEF IInv

(* The next bit goes out; no other signal is pending.                      *)
LEMMA SendStep ==
  ASSUME IInv, Send, UNCHANGED writer_vars
  PROVE  IInv'
<1>1. i \in 0 .. BITS - 1 /\ ~ acked
  BY DEF IInv, Send, Goto, TypeOK, OneInFlight, Tokens, BitsExact
<1>2. TypeOK'
  <2>1. pending' \in SUBSET (Signals \cup {"SIGTERM"})
    BY DEF IInv, TypeOK, Send, Signals
  <2>2. QED
    BY <1>1, <2>1 DEF IInv, Send, Goto, TypeOK, writer_vars
<1>3. OneInFlight'
  BY DEF IInv, Send, Goto, writer_vars, OneInFlight, Tokens, Begun
<1>4. BitsExact'
  BY <1>1, ModBits
     DEF IInv, Send, Goto, Bit, TypeOK, writer_vars, Signals, OneInFlight,
         Tokens, BitsExact, Coming
<1>5. Phases'
  BY <1>1 DEF IInv, Send, Goto, writer_vars, OneInFlight, Tokens, Begun, Phases
<1>6. QED
  BY <1>2, <1>3, <1>4, <1>5 DEF IInv

(* The shift catches up with i, whether the bit is still pending, being    *)
(* added, or acknowledged.                                                 *)
LEMMA ShiftStep ==
  ASSUME IInv, Shift, UNCHANGED writer_vars
  PROVE  IInv'
<1>1. i \in 1 .. BITS /\ shifted = i - 1
  BY DEF IInv, Shift, Goto, TypeOK, BitsExact
<1>2. TypeOK'
  BY <1>1 DEF IInv, Shift, Goto, TypeOK, writer_vars
<1>3. OneInFlight'
  BY DEF IInv, Shift, Goto, writer_vars, OneInFlight, Tokens, Begun
<1>4. BitsExact'
  BY <1>1 DEF IInv, Shift, Goto, writer_vars, BitsExact, Coming
<1>5. Phases'
  BY <1>1 DEF IInv, Shift, Goto, writer_vars, Phases
<1>6. QED
  BY <1>2, <1>3, <1>4, <1>5 DEF IInv

(* Nothing can be pending for the child before its First.                  *)
LEMMA WriterInstallStep ==
  ASSUME IInv, WriterInstall, UNCHANGED reader_vars
  PROVE  IInv'
<1>1. TypeOK'
  BY DEF IInv, WriterInstall, TypeOK, reader_vars
<1>2. OneInFlight'
  BY DEF IInv, WriterInstall, reader_vars, OneInFlight, Tokens, Begun
<1>3. BitsExact'
  BY DEF IInv, WriterInstall, reader_vars, BitsExact, Coming
<1>4. Phases'
  BY DEF IInv, WriterInstall, reader_vars, Phases
<1>5. QED
  BY <1>1, <1>2, <1>3, <1>4 DEF IInv

(* The first SIGUSR1 asks for the first bit.                               *)
LEMMA FirstStep ==
  ASSUME IInv, First, UNCHANGED reader_vars
  PROVE  IInv'
<1>1. TypeOK'
  BY DEF IInv, First, TypeOK, reader_vars
<1>2. OneInFlight'
  BY DEF IInv, First, reader_vars, OneInFlight, Tokens, Begun
<1>3. BitsExact'
  BY DEF IInv, First, reader_vars, BitsExact, Coming
<1>4. Phases'
  BY DEF IInv, First, reader_vars, Phases
<1>5. QED
  BY <1>1, <1>2, <1>3, <1>4 DEF IInv

(* The child is ended only by SIGTERM: no bit comes before its handler.    *)
LEMMA TerminateStep ==
  ASSUME IInv, Terminate, UNCHANGED reader_vars
  PROVE  IInv'
<1>1. Begun
  <2>1. SUFFICES ASSUME ~ Begun PROVE FALSE
    OBVIOUS
  <2>2. /\ "SIGTERM" \notin pending
        /\ "SIGUSR1" \notin pending
        /\ "SIGUSR2" \notin pending
    BY <2>1 DEF IInv, OneInFlight, Tokens
  <2>3. pending = {}
    BY <2>2 DEF IInv, TypeOK, Signals
  <2>4. QED
    BY <2>1, <2>3 DEF Terminate
<1>2. "SIGTERM" \in pending /\ writer = "pause"
  BY <1>1 DEF Terminate, Begun
<1>3. TypeOK'
  BY <1>2 DEF IInv, Terminate, TypeOK, reader_vars
<1>4. OneInFlight'
  BY <1>2 DEF IInv, Terminate, reader_vars, OneInFlight, Tokens, Begun
<1>5. BitsExact'
  BY <1>2 DEF IInv, Terminate, reader_vars, BitsExact, Coming
<1>6. Phases'
  BY <1>2 DEF IInv, Terminate, reader_vars, Phases
<1>7. QED
  BY <1>3, <1>4, <1>5, <1>6 DEF IInv

(* The bit moves from pending to the handler.                              *)
LEMMA DeliverStep ==
  ASSUME IInv, NEW s \in Signals, Deliver(s), UNCHANGED reader_vars
  PROVE  IInv'
<1>1. TypeOK'
  BY DEF IInv, Deliver, TypeOK, reader_vars
<1>2. OneInFlight'
  BY DEF IInv, Deliver, TypeOK, reader_vars, Signals, OneInFlight, Tokens,
         Begun
<1>3. BitsExact'
  BY DEF IInv, Deliver, TypeOK, reader_vars, BitsExact, Coming
<1>4. Phases'
  BY DEF IInv, Deliver, reader_vars, Signals, Phases
<1>5. QED
  BY <1>1, <1>2, <1>3, <1>4 DEF IInv

(* Adding the bit that has come makes var agree with one bit more of c;    *)
(* with the last bit it is c.                                              *)
LEMMA AddStep ==
  ASSUME IInv, NEW s \in Signals, Add(s), UNCHANGED reader_vars
  PROVE  IInv'
<1> DEFINE byte == [var EXCEPT ![index + 1] = IF s = "SIGUSR2" THEN 1 ELSE @]
           next(n) == [b \in 1 .. BITS |-> IF b <= n THEN c[b] ELSE 0]
<1>1. /\ index = i - 1
      /\ i \in 1 .. BITS
      /\ var = next(index)
      /\ taken = Append(out, c)
      /\ c[i] = IF s = "SIGUSR2" THEN 1 ELSE 0
      /\ reader # "send"
  BY DEF IInv, Add, TypeOK, Signals, OneInFlight, Tokens, BitsExact, Coming
<1>2. byte = next(i)
  <2>1. c \in [1 .. BITS -> 0 .. 1] /\ i \in Int
    BY DEF IInv, TypeOK
  <2>2. var[i] = 0
    BY <1>1, <2>1
  <2>3. \A b \in 1 .. BITS : byte[b] = next(i)[b]
    BY <1>1, <2>1, <2>2
  <2>4. QED
    BY <1>1, <2>3
<1>3. /\ index' = Mask(i)
      /\ IF index' = 0
         THEN var' = Zero /\ out' = Append(out, byte)
         ELSE var' = byte /\ out' = out
  BY <1>1 DEF Add, IInv
<1>4. OneInFlight'
  BY DEF IInv, Add, reader_vars, OneInFlight, Tokens, Begun
<1>5. Phases'
  BY DEF IInv, Add, reader_vars, Phases
<1>6. CASE i = BITS
  <2>1. byte = c
    BY <1>2, <1>6 DEF IInv, TypeOK
  <2>2. index' = 0
    BY <1>3, <1>6, ModBits
  <2>3. var' = Zero /\ out' = Append(out, byte)
    BY <1>3, <2>2
  <2>4. index' = 0 /\ var' = Zero /\ out' = taken
    BY <1>1, <2>1, <2>2, <2>3
  <2>5. ~ (\E t \in Signals : Coming(t))'
    BY DEF IInv, Add, TypeOK, Signals, OneInFlight, Tokens, Coming
  <2>6. TypeOK'
    BY <2>4 DEF IInv, Add, TypeOK, reader_vars, Zero
  <2>7. BitsExact'
    BY <1>6, <2>4, <2>5, ModBits, <2>6 DEF IInv, reader_vars, BitsExact, Zero
  <2>8. QED
    BY <1>4, <1>5, <2>6, <2>7 DEF IInv
<1>7. CASE i < BITS
  <2>1. index' = i /\ var' = next(i) /\ out' = out
    BY <1>1, <1>2, <1>3, <1>7, ModBits
  <2>2. ~ (\E t \in Signals : Coming(t))'
    BY DEF IInv, Add, TypeOK, Signals, OneInFlight, Tokens, Coming
  <2>3. TypeOK'
    BY <1>7, <2>1 DEF IInv, Add, TypeOK, reader_vars
  <2>4. BitsExact'
    BY <1>1, <1>7, <2>1, <2>2, ModBits DEF IInv, reader_vars, BitsExact
  <2>5. QED
    BY <1>4, <1>5, <2>3, <2>4 DEF IInv
<1>8. QED
  BY <1>1, <1>6, <1>7 DEF IInv

(* The acknowledgement replaces the bit.                                   *)
LEMMA AckStep ==
  ASSUME IInv, NEW s \in Signals, Ack(s), UNCHANGED reader_vars
  PROVE  IInv'
<1>1. TypeOK'
  BY DEF IInv, Ack, TypeOK, reader_vars
<1>2. OneInFlight'
  BY DEF IInv, Ack, TypeOK, reader_vars, Signals, OneInFlight, Tokens, Begun
<1>3. BitsExact'
  BY DEF IInv, Ack, reader_vars, BitsExact, Coming
<1>4. Phases'
  BY DEF IInv, Ack, reader_vars, Phases
<1>5. QED
  BY <1>1, <1>2, <1>3, <1>4 DEF IInv

-----------------------------------------------------------------------------
LEMMA InitInv == Init => IInv
<1> SUFFICES ASSUME Init PROVE IInv
  OBVIOUS
<1>1. TypeOK
  <2>1. taken \in Seq(Bytes) /\ out \in Seq(Bytes)
    BY DEF Init
  <2>2. /\ reader \in {"open", "install"}
        /\ f_n \in -1 .. FILES
        /\ writer \in {"none", "install"}
        /\ c \in [1 .. BITS -> 0 .. 1] /\ var \in [1 .. BITS -> 0 .. 1]
        /\ handler \in [Signals -> {"none", "add", "ack"}]
    BY DEF Init, Zero
  <2>3. acked \in BOOLEAN /\ err \in BOOLEAN
    BY DEF Init
  <2>4. shifted \in 0 .. BITS /\ i \in 0 .. BITS /\ index \in 0 .. BITS - 1
    BY DEF Init
  <2>5. pending \in SUBSET (Signals \cup {"SIGTERM"})
    BY DEF Init
  <2>6. QED
    BY <2>1, <2>2, <2>3, <2>4, <2>5 DEF TypeOK
<1>2. OneInFlight
  BY DEF Init, OneInFlight, Tokens, Begun, Signals
<1>3. BitsExact
  BY ModBits DEF Init, BitsExact, Coming, Zero
<1>4. Phases
  BY DEF Init, Phases
<1>5. QED
  BY <1>1, <1>2, <1>3, <1>4 DEF IInv

LEMMA NextInv == IInv /\ [Next]_vars => IInv'
<1> SUFFICES ASSUME IInv, [Next]_vars PROVE IInv'
  OBVIOUS
<1>1. CASE Reader
  BY <1>1, MainStep, EnterStep, ReadStep, EndOfFileStep, HandlerFailsStep,
     SendStep, ShiftStep, WaitReturnsStep
     DEF Reader
<1>2. CASE Writer
  BY <1>2, WriterInstallStep, FirstStep, TerminateStep, DeliverStep, AddStep,
     AckStep
     DEF Writer
<1>3. CASE UNCHANGED vars
  BY <1>3
     DEF vars, reader_vars, writer_vars, IInv, TypeOK, OneInFlight, Tokens,
         Begun, BitsExact, Coming, Phases
<1>4. QED
  BY <1>1, <1>2, <1>3 DEF Next

(* Everything below holds in every state of every behaviour.               *)
THEOREM Invariance == Spec => []IInv
BY InitInv, NextInv, PTL DEF Spec

(* Every variable keeps its type: in particular f_n never runs below -1    *)
(* and c is never shifted out of the byte.                                 *)
THEOREM TypeCorrect == Spec => []TypeOK
BY Invariance, PTL DEF IInv

(* One bit or one acknowledgement is in flight at a time, so that standard *)
(* signals, which do not queue, are enough; and SIGTERM comes when there   *)
(* is none.                                                                *)
THEOREM NoSignalMerged == Spec => []OneInFlight
BY Invariance, PTL DEF IInv

(* Parent and child agree on every bit.                                    *)
THEOREM Agreement == Spec => []BitsExact
BY Invariance, PTL DEF IInv

(* When neither process can move, all that was read is written, and if     *)
(* they have not ended it is for one of the named reasons.                 *)
THEOREM StandstillShape == Spec => []StandstillExplained
<1>1. IInv => StandstillExplained
  <2> SUFFICES ASSUME IInv, Standstill PROVE StandstillExplained
    BY DEF StandstillExplained
  <2>1. \A s \in Signals : ~ Coming(s)
    BY DEF IInv, Standstill, Coming, Signals, OneInFlight, Tokens, Begun,
           Phases
  <2>2. Mask(i) = 0 /\ reader # "send"
    <3>1. i = 0
      <4>1. SUFFICES ASSUME i > 0 PROVE FALSE
        BY DEF IInv, TypeOK
      <4>2. reader = "wait" /\ ~ acked /\ pending = {} /\ ~ err
        BY <4>1 DEF IInv, Phases, Standstill
      <4>3. QED
        BY <4>1, <4>2 DEF IInv, Standstill, OneInFlight, Tokens, Begun, Signals
    <3>2. QED
      BY <3>1, ModBits DEF Standstill
  <2>3. out = taken
    BY <2>1, <2>2 DEF IInv, BitsExact
  <2>4. QED
    BY <2>3
       DEF StandstillExplained, IInv, Standstill, Phases, OneInFlight, Tokens,
           Begun, Signals
<1>2. QED
  BY <1>1, Invariance, PTL

-----------------------------------------------------------------------------
(* Reading is a Take, the last bit of a byte a Put, the rest stutters.     *)
LEMMA ReaderRefines ==
  ASSUME IInv, Reader
  PROVE  [StreamImpl!Next]_(StreamImpl!vars)
<1>1. CASE Read
  <2>1. out = taken
    BY <1>1, ModBits DEF IInv, TypeOK, Read, Goto, BitsExact
  <2>2. QED
    BY <1>1, <2>1
       DEF Reader, Read, writer_vars, StreamImpl!Next, StreamImpl!Take
<1>2. CASE ~ Read
  BY <1>2
     DEF Reader, writer_vars, StreamImpl!vars, Open, Install, DefaultAction,
         Enter, EndOfFile, HandlerFails, Send, Shift, WaitReturns
<1>3. QED
  BY <1>1, <1>2

LEMMA WriterRefines ==
  ASSUME IInv, Writer
  PROVE  [StreamImpl!Next]_(StreamImpl!vars)
<1>1. CASE \E s \in Signals : Add(s)
  <2>1. PICK s \in Signals : Add(s)
    BY <1>1
  <2>2. UNCHANGED reader_vars
    BY DEF Writer
  <2>3. CASE out' = out
    BY <2>2, <2>3 DEF reader_vars, StreamImpl!vars
  <2>4. CASE out' # out
    <3>1. taken = Append(out, c)
      BY <2>1 DEF IInv, Add, BitsExact, Coming
    <3>2. IInv'
      BY <2>1, <2>2, AddStep
    <3>3. index' = 0 /\ ~ (\E t \in Signals : Coming(t))'
      BY <2>1, <2>4 DEF IInv, Add, TypeOK, Signals, OneInFlight, Tokens, Coming
    <3>4. reader' # "send"
      BY <2>1, <2>2 DEF reader_vars, IInv, Add, Signals, OneInFlight, Tokens
    <3>5. taken' = out'
      BY <3>2, <3>3, <3>4 DEF IInv, BitsExact
    <3>6. QED
      BY <2>2, <2>4, <3>5 DEF reader_vars, StreamImpl!Next, StreamImpl!Put
  <2>5. QED
    BY <2>3, <2>4
<1>2. CASE ~ \E s \in Signals : Add(s)
  BY <1>2
     DEF Writer, reader_vars, StreamImpl!vars, WriterInstall, First, Terminate,
         Deliver, Ack
<1>3. QED
  BY <1>1, <1>2

(* The program implements ByteStream.                                      *)
THEOREM Refinement == Spec => ImplementsByteStream
<1>1. Init => StreamImpl!Init
  BY DEF Init, StreamImpl!Init
<1>2. IInv /\ [Next]_vars => [StreamImpl!Next]_(StreamImpl!vars)
  <2> SUFFICES ASSUME IInv, [Next]_vars PROVE [StreamImpl!Next]_(StreamImpl!vars)
    OBVIOUS
  <2>1. CASE UNCHANGED vars
    BY <2>1 DEF vars, reader_vars, writer_vars, StreamImpl!vars
  <2>2. QED
    BY <2>1, ReaderRefines, WriterRefines DEF Next
<1>3. QED
  BY <1>1, <1>2, Invariance, PTL
     DEF Spec, ImplementsByteStream, StreamImpl!Spec

-----------------------------------------------------------------------------
ReaderSteps == {"open", "install", "read", "send", "shift", "wait", "ended", "killed"}
WriterSteps == {"install", "first", "pause", "none", "dead"}

(* The numbers that add up to what is left.                                *)
LEMMA LeftParts ==
  ASSUME IInv
  PROVE  /\ BitsLeft \in Nat /\ f_n + 1 \in Nat /\ AckLeft \in Nat
         /\ \A s \in Signals : SignalLeft(s) \in Nat
         /\ SignalsLeft \in Nat /\ ReaderLeft \in Nat /\ WriterLeft \in Nat
         /\ Left \in Nat
<1>1. /\ BitsLeft \in Nat /\ f_n + 1 \in Nat /\ AckLeft \in Nat
  BY DEF IInv, TypeOK, BitsLeft, AckLeft
<1>2. ASSUME NEW s \in Signals PROVE SignalLeft(s) \in Nat
  <2>1. handler[s] \in {"none", "add", "ack"}
    BY DEF IInv, TypeOK
  <2>2. QED
    BY <2>1 DEF SignalLeft
<1>3. ReaderLeft \in Nat /\ WriterLeft \in Nat
  BY DEF IInv, TypeOK, ReaderLeft, WriterLeft
<1>4. QED
  BY <1>1, <1>2, <1>3 DEF Signals, SignalsLeft, Left

(* Every operation of the parent but a read leaves less to do.             *)
LEMMA ReaderDescends ==
  ASSUME IInv, Reader, ~ Read
  PROVE  taken' = taken /\ Left' < Left
<1>1. /\ reader \in ReaderSteps /\ f_n \in Int /\ i \in 0 .. BITS /\ BITS \in Nat
      /\ UNCHANGED <<writer, handler>> /\ taken' = taken
  BY DEF IInv, TypeOK, ReaderSteps, Reader, writer_vars, Open, Install, DefaultAction,
         Enter, EndOfFile, HandlerFails, Send, Shift, WaitReturns
<1>2. WriterLeft' = WriterLeft
  BY <1>1 DEF WriterLeft
<1>3. /\ BitsLeft \in Int /\ AckLeft \in Nat /\ SignalsLeft \in Int
      /\ ReaderLeft \in Int /\ WriterLeft \in Int /\ f_n \in Int
      /\ Left = 6 * BitsLeft + (f_n + 1) + AckLeft + SignalsLeft + ReaderLeft + WriterLeft
  BY LeftParts DEF Left, IInv, TypeOK
<1>4. CASE pending' \cap Signals = pending \cap Signals
  <2>1. SignalsLeft' = SignalsLeft
    <3>1. \A s \in Signals : s \in pending' <=> s \in pending
      BY <1>4
    <3>2. QED
      BY <1>1, <3>1 DEF SignalsLeft, SignalLeft, Signals
  <2>2. CASE Open \/ Install \/ DefaultAction \/ Shift \/ WaitReturns
    <3>1. BitsLeft' = BitsLeft /\ f_n' = f_n /\ AckLeft' = AckLeft
      BY <2>2 DEF Open, Install, DefaultAction, Shift, WaitReturns, Goto, BitsLeft, AckLeft
    <3>2. ReaderLeft' < ReaderLeft /\ ReaderLeft' \in Nat
      BY <2>2 DEF Open, Install, DefaultAction, Shift, WaitReturns, Goto, ReaderLeft
    <3>3. QED
      BY <1>1, <1>2, <2>1, <3>1, <3>2, LeftParts DEF Left
  <2>3. CASE Enter
    <3>1. /\ acked /\ ~ acked' /\ reader = "wait" /\ f_n' = f_n /\ i' = Mask(i)
          /\ reader' = IF i' = 0 THEN "read" ELSE "send"
      BY <2>3 DEF Enter, Goto
    <3>2. BitsLeft' = BitsLeft
      BY <1>1, <3>1, ModBits DEF BitsLeft
    <3>3. AckLeft' = 0 /\ AckLeft = 2
      BY <3>1 DEF AckLeft
    <3>4. ReaderLeft' = 2 /\ ReaderLeft = 1
      BY <3>1 DEF ReaderLeft
    <3>5. QED
      BY <1>1, <1>2, <2>1, <3>1, <3>2, <3>3, <3>4, LeftParts DEF Left
  <2>4. CASE EndOfFile
    <3>1. /\ reader = "read" /\ reader' \in {"wait", "read"} /\ f_n' = f_n - 1
          /\ UNCHANGED <<acked, i>>
      BY <2>4 DEF EndOfFile, Goto
    <3>2. BitsLeft' = BitsLeft /\ AckLeft' = AckLeft
      BY <3>1 DEF BitsLeft, AckLeft
    <3>3. ReaderLeft' \in {1, 2} /\ ReaderLeft = 2
      BY <3>1 DEF ReaderLeft
    <3>4. Left' = 6 * BitsLeft + f_n + AckLeft + SignalsLeft + ReaderLeft' + WriterLeft
      BY <1>1, <1>2, <2>1, <3>1, <3>2, <3>3, LeftParts DEF Left
    <3>5. CASE ReaderLeft' = 1
      BY <1>3, <1>1, <3>3, <3>4, <3>5
    <3>6. CASE ReaderLeft' = 2
      BY <1>3, <1>1, <3>3, <3>4, <3>6
    <3>7. QED
      BY <3>3, <3>5, <3>6
  <2>5. CASE HandlerFails
    <3>1. /\ reader = "read" /\ reader' = "wait" /\ f_n' \in {f_n, f_n - 1}
          /\ UNCHANGED <<acked, i>>
      BY <2>5 DEF HandlerFails, Goto
    <3>2. BitsLeft' = BitsLeft /\ AckLeft' = AckLeft
      BY <3>1 DEF BitsLeft, AckLeft
    <3>3. ReaderLeft' = 1 /\ ReaderLeft = 2
      BY <3>1 DEF ReaderLeft
    <3>4. Left' = 6 * BitsLeft + (f_n' + 1) + AckLeft + SignalsLeft + 1 + WriterLeft
      BY <1>2, <2>1, <3>2, <3>3 DEF Left
    <3>5. CASE f_n' = f_n
      BY <1>3, <1>1, <3>3, <3>4, <3>5
    <3>6. CASE f_n' = f_n - 1
      BY <1>3, <1>1, <3>3, <3>4, <3>6
    <3>7. QED
      BY <3>1, <3>5, <3>6
  <2>6. CASE Send
    <3>1. BitsLeft' = BitsLeft - 1 /\ f_n' = f_n /\ AckLeft' = AckLeft
      BY <1>1, <2>6 DEF Send, Goto, BitsLeft, AckLeft
    <3>2. ReaderLeft' = 2 /\ ReaderLeft = 2
      BY <2>6 DEF Send, Goto, ReaderLeft
    <3>3. Left' = 6 * BitsLeft - 6 + (f_n + 1) + AckLeft + SignalsLeft + 2 + WriterLeft
      BY <1>3, <1>2, <2>1, <3>1, <3>2 DEF Left
    <3>4. QED
      BY <1>3, <1>1, <3>2, <3>3
  <2>7. QED
    BY <1>1, <2>2, <2>3, <2>4, <2>5, <2>6 DEF Reader
<1>5. CASE pending' \cap Signals # pending \cap Signals
  <2>1. Send
    BY <1>5 DEF Reader, Open, Install, DefaultAction, Enter, EndOfFile, HandlerFails,
       Shift, WaitReturns, Signals
  <2>2. PICK s \in Signals : pending' = pending \cup {s} /\ s \notin pending
    BY <1>5, <2>1 DEF Send, Signals
  <2>3. PICK r \in Signals : Signals = {s, r} /\ r # s
    BY DEF Signals
  <2>4. SignalLeft(s)' = SignalLeft(s) + 5 /\ SignalLeft(r)' = SignalLeft(r)
    <3>1. handler[s] \in {"none", "add", "ack"}
      BY DEF IInv, TypeOK
    <3>2. QED
      BY <1>1, <2>2, <2>3, <3>1 DEF SignalLeft
  <2>5. SignalsLeft' = SignalsLeft + 5
    BY <2>3, <2>4, LeftParts DEF Signals, SignalsLeft
  <2>6. BitsLeft' = BitsLeft - 1 /\ f_n' = f_n /\ AckLeft' = AckLeft
    BY <1>1, <2>1 DEF Send, Goto, BitsLeft, AckLeft
  <2>7. ReaderLeft' = ReaderLeft
    BY <2>1 DEF Send, Goto, ReaderLeft
  <2>8. Left' = 6 * BitsLeft - 6 + (f_n + 1) + AckLeft + (SignalsLeft + 5) + ReaderLeft + WriterLeft
    BY <1>3, <1>2, <2>5, <2>6, <2>7 DEF Left
  <2>9. QED
    BY <1>3, <1>1, <2>8
<1>6. QED
  BY <1>4, <1>5

(* Every operation of the child, and every delivery, leaves less to do.    *)
LEMMA WriterDescends ==
  ASSUME IInv, Writer
  PROVE  taken' = taken /\ Left' < Left
<1>1. /\ UNCHANGED <<reader, f_n, i, taken>> /\ writer \in WriterSteps
      /\ pending \in SUBSET (Signals \cup {"SIGTERM"})
      /\ handler \in [Signals -> {"none", "add", "ack"}]
  BY DEF Writer, reader_vars, IInv, TypeOK, WriterSteps
<1>2. /\ BitsLeft' = BitsLeft /\ ReaderLeft' = ReaderLeft
      /\ f_n' = f_n
  BY <1>1 DEF BitsLeft, ReaderLeft
<1>3. /\ BitsLeft \in Int /\ AckLeft \in Nat /\ SignalsLeft \in Int
      /\ ReaderLeft \in Int /\ WriterLeft \in Int /\ f_n \in Int
      /\ Left = 6 * BitsLeft + (f_n + 1) + AckLeft + SignalsLeft + ReaderLeft + WriterLeft
  BY LeftParts DEF Left, IInv, TypeOK
<1>4. CASE WriterInstall \/ First \/ Terminate
  <2>1. SignalsLeft' = SignalsLeft
    BY <1>4 DEF WriterInstall, First, Terminate, SignalsLeft, SignalLeft
  <2>2. CASE WriterInstall \/ Terminate
    <3>1. WriterLeft' < WriterLeft /\ WriterLeft' \in Nat
      BY <1>1, <2>2 DEF WriterInstall, Terminate, WriterLeft, WriterSteps
    <3>2. AckLeft' = AckLeft
      BY <2>2 DEF WriterInstall, Terminate, AckLeft
    <3>3. QED
      BY <1>1, <1>2, <2>1, <3>1, <3>2, LeftParts DEF Left
  <2>3. CASE First
    <3>1. WriterLeft' = 1 /\ WriterLeft = 4
      BY <2>3 DEF First, WriterLeft
    <3>2. AckLeft' = 2
      BY <2>3 DEF First, AckLeft
    <3>3. QED
      BY <1>1, <1>2, <2>1, <3>1, <3>2, LeftParts DEF Left
  <2>4. QED
    BY <1>4, <2>2, <2>3
<1>5. ASSUME NEW s \in Signals, Deliver(s) \/ Add(s) \/ Ack(s)
      PROVE  Left' < Left
  <2>1. PICK r \in Signals : Signals = {s, r} /\ r # s
    BY DEF Signals
  <2>2. writer' = writer /\ SignalLeft(r)' = SignalLeft(r)
    BY <1>1, <1>5, <2>1 DEF Deliver, Add, Ack, SignalLeft
  <2>3. \/ SignalLeft(s)' + 1 = SignalLeft(s) /\ AckLeft' = AckLeft
        \/ SignalLeft(s)' + 3 = SignalLeft(s) /\ AckLeft' = 2
    <3>1. CASE Deliver(s)
      <4>1. s \in pending /\ s \notin pending' /\ handler[s] = "none" /\ handler'[s] = "add" /\ acked' = acked
        BY <1>1, <3>1 DEF Deliver
      <4>2. QED
        BY <4>1 DEF SignalLeft, AckLeft
    <3>2. CASE Add(s)
      <4>1. pending' = pending /\ handler[s] = "add" /\ handler'[s] = "ack" /\ acked' = acked
        BY <1>1, <3>2 DEF Add
      <4>2. QED
        BY <4>1 DEF SignalLeft, AckLeft
    <3>3. CASE Ack(s)
      <4>1. pending' = pending /\ handler[s] = "ack" /\ handler'[s] = "none" /\ acked'
        BY <1>1, <3>3 DEF Ack
      <4>2. QED
        BY <4>1 DEF SignalLeft, AckLeft
    <3>4. QED
      BY <1>5, <3>1, <3>2, <3>3
  <2>4. SignalLeft(s)' \in Int
    <3>1. handler'[s] \in {"none", "add", "ack"}
      BY <1>1, <1>5 DEF Deliver, Add, Ack
    <3>2. QED
      BY <3>1 DEF SignalLeft
  <2>5. WriterLeft' = WriterLeft
    BY <2>2 DEF WriterLeft
  <2>6. SignalsLeft = SignalLeft(s) + SignalLeft(r) /\ SignalsLeft' = SignalLeft(s)' + SignalLeft(r)
    BY <2>1, <2>2, <2>4, LeftParts DEF Signals, SignalsLeft
  <2>7. SignalLeft(s) \in Nat /\ SignalLeft(r) \in Nat
    BY LeftParts
  <2>8. CASE SignalLeft(s)' + 1 = SignalLeft(s) /\ AckLeft' = AckLeft
    <3>1. SignalsLeft' = SignalsLeft - 1
      BY <2>4, <2>6, <2>7, <2>8
    <3>2. Left' = 6 * BitsLeft + (f_n + 1) + AckLeft + (SignalsLeft - 1) + ReaderLeft + WriterLeft
      BY <1>2, <2>5, <2>8, <3>1 DEF Left
    <3>3. QED
      BY <1>3, <3>2
  <2>9. CASE SignalLeft(s)' + 3 = SignalLeft(s) /\ AckLeft' = 2
    <3>1. SignalsLeft' = SignalsLeft - 3
      BY <2>4, <2>6, <2>7, <2>9
    <3>2. Left' = 6 * BitsLeft + (f_n + 1) + 2 + (SignalsLeft - 3) + ReaderLeft + WriterLeft
      BY <1>2, <2>5, <2>9, <3>1 DEF Left
    <3>3. QED
      BY <1>3, <3>2
  <2>10. QED
    BY <2>3, <2>8, <2>9
<1>6. QED
  BY <1>1, <1>4, <1>5 DEF Writer

(* For every number of bits, files and bytes: each step reads a byte or    *)
(* leaves less to do (StepsGetOn), and both are bounded, so that the steps *)
(* of an execution run out.                                                *)
THEOREM StepsRunOut ==
  Spec => StepsGetOn /\ [](Len(taken) <= MAX_BYTES /\ Left \in Nat)
<1>1. IInv /\ [Next]_vars => [StepGetsOn]_vars
  <2> SUFFICES ASSUME IInv, Next PROVE StepGetsOn
    OBVIOUS
  <2>1. CASE Reader /\ Read
    <3>1. Len(taken') = Len(taken) + 1
      BY <2>1, AppendProperties DEF Read, IInv, TypeOK
    <3>2. QED
      BY <3>1 DEF StepGetsOn
  <2>2. CASE Reader /\ ~ Read
    BY <2>2, ReaderDescends DEF StepGetsOn
  <2>3. CASE Writer
    BY <2>3, WriterDescends DEF StepGetsOn
  <2>4. QED
    BY <2>1, <2>2, <2>3 DEF Next
<1>2. IInv => Left \in Nat
  BY LeftParts
<1>3. Init => Len(taken) <= MAX_BYTES
  BY EmptySeq DEF Init
<1>4. IInv /\ Len(taken) <= MAX_BYTES /\ [Next]_vars => (Len(taken) <= MAX_BYTES)'
  <2> SUFFICES ASSUME IInv, Len(taken) <= MAX_BYTES, [Next]_vars
               PROVE  Len(taken') <= MAX_BYTES
    OBVIOUS
  <2>1. CASE Reader /\ Read
    <3>1. Len(taken') = Len(taken) + 1 /\ Len(taken) \in Nat
      BY <2>1, AppendProperties, LenProperties DEF Read, IInv, TypeOK
    <3>2. QED
      BY <2>1, <3>1 DEF Read
  <2>2. CASE ~ (Reader /\ Read)
    <3>1. taken' = taken
      BY <2>2, ReaderDescends, WriterDescends DEF Next, vars, reader_vars
    <3>2. QED
      BY <3>1
  <2>3. QED
    BY <2>1, <2>2
<1>5. QED
  BY <1>1, <1>2, <1>3, <1>4, Invariance, PTL DEF Spec, StepsGetOn
================================================================================
