------------------------------- MODULE MsgQueue -------------------------------
(***************************************************************************)
(* A System V message queue whose messages carry nothing but their type,   *)
(* as runners_proc.c uses it (struct Message_t is the type alone).  Both   *)
(* calls pass msgflg 0: msgsnd blocks while the queue is full, msgrcv      *)
(* while it holds no message of the wanted type.  The order of messages of *)
(* one type cannot be observed, so a count per type is the whole queue.    *)
(***************************************************************************)
EXTENDS Integers

CONSTANT QUEUE_LIMIT    \* the messages that fit: the kernel's msg_qbytes / 8

ASSUME QueueAssumption == QUEUE_LIMIT \in Nat \ {0}

VARIABLES
  queue,        \* how many messages of each type are in the queue
  qnum          \* how many there are altogether, as the kernel counts them

QueueFull == qnum >= QUEUE_LIMIT

msgsnd(type) ==
  /\ ~ QueueFull
  /\ queue' = [queue EXCEPT ![type] = @ + 1]
  /\ qnum' = qnum + 1

msgrcv(type) ==
  /\ queue[type] > 0
  /\ queue' = [queue EXCEPT ![type] = @ - 1]
  /\ qnum' = qnum - 1
=============================================================================
