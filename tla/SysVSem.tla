------------------------------- MODULE SysVSem -------------------------------
(***************************************************************************)
(* A System V semaphore set, as the three wrappers P_oper, V_oper and      *)
(* Z_oper of semaphs.h and semaphors.h use it: every call passes exactly   *)
(* one sembuf with flags 0, so it is one atomic step that blocks (is not   *)
(* enabled) until the kernel can do it, and nothing is undone when the     *)
(* caller dies (no SEM_UNDO).                                              *)
(*                                                                         *)
(* The wrappers end the process when semop fails.  semop can fail here     *)
(* only when the set is removed or a value would pass the kernel's         *)
(* SEMVMX; the modules that use this one state invariants that exclude     *)
(* both.                                                                   *)
(***************************************************************************)
EXTENDS Integers

VARIABLE sem        \* the set: a function from semaphore names to values

(* P_oper: take num from the semaphore, blocking while it holds less.      *)
P_oper(name, num) ==
  /\ sem[name] >= num
  /\ sem' = [sem EXCEPT ![name] = @ - num]

(* V_oper: add num to the semaphore; never blocks.                         *)
V_oper(name, num) ==
  sem' = [sem EXCEPT ![name] = @ + num]

(* Z_oper: block until the semaphore is zero, and leave it so.             *)
Z_oper(name) ==
  /\ sem[name] = 0
  /\ UNCHANGED sem
=============================================================================
