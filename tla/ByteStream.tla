------------------------------ MODULE ByteStream ------------------------------
(***************************************************************************)
(* What the two processes of unreliable_sig.c promise together: every byte *)
(* that is read is written, unchanged, in order, and before the next one   *)
(* is read.                                                                *)
(***************************************************************************)
EXTENDS Sequences

CONSTANT Bytes

VARIABLES
  taken,        \* the bytes read
  out           \* the bytes written

vars == <<taken, out>>

Init ==
  /\ taken = <<>>
  /\ out = <<>>

Take(b) ==
  /\ out = taken
  /\ taken' = Append(taken, b)
  /\ UNCHANGED out

Put ==
  /\ out # taken
  /\ out' = taken
  /\ UNCHANGED taken

Next == Put \/ \E b \in Bytes : Take(b)

Spec == Init /\ [][Next]_vars
=============================================================================
