----------------------------- MODULE LineChannel -----------------------------
(***************************************************************************)
(* What the client and server programs promise together: every line a      *)
(* client sends appears on the server's terminal, whole, once, and in the  *)
(* order of sending, and no line is sent while another one is on its way.  *)
(* A line without a newline may be held back until a later one; what is    *)
(* held, and nothing else, is lost when the server goes down.              *)
(* They promise it until the server is started a second time.              *)
(***************************************************************************)
EXTENDS Naturals, Sequences

CONSTANTS
  Clients,
  Unended       \* the lines without a newline

VARIABLES
  sent,         \* how many lines each client has sent
  transit,      \* the line on its way, or None
  held,         \* the lines held back
  out,          \* the lines on the terminal
  down,         \* whether the server has gone down
  renewed       \* whether the server has been started again

vars == <<sent, transit, held, out, down, renewed>>

None == <<>>

Init ==
  /\ sent = [c \in Clients |-> 0]
  /\ transit = None
  /\ held = <<>>
  /\ out = <<>>
  /\ down = FALSE
  /\ renewed = FALSE

Send(c) ==
  /\ transit = None
  /\ sent' = [sent EXCEPT ![c] = @ + 1]
  /\ transit' = <<c, sent[c] + 1>>
  /\ UNCHANGED <<held, out, down>>

(* The line goes behind those held back, and all go to the terminal, those *)
(* held back, or none; a line with a newline is not held back.             *)
Deliver ==
  /\ ~ down
  /\ transit # None
  /\ transit' = None
  /\ \/ out' = out \o Append(held, transit) /\ held' = <<>>
     \/ out' = out \o held /\ held' = <<transit>> /\ transit \in Unended
     \/ out' = out /\ held' = Append(held, transit) /\ transit \in Unended
  /\ UNCHANGED <<sent, down>>

GoDown ==
  /\ ~ down
  /\ down' = TRUE
  /\ held' = <<>>
  /\ UNCHANGED <<sent, transit, out>>

(* From the second start on anything may happen.                           *)
Next ==
  \/ ~ renewed' /\ (Deliver \/ GoDown \/ \E c \in Clients : Send(c))
  \/ renewed'

Spec == Init /\ [][Next]_vars
=============================================================================
