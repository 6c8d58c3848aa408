------------------------------ MODULE WordReport ------------------------------
(***************************************************************************)
(* What my_pipe promises with its option: the numbers it reports are those *)
(* of everything the command has written, and it reports when the command  *)
(* writes no more.  Counts is the reference definition of the numbers.     *)
(***************************************************************************)
EXTENDS Naturals, Sequences, FiniteSets

VARIABLES
  output,       \* what the command has written
  report        \* the numbers reported, or None

vars == <<output, report>>

None == <<>>

(* All that isspace tells apart, and the newline.                          *)
Bytes == {"letter", "space", "newline"}

IsSpace(b) == b # "letter"

(* Where, among the first n bytes of s, a word begins, and a line ends.    *)
WordStarts(s, n) ==
  {k \in 1 .. n : ~ IsSpace(s[k]) /\ (k = 1 \/ IsSpace(s[k - 1]))}

LineEnds(s, n) == {k \in 1 .. n : s[k] = "newline"}

Counts(s, n) ==
  <<n, Cardinality(WordStarts(s, n)), Cardinality(LineEnds(s, n))>>

Init ==
  /\ output = <<>>
  /\ report = None

Write(b) ==
  /\ report = None
  /\ output' = Append(output, b)
  /\ UNCHANGED report

Report ==
  /\ report = None
  /\ report' = Counts(output, Len(output))
  /\ UNCHANGED output

Next == Report \/ \E b \in Bytes : Write(b)

Spec == Init /\ [][Next]_vars
=============================================================================
