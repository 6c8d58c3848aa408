---------------------------- MODULE PipeCountProofs ----------------------------
(***************************************************************************)
(* For every size of the buffer and of the pipe, every output and every    *)
(* way it is cut into reads, whoever is killed: the numbers counted are    *)
(* those of the bytes looked at, and what is reported are the numbers of   *)
(* the whole output.                                                       *)
(***************************************************************************)
EXTENDS PipeCount, FiniteSetTheorems, SequenceTheorems, TLAPS

USE PipeAssumption

Starts(s, n) == ReportImpl!WordStarts(s, n)
Ends(s, n) == ReportImpl!LineEnds(s, n)

Procs == {"child", "heir"}
ProcStates == {"none", "start", "running", "writing", "ended"}

-----------------------------------------------------------------------------
(* One more byte begins one more word, or none; ends one more line, or     *)
(* none.                                                                   *)
LEMMA StartsGrow ==
  ASSUME NEW s \in Seq(Bytes), NEW n \in Nat, n < Len(s)
  PROVE  /\ Cardinality(Starts(s, n)) \in Nat
         /\ Cardinality(Starts(s, n + 1)) =
              IF ~ IsSpace(s[n + 1]) /\ (n = 0 \/ IsSpace(s[n]))
              THEN Cardinality(Starts(s, n)) + 1 ELSE Cardinality(Starts(s, n))
<1> USE DEF Starts, ReportImpl!WordStarts, ReportImpl!IsSpace, IsSpace
<1>1. IsFiniteSet(Starts(s, n)) /\ Starts(s, n) \subseteq 1 .. n
  <2>1. Starts(s, n) \subseteq 1 .. n
    OBVIOUS
  <2>2. IsFiniteSet(1 .. n)
    BY FS_Interval
  <2>3. QED
    BY <2>1, <2>2, FS_Subset
<1>2. Starts(s, n + 1) =
        IF ~ IsSpace(s[n + 1]) /\ (n = 0 \/ IsSpace(s[n]))
        THEN Starts(s, n) \cup {n + 1} ELSE Starts(s, n)
  <2>1. \A k \in 1 .. n + 1 : k \in 1 .. n \/ k = n + 1
    OBVIOUS
  <2>2. n + 1 - 1 = n
    OBVIOUS
  <2>3. QED
    BY <2>1, <2>2
<1>3. n + 1 \notin Starts(s, n)
  BY <1>1
<1>4. QED
  BY <1>1, <1>2, <1>3, FS_AddElement, FS_CardinalityType

LEMMA EndsGrow ==
  ASSUME NEW s \in Seq(Bytes), NEW n \in Nat, n < Len(s)
  PROVE  /\ Cardinality(Ends(s, n)) \in Nat
         /\ Cardinality(Ends(s, n + 1)) =
              IF s[n + 1] = "newline"
              THEN Cardinality(Ends(s, n)) + 1 ELSE Cardinality(Ends(s, n))
<1> USE DEF Ends, ReportImpl!LineEnds
<1>1. IsFiniteSet(Ends(s, n)) /\ Ends(s, n) \subseteq 1 .. n
  <2>1. Ends(s, n) \subseteq 1 .. n
    OBVIOUS
  <2>2. IsFiniteSet(1 .. n)
    BY FS_Interval
  <2>3. QED
    BY <2>1, <2>2, FS_Subset
<1>2. Ends(s, n + 1) = IF s[n + 1] = "newline"
                       THEN Ends(s, n) \cup {n + 1} ELSE Ends(s, n)
  <2>1. \A k \in 1 .. n + 1 : k \in 1 .. n \/ k = n + 1
    OBVIOUS
  <2>2. QED
    BY <2>1
<1>3. n + 1 \notin Ends(s, n)
  BY <1>1
<1>4. QED
  BY <1>1, <1>2, <1>3, FS_AddElement, FS_CardinalityType

(* What is written later does not change the numbers of what was there.    *)
LEMMA AppendKeeps ==
  ASSUME NEW s \in Seq(Bytes), NEW b \in Bytes, NEW n \in 0 .. Len(s)
  PROVE  /\ Append(s, b) \in Seq(Bytes)
         /\ Len(Append(s, b)) = Len(s) + 1
         /\ \A k \in 1 .. n : Append(s, b)[k] = s[k]
         /\ Starts(Append(s, b), n) = Starts(s, n)
         /\ Ends(Append(s, b), n) = Ends(s, n)
<1>1. /\ Append(s, b) \in Seq(Bytes)
      /\ Len(Append(s, b)) = Len(s) + 1
      /\ \A k \in 1 .. n : Append(s, b)[k] = s[k]
  BY AppendProperties
<1>2. Starts(Append(s, b), n) = Starts(s, n)
  <2>1. \A k \in 1 .. n : k # 1 => k - 1 \in 1 .. n
    OBVIOUS
  <2>2. QED
    BY <1>1, <2>1
    DEF Starts, ReportImpl!WordStarts, ReportImpl!IsSpace
<1>3. Ends(Append(s, b), n) = Ends(s, n)
  BY <1>1 DEF Ends, ReportImpl!LineEnds
<1>4. QED
  BY <1>1, <1>2, <1>3

-----------------------------------------------------------------------------
LEMMA InitEstablishes == Init => IInv
<1> SUFFICES ASSUME Init PROVE IInv
  OBVIOUS
<1> USE DEF Init
<1>1. TypeOK
  <2>1. output \in Seq(Bytes)
    BY EmptySeq
  <2>2. opt \in BOOLEAN /\ piped \in BOOLEAN /\ in_word \in BOOLEAN
    BY Zenon
  <2>3. /\ proc \in [Procs -> ProcStates] /\ parent = "fork"
        /\ got \in Nat /\ i \in Nat
        /\ bytes \in Int /\ words \in Nat /\ lines \in Nat
    BY DEF Procs, ProcStates
  <2>4. QED
    BY <2>1, <2>2, <2>3 DEF TypeOK, Procs, ProcStates
<1>2. CountsExact
  <2>1. Starts(output, 0) = {} /\ Ends(output, 0) = {}
    BY DEF Starts, Ends, ReportImpl!WordStarts, ReportImpl!LineEnds
  <2>2. Cardinality(Starts(output, i)) = 0 /\ Cardinality(Ends(output, i)) = 0
    BY <2>1, FS_EmptySet
  <2>3. Len(output) = 0
    BY EmptySeq
  <2>4. QED
    BY <2>2, <2>3 DEF CountsExact, Starts, Ends
<1>3. Phases
  BY DEF Phases, Writing, Connected
<1>4. QED
  BY <1>1, <1>2, <1>3 DEF IInv

(* A step of the parent that counts nothing.                               *)
LEMMA QuietStep ==
  ASSUME IInv, Fork \/ Close \/ EndOfFile \/ ReadElsewhere \/ Wait,
         UNCHANGED <<opt, piped, output>>
  PROVE  IInv'
<1> USE DEF Fork, Close, EndOfFile, ReadElsewhere, Wait, ParentGoto, counts, IInv
<1>1. TypeOK'
  BY DEF TypeOK
<1>2. CountsExact'
  BY DEF CountsExact, Phases, TypeOK
<1>3. Phases'
  BY DEF Phases, TypeOK, Writing, Connected, WriteEndOpen, ParentHolds, Alive,
     Unread
<1>4. QED
  BY <1>1, <1>2, <1>3

LEMMA ReadStep ==
  ASSUME IInv, Read \/ ReadFails, UNCHANGED <<opt, piped, output>>
  PROVE  IInv'
<1> USE DEF Read, ReadFails, ParentGoto, IInv
<1>1. Len(output) \in Nat
  BY LenProperties DEF TypeOK
<1>2. TypeOK'
  BY DEF TypeOK
<1>3. CountsExact'
  BY <1>1 DEF CountsExact, Phases, TypeOK, Unread, Connected
<1>4. Phases'
  BY <1>1 DEF Phases, TypeOK, Writing, Connected, WriteEndOpen, ParentHolds,
     Alive, Unread, CountsExact
<1>5. QED
  BY <1>2, <1>3, <1>4

LEMMA CountStep ==
  ASSUME IInv, Count, UNCHANGED <<opt, piped, output>>
  PROVE  IInv'
<1> USE DEF Count, CountByte, ParentGoto, IInv
<1>1. /\ Len(output) \in Nat /\ i \in Nat /\ got \in Nat
      /\ i < got /\ i < Len(output) /\ parent = "count" /\ opt
  BY LenProperties DEF TypeOK, Phases, CountsExact
<1>2. /\ i' = i + 1 /\ UNCHANGED <<got, bytes, proc>>
      /\ parent' = IF i + 1 = got THEN "read" ELSE "count"
  OBVIOUS
<1>3. TypeOK'
  BY <1>1, <1>2 DEF TypeOK
<1>4. CountsExact'
  <2>1. words' = Cardinality(Starts(output, i + 1))
    BY <1>1, StartsGrow DEF CountsExact, Starts, TypeOK
  <2>2. lines' = Cardinality(Ends(output, i + 1))
    BY <1>1, EndsGrow DEF CountsExact, Ends, TypeOK
  <2>3. in_word' <=> i' > 0 /\ ~ IsSpace(output'[i'])
    <3>1. i' = i + 1 /\ i' > 0
      BY <1>1, <1>2
    <3>2. in_word' = ~ IsSpace(output'[i + 1])
      OBVIOUS
    <3>3. QED
      BY <3>1, <3>2, Zenon
  <2>4. i' <= got' /\ got' <= Len(output) /\ bytes' = got'
    BY <1>1, <1>2 DEF CountsExact
  <2>5. parent' \notin {"wait", "done"}
    BY <1>2
  <2>6. QED
    BY <1>2, <2>1, <2>2, <2>3, <2>4, <2>5 DEF CountsExact, Starts, Ends
<1>5. Phases'
  BY <1>1, <1>2 DEF Phases, TypeOK, Writing, Connected
<1>6. QED
  BY <1>3, <1>4, <1>5

(* A process of the command moves and writes nothing.                      *)
LEMMA ProcMoves ==
  ASSUME IInv, NEW p \in Procs, NEW to \in ProcStates \ {"none"},
         to = "writing" => Connected,
         Alive(p) \/ (p = "heir" /\ proc["child"] = "running"),
         proc' = [proc EXCEPT ![p] = to],
         UNCHANGED <<opt, piped, parent, output, counts>>
  PROVE  IInv'
<1> USE DEF counts, IInv, Procs
<1>1. TypeOK'
  BY DEF TypeOK, ProcStates
<1>2. CountsExact'
  BY DEF CountsExact
<1>3. Phases'
  <2>1. parent # "fork" /\ ~ (Connected /\ parent \in {"wait", "done"})
    BY DEF Phases, TypeOK, Alive, WriteEndOpen
  <2>2. (proc["child"] = "none" => proc["heir"] = "none")'
    BY DEF Phases, TypeOK, Alive
  <2>3. ~ Connected => Writing' = {} /\ output' = <<>>
    BY DEF Phases, TypeOK, Writing, Connected
  <2>4. parent = "done" => ~ Alive("child")'
    BY DEF Phases, TypeOK, Alive
  <2>5. QED
    BY <2>1, <2>2, <2>3, <2>4 DEF Phases, Connected
<1>4. QED
  BY <1>1, <1>2, <1>3

LEMMA ProcStep ==
  ASSUME IInv, NEW p \in Procs,
         \/ p = "child" /\ Exec
         \/ p = "heir" /\ Spawn
         \/ BeginWrite(p) \/ Exit(p)
         \/ Alive(p) /\ proc' = [proc EXCEPT ![p] = "ended"] /\ output' = output,
         UNCHANGED <<opt, piped, parent, counts>>
  PROVE  IInv'
<1> USE DEF Alive, ProcStates, ProcGoto, counts
<1>1. CASE p = "child" /\ Exec
  <2>1. /\ proc' = [proc EXCEPT !["child"] = "running"] \/
           proc' = [proc EXCEPT !["child"] = "ended"]
        /\ output' = output /\ proc["child"] = "start"
    BY <1>1 DEF Exec
  <2>2. QED
    BY <1>1, <2>1, ProcMoves
<1>2. CASE p = "heir" /\ Spawn
  BY <1>2, ProcMoves DEF Spawn
<1>3. CASE BeginWrite(p)
  BY <1>3, ProcMoves DEF BeginWrite
<1>4. CASE Exit(p)
  BY <1>4, ProcMoves DEF Exit
<1>5. CASE Alive(p) /\ proc' = [proc EXCEPT ![p] = "ended"] /\ output' = output
  BY <1>5, ProcMoves
<1>6. QED
  BY <1>1, <1>2, <1>3, <1>4, <1>5

LEMMA WriteStep ==
  ASSUME IInv, NEW p \in Procs, EndWrite(p), UNCHANGED <<opt, piped, parent, counts>>
  PROVE  IInv'
<1> USE DEF EndWrite, ProcGoto, counts, IInv, Procs
<1>1. PICK b \in Bytes : output' = Append(output, b)
  OBVIOUS
<1>2. /\ proc' = [proc EXCEPT ![p] = "running"] /\ proc[p] = "writing"
      /\ i \in 0 .. Len(output) /\ got \in Nat /\ Len(output) \in Nat
      /\ got <= Len(output)
  BY LenProperties DEF TypeOK, CountsExact
<1>3. /\ output' \in Seq(Bytes) /\ Len(output') = Len(output) + 1
      /\ \A k \in 1 .. i : output'[k] = output[k]
      /\ Starts(output', i) = Starts(output, i)
      /\ Ends(output', i) = Ends(output, i)
  BY <1>1, <1>2, AppendKeeps DEF TypeOK
<1>4. Connected /\ parent \notin {"fork", "wait", "done"}
  <2>1. Connected /\ p \in Writing /\ Alive(p)
    BY <1>2 DEF Phases, Writing, TypeOK, Alive
  <2>2. QED
    BY <1>2, <2>1 DEF Phases, WriteEndOpen, TypeOK
<1>5. TypeOK'
  BY <1>2, <1>3 DEF TypeOK
<1>6. CountsExact'
  BY <1>2, <1>3, <1>4 DEF CountsExact, Starts, Ends
<1>7. Phases'
  BY <1>2, <1>4 DEF Phases, TypeOK, Connected
<1>8. QED
  BY <1>5, <1>6, <1>7

LEMMA NextPreserves == IInv /\ [Next]_vars => IInv'
<1> SUFFICES ASSUME IInv, [Next]_vars PROVE IInv'
  OBVIOUS
<1>1. CASE Parent
  BY <1>1, QuietStep, ReadStep, CountStep DEF Parent
<1>2. ASSUME NEW p \in DOMAIN proc, Command(p) \/ Kill(p) PROVE IInv'
  <2>1. p \in Procs
    BY <1>2 DEF IInv, TypeOK, Procs
  <2>2. QED
    BY <1>2, <2>1, ProcStep, WriteStep DEF Command, Kill
<1>3. CASE UNCHANGED vars
  <2>1. UNCHANGED <<opt, piped, parent, proc, output, got, i, bytes, words,
                    lines, in_word>>
    BY <1>3 DEF vars, counts
  <2>2. QED
    BY <2>1 DEF IInv, TypeOK, CountsExact, Phases, Connected, Writing, Unread,
       WriteEndOpen, ParentHolds, Alive
<1>4. QED
  BY <1>1, <1>2, <1>3 DEF Next

(* The inductive invariant holds whoever is killed and whatever fails.     *)
THEOREM Invariance == Spec => []IInv
<1>1. QED
  BY InitEstablishes, NextPreserves, PTL DEF Spec

(* The numbers counted are those of the bytes looked at, by the reference  *)
(* definition, however the output was cut into reads.                      *)
THEOREM CountsAreExact == Spec => []CountsExact
<1>1. IInv => CountsExact
  BY DEF IInv
<1>2. QED
  BY <1>1, Invariance, PTL

-----------------------------------------------------------------------------
LEMMA InitRefines == Init => ReportImpl!Init
BY DEF Init, ReportImpl!Init, ReportImpl!None

LEMMA ParentRefines ==
  ASSUME IInv, Parent
  PROVE  ReportImpl!Report \/ UNCHANGED ReportImpl!vars
<1> USE DEF IInv, Parent, ParentGoto, ReportImpl!vars, Connected
<1>1. CASE EndOfFile /\ opt
  <2>1. /\ UNCHANGED <<output, bytes, words, lines>>
        /\ parent = "read" /\ parent' = "wait" /\ piped
        /\ Len(output) \in Nat /\ got = i /\ bytes = got /\ got = Len(output)
    BY <1>1, LenProperties
    DEF EndOfFile, counts, Phases, CountsExact, TypeOK, Unread
  <2>2. <<bytes, words, lines>> = ReportImpl!Counts(output, Len(output))
    <3>1. /\ words = Cardinality(ReportImpl!WordStarts(output, Len(output)))
          /\ lines = Cardinality(ReportImpl!LineEnds(output, Len(output)))
      BY <2>1 DEF CountsExact
    <3>2. bytes = Len(output)
      BY <2>1
    <3>3. QED
      BY <3>1, <3>2, Zenon DEF ReportImpl!Counts, Cardinality, ReportImpl!Cardinality
  <2>3. ReportImpl!Report
    BY <1>1, <2>1, <2>2 DEF ReportImpl!Report, ReportImpl!None
  <2>4. QED
    BY <2>3
<1>2. CASE Wait \/ Close \/ ReadElsewhere
  BY <1>2 DEF Wait, Close, ReadElsewhere, counts
<1>3. CASE Fork
  BY <1>3 DEF Fork, counts
<1>4. CASE Read \/ ReadFails \/ Count
  BY <1>4 DEF Read, ReadFails, Count
<1>5. CASE EndOfFile /\ ~ opt
  BY <1>5 DEF EndOfFile, counts
<1>6. QED
  BY <1>1, <1>2, <1>3, <1>4, <1>5

LEMMA CommandRefines ==
  ASSUME IInv, NEW p \in Procs, Command(p) \/ Kill(p)
  PROVE  (\E b \in ReportImpl!Bytes : ReportImpl!Write(b)) \/ UNCHANGED ReportImpl!vars
<1> USE DEF IInv, counts, ReportImpl!vars, Connected
<1>1. UNCHANGED <<opt, piped, parent, bytes, words, lines>>
  BY DEF Command, Kill
<1>2. CASE EndWrite(p)
  <2>1. proc[p] = "writing" /\ \E b \in Bytes : output' = Append(output, b)
    BY <1>2 DEF EndWrite, ProcGoto
  <2>2. Connected /\ parent \notin {"wait", "done"}
    <3>1. p \in Writing /\ Alive(p) /\ p \in DOMAIN proc
      BY <2>1 DEF Writing, Alive, TypeOK, Procs
    <3>2. QED
      BY <3>1 DEF Phases, WriteEndOpen
  <2>3. QED
    BY <1>1, <2>1, <2>2
    DEF ReportImpl!Write, ReportImpl!None, ReportImpl!Bytes, Bytes
<1>3. CASE ~ EndWrite(p)
  <2>1. output' = output
    BY <1>3 DEF Command, Kill, Exec, Spawn, BeginWrite, Exit
  <2>2. QED
    BY <1>1, <2>1
<1>4. QED
  BY <1>2, <1>3

(* For every output and every way of reading it, the program implements    *)
(* WordReport: what is reported are the numbers of the whole output.       *)
THEOREM Refinement == Spec => ImplementsWordReport
<1>1. IInv /\ [Next]_vars => [ReportImpl!Next]_(ReportImpl!vars)
  <2> SUFFICES ASSUME IInv, [Next]_vars
               PROVE  [ReportImpl!Next]_(ReportImpl!vars)
    OBVIOUS
  <2>1. CASE Parent
    BY <2>1, ParentRefines DEF ReportImpl!Next
  <2>2. ASSUME NEW p \in DOMAIN proc, Command(p) \/ Kill(p)
        PROVE  [ReportImpl!Next]_(ReportImpl!vars)
    <3>1. p \in Procs
      BY <2>2 DEF IInv, TypeOK, Procs
    <3>2. QED
      BY <2>2, <3>1, CommandRefines DEF ReportImpl!Next
  <2>3. CASE UNCHANGED vars
    BY <2>3 DEF vars, counts, ReportImpl!vars, Connected
  <2>4. QED
    BY <2>1, <2>2, <2>3 DEF Next
<1>2. QED
  BY <1>1, InitRefines, Invariance, PTL
  DEF Spec, ImplementsWordReport, ReportImpl!Spec

-----------------------------------------------------------------------------
(* Parent and command never wait for each other (NobodyWaitsForEver): a    *)
(* pipe that is empty has room, and one that is full has something to read *)
(* for the parent, which is past its reads only when nobody writes.        *)
THEOREM StandstillNever == Spec => []NobodyWaitsForEver
<1>1. IInv => NobodyWaitsForEver
  <2> SUFFICES ASSUME IInv PROVE NobodyWaitsForEver
    OBVIOUS
  <2>1. Len(output) \in Nat /\ got \in Nat /\ got <= Len(output) /\ CAPACITY \in Nat \ {0}
    BY LenProperties DEF IInv, TypeOK, CountsExact
  <2>2. ASSUME parent = "read"
        PROVE  ParentCanGoOn \/ \E p \in DOMAIN proc : CanGoOn(p)
    <3>1. CASE Unread = 0 /\ WriteEndOpen
      <4>1. PICK p \in DOMAIN proc : Alive(p)
        BY <2>2, <3>1 DEF WriteEndOpen, ParentHolds
      <4>2. CanGoOn(p)
        BY <3>1, <4>1 DEF CanGoOn, Alive
      <4>3. QED
        BY <4>2
    <3>2. CASE Unread > 0 \/ ~ WriteEndOpen
      BY <2>2, <3>2 DEF ParentCanGoOn
    <3>3. QED
      BY <2>1, <3>1, <3>2 DEF Unread
  <2>3. ASSUME NEW p \in DOMAIN proc, Alive(p), ~ CanGoOn(p)
        PROVE  parent \in {"close", "read", "count"} /\ ParentCanGoOn
    <3>1. proc[p] = "writing" /\ Unread > 0
      BY <2>1, <2>3 DEF Alive, CanGoOn, Unread
    <3>2. Connected
      BY <3>1 DEF Writing, IInv, Phases
    <3>3. parent \notin {"fork", "elsewhere", "wait", "done"}
      BY <2>3, <3>1, <3>2 DEF IInv, Phases, WriteEndOpen, Connected
    <3>4. QED
      BY <3>1, <3>3 DEF ParentCanGoOn, IInv, TypeOK
  <2>4. ASSUME parent = "wait"
        PROVE  ParentCanGoOn \/ CanGoOn("child")
    <3>1. "child" \in DOMAIN proc
      BY DEF IInv, TypeOK
    <3>2. QED
      BY <2>3, <2>4, <3>1 DEF ParentCanGoOn
  <2>5. QED
    BY <2>2, <2>3, <2>4 DEF NobodyWaitsForEver
<1>2. QED
  BY <1>1, Invariance, PTL

-----------------------------------------------------------------------------
(* The bytes written and those that processes are about to write stay      *)
(* within the bound of the command.                                        *)
WithinBound == Len(output) + Cardinality(Writing) <= MAX_OUTPUT

LEMMA WritingFinite ==
  ASSUME TypeOK
  PROVE  /\ IsFiniteSet(Writing) /\ Cardinality(Writing) \in Nat
         /\ Len(output) \in Nat /\ DOMAIN proc = Procs
<1>1. DOMAIN proc = Procs /\ Writing \subseteq Procs
  BY DEF TypeOK, Writing, Procs
<1>2. IsFiniteSet(Procs)
  <2>1. IsFiniteSet({"child"})
    BY FS_Singleton
  <2>2. Procs = {"child"} \cup {"heir"}
    BY DEF Procs
  <2>3. QED
    BY <2>1, <2>2, FS_AddElement
<1>3. IsFiniteSet(Writing)
  BY <1>1, <1>2, FS_Subset
<1>4. QED
  BY <1>1, <1>3, FS_CardinalityType, LenProperties DEF TypeOK

LEMMA BoundKept == IInv /\ WithinBound /\ [Next]_vars => WithinBound'
<1> SUFFICES ASSUME IInv, WithinBound, [Next]_vars PROVE WithinBound'
  OBVIOUS
<1>1. /\ IsFiniteSet(Writing) /\ Cardinality(Writing) \in Nat
      /\ Len(output) \in Nat /\ DOMAIN proc = Procs /\ TypeOK
  BY WritingFinite DEF IInv
<1>2. CASE Writing' = Writing /\ output' = output
  BY <1>2 DEF WithinBound
<1>3. ASSUME NEW p \in Procs, Command(p) \/ Kill(p) PROVE WithinBound'
  <2>1. CASE BeginWrite(p)
    <3>1. Writing' = Writing \cup {p} /\ p \notin Writing /\ output' = output
      BY <1>1, <2>1 DEF BeginWrite, ProcGoto, Writing, TypeOK, Procs
    <3>2. Cardinality(Writing') = Cardinality(Writing) + 1
      BY <1>1, <3>1, FS_AddElement
    <3>3. QED
      BY <1>1, <2>1, <3>1, <3>2 DEF WithinBound, BeginWrite
  <2>2. CASE EndWrite(p)
    <3>1. Writing' = Writing \ {p} /\ p \in Writing
      BY <1>1, <2>2 DEF EndWrite, ProcGoto, Writing, TypeOK, Procs
    <3>2. Cardinality(Writing') = Cardinality(Writing) - 1
      BY <1>1, <3>1, FS_RemoveElement
    <3>3. Len(output') = Len(output) + 1
      BY <2>2, AppendProperties DEF EndWrite, IInv, TypeOK
    <3>4. QED
      BY <1>1, <3>2, <3>3 DEF WithinBound
  <2>3. CASE Kill(p)
    <3>1. Writing' = Writing \ {p} /\ output' = output
      BY <1>1, <2>3 DEF Kill, Writing, TypeOK, Procs
    <3>2. Cardinality(Writing') <= Cardinality(Writing) /\ Cardinality(Writing') \in Nat
      BY <1>1, <3>1, FS_Subset, FS_CardinalityType
    <3>3. QED
      BY <1>1, <3>1, <3>2 DEF WithinBound
  <2>4. CASE Exit(p) \/ (p = "child" /\ Exec) \/ (p = "heir" /\ Spawn)
    <3>1. Writing' = Writing /\ output' = output
      BY <1>1, <2>4 DEF Exit, Exec, Spawn, ProcGoto, Writing, TypeOK, Procs
    <3>2. QED
      BY <1>2, <3>1
  <2>5. QED
    BY <1>3, <2>1, <2>2, <2>3, <2>4 DEF Command
<1>4. CASE Parent
  <2>1. output' = output /\ (proc' = proc \/ Fork)
    BY <1>4 DEF Parent, Close, Read, Count, EndOfFile, Wait, ReadFails, ReadElsewhere
  <2>2. CASE Fork
    <3>1. Writing' = Writing
      BY <1>1, <2>2 DEF Fork, ParentGoto, Writing, IInv, Phases, TypeOK, Procs
    <3>2. QED
      BY <1>2, <2>1, <3>1
  <2>3. CASE proc' = proc
    BY <1>2, <2>1, <2>3 DEF Writing
  <2>4. QED
    BY <2>1, <2>2, <2>3
<1>5. CASE UNCHANGED vars
  BY <1>2, <1>5 DEF vars, Writing
<1>6. QED
  BY <1>1, <1>3, <1>4, <1>5 DEF Next

(* What is left to do is never negative.                                   *)
LEMMA LeftNatural ==
  ASSUME IInv, WithinBound
  PROVE  ParentLeft \in Nat /\ CommandLeft \in Nat
<1>1. /\ Len(output) \in Nat /\ Len(output) <= MAX_OUTPUT /\ MAX_OUTPUT \in Nat
      /\ got \in Nat /\ i \in Nat /\ i <= got /\ got <= Len(output)
  BY WritingFinite DEF WithinBound, IInv, TypeOK, CountsExact
<1>2. /\ parent \in {"fork", "close", "read", "count", "elsewhere", "wait", "done"}
      /\ proc["child"] \in ProcStates /\ proc["heir"] \in ProcStates
  BY DEF IInv, TypeOK, ProcStates
<1>3. ParentLeft \in Nat
  BY <1>1, <1>2 DEF ParentLeft
<1>4. ProcLeft("child") \in Nat /\ ProcLeft("heir") \in Nat
  BY <1>2 DEF ProcLeft, ProcStates
<1>5. QED
  BY <1>1, <1>3, <1>4 DEF CommandLeft

LEMMA ParentDescends ==
  ASSUME IInv, WithinBound, Parent
  PROVE  ParentLeft' < ParentLeft /\ CommandLeft' <= CommandLeft
<1>1. /\ Len(output) \in Nat /\ Len(output) <= MAX_OUTPUT /\ MAX_OUTPUT \in Nat
      /\ got \in Nat /\ i \in Nat /\ output' = output
  BY WritingFinite DEF WithinBound, IInv, TypeOK, Parent
<1>2. ParentLeft' < ParentLeft
  <2> USE DEF ParentGoto, ParentLeft
  <2>1. CASE Read
    <3>1. PICK r \in 1 .. BUF_SIZE : got' = got + r
      BY <2>1 DEF Read
    <3>2. parent = "read" /\ parent' = "count" /\ i' = i
      BY <2>1 DEF Read
    <3>3. /\ ParentLeft = (MAX_OUTPUT - got) + 2 * (MAX_OUTPUT - i) + 2
          /\ ParentLeft' = (MAX_OUTPUT - (got + r)) + 2 * (MAX_OUTPUT - i) + 2
      BY <3>1, <3>2
    <3> HIDE DEF ParentLeft
    <3>4. QED
      BY <1>1, <3>1, <3>3
  <2>2. CASE Count
    <3>1. parent = "count" /\ parent' \in {"read", "count"} /\ i' = i + 1 /\ got' = got
      BY <2>2 DEF Count, CountByte
    <3>2. /\ ParentLeft = (MAX_OUTPUT - got) + 2 * (MAX_OUTPUT - i) + 2
          /\ ParentLeft' = (MAX_OUTPUT - got) + 2 * (MAX_OUTPUT - (i + 1)) + 2
      BY <3>1
    <3> HIDE DEF ParentLeft
    <3>3. QED
      BY <1>1, <3>2
  <2>3. CASE Fork \/ Close \/ EndOfFile \/ Wait \/ ReadFails \/ ReadElsewhere
    <3>1. /\ i' = i /\ got' = got
          /\ <<parent, parent'>> \in
               {<<"fork", "close">>, <<"fork", "wait">>, <<"close", "read">>, <<"read", "wait">>,
                <<"wait", "done">>, <<"read", "elsewhere">>}
      BY <2>3 DEF Fork, Close, EndOfFile, Wait, ReadFails, ReadElsewhere, counts
    <3>2. QED
      BY <1>1, <3>1
  <2>4. QED
    BY <2>1, <2>2, <2>3 DEF Parent
<1>3. CommandLeft' <= CommandLeft
  <2>1. CommandLeft \in Nat
    BY LeftNatural
  <2>2. CASE proc' = proc
    <3>1. CommandLeft' = CommandLeft
      BY <1>1, <2>2 DEF CommandLeft, ProcLeft
    <3>2. QED
      BY <2>1, <3>1
  <2>3. CASE Fork /\ proc' = [proc EXCEPT !["child"] = "start"]
    <3>1. /\ proc["child"] = "none" /\ proc["heir"] \in ProcStates
          /\ proc'["child"] = "start" /\ proc'["heir"] = proc["heir"]
      BY <2>3 DEF Fork, ParentGoto, IInv, Phases, TypeOK, ProcStates
    <3>2. ProcLeft("heir")' = ProcLeft("heir") /\ ProcLeft("heir") \in Nat
      BY <3>1 DEF ProcLeft, ProcStates
    <3>3. ProcLeft("child")' = 3 /\ ProcLeft("child") = 4
      BY <3>1 DEF ProcLeft
    <3>4. QED
      BY <1>1, <3>2, <3>3 DEF CommandLeft
  <2>4. QED
    BY <2>2, <2>3
       DEF Parent, Fork, Close, Read, Count, EndOfFile, Wait, ReadFails, ReadElsewhere
<1>4. QED
  BY <1>2, <1>3

LEMMA CommandDescends ==
  ASSUME IInv, WithinBound, NEW p \in Procs, Command(p) \/ Kill(p)
  PROVE  ParentLeft' = ParentLeft /\ CommandLeft' < CommandLeft
<1>1. /\ Len(output) \in Nat /\ Len(output) <= MAX_OUTPUT /\ MAX_OUTPUT \in Nat
      /\ proc \in [Procs -> ProcStates]
  BY WritingFinite DEF WithinBound, IInv, TypeOK, Procs, ProcStates
<1>2. ParentLeft' = ParentLeft
  BY DEF Command, Kill, counts, ParentLeft
<1>3. PICK q \in Procs : Procs = {p, q} /\ p # q
  BY DEF Procs
<1>4. ASSUME NEW e \in Procs PROVE ProcLeft(e) \in Nat
  BY <1>1 DEF ProcLeft, ProcStates
<1>5. CommandLeft = 2 * (MAX_OUTPUT - Len(output)) + ProcLeft(p) + ProcLeft(q)
  BY <1>1, <1>3, <1>4 DEF CommandLeft, Procs
<1>6. CASE EndWrite(p)
  <2>1. /\ Len(output') = Len(output) + 1 /\ proc[p] = "writing"
        /\ proc' = [proc EXCEPT ![p] = "running"]
    BY <1>6, AppendProperties DEF EndWrite, ProcGoto, IInv, TypeOK
  <2>2. ProcLeft(p) = 1 /\ ProcLeft(p)' = 2 /\ ProcLeft(q)' = ProcLeft(q)
    BY <1>1, <1>3, <2>1 DEF ProcLeft
  <2>3. CommandLeft' = 2 * (MAX_OUTPUT - Len(output')) + 2 + ProcLeft(q)
    BY <1>1, <1>3, <1>4, <2>1, <2>2 DEF CommandLeft, Procs
  <2>4. QED
    BY <1>1, <1>2, <1>3, <1>4, <1>5, <2>1, <2>2, <2>3
<1>7. CASE ~ EndWrite(p)
  <2>1. output' = output /\ proc'[q] = proc[q]
    BY <1>1, <1>3, <1>7
       DEF Command, Kill, Exec, Spawn, BeginWrite, Exit, ProcGoto, Procs
  <2>2. <<proc[p], proc'[p]>> \in
          {<<"none", "running">>, <<"start", "running">>, <<"start", "ended">>,
           <<"running", "writing">>, <<"running", "ended">>, <<"writing", "ended">>}
    BY <1>1, <1>7
       DEF Command, Kill, Exec, Spawn, BeginWrite, Exit, ProcGoto, Alive, Procs
  <2>3. ProcLeft(p)' < ProcLeft(p) /\ ProcLeft(p)' \in Nat /\ ProcLeft(q)' = ProcLeft(q)
    BY <2>1, <2>2 DEF ProcLeft
  <2>4. CommandLeft' = 2 * (MAX_OUTPUT - Len(output)) + ProcLeft(p)' + ProcLeft(q)
    BY <1>1, <1>3, <1>4, <2>1, <2>3 DEF CommandLeft, Procs
  <2>5. QED
    BY <1>1, <1>2, <1>3, <1>4, <1>5, <2>3, <2>4
<1>8. QED
  BY <1>6, <1>7

(* For every pipe and command: each step brings the parent or the command  *)
(* nearer to its end (StepsGetOn), and what is left to do is a number, so  *)
(* that the steps of an execution run out.                                 *)
THEOREM StepsRunOut ==
  Spec => StepsGetOn /\ [](ParentLeft \in Nat /\ CommandLeft \in Nat)
<1>1. IInv /\ WithinBound /\ [Next]_vars => [StepGetsOn]_vars
  <2> SUFFICES ASSUME IInv, WithinBound, Next PROVE StepGetsOn
    OBVIOUS
  <2>1. CASE Parent
    BY <2>1, ParentDescends DEF StepGetsOn
  <2>2. ASSUME NEW p \in DOMAIN proc, Command(p) \/ Kill(p) PROVE StepGetsOn
    <3>1. p \in Procs
      BY DEF IInv, TypeOK, Procs
    <3>2. QED
      BY <2>2, <3>1, CommandDescends DEF StepGetsOn
  <2>3. QED
    BY <2>1, <2>2 DEF Next
<1>2. Init => WithinBound
  <2> SUFFICES ASSUME Init PROVE WithinBound
    OBVIOUS
  <2>1. Writing = {} /\ Len(output) = 0
    BY EmptySeq DEF Init, Writing
  <2>2. QED
    BY <2>1, FS_EmptySet DEF WithinBound
<1>3. IInv /\ WithinBound => ParentLeft \in Nat /\ CommandLeft \in Nat
  BY LeftNatural
<1>4. QED
  BY <1>1, <1>2, <1>3, BoundKept, Invariance, PTL DEF Spec, StepsGetOn
================================================================================
