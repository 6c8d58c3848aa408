----------------------------- MODULE CopyFileProofs -----------------------------
(* Proofs about CopyFile: the invariant, what a finished copy is, and that *)
(* the steps run out, for every size of buffer and file.                   *)
EXTENDS CopyFile, TLAPS

LEMMA InitIInv == Init => IInv
<1> SUFFICES ASSUME Init PROVE IInv
  OBVIOUS
<1>1. Len(out) = 0 /\ out \in Seq(Nat)
  BY DEF Init
<1>2. fds \in 0 .. OPEN_MAX
  BY CopyAssumption DEF CopyAssumption, Init
<1>3. taken \in 0 .. size /\ chunk \in 0 .. taken /\ written \in 0 .. chunk
  BY DEF Init
<1>4. TypeOK
  BY <1>1, <1>2, <1>3 DEF Init, TypeOK
<1>5. OutExact
  BY <1>1 DEF Init, OutExact, Done
<1>6. LeaksExact /\ Paths
  BY DEF Init, LeaksExact, Held, Paths, Done
<1>7. QED
  BY <1>4, <1>5, <1>6 DEF IInv

LEMMA Numbers ==
  ASSUME TypeOK
  PROVE  /\ size \in Nat /\ taken \in Nat /\ chunk \in Nat /\ written \in Nat /\ pos \in Nat
         /\ taken <= size /\ chunk <= taken /\ written <= chunk
         /\ Len(out) \in Nat /\ fds \in Nat /\ fds <= OPEN_MAX /\ copied \in Nat
<1>1. size \in Nat /\ taken \in Nat /\ taken <= size
  BY DEF TypeOK
<1>2. chunk \in Nat /\ chunk <= taken
  BY <1>1 DEF TypeOK
<1>3. written \in Nat /\ written <= chunk
  BY <1>2 DEF TypeOK
<1>4. Len(out) \in Nat /\ pos \in Nat /\ copied \in Nat
  BY DEF TypeOK
<1>5. fds \in Nat /\ fds <= OPEN_MAX
  BY CopyAssumption DEF CopyAssumption, TypeOK
<1>6. QED
  BY <1>1, <1>2, <1>3, <1>4, <1>5

(* One round of My_write appends r bytes of the buffer.                    *)
LEMMA TakenAppends ==
  ASSUME TypeOK, NEW r \in Nat, Taken(r)
  PROVE  /\ out' \in Seq(Nat)
         /\ Len(out') = Len(out) + r
         /\ \A k \in 1 .. Len(out) : out'[k] = out[k]
         /\ \A k \in 1 .. r : out'[Len(out) + k] = Buffer(pos + k)
<1> DEFINE new == [k \in 1 .. r |-> Buffer(pos + k)]
<1>1. \A k \in 1 .. r : Buffer(pos + k) \in Nat
  BY DEF Buffer, TypeOK, Junk
<1>2. new \in Seq(Nat) /\ Len(new) = r
  BY <1>1
<1>3. \A k \in 1 .. r : new[k] = Buffer(pos + k)
  OBVIOUS
<1>4. out' = out \o new
  BY DEF Taken
<1> HIDE DEF new
<1>5. out \in Seq(Nat)
  BY DEF TypeOK
<1>6. QED
  BY <1>2, <1>3, <1>4, <1>5

(* A round of My_write that writes r of what is left of the chunk.         *)
LEMMA WriteKeeps ==
  ASSUME IInv, Write, UNCHANGED args
  PROVE  IInv'
<1> USE DEF IInv
<1>1. PICK r \in Counts : /\ IF Again(r) THEN Goto("write", "write")
                             ELSE chunk # 0 /\ Goto("write", "read")
                          /\ Taken(r)
  BY DEF Write
<1>2. r \in Nat /\ written + r <= chunk /\ (r = 0 => written = chunk)
  BY DEF Counts, TypeOK
<1>3. /\ out' \in Seq(Nat)
      /\ Len(out') = Len(out) + r
      /\ \A k \in 1 .. Len(out) : out'[k] = out[k]
      /\ \A k \in 1 .. r : out'[Len(out) + k] = Buffer(pos + k)
  BY <1>1, <1>2, TakenAppends
<1>4. /\ pc = "write" /\ pc' \in {"write", "read"}
      /\ pc' = "read" => r = chunk /\ written = 0 /\ chunk # 0
      /\ written' = written + r
      /\ pos' = IF r = 0 THEN pos ELSE pos + written + r
      /\ writable
  BY <1>1, <1>2 DEF Write, Goto, Taken, Again, TypeOK
<1>5. UNCHANGED <<target, name, fds, size, tail, writable, taken, chunk, last, copied, status, program, rewrite>>
  BY DEF Write, result, args
<1>6. TypeOK'
  BY <1>2, <1>3, <1>4, <1>5 DEF TypeOK
<1>7. OutExact'
  <2>1. /\ taken \in Nat /\ chunk \in Nat /\ written \in Nat /\ pos \in Nat /\ Len(out) \in Nat
        /\ chunk <= taken /\ Len(out) = taken - chunk + written
    BY <1>4, Numbers DEF OutExact
  <2>2. Len(out') = taken' - chunk' + written'
    BY <1>2, <1>3, <1>4, <1>5, <2>1
  <2>3. pos' >= written' /\ (written' = 0 => pos' = 0)
    BY <1>2, <1>4 DEF TypeOK, OutExact
  <2>4. /\ pc' = "read" => written' = chunk' /\ pos' = written'
        /\ pc' = "write" /\ chunk' = 0 => taken' = size'
    BY <1>2, <1>4, <1>5 DEF TypeOK, OutExact
  <2>5. ~Done'
    BY <1>4 DEF Done
  <2>6. ASSUME NEW j \in 1 .. Len(out'), j <= taken - chunk \/ pos' = written'
        PROVE  out'[j] = j
    <3>1. CASE j <= Len(out)
      <4>1. pos' = written' => pos = written
        BY <1>2, <1>4 DEF TypeOK, OutExact
      <4>2. j \in 1 .. Len(out) /\ (j <= taken - chunk \/ pos = written)
        BY <2>1, <2>6, <3>1, <4>1
      <4>3. out[j] = j
        BY <4>2 DEF OutExact
      <4>4. QED
        BY <1>3, <4>2, <4>3
    <3>2. CASE j > Len(out)
      <4>1. j \in Nat /\ j <= Len(out) + r
        BY <1>2, <1>3, <2>1
      <4>2. pos' = written' /\ r # 0
        BY <1>2, <2>1, <2>6, <3>2, <4>1
      <4>3. pos = 0 /\ written = 0
        BY <1>2, <1>4, <4>2 DEF TypeOK, OutExact
      <4>4. j - Len(out) \in 1 .. r /\ Len(out) + (j - Len(out)) = j
        BY <1>2, <2>1, <3>2, <4>1
      <4>5. out'[j] = Buffer(j - Len(out))
        BY <1>3, <4>3, <4>4
      <4>6. j - Len(out) <= chunk /\ taken - chunk + (j - Len(out)) = j
        BY <1>2, <2>1, <4>3, <4>4
      <4>7. QED
        BY <4>5, <4>6 DEF Buffer
    <3>3. QED
      BY <2>1, <3>1, <3>2
  <2>7. QED
    BY <1>4, <1>5, <2>2, <2>3, <2>4, <2>5, <2>6 DEF OutExact
<1>8. LeaksExact' /\ Paths'
  BY <1>4, <1>5 DEF LeaksExact, Held, Paths, Done, TypeOK
<1>9. QED
  BY <1>6, <1>7, <1>8

LEMMA CheckDirKeeps ==
  ASSUME IInv, CheckDir, UNCHANGED args
  PROVE  IInv'
<1> USE DEF IInv, CheckDir, Goto, args, file, loop, result
<1>1. TypeOK'
  BY CopyAssumption DEF CopyAssumption, TypeOK, LeaksExact, Held, Paths
<1>2. OutExact'
  BY DEF TypeOK, OutExact, Done, Paths
<1>3. LeaksExact'
  BY DEF TypeOK, LeaksExact, Held, Paths
<1>4. Paths'
  BY DEF TypeOK, Paths, Done
<1>5. QED
  BY <1>1, <1>2, <1>3, <1>4

LEMMA OpenSrcKeeps ==
  ASSUME IInv, OpenSrc, UNCHANGED args
  PROVE  IInv'
<1> USE DEF IInv, OpenSrc, Goto, args, file, loop, result
<1>1. /\ fds' \in 0 .. OPEN_MAX /\ size' \in Nat /\ out' \in Seq(Nat)
      /\ taken' \in 0 .. size' /\ chunk' \in 0 .. taken' /\ written' \in 0 .. chunk'
  BY Numbers, CopyAssumption DEF CopyAssumption
<1>2. TypeOK'
  BY <1>1 DEF TypeOK
<1>3. OutExact'
  BY DEF TypeOK, OutExact, Done, Paths
<1>4. LeaksExact'
  BY DEF TypeOK, LeaksExact, Held, Paths
<1>5. Paths'
  BY DEF TypeOK, Paths, Done
<1>6. QED
  BY <1>2, <1>3, <1>4, <1>5

LEMMA OpenSrcFailsKeeps ==
  ASSUME IInv, OpenSrcFails, UNCHANGED args
  PROVE  IInv'
<1> USE DEF IInv, OpenSrcFails, Return, MoreNames, args, file, loop, result
<1>1. TypeOK'
  BY CopyAssumption DEF CopyAssumption, TypeOK, LeaksExact, Held, Paths
<1>2. OutExact'
  BY DEF TypeOK, OutExact, Done, Paths
<1>3. LeaksExact'
  BY DEF TypeOK, LeaksExact, Held, Paths
<1>4. Paths'
  BY DEF TypeOK, Paths, Done
<1>5. QED
  BY <1>1, <1>2, <1>3, <1>4

LEMMA AskKeeps ==
  ASSUME IInv, Ask, UNCHANGED args
  PROVE  IInv'
<1> USE DEF IInv, Ask, Goto, args, file, loop, result
<1>1. TypeOK'
  BY DEF TypeOK
<1>2. OutExact'
  BY DEF TypeOK, OutExact, Done
<1>3. LeaksExact'
  BY DEF TypeOK, LeaksExact, Held, Paths
<1>4. Paths'
  BY DEF TypeOK, Paths, Done
<1>5. QED
  BY <1>1, <1>2, <1>3, <1>4

LEMMA OpenDstKeeps ==
  ASSUME IInv, OpenDst, UNCHANGED args
  PROVE  IInv'
<1> USE DEF IInv, OpenDst, Goto, args, file, loop, result
<1>1. (fds < OPEN_MAX /\ fds' = fds + 1) \/ fds' = fds
  OBVIOUS
<1>2. fds' \in 0 .. OPEN_MAX
  BY <1>1, Numbers, CopyAssumption DEF CopyAssumption
<1>3. tail' = 0 \/ tail' \in 0 .. MAX_SIZE
  OBVIOUS
<1>4. tail' \in Nat
  BY <1>3, CopyAssumption DEF CopyAssumption
<1>5. writable' \in BOOLEAN
  OBVIOUS
<1>6. TypeOK'
  BY <1>2, <1>4, <1>5 DEF TypeOK
<1>7. OutExact'
  BY DEF TypeOK, OutExact, Done, Paths
<1>8. LeaksExact'
  BY DEF TypeOK, LeaksExact, Held, Paths
<1>9. Paths'
  BY DEF TypeOK, Paths, Done
<1>10. QED
  BY <1>6, <1>7, <1>8, <1>9

LEMMA SimpleOpenDstKeeps ==
  ASSUME IInv, SimpleOpenDst, UNCHANGED args
  PROVE  IInv'
<1> USE DEF IInv, SimpleOpenDst, Goto, args, file, loop, result
<1>1. (fds < OPEN_MAX /\ fds' = fds + 1) \/ fds' = fds
  OBVIOUS
<1>2. fds' \in 0 .. OPEN_MAX
  BY <1>1, Numbers, CopyAssumption DEF CopyAssumption
<1>3. tail' = 0 \/ tail' \in 0 .. MAX_SIZE
  OBVIOUS
<1>4. tail' \in Nat
  BY <1>3, CopyAssumption DEF CopyAssumption
<1>5. writable' \in BOOLEAN
  OBVIOUS
<1>6. TypeOK'
  BY <1>2, <1>4, <1>5 DEF TypeOK
<1>7. OutExact'
  BY DEF TypeOK, OutExact, Done, Paths
<1>8. LeaksExact'
  BY DEF TypeOK, LeaksExact, Held, Paths
<1>9. Paths'
  BY DEF TypeOK, Paths, Done
<1>10. QED
  BY <1>6, <1>7, <1>8, <1>9

LEMMA OpenDstFailsKeeps ==
  ASSUME IInv, OpenDstFails, UNCHANGED args
  PROVE  IInv'
<1> USE DEF IInv, OpenDstFails, Return, MoreNames, args, file, loop, result
<1>1. TypeOK'
  BY CopyAssumption DEF CopyAssumption, TypeOK, LeaksExact, Held, Paths
<1>2. OutExact'
  BY DEF TypeOK, OutExact, Done, Paths
<1>3. LeaksExact'
  BY DEF TypeOK, LeaksExact, Held, Paths
<1>4. Paths'
  BY DEF TypeOK, Paths, Done
<1>5. QED
  BY <1>1, <1>2, <1>3, <1>4

LEMMA ReadKeeps ==
  ASSUME IInv, Read, UNCHANGED args
  PROVE  IInv'
<1> USE DEF IInv, Read, Goto, args, file, loop, result
<1>1. PICK r \in 0 .. BUFFER_SIZE :
        r <= size - taken /\ (r = 0 => taken = size) /\ taken' = taken + r /\ chunk' = r
  OBVIOUS
<1>2. /\ r \in Nat /\ pos' = 0
      /\ taken' \in 0 .. size' /\ chunk' \in 0 .. taken' /\ written' \in 0 .. chunk'
  BY <1>1, Numbers, CopyAssumption DEF CopyAssumption
<1>3. TypeOK'
  BY <1>2 DEF TypeOK
<1>4. OutExact'
  <2>1. Len(out) = taken /\ taken \in Nat /\ \A k \in 1 .. Len(out) : out[k] = k
    BY Numbers DEF OutExact
  <2>2. Len(out') = taken' - chunk' + written' /\ pos' = written'
    BY <1>1, <1>2, <2>1
  <2>3. QED
    BY <1>1, <1>2, <2>1, <2>2 DEF OutExact, Done
<1>5. LeaksExact'
  BY DEF TypeOK, LeaksExact, Held, Paths
<1>6. Paths'
  BY DEF TypeOK, Paths, Done
<1>7. QED
  BY <1>3, <1>4, <1>5, <1>6

LEMMA WriteEndKeeps ==
  ASSUME IInv, WriteEnd, UNCHANGED args
  PROVE  IInv'
<1> USE DEF IInv, WriteEnd, Return, MoreNames, args, file, loop, result
<1>1. TypeOK'
  BY CopyAssumption DEF CopyAssumption, TypeOK, LeaksExact, Held, Paths
<1>2. OutExact'
  BY DEF TypeOK, OutExact, Done, Paths
<1>3. LeaksExact'
  BY DEF TypeOK, LeaksExact, Held, Paths
<1>4. Paths'
  BY DEF TypeOK, Paths, Done
<1>5. QED
  BY <1>1, <1>2, <1>3, <1>4

LEMMA BreakKeeps ==
  ASSUME IInv, Break, UNCHANGED args
  PROVE  IInv'
<1> USE DEF IInv, Break, Return, MoreNames, args, file, loop, result
<1>1. TypeOK'
  BY CopyAssumption DEF CopyAssumption, TypeOK, LeaksExact, Held, Paths
<1>2. OutExact'
  BY DEF TypeOK, OutExact, Done, Paths
<1>3. LeaksExact'
  BY DEF TypeOK, LeaksExact, Held, Paths
<1>4. Paths'
  BY DEF TypeOK, Paths, Done
<1>5. QED
  BY <1>1, <1>2, <1>3, <1>4

LEMMA CloseKeeps ==
  ASSUME IInv, Close, UNCHANGED args
  PROVE  IInv'
<1> USE DEF IInv, Close, Return, MoreNames, args, file, loop, result
<1>1. TypeOK'
  BY CopyAssumption DEF CopyAssumption, TypeOK, LeaksExact, Held, Paths
<1>2. OutExact'
  BY DEF TypeOK, OutExact, Done, Paths
<1>3. LeaksExact'
  BY DEF TypeOK, LeaksExact, Held, Paths
<1>4. Paths'
  BY DEF TypeOK, Paths, Done
<1>5. QED
  BY <1>1, <1>2, <1>3, <1>4

LEMMA NextIInv == IInv /\ [Next]_vars => IInv'
<1> SUFFICES ASSUME IInv, [Next]_vars PROVE IInv'
  OBVIOUS
<1>1. CASE UNCHANGED vars
  BY <1>1 DEF vars, args, file, loop, result, IInv, TypeOK, OutExact, Done,
              LeaksExact, Held, Paths
<1>2. CASE Next
  BY <1>2, CheckDirKeeps, OpenSrcKeeps, OpenSrcFailsKeeps, AskKeeps, OpenDstKeeps,
     SimpleOpenDstKeeps, OpenDstFailsKeeps,
     ReadKeeps, WriteKeeps, WriteEndKeeps, BreakKeeps, CloseKeeps DEF Next
<1>3. QED
  BY <1>1, <1>2

(* What is written is what was read, and every copy costs two descriptors, *)
(* whatever fails (IInv), for every size of the buffer and of the files.   *)
THEOREM Invariance == Spec => []IInv
<1>1. QED
  BY InitIInv, NextIInv, PTL DEF Spec

(* A copy from beginning to end is exact, for every size of the buffer and *)
(* the files (My_read and My_write), but for an older tail behind it.      *)
THEOREM CopiesAreExact == Spec => []CopiedIsExact
<1>1. IInv => CopiedIsExact
  <2> SUFFICES ASSUME IInv, Done PROVE CopiedIsExact
    BY DEF CopiedIsExact
  <2>1. /\ Len(out) = size /\ size \in Nat /\ tail \in Nat /\ out \in Seq(Nat)
        /\ \A k \in 1 .. size : out[k] = k
    BY DEF IInv, OutExact, TypeOK
  <2> DEFINE N == IF tail > Len(out) THEN tail ELSE Len(out)
  <2>2. N \in Nat /\ N >= size /\ (tail <= size => N = size)
    BY <2>1
  <2>3. \A k \in 1 .. size : Destination[k] = k
    BY <2>1, <2>2 DEF Destination
  <2>4. SubSeq(Destination, 1, size) = Source
    <3>1. SubSeq(Destination, 1, size) = [k \in 1 .. size |-> Destination[k]]
      BY <2>1
    <3>2. QED
      BY <2>3, <3>1 DEF Source
  <2>5. tail <= size => Destination = Source
    BY <2>1, <2>2 DEF Destination, Source
  <2>6. QED
    BY <2>4, <2>5 DEF CopiedIsExact
<1>2. QED
  BY <1>1, Invariance, PTL

(* However many files are named, no more are copied than half the          *)
(* descriptors a process may have: Copy_file closes nothing after a copy   *)
(* from beginning to end.                                                  *)
THEOREM CopiesLimited == Spec => [](2 * copied <= OPEN_MAX)
<1>1. IInv => 2 * copied <= OPEN_MAX
  BY CopyAssumption DEF CopyAssumption, IInv, TypeOK, LeaksExact, Held
<1>2. QED
  BY <1>1, Invariance, PTL

-----------------------------------------------------------------------------
(* The name being copied is one of those named.                            *)
NameInRange == name \in 1 .. NAMES + 1 /\ (pc # "exit" => name <= NAMES)

LEMMA NameKept == IInv /\ NameInRange /\ [Next]_vars => NameInRange'
<1> SUFFICES ASSUME IInv, NameInRange, [Next]_vars PROVE NameInRange'
  OBVIOUS
<1>1. NAMES \in Nat \ {0} /\ name \in Nat /\ name <= NAMES + 1
  BY CopyAssumption DEF CopyAssumption, NameInRange
<1>2. ASSUME name' = name, pc # "exit" \/ pc' = pc PROVE NameInRange'
  BY <1>1, <1>2 DEF NameInRange
<1>3. ASSUME NEW what, NEW zero, pc # "exit", Return(what, zero) PROVE NameInRange'
  BY <1>1, <1>3 DEF NameInRange, Return, MoreNames
<1>4. CASE \/ CheckDir \/ OpenSrc \/ Ask \/ OpenDst \/ SimpleOpenDst \/ Read \/ Write
  BY <1>2, <1>4 DEF CheckDir, OpenSrc, Ask, OpenDst, SimpleOpenDst, Read, Write, Goto
<1>5. CASE OpenSrcFails \/ OpenDstFails \/ WriteEnd
  BY <1>3, <1>5 DEF OpenSrcFails, OpenDstFails, WriteEnd
<1>6. CASE Break \/ Close
  BY <1>2, <1>3, <1>6 DEF Break, Close
<1>7. CASE UNCHANGED vars
  BY <1>2, <1>7 DEF vars
<1>8. QED
  BY <1>4, <1>5, <1>6, <1>7 DEF Next

LEMMA FileLeftOf ==
  ASSUME IInv
  PROVE  /\ MAX_SIZE \in Nat /\ size - taken \in Nat /\ chunk - written \in Nat
         /\ pc = "check" => FileLeft = 3 * MAX_SIZE + 7
         /\ pc = "open_src" => FileLeft = 3 * MAX_SIZE + 6
         /\ pc = "open_dst" => FileLeft = 3 * (size - taken) + 2 * (chunk - written) + 5
         /\ pc = "ask" => FileLeft = 3 * (size - taken) + 2 * (chunk - written) + 4
         /\ pc = "read" => FileLeft = 3 * (size - taken) + 2 * (chunk - written) + 3
         /\ pc = "write" => FileLeft = 3 * (size - taken) + 2 * (chunk - written) + 2
         /\ pc = "close" => FileLeft = 1
         /\ pc = "exit" => FileLeft = 0
         /\ FileLeft \in Nat
<1>1. MAX_SIZE \in Nat /\ size - taken \in Nat /\ chunk - written \in Nat
  BY Numbers, CopyAssumption DEF CopyAssumption, IInv, TypeOK
<1>2. pc \in {"check", "open_src", "open_dst", "ask", "read", "write", "close", "exit"}
  BY DEF IInv, TypeOK
<1>3. QED
  BY <1>1, <1>2 DEF FileLeft

(* The calls that do not return from Copy_file leave less to do.           *)
LEMMA CallsDescend ==
  ASSUME IInv, IInv',
         CheckDir \/ OpenSrc \/ Ask \/ OpenDst \/ SimpleOpenDst \/ Read
  PROVE  name' = name /\ FileLeft' < FileLeft
<1>1. /\ MAX_SIZE \in Nat /\ size \in Nat /\ taken \in Nat /\ taken <= size
      /\ chunk \in Nat /\ written \in Nat /\ written <= chunk
  BY Numbers, CopyAssumption DEF CopyAssumption, IInv, TypeOK
<1>2. name' = name
  BY DEF CheckDir, OpenSrc, Ask, OpenDst, SimpleOpenDst, Read
<1>3. CASE CheckDir
  <2>1. FileLeft' = 3 * MAX_SIZE + 6 \/ FileLeft' = 0
    BY <1>1, <1>3 DEF CheckDir, Goto, FileLeft
  <2>2. FileLeft = 3 * MAX_SIZE + 7
    BY <1>3, FileLeftOf DEF CheckDir, Goto
  <2>3. QED
    BY <1>1, <1>2, <2>1, <2>2
<1>4. CASE OpenSrc
  <2>1. PICK s \in 0 .. MAX_SIZE : size' = s
    BY <1>4 DEF OpenSrc
  <2>2. s \in Nat /\ s <= MAX_SIZE
    BY <1>1
  <2>3. FileLeft' = 3 * s + 5
    BY <1>4, <2>1, <2>2 DEF OpenSrc, Goto, FileLeft
  <2>4. FileLeft = 3 * MAX_SIZE + 6
    BY <1>4, FileLeftOf DEF OpenSrc, Goto
  <2>5. QED
    BY <1>1, <1>2, <2>2, <2>3, <2>4
<1>5. CASE OpenDst \/ SimpleOpenDst
  <2>1. FileLeft' = 3 * (size - taken) + 2 * (chunk - written) + 3
    <3>1. pc' = "read" /\ UNCHANGED <<size, taken, chunk, written>>
      BY <1>5 DEF OpenDst, SimpleOpenDst, Goto, loop
    <3>2. QED
      BY <1>1, <3>1 DEF FileLeft
  <2>2. \/ FileLeft = 3 * (size - taken) + 2 * (chunk - written) + 5
        \/ FileLeft = 3 * (size - taken) + 2 * (chunk - written) + 4
    BY <1>5, FileLeftOf DEF OpenDst, SimpleOpenDst, Goto
  <2>3. QED
    BY <1>1, <1>2, <2>1, <2>2
<1>6. CASE Read
  <2>1. PICK r \in 0 .. BUFFER_SIZE : /\ r <= size - taken
                                      /\ taken' = taken + r /\ chunk' = r
    BY <1>6 DEF Read
  <2>2. r \in Nat
    OBVIOUS
  <2>3. pc = "read" /\ pc' = "write" /\ size' = size /\ written' = 0
    BY <1>6 DEF Read, Goto
  <2>4. FileLeft' = 3 * (size - (taken + r)) + 2 * r + 2
    BY <1>1, <2>1, <2>2, <2>3 DEF FileLeft
  <2>5. FileLeft = 3 * (size - taken) + 2 * (chunk - written) + 3
    BY <2>3, FileLeftOf
  <2>6. QED
    BY <1>1, <1>2, <2>1, <2>2, <2>4, <2>5
<1>7. CASE Ask
  <2>1. pc = "open_dst" /\ pc' = "ask" /\ UNCHANGED <<size, taken, chunk, written>>
    BY <1>7 DEF Ask, Goto, file, loop
  <2>2. FileLeft' = 3 * (size - taken) + 2 * (chunk - written) + 4
    BY <1>1, <2>1 DEF FileLeft
  <2>3. QED
    BY <1>1, <1>2, <2>1, <2>2, FileLeftOf
<1>8. QED
  BY <1>3, <1>4, <1>5, <1>6, <1>7

LEMMA WriteDescends ==
  ASSUME IInv, Write, ~ UNCHANGED <<pc, loop>>
  PROVE  name' = name /\ FileLeft' < FileLeft
<1>1. /\ size \in Nat /\ taken \in Nat /\ taken <= size /\ out \in Seq(Nat)
      /\ chunk \in Nat /\ written \in Nat /\ written <= chunk /\ pos \in Nat
  BY Numbers DEF IInv, TypeOK
<1>2. PICK r \in Counts : /\ IF Again(r) THEN Goto("write", "write")
                             ELSE chunk # 0 /\ Goto("write", "read")
                          /\ Taken(r)
  BY DEF Write
<1>3. r \in Nat /\ pc = "write" /\ pc' \in {"read", "write"}
  BY <1>1, <1>2 DEF Counts, Goto
<1>4. r # 0
  <2> SUFFICES ASSUME r = 0 PROVE UNCHANGED <<pc, loop>>
    OBVIOUS
  <2>1. pc' = pc
    <3>1. written = chunk
      BY <1>1 DEF Counts
    <3>2. CASE chunk = 0
      BY <1>1, <1>2, <3>2 DEF Again
    <3>3. CASE chunk # 0
      BY <1>1, <1>2, <3>3 DEF Again, Goto
    <3>4. QED
      BY <3>2, <3>3
  <2>2. out' = out
    <3>1. out' = out \o [k \in 1 .. 0 |-> Buffer(pos + k)]
      BY <1>2 DEF Taken
    <3>2. [k \in 1 .. 0 |-> Buffer(pos + k)] = <<>>
      OBVIOUS
    <3>3. QED
      BY <1>1, <3>1, <3>2
  <2>3. QED
    BY <1>1, <1>2, <2>1, <2>2 DEF Taken, Write, loop
<1>5. /\ written' = written + r /\ UNCHANGED <<name, size, taken, chunk>>
  BY <1>2 DEF Write, Taken
<1>6. FileLeft = 3 * (size - taken) + 2 * (chunk - written) + 2
  BY <1>3, FileLeftOf
<1>7. \/ FileLeft' = 3 * (size - taken) + 2 * (chunk - (written + r)) + 3
      \/ FileLeft' = 3 * (size - taken) + 2 * (chunk - (written + r)) + 2
  <2>1. CASE pc' = "read"
    BY <1>1, <1>3, <1>5, <2>1 DEF FileLeft
  <2>2. CASE pc' = "write"
    BY <1>1, <1>3, <1>5, <2>2 DEF FileLeft
  <2>3. QED
    BY <1>3, <2>1, <2>2
<1>8. QED
  BY <1>1, <1>3, <1>4, <1>5, <1>6, <1>7

(* For every number of names, buffer and file: every step goes on to the   *)
(* next name or leaves less to do for this one (StepsGetOn), and both are  *)
(* bounded, so that the steps of an execution run out.                     *)
THEOREM StepsRunOut ==
  Spec => StepsGetOn /\ [](name \in 1 .. NAMES + 1 /\ FileLeft \in Nat)
<1>1. IInv /\ IInv' /\ [Next]_vars => [StepGetsOn]_vars
  <2> SUFFICES ASSUME IInv, IInv', Next, ~ UNCHANGED vars PROVE StepGetsOn
    OBVIOUS
  <2>1. CASE CheckDir \/ OpenSrc \/ Ask \/ OpenDst \/ SimpleOpenDst \/ Read
    BY <2>1, CallsDescend DEF StepGetsOn
  <2>2. CASE Write
    <3>1. ~ UNCHANGED <<pc, loop>>
      BY <2>2 DEF Write, Next, vars, file, loop
    <3>2. QED
      BY <2>2, <3>1, WriteDescends DEF StepGetsOn
  <2>3. CASE OpenSrcFails \/ OpenDstFails \/ WriteEnd
    BY <2>3 DEF OpenSrcFails, OpenDstFails, WriteEnd, Return, StepGetsOn
  <2>4. CASE Close
    BY <2>4 DEF Close, Return, StepGetsOn
  <2>5. CASE Break
    <3>1. CASE pc' = "close" /\ name' = name
      <4>1. FileLeft' = 1
        BY <3>1 DEF FileLeft
      <4>2. FileLeft > 1
        BY <2>5, FileLeftOf DEF Break
      <4>3. QED
        BY <3>1, <4>1, <4>2 DEF StepGetsOn
    <3>2. CASE Return("broken", FALSE)
      BY <3>2 DEF Return, StepGetsOn
    <3>3. QED
      BY <2>5, <3>1, <3>2 DEF Break
  <2>6. QED
    BY <2>1, <2>2, <2>3, <2>4, <2>5 DEF Next
<1>2. Init => NameInRange
  BY CopyAssumption DEF CopyAssumption, Init, NameInRange
<1>3. IInv /\ NameInRange => name \in 1 .. NAMES + 1 /\ FileLeft \in Nat
  BY FileLeftOf DEF NameInRange
<1>4. QED
  BY <1>1, <1>2, <1>3, NameKept, Invariance, PTL DEF Spec, StepsGetOn
==================================================================================
