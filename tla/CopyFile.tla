-------------------------------- MODULE CopyFile --------------------------------
(***************************************************************************)
(* my_cp.c, and stupid_my_cp.c, which has the same My_read and My_write    *)
(* under a simpler main.                                                   *)
(*                                                                         *)
(* A file is the sequence of its bytes, and a byte of the source is its    *)
(* position there.  Any call may fail; read may return less than there is, *)
(* and write may take less than it is given (a full disk, a terminal, a    *)
(* pipe).  Bytes of the buffer that read has not filled are Junk.          *)
(***************************************************************************)
EXTENDS Naturals, Sequences

CONSTANTS
  NAMES,                \* files named before the last argument
  BUFFER_SIZE,
  OPEN_MAX,             \* descriptors a process may open
  MAX_SIZE              \* bound on the size of a file

ASSUME CopyAssumption ==
  /\ NAMES \in Nat \ {0}
  /\ BUFFER_SIZE \in Nat \ {0}
  /\ OPEN_MAX \in Nat
  /\ MAX_SIZE \in Nat

VARIABLES
  program,      \* which of the two programs
  rewrite,      \* the key that lets a file be rewritten: none, -f, or -i, which asks
  target,       \* what Check_dir has found the last argument to be
  pc,           \* the next call
  name,         \* the file being copied
  fds,          \* descriptors open
  size,         \* of the source
  tail,         \* size of the destination when it was opened
  writable,     \* whether fd_dst is a descriptor that can be written to
  taken,        \* bytes read from the source
  chunk,        \* res_of_read
  written,      \* written_size
  pos,          \* how far My_write has moved its buffer
  out,          \* the bytes written to the destination
  last,         \* what became of the last file
  copied,       \* number of files copied from beginning to end
  status        \* what main returns

args == <<program, rewrite>>
loop == <<chunk, written, pos, out>>
file == <<size, tail, writable, taken, loop>>
result == <<last, copied>>
vars == <<args, target, pc, name, fds, file, result, status>>

Junk == 0

Init ==
  /\ program \in {"my_cp", "stupid_my_cp"}
  /\ rewrite \in {"none", "f", "i"}
  /\ target = "file"
  /\ pc = IF program = "my_cp" THEN "check" ELSE "open_src"
  /\ name = 1
  /\ fds = 0
  /\ size = 0 /\ tail = 0 /\ writable = FALSE
  /\ taken = 0 /\ chunk = 0 /\ written = 0 /\ pos = 0
  /\ out = <<>>
  /\ last = "none" /\ copied = 0
  /\ status = 0

-----------------------------------------------------------------------------
Goto(from, to) ==
  /\ pc = from
  /\ pc' = to

(* Check_dir: an existing file, a directory, or an error, which a file     *)
(* that does not exist yet is too.                                         *)
CheckDir ==
  /\ \/ Goto("check", "open_src") /\ target' \in {"file", "directory"} /\ UNCHANGED status
     \/ Goto("check", "exit") /\ target' = "missing" /\ status' = 1
  /\ UNCHANGED <<name, fds, file, result>>

(* Buffer_processing goes on with the next name, whatever Copy_file has    *)
(* returned.                                                               *)
MoreNames == target = "directory" /\ name < NAMES

(* Mutant of Return: the loop over the names stays where it is.            *)
ReturnToSame(what, zero) ==
  /\ last' = what
  /\ copied' = IF what = "copied" THEN copied + 1 ELSE copied
  /\ name' = name
  /\ pc' = IF MoreNames THEN "open_src" ELSE "exit"
  /\ status' = IF \/ target = "directory"
                  \/ program = "stupid_my_cp" /\ pc # "open_src"
                  \/ zero
               THEN 0 ELSE 1

(* Copy_file returns, zero or not.  main takes a directory's files to be   *)
(* copied in any case, and stupid_my_cp those whose source it has opened.  *)
Return(what, zero) ==
  /\ last' = what
  /\ copied' = IF what = "copied" THEN copied + 1 ELSE copied
  /\ name' = name + 1
  /\ pc' = IF MoreNames THEN "open_src" ELSE "exit"
  /\ status' = IF \/ target = "directory"
                  \/ program = "stupid_my_cp" /\ pc # "open_src"
                  \/ zero
               THEN 0 ELSE 1

OpenSrc ==
  /\ fds < OPEN_MAX
  /\ Goto("open_src", "open_dst")
  /\ fds' = fds + 1
  /\ size' \in 0 .. MAX_SIZE
  /\ tail' = 0 /\ writable' = FALSE /\ taken' = 0
  /\ chunk' = 0 /\ written' = 0 /\ pos' = 0 /\ out' = <<>>
  /\ UNCHANGED <<target, name, result, status>>

OpenSrcFails ==
  /\ pc = "open_src"
  /\ Return("refused", FALSE)
  /\ UNCHANGED <<target, fds, file>>

(* The destination is there, and with -i the user is asked.                *)
Ask ==
  /\ program = "my_cp"
  /\ rewrite = "i"
  /\ Goto("open_dst", "ask")
  /\ UNCHANGED <<target, name, fds, file, result, status>>

(* The destination is new; or it is there, and -f or the answer lets it be *)
(* rewritten: nothing truncates it.                                        *)
OpenDst ==
  /\ program = "my_cp"
  /\ fds < OPEN_MAX
  /\ \/ Goto("open_dst", "read") /\ tail' \in IF rewrite = "f" THEN 0 .. MAX_SIZE ELSE {0}
     \/ Goto("ask", "read") /\ tail' \in 0 .. MAX_SIZE
  /\ fds' = fds + 1
  /\ writable' = TRUE
  /\ UNCHANGED <<target, name, size, taken, loop, result, status>>

(* stupid_my_cp writes into a file that is there.  Its second open, for    *)
(* one that is not, gives a descriptor for reading, if any; it goes on     *)
(* with what it has.                                                       *)
SimpleOpenDst ==
  /\ program = "stupid_my_cp"
  /\ Goto("open_dst", "read")
  /\ \/ fds < OPEN_MAX /\ fds' = fds + 1 /\ writable' = TRUE /\ tail' \in 0 .. MAX_SIZE
     \/ fds < OPEN_MAX /\ fds' = fds + 1 /\ writable' = FALSE /\ tail' = 0
     \/ fds' = fds /\ writable' = FALSE /\ tail' = 0
  /\ UNCHANGED <<target, name, size, taken, loop, result, status>>

(* Dst_process refuses it: it exists and there is no key, the user does    *)
(* not answer with y, or an open fails.  The source stays open.            *)
OpenDstFails ==
  /\ pc \in {"open_dst", "ask"}
  /\ program = "my_cp"
  /\ Return("refused", FALSE)
  /\ UNCHANGED <<target, fds, file>>

(* read of My_read, at the end of the file too.                            *)
Read ==
  /\ Goto("read", "write")
  /\ \E r \in 0 .. BUFFER_SIZE :
       /\ r <= size - taken
       /\ r = 0 => taken = size
       /\ taken' = taken + r
       /\ chunk' = r
  /\ written' = 0 /\ pos' = 0
  /\ UNCHANGED <<target, name, fds, size, tail, writable, out, result, status>>

(* A byte of the buffer.                                                   *)
Buffer(k) == IF k <= chunk THEN taken - chunk + k ELSE Junk

(* One round of My_write whose write takes r of the bytes that are left.   *)
(* The buffer is moved by all that is written so far, and the loop goes on *)
(* while this write alone has taken less than the whole chunk.  (Where the *)
(* buffer points does not matter any more when nothing is left.)           *)
Taken(r) ==
  /\ out' = out \o [k \in 1 .. r |-> Buffer(pos + k)]
  /\ written' = written + r
  /\ pos' = IF r = 0 THEN pos ELSE pos + written + r

(* Mutant of Again: there is no loop.                                      *)
AgainNever(r) == FALSE

Again(r) == r < chunk

Counts == IF written = chunk THEN {0} ELSE 1 .. (chunk - written)

Write ==
  /\ writable
  /\ \E r \in Counts :
       /\ IF Again(r) THEN Goto("write", "write")
          ELSE chunk # 0 /\ Goto("write", "read")
       /\ Taken(r)
  /\ UNCHANGED <<target, name, fds, size, tail, writable, taken, chunk, result, status>>

(* The write of nothing after the last read: My_read returns true, which   *)
(* Copy_file takes for a failure, and does not close the files.            *)
WriteEnd ==
  /\ pc = "write"
  /\ writable
  /\ chunk = 0
  /\ Return("copied", FALSE)
  /\ UNCHANGED <<target, fds, file>>

(* read or write fails: My_read returns false, which Copy_file takes for   *)
(* success.                                                                *)
Break ==
  /\ pc \in {"read", "write"}
  /\ IF program = "my_cp"
     THEN pc' = "close" /\ UNCHANGED <<name, result, status>>
     ELSE Return("broken", FALSE)
  /\ UNCHANGED <<target, fds, file>>

(* Each close may fail, and closes all the same; after the first failure   *)
(* the source is left open.                                                *)
Close ==
  /\ pc = "close"
  /\ \/ fds' = fds - 2 /\ \E zero \in BOOLEAN : Return("broken", zero)
     \/ fds' = fds - 1 /\ Return("broken", FALSE)
  /\ UNCHANGED <<target, file>>

Next ==
  /\ \/ CheckDir
     \/ OpenSrc \/ OpenSrcFails
     \/ Ask \/ OpenDst \/ SimpleOpenDst \/ OpenDstFails
     \/ Read \/ Write \/ WriteEnd \/ Break \/ Close
  /\ UNCHANGED args

Spec == Init /\ [][Next]_vars

(* Nothing is left of a chunk that a write has cut, and My_write goes on   *)
(* writing nothing.                                                        *)
Spins == pc = "write" /\ written > 0 /\ written = chunk

(* The program runs; but nobody makes a write of nothing fail, and the     *)
(* user need not answer, nor My_write be done with the text of the question. *)
FairSpec == Spec /\ WF_vars(~ Spins /\ pc # "ask" /\ Next)

-----------------------------------------------------------------------------
Source == [k \in 1 .. size |-> k]

(* What the destination has now: what was there before shows behind what   *)
(* has been written.                                                       *)
Destination ==
  [k \in 1 .. IF tail > Len(out) THEN tail ELSE Len(out) |->
     IF k <= Len(out) THEN out[k] ELSE Junk]

TypeOK ==
  /\ program \in {"my_cp", "stupid_my_cp"}
  /\ rewrite \in {"none", "f", "i"} /\ writable \in BOOLEAN
  /\ target \in {"file", "directory", "missing"}
  /\ pc \in {"check", "open_src", "open_dst", "ask", "read", "write", "close", "exit"}
  /\ name \in Nat /\ fds \in 0 .. OPEN_MAX
  /\ size \in Nat /\ tail \in Nat
  /\ taken \in 0 .. size
  /\ chunk \in 0 .. taken /\ written \in 0 .. chunk /\ pos \in Nat
  /\ out \in Seq(Nat)
  /\ last \in {"none", "refused", "copied", "broken"}
  /\ copied \in Nat
  /\ status \in {0, 1}

(* Where Copy_file comes back after a copy from beginning to end.          *)
Done == last = "copied" /\ pc \in {"open_src", "exit"}

(* Before a read all that was taken is written.  What is written is the    *)
(* beginning of the source up to the chunk that My_write is at, whatever   *)
(* becomes of it, and in this chunk as long as at most one write was cut.  *)
OutExact ==
  /\ pos >= written
  /\ written = 0 => pos = 0
  /\ pc \in {"open_dst", "ask", "read", "write"} => Len(out) = taken - chunk + written
  /\ pc \in {"open_dst", "ask", "read"} => written = chunk /\ pos = written
  /\ pc = "write" /\ chunk = 0 => taken = size
  /\ \A k \in 1 .. Len(out) : k <= taken - chunk \/ pos = written => out[k] = k
  /\ Done => Len(out) = size /\ pos = written

(* Every copy leaves two descriptors open.                                 *)
Held ==
  IF pc \in {"open_dst", "ask"} THEN 1
  ELSE IF pc \in {"read", "write", "close"} /\ writable THEN 2 ELSE 0

LeaksExact == fds >= 2 * copied + Held

(* The programs' ways through their functions.                             *)
Paths ==
  /\ program = "stupid_my_cp" => target = "file" /\ pc \notin {"check", "close"}
  /\ program = "my_cp" /\ pc \in {"read", "write", "close"} => writable
  /\ pc = "check" => last = "none"

IInv == TypeOK /\ OutExact /\ LeaksExact /\ Paths

(* A file that was read and written to the end is the source, byte for     *)
(* byte.  That the destination is nothing but the source is true only if   *)
(* it was no longer before: an open that rewrites does not truncate it     *)
(* (my_cp.c 233).                                                          *)
CopiedIsExact ==
  Done =>
    /\ tail <= size => Destination = Source
    /\ SubSeq(Destination, 1, size) = Source

(* What is left of a file: its calls, a read and a write for every byte at *)
(* most, and a read at its end.                                            *)
FileLeft ==
  3 * (IF pc \in {"check", "open_src"} THEN MAX_SIZE ELSE 0) +
  (IF pc \in {"open_dst", "ask", "read", "write"}
   THEN 3 * (size - taken) + 2 * (chunk - written) ELSE 0) +
  [check |-> 7, open_src |-> 6, open_dst |-> 5, ask |-> 4, read |-> 3,
   write |-> 2, close |-> 1, exit |-> 0][pc]

(* The loops over the names, the chunks and the writes of a chunk get on:  *)
(* every step but the writing of nothing, which changes nothing, goes on   *)
(* to the next name or leaves less to do for this one.                     *)
StepGetsOn ==
  \/ name' = name + 1
  \/ name' = name /\ FileLeft' < FileLeft

StepsGetOn == [][StepGetsOn]_vars

(* The program ends, whatever fails, unless a short write makes My_write   *)
(* spin or the question is never answered.                                 *)
CopyEnds == <>(pc = "exit" \/ Spins) \/ <>[](pc = "ask")
=============================================================================
