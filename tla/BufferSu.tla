------------------------------ MODULE BufferSu ------------------------------
(***************************************************************************)
(* jni/buffersu.c: the process that sits between an SSH session and rsync. *)
(* It relays stdin to the child and the child's stdout to its own stdout   *)
(* through two block lists, driven by select(); SIGCHLD and SIGPIPE        *)
(* handlers interrupt it at any point.                                     *)
(*                                                                         *)
(* The descriptors are named after the code: "0" and "1" are the relay's   *)
(* own stdin and stdout, "child_stdin" and "child_stdout" its pipe ends.   *)
(* A byte is its position in its stream.                                   *)
(***************************************************************************)
EXTENDS Naturals, Sequences, SequencesExt, SeqSum

CONSTANTS
    BLKSZ,       \* bytes of a block
    MAX_BUFSZ,   \* a buffer this long is not read into
    InSize,      \* bytes held by each pipe the relay reads from
    OutSize,     \* bytes held by each pipe the relay writes to
    Total0,      \* bound: bytes the client writes
    Total1,      \* bound: bytes the child writes
    Faults       \* whether read() and write() may fail and the session may end

ASSUME SizeAssumption ==
    /\ BLKSZ \in Nat \ {0} /\ MAX_BUFSZ \in Nat \ {0} /\ InSize \in Nat \ {0} /\ OutSize \in Nat \ {0}
    /\ Total0 \in Nat /\ Total1 \in Nat
    /\ Faults \in BOOLEAN

VARIABLES
    \* the client, at the other end of fd 0 and fd 1
    sent0, fd0, eof0, fd1, got1, hungup,
    \* the child, at the other end of the pipes
    pipe0, got0, sent1, pipe1, alive,
    \* the relay
    pc, buf0, buf1, ifds, ofds, child_dead,
    sigchld      \* SIGCHLD is pending

clientVars == <<sent0, fd0, eof0, fd1, got1, hungup>>
childVars  == <<pipe0, got0, sent1, pipe1, alive>>
relayVars  == <<pc, buf0, buf1, ifds, ofds, child_dead, sigchld>>
vars == <<clientVars, childVars, relayVars>>

Room(q) == OutSize - Len(q)

\* Sums the len fields of the blocks.
buf_length(b) == SumSeq([i \in 1..Len(b) |-> Len(b[i])])

buf_waiting(b) == b # <<>>

-----------------------------------------------------------------------------
(* buf_read and buf_write. *)

\* Mutant: the new block is put at the head of the list.
PushBlock(b, fd, n) == <<SubSeq(fd, 1, n)>> \o b

\* The buffer after a block of n bytes, read from fd, is put at the tail.
AppendBlock(b, fd, n) == Append(b, SubSeq(fd, 1, n))

\* Mutant: ofs is not advanced, so the rest of a block starts over.
DropTail(b, n) ==
    IF n = Len(Head(b)) THEN Tail(b)
    ELSE <<SubSeq(Head(b), 1, Len(Head(b)) - n)>> \o Tail(b)

\* The buffer after n bytes of its first block are written.
DropBytes(b, n) ==
    IF n = Len(Head(b)) THEN Tail(b)
    ELSE <<SubSeq(Head(b), n + 1, Len(Head(b)))>> \o Tail(b)

\* The byte counts read(fd) can return with the data that is there.
ReadSize(fd) == 1 .. (IF Len(fd) < BLKSZ THEN Len(fd) ELSE BLKSZ)

\* The byte counts write() can return for the first block.
WriteSize(b, q) == 1 .. (IF Len(Head(b)) < Room(q) THEN Len(Head(b)) ELSE Room(q))

-----------------------------------------------------------------------------
(* The main loop. *)

\* Mutant: the limit is only checked for the client's side.
WantReadUnbounded ==
    (IF buf_length(buf0) < MAX_BUFSZ THEN {"0"} ELSE {}) \cup {"child_stdout"}

\* Mutant: nothing is read while something waits to be written.
WantReadIdle ==
    (IF buf0 = <<>> THEN {"0"} ELSE {}) \cup
    (IF buf0 = <<>> /\ buf1 = <<>> THEN {"child_stdout"} ELSE {})

\* The descriptors put in ifds: the sources of the buffers that are not full.
WantRead ==
    (IF buf_length(buf0) < MAX_BUFSZ THEN {"0"} ELSE {}) \cup
    (IF buf_length(buf1) < MAX_BUFSZ THEN {"child_stdout"} ELSE {})

\* Mutant: the relay also waits for buf0 to drain before it ends.
PrepareDrains ==
    /\ pc = "top"
    /\ ~(child_dead /\ buf0 = <<>> /\ buf1 = <<>>)
    /\ pc' = "prepare0"
    /\ ifds' = WantRead
    /\ ofds' = IF buf_waiting(buf1) THEN {"1"} ELSE {}
    /\ UNCHANGED <<clientVars, childVars, buf0, buf1, child_dead, sigchld>>

\* The sets are filled in; with nothing to write and a dead child it is over.
Prepare ==
    /\ pc = "top"
    /\ \/ /\ buf_waiting(buf1)
          /\ pc' = "prepare0"
          /\ ifds' = WantRead
          /\ ofds' = {"1"}
       \/ /\ ~buf_waiting(buf1) /\ ~child_dead
          /\ pc' = "prepare0"
          /\ ifds' = WantRead
          /\ ofds' = {}
       \/ /\ ~buf_waiting(buf1) /\ child_dead
          /\ pc' = "exited"
          /\ UNCHANGED <<ifds, ofds>>
    /\ UNCHANGED <<clientVars, childVars, buf0, buf1, child_dead, sigchld>>

\* Mutant: child_stdin is only watched when nothing waits for fd 1.
Prepare0Exclusive ==
    /\ pc = "prepare0"
    /\ pc' = "select"
    /\ ofds' = IF ~child_dead /\ buf_waiting(buf0) /\ ~buf_waiting(buf1) THEN {"child_stdin"} ELSE ofds
    /\ UNCHANGED <<clientVars, childVars, buf0, buf1, ifds, child_dead, sigchld>>

\* child_dead is read a second time: a handler may have set it in between.
Prepare0 ==
    /\ pc = "prepare0"
    /\ pc' = "select"
    /\ ofds' = ofds \cup (IF ~child_dead /\ buf_waiting(buf0) THEN {"child_stdin"} ELSE {})
    /\ UNCHANGED <<clientVars, childVars, buf0, buf1, ifds, child_dead, sigchld>>

\* What select() finds ready: data or end of file to read, room or a closed
\* other end to write to.
Readable ==
    (IF fd0 # <<>> \/ eof0 THEN {"0"} ELSE {}) \cup
    (IF pipe1 # <<>> \/ ~alive THEN {"child_stdout"} ELSE {})

Writable ==
    (IF Room(fd1) > 0 \/ hungup THEN {"1"} ELSE {}) \cup
    (IF Room(pipe0) > 0 \/ ~alive THEN {"child_stdin"} ELSE {})

SomeReady == (ifds \cap Readable) \cup (ofds \cap Writable) # {}

Select ==
    /\ pc = "select"
    /\ SomeReady
    /\ ifds' = ifds \cap Readable
    /\ ofds' = ofds \cap Writable
    /\ pc' = "read0"
    /\ UNCHANGED <<clientVars, childVars, buf0, buf1, child_dead, sigchld>>

\* The SIGCHLD handler.  It interrupts a select() that is waiting with nothing to
\* report, which then fails and leaves the sets as they were asked for; a signal
\* that comes just before select() is not seen by it; read() and write() are
\* restarted.
Sigchld ==
    /\ pc # "exited"
    /\ sigchld
    /\ sigchld' = FALSE
    /\ child_dead' = TRUE
    /\ pc' \in {pc} \cup (IF pc = "select" /\ ~SomeReady THEN {"read0"} ELSE {})
    /\ UNCHANGED <<clientVars, childVars, buf0, buf1, ifds, ofds>>

\* buf_read(&buf0, 0), when its bit is set: it blocks while there is nothing.
\* End of file leaves everything as it is.
Read0 ==
    /\ pc = "read0"
    /\ \/ /\ "0" \notin ifds
          /\ pc' = "read1"
          /\ UNCHANGED <<fd0, buf0>>
       \/ /\ "0" \in ifds
          /\ \E n \in ReadSize(fd0) :
                /\ buf0' = AppendBlock(buf0, fd0, n)
                /\ fd0' = SubSeq(fd0, n + 1, Len(fd0))
          /\ pc' = "read1"
       \/ /\ "0" \in ifds /\ fd0 = <<>> /\ eof0
          /\ pc' = "read1"
          /\ UNCHANGED <<fd0, buf0>>
       \/ /\ "0" \in ifds /\ Faults
          /\ pc' = "exited"
          /\ UNCHANGED <<fd0, buf0>>
    /\ UNCHANGED <<sent0, eof0, fd1, got1, hungup, childVars, buf1, ifds, ofds,
                   child_dead, sigchld>>

\* buf_read(&buf1, child_stdout): end of file means that the child is dead.
Read1 ==
    /\ pc = "read1"
    /\ \/ /\ "child_stdout" \notin ifds
          /\ pc' = "write1"
          /\ UNCHANGED <<pipe1, buf1, child_dead>>
       \/ /\ "child_stdout" \in ifds
          /\ \E n \in ReadSize(pipe1) :
                /\ buf1' = AppendBlock(buf1, pipe1, n)
                /\ pipe1' = SubSeq(pipe1, n + 1, Len(pipe1))
          /\ pc' = "write1"
          /\ UNCHANGED child_dead
       \/ /\ "child_stdout" \in ifds /\ pipe1 = <<>> /\ ~alive
          /\ child_dead' = TRUE
          /\ pc' = "write1"
          /\ UNCHANGED <<pipe1, buf1>>
       \/ /\ "child_stdout" \in ifds /\ Faults
          /\ pc' = "exited"
          /\ UNCHANGED <<pipe1, buf1, child_dead>>
    /\ UNCHANGED <<clientVars, pipe0, got0, sent1, alive, buf0, ifds, ofds, sigchld>>

\* buf_write(&buf1, 1).  A failed write leaves the block for the next round; a
\* closed descriptor raises SIGPIPE, whose handler kills the child and exits.
Write1 ==
    /\ pc = "write1"
    /\ \/ /\ "1" \notin ofds
          /\ pc' = "write0"
          /\ UNCHANGED <<fd1, buf1>>
       \/ /\ "1" \in ofds /\ ~hungup
          /\ \E n \in WriteSize(buf1, fd1) :
                /\ fd1' = fd1 \o SubSeq(Head(buf1), 1, n)
                /\ buf1' = DropBytes(buf1, n)
          /\ pc' = "write0"
       \/ /\ "1" \in ofds /\ Faults
          /\ pc' = "write0"
          /\ UNCHANGED <<fd1, buf1>>
       \/ /\ "1" \in ofds /\ hungup
          /\ pc' = "exited"
          /\ UNCHANGED <<fd1, buf1>>
    /\ alive' = (alive /\ ~(pc' = "exited"))
    /\ UNCHANGED <<sent0, fd0, eof0, got1, hungup, pipe0, got0, sent1, pipe1, buf0, ifds, ofds,
                   child_dead, sigchld>>

\* buf_write(&buf0, child_stdin), unless the child is known to be dead by now.
Write0 ==
    /\ pc = "write0"
    /\ \/ /\ child_dead \/ "child_stdin" \notin ofds
          /\ pc' = "top"
          /\ UNCHANGED <<pipe0, buf0>>
       \/ /\ ~child_dead /\ "child_stdin" \in ofds /\ alive
          /\ \E n \in WriteSize(buf0, pipe0) :
                /\ pipe0' = pipe0 \o SubSeq(Head(buf0), 1, n)
                /\ buf0' = DropBytes(buf0, n)
          /\ pc' = "top"
       \/ /\ ~child_dead /\ "child_stdin" \in ofds /\ Faults
          /\ pc' = "top"
          /\ UNCHANGED <<pipe0, buf0>>
       \/ /\ ~child_dead /\ "child_stdin" \in ofds /\ ~alive
          /\ pc' = "exited"
          /\ UNCHANGED <<pipe0, buf0>>
    /\ UNCHANGED <<clientVars, got0, sent1, pipe1, alive, buf1, ifds, ofds, child_dead, sigchld>>

-----------------------------------------------------------------------------
(* The client and the child.  With the relay gone nobody reads what they write. *)

ClientWrite ==
    /\ pc # "exited" /\ ~eof0 /\ Len(sent0) < Total0 /\ Len(fd0) < InSize
    /\ sent0' = Append(sent0, Len(sent0) + 1)
    /\ fd0' = Append(fd0, Len(sent0) + 1)
    /\ UNCHANGED <<eof0, fd1, got1, hungup, childVars, relayVars>>

ClientClose ==
    /\ ~eof0
    /\ eof0' = TRUE
    /\ UNCHANGED <<sent0, fd0, fd1, got1, hungup, childVars, relayVars>>

ClientRead ==
    /\ ~hungup /\ fd1 # <<>>
    /\ got1' = Append(got1, Head(fd1))
    /\ fd1' = Tail(fd1)
    /\ UNCHANGED <<sent0, fd0, eof0, hungup, childVars, relayVars>>

\* The session ends: nobody reads fd 1 any more, and fd 0 is at its end.
HangUp ==
    /\ Faults
    /\ ~hungup
    /\ hungup' = TRUE
    /\ eof0' = TRUE
    /\ UNCHANGED <<sent0, fd0, fd1, got1, childVars, relayVars>>

ChildRead ==
    /\ alive /\ pipe0 # <<>>
    /\ got0' = Append(got0, Head(pipe0))
    /\ pipe0' = Tail(pipe0)
    /\ UNCHANGED <<clientVars, sent1, pipe1, alive, relayVars>>

ChildWrite ==
    /\ pc # "exited" /\ alive /\ Len(sent1) < Total1 /\ Len(pipe1) < InSize
    /\ sent1' = Append(sent1, Len(sent1) + 1)
    /\ pipe1' = Append(pipe1, Len(sent1) + 1)
    /\ UNCHANGED <<clientVars, pipe0, got0, alive, relayVars>>

ChildExit ==
    /\ alive
    /\ alive' = FALSE
    /\ sigchld' = TRUE
    /\ UNCHANGED <<clientVars, pipe0, got0, sent1, pipe1, pc, buf0, buf1, ifds, ofds, child_dead>>

-----------------------------------------------------------------------------
Init ==
    /\ sent0 = <<>> /\ fd0 = <<>> /\ eof0 = FALSE /\ fd1 = <<>> /\ got1 = <<>> /\ hungup = FALSE
    /\ pipe0 = <<>> /\ got0 = <<>> /\ sent1 = <<>> /\ pipe1 = <<>> /\ alive = TRUE
    /\ pc = "top" /\ buf0 = <<>> /\ buf1 = <<>> /\ ifds = {} /\ ofds = {}
    /\ child_dead = FALSE /\ sigchld = FALSE

Loop == Prepare \/ Prepare0 \/ Select \/ Read0 \/ Read1 \/ Write1 \/ Write0

Next ==
    \/ Loop \/ Sigchld
    \/ ClientWrite \/ ClientClose \/ ClientRead \/ HangUp
    \/ ChildRead \/ ChildWrite \/ ChildExit

Spec == Init /\ [][Next]_vars

-----------------------------------------------------------------------------
(* Safety. *)

\* No empty block is ever linked in: buf_waiting() and buf_length() agree, so a
\* writer is never asked for zero bytes.
TypeOK ==
    /\ pc \in {"top", "prepare0", "select", "read0", "read1", "write1", "write0", "exited"}
    /\ ifds \subseteq {"0", "child_stdout"}
    /\ ofds \subseteq {"1", "child_stdin"}
    /\ \A b \in {buf0, buf1} : \A i \in 1..Len(b) : Len(b[i]) \in 1..BLKSZ
    /\ Len(fd0) <= InSize /\ Len(pipe1) <= InSize
    /\ Len(pipe0) <= OutSize /\ Len(fd1) <= OutSize

\* Nothing is lost, duplicated or reordered: on the way in, what the client wrote
\* is what the child read, then what is in its pipe, in the blocks in order, and
\* unread in fd 0; and the same on the way out.
InOrder ==
    /\ sent0 = got0 \o pipe0 \o FlattenSeq(buf0) \o fd0
    /\ sent1 = got1 \o fd1 \o FlattenSeq(buf1) \o pipe1

\* "now limits the buffer size": a buffer overshoots MAX_BUFSZ by less than one
\* block, whatever the two sides do.
Bounded ==
    /\ buf_length(buf0) < MAX_BUFSZ + BLKSZ
    /\ buf_length(buf1) < MAX_BUFSZ + BLKSZ

\* Each direction of the relay is a byte stream.
In  == INSTANCE ByteStream WITH Byte <- 1..Total0, sent <- sent0, received <- got0
Out == INSTANCE ByteStream WITH Byte <- 1..Total1, sent <- sent1, received <- got1

\* The child reads a growing prefix of what the client wrote, and the client of
\* what the child wrote.
IsStream == In!StreamSpec /\ Out!StreamSpec

\* "don't exit, in case child has unprocessed output": when the relay exits while
\* the client still listens, everything the child wrote is on its way.
NoOutputLost == (pc = "exited" /\ ~hungup) => (pipe1 = <<>> /\ buf1 = <<>>)

-----------------------------------------------------------------------------
(* Liveness.  The relay and its signal handler keep running, and a write() does *)
(* not fail for ever.  Each property says which of the two other processes has  *)
(* to keep going; nothing is assumed of the other one.                          *)

FairSpec ==
    /\ Spec
    /\ WF_vars(Loop) /\ WF_vars(Sigchld)
    /\ SF_vars(Write1 /\ (buf1' # buf1 \/ pc' = "exited")) /\ SF_vars(Write0 /\ buf0' # buf0)

\* "no matter how many write()s are outstanding": what the client wrote reaches a
\* child that keeps reading, even when the client never reads and fd 1, buf1 and
\* the child's pipe are all full.
InputDelivered ==
    WF_vars(ChildRead) => ((sent0 # got0) ~> (sent0 = got0 \/ ~alive \/ pc = "exited"))

\* What the child wrote reaches a client that keeps reading, even when the child
\* never reads.
OutputDelivered ==
    WF_vars(ClientRead) => ((sent1 # got1) ~> (sent1 = got1 \/ ~alive \/ hungup \/ pc = "exited"))

\* With a client that keeps reading and closes its side sooner or later, the relay
\* ends after the child: neither a signal between two reads of child_dead nor a
\* failed select() leaves it waiting for ever.
ExitsAfterChild ==
    (WF_vars(ClientRead) /\ WF_vars(ClientClose)) => (~alive ~> pc = "exited")
=============================================================================
