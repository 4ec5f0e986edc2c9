------------------------------ MODULE Channel ------------------------------
(***************************************************************************)
(* One session channel of a server session: the channel and its windows    *)
(* (common-channel.c), the ring buffer in front of the command's stdin     *)
(* (circbuffer.c), the start and the end of the command                    *)
(* (svr-chansession.c), and around them the kernel's pipes or              *)
(* pseudo-terminal, the command itself and a client that keeps to the      *)
(* protocol.                                                               *)
(*                                                                         *)
(* The server's side is the record s.  A C function is an operator that    *)
(* maps s to s; s.out collects what it sends.  Round is one round of       *)
(* session_loop().  Input bytes are numbered as the client sends them,     *)
(* output bytes are only counted.                                          *)
(***************************************************************************)
EXTENDS Integers, Sequences, SequencesExt, SeqSum

CONSTANTS
    recv_window,       \* opts.recv_window: the window given to the client
    TransWindow,       \* the window the client gives
    TransMaxPacket,    \* the client's largest packet, or what fits in writepayload
    Pty,               \* whether commands get a pseudo-terminal: a set of choices
    PipeSize,          \* capacity of a pipe
    WriteQueue,        \* packets waiting to be sent at which reading stops
    Chunk,             \* sizes of the client's data packets
    Traffic,           \* bounds: the bytes the client sends and the command writes, as pairs
    MaxRequests,       \* bound: commands the client asks for
    MaxWaiting         \* bound: packets on their way to the server

ASSUME ChannelAssumption ==
    /\ recv_window \in Nat \ {0} /\ TransWindow \in Nat /\ TransMaxPacket \in Nat \ {0}
    /\ Pty \subseteq BOOLEAN
    /\ PipeSize \in Nat \ {0} /\ WriteQueue \in Nat
    /\ Chunk \subseteq Nat \ {0} /\ Traffic \subseteq Nat \X Nat /\ MaxRequests \in Nat /\ MaxWaiting \in Nat

VARIABLES
    s,          \* the channel, its command and the pipes between them
    cl,         \* the client
    fds,        \* what the last select() reported; empty when it was not called yet
    inq, outq   \* packets on their way to the server and to the client

vars == <<s, cl, fds, inq, outq>>

\* Mutant: the window is given back only when all of it was used.
RECV_WINDOWEXTEND_all == recv_window

RECV_WINDOWEXTEND == recv_window \div 3

MIN(a, b) == IF a < b THEN a ELSE b

-----------------------------------------------------------------------------
(* The circular buffer.  data[p] is the byte at position p. *)

cbuf_new == [data |-> [p \in 0..(recv_window - 1) |-> 0], used |-> 0, readpos |-> 0, writepos |-> 0]

cbuf_getavail(b) == recv_window - b.used

cbuf_writelen(b) ==
    IF b.used = recv_window THEN 0
    ELSE IF b.writepos < b.readpos THEN b.readpos - b.writepos
    ELSE recv_window - b.writepos

\* Mutant: the write position does not wrap around.
cbuf_put_straight(b, bytes) ==
    [b EXCEPT !.data = [p \in DOMAIN @ |->
                          IF p - b.writepos \in 0..(Len(bytes) - 1) THEN bytes[p - b.writepos + 1] ELSE @[p]],
              !.used = @ + Len(bytes),
              !.writepos = @ + Len(bytes)]

\* memcpy() to cbuf_writeptr() and cbuf_incrwrite().
cbuf_put(b, bytes) ==
    [b EXCEPT !.data = [p \in DOMAIN @ |->
                          IF p - b.writepos \in 0..(Len(bytes) - 1) THEN bytes[p - b.writepos + 1] ELSE @[p]],
              !.used = @ + Len(bytes),
              !.writepos = (@ + Len(bytes)) % recv_window]

\* The bytes cbuf_readptrs() gives first: those before the buffer wraps around.
cbuf_readptrs(b) == [i \in 1..MIN(b.used, recv_window - b.readpos) |-> b.data[b.readpos + i - 1]]

cbuf_incrread(b, len) == [b EXCEPT !.used = @ - len, !.readpos = (@ + len) % recv_window]

-----------------------------------------------------------------------------
(* Descriptors: "uninit" is FD_UNINIT, "closed" is FD_CLOSED. *)

Closed == {"uninit", "closed"}

send(t, m) == [t EXCEPT !.out = Append(@, m)]

dropbear_exit(t) == [t EXCEPT !.state = "exited"]

\* Session channels have sepfds = 0: whatever is the same descriptor is closed with it.
close_chan_fd(t, fd) ==
    [t EXCEPT !.readfd = IF @ = fd THEN "closed" ELSE @,
              !.errfd = IF @ = fd THEN "closed" ELSE @,
              !.writefd = IF @ = fd THEN "closed" ELSE @]

sesscheckclose(t) == t.exitpid

write_pending(t) == t.writefd \notin Closed /\ t.writebuf.used > 0

-----------------------------------------------------------------------------
(* Sending. *)

\* closechansess(): the exit status, or the signal that ended the command.  Of a
\* signal that is not in signames nothing is sent.
send_exitsignalstatus(t) == IF t.exitpid /\ ~t.unnamed THEN send(t, [type |-> "EXIT"]) ELSE t

\* Mutant: the handler of the channel's type runs last.
send_msg_channel_close_order(t) ==
    LET u == [send_exitsignalstatus(send(t, [type |-> "CLOSE"])) EXCEPT !.sent_eof = TRUE, !.sent_close = TRUE]
    IN  close_chan_fd(close_chan_fd(close_chan_fd(u, u.readfd), u.errfd), u.writefd)

send_msg_channel_close(t) ==
    LET u == [send(send_exitsignalstatus(t), [type |-> "CLOSE"]) EXCEPT !.sent_eof = TRUE, !.sent_close = TRUE]
    IN  close_chan_fd(close_chan_fd(close_chan_fd(u, u.readfd), u.errfd), u.writefd)

send_msg_channel_eof(t) == [send(t, [type |-> "EOF"]) EXCEPT !.sent_eof = TRUE]

\* An answer to a request; a closed channel gets none.
send_reply(t, type) == IF t.sent_close THEN t ELSE send(t, [type |-> type])

\* What is waiting to be read from a descriptor of the command, and whether
\* somebody can still write more.
Pending(t, stream) == IF stream = "err" THEN t.perr ELSE t.pout
Writers(t, stream) == IF stream = "err" THEN t.kerr ELSE t.kout
Take(t, stream, n) == IF stream = "err" THEN [t EXCEPT !.perr = @ - n] ELSE [t EXCEPT !.pout = @ - n]
Fd(t, stream) == IF stream = "err" THEN t.errfd ELSE t.readfd

maxlen(t) == MIN(t.transwindow, TransMaxPacket)

\* Mutant: a short read is taken for the end also before the exit.
send_msg_channel_data_short(t, stream) ==
    LET len == MIN(maxlen(t), Pending(t, stream))
        u   == [send(Take(t, stream, len), [type |-> "DATA", n |-> len]) EXCEPT !.transwindow = @ - len]
    IN  IF len < maxlen(t) THEN close_chan_fd(u, Fd(t, stream)) ELSE u

\* One packet of output is read and sent.  A read that finds nothing is the end
\* of the stream, and so is a short read after the command's exit.
send_msg_channel_data(t, stream) ==
    LET len == MIN(maxlen(t), Pending(t, stream))
        u   == [send(Take(t, stream, len), [type |-> "DATA", n |-> len]) EXCEPT !.transwindow = @ - len]
    IN  IF t.sent_close \/ Fd(t, stream) \in Closed THEN dropbear_exit(t)
        ELSE IF maxlen(t) = 0 THEN t
        ELSE IF len = 0 THEN close_chan_fd(t, Fd(t, stream))
        ELSE IF t.flushing /\ len < maxlen(t) THEN close_chan_fd(u, Fd(t, stream))
        ELSE u

-----------------------------------------------------------------------------
(* Closing. *)

remove_channel(t) ==
    [t EXCEPT !.state = IF @ = "exited" THEN @ ELSE "removed",
              !.readfd = "closed", !.errfd = "closed", !.writefd = "closed", !.writebuf = cbuf_new]

\* The steps of check_close(), in its order.
start_flushing(t) ==
    IF ~t.flushing /\ ~t.sent_close /\ sesscheckclose(t) THEN [t EXCEPT !.flushing = TRUE] ELSE t

close_allowed(t) == t.sent_close \/ sesscheckclose(t)

close_input(t) ==
    IF (t.recv_eof /\ ~write_pending(t)) \/ close_allowed(t) THEN close_chan_fd(t, t.writefd) ELSE t

flush(t, stream) ==
    IF t.flushing /\ Fd(t, stream) \notin Closed /\ t.transwindow > 0
    THEN send_msg_channel_data(t, stream) ELSE t

end_output(t) ==
    IF ~t.sent_eof /\ t.readfd = "closed" /\ t.errfd = "closed" THEN send_msg_channel_eof(t) ELSE t

close_up(t) ==
    IF /\ {t.readfd, t.writefd, t.errfd} = {"closed"}
       /\ ~t.sent_close /\ close_allowed(t) /\ ~write_pending(t)
    THEN send_msg_channel_close(t) ELSE t

\* EOF and close handling.
check_close(t) ==
    LET u == start_flushing(t)
    IN  IF u.recv_close /\ ~write_pending(u) /\ close_allowed(u)
        THEN remove_channel(IF u.sent_close THEN u ELSE send_msg_channel_close(u))
        ELSE close_up(end_output(flush(flush(close_input(u), "out"), "err")))

-----------------------------------------------------------------------------
(* Writing to the command. *)

\* The first portion of the buffer is written, as much as the pipe takes.
\* With nobody at the other end the descriptor is closed.
writechannel_fallback(t) ==
    LET bytes == cbuf_readptrs(t.writebuf)
        n     == MIN(Len(bytes), PipeSize - t.pin)
    IN  IF bytes # <<>> /\ ~t.kin THEN close_chan_fd(t, t.writefd)
        ELSE [t EXCEPT !.recvdonelen = @ + n, !.pin = @ + n,
                       !.writebuf = cbuf_incrread(@, n),
                       !.delivered = @ \o SubSeq(bytes, 1, n)]

\* Mutant: the window is given back and not counted.
writechannel_onesided(t) ==
    LET u == writechannel_fallback(t)
    IN  IF u.recvdonelen >= RECV_WINDOWEXTEND
        THEN [send(u, [type |-> "ADJUST", n |-> u.recvdonelen]) EXCEPT !.recvdonelen = 0]
        ELSE u

\* The window grows by what was written, RECV_WINDOWEXTEND at a time.
writechannel(t) ==
    LET u == writechannel_fallback(t)
        v == IF u.recvdonelen >= RECV_WINDOWEXTEND
             THEN [send(u, [type |-> "ADJUST", n |-> u.recvdonelen]) EXCEPT
                      !.recvwindow = @ + u.recvdonelen, !.recvdonelen = 0]
             ELSE u
    IN  IF v.recvwindow > recv_window \/ v.recvwindow > cbuf_getavail(v.writebuf)
        THEN dropbear_exit(v) ELSE v

\* The payload goes into the buffer, in two pieces if that wraps around.
cbuf_append(b, bytes) ==
    LET k == MIN(cbuf_writelen(b), Len(bytes))
    IN  cbuf_put(cbuf_put(b, SubSeq(bytes, 1, k)), SubSeq(bytes, k + 1, Len(bytes)))

\* Mutant: data that was not asked for is not counted either.
common_recv_msg_channel_data_uncharged(t, bytes) ==
    LET u == writechannel(t)
    IN  IF t.recv_eof THEN dropbear_exit(t)
        ELSE IF t.writefd \in Closed THEN t
        ELSE IF Len(bytes) > cbuf_getavail(t.writebuf) \/ t.recvwindow < Len(bytes) THEN dropbear_exit(t)
        ELSE [u EXCEPT !.writebuf = cbuf_append(@, bytes), !.accepted = @ \o bytes]

\* Data for a command that is not there is dropped.
common_recv_msg_channel_data(t, bytes) ==
    LET u == writechannel([t EXCEPT !.recvwindow = @ - Len(bytes)])
    IN  IF t.recv_eof THEN dropbear_exit(t)
        ELSE IF t.writefd \in Closed THEN t
        ELSE IF Len(bytes) > cbuf_getavail(t.writebuf) \/ t.recvwindow < Len(bytes) THEN dropbear_exit(t)
        ELSE IF u.writefd \in Closed THEN u
        ELSE [u EXCEPT !.writebuf = cbuf_append(@, bytes), !.accepted = @ \o bytes]

recv_msg_channel_window_adjust(t, incr) == [t EXCEPT !.transwindow = @ + incr]

recv_msg_channel_eof(t) == check_close([t EXCEPT !.recv_eof = TRUE])

recv_msg_channel_close(t) == check_close([t EXCEPT !.recv_eof = TRUE, !.recv_close = TRUE])

-----------------------------------------------------------------------------
(* The command. *)

\* noptycommand(): three pipes.
noptycommand(t) ==
    [t EXCEPT !.writefd = "in", !.readfd = "out", !.errfd = "err",
              !.kin = TRUE, !.kout = TRUE, !.kerr = TRUE, !.child = "running", !.late = t.sent_eof]

\* ptycommand(): both directions are the master; errfd stays closed.
ptycommand(t) ==
    [t EXCEPT !.writefd = "master", !.readfd = "master",
              !.kin = TRUE, !.kout = TRUE, !.child = "running", !.late = t.sent_eof]

\* An "exec" request: one command per channel, but it may be tried again.
sessioncommand(t, spawned) ==
    IF t.cmd \/ ~spawned THEN send_reply(t, "FAILURE")
    ELSE send_reply([(IF t.pty THEN ptycommand(t) ELSE noptycommand(t)) EXCEPT !.cmd = TRUE], "SUCCESS")

\* The zombie is collected and its exit kept for the channel.
svr_chansess_checksignal(t) ==
    IF t.child = "zombie" THEN [t EXCEPT !.child = "reaped", !.exitpid = TRUE] ELSE t

-----------------------------------------------------------------------------
(* The main loop.  Select is setchannelfds() and select(), Round what is done *)
(* with its result: the client and the command go on in between.  spawned is  *)
(* whether pipe() and fork() worked, if they were needed.                     *)

process_packet(t, m, spawned) ==
    IF t.state # "open" THEN dropbear_exit(t)
    ELSE CASE m.type = "REQUEST" -> sessioncommand(t, spawned)
           [] m.type = "DATA"    -> common_recv_msg_channel_data(t, m.bytes)
           [] m.type = "ADJUST"  -> recv_msg_channel_window_adjust(t, m.n)
           [] m.type = "EOF"     -> recv_msg_channel_eof(t)
           [] m.type = "CLOSE"   -> recv_msg_channel_close(t)

\* Mutant: only I/O leads to a look at the channel's end.
channelio_deaf(t, R) ==
    LET u == IF "read" \in R /\ t.readfd \notin Closed THEN send_msg_channel_data(t, "out") ELSE t
        v == IF "err" \in R /\ u.errfd \notin Closed THEN send_msg_channel_data(u, "err") ELSE u
        w == IF "write" \in R /\ v.writefd \notin Closed THEN writechannel(v) ELSE v
    IN  IF t.state = "open" /\ R \cap {"read", "err", "write"} # {} THEN check_close(w) ELSE t

channelio(t, R) ==
    LET u == IF "read" \in R /\ t.readfd \notin Closed THEN send_msg_channel_data(t, "out") ELSE t
        v == IF "err" \in R /\ u.errfd \notin Closed THEN send_msg_channel_data(u, "err") ELSE u
        w == IF "write" \in R /\ v.writefd \notin Closed THEN writechannel(v) ELSE v
    IN  IF t.state = "open" /\ R \cap {"read", "err", "write", "signal"} # {} THEN check_close(w) ELSE t

writequeue_has_space == Len(outq) <= WriteQueue

\* setchannelfds() and what select() then finds ready.
Ready ==
    {f \in {"socket", "signal", "read", "err", "write"} :
        CASE f = "socket" -> writequeue_has_space /\ inq # <<>>
          [] f = "signal" -> s.signal
          [] f = "read"   -> /\ s.transwindow > 0 /\ writequeue_has_space /\ s.readfd \notin Closed
                             /\ s.pout > 0 \/ ~s.kout
          [] f = "err"    -> /\ s.transwindow > 0 /\ writequeue_has_space /\ s.errfd \notin Closed
                             /\ s.perr > 0 \/ ~s.kerr
          [] f = "write"  -> /\ s.writefd \notin Closed /\ s.writebuf.used > 0
                             /\ s.pin < PipeSize \/ ~s.kin}

Select ==
    /\ s.state # "exited"
    /\ fds = {} /\ Ready # {}
    /\ fds' = Ready
    /\ UNCHANGED <<s, cl, inq, outq>>

Round ==
    /\ fds # {}
    /\ \E spawned \in BOOLEAN :
         LET t == IF "socket" \in fds THEN process_packet(s, Head(inq), spawned) ELSE s
             u == IF "signal" \in fds THEN svr_chansess_checksignal([t EXCEPT !.signal = FALSE]) ELSE t
             v == channelio(u, fds)
         IN  /\ s' = [v EXCEPT !.out = <<>>]
             /\ outq' = outq \o v.out
    /\ inq' = IF "socket" \in fds THEN Tail(inq) ELSE inq
    /\ fds' = {}
    /\ UNCHANGED cl

-----------------------------------------------------------------------------
(* The command and what it leaves behind. *)

CommandWrite(stream) ==
    /\ Writers(s, stream) /\ Pending(s, stream) < PipeSize /\ s.left > 0
    /\ Fd(s, stream) \notin Closed
    /\ s' = [Take(s, stream, -1) EXCEPT !.left = @ - 1]
    /\ UNCHANGED <<cl, fds, inq, outq>>

CommandRead ==
    /\ s.kin /\ s.pin > 0
    /\ s' = [s EXCEPT !.pin = 0]
    /\ UNCHANGED <<cl, fds, inq, outq>>

\* A command closes its stdin, or its output, before it exits.
CommandCloses ==
    /\ s.child = "running" /\ ~s.pty
    /\ \/ s.kin /\ s' = [s EXCEPT !.kin = FALSE]
       \/ s.kout /\ s' = [s EXCEPT !.kout = FALSE]
       \/ s.kerr /\ s' = [s EXCEPT !.kerr = FALSE]
    /\ UNCHANGED <<cl, fds, inq, outq>>

\* The exit, and sesssigchild_handler().  unnamed is that a signal ended the
\* command that the table signames has no name for, such as SIGBUS.
CommandExit ==
    /\ s.child = "running"
    /\ \E unnamed \in BOOLEAN :
         s' = [s EXCEPT !.child = "zombie", !.signal = TRUE, !.kin = FALSE, !.kout = FALSE, !.kerr = FALSE,
                        !.unnamed = unnamed]
    /\ UNCHANGED <<cl, fds, inq, outq>>

-----------------------------------------------------------------------------
(* A client that keeps to the protocol: one command, data within its window *)
(* and after the request, nothing after its CLOSE.                          *)

Put(m) == Len(inq) < MaxWaiting /\ inq' = Append(inq, m) /\ UNCHANGED <<s, fds, outq>>

Ask ==
    /\ ~cl.close /\ ~cl.waiting /\ ~cl.started /\ cl.asked < MaxRequests
    /\ Put([type |-> "REQUEST"])
    /\ cl' = [cl EXCEPT !.asked = @ + 1, !.waiting = TRUE]

SendData ==
    /\ ~cl.close /\ ~cl.eof /\ cl.asked > 0
    /\ \E n \in Chunk :
         /\ n <= cl.window /\ n <= cl.left
         /\ Put([type |-> "DATA", bytes |-> [i \in 1..n |-> cl.sent + i]])
         /\ cl' = [cl EXCEPT !.sent = @ + n, !.left = @ - n, !.window = @ - n]

SendEof ==
    /\ ~cl.close /\ ~cl.eof
    /\ Put([type |-> "EOF"])
    /\ cl' = [cl EXCEPT !.eof = TRUE]

SendClose ==
    /\ ~cl.close
    /\ Put([type |-> "CLOSE"])
    /\ cl' = [cl EXCEPT !.close = TRUE]

SendAdjust ==
    /\ ~cl.close /\ cl.owed > 0
    /\ Put([type |-> "ADJUST", n |-> cl.owed])
    /\ cl' = [cl EXCEPT !.owed = 0, !.granted = @ + cl.owed]

Receive ==
    /\ outq # <<>>
    /\ LET m == Head(outq)
       IN  cl' = CASE m.type = "DATA"    -> [cl EXCEPT !.granted = @ - m.n, !.owed = @ + m.n]
                   [] m.type = "ADJUST"  -> [cl EXCEPT !.window = @ + m.n]
                   [] m.type = "SUCCESS" -> [cl EXCEPT !.waiting = FALSE, !.started = TRUE]
                   [] m.type = "FAILURE" -> [cl EXCEPT !.waiting = FALSE]
                   [] OTHER              -> [cl EXCEPT !.got = @ \cup {m.type}]
    /\ outq' = Tail(outq)
    /\ UNCHANGED <<s, fds, inq>>

-----------------------------------------------------------------------------
Init ==
    /\ \E pty \in Pty, bytes \in Traffic :
       /\ s = [state |-> "open", pty |-> pty,
              readfd |-> "uninit", errfd |-> "closed", writefd |-> "uninit",
              writebuf |-> cbuf_new, recvwindow |-> recv_window, recvdonelen |-> 0,
              transwindow |-> TransWindow,
              sent_eof |-> FALSE, sent_close |-> FALSE, recv_eof |-> FALSE, recv_close |-> FALSE,
              flushing |-> FALSE, cmd |-> FALSE, exitpid |-> FALSE, unnamed |-> FALSE,
              child |-> "none", signal |-> FALSE,
              kin |-> FALSE, kout |-> FALSE, kerr |-> FALSE,
              pin |-> 0, pout |-> 0, perr |-> 0, left |-> bytes[2], late |-> FALSE,
              accepted |-> <<>>, delivered |-> <<>>, out |-> <<>>]
       /\ cl = [asked |-> 0, waiting |-> FALSE, started |-> FALSE, sent |-> 0, left |-> bytes[1],
                window |-> recv_window, eof |-> FALSE, close |-> FALSE, granted |-> TransWindow, owed |-> 0, got |-> {}]
    /\ fds = {} /\ inq = <<>> /\ outq = <<>>

Client == Ask \/ SendData \/ SendEof \/ SendClose \/ SendAdjust \/ Receive

Command == (\E stream \in {"out", "err"} : CommandWrite(stream)) \/ CommandRead \/ CommandCloses \/ CommandExit

Next == Select \/ Round \/ Client \/ Command

Spec == Init /\ [][Next]_vars

-----------------------------------------------------------------------------
(* Safety. *)

\* Every byte of the window is in one place: it may still be sent to us, waits in
\* writebuf, or was written and not given back yet.  Once stdin is closed some
\* may be gone, but there are never more.
WindowAccounted ==
    /\ s.recvwindow + s.recvdonelen + s.writebuf.used <= recv_window
    /\ s.writefd \notin Closed => s.recvwindow + s.recvdonelen + s.writebuf.used = recv_window

\* The bytes that the packets of one type in a queue carry or give back.
Amount(m, type) == IF m.type # type THEN 0 ELSE IF "bytes" \in DOMAIN m THEN Len(m.bytes) ELSE m.n
Total(q, type) == SumSeq([i \in 1..Len(q) |-> Amount(q[i], type)])

\* Both ends agree on both windows whatever is on its way: what the client has
\* sent and may still send fits in what the server counts on, and the server's
\* output, stdout and stderr together, fits in what the client granted.
WindowsAgree ==
    /\ s.state = "open" => cl.window + Total(inq, "DATA") + Total(outq, "ADJUST") <= s.recvwindow
    /\ cl.granted >= 0

\* A client that keeps to the protocol is never thrown out: no assertion of the
\* channel code fails, and there is no "Oversized packet", "data after eof" or
\* packet for an unknown channel, in any order of its packets, the command's
\* exit and the closing of the pipes.  (The ring buffer's own assertions are not
\* in s.state: RingOK in ChannelPeerProofs implies them.)
NoFailure == s.state # "exited"

\* "flushing read data after an exit": with pipes, output is closed only when the
\* command cannot write any more and everything it wrote was sent, unless the
\* client closed the channel.
OutputComplete ==
    (~s.recv_close /\ ~s.pty)
    => /\ s.readfd = "closed" => (s.pout = 0 /\ ~s.kout)
       /\ s.errfd = "closed" => (s.perr = 0 /\ ~s.kerr)

\* The same of a command with a pseudo-terminal.
OutputFlushed ==
    (~s.recv_close /\ ~s.recv_eof /\ s.readfd = "closed") => s.pout = 0

\* The end of a channel is in order for the client: nothing follows CLOSE, the
\* exit of the command comes before it unless a signal without a name ended it,
\* and no data comes after EOF.  (Excepted is a client whose EOF came before its
\* request, which makes the server send EOF at once: s.late.)
OrderlyEnd ==
    LET before(type, i) == type \in cl.got \/ \E j \in 1..(i - 1) : outq[j].type = type
    IN  \A i \in DOMAIN outq :
            /\ ~before("CLOSE", i)
            /\ outq[i].type = "DATA" => (~before("EOF", i) \/ s.late)
            /\ outq[i].type = "CLOSE" => (before("EXIT", i) \/ s.unnamed)

Stdin == INSTANCE ByteStream WITH Byte <- Nat, sent <- s.accepted, received <- s.delivered

\* The ring buffer is a stream: the command reads what the client sent, in order,
\* with nothing lost where the buffer wraps around.
StdinIsStream == Stdin!StreamSpec

-----------------------------------------------------------------------------
(* Liveness.  The main loop handles whatever select() finds ready: this is   *)
(* WF_vars(Round), with the condition under which a round can be taken       *)
(* written out.  The client reads, gives its window back and answers CLOSE.  *)

AnswerClose == "CLOSE" \in cl.got /\ SendClose

FairSpec ==
    /\ Spec
    /\ WF_vars(Select) /\ ([]<>(fds = {}) \/ []<><<Round>>_vars)
    /\ WF_vars(Receive) /\ WF_vars(SendAdjust) /\ WF_vars(AnswerClose)

\* Once the command has exited the channel is closed by both sides and removed,
\* however much output is left, however small the window, whether the client
\* closed it first and whether input still waits in writebuf.
ChannelRemoved == s.child = "zombie" ~> s.state = "removed"

\* Flow control does not stop: the window of a command that keeps reading grows
\* to within a third of its full size again.
WindowReopens ==
    LET full == recv_window - recv_window \div 3 + 1
    IN  WF_vars(CommandRead) =>
            ((s.writefd \notin Closed /\ cl.window < full)
             ~> (s.writefd \in Closed \/ ~s.kin \/ cl.window >= full))
=============================================================================
