---------------------------- MODULE ChannelProofs ----------------------------
(***************************************************************************)
(* Proofs about Channel, for every window, pipe and packet size, every     *)
(* client that keeps to the protocol and every command: no byte of the     *)
(* window is lost or given back twice, and output is not cut off.          *)
(***************************************************************************)
EXTENDS Channel, TLAPS

Fields ==
    {"state", "pty", "readfd", "errfd", "writefd", "writebuf", "recvwindow", "recvdonelen", "transwindow",
     "sent_eof", "sent_close", "recv_eof", "recv_close", "flushing", "cmd", "exitpid", "child", "signal",
     "kin", "kout", "kerr", "pin", "pout", "perr", "left", "late", "unnamed",
     "accepted", "delivered", "out"}

MsgIn ==
    [type : {"REQUEST", "EOF", "CLOSE"}] \cup [type : {"DATA"}, bytes : Seq(Nat)]
    \cup [type : {"ADJUST"}, n : Nat]

MsgOut ==
    [type : {"EOF", "CLOSE", "EXIT", "SUCCESS", "FAILURE"}] \cup [type : {"DATA"}, n : Nat]
    \cup [type : {"ADJUST"}, n : Nat]

\* The circular buffer: only the byte count and the two positions matter here.
CbufType(b) ==
    /\ DOMAIN b = {"data", "used", "readpos", "writepos"}
    /\ b.used \in Nat /\ b.readpos \in 0..(recv_window - 1) /\ b.writepos \in 0..(recv_window - 1)

ChType(t) ==
    /\ DOMAIN t = Fields /\ CbufType(t.writebuf)
    /\ t.recvwindow \in Int /\ t.recvdonelen \in Nat /\ t.transwindow \in Nat
    /\ t.pin \in 0..PipeSize /\ t.pout \in Nat /\ t.perr \in Nat
    /\ t.pty \in BOOLEAN /\ t.cmd \in BOOLEAN /\ t.kout \in BOOLEAN /\ t.kerr \in BOOLEAN
    /\ t.flushing \in BOOLEAN /\ t.exitpid \in BOOLEAN /\ t.recv_close \in BOOLEAN
    /\ t.out \in Seq(MsgOut)

\* The descriptors a channel can have, and when.
FdsOK(t) ==
    /\ t.readfd \in {"uninit", "closed", "out", "master"}
    /\ t.errfd \in {"closed", "err"}
    /\ t.writefd \in {"uninit", "closed", "in", "master"}
    /\ ~t.pty => "master" \notin {t.readfd, t.writefd}
    /\ ~t.cmd => t.readfd \in Closed /\ t.writefd \in Closed /\ t.errfd \in Closed
    /\ t.cmd => t.readfd # "uninit" /\ t.writefd # "uninit"

\* What the end of the command means.
CommandOK(t) ==
    /\ t.exitpid => t.child = "reaped"
    /\ t.child \in {"zombie", "reaped"} => ~t.kout /\ ~t.kerr
    /\ ~t.cmd => /\ t.child = "none" /\ ~t.kout /\ ~t.kerr /\ t.pout = 0 /\ t.perr = 0
                 /\ t.writebuf.used = 0
    /\ t.flushing => t.exitpid

OutputOK(t) ==
    (~t.recv_close /\ ~t.pty)
    => /\ t.readfd = "closed" => (t.pout = 0 /\ ~t.kout)
       /\ t.errfd = "closed" => (t.perr = 0 /\ ~t.kerr)

Base(t) == ChType(t) /\ FdsOK(t) /\ CommandOK(t) /\ OutputOK(t)

\* Where the bytes of the window are.  While a packet is handled the sum is short
\* by its length, so it is kept apart.
Sum(t) == t.recvwindow + t.recvdonelen + t.writebuf.used

WindowOK(t) ==
    /\ Sum(t) <= recv_window
    /\ t.writefd \notin Closed \/ ~t.cmd => Sum(t) = recv_window

Inv(t) == Base(t) /\ WindowOK(t)

\* t and u differ in nothing the invariant looks at, except perhaps descriptors.
Frame(t, u) ==
    /\ ChType(u) /\ u.writebuf = t.writebuf /\ u.recvwindow = t.recvwindow /\ u.recvdonelen = t.recvdonelen
    /\ u.pty = t.pty /\ u.cmd = t.cmd /\ u.exitpid = t.exitpid /\ u.child = t.child
    /\ u.kout = t.kout /\ u.kerr = t.kerr /\ u.pout = t.pout /\ u.perr = t.perr
    /\ u.flushing = t.flushing /\ u.recv_close = t.recv_close

SameFds(t, u) == u.readfd = t.readfd /\ u.errfd = t.errfd /\ u.writefd = t.writefd

\* What select() said of the command's output: a read finds data or its end.
ReadOK(t) == t.cmd /\ (t.pout > 0 \/ ~t.kout)
ErrOK(t) == t.cmd /\ (t.perr > 0 \/ ~t.kerr)
Keeps(t, u) == (t.cmd => u.cmd) /\ (ReadOK(t) => ReadOK(u)) /\ (ErrOK(t) => ErrOK(u))

LEMMA Sizes ==
    /\ recv_window \in Nat /\ recv_window > 0 /\ PipeSize \in Nat /\ TransMaxPacket \in Nat /\ TransMaxPacket > 0
    /\ TransWindow \in Nat
BY ChannelAssumption

LEMMA FrameInv ==
    ASSUME NEW t, NEW u, Base(t), Frame(t, u), SameFds(t, u)
    PROVE  Base(u) /\ (Inv(t) => Inv(u)) /\ Keeps(t, u) /\ Sum(u) = Sum(t)
<1>1. FdsOK(u)
  BY DEF Base, Frame, SameFds, FdsOK
<1>2. CommandOK(u)
  BY DEF Base, Frame, CommandOK
<1>3. OutputOK(u)
  BY DEF Base, Frame, SameFds, OutputOK
<1>4. Sum(u) = Sum(t)
  BY DEF Frame, Sum
<1>5. WindowOK(t) => WindowOK(u)
  BY <1>4 DEF Frame, SameFds, WindowOK
<1>6. Keeps(t, u)
  BY DEF Frame, Keeps, ReadOK, ErrOK
<1> QED BY <1>1, <1>2, <1>3, <1>4, <1>5, <1>6 DEF Inv, Base, Frame

-----------------------------------------------------------------------------
(* Small steps. *)

LEMMA SendInv ==
    ASSUME NEW t, Base(t), NEW m \in MsgOut
    PROVE  LET u == send(t, m)
           IN  Base(u) /\ (Inv(t) => Inv(u)) /\ Frame(t, u) /\ SameFds(t, u) /\ Keeps(t, u)
<1> DEFINE q == Append(t.out, m)
           u == [t EXCEPT !.out = q]
<1>1. DOMAIN t = Fields /\ ChType(t) /\ t.out \in Seq(MsgOut)
  BY DEF Base, ChType
<1>2. q \in Seq(MsgOut)
  BY <1>1
<1>3. send(t, m) = u
  BY DEF send
<1> HIDE DEF q
<1>4. Frame(t, u)
  BY <1>1, <1>2 DEF Fields, Frame, ChType
<1>5. SameFds(t, u)
  BY <1>1 DEF Fields, SameFds
<1> HIDE DEF u
<1> QED BY <1>3, <1>4, <1>5, FrameInv

LEMMA ExitInv ==
    ASSUME NEW t, Base(t)
    PROVE  LET u == dropbear_exit(t)
           IN  Base(u) /\ (Inv(t) => Inv(u)) /\ Frame(t, u) /\ SameFds(t, u) /\ Keeps(t, u)
<1> DEFINE u == [t EXCEPT !.state = "exited"]
<1>1. DOMAIN t = Fields /\ ChType(t)
  BY DEF Base, ChType
<1>2. dropbear_exit(t) = u
  BY DEF dropbear_exit
<1>3. Frame(t, u)
  BY <1>1 DEF Fields, Frame, ChType
<1>4. SameFds(t, u)
  BY <1>1 DEF Fields, SameFds
<1> HIDE DEF u
<1> QED BY <1>2, <1>3, <1>4, FrameInv

\* A descriptor may be closed when there is nothing more to come from it.
LEMMA CloseFd ==
    ASSUME NEW t, Base(t), NEW fd \in {"uninit", "closed", "in", "out", "err", "master"},
           ~t.recv_close /\ ~t.pty => /\ fd = "out" => t.pout = 0 /\ ~t.kout
                                      /\ fd = "err" => t.perr = 0 /\ ~t.kerr
    PROVE  LET u == close_chan_fd(t, fd)
           IN  /\ Base(u) /\ (Inv(t) => Inv(u)) /\ Frame(t, u) /\ Keeps(t, u) /\ Sum(u) = Sum(t)
               /\ u.readfd = IF t.readfd = fd THEN "closed" ELSE t.readfd
               /\ u.errfd = IF t.errfd = fd THEN "closed" ELSE t.errfd
               /\ u.writefd = IF t.writefd = fd THEN "closed" ELSE t.writefd
<1> DEFINE r == IF t.readfd = fd THEN "closed" ELSE t.readfd
           e == IF t.errfd = fd THEN "closed" ELSE t.errfd
           w == IF t.writefd = fd THEN "closed" ELSE t.writefd
           u == [t EXCEPT !.readfd = r, !.errfd = e, !.writefd = w]
<1>1. DOMAIN t = Fields /\ ChType(t)
  BY DEF Base, ChType
<1>2. close_chan_fd(t, fd) = u
  BY DEF close_chan_fd
<1>3. /\ t.readfd \in {"uninit", "closed", "out", "master"} /\ t.errfd \in {"closed", "err"}
      /\ t.writefd \in {"uninit", "closed", "in", "master"}
      /\ ~t.pty => "master" \notin {t.readfd, t.writefd}
      /\ ~t.cmd => t.readfd \in Closed /\ t.writefd \in Closed /\ t.errfd \in Closed
      /\ t.cmd => t.readfd # "uninit" /\ t.writefd # "uninit"
  BY DEF Base, FdsOK
<1>4. /\ r \in {t.readfd, "closed"} /\ e \in {t.errfd, "closed"} /\ w \in {t.writefd, "closed"}
  OBVIOUS
<1> HIDE DEF r, e, w
<1>5. Frame(t, u)
  BY <1>1 DEF Fields, Frame, ChType
<1>6. u.readfd = r /\ u.errfd = e /\ u.writefd = w
  BY <1>1 DEF Fields
<1> HIDE DEF u
<1>7. FdsOK(u)
  BY <1>3, <1>4, <1>5, <1>6 DEF Frame, FdsOK, Closed
<1>8. Sum(u) = Sum(t)
  BY <1>5 DEF Frame, Sum
<1>9. WindowOK(t) => WindowOK(u)
  <2>1. u.writefd \notin Closed => t.writefd \notin Closed
    BY <1>4, <1>6 DEF Closed
  <2> QED BY <1>5, <1>8, <2>1 DEF WindowOK, Frame
<1>10. CommandOK(u)
  BY <1>5 DEF Base, CommandOK, Frame
<1>11. OutputOK(u)
  <2> SUFFICES ASSUME ~t.recv_close, ~t.pty
               PROVE  /\ r = "closed" => (t.pout = 0 /\ ~t.kout)
                      /\ e = "closed" => (t.perr = 0 /\ ~t.kerr)
    BY <1>5, <1>6 DEF OutputOK, Frame
  <2>1. /\ t.readfd = "closed" => (t.pout = 0 /\ ~t.kout)
        /\ t.errfd = "closed" => (t.perr = 0 /\ ~t.kerr)
    BY DEF Base, OutputOK
  <2>2. ~t.cmd => ~t.kout /\ ~t.kerr /\ t.pout = 0 /\ t.perr = 0
    BY DEF Base, CommandOK
  <2> QED BY <1>3, <2>1, <2>2 DEF r, e
<1>12. Keeps(t, u)
  BY <1>5 DEF Frame, Keeps, ReadOK, ErrOK
<1> QED BY <1>2, <1>5, <1>6, <1>7, <1>8, <1>9, <1>10, <1>11, <1>12 DEF Inv, Base, r, e, w, Frame

\* Fields the invariant does not look at.
LEMMA FlagInv ==
    ASSUME NEW t, Base(t), NEW a, NEW b, NEW c
    PROVE  \A u \in {[t EXCEPT !.sent_eof = a], [t EXCEPT !.sent_eof = a, !.sent_close = b],
                     [t EXCEPT !.recv_eof = a], [t EXCEPT !.signal = a], [t EXCEPT !.kin = a],
                     [t EXCEPT !.left = a]} :
              Base(u) /\ (Inv(t) => Inv(u)) /\ Frame(t, u) /\ SameFds(t, u) /\ Keeps(t, u)
<1>1. DOMAIN t = Fields /\ ChType(t)
  BY DEF Base, ChType
<1>2. ASSUME NEW u \in {[t EXCEPT !.sent_eof = a], [t EXCEPT !.sent_eof = a, !.sent_close = b],
                     [t EXCEPT !.recv_eof = a], [t EXCEPT !.signal = a], [t EXCEPT !.kin = a],
                     [t EXCEPT !.left = a]}
      PROVE  Frame(t, u) /\ SameFds(t, u)
  <2>1. CASE u = [t EXCEPT !.sent_eof = a]
    BY <1>1, <2>1 DEF Fields, Frame, SameFds, ChType
  <2>2. CASE u = [t EXCEPT !.sent_eof = a, !.sent_close = b]
    BY <1>1, <2>2 DEF Fields, Frame, SameFds, ChType
  <2>3. CASE u = [t EXCEPT !.recv_eof = a]
    BY <1>1, <2>3 DEF Fields, Frame, SameFds, ChType
  <2>4. CASE u = [t EXCEPT !.signal = a]
    BY <1>1, <2>4 DEF Fields, Frame, SameFds, ChType
  <2>5. CASE u = [t EXCEPT !.kin = a]
    BY <1>1, <2>5 DEF Fields, Frame, SameFds, ChType
  <2>6. CASE u = [t EXCEPT !.left = a]
    BY <1>1, <2>6 DEF Fields, Frame, SameFds, ChType
  <2> QED BY <1>2, <2>1, <2>2, <2>3, <2>4, <2>5, <2>6
<1> QED BY <1>2, FrameInv

LEMMA WindowField ==
    ASSUME NEW t, Base(t), NEW w \in Nat
    PROVE  LET u == [t EXCEPT !.transwindow = w]
           IN  Base(u) /\ (Inv(t) => Inv(u)) /\ Frame(t, u) /\ SameFds(t, u) /\ Keeps(t, u)
<1> DEFINE u == [t EXCEPT !.transwindow = w]
<1>1. DOMAIN t = Fields /\ ChType(t)
  BY DEF Base, ChType
<1>2. Frame(t, u)
  BY <1>1 DEF Fields, Frame, ChType
<1>3. SameFds(t, u)
  BY <1>1 DEF Fields, SameFds
<1> HIDE DEF u
<1>4. Base(u) /\ (Inv(t) => Inv(u)) /\ Frame(t, u) /\ SameFds(t, u) /\ Keeps(t, u)
  BY <1>2, <1>3, FrameInv
<1> QED BY <1>4 DEF u

LEMMA Messages ==
    /\ [type |-> "EXIT"] \in MsgOut /\ [type |-> "CLOSE"] \in MsgOut /\ [type |-> "EOF"] \in MsgOut
    /\ [type |-> "SUCCESS"] \in MsgOut /\ [type |-> "FAILURE"] \in MsgOut
    /\ \A n \in Nat : [type |-> "DATA", n |-> n] \in MsgOut
    /\ \A n \in Nat : [type |-> "ADJUST", n |-> n] \in MsgOut
BY DEF MsgOut

LEMMA FrameTrans ==
    ASSUME NEW t, NEW u, NEW v, Frame(t, u), Frame(u, v)
    PROVE  Frame(t, v)
BY DEF Frame

LEMMA KeepsTrans ==
    ASSUME NEW t, NEW u, NEW v, Keeps(t, u), Keeps(u, v)
    PROVE  Keeps(t, v)
BY DEF Keeps

LEMMA FrameKeeps ==
    ASSUME NEW t, NEW u, Frame(t, u)
    PROVE  Keeps(t, u)
BY DEF Frame, Keeps, ReadOK, ErrOK

-----------------------------------------------------------------------------
(* Sending and closing. *)

LEMMA ExitSignal ==
    ASSUME NEW t, Inv(t)
    PROVE  LET u == send_exitsignalstatus(t)
           IN  Inv(u) /\ Frame(t, u) /\ SameFds(t, u)
<1>1. CASE t.exitpid /\ ~t.unnamed
  BY <1>1, SendInv, Messages DEF send_exitsignalstatus, Inv
<1>2. CASE ~(t.exitpid /\ ~t.unnamed)
  BY <1>2 DEF send_exitsignalstatus, Inv, Base, Frame, SameFds
<1> QED BY <1>1, <1>2

\* CLOSE is sent when the client asked for it, or when all is closed already.
LEMMA CloseInv ==
    ASSUME NEW t, Inv(t), t.recv_close \/ (t.readfd = "closed" /\ t.errfd = "closed" /\ t.writefd = "closed")
    PROVE  LET u == send_msg_channel_close(t)
           IN  Inv(u) /\ Frame(t, u)
<1> DEFINE a == send_exitsignalstatus(t)
           b == send(a, [type |-> "CLOSE"])
           u == [b EXCEPT !.sent_eof = TRUE, !.sent_close = TRUE]
           c == close_chan_fd(u, u.readfd)
           d == close_chan_fd(c, u.errfd)
           e == close_chan_fd(d, u.writefd)
<1>1. Inv(a) /\ Frame(t, a) /\ SameFds(t, a)
  BY ExitSignal
<1>2. Base(a)
  BY <1>1 DEF Inv
<1> HIDE DEF a
<1>3. Inv(b) /\ Frame(a, b) /\ SameFds(a, b) /\ Base(b)
  BY <1>1, <1>2, SendInv, Messages DEF Inv
<1> HIDE DEF b
<1>4. Inv(u) /\ Frame(b, u) /\ SameFds(b, u) /\ Base(u)
  BY <1>3, FlagInv
<1> HIDE DEF u
<1>5. Frame(t, u) /\ SameFds(t, u)
  BY <1>1, <1>3, <1>4, FrameTrans DEF SameFds
<1>6. /\ u.recv_close \/ (u.readfd = "closed" /\ u.errfd = "closed" /\ u.writefd = "closed")
      /\ u.readfd \in {"uninit", "closed", "in", "out", "err", "master"}
      /\ u.errfd \in {"uninit", "closed", "in", "out", "err", "master"}
      /\ u.writefd \in {"uninit", "closed", "in", "out", "err", "master"}
  BY <1>4, <1>5 DEF Frame, SameFds, Base, FdsOK
<1>7. Inv(c) /\ Frame(u, c) /\ Base(c)
  BY <1>4, <1>6, CloseFd
<1> HIDE DEF c
<1>8. c.recv_close = u.recv_close
  BY <1>7 DEF Frame
<1>9. Inv(d) /\ Frame(c, d) /\ Base(d)
  BY <1>6, <1>7, <1>8, CloseFd
<1> HIDE DEF d
<1>10. d.recv_close = u.recv_close
  BY <1>8, <1>9 DEF Frame
<1>11. Inv(e) /\ Frame(d, e)
  BY <1>6, <1>9, <1>10, CloseFd
<1>12. send_msg_channel_close(t) = e
  BY DEF send_msg_channel_close, e, d, c, u, b, a
<1> HIDE DEF e
<1>13. Frame(u, e)
  BY <1>7, <1>9, <1>11, FrameTrans
<1>14. Frame(t, e)
  BY <1>5, <1>13, FrameTrans
<1> QED BY <1>11, <1>12, <1>14

LEMMA EofInv ==
    ASSUME NEW t, Inv(t)
    PROVE  LET u == send_msg_channel_eof(t)
           IN  Inv(u) /\ Frame(t, u) /\ SameFds(t, u)
<1> DEFINE a == send(t, [type |-> "EOF"])
           u == [a EXCEPT !.sent_eof = TRUE]
<1>1. Inv(a) /\ Base(a) /\ Frame(t, a) /\ SameFds(t, a)
  BY SendInv, Messages DEF Inv
<1> HIDE DEF a
<1>2. Inv(u) /\ Frame(a, u) /\ SameFds(a, u)
  BY <1>1, FlagInv
<1>3. send_msg_channel_eof(t) = u
  BY DEF send_msg_channel_eof, a
<1> HIDE DEF u
<1> QED BY <1>1, <1>2, <1>3, FrameTrans DEF SameFds

LEMMA ReplyInv ==
    ASSUME NEW t, Inv(t), NEW type \in {"SUCCESS", "FAILURE"}
    PROVE  LET u == send_reply(t, type)
           IN  Inv(u) /\ Frame(t, u)
<1>1. CASE t.sent_close
  BY <1>1 DEF send_reply, Inv, Base, Frame
<1>2. CASE ~t.sent_close
  BY <1>2, SendInv, Messages DEF send_reply, Inv
<1> QED BY <1>1, <1>2

\* Output in the pipe changes: more only while its descriptor is open.
LEMMA PoutInv ==
    ASSUME NEW t, Inv(t), NEW p \in Nat, p > t.pout => t.cmd /\ t.readfd # "closed",
           NEW u, u = [t EXCEPT !.pout = p]
    PROVE  /\ Inv(u) /\ SameFds(t, u)
           /\ u.pout = p /\ u.perr = t.perr /\ u.cmd = t.cmd /\ u.kout = t.kout /\ u.kerr = t.kerr
           /\ u.recv_close = t.recv_close /\ u.pty = t.pty /\ u.flushing = t.flushing
           /\ u.transwindow = t.transwindow
<1>1. DOMAIN t = Fields /\ ChType(t) /\ t.pout \in Nat
  BY DEF Inv, Base, ChType
<1>2. /\ DOMAIN u = Fields
      /\ u.writebuf = t.writebuf /\ u.recvwindow = t.recvwindow /\ u.recvdonelen = t.recvdonelen
      /\ u.pty = t.pty /\ u.cmd = t.cmd /\ u.exitpid = t.exitpid /\ u.child = t.child
      /\ u.kout = t.kout /\ u.kerr = t.kerr /\ u.perr = t.perr /\ u.pout = p
      /\ u.flushing = t.flushing /\ u.recv_close = t.recv_close
      /\ u.transwindow = t.transwindow /\ u.pin = t.pin /\ u.out = t.out /\ SameFds(t, u)
  BY <1>1 DEF Fields, SameFds
<1>3. ChType(u)
  BY <1>1, <1>2 DEF ChType
<1>4. FdsOK(u)
  BY <1>2 DEF Inv, Base, FdsOK, SameFds
<1>5. CommandOK(u)
  <2>1. ~t.cmd => t.pout = 0
    BY DEF Inv, Base, CommandOK
  <2>2. ~t.cmd => p = 0
    BY <1>1, <2>1
  <2> QED BY <1>2, <2>2 DEF Inv, Base, CommandOK
<1>6. OutputOK(u)
  <2>1. (~t.recv_close /\ ~t.pty /\ t.readfd = "closed") => p = 0
    BY <1>1 DEF Inv, Base, OutputOK
  <2> QED BY <1>2, <2>1 DEF Inv, Base, OutputOK, SameFds
<1>7. WindowOK(u)
  BY <1>2 DEF Inv, WindowOK, Sum, SameFds
<1>8. Inv(u)
  BY <1>3, <1>4, <1>5, <1>6, <1>7 DEF Inv, Base
<1> QED BY <1>2, <1>8

LEMMA PerrInv ==
    ASSUME NEW t, Inv(t), NEW p \in Nat, p > t.perr => t.cmd /\ t.errfd # "closed",
           NEW u, u = [t EXCEPT !.perr = p]
    PROVE  /\ Inv(u) /\ SameFds(t, u)
           /\ u.perr = p /\ u.pout = t.pout /\ u.cmd = t.cmd /\ u.kout = t.kout /\ u.kerr = t.kerr
           /\ u.recv_close = t.recv_close /\ u.pty = t.pty /\ u.flushing = t.flushing
           /\ u.transwindow = t.transwindow
<1>1. DOMAIN t = Fields /\ ChType(t) /\ t.perr \in Nat
  BY DEF Inv, Base, ChType
<1>2. /\ DOMAIN u = Fields
      /\ u.writebuf = t.writebuf /\ u.recvwindow = t.recvwindow /\ u.recvdonelen = t.recvdonelen
      /\ u.pty = t.pty /\ u.cmd = t.cmd /\ u.exitpid = t.exitpid /\ u.child = t.child
      /\ u.kout = t.kout /\ u.kerr = t.kerr /\ u.pout = t.pout /\ u.perr = p
      /\ u.flushing = t.flushing /\ u.recv_close = t.recv_close
      /\ u.transwindow = t.transwindow /\ u.pin = t.pin /\ u.out = t.out /\ SameFds(t, u)
  BY <1>1 DEF Fields, SameFds
<1>3. ChType(u)
  BY <1>1, <1>2 DEF ChType
<1>4. FdsOK(u)
  BY <1>2 DEF Inv, Base, FdsOK, SameFds
<1>5. CommandOK(u)
  <2>1. ~t.cmd => t.perr = 0
    BY DEF Inv, Base, CommandOK
  <2>2. ~t.cmd => p = 0
    BY <1>1, <2>1
  <2> QED BY <1>2, <2>2 DEF Inv, Base, CommandOK
<1>6. OutputOK(u)
  <2>1. (~t.recv_close /\ ~t.pty /\ t.errfd = "closed") => p = 0
    BY <1>1 DEF Inv, Base, OutputOK
  <2> QED BY <1>2, <2>1 DEF Inv, Base, OutputOK, SameFds
<1>7. WindowOK(u)
  BY <1>2 DEF Inv, WindowOK, Sum, SameFds
<1>8. Inv(u)
  BY <1>3, <1>4, <1>5, <1>6, <1>7 DEF Inv, Base
<1> QED BY <1>2, <1>8

\* Reading is safe when it finds data or the end of the stream: then a
\* descriptor is closed only at the end.
LEMMA DataInv ==
    ASSUME NEW t, Inv(t), NEW stream \in {"out", "err"}, Pending(t, stream) > 0 \/ ~Writers(t, stream)
    PROVE  LET u == send_msg_channel_data(t, stream)
           IN  /\ Inv(u) /\ u.cmd = t.cmd /\ u.kout = t.kout /\ u.kerr = t.kerr
               /\ u.flushing = t.flushing /\ u.recv_close = t.recv_close
               /\ stream = "out" => u.perr = t.perr
               /\ stream = "err" => u.pout = t.pout
<1> DEFINE fd == Fd(t, stream)
           max == maxlen(t)
           len == MIN(max, Pending(t, stream))
           a == Take(t, stream, len)
           b == send(a, [type |-> "DATA", n |-> len])
           sent == [b EXCEPT !.transwindow = @ - len]
           Same(u) == /\ Inv(u) /\ u.cmd = t.cmd /\ u.kout = t.kout /\ u.kerr = t.kerr
                      /\ u.flushing = t.flushing /\ u.recv_close = t.recv_close
                      /\ stream = "out" => u.perr = t.perr
                      /\ stream = "err" => u.pout = t.pout
<1>1. /\ Base(t) /\ t.pout \in Nat /\ t.perr \in Nat /\ t.transwindow \in Nat
      /\ fd \in {"uninit", "closed", "in", "out", "err", "master"}
      /\ stream = "out" => fd # "err"
      /\ stream = "err" => fd # "out"
      /\ t.flushing => ~t.kout /\ ~t.kerr
  BY DEF Inv, Base, ChType, FdsOK, CommandOK, Fd
<1>2. /\ max \in Nat /\ len \in Nat /\ len <= t.transwindow /\ len <= Pending(t, stream)
      /\ max <= t.transwindow
      /\ len < max => len = Pending(t, stream)
  BY <1>1, Sizes DEF MIN, maxlen, Pending
<1> HIDE DEF fd, max, len
<1>3. /\ Inv(a) /\ SameFds(t, a) /\ a.cmd = t.cmd /\ a.kout = t.kout /\ a.kerr = t.kerr
      /\ a.flushing = t.flushing /\ a.recv_close = t.recv_close /\ a.pty = t.pty
      /\ a.transwindow = t.transwindow
      /\ stream = "out" => a.perr = t.perr /\ a.pout = t.pout - len
      /\ stream = "err" => a.pout = t.pout /\ a.perr = t.perr - len
  <2>1. CASE stream = "out"
    <3>1. t.pout - len \in Nat /\ ~(t.pout - len > t.pout)
      BY <1>1, <1>2, <2>1 DEF Pending
    <3>2. a = [t EXCEPT !.pout = t.pout - len]
      BY <2>1 DEF Take
    <3> QED BY <2>1, <3>1, <3>2, PoutInv
  <2>2. CASE stream = "err"
    <3>1. t.perr - len \in Nat /\ ~(t.perr - len > t.perr)
      BY <1>1, <1>2, <2>2 DEF Pending
    <3>2. a = [t EXCEPT !.perr = t.perr - len]
      BY <2>2 DEF Take
    <3> QED BY <2>2, <3>1, <3>2, PerrInv
  <2> QED BY <2>1, <2>2
<1> HIDE DEF a
<1>4. Inv(b) /\ Base(b) /\ Frame(a, b) /\ SameFds(a, b)
  BY <1>2, <1>3, SendInv, Messages DEF Inv
<1>5. b.transwindow = a.transwindow
  <2>1. DOMAIN a = Fields
    BY <1>3 DEF Inv, Base, ChType
  <2> QED BY <2>1 DEF send, Fields
<1> HIDE DEF b
<1>6. Inv(sent) /\ Base(sent) /\ Frame(b, sent) /\ SameFds(b, sent)
  <2>1. b.transwindow - len \in Nat
    BY <1>1, <1>2, <1>3, <1>5
  <2>2. sent = [b EXCEPT !.transwindow = b.transwindow - len]
    OBVIOUS
  <2> QED BY <1>4, <2>1, <2>2, WindowField
<1> HIDE DEF sent
<1>7. Same(sent) /\ sent.pty = t.pty
      /\ (stream = "out" => sent.pout = t.pout - len)
      /\ (stream = "err" => sent.perr = t.perr - len)
  BY <1>3, <1>4, <1>6 DEF Frame
<1>8. Same(t)
  OBVIOUS
<1>9. Same(dropbear_exit(t))
  BY <1>1, ExitInv DEF Frame
<1>10. ASSUME max # 0, len = 0
       PROVE  Same(close_chan_fd(t, fd))
  <2>1. Pending(t, stream) = 0 /\ ~Writers(t, stream)
    BY <1>1, <1>2, <1>10 DEF Pending
  <2>2. /\ fd = "out" => t.pout = 0 /\ ~t.kout
        /\ fd = "err" => t.perr = 0 /\ ~t.kerr
    BY <1>1, <2>1 DEF Pending, Writers
  <2> QED BY <1>1, <2>2, CloseFd DEF Frame
<1>11. ASSUME t.flushing, len < max
       PROVE  Same(close_chan_fd(sent, fd))
  <2>1. /\ fd = "out" => sent.pout = 0 /\ ~sent.kout
        /\ fd = "err" => sent.perr = 0 /\ ~sent.kerr
    BY <1>1, <1>2, <1>7, <1>11 DEF Pending
  <2>2. LET u == close_chan_fd(sent, fd) IN Inv(u) /\ Frame(sent, u)
    BY <1>1, <1>6, <2>1, CloseFd
  <2> QED BY <1>7, <2>2 DEF Frame
<1> DEFINE u == send_msg_channel_data(t, stream)
<1> HIDE DEF Same
<1>12. CASE t.sent_close \/ fd \in Closed
  <2>1. u = dropbear_exit(t)
    BY <1>12 DEF send_msg_channel_data, fd, max, len, sent, b, a
  <2> QED BY <1>9, <2>1 DEF Same
<1>13. CASE ~(t.sent_close \/ fd \in Closed) /\ max = 0
  <2>1. u = t
    BY <1>13 DEF send_msg_channel_data, fd, max, len, sent, b, a
  <2> QED BY <1>8, <2>1 DEF Same
<1>14. CASE ~(t.sent_close \/ fd \in Closed) /\ max # 0 /\ len = 0
  <2>1. u = close_chan_fd(t, fd)
    BY <1>14 DEF send_msg_channel_data, fd, max, len, sent, b, a
  <2> QED BY <1>10, <1>14, <2>1 DEF Same
<1>15. CASE ~(t.sent_close \/ fd \in Closed) /\ max # 0 /\ len # 0 /\ t.flushing /\ len < max
  <2>1. u = close_chan_fd(sent, fd)
    BY <1>15 DEF send_msg_channel_data, fd, max, len, sent, b, a
  <2> QED BY <1>11, <1>15, <2>1 DEF Same
<1>16. CASE ~(t.sent_close \/ fd \in Closed) /\ max # 0 /\ len # 0 /\ ~(t.flushing /\ len < max)
  <2>1. u = sent
    BY <1>16 DEF send_msg_channel_data, fd, max, len, sent, b, a
  <2> QED BY <1>7, <2>1 DEF Same
<1> QED BY <1>12, <1>13, <1>14, <1>15, <1>16

-----------------------------------------------------------------------------
(* check_close(). *)

LEMMA NewBuffer == CbufType(cbuf_new) /\ cbuf_new.used = 0
<1>1. 0 \in 0..(recv_window - 1)
  BY Sizes
<1> QED BY <1>1 DEF cbuf_new, CbufType

LEMMA RemoveInv ==
    ASSUME NEW t, Inv(t), t.recv_close
    PROVE  Inv(remove_channel(t)) /\ Keeps(t, remove_channel(t))
<1> DEFINE st == IF t.state = "exited" THEN t.state ELSE "removed"
           u == [t EXCEPT !.state = st, !.readfd = "closed", !.errfd = "closed", !.writefd = "closed",
                          !.writebuf = cbuf_new]
<1>1. DOMAIN t = Fields /\ ChType(t)
  BY DEF Inv, Base, ChType
<1>2. remove_channel(t) = u
  BY DEF remove_channel
<1> HIDE DEF st
<1>3. /\ DOMAIN u = Fields
      /\ u.writebuf = cbuf_new /\ u.recvwindow = t.recvwindow /\ u.recvdonelen = t.recvdonelen
      /\ u.pty = t.pty /\ u.cmd = t.cmd /\ u.exitpid = t.exitpid /\ u.child = t.child
      /\ u.kout = t.kout /\ u.kerr = t.kerr /\ u.perr = t.perr /\ u.pout = t.pout
      /\ u.flushing = t.flushing /\ u.recv_close = t.recv_close
      /\ u.transwindow = t.transwindow /\ u.pin = t.pin /\ u.out = t.out
      /\ u.readfd = "closed" /\ u.errfd = "closed" /\ u.writefd = "closed"
  BY <1>1 DEF Fields
<1> HIDE DEF u
<1>4. ChType(u)
  BY <1>1, <1>3, NewBuffer DEF ChType
<1>5. FdsOK(u)
  BY <1>3 DEF FdsOK, Closed
<1>6. CommandOK(u)
  BY <1>3, NewBuffer DEF Inv, Base, CommandOK
<1>7. OutputOK(u)
  BY <1>3 DEF OutputOK
<1>8. WindowOK(u)
  <2>1. t.recvwindow \in Int /\ t.recvdonelen \in Nat /\ t.writebuf.used \in Nat
    BY <1>1 DEF ChType, CbufType
  <2>2. ~t.cmd => t.writebuf.used = 0
    BY DEF Inv, Base, CommandOK
  <2>3. t.recvwindow + t.recvdonelen + t.writebuf.used <= recv_window
    BY DEF Inv, WindowOK, Sum
  <2>4. ~t.cmd => t.recvwindow + t.recvdonelen + t.writebuf.used = recv_window
    BY DEF Inv, WindowOK, Sum
  <2>5. Sum(u) = t.recvwindow + t.recvdonelen
    BY <1>3, <2>1, NewBuffer DEF Sum
  <2>6. Sum(u) <= recv_window /\ (~t.cmd => Sum(u) = recv_window)
    BY <2>1, <2>2, <2>3, <2>4, <2>5, Sizes
  <2> QED BY <1>3, <2>6 DEF WindowOK, Closed
<1>9. Keeps(t, u)
  BY <1>3 DEF Keeps, ReadOK, ErrOK
<1> QED BY <1>2, <1>4, <1>5, <1>6, <1>7, <1>8, <1>9 DEF Inv, Base

LEMMA StartFlushing ==
    ASSUME NEW t, Inv(t)
    PROVE  Inv(start_flushing(t)) /\ Keeps(t, start_flushing(t))
<1> DEFINE u == [t EXCEPT !.flushing = TRUE]
<1>1. CASE ~t.flushing /\ ~t.sent_close /\ sesscheckclose(t)
  <2>1. DOMAIN t = Fields /\ ChType(t)
    BY DEF Inv, Base, ChType
  <2>2. /\ DOMAIN u = Fields
        /\ u.writebuf = t.writebuf /\ u.recvwindow = t.recvwindow /\ u.recvdonelen = t.recvdonelen
        /\ u.pty = t.pty /\ u.cmd = t.cmd /\ u.exitpid = t.exitpid /\ u.child = t.child
        /\ u.kout = t.kout /\ u.kerr = t.kerr /\ u.perr = t.perr /\ u.pout = t.pout
        /\ u.flushing = TRUE /\ u.recv_close = t.recv_close
        /\ u.transwindow = t.transwindow /\ u.pin = t.pin /\ u.out = t.out /\ SameFds(t, u)
    BY <2>1 DEF Fields, SameFds
  <2>3. start_flushing(t) = u
    BY <1>1 DEF start_flushing
  <2> HIDE DEF u
  <2>4. ChType(u)
    BY <2>1, <2>2 DEF ChType
  <2>5. FdsOK(u)
    BY <2>2 DEF Inv, Base, FdsOK, SameFds
  <2>6. CommandOK(u)
    BY <1>1, <2>2 DEF Inv, Base, CommandOK, sesscheckclose
  <2>7. OutputOK(u)
    BY <2>2 DEF Inv, Base, OutputOK, SameFds
  <2>8. WindowOK(u)
    BY <2>2 DEF Inv, WindowOK, Sum, SameFds
  <2>9. Keeps(t, u)
    BY <2>2 DEF Keeps, ReadOK, ErrOK
  <2> QED BY <2>3, <2>4, <2>5, <2>6, <2>7, <2>8, <2>9 DEF Inv, Base
<1>2. CASE ~(~t.flushing /\ ~t.sent_close /\ sesscheckclose(t))
  <2>1. start_flushing(t) = t
    BY <1>2 DEF start_flushing
  <2> QED BY <2>1 DEF Keeps
<1> QED BY <1>1, <1>2

LEMMA CloseInput ==
    ASSUME NEW t, Inv(t)
    PROVE  Inv(close_input(t)) /\ Keeps(t, close_input(t))
<1>1. t.writefd \in {"uninit", "closed", "in", "master"} /\ Base(t)
  BY DEF Inv, Base, FdsOK
<1>2. Inv(close_chan_fd(t, t.writefd)) /\ Keeps(t, close_chan_fd(t, t.writefd))
  BY <1>1, CloseFd
<1>3. Keeps(t, t)
  BY DEF Keeps
<1> QED BY <1>2, <1>3 DEF close_input

\* Flushing starts after the exit: nobody writes any more.
LEMMA Flush ==
    ASSUME NEW t, Inv(t), NEW stream \in {"out", "err"}
    PROVE  Inv(flush(t, stream)) /\ Keeps(t, flush(t, stream))
<1> DEFINE u == send_msg_channel_data(t, stream)
<1>1. CASE t.flushing /\ Fd(t, stream) \notin Closed /\ t.transwindow > 0
  <2>1. ~t.kout /\ ~t.kerr
    BY <1>1 DEF Inv, Base, CommandOK
  <2>2. Inv(u) /\ u.cmd = t.cmd /\ u.kout = t.kout /\ u.kerr = t.kerr
    BY <2>1, DataInv DEF Writers
  <2>3. flush(t, stream) = u
    BY <1>1 DEF flush
  <2> QED BY <2>1, <2>2, <2>3 DEF Keeps, ReadOK, ErrOK
<1>2. CASE ~(t.flushing /\ Fd(t, stream) \notin Closed /\ t.transwindow > 0)
  BY <1>2 DEF flush, Keeps
<1> QED BY <1>1, <1>2

LEMMA EndOutput ==
    ASSUME NEW t, Inv(t)
    PROVE  Inv(end_output(t)) /\ Keeps(t, end_output(t))
<1>1. Keeps(t, t)
  BY DEF Keeps
<1> QED BY <1>1, EofInv, FrameKeeps DEF end_output

LEMMA CloseUp ==
    ASSUME NEW t, Inv(t)
    PROVE  Inv(close_up(t)) /\ Keeps(t, close_up(t))
<1>1. Keeps(t, t)
  BY DEF Keeps
<1>2. CASE {t.readfd, t.writefd, t.errfd} = {"closed"}
  <2>1. t.readfd = "closed" /\ t.errfd = "closed" /\ t.writefd = "closed"
    BY <1>2
  <2>2. Inv(send_msg_channel_close(t)) /\ Keeps(t, send_msg_channel_close(t))
    BY <2>1, CloseInv, FrameKeeps
  <2> QED BY <1>1, <2>2 DEF close_up
<1>3. CASE {t.readfd, t.writefd, t.errfd} # {"closed"}
  BY <1>1, <1>3 DEF close_up
<1> QED BY <1>2, <1>3

LEMMA CheckClose ==
    ASSUME NEW t, Inv(t)
    PROVE  Inv(check_close(t)) /\ Keeps(t, check_close(t))
<1> DEFINE u == start_flushing(t)
           a == close_input(u)
           b == flush(a, "out")
           c == flush(b, "err")
           d == end_output(c)
           e == close_up(d)
           x == IF u.sent_close THEN u ELSE send_msg_channel_close(u)
<1>1. check_close(t) = IF u.recv_close /\ ~write_pending(u) /\ close_allowed(u) THEN remove_channel(x) ELSE e
  BY DEF check_close
<1>2. Inv(u) /\ Keeps(t, u)
  BY StartFlushing
<1> HIDE DEF u
<1>3. ASSUME u.recv_close
      PROVE  Inv(remove_channel(x)) /\ Keeps(t, remove_channel(x))
  <2>1. Inv(x) /\ Keeps(u, x) /\ x.recv_close
    <3>1. CASE u.sent_close
      BY <1>2, <1>3, <3>1 DEF Keeps
    <3>2. CASE ~u.sent_close
      BY <1>2, <1>3, <3>2, CloseInv, FrameKeeps DEF Frame
    <3> QED BY <3>1, <3>2
  <2> HIDE DEF x
  <2>2. Keeps(t, x)
    BY <1>2, <2>1, KeepsTrans
  <2> QED BY <2>1, <2>2, RemoveInv, KeepsTrans
<1>4. Inv(a) /\ Keeps(t, a)
  BY <1>2, CloseInput, KeepsTrans
<1> HIDE DEF a
<1>5. Inv(b) /\ Keeps(t, b)
  BY <1>4, Flush, KeepsTrans
<1> HIDE DEF b
<1>6. Inv(c) /\ Keeps(t, c)
  BY <1>5, Flush, KeepsTrans
<1> HIDE DEF c
<1>7. Inv(d) /\ Keeps(t, d)
  BY <1>6, EndOutput, KeepsTrans
<1> HIDE DEF d
<1>8. Inv(e) /\ Keeps(t, e)
  BY <1>7, CloseUp, KeepsTrans
<1> HIDE DEF e, x
<1> QED BY <1>1, <1>3, <1>8

-----------------------------------------------------------------------------
(* The ring buffer and the window. *)

\* What a change of the buffer and the windows leaves alone.
Others(t, u) ==
    /\ DOMAIN u = Fields /\ u.transwindow = t.transwindow /\ SameFds(t, u)
    /\ u.pty = t.pty /\ u.cmd = t.cmd /\ u.exitpid = t.exitpid /\ u.child = t.child
    /\ u.kout = t.kout /\ u.kerr = t.kerr /\ u.pout = t.pout /\ u.perr = t.perr
    /\ u.flushing = t.flushing /\ u.recv_close = t.recv_close

LEMMA OthersInv ==
    ASSUME NEW t, NEW u, Base(t), Others(t, u), CbufType(u.writebuf), ~t.cmd => u.writebuf.used = 0,
           u.recvwindow \in Int, u.recvdonelen \in Nat, u.pin \in 0..PipeSize, u.out \in Seq(MsgOut)
    PROVE  Base(u) /\ Keeps(t, u)
<1>1. ChType(u)
  BY DEF Base, ChType, Others
<1>2. FdsOK(u)
  BY DEF Base, FdsOK, Others, SameFds
<1>3. CommandOK(u)
  BY DEF Base, CommandOK, Others
<1>4. OutputOK(u)
  BY DEF Base, OutputOK, Others, SameFds
<1>5. Keeps(t, u)
  BY DEF Keeps, ReadOK, ErrOK, Others
<1> QED BY <1>1, <1>2, <1>3, <1>4, <1>5 DEF Base

\* Bytes move from the buffer to the pipe and from "used" to "done".
LEMMA Fallback ==
    ASSUME NEW t, Base(t)
    PROVE  LET u == writechannel_fallback(t)
           IN  /\ Base(u) /\ Keeps(t, u) /\ Sum(u) = Sum(t) /\ u.cmd = t.cmd
               /\ u.writefd \in {t.writefd, "closed"}
<1> DEFINE bytes == cbuf_readptrs(t.writebuf)
           n == MIN(Len(bytes), PipeSize - t.pin)
           done == t.recvdonelen + n
           pin == t.pin + n
           buf == cbuf_incrread(t.writebuf, n)
           del == t.delivered \o SubSeq(bytes, 1, n)
           u == [t EXCEPT !.recvdonelen = done, !.pin = pin, !.writebuf = buf, !.delivered = del]
<1>1. /\ DOMAIN t = Fields /\ ChType(t) /\ CbufType(t.writebuf)
      /\ t.recvwindow \in Int /\ t.recvdonelen \in Nat /\ t.pin \in 0..PipeSize /\ t.out \in Seq(MsgOut)
      /\ t.writefd \in {"uninit", "closed", "in", "master"}
  BY DEF Base, ChType, FdsOK
<1>2. writechannel_fallback(t) = IF bytes # <<>> /\ ~t.kin THEN close_chan_fd(t, t.writefd) ELSE u
  BY DEF writechannel_fallback
<1>3. LET v == close_chan_fd(t, t.writefd)
      IN  Base(v) /\ Keeps(t, v) /\ Sum(v) = Sum(t) /\ v.cmd = t.cmd /\ v.writefd \in {t.writefd, "closed"}
  BY <1>1, CloseFd DEF Frame
<1>4. Len(bytes) \in 0..t.writebuf.used
  <2> DEFINE k == MIN(t.writebuf.used, recv_window - t.writebuf.readpos)
  <2>1. k \in Nat /\ k <= t.writebuf.used
    BY <1>1, Sizes DEF MIN, CbufType
  <2>2. bytes = [i \in 1..k |-> t.writebuf.data[t.writebuf.readpos + i - 1]]
    BY DEF cbuf_readptrs
  <2> HIDE DEF k
  <2>3. Len(bytes) = k
    BY <2>1, <2>2
  <2> QED BY <1>1, <2>1, <2>3 DEF CbufType
<1> HIDE DEF bytes
<1>5. n \in Nat /\ n <= t.writebuf.used /\ n <= PipeSize - t.pin
  BY <1>1, <1>4, Sizes DEF MIN, CbufType
<1> HIDE DEF n
<1>6. CbufType(buf) /\ buf.used = t.writebuf.used - n
  <2>1. /\ DOMAIN t.writebuf = {"data", "used", "readpos", "writepos"} /\ t.writebuf.used \in Nat
        /\ t.writebuf.readpos \in 0..(recv_window - 1) /\ t.writebuf.writepos \in 0..(recv_window - 1)
    BY <1>1 DEF CbufType
  <2>2. (t.writebuf.readpos + n) % recv_window \in 0..(recv_window - 1)
    BY <1>5, <2>1, Sizes
  <2>3. /\ DOMAIN buf = DOMAIN t.writebuf
        /\ buf.used = t.writebuf.used - n
        /\ buf.readpos = (t.writebuf.readpos + n) % recv_window
        /\ buf.writepos = t.writebuf.writepos
    BY <2>1 DEF cbuf_incrread
  <2> QED BY <1>5, <2>1, <2>2, <2>3 DEF CbufType
<1>7. done \in Nat /\ pin \in 0..PipeSize
  BY <1>1, <1>5, Sizes
<1> HIDE DEF buf, del
<1>8. /\ Others(t, u) /\ u.recvdonelen = t.recvdonelen + n /\ u.pin = pin /\ u.writebuf = buf
      /\ u.recvwindow = t.recvwindow /\ u.out = t.out
  BY <1>1 DEF Fields, Others, SameFds
<1>9. ~t.cmd => buf.used = 0
  <2>1. ~t.cmd => t.writebuf.used = 0
    BY DEF Base, CommandOK
  <2> QED BY <1>1, <1>5, <1>6, <2>1 DEF CbufType
<1>10. Sum(u) = Sum(t)
  BY <1>1, <1>5, <1>6, <1>8 DEF Sum, CbufType
<1> HIDE DEF u, pin, done
<1>11. Base(u) /\ Keeps(t, u)
  BY <1>1, <1>6, <1>7, <1>8, <1>9, OthersInv DEF done
<1>12. u.cmd = t.cmd /\ u.writefd = t.writefd
  BY <1>8 DEF Others, SameFds
<1> QED BY <1>2, <1>3, <1>10, <1>11, <1>12

LEMMA WriteChannel ==
    ASSUME NEW t, Base(t)
    PROVE  LET u == writechannel(t)
           IN  /\ Base(u) /\ Keeps(t, u) /\ Sum(u) = Sum(t) /\ u.cmd = t.cmd
               /\ u.writefd \in {t.writefd, "closed"}
<1> DEFINE u == writechannel_fallback(t)
           m == [type |-> "ADJUST", n |-> u.recvdonelen]
           a == send(u, m)
           w == a.recvwindow + u.recvdonelen
           b == [a EXCEPT !.recvwindow = w, !.recvdonelen = 0]
           v == IF u.recvdonelen >= RECV_WINDOWEXTEND THEN b ELSE u
           Good(x) == /\ Base(x) /\ Keeps(t, x) /\ Sum(x) = Sum(t) /\ x.cmd = t.cmd
                      /\ x.writefd \in {t.writefd, "closed"}
<1>1. writechannel(t) = IF v.recvwindow > recv_window \/ v.recvwindow > cbuf_getavail(v.writebuf)
                        THEN dropbear_exit(v) ELSE v
  BY DEF writechannel
<1>2. Good(u)
  BY Fallback
<1> HIDE DEF u
<1>3. u.recvwindow \in Int /\ u.recvdonelen \in Nat /\ u.writebuf.used \in Nat
  BY <1>2 DEF Base, ChType, CbufType
<1>4. Base(a) /\ Frame(u, a) /\ SameFds(u, a) /\ Keeps(u, a)
  BY <1>2, <1>3, SendInv, Messages
<1> HIDE DEF a
<1>5. /\ a.recvwindow = u.recvwindow /\ a.recvdonelen = u.recvdonelen /\ a.writebuf = u.writebuf
      /\ DOMAIN a = Fields /\ CbufType(a.writebuf) /\ a.pin \in 0..PipeSize /\ a.out \in Seq(MsgOut)
      /\ a.cmd = u.cmd /\ a.writefd = u.writefd
  BY <1>4 DEF Frame, SameFds, ChType
<1>6. w \in Int
  BY <1>3, <1>5
<1>7. /\ Others(a, b) /\ b.recvwindow = w /\ b.recvdonelen = 0 /\ b.writebuf = a.writebuf
      /\ b.pin = a.pin /\ b.out = a.out
  BY <1>5 DEF Fields, Others, SameFds
<1>8. Sum(b) = Sum(u)
  BY <1>3, <1>5, <1>7 DEF Sum
<1> HIDE DEF b, w
<1>9. ~a.cmd => b.writebuf.used = 0
  BY <1>4, <1>7 DEF Base, CommandOK
<1>10. Base(b) /\ Keeps(a, b)
  BY <1>4, <1>5, <1>6, <1>7, <1>9, OthersInv
<1>11. Keeps(t, b)
  BY <1>2, <1>4, <1>10, KeepsTrans
<1>12. b.cmd = u.cmd /\ b.writefd = u.writefd
  BY <1>5, <1>7 DEF Others, SameFds
<1>13. Good(b)
  BY <1>2, <1>8, <1>10, <1>11, <1>12
<1>14. Good(v)
  BY <1>2, <1>13
<1> HIDE DEF v
<1>15. Good(dropbear_exit(v))
  BY <1>14, ExitInv, FrameInv, KeepsTrans DEF Frame, SameFds
<1> QED BY <1>1, <1>14, <1>15

LEMMA PutType ==
    ASSUME NEW b, CbufType(b), NEW bytes \in Seq(Nat)
    PROVE  CbufType(cbuf_put(b, bytes)) /\ cbuf_put(b, bytes).used = b.used + Len(bytes)
<1> DEFINE dat == [p \in DOMAIN b.data |->
                     IF p - b.writepos \in 0..(Len(bytes) - 1) THEN bytes[p - b.writepos + 1] ELSE b.data[p]]
           u == [b EXCEPT !.data = dat, !.used = b.used + Len(bytes),
                          !.writepos = (b.writepos + Len(bytes)) % recv_window]
<1>1. cbuf_put(b, bytes) = u
  BY DEF cbuf_put
<1> HIDE DEF dat
<1>2. /\ DOMAIN b = {"data", "used", "readpos", "writepos"} /\ b.used \in Nat
      /\ b.readpos \in 0..(recv_window - 1) /\ b.writepos \in 0..(recv_window - 1)
  BY DEF CbufType
<1>3. Len(bytes) \in Nat /\ (b.writepos + Len(bytes)) % recv_window \in 0..(recv_window - 1)
  BY <1>2, Sizes
<1>4. /\ DOMAIN u = DOMAIN b /\ u.used = b.used + Len(bytes) /\ u.readpos = b.readpos
      /\ u.writepos = (b.writepos + Len(bytes)) % recv_window
  BY <1>2
<1> HIDE DEF u
<1> QED BY <1>1, <1>2, <1>3, <1>4 DEF CbufType

LEMMA AppendType ==
    ASSUME NEW b, CbufType(b), NEW bytes \in Seq(Nat)
    PROVE  CbufType(cbuf_append(b, bytes)) /\ cbuf_append(b, bytes).used = b.used + Len(bytes)
<1> DEFINE k == MIN(cbuf_writelen(b), Len(bytes))
           one == SubSeq(bytes, 1, k)
           two == SubSeq(bytes, k + 1, Len(bytes))
           c == cbuf_put(b, one)
<1>1. Len(bytes) \in Nat /\ cbuf_writelen(b) \in Nat
  BY Sizes DEF cbuf_writelen, CbufType
<1>2. k \in 0..Len(bytes)
  BY <1>1 DEF MIN
<1>3. cbuf_append(b, bytes) = cbuf_put(c, two)
  BY DEF cbuf_append
<1> HIDE DEF k
<1>4. one \in Seq(Nat) /\ Len(one) = k /\ two \in Seq(Nat) /\ Len(two) = Len(bytes) - k
  BY <1>1, <1>2
<1> HIDE DEF one, two
<1>5. CbufType(c) /\ c.used = b.used + k
  BY <1>4, PutType
<1> HIDE DEF c
<1>6. CbufType(cbuf_put(c, two)) /\ cbuf_put(c, two).used = b.used + k + Len(two)
  BY <1>4, <1>5, PutType
<1>7. b.used \in Nat
  BY DEF CbufType
<1> QED BY <1>1, <1>2, <1>3, <1>4, <1>6, <1>7

\* A packet takes from the window what it puts into the buffer.
LEMMA RecvData ==
    ASSUME NEW t, Inv(t), NEW bytes \in Seq(Nat)
    PROVE  LET u == common_recv_msg_channel_data(t, bytes)
           IN  Inv(u) /\ Keeps(t, u)
<1> DEFINE w == t.recvwindow - Len(bytes)
           a == [t EXCEPT !.recvwindow = w]
           u == writechannel(a)
           buf == cbuf_append(u.writebuf, bytes)
           acc == u.accepted \o bytes
           v == [u EXCEPT !.writebuf = buf, !.accepted = acc]
<1>1. common_recv_msg_channel_data(t, bytes) =
         IF t.recv_eof THEN dropbear_exit(t)
         ELSE IF t.writefd \in Closed THEN t
         ELSE IF Len(bytes) > cbuf_getavail(t.writebuf) \/ t.recvwindow < Len(bytes) THEN dropbear_exit(t)
         ELSE IF u.writefd \in Closed THEN u
         ELSE v
  BY DEF common_recv_msg_channel_data
<1>2. /\ Base(t) /\ DOMAIN t = Fields /\ CbufType(t.writebuf) /\ Len(bytes) \in Nat
      /\ t.recvwindow \in Int /\ t.recvdonelen \in Nat /\ t.pin \in 0..PipeSize /\ t.out \in Seq(MsgOut)
      /\ t.writebuf.used \in Nat
      /\ ~t.cmd => t.writebuf.used = 0 /\ t.writefd \in Closed
  BY DEF Inv, Base, ChType, CbufType, FdsOK, CommandOK
<1>3. Inv(dropbear_exit(t)) /\ Keeps(t, dropbear_exit(t)) /\ Keeps(t, t)
  BY <1>2, ExitInv DEF Keeps
<1>4. w \in Int
  BY <1>2
<1>5. /\ Others(t, a) /\ a.recvwindow = w /\ a.recvdonelen = t.recvdonelen /\ a.writebuf = t.writebuf
      /\ a.pin = t.pin /\ a.out = t.out
  BY <1>2 DEF Fields, Others, SameFds
<1> HIDE DEF a
<1>6. Base(a) /\ Keeps(t, a)
  BY <1>2, <1>4, <1>5, OthersInv
<1>7. Sum(a) = Sum(t) - Len(bytes)
  BY <1>2, <1>5 DEF Sum
<1>8. /\ Base(u) /\ Keeps(a, u) /\ Sum(u) = Sum(t) - Len(bytes) /\ u.cmd = t.cmd
      /\ u.writefd \in {t.writefd, "closed"}
  BY <1>5, <1>6, <1>7, WriteChannel DEF Others, SameFds
<1> HIDE DEF u
<1>9. Keeps(t, u)
  BY <1>6, <1>8, KeepsTrans
<1>10. Sum(t) \in Int /\ Sum(t) <= recv_window /\ (t.writefd \notin Closed => Sum(t) = recv_window)
  BY <1>2 DEF Inv, WindowOK, Sum
<1>11. ASSUME t.writefd \notin Closed, u.writefd \in Closed
       PROVE  Inv(u)
  BY <1>2, <1>8, <1>10, <1>11, Sizes DEF Inv, WindowOK
<1>12. ASSUME t.writefd \notin Closed
       PROVE  Inv(v) /\ Keeps(t, v)
  <2>1. /\ DOMAIN u = Fields /\ CbufType(u.writebuf) /\ u.recvwindow \in Int /\ u.recvdonelen \in Nat
        /\ u.pin \in 0..PipeSize /\ u.out \in Seq(MsgOut) /\ u.writebuf.used \in Nat
    BY <1>8 DEF Base, ChType, CbufType
  <2>2. CbufType(buf) /\ buf.used = u.writebuf.used + Len(bytes)
    BY <2>1, AppendType
  <2> HIDE DEF buf, acc
  <2>3. /\ Others(u, v) /\ v.recvwindow = u.recvwindow /\ v.recvdonelen = u.recvdonelen /\ v.writebuf = buf
        /\ v.pin = u.pin /\ v.out = u.out
    BY <2>1 DEF Fields, Others, SameFds
  <2> HIDE DEF v
  <2>4. Base(v) /\ Keeps(u, v)
    BY <1>2, <1>8, <1>12, <2>1, <2>2, <2>3, OthersInv
  <2>5. Sum(v) = Sum(u) + Len(bytes)
    BY <1>2, <2>1, <2>2, <2>3 DEF Sum
  <2>6. Sum(v) = recv_window
    BY <1>2, <1>8, <1>10, <1>12, <2>5, Sizes
  <2>7. WindowOK(v)
    BY <2>6, Sizes DEF WindowOK
  <2> QED BY <1>9, <2>4, <2>7, KeepsTrans DEF Inv
<1> HIDE DEF v
<1> QED BY <1>1, <1>3, <1>9, <1>11, <1>12

-----------------------------------------------------------------------------
(* Packets and the main loop. *)

LEMMA StartCommand ==
    ASSUME NEW t, Inv(t), ~t.cmd
    PROVE  Inv([(IF t.pty THEN ptycommand(t) ELSE noptycommand(t)) EXCEPT !.cmd = TRUE])
<1> DEFINE p == [t EXCEPT !.writefd = "master", !.readfd = "master",
                          !.kin = TRUE, !.kout = TRUE, !.child = "running", !.late = t.sent_eof]
           n == [t EXCEPT !.writefd = "in", !.readfd = "out", !.errfd = "err", !.kin = TRUE,
                          !.kout = TRUE, !.kerr = TRUE, !.child = "running", !.late = t.sent_eof]
           x == IF t.pty THEN p ELSE n
           u == [x EXCEPT !.cmd = TRUE]
<1>1. /\ DOMAIN t = Fields /\ ChType(t) /\ t.errfd = "closed" /\ ~t.exitpid /\ ~t.flushing
      /\ ~t.kerr /\ t.pty \in BOOLEAN
  BY DEF Inv, Base, ChType, FdsOK, CommandOK, Closed
<1>2. u = [(IF t.pty THEN ptycommand(t) ELSE noptycommand(t)) EXCEPT !.cmd = TRUE]
  BY DEF ptycommand, noptycommand
<1>3. /\ DOMAIN x = Fields
      /\ x.writebuf = t.writebuf /\ x.recvwindow = t.recvwindow /\ x.recvdonelen = t.recvdonelen
      /\ x.pty = t.pty /\ x.exitpid = t.exitpid /\ x.child = "running"
      /\ x.kout = TRUE /\ x.kerr \in BOOLEAN /\ x.perr = t.perr /\ x.pout = t.pout
      /\ x.flushing = t.flushing /\ x.recv_close = t.recv_close
      /\ x.transwindow = t.transwindow /\ x.pin = t.pin /\ x.out = t.out
      /\ t.pty => x.readfd = "master" /\ x.writefd = "master" /\ x.errfd = "closed"
      /\ ~t.pty => x.readfd = "out" /\ x.writefd = "in" /\ x.errfd = "err"
  <2>1. CASE t.pty
    <3>1. x = p
      BY <2>1
    <3>2. t.kerr \in BOOLEAN
      BY <1>1 DEF ChType
    <3> QED BY <1>1, <2>1, <3>1, <3>2 DEF Fields
  <2>2. CASE ~t.pty
    <3>1. x = n
      BY <2>2
    <3> QED BY <1>1, <2>2, <3>1 DEF Fields
  <2> QED BY <2>1, <2>2
<1> HIDE DEF x
<1>4. /\ DOMAIN u = Fields /\ u.cmd = TRUE
      /\ u.writebuf = t.writebuf /\ u.recvwindow = t.recvwindow /\ u.recvdonelen = t.recvdonelen
      /\ u.pty = t.pty /\ u.exitpid = t.exitpid /\ u.child = "running"
      /\ u.kout = TRUE /\ u.kerr \in BOOLEAN /\ u.perr = t.perr /\ u.pout = t.pout
      /\ u.flushing = t.flushing /\ u.recv_close = t.recv_close
      /\ u.transwindow = t.transwindow /\ u.pin = t.pin /\ u.out = t.out
      /\ t.pty => u.readfd = "master" /\ u.writefd = "master" /\ u.errfd = "closed"
      /\ ~t.pty => u.readfd = "out" /\ u.writefd = "in" /\ u.errfd = "err"
  BY <1>3 DEF Fields
<1> HIDE DEF u
<1>5. ChType(u)
  BY <1>1, <1>4 DEF ChType
<1>6. FdsOK(u)
  BY <1>1, <1>4 DEF FdsOK, Closed
<1>7. CommandOK(u)
  BY <1>1, <1>4 DEF CommandOK
<1>8. OutputOK(u)
  BY <1>4 DEF OutputOK
<1>9. WindowOK(u)
  <2>1. Sum(t) = recv_window
    BY DEF Inv, WindowOK
  <2>2. Sum(u) = Sum(t)
    BY <1>4 DEF Sum
  <2> QED BY <2>1, <2>2, Sizes DEF WindowOK
<1> QED BY <1>2, <1>5, <1>6, <1>7, <1>8, <1>9 DEF Inv, Base

LEMMA SessionCommand ==
    ASSUME NEW t, Inv(t), NEW spawned
    PROVE  Inv(sessioncommand(t, spawned)) /\ Keeps(t, sessioncommand(t, spawned))
<1> DEFINE x == [(IF t.pty THEN ptycommand(t) ELSE noptycommand(t)) EXCEPT !.cmd = TRUE]
<1>1. CASE t.cmd \/ ~spawned
  <2>1. sessioncommand(t, spawned) = send_reply(t, "FAILURE")
    BY <1>1 DEF sessioncommand
  <2> QED BY <2>1, ReplyInv, FrameKeeps
<1>2. CASE ~(t.cmd \/ ~spawned)
  <2>1. sessioncommand(t, spawned) = send_reply(x, "SUCCESS")
    BY <1>2 DEF sessioncommand
  <2>2. Inv(x)
    BY <1>2, StartCommand
  <2> HIDE DEF x
  <2> QED BY <1>2, <2>1, <2>2, ReplyInv DEF Keeps, ReadOK, ErrOK
<1> QED BY <1>1, <1>2

LEMMA RecvClose ==
    ASSUME NEW t, Inv(t)
    PROVE  Inv(recv_msg_channel_close(t)) /\ Keeps(t, recv_msg_channel_close(t))
<1> DEFINE u == [t EXCEPT !.recv_eof = TRUE, !.recv_close = TRUE]
<1>1. DOMAIN t = Fields /\ ChType(t)
  BY DEF Inv, Base, ChType
<1>2. /\ DOMAIN u = Fields
      /\ u.writebuf = t.writebuf /\ u.recvwindow = t.recvwindow /\ u.recvdonelen = t.recvdonelen
      /\ u.pty = t.pty /\ u.cmd = t.cmd /\ u.exitpid = t.exitpid /\ u.child = t.child
      /\ u.kout = t.kout /\ u.kerr = t.kerr /\ u.perr = t.perr /\ u.pout = t.pout
      /\ u.flushing = t.flushing /\ u.recv_close = TRUE
      /\ u.transwindow = t.transwindow /\ u.pin = t.pin /\ u.out = t.out /\ SameFds(t, u)
  BY <1>1 DEF Fields, SameFds
<1>3. recv_msg_channel_close(t) = check_close(u)
  BY DEF recv_msg_channel_close
<1> HIDE DEF u
<1>4. ChType(u)
  BY <1>1, <1>2 DEF ChType
<1>5. FdsOK(u)
  BY <1>2 DEF Inv, Base, FdsOK, SameFds
<1>6. CommandOK(u)
  BY <1>2 DEF Inv, Base, CommandOK
<1>7. OutputOK(u)
  BY <1>2 DEF OutputOK
<1>8. WindowOK(u)
  BY <1>2 DEF Inv, WindowOK, Sum, SameFds
<1>9. Keeps(t, u)
  BY <1>2 DEF Keeps, ReadOK, ErrOK
<1>10. Inv(u)
  BY <1>4, <1>5, <1>6, <1>7, <1>8 DEF Inv, Base
<1> QED BY <1>3, <1>9, <1>10, CheckClose, KeepsTrans

LEMMA RecvEof ==
    ASSUME NEW t, Inv(t)
    PROVE  Inv(recv_msg_channel_eof(t)) /\ Keeps(t, recv_msg_channel_eof(t))
<1> DEFINE u == [t EXCEPT !.recv_eof = TRUE]
<1>1. Inv(u) /\ Keeps(t, u)
  BY FlagInv DEF Inv
<1>2. recv_msg_channel_eof(t) = check_close(u)
  BY DEF recv_msg_channel_eof
<1> HIDE DEF u
<1> QED BY <1>1, <1>2, CheckClose, KeepsTrans

LEMMA RecvAdjust ==
    ASSUME NEW t, Inv(t), NEW n \in Nat
    PROVE  LET u == recv_msg_channel_window_adjust(t, n)
           IN  Inv(u) /\ Keeps(t, u)
<1>1. Base(t) /\ t.transwindow + n \in Nat
  BY DEF Inv, Base, ChType
<1>2. recv_msg_channel_window_adjust(t, n) = [t EXCEPT !.transwindow = t.transwindow + n]
  BY DEF recv_msg_channel_window_adjust
<1> QED BY <1>1, <1>2, WindowField

LEMMA ProcessPacket ==
    ASSUME NEW t, Inv(t), NEW m \in MsgIn, NEW spawned
    PROVE  Inv(process_packet(t, m, spawned)) /\ Keeps(t, process_packet(t, m, spawned))
<1> DEFINE u == process_packet(t, m, spawned)
<1>1. CASE t.state # "open"
  BY <1>1, ExitInv DEF process_packet, Inv
<1>2. CASE t.state = "open"
  <2>1. CASE m.type = "REQUEST"
    <3>1. u = sessioncommand(t, spawned)
      BY <1>2, <2>1 DEF process_packet
    <3> QED BY <3>1, SessionCommand
  <2>2. CASE m.type = "DATA"
    <3>1. u = common_recv_msg_channel_data(t, m.bytes)
      BY <1>2, <2>2 DEF process_packet
    <3>2. m.bytes \in Seq(Nat)
      BY <2>2 DEF MsgIn
    <3> QED BY <3>1, <3>2, RecvData
  <2>3. CASE m.type = "ADJUST"
    <3>1. u = recv_msg_channel_window_adjust(t, m.n)
      BY <1>2, <2>3 DEF process_packet
    <3>2. m.n \in Nat
      BY <2>3 DEF MsgIn
    <3> QED BY <3>1, <3>2, RecvAdjust
  <2>4. CASE m.type = "EOF"
    <3>1. u = recv_msg_channel_eof(t)
      BY <1>2, <2>4 DEF process_packet
    <3> QED BY <3>1, RecvEof
  <2>5. CASE m.type = "CLOSE"
    <3>1. u = recv_msg_channel_close(t)
      BY <1>2, <2>5 DEF process_packet
    <3> QED BY <3>1, RecvClose
  <2>6. m.type \in {"REQUEST", "DATA", "ADJUST", "EOF", "CLOSE"}
    BY DEF MsgIn
  <2> QED BY <2>1, <2>2, <2>3, <2>4, <2>5, <2>6
<1> QED BY <1>1, <1>2

\* The command ends, or somebody closes its output.
LEMMA WritersGone ==
    ASSUME NEW t, Inv(t), NEW u, DOMAIN u = Fields,
           u.writebuf = t.writebuf, u.recvwindow = t.recvwindow, u.recvdonelen = t.recvdonelen,
           u.pty = t.pty, u.cmd = t.cmd, u.perr = t.perr, u.pout = t.pout,
           u.flushing = t.flushing, u.recv_close = t.recv_close, u.transwindow = t.transwindow,
           u.pin = t.pin, u.out = t.out, SameFds(t, u),
           u.kout \in BOOLEAN, u.kerr \in BOOLEAN, u.kout => t.kout, u.kerr => t.kerr,
           u.exitpid \in BOOLEAN, u.exitpid => u.child = "reaped", t.exitpid => u.exitpid,
           u.child \in {"zombie", "reaped"} => ~u.kout /\ ~u.kerr,
           u.child = t.child \/ t.child # "none"
    PROVE  Inv(u) /\ Keeps(t, u)
<1>1. ChType(u)
  BY DEF Inv, Base, ChType
<1>2. FdsOK(u)
  BY DEF Inv, Base, FdsOK, SameFds
<1>3. CommandOK(u)
  BY DEF Inv, Base, CommandOK
<1>4. OutputOK(u)
  BY DEF Inv, Base, OutputOK, SameFds
<1>5. WindowOK(u)
  BY DEF Inv, WindowOK, Sum, SameFds
<1>6. Keeps(t, u)
  BY DEF Keeps, ReadOK, ErrOK
<1> QED BY <1>1, <1>2, <1>3, <1>4, <1>5, <1>6 DEF Inv, Base

LEMMA CheckSignal ==
    ASSUME NEW t, Inv(t)
    PROVE  Inv(svr_chansess_checksignal(t)) /\ Keeps(t, svr_chansess_checksignal(t))
<1> DEFINE u == [t EXCEPT !.child = "reaped", !.exitpid = TRUE]
<1>1. CASE t.child = "zombie"
  <2>1. DOMAIN t = Fields /\ t.kout \in BOOLEAN /\ t.kerr \in BOOLEAN /\ ~t.kout /\ ~t.kerr
    BY <1>1 DEF Inv, Base, ChType, CommandOK
  <2>2. /\ DOMAIN u = Fields
        /\ u.writebuf = t.writebuf /\ u.recvwindow = t.recvwindow /\ u.recvdonelen = t.recvdonelen
        /\ u.pty = t.pty /\ u.cmd = t.cmd /\ u.exitpid = TRUE /\ u.child = "reaped"
        /\ u.kout = t.kout /\ u.kerr = t.kerr /\ u.perr = t.perr /\ u.pout = t.pout
        /\ u.flushing = t.flushing /\ u.recv_close = t.recv_close
        /\ u.transwindow = t.transwindow /\ u.pin = t.pin /\ u.out = t.out /\ SameFds(t, u)
    BY <2>1 DEF Fields, SameFds
  <2>3. svr_chansess_checksignal(t) = u
    BY <1>1 DEF svr_chansess_checksignal
  <2> HIDE DEF u
  <2> QED BY <1>1, <2>1, <2>2, <2>3, WritersGone
<1>2. CASE t.child # "zombie"
  BY <1>2 DEF svr_chansess_checksignal, Keeps
<1> QED BY <1>1, <1>2

LEMMA ChannelIO ==
    ASSUME NEW t, Inv(t), NEW R, "read" \in R => ReadOK(t), "err" \in R => ErrOK(t)
    PROVE  Inv(channelio(t, R))
<1> DEFINE u == IF "read" \in R /\ t.readfd \notin Closed THEN send_msg_channel_data(t, "out") ELSE t
           v == IF "err" \in R /\ u.errfd \notin Closed THEN send_msg_channel_data(u, "err") ELSE u
           w == IF "write" \in R /\ v.writefd \notin Closed THEN writechannel(v) ELSE v
<1>1. channelio(t, R) =
        IF t.state = "open" /\ R \cap {"read", "err", "write", "signal"} # {} THEN check_close(w) ELSE t
  BY DEF channelio
<1>2. Inv(u) /\ (ErrOK(t) => ErrOK(u))
  <2>1. ASSUME ReadOK(t)
        PROVE  LET x == send_msg_channel_data(t, "out") IN Inv(x) /\ (ErrOK(t) => ErrOK(x))
    <3>1. Pending(t, "out") > 0 \/ ~Writers(t, "out")
      BY <2>1 DEF ReadOK, Pending, Writers
    <3> QED BY <3>1, DataInv DEF ErrOK
  <2> QED BY <2>1
<1> HIDE DEF u
<1>3. Inv(v)
  <2>1. ASSUME ErrOK(u)
        PROVE  Inv(send_msg_channel_data(u, "err"))
    <3>1. Pending(u, "err") > 0 \/ ~Writers(u, "err")
      BY <2>1 DEF ErrOK, Pending, Writers
    <3> QED BY <1>2, <3>1, DataInv
  <2> QED BY <1>2, <2>1
<1> HIDE DEF v
<1>4. Inv(w)
  <2> DEFINE x == writechannel(v)
  <2>1. Base(v) /\ WindowOK(v)
    BY <1>3 DEF Inv
  <2>2. Base(x) /\ Sum(x) = Sum(v) /\ x.cmd = v.cmd /\ x.writefd \in {v.writefd, "closed"}
    BY <2>1, WriteChannel
  <2> HIDE DEF x
  <2>3. WindowOK(x)
    BY <2>1, <2>2 DEF WindowOK, Closed
  <2>4. Inv(x)
    BY <2>2, <2>3 DEF Inv
  <2> QED BY <1>3, <2>4 DEF x
<1> HIDE DEF w
<1> QED BY <1>1, <1>4, CheckClose

-----------------------------------------------------------------------------
(* The specification. *)

ClType ==
    /\ DOMAIN cl = {"asked", "waiting", "started", "sent", "left", "window", "eof", "close",
                    "granted", "owed", "got"}
    /\ cl.sent \in Nat /\ cl.owed \in Nat

\* What select() reported still holds when the round uses it.
FdsStillReady ==
    /\ "socket" \in fds => inq # <<>>
    /\ "read" \in fds => ReadOK(s)
    /\ "err" \in fds => ErrOK(s)

ChannelInv ==
    /\ Inv(s) /\ ClType /\ FdsStillReady
    /\ inq \in Seq(MsgIn) /\ outq \in Seq(MsgOut)

LEMMA InitInv == Init => ChannelInv
<1> SUFFICES ASSUME Init PROVE ChannelInv
  OBVIOUS
<1>1. PICK pty \in Pty, bytes \in Traffic :
       /\ s = [state |-> "open", pty |-> pty,
              readfd |-> "uninit", errfd |-> "closed", writefd |-> "uninit",
              writebuf |-> cbuf_new, recvwindow |-> recv_window, recvdonelen |-> 0,
              transwindow |-> TransWindow,
              sent_eof |-> FALSE, sent_close |-> FALSE, recv_eof |-> FALSE, recv_close |-> FALSE,
              flushing |-> FALSE, cmd |-> FALSE, exitpid |-> FALSE, unnamed |-> FALSE,
              child |-> "none", signal |-> FALSE,
              kin |-> FALSE, kout |-> FALSE, kerr |-> FALSE,
              pin |-> 0, pout |-> 0, perr |-> 0, left |-> bytes[2], late |-> FALSE,
              accepted |-> <<>>, delivered |-> <<>>, out |-> <<>>]
       /\ cl = [asked |-> 0, waiting |-> FALSE, started |-> FALSE, sent |-> 0, left |-> bytes[1],
                window |-> recv_window, eof |-> FALSE, close |-> FALSE, granted |-> TransWindow, owed |-> 0, got |-> {}]
  BY DEF Init
<1>2. pty \in BOOLEAN
  BY ChannelAssumption
<1>3. /\ DOMAIN s = Fields /\ s.pty = pty /\ s.readfd = "uninit" /\ s.errfd = "closed" /\ s.writefd = "uninit"
      /\ s.writebuf = cbuf_new /\ s.recvwindow = recv_window /\ s.recvdonelen = 0
      /\ s.transwindow = TransWindow /\ s.recv_close = FALSE /\ s.flushing = FALSE /\ s.cmd = FALSE
      /\ s.exitpid = FALSE /\ s.child = "none" /\ s.kout = FALSE /\ s.kerr = FALSE
      /\ s.pin = 0 /\ s.pout = 0 /\ s.perr = 0 /\ s.out = <<>>
  BY <1>1 DEF Fields
<1>4. ChType(s)
  <2>1. 0 \in 0..PipeSize /\ <<>> \in Seq(MsgOut) /\ recv_window \in Int
    BY Sizes
  <2>2. CbufType(s.writebuf)
    BY <1>3, NewBuffer
  <2>3. s.out \in Seq(MsgOut) /\ s.pin \in 0..PipeSize /\ s.recvwindow \in Int
    BY <1>3, <2>1
  <2>4. s.pout \in Nat /\ s.perr \in Nat /\ s.recvdonelen \in Nat /\ s.transwindow \in Nat
    BY <1>3, Sizes
  <2>5. /\ s.pty \in BOOLEAN /\ s.cmd \in BOOLEAN /\ s.kout \in BOOLEAN /\ s.kerr \in BOOLEAN
        /\ s.flushing \in BOOLEAN /\ s.exitpid \in BOOLEAN /\ s.recv_close \in BOOLEAN
    BY <1>2, <1>3
  <2> QED BY <1>3, <2>2, <2>3, <2>4, <2>5 DEF ChType
<1>5. FdsOK(s) /\ CommandOK(s) /\ OutputOK(s)
  BY <1>3, NewBuffer DEF FdsOK, CommandOK, OutputOK, Closed
<1>6. WindowOK(s)
  BY <1>3, NewBuffer, Sizes DEF WindowOK, Sum
<1>7. ClType
  BY <1>1 DEF ClType
<1>8. FdsStillReady /\ inq \in Seq(MsgIn) /\ outq \in Seq(MsgOut)
  BY DEF Init, FdsStillReady
<1> QED BY <1>4, <1>5, <1>6, <1>7, <1>8 DEF ChannelInv, Inv, Base

LEMMA SelectInv == ChannelInv /\ Select => ChannelInv'
<1> SUFFICES ASSUME ChannelInv, Select PROVE ChannelInv'
  OBVIOUS
<1>1. fds' = Ready /\ UNCHANGED <<s, cl, inq, outq>>
  BY DEF Select
<1>2. "socket" \in Ready => inq # <<>>
  BY DEF Ready
<1>3. "read" \in Ready => s.readfd \notin Closed /\ (s.pout > 0 \/ ~s.kout)
  BY DEF Ready
<1>4. "err" \in Ready => s.errfd \notin Closed /\ (s.perr > 0 \/ ~s.kerr)
  BY DEF Ready
<1>5. ~s.cmd => s.readfd \in Closed /\ s.errfd \in Closed
  BY DEF ChannelInv, Inv, Base, FdsOK
<1>6. FdsStillReady'
  BY <1>1, <1>2, <1>3, <1>4, <1>5 DEF FdsStillReady, ReadOK, ErrOK
<1> QED BY <1>1, <1>6 DEF ChannelInv, ClType

LEMMA RoundInv == ChannelInv /\ Round => ChannelInv'
<1> SUFFICES ASSUME ChannelInv, Round PROVE ChannelInv'
  OBVIOUS
<1>1. PICK spawned \in BOOLEAN :
         LET t == IF "socket" \in fds THEN process_packet(s, Head(inq), spawned) ELSE s
             u == IF "signal" \in fds THEN svr_chansess_checksignal([t EXCEPT !.signal = FALSE]) ELSE t
             v == channelio(u, fds)
         IN  s' = [v EXCEPT !.out = <<>>] /\ outq' = outq \o v.out
  BY DEF Round
<1> DEFINE t == IF "socket" \in fds THEN process_packet(s, Head(inq), spawned) ELSE s
           q == [t EXCEPT !.signal = FALSE]
           u == IF "signal" \in fds THEN svr_chansess_checksignal(q) ELSE t
           v == channelio(u, fds)
<1>2. s' = [v EXCEPT !.out = <<>>] /\ outq' = outq \o v.out
  BY <1>1
<1>3. Inv(t) /\ Keeps(s, t)
  <2>1. CASE "socket" \in fds
    <3>1. Head(inq) \in MsgIn
      BY <2>1 DEF ChannelInv, FdsStillReady
    <3> QED BY <2>1, <3>1, ProcessPacket DEF ChannelInv
  <2>2. CASE "socket" \notin fds
    BY <2>2 DEF ChannelInv, Keeps
  <2> QED BY <2>1, <2>2
<1> HIDE DEF t
<1>4. Inv(q) /\ Keeps(t, q)
  BY <1>3, FlagInv DEF Inv
<1> HIDE DEF q
<1>5. Inv(u) /\ Keeps(s, u)
  BY <1>3, <1>4, CheckSignal, KeepsTrans
<1> HIDE DEF u
<1>6. ("read" \in fds => ReadOK(u)) /\ ("err" \in fds => ErrOK(u))
  BY <1>5 DEF ChannelInv, FdsStillReady, Keeps
<1>7. Inv(v)
  BY <1>5, <1>6, ChannelIO
<1> HIDE DEF v
<1> DEFINE e == [v EXCEPT !.out = <<>>]
<1>8. Inv(e)
  <2>1. DOMAIN v = Fields /\ Base(v) /\ ChType(v)
    BY <1>7 DEF Inv, Base, ChType
  <2>2. Frame(v, e)
    BY <2>1 DEF Fields, Frame, ChType
  <2>3. SameFds(v, e)
    BY <2>1 DEF Fields, SameFds
  <2> HIDE DEF e
  <2> QED BY <1>7, <2>1, <2>2, <2>3, FrameInv
<1>9. s' = e
  BY <1>2
<1> HIDE DEF e
<1>10. Inv(s)'
  BY <1>8, <1>9
<1>11. outq' \in Seq(MsgOut)
  <2>1. v.out \in Seq(MsgOut) /\ outq \in Seq(MsgOut)
    BY <1>7 DEF Inv, Base, ChType, ChannelInv
  <2> QED BY <1>2, <2>1
<1>12. inq' \in Seq(MsgIn)
  BY DEF Round, ChannelInv, FdsStillReady
<1>13. FdsStillReady' /\ ClType'
  BY DEF Round, ChannelInv, FdsStillReady, ClType
<1> QED BY <1>10, <1>11, <1>12, <1>13 DEF ChannelInv

LEMMA ClientInv == ChannelInv /\ Client => ChannelInv'
<1> SUFFICES ASSUME ChannelInv, Client PROVE ChannelInv'
  OBVIOUS
<1>1. ASSUME NEW m \in MsgIn, Put(m), ClType'
      PROVE  ChannelInv'
  <2>1. inq' = Append(inq, m) /\ UNCHANGED <<s, fds, outq>>
    BY <1>1 DEF Put
  <2>2. inq' \in Seq(MsgIn) /\ inq' # <<>>
    BY <2>1 DEF ChannelInv
  <2>3. FdsStillReady'
    BY <2>1, <2>2 DEF ChannelInv, FdsStillReady
  <2> QED BY <1>1, <2>1, <2>2, <2>3 DEF ChannelInv
<1>2. CASE Ask
  <2>1. [type |-> "REQUEST"] \in MsgIn
    BY DEF MsgIn
  <2>2. ClType'
    BY <1>2 DEF Ask, ChannelInv, ClType
  <2> QED BY <1>1, <1>2, <2>1, <2>2 DEF Ask
<1>3. CASE SendData
  <2>1. PICK n \in Chunk :
           /\ Put([type |-> "DATA", bytes |-> [i \in 1..n |-> cl.sent + i]])
           /\ cl' = [cl EXCEPT !.sent = @ + n, !.left = @ - n, !.window = @ - n]
    BY <1>3 DEF SendData
  <2>2. n \in Nat /\ cl.sent \in Nat
    BY ChannelAssumption DEF ChannelInv, ClType
  <2>3. [i \in 1..n |-> cl.sent + i] \in Seq(Nat)
    BY <2>2
  <2>4. [type |-> "DATA", bytes |-> [i \in 1..n |-> cl.sent + i]] \in MsgIn
    BY <2>3 DEF MsgIn
  <2>5. ClType'
    BY <2>1, <2>2 DEF ChannelInv, ClType
  <2> QED BY <1>1, <2>1, <2>4, <2>5
<1>4. CASE SendEof
  <2>1. [type |-> "EOF"] \in MsgIn
    BY DEF MsgIn
  <2>2. ClType'
    BY <1>4 DEF SendEof, ChannelInv, ClType
  <2> QED BY <1>1, <1>4, <2>1, <2>2 DEF SendEof
<1>5. CASE SendClose
  <2>1. [type |-> "CLOSE"] \in MsgIn
    BY DEF MsgIn
  <2>2. ClType'
    BY <1>5 DEF SendClose, ChannelInv, ClType
  <2> QED BY <1>1, <1>5, <2>1, <2>2 DEF SendClose
<1>6. CASE SendAdjust
  <2>1. [type |-> "ADJUST", n |-> cl.owed] \in MsgIn
    BY DEF MsgIn, ChannelInv, ClType
  <2>2. ClType'
    BY <1>6 DEF SendAdjust, ChannelInv, ClType
  <2> QED BY <1>1, <1>6, <2>1, <2>2 DEF SendAdjust
<1>7. CASE Receive
  <2> DEFINE m == Head(outq)
  <2>1. m \in MsgOut /\ outq' \in Seq(MsgOut) /\ UNCHANGED <<s, fds, inq>>
    BY <1>7 DEF Receive, ChannelInv
  <2>2. cl' = CASE m.type = "DATA"    -> [cl EXCEPT !.granted = @ - m.n, !.owed = @ + m.n]
                [] m.type = "ADJUST"  -> [cl EXCEPT !.window = @ + m.n]
                [] m.type = "SUCCESS" -> [cl EXCEPT !.waiting = FALSE, !.started = TRUE]
                [] m.type = "FAILURE" -> [cl EXCEPT !.waiting = FALSE]
                [] OTHER              -> [cl EXCEPT !.got = @ \cup {m.type}]
    BY <1>7 DEF Receive
  <2> HIDE DEF m
  <2>3. m.type = "DATA" => m.n \in Nat
    BY <2>1 DEF MsgOut
  <2>4. ClType'
    <3>1. CASE m.type = "DATA"
      <4>1. cl' = [cl EXCEPT !.granted = @ - m.n, !.owed = @ + m.n]
        BY <2>2, <3>1
      <4> QED BY <2>3, <3>1, <4>1 DEF ChannelInv, ClType
    <3>2. CASE m.type = "ADJUST"
      <4>1. cl' = [cl EXCEPT !.window = @ + m.n]
        BY <2>2, <3>2
      <4> QED BY <4>1 DEF ChannelInv, ClType
    <3>3. CASE m.type = "SUCCESS"
      <4>1. cl' = [cl EXCEPT !.waiting = FALSE, !.started = TRUE]
        BY <2>2, <3>3
      <4> QED BY <4>1 DEF ChannelInv, ClType
    <3>4. CASE m.type = "FAILURE"
      <4>1. cl' = [cl EXCEPT !.waiting = FALSE]
        BY <2>2, <3>4
      <4> QED BY <4>1 DEF ChannelInv, ClType
    <3>5. CASE m.type \notin {"DATA", "ADJUST", "SUCCESS", "FAILURE"}
      <4>1. cl' = [cl EXCEPT !.got = @ \cup {m.type}]
        BY <2>2, <3>5
      <4> QED BY <4>1 DEF ChannelInv, ClType
    <3> QED BY <3>1, <3>2, <3>3, <3>4, <3>5
  <2>5. FdsStillReady'
    BY <2>1 DEF ChannelInv, FdsStillReady
  <2> QED BY <2>1, <2>4, <2>5 DEF ChannelInv
<1> QED BY <1>2, <1>3, <1>4, <1>5, <1>6, <1>7 DEF Client

\* The command writes.
LEMMA MoreOutput ==
    ASSUME NEW t, Inv(t), NEW stream \in {"out", "err"}, Fd(t, stream) \notin Closed
    PROVE  Inv(Take(t, stream, -1)) /\ Keeps(t, Take(t, stream, -1))
<1> SUFFICES ASSUME NEW a, a = Take(t, stream, -1)
             PROVE  Inv(a) /\ Keeps(t, a)
  OBVIOUS
<1>1. /\ t.pout \in Nat /\ t.perr \in Nat
      /\ ~t.cmd => t.readfd \in Closed /\ t.errfd \in Closed
  BY DEF Inv, Base, ChType, FdsOK
<1>2. CASE stream = "out"
  <2>1. PICK p \in Nat : p = t.pout - (-1)
    BY <1>1
  <2>2. a = [t EXCEPT !.pout = p]
    BY <1>2, <2>1 DEF Take
  <2>3. t.cmd /\ t.readfd # "closed"
    BY <1>1, <1>2 DEF Fd, Closed
  <2>4. p > t.pout => t.cmd /\ t.readfd # "closed"
    BY <2>3
  <2>5. Inv(a) /\ a.pout = p /\ a.perr = t.perr /\ a.cmd = t.cmd /\ a.kerr = t.kerr
    BY <2>2, <2>4, PoutInv
  <2>6. p > 0
    BY <1>1, <2>1
  <2> QED BY <2>5, <2>6 DEF Keeps, ReadOK, ErrOK
<1>3. CASE stream = "err"
  <2>1. PICK p \in Nat : p = t.perr - (-1)
    BY <1>1
  <2>2. a = [t EXCEPT !.perr = p]
    BY <1>3, <2>1 DEF Take
  <2>3. t.cmd /\ t.errfd # "closed"
    BY <1>1, <1>3 DEF Fd, Closed
  <2>4. p > t.perr => t.cmd /\ t.errfd # "closed"
    BY <2>3
  <2>5. Inv(a) /\ a.perr = p /\ a.pout = t.pout /\ a.cmd = t.cmd /\ a.kout = t.kout
    BY <2>2, <2>4, PerrInv
  <2>6. p > 0
    BY <1>1, <2>1
  <2> QED BY <2>5, <2>6 DEF Keeps, ReadOK, ErrOK
<1> QED BY <1>2, <1>3

LEMMA CommandInv == ChannelInv /\ Command => ChannelInv'
<1> SUFFICES ASSUME ChannelInv, Command PROVE ChannelInv'
  OBVIOUS
<1>1. ASSUME NEW u, s' = u, Inv(u), Keeps(s, u), UNCHANGED <<cl, fds, inq, outq>>
      PROVE  ChannelInv'
  <2>1. FdsStillReady'
    BY <1>1 DEF ChannelInv, FdsStillReady, Keeps
  <2>2. ClType'
    BY <1>1 DEF ChannelInv, ClType
  <2> QED BY <1>1, <2>1, <2>2 DEF ChannelInv
<1>2. /\ Inv(s) /\ Base(s) /\ DOMAIN s = Fields /\ s.pout \in Nat /\ s.perr \in Nat /\ s.pin \in 0..PipeSize
      /\ s.recvwindow \in Int /\ s.recvdonelen \in Nat /\ s.out \in Seq(MsgOut) /\ CbufType(s.writebuf)
      /\ s.kout \in BOOLEAN /\ s.kerr \in BOOLEAN /\ s.exitpid \in BOOLEAN
      /\ ~s.cmd => s.readfd \in Closed /\ s.errfd \in Closed /\ s.writebuf.used = 0
      /\ s.exitpid => s.child = "reaped"
  BY DEF ChannelInv, Inv, Base, ChType, FdsOK, CommandOK
<1>3. ASSUME NEW stream \in {"out", "err"}, CommandWrite(stream)
      PROVE  ChannelInv'
  <2> DEFINE a == Take(s, stream, -1)
             u == [a EXCEPT !.left = a.left - 1]
  <2>1. Fd(s, stream) \notin Closed /\ s' = [Take(s, stream, -1) EXCEPT !.left = @ - 1]
        /\ UNCHANGED <<cl, fds, inq, outq>>
    BY <1>3 DEF CommandWrite
  <2>2. Inv(a) /\ Keeps(s, a)
    BY <1>2, <2>1, MoreOutput
  <2>3. s' = u
    BY <2>1
  <2> HIDE DEF a
  <2>4. Inv(u) /\ Keeps(a, u)
    BY <2>2, FlagInv DEF Inv
  <2> HIDE DEF u
  <2>5. Keeps(s, u)
    BY <2>2, <2>4, KeepsTrans
  <2> QED BY <1>1, <2>1, <2>3, <2>4, <2>5
<1>4. CASE CommandRead
  <2> DEFINE u == [s EXCEPT !.pin = 0]
  <2>1. s' = u /\ UNCHANGED <<cl, fds, inq, outq>>
    BY <1>4 DEF CommandRead
  <2>2. /\ Others(s, u) /\ u.pin = 0 /\ u.writebuf = s.writebuf /\ u.recvwindow = s.recvwindow
        /\ u.recvdonelen = s.recvdonelen /\ u.out = s.out
    BY <1>2 DEF Fields, Others, SameFds
  <2> HIDE DEF u
  <2>3. 0 \in 0..PipeSize
    BY Sizes
  <2>4. Base(u) /\ Keeps(s, u)
    BY <1>2, <2>2, <2>3, OthersInv
  <2>5. WindowOK(u)
    BY <1>2, <2>2 DEF Inv, WindowOK, Sum, Others, SameFds
  <2> QED BY <1>1, <2>1, <2>4, <2>5 DEF Inv
<1>5. CASE CommandCloses
  <2>1. s.child = "running" /\ UNCHANGED <<cl, fds, inq, outq>>
    BY <1>5 DEF CommandCloses
  <2>2. CASE s' = [s EXCEPT !.kin = FALSE]
    <3> DEFINE u == [s EXCEPT !.kin = FALSE]
    <3>1. Inv(u) /\ Keeps(s, u)
      BY <1>2, FlagInv
    <3> HIDE DEF u
    <3> QED BY <1>1, <2>1, <2>2, <3>1 DEF u
  <2>3. CASE s' = [s EXCEPT !.kout = FALSE]
    <3> DEFINE u == [s EXCEPT !.kout = FALSE]
    <3>1. /\ DOMAIN u = Fields
          /\ u.writebuf = s.writebuf /\ u.recvwindow = s.recvwindow /\ u.recvdonelen = s.recvdonelen
          /\ u.pty = s.pty /\ u.cmd = s.cmd /\ u.exitpid = s.exitpid /\ u.child = s.child
          /\ u.kout = FALSE /\ u.kerr = s.kerr /\ u.perr = s.perr /\ u.pout = s.pout
          /\ u.flushing = s.flushing /\ u.recv_close = s.recv_close
          /\ u.transwindow = s.transwindow /\ u.pin = s.pin /\ u.out = s.out /\ SameFds(s, u)
      BY <1>2 DEF Fields, SameFds
    <3>2. s' = u
      BY <2>3
    <3> HIDE DEF u
    <3>3. Inv(u) /\ Keeps(s, u)
      BY <1>2, <2>1, <3>1, WritersGone
    <3> QED BY <1>1, <2>1, <3>2, <3>3
  <2>4. CASE s' = [s EXCEPT !.kerr = FALSE]
    <3> DEFINE u == [s EXCEPT !.kerr = FALSE]
    <3>1. /\ DOMAIN u = Fields
          /\ u.writebuf = s.writebuf /\ u.recvwindow = s.recvwindow /\ u.recvdonelen = s.recvdonelen
          /\ u.pty = s.pty /\ u.cmd = s.cmd /\ u.exitpid = s.exitpid /\ u.child = s.child
          /\ u.kout = s.kout /\ u.kerr = FALSE /\ u.perr = s.perr /\ u.pout = s.pout
          /\ u.flushing = s.flushing /\ u.recv_close = s.recv_close
          /\ u.transwindow = s.transwindow /\ u.pin = s.pin /\ u.out = s.out /\ SameFds(s, u)
      BY <1>2 DEF Fields, SameFds
    <3>2. s' = u
      BY <2>4
    <3> HIDE DEF u
    <3>3. Inv(u) /\ Keeps(s, u)
      BY <1>2, <2>1, <3>1, WritersGone
    <3> QED BY <1>1, <2>1, <3>2, <3>3
  <2> QED BY <1>5, <2>2, <2>3, <2>4 DEF CommandCloses
<1>6. CASE CommandExit
  <2>0. PICK unnamed \in BOOLEAN :
          s' = [s EXCEPT !.child = "zombie", !.signal = TRUE, !.kin = FALSE, !.kout = FALSE, !.kerr = FALSE,
                         !.unnamed = unnamed]
    BY <1>6 DEF CommandExit
  <2> DEFINE u == [s EXCEPT !.child = "zombie", !.signal = TRUE, !.kin = FALSE, !.kout = FALSE, !.kerr = FALSE,
                            !.unnamed = unnamed]
  <2>1. s.child = "running" /\ s' = u /\ UNCHANGED <<cl, fds, inq, outq>>
    BY <1>6, <2>0 DEF CommandExit
  <2>2. /\ DOMAIN u = Fields
        /\ u.writebuf = s.writebuf /\ u.recvwindow = s.recvwindow /\ u.recvdonelen = s.recvdonelen
        /\ u.pty = s.pty /\ u.cmd = s.cmd /\ u.exitpid = s.exitpid /\ u.child = "zombie"
        /\ u.kout = FALSE /\ u.kerr = FALSE /\ u.perr = s.perr /\ u.pout = s.pout
        /\ u.flushing = s.flushing /\ u.recv_close = s.recv_close
        /\ u.transwindow = s.transwindow /\ u.pin = s.pin /\ u.out = s.out /\ SameFds(s, u)
    BY <1>2 DEF Fields, SameFds
  <2> HIDE DEF u
  <2>3. ~s.exitpid
    BY <1>2, <2>1
  <2>4. Inv(u) /\ Keeps(s, u)
    BY <1>2, <2>1, <2>2, <2>3, WritersGone
  <2> QED BY <1>1, <2>1, <2>4
<1> QED BY <1>3, <1>4, <1>5, <1>6 DEF Command

\* The inductive invariant of the channel: where the bytes of the window are, which
\* descriptors it can have, what the exit of the command means, and that what
\* select() reported still holds when the round uses it.
THEOREM Invariance == Spec => []ChannelInv
<1>1. ASSUME ChannelInv, [Next]_vars PROVE ChannelInv'
  <2>1. CASE Select
    BY <1>1, <2>1, SelectInv
  <2>2. CASE Round
    BY <1>1, <2>2, RoundInv
  <2>3. CASE Client
    BY <1>1, <2>3, ClientInv
  <2>4. CASE Command
    BY <1>1, <2>4, CommandInv
  <2>5. CASE UNCHANGED vars
    BY <1>1, <2>5 DEF vars, ChannelInv, ClType, FdsStillReady
  <2> QED BY <1>1, <2>1, <2>2, <2>3, <2>4, <2>5 DEF Next
<1> QED BY <1>1, InitInv, PTL DEF Spec

\* common_recv_msg_channel_data() and writechannel() lose no byte of the window and
\* give none back twice, in windows, packets and pipes of every size.
THEOREM WindowIsAccounted == Spec => []WindowAccounted
<1>1. ChannelInv => WindowAccounted
  BY DEF ChannelInv, Inv, WindowOK, Sum, WindowAccounted
<1> QED BY <1>1, Invariance, PTL

\* send_msg_channel_data() and check_close() do not cut off the output of a command
\* with pipes, however the exit, the SIGCHLD, the window and the reads interleave.
THEOREM OutputIsComplete == Spec => []OutputComplete
<1>1. ChannelInv => OutputComplete
  BY DEF ChannelInv, Inv, Base, OutputOK, OutputComplete
<1> QED BY <1>1, Invariance, PTL
=============================================================================
