-------------------------- MODULE ChannelPeerProofs --------------------------
(***************************************************************************)
(* Proofs about Channel and its peer: the server and a client that keeps   *)
(* to the protocol agree on both windows, neither the client nor an        *)
(* assertion ends the session, the client sees an orderly end, and the     *)
(* ring buffer delivers what it accepted.                                  *)
(***************************************************************************)
EXTENDS ChannelProofs, SeqLemmas

\* The end of the channel as far as the server went: what CLOSE and EOF stand for.
FlagsOK(t) ==
    /\ t.sent_close => /\ t.exitpid /\ t.sent_eof
                       /\ t.readfd = "closed" /\ t.errfd = "closed" /\ t.writefd = "closed"
    /\ t.sent_eof => t.late \/ (t.readfd = "closed" /\ t.errfd = "closed")
    /\ t.state \in {"open", "removed"} /\ (t.state = "removed" => t.recv_close)
    /\ t.late => t.cmd
    /\ t.sent_eof \in BOOLEAN /\ t.sent_close \in BOOLEAN /\ t.late \in BOOLEAN
    /\ t.unnamed \in BOOLEAN

\* Packets to the client, of which it has seen the types got already.  mute is that
\* it is told nothing of the exit, because a signal without a name ended the command.
Orderly(q, got, eof, close, late, mute) ==
    /\ \A i \in 1..Len(q) :
         /\ q[i].type = "CLOSE" => /\ close /\ i = Len(q)
                                   /\ mute \/ "EXIT" \in got \/ \E j \in 1..(i - 1) : q[j].type = "EXIT"
         /\ q[i].type = "EOF" => eof
         /\ q[i].type = "DATA" => late \/ ("EOF" \notin got /\ \A j \in 1..(i - 1) : q[j].type # "EOF")
    /\ "CLOSE" \in got => close /\ q = <<>>
    /\ "EOF" \in got => eof

\* All packets to the client while the server handles a round that began with q.
All(q, t) == Cat(q, t.out)

OrderOK(q, got, t) == Orderly(All(q, t), got, t.sent_eof, t.sent_close, t.late, t.unnamed)

\* w is what the client has sent and may send, g what it granted and did not give yet.
PeerOK(q, w, g, t) ==
    /\ w + Total(All(q, t), "ADJUST") <= t.recvwindow
    /\ t.transwindow + Total(All(q, t), "DATA") <= g

Wrap(p) == IF p < recv_window THEN p ELSE p - recv_window

\* The buffer holds what follows the first n bytes of a.
Holds(b, a, n) ==
    /\ DOMAIN b.data = 0..(recv_window - 1) /\ b.used <= recv_window
    /\ Len(a) = n + b.used /\ b.writepos = Wrap(b.readpos + b.used)
    /\ \A k \in 0..(b.used - 1) : b.data[Wrap(b.readpos + k)] = a[n + k + 1]

Begins(a, b) == Len(a) <= Len(b) /\ \A i \in 1..Len(a) : a[i] = b[i]

\* The bytes of stdin, in a round that began with acc accepted and del delivered.
RingOK(acc, del, t) ==
    /\ t.accepted \in Seq(Nat) /\ t.delivered \in Seq(Nat)
    /\ Begins(acc, t.accepted) /\ Begins(del, t.delivered) /\ Begins(t.delivered, t.accepted)
    /\ t.writefd \notin Closed \/ ~t.cmd => Holds(t.writebuf, t.accepted, Len(t.delivered))

\* What a round began with.
Start == [q : Seq(MsgOut), got : SUBSET {"EOF", "CLOSE", "EXIT"}, acc : Seq(Nat), del : Seq(Nat)]

Law(c, w, g, t) ==
    FlagsOK(t) /\ OrderOK(c.q, c.got, t) /\ PeerOK(c.q, w, g, t) /\ RingOK(c.acc, c.del, t)

-----------------------------------------------------------------------------
(* Queues. *)

LEMMA AmountType ==
    /\ \A m \in MsgIn : Amount(m, "DATA") \in Nat /\ Amount(m, "ADJUST") \in Nat
    /\ \A m \in MsgOut : Amount(m, "DATA") \in Nat /\ Amount(m, "ADJUST") \in Nat
<1>1. ASSUME NEW m \in MsgIn
      PROVE  Amount(m, "DATA") \in Nat /\ Amount(m, "ADJUST") \in Nat
  BY DEF MsgIn, Amount
<1>2. ASSUME NEW m \in MsgOut
      PROVE  Amount(m, "DATA") \in Nat /\ Amount(m, "ADJUST") \in Nat
  BY DEF MsgOut, Amount
<1> QED BY <1>1, <1>2

\* The packets of S carry numbers of bytes.
Counts(S, type) == \A m \in S : Amount(m, type) \in Nat

LEMMA CountsAll ==
    Counts(MsgIn, "DATA") /\ Counts(MsgIn, "ADJUST") /\ Counts(MsgOut, "DATA") /\ Counts(MsgOut, "ADJUST")
BY AmountType DEF Counts

Amounts(q, type) == [i \in 1..Len(q) |-> Amount(q[i], type)]

LEMMA AmountsType ==
    ASSUME NEW S, NEW type, Counts(S, type), NEW q \in Seq(S)
    PROVE  /\ Amounts(q, type) \in Seq(Nat) /\ Len(Amounts(q, type)) = Len(q)
           /\ Total(q, type) = SumSeq(Amounts(q, type)) /\ Total(q, type) \in Nat
<1>1. \A i \in 1..Len(q) : Amount(q[i], type) \in Nat
  BY DEF Counts
<1>2. Amounts(q, type) \in Seq(Nat) /\ Len(Amounts(q, type)) = Len(q)
  BY <1>1 DEF Amounts
<1>3. Total(q, type) = SumSeq(Amounts(q, type))
  BY DEF Total, Amounts
<1> QED BY <1>2, <1>3, SumNat

LEMMA TotalEmpty == ASSUME NEW type PROVE Total(<<>>, type) = 0
<1>1. [i \in 1..Len(<<>>) |-> Amount(<<>>[i], type)] = <<>>
  OBVIOUS
<1> QED BY <1>1, SumEmpty DEF Total

LEMMA TotalAppend ==
    ASSUME NEW S, NEW type, Counts(S, type), NEW q \in Seq(S), NEW m \in S
    PROVE  Total(Append(q, m), type) = Total(q, type) + Amount(m, type)
<1> DEFINE a == Amounts(q, type)
           b == Amounts(Append(q, m), type)
<1>1. a \in Seq(Nat) /\ Amount(m, type) \in Nat
  BY AmountsType DEF Counts
<1>2. b = Append(a, Amount(m, type))
  <2>1. Len(q) \in Nat /\ Len(Append(q, m)) = Len(q) + 1
    OBVIOUS
  <2>2. \A i \in 1..(Len(q) + 1) : Append(q, m)[i] = IF i = Len(q) + 1 THEN m ELSE q[i]
    OBVIOUS
  <2> QED BY <2>1, <2>2 DEF Amounts
<1>3. Total(q, type) = SumSeq(a) /\ Total(Append(q, m), type) = SumSeq(b)
  BY DEF Total, Amounts
<1> QED BY <1>1, <1>2, <1>3, SumAppend

LEMMA TotalTail ==
    ASSUME NEW S, NEW type, Counts(S, type), NEW q \in Seq(S), q # <<>>
    PROVE  Total(q, type) = Amount(Head(q), type) + Total(Tail(q), type)
<1> DEFINE a == Amounts(q, type)
           b == Amounts(Tail(q), type)
<1>1. /\ a \in Seq(Nat) /\ Len(a) = Len(q) /\ Len(q) \in Nat \ {0}
      /\ Len(Tail(q)) = Len(q) - 1 /\ Head(q) = q[1]
      /\ \A i \in 1..(Len(q) - 1) : Tail(q)[i] = q[i + 1]
  BY AmountsType, EmptySeq, LenProperties, HeadTailProperties
<1>2. a # <<>> /\ Head(a) = Amount(Head(q), type)
  BY <1>1 DEF Amounts
<1>3. /\ Len(Tail(a)) = Len(a) - 1 /\ Tail(a) \in Seq(Nat)
      /\ \A i \in 1..(Len(q) - 1) : Tail(a)[i] = a[i + 1]
  BY <1>1, <1>2, HeadTailProperties
<1>4. b = Tail(a)
  <2>1. b = [i \in 1..(Len(q) - 1) |-> Amount(q[i + 1], type)]
    BY <1>1 DEF Amounts
  <2>2. \A i \in 1..(Len(q) - 1) : a[i + 1] = Amount(q[i + 1], type)
    BY <1>1 DEF Amounts
  <2>3. b \in Seq(Nat) /\ Len(b) = Len(q) - 1
    <3>1. Tail(q) \in Seq(S)
      BY HeadTailProperties
    <3> HIDE DEF b
    <3>2. Amounts(Tail(q), type) \in Seq(Nat) /\ Len(Amounts(Tail(q), type)) = Len(Tail(q))
      BY <3>1, AmountsType
    <3> QED BY <1>1, <3>2 DEF b
  <2> HIDE DEF a, b
  <2> QED BY <1>1, <1>3, <2>1, <2>2, <2>3, SeqEqual
<1>5. Total(q, type) = SumSeq(a) /\ Total(Tail(q), type) = SumSeq(b)
  BY DEF Total, Amounts
<1> HIDE DEF a, b
<1> QED BY <1>1, <1>2, <1>4, <1>5, SumTail

LEMMA CatAppend ==
    ASSUME NEW S, NEW q \in Seq(S), NEW r \in Seq(S), NEW m \in S
    PROVE  Cat(q, Append(r, m)) = Append(Cat(q, r), m)
BY DEF Cat

-----------------------------------------------------------------------------
(* The order of packets to the client. *)

\* Before CLOSE, a packet that is not CLOSE may follow; data only before EOF.
LEMMA OrderAppend ==
    ASSUME NEW q \in Seq(MsgOut), NEW got, NEW eof, NEW late, NEW mute, Orderly(q, got, eof, FALSE, late, mute),
           NEW m \in MsgOut, m.type # "CLOSE", m.type = "DATA" => ~eof \/ late,
           NEW eof2, eof => eof2, m.type = "EOF" => eof2
    PROVE  Orderly(Append(q, m), got, eof2, FALSE, late, mute)
<1> DEFINE n == Len(q)
           r == Append(q, m)
<1>1. n \in Nat /\ Len(r) = n + 1 /\ r[n + 1] = m /\ \A i \in 1..n : r[i] = q[i]
  BY LenProperties, AppendProperties
<1>2. /\ \A i \in 1..n : q[i].type # "CLOSE" /\ (q[i].type = "EOF" => eof)
      /\ \A i \in 1..n : q[i].type = "DATA" => late \/ ("EOF" \notin got /\ \A j \in 1..(i - 1) : q[j].type # "EOF")
      /\ "CLOSE" \notin got /\ ("EOF" \in got => eof)
  BY DEF Orderly
<1> HIDE DEF n, r
<1>3. ASSUME NEW i \in 1..(n + 1)
      PROVE  /\ r[i].type # "CLOSE"
             /\ r[i].type = "EOF" => eof2
             /\ r[i].type = "DATA" => late \/ ("EOF" \notin got /\ \A j \in 1..(i - 1) : r[j].type # "EOF")
  <2>1. \A j \in 1..(i - 1) : j \in 1..n /\ r[j] = q[j]
    BY <1>1
  <2>2. CASE i = n + 1
    BY <1>1, <1>2, <2>1, <2>2
  <2>3. CASE i # n + 1
    <3>1. i \in 1..n
      BY <1>1, <2>3
    <3> QED BY <1>1, <1>2, <2>1, <3>1
  <2> QED BY <2>2, <2>3
<1>4. Orderly(r, got, eof2, FALSE, late, mute)
  BY <1>1, <1>2, <1>3 DEF Orderly
<1> QED BY <1>4 DEF r

\* CLOSE follows the exit status, if there is one.
LEMMA OrderClose ==
    ASSUME NEW q \in Seq(MsgOut), NEW got, NEW eof, NEW late, NEW mute, Orderly(q, got, eof, FALSE, late, mute),
           mute \/ (q # <<>> /\ q[Len(q)].type = "EXIT"), NEW m \in MsgOut, m.type = "CLOSE"
    PROVE  Orderly(Append(q, m), got, TRUE, TRUE, late, mute)
<1> DEFINE n == Len(q)
           r == Append(q, m)
<1>1. /\ n \in Nat /\ Len(r) = n + 1 /\ r[n + 1] = m /\ \A i \in 1..n : r[i] = q[i]
      /\ q # <<>> => n # 0
  BY EmptySeq, LenProperties, AppendProperties
<1>2. /\ \A i \in 1..n : q[i].type # "CLOSE" /\ (q[i].type = "EOF" => eof)
      /\ \A i \in 1..n : q[i].type = "DATA" => late \/ ("EOF" \notin got /\ \A j \in 1..(i - 1) : q[j].type # "EOF")
      /\ "CLOSE" \notin got /\ ("EOF" \in got => eof) /\ (mute \/ (q # <<>> /\ q[n].type = "EXIT"))
  BY DEF Orderly
<1> HIDE DEF n, r
<1>3. ASSUME NEW i \in 1..(n + 1)
      PROVE  /\ r[i].type = "CLOSE" => i = n + 1 /\ (mute \/ \E j \in 1..(i - 1) : r[j].type = "EXIT")
             /\ r[i].type = "DATA" => late \/ ("EOF" \notin got /\ \A j \in 1..(i - 1) : r[j].type # "EOF")
  <2>1. \A j \in 1..(i - 1) : j \in 1..n /\ r[j] = q[j]
    BY <1>1
  <2>2. CASE i = n + 1
    <3>1. mute \/ (n \in 1..(i - 1) /\ r[n].type = "EXIT")
      BY <1>1, <1>2, <2>2
    <3> QED BY <1>1, <2>2, <3>1
  <2>3. CASE i # n + 1
    <3>1. i \in 1..n
      BY <1>1, <2>3
    <3> QED BY <1>1, <1>2, <2>1, <3>1
  <2> QED BY <2>2, <2>3
<1>4. Orderly(r, got, TRUE, TRUE, late, mute)
  BY <1>1, <1>2, <1>3 DEF Orderly
<1> QED BY <1>4 DEF r

LEMMA OrderWeaken ==
    ASSUME NEW q, NEW got, NEW eof, NEW close, NEW late, NEW mute, Orderly(q, got, eof, close, late, mute),
           NEW eof2, eof => eof2, NEW late2, late => late2
    PROVE  Orderly(q, got, eof2, close, late2, mute)
BY DEF Orderly

\* Before CLOSE it does not matter yet what the client is told of the exit.
LEMMA OrderMute ==
    ASSUME NEW q, NEW got, NEW eof, NEW late, NEW mute, NEW mute2, Orderly(q, got, eof, FALSE, late, mute)
    PROVE  Orderly(q, got, eof, FALSE, late, mute2)
BY DEF Orderly

\* The client takes the first packet.
LEMMA OrderReceive ==
    ASSUME NEW q \in Seq(MsgOut), q # <<>>, NEW got, NEW eof, NEW close, NEW late, NEW mute,
           Orderly(q, got, eof, close, late, mute),
           NEW got2, got2 = IF Head(q).type \in {"EOF", "CLOSE", "EXIT"} THEN got \cup {Head(q).type} ELSE got
    PROVE  Orderly(Tail(q), got2, eof, close, late, mute)
<1> DEFINE n == Len(q)
           r == Tail(q)
           h == Head(q)
<1>1. /\ n \in Nat \ {0} /\ Len(r) = n - 1 /\ h = q[1] /\ r \in Seq(MsgOut)
      /\ \A i \in 1..(n - 1) : r[i] = q[i + 1]
  BY EmptySeq, LenProperties, HeadTailProperties
<1>2. \A i \in 1..n :
         /\ q[i].type = "CLOSE" => /\ close /\ i = n
                                   /\ mute \/ "EXIT" \in got \/ \E j \in 1..(i - 1) : q[j].type = "EXIT"
         /\ q[i].type = "EOF" => eof
         /\ q[i].type = "DATA" => late \/ ("EOF" \notin got /\ \A j \in 1..(i - 1) : q[j].type # "EOF")
  BY DEF Orderly
<1>3. "CLOSE" \notin got /\ ("EOF" \in got => eof)
  BY DEF Orderly
<1>4. got2 = IF h.type \in {"EOF", "CLOSE", "EXIT"} THEN got \cup {h.type} ELSE got
  OBVIOUS
<1> HIDE DEF n, r, h
<1>5. ASSUME NEW i \in 1..(n - 1)
      PROVE  /\ r[i].type = "CLOSE" => /\ close /\ i = n - 1
                                       /\ mute \/ "EXIT" \in got2 \/ \E j \in 1..(i - 1) : r[j].type = "EXIT"
             /\ r[i].type = "EOF" => eof
             /\ r[i].type = "DATA" => late \/ ("EOF" \notin got2 /\ \A j \in 1..(i - 1) : r[j].type # "EOF")
  <2>1. /\ i + 1 \in 1..n /\ r[i] = q[i + 1] /\ 1 \in 1..((i + 1) - 1)
        /\ \A j \in 1..(i - 1) : j + 1 \in 1..((i + 1) - 1) /\ r[j] = q[j + 1]
    BY <1>1
  <2>2. ASSUME r[i].type = "CLOSE"
        PROVE  close /\ i = n - 1 /\ (mute \/ "EXIT" \in got2 \/ \E j \in 1..(i - 1) : r[j].type = "EXIT")
    <3>1. close /\ i + 1 = n /\ (mute \/ "EXIT" \in got \/ \E j \in 1..((i + 1) - 1) : q[j].type = "EXIT")
      BY <1>2, <2>1, <2>2
    <3>2. ASSUME NEW j \in 1..((i + 1) - 1), q[j].type = "EXIT"
          PROVE  "EXIT" \in got2 \/ \E k \in 1..(i - 1) : r[k].type = "EXIT"
      <4>1. CASE j = 1
        BY <1>1, <1>4, <3>2, <4>1
      <4>2. CASE j # 1
        <5>1. j - 1 \in 1..(i - 1) /\ (j - 1) + 1 = j
          BY <4>2
        <5>2. r[j - 1] = q[j]
          BY <2>1, <5>1
        <5> QED BY <3>2, <5>1, <5>2
      <4> QED BY <4>1, <4>2
    <3> QED BY <1>1, <1>4, <3>1, <3>2
  <2>3. r[i].type = "EOF" => eof
    BY <1>2, <2>1
  <2>4. ASSUME r[i].type = "DATA", ~late
        PROVE  "EOF" \notin got2 /\ \A j \in 1..(i - 1) : r[j].type # "EOF"
    <3>1. "EOF" \notin got /\ \A j \in 1..((i + 1) - 1) : q[j].type # "EOF"
      BY <1>2, <2>1, <2>4
    <3> QED BY <1>1, <1>4, <2>1, <3>1
  <2> QED BY <2>2, <2>3, <2>4
<1>6. "CLOSE" \in got2 => close /\ r = <<>>
  <2>1. ASSUME "CLOSE" \in got2 PROVE close /\ r = <<>>
    <3>1. h.type = "CLOSE"
      BY <1>3, <1>4, <2>1
    <3>2. close /\ n = 1
      BY <1>1, <1>2, <3>1
    <3> QED BY <1>1, <3>2, EmptySeq
  <2> QED BY <2>1
<1>7. "EOF" \in got2 => eof
  BY <1>1, <1>2, <1>3, <1>4
<1>8. Orderly(r, got2, eof, close, late, mute)
  BY <1>1, <1>5, <1>6, <1>7 DEF Orderly
<1> QED BY <1>8 DEF r

-----------------------------------------------------------------------------
(* The ring buffer. *)

LEMMA WrapMod ==
    ASSUME NEW p \in Nat, p < 2 * recv_window
    PROVE  p % recv_window = Wrap(p) /\ Wrap(p) \in 0..(recv_window - 1)
<1>1. CASE p < recv_window
  BY <1>1, Sizes DEF Wrap
<1>2. CASE ~(p < recv_window)
  <2>1. PICK r \in Nat : r = p - recv_window /\ r < recv_window
    BY <1>2, Sizes
  <2>2. (r + recv_window) % recv_window = r
    BY <2>1, Sizes
  <2> QED BY <1>2, <2>1, <2>2, Sizes DEF Wrap
<1> QED BY <1>1, <1>2

LEMMA WrapAdd ==
    ASSUME NEW r \in 0..(recv_window - 1), NEW k \in Nat, NEW j \in Nat, k + j <= recv_window
    PROVE  /\ Wrap(Wrap(r + k) + j) = Wrap(r + (k + j))
           /\ Wrap(r + k) \in 0..(recv_window - 1)
<1> DEFINE W == recv_window
<1>1. W \in Nat /\ W > 0
  BY Sizes
<1> HIDE DEF W
<1>2. CASE r + k < W
  <2>1. Wrap(r + k) = r + k
    BY <1>2 DEF Wrap, W
  <2>2. (r + k) + j = r + (k + j)
    BY <1>1 DEF W
  <2>3. Wrap(r + k) \in 0..(recv_window - 1)
    BY <1>1, <1>2, <2>1 DEF W
  <2> QED BY <2>1, <2>2, <2>3
<1>3. CASE ~(r + k < W)
  <2>1. Wrap(r + k) = (r + k) - W
    BY <1>1, <1>3, Zenon DEF Wrap, W
  <2>2. ((r + k) - W) + j < W /\ ~(r + (k + j) < W) /\ (r + k) - W \in 0..(W - 1)
        /\ ((r + k) - W) + j = (r + (k + j)) - W
    BY <1>1, <1>3 DEF W
  <2>3. Wrap(((r + k) - W) + j) = ((r + k) - W) + j /\ Wrap(r + (k + j)) = (r + (k + j)) - W
    BY <1>1, <1>3, <2>2, Zenon DEF Wrap, W
  <2> QED BY <2>1, <2>2, <2>3 DEF W
<1> QED BY <1>2, <1>3

\* cbuf_writelen() allows l bytes in a buffer with u bytes from r to w.
Fits(r, u, w, l) ==
    /\ w = Wrap(r + u)
    /\ l <= IF u = recv_window THEN 0 ELSE IF w < r THEN r - w ELSE recv_window - w

\* They do not touch what is there.
Free(r, u, w, l) ==
    /\ w + l <= recv_window /\ u + l <= recv_window
    /\ \A j \in 0..(u + l - 1) :
          /\ j < u => Wrap(r + j) - w \notin 0..(l - 1)
          /\ ~(j < u) => Wrap(r + j) - w = j - u /\ j - u \in 0..(l - 1)

LEMMA Room ==
    ASSUME NEW r \in 0..(recv_window - 1), NEW u \in 0..recv_window, NEW w, NEW l \in Nat, Fits(r, u, w, l)
    PROVE  Free(r, u, w, l)
<1> DEFINE W == recv_window
<1>1. W \in Nat /\ W > 0 /\ r \in 0..(W - 1) /\ u \in 0..W
  BY Sizes
<1>2. w = IF r + u < W THEN r + u ELSE (r + u) - W
  BY Zenon DEF Wrap, Fits
<1>3. l <= IF u = W THEN 0 ELSE IF w < r THEN r - w ELSE W - w
  BY DEF Fits
<1>4. ASSUME NEW j \in Nat PROVE Wrap(r + j) = IF r + j < W THEN r + j ELSE (r + j) - W
  BY Zenon DEF Wrap
<1> HIDE DEF W
<1>5. w \in Nat /\ w + l <= W /\ u + l <= W
  BY <1>1, <1>2, <1>3
<1>6. ASSUME NEW j \in 0..(u + l - 1), NEW p, p = IF r + j < W THEN r + j ELSE (r + j) - W
      PROVE  /\ j < u => p - w \notin 0..(l - 1)
             /\ ~(j < u) => p - w = j - u /\ j - u \in 0..(l - 1)
  <2>1. CASE u = W
    BY <1>1, <1>2, <1>3, <1>6, <2>1
  <2>2. CASE u # W /\ r + u < W
    BY <1>1, <1>2, <1>3, <1>6, <2>2
  <2>3. CASE u # W /\ ~(r + u < W)
    BY <1>1, <1>2, <1>3, <1>6, <2>3
  <2> QED BY <2>1, <2>2, <2>3
<1>7. ASSUME NEW j \in 0..(u + l - 1)
      PROVE  /\ j < u => Wrap(r + j) - w \notin 0..(l - 1)
             /\ ~(j < u) => Wrap(r + j) - w = j - u /\ j - u \in 0..(l - 1)
  <2>1. j \in Nat
    BY <1>1
  <2> QED BY <1>4, <1>6, <2>1
<1> QED BY <1>5, <1>7 DEF W, Free

LEMMA HoldsNew ==
    ASSUME NEW a \in Seq(Nat), NEW n, n = Len(a)
    PROVE  Holds(cbuf_new, a, n)
BY Sizes DEF Holds, cbuf_new, Wrap

\* cbuf_readptrs() gives the next bytes.
LEMMA ReadNext ==
    ASSUME NEW b, CbufType(b), NEW a \in Seq(Nat), NEW n \in Nat, Holds(b, a, n)
    PROVE  LET bytes == cbuf_readptrs(b)
           IN  /\ bytes \in Seq(Nat) /\ Len(bytes) <= b.used /\ Len(bytes) \in Nat
               /\ b.readpos + Len(bytes) <= recv_window
               /\ \A i \in 1..Len(bytes) : bytes[i] = a[n + i]
<1> DEFINE k == MIN(b.used, recv_window - b.readpos)
           bytes == cbuf_readptrs(b)
<1>1. /\ b.used \in Nat /\ b.readpos \in 0..(recv_window - 1) /\ Len(a) = n + b.used
      /\ \A j \in 0..(b.used - 1) : b.data[Wrap(b.readpos + j)] = a[n + j + 1]
  BY DEF CbufType, Holds
<1>2. k \in Nat /\ k <= b.used /\ b.readpos + k <= recv_window
  BY <1>1, Sizes DEF MIN
<1>3. bytes = [i \in 1..k |-> b.data[b.readpos + i - 1]]
  BY DEF cbuf_readptrs
<1> HIDE DEF k, bytes
<1>4. ASSUME NEW i \in 1..k PROVE b.data[b.readpos + i - 1] = a[n + i] /\ a[n + i] \in Nat
  <2>1. i - 1 \in 0..(b.used - 1) /\ Wrap(b.readpos + (i - 1)) = b.readpos + i - 1 /\ n + (i - 1) + 1 = n + i
    BY <1>1, <1>2, Sizes DEF Wrap
  <2>2. n + i \in 1..Len(a)
    BY <1>1, <1>2
  <2>3. b.data[Wrap(b.readpos + (i - 1))] = a[n + (i - 1) + 1]
    BY <1>1, <2>1
  <2>4. a[n + i] \in Nat
    BY <2>2, ElementOfSeq
  <2> QED BY <2>1, <2>3, <2>4
<1>5. bytes \in Seq(Nat) /\ Len(bytes) = k
  <2> DEFINE f(i) == b.data[b.readpos + i - 1]
  <2>1. \A i \in 1..k : f(i) \in Nat
    BY <1>4
  <2>2. bytes = [i \in 1..k |-> f(i)]
    BY <1>3
  <2> HIDE DEF f
  <2> QED BY <1>2, <2>1, <2>2
<1> QED BY <1>2, <1>3, <1>4, <1>5 DEF bytes

\* cbuf_incrread() leaves what follows them.
LEMMA IncrRead ==
    ASSUME NEW b, CbufType(b), NEW a \in Seq(Nat), NEW n \in Nat, Holds(b, a, n),
           NEW k \in Nat, k <= b.used
    PROVE  Holds(cbuf_incrread(b, k), a, n + k)
<1> DEFINE u == cbuf_incrread(b, k)
<1>1. /\ DOMAIN b = {"data", "used", "readpos", "writepos"} /\ b.used \in Nat
      /\ b.readpos \in 0..(recv_window - 1) /\ b.writepos \in 0..(recv_window - 1)
      /\ DOMAIN b.data = 0..(recv_window - 1) /\ b.used <= recv_window
      /\ Len(a) = n + b.used /\ b.writepos = Wrap(b.readpos + b.used)
      /\ \A j \in 0..(b.used - 1) : b.data[Wrap(b.readpos + j)] = a[n + j + 1]
  BY DEF CbufType, Holds
<1>2. (b.readpos + k) % recv_window = Wrap(b.readpos + k)
  BY <1>1, WrapMod, Sizes
<1>3. u.data = b.data /\ u.used = b.used - k /\ u.readpos = Wrap(b.readpos + k) /\ u.writepos = b.writepos
  BY <1>1, <1>2 DEF cbuf_incrread
<1> HIDE DEF u
<1>4. u.writepos = Wrap(u.readpos + u.used)
  <2>1. u.used \in Nat /\ k + u.used = b.used /\ k + u.used <= recv_window
    BY <1>1, <1>3, Sizes
  <2>2. Wrap(Wrap(b.readpos + k) + u.used) = Wrap(b.readpos + (k + u.used))
    BY <1>1, <2>1, WrapAdd
  <2> QED BY <1>1, <1>3, <2>1, <2>2
<1>5. ASSUME NEW j \in 0..(u.used - 1) PROVE u.data[Wrap(u.readpos + j)] = a[n + k + j + 1]
  <2>1. k + j \in 0..(b.used - 1) /\ Wrap(u.readpos + j) = Wrap(b.readpos + (k + j))
    <3> DEFINE v == u.used
               x == b.used
    <3>a. v = x - k /\ x \in Nat /\ x <= recv_window /\ j \in 0..(v - 1)
      BY <1>1, <1>3
    <3> HIDE DEF v, x
    <3>b. j \in Nat /\ k + j \in 0..(x - 1) /\ k + j <= recv_window
      BY <3>a, Sizes
    <3>1. j \in Nat /\ k + j \in 0..(b.used - 1) /\ k + j <= recv_window
      BY <3>b DEF x
    <3>2. Wrap(Wrap(b.readpos + k) + j) = Wrap(b.readpos + (k + j))
      BY <1>1, <3>1, WrapAdd
    <3> QED BY <1>3, <3>1, <3>2
  <2>2. n + (k + j) + 1 = n + k + j + 1
    BY <1>1, <1>3
  <2> QED BY <1>1, <1>3, <2>1, <2>2
<1>6. Len(a) = (n + k) + u.used /\ u.used <= recv_window
  BY <1>1, <1>3, Sizes
<1> QED BY <1>1, <1>3, <1>4, <1>5, <1>6 DEF Holds, u

\* cbuf_put() adds bytes that fit before the end, or before the read position.
LEMMA PutHolds ==
    ASSUME NEW b, CbufType(b), NEW a \in Seq(Nat), NEW n \in Nat, Holds(b, a, n),
           NEW bytes \in Seq(Nat), Len(bytes) <= cbuf_writelen(b)
    PROVE  Holds(cbuf_put(b, bytes), a \o bytes, n)
<1> DEFINE l == Len(bytes)
           w == b.writepos
           c == a \o bytes
           u == cbuf_put(b, bytes)
<1>1. /\ DOMAIN b = {"data", "used", "readpos", "writepos"} /\ b.used \in Nat
      /\ b.readpos \in 0..(recv_window - 1) /\ b.writepos \in 0..(recv_window - 1)
      /\ DOMAIN b.data = 0..(recv_window - 1) /\ b.used <= recv_window
      /\ Len(a) = n + b.used /\ b.writepos = Wrap(b.readpos + b.used)
      /\ \A j \in 0..(b.used - 1) : b.data[Wrap(b.readpos + j)] = a[n + j + 1]
  BY DEF CbufType, Holds
<1>2. /\ l \in Nat /\ w + l <= recv_window /\ b.used + l <= recv_window
      /\ \A j \in 0..(b.used + l - 1) :
            /\ j < b.used => Wrap(b.readpos + j) - w \notin 0..(l - 1)
            /\ ~(j < b.used) => Wrap(b.readpos + j) - w = j - b.used /\ j - b.used \in 0..(l - 1)
  <2>1. l \in Nat /\ b.used \in 0..recv_window /\ b.readpos \in 0..(recv_window - 1)
    BY <1>1, Sizes
  <2>2. Fits(b.readpos, b.used, w, l)
    BY <1>1 DEF cbuf_writelen, Fits
  <2> HIDE DEF l, w
  <2>3. Free(b.readpos, b.used, w, l)
    BY <2>1, <2>2, Room
  <2> QED BY <2>1, <2>3 DEF Free
<1>3. /\ Len(c) = Len(a) + l
      /\ \A i \in 1..Len(a) : c[i] = a[i]
      /\ \A i \in 1..l : c[Len(a) + i] = bytes[i]
  BY <1>2
<1>4. (w + l) % recv_window = Wrap(w + l)
  <2>1. w \in Nat /\ w + l <= recv_window /\ l \in Nat
    BY <1>1, <1>2
  <2> HIDE DEF w, l
  <2>2. w + l \in Nat /\ w + l < 2 * recv_window
    BY <2>1, Sizes
  <2> QED BY <2>2, WrapMod
<1> HIDE DEF l, c
<1>5. /\ u.data = [p \in 0..(recv_window - 1) |-> IF p - w \in 0..(l - 1) THEN bytes[p - w + 1] ELSE b.data[p]]
      /\ u.used = b.used + l /\ u.readpos = b.readpos /\ u.writepos = Wrap(w + l)
  BY <1>1, <1>4 DEF cbuf_put, l
<1> HIDE DEF u
<1>6. u.writepos = Wrap(u.readpos + u.used)
  <2>1. Wrap(Wrap(b.readpos + b.used) + l) = Wrap(b.readpos + (b.used + l))
    BY <1>1, <1>2, WrapAdd
  <2> QED BY <1>1, <1>5, <2>1
<1>7. ASSUME NEW j \in 0..(u.used - 1) PROVE u.data[Wrap(u.readpos + j)] = c[n + j + 1]
  <2> DEFINE p == Wrap(b.readpos + j)
  <2>1. j \in Nat /\ j <= recv_window /\ j \in 0..(b.used + l - 1)
    <3>1. u.used = b.used + l /\ b.used \in Nat /\ l \in Nat /\ b.used + l <= recv_window
      BY <1>1, <1>2, <1>5
    <3> QED BY <3>1, Sizes
  <2>2. p \in 0..(recv_window - 1)
    <3>1. j + 0 <= recv_window
      BY <2>1
    <3> QED BY <1>1, <2>1, <3>1, WrapAdd
  <2> HIDE DEF p
  <2>3. CASE j < b.used
    <3>1. p - w \notin 0..(l - 1)
      BY <1>2, <2>1, <2>3 DEF p
    <3>2. u.data[p] = b.data[p]
      BY <1>5, <2>2, <3>1
    <3>3. j \in 0..(b.used - 1) /\ n + j + 1 \in 1..Len(a)
      BY <1>1, <2>1, <2>3
    <3>4. b.data[p] = a[n + j + 1] /\ c[n + j + 1] = a[n + j + 1]
      BY <1>1, <1>3, <3>3 DEF p
    <3> QED BY <1>5, <3>2, <3>4 DEF p
  <2>4. CASE ~(j < b.used)
    <3>1. p - w = j - b.used /\ j - b.used \in 0..(l - 1)
      BY <1>2, <2>1, <2>4 DEF p
    <3>2. u.data[p] = bytes[p - w + 1]
      BY <1>5, <2>2, <3>1
    <3>3. p - w + 1 \in 1..l /\ n + j + 1 = Len(a) + (p - w + 1)
      <4> DEFINE e == p - w
                 x == b.used
      <4>1. x \in Nat /\ l \in Nat /\ Len(a) = n + x /\ e = j - x /\ e \in 0..(l - 1)
        BY <1>1, <1>2, <3>1
      <4> HIDE DEF e, x
      <4>2. e + 1 \in 1..l /\ n + j + 1 = Len(a) + (e + 1)
        BY <2>1, <4>1
      <4> QED BY <4>2 DEF e
    <3>4. c[Len(a) + (p - w + 1)] = bytes[p - w + 1]
      BY <1>3, <3>3
    <3> QED BY <1>5, <3>2, <3>3, <3>4 DEF p
  <2> QED BY <2>3, <2>4
<1>8. Len(c) = n + u.used /\ u.used <= recv_window /\ DOMAIN u.data = 0..(recv_window - 1)
  BY <1>1, <1>2, <1>3, <1>5
<1>9. Holds(u, c, n)
  BY <1>6, <1>7, <1>8 DEF Holds
<1> QED BY <1>9 DEF u, c

\* The payload of a packet, in two pieces.
LEMMA AppendHolds ==
    ASSUME NEW b, CbufType(b), NEW a \in Seq(Nat), NEW n \in Nat, Holds(b, a, n),
           NEW bytes \in Seq(Nat), Len(bytes) <= cbuf_getavail(b)
    PROVE  Holds(cbuf_append(b, bytes), a \o bytes, n)
<1> DEFINE l == Len(bytes)
           k == MIN(cbuf_writelen(b), l)
           one == SubSeq(bytes, 1, k)
           two == SubSeq(bytes, k + 1, l)
           c == cbuf_put(b, one)
<1>1. /\ b.used \in Nat /\ b.used <= recv_window /\ b.writepos = Wrap(b.readpos + b.used)
      /\ b.readpos \in 0..(recv_window - 1) /\ b.writepos \in 0..(recv_window - 1)
  BY DEF CbufType, Holds
<1>2. l \in Nat /\ cbuf_writelen(b) \in Nat
  BY <1>1, Sizes DEF cbuf_writelen
<1>3. k \in 0..l /\ k <= cbuf_writelen(b) /\ (k = l \/ k = cbuf_writelen(b))
  BY <1>2 DEF MIN
<1>4. cbuf_append(b, bytes) = cbuf_put(c, two)
  BY DEF cbuf_append
<1> HIDE DEF k, l
<1>5. one \in Seq(Nat) /\ Len(one) = k /\ two \in Seq(Nat) /\ Len(two) = l - k
  BY <1>2, <1>3 DEF l
<1>6. bytes = one \o two
  <2>1. /\ \A i \in 1..k : one[i] = bytes[i]
        /\ \A i \in 1..(l - k) : two[i] = bytes[i + k]
    BY <1>2, <1>3, <1>5 DEF l
  <2>2. one \o two \in Seq(Nat) /\ Len(one \o two) = l
    BY <1>2, <1>3, <1>5
  <2>3. ASSUME NEW i \in 1..l PROVE (one \o two)[i] = bytes[i]
    <3>1. (one \o two)[i] = IF i <= k THEN one[i] ELSE two[i - k]
      <4>1. i \in 1..(Len(one) + Len(two))
        BY <1>2, <1>3, <1>5
      <4>2. (one \o two)[i] = IF i <= Len(one) THEN one[i] ELSE two[i - Len(one)]
        BY <1>5, <4>1, ConcatProperties
      <4> QED BY <1>5, <4>2
    <3>2. CASE i <= k
      <4>1. i \in 1..k
        BY <1>2, <1>3, <3>2
      <4> HIDE DEF one, two
      <4>2. (one \o two)[i] = one[i]
        BY <3>1, <3>2
      <4> QED BY <2>1, <4>1, <4>2
    <3>3. CASE ~(i <= k)
      <4>1. i - k \in 1..(l - k) /\ (i - k) + k = i
        BY <1>2, <1>3, <3>3
      <4> QED BY <2>1, <3>1, <3>3, <4>1
    <3> QED BY <3>2, <3>3
  <2> HIDE DEF one, two
  <2> QED BY <2>2, <2>3, SeqEqual DEF l
<1> HIDE DEF one, two
<1>7. Holds(c, a \o one, n) /\ CbufType(c) /\ c.used = b.used + k
  BY <1>3, <1>5, PutHolds, PutType
<1>8. c.readpos = b.readpos
  BY DEF c, cbuf_put, CbufType
<1> HIDE DEF c
<1>9. l - k <= cbuf_writelen(c)
  <2>1. c.writepos = Wrap(c.readpos + c.used) /\ c.used <= recv_window
    BY <1>7 DEF Holds
  <2>2. l <= recv_window - b.used
    BY DEF cbuf_getavail, l
  <2>3. CASE k = l
    <3>1. cbuf_writelen(c) \in Nat
      BY <1>7, Sizes DEF CbufType, cbuf_writelen
    <3> QED BY <1>2, <2>3, <3>1
  <2>4. CASE k = cbuf_writelen(b)
    <3> DEFINE W == recv_window
               r == b.readpos
               u == b.used
               v == c.used
               w == b.writepos
               x == c.writepos
    <3>1. /\ W \in Nat /\ W > 0 /\ r \in 0..(W - 1) /\ u \in 0..W /\ v = u + k /\ v <= W
          /\ l \in Nat /\ k \in 0..l /\ l <= W - u
      BY <1>1, <1>2, <1>3, <1>7, <2>1, <2>2, Sizes
    <3>2. /\ w = IF r + u < W THEN r + u ELSE (r + u) - W
          /\ x = IF r + v < W THEN r + v ELSE (r + v) - W
      BY <1>1, <1>8, <2>1, Zenon DEF Wrap
    <3>3. k = IF u = W THEN 0 ELSE IF w < r THEN r - w ELSE W - w
      BY <2>4 DEF cbuf_writelen
    <3>4. cbuf_writelen(c) = IF v = W THEN 0 ELSE IF x < r THEN r - x ELSE W - x
      BY <1>8 DEF cbuf_writelen
    <3> HIDE DEF W, r, u, v, w, x
    <3> QED BY <3>1, <3>2, <3>3, <3>4
  <2> QED BY <1>3, <2>3, <2>4
<1>10. a \o one \in Seq(Nat)
  BY <1>5
<1>11. Holds(cbuf_put(c, two), (a \o one) \o two, n)
  BY <1>5, <1>7, <1>9, <1>10, PutHolds
<1>12. (a \o one) \o two = a \o (one \o two)
  BY <1>5, ConcatAssociative
<1> QED BY <1>4, <1>6, <1>11, <1>12

-----------------------------------------------------------------------------
(* Steps that send nothing, and steps that send one packet. *)

\* u differs from t in nothing the law looks at, but descriptors may be closed and
\* the command may exit.
Mild(t, u) ==
    /\ DOMAIN u = Fields
    /\ u.out = t.out /\ u.recvwindow = t.recvwindow /\ u.transwindow = t.transwindow
    /\ u.sent_eof = t.sent_eof /\ u.sent_close = t.sent_close /\ u.late = t.late
    /\ u.unnamed = t.unnamed \/ ~t.sent_close
    /\ t.unnamed \in BOOLEAN => u.unnamed \in BOOLEAN
    /\ u.state = t.state /\ u.cmd = t.cmd
    /\ u.writebuf = t.writebuf /\ u.accepted = t.accepted /\ u.delivered = t.delivered
    /\ (t.recv_close => u.recv_close) /\ (t.exitpid => u.exitpid)
    /\ u.readfd \in {t.readfd, "closed"} /\ u.errfd \in {t.errfd, "closed"}
    /\ u.writefd \in {t.writefd, "closed"}

LEMMA MildLaw ==
    ASSUME NEW c, NEW w, NEW g, NEW t, NEW u, Law(c, w, g, t), Mild(t, u)
    PROVE  Law(c, w, g, u)
<1>1. FlagsOK(u)
  BY DEF Law, FlagsOK, Mild
<1>2. OrderOK(c.q, c.got, u)
  <2>1. /\ Orderly(All(c.q, t), c.got, t.sent_eof, t.sent_close, t.late, t.unnamed)
        /\ t.sent_close \in BOOLEAN
    BY DEF Law, OrderOK, FlagsOK
  <2>2. /\ All(c.q, u) = All(c.q, t) /\ u.sent_eof = t.sent_eof /\ u.sent_close = t.sent_close
        /\ u.late = t.late /\ (u.unnamed = t.unnamed \/ ~t.sent_close)
    BY DEF All, Mild
  <2>3. Orderly(All(c.q, t), c.got, t.sent_eof, t.sent_close, t.late, u.unnamed)
    <3>1. CASE u.unnamed = t.unnamed
      BY <2>1, <3>1
    <3>2. CASE ~t.sent_close
      BY <2>1, <3>2, OrderMute
    <3> QED BY <2>2, <3>1, <3>2
  <2> QED BY <2>2, <2>3 DEF OrderOK
<1>3. PeerOK(c.q, w, g, u)
  BY DEF Law, PeerOK, All, Mild
<1>4. RingOK(c.acc, c.del, u)
  BY DEF Law, RingOK, Mild, Closed
<1> QED BY <1>1, <1>2, <1>3, <1>4 DEF Law

LEMMA MildTrans ==
    ASSUME NEW t, NEW u, NEW v, Mild(t, u), Mild(u, v)
    PROVE  Mild(t, v)
BY DEF Mild

LEMMA MildSelf ==
    ASSUME NEW t, DOMAIN t = Fields
    PROVE  Mild(t, t)
BY DEF Mild

LEMMA MildClose ==
    ASSUME NEW t, DOMAIN t = Fields, NEW fd
    PROVE  LET u == close_chan_fd(t, fd)
           IN  /\ Mild(t, u)
               /\ u.readfd = IF t.readfd = fd THEN "closed" ELSE t.readfd
               /\ u.errfd = IF t.errfd = fd THEN "closed" ELSE t.errfd
               /\ u.writefd = IF t.writefd = fd THEN "closed" ELSE t.writefd
<1> DEFINE r == IF t.readfd = fd THEN "closed" ELSE t.readfd
           e == IF t.errfd = fd THEN "closed" ELSE t.errfd
           w == IF t.writefd = fd THEN "closed" ELSE t.writefd
           u == [t EXCEPT !.readfd = r, !.errfd = e, !.writefd = w]
<1>1. close_chan_fd(t, fd) = u
  BY DEF close_chan_fd
<1>2. r \in {t.readfd, "closed"} /\ e \in {t.errfd, "closed"} /\ w \in {t.writefd, "closed"}
  OBVIOUS
<1> HIDE DEF r, e, w
<1>3. u.readfd = r /\ u.errfd = e /\ u.writefd = w
  BY DEF Fields
<1>4. Mild(t, u)
  BY <1>2 DEF Fields, Mild
<1> HIDE DEF u
<1> QED BY <1>1, <1>3, <1>4 DEF r, e, w

LEMMA MildFlags ==
    ASSUME NEW t, DOMAIN t = Fields, NEW a, NEW b
    PROVE  /\ Mild(t, [t EXCEPT !.flushing = a]) /\ Mild(t, [t EXCEPT !.signal = a])
           /\ Mild(t, [t EXCEPT !.recv_eof = a]) /\ Mild(t, [t EXCEPT !.recv_eof = a, !.recv_close = TRUE])
           /\ Mild(t, [t EXCEPT !.child = a, !.exitpid = TRUE])
           /\ Mild(t, [t EXCEPT !.pout = a]) /\ Mild(t, [t EXCEPT !.perr = a])
<1>1. Mild(t, [t EXCEPT !.flushing = a])
  BY DEF Fields, Mild
<1>2. Mild(t, [t EXCEPT !.signal = a])
  BY DEF Fields, Mild
<1>3. Mild(t, [t EXCEPT !.recv_eof = a])
  BY DEF Fields, Mild
<1>4. Mild(t, [t EXCEPT !.recv_eof = a, !.recv_close = TRUE])
  BY DEF Fields, Mild
<1>5. Mild(t, [t EXCEPT !.child = a, !.exitpid = TRUE])
  BY DEF Fields, Mild
<1>6. Mild(t, [t EXCEPT !.pout = a])
  BY DEF Fields, Mild
<1>7. Mild(t, [t EXCEPT !.perr = a])
  BY DEF Fields, Mild
<1> QED BY <1>1, <1>2, <1>3, <1>4, <1>5, <1>6, <1>7

\* What stays when a packet is sent.
Kept(t, u) ==
    /\ DOMAIN u = Fields /\ SameFds(t, u)
    /\ u.late = t.late /\ u.unnamed = t.unnamed /\ u.state = t.state /\ u.cmd = t.cmd
    /\ u.writebuf = t.writebuf /\ u.accepted = t.accepted /\ u.delivered = t.delivered
    /\ u.recv_close = t.recv_close /\ u.exitpid = t.exitpid

LEMMA AllAppend ==
    ASSUME NEW q \in Seq(MsgOut), NEW t, t.out \in Seq(MsgOut), NEW m \in MsgOut, NEW u, u.out = Append(t.out, m)
    PROVE  /\ All(q, t) \in Seq(MsgOut) /\ All(q, u) = Append(All(q, t), m)
           /\ Total(All(q, t), "DATA") \in Nat /\ Total(All(q, t), "ADJUST") \in Nat
           /\ Total(All(q, u), "DATA") = Total(All(q, t), "DATA") + Amount(m, "DATA")
           /\ Total(All(q, u), "ADJUST") = Total(All(q, t), "ADJUST") + Amount(m, "ADJUST")
<1>1. All(q, t) \in Seq(MsgOut)
  BY CatType DEF All
<1>2. All(q, u) = Append(All(q, t), m)
  BY CatAppend DEF All
<1>3. Total(All(q, t), "DATA") \in Nat /\ Total(All(q, t), "ADJUST") \in Nat
  BY <1>1, AmountsType, CountsAll
<1>4. /\ Total(Append(All(q, t), m), "DATA") = Total(All(q, t), "DATA") + Amount(m, "DATA")
      /\ Total(Append(All(q, t), m), "ADJUST") = Total(All(q, t), "ADJUST") + Amount(m, "ADJUST")
  BY <1>1, TotalAppend, CountsAll
<1> QED BY <1>1, <1>2, <1>3, <1>4

\* A packet other than CLOSE: window given back is counted, output is paid for.
LEMMA SendLaw ==
    ASSUME NEW c \in Start, NEW w \in Nat, NEW g \in Int, NEW t, ChType(t), Law(c, w, g, t), ~t.sent_close,
           NEW m \in MsgOut, m.type # "CLOSE", m.type = "DATA" => ~t.sent_eof \/ t.late,
           NEW u, Kept(t, u), u.out = Append(t.out, m), u.sent_close = t.sent_close,
           u.recvwindow = t.recvwindow + Amount(m, "ADJUST"),
           u.transwindow = t.transwindow - Amount(m, "DATA"),
           u.sent_eof \in BOOLEAN, t.sent_eof => u.sent_eof, m.type = "EOF" => u.sent_eof,
           u.sent_eof => t.sent_eof \/ (t.readfd = "closed" /\ t.errfd = "closed")
    PROVE  Law(c, w, g, u)
<1> DEFINE a == All(c.q, t)
           b == All(c.q, u)
<1>1. t.out \in Seq(MsgOut) /\ t.recvwindow \in Int /\ t.transwindow \in Nat /\ c.q \in Seq(MsgOut)
  BY DEF ChType, Start
<1>2. /\ a \in Seq(MsgOut) /\ b = Append(a, m)
      /\ Total(a, "DATA") \in Nat /\ Total(a, "ADJUST") \in Nat
      /\ Total(b, "DATA") = Total(a, "DATA") + Amount(m, "DATA")
      /\ Total(b, "ADJUST") = Total(a, "ADJUST") + Amount(m, "ADJUST")
  BY <1>1, AllAppend
<1>3. Amount(m, "DATA") \in Nat /\ Amount(m, "ADJUST") \in Nat
  BY AmountType
<1>4. /\ w + Total(a, "ADJUST") <= t.recvwindow /\ t.transwindow + Total(a, "DATA") <= g
      /\ Orderly(a, c.got, t.sent_eof, t.sent_close, t.late, t.unnamed)
      /\ t.sent_eof \in BOOLEAN /\ t.sent_close \in BOOLEAN
  BY DEF Law, PeerOK, OrderOK, FlagsOK
<1> HIDE DEF a, b
<1>5. FlagsOK(u)
  BY DEF Law, FlagsOK, Kept, SameFds
<1>6. Orderly(b, c.got, u.sent_eof, u.sent_close, u.late, u.unnamed)
  <2>1. t.sent_close = FALSE /\ u.sent_close = FALSE /\ u.late = t.late /\ u.unnamed = t.unnamed
    BY <1>4 DEF Kept
  <2>2. Orderly(Append(a, m), c.got, u.sent_eof, FALSE, t.late, t.unnamed)
    BY <1>2, <1>4, <2>1, OrderAppend
  <2> QED BY <1>2, <2>1, <2>2
<1>7. w + Total(b, "ADJUST") <= u.recvwindow /\ u.transwindow + Total(b, "DATA") <= g
  <2> DEFINE d == Total(a, "DATA")
             e == Total(a, "ADJUST")
             x == Amount(m, "DATA")
             y == Amount(m, "ADJUST")
             p == t.recvwindow
             r == t.transwindow
  <2>1. /\ d \in Nat /\ e \in Nat /\ x \in Nat /\ y \in Nat /\ p \in Int /\ r \in Nat
        /\ w + e <= p /\ r + d <= g
        /\ Total(b, "DATA") = d + x /\ Total(b, "ADJUST") = e + y
        /\ u.recvwindow = p + y /\ u.transwindow = r - x
    BY <1>1, <1>2, <1>3, <1>4
  <2> HIDE DEF d, e, x, y, p, r
  <2> QED BY <2>1
<1>8. RingOK(c.acc, c.del, u)
  BY DEF Law, RingOK, Kept, SameFds
<1> QED BY <1>5, <1>6, <1>7, <1>8 DEF Law, OrderOK, PeerOK, a, b

\* d is a and then the exit status, which is left out if mute, and CLOSE.
Ended(d, a, mute) == d = Append(IF mute THEN a ELSE Append(a, [type |-> "EXIT"]), [type |-> "CLOSE"])

LEMMA CatEnded ==
    ASSUME NEW q \in Seq(MsgOut), NEW r \in Seq(MsgOut), NEW mute, NEW d, Ended(d, r, mute)
    PROVE  Ended(Cat(q, d), Cat(q, r), mute)
<1> DEFINE x == [type |-> "EXIT"]
           y == [type |-> "CLOSE"]
           p == IF mute THEN r ELSE Append(r, x)
<1>1. x \in MsgOut /\ y \in MsgOut
  BY Messages
<1> HIDE DEF x, y
<1>2. p \in Seq(MsgOut) /\ Cat(q, p) = IF mute THEN Cat(q, r) ELSE Append(Cat(q, r), x)
  <2>1. CASE mute
    BY <2>1
  <2>2. CASE ~mute
    BY <1>1, <2>2, CatAppend
  <2> QED BY <2>1, <2>2
<1>3. Cat(q, Append(p, y)) = Append(Cat(q, p), y)
  <2>1. p \in Seq(MsgOut)
    BY <1>2
  <2> HIDE DEF p
  <2> QED BY <1>1, <2>1, CatAppend
<1> HIDE DEF p
<1>4. d = Append(p, y)
  BY DEF Ended, p, x, y
<1> QED BY <1>2, <1>3, <1>4 DEF Ended, x, y

\* Packets a are in order before CLOSE, and packets d with it.
Ending(a, got, eof, late, mute, d) ==
    a \in Seq(MsgOut) /\ Orderly(a, got, eof, FALSE, late, mute) /\ Ended(d, a, mute)

AtEnd(a, got, late, mute, d) ==
    /\ Orderly(d, got, TRUE, TRUE, late, mute)
    /\ Total(d, "DATA") = Total(a, "DATA") /\ Total(d, "ADJUST") = Total(a, "ADJUST")

LEMMA CloseWire ==
    ASSUME NEW a, NEW got, NEW eof, NEW late, NEW mute, NEW d, Ending(a, got, eof, late, mute, d)
    PROVE  AtEnd(a, got, late, mute, d)
<1> USE DEF Ending
<1> DEFINE x == [type |-> "EXIT"]
           y == [type |-> "CLOSE"]
           z == Append(a, x)
           b == IF mute THEN a ELSE z
<1>1. x \in MsgOut /\ y \in MsgOut /\ x.type = "EXIT" /\ y.type = "CLOSE"
  BY Messages
<1> HIDE DEF x, y
<1>2. z \in Seq(MsgOut) /\ z # <<>> /\ z[Len(z)] = x
  BY <1>1, AppendProperties
<1>3. x.type # "CLOSE" /\ x.type # "DATA" /\ x.type # "EOF"
  BY <1>1
<1>4. Orderly(z, got, eof, FALSE, late, mute)
  <2>1. (eof => eof) /\ (x.type = "EOF" => eof) /\ (x.type = "DATA" => ~eof \/ late)
    BY <1>3
  <2> QED BY <1>1, <1>3, <2>1, OrderAppend
<1>5. Total(z, "DATA") = Total(a, "DATA") + Amount(x, "DATA") /\ Total(a, "DATA") \in Nat
  BY <1>1, TotalAppend, AmountsType, CountsAll
<1>6. Total(z, "ADJUST") = Total(a, "ADJUST") + Amount(x, "ADJUST") /\ Total(a, "ADJUST") \in Nat
  BY <1>1, TotalAppend, AmountsType, CountsAll
<1> HIDE DEF z
<1>7. /\ b \in Seq(MsgOut) /\ (mute \/ (b # <<>> /\ b[Len(b)].type = "EXIT"))
      /\ Orderly(b, got, eof, FALSE, late, mute)
  BY <1>1, <1>2, <1>4
<1>8. Total(b, "DATA") = Total(a, "DATA") /\ Total(b, "ADJUST") = Total(a, "ADJUST")
  <2>1. Amount(x, "DATA") = 0 /\ Amount(x, "ADJUST") = 0
    BY <1>1 DEF Amount
  <2>2. Total(z, "DATA") = Total(a, "DATA") /\ Total(z, "ADJUST") = Total(a, "ADJUST")
    BY <1>5, <1>6, <2>1
  <2> QED BY <2>2
<1>9. d = Append(b, y)
  BY DEF z, Ended, x, y
<1> HIDE DEF b
<1>10. Orderly(d, got, TRUE, TRUE, late, mute)
  BY <1>1, <1>7, <1>9, OrderClose
<1>11. Total(d, "DATA") = Total(b, "DATA") + Amount(y, "DATA")
  BY <1>1, <1>7, <1>9, TotalAppend, CountsAll
<1>12. Total(d, "ADJUST") = Total(b, "ADJUST") + Amount(y, "ADJUST")
  BY <1>1, <1>7, <1>9, TotalAppend, CountsAll
<1>13. Amount(y, "DATA") = 0 /\ Amount(y, "ADJUST") = 0
  BY <1>1 DEF Amount
<1>14. Total(d, "DATA") = Total(a, "DATA") /\ Total(d, "ADJUST") = Total(a, "ADJUST")
  BY <1>5, <1>6, <1>8, <1>11, <1>12, <1>13
<1> QED BY <1>10, <1>14 DEF AtEnd

\* The exit status, if it can be told, and CLOSE, with which all descriptors are closed.
LEMMA CloseLaw ==
    ASSUME NEW c \in Start, NEW w \in Nat, NEW g \in Int, NEW t, ChType(t), Law(c, w, g, t), ~t.sent_close, t.exitpid,
           NEW u, u.late = t.late, u.unnamed = t.unnamed, u.state = t.state, u.cmd = t.cmd, u.accepted = t.accepted,
           u.delivered = t.delivered, u.recv_close = t.recv_close, u.exitpid = t.exitpid, u.writebuf = t.writebuf,
           u.recvwindow = t.recvwindow, u.transwindow = t.transwindow,
           Ended(u.out, t.out, t.unnamed),
           u.sent_eof = TRUE, u.sent_close = TRUE,
           u.readfd = "closed", u.errfd = "closed", u.writefd = "closed"
    PROVE  Law(c, w, g, u)
<1> DEFINE a == All(c.q, t)
           d == All(c.q, u)
<1>1. t.out \in Seq(MsgOut) /\ c.q \in Seq(MsgOut)
  BY DEF ChType, Start
<1>2. a \in Seq(MsgOut) /\ Ended(d, a, t.unnamed)
  BY <1>1, CatType, CatEnded DEF All
<1>3. /\ w + Total(a, "ADJUST") <= t.recvwindow /\ t.transwindow + Total(a, "DATA") <= g
      /\ Orderly(a, c.got, t.sent_eof, FALSE, t.late, t.unnamed)
  BY DEF Law, PeerOK, OrderOK, FlagsOK
<1> HIDE DEF a, d
<1>4. /\ Orderly(d, c.got, TRUE, TRUE, t.late, t.unnamed)
      /\ Total(d, "DATA") = Total(a, "DATA") /\ Total(d, "ADJUST") = Total(a, "ADJUST")
  <2>1. Ending(a, c.got, t.sent_eof, t.late, t.unnamed, d)
    BY <1>2, <1>3 DEF Ending
  <2>2. AtEnd(a, c.got, t.late, t.unnamed, d)
    BY <2>1, CloseWire
  <2> QED BY <2>2 DEF AtEnd
<1>5. FlagsOK(u)
  BY DEF Law, FlagsOK
<1>6. RingOK(c.acc, c.del, u)
  BY DEF Law, RingOK, Closed
<1>7. OrderOK(c.q, c.got, u)
  BY <1>4 DEF OrderOK, d
<1>8. PeerOK(c.q, w, g, u)
  BY <1>3, <1>4 DEF PeerOK, d
<1> QED BY <1>5, <1>6, <1>7, <1>8 DEF Law

-----------------------------------------------------------------------------
(* Sending and closing. *)

LEMMA ChannelClose ==
    ASSUME NEW c \in Start, NEW w \in Nat, NEW g \in Int, NEW t, Base(t), Law(c, w, g, t), ~t.sent_close, t.exitpid
    PROVE  Law(c, w, g, send_msg_channel_close(t))
<1> DEFINE x == Append(IF t.unnamed THEN t.out ELSE Append(t.out, [type |-> "EXIT"]), [type |-> "CLOSE"])
           u == [t EXCEPT !.out = x, !.sent_eof = TRUE, !.sent_close = TRUE]
           a == close_chan_fd(u, u.readfd)
           b == close_chan_fd(a, u.errfd)
           d == close_chan_fd(b, u.writefd)
<1>1. DOMAIN t = Fields /\ ChType(t)
  BY DEF Base, ChType
<1>2. send_msg_channel_close(t) = d
  <2>1. u = [send(send_exitsignalstatus(t), [type |-> "CLOSE"]) EXCEPT !.sent_eof = TRUE, !.sent_close = TRUE]
    <3>1. CASE t.unnamed
      BY <1>1, <3>1 DEF send, send_exitsignalstatus, Fields
    <3>2. CASE ~t.unnamed
      BY <1>1, <3>2 DEF send, send_exitsignalstatus, Fields
    <3> QED BY <3>1, <3>2
  <2> HIDE DEF u
  <2> QED BY <2>1 DEF send_msg_channel_close
<1> HIDE DEF x
<1>3. /\ DOMAIN u = Fields
      /\ u.late = t.late /\ u.unnamed = t.unnamed /\ u.state = t.state /\ u.cmd = t.cmd /\ u.accepted = t.accepted
      /\ u.delivered = t.delivered /\ u.recv_close = t.recv_close /\ u.exitpid = t.exitpid
      /\ u.recvwindow = t.recvwindow /\ u.transwindow = t.transwindow /\ u.writebuf = t.writebuf
      /\ u.out = x /\ u.sent_eof = TRUE /\ u.sent_close = TRUE
  BY <1>1 DEF Fields
<1> HIDE DEF u
<1>4. /\ Mild(u, a) /\ DOMAIN a = Fields /\ a.readfd = "closed"
      /\ a.errfd \in {u.errfd, "closed"} /\ a.writefd \in {u.writefd, "closed"}
  BY <1>3, MildClose DEF Mild
<1> HIDE DEF a
<1>5. /\ Mild(a, b) /\ DOMAIN b = Fields /\ b.readfd = "closed" /\ b.errfd = "closed"
      /\ b.writefd \in {u.writefd, "closed"}
  BY <1>4, MildClose DEF Mild
<1> HIDE DEF b
<1>6. Mild(b, d) /\ d.readfd = "closed" /\ d.errfd = "closed" /\ d.writefd = "closed"
  BY <1>5, MildClose
<1> HIDE DEF d
<1>7. Mild(u, d)
  BY <1>4, <1>5, <1>6, MildTrans
<1>8. d.recv_close = u.recv_close /\ d.exitpid = u.exitpid
  BY <1>3 DEF d, b, a, close_chan_fd, Fields
<1>9. Law(c, w, g, d)
  <2>1. /\ d.late = t.late /\ d.unnamed = t.unnamed /\ d.state = t.state /\ d.cmd = t.cmd /\ d.accepted = t.accepted
        /\ d.delivered = t.delivered /\ d.recv_close = t.recv_close /\ d.exitpid = t.exitpid
        /\ d.recvwindow = t.recvwindow /\ d.transwindow = t.transwindow /\ d.writebuf = t.writebuf
        /\ d.sent_eof = TRUE /\ d.sent_close = TRUE
        /\ Ended(d.out, t.out, t.unnamed)
    BY <1>3, <1>7, <1>8 DEF Mild, x, Ended
  <2> QED BY <1>1, <1>6, <2>1, CloseLaw
<1> QED BY <1>2, <1>9

LEMMA ChannelEof ==
    ASSUME NEW c \in Start, NEW w \in Nat, NEW g \in Int, NEW t, Base(t), Law(c, w, g, t), ~t.sent_close,
           t.readfd = "closed", t.errfd = "closed"
    PROVE  Law(c, w, g, send_msg_channel_eof(t))
<1> DEFINE m == [type |-> "EOF"]
           x == Append(t.out, m)
           u == [t EXCEPT !.out = x, !.sent_eof = TRUE]
<1>1. DOMAIN t = Fields /\ ChType(t) /\ t.recvwindow \in Int /\ t.transwindow \in Int
  BY DEF Base, ChType
<1>2. send_msg_channel_eof(t) = u
  BY <1>1 DEF send_msg_channel_eof, send, Fields
<1>3. m \in MsgOut /\ m.type = "EOF" /\ Amount(m, "ADJUST") = 0 /\ Amount(m, "DATA") = 0
  BY Messages DEF Amount
<1> HIDE DEF x, m
<1>4. /\ Kept(t, u) /\ u.out = x /\ u.sent_close = t.sent_close /\ u.sent_eof = TRUE
      /\ u.recvwindow = t.recvwindow /\ u.transwindow = t.transwindow
  BY <1>1 DEF Fields, Kept, SameFds
<1> HIDE DEF u
<1>5. u.recvwindow = t.recvwindow + Amount(m, "ADJUST") /\ u.transwindow = t.transwindow - Amount(m, "DATA")
  BY <1>1, <1>3, <1>4
<1> QED BY <1>1, <1>2, <1>3, <1>4, <1>5, SendLaw DEF x

LEMMA ChannelReply ==
    ASSUME NEW c \in Start, NEW w \in Nat, NEW g \in Int, NEW t, Base(t), Law(c, w, g, t),
           NEW type \in {"SUCCESS", "FAILURE"}
    PROVE  Law(c, w, g, send_reply(t, type))
<1> DEFINE m == [type |-> type]
           x == Append(t.out, m)
           u == [t EXCEPT !.out = x]
<1>1. DOMAIN t = Fields /\ ChType(t) /\ t.recvwindow \in Int /\ t.transwindow \in Int
      /\ t.sent_eof \in BOOLEAN
  BY DEF Base, ChType, Law, FlagsOK
<1>2. send_reply(t, type) = IF t.sent_close THEN t ELSE u
  BY DEF send_reply, send
<1>3. m \in MsgOut /\ m.type = type /\ Amount(m, "ADJUST") = 0 /\ Amount(m, "DATA") = 0
  BY Messages DEF Amount
<1> HIDE DEF x, m
<1>4. /\ Kept(t, u) /\ u.out = x /\ u.sent_close = t.sent_close /\ u.sent_eof = t.sent_eof
      /\ u.recvwindow = t.recvwindow /\ u.transwindow = t.transwindow
  BY <1>1 DEF Fields, Kept, SameFds
<1> HIDE DEF u
<1>5. u.recvwindow = t.recvwindow + Amount(m, "ADJUST") /\ u.transwindow = t.transwindow - Amount(m, "DATA")
  BY <1>1, <1>3, <1>4
<1>6. ASSUME ~t.sent_close PROVE Law(c, w, g, u)
  BY <1>1, <1>3, <1>4, <1>5, <1>6, SendLaw DEF x
<1> QED BY <1>2, <1>6

\* Output is read from an open descriptor: then neither CLOSE nor, unless the
\* command came late, EOF was sent.
LEMMA ChannelData ==
    ASSUME NEW c \in Start, NEW w \in Nat, NEW g \in Int, NEW t, Base(t), Law(c, w, g, t),
           NEW stream \in {"out", "err"}, Fd(t, stream) \notin Closed
    PROVE  Law(c, w, g, send_msg_channel_data(t, stream))
<1> DEFINE fd == Fd(t, stream)
           max == maxlen(t)
           len == MIN(max, Pending(t, stream))
           m == [type |-> "DATA", n |-> len]
           a == Take(t, stream, len)
           b == send(a, m)
           u == [b EXCEPT !.transwindow = b.transwindow - len]
<1>1. /\ DOMAIN t = Fields /\ ChType(t) /\ t.pout \in Nat /\ t.perr \in Nat /\ t.transwindow \in Nat
      /\ t.recvwindow \in Int
  BY DEF Base, ChType
<1>2. ~t.sent_close /\ (~t.sent_eof \/ t.late) /\ t.sent_eof \in BOOLEAN
  BY DEF Law, FlagsOK, Fd, Closed
<1>3. send_msg_channel_data(t, stream) =
        IF max = 0 THEN t
        ELSE IF len = 0 THEN close_chan_fd(t, fd)
        ELSE IF t.flushing /\ len < max THEN close_chan_fd(u, fd)
        ELSE u
  BY <1>2 DEF send_msg_channel_data
<1>4. len \in Nat
  BY <1>1, Sizes DEF MIN, maxlen, Pending
<1>5. m \in MsgOut /\ m.type = "DATA" /\ Amount(m, "DATA") = len /\ Amount(m, "ADJUST") = 0
  BY <1>4, Messages DEF Amount
<1> HIDE DEF fd, max, len, m
<1>6. /\ Mild(t, a) /\ DOMAIN a = Fields /\ SameFds(t, a) /\ a.recv_close = t.recv_close /\ a.exitpid = t.exitpid
      /\ a.unnamed = t.unnamed
  <2>1. CASE stream = "err"
    <3>1. a = [t EXCEPT !.perr = t.perr - len]
      BY <2>1 DEF Take
    <3> QED BY <1>1, <3>1 DEF Mild, Fields, SameFds
  <2>2. CASE stream # "err"
    <3>1. a = [t EXCEPT !.pout = t.pout - len]
      BY <2>2 DEF Take
    <3> QED BY <1>1, <3>1 DEF Mild, Fields, SameFds
  <2> QED BY <2>1, <2>2
<1> HIDE DEF a
<1>7. /\ Kept(t, u) /\ u.out = Append(t.out, m) /\ u.sent_close = t.sent_close /\ u.sent_eof = t.sent_eof
      /\ u.recvwindow = t.recvwindow /\ u.transwindow = t.transwindow - len
  <2> DEFINE x == Append(a.out, m)
             y == a.transwindow - len
  <2>1. x = Append(t.out, m) /\ y = t.transwindow - len
    BY <1>6 DEF Mild
  <2>2. u = [a EXCEPT !.out = x, !.transwindow = y]
    BY <1>6 DEF send, Fields
  <2> HIDE DEF x, y, u
  <2>3. /\ Kept(a, u) /\ u.out = x /\ u.sent_close = a.sent_close /\ u.sent_eof = a.sent_eof
        /\ u.recvwindow = a.recvwindow /\ u.transwindow = y
    BY <1>6, <2>2 DEF Kept, SameFds, Fields
  <2>4. Kept(t, u)
    BY <1>6, <2>3 DEF Kept, Mild, SameFds
  <2> QED BY <1>6, <2>1, <2>3, <2>4 DEF Mild
<1> HIDE DEF u
<1>8. Law(c, w, g, u)
  <2>1. u.recvwindow = t.recvwindow + Amount(m, "ADJUST") /\ u.transwindow = t.transwindow - Amount(m, "DATA")
    BY <1>1, <1>5, <1>7
  <2> QED BY <1>1, <1>2, <1>5, <1>7, <2>1, SendLaw
<1>9. Law(c, w, g, close_chan_fd(t, fd))
  BY <1>1, MildClose, MildLaw
<1>10. Law(c, w, g, close_chan_fd(u, fd))
  <2>1. DOMAIN u = Fields
    BY <1>7 DEF Kept
  <2> QED BY <1>8, <2>1, MildClose, MildLaw
<1> QED BY <1>3, <1>8, <1>9, <1>10

-----------------------------------------------------------------------------
(* check_close(). *)

LEMMA RemoveLaw ==
    ASSUME NEW c \in Start, NEW w, NEW g, NEW t, Base(t), Law(c, w, g, t), t.recv_close
    PROVE  Law(c, w, g, remove_channel(t))
<1> DEFINE st == IF t.state = "exited" THEN t.state ELSE "removed"
           u == [t EXCEPT !.state = st, !.readfd = "closed", !.errfd = "closed", !.writefd = "closed",
                          !.writebuf = cbuf_new]
<1>1. DOMAIN t = Fields /\ (~t.cmd => t.writebuf.used = 0) /\ t.writebuf.used \in Nat
  BY DEF Base, ChType, CommandOK, CbufType
<1>2. remove_channel(t) = u
  BY DEF remove_channel
<1>3. st = "removed"
  BY DEF Law, FlagsOK
<1> HIDE DEF st
<1>4. /\ u.writebuf = cbuf_new /\ u.recvwindow = t.recvwindow /\ u.cmd = t.cmd /\ u.exitpid = t.exitpid
      /\ u.recv_close = t.recv_close /\ u.transwindow = t.transwindow /\ u.out = t.out
      /\ u.readfd = "closed" /\ u.errfd = "closed" /\ u.writefd = "closed" /\ u.state = st
      /\ u.sent_eof = t.sent_eof /\ u.sent_close = t.sent_close /\ u.late = t.late
      /\ u.unnamed = t.unnamed /\ u.accepted = t.accepted /\ u.delivered = t.delivered
  BY <1>1 DEF Fields
<1> HIDE DEF u
<1>5. FlagsOK(u)
  BY <1>3, <1>4 DEF Law, FlagsOK
<1>6. OrderOK(c.q, c.got, u) /\ PeerOK(c.q, w, g, u)
  BY <1>4 DEF Law, OrderOK, PeerOK, All
<1>7. RingOK(c.acc, c.del, u)
  <2>1. ASSUME ~t.cmd PROVE Holds(cbuf_new, t.accepted, Len(t.delivered))
    <3>1. t.accepted \in Seq(Nat) /\ t.delivered \in Seq(Nat) /\ Len(t.accepted) = Len(t.delivered) + t.writebuf.used
      BY <2>1 DEF Law, RingOK, Holds
    <3>2. Len(t.accepted) = Len(t.delivered)
      BY <1>1, <2>1, <3>1
    <3> QED BY <3>1, <3>2, HoldsNew
  <2> QED BY <1>4, <2>1 DEF Law, RingOK, Closed
<1> QED BY <1>2, <1>5, <1>6, <1>7 DEF Law

LEMMA FlushLaw ==
    ASSUME NEW c \in Start, NEW w \in Nat, NEW g \in Int, NEW t, Base(t), Law(c, w, g, t),
           NEW stream \in {"out", "err"}
    PROVE  Law(c, w, g, flush(t, stream))
BY ChannelData DEF flush

LEMMA EndOutputLaw ==
    ASSUME NEW c \in Start, NEW w \in Nat, NEW g \in Int, NEW t, Base(t), Law(c, w, g, t)
    PROVE  Law(c, w, g, end_output(t))
<1>1. ~t.sent_eof => ~t.sent_close
  BY DEF Law, FlagsOK
<1> QED BY <1>1, ChannelEof DEF end_output

LEMMA CloseUpLaw ==
    ASSUME NEW c \in Start, NEW w \in Nat, NEW g \in Int, NEW t, Base(t), Law(c, w, g, t)
    PROVE  Law(c, w, g, close_up(t))
BY ChannelClose DEF close_up, close_allowed, sesscheckclose

LEMMA CheckCloseLaw ==
    ASSUME NEW c \in Start, NEW w \in Nat, NEW g \in Int, NEW t, Inv(t), Law(c, w, g, t)
    PROVE  Law(c, w, g, check_close(t))
<1> DEFINE u == start_flushing(t)
           a == close_input(u)
           b == flush(a, "out")
           d == flush(b, "err")
           e == end_output(d)
           f == close_up(e)
           x == IF u.sent_close THEN u ELSE send_msg_channel_close(u)
<1>1. check_close(t) = IF u.recv_close /\ ~write_pending(u) /\ close_allowed(u) THEN remove_channel(x) ELSE f
  BY DEF check_close
<1>2. Inv(u) /\ Base(u) /\ DOMAIN u = Fields
  BY StartFlushing DEF Inv, Base, ChType
<1>3. Law(c, w, g, u)
  <2>1. DOMAIN t = Fields
    BY DEF Inv, Base, ChType
  <2> QED BY <2>1, MildFlags, MildLaw DEF start_flushing
<1> HIDE DEF u
<1>4. ASSUME u.recv_close, close_allowed(u)
      PROVE  Law(c, w, g, remove_channel(x))
  <2>1. CASE u.sent_close
    <3>1. x = u
      BY <2>1
    <3> QED BY <1>2, <1>3, <1>4, <3>1, RemoveLaw
  <2>2. CASE ~u.sent_close
    <3>1. u.exitpid
      BY <1>4, <2>2 DEF close_allowed, sesscheckclose
    <3>2. x = send_msg_channel_close(u)
      BY <2>2
    <3>3. Law(c, w, g, x)
      BY <1>2, <1>3, <2>2, <3>1, <3>2, ChannelClose
    <3>4. Base(x) /\ x.recv_close
      BY <1>2, <1>4, <3>2, CloseInv DEF Inv, Frame
    <3> QED BY <3>3, <3>4, RemoveLaw
  <2> QED BY <2>1, <2>2
<1>5. Inv(a) /\ Base(a) /\ Law(c, w, g, a)
  <2>1. Inv(a) /\ Base(a)
    BY <1>2, CloseInput DEF Inv
  <2>2. Law(c, w, g, close_chan_fd(u, u.writefd))
    BY <1>2, <1>3, MildClose, MildLaw
  <2> QED BY <1>3, <2>1, <2>2 DEF close_input
<1> HIDE DEF a
<1>6. Inv(b) /\ Base(b) /\ Law(c, w, g, b)
  BY <1>5, Flush, FlushLaw DEF Inv
<1> HIDE DEF b
<1>7. Inv(d) /\ Base(d) /\ Law(c, w, g, d)
  BY <1>6, Flush, FlushLaw DEF Inv
<1> HIDE DEF d
<1>8. Inv(e) /\ Base(e) /\ Law(c, w, g, e)
  BY <1>7, EndOutput, EndOutputLaw DEF Inv
<1> HIDE DEF e
<1>9. Law(c, w, g, f)
  BY <1>8, CloseUpLaw
<1> HIDE DEF f, x
<1> QED BY <1>1, <1>4, <1>9

-----------------------------------------------------------------------------
(* Writing to the command. *)

LEMMA BeginsTrans ==
    ASSUME NEW a \in Seq(Nat), NEW b \in Seq(Nat), NEW d \in Seq(Nat), Begins(a, b), Begins(b, d)
    PROVE  Begins(a, d)
BY DEF Begins

LEMMA BeginsCat ==
    ASSUME NEW a \in Seq(Nat), NEW b \in Seq(Nat)
    PROVE  Begins(a, a \o b)
BY DEF Begins

\* Bytes that follow the first ones in a still begin it.
LEMMA BeginsMore ==
    ASSUME NEW d \in Seq(Nat), NEW a \in Seq(Nat), Begins(d, a), NEW x \in Seq(Nat),
           Len(d) + Len(x) <= Len(a), \A i \in 1..Len(x) : x[i] = a[Len(d) + i]
    PROVE  Begins(d \o x, a)
<1>1. Len(d) \in Nat /\ Len(x) \in Nat /\ Len(d \o x) = Len(d) + Len(x)
  OBVIOUS
<1>2. ASSUME NEW i \in 1..(Len(d) + Len(x)) PROVE (d \o x)[i] = a[i]
  <2>1. (d \o x)[i] = IF i <= Len(d) THEN d[i] ELSE x[i - Len(d)]
    BY ConcatProperties
  <2>2. CASE i <= Len(d)
    <3>1. i \in 1..Len(d)
      BY <1>1, <2>2
    <3>2. d[i] = a[i]
      BY <3>1 DEF Begins
    <3> QED BY <2>1, <2>2, <3>2
  <2>3. CASE ~(i <= Len(d))
    <3>1. i - Len(d) \in 1..Len(x) /\ Len(d) + (i - Len(d)) = i
      BY <1>1, <2>3
    <3>2. x[i - Len(d)] = a[Len(d) + (i - Len(d))]
      BY <3>1
    <3> QED BY <2>1, <2>3, <3>1, <3>2
  <2> QED BY <2>2, <2>3
<1> QED BY <1>1, <1>2 DEF Begins

\* The first bytes of the buffer go to the pipe.
LEMMA FallbackLaw ==
    ASSUME NEW c \in Start, NEW w, NEW g, NEW t, Base(t), Law(c, w, g, t), t.writefd \notin Closed
    PROVE  LET u == writechannel_fallback(t)
           IN  Law(c, w, g, u) /\ u.sent_close = t.sent_close
<1> DEFINE bytes == cbuf_readptrs(t.writebuf)
           n == MIN(Len(bytes), PipeSize - t.pin)
           x == SubSeq(bytes, 1, n)
           buf == cbuf_incrread(t.writebuf, n)
           del == t.delivered \o x
           u == [t EXCEPT !.recvdonelen = t.recvdonelen + n, !.pin = t.pin + n, !.writebuf = buf, !.delivered = del]
           acc == t.accepted
           v == close_chan_fd(t, t.writefd)
<1>1. /\ DOMAIN t = Fields /\ CbufType(t.writebuf) /\ t.pin \in 0..PipeSize
      /\ acc \in Seq(Nat) /\ t.delivered \in Seq(Nat) /\ Len(t.delivered) \in Nat
      /\ Begins(c.acc, acc) /\ Begins(c.del, t.delivered) /\ Begins(t.delivered, acc)
      /\ Holds(t.writebuf, acc, Len(t.delivered))
      /\ c.del \in Seq(Nat)
  BY DEF Base, ChType, Law, RingOK, Start
<1>2. writechannel_fallback(t) = IF bytes # <<>> /\ ~t.kin THEN v ELSE u
  BY DEF writechannel_fallback
<1>3. Law(c, w, g, v) /\ v.sent_close = t.sent_close
  BY <1>1, MildClose, MildLaw DEF Mild
<1>4. /\ bytes \in Seq(Nat) /\ Len(bytes) <= t.writebuf.used /\ Len(bytes) \in Nat
      /\ \A i \in 1..Len(bytes) : bytes[i] = acc[Len(t.delivered) + i]
  BY <1>1, ReadNext
<1> HIDE DEF bytes
<1>5. n \in 0..Len(bytes)
  BY <1>1, <1>4, Sizes DEF MIN
<1> HIDE DEF n
<1>6. x \in Seq(Nat) /\ Len(x) = n /\ \A i \in 1..n : x[i] = bytes[i]
  BY <1>4, <1>5
<1>7. \A i \in 1..n : x[i] = acc[Len(t.delivered) + i]
  BY <1>4, <1>5, <1>6
<1> HIDE DEF x
<1>8. n \in Nat /\ n <= t.writebuf.used /\ t.writebuf.used \in Nat
  BY <1>1, <1>4, <1>5 DEF CbufType
<1>9. Holds(buf, acc, Len(t.delivered) + n)
  BY <1>1, <1>8, IncrRead
<1>10. /\ del \in Seq(Nat) /\ Len(del) = Len(t.delivered) + n
       /\ Begins(c.del, del) /\ Begins(del, acc)
  <2>1. del \in Seq(Nat) /\ Len(del) = Len(t.delivered) + n
    <3>1. t.delivered \in Seq(Nat) /\ x \in Seq(Nat) /\ Len(x) = n
      BY <1>1, <1>6
    <3> QED BY <3>1, ConcatProperties
  <2>2. Begins(t.delivered, del)
    BY <1>1, <1>6, BeginsCat
  <2>3. Len(t.delivered) + Len(x) <= Len(acc)
    <3>1. Len(acc) = Len(t.delivered) + t.writebuf.used
      BY <1>1 DEF Holds
    <3> QED BY <1>1, <1>6, <1>8, <3>1
  <2>4. Begins(del, acc)
    BY <1>1, <1>6, <1>7, <2>3, BeginsMore
  <2> HIDE DEF del
  <2> QED BY <1>1, <2>1, <2>2, <2>4, BeginsTrans
<1> HIDE DEF buf, del, acc
<1>11. /\ u.writebuf = buf /\ u.recvwindow = t.recvwindow /\ u.cmd = t.cmd /\ u.exitpid = t.exitpid
       /\ u.recv_close = t.recv_close /\ u.transwindow = t.transwindow /\ u.out = t.out
       /\ SameFds(t, u) /\ u.state = t.state
       /\ u.sent_eof = t.sent_eof /\ u.sent_close = t.sent_close /\ u.late = t.late
       /\ u.unnamed = t.unnamed /\ u.accepted = acc /\ u.delivered = del
  BY <1>1 DEF Fields, SameFds, acc
<1> HIDE DEF u
<1>12. FlagsOK(u)
  BY <1>11 DEF Law, FlagsOK, SameFds
<1>13. OrderOK(c.q, c.got, u) /\ PeerOK(c.q, w, g, u)
  BY <1>11 DEF Law, OrderOK, PeerOK, All
<1>14. RingOK(c.acc, c.del, u)
  BY <1>1, <1>9, <1>10, <1>11 DEF RingOK
<1>15. Law(c, w, g, u)
  BY <1>12, <1>13, <1>14 DEF Law
<1> QED BY <1>2, <1>3, <1>11, <1>15

\* The window grows by what was written, and the client is told: no assertion fails.
LEMMA WriteLaw ==
    ASSUME NEW c \in Start, NEW w \in Nat, NEW g \in Int, NEW t, Base(t), Law(c, w, g, t),
           Sum(t) <= recv_window, t.writefd \notin Closed
    PROVE  Law(c, w, g, writechannel(t))
<1> DEFINE u == writechannel_fallback(t)
           n == u.recvdonelen
           m == [type |-> "ADJUST", n |-> n]
           x == Append(u.out, m)
           r == u.recvwindow + n
           b == [u EXCEPT !.out = x, !.recvwindow = r, !.recvdonelen = 0]
           v == IF n >= RECV_WINDOWEXTEND THEN b ELSE u
<1>1. writechannel(t) = IF v.recvwindow > recv_window \/ v.recvwindow > recv_window - v.writebuf.used
                        THEN dropbear_exit(v) ELSE v
  <2>1. DOMAIN u = Fields
    BY Fallback DEF Base, ChType
  <2>2. b = [send(u, m) EXCEPT !.recvwindow = @ + u.recvdonelen, !.recvdonelen = 0]
    <3> HIDE DEF u
    <3> QED BY <2>1 DEF send, Fields
  <2> QED BY <2>2 DEF writechannel, cbuf_getavail
<1>2. /\ Base(u) /\ Sum(u) = Sum(t) /\ Law(c, w, g, u) /\ u.sent_close = t.sent_close
  BY Fallback, FallbackLaw
<1> HIDE DEF u
<1>3. /\ DOMAIN u = Fields /\ ChType(u) /\ u.recvwindow \in Int /\ n \in Nat /\ u.writebuf.used \in Nat
      /\ u.transwindow \in Nat /\ u.out \in Seq(MsgOut)
      /\ u.recvwindow + n + u.writebuf.used <= recv_window
      /\ ~u.sent_close /\ u.sent_eof \in BOOLEAN
  BY <1>2 DEF Base, ChType, CbufType, Sum, Law, FlagsOK, Closed
<1>4. m \in MsgOut /\ m.type = "ADJUST" /\ Amount(m, "ADJUST") = n /\ Amount(m, "DATA") = 0
  BY <1>3, Messages DEF Amount
<1> HIDE DEF n, m, x, r
<1>5. /\ Kept(u, b) /\ b.out = x /\ b.sent_close = u.sent_close /\ b.sent_eof = u.sent_eof
      /\ b.recvwindow = r /\ b.transwindow = u.transwindow
  BY <1>3 DEF Kept, SameFds, Fields
<1> HIDE DEF b
<1>6. Law(c, w, g, b)
  <2>1. b.recvwindow = u.recvwindow + Amount(m, "ADJUST") /\ b.transwindow = u.transwindow - Amount(m, "DATA")
    BY <1>3, <1>4, <1>5 DEF r
  <2>2. m.type # "CLOSE" /\ m.type # "DATA" /\ m.type # "EOF" /\ b.out = Append(u.out, m)
    BY <1>4, <1>5 DEF x
  <2> QED BY <1>2, <1>3, <1>4, <1>5, <2>1, <2>2, SendLaw
<1>7. v.recvwindow + v.writebuf.used <= recv_window /\ v.writebuf.used \in Nat /\ v.recvwindow \in Int
  <2>1. b.writebuf.used = u.writebuf.used /\ b.recvwindow = u.recvwindow + n
    BY <1>5 DEF Kept, r
  <2> DEFINE p == u.recvwindow
             y == u.writebuf.used
  <2>2. p + n + y <= recv_window /\ p \in Int /\ n \in Nat /\ y \in Nat
    BY <1>3
  <2> HIDE DEF p, y
  <2>3. p + y <= recv_window /\ (p + n) + y <= recv_window /\ p + n \in Int
    BY <2>2, Sizes
  <2> QED BY <2>1, <2>2, <2>3 DEF p, y
<1>8. Law(c, w, g, v)
  BY <1>2, <1>6
<1> HIDE DEF v
<1>9. ~(v.recvwindow > recv_window \/ v.recvwindow > recv_window - v.writebuf.used)
  BY <1>7, Sizes
<1> QED BY <1>1, <1>8, <1>9

\* The client sent no more than it may: its packet fits.
LEMMA RecvDataLaw ==
    ASSUME NEW c \in Start, NEW w \in Nat, NEW g \in Int, NEW t, Inv(t), NEW bytes \in Seq(Nat),
           Law(c, w + Len(bytes), g, t), ~t.recv_eof
    PROVE  Law(c, w, g, common_recv_msg_channel_data(t, bytes))
<1> DEFINE l == Len(bytes)
           r == t.recvwindow - l
           a == [t EXCEPT !.recvwindow = r]
           u == writechannel(a)
           buf == cbuf_append(u.writebuf, bytes)
           acc == u.accepted \o bytes
           v == [u EXCEPT !.writebuf = buf, !.accepted = acc]
<1>1. common_recv_msg_channel_data(t, bytes) =
         IF t.writefd \in Closed THEN t
         ELSE IF l > recv_window - t.writebuf.used \/ t.recvwindow < l THEN dropbear_exit(t)
         ELSE IF u.writefd \in Closed THEN u
         ELSE v
  BY DEF common_recv_msg_channel_data, cbuf_getavail
<1>2. /\ Base(t) /\ DOMAIN t = Fields /\ CbufType(t.writebuf) /\ l \in Nat
      /\ t.recvwindow \in Int /\ t.recvdonelen \in Nat /\ t.pin \in 0..PipeSize /\ t.out \in Seq(MsgOut)
      /\ t.writebuf.used \in Nat
      /\ t.recvwindow + t.recvdonelen + t.writebuf.used <= recv_window
      /\ ~t.cmd => t.writebuf.used = 0 /\ t.writefd \in Closed
  BY DEF Inv, Base, ChType, CbufType, FdsOK, CommandOK, WindowOK, Sum
<1>3. All(c.q, t) \in Seq(MsgOut) /\ Total(All(c.q, t), "ADJUST") \in Nat
  <2>1. c.q \in Seq(MsgOut)
    BY DEF Start
  <2>2. All(c.q, t) \in Seq(MsgOut)
    BY <1>2, <2>1, CatType DEF All
  <2> QED BY <2>2, AmountsType, CountsAll
<1>4. w + l + Total(All(c.q, t), "ADJUST") <= t.recvwindow
  BY DEF Law, PeerOK
<1> HIDE DEF l
<1>5. l <= t.recvwindow /\ l <= recv_window - t.writebuf.used /\ r \in Int
      /\ w + Total(All(c.q, t), "ADJUST") <= r /\ w + Total(All(c.q, t), "ADJUST") <= t.recvwindow
  <2> DEFINE p == t.recvwindow
             e == Total(All(c.q, t), "ADJUST")
             y == t.writebuf.used
             z == t.recvdonelen
  <2>1. p \in Int /\ e \in Nat /\ y \in Nat /\ z \in Nat /\ l \in Nat /\ w + l + e <= p /\ p + z + y <= recv_window
    BY <1>2, <1>3, <1>4
  <2> HIDE DEF p, e, y, z
  <2>2. l <= p /\ l <= recv_window - y /\ p - l \in Int /\ w + e <= p - l /\ w + e <= p
    BY <2>1, Sizes
  <2> QED BY <2>2 DEF p, e, y, r
<1>6. Law(c, w, g, t)
  BY <1>5 DEF Law, PeerOK
<1> HIDE DEF r
<1>7. /\ Others(t, a) /\ a.recvwindow = r /\ a.recvdonelen = t.recvdonelen /\ a.writebuf = t.writebuf
      /\ a.pin = t.pin /\ a.out = t.out /\ a.state = t.state /\ a.sent_eof = t.sent_eof
      /\ a.sent_close = t.sent_close /\ a.late = t.late /\ a.unnamed = t.unnamed
      /\ a.accepted = t.accepted /\ a.delivered = t.delivered
  BY <1>2 DEF Fields, Others, SameFds
<1> HIDE DEF a
<1>8. Base(a)
  BY <1>2, <1>5, <1>7, OthersInv
<1>9. Sum(a) <= recv_window - l
  <2> DEFINE p == t.recvwindow
             y == t.writebuf.used
             z == t.recvdonelen
  <2>1. Sum(a) = (p - l) + z + y
    BY <1>7 DEF Sum, r
  <2>2. p \in Int /\ y \in Nat /\ z \in Nat /\ l \in Nat /\ p + z + y <= recv_window
    BY <1>2
  <2> HIDE DEF p, y, z
  <2> QED BY <2>1, <2>2, Sizes
<1>10. Law(c, w, g, a)
  <2>1. FlagsOK(a)
    BY <1>7 DEF Law, FlagsOK, Others, SameFds
  <2>2. OrderOK(c.q, c.got, a)
    BY <1>7 DEF Law, OrderOK, All
  <2>3. PeerOK(c.q, w, g, a)
    BY <1>5, <1>7 DEF Law, PeerOK, All, Others
  <2>4. RingOK(c.acc, c.del, a)
    BY <1>7 DEF Law, RingOK, Others, SameFds
  <2> QED BY <2>1, <2>2, <2>3, <2>4 DEF Law
<1>11. ASSUME t.writefd \notin Closed
       PROVE  Law(c, w, g, u) /\ Base(u) /\ Sum(u) = Sum(a)
  <2>1. a.writefd \notin Closed
    BY <1>7, <1>11 DEF Others, SameFds
  <2>2. Sum(a) <= recv_window
    <3>1. Sum(a) \in Int
      BY <1>8 DEF Base, ChType, CbufType, Sum
    <3> QED BY <1>2, <1>9, <3>1, Sizes
  <2> QED BY <1>8, <1>10, <2>1, <2>2, WriteLaw, WriteChannel
<1> HIDE DEF u
<1>12. ASSUME t.writefd \notin Closed, u.writefd \notin Closed
       PROVE  Law(c, w, g, v)
  <2>1. /\ Law(c, w, g, u) /\ Base(u) /\ Sum(u) = Sum(a) /\ DOMAIN u = Fields /\ CbufType(u.writebuf)
        /\ u.recvwindow \in Int /\ u.recvdonelen \in Nat /\ u.writebuf.used \in Nat /\ u.out \in Seq(MsgOut)
    BY <1>11, <1>12 DEF Base, ChType, CbufType
  <2>2. /\ u.accepted \in Seq(Nat) /\ u.delivered \in Seq(Nat) /\ Len(u.delivered) \in Nat
        /\ Begins(c.acc, u.accepted) /\ Begins(c.del, u.delivered) /\ Begins(u.delivered, u.accepted)
        /\ Holds(u.writebuf, u.accepted, Len(u.delivered)) /\ c.acc \in Seq(Nat)
    BY <1>12, <2>1 DEF Law, RingOK, Start
  <2>3. u.recvwindow >= 0
    <3>1. c.q \in Seq(MsgOut)
      BY DEF Start
    <3>2. All(c.q, u) \in Seq(MsgOut)
      BY <2>1, <3>1, CatType DEF All
    <3>3. Total(All(c.q, u), "ADJUST") \in Nat
      BY <3>2, AmountsType, CountsAll
    <3>4. w + Total(All(c.q, u), "ADJUST") <= u.recvwindow
      BY <2>1 DEF Law, PeerOK
    <3> QED BY <2>1, <3>3, <3>4
  <2>4. Len(bytes) <= cbuf_getavail(u.writebuf)
    <3> DEFINE p == u.recvwindow
               y == u.writebuf.used
               z == u.recvdonelen
    <3>1. p \in Int /\ p >= 0 /\ y \in Nat /\ z \in Nat /\ p + z + y <= recv_window - l
      BY <1>9, <2>1, <2>3 DEF Sum
    <3> HIDE DEF p, y, z
    <3>2. l <= recv_window - y
      BY <1>2, <3>1, Sizes
    <3> QED BY <3>2 DEF y, l, cbuf_getavail
  <2>5. Holds(buf, acc, Len(u.delivered))
    BY <2>1, <2>2, <2>4, AppendHolds
  <2>6. acc \in Seq(Nat) /\ Begins(u.accepted, acc)
    BY <2>2, BeginsCat
  <2> HIDE DEF buf, acc
  <2>7. Begins(c.acc, acc) /\ Begins(u.delivered, acc)
    BY <2>2, <2>6, BeginsTrans
  <2>8. /\ v.writebuf = buf /\ v.recvwindow = u.recvwindow /\ v.cmd = u.cmd /\ v.exitpid = u.exitpid
        /\ v.recv_close = u.recv_close /\ v.transwindow = u.transwindow /\ v.out = u.out
        /\ SameFds(u, v) /\ v.state = u.state
        /\ v.sent_eof = u.sent_eof /\ v.sent_close = u.sent_close /\ v.late = u.late /\ v.unnamed = u.unnamed
        /\ v.accepted = acc /\ v.delivered = u.delivered
    BY <2>1 DEF Fields, SameFds
  <2> HIDE DEF v
  <2>9. FlagsOK(v)
    BY <2>1, <2>8 DEF Law, FlagsOK, SameFds
  <2>10. OrderOK(c.q, c.got, v) /\ PeerOK(c.q, w, g, v)
    BY <2>1, <2>8 DEF Law, OrderOK, PeerOK, All
  <2>11. RingOK(c.acc, c.del, v)
    BY <2>2, <2>5, <2>6, <2>7, <2>8 DEF RingOK
  <2> QED BY <2>9, <2>10, <2>11 DEF Law
<1> HIDE DEF v
<1>13. ~(l > recv_window - t.writebuf.used \/ t.recvwindow < l)
  BY <1>2, <1>5, Sizes
<1> QED BY <1>1, <1>6, <1>11, <1>12, <1>13

-----------------------------------------------------------------------------
(* What the client has said stays, but for the two handlers that note it. *)

SameEnd(t, u) == DOMAIN u = Fields /\ u.recv_eof = t.recv_eof /\ u.recv_close = t.recv_close

LEMMA EndTrans ==
    ASSUME NEW t, NEW u, NEW v, SameEnd(t, u), SameEnd(u, v)
    PROVE  SameEnd(t, v)
BY DEF SameEnd

LEMMA EndClose ==
    ASSUME NEW t, DOMAIN t = Fields, NEW fd
    PROVE  SameEnd(t, close_chan_fd(t, fd)) /\ DOMAIN close_chan_fd(t, fd) = Fields
BY DEF SameEnd, Fields, close_chan_fd

LEMMA EndSend ==
    ASSUME NEW t, DOMAIN t = Fields, NEW m
    PROVE  SameEnd(t, send(t, m)) /\ DOMAIN send(t, m) = Fields
<1> DEFINE x == Append(t.out, m)
           u == [t EXCEPT !.out = x]
<1>1. send(t, m) = u
  BY DEF send
<1> HIDE DEF x
<1>2. SameEnd(t, u)
  BY DEF SameEnd, Fields
<1> QED BY <1>1, <1>2 DEF SameEnd

LEMMA EndChannelClose ==
    ASSUME NEW t, DOMAIN t = Fields
    PROVE  SameEnd(t, send_msg_channel_close(t)) /\ DOMAIN send_msg_channel_close(t) = Fields
<1> DEFINE x == send_exitsignalstatus(t)
           y == send(x, [type |-> "CLOSE"])
           u == [y EXCEPT !.sent_eof = TRUE, !.sent_close = TRUE]
           a == close_chan_fd(u, u.readfd)
           b == close_chan_fd(a, u.errfd)
           d == close_chan_fd(b, u.writefd)
<1>1. send_msg_channel_close(t) = d
  BY DEF send_msg_channel_close
<1>2. SameEnd(t, x)
  BY EndSend DEF send_exitsignalstatus, SameEnd
<1> HIDE DEF x
<1>3. SameEnd(x, y)
  BY <1>2, EndSend DEF SameEnd
<1> HIDE DEF y
<1>4. SameEnd(y, u)
  BY <1>3 DEF SameEnd, Fields
<1> HIDE DEF u
<1>5. SameEnd(u, a)
  BY <1>4, EndClose DEF SameEnd
<1> HIDE DEF a
<1>6. SameEnd(a, b)
  BY <1>5, EndClose DEF SameEnd
<1> HIDE DEF b
<1>7. SameEnd(b, d)
  BY <1>6, EndClose DEF SameEnd
<1> HIDE DEF d
<1> QED BY <1>1, <1>2, <1>3, <1>4, <1>5, <1>6, <1>7 DEF SameEnd

LEMMA EndEof ==
    ASSUME NEW t, DOMAIN t = Fields
    PROVE  SameEnd(t, send_msg_channel_eof(t))
<1> DEFINE y == send(t, [type |-> "EOF"])
           u == [y EXCEPT !.sent_eof = TRUE]
<1>1. send_msg_channel_eof(t) = u
  BY DEF send_msg_channel_eof
<1>2. SameEnd(t, y)
  BY EndSend
<1> HIDE DEF y
<1>3. SameEnd(y, u)
  BY <1>2 DEF SameEnd, Fields
<1> QED BY <1>1, <1>2, <1>3, EndTrans

LEMMA EndReply ==
    ASSUME NEW t, DOMAIN t = Fields, NEW type
    PROVE  SameEnd(t, send_reply(t, type))
BY EndSend DEF send_reply, SameEnd

LEMMA EndData ==
    ASSUME NEW t, DOMAIN t = Fields, NEW stream
    PROVE  SameEnd(t, send_msg_channel_data(t, stream))
<1> DEFINE len == MIN(maxlen(t), Pending(t, stream))
           m == [type |-> "DATA", n |-> len]
           a == Take(t, stream, len)
           b == send(a, m)
           u == [b EXCEPT !.transwindow = @ - len]
           e == dropbear_exit(t)
           x == close_chan_fd(t, Fd(t, stream))
           y == close_chan_fd(u, Fd(t, stream))
<1>1. send_msg_channel_data(t, stream) \in {e, t, x, y, u}
  BY DEF send_msg_channel_data
<1> HIDE DEF len, m
<1>2. SameEnd(t, a)
  BY DEF Take, SameEnd, Fields
<1> HIDE DEF a
<1>3. SameEnd(a, b)
  BY <1>2, EndSend DEF SameEnd
<1> HIDE DEF b
<1>4. SameEnd(b, u)
  BY <1>3 DEF SameEnd, Fields
<1> HIDE DEF u
<1>5. SameEnd(t, u)
  BY <1>2, <1>3, <1>4, EndTrans
<1>6. SameEnd(u, y)
  BY <1>5, EndClose DEF SameEnd
<1>7. SameEnd(t, y)
  BY <1>5, <1>6, EndTrans
<1>8. SameEnd(t, x)
  BY EndClose
<1>9. SameEnd(t, e)
  BY DEF dropbear_exit, SameEnd, Fields
<1>10. SameEnd(t, t)
  BY DEF SameEnd
<1> HIDE DEF x, y, e
<1> QED BY <1>1, <1>5, <1>7, <1>8, <1>9, <1>10

LEMMA EndCheck ==
    ASSUME NEW t, DOMAIN t = Fields
    PROVE  SameEnd(t, check_close(t))
<1> DEFINE u == start_flushing(t)
           a == close_input(u)
           b == flush(a, "out")
           d == flush(b, "err")
           e == end_output(d)
           f == close_up(e)
           x == IF u.sent_close THEN u ELSE send_msg_channel_close(u)
           y == remove_channel(x)
<1>1. check_close(t) \in {y, f}
  BY DEF check_close
<1>2. SameEnd(t, u)
  BY DEF start_flushing, SameEnd, Fields
<1> HIDE DEF u
<1>3. SameEnd(u, x)
  BY <1>2, EndChannelClose DEF SameEnd
<1> HIDE DEF x
<1>4. SameEnd(x, y)
  BY <1>3 DEF SameEnd, remove_channel, Fields
<1>5. SameEnd(u, a)
  BY <1>2, EndClose DEF SameEnd, close_input
<1> HIDE DEF a, y
<1>6. SameEnd(a, b)
  BY <1>5, EndData DEF SameEnd, flush
<1> HIDE DEF b
<1>7. SameEnd(b, d)
  BY <1>6, EndData DEF SameEnd, flush
<1> HIDE DEF d
<1>8. SameEnd(d, e)
  BY <1>7, EndEof DEF SameEnd, end_output
<1> HIDE DEF e
<1>9. SameEnd(e, f)
  BY <1>8, EndChannelClose DEF SameEnd, close_up
<1> HIDE DEF f
<1> QED BY <1>1, <1>2, <1>3, <1>4, <1>5, <1>6, <1>7, <1>8, <1>9 DEF SameEnd

LEMMA EndWrite ==
    ASSUME NEW t, DOMAIN t = Fields
    PROVE  SameEnd(t, writechannel(t))
<1> DEFINE u == writechannel_fallback(t)
           m == [type |-> "ADJUST", n |-> u.recvdonelen]
           a == send(u, m)
           r == a.recvwindow + u.recvdonelen
           b == [a EXCEPT !.recvwindow = r, !.recvdonelen = 0]
           v == IF u.recvdonelen >= RECV_WINDOWEXTEND THEN b ELSE u
           e == dropbear_exit(v)
<1>1. writechannel(t) \in {v, e}
  BY DEF writechannel
<1>2. SameEnd(t, u)
  <2> DEFINE n == MIN(Len(cbuf_readptrs(t.writebuf)), PipeSize - t.pin)
             buf == cbuf_incrread(t.writebuf, n)
             del == t.delivered \o SubSeq(cbuf_readptrs(t.writebuf), 1, n)
             x == [t EXCEPT !.recvdonelen = @ + n, !.pin = @ + n, !.writebuf = buf, !.delivered = del]
             y == close_chan_fd(t, t.writefd)
  <2>1. u \in {x, y}
    BY DEF writechannel_fallback
  <2> HIDE DEF n, buf, del, u
  <2>2. SameEnd(t, x)
    BY DEF SameEnd, Fields
  <2>3. SameEnd(t, y)
    BY EndClose
  <2> HIDE DEF x, y
  <2> QED BY <2>1, <2>2, <2>3
<1> HIDE DEF u
<1>3. SameEnd(u, a)
  BY <1>2, EndSend DEF SameEnd
<1> HIDE DEF a, r
<1>4. SameEnd(a, b)
  BY <1>3 DEF SameEnd, Fields
<1> HIDE DEF b
<1>5. SameEnd(t, v)
  BY <1>2, <1>3, <1>4 DEF SameEnd
<1> HIDE DEF v
<1>6. SameEnd(v, e)
  BY <1>5 DEF SameEnd, dropbear_exit, Fields
<1> HIDE DEF e
<1> QED BY <1>1, <1>5, <1>6, EndTrans

LEMMA EndRecvData ==
    ASSUME NEW t, DOMAIN t = Fields, NEW bytes
    PROVE  SameEnd(t, common_recv_msg_channel_data(t, bytes))
<1> DEFINE r == t.recvwindow - Len(bytes)
           a == [t EXCEPT !.recvwindow = r]
           u == writechannel(a)
           buf == cbuf_append(u.writebuf, bytes)
           acc == u.accepted \o bytes
           v == [u EXCEPT !.writebuf = buf, !.accepted = acc]
           e == dropbear_exit(t)
<1>1. common_recv_msg_channel_data(t, bytes) \in {e, t, u, v}
  BY DEF common_recv_msg_channel_data
<1> HIDE DEF r
<1>2. SameEnd(t, a)
  BY DEF SameEnd, Fields
<1> HIDE DEF a
<1>3. SameEnd(a, u)
  BY <1>2, EndWrite DEF SameEnd
<1> HIDE DEF u, buf, acc
<1>4. SameEnd(u, v)
  BY <1>3 DEF SameEnd, Fields
<1>5. SameEnd(t, e)
  BY DEF SameEnd, dropbear_exit, Fields
<1> HIDE DEF v, e
<1> QED BY <1>1, <1>2, <1>3, <1>4, <1>5 DEF SameEnd

LEMMA EndCommand ==
    ASSUME NEW t, DOMAIN t = Fields, NEW spawned
    PROVE  SameEnd(t, sessioncommand(t, spawned))
<1> DEFINE p == ptycommand(t)
           n == noptycommand(t)
           x == [p EXCEPT !.cmd = TRUE]
           y == [n EXCEPT !.cmd = TRUE]
<1>1. sessioncommand(t, spawned) \in {send_reply(t, "FAILURE"), send_reply(x, "SUCCESS"), send_reply(y, "SUCCESS")}
  BY DEF sessioncommand
<1>2. SameEnd(t, p) /\ SameEnd(t, n)
  BY DEF SameEnd, Fields, ptycommand, noptycommand
<1> HIDE DEF p, n
<1>3. SameEnd(p, x) /\ SameEnd(n, y)
  BY <1>2 DEF SameEnd, Fields
<1> HIDE DEF x, y
<1>4. /\ SameEnd(t, send_reply(t, "FAILURE")) /\ SameEnd(x, send_reply(x, "SUCCESS"))
      /\ SameEnd(y, send_reply(y, "SUCCESS"))
  BY <1>3, EndReply DEF SameEnd
<1> QED BY <1>1, <1>2, <1>3, <1>4 DEF SameEnd

LEMMA EndIO ==
    ASSUME NEW t, DOMAIN t = Fields, NEW R
    PROVE  SameEnd(t, channelio(t, R))
<1> DEFINE u == IF "read" \in R /\ t.readfd \notin Closed THEN send_msg_channel_data(t, "out") ELSE t
           v == IF "err" \in R /\ u.errfd \notin Closed THEN send_msg_channel_data(u, "err") ELSE u
           w == IF "write" \in R /\ v.writefd \notin Closed THEN writechannel(v) ELSE v
<1>1. channelio(t, R) \in {t, check_close(w)}
  BY DEF channelio
<1>2. SameEnd(t, u)
  BY EndData DEF SameEnd
<1> HIDE DEF u
<1>3. SameEnd(u, v)
  BY <1>2, EndData DEF SameEnd
<1> HIDE DEF v
<1>4. SameEnd(v, w)
  BY <1>3, EndWrite DEF SameEnd
<1> HIDE DEF w
<1>5. SameEnd(w, check_close(w))
  BY <1>4, EndCheck DEF SameEnd
<1> QED BY <1>1, <1>2, <1>3, <1>4, <1>5 DEF SameEnd

-----------------------------------------------------------------------------
(* Packets and the main loop. *)

\* A command that starts after the server sent EOF is late.
LEMMA StartLaw ==
    ASSUME NEW c \in Start, NEW w, NEW g, NEW t, Inv(t), Law(c, w, g, t), ~t.cmd
    PROVE  Law(c, w, g, [(IF t.pty THEN ptycommand(t) ELSE noptycommand(t)) EXCEPT !.cmd = TRUE])
<1> DEFINE p == [t EXCEPT !.writefd = "master", !.readfd = "master",
                          !.kin = TRUE, !.kout = TRUE, !.child = "running", !.late = t.sent_eof]
           n == [t EXCEPT !.writefd = "in", !.readfd = "out", !.errfd = "err", !.kin = TRUE,
                          !.kout = TRUE, !.kerr = TRUE, !.child = "running", !.late = t.sent_eof]
           x == IF t.pty THEN p ELSE n
           u == [x EXCEPT !.cmd = TRUE]
<1>1. DOMAIN t = Fields /\ ~t.exitpid
  BY DEF Inv, Base, ChType, CommandOK
<1>2. u = [(IF t.pty THEN ptycommand(t) ELSE noptycommand(t)) EXCEPT !.cmd = TRUE]
  BY DEF ptycommand, noptycommand
<1>3. /\ DOMAIN x = Fields
      /\ x.writebuf = t.writebuf /\ x.recvwindow = t.recvwindow /\ x.transwindow = t.transwindow
      /\ x.out = t.out /\ x.sent_eof = t.sent_eof /\ x.sent_close = t.sent_close /\ x.late = t.sent_eof
      /\ x.unnamed = t.unnamed /\ x.state = t.state /\ x.accepted = t.accepted /\ x.delivered = t.delivered
      /\ x.recv_close = t.recv_close
  <2>1. CASE t.pty
    BY <1>1, <2>1 DEF Fields
  <2>2. CASE ~t.pty
    BY <1>1, <2>2 DEF Fields
  <2> QED BY <2>1, <2>2
<1> HIDE DEF x
<1>4. /\ u.writebuf = t.writebuf /\ u.recvwindow = t.recvwindow /\ u.transwindow = t.transwindow
      /\ u.out = t.out /\ u.sent_eof = t.sent_eof /\ u.sent_close = t.sent_close /\ u.late = t.sent_eof
      /\ u.unnamed = t.unnamed /\ u.state = t.state /\ u.accepted = t.accepted /\ u.delivered = t.delivered
      /\ u.recv_close = t.recv_close /\ u.cmd = TRUE
  BY <1>3 DEF Fields
<1> HIDE DEF u
<1>5. ~t.sent_close /\ ~t.late
  BY <1>1 DEF Law, FlagsOK
<1>6. FlagsOK(u)
  BY <1>4, <1>5 DEF Law, FlagsOK
<1>7. OrderOK(c.q, c.got, u)
  <2>1. Orderly(All(c.q, t), c.got, t.sent_eof, t.sent_close, t.late, t.unnamed)
    BY DEF Law, OrderOK
  <2>2. Orderly(All(c.q, t), c.got, t.sent_eof, t.sent_close, t.sent_eof, t.unnamed)
    BY <1>5, <2>1, OrderWeaken
  <2> QED BY <1>4, <2>2 DEF OrderOK, All
<1>8. PeerOK(c.q, w, g, u)
  BY <1>4 DEF Law, PeerOK, All
<1>9. RingOK(c.acc, c.del, u)
  BY <1>4 DEF Law, RingOK
<1> QED BY <1>2, <1>6, <1>7, <1>8, <1>9 DEF Law

LEMMA SessionCommandLaw ==
    ASSUME NEW c \in Start, NEW w \in Nat, NEW g \in Int, NEW t, Inv(t), Law(c, w, g, t), NEW spawned
    PROVE  Law(c, w, g, sessioncommand(t, spawned))
<1> DEFINE x == [(IF t.pty THEN ptycommand(t) ELSE noptycommand(t)) EXCEPT !.cmd = TRUE]
<1>1. CASE t.cmd \/ ~spawned
  <2>1. sessioncommand(t, spawned) = send_reply(t, "FAILURE")
    BY <1>1 DEF sessioncommand
  <2> QED BY <2>1, ChannelReply DEF Inv
<1>2. CASE ~(t.cmd \/ ~spawned)
  <2>1. sessioncommand(t, spawned) = send_reply(x, "SUCCESS")
    BY <1>2 DEF sessioncommand
  <2>2. Inv(x) /\ Law(c, w, g, x)
    BY <1>2, StartCommand, StartLaw
  <2> HIDE DEF x
  <2> QED BY <2>1, <2>2, ChannelReply DEF Inv
<1> QED BY <1>1, <1>2

\* What the handlers of EOF and CLOSE note before check_close().
LEMMA NoteEnd ==
    ASSUME NEW t, Inv(t)
    PROVE  Inv([t EXCEPT !.recv_eof = TRUE, !.recv_close = TRUE]) /\ Inv([t EXCEPT !.recv_eof = TRUE])
<1> DEFINE u == [t EXCEPT !.recv_eof = TRUE, !.recv_close = TRUE]
<1>1. DOMAIN t = Fields /\ ChType(t)
  BY DEF Inv, Base, ChType
<1>2. /\ DOMAIN u = Fields
      /\ u.writebuf = t.writebuf /\ u.recvwindow = t.recvwindow /\ u.recvdonelen = t.recvdonelen
      /\ u.pty = t.pty /\ u.cmd = t.cmd /\ u.exitpid = t.exitpid /\ u.child = t.child
      /\ u.kout = t.kout /\ u.kerr = t.kerr /\ u.perr = t.perr /\ u.pout = t.pout
      /\ u.flushing = t.flushing /\ u.recv_close = TRUE
      /\ u.transwindow = t.transwindow /\ u.pin = t.pin /\ u.out = t.out /\ SameFds(t, u)
  BY <1>1 DEF Fields, SameFds
<1> HIDE DEF u
<1>3. ChType(u)
  BY <1>1, <1>2 DEF ChType
<1>4. FdsOK(u)
  BY <1>2 DEF Inv, Base, FdsOK, SameFds
<1>5. CommandOK(u)
  BY <1>2 DEF Inv, Base, CommandOK
<1>6. OutputOK(u)
  BY <1>2 DEF OutputOK
<1>7. WindowOK(u)
  BY <1>2 DEF Inv, WindowOK, Sum, SameFds
<1>8. Inv(u)
  BY <1>3, <1>4, <1>5, <1>6, <1>7 DEF Inv, Base
<1>9. Inv([t EXCEPT !.recv_eof = TRUE])
  BY FlagInv DEF Inv
<1> QED BY <1>8, <1>9 DEF u

LEMMA RecvEofLaw ==
    ASSUME NEW c \in Start, NEW w \in Nat, NEW g \in Int, NEW t, Inv(t), Law(c, w, g, t)
    PROVE  LET v == recv_msg_channel_eof(t)
           IN  Law(c, w, g, v) /\ v.recv_eof = TRUE /\ v.recv_close = t.recv_close /\ DOMAIN v = Fields
<1> DEFINE u == [t EXCEPT !.recv_eof = TRUE]
<1>1. DOMAIN t = Fields
  BY DEF Inv, Base, ChType
<1>2. Inv(u) /\ Law(c, w, g, u) /\ u.recv_eof = TRUE /\ u.recv_close = t.recv_close /\ DOMAIN u = Fields
  <2>1. u.recv_eof = TRUE /\ u.recv_close = t.recv_close /\ DOMAIN u = Fields
    BY <1>1 DEF Fields
  <2>2. Mild(t, u)
    BY <1>1, MildFlags
  <2> QED BY <2>1, <2>2, NoteEnd, MildLaw
<1>3. recv_msg_channel_eof(t) = check_close(u)
  BY DEF recv_msg_channel_eof
<1> HIDE DEF u
<1> QED BY <1>2, <1>3, CheckCloseLaw, EndCheck DEF SameEnd

LEMMA RecvCloseLaw ==
    ASSUME NEW c \in Start, NEW w \in Nat, NEW g \in Int, NEW t, Inv(t), Law(c, w, g, t)
    PROVE  LET v == recv_msg_channel_close(t)
           IN  Law(c, w, g, v) /\ v.recv_eof = TRUE /\ v.recv_close = TRUE /\ DOMAIN v = Fields
<1> DEFINE u == [t EXCEPT !.recv_eof = TRUE, !.recv_close = TRUE]
<1>1. DOMAIN t = Fields
  BY DEF Inv, Base, ChType
<1>2. Inv(u) /\ Law(c, w, g, u) /\ u.recv_eof = TRUE /\ u.recv_close = TRUE /\ DOMAIN u = Fields
  <2>1. u.recv_eof = TRUE /\ u.recv_close = TRUE /\ DOMAIN u = Fields
    BY <1>1 DEF Fields
  <2>2. Mild(t, u)
    BY <1>1, MildFlags
  <2> QED BY <2>1, <2>2, NoteEnd, MildLaw
<1>3. recv_msg_channel_close(t) = check_close(u)
  BY DEF recv_msg_channel_close
<1> HIDE DEF u
<1> QED BY <1>2, <1>3, CheckCloseLaw, EndCheck DEF SameEnd

\* The client's window grows, by what it said it would.
LEMMA AdjustLaw ==
    ASSUME NEW c \in Start, NEW w \in Nat, NEW g \in Int, NEW t, Inv(t), NEW n \in Nat, Law(c, w, g - n, t)
    PROVE  LET v == recv_msg_channel_window_adjust(t, n)
           IN  Law(c, w, g, v) /\ SameEnd(t, v)
<1> DEFINE x == t.transwindow + n
           u == [t EXCEPT !.transwindow = x]
<1>1. DOMAIN t = Fields /\ t.transwindow \in Nat /\ t.out \in Seq(MsgOut) /\ c.q \in Seq(MsgOut)
  BY DEF Inv, Base, ChType, Start
<1>2. recv_msg_channel_window_adjust(t, n) = u
  BY DEF recv_msg_channel_window_adjust
<1> HIDE DEF x
<1>3. /\ Kept(t, u) /\ u.out = t.out /\ u.sent_close = t.sent_close /\ u.sent_eof = t.sent_eof
      /\ u.recvwindow = t.recvwindow /\ u.transwindow = x /\ SameEnd(t, u)
  BY <1>1 DEF Fields, Kept, SameFds, SameEnd
<1> HIDE DEF u
<1>4. All(c.q, u) = All(c.q, t)
  BY <1>3 DEF All
<1>5. Total(All(c.q, t), "DATA") \in Nat
  <2>1. All(c.q, t) \in Seq(MsgOut)
    BY <1>1, CatType DEF All
  <2> QED BY <2>1, AmountsType, CountsAll
<1>6. PeerOK(c.q, w, g, u)
  <2> DEFINE d == Total(All(c.q, t), "DATA")
  <2>1. w + Total(All(c.q, t), "ADJUST") <= t.recvwindow /\ t.transwindow + d <= g - n
    BY DEF Law, PeerOK
  <2>2. d \in Nat
    BY <1>5
  <2> HIDE DEF d
  <2>3. x + d <= g
    BY <1>1, <2>1, <2>2 DEF x
  <2> QED BY <1>3, <1>4, <2>1, <2>3 DEF PeerOK, d
<1>7. FlagsOK(u)
  BY <1>3 DEF Law, FlagsOK, Kept, SameFds
<1>8. OrderOK(c.q, c.got, u)
  BY <1>3, <1>4 DEF Law, OrderOK, Kept
<1>9. RingOK(c.acc, c.del, u)
  BY <1>3 DEF Law, RingOK, Kept, SameFds
<1> QED BY <1>2, <1>3, <1>6, <1>7, <1>8, <1>9 DEF Law

\* One packet of the client, while the channel is open.  The handlers of EOF and
\* CLOSE note it.
LEMMA PacketLaw ==
    ASSUME NEW c \in Start, NEW w \in Nat, NEW g \in Int, NEW t, Inv(t), t.state = "open",
           NEW m \in MsgIn, NEW spawned,
           Law(c, w + Amount(m, "DATA"), g - Amount(m, "ADJUST"), t),
           m.type = "DATA" => ~t.recv_eof
    PROVE  LET v == process_packet(t, m, spawned)
           IN  /\ Law(c, w, g, v) /\ DOMAIN v = Fields
               /\ m.type \notin {"EOF", "CLOSE"} => SameEnd(t, v)
               /\ m.type = "EOF" => v.recv_eof = TRUE /\ v.recv_close = t.recv_close
               /\ m.type = "CLOSE" => v.recv_eof = TRUE /\ v.recv_close = TRUE
<1> DEFINE u == process_packet(t, m, spawned)
<1>1. DOMAIN t = Fields
  BY DEF Inv, Base, ChType
<1>2. ASSUME m.type \notin {"DATA", "ADJUST"} PROVE Law(c, w, g, t)
  <2>1. Amount(m, "DATA") = 0 /\ Amount(m, "ADJUST") = 0 /\ w + 0 = w /\ g - 0 = g
    BY <1>2 DEF Amount
  <2> QED BY <2>1
<1>3. CASE m.type = "REQUEST"
  <2>1. u = sessioncommand(t, spawned)
    BY <1>3 DEF process_packet
  <2>2. Law(c, w, g, u) /\ SameEnd(t, u)
    BY <1>1, <1>2, <1>3, <2>1, SessionCommandLaw, EndCommand
  <2> QED BY <1>3, <2>2 DEF SameEnd
<1>4. CASE m.type = "DATA"
  <2>1. u = common_recv_msg_channel_data(t, m.bytes)
    BY <1>4 DEF process_packet
  <2>2. m.bytes \in Seq(Nat) /\ Amount(m, "DATA") = Len(m.bytes) /\ Amount(m, "ADJUST") = 0 /\ g - 0 = g
    BY <1>4 DEF MsgIn, Amount
  <2>3. Law(c, w + Len(m.bytes), g, t)
    BY <2>2
  <2>4. Law(c, w, g, u) /\ SameEnd(t, u)
    BY <1>1, <1>4, <2>1, <2>2, <2>3, RecvDataLaw, EndRecvData
  <2> QED BY <1>4, <2>4 DEF SameEnd
<1>5. CASE m.type = "ADJUST"
  <2>1. u = recv_msg_channel_window_adjust(t, m.n)
    BY <1>5 DEF process_packet
  <2>2. m.n \in Nat /\ Amount(m, "DATA") = 0 /\ Amount(m, "ADJUST") = m.n /\ w + 0 = w
    BY <1>5 DEF MsgIn, Amount
  <2>3. Law(c, w, g - m.n, t)
    BY <2>2
  <2>4. Law(c, w, g, u) /\ SameEnd(t, u)
    BY <2>1, <2>2, <2>3, AdjustLaw
  <2> QED BY <1>5, <2>4 DEF SameEnd
<1>6. CASE m.type = "EOF"
  <2>1. u = recv_msg_channel_eof(t)
    BY <1>6 DEF process_packet
  <2>2. Law(c, w, g, t)
    BY <1>2, <1>6
  <2> HIDE DEF u
  <2>3. Law(c, w, g, u) /\ u.recv_eof = TRUE /\ u.recv_close = t.recv_close /\ DOMAIN u = Fields
    <3> DEFINE y == recv_msg_channel_eof(t)
    <3>1. Law(c, w, g, y) /\ y.recv_eof = TRUE /\ y.recv_close = t.recv_close /\ DOMAIN y = Fields
      BY <2>2, RecvEofLaw
    <3> HIDE DEF y
    <3> QED BY <2>1, <3>1 DEF y
  <2> QED BY <1>6, <2>3 DEF u
<1>7. CASE m.type = "CLOSE"
  <2>1. u = recv_msg_channel_close(t)
    BY <1>7 DEF process_packet
  <2>2. Law(c, w, g, t)
    BY <1>2, <1>7
  <2> HIDE DEF u
  <2>3. Law(c, w, g, u) /\ u.recv_eof = TRUE /\ u.recv_close = TRUE /\ DOMAIN u = Fields
    BY <2>1, <2>2, RecvCloseLaw
  <2> QED BY <1>7, <2>3 DEF u
<1>8. m.type \in {"REQUEST", "DATA", "ADJUST", "EOF", "CLOSE"}
  BY DEF MsgIn
<1> QED BY <1>3, <1>4, <1>5, <1>6, <1>7, <1>8

LEMMA SignalLaw ==
    ASSUME NEW c, NEW w, NEW g, NEW t, DOMAIN t = Fields, Law(c, w, g, t)
    PROVE  LET v == svr_chansess_checksignal([t EXCEPT !.signal = FALSE])
           IN  Law(c, w, g, v) /\ SameEnd(t, v)
<1> DEFINE a == [t EXCEPT !.signal = FALSE]
           b == [a EXCEPT !.child = "reaped", !.exitpid = TRUE]
<1>1. Mild(t, a) /\ SameEnd(t, a)
  BY MildFlags DEF SameEnd, Fields
<1>2. Law(c, w, g, a) /\ DOMAIN a = Fields
  BY <1>1, MildLaw DEF SameEnd
<1>3. svr_chansess_checksignal(a) \in {a, b}
  BY DEF svr_chansess_checksignal
<1> HIDE DEF a
<1>4. Law(c, w, g, b)
  BY <1>2, MildFlags, MildLaw
<1>5. SameEnd(a, b)
  BY <1>2 DEF SameEnd, Fields
<1> HIDE DEF b
<1>6. SameEnd(t, b)
  BY <1>1, <1>5, EndTrans
<1> QED BY <1>1, <1>2, <1>3, <1>4, <1>6 DEF a

LEMMA ChannelIOLaw ==
    ASSUME NEW c \in Start, NEW x \in Nat, NEW g \in Int, NEW t, Inv(t), Law(c, x, g, t),
           NEW R, "read" \in R => ReadOK(t), "err" \in R => ErrOK(t)
    PROVE  Law(c, x, g, channelio(t, R))
<1> DEFINE u == IF "read" \in R /\ t.readfd \notin Closed THEN send_msg_channel_data(t, "out") ELSE t
           v == IF "err" \in R /\ u.errfd \notin Closed THEN send_msg_channel_data(u, "err") ELSE u
           w == IF "write" \in R /\ v.writefd \notin Closed THEN writechannel(v) ELSE v
<1>1. channelio(t, R) =
        IF t.state = "open" /\ R \cap {"read", "err", "write", "signal"} # {} THEN check_close(w) ELSE t
  BY DEF channelio
<1>2. Inv(u) /\ (ErrOK(t) => ErrOK(u)) /\ Law(c, x, g, u)
  <2>1. ASSUME ReadOK(t), t.readfd \notin Closed
        PROVE  LET y == send_msg_channel_data(t, "out") IN Inv(y) /\ (ErrOK(t) => ErrOK(y)) /\ Law(c, x, g, y)
    <3>1. Pending(t, "out") > 0 \/ ~Writers(t, "out")
      BY <2>1 DEF ReadOK, Pending, Writers
    <3>2. Fd(t, "out") \notin Closed /\ Base(t)
      BY <2>1 DEF Fd, Inv
    <3> QED BY <3>1, <3>2, DataInv, ChannelData DEF ErrOK
  <2> QED BY <2>1
<1> HIDE DEF u
<1>3. Inv(v) /\ Law(c, x, g, v)
  <2>1. ASSUME ErrOK(u), u.errfd \notin Closed
        PROVE  Inv(send_msg_channel_data(u, "err")) /\ Law(c, x, g, send_msg_channel_data(u, "err"))
    <3>1. Pending(u, "err") > 0 \/ ~Writers(u, "err")
      BY <2>1 DEF ErrOK, Pending, Writers
    <3>2. Fd(u, "err") \notin Closed /\ Base(u)
      BY <1>2, <2>1 DEF Fd, Inv
    <3> QED BY <1>2, <3>1, <3>2, DataInv, ChannelData
  <2> QED BY <1>2, <2>1
<1> HIDE DEF v
<1>4. Inv(w) /\ Law(c, x, g, w)
  <2> DEFINE y == writechannel(v)
  <2>1. Base(v) /\ WindowOK(v) /\ Sum(v) <= recv_window
    BY <1>3 DEF Inv, WindowOK
  <2>2. Base(y) /\ Sum(y) = Sum(v) /\ y.cmd = v.cmd /\ y.writefd \in {v.writefd, "closed"}
    BY <2>1, WriteChannel
  <2>3. v.writefd \notin Closed => Law(c, x, g, y)
    BY <1>3, <2>1, WriteLaw
  <2> HIDE DEF y
  <2>4. WindowOK(y)
    BY <2>1, <2>2 DEF WindowOK, Closed
  <2>5. Inv(y)
    BY <2>2, <2>4 DEF Inv
  <2> QED BY <1>3, <2>3, <2>5 DEF y
<1> HIDE DEF w
<1> QED BY <1>1, <1>4, CheckCloseLaw

-----------------------------------------------------------------------------
(* Packets to the server.  ceof and cclose are what the client has sent, eof *)
(* and close what the server has seen of it.                                 *)

Queue(q, ceof, cclose, eof, close) ==
    /\ \A i \in 1..Len(q) :
         /\ q[i].type = "CLOSE" => cclose /\ i = Len(q)
         /\ q[i].type = "EOF" => ceof
         /\ q[i].type = "DATA" => ~eof /\ \A j \in 1..(i - 1) : q[j].type # "EOF"
    /\ close => cclose /\ q = <<>>
    /\ eof => ceof \/ cclose

\* The client sends m, and from then on has sent EOF if ceof2 and CLOSE if cclose2.
MayPut(m, ceof, cclose, ceof2, cclose2) ==
    /\ ~cclose /\ (m.type = "DATA" => ~ceof) /\ (ceof => ceof2)
    /\ m.type = "EOF" => ceof2
    /\ m.type = "CLOSE" => cclose2

LEMMA QueuePut ==
    ASSUME NEW q \in Seq(MsgIn), NEW ceof, NEW cclose, NEW eof, NEW close, Queue(q, ceof, cclose, eof, close),
           NEW m \in MsgIn, NEW ceof2, NEW cclose2, MayPut(m, ceof, cclose, ceof2, cclose2)
    PROVE  Queue(Append(q, m), ceof2, cclose2, eof, close)
<1> DEFINE n == Len(q)
           r == Append(q, m)
<1>1. n \in Nat /\ Len(r) = n + 1 /\ r[n + 1] = m /\ \A i \in 1..n : r[i] = q[i]
  BY LenProperties, AppendProperties
<1>2. /\ \A i \in 1..n : q[i].type # "CLOSE" /\ (q[i].type = "EOF" => ceof)
      /\ \A i \in 1..n : q[i].type = "DATA" => ~eof /\ \A j \in 1..(i - 1) : q[j].type # "EOF"
      /\ ~close /\ (eof => ceof)
  BY DEF Queue, MayPut
<1> HIDE DEF n, r
<1>3. ASSUME NEW i \in 1..(n + 1)
      PROVE  /\ r[i].type = "CLOSE" => cclose2 /\ i = n + 1
             /\ r[i].type = "EOF" => ceof2
             /\ r[i].type = "DATA" => ~eof /\ \A j \in 1..(i - 1) : r[j].type # "EOF"
  <2>1. \A j \in 1..(i - 1) : j \in 1..n /\ r[j] = q[j]
    BY <1>1
  <2>2. CASE i = n + 1
    BY <1>1, <1>2, <2>1, <2>2 DEF MayPut
  <2>3. CASE i # n + 1
    <3>1. i \in 1..n
      BY <1>1, <2>3
    <3> QED BY <1>1, <1>2, <2>1, <3>1 DEF MayPut
  <2> QED BY <2>2, <2>3
<1>4. Queue(r, ceof2, cclose2, eof, close)
  BY <1>1, <1>2, <1>3 DEF Queue, MayPut
<1> QED BY <1>4 DEF r

LEMMA QueueTake ==
    ASSUME NEW q \in Seq(MsgIn), q # <<>>, NEW ceof, NEW cclose, NEW eof, NEW close, Queue(q, ceof, cclose, eof, close),
           NEW eof2, NEW close2,
           Head(q).type \notin {"EOF", "CLOSE"} => eof2 = eof /\ close2 = close,
           Head(q).type = "EOF" => eof2 = TRUE /\ close2 = close,
           Head(q).type = "CLOSE" => eof2 = TRUE /\ close2 = TRUE
    PROVE  Queue(Tail(q), ceof, cclose, eof2, close2)
<1> DEFINE n == Len(q)
           r == Tail(q)
           h == Head(q)
<1>1. /\ n \in Nat \ {0} /\ Len(r) = n - 1 /\ h = q[1] /\ r \in Seq(MsgIn)
      /\ \A i \in 1..(n - 1) : r[i] = q[i + 1]
  BY EmptySeq, LenProperties, HeadTailProperties
<1>2. \A i \in 1..n :
         /\ q[i].type = "CLOSE" => cclose /\ i = n
         /\ q[i].type = "EOF" => ceof
         /\ q[i].type = "DATA" => ~eof /\ \A j \in 1..(i - 1) : q[j].type # "EOF"
  BY DEF Queue
<1>3. ~close /\ (eof => ceof \/ cclose)
  BY DEF Queue
<1>4. /\ h.type \notin {"EOF", "CLOSE"} => eof2 = eof /\ close2 = close
      /\ h.type = "EOF" => eof2 = TRUE /\ close2 = close
      /\ h.type = "CLOSE" => eof2 = TRUE /\ close2 = TRUE
  OBVIOUS
<1> HIDE DEF n, r, h
<1>5. h.type = "CLOSE" => cclose /\ n = 1
  BY <1>1, <1>2
<1>6. ASSUME NEW i \in 1..(n - 1)
      PROVE  /\ r[i].type = "CLOSE" => cclose /\ i = n - 1
             /\ r[i].type = "EOF" => ceof
             /\ r[i].type = "DATA" => ~eof2 /\ \A j \in 1..(i - 1) : r[j].type # "EOF"
  <2>1. /\ i + 1 \in 1..n /\ r[i] = q[i + 1] /\ 1 \in 1..((i + 1) - 1)
        /\ \A j \in 1..(i - 1) : j + 1 \in 1..((i + 1) - 1) /\ r[j] = q[j + 1]
    BY <1>1
  <2>2. r[i].type = "CLOSE" => cclose /\ i = n - 1
    BY <1>1, <1>2, <2>1
  <2>3. r[i].type = "EOF" => ceof
    BY <1>2, <2>1
  <2>4. ASSUME r[i].type = "DATA"
        PROVE  ~eof2 /\ \A j \in 1..(i - 1) : r[j].type # "EOF"
    <3>1. ~eof /\ \A j \in 1..((i + 1) - 1) : q[j].type # "EOF"
      BY <1>2, <2>1, <2>4
    <3>2. h.type # "EOF" /\ h.type # "CLOSE"
      BY <1>1, <1>5, <2>1, <3>1
    <3> QED BY <1>4, <2>1, <3>1, <3>2
  <2> QED BY <2>2, <2>3, <2>4
<1>7. close2 => cclose /\ r = <<>>
  <2>1. ASSUME close2 PROVE cclose /\ r = <<>>
    <3>1. cclose /\ n = 1
      BY <1>3, <1>4, <1>5, <2>1
    <3> QED BY <1>1, <3>1, EmptySeq
  <2> QED BY <2>1
<1>8. eof2 => ceof \/ cclose
  <2>1. h.type = "EOF" => ceof
    BY <1>1, <1>2
  <2>2. CASE h.type \in {"EOF", "CLOSE"}
    BY <1>5, <2>1, <2>2
  <2>3. CASE h.type \notin {"EOF", "CLOSE"}
    BY <1>3, <1>4, <2>3
  <2> QED BY <2>2, <2>3
<1>9. Queue(r, ceof, cclose, eof2, close2)
  BY <1>1, <1>6, <1>7, <1>8 DEF Queue
<1> QED BY <1>9 DEF r

\* While packets wait the client's CLOSE has not been seen, and data comes before EOF.
LEMMA QueueHead ==
    ASSUME NEW q \in Seq(MsgIn), q # <<>>, NEW ceof, NEW cclose, NEW eof, NEW close, Queue(q, ceof, cclose, eof, close)
    PROVE  ~close /\ (Head(q).type = "DATA" => ~eof)
<1>1. Len(q) \in Nat \ {0} /\ Head(q) = q[1]
  BY EmptySeq, LenProperties, HeadTailProperties
<1> QED BY <1>1 DEF Queue

-----------------------------------------------------------------------------
(* The specification. *)

ClientOK == cl.window \in Nat /\ cl.granted \in Int /\ cl.got \in SUBSET {"EOF", "CLOSE", "EXIT"}

\* What the client has sent and may send is less than what the server counts on,
\* and what the server has sent and may send less than what the client granted.
WireOK ==
    /\ (cl.window + Total(inq, "DATA")) + Total(outq, "ADJUST") <= s.recvwindow
    /\ s.transwindow + Total(outq, "DATA") <= cl.granted - Total(inq, "ADJUST")

ToClient == Orderly(outq, cl.got, s.sent_eof, s.sent_close, s.late, s.unnamed)

ToServer == Queue(inq, cl.eof, cl.close, s.recv_eof, s.recv_close)

PeerInv ==
    /\ ChannelInv /\ ClientOK /\ s.out = <<>>
    /\ FlagsOK(s) /\ ToClient /\ WireOK /\ RingOK(s.accepted, s.delivered, s) /\ ToServer

LEMMA BeginsSelf == ASSUME NEW a \in Seq(Nat) PROVE Begins(a, a)
BY DEF Begins

LEMMA PeerInit == Init => PeerInv
<1> SUFFICES ASSUME Init PROVE PeerInv
  OBVIOUS
<1>1. PICK pty \in Pty, bytes \in Traffic :
       /\ s = [state |-> "open", pty |-> pty,
              readfd |-> "uninit", errfd |-> "closed", writefd |-> "uninit",
              writebuf |-> cbuf_new, recvwindow |-> recv_window, recvdonelen |-> 0,
              transwindow |-> TransWindow,
              sent_eof |-> FALSE, sent_close |-> FALSE, recv_eof |-> FALSE, recv_close |-> FALSE,
              flushing |-> FALSE, cmd |-> FALSE, exitpid |-> FALSE, unnamed |-> FALSE,
              child |-> "none", signal |-> FALSE,
              kin |-> FALSE, kout |-> FALSE, kerr |-> FALSE,
              pin |-> 0, pout |-> 0, perr |-> 0, left |-> bytes[2], late |-> FALSE,
              accepted |-> <<>>, delivered |-> <<>>, out |-> <<>>]
       /\ cl = [asked |-> 0, waiting |-> FALSE, started |-> FALSE, sent |-> 0, left |-> bytes[1],
                window |-> recv_window, eof |-> FALSE, close |-> FALSE, granted |-> TransWindow, owed |-> 0, got |-> {}]
  BY DEF Init
<1>2. /\ s.state = "open" /\ s.readfd = "uninit" /\ s.errfd = "closed" /\ s.writefd = "uninit"
      /\ s.writebuf = cbuf_new /\ s.recvwindow = recv_window /\ s.transwindow = TransWindow
      /\ s.sent_eof = FALSE /\ s.sent_close = FALSE /\ s.recv_eof = FALSE /\ s.recv_close = FALSE
      /\ s.late = FALSE /\ s.unnamed = FALSE /\ s.accepted = <<>> /\ s.delivered = <<>> /\ s.out = <<>>
  BY <1>1
<1>3. cl.window = recv_window /\ cl.granted = TransWindow /\ cl.got = {}
  BY <1>1
<1>4. inq = <<>> /\ outq = <<>>
  BY DEF Init
<1>5. ClientOK
  BY <1>3, Sizes DEF ClientOK
<1>6. FlagsOK(s)
  BY <1>2 DEF FlagsOK
<1>7. ToClient
  BY <1>3, <1>4, EmptySeq DEF ToClient, Orderly
<1>8. ToServer
  BY <1>2, <1>4, EmptySeq DEF ToServer, Queue
<1>9. WireOK
  <2>1. Total(inq, "DATA") = 0 /\ Total(outq, "DATA") = 0 /\ Total(inq, "ADJUST") = 0 /\ Total(outq, "ADJUST") = 0
    BY <1>4, TotalEmpty
  <2> QED BY <1>2, <1>3, <2>1, Sizes DEF WireOK
<1>10. RingOK(s.accepted, s.delivered, s)
  <2>1. <<>> \in Seq(Nat) /\ Len(<<>>) = 0
    BY EmptySeq
  <2>2. Begins(<<>>, <<>>)
    BY <2>1, BeginsSelf
  <2>3. Holds(cbuf_new, <<>>, Len(<<>>))
    BY <2>1, HoldsNew
  <2> QED BY <1>2, <2>1, <2>2, <2>3 DEF RingOK
<1> QED BY <1>2, <1>5, <1>6, <1>7, <1>8, <1>9, <1>10, InitInv DEF PeerInv

\* The law at the start of a round.
Here == [q |-> outq, got |-> cl.got, acc |-> s.accepted, del |-> s.delivered]

Waiting == cl.window + Total(inq, "DATA")
Granted == cl.granted - Total(inq, "ADJUST")

LEMMA PeerLaw ==
    ASSUME PeerInv
    PROVE  Here \in Start /\ Waiting \in Nat /\ Granted \in Int /\ Law(Here, Waiting, Granted, s)
<1>1. /\ outq \in Seq(MsgOut) /\ inq \in Seq(MsgIn) /\ cl.window \in Nat /\ cl.granted \in Int
      /\ cl.got \in SUBSET {"EOF", "CLOSE", "EXIT"} /\ s.accepted \in Seq(Nat) /\ s.delivered \in Seq(Nat)
  BY DEF PeerInv, ChannelInv, ClientOK, RingOK
<1>2. Here \in Start
  BY <1>1 DEF Here, Start
<1>3. Total(inq, "DATA") \in Nat /\ Total(inq, "ADJUST") \in Nat
  BY <1>1, AmountsType, CountsAll
<1>4. All(outq, s) = outq
  BY <1>1, CatEmpty DEF PeerInv, All
<1>5. OrderOK(outq, cl.got, s)
  BY <1>4 DEF PeerInv, ToClient, OrderOK
<1>6. PeerOK(outq, Waiting, Granted, s)
  BY <1>4 DEF PeerInv, WireOK, PeerOK, Waiting, Granted
<1>7. Law(Here, Waiting, Granted, s)
  BY <1>5, <1>6 DEF PeerInv, Law, Here
<1> QED BY <1>1, <1>2, <1>3, <1>7 DEF Waiting, Granted

\* s is e and the packets to the client are q after a round that ended with v.
Ends(c, v, e, q) == e = [v EXCEPT !.out = <<>>] /\ q = c.q \o v.out

Settled(c, w, g, v, e, q) ==
    /\ e.out = <<>> /\ FlagsOK(e)
    /\ Orderly(q, c.got, e.sent_eof, e.sent_close, e.late, e.unnamed)
    /\ w + Total(q, "ADJUST") <= e.recvwindow /\ e.transwindow + Total(q, "DATA") <= g
    /\ RingOK(e.accepted, e.delivered, e)
    /\ Begins(c.acc, e.accepted) /\ Begins(c.del, e.delivered)
    /\ e.recv_eof = v.recv_eof /\ e.recv_close = v.recv_close

LEMMA Settle ==
    ASSUME NEW c \in Start, NEW w \in Nat, NEW g \in Int, NEW v, Inv(v), Law(c, w, g, v),
           NEW e, NEW q, Ends(c, v, e, q)
    PROVE  Settled(c, w, g, v, e, q)
<1>1. DOMAIN v = Fields
  BY DEF Inv, Base, ChType
<1>2. /\ e.out = <<>> /\ SameFds(v, e)
      /\ e.late = v.late /\ e.unnamed = v.unnamed /\ e.state = v.state /\ e.cmd = v.cmd
      /\ e.writebuf = v.writebuf /\ e.accepted = v.accepted /\ e.delivered = v.delivered
      /\ e.recv_close = v.recv_close /\ e.recv_eof = v.recv_eof /\ e.exitpid = v.exitpid
      /\ e.sent_eof = v.sent_eof /\ e.sent_close = v.sent_close
      /\ e.recvwindow = v.recvwindow /\ e.transwindow = v.transwindow
  BY <1>1 DEF Ends, Fields, SameFds
<1>3. q = All(c.q, v)
  BY DEF Ends, All, Cat
<1>4. FlagsOK(e)
  BY <1>2 DEF Law, FlagsOK, SameFds
<1>5. Orderly(q, c.got, e.sent_eof, e.sent_close, e.late, e.unnamed)
  BY <1>2, <1>3 DEF Law, OrderOK
<1>6. w + Total(q, "ADJUST") <= e.recvwindow /\ e.transwindow + Total(q, "DATA") <= g
  BY <1>2, <1>3 DEF Law, PeerOK
<1>7. /\ v.accepted \in Seq(Nat) /\ v.delivered \in Seq(Nat)
      /\ Begins(v.accepted, v.accepted) /\ Begins(v.delivered, v.delivered)
      /\ Begins(c.acc, v.accepted) /\ Begins(c.del, v.delivered)
  BY BeginsSelf DEF Law, RingOK
<1>8. RingOK(e.accepted, e.delivered, e)
  BY <1>2, <1>7 DEF Law, RingOK, SameFds
<1> QED BY <1>2, <1>4, <1>5, <1>6, <1>7, <1>8 DEF Settled

\* A round keeps to the law, and stdin only grows.
LEMMA PeerRound ==
    PeerInv /\ Round => PeerInv' /\ Begins(s.accepted, s'.accepted) /\ Begins(s.delivered, s'.delivered)
<1> SUFFICES ASSUME PeerInv, Round
             PROVE  PeerInv' /\ Begins(s.accepted, s'.accepted) /\ Begins(s.delivered, s'.delivered)
  OBVIOUS
<1>1. PICK spawned \in BOOLEAN :
         LET t == IF "socket" \in fds THEN process_packet(s, Head(inq), spawned) ELSE s
             u == IF "signal" \in fds THEN svr_chansess_checksignal([t EXCEPT !.signal = FALSE]) ELSE t
             v == channelio(u, fds)
         IN  s' = [v EXCEPT !.out = <<>>] /\ outq' = outq \o v.out
  BY DEF Round
<1> DEFINE t == IF "socket" \in fds THEN process_packet(s, Head(inq), spawned) ELSE s
           a == [t EXCEPT !.signal = FALSE]
           u == IF "signal" \in fds THEN svr_chansess_checksignal(a) ELSE t
           v == channelio(u, fds)
           c == Here
           q == IF "socket" \in fds THEN Tail(inq) ELSE inq
           w == cl.window + Total(q, "DATA")
           g == cl.granted - Total(q, "ADJUST")
<1>2. s' = [v EXCEPT !.out = <<>>] /\ outq' = outq \o v.out /\ inq' = q /\ cl' = cl
  BY <1>1 DEF Round
<1>3. /\ c \in Start /\ Waiting \in Nat /\ Granted \in Int /\ Law(c, Waiting, Granted, s)
      /\ c.q = outq /\ c.got = cl.got /\ c.acc = s.accepted /\ c.del = s.delivered
  BY PeerLaw DEF Here
<1>4. ChannelInv /\ Inv(s) /\ inq \in Seq(MsgIn) /\ ToServer /\ ClientOK
  BY DEF PeerInv, ChannelInv
<1>5. DOMAIN s = Fields
  BY <1>4 DEF Inv, Base, ChType
<1> HIDE DEF c
<1>6. /\ Inv(t) /\ Keeps(s, t) /\ w \in Nat /\ g \in Int /\ Law(c, w, g, t)
      /\ Queue(q, cl.eof, cl.close, t.recv_eof, t.recv_close)
  <2>1. CASE "socket" \in fds
    <3> DEFINE m == Head(inq)
               x == process_packet(s, m, spawned)
    <3>1. inq # <<>> /\ m \in MsgIn /\ Tail(inq) \in Seq(MsgIn)
      BY <1>4, <2>1 DEF ChannelInv, FdsStillReady
    <3>2. t = x /\ q = Tail(inq)
      BY <2>1
    <3>3. /\ Total(inq, "DATA") = Amount(m, "DATA") + Total(q, "DATA")
          /\ Total(inq, "ADJUST") = Amount(m, "ADJUST") + Total(q, "ADJUST")
      BY <1>4, <3>1, <3>2, TotalTail, CountsAll
    <3>4. Total(q, "DATA") \in Nat /\ Total(q, "ADJUST") \in Nat
      BY <3>1, <3>2, AmountsType, CountsAll
    <3>5. Amount(m, "DATA") \in Nat /\ Amount(m, "ADJUST") \in Nat
      BY <3>1, AmountType
    <3>6. ~s.recv_close /\ (m.type = "DATA" => ~s.recv_eof)
      BY <1>4, <3>1, QueueHead DEF ToServer
    <3>7. s.state = "open"
      BY <3>6 DEF PeerInv, FlagsOK
    <3> HIDE DEF m, x, q, t
    <3>8. w \in Nat /\ g \in Int /\ Waiting = w + Amount(m, "DATA") /\ Granted = g - Amount(m, "ADJUST")
      <4> DEFINE d == Total(q, "DATA")
                 e == Total(q, "ADJUST")
                 y == Amount(m, "DATA")
                 z == Amount(m, "ADJUST")
                 i == cl.window
                 k == cl.granted
      <4>1. /\ d \in Nat /\ e \in Nat /\ y \in Nat /\ z \in Nat /\ i \in Nat /\ k \in Int
            /\ Waiting = i + (y + d) /\ Granted = k - (z + e)
        BY <1>4, <3>3, <3>4, <3>5 DEF ClientOK, Waiting, Granted
      <4> HIDE DEF d, e, y, z, i, k
      <4>2. i + d \in Nat /\ k - e \in Int /\ Waiting = (i + d) + y /\ Granted = (k - e) - z
        BY <4>1
      <4> QED BY <4>2 DEF d, e, y, z, i, k
    <3> HIDE DEF w, g
    <3>9. Law(c, w + Amount(m, "DATA"), g - Amount(m, "ADJUST"), s)
      BY <1>3, <3>8
    <3>10. Inv(x) /\ Keeps(s, x)
      BY <1>4, <3>1, ProcessPacket DEF x
    <3>11. /\ Law(c, w, g, x) /\ DOMAIN x = Fields
           /\ m.type \notin {"EOF", "CLOSE"} => SameEnd(s, x)
           /\ m.type = "EOF" => x.recv_eof = TRUE /\ x.recv_close = s.recv_close
           /\ m.type = "CLOSE" => x.recv_eof = TRUE /\ x.recv_close = TRUE
      BY <1>3, <1>4, <3>1, <3>6, <3>7, <3>8, <3>9, PacketLaw DEF x
    <3>12. Queue(Tail(inq), cl.eof, cl.close, x.recv_eof, x.recv_close)
      <4>1. /\ m.type \notin {"EOF", "CLOSE"} => x.recv_eof = s.recv_eof /\ x.recv_close = s.recv_close
            /\ m.type = "EOF" => x.recv_eof = TRUE /\ x.recv_close = s.recv_close
            /\ m.type = "CLOSE" => x.recv_eof = TRUE /\ x.recv_close = TRUE
        BY <3>11 DEF SameEnd
      <4>2. Queue(inq, cl.eof, cl.close, s.recv_eof, s.recv_close)
        BY <1>4 DEF ToServer
      <4> QED BY <1>4, <3>1, <4>1, <4>2, QueueTake DEF m
    <3> QED BY <3>2, <3>8, <3>10, <3>11, <3>12
  <2>2. CASE "socket" \notin fds
    <3>1. t = s /\ q = inq
      BY <2>2
    <3> QED BY <1>3, <1>4, <3>1 DEF Waiting, Granted, Keeps, ToServer
  <2> QED BY <2>1, <2>2
<1> HIDE DEF t, q, w, g
<1>7. Inv(a) /\ Keeps(t, a)
  BY <1>6, FlagInv DEF Inv
<1>8. Inv(u) /\ Keeps(s, u)
  <2> HIDE DEF a
  <2> QED BY <1>6, <1>7, CheckSignal, KeepsTrans
<1>9. Law(c, w, g, u) /\ SameEnd(t, u)
  <2>1. DOMAIN t = Fields
    BY <1>6 DEF Inv, Base, ChType
  <2>2. SameEnd(t, t)
    BY <2>1 DEF SameEnd
  <2> QED BY <1>6, <2>1, <2>2, SignalLaw
<1> HIDE DEF u
<1>10. ("read" \in fds => ReadOK(u)) /\ ("err" \in fds => ErrOK(u))
  BY <1>4, <1>8 DEF ChannelInv, FdsStillReady, Keeps
<1>11. Inv(v)
  BY <1>8, <1>10, ChannelIO
<1>12. Law(c, w, g, v)
  BY <1>3, <1>6, <1>8, <1>9, <1>10, ChannelIOLaw
<1>13. SameEnd(u, v)
  BY <1>9, EndIO DEF SameEnd
<1>14. SameEnd(t, v)
  BY <1>9, <1>13, EndTrans
<1> HIDE DEF v
<1>15. /\ s'.out = <<>> /\ FlagsOK(s')
       /\ Orderly(outq', c.got, s'.sent_eof, s'.sent_close, s'.late, s'.unnamed)
       /\ w + Total(outq', "ADJUST") <= s'.recvwindow /\ s'.transwindow + Total(outq', "DATA") <= g
       /\ RingOK(s'.accepted, s'.delivered, s')
       /\ Begins(c.acc, s'.accepted) /\ Begins(c.del, s'.delivered)
       /\ s'.recv_eof = v.recv_eof /\ s'.recv_close = v.recv_close
  <2>1. outq' = c.q \o v.out
    BY <1>2, <1>3
  <2>2. Ends(c, v, s', outq')
    BY <1>2, <2>1 DEF Ends
  <2>3. Settled(c, w, g, v, s', outq')
    BY <1>3, <1>6, <1>11, <1>12, <2>2, Settle
  <2> QED BY <2>3 DEF Settled
<1>16. ChannelInv'
  BY <1>4, RoundInv
<1>17. ClientOK'
  BY <1>2, <1>4 DEF ClientOK
<1>18. ToClient'
  BY <1>2, <1>3, <1>15 DEF ToClient
<1>19. WireOK'
  <2>1. cl'.window + Total(inq', "DATA") = w /\ cl'.granted - Total(inq', "ADJUST") = g
    BY <1>2 DEF w, g
  <2> QED BY <1>15, <2>1 DEF WireOK
<1>20. ToServer'
  BY <1>2, <1>6, <1>14, <1>15 DEF ToServer, SameEnd
<1>21. FlagsOK(s)' /\ RingOK(s.accepted, s.delivered, s)' /\ (s.out = <<>>)'
  BY <1>15 DEF FlagsOK, RingOK
<1>22. PeerInv'
  BY <1>16, <1>17, <1>18, <1>19, <1>20, <1>21 DEF PeerInv
<1> QED BY <1>3, <1>15, <1>22

\* The command and what it leaves behind touch nothing the law looks at.
LEMMA PeerCommand == PeerInv /\ Command => PeerInv' /\ UNCHANGED <<s.accepted, s.delivered>>
<1> SUFFICES ASSUME PeerInv, Command PROVE PeerInv' /\ UNCHANGED <<s.accepted, s.delivered>>
  OBVIOUS
<1>1. DOMAIN s = Fields
  BY DEF PeerInv, ChannelInv, Inv, Base, ChType
<1>2. Mild(s, s') /\ SameEnd(s, s') /\ UNCHANGED <<cl, inq, outq>>
  <2>1. ASSUME NEW stream \in {"out", "err"}, CommandWrite(stream)
        PROVE  Mild(s, s') /\ SameEnd(s, s') /\ UNCHANGED <<cl, inq, outq>>
    <3> DEFINE a == Take(s, stream, -1)
               x == a.left - 1
               u == [a EXCEPT !.left = x]
    <3>1. s' = u /\ UNCHANGED <<cl, inq, outq>>
      BY <2>1 DEF CommandWrite
    <3>2. Mild(s, a) /\ SameEnd(s, a)
      <4>1. CASE stream = "err"
        <5> DEFINE y == s.perr - (-1)
        <5>1. a = [s EXCEPT !.perr = y]
          BY <4>1 DEF Take
        <5> HIDE DEF y
        <5> QED BY <1>1, <5>1 DEF Mild, SameEnd, Fields
      <4>2. CASE stream # "err"
        <5> DEFINE y == s.pout - (-1)
        <5>1. a = [s EXCEPT !.pout = y]
          BY <4>2 DEF Take
        <5> HIDE DEF y
        <5> QED BY <1>1, <5>1 DEF Mild, SameEnd, Fields
      <4> QED BY <4>1, <4>2
    <3> HIDE DEF a, x
    <3>3. Mild(a, u) /\ SameEnd(a, u)
      BY <3>2 DEF Mild, SameEnd, Fields
    <3> HIDE DEF u
    <3> QED BY <3>1, <3>2, <3>3, MildTrans, EndTrans
  <2>2. CASE CommandRead
    <3>1. s' = [s EXCEPT !.pin = 0] /\ UNCHANGED <<cl, inq, outq>>
      BY <2>2 DEF CommandRead
    <3> QED BY <1>1, <3>1 DEF Mild, SameEnd, Fields
  <2>3. CASE CommandCloses
    <3>1. /\ UNCHANGED <<cl, inq, outq>>
          /\ \/ s' = [s EXCEPT !.kin = FALSE] \/ s' = [s EXCEPT !.kout = FALSE] \/ s' = [s EXCEPT !.kerr = FALSE]
      BY <2>3 DEF CommandCloses
    <3> QED BY <1>1, <3>1 DEF Mild, SameEnd, Fields
  <2>4. CASE CommandExit
    <3>1. PICK unnamed \in BOOLEAN :
            s' = [s EXCEPT !.child = "zombie", !.signal = TRUE, !.kin = FALSE, !.kout = FALSE, !.kerr = FALSE,
                           !.unnamed = unnamed]
      BY <2>4 DEF CommandExit
    <3>2. s.child = "running" /\ UNCHANGED <<cl, inq, outq>>
      BY <2>4 DEF CommandExit
    <3>3. ~s.sent_close
      BY <3>2 DEF PeerInv, FlagsOK, ChannelInv, Inv, Base, CommandOK
    <3> QED BY <1>1, <3>1, <3>2, <3>3 DEF Mild, SameEnd, Fields
  <2> QED BY <2>1, <2>2, <2>3, <2>4 DEF Command
<1>3. Law(Here, Waiting, Granted, s')
  BY <1>2, PeerLaw, MildLaw
<1>4. s'.out = <<>> /\ s'.accepted = s.accepted /\ s'.delivered = s.delivered
      /\ s'.sent_eof = s.sent_eof /\ s'.sent_close = s.sent_close /\ s'.late = s.late
      /\ s'.recvwindow = s.recvwindow /\ s'.transwindow = s.transwindow
      /\ s'.recv_eof = s.recv_eof /\ s'.recv_close = s.recv_close
  BY <1>2 DEF Mild, SameEnd, PeerInv
<1>5. ChannelInv'
  BY CommandInv DEF PeerInv
<1>6. ClientOK' /\ ToServer'
  BY <1>2, <1>4 DEF PeerInv, ClientOK, ToServer
<1>7. ToClient'
  <2>1. Cat(outq, <<>>) = outq
    BY DEF PeerInv, ChannelInv, Cat
  <2>2. Orderly(Cat(outq, s'.out), cl.got, s'.sent_eof, s'.sent_close, s'.late, s'.unnamed)
    BY <1>3 DEF Law, OrderOK, All, Here
  <2> QED BY <1>2, <1>4, <2>1, <2>2 DEF ToClient
<1>8. WireOK'
  BY <1>2, <1>4 DEF PeerInv, WireOK
<1>9. FlagsOK(s)' /\ RingOK(s.accepted, s.delivered, s)'
  BY <1>3, <1>4 DEF Law, Here, FlagsOK, RingOK
<1> QED BY <1>4, <1>5, <1>6, <1>7, <1>8, <1>9 DEF PeerInv

LEMMA PeerSelect == PeerInv /\ Select => PeerInv' /\ UNCHANGED <<s.accepted, s.delivered>>
<1> SUFFICES ASSUME PeerInv, Select PROVE PeerInv' /\ UNCHANGED <<s.accepted, s.delivered>>
  OBVIOUS
<1>1. UNCHANGED <<s, cl, inq, outq>>
  BY DEF Select
<1>2. ChannelInv'
  BY SelectInv DEF PeerInv
<1>3. ClientOK' /\ ToServer' /\ ToClient' /\ WireOK'
  BY <1>1 DEF PeerInv, ClientOK, ToServer, ToClient, WireOK
<1>4. FlagsOK(s)' /\ RingOK(s.accepted, s.delivered, s)' /\ (s.out = <<>>)'
  BY <1>1 DEF PeerInv, FlagsOK, RingOK
<1> QED BY <1>1, <1>2, <1>3, <1>4 DEF PeerInv

\* A packet of the client: data is paid for from its window, and more window is
\* granted before the server hears of it.
LEMMA PeerPut ==
    ASSUME PeerInv, Client, NEW m \in MsgIn, Put(m), ~cl.close, m.type = "DATA" => ~cl.eof,
           cl'.window \in Nat, cl'.window = cl.window - Amount(m, "DATA"),
           cl'.granted = cl.granted + Amount(m, "ADJUST"), cl'.got = cl.got,
           cl.eof => cl'.eof, m.type = "EOF" => cl'.eof, m.type = "CLOSE" => cl'.close
    PROVE  PeerInv'
<1>1. inq' = Append(inq, m) /\ UNCHANGED <<s, fds, outq>>
  BY DEF Put
<1>2. inq \in Seq(MsgIn) /\ outq \in Seq(MsgOut) /\ cl.window \in Nat /\ cl.granted \in Int
  BY DEF PeerInv, ChannelInv, ClientOK
<1>3. ChannelInv'
  BY ClientInv DEF PeerInv
<1>4. Amount(m, "DATA") \in Nat /\ Amount(m, "ADJUST") \in Nat
  BY AmountType
<1>5. ClientOK'
  BY <1>2, <1>4 DEF PeerInv, ClientOK
<1>6. ToServer'
  <2>1. Queue(inq, cl.eof, cl.close, s.recv_eof, s.recv_close)
    BY DEF PeerInv, ToServer
  <2>2. MayPut(m, cl.eof, cl.close, cl'.eof, cl'.close)
    BY DEF MayPut
  <2>3. Queue(Append(inq, m), cl'.eof, cl'.close, s.recv_eof, s.recv_close)
    BY <1>2, <2>1, <2>2, QueuePut
  <2> QED BY <1>1, <2>3 DEF ToServer
<1>7. ToClient'
  BY <1>1 DEF PeerInv, ToClient
<1>8. WireOK'
  <2> DEFINE d == Total(inq, "DATA")
             e == Total(inq, "ADJUST")
             x == Amount(m, "DATA")
             y == Amount(m, "ADJUST")
             a == Total(outq, "ADJUST")
             b == Total(outq, "DATA")
  <2>1. Total(inq', "DATA") = d + x /\ Total(inq', "ADJUST") = e + y
    BY <1>1, <1>2, TotalAppend, CountsAll
  <2>2. d \in Nat /\ e \in Nat /\ x \in Nat /\ y \in Nat
    BY <1>2, <1>4, AmountsType, CountsAll
  <2>3. (cl.window + d) + a <= s.recvwindow /\ s.transwindow + b <= cl.granted - e
    BY DEF PeerInv, WireOK
  <2>4. /\ Total(outq', "ADJUST") = a /\ Total(outq', "DATA") = b
        /\ s'.recvwindow = s.recvwindow /\ s'.transwindow = s.transwindow
    BY <1>1
  <2> HIDE DEF d, e, x, y, a, b
  <2>5. (cl.window - x) + (d + x) = cl.window + d /\ (cl.granted + y) - (e + y) = cl.granted - e
    BY <1>2, <2>2
  <2>6. cl'.window = cl.window - x /\ cl'.granted = cl.granted + y
    BY DEF x, y
  <2> QED BY <2>1, <2>3, <2>4, <2>5, <2>6 DEF WireOK
<1>9. FlagsOK(s)' /\ RingOK(s.accepted, s.delivered, s)' /\ (s.out = <<>>)'
  BY <1>1 DEF PeerInv, FlagsOK, RingOK
<1> QED BY <1>3, <1>5, <1>6, <1>7, <1>8, <1>9 DEF PeerInv

\* The client takes a packet.
LEMMA PeerReceive == PeerInv /\ Receive => PeerInv'
<1> SUFFICES ASSUME PeerInv, Receive PROVE PeerInv'
  OBVIOUS
<1> DEFINE m == Head(outq)
<1>1. outq # <<>> /\ outq' = Tail(outq) /\ UNCHANGED <<s, fds, inq>>
  BY DEF Receive
<1>2. cl' = CASE m.type = "DATA"    -> [cl EXCEPT !.granted = @ - m.n, !.owed = @ + m.n]
              [] m.type = "ADJUST"  -> [cl EXCEPT !.window = @ + m.n]
              [] m.type = "SUCCESS" -> [cl EXCEPT !.waiting = FALSE, !.started = TRUE]
              [] m.type = "FAILURE" -> [cl EXCEPT !.waiting = FALSE]
              [] OTHER              -> [cl EXCEPT !.got = @ \cup {m.type}]
  BY DEF Receive
<1>3. /\ outq \in Seq(MsgOut) /\ inq \in Seq(MsgIn) /\ cl.window \in Nat /\ cl.granted \in Int
      /\ cl.got \in SUBSET {"EOF", "CLOSE", "EXIT"}
      /\ DOMAIN cl = {"asked", "waiting", "started", "sent", "left", "window", "eof", "close",
                      "granted", "owed", "got"}
  BY DEF PeerInv, ChannelInv, ClientOK, ClType
<1>4. m \in MsgOut
  BY <1>1, <1>3
<1> HIDE DEF m
<1>5. m.type \in {"EOF", "CLOSE", "EXIT", "SUCCESS", "FAILURE", "DATA", "ADJUST"}
  BY <1>4 DEF MsgOut
<1>6. Amount(m, "DATA") \in Nat /\ Amount(m, "ADJUST") \in Nat
  BY <1>4, AmountType
<1>7. /\ cl'.window = cl.window + Amount(m, "ADJUST") /\ cl'.granted = cl.granted - Amount(m, "DATA")
      /\ cl'.got = IF m.type \in {"EOF", "CLOSE", "EXIT"} THEN cl.got \cup {m.type} ELSE cl.got
      /\ cl'.eof = cl.eof /\ cl'.close = cl.close
  <2>1. CASE m.type = "DATA"
    <3>1. cl' = [cl EXCEPT !.granted = cl.granted - m.n, !.owed = cl.owed + m.n]
      BY <1>2, <2>1
    <3>2. Amount(m, "ADJUST") = 0 /\ Amount(m, "DATA") = m.n
      BY <1>4, <2>1 DEF Amount, MsgOut
    <3> QED BY <1>3, <2>1, <3>1, <3>2
  <2>2. CASE m.type = "ADJUST"
    <3>1. cl' = [cl EXCEPT !.window = cl.window + m.n]
      BY <1>2, <2>2
    <3>2. Amount(m, "DATA") = 0 /\ Amount(m, "ADJUST") = m.n
      BY <1>4, <2>2 DEF Amount, MsgOut
    <3> QED BY <1>3, <2>2, <3>1, <3>2
  <2>3. CASE m.type \notin {"DATA", "ADJUST"}
    <3>1. Amount(m, "DATA") = 0 /\ Amount(m, "ADJUST") = 0
      BY <2>3 DEF Amount
    <3>2. CASE m.type = "SUCCESS"
      <4>1. cl' = [cl EXCEPT !.waiting = FALSE, !.started = TRUE]
        BY <1>2, <3>2
      <4> QED BY <1>3, <3>1, <3>2, <4>1
    <3>3. CASE m.type = "FAILURE"
      <4>1. cl' = [cl EXCEPT !.waiting = FALSE]
        BY <1>2, <3>3
      <4> QED BY <1>3, <3>1, <3>3, <4>1
    <3>4. CASE m.type \in {"EOF", "CLOSE", "EXIT"}
      <4>1. cl' = [cl EXCEPT !.got = cl.got \cup {m.type}]
        BY <1>2, <3>4
      <4> QED BY <1>3, <3>1, <3>4, <4>1
    <3> QED BY <1>5, <2>3, <3>2, <3>3, <3>4
  <2> QED BY <2>1, <2>2, <2>3
<1>8. ChannelInv'
  BY ClientInv DEF PeerInv, Client
<1>9. ClientOK'
  BY <1>3, <1>5, <1>6, <1>7 DEF ClientOK
<1>10. ToServer'
  BY <1>1, <1>7 DEF PeerInv, ToServer
<1>11. ToClient'
  <2>1. Orderly(outq, cl.got, s.sent_eof, s.sent_close, s.late, s.unnamed)
    BY DEF PeerInv, ToClient
  <2>2. Orderly(Tail(outq), cl'.got, s.sent_eof, s.sent_close, s.late, s.unnamed)
    BY <1>1, <1>3, <1>7, <2>1, OrderReceive DEF m
  <2> QED BY <1>1, <2>2 DEF ToClient
<1>12. WireOK'
  <2> DEFINE d == Total(inq, "DATA")
             e == Total(inq, "ADJUST")
             x == Amount(m, "DATA")
             y == Amount(m, "ADJUST")
             a == Total(outq', "ADJUST")
             b == Total(outq', "DATA")
  <2>1. Total(outq, "DATA") = x + b /\ Total(outq, "ADJUST") = y + a
    BY <1>1, <1>3, TotalTail, CountsAll DEF m
  <2>2. d \in Nat /\ e \in Nat /\ x \in Nat /\ y \in Nat /\ a \in Nat /\ b \in Nat
    <3>1. outq' \in Seq(MsgOut)
      BY <1>8 DEF ChannelInv
    <3> QED BY <1>3, <1>6, <3>1, AmountsType, CountsAll
  <2>3. /\ (cl.window + d) + Total(outq, "ADJUST") <= s.recvwindow
        /\ s.transwindow + Total(outq, "DATA") <= cl.granted - e
    BY DEF PeerInv, WireOK
  <2>4. /\ Total(inq', "ADJUST") = e /\ Total(inq', "DATA") = d
        /\ s'.recvwindow = s.recvwindow /\ s'.transwindow = s.transwindow
    BY <1>1
  <2>5. cl'.window = cl.window + y /\ cl'.granted = cl.granted - x
    BY <1>7
  <2>6. s.transwindow \in Nat /\ s.recvwindow \in Int
    BY DEF PeerInv, ChannelInv, Inv, Base, ChType
  <2> HIDE DEF d, e, x, y, a, b
  <2> DEFINE p == s.recvwindow
             r == s.transwindow
             w == cl.window
             g == cl.granted
  <2>7. /\ p \in Int /\ r \in Nat /\ w \in Nat /\ g \in Int
        /\ (w + d) + (y + a) <= p /\ r + (x + b) <= g - e
    BY <1>3, <2>1, <2>3, <2>6
  <2> HIDE DEF p, r, w, g
  <2>8. ((w + y) + d) + a <= p /\ r + b <= (g - x) - e
    BY <2>2, <2>7
  <2> QED BY <2>4, <2>5, <2>8 DEF WireOK, a, b, p, r, w, g
<1>13. FlagsOK(s)' /\ RingOK(s.accepted, s.delivered, s)' /\ (s.out = <<>>)'
  BY <1>1 DEF PeerInv, FlagsOK, RingOK
<1> QED BY <1>8, <1>9, <1>10, <1>11, <1>12, <1>13 DEF PeerInv

LEMMA PeerClient == PeerInv /\ Client => PeerInv' /\ UNCHANGED <<s.accepted, s.delivered>>
<1> SUFFICES ASSUME PeerInv, Client PROVE PeerInv' /\ UNCHANGED <<s.accepted, s.delivered>>
  OBVIOUS
<1>1. /\ cl.window \in Nat /\ cl.granted \in Int /\ cl.owed \in Nat /\ cl.sent \in Nat
      /\ DOMAIN cl = {"asked", "waiting", "started", "sent", "left", "window", "eof", "close",
                      "granted", "owed", "got"}
  BY DEF PeerInv, ChannelInv, ClientOK, ClType
<1>2. CASE Ask
  <2> DEFINE m == [type |-> "REQUEST"]
  <2>1. m \in MsgIn /\ m.type = "REQUEST" /\ Amount(m, "DATA") = 0 /\ Amount(m, "ADJUST") = 0
    BY DEF MsgIn, Amount
  <2>2. /\ Put(m) /\ ~cl.close /\ cl'.window = cl.window /\ cl'.granted = cl.granted /\ cl'.got = cl.got
        /\ cl'.eof = cl.eof
    BY <1>1, <1>2 DEF Ask
  <2> HIDE DEF m
  <2>3. cl'.window = cl.window - Amount(m, "DATA") /\ cl'.granted = cl.granted + Amount(m, "ADJUST")
    BY <1>1, <2>1, <2>2
  <2> QED BY <1>1, <2>1, <2>2, <2>3, PeerPut DEF Put
<1>3. CASE SendData
  <2>1. PICK n \in Chunk :
           /\ n <= cl.window
           /\ Put([type |-> "DATA", bytes |-> [i \in 1..n |-> cl.sent + i]])
           /\ cl' = [cl EXCEPT !.sent = @ + n, !.left = @ - n, !.window = @ - n]
    BY <1>3 DEF SendData
  <2> DEFINE b == [i \in 1..n |-> cl.sent + i]
             m == [type |-> "DATA", bytes |-> b]
  <2>2. n \in Nat /\ b \in Seq(Nat) /\ Len(b) = n
    BY <1>1, ChannelAssumption
  <2>3. Put(m)
    BY <2>1
  <2> HIDE DEF b
  <2>4. m \in MsgIn /\ m.type = "DATA" /\ Amount(m, "DATA") = n /\ Amount(m, "ADJUST") = 0
    BY <2>2 DEF MsgIn, Amount
  <2>5. /\ ~cl.close /\ ~cl.eof /\ cl'.window = cl.window - n /\ cl'.granted = cl.granted /\ cl'.got = cl.got
        /\ cl'.eof = cl.eof
    BY <1>1, <1>3, <2>1 DEF SendData
  <2> HIDE DEF m
  <2>6. /\ cl'.window = cl.window - Amount(m, "DATA") /\ cl'.granted = cl.granted + Amount(m, "ADJUST")
        /\ cl'.window \in Nat
    BY <1>1, <2>1, <2>2, <2>4, <2>5
  <2> QED BY <2>3, <2>4, <2>5, <2>6, PeerPut DEF Put
<1>4. CASE SendEof
  <2> DEFINE m == [type |-> "EOF"]
  <2>1. m \in MsgIn /\ m.type = "EOF" /\ Amount(m, "DATA") = 0 /\ Amount(m, "ADJUST") = 0
    BY DEF MsgIn, Amount
  <2>2. /\ Put(m) /\ ~cl.close /\ cl'.window = cl.window /\ cl'.granted = cl.granted /\ cl'.got = cl.got
        /\ cl'.eof = TRUE
    BY <1>1, <1>4 DEF SendEof
  <2> HIDE DEF m
  <2>3. cl'.window = cl.window - Amount(m, "DATA") /\ cl'.granted = cl.granted + Amount(m, "ADJUST")
    BY <1>1, <2>1, <2>2
  <2> QED BY <1>1, <2>1, <2>2, <2>3, PeerPut DEF Put
<1>5. CASE SendClose
  <2> DEFINE m == [type |-> "CLOSE"]
  <2>1. m \in MsgIn /\ m.type = "CLOSE" /\ Amount(m, "DATA") = 0 /\ Amount(m, "ADJUST") = 0
    BY DEF MsgIn, Amount
  <2>2. /\ Put(m) /\ ~cl.close /\ cl'.window = cl.window /\ cl'.granted = cl.granted /\ cl'.got = cl.got
        /\ cl'.eof = cl.eof /\ cl'.close = TRUE
    BY <1>1, <1>5 DEF SendClose
  <2> HIDE DEF m
  <2>3. cl'.window = cl.window - Amount(m, "DATA") /\ cl'.granted = cl.granted + Amount(m, "ADJUST")
    BY <1>1, <2>1, <2>2
  <2> QED BY <1>1, <2>1, <2>2, <2>3, PeerPut DEF Put
<1>6. CASE SendAdjust
  <2> DEFINE m == [type |-> "ADJUST", n |-> cl.owed]
  <2>1. m \in MsgIn /\ m.type = "ADJUST" /\ Amount(m, "DATA") = 0 /\ Amount(m, "ADJUST") = cl.owed
    BY <1>1 DEF MsgIn, Amount
  <2>2. /\ Put(m) /\ ~cl.close /\ cl'.window = cl.window /\ cl'.granted = cl.granted + cl.owed /\ cl'.got = cl.got
        /\ cl'.eof = cl.eof
    BY <1>1, <1>6 DEF SendAdjust
  <2> HIDE DEF m
  <2>3. cl'.window = cl.window - Amount(m, "DATA") /\ cl'.granted = cl.granted + Amount(m, "ADJUST")
    BY <1>1, <2>1, <2>2
  <2> QED BY <1>1, <2>1, <2>2, <2>3, PeerPut DEF Put
<1>7. CASE Receive
  BY <1>7, PeerReceive DEF Receive
<1> QED BY <1>2, <1>3, <1>4, <1>5, <1>6, <1>7 DEF Client

-----------------------------------------------------------------------------
(* The theorems. *)

\* The inductive invariant of the channel and its peer: the flags the two ends keep,
\* what is on its way in both directions, both windows and the ring buffer.
THEOREM PeerInvariance == Spec => []PeerInv
<1>1. ASSUME PeerInv, [Next]_vars PROVE PeerInv'
  <2>1. CASE Select
    BY <1>1, <2>1, PeerSelect
  <2>2. CASE Round
    BY <1>1, <2>2, PeerRound
  <2>3. CASE Client
    BY <1>1, <2>3, PeerClient
  <2>4. CASE Command
    BY <1>1, <2>4, PeerCommand
  <2>5. CASE UNCHANGED vars
    <3>1. UNCHANGED <<s, cl, fds, inq, outq>>
      BY <2>5 DEF vars
    <3>2. ChannelInv'
      BY <1>1, <3>1 DEF PeerInv, ChannelInv, ClType, FdsStillReady
    <3>3. ClientOK' /\ ToServer' /\ ToClient' /\ WireOK'
      BY <1>1, <3>1 DEF PeerInv, ClientOK, ToServer, ToClient, WireOK
    <3>4. FlagsOK(s)' /\ RingOK(s.accepted, s.delivered, s)' /\ (s.out = <<>>)'
      BY <1>1, <3>1 DEF PeerInv, FlagsOK, RingOK
    <3> QED BY <3>2, <3>3, <3>4 DEF PeerInv
  <2> QED BY <1>1, <2>1, <2>2, <2>3, <2>4, <2>5 DEF Next
<1> QED BY <1>1, PeerInit, PTL DEF Spec

\* Both ends agree on both windows, whatever data and window is on its way: what
\* common_recv_msg_channel_data() charges, writechannel() gives back and
\* send_msg_channel_data() uses up, for windows and packets of every size.
THEOREM PeersAgreeOnWindows == Spec => []WindowsAgree
<1>1. PeerInv => WindowsAgree
  <2> SUFFICES ASSUME PeerInv PROVE WindowsAgree
    OBVIOUS
  <2> DEFINE d == Total(inq, "DATA")
             e == Total(inq, "ADJUST")
             a == Total(outq, "ADJUST")
             b == Total(outq, "DATA")
  <2>1. /\ inq \in Seq(MsgIn) /\ outq \in Seq(MsgOut) /\ cl.window \in Nat /\ cl.granted \in Int
        /\ s.transwindow \in Nat /\ s.recvwindow \in Int
    BY DEF PeerInv, ChannelInv, ClientOK, Inv, Base, ChType
  <2>2. d \in Nat /\ e \in Nat /\ a \in Nat /\ b \in Nat
    BY <2>1, AmountsType, CountsAll
  <2>3. (cl.window + d) + a <= s.recvwindow /\ s.transwindow + b <= cl.granted - e
    BY DEF PeerInv, WireOK
  <2> HIDE DEF d, e, a, b
  <2>4. cl.granted >= 0
    BY <2>1, <2>2, <2>3
  <2> QED BY <2>3, <2>4 DEF WindowsAgree, d, a
<1> QED BY <1>1, PeerInvariance, PTL

\* No dropbear_exit() of the channel code is reached, neither by an assertion nor
\* by a packet of a client that keeps to the protocol, in any order of its packets,
\* the command's exit and the closing of the pipes.
THEOREM ChannelNeverFails == Spec => []NoFailure
<1>1. PeerInv => NoFailure
  BY DEF PeerInv, FlagsOK, NoFailure
<1> QED BY <1>1, PeerInvariance, PTL

\* For the client nothing follows CLOSE, the exit of the command comes before it
\* unless a signal without a name ended the command, and data comes before EOF
\* unless the command was late.
THEOREM EndIsOrderly == Spec => []OrderlyEnd
<1>1. PeerInv => OrderlyEnd
  <2> SUFFICES ASSUME PeerInv PROVE OrderlyEnd
    OBVIOUS
  <2> DEFINE before(type, i) == type \in cl.got \/ \E j \in 1..(i - 1) : outq[j].type = type
  <2>1. outq \in Seq(MsgOut) /\ Len(outq) \in Nat /\ DOMAIN outq = 1..Len(outq)
    BY LenProperties DEF PeerInv, ChannelInv
  <2>2. \A i \in 1..Len(outq) :
         /\ outq[i].type = "CLOSE" => /\ i = Len(outq)
                                      /\ s.unnamed \/ "EXIT" \in cl.got \/ \E j \in 1..(i - 1) : outq[j].type = "EXIT"
         /\ outq[i].type = "DATA" => s.late \/ ("EOF" \notin cl.got /\ \A j \in 1..(i - 1) : outq[j].type # "EOF")
    BY DEF PeerInv, ToClient, Orderly
  <2>3. "CLOSE" \in cl.got => outq = <<>>
    BY DEF PeerInv, ToClient, Orderly
  <2>4. ASSUME NEW i \in 1..Len(outq)
        PROVE  /\ ~before("CLOSE", i)
               /\ outq[i].type = "DATA" => (~before("EOF", i) \/ s.late)
               /\ outq[i].type = "CLOSE" => (before("EXIT", i) \/ s.unnamed)
    <3>1. "CLOSE" \notin cl.got
      BY <2>1, <2>3, <2>4, EmptySeq
    <3>2. ASSUME NEW j \in 1..(i - 1) PROVE outq[j].type # "CLOSE"
      <4> DEFINE n == Len(outq)
      <4>1. n \in Nat /\ i \in 1..n
        BY <2>1
      <4> HIDE DEF n
      <4>2. j \in 1..n /\ j # n
        BY <4>1
      <4> QED BY <2>2, <4>2 DEF n
    <3> QED BY <2>2, <3>1, <3>2
  <2> QED BY <2>1, <2>4 DEF OrderlyEnd
<1> QED BY <1>1, PeerInvariance, PTL

LEMMA BeginsPrefix ==
    ASSUME NEW a \in Seq(Nat), NEW b \in Seq(Nat), Begins(a, b)
    PROVE  Len(a) <= Len(b) /\ SubSeq(a, 1, Len(a)) = SubSeq(b, 1, Len(a))
<1> DEFINE n == Len(a)
<1>1. n \in Nat /\ Len(b) \in Nat /\ n <= Len(b) /\ \A i \in 1..n : a[i] = b[i]
  BY LenProperties DEF Begins
<1>2. SubSeq(a, 1, n) = [i \in 1..n |-> a[i]] /\ SubSeq(b, 1, n) = [i \in 1..n |-> b[i]]
  BY <1>1
<1> HIDE DEF n
<1> QED BY <1>1, <1>2 DEF n

\* The ring buffer of circbuffer.c implements ByteStream: the command reads what the
\* client sent, in order, for buffers, packets and pipes of every size, with nothing
\* lost or repeated where the buffer wraps around.
THEOREM RingIsStream == Spec => StdinIsStream
<1>1. Init => Stdin!StreamInit
  <2> SUFFICES ASSUME Init PROVE Stdin!StreamInit
    OBVIOUS
  <2>1. s.accepted = <<>> /\ s.delivered = <<>>
    BY DEF Init
  <2> QED BY <2>1 DEF Stdin!StreamInit
<1>2. PeerInv /\ PeerInv' /\ [Next]_vars => [Stdin!StreamNext]_Stdin!streamVars
  <2> SUFFICES ASSUME PeerInv, PeerInv', [Next]_vars PROVE [Stdin!StreamNext]_Stdin!streamVars
    OBVIOUS
  <2>1. CASE Round
    <3>1. /\ s.accepted \in Seq(Nat) /\ s.delivered \in Seq(Nat)
          /\ s'.accepted \in Seq(Nat) /\ s'.delivered \in Seq(Nat) /\ Begins(s'.delivered, s'.accepted)
      BY DEF PeerInv, RingOK
    <3>2. Begins(s.accepted, s'.accepted) /\ Begins(s.delivered, s'.delivered)
      BY <2>1, PeerRound
    <3>3. \A i \in DOMAIN s'.accepted : s'.accepted[i] \in Nat
      BY <3>1, LenProperties, ElementOfSeq
    <3>4. Stdin!IsPrefix(s.accepted, s'.accepted)
      BY <3>1, <3>2, BeginsPrefix DEF Stdin!IsPrefix
    <3>5. Stdin!IsPrefix(s.delivered, s'.delivered)
      BY <3>1, <3>2, BeginsPrefix DEF Stdin!IsPrefix
    <3>6. Stdin!IsPrefix(s'.delivered, s'.accepted)
      BY <3>1, BeginsPrefix DEF Stdin!IsPrefix
    <3>7. Stdin!StreamNext
      BY <3>3, <3>4, <3>5, <3>6 DEF Stdin!StreamNext
    <3> QED BY <3>7
  <2>2. CASE Select \/ Client \/ Command
    <3>1. UNCHANGED <<s.accepted, s.delivered>>
      BY <2>2, PeerSelect, PeerClient, PeerCommand
    <3> QED BY <3>1 DEF Stdin!streamVars
  <2>3. CASE UNCHANGED vars
    BY <2>3 DEF vars, Stdin!streamVars
  <2> QED BY <2>1, <2>2, <2>3 DEF Next
<1> QED BY <1>1, <1>2, PeerInvariance, PTL DEF Spec, StdinIsStream, Stdin!StreamSpec
=============================================================================
