--------------------------- MODULE SvrSessionProofs ---------------------------
(***************************************************************************)
(* Proofs about SvrSession, for every client, every set of names and every *)
(* limit: the state of a key exchange is consistent, no handler uses a     *)
(* buffer that is not there, nothing but the key exchange is in the clear. *)
(*                                                                         *)
(* Then about SessionPair: a session and a client that follows the         *)
(* protocol agree on the keys of every packet, the client is never thrown  *)
(* out, and the server's packets arrive in order, none during an exchange. *)
(***************************************************************************)
EXTENDS SessionPair, SeqLemmas

\* What sending leaves alone.
SameKex(s, t) ==
    /\ t.requirenext = s.requirenext /\ t.dataallowed = s.dataallowed
    /\ t.sentkexinit = s.sentkexinit /\ t.recvkexinit = s.recvkexinit
    /\ t.sentnewkeys = s.sentnewkeys /\ t.recvnewkeys = s.recvnewkeys
    /\ t.transkexinit = s.transkexinit /\ t.kexhashbuf = s.kexhashbuf
    /\ t.newkeys = s.newkeys
    /\ t.gen = s.gen /\ t.rkey = s.rkey /\ t.tkey = s.tkey

SameAuth(s, t) ==
    /\ t.username = s.username /\ t.authdone = s.authdone /\ t.failcount = s.failcount
    /\ t.authtypes = s.authtypes /\ t.banner = s.banner

\* What the key exchange leaves alone: the packets, and what is known of the user.
SamePackets(s, t) == t.sent = s.sent /\ t.queue = s.queue /\ t.made = s.made

Rest(s, t) == SamePackets(s, t) /\ SameAuth(s, t)

\* t is s after packets were sent or held back.
Talks(s, t) ==
    /\ t \in SesType /\ SameKex(s, t) /\ SameAuth(s, t) /\ SentEncrypted(t)
    /\ t.state = s.state /\ t.ignorenext = s.ignorenext

\* A packet may go out: it belongs to the key exchange, or there are keys.
MaySend(s, type) == type = "KEXINIT" \/ packet_is_okay_kex(type) \/ s.tkey > 0

-----------------------------------------------------------------------------
(* Sending. *)

\* A sent packet is added at the end of what was sent.
LEMMA AppendSent ==
    ASSUME NEW s \in SesType, NEW m \in Sent,
           SentEncrypted(s), m.n > 0 /\ m.type # "KEXINIT" => m.key > 0
    PROVE  /\ Append(s.sent, m) \in Seq(Sent)
           /\ \A i \in DOMAIN Append(s.sent, m) :
                 Append(s.sent, m)[i].n > 0 /\ Append(s.sent, m)[i].type # "KEXINIT"
                    => Append(s.sent, m)[i].key > 0
<1>1. s.sent \in Seq(Sent)
  BY DEF SesType
<1>2. Append(s.sent, m) \in Seq(Sent)
  BY <1>1
<1>3. ASSUME NEW i \in DOMAIN Append(s.sent, m)
      PROVE  Append(s.sent, m)[i].n > 0 /\ Append(s.sent, m)[i].type # "KEXINIT"
                => Append(s.sent, m)[i].key > 0
  <2>1. CASE i = Len(s.sent) + 1
    <3>1. Append(s.sent, m)[i] = m
      BY <1>1, <2>1
    <3> QED BY <3>1
  <2>2. CASE i # Len(s.sent) + 1
    <3>1. i \in 1..Len(s.sent)
      <4>1. DOMAIN Append(s.sent, m) = 1..(Len(s.sent) + 1)
        BY <1>1
      <4>2. Len(s.sent) \in Nat
        BY <1>1
      <4> QED BY <4>1, <4>2, <2>2
    <3>2. i \in DOMAIN s.sent /\ Append(s.sent, m)[i] = s.sent[i]
      BY <1>1, <3>1
    <3> QED BY <3>2 DEF SentEncrypted
  <2> QED BY <2>1, <2>2
<1> QED BY <1>2, <1>3

\* Sending changes three fields of the session structure.
LEMMA Updated ==
    ASSUME NEW s \in SesType, NEW made \in Nat, NEW queue \in Seq(Held),
           NEW sent \in Seq(Sent),
           NEW t, t = [s EXCEPT !.made = made, !.queue = queue, !.sent = sent],
           \A i \in DOMAIN sent : sent[i].n > 0 /\ sent[i].type # "KEXINIT" => sent[i].key > 0
    PROVE  Talks(s, t)
<1>1. t \in SesType
  BY DEF SesType
<1>2. SameKex(s, t)
  BY DEF SesType, SameKex
<1>3. SameAuth(s, t)
  BY DEF SesType, SameAuth
<1>4. t.state = s.state /\ t.ignorenext = s.ignorenext /\ t.sent = sent
  BY DEF SesType
<1> QED BY <1>1, <1>2, <1>3, <1>4 DEF Talks, SentEncrypted

\* encrypt_packet() touches nothing but what it sends or holds back.
LEMMA EncryptPacket ==
    ASSUME NEW s \in SesType, NEW type \in Reply, SentEncrypted(s), MaySend(s, type)
    PROVE  Talks(s, encrypt_packet(s, type))
<1> DEFINE n == IF packet_is_okay_kex(type) THEN 0 ELSE s.made + 1
           m == [type |-> type, n |-> n, key |-> s.tkey]
           h == [type |-> type, n |-> s.made + 1]
           made == s.made + 1
<1>1. s.made \in Nat /\ made \in Nat /\ s.tkey \in Nat /\ s.queue \in Seq(Held)
      /\ s.sent \in Seq(Sent)
  BY DEF SesType
<1>2. m \in Sent /\ h \in Held
  BY <1>1 DEF Sent, Held
<1>3. m.n > 0 /\ m.type # "KEXINIT" => m.key > 0
  BY DEF MaySend
<1>4. Append(s.queue, h) \in Seq(Held)
  BY <1>1, <1>2
<1>5. /\ Append(s.sent, m) \in Seq(Sent)
      /\ \A i \in DOMAIN Append(s.sent, m) :
            Append(s.sent, m)[i].n > 0 /\ Append(s.sent, m)[i].type # "KEXINIT"
               => Append(s.sent, m)[i].key > 0
  BY <1>2, <1>3, AppendSent
<1> HIDE DEF m, h, made
<1>6. CASE packet_is_okay_kex(type)
  <2>1. encrypt_packet(s, type) = [s EXCEPT !.made = s.made, !.queue = s.queue, !.sent = Append(s.sent, m)]
    BY <1>6 DEF encrypt_packet, SesType, m
  <2> QED BY <2>1, <1>1, <1>5, Updated
<1>7. CASE ~packet_is_okay_kex(type) /\ s.dataallowed
  <2>1. encrypt_packet(s, type) = [s EXCEPT !.made = made, !.queue = s.queue, !.sent = Append(s.sent, m)]
    BY <1>7 DEF encrypt_packet, SesType, m, made
  <2> QED BY <2>1, <1>1, <1>5, Updated
<1>8. CASE ~packet_is_okay_kex(type) /\ ~s.dataallowed
  <2>1. encrypt_packet(s, type) = [s EXCEPT !.made = made, !.queue = Append(s.queue, h), !.sent = s.sent]
    BY <1>8 DEF encrypt_packet, SesType, h, made
  <2> QED BY <2>1, <1>1, <1>4, Updated DEF SentEncrypted
<1> QED BY <1>6, <1>7, <1>8

\* maybe_flush_reply_queue(): while data is allowed there are keys.
LEMMA Flush ==
    ASSUME NEW s \in SesType, SentEncrypted(s), s.dataallowed => s.tkey > 0
    PROVE  Talks(s, maybe_flush_reply_queue(s))
<1> DEFINE q == [i \in DOMAIN s.queue |-> [type |-> s.queue[i].type, n |-> s.queue[i].n, key |-> s.tkey]]
<1>1. s.made \in Nat /\ s.tkey \in Nat /\ s.queue \in Seq(Held)
      /\ s.sent \in Seq(Sent)
  BY DEF SesType
<1>2. CASE s.dataallowed
  <2>1. \A i \in DOMAIN s.queue : s.queue[i] \in Held
    BY <1>1
  <2>2. q \in Seq(Sent) /\ DOMAIN q = 1..Len(q)
    <3>1. \A i \in DOMAIN s.queue : q[i] \in Sent
      BY <2>1, <1>1 DEF Held, Sent
    <3>2. DOMAIN s.queue = 1..Len(s.queue) /\ Len(s.queue) \in Nat
      BY <1>1
    <3>3. q \in [1..Len(s.queue) -> Sent]
      BY <3>1, <3>2
    <3> HIDE DEF q
    <3>4. q \in Seq(Sent)
      BY <3>2, <3>3
    <3>5. DOMAIN q = 1..Len(q)
      BY <3>4
    <3> QED BY <3>4, <3>5
  <2>3. \A i \in DOMAIN q : q[i].key > 0
    BY <1>2
  <2> HIDE DEF q
  <2>4. s.sent \o q \in Seq(Sent)
    BY <1>1, <2>2
  <2>5. ASSUME NEW i \in DOMAIN (s.sent \o q)
        PROVE  (s.sent \o q)[i].n > 0 /\ (s.sent \o q)[i].type # "KEXINIT" => (s.sent \o q)[i].key > 0
    <3>1. /\ Len(s.sent) \in Nat /\ Len(q) \in Nat
          /\ DOMAIN (s.sent \o q) = 1..(Len(s.sent) + Len(q)) /\ DOMAIN s.sent = 1..Len(s.sent)
      BY <1>1, <2>2
    <3>2. CASE i <= Len(s.sent)
      <4>1. i \in DOMAIN s.sent /\ (s.sent \o q)[i] = s.sent[i]
        BY <1>1, <2>2, <3>1, <3>2
      <4> QED BY <4>1 DEF SentEncrypted
    <3>3. CASE i > Len(s.sent)
      <4>1. i - Len(s.sent) \in DOMAIN q /\ (s.sent \o q)[i] = q[i - Len(s.sent)]
        BY <1>1, <2>2, <3>1, <3>3
      <4> QED BY <4>1, <2>3
    <3> QED BY <3>1, <3>2, <3>3
  <2>6. maybe_flush_reply_queue(s) = [s EXCEPT !.made = s.made, !.queue = <<>>, !.sent = s.sent \o q]
    BY <1>2 DEF maybe_flush_reply_queue, SesType, q
  <2>7. <<>> \in Seq(Held)
    OBVIOUS
  <2> QED BY <2>4, <2>5, <2>6, <2>7, <1>1, Updated
<1>3. CASE ~s.dataallowed
  BY <1>3 DEF maybe_flush_reply_queue, Talks, SameKex, SameAuth
<1> QED BY <1>2, <1>3

-----------------------------------------------------------------------------
(* The invariant of a session structure. *)

Inv(s) ==
    /\ s \in SesType
    /\ s.state = "run" => KexFlags(s) /\ KexNext(s)
    /\ s.state # "null pointer"
    /\ CredentialsEncrypted(s)
    /\ SentEncrypted(s)

\* Sending preserves it.
LEMMA TalksInv ==
    ASSUME NEW s, NEW t, Inv(s), Talks(s, t)
    PROVE  Inv(t)
<1>1. s.state = "run" => KexFlags(t) /\ KexNext(t)
  BY DEF Inv, Talks, SameKex, KexFlags, KexNext
<1>2. CredentialsEncrypted(t)
  BY DEF Inv, Talks, SameKex, SameAuth, CredentialsEncrypted
<1> QED BY <1>1, <1>2 DEF Inv, Talks

\* dropbear_exit() preserves it, unless it stands for a null pointer.
LEMMA ExitInv ==
    ASSUME NEW s \in SesType, CredentialsEncrypted(s), SentEncrypted(s),
           NEW why \in Ended, why # "null pointer"
    PROVE  Inv(exit(s, why))
<1>1. exit(s, why) \in SesType
  BY DEF exit, SesType
<1>2. exit(s, why).state = why /\ why # "run"
  BY DEF exit, SesType, Ended
<1>3. CredentialsEncrypted(exit(s, why)) /\ SentEncrypted(exit(s, why))
  BY DEF exit, SesType, CredentialsEncrypted, SentEncrypted
<1> QED BY <1>1, <1>2, <1>3 DEF Inv

\* Outside a key exchange there are keys in both directions.
LEMMA KeysInUse ==
    ASSUME NEW s, Inv(s), s.state = "run"
    PROVE  /\ s.dataallowed => s.tkey > 0
           /\ s.requirenext = None => s.rkey > 0 /\ s.tkey > 0
<1>1. /\ s.gen \in Nat /\ s.rkey \in Nat /\ s.tkey \in Nat
      /\ s.sentkexinit \in BOOLEAN /\ s.sentnewkeys \in BOOLEAN /\ s.dataallowed \in BOOLEAN
  BY DEF Inv, SesType
<1>2. s.dataallowed => s.gen > 0
  <2>1. /\ s.dataallowed => ~(s.sentkexinit /\ ~s.sentnewkeys)
        /\ s.gen = 0 => s.sentkexinit
        /\ s.sentnewkeys => s.gen = s.rkey + 1
    BY DEF Inv, KexFlags
  <2> QED BY <1>1, <2>1
<1>3. s.requirenext = None => s.gen > 0 /\ ~s.sentnewkeys
  BY <1>1, SessionAssumption DEF Inv, KexNext
<1> QED BY <1>1, <1>2, <1>3 DEF Inv, KexFlags

-----------------------------------------------------------------------------
(* Key exchange. *)

\* The invariant while a packet is handled: requirenext may be out of date.
Core(s) ==
    s \in SesType /\ s.state = "run" /\ KexFlags(s) /\ CredentialsEncrypted(s) /\ SentEncrypted(s)

LEMMA CoreInv ==
    ASSUME NEW s, Core(s), KexNext(s)
    PROVE  Inv(s)
BY DEF Core, Inv

\* No exchange has begun; the keys in use are those of the last one.
KexIdle(s) ==
    /\ s \in SesType /\ s.state = "run"
    /\ ~s.sentkexinit /\ ~s.recvkexinit /\ ~s.sentnewkeys /\ ~s.recvnewkeys /\ ~s.kexhashbuf
    /\ s.tkey = s.gen /\ s.gen = s.rkey
    /\ CredentialsEncrypted(s) /\ SentEncrypted(s)

\* newkeys as send_msg_kexinit() and read_kex_algos() allocate it.
LEMMA NewKeys ==
    /\ [NoKeys EXCEPT !.alloc = TRUE] = [alloc |-> TRUE, algo |-> FALSE, recv |-> FALSE, trans |-> FALSE]
    /\ [NoKeys EXCEPT !.alloc = TRUE, !.algo = TRUE]
          = [alloc |-> TRUE, algo |-> TRUE, recv |-> FALSE, trans |-> FALSE]
<1> DEFINE K == [alloc : BOOLEAN, algo : BOOLEAN, recv : BOOLEAN, trans : BOOLEAN]
           n == [NoKeys EXCEPT !.alloc = TRUE]
           a == [NoKeys EXCEPT !.alloc = TRUE, !.algo = TRUE]
<1>1. NoKeys \in K /\ NoKeys.algo = FALSE /\ NoKeys.recv = FALSE /\ NoKeys.trans = FALSE
  BY DEF NoKeys
<1>2. n \in K /\ n.alloc = TRUE /\ n.algo = FALSE /\ n.recv = FALSE /\ n.trans = FALSE
  BY <1>1
<1>3. a \in K /\ a.alloc = TRUE /\ a.algo = TRUE /\ a.recv = FALSE /\ a.trans = FALSE
  BY <1>1
<1> HIDE DEF n, a
<1>4. n = [alloc |-> TRUE, algo |-> FALSE, recv |-> FALSE, trans |-> FALSE]
  BY <1>2
<1>5. a = [alloc |-> TRUE, algo |-> TRUE, recv |-> FALSE, trans |-> FALSE]
  BY <1>3
<1> QED BY <1>4, <1>5 DEF n, a

\* send_msg_kexinit() begins an exchange.
LEMMA SendKexinit ==
    ASSUME NEW s, KexIdle(s)
    PROVE  LET t == send_msg_kexinit(s)
           IN  Core(t) /\ t.sentkexinit /\ ~t.recvkexinit /\ ~t.sentnewkeys
               /\ t.requirenext = s.requirenext /\ t.gen = s.gen
               /\ t.rkey = s.rkey /\ t.ignorenext = s.ignorenext
               /\ Rest(encrypt_packet(s, "KEXINIT"), t)
<1> DEFINE e == encrypt_packet(s, "KEXINIT")
           n == [NoKeys EXCEPT !.alloc = TRUE]
           t == [e EXCEPT !.transkexinit = TRUE, !.dataallowed = FALSE, !.sentkexinit = TRUE, !.newkeys = n]
<1>1. Talks(s, e)
  <2>1. s \in SesType /\ SentEncrypted(s) /\ MaySend(s, "KEXINIT") /\ "KEXINIT" \in Reply
    BY DEF KexIdle, MaySend, Reply
  <2> QED BY <2>1, EncryptPacket
<1>2. e \in SesType /\ SameKex(s, e) /\ SameAuth(s, e) /\ SentEncrypted(e) /\ e.state = "run"
      /\ e.ignorenext = s.ignorenext
  BY <1>1 DEF Talks, KexIdle
<1>3. send_msg_kexinit(s) = t
  BY DEF send_msg_kexinit
<1>4. n = [alloc |-> TRUE, algo |-> FALSE, recv |-> FALSE, trans |-> FALSE]
  BY NewKeys
<1> HIDE DEF e, n
<1>5. t \in SesType
  BY <1>2, <1>4 DEF SesType
<1>6. /\ t.state = e.state /\ t.requirenext = e.requirenext /\ ~t.dataallowed /\ t.sentkexinit
      /\ t.recvkexinit = e.recvkexinit /\ t.sentnewkeys = e.sentnewkeys
      /\ t.recvnewkeys = e.recvnewkeys /\ t.transkexinit /\ t.kexhashbuf = e.kexhashbuf
      /\ t.newkeys = n /\ t.gen = e.gen /\ t.rkey = e.rkey /\ t.tkey = e.tkey
      /\ t.username = e.username /\ t.authdone = e.authdone /\ t.failcount = e.failcount
      /\ t.sent = e.sent
  BY <1>2 DEF SesType
<1>11. Rest(e, t) /\ t.ignorenext = e.ignorenext
  BY <1>2 DEF SesType, Rest, SamePackets, SameAuth
<1> HIDE DEF t
<1>7. /\ s.recvkexinit = FALSE /\ s.sentnewkeys = FALSE /\ s.recvnewkeys = FALSE /\ s.kexhashbuf = FALSE
  BY DEF KexIdle, SesType
<1>8. t.dataallowed = FALSE /\ t.sentkexinit = TRUE /\ t.transkexinit = TRUE
  BY <1>5, <1>6 DEF SesType
<1>9. KexFlags(t)
  BY <1>2, <1>4, <1>6, <1>7, <1>8 DEF KexIdle, SameKex, KexFlags
<1>10. CredentialsEncrypted(t) /\ SentEncrypted(t)
  BY <1>2, <1>6 DEF KexIdle, SameKex, SameAuth, CredentialsEncrypted, SentEncrypted
<1> QED BY <1>2, <1>3, <1>5, <1>6, <1>7, <1>9, <1>10, <1>11 DEF SameKex, Core, e

\* recv_msg_kexinit() from a state that waits for no later packet of an exchange.
LEMMA RecvKexinit ==
    ASSUME NEW s, NEW p, Core(s), ~s.recvkexinit, ~s.sentnewkeys
    PROVE  LET o == IF s.sentkexinit THEN s ELSE send_msg_kexinit(s)
               t == recv_msg_kexinit(s, p)
           IN  /\ Inv(t)
               /\ p.match => /\ t.state = "run" /\ t.gen = s.gen /\ t.rkey = s.rkey
                             /\ t.sentkexinit /\ t.recvkexinit /\ ~t.sentnewkeys
                             /\ t.ignorenext = (s.ignorenext \/ p.guess = "wrong")
                             /\ Rest(o, t)
<1> DEFINE o == IF s.sentkexinit THEN s ELSE send_msg_kexinit(s)
           n == [NoKeys EXCEPT !.alloc = TRUE, !.algo = TRUE]
           k == IF o.transkexinit THEN read_kex_algos(o, p) ELSE exit(o, "null pointer")
           ign == o.ignorenext \/ p.guess = "wrong"
           t == [o EXCEPT !.newkeys = n, !.ignorenext = ign, !.kexhashbuf = TRUE,
                          !.requirenext = "KEXDH_INIT", !.transkexinit = FALSE, !.recvkexinit = TRUE]
<1>1. /\ Core(o) /\ o.sentkexinit /\ ~o.recvkexinit /\ ~o.sentnewkeys
      /\ o.gen = s.gen /\ o.rkey = s.rkey /\ o.ignorenext = s.ignorenext
  <2>1. CASE s.sentkexinit
    BY <2>1
  <2>2. CASE ~s.sentkexinit
    <3>1. KexIdle(s)
      BY <2>2 DEF KexIdle, Core, KexFlags, SesType
    <3> QED BY <2>2, <3>1, SendKexinit
  <2> QED BY <2>1, <2>2
<1> HIDE DEF o
<1>2. /\ o \in SesType /\ o.sentkexinit = TRUE /\ o.recvkexinit = FALSE /\ o.sentnewkeys = FALSE
      /\ o.recvnewkeys = FALSE /\ o.dataallowed = FALSE /\ o.state = "run"
  BY <1>1 DEF Core, KexFlags, SesType
<1>3. o.transkexinit /\ o.newkeys.alloc
  <2>1. o.transkexinit = (o.sentkexinit /\ ~o.recvkexinit)
    BY <1>1 DEF Core, KexFlags
  <2>2. o.newkeys.alloc = o.sentkexinit
    BY <1>1 DEF Core, KexFlags
  <2> QED BY <1>1, <2>1, <2>2
<1>4. n = [alloc |-> TRUE, algo |-> TRUE, recv |-> FALSE, trans |-> FALSE]
  BY NewKeys
<1>5. CASE ~p.match
  <2>1. k = exit(o, "no matching algo")
    BY <1>3, <1>5 DEF read_kex_algos
  <2>2. Inv(exit(o, "no matching algo"))
    <3>1. "no matching algo" \in Ended
      BY DEF Ended
    <3> QED BY <1>1, <3>1, ExitInv DEF Core
  <2>3. k.state # "run"
    BY <2>1, <1>2 DEF exit, SesType
  <2> QED BY <1>5, <2>1, <2>2, <2>3 DEF recv_msg_kexinit, o
<1>6. CASE p.match
  <2> HIDE DEF n
  <2>1. ign \in BOOLEAN
    BY <1>2
  <2>11. ign = (s.ignorenext \/ p.guess = "wrong")
    BY <1>1
  <2> HIDE DEF ign
  <2>2. k = [o EXCEPT !.newkeys = n, !.ignorenext = ign]
    BY <1>3, <1>6 DEF read_kex_algos, n, ign
  <2>3. k.state = "run"
    BY <2>2, <1>2 DEF SesType
  <2>4. recv_msg_kexinit(s, p) = t
    <3>1. recv_msg_kexinit(s, p) = [k EXCEPT !.kexhashbuf = TRUE, !.requirenext = "KEXDH_INIT",
                                            !.transkexinit = FALSE, !.recvkexinit = TRUE]
      BY <2>3 DEF recv_msg_kexinit, o
    <3> HIDE DEF k
    <3> QED BY <3>1, <2>2, <1>2 DEF SesType
  <2>5. t \in SesType
    <3>1. n \in [alloc : BOOLEAN, algo : BOOLEAN, recv : BOOLEAN, trans : BOOLEAN]
      BY <1>4
    <3> QED BY <1>2, <2>1, <3>1 DEF SesType
  <2>6. /\ t.state = "run" /\ t.requirenext = "KEXDH_INIT" /\ t.dataallowed = FALSE
        /\ t.sentkexinit = TRUE /\ t.recvkexinit = TRUE /\ t.sentnewkeys = FALSE
        /\ t.recvnewkeys = FALSE /\ t.transkexinit = FALSE /\ t.kexhashbuf = TRUE
        /\ t.newkeys = n /\ t.gen = o.gen /\ t.rkey = o.rkey /\ t.tkey = o.tkey
        /\ t.username = o.username /\ t.authdone = o.authdone /\ t.failcount = o.failcount
        /\ t.sent = o.sent
    BY <1>2 DEF SesType
  <2>9. Rest(o, t) /\ t.ignorenext = ign
    BY <1>2, <2>1 DEF SesType, Rest, SamePackets, SameAuth
  <2> HIDE DEF t
  <2>7. KexFlags(t) /\ KexNext(t)
    BY <1>1, <1>2, <1>4, <2>6 DEF Core, KexFlags, KexNext
  <2>8. CredentialsEncrypted(t) /\ SentEncrypted(t)
    BY <1>1, <2>6 DEF Core, CredentialsEncrypted, SentEncrypted
  <2>10. Inv(t)
    BY <2>5, <2>6, <2>7, <2>8 DEF Inv
  <2> QED BY <1>1, <2>4, <2>6, <2>9, <2>10, <2>11 DEF o
<1> QED BY <1>5, <1>6

Keys == [alloc : BOOLEAN, algo : BOOLEAN, recv : BOOLEAN, trans : BOOLEAN]

\* send_msg_newkeys() with gen_new_keys() and switch_keys(): from now on the
\* server sends with the new keys, and keeps them for what it will receive.
LEMMA SendNewkeys ==
    ASSUME NEW s, s \in SesType, SentEncrypted(s), s.sentkexinit = TRUE, s.recvkexinit = TRUE,
           s.recvnewkeys = FALSE, s.newkeys = [alloc |-> TRUE, algo |-> TRUE, recv |-> FALSE, trans |-> FALSE]
    PROVE  LET t == send_msg_newkeys(s)
           IN  /\ t \in SesType /\ t.state = s.state /\ SentEncrypted(t) /\ SameAuth(s, t)
               /\ t.sentkexinit = TRUE /\ t.recvkexinit = TRUE /\ t.sentnewkeys = TRUE
               /\ t.recvnewkeys = FALSE /\ t.dataallowed = TRUE
               /\ t.transkexinit = s.transkexinit /\ t.kexhashbuf = s.kexhashbuf
               /\ t.newkeys = [alloc |-> TRUE, algo |-> TRUE, recv |-> TRUE, trans |-> FALSE]
               /\ t.gen = s.gen + 1 /\ t.rkey = s.rkey /\ t.tkey = s.gen + 1
               /\ t.ignorenext = s.ignorenext /\ SamePackets(encrypt_packet(s, "NEWKEYS"), t)
<1> DEFINE e == encrypt_packet(s, "NEWKEYS")
           a == [e EXCEPT !.sentnewkeys = TRUE, !.dataallowed = TRUE]
           g == gen_new_keys(a)
           t == [g EXCEPT !.tkey = g.gen, !.newkeys.trans = FALSE]
<1>1. e \in SesType /\ SameKex(s, e) /\ SameAuth(s, e) /\ SentEncrypted(e) /\ e.state = s.state
      /\ e.ignorenext = s.ignorenext
  <2>1. MaySend(s, "NEWKEYS") /\ "NEWKEYS" \in Reply
    BY DEF MaySend, packet_is_okay_kex, Reply
  <2> QED BY <2>1, EncryptPacket DEF Talks
<1> HIDE DEF e
<1>2. /\ a \in SesType /\ a.sentnewkeys = TRUE /\ a.dataallowed = TRUE
      /\ a.sentkexinit = e.sentkexinit /\ a.recvkexinit = e.recvkexinit /\ a.recvnewkeys = e.recvnewkeys
      /\ a.transkexinit = e.transkexinit /\ a.kexhashbuf = e.kexhashbuf /\ a.newkeys = e.newkeys
      /\ a.gen = e.gen /\ a.rkey = e.rkey /\ a.tkey = e.tkey
      /\ a.state = e.state /\ a.sent = e.sent
  BY <1>1 DEF SesType
<1>3. SameAuth(e, a) /\ SamePackets(e, a) /\ a.ignorenext = e.ignorenext
  BY <1>1 DEF SesType, SameAuth, SamePackets
<1> HIDE DEF a
<1>4. a.newkeys \in Keys /\ a.newkeys.alloc = TRUE /\ a.newkeys.algo = TRUE /\ a.newkeys.recv = FALSE
      /\ a.newkeys.trans = FALSE /\ a.gen \in Nat
  BY <1>1, <1>2 DEF SameKex, SesType, Keys
<1>5. /\ g \in SesType /\ g.sentnewkeys = a.sentnewkeys /\ g.dataallowed = a.dataallowed
      /\ g.sentkexinit = a.sentkexinit /\ g.recvkexinit = a.recvkexinit /\ g.recvnewkeys = a.recvnewkeys
      /\ g.transkexinit = a.transkexinit /\ g.kexhashbuf = a.kexhashbuf
      /\ g.gen = a.gen + 1 /\ g.rkey = a.rkey /\ g.tkey = a.tkey
      /\ g.state = a.state /\ g.sent = a.sent
  <2> DEFINE gen == a.gen + 1
             keys == [a.newkeys EXCEPT !.recv = TRUE, !.trans = TRUE]
  <2>1. g = [a EXCEPT !.gen = gen, !.newkeys = keys]
    BY <1>2 DEF gen_new_keys, SesType
  <2>2. gen \in Nat /\ keys \in Keys
    <3>1. gen \in Nat
      BY <1>4
    <3>2. keys \in Keys
      BY <1>4 DEF Keys
    <3> QED BY <3>1, <3>2
  <2> HIDE DEF gen, keys, g
  <2>3. g \in SesType
    BY <1>2, <2>1, <2>2 DEF SesType, Keys
  <2>4. g.gen = gen
    BY <1>2, <2>1 DEF SesType
  <2>5. /\ g.sentnewkeys = a.sentnewkeys /\ g.dataallowed = a.dataallowed
        /\ g.sentkexinit = a.sentkexinit /\ g.recvkexinit = a.recvkexinit /\ g.recvnewkeys = a.recvnewkeys
        /\ g.transkexinit = a.transkexinit /\ g.kexhashbuf = a.kexhashbuf
        /\ g.rkey = a.rkey /\ g.tkey = a.tkey
        /\ g.state = a.state /\ g.sent = a.sent
    BY <1>2, <2>1 DEF SesType
  <2> QED BY <2>3, <2>4, <2>5 DEF gen
<1>6. /\ g.newkeys \in Keys /\ g.newkeys.alloc = TRUE /\ g.newkeys.algo = TRUE /\ g.newkeys.recv = TRUE
      /\ g.newkeys.trans = TRUE
  BY <1>2, <1>4 DEF SesType, gen_new_keys, Keys
<1>7. SameAuth(a, g) /\ SamePackets(a, g) /\ g.ignorenext = a.ignorenext
  BY <1>2 DEF SesType, SameAuth, SamePackets, gen_new_keys
<1>8. send_msg_newkeys(s) = switch_keys(g)
  BY DEF send_msg_newkeys, a, e
<1> HIDE DEF g
<1>9. /\ t \in SesType /\ t.sentnewkeys = g.sentnewkeys /\ t.dataallowed = g.dataallowed
      /\ t.sentkexinit = g.sentkexinit /\ t.recvkexinit = g.recvkexinit /\ t.recvnewkeys = g.recvnewkeys
      /\ t.transkexinit = g.transkexinit /\ t.kexhashbuf = g.kexhashbuf
      /\ t.gen = g.gen /\ t.rkey = g.rkey /\ t.tkey = g.gen
      /\ t.state = g.state /\ t.sent = g.sent
  BY <1>5, <1>6 DEF SesType, Keys
<1>10. /\ t.newkeys \in Keys /\ t.newkeys.alloc = TRUE /\ t.newkeys.algo = TRUE /\ t.newkeys.recv = TRUE
       /\ t.newkeys.trans = FALSE
  BY <1>5, <1>6 DEF SesType, Keys
<1>11. SameAuth(g, t) /\ SamePackets(g, t) /\ t.ignorenext = g.ignorenext
  BY <1>5 DEF SesType, SameAuth, SamePackets
<1>12. g.sentkexinit = TRUE /\ g.recvkexinit = TRUE /\ g.recvnewkeys = FALSE /\ g.sentnewkeys = TRUE
  BY <1>1, <1>2, <1>5 DEF SameKex
<1>13. switch_keys(g) = t
  <2>1. t.recvnewkeys = FALSE
    BY <1>9, <1>12
  <2> QED BY <1>6, <1>12, <2>1 DEF switch_keys
<1> HIDE DEF t
<1>14. t.newkeys = [alloc |-> TRUE, algo |-> TRUE, recv |-> TRUE, trans |-> FALSE]
  BY <1>10 DEF Keys
<1>15. SentEncrypted(t) /\ SameAuth(s, t)
  BY <1>1, <1>2, <1>3, <1>5, <1>7, <1>9, <1>11 DEF SentEncrypted, SameAuth
<1>16. /\ t.sentkexinit = TRUE /\ t.recvkexinit = TRUE /\ t.sentnewkeys = TRUE /\ t.recvnewkeys = FALSE
       /\ t.dataallowed = TRUE /\ t.transkexinit = s.transkexinit /\ t.kexhashbuf = s.kexhashbuf
       /\ t.gen = s.gen + 1 /\ t.rkey = s.rkey /\ t.tkey = s.gen + 1 /\ t.state = s.state
  BY <1>1, <1>2, <1>5, <1>9, <1>12 DEF SameKex
<1>17. SamePackets(e, t) /\ t.ignorenext = s.ignorenext
  BY <1>1, <1>3, <1>7, <1>11 DEF SamePackets
<1> QED BY <1>8, <1>9, <1>13, <1>14, <1>15, <1>16, <1>17 DEF e

\* recv_msg_kexdh_init() from a state that waits for no NEWKEYS.
LEMMA RecvKexdhInit ==
    ASSUME NEW s, NEW p, Core(s), ~s.sentnewkeys
    PROVE  LET h == [encrypt_packet(s, "KEXDH_REPLY") EXCEPT !.kexhashbuf = FALSE]
               t == recv_msg_kexdh_init(s, p)
           IN  /\ Inv(t)
               /\ s.recvkexinit /\ p.valid
                     => /\ t.state = "run" /\ t.gen = s.gen + 1 /\ t.rkey = s.rkey
                        /\ t.sentkexinit /\ t.recvkexinit /\ t.sentnewkeys
                        /\ t.ignorenext = s.ignorenext /\ SameAuth(s, t)
                        /\ Talks(s, encrypt_packet(s, "KEXDH_REPLY")) /\ h \in SesType
                        /\ SamePackets(encrypt_packet(s, "KEXDH_REPLY"), h) /\ h.tkey = s.gen
                        /\ SamePackets(encrypt_packet(h, "NEWKEYS"), t)
<1>1. s \in SesType /\ CredentialsEncrypted(s) /\ SentEncrypted(s) /\ s.state = "run"
  BY DEF Core
<1>2. CASE ~s.recvkexinit
  <2>1. "premature kexdh_init" \in Ended
    BY DEF Ended
  <2> QED BY <1>1, <1>2, <2>1, ExitInv DEF recv_msg_kexdh_init
<1>3. CASE s.recvkexinit
  <2>1. /\ s.sentkexinit = TRUE /\ s.recvkexinit = TRUE /\ s.sentnewkeys = FALSE /\ s.recvnewkeys = FALSE
        /\ s.transkexinit = FALSE /\ s.kexhashbuf = TRUE
        /\ s.newkeys = [alloc |-> TRUE, algo |-> TRUE, recv |-> FALSE, trans |-> FALSE]
        /\ s.gen = s.rkey /\ s.tkey = s.gen
    <3>1. s.sentkexinit = TRUE /\ s.recvkexinit = TRUE /\ s.sentnewkeys = FALSE /\ s.recvnewkeys = FALSE
      BY <1>3 DEF Core, KexFlags, SesType
    <3> QED BY <3>1 DEF Core, KexFlags
  <2>2. s.newkeys.algo /\ s.kexhashbuf
    BY <2>1
  <2>3. CASE ~p.valid
    <3>1. "bad kex value" \in Ended
      BY DEF Ended
    <3> QED BY <1>1, <1>3, <2>2, <2>3, <3>1, ExitInv DEF recv_msg_kexdh_init
  <2>4. CASE p.valid
    <3> DEFINE e == encrypt_packet(s, "KEXDH_REPLY")
               h == [e EXCEPT !.kexhashbuf = FALSE]
               n == send_msg_newkeys(h)
               t == [n EXCEPT !.requirenext = "NEWKEYS"]
    <3>1. recv_msg_kexdh_init(s, p) = t
      BY <1>3, <2>2, <2>4 DEF recv_msg_kexdh_init
    <3>2. e \in SesType /\ SameKex(s, e) /\ SameAuth(s, e) /\ SentEncrypted(e) /\ e.state = s.state
          /\ e.ignorenext = s.ignorenext /\ Talks(s, e)
      <4>1. MaySend(s, "KEXDH_REPLY") /\ "KEXDH_REPLY" \in Reply
        BY DEF MaySend, packet_is_okay_kex, Reply
      <4> QED BY <1>1, <4>1, EncryptPacket DEF Talks
    <3> HIDE DEF e
    <3>3. /\ h \in SesType /\ h.kexhashbuf = FALSE /\ h.sentkexinit = e.sentkexinit
          /\ h.recvkexinit = e.recvkexinit /\ h.recvnewkeys = e.recvnewkeys /\ h.newkeys = e.newkeys
          /\ h.transkexinit = e.transkexinit /\ h.gen = e.gen /\ h.rkey = e.rkey
          /\ h.state = e.state /\ h.sent = e.sent /\ h.tkey = e.tkey /\ h.ignorenext = e.ignorenext
      BY <3>2 DEF SesType
    <3>4. SameAuth(e, h) /\ SamePackets(e, h)
      BY <3>2 DEF SesType, SameAuth, SamePackets
    <3> HIDE DEF h
    <3>5. /\ h.sentkexinit = TRUE /\ h.recvkexinit = TRUE /\ h.recvnewkeys = FALSE
          /\ h.newkeys = [alloc |-> TRUE, algo |-> TRUE, recv |-> FALSE, trans |-> FALSE]
          /\ h.transkexinit = FALSE /\ h.gen = s.gen /\ h.rkey = s.rkey /\ h.state = "run"
      BY <1>1, <2>1, <3>2, <3>3 DEF SameKex
    <3>6. SentEncrypted(h)
      BY <3>2, <3>3 DEF SentEncrypted
    <3>7. /\ n \in SesType /\ n.state = h.state /\ SentEncrypted(n) /\ SameAuth(h, n)
          /\ n.sentkexinit = TRUE /\ n.recvkexinit = TRUE /\ n.sentnewkeys = TRUE
          /\ n.recvnewkeys = FALSE /\ n.dataallowed = TRUE
          /\ n.transkexinit = h.transkexinit /\ n.kexhashbuf = h.kexhashbuf
          /\ n.newkeys = [alloc |-> TRUE, algo |-> TRUE, recv |-> TRUE, trans |-> FALSE]
          /\ n.gen = h.gen + 1 /\ n.rkey = h.rkey /\ n.tkey = h.gen + 1
          /\ n.ignorenext = h.ignorenext /\ SamePackets(encrypt_packet(h, "NEWKEYS"), n)
      BY <3>3, <3>5, <3>6, SendNewkeys
    <3> HIDE DEF n
    <3>8. /\ t \in SesType /\ t.requirenext = "NEWKEYS" /\ t.state = n.state /\ t.sent = n.sent
          /\ t.sentkexinit = n.sentkexinit /\ t.recvkexinit = n.recvkexinit
          /\ t.sentnewkeys = n.sentnewkeys /\ t.recvnewkeys = n.recvnewkeys
          /\ t.dataallowed = n.dataallowed /\ t.transkexinit = n.transkexinit
          /\ t.kexhashbuf = n.kexhashbuf /\ t.newkeys = n.newkeys
          /\ t.gen = n.gen /\ t.rkey = n.rkey /\ t.tkey = n.tkey
          /\ t.username = n.username /\ t.authdone = n.authdone /\ t.failcount = n.failcount
      BY <3>7 DEF SesType
    <3>15. SameAuth(n, t) /\ SamePackets(n, t) /\ t.ignorenext = n.ignorenext
      BY <3>7 DEF SesType, SameAuth, SamePackets
    <3> HIDE DEF t
    <3>9. /\ t.sentkexinit = TRUE /\ t.recvkexinit = TRUE /\ t.sentnewkeys = TRUE /\ t.recvnewkeys = FALSE
          /\ t.dataallowed = TRUE /\ t.transkexinit = FALSE /\ t.kexhashbuf = FALSE /\ t.state = "run"
          /\ t.newkeys = [alloc |-> TRUE, algo |-> TRUE, recv |-> TRUE, trans |-> FALSE]
          /\ t.gen = s.gen + 1 /\ t.rkey = s.rkey /\ t.tkey = s.gen + 1
      BY <3>3, <3>5, <3>7, <3>8
    <3>10. s.gen \in Nat /\ s.rkey \in Nat /\ s.tkey \in Nat
      BY <1>1 DEF SesType
    <3>11. KexFlags(t) /\ KexNext(t)
      BY <2>1, <3>8, <3>9, <3>10 DEF KexFlags, KexNext
    <3>12. t.username = s.username /\ t.authdone = s.authdone /\ t.failcount = s.failcount
      BY <3>2, <3>4, <3>7, <3>8 DEF SameAuth
    <3>13. CredentialsEncrypted(t)
      BY <1>1, <2>1, <3>9, <3>10, <3>12 DEF CredentialsEncrypted
    <3>14. SentEncrypted(t)
      BY <3>7, <3>8 DEF SentEncrypted
    <3>16. Inv(t)
      BY <3>8, <3>9, <3>11, <3>13, <3>14 DEF Inv
    <3>17. /\ SameAuth(s, t) /\ t.ignorenext = s.ignorenext /\ h.tkey = s.gen
           /\ SamePackets(encrypt_packet(h, "NEWKEYS"), t)
      BY <2>1, <3>2, <3>3, <3>4, <3>7, <3>15 DEF SameAuth, SameKex, SamePackets
    <3> QED BY <3>1, <3>2, <3>3, <3>4, <3>9, <3>16, <3>17 DEF e, h
  <2> QED BY <2>3, <2>4
<1> QED BY <1>2, <1>3

\* recv_msg_newkeys() from a state that waits for no KEXDH_INIT: it ends the
\* exchange, or the session.
LEMMA RecvNewkeys ==
    ASSUME NEW s, Core(s), s.requirenext = None, s.recvkexinit => s.sentnewkeys
    PROVE  LET t == recv_msg_newkeys(s)
           IN  /\ Inv(t)
               /\ s.recvkexinit => /\ t.state = "run" /\ t.gen = s.gen /\ t.rkey = s.gen
                                   /\ ~t.sentkexinit /\ ~t.recvkexinit /\ ~t.sentnewkeys
                                   /\ t.ignorenext = s.ignorenext /\ Rest(s, t)
<1> DEFINE a == [s EXCEPT !.recvnewkeys = TRUE]
           b == [a EXCEPT !.rkey = a.gen, !.newkeys.recv = FALSE]
           c == [b EXCEPT !.newkeys = NoKeys]
           t == kexinitialise(c)
<1>1. s \in SesType /\ CredentialsEncrypted(s) /\ SentEncrypted(s) /\ s.state = "run"
  BY DEF Core
<1>2. /\ a \in SesType /\ a.recvnewkeys = TRUE /\ a.sentkexinit = s.sentkexinit
      /\ a.recvkexinit = s.recvkexinit /\ a.sentnewkeys = s.sentnewkeys /\ a.newkeys = s.newkeys
      /\ a.dataallowed = s.dataallowed /\ a.requirenext = s.requirenext
      /\ a.transkexinit = s.transkexinit /\ a.kexhashbuf = s.kexhashbuf
      /\ a.gen = s.gen /\ a.rkey = s.rkey /\ a.tkey = s.tkey /\ a.state = s.state
      /\ a.username = s.username /\ a.authdone = s.authdone /\ a.failcount = s.failcount
      /\ a.sent = s.sent
  BY <1>1 DEF SesType
<1>6. Rest(s, a) /\ a.ignorenext = s.ignorenext
  BY <1>1 DEF SesType, Rest, SamePackets, SameAuth
<1>3. recv_msg_newkeys(s) = switch_keys(a)
  BY DEF recv_msg_newkeys
<1> HIDE DEF a
<1>4. CASE ~(s.sentkexinit /\ s.recvkexinit)
  <2>1. switch_keys(a) = exit(a, "newkeys")
    BY <1>2, <1>4 DEF switch_keys
  <2>2. CredentialsEncrypted(a) /\ SentEncrypted(a)
    BY <1>1, <1>2 DEF CredentialsEncrypted, SentEncrypted
  <2>3. "newkeys" \in Ended
    BY DEF Ended
  <2>4. ~s.recvkexinit
    BY <1>1, <1>4 DEF Core, KexFlags
  <2> QED BY <1>2, <1>3, <2>1, <2>2, <2>3, <2>4, ExitInv
<1>5. CASE s.sentkexinit /\ s.recvkexinit
  <2>1. s.sentkexinit = TRUE /\ s.recvkexinit = TRUE /\ s.sentnewkeys = TRUE
    BY <1>1, <1>5 DEF SesType
  <2>2. /\ s.transkexinit = FALSE /\ s.kexhashbuf = FALSE /\ s.dataallowed = TRUE
        /\ s.newkeys = [alloc |-> TRUE, algo |-> TRUE, recv |-> TRUE, trans |-> FALSE]
        /\ s.gen = s.rkey + 1 /\ s.tkey = s.gen
    BY <2>1 DEF Core, KexFlags
  <2>3. s.gen \in Nat /\ s.rkey \in Nat /\ s.gen > 0 /\ a.gen \in Nat
    BY <1>1, <1>2, <2>2 DEF SesType
  <2>4. a.newkeys \in Keys /\ a.newkeys.recv = TRUE /\ a.newkeys.trans = FALSE
    BY <1>2, <2>2 DEF Keys
  <2>5. /\ b \in SesType /\ b.recvnewkeys = a.recvnewkeys /\ b.sentkexinit = a.sentkexinit
        /\ b.recvkexinit = a.recvkexinit /\ b.sentnewkeys = a.sentnewkeys
        /\ b.dataallowed = a.dataallowed /\ b.requirenext = a.requirenext
        /\ b.transkexinit = a.transkexinit /\ b.kexhashbuf = a.kexhashbuf
        /\ b.gen = a.gen /\ b.rkey = a.gen /\ b.tkey = a.tkey /\ b.state = a.state
        /\ b.username = a.username /\ b.authdone = a.authdone /\ b.failcount = a.failcount
        /\ b.sent = a.sent
    BY <1>2, <2>3, <2>4 DEF SesType, Keys
  <2>15. Rest(a, b) /\ b.ignorenext = a.ignorenext
    BY <1>2 DEF SesType, Rest, SamePackets, SameAuth
  <2>6. b.newkeys.trans = FALSE
    BY <1>2, <2>3, <2>4 DEF SesType, Keys
  <2>7. switch_keys(a) = t
    <3>1. a.sentkexinit /\ a.recvkexinit /\ a.recvnewkeys /\ a.newkeys.recv
      BY <1>2, <2>1, <2>4
    <3>2. b.sentnewkeys /\ b.recvnewkeys /\ ~b.newkeys.trans
      BY <1>2, <2>1, <2>5, <2>6
    <3> QED BY <3>1, <3>2 DEF switch_keys
  <2> HIDE DEF b
  <2>8. NoKeys \in Keys /\ NoKeys = [alloc |-> FALSE, algo |-> FALSE, recv |-> FALSE, trans |-> FALSE]
    BY DEF NoKeys, Keys
  <2>9. t \in SesType
    <3>1. c \in SesType
      BY <2>5, <2>8 DEF SesType, Keys
    <3> HIDE DEF c
    <3>2. [c EXCEPT !.sentkexinit = FALSE, !.recvkexinit = FALSE] \in SesType
      BY <3>1 DEF SesType
    <3> DEFINE d == [c EXCEPT !.sentkexinit = FALSE, !.recvkexinit = FALSE]
    <3>3. t = [d EXCEPT !.sentnewkeys = FALSE, !.recvnewkeys = FALSE]
      BY <3>1 DEF kexinitialise, SesType
    <3> HIDE DEF d
    <3>4. [d EXCEPT !.sentnewkeys = FALSE, !.recvnewkeys = FALSE] \in SesType
      BY <3>2 DEF SesType, d
    <3> QED BY <3>3, <3>4
  <2>10. /\ t.sentkexinit = FALSE /\ t.recvkexinit = FALSE /\ t.sentnewkeys = FALSE /\ t.recvnewkeys = FALSE
         /\ t.newkeys = NoKeys /\ t.dataallowed = b.dataallowed /\ t.requirenext = b.requirenext
         /\ t.transkexinit = b.transkexinit /\ t.kexhashbuf = b.kexhashbuf
         /\ t.gen = b.gen /\ t.rkey = b.rkey /\ t.tkey = b.tkey /\ t.state = b.state
         /\ t.username = b.username /\ t.authdone = b.authdone /\ t.failcount = b.failcount
         /\ t.sent = b.sent
    BY <2>5 DEF SesType, kexinitialise
  <2>16. Rest(b, t) /\ t.ignorenext = b.ignorenext
    BY <2>5 DEF SesType, kexinitialise, Rest, SamePackets, SameAuth
  <2> HIDE DEF t
  <2>11. /\ t.dataallowed = TRUE /\ t.transkexinit = FALSE /\ t.kexhashbuf = FALSE
         /\ t.gen = s.gen /\ t.rkey = s.gen /\ t.tkey = s.gen /\ t.requirenext = None
         /\ t.newkeys = [alloc |-> FALSE, algo |-> FALSE, recv |-> FALSE, trans |-> FALSE]
    BY <1>2, <2>2, <2>5, <2>8, <2>10
  <2>12. KexFlags(t) /\ KexNext(t)
    <3>1. t.gen # 0
      BY <2>3, <2>11
    <3>2. KexFlags(t)
      BY <3>1, <2>10, <2>11 DEF KexFlags
    <3>3. KexNext(t)
      BY <3>1, <2>10, <2>11 DEF KexNext
    <3> QED BY <3>2, <3>3
  <2>13. CredentialsEncrypted(t)
    BY <2>3, <2>11 DEF CredentialsEncrypted
  <2>14. SentEncrypted(t) /\ t.state = "run"
    BY <1>1, <1>2, <2>5, <2>10 DEF SentEncrypted
  <2>17. Inv(t)
    BY <2>9, <2>12, <2>13, <2>14 DEF Inv
  <2>18. Rest(s, t) /\ t.ignorenext = s.ignorenext
    BY <1>6, <2>15, <2>16 DEF Rest, SamePackets, SameAuth
  <2> QED BY <1>3, <2>7, <2>10, <2>11, <2>14, <2>17, <2>18
<1> QED BY <1>4, <1>5

-----------------------------------------------------------------------------
(* Services and authentication: only outside a key exchange, with keys in use. *)

Ready(s) == Inv(s) /\ s.state = "run" /\ s.rkey > 0 /\ s.tkey > 0

LEMMA ReadySend ==
    ASSUME NEW s, Ready(s), NEW type \in Reply
    PROVE  Ready(encrypt_packet(s, type))
<1> DEFINE t == encrypt_packet(s, type)
<1>1. Talks(s, t)
  BY EncryptPacket DEF Ready, Inv, MaySend
<1> HIDE DEF t
<1>2. Inv(t)
  BY <1>1, TalksInv DEF Ready
<1>3. t.state = "run" /\ t.rkey > 0 /\ t.tkey > 0
  BY <1>1 DEF Ready, Talks, SameKex
<1> QED BY <1>2, <1>3 DEF Ready, t

LEMMA ReadyExit ==
    ASSUME NEW s, Ready(s), NEW why \in Ended, why # "null pointer"
    PROVE  Inv(exit(s, why))
BY ExitInv DEF Ready, Inv

\* With keys in use, what is known of the user may change.
LEMMA ReadyAuth ==
    ASSUME NEW s, Ready(s), NEW t \in SesType, SameKex(s, t), t.sent = s.sent, t.state = s.state
    PROVE  Ready(t)
<1>1. KexFlags(t) /\ KexNext(t)
  BY DEF Ready, Inv, SameKex, KexFlags, KexNext
<1>2. t.rkey > 0 /\ t.tkey > 0 /\ t.state = "run"
  BY DEF Ready, SameKex
<1>3. CredentialsEncrypted(t)
  BY <1>2 DEF CredentialsEncrypted
<1>4. SentEncrypted(t)
  BY DEF Ready, Inv, SentEncrypted
<1> QED BY <1>1, <1>2, <1>3, <1>4 DEF Ready, Inv

LEMMA AuthFailure ==
    ASSUME NEW s, Ready(s), NEW incrfail \in BOOLEAN
    PROVE  Inv(send_msg_userauth_failure(s, incrfail))
<1> DEFINE e == encrypt_packet(s, "USERAUTH_FAILURE")
           count == IF incrfail THEN e.failcount + 1 ELSE e.failcount
           f == [e EXCEPT !.failcount = count]
<1>1. Ready(e)
  BY ReadySend DEF Reply
<1> HIDE DEF e
<1>2. e \in SesType /\ count \in Nat
  BY <1>1 DEF Ready, Inv, SesType
<1>3. send_msg_userauth_failure(s, incrfail)
        = IF f.failcount >= maxauthtries THEN exit(f, "max auth tries") ELSE f
  BY DEF send_msg_userauth_failure, e
<1> HIDE DEF count
<1>4. f \in SesType
  BY <1>2 DEF SesType
<1>5. SameKex(e, f)
  BY <1>2 DEF SesType, SameKex
<1>6. f.sent = e.sent /\ f.state = e.state
  BY <1>2 DEF SesType
<1> HIDE DEF f
<1>7. Ready(f)
  BY <1>1, <1>4, <1>5, <1>6, ReadyAuth
<1>8. Inv(exit(f, "max auth tries"))
  BY <1>7, ReadyExit DEF Ended
<1> QED BY <1>3, <1>7, <1>8 DEF Ready

LEMMA AuthSuccess ==
    ASSUME NEW s, Ready(s)
    PROVE  Inv(send_msg_userauth_success(s))
<1> DEFINE e == encrypt_packet(s, "USERAUTH_SUCCESS")
           f == [e EXCEPT !.authdone = TRUE]
<1>1. Ready(e)
  BY ReadySend DEF Reply
<1>2. send_msg_userauth_success(s) = f
  BY DEF send_msg_userauth_success
<1> HIDE DEF e
<1>3. e \in SesType
  BY <1>1 DEF Ready, Inv
<1>4. f \in SesType
  BY <1>3 DEF SesType
<1>5. SameKex(e, f)
  BY <1>3 DEF SesType, SameKex
<1>6. f.sent = e.sent /\ f.state = e.state
  BY <1>3 DEF SesType
<1> HIDE DEF f
<1> QED BY <1>1, <1>2, <1>4, <1>5, <1>6, ReadyAuth DEF Ready

\* The banner is sent at most once.
LEMMA AuthBanner ==
    ASSUME NEW s, Ready(s)
    PROVE  Ready(IF s.banner THEN [encrypt_packet(s, "USERAUTH_BANNER") EXCEPT !.banner = FALSE] ELSE s)
<1> DEFINE e == encrypt_packet(s, "USERAUTH_BANNER")
           f == [e EXCEPT !.banner = FALSE]
<1>1. Ready(e)
  BY ReadySend DEF Reply
<1> HIDE DEF e
<1>2. e \in SesType
  BY <1>1 DEF Ready, Inv
<1>3. f \in SesType
  BY <1>2 DEF SesType
<1>4. SameKex(e, f)
  BY <1>2 DEF SesType, SameKex
<1>5. f.sent = e.sent /\ f.state = e.state
  BY <1>2 DEF SesType
<1> HIDE DEF f
<1>6. Ready(f)
  BY <1>1, <1>3, <1>4, <1>5, ReadyAuth
<1> QED BY <1>6 DEF e, f

LEMMA Username ==
    ASSUME NEW s, Ready(s), NEW user \in Name \cup {"too_long", "with_nul"}
    PROVE  LET c == checkusername(s, user) IN Ready(c) \/ (Inv(c) /\ c.state # "run")
<1> DEFINE c == checkusername(s, user)
           f == [s EXCEPT !.username = user]
<1>1. CASE user = "too_long"
  BY <1>1 DEF checkusername
<1>2. CASE user # "too_long" /\ (user = "with_nul" \/ s.username \notin {None, user})
  <2>1. c = exit(s, "username")
    BY <1>2 DEF checkusername
  <2>2. Inv(exit(s, "username"))
    BY ReadyExit DEF Ended
  <2>3. exit(s, "username").state # "run"
    BY DEF Ready, Inv, SesType, exit
  <2> QED BY <2>1, <2>2, <2>3
<1>3. CASE user # "too_long" /\ ~(user = "with_nul" \/ s.username \notin {None, user})
  <2>1. c = f
    BY <1>3 DEF checkusername
  <2>2. s \in SesType /\ user \in Name
    BY <1>3 DEF Ready, Inv
  <2>3. f \in SesType
    BY <2>2 DEF SesType
  <2>4. SameKex(s, f)
    BY <2>2 DEF SesType, SameKex
  <2>5. f.sent = s.sent /\ f.state = s.state
    BY <2>2 DEF SesType
  <2> HIDE DEF f, c
  <2>6. Ready(f)
    BY <2>3, <2>4, <2>5, ReadyAuth
  <2> QED BY <2>1, <2>6 DEF c
<1> QED BY <1>1, <1>2, <1>3

LEMMA AuthPubkey ==
    ASSUME NEW s, Ready(s), NEW valid_user, NEW method
    PROVE  Inv(svr_auth_pubkey(s, valid_user, method))
<1>1. Inv(send_msg_userauth_failure(s, FALSE)) /\ Inv(send_msg_userauth_failure(s, TRUE))
  BY AuthFailure
<1>2. Inv(send_msg_userauth_success(s))
  BY AuthSuccess
<1>3. Inv(encrypt_packet(s, "USERAUTH_PK_OK"))
  BY ReadySend DEF Ready, Reply
<1> QED BY <1>1, <1>2, <1>3 DEF svr_auth_pubkey

LEMMA UserauthRequest ==
    ASSUME NEW s, Ready(s), NEW p, p.user \in Name \cup {"too_long", "with_nul"}
    PROVE  Inv(recv_msg_userauth_request(s, p))
<1> DEFINE b == IF s.banner THEN [encrypt_packet(s, "USERAUTH_BANNER") EXCEPT !.banner = FALSE] ELSE s
           c == IF p.known THEN checkusername(b, p.user) ELSE exit(b, "unknown service")
<1>1. Ready(b)
  BY AuthBanner
<1>2. Inv(s)
  BY DEF Ready
<1>3. recv_msg_userauth_request(s, p) =
        IF s.authdone THEN s
        ELSE IF c.state # "run" THEN c
        ELSE IF p.method = "none" THEN send_msg_userauth_failure(c, FALSE)
        ELSE IF s.authtypes = "password" /\ p.method \in {"password_right", "password_wrong"}
        THEN svr_auth_password(c, p.method)
        ELSE IF p.method \in {"key_unknown", "key_query", "key_signed", "key_forged"}
        THEN svr_auth_pubkey(c, p.user # "too_long", p.method)
        ELSE send_msg_userauth_failure(c, TRUE)
  BY DEF recv_msg_userauth_request
<1> HIDE DEF b
<1>4. Ready(c) \/ (Inv(c) /\ c.state # "run")
  <2>1. CASE p.known
    BY <1>1, <2>1, Username
  <2>2. CASE ~p.known
    <3>1. Inv(exit(b, "unknown service"))
      BY <1>1, ReadyExit DEF Ended
    <3>2. exit(b, "unknown service").state # "run"
      BY <1>1 DEF Ready, Inv, SesType, exit
    <3> QED BY <2>2, <3>1, <3>2
  <2> QED BY <2>1, <2>2
<1> HIDE DEF c
<1>5. ASSUME Ready(c)
      PROVE  /\ Inv(send_msg_userauth_failure(c, FALSE)) /\ Inv(send_msg_userauth_failure(c, TRUE))
             /\ Inv(svr_auth_password(c, p.method))
             /\ Inv(svr_auth_pubkey(c, p.user # "too_long", p.method))
  <2>1. Inv(send_msg_userauth_failure(c, FALSE)) /\ Inv(send_msg_userauth_failure(c, TRUE))
    BY <1>5, AuthFailure
  <2>2. Inv(send_msg_userauth_success(c))
    BY <1>5, AuthSuccess
  <2>3. Inv(svr_auth_pubkey(c, p.user # "too_long", p.method))
    BY <1>5, AuthPubkey
  <2> QED BY <2>1, <2>2, <2>3 DEF svr_auth_password
<1>6. CASE Ready(c)
  BY <1>2, <1>3, <1>5, <1>6 DEF Ready
<1>7. CASE Inv(c) /\ c.state # "run"
  BY <1>2, <1>3, <1>7
<1> QED BY <1>4, <1>6, <1>7

LEMMA ServiceRequest ==
    ASSUME NEW s, Ready(s), NEW p
    PROVE  Inv(recv_msg_service_request(s, p))
<1>1. Inv(exit(s, "service"))
  BY ReadyExit DEF Ended
<1>2. Inv(encrypt_packet(s, "SERVICE_ACCEPT"))
  BY ReadySend DEF Ready, Reply
<1> QED BY <1>1, <1>2 DEF recv_msg_service_request

-----------------------------------------------------------------------------
(* The packet filter and the rounds of session_loop(). *)

LEMMA Unimplemented ==
    ASSUME NEW s, Inv(s)
    PROVE  Inv(recv_unimplemented(s))
<1>1. MaySend(s, "UNIMPLEMENTED") /\ "UNIMPLEMENTED" \in Reply
  BY DEF MaySend, packet_is_okay_kex, Reply
<1>2. Talks(s, encrypt_packet(s, "UNIMPLEMENTED"))
  BY <1>1, EncryptPacket DEF Inv
<1> QED BY <1>2, TalksInv DEF recv_unimplemented

\* The packet filter lets a packet through to its handler only in a state the
\* handler was written for.
LEMMA ProcessPacket ==
    ASSUME NEW s, Inv(s), s.state = "run", NEW p \in Packet
    PROVE  Inv(process_packet(s, p))
<1> DEFINE r == [s EXCEPT !.requirenext = None]
<1>1. s \in SesType /\ CredentialsEncrypted(s) /\ SentEncrypted(s) /\ KexFlags(s) /\ KexNext(s)
  BY DEF Inv
<1>2. Inv(recv_unimplemented(s))
  BY Unimplemented
<1>3. /\ Inv(exit(s, "disconnect")) /\ Inv(exit(s, "unexpected packet"))
      /\ Inv(exit(s, "before userauth"))
  <2>1. {"disconnect", "unexpected packet", "before userauth"} \subseteq Ended
    BY DEF Ended
  <2> QED BY <1>1, <2>1, ExitInv
<1>4. Inv([s EXCEPT !.ignorenext = FALSE])
  <2> DEFINE t == [s EXCEPT !.ignorenext = FALSE]
  <2>1. t \in SesType
    BY <1>1 DEF SesType
  <2>2. SameKex(s, t)
    BY <1>1 DEF SesType, SameKex
  <2>3. SameAuth(s, t)
    BY <1>1 DEF SesType, SameAuth
  <2>4. t.sent = s.sent /\ t.state = s.state
    BY <1>1 DEF SesType
  <2> HIDE DEF t
  <2>5. KexFlags(t) /\ KexNext(t)
    BY <1>1, <2>2 DEF SameKex, KexFlags, KexNext
  <2>6. CredentialsEncrypted(t) /\ SentEncrypted(t)
    BY <1>1, <2>2, <2>3, <2>4 DEF SameKex, SameAuth, CredentialsEncrypted, SentEncrypted
  <2> QED BY <2>1, <2>4, <2>5, <2>6 DEF Inv, t
<1>5. ASSUME s.requirenext \in {None, p.type}
      PROVE  Inv(Handle(r, p))
  <2>1. r \in SesType
    BY <1>1 DEF SesType
  <2>2. /\ r.state = s.state /\ r.requirenext = None /\ r.dataallowed = s.dataallowed
        /\ r.sentkexinit = s.sentkexinit /\ r.recvkexinit = s.recvkexinit
        /\ r.sentnewkeys = s.sentnewkeys /\ r.recvnewkeys = s.recvnewkeys
        /\ r.transkexinit = s.transkexinit /\ r.kexhashbuf = s.kexhashbuf /\ r.newkeys = s.newkeys
        /\ r.gen = s.gen /\ r.rkey = s.rkey /\ r.tkey = s.tkey
        /\ r.username = s.username /\ r.authdone = s.authdone /\ r.failcount = s.failcount
        /\ r.sent = s.sent
    BY <1>1 DEF SesType
  <2>3. s.requirenext = None => r = s
    BY <1>1 DEF SesType
  <2> HIDE DEF r
  <2>4. Core(r)
    <3>1. KexFlags(r)
      BY <1>1, <2>2 DEF KexFlags
    <3>2. CredentialsEncrypted(r) /\ SentEncrypted(r)
      BY <1>1, <2>2 DEF CredentialsEncrypted, SentEncrypted
    <3> QED BY <2>1, <2>2, <3>1, <3>2 DEF Core
  <2>5. CASE p.type = "KEXINIT"
    <3>1. ~r.sentnewkeys /\ ~r.recvkexinit
      <4>1. s.requirenext \in {None, "KEXINIT"}
        BY <1>5, <2>5
      <4>2. ~s.sentnewkeys /\ ~s.recvkexinit
        BY <1>1, <4>1, SessionAssumption DEF KexNext
      <4> QED BY <2>2, <4>2
    <3>2. Handle(r, p) = recv_msg_kexinit(r, p)
      BY <2>5 DEF Handle
    <3> QED BY <2>4, <3>1, <3>2, RecvKexinit
  <2>6. CASE p.type = "KEXDH_INIT"
    <3>1. ~r.sentnewkeys
      <4>1. s.requirenext \in {None, "KEXDH_INIT"}
        BY <1>5, <2>6
      <4>2. ~s.sentnewkeys
        BY <1>1, <4>1, SessionAssumption DEF KexNext
      <4> QED BY <2>2, <4>2
    <3>2. Handle(r, p) = recv_msg_kexdh_init(r, p)
      BY <2>6 DEF Handle
    <3> QED BY <2>4, <3>1, <3>2, RecvKexdhInit
  <2>7. CASE p.type = "NEWKEYS"
    <3>1. r.recvkexinit => r.sentnewkeys
      <4>1. s.requirenext \in {None, "NEWKEYS"}
        BY <1>5, <2>7
      <4>2. s.recvkexinit => s.sentnewkeys
        BY <1>1, <4>1, SessionAssumption DEF KexNext
      <4> QED BY <2>2, <4>2
    <3>2. Handle(r, p) = recv_msg_newkeys(r)
      BY <2>7 DEF Handle
    <3> QED BY <2>2, <2>4, <3>1, <3>2, RecvNewkeys
  <2>8. CASE p.type \notin {"KEXINIT", "KEXDH_INIT", "NEWKEYS"}
    <3>1. s.requirenext = None
      BY <1>1, <1>5, <2>8 DEF SesType
    <3>2. r = s
      BY <2>3, <3>1
    <3>3. Ready(s)
      BY <3>1, KeysInUse DEF Ready
    <3>4. CASE p.type = "SERVICE_REQUEST"
      <4>1. Handle(s, p) = recv_msg_service_request(s, p)
        BY <3>4 DEF Handle
      <4> QED BY <3>2, <3>3, <4>1, ServiceRequest
    <3>5. CASE p.type = "USERAUTH_REQUEST"
      <4>1. Handle(s, p) = recv_msg_userauth_request(s, p)
        BY <3>5 DEF Handle
      <4>2. p.user \in Name \cup {"too_long", "with_nul"}
        BY <3>5 DEF Packet
      <4> QED BY <3>2, <3>3, <4>1, <4>2, UserauthRequest
    <3>6. CASE p.type = "GLOBAL_REQUEST"
      <4>1. Handle(s, p) = recv_msg_global_request_remotetcp(s, p)
        BY <3>6 DEF Handle
      <4>2. p.answer \in {"REQUEST_SUCCESS", "REQUEST_FAILURE", "none"}
        BY <3>6 DEF Packet
      <4>3. p.answer # "none" => p.answer \in Reply
        BY <4>2 DEF Reply
      <4>4. p.answer # "none" => Inv(encrypt_packet(s, p.answer))
        BY <3>3, <4>3, ReadySend DEF Ready
      <4> QED BY <3>2, <4>1, <4>4 DEF recv_msg_global_request_remotetcp
    <3>7. CASE p.type = "RESPONSE"
      <4>1. Handle(s, p) = s
        BY <3>7 DEF Handle
      <4> QED BY <3>2, <4>1
    <3>8. CASE p.type \notin {"SERVICE_REQUEST", "USERAUTH_REQUEST", "GLOBAL_REQUEST", "RESPONSE"}
      <4>1. Handle(s, p) = recv_unimplemented(s)
        BY <2>8, <3>8 DEF Handle
      <4> QED BY <1>2, <3>2, <4>1
    <3> QED BY <3>4, <3>5, <3>6, <3>7, <3>8
  <2> QED BY <2>5, <2>6, <2>7, <2>8
<1> QED BY <1>2, <1>3, <1>4, <1>5 DEF process_packet

LEMMA Silence ==
    ASSUME NEW s, Inv(s)
    PROVE  LET t == [s EXCEPT !.sent = <<>>] IN Inv(t) /\ t.state = s.state /\ SameKex(s, t)
<1> DEFINE t == [s EXCEPT !.sent = <<>>]
<1>1. s \in SesType /\ s.queue \in Seq(Held) /\ s.made \in Nat /\ <<>> \in Seq(Sent)
  <2>1. s \in SesType
    BY DEF Inv
  <2>2. <<>> \in Seq(Sent)
    OBVIOUS
  <2>3. s.queue \in Seq(Held) /\ s.made \in Nat
    BY <2>1 DEF SesType
  <2> QED BY <2>1, <2>2, <2>3
<1>2. t = [s EXCEPT !.made = s.made, !.queue = s.queue, !.sent = <<>>]
  BY <1>1 DEF SesType
<1>3. \A i \in DOMAIN <<>> : <<>>[i].n > 0 /\ <<>>[i].type # "KEXINIT" => <<>>[i].key > 0
  OBVIOUS
<1>4. Talks(s, t)
  BY <1>1, <1>2, <1>3, Updated
<1> HIDE DEF t
<1>5. Inv(t)
  BY <1>4, TalksInv
<1> QED BY <1>4, <1>5 DEF Talks, t

LEMMA EndOfRound ==
    ASSUME NEW s, Inv(s)
    PROVE  Inv(Round(s))
<1>1. CASE s.state = "run"
  <2>1. Talks(s, maybe_flush_reply_queue(s))
    BY <1>1, KeysInUse, Flush DEF Inv
  <2> QED BY <1>1, <2>1, TalksInv DEF Round
<1>2. CASE s.state # "run"
  BY <1>2, Silence DEF Round
<1> QED BY <1>1, <1>2

\* Before the server's first KEXINIT.
LEMMA InitIdle ==
    ASSUME NEW a \in {"password", "publickey"}
    PROVE  LET s == common_session_init(a)
           IN  /\ KexIdle(s) /\ s.requirenext = "KEXINIT" /\ s.gen = 0 /\ s.rkey = 0
               /\ s.dataallowed /\ s.ignorenext = FALSE /\ s.authdone = FALSE /\ s.username = None
               /\ s.sent = <<>> /\ s.queue = <<>> /\ s.made = 0
<1> DEFINE s == common_session_init(a)
<1>1. s \in SesType
  <2>1. <<>> \in Seq(Held) /\ <<>> \in Seq(Sent)
    OBVIOUS
  <2>2. NoKeys \in Keys
    BY DEF NoKeys, Keys
  <2> QED BY <2>1, <2>2, SessionAssumption DEF common_session_init, SesType, Ended, Keys
<1>2. /\ s.state = "run" /\ s.requirenext = "KEXINIT" /\ s.sentkexinit = FALSE /\ s.recvkexinit = FALSE
      /\ s.sentnewkeys = FALSE /\ s.recvnewkeys = FALSE /\ s.kexhashbuf = FALSE
      /\ s.gen = 0 /\ s.rkey = 0 /\ s.tkey = 0 /\ s.username = None /\ s.authdone = FALSE
      /\ s.failcount = 0 /\ s.sent = <<>> /\ s.dataallowed = TRUE /\ s.ignorenext = FALSE
      /\ s.queue = <<>> /\ s.made = 0
  BY DEF common_session_init
<1> HIDE DEF s
<1>3. KexIdle(s)
  BY <1>1, <1>2 DEF KexIdle, CredentialsEncrypted, SentEncrypted
<1> QED BY <1>2, <1>3 DEF s

\* The server starts with its own KEXINIT, before anything else.
LEMMA InitInv == Init => Inv(ses)
<1> SUFFICES ASSUME NEW a \in {"password", "publickey"}, ses = send_msg_kexinit(common_session_init(a))
             PROVE  Inv(ses)
  BY DEF Init
<1> DEFINE s == common_session_init(a)
           t == send_msg_kexinit(s)
<1>1. KexIdle(s) /\ s.requirenext = "KEXINIT" /\ s.gen = 0
  BY InitIdle
<1>2. Core(t) /\ t.sentkexinit /\ ~t.recvkexinit /\ ~t.sentnewkeys /\ t.requirenext = "KEXINIT" /\ t.gen = 0
  BY <1>1, SendKexinit
<1> HIDE DEF t
<1>3. Inv(t)
  BY <1>2, CoreInv DEF KexNext
<1> QED BY <1>3 DEF t, s

\* Every round of session_loop() preserves the invariant, whatever was read.
LEMMA NextInv == Inv(ses) /\ [Next]_ses => Inv(ses')
<1> SUFFICES ASSUME Inv(ses), [Next]_ses
             PROVE  Inv(ses')
  OBVIOUS
<1>1. Inv(Begin) /\ Begin.state = ses.state /\ SameKex(ses, Begin)
  BY Silence DEF Begin
<1>2. ASSUME NEW p \in Packet, Receive(p)
      PROVE  Inv(ses')
  BY <1>1, <1>2, ProcessPacket, EndOfRound DEF Receive
<1>3. CASE Rekey
  <2> DEFINE t == send_msg_kexinit(Begin)
  <2>1. Begin.state = "run" /\ ~Begin.sentkexinit
    BY <1>1, <1>3 DEF Rekey, SameKex
  <2>2. Begin \in SesType /\ KexFlags(Begin) /\ KexNext(Begin)
    BY <1>1, <2>1 DEF Inv
  <2>3. KexIdle(Begin)
    BY <1>1, <2>1, <2>2 DEF KexIdle, KexFlags, Inv, SesType
  <2>4. Core(t) /\ t.sentkexinit /\ ~t.recvkexinit /\ ~t.sentnewkeys
        /\ t.requirenext = Begin.requirenext /\ t.gen = Begin.gen
    BY <2>3, SendKexinit
  <2> HIDE DEF t
  <2>5. ~Begin.recvkexinit /\ ~Begin.sentnewkeys
    BY <2>3 DEF KexIdle
  <2>6. KexNext(t)
    BY <2>2, <2>4, <2>5 DEF KexNext
  <2>7. Inv(t)
    BY <2>4, <2>6, CoreInv
  <2> QED BY <1>3, <2>7, EndOfRound DEF Rekey, t
<1>4. CASE ChannelIO
  <2>1. Begin \in SesType /\ SentEncrypted(Begin) /\ "CHANNEL_DATA" \in Reply
    BY <1>1 DEF Inv, Reply
  <2>2. ses.tkey > 0
    BY <1>4 DEF ChannelIO, Inv, CredentialsEncrypted
  <2>3. MaySend(Begin, "CHANNEL_DATA")
    BY <1>1, <2>2 DEF SameKex, MaySend
  <2>4. Talks(Begin, encrypt_packet(Begin, "CHANNEL_DATA"))
    BY <2>1, <2>3, EncryptPacket
  <2> QED BY <1>1, <1>4, <2>4, TalksInv DEF ChannelIO
<1>5. CASE Close
  <2>1. "closed" \in Ended
    BY DEF Ended
  <2> QED BY <1>1, <1>5, <2>1, ExitInv DEF Close, Inv
<1>6. CASE UNCHANGED ses
  BY <1>6
<1> QED BY <1>2, <1>3, <1>4, <1>5, <1>6 DEF Next

-----------------------------------------------------------------------------
\* A session keeps its invariant, whatever packets its client sends.
THEOREM Invariance == Spec => []SessionInv
<1>1. Init => SessionInv
  BY InitInv DEF Inv, SessionInv, TypeOK, KexState, NoNullPointer, Encrypted
<1>2. SessionInv /\ [Next]_ses => SessionInv'
  <2>1. SessionInv => Inv(ses)
    BY DEF Inv, SessionInv, TypeOK, KexState, NoNullPointer, Encrypted
  <2>2. Inv(ses') => SessionInv'
    BY DEF Inv, SessionInv, TypeOK, KexState, NoNullPointer, Encrypted
  <2> QED BY <2>1, <2>2, NextInv
<1> QED BY <1>1, <1>2, PTL DEF Spec

\* The fields of the session structure keep their types.
THEOREM TypeCorrect == Spec => []TypeOK
BY Invariance, PTL DEF SessionInv

\* The flags, buffers and keys of an exchange agree: recv_msg_kexinit(),
\* recv_msg_kexdh_init(), send_msg_newkeys() and recv_msg_newkeys() keep them in
\* step, and requirenext names the packet they wait for.
THEOREM KexConsistent == Spec => []KexState
BY Invariance, PTL DEF SessionInv

\* recv_msg_kexinit(), read_kex_algos() and recv_msg_kexdh_init() never use
\* transkexinit, newkeys or kexhashbuf while it is not there.
THEOREM NoNullPointerUsed == Spec => []NoNullPointer
BY Invariance, PTL DEF SessionInv

\* process_packet() lets no user name and no credential through, and
\* encrypt_packet() lets no reply out, before keys are in use.
THEOREM TrafficEncrypted == Spec => []Encrypted
BY Invariance, PTL DEF SessionInv

-----------------------------------------------------------------------------
(* A session and a correct client.  The key exchange is a sequence of       *)
(* stages in each direction; a packet in flight leads from one stage to the *)
(* next, and those in a queue lead from the stage its reader has reached to *)
(* the one its writer has reached.                                          *)

Kex == {"KEXINIT", "KEXDH_REPLY", "NEWKEYS"}

Request == {"SERVICE_REQUEST", "USERAUTH_REQUEST", "GLOBAL_REQUEST"}

\* Stages of the client's packets for each key: 0 outside an exchange, 1 a wrong
\* guess is to follow, 2 its key is to follow, 3 its NEWKEYS.
InFrom(p) ==
    IF p.type = "KEXDH_INIT" THEN (IF p.valid THEN 2 ELSE 1)
    ELSE IF p.type = "NEWKEYS" THEN 3 ELSE 0

InTo(p) ==
    IF p.type = "KEXINIT" THEN (IF p.guess = "wrong" THEN 1 ELSE 2)
    ELSE IF p.type = "KEXDH_INIT" THEN (IF p.valid THEN 3 ELSE 2)
    ELSE IF p.type = "NEWKEYS" THEN 4 ELSE 0

\* Stages of the server's packets: 0 outside an exchange, 1 after KEXINIT, 2 after
\* KEXDH_REPLY.
OutFrom(m) == IF m.type = "KEXDH_REPLY" THEN 1 ELSE IF m.type = "NEWKEYS" THEN 2 ELSE 0

\* Packet m leads from x to y: stages of the client ("in"), stages of the server
\* ("out"), numbers of the server's packets ("num").
Step(d, x, m, y) ==
    \/ d = "in" /\ x = (4 * m.key) + InFrom(m.p) /\ y = (4 * m.key) + InTo(m.p)
    \/ d = "out" /\ x = (3 * m.key) + OutFrom(m) /\ y = IF m.type \in Kex THEN x + 1 ELSE x
    \/ d = "num" /\ IF m.n > 0 THEN x = m.n /\ y = x + 1 ELSE y = x

Labels(f, d, q, a, b) ==
    f[0] = a /\ f[Len(q)] = b /\ \A i \in 1..Len(q) : Step(d, f[i - 1], q[i], f[i])

\* The packets of q, in order, lead from a to b.
Run(d, q, a, b) == \E f \in [0..Len(q) -> Int] : Labels(f, d, q, a, b)

LEMMA RunEmpty ==
    ASSUME NEW d, NEW a \in Int
    PROVE  Run(d, <<>>, a, a) /\ \A b : Run(d, <<>>, a, b) => b = a
<1>1. Len(<<>>) = 0
  BY EmptySeq
<1> DEFINE f == [i \in 0..0 |-> a]
<1>2. f \in [0..0 -> Int] /\ f[0] = a
  OBVIOUS
<1>3. Labels(f, d, <<>>, a, a)
  BY <1>1, <1>2 DEF Labels
<1> QED BY <1>1, <1>2, <1>3 DEF Run, Labels

LEMMA RunEnds ==
    ASSUME NEW S, NEW q \in Seq(S), NEW d, NEW a, NEW b, Run(d, q, a, b)
    PROVE  a \in Int /\ b \in Int
<1>1. Len(q) \in Nat
  BY LenProperties
<1> QED BY <1>1 DEF Run, Labels

LEMMA RunOne ==
    ASSUME NEW d, NEW m, NEW a \in Int, NEW b \in Int, Step(d, a, m, b)
    PROVE  Run(d, <<m>>, a, b)
<1> DEFINE f == [i \in 0..1 |-> IF i = 0 THEN a ELSE b]
<1>1. Len(<<m>>) = 1 /\ <<m>>[1] = m
  OBVIOUS
<1>2. f \in [0..1 -> Int] /\ f[0] = a /\ f[1] = b
  OBVIOUS
<1> HIDE DEF f
<1>3. \A i \in 1..1 : i = 1
  OBVIOUS
<1>4. Labels(f, d, <<m>>, a, b)
  BY <1>1, <1>2, <1>3 DEF Labels
<1> QED BY <1>1, <1>2, <1>4 DEF Run

LEMMA RunCat ==
    ASSUME NEW S, NEW q \in Seq(S), NEW r \in Seq(S), NEW d, NEW a, NEW b, NEW c,
           Run(d, q, a, b), Run(d, r, b, c)
    PROVE  Run(d, Cat(q, r), a, c)
<1>1. PICK f \in [0..Len(q) -> Int] : Labels(f, d, q, a, b)
  BY DEF Run
<1>2. PICK g \in [0..Len(r) -> Int] : Labels(g, d, r, b, c)
  BY DEF Run
<1> DEFINE k == Len(q)
           l == Len(r)
           s == Cat(q, r)
           h == [i \in 0..(k + l) |-> IF i <= k THEN f[i] ELSE g[i - k]]
<1>3. /\ k \in Nat /\ l \in Nat /\ Len(s) = k + l
      /\ \A i \in 1..(k + l) : s[i] = IF i <= k THEN q[i] ELSE r[i - k]
  BY LenProperties, ConcatProperties DEF Cat
<1>4. /\ f[0] = a /\ f[k] = b /\ \A i \in 1..k : Step(d, f[i - 1], q[i], f[i])
      /\ g[0] = b /\ g[l] = c /\ \A i \in 1..l : Step(d, g[i - 1], r[i], g[i])
  BY <1>1, <1>2 DEF Labels
<1> HIDE DEF k, l, s
<1>5. f \in [0..k -> Int] /\ g \in [0..l -> Int]
  BY <1>1, <1>2 DEF k, l
<1>6. h \in [0..(k + l) -> Int]
  BY <1>3, <1>5
<1>7. /\ \A i \in 0..k : h[i] = f[i]
      /\ \A i \in 0..l : h[k + i] = g[i]
  <2>1. ASSUME NEW i \in 0..k PROVE h[i] = f[i]
    BY <1>3, <2>1
  <2>2. ASSUME NEW i \in 0..l PROVE h[k + i] = g[i]
    <3>1. CASE i = 0
      BY <1>3, <1>4, <3>1
    <3>2. CASE i # 0
      <4>1. k + i \in 0..(k + l) /\ ~ (k + i <= k) /\ (k + i) - k = i
        BY <1>3, <3>2
      <4> QED BY <4>1
    <3> QED BY <3>1, <3>2
  <2> QED BY <2>1, <2>2
<1> HIDE DEF h
<1>8. h[0] = a /\ h[k + l] = c
  BY <1>3, <1>4, <1>7
<1>9. ASSUME NEW i \in 1..(k + l)
      PROVE  Step(d, h[i - 1], s[i], h[i])
  <2>1. CASE i <= k
    <3>1. i \in 1..k /\ i \in 0..k /\ i - 1 \in 0..k
      BY <1>3, <2>1
    <3>2. h[i - 1] = f[i - 1] /\ h[i] = f[i] /\ s[i] = q[i]
      BY <1>3, <1>7, <2>1, <3>1
    <3>3. Step(d, f[i - 1], q[i], f[i])
      BY <1>4, <3>1
    <3> QED BY <3>2, <3>3
  <2>2. CASE ~ (i <= k)
    <3> DEFINE j == i - k
    <3>1. j \in 1..l /\ j \in 0..l /\ j - 1 \in 0..l /\ k + j = i /\ k + (j - 1) = i - 1
      BY <1>3, <2>2
    <3>2. s[i] = r[j]
      BY <1>3, <2>2
    <3> HIDE DEF j
    <3>3. h[i - 1] = g[j - 1] /\ h[i] = g[j]
      <4>1. h[k + j] = g[j] /\ h[k + (j - 1)] = g[j - 1]
        BY <1>7, <3>1
      <4> QED BY <3>1, <4>1
    <3>4. Step(d, g[j - 1], r[j], g[j])
      BY <1>4, <3>1
    <3> QED BY <3>2, <3>3, <3>4
  <2> QED BY <2>1, <2>2
<1>10. Labels(h, d, s, a, c)
  BY <1>3, <1>8, <1>9 DEF Labels
<1> QED BY <1>3, <1>6, <1>10 DEF Run, s

LEMMA RunAppend ==
    ASSUME NEW S, NEW q \in Seq(S), NEW m \in S, NEW d, NEW a, NEW b, NEW c \in Int,
           Run(d, q, a, b), Step(d, b, m, c)
    PROVE  Run(d, Append(q, m), a, c)
<1>1. <<m>> \in Seq(S)
  OBVIOUS
<1>2. Append(q, m) = Cat(q, <<m>>)
  BY AppendIsConcat DEF Cat
<1>3. b \in Int
  BY RunEnds
<1>4. Run(d, <<m>>, b, c)
  BY <1>3, RunOne
<1> QED BY <1>1, <1>2, <1>4, RunCat

\* The reader takes the first packet.
LEMMA RunTail ==
    ASSUME NEW S, NEW q \in Seq(S), q # <<>>, NEW d, NEW a, NEW b, Run(d, q, a, b)
    PROVE  \E c \in Int : Step(d, a, Head(q), c) /\ Run(d, Tail(q), c, b)
<1>1. PICK f \in [0..Len(q) -> Int] : Labels(f, d, q, a, b)
  BY DEF Run
<1> DEFINE n == Len(q)
           t == Tail(q)
           g == [i \in 0..(n - 1) |-> f[i + 1]]
<1>2. /\ n \in Nat \ {0} /\ Len(t) = n - 1 /\ Head(q) = q[1]
      /\ \A i \in 1..(n - 1) : t[i] = q[i + 1]
  <2>1. n \in Nat \ {0}
    BY LenProperties, EmptySeq
  <2>2. Len(t) = n - 1 /\ \A i \in 1..Len(t) : t[i] = q[i + 1]
    BY HeadTailProperties
  <2>3. Head(q) = q[1]
    OBVIOUS
  <2> QED BY <2>1, <2>2, <2>3
<1>3. f[0] = a /\ f[n] = b /\ \A i \in 1..n : Step(d, f[i - 1], q[i], f[i])
  BY <1>1 DEF Labels
<1>4. f \in [0..n -> Int]
  BY <1>1
<1> HIDE DEF n, t
<1>5. /\ g \in [0..(n - 1) -> Int] /\ g[0] = f[1] /\ g[n - 1] = b
      /\ \A i \in 0..(n - 1) : g[i] = f[i + 1]
  BY <1>2, <1>3, <1>4
<1> HIDE DEF g
<1>6. ASSUME NEW i \in 1..(n - 1)
      PROVE  Step(d, g[i - 1], t[i], g[i])
  <2>1. i \in 0..(n - 1) /\ i - 1 \in 0..(n - 1) /\ i + 1 \in 1..n /\ (i + 1) - 1 = i /\ (i - 1) + 1 = i
    BY <1>2
  <2>2. g[i - 1] = f[i] /\ g[i] = f[i + 1]
    BY <1>5, <2>1
  <2>3. Step(d, f[(i + 1) - 1], q[i + 1], f[i + 1])
    BY <1>3, <2>1
  <2>4. f[(i + 1) - 1] = f[i]
    BY <2>1
  <2>5. t[i] = q[i + 1]
    BY <1>2
  <2> QED BY <2>2, <2>3, <2>4, <2>5
<1>7. Labels(g, d, t, f[1], b)
  BY <1>2, <1>5, <1>6 DEF Labels
<1>8. Run(d, t, f[1], b)
  BY <1>2, <1>5, <1>7 DEF Run
<1>9. f[1] \in Int /\ Step(d, a, q[1], f[1])
  <2>1. 1 \in 1..n /\ 1 \in 0..n /\ 1 - 1 = 0
    BY <1>2
  <2> QED BY <1>3, <1>4, <2>1
<1> QED BY <1>2, <1>8, <1>9 DEF t

\* Packets of S never lead back.
Rises(d, S) == \A m \in S : \A x \in Int, y \in Int : Step(d, x, m, y) => x <= y

LEMMA RunUp ==
    ASSUME NEW S, NEW q \in Seq(S), NEW d, Rises(d, S), NEW a, NEW b, Run(d, q, a, b)
    PROVE  a \in Int /\ b \in Int /\ a <= b
<1>1. PICK f \in [0..Len(q) -> Int] : Labels(f, d, q, a, b)
  BY DEF Run
<1> DEFINE n == Len(q)
           Bad == {i \in 0..n : ~ (f[0] <= f[i])}
<1>2. n \in Nat /\ \A i \in 1..n : q[i] \in S
  BY LenProperties, ElementOfSeq
<1>3. f[0] = a /\ f[n] = b /\ \A i \in 1..n : Step(d, f[i - 1], q[i], f[i])
  BY <1>1 DEF Labels
<1>4. f \in [0..n -> Int]
  BY <1>1
<1> HIDE DEF n
<1>5. Bad = {}
  <2>1. SUFFICES ASSUME Bad # {} PROVE FALSE
    OBVIOUS
  <2>2. Bad \subseteq Nat
    BY <1>2
  <2>3. PICK m \in Bad : \A k \in Bad : m <= k
    BY <2>1, <2>2, LeastNat
  <2>4. m \in 1..n /\ m \in 0..n /\ m - 1 \in 0..n
    BY <1>2, <1>4, <2>3
  <2>5. f[0] <= f[m - 1]
    <3>1. m - 1 \notin Bad
      BY <1>2, <2>3, <2>4
    <3> QED BY <2>4, <3>1
  <2>6. f[0] \in Int /\ f[m - 1] \in Int /\ f[m] \in Int
    BY <1>2, <1>4, <2>4
  <2>7. f[m - 1] <= f[m]
    BY <1>2, <1>3, <2>4, <2>6 DEF Rises
  <2>8. ~ (f[0] <= f[m])
    BY <2>3
  <2> HIDE DEF Bad
  <2> QED BY <2>5, <2>6, <2>7, <2>8
<1>6. n \in 0..n /\ 0 \in 0..n
  BY <1>2
<1>7. f[0] <= f[n]
  BY <1>5, <1>6
<1> QED BY <1>3, <1>4, <1>6, <1>7

\* Packets that lead where others lead.
LEMMA RunSame ==
    ASSUME NEW q, NEW r, Len(r) = Len(q), NEW d, NEW a, NEW b, Run(d, q, a, b),
           \A i \in 1..Len(q) : \A x \in Int, y \in Int : Step(d, x, q[i], y) => Step(d, x, r[i], y),
           Len(q) \in Nat
    PROVE  Run(d, r, a, b)
<1>1. PICK f \in [0..Len(q) -> Int] : Labels(f, d, q, a, b)
  BY DEF Run
<1>2. ASSUME NEW i \in 1..Len(q)
      PROVE  Step(d, f[i - 1], r[i], f[i])
  <2>1. f[i - 1] \in Int /\ f[i] \in Int
    BY <1>1
  <2> QED BY <1>1, <2>1 DEF Labels
<1>3. Labels(f, d, r, a, b)
  BY <1>1, <1>2 DEF Labels
<1> QED BY <1>1, <1>3 DEF Run

\* Packets outside a key exchange.
LEMMA RunStay ==
    ASSUME NEW r, Len(r) \in Nat, NEW d, NEW a \in Int, \A i \in 1..Len(r) : Step(d, a, r[i], a)
    PROVE  Run(d, r, a, a)
<1> DEFINE f == [i \in 0..Len(r) |-> a]
<1>1. f \in [0..Len(r) -> Int] /\ f[0] = a /\ f[Len(r)] = a
  OBVIOUS
<1>2. ASSUME NEW i \in 1..Len(r)
      PROVE  Step(d, f[i - 1], r[i], f[i])
  <2>1. f[i - 1] = a /\ f[i] = a
    OBVIOUS
  <2> HIDE DEF f
  <2> QED BY <2>1
<1> HIDE DEF f
<1>3. Labels(f, d, r, a, a)
  BY <1>1, <1>2 DEF Labels
<1> QED BY <1>1, <1>3 DEF Run

-----------------------------------------------------------------------------
(* What the server has sent and holds back. *)

\* What a correct client sends; a says whether it is authenticated.
InOK(m, a) ==
    /\ m.p.type \in {"KEXINIT", "KEXDH_INIT", "NEWKEYS"} \cup Request
    /\ m.p.type = "KEXINIT" => m.p.match
    /\ m.p.type \in Request => m.key > 0
    /\ m.p.type = "SERVICE_REQUEST" => m.p.name = "ssh-userauth"
    /\ m.p.type = "USERAUTH_REQUEST" => m.p.user = Me /\ m.p.known
    /\ m.p.type = "GLOBAL_REQUEST" => a

\* What the server sends it.
OutOK(m, a) ==
    /\ m.type # "UNIMPLEMENTED"
    /\ m.type \in {"KEXDH_REPLY", "NEWKEYS"} <=> m.n = 0
    /\ m.type = "USERAUTH_SUCCESS" => a

ToServer(a) == {m \in [p : Packet, key : Nat] : InOK(m, a)}

ToClient(a) == {m \in Sent : OutOK(m, a)}

HeldBack(a) == {m \in Held : OutOK(m, a) /\ m.type \notin Kex}

LEMMA MoreTypes ==
    ASSUME NEW a \in BOOLEAN, NEW b \in BOOLEAN, a => b
    PROVE  /\ ToServer(a) \subseteq ToServer(b)
           /\ ToClient(a) \subseteq ToClient(b)
           /\ HeldBack(a) \subseteq HeldBack(b)
BY DEF ToServer, ToClient, HeldBack, InOK, OutOK

LEMMA SeqMore ==
    ASSUME NEW S, NEW T, S \subseteq T, NEW q \in Seq(S)
    PROVE  q \in Seq(T)
OBVIOUS

\* The number of the first packet held back, or of the next one to be made.
First(s) == (s.made + 1) - Len(s.queue)

\* The packets of this round lead from stage x to w and from number n on, and those
\* held back follow them.
Spoken(s, w, x, n, a) ==
    /\ s.made \in Nat /\ s.sent \in Seq(ToClient(a)) /\ s.queue \in Seq(HeldBack(a))
    /\ Run("out", s.sent, x, w)
    /\ Run("num", s.sent, n, First(s))
    /\ Run("num", s.queue, First(s), s.made + 1)

LEMMA SpokenSame ==
    ASSUME NEW s, NEW t, SamePackets(s, t), NEW w, NEW x, NEW n, NEW a, Spoken(s, w, x, n, a)
    PROVE  Spoken(t, w, x, n, a)
BY DEF SamePackets, Spoken, First

LEMMA SpokenMore ==
    ASSUME NEW s, NEW w, NEW x, NEW n, NEW a \in BOOLEAN, NEW b \in BOOLEAN, a => b, Spoken(s, w, x, n, a)
    PROVE  Spoken(s, w, x, n, b)
<1>1. s.sent \in Seq(ToClient(b)) /\ s.queue \in Seq(HeldBack(b))
  BY MoreTypes, SeqMore DEF Spoken
<1> QED BY <1>1 DEF Spoken

\* A packet of the key exchange is sent.
LEMMA SpokenKex ==
    ASSUME NEW s, NEW t, NEW w, NEW x, NEW n, NEW a, Spoken(s, w, x, n, a),
           NEW m \in ToClient(a), m.n = 0, NEW w2 \in Int, Step("out", w, m, w2),
           t.sent = Append(s.sent, m), t.queue = s.queue, t.made = s.made
    PROVE  Spoken(t, w2, x, n, a)
<1>1. s.sent \in Seq(ToClient(a)) /\ s.queue \in Seq(HeldBack(a)) /\ s.made \in Nat
      /\ Run("out", s.sent, x, w) /\ Run("num", s.sent, n, First(s))
  BY DEF Spoken
<1>2. Append(s.sent, m) \in Seq(ToClient(a))
  BY <1>1
<1>3. First(s) \in Int /\ First(t) = First(s)
  BY <1>1, RunEnds DEF First
<1>4. Step("num", First(s), m, First(s))
  BY DEF Step
<1>5. Run("out", t.sent, x, w2) /\ Run("num", t.sent, n, First(s))
  BY <1>1, <1>3, <1>4, RunAppend
<1> QED BY <1>2, <1>3, <1>5 DEF Spoken

\* Another packet is sent.
LEMMA SpokenSent ==
    ASSUME NEW s, NEW t, NEW w, NEW x, NEW n, NEW a, Spoken(s, w, x, n, a), s.queue = <<>>,
           NEW m \in ToClient(a), m.n = s.made + 1, NEW w2 \in Int, Step("out", w, m, w2),
           t.sent = Append(s.sent, m), t.queue = s.queue, t.made = s.made + 1
    PROVE  Spoken(t, w2, x, n, a)
<1>1. s.sent \in Seq(ToClient(a)) /\ s.queue \in Seq(HeldBack(a)) /\ s.made \in Nat
      /\ Run("out", s.sent, x, w) /\ Run("num", s.sent, n, First(s))
  BY DEF Spoken
<1>2. Append(s.sent, m) \in Seq(ToClient(a))
  BY <1>1
<1>3. First(s) = s.made + 1 /\ First(t) = First(s) + 1 /\ t.made + 1 = First(t) /\ t.made \in Nat
      /\ First(s) \in Int /\ First(t) \in Int
  <2>1. Len(s.queue) = 0
    BY EmptySeq
  <2> QED BY <1>1, <2>1 DEF First
<1>4. Step("num", First(s), m, First(t))
  BY <1>1, <1>3 DEF Step
<1>5. Run("out", t.sent, x, w2) /\ Run("num", t.sent, n, First(t))
  BY <1>1, <1>3, <1>4, RunAppend
<1>6. Run("num", t.queue, First(t), t.made + 1)
  BY <1>3, RunEmpty
<1> QED BY <1>1, <1>2, <1>3, <1>5, <1>6 DEF Spoken

\* A packet is held back.
LEMMA SpokenHeld ==
    ASSUME NEW s, NEW t, NEW w, NEW x, NEW n, NEW a, Spoken(s, w, x, n, a),
           NEW m \in HeldBack(a), m.n = s.made + 1,
           t.sent = s.sent, t.queue = Append(s.queue, m), t.made = s.made + 1
    PROVE  Spoken(t, w, x, n, a)
<1>1. s.sent \in Seq(ToClient(a)) /\ s.queue \in Seq(HeldBack(a)) /\ s.made \in Nat
      /\ Run("out", s.sent, x, w) /\ Run("num", s.sent, n, First(s))
      /\ Run("num", s.queue, First(s), s.made + 1)
  BY DEF Spoken
<1>2. Append(s.queue, m) \in Seq(HeldBack(a)) /\ Len(Append(s.queue, m)) = Len(s.queue) + 1
      /\ Len(s.queue) \in Nat
  BY <1>1
<1>3. First(t) = First(s) /\ t.made \in Nat
  BY <1>1, <1>2 DEF First
<1>4. Step("num", s.made + 1, m, t.made + 1)
  BY <1>1 DEF Step
<1>5. Run("num", t.queue, First(s), t.made + 1)
  BY <1>1, <1>3, <1>4, RunAppend
<1> QED BY <1>1, <1>2, <1>3, <1>5 DEF Spoken

\* What was held back is sent, outside a key exchange.
LEMMA SpokenFlush ==
    ASSUME NEW s, NEW t, NEW key \in Nat, NEW x, NEW n, NEW a, Spoken(s, 3 * key, x, n, a),
           t.queue = <<>>, t.made = s.made,
           t.sent = Cat(s.sent, [i \in DOMAIN s.queue |->
                                   [type |-> s.queue[i].type, n |-> s.queue[i].n, key |-> key]])
    PROVE  Spoken(t, 3 * key, x, n, a)
<1> DEFINE q == s.queue
           r == [i \in DOMAIN q |-> [type |-> q[i].type, n |-> q[i].n, key |-> key]]
<1>1. s.sent \in Seq(ToClient(a)) /\ q \in Seq(HeldBack(a)) /\ s.made \in Nat
      /\ Run("out", s.sent, x, 3 * key) /\ Run("num", s.sent, n, First(s))
      /\ Run("num", q, First(s), s.made + 1)
  BY DEF Spoken
<1>2. t.sent = Cat(s.sent, r)
  OBVIOUS
<1> HIDE DEF q
<1>3. DOMAIN q = 1..Len(q) /\ Len(q) \in Nat /\ \A i \in 1..Len(q) : q[i] \in HeldBack(a)
  BY <1>1
<1>4. ASSUME NEW i \in 1..Len(q)
      PROVE  /\ r[i] \in ToClient(a) /\ r[i].n = q[i].n /\ Step("out", 3 * key, r[i], 3 * key)
  <2>1. q[i] \in HeldBack(a)
    BY <1>3
  <2>2. r[i] = [type |-> q[i].type, n |-> q[i].n, key |-> key]
    BY <1>3
  <2> HIDE DEF r
  <2>3. q[i].type \in Reply /\ q[i].n \in Nat /\ OutOK(q[i], a) /\ q[i].type \notin Kex
    BY <2>1 DEF HeldBack, Held
  <2>4. r[i] \in Sent /\ r[i].type = q[i].type /\ r[i].n = q[i].n /\ r[i].key = key
    BY <2>2, <2>3 DEF Sent
  <2>5. OutOK(r[i], a)
    BY <2>3, <2>4 DEF OutOK
  <2>6. Step("out", 3 * key, r[i], 3 * key)
    BY <2>3, <2>4 DEF Step, OutFrom, Kex
  <2> QED BY <2>4, <2>5, <2>6 DEF ToClient
<1>5. r \in Seq(ToClient(a)) /\ Len(r) = Len(q)
  <2>1. r \in [1..Len(q) -> ToClient(a)]
    BY <1>3, <1>4
  <2> HIDE DEF r
  <2>2. r \in Seq(ToClient(a))
    BY <1>3, <2>1
  <2>3. Len(r) = Len(q)
    BY <1>3, <2>1, <2>2
  <2> QED BY <2>2, <2>3
<1> HIDE DEF r
<1>6. Run("out", r, 3 * key, 3 * key)
  <2>1. 3 * key \in Int
    OBVIOUS
  <2> QED BY <1>3, <1>4, <1>5, <2>1, RunStay
<1>7. Run("num", r, First(s), s.made + 1)
  <2>1. ASSUME NEW i \in 1..Len(q), NEW y \in Int, NEW z \in Int, Step("num", y, q[i], z)
        PROVE  Step("num", y, r[i], z)
    BY <1>4, <2>1 DEF Step
  <2> QED BY <1>1, <1>3, <1>5, <2>1, RunSame
<1>8. Run("out", t.sent, x, 3 * key)
  BY <1>1, <1>2, <1>5, <1>6, RunCat
<1>9. Run("num", t.sent, n, s.made + 1)
  BY <1>1, <1>2, <1>5, <1>7, RunCat
<1>10. First(t) = s.made + 1 /\ First(t) = t.made + 1 /\ First(t) \in Int
  <2>1. Len(t.queue) = 0
    BY EmptySeq
  <2> QED BY <1>1, <2>1 DEF First
<1>11. Run("num", t.queue, First(t), t.made + 1) /\ t.queue \in Seq(HeldBack(a))
  <2>1. <<>> \in Seq(HeldBack(a))
    OBVIOUS
  <2> QED BY <1>10, <2>1, RunEmpty
<1>12. t.sent \in Seq(ToClient(a))
  BY <1>1, <1>2, <1>5, CatType
<1> QED BY <1>1, <1>8, <1>9, <1>10, <1>11, <1>12 DEF Spoken

-----------------------------------------------------------------------------
(* The requests of a correct client. *)

\* The stage the server's packets have reached, and the stage of the client's that
\* it has read.
ServerWrote(s) == (3 * s.gen) + (IF s.sentkexinit /\ ~s.sentnewkeys THEN 1 ELSE 0)

ServerRead(s) ==
    (4 * s.rkey) + (IF s.sentnewkeys THEN 3
                    ELSE IF ~s.recvkexinit THEN 0 ELSE IF s.ignorenext THEN 1 ELSE 2)

Says(s, x, n, a) == Spoken(s, ServerWrote(s), x, n, a)

Flushed(s) == s.dataallowed => s.queue = <<>>

\* A wrong guess is only awaited before the key; there is one user name.
Polite(s) == (s.ignorenext => s.recvkexinit /\ ~s.sentnewkeys) /\ s.username \in {None, Me}

\* Nothing is held back outside an exchange, and everything from KEXINIT to NEWKEYS.
LEMMA SaysData ==
    ASSUME NEW s \in SesType, KexFlags(s), Flushed(s), NEW x, NEW n, NEW a \in BOOLEAN, Says(s, x, n, a),
           NEW type \in Reply, type \notin Kex \cup {"UNIMPLEMENTED"}, type = "USERAUTH_SUCCESS" => a,
           Talks(s, encrypt_packet(s, type))
    PROVE  LET t == encrypt_packet(s, type) IN Says(t, x, n, a) /\ Flushed(t)
<1> DEFINE t == encrypt_packet(s, type)
           m == [type |-> type, n |-> s.made + 1, key |-> s.tkey]
           h == [type |-> type, n |-> s.made + 1]
<1>1. /\ s.made \in Nat /\ s.gen \in Nat /\ s.tkey = s.gen /\ s.sentkexinit \in BOOLEAN
      /\ s.sentnewkeys \in BOOLEAN /\ s.dataallowed = ~(s.sentkexinit /\ ~s.sentnewkeys)
  BY DEF SesType, KexFlags
<1>2. ~packet_is_okay_kex(type)
  BY DEF packet_is_okay_kex, Kex
<1>3. m \in ToClient(a) /\ h \in HeldBack(a) /\ m.n = s.made + 1 /\ h.n = s.made + 1
  <2>1. m \in Sent /\ h \in Held
    BY <1>1 DEF Sent, Held
  <2>2. OutOK(m, a) /\ OutOK(h, a)
    BY <1>1 DEF OutOK, Kex
  <2> QED BY <2>1, <2>2 DEF ToClient, HeldBack
<1>4. ServerWrote(t) = ServerWrote(s) /\ t.dataallowed = s.dataallowed
  BY DEF Talks, SameKex, ServerWrote
<1>5. CASE s.dataallowed
  <2>1. t.sent = Append(s.sent, m) /\ t.queue = s.queue /\ t.made = s.made + 1
    BY <1>2, <1>5 DEF encrypt_packet, SesType
  <2>2. s.queue = <<>> /\ ServerWrote(s) = 3 * s.gen
    BY <1>1, <1>5 DEF Flushed, ServerWrote
  <2>3. Step("out", 3 * s.gen, m, 3 * s.gen)
    BY <1>1 DEF Step, OutFrom, Kex
  <2> HIDE DEF m, t
  <2>4. Spoken(t, 3 * s.gen, x, n, a)
    <3>1. 3 * s.gen \in Int
      BY <1>1
    <3>2. Spoken(s, 3 * s.gen, x, n, a)
      BY <2>2 DEF Says
    <3> QED BY <1>3, <2>1, <2>2, <2>3, <3>1, <3>2, SpokenSent
  <2> QED BY <1>4, <2>1, <2>2, <2>4 DEF Says, Flushed, t
<1>6. CASE ~s.dataallowed
  <2>1. t.sent = s.sent /\ t.queue = Append(s.queue, h) /\ t.made = s.made + 1
    BY <1>2, <1>6 DEF encrypt_packet, SesType
  <2> HIDE DEF h, t
  <2>2. Spoken(t, ServerWrote(s), x, n, a)
    BY <1>3, <2>1, SpokenHeld DEF Says
  <2> QED BY <1>4, <1>6, <2>2 DEF Says, Flushed, t
<1> QED BY <1>5, <1>6

\* The server has dealt with requests since b, and is ready for more.
Answered(b, t, x, n) ==
    /\ Ready(t) /\ SameKex(b, t) /\ t.ignorenext = b.ignorenext /\ (b.authdone => t.authdone)
    /\ Says(t, x, n, t.authdone) /\ Flushed(t) /\ Polite(t)

LEMMA AnsweredSend ==
    ASSUME NEW b, NEW s, NEW x, NEW n, Answered(b, s, x, n), NEW type \in Reply,
           type \notin Kex \cup {"UNIMPLEMENTED", "USERAUTH_SUCCESS"}
    PROVE  Answered(b, encrypt_packet(s, type), x, n)
<1> DEFINE t == encrypt_packet(s, type)
<1>1. Ready(s) /\ s \in SesType /\ KexFlags(s) /\ s.authdone \in BOOLEAN
  BY DEF Answered, Ready, Inv, SesType
<1>2. Talks(s, t) /\ Ready(t)
  BY <1>1, EncryptPacket, ReadySend DEF Ready, Inv, MaySend
<1>3. Says(t, x, n, s.authdone) /\ Flushed(t)
  BY <1>1, <1>2, SaysData DEF Answered
<1> HIDE DEF t
<1>4. t.authdone = s.authdone /\ t.username = s.username /\ SameKex(s, t) /\ t.ignorenext = s.ignorenext
  BY <1>2 DEF Talks, SameAuth
<1>5. SameKex(b, t) /\ Polite(t)
  BY <1>4 DEF Answered, SameKex, Polite
<1> QED BY <1>2, <1>3, <1>4, <1>5 DEF Answered, t

\* What is known of the user may change.
LEMMA AnsweredAuth ==
    ASSUME NEW b, NEW s, NEW x, NEW n, Answered(b, s, x, n), NEW t \in SesType, SameKex(s, t),
           SamePackets(s, t), t.state = s.state, t.ignorenext = s.ignorenext,
           t.authdone = s.authdone, t.username \in {None, Me}
    PROVE  Answered(b, t, x, n)
<1>1. Ready(t)
  BY ReadyAuth DEF Answered, SamePackets
<1>2. ServerWrote(t) = ServerWrote(s)
  BY DEF SameKex, ServerWrote
<1>3. Says(t, x, n, t.authdone)
  BY <1>2, SpokenSame DEF Answered, Says
<1>4. Flushed(t)
  BY DEF Answered, Flushed, SamePackets, SameKex
<1>5. SameKex(b, t) /\ Polite(t)
  BY DEF Answered, SameKex, Polite
<1> QED BY <1>1, <1>3, <1>4, <1>5 DEF Answered

\* The session goes on, or ends because of too many failures.
Outcome(b, t, x, n) == Answered(b, t, x, n) \/ t.state = "max auth tries"

LEMMA FailureAnswered ==
    ASSUME NEW b, NEW s, NEW x, NEW n, Answered(b, s, x, n), NEW incrfail \in BOOLEAN
    PROVE  Outcome(b, send_msg_userauth_failure(s, incrfail), x, n)
<1> DEFINE e == encrypt_packet(s, "USERAUTH_FAILURE")
           count == IF incrfail THEN e.failcount + 1 ELSE e.failcount
           f == [e EXCEPT !.failcount = count]
<1>1. Answered(b, e, x, n)
  BY AnsweredSend DEF Reply, Kex
<1> HIDE DEF e
<1>2. e \in SesType /\ count \in Nat
  BY <1>1 DEF Answered, Ready, Inv, SesType
<1>3. send_msg_userauth_failure(s, incrfail)
        = IF f.failcount >= maxauthtries THEN exit(f, "max auth tries") ELSE f
  BY DEF send_msg_userauth_failure, e
<1> HIDE DEF count
<1>4. f \in SesType
  BY <1>2 DEF SesType
<1>5. SameKex(e, f)
  BY <1>2 DEF SesType, SameKex
<1>6. SamePackets(e, f) /\ f.state = e.state /\ f.ignorenext = e.ignorenext /\ f.authdone = e.authdone
      /\ f.username = e.username
  BY <1>2 DEF SesType, SamePackets
<1> HIDE DEF f
<1>7. Answered(b, f, x, n)
  BY <1>1, <1>4, <1>5, <1>6, AnsweredAuth DEF Answered, Polite
<1>8. exit(f, "max auth tries").state = "max auth tries"
  BY <1>4 DEF exit, SesType
<1> QED BY <1>3, <1>7, <1>8 DEF Outcome

LEMMA SuccessAnswered ==
    ASSUME NEW b, NEW s, NEW x, NEW n, Answered(b, s, x, n)
    PROVE  Outcome(b, send_msg_userauth_success(s), x, n)
<1> DEFINE e == encrypt_packet(s, "USERAUTH_SUCCESS")
           f == [e EXCEPT !.authdone = TRUE]
<1>1. Ready(s) /\ s \in SesType /\ KexFlags(s) /\ s.authdone \in BOOLEAN /\ "USERAUTH_SUCCESS" \in Reply
  BY DEF Answered, Ready, Inv, SesType, Reply
<1>2. Talks(s, e) /\ Ready(e)
  BY <1>1, EncryptPacket, ReadySend DEF Ready, Inv, MaySend
<1>3. Says(s, x, n, TRUE)
  BY <1>1, SpokenMore DEF Answered, Says
<1>4. Says(e, x, n, TRUE) /\ Flushed(e)
  BY <1>1, <1>2, <1>3, SaysData DEF Answered, Kex
<1>5. send_msg_userauth_success(s) = f
  BY DEF send_msg_userauth_success
<1> HIDE DEF e
<1>6. e \in SesType
  BY <1>2 DEF Talks
<1>7. f \in SesType
  BY <1>6 DEF SesType
<1>8. SameKex(e, f)
  BY <1>6 DEF SesType, SameKex
<1>9. SamePackets(e, f) /\ f.state = e.state /\ f.ignorenext = e.ignorenext /\ f.authdone = TRUE
      /\ f.username = e.username
  BY <1>6 DEF SesType, SamePackets
<1> HIDE DEF f
<1>10. Ready(f)
  BY <1>2, <1>7, <1>8, <1>9, ReadyAuth DEF SamePackets
<1>11. ServerWrote(f) = ServerWrote(e)
  BY <1>8 DEF SameKex, ServerWrote
<1>12. Says(f, x, n, f.authdone) /\ Flushed(f)
  BY <1>4, <1>8, <1>9, <1>11, SpokenSame DEF Says, Flushed, SamePackets, SameKex
<1>13. SameKex(b, f) /\ Polite(f) /\ f.ignorenext = b.ignorenext
  BY <1>2, <1>8, <1>9 DEF Answered, Talks, SameKex, SameAuth, Polite
<1> QED BY <1>5, <1>9, <1>10, <1>12, <1>13 DEF Outcome, Answered

LEMMA MyName == Me \in Name /\ Me \notin {"too_long", "with_nul"}
BY PairAssumption DEF Me

LEMMA RequestAnswered ==
    ASSUME NEW s, NEW x, NEW n, Answered(s, s, x, n), NEW p, p.known, p.user = Me
    PROVE  Outcome(s, recv_msg_userauth_request(s, p), x, n)
<1> DEFINE e == encrypt_packet(s, "USERAUTH_BANNER")
           f == [e EXCEPT !.banner = FALSE]
           b == IF s.banner THEN f ELSE s
           c == [b EXCEPT !.username = Me]
<1>1. Answered(s, b, x, n)
  <2>1. CASE s.banner
    <3>1. Answered(s, e, x, n)
      BY AnsweredSend DEF Reply, Kex
    <3> HIDE DEF e
    <3>2. e \in SesType
      BY <3>1 DEF Answered, Ready, Inv
    <3>3. f \in SesType
      BY <3>2 DEF SesType
    <3>4. SameKex(e, f)
      BY <3>2 DEF SesType, SameKex
    <3>5. SamePackets(e, f) /\ f.state = e.state /\ f.ignorenext = e.ignorenext /\ f.authdone = e.authdone
          /\ f.username = e.username
      BY <3>2 DEF SesType, SamePackets
    <3> HIDE DEF f
    <3>6. Answered(s, f, x, n)
      BY <3>1, <3>3, <3>4, <3>5, AnsweredAuth DEF Answered, Polite
    <3> QED BY <2>1, <3>6
  <2> QED BY <2>1
<1>2. recv_msg_userauth_request(s, p)
        = LET d == IF p.known THEN checkusername(b, p.user) ELSE exit(b, "unknown service")
          IN  IF s.authdone THEN s
              ELSE IF d.state # "run" THEN d
              ELSE IF p.method = "none" THEN send_msg_userauth_failure(d, FALSE)
              ELSE IF s.authtypes = "password" /\ p.method \in {"password_right", "password_wrong"}
              THEN svr_auth_password(d, p.method)
              ELSE IF p.method \in {"key_unknown", "key_query", "key_signed", "key_forged"}
              THEN svr_auth_pubkey(d, p.user # "too_long", p.method)
              ELSE send_msg_userauth_failure(d, TRUE)
  BY DEF recv_msg_userauth_request
<1> HIDE DEF b
<1>3. b \in SesType /\ b.username \in {None, Me} /\ b.state = "run"
  BY <1>1 DEF Answered, Ready, Inv, Polite
<1>4. checkusername(b, p.user) = c
  BY <1>3, MyName DEF checkusername
<1>5. c \in SesType
  BY <1>3, MyName DEF SesType
<1>6. SameKex(b, c)
  BY <1>3 DEF SesType, SameKex
<1>7. SamePackets(b, c) /\ c.state = b.state /\ c.ignorenext = b.ignorenext /\ c.authdone = b.authdone
      /\ c.username = Me
  BY <1>3 DEF SesType, SamePackets
<1> HIDE DEF c
<1>8. Answered(s, c, x, n)
  BY <1>1, <1>5, <1>6, <1>7, AnsweredAuth
<1>9. Outcome(s, send_msg_userauth_failure(c, FALSE), x, n) /\ Outcome(s, send_msg_userauth_failure(c, TRUE), x, n)
  BY <1>8, FailureAnswered
<1>10. Outcome(s, send_msg_userauth_success(c), x, n)
  BY <1>8, SuccessAnswered
<1>11. Outcome(s, encrypt_packet(c, "USERAUTH_PK_OK"), x, n)
  BY <1>8, AnsweredSend DEF Outcome, Reply, Kex
<1>12. Outcome(s, svr_auth_password(c, p.method), x, n)
  BY <1>9, <1>10 DEF svr_auth_password
<1>13. Outcome(s, svr_auth_pubkey(c, p.user # "too_long", p.method), x, n)
  BY <1>9, <1>10, <1>11 DEF svr_auth_pubkey
<1>14. Outcome(s, s, x, n)
  BY DEF Outcome
<1>15. c.state = "run"
  BY <1>3, <1>7
<1> QED BY <1>2, <1>4, <1>9, <1>12, <1>13, <1>14, <1>15

-----------------------------------------------------------------------------
(* The packets of a correct client. *)

\* The server at the beginning of a round, or between two packets.
Serving(s, x, n) ==
    /\ Inv(s) /\ s.state = "run" /\ Polite(s) /\ Flushed(s) /\ Says(s, x, n, s.authdone)

\* It has handled a packet that leads to stage y of what it reads.
Processed(b, t, x, n, y) ==
    \/ t.state = "max auth tries"
    \/ /\ Inv(t) /\ t.state = "run" /\ Polite(t) /\ Says(t, x, n, t.authdone)
       /\ ServerRead(t) = y /\ (b.authdone => t.authdone)

Stage(s) ==
    IF s.sentnewkeys THEN 3 ELSE IF ~s.recvkexinit THEN 0 ELSE IF s.ignorenext THEN 1 ELSE 2

\* A packet that fits the stage of the server has its keys.
LEMMA InStage ==
    ASSUME NEW s \in SesType, NEW a, NEW m \in ToServer(a), NEW y, Step("in", ServerRead(s), m, y)
    PROVE  m.key = s.rkey /\ InFrom(m.p) = Stage(s) /\ y = (4 * s.rkey) + InTo(m.p)
<1>1. m.key \in Nat /\ s.rkey \in Nat
  BY DEF ToServer, SesType
<1>2. InFrom(m.p) \in 0..3 /\ Stage(s) \in 0..3
  BY DEF InFrom, Stage
<1>3. ServerRead(s) = (4 * s.rkey) + Stage(s)
  BY DEF ServerRead, Stage
<1>4. ServerRead(s) = (4 * m.key) + InFrom(m.p) /\ y = (4 * m.key) + InTo(m.p)
  BY DEF Step
<1>5. m.key = s.rkey /\ InFrom(m.p) = Stage(s)
  BY <1>1, <1>2, <1>3, <1>4
<1> QED BY <1>4, <1>5

\* The filter forgets what it required.
LEMMA Unrequired ==
    ASSUME NEW s \in SesType
    PROVE  LET r == [s EXCEPT !.requirenext = None]
           IN  /\ r \in SesType /\ Rest(s, r) /\ r.requirenext = None /\ r.state = s.state
               /\ r.ignorenext = s.ignorenext /\ r.gen = s.gen /\ r.rkey = s.rkey /\ r.tkey = s.tkey
               /\ r.sentkexinit = s.sentkexinit /\ r.recvkexinit = s.recvkexinit
               /\ r.sentnewkeys = s.sentnewkeys /\ r.dataallowed = s.dataallowed
               /\ (KexFlags(s) => KexFlags(r))
               /\ (CredentialsEncrypted(s) => CredentialsEncrypted(r))
               /\ (SentEncrypted(s) => SentEncrypted(r))
<1> DEFINE r == [s EXCEPT !.requirenext = None]
<1>1. r \in SesType
  BY DEF SesType
<1>2. /\ r.requirenext = None /\ r.state = s.state
      /\ r.ignorenext = s.ignorenext /\ r.gen = s.gen /\ r.rkey = s.rkey /\ r.tkey = s.tkey
      /\ r.sentkexinit = s.sentkexinit /\ r.recvkexinit = s.recvkexinit
      /\ r.sentnewkeys = s.sentnewkeys /\ r.dataallowed = s.dataallowed
      /\ r.recvnewkeys = s.recvnewkeys /\ r.transkexinit = s.transkexinit
      /\ r.kexhashbuf = s.kexhashbuf /\ r.newkeys = s.newkeys
  BY DEF SesType
<1>3. Rest(s, r)
  BY DEF SesType, Rest, SamePackets, SameAuth
<1> HIDE DEF r
<1>4. KexFlags(s) => KexFlags(r)
  BY <1>2 DEF KexFlags
<1>5. CredentialsEncrypted(s) => CredentialsEncrypted(r)
  BY <1>2, <1>3 DEF CredentialsEncrypted, Rest, SameAuth
<1>6. SentEncrypted(s) => SentEncrypted(r)
  BY <1>3 DEF SentEncrypted, Rest, SamePackets
<1> QED BY <1>1, <1>2, <1>3, <1>4, <1>5, <1>6 DEF r

\* send_msg_kexinit() outside an exchange.
LEMMA SaysKexinit ==
    ASSUME NEW s, KexIdle(s), s.dataallowed, s.queue = <<>>, NEW x, NEW n, NEW a, Says(s, x, n, a)
    PROVE  LET t == send_msg_kexinit(s)
           IN  Says(t, x, n, a) /\ SameAuth(s, t) /\ t.ignorenext = s.ignorenext
<1> DEFINE e == encrypt_packet(s, "KEXINIT")
           m == [type |-> "KEXINIT", n |-> s.made + 1, key |-> s.tkey]
           t == send_msg_kexinit(s)
<1>1. s \in SesType /\ SentEncrypted(s) /\ MaySend(s, "KEXINIT") /\ "KEXINIT" \in Reply
      /\ ~s.sentkexinit /\ s.tkey = s.gen
  BY DEF KexIdle, MaySend, Reply
<1>2. SameAuth(s, e)
  BY <1>1, EncryptPacket DEF Talks
<1>3. e.sent = Append(s.sent, m) /\ e.queue = s.queue /\ e.made = s.made + 1
  BY <1>1 DEF encrypt_packet, packet_is_okay_kex, SesType
<1>4. /\ t.sentkexinit /\ ~t.sentnewkeys /\ t.gen = s.gen /\ t.ignorenext = s.ignorenext /\ Rest(e, t)
  BY SendKexinit
<1>5. s.gen \in Nat /\ s.made \in Nat
  BY <1>1 DEF SesType
<1>6. m \in ToClient(a) /\ m.n = s.made + 1
  BY <1>1, <1>5 DEF ToClient, OutOK, Sent
<1>7. Step("out", 3 * s.gen, m, (3 * s.gen) + 1)
  BY <1>1, <1>5 DEF Step, OutFrom, Kex
<1>8. ServerWrote(s) = 3 * s.gen /\ ServerWrote(t) = (3 * s.gen) + 1
  BY <1>1, <1>4, <1>5 DEF ServerWrote
<1> HIDE DEF e, m, t
<1>9. Spoken(e, (3 * s.gen) + 1, x, n, a)
  <2>1. (3 * s.gen) + 1 \in Int
    BY <1>5
  <2>2. Spoken(s, 3 * s.gen, x, n, a)
    BY <1>8 DEF Says
  <2> QED BY <1>3, <1>6, <1>7, <2>1, <2>2, SpokenSent
<1>10. Says(t, x, n, a)
  BY <1>4, <1>8, <1>9, SpokenSame DEF Says, Rest
<1>11. SameAuth(s, t)
  BY <1>2, <1>4 DEF Rest, SameAuth
<1> QED BY <1>4, <1>10, <1>11 DEF t

LEMMA KexinitProcessed ==
    ASSUME NEW s, NEW x, NEW n, Serving(s, x, n), NEW m \in ToServer(s.authdone), m.p.type = "KEXINIT",
           NEW y, Step("in", ServerRead(s), m, y)
    PROVE  Processed(s, process_packet(s, m.p), x, n, y)
<1> DEFINE p == m.p
           r == [s EXCEPT !.requirenext = None]
           o == IF r.sentkexinit THEN r ELSE send_msg_kexinit(r)
           t == recv_msg_kexinit(r, p)
<1>1. s \in SesType /\ KexFlags(s) /\ KexNext(s) /\ CredentialsEncrypted(s) /\ SentEncrypted(s)
      /\ s.state = "run"
  BY DEF Serving, Inv
<1>2. Stage(s) = 0 /\ y = (4 * s.rkey) + InTo(p) /\ InTo(p) = IF p.guess = "wrong" THEN 1 ELSE 2
  BY <1>1, InStage DEF InFrom, InTo
<1>3. ~s.sentnewkeys /\ ~s.recvkexinit
  BY <1>2 DEF Stage
<1>4. s.ignorenext = FALSE
  BY <1>1, <1>3 DEF Serving, Polite, SesType
<1>5. s.requirenext \in {None, "KEXINIT"}
  BY <1>1, <1>3 DEF KexNext
<1>6. process_packet(s, p) = t
  BY <1>4, <1>5 DEF process_packet, Connection, Handle
<1>7. /\ Core(r) /\ ~r.recvkexinit /\ ~r.sentnewkeys /\ Rest(s, r) /\ r.ignorenext = FALSE
      /\ r.gen = s.gen /\ r.rkey = s.rkey /\ r.sentkexinit = s.sentkexinit /\ r.dataallowed = s.dataallowed
  BY <1>1, <1>3, <1>4, Unrequired DEF Core
<1>8. p.match
  BY DEF ToServer, InOK
<1> HIDE DEF r, p
<1>9. /\ Inv(t) /\ t.state = "run" /\ t.gen = r.gen /\ t.rkey = r.rkey
      /\ t.sentkexinit /\ t.recvkexinit /\ ~t.sentnewkeys
      /\ t.ignorenext = (r.ignorenext \/ p.guess = "wrong") /\ Rest(o, t)
  BY <1>7, <1>8, RecvKexinit
<1>10. Says(o, x, n, s.authdone) /\ SameAuth(s, o)
       /\ ServerWrote(o) = (3 * s.gen) + 1
  <2>1. ServerWrote(r) = ServerWrote(s)
    BY <1>3, <1>7 DEF ServerWrote
  <2>2. Says(r, x, n, s.authdone)
    BY <1>7, <2>1, SpokenSame DEF Serving, Says, Rest
  <2>3. CASE r.sentkexinit
    BY <1>7, <2>2, <2>3 DEF ServerWrote, Rest
  <2>4. CASE ~r.sentkexinit
    <3>1. KexIdle(r) /\ r.dataallowed
      BY <1>7, <2>4 DEF KexIdle, Core, KexFlags, SesType
    <3>2. r.queue = <<>>
      BY <1>7, <3>1 DEF Serving, Flushed, Rest, SamePackets
    <3>3. Says(o, x, n, s.authdone) /\ SameAuth(r, o)
      BY <2>2, <2>4, <3>1, <3>2, SaysKexinit
    <3>4. o.sentkexinit /\ ~o.sentnewkeys /\ o.gen = r.gen
      BY <2>4, <3>1, SendKexinit
    <3>5. SameAuth(s, o)
      BY <1>7, <3>3 DEF Rest, SameAuth
    <3> QED BY <1>7, <3>3, <3>4, <3>5 DEF ServerWrote
  <2> QED BY <2>3, <2>4
<1> HIDE DEF o, t
<1>11. Says(t, x, n, s.authdone) /\ SameAuth(s, t)
  <2>1. ServerWrote(t) = (3 * s.gen) + 1
    BY <1>7, <1>9 DEF ServerWrote
  <2> QED BY <1>9, <1>10, <2>1, SpokenSame DEF Says, Rest, SameAuth
<1>12. ServerRead(t) = y
  BY <1>2, <1>7, <1>9 DEF ServerRead
<1>13. Polite(t)
  BY <1>9, <1>11 DEF Serving, Polite, SameAuth
<1> QED BY <1>6, <1>9, <1>11, <1>12, <1>13 DEF Processed, SameAuth, p

\* The packet that followed a wrong guess is left unread.
LEMMA GuessProcessed ==
    ASSUME NEW s, NEW x, NEW n, Serving(s, x, n), NEW m \in ToServer(s.authdone),
           m.p.type = "KEXDH_INIT", ~m.p.valid, NEW y, Step("in", ServerRead(s), m, y)
    PROVE  Processed(s, process_packet(s, m.p), x, n, y)
<1> DEFINE t == [s EXCEPT !.ignorenext = FALSE]
<1>1. s \in SesType /\ KexFlags(s) /\ KexNext(s) /\ CredentialsEncrypted(s) /\ SentEncrypted(s)
      /\ s.state = "run"
  BY DEF Serving, Inv
<1>2. Stage(s) = 1 /\ y = (4 * s.rkey) + 2
  BY <1>1, InStage DEF InFrom, InTo
<1>3. ~s.sentnewkeys /\ s.recvkexinit /\ s.ignorenext
  BY <1>2 DEF Stage
<1>4. s.requirenext = "KEXDH_INIT"
  BY <1>1, <1>3 DEF KexNext
<1>5. process_packet(s, m.p) = t
  BY <1>3, <1>4 DEF process_packet
<1>6. t \in SesType
  BY <1>1 DEF SesType
<1>7. SameKex(s, t)
  BY <1>1 DEF SesType, SameKex
<1>8. Rest(s, t) /\ t.state = s.state /\ t.ignorenext = FALSE
  BY <1>1 DEF SesType, Rest, SamePackets, SameAuth
<1> HIDE DEF t
<1>9. KexFlags(t) /\ KexNext(t)
  BY <1>1, <1>7 DEF SameKex, KexFlags, KexNext
<1>10. CredentialsEncrypted(t) /\ SentEncrypted(t)
  BY <1>1, <1>7, <1>8 DEF SameKex, CredentialsEncrypted, SentEncrypted, Rest, SameAuth, SamePackets
<1>11. Inv(t)
  BY <1>1, <1>6, <1>8, <1>9, <1>10 DEF Inv
<1>12. ServerWrote(t) = ServerWrote(s) /\ ServerRead(t) = y
  BY <1>2, <1>3, <1>7, <1>8 DEF SameKex, ServerWrote, ServerRead
<1>13. Says(t, x, n, t.authdone) /\ Polite(t) /\ t.authdone = s.authdone
  BY <1>8, <1>12, SpokenSame DEF Serving, Says, Polite, Rest, SameAuth
<1> QED BY <1>1, <1>5, <1>8, <1>11, <1>12, <1>13 DEF Processed

LEMMA KexdhProcessed ==
    ASSUME NEW s, NEW x, NEW n, Serving(s, x, n), NEW m \in ToServer(s.authdone),
           m.p.type = "KEXDH_INIT", m.p.valid, NEW y, Step("in", ServerRead(s), m, y)
    PROVE  Processed(s, process_packet(s, m.p), x, n, y)
<1> DEFINE p == m.p
           r == [s EXCEPT !.requirenext = None]
           e == encrypt_packet(r, "KEXDH_REPLY")
           h == [e EXCEPT !.kexhashbuf = FALSE]
           k == encrypt_packet(h, "NEWKEYS")
           t == recv_msg_kexdh_init(r, p)
           m1 == [type |-> "KEXDH_REPLY", n |-> 0, key |-> s.gen]
           m2 == [type |-> "NEWKEYS", n |-> 0, key |-> s.gen]
<1>1. s \in SesType /\ KexFlags(s) /\ KexNext(s) /\ CredentialsEncrypted(s) /\ SentEncrypted(s)
      /\ s.state = "run"
  BY DEF Serving, Inv
<1>2. Stage(s) = 2 /\ y = (4 * s.rkey) + 3
  BY <1>1, InStage DEF InFrom, InTo
<1>3. ~s.sentnewkeys /\ s.recvkexinit /\ ~s.ignorenext
  BY <1>2 DEF Stage
<1>4. s.requirenext = "KEXDH_INIT"
  BY <1>1, <1>3 DEF KexNext
<1>5. process_packet(s, p) = t
  BY <1>3, <1>4 DEF process_packet, Connection, Handle
<1>6. /\ Core(r) /\ r.recvkexinit /\ ~r.sentnewkeys /\ Rest(s, r) /\ r.ignorenext = s.ignorenext
      /\ r.gen = s.gen /\ r.rkey = s.rkey /\ r.sentkexinit = s.sentkexinit /\ r.tkey = s.tkey
      /\ r \in SesType
  BY <1>1, <1>3, Unrequired DEF Core
<1> HIDE DEF r
<1>7. /\ Inv(t) /\ t.state = "run" /\ t.gen = r.gen + 1 /\ t.rkey = r.rkey
      /\ t.sentkexinit /\ t.recvkexinit /\ t.sentnewkeys
      /\ t.ignorenext = r.ignorenext /\ SameAuth(r, t)
      /\ h \in SesType /\ SamePackets(e, h) /\ h.tkey = r.gen /\ SamePackets(k, t)
  BY <1>6, RecvKexdhInit
<1>8. s.gen \in Nat /\ s.tkey = s.gen /\ s.sentkexinit
  BY <1>1, <1>3 DEF SesType, KexFlags
<1>9. m1 \in ToClient(s.authdone) /\ m2 \in ToClient(s.authdone) /\ m1.n = 0 /\ m2.n = 0
  BY <1>8 DEF ToClient, OutOK, Sent, Reply
<1>10. Step("out", (3 * s.gen) + 1, m1, (3 * s.gen) + 2) /\ Step("out", (3 * s.gen) + 2, m2, (3 * s.gen) + 3)
  BY <1>8 DEF Step, OutFrom, Kex
<1>11. ServerWrote(s) = (3 * s.gen) + 1 /\ ServerWrote(t) = (3 * s.gen) + 3
  BY <1>3, <1>6, <1>7, <1>8 DEF ServerWrote
<1>12. e.sent = Append(r.sent, m1) /\ e.queue = r.queue /\ e.made = r.made
  BY <1>6, <1>8 DEF encrypt_packet, packet_is_okay_kex, SesType
<1>13. k.sent = Append(h.sent, m2) /\ k.queue = h.queue /\ k.made = h.made
  <2> HIDE DEF h
  <2> QED BY <1>6, <1>7 DEF encrypt_packet, packet_is_okay_kex, SesType
<1> HIDE DEF e, h, k, t, m1, m2
<1>14. Spoken(r, (3 * s.gen) + 1, x, n, s.authdone)
  BY <1>6, <1>11, SpokenSame DEF Serving, Says, Rest
<1>15. (3 * s.gen) + 2 \in Int /\ (3 * s.gen) + 3 \in Int
  BY <1>8
<1>16. Spoken(e, (3 * s.gen) + 2, x, n, s.authdone)
  BY <1>9, <1>10, <1>12, <1>14, <1>15, SpokenKex
<1>17. Spoken(h, (3 * s.gen) + 2, x, n, s.authdone)
  BY <1>7, <1>16, SpokenSame
<1>18. Spoken(k, (3 * s.gen) + 3, x, n, s.authdone)
  BY <1>9, <1>10, <1>13, <1>15, <1>17, SpokenKex
<1>19. Says(t, x, n, s.authdone)
  BY <1>7, <1>11, <1>18, SpokenSame DEF Says
<1>20. t.authdone = s.authdone /\ t.username = s.username
  BY <1>6, <1>7 DEF Rest, SameAuth
<1>21. ServerRead(t) = y /\ Polite(t)
  BY <1>2, <1>3, <1>6, <1>7, <1>20 DEF ServerRead, Serving, Polite
<1> QED BY <1>5, <1>7, <1>19, <1>20, <1>21 DEF Processed

LEMMA NewkeysProcessed ==
    ASSUME NEW s, NEW x, NEW n, Serving(s, x, n), NEW m \in ToServer(s.authdone),
           m.p.type = "NEWKEYS", NEW y, Step("in", ServerRead(s), m, y)
    PROVE  Processed(s, process_packet(s, m.p), x, n, y)
<1> DEFINE r == [s EXCEPT !.requirenext = None]
           t == recv_msg_newkeys(r)
<1>1. s \in SesType /\ KexFlags(s) /\ KexNext(s) /\ CredentialsEncrypted(s) /\ SentEncrypted(s)
      /\ s.state = "run"
  BY DEF Serving, Inv
<1>2. Stage(s) = 3 /\ y = (4 * s.rkey) + 4
  BY <1>1, InStage DEF InFrom, InTo
<1>3. s.sentnewkeys
  BY <1>2 DEF Stage
<1>4. s.requirenext = "NEWKEYS" /\ s.ignorenext = FALSE /\ s.recvkexinit
  BY <1>1, <1>3 DEF KexNext, Serving, Polite, SesType, KexFlags
<1>5. process_packet(s, m.p) = t
  BY <1>4 DEF process_packet, Connection, Handle
<1>6. /\ Core(r) /\ r.recvkexinit /\ r.sentnewkeys /\ Rest(s, r) /\ r.ignorenext = FALSE
      /\ r.requirenext = None /\ r.gen = s.gen /\ r.rkey = s.rkey
  BY <1>1, <1>3, <1>4, Unrequired DEF Core
<1> HIDE DEF r
<1>7. /\ Inv(t) /\ t.state = "run" /\ t.gen = r.gen /\ t.rkey = r.gen
      /\ ~t.sentkexinit /\ ~t.recvkexinit /\ ~t.sentnewkeys
      /\ t.ignorenext = r.ignorenext /\ Rest(r, t)
  BY <1>6, RecvNewkeys
<1> HIDE DEF t
<1>8. s.gen = s.rkey + 1 /\ s.rkey \in Nat
  BY <1>1, <1>3 DEF KexFlags, SesType
<1>9. ServerRead(t) = y /\ ServerWrote(t) = ServerWrote(s)
  BY <1>2, <1>3, <1>6, <1>7, <1>8 DEF ServerRead, ServerWrote
<1>10. SamePackets(s, t) /\ t.authdone = s.authdone /\ t.username = s.username
  BY <1>6, <1>7 DEF Rest, SamePackets, SameAuth
<1>11. Says(t, x, n, t.authdone) /\ Polite(t)
  BY <1>6, <1>7, <1>9, <1>10, SpokenSame DEF Serving, Says, Polite
<1> QED BY <1>5, <1>7, <1>9, <1>10, <1>11 DEF Processed

LEMMA RequestProcessed ==
    ASSUME NEW s, NEW x, NEW n, Serving(s, x, n), NEW m \in ToServer(s.authdone),
           m.p.type \in Request, NEW y, Step("in", ServerRead(s), m, y)
    PROVE  Processed(s, process_packet(s, m.p), x, n, y)
<1> DEFINE p == m.p
           r == [s EXCEPT !.requirenext = None]
           t == Handle(s, p)
<1>1. s \in SesType /\ KexFlags(s) /\ KexNext(s) /\ s.state = "run" /\ s.rkey \in Nat
  BY DEF Serving, Inv, SesType
<1>2. Stage(s) = 0 /\ y = 4 * s.rkey /\ s.rkey > 0
  <2>1. InFrom(p) = 0 /\ InTo(p) = 0 /\ m.key > 0
    BY DEF InFrom, InTo, Request, ToServer, InOK
  <2> QED BY <1>1, <2>1, InStage
<1>3. ~s.sentnewkeys /\ ~s.recvkexinit
  BY <1>2 DEF Stage
<1>4. s.ignorenext = FALSE /\ s.gen = s.rkey /\ s.tkey = s.gen
  BY <1>1, <1>3 DEF Serving, Polite, SesType, KexFlags
<1>5. s.requirenext = None
  BY <1>1, <1>2, <1>3, <1>4 DEF KexNext
<1>6. r = s
  BY <1>1, <1>5 DEF SesType
<1>7. ~s.authdone => p.type \notin Connection
  BY DEF ToServer, InOK, Connection, Request
<1>8. process_packet(s, p) = t
  BY <1>4, <1>5, <1>6, <1>7 DEF process_packet, Request
<1>9. Answered(s, s, x, n)
  <2>1. Ready(s)
    BY <1>1, <1>2, <1>4 DEF Serving, Ready
  <2> QED BY <2>1 DEF Answered, Serving, SameKex
<1>10. Outcome(s, t, x, n)
  <2>1. CASE p.type = "SERVICE_REQUEST"
    <3>1. t = encrypt_packet(s, "SERVICE_ACCEPT")
      BY <2>1 DEF Handle, recv_msg_service_request, ToServer, InOK
    <3> QED BY <1>9, <3>1, AnsweredSend DEF Outcome, Reply, Kex
  <2>2. CASE p.type = "USERAUTH_REQUEST"
    <3>1. t = recv_msg_userauth_request(s, p)
      BY <2>2 DEF Handle
    <3>2. p.known /\ p.user = Me
      BY <2>2 DEF ToServer, InOK
    <3> QED BY <1>9, <3>1, <3>2, RequestAnswered
  <2>3. CASE p.type = "GLOBAL_REQUEST"
    <3>1. t = recv_msg_global_request_remotetcp(s, p)
      BY <2>3 DEF Handle
    <3>2. p.answer \in {"REQUEST_SUCCESS", "REQUEST_FAILURE", "none"}
      BY <2>3 DEF ToServer, Packet
    <3>3. Answered(s, encrypt_packet(s, "REQUEST_SUCCESS"), x, n)
          /\ Answered(s, encrypt_packet(s, "REQUEST_FAILURE"), x, n)
      BY <1>9, AnsweredSend DEF Reply, Kex
    <3> QED BY <1>9, <3>1, <3>2, <3>3 DEF recv_msg_global_request_remotetcp, Outcome
  <2> QED BY <2>1, <2>2, <2>3 DEF Request
<1> HIDE DEF t
<1>11. ASSUME Answered(s, t, x, n)
       PROVE  Processed(s, t, x, n, y)
  <2>1. ServerRead(t) = y
    BY <1>2, <1>3, <1>11 DEF Answered, SameKex, ServerRead
  <2> QED BY <1>11, <2>1 DEF Processed, Answered, Ready
<1> QED BY <1>8, <1>10, <1>11 DEF Outcome, Processed

\* Every packet of a correct client.
LEMMA PacketProcessed ==
    ASSUME NEW s, NEW x, NEW n, Serving(s, x, n), NEW m \in ToServer(s.authdone),
           NEW y, Step("in", ServerRead(s), m, y)
    PROVE  Processed(s, process_packet(s, m.p), x, n, y)
<1>1. m.p.type \in {"KEXINIT", "KEXDH_INIT", "NEWKEYS"} \cup Request
  BY DEF ToServer, InOK
<1> QED BY <1>1, KexinitProcessed, GuessProcessed, KexdhProcessed, NewkeysProcessed, RequestProcessed

\* The end of the round.
LEMMA RoundServes ==
    ASSUME NEW b, NEW s, NEW x, NEW n, NEW y, Processed(b, s, x, n, y)
    PROVE  LET t == Round(s)
           IN  \/ t.state = "max auth tries"
               \/ Serving(t, x, n) /\ ServerRead(t) = y /\ (b.authdone => t.authdone)
<1> DEFINE t == Round(s)
           f == maybe_flush_reply_queue(s)
<1>1. CASE s.state = "max auth tries"
  <2>1. t = [s EXCEPT !.sent = <<>>]
    BY <1>1 DEF Round
  <2>2. t.state = s.state
    BY <2>1
  <2> QED BY <1>1, <2>2
<1>2. CASE s.state # "max auth tries"
  <2>1. Inv(s) /\ s.state = "run" /\ Polite(s) /\ Says(s, x, n, s.authdone)
        /\ ServerRead(s) = y /\ (b.authdone => s.authdone)
    BY <1>2 DEF Processed
  <2>2. t = f
    BY <2>1 DEF Round
  <2>3. Talks(s, f)
    BY <2>1, KeysInUse, Flush DEF Inv
  <2>4. s \in SesType /\ KexFlags(s) /\ s.gen \in Nat
    BY <2>1 DEF Inv, SesType
  <2>5. Inv(f) /\ SameKex(s, f) /\ SameAuth(s, f) /\ f.state = "run" /\ f.ignorenext = s.ignorenext
    BY <2>1, <2>3, TalksInv DEF Talks
  <2>6. ServerWrote(f) = ServerWrote(s) /\ ServerRead(f) = y /\ Polite(f) /\ f.authdone = s.authdone
        /\ f.dataallowed = s.dataallowed
    BY <2>1, <2>5 DEF ServerWrote, ServerRead, Polite, SameKex, SameAuth
  <2>7. CASE s.dataallowed
    <3>1. s.tkey = s.gen /\ ServerWrote(s) = 3 * s.gen
      <4>1. s.tkey = s.gen /\ s.dataallowed = ~(s.sentkexinit /\ ~s.sentnewkeys)
        BY <2>4 DEF KexFlags
      <4>2. ~(s.sentkexinit /\ ~s.sentnewkeys)
        BY <2>7, <4>1
      <4> QED BY <2>4, <4>1, <4>2 DEF ServerWrote
    <3>2. /\ f.queue = <<>> /\ f.made = s.made
          /\ f.sent = Cat(s.sent, [i \in DOMAIN s.queue |->
                                   [type |-> s.queue[i].type, n |-> s.queue[i].n, key |-> s.gen]])
      BY <2>4, <2>7, <3>1 DEF maybe_flush_reply_queue, SesType, Cat
    <3> HIDE DEF f
    <3>3. Spoken(s, 3 * s.gen, x, n, s.authdone)
      BY <2>1, <3>1 DEF Says
    <3>4. Spoken(f, 3 * s.gen, x, n, s.authdone)
      BY <2>4, <3>2, <3>3, SpokenFlush
    <3>5. Says(f, x, n, f.authdone) /\ Flushed(f)
      BY <2>6, <3>1, <3>2, <3>4 DEF Says, Flushed
    <3> QED BY <2>1, <2>2, <2>5, <2>6, <3>5 DEF Serving
  <2>8. CASE ~s.dataallowed
    <3>1. f = s
      BY <2>8 DEF maybe_flush_reply_queue
    <3> QED BY <2>1, <2>2, <2>8, <3>1 DEF Serving, Flushed
  <2> QED BY <2>7, <2>8
<1> QED BY <1>1, <1>2

-----------------------------------------------------------------------------
(* The two ends together. *)

ClientType ==
    [kex : {"none", "init", "dh", "new"}, got : BOOLEAN, guess : {"none", "right", "wrong"},
     gen : Nat, ckey : Nat, skey : Nat, expect : Int, phase : {"service", "auth", "connection"},
     waiting : Int]

\* The stage the client's packets have reached, and the stage of the server's that
\* it has read.
ClientWrote(c) ==
    (4 * c.ckey) + (IF c.kex = "dh" \/ (c.kex = "init" /\ c.guess = "right") THEN 3
                    ELSE IF c.kex = "init" THEN 2 ELSE 0)

ClientStage(c) == IF c.kex = "new" THEN 2 ELSE IF c.got THEN 1 ELSE 0

ClientRead(c) == (3 * c.gen) + ClientStage(c)

ClientOK(c, a) ==
    /\ c \in ClientType /\ c.skey = c.gen /\ c.ckey = IF c.kex = "new" THEN c.gen + 1 ELSE c.gen
    /\ c.kex \in {"dh", "new"} => c.got
    /\ c.phase = "connection" => a

ServerOK(s) ==
    /\ Inv(s) /\ s.state = "run" /\ Polite(s) /\ Flushed(s)
    /\ s.queue \in Seq(HeldBack(s.authdone))
    /\ Run("num", s.queue, First(s), s.made + 1)

\* What is under way leads from where its reader is to where its writer is.
Linked(s, c, iq, oq) ==
    /\ iq \in Seq(ToServer(s.authdone)) /\ oq \in Seq(ToClient(s.authdone))
    /\ Run("in", iq, ServerRead(s), ClientWrote(c))
    /\ Run("out", oq, ClientRead(c), ServerWrote(s))
    /\ Run("num", oq, c.expect, First(s))

PairOK(s, c, iq, oq) == ServerOK(s) /\ ClientOK(c, s.authdone) /\ Linked(s, c, iq, oq)

\* The inductive invariant of the pair.
PairInv ==
    /\ Inv(ses) /\ CorrectServed
    /\ correct /\ Running => PairOK(ses, cl, inq, outq)
    /\ ~correct => inq = <<>> /\ outq = <<>>

LEMMA PacketsRise == \A a : Rises("in", ToServer(a)) /\ Rises("out", ToClient(a))
<1>1. ASSUME NEW a, NEW m \in ToServer(a), NEW x \in Int, NEW y \in Int, Step("in", x, m, y)
      PROVE  x <= y
  <2>1. m.key \in Nat /\ m.p.type \in {"KEXINIT", "KEXDH_INIT", "NEWKEYS"} \cup Request
    BY DEF ToServer, InOK
  <2>2. x = (4 * m.key) + InFrom(m.p) /\ y = (4 * m.key) + InTo(m.p)
    BY <1>1 DEF Step
  <2>3. InFrom(m.p) \in Nat /\ InTo(m.p) \in Nat /\ InFrom(m.p) <= InTo(m.p)
    BY DEF InFrom, InTo
  <2> QED BY <2>1, <2>2, <2>3
<1>2. ASSUME NEW a, NEW m \in ToClient(a), NEW x \in Int, NEW y \in Int, Step("out", x, m, y)
      PROVE  x <= y
  <2>1. y = IF m.type \in Kex THEN x + 1 ELSE x
    BY <1>2 DEF Step
  <2> QED BY <2>1
<1> QED BY <1>1, <1>2 DEF Rises

LEMMA OutStage ==
    ASSUME NEW c \in ClientType, NEW a, NEW m \in ToClient(a), NEW y, Step("out", ClientRead(c), m, y)
    PROVE  /\ m.key = c.gen /\ OutFrom(m) = ClientStage(c)
           /\ y = IF m.type \in Kex THEN ClientRead(c) + 1 ELSE ClientRead(c)
<1>1. m.key \in Nat /\ c.gen \in Nat
  BY DEF ToClient, Sent, ClientType
<1>2. OutFrom(m) \in 0..2 /\ ClientStage(c) \in 0..2
  BY DEF OutFrom, ClientStage
<1>3. ClientRead(c) = (3 * m.key) + OutFrom(m)
      /\ y = IF m.type \in Kex THEN ClientRead(c) + 1 ELSE ClientRead(c)
  BY DEF Step
<1>4. m.key = c.gen /\ OutFrom(m) = ClientStage(c)
  BY <1>1, <1>2, <1>3 DEF ClientRead
<1> QED BY <1>3, <1>4

-----------------------------------------------------------------------------
(* The client sends. *)

LEMMA RunTwo ==
    ASSUME NEW r, NEW d, NEW a \in Int, NEW b \in Int, NEW c \in Int, Len(r) = 2,
           Step(d, a, r[1], b), Step(d, b, r[2], c)
    PROVE  Run(d, r, a, c)
<1> DEFINE f == [i \in 0..2 |-> IF i = 0 THEN a ELSE IF i = 1 THEN b ELSE c]
<1>1. f \in [0..2 -> Int] /\ f[0] = a /\ f[1] = b /\ f[2] = c
  OBVIOUS
<1> HIDE DEF f
<1>2. ASSUME NEW i \in 1..2
      PROVE  Step(d, f[i - 1], r[i], f[i])
  <2>1. CASE i = 1
    BY <1>1, <2>1
  <2>2. CASE i = 2
    BY <1>1, <2>2
  <2> QED BY <2>1, <2>2
<1>3. Labels(f, d, r, a, c)
  BY <1>1, <1>2 DEF Labels
<1> QED BY <1>1, <1>3 DEF Run

LEMMA RunSingle ==
    ASSUME NEW r, NEW d, NEW a \in Int, NEW b \in Int, Len(r) = 1, Step(d, a, r[1], b)
    PROVE  Run(d, r, a, b)
<1> DEFINE f == [i \in 0..1 |-> IF i = 0 THEN a ELSE b]
<1>1. f \in [0..1 -> Int] /\ f[0] = a /\ f[1] = b
  OBVIOUS
<1> HIDE DEF f
<1>2. \A i \in 1..1 : i = 1
  OBVIOUS
<1>3. Labels(f, d, r, a, b)
  BY <1>1, <1>2 DEF Labels
<1> QED BY <1>1, <1>3 DEF Run

Packed(ps, k) == [i \in DOMAIN ps |-> [p |-> ps[i], key |-> k]]

LEMMA PackedType ==
    ASSUME NEW ps \in Seq(Packet), NEW k \in Nat, NEW a,
           \A i \in 1..Len(ps) : InOK([p |-> ps[i], key |-> k], a)
    PROVE  LET r == Packed(ps, k)
           IN  /\ r \in Seq(ToServer(a)) /\ Len(r) = Len(ps)
               /\ \A i \in 1..Len(ps) : r[i] = [p |-> ps[i], key |-> k]
<1> DEFINE r == Packed(ps, k)
           n == Len(ps)
<1>1. DOMAIN ps = 1..n /\ n \in Nat /\ \A i \in 1..n : ps[i] \in Packet
  BY LenProperties, ElementOfSeq
<1>2. \A i \in 1..n : r[i] = [p |-> ps[i], key |-> k]
  BY <1>1 DEF Packed
<1>3. ASSUME NEW i \in 1..n
      PROVE  [p |-> ps[i], key |-> k] \in ToServer(a)
  <2>1. [p |-> ps[i], key |-> k] \in [p : Packet, key : Nat]
    BY <1>1
  <2> QED BY <2>1 DEF ToServer
<1>4. r \in [1..n -> ToServer(a)]
  BY <1>1, <1>3 DEF Packed
<1> HIDE DEF r, n
<1>5. r \in Seq(ToServer(a))
  BY <1>1, <1>4
<1>6. Len(r) = n
  BY <1>1, <1>4, <1>5
<1> QED BY <1>2, <1>5, <1>6 DEF r, n

\* The client puts packets on the wire that lead to where it is afterwards.
LEMMA ClientPuts ==
    ASSUME NEW s, NEW c, NEW d, NEW iq, NEW iq2, NEW oq, PairOK(s, c, iq, oq),
           ClientOK(d, s.authdone), ClientRead(d) = ClientRead(c), d.expect = c.expect,
           NEW ps \in Seq(Packet), \A i \in 1..Len(ps) : InOK([p |-> ps[i], key |-> c.ckey], s.authdone),
           Run("in", Packed(ps, c.ckey), ClientWrote(c), ClientWrote(d)),
           iq2 = Cat(iq, Packed(ps, c.ckey))
    PROVE  PairOK(s, d, iq2, oq)
<1>1. c.ckey \in Nat
  BY DEF PairOK, ClientOK, ClientType
<1>2. Packed(ps, c.ckey) \in Seq(ToServer(s.authdone))
  BY <1>1, PackedType
<1>3. iq2 \in Seq(ToServer(s.authdone)) /\ Run("in", iq2, ServerRead(s), ClientWrote(d))
  BY <1>2, CatType, RunCat DEF PairOK, Linked
<1> QED BY <1>3 DEF PairOK, Linked

\* Fields of the client's state.
LEMMA ClientFields ==
    ASSUME NEW c \in ClientType
    PROVE  /\ c.gen \in Nat /\ c.ckey \in Nat /\ c.skey \in Nat /\ c.expect \in Int /\ c.waiting \in Int
           /\ c.kex \in {"none", "init", "dh", "new"} /\ c.got \in BOOLEAN
           /\ c.guess \in {"none", "right", "wrong"}
BY DEF ClientType

LEMMA KexinitPut ==
    ASSUME PairOK(ses, cl, inq, outq), NEW g \in Guess, ClientKexinit(g)
    PROVE  PairOK(ses, cl', inq', outq)
<1> DEFINE ps == Opening(g)
           r == Packed(ps, cl.ckey)
           K == [type |-> "KEXINIT", guess |-> g, match |-> TRUE]
           k == cl.ckey
           D == [type |-> "KEXDH_INIT", valid |-> TRUE]
           E == [type |-> "KEXDH_INIT", valid |-> FALSE]
<1>1. cl \in ClientType /\ ClientOK(cl, ses.authdone) /\ cl.kex = "none" /\ k \in Nat
      /\ g \in {"none", "right", "wrong"}
  BY PairAssumption, ClientFields DEF PairOK, ClientOK, ClientKexinit
<1>2. cl' = [cl EXCEPT !.kex = "init", !.guess = g] /\ inq' = Cat(inq, r)
  BY DEF ClientKexinit, Put, Packed, Cat
<1>3. cl' \in ClientType
  BY <1>1, <1>2 DEF ClientType
<1>4. /\ cl'.kex = "init" /\ cl'.guess = g /\ cl'.got = cl.got /\ cl'.gen = cl.gen /\ cl'.ckey = cl.ckey
      /\ cl'.skey = cl.skey /\ cl'.expect = cl.expect /\ cl'.phase = cl.phase
  BY <1>1, <1>2 DEF ClientType
<1>5. ClientOK(cl', ses.authdone) /\ ClientRead(cl') = ClientRead(cl)
  BY <1>1, <1>3, <1>4 DEF ClientOK, ClientRead, ClientStage
<1>6. ClientWrote(cl) = 4 * k /\ ClientWrote(cl') = (4 * k) + (IF g = "right" THEN 3 ELSE 2)
  BY <1>1, <1>4 DEF ClientWrote
<1>7. K \in Packet /\ D \in Packet /\ E \in Packet
  BY <1>1 DEF Packet
<1>8. InOK([p |-> K, key |-> k], ses.authdone) /\ InOK([p |-> D, key |-> k], ses.authdone)
      /\ InOK([p |-> E, key |-> k], ses.authdone)
  BY DEF InOK, Request
<1>9. Step("in", 4 * k, [p |-> K, key |-> k], (4 * k) + (IF g = "wrong" THEN 1 ELSE 2))
  BY <1>1 DEF Step, InFrom, InTo
<1>10. Step("in", (4 * k) + 2, [p |-> D, key |-> k], (4 * k) + 3)
       /\ Step("in", (4 * k) + 1, [p |-> E, key |-> k], (4 * k) + 2)
  BY <1>1 DEF Step, InFrom, InTo
<1>11. 4 * k \in Int /\ (4 * k) + 1 \in Int /\ (4 * k) + 2 \in Int /\ (4 * k) + 3 \in Int
  BY <1>1
<1>12. /\ g = "none" => ps = <<K>>
       /\ g = "right" => ps = <<K, D>>
       /\ g = "wrong" => ps = <<K, E>>
  BY DEF Opening
<1> HIDE DEF ps, r, K, k, D, E
<1>13. CASE g = "none"
  <2>1. ps \in Seq(Packet) /\ Len(ps) = 1 /\ ps[1] = K
    <3>1. ps = <<K>>
      BY <1>12, <1>13
    <3>2. <<K>> \in Seq(Packet) /\ Len(<<K>>) = 1 /\ <<K>>[1] = K
      BY <1>7
    <3> QED BY <3>1, <3>2
  <2>2. \A i \in 1..Len(ps) : InOK([p |-> ps[i], key |-> k], ses.authdone)
    BY <1>8, <2>1
  <2>3. Len(r) = 1 /\ r[1] = [p |-> K, key |-> k]
    <3>1. Len(r) = Len(ps) /\ \A i \in 1..Len(ps) : r[i] = [p |-> ps[i], key |-> k]
      BY <1>1, <2>1, <2>2, PackedType DEF r, k
    <3> QED BY <2>1, <3>1
  <2>4. Run("in", r, ClientWrote(cl), ClientWrote(cl'))
    BY <1>6, <1>9, <1>11, <1>13, <2>3, RunSingle
  <2> QED BY <1>2, <1>4, <1>5, <2>1, <2>2, <2>4, ClientPuts DEF r, k
<1>14. CASE g = "right"
  <2>1. ps \in Seq(Packet) /\ Len(ps) = 2 /\ ps[1] = K /\ ps[2] = D
    <3>1. ps = <<K, D>>
      BY <1>12, <1>14
    <3>2. <<K, D>> \in Seq(Packet) /\ Len(<<K, D>>) = 2 /\ <<K, D>>[1] = K /\ <<K, D>>[2] = D
      BY <1>7
    <3> QED BY <3>1, <3>2
  <2>2. \A i \in 1..Len(ps) : InOK([p |-> ps[i], key |-> k], ses.authdone)
    BY <1>8, <2>1
  <2>3. Len(r) = 2 /\ r[1] = [p |-> K, key |-> k] /\ r[2] = [p |-> D, key |-> k]
    <3>1. Len(r) = Len(ps) /\ \A i \in 1..Len(ps) : r[i] = [p |-> ps[i], key |-> k]
      BY <1>1, <2>1, <2>2, PackedType DEF r, k
    <3> QED BY <2>1, <3>1
  <2>4. Run("in", r, ClientWrote(cl), ClientWrote(cl'))
    <3>1. Step("in", 4 * k, r[1], (4 * k) + 2) /\ Step("in", (4 * k) + 2, r[2], (4 * k) + 3)
      BY <1>9, <1>10, <1>14, <2>3
    <3> QED BY <1>6, <1>11, <1>14, <2>3, <3>1, RunTwo
  <2> QED BY <1>2, <1>4, <1>5, <2>1, <2>2, <2>4, ClientPuts DEF r, k
<1>15. CASE g = "wrong"
  <2>1. ps \in Seq(Packet) /\ Len(ps) = 2 /\ ps[1] = K /\ ps[2] = E
    <3>1. ps = <<K, E>>
      BY <1>12, <1>15
    <3>2. <<K, E>> \in Seq(Packet) /\ Len(<<K, E>>) = 2 /\ <<K, E>>[1] = K /\ <<K, E>>[2] = E
      BY <1>7
    <3> QED BY <3>1, <3>2
  <2>2. \A i \in 1..Len(ps) : InOK([p |-> ps[i], key |-> k], ses.authdone)
    BY <1>8, <2>1
  <2>3. Len(r) = 2 /\ r[1] = [p |-> K, key |-> k] /\ r[2] = [p |-> E, key |-> k]
    <3>1. Len(r) = Len(ps) /\ \A i \in 1..Len(ps) : r[i] = [p |-> ps[i], key |-> k]
      BY <1>1, <2>1, <2>2, PackedType DEF r, k
    <3> QED BY <2>1, <3>1
  <2>4. Run("in", r, ClientWrote(cl), ClientWrote(cl'))
    <3>1. Step("in", 4 * k, r[1], (4 * k) + 1) /\ Step("in", (4 * k) + 1, r[2], (4 * k) + 2)
      BY <1>9, <1>10, <1>15, <2>3
    <3> QED BY <1>6, <1>11, <1>15, <2>3, <3>1, RunTwo
  <2> QED BY <1>2, <1>4, <1>5, <2>1, <2>2, <2>4, ClientPuts DEF r, k
<1> QED BY <1>1, <1>13, <1>14, <1>15

\* One packet, or none.
LEMMA OnePut ==
    ASSUME PairOK(ses, cl, inq, outq), NEW d, ClientOK(d, ses.authdone), ClientRead(d) = ClientRead(cl),
           d.expect = cl.expect, NEW p \in Packet, InOK([p |-> p, key |-> cl.ckey], ses.authdone),
           Step("in", ClientWrote(cl), [p |-> p, key |-> cl.ckey], ClientWrote(d))
    PROVE  PairOK(ses, d, Cat(inq, Packed(<<p>>, cl.ckey)), outq)
<1> DEFINE ps == <<p>>
           r == Packed(ps, cl.ckey)
<1>1. cl.ckey \in Nat /\ ClientWrote(cl) \in Int /\ ClientWrote(d) \in Int
  BY ClientFields DEF PairOK, ClientOK, ClientWrote
<1>2. ps \in Seq(Packet) /\ Len(ps) = 1 /\ ps[1] = p
  OBVIOUS
<1> HIDE DEF ps
<1>3. \A i \in 1..Len(ps) : InOK([p |-> ps[i], key |-> cl.ckey], ses.authdone)
  BY <1>2
<1>4. Len(r) = 1 /\ r[1] = [p |-> p, key |-> cl.ckey]
  <2>1. Len(r) = Len(ps) /\ \A i \in 1..Len(ps) : r[i] = [p |-> ps[i], key |-> cl.ckey]
    BY <1>1, <1>2, <1>3, PackedType
  <2> QED BY <1>2, <2>1
<1>5. Run("in", r, ClientWrote(cl), ClientWrote(d))
  BY <1>1, <1>4, RunSingle
<1> QED BY <1>2, <1>3, <1>5, ClientPuts DEF ps

LEMMA NonePut ==
    ASSUME NEW S, NEW q \in Seq(S), NEW k
    PROVE  Cat(q, Packed(<<>>, k)) = q
<1>1. Packed(<<>>, k) = <<>>
  BY DEF Packed
<1> QED BY <1>1, CatEmpty

LEMMA KexdhPut ==
    ASSUME PairOK(ses, cl, inq, outq), ClientKexdh
    PROVE  PairOK(ses, cl', inq', outq)
<1> DEFINE p == [type |-> "KEXDH_INIT", valid |-> TRUE]
           k == cl.ckey
<1>1. cl \in ClientType /\ ClientOK(cl, ses.authdone) /\ cl.kex = "init" /\ cl.got /\ k \in Nat
  BY ClientFields DEF PairOK, ClientOK, ClientKexdh
<1>2. cl' = [cl EXCEPT !.kex = "dh"]
  BY DEF ClientKexdh
<1>3. cl' \in ClientType
  BY <1>1, <1>2 DEF ClientType
<1>4. /\ cl'.kex = "dh" /\ cl'.got = cl.got /\ cl'.gen = cl.gen /\ cl'.ckey = cl.ckey
      /\ cl'.skey = cl.skey /\ cl'.expect = cl.expect /\ cl'.phase = cl.phase
  BY <1>1, <1>2 DEF ClientType
<1>5. ClientOK(cl', ses.authdone) /\ ClientRead(cl') = ClientRead(cl)
  BY <1>1, <1>3, <1>4 DEF ClientOK, ClientRead, ClientStage
<1>6. ClientWrote(cl) = (4 * k) + (IF cl.guess = "right" THEN 3 ELSE 2) /\ ClientWrote(cl') = (4 * k) + 3
  BY <1>1, <1>4 DEF ClientWrote
<1>7. CASE cl.guess = "right"
  <2>1. inq' = Cat(inq, Packed(<<>>, k))
    BY <1>7 DEF ClientKexdh, Put, Packed, Cat
  <2>2. inq' = inq
    BY <2>1, NonePut DEF PairOK, Linked
  <2>3. ClientWrote(cl') = ClientWrote(cl)
    BY <1>6, <1>7
  <2> QED BY <1>4, <1>5, <2>2, <2>3 DEF PairOK, Linked
<1>8. CASE cl.guess # "right"
  <2>1. inq' = Cat(inq, Packed(<<p>>, k))
    BY <1>8 DEF ClientKexdh, Put, Packed, Cat
  <2>2. p \in Packet /\ InOK([p |-> p, key |-> k], ses.authdone)
    BY DEF Packet, InOK, Request
  <2>3. Step("in", ClientWrote(cl), [p |-> p, key |-> k], ClientWrote(cl'))
    BY <1>1, <1>6, <1>8 DEF Step, InFrom, InTo
  <2> HIDE DEF p
  <2> QED BY <1>4, <1>5, <2>1, <2>2, <2>3, OnePut
<1> QED BY <1>7, <1>8

LEMMA RequestPut ==
    ASSUME PairOK(ses, cl, inq, outq), NEW p \in Packet, ClientRequest(p)
    PROVE  PairOK(ses, cl', inq', outq)
<1> DEFINE k == cl.ckey
<1>1. cl \in ClientType /\ ClientOK(cl, ses.authdone) /\ cl.kex \in {"none", "new"} /\ k \in Nat
      /\ cl.gen \in Nat /\ cl.waiting \in Int
  BY ClientFields DEF PairOK, ClientOK, ClientRequest
<1> DEFINE w == cl.waiting + 1
<1>2. cl' = [cl EXCEPT !.waiting = w] /\ w \in Int
  BY <1>1 DEF ClientRequest
<1> HIDE DEF w
<1>3. cl' \in ClientType
  BY <1>1, <1>2 DEF ClientType
<1>4. /\ cl'.kex = cl.kex /\ cl'.got = cl.got /\ cl'.gen = cl.gen /\ cl'.ckey = cl.ckey
      /\ cl'.skey = cl.skey /\ cl'.expect = cl.expect /\ cl'.phase = cl.phase /\ cl'.guess = cl.guess
  BY <1>1, <1>2 DEF ClientType
<1>5. ClientOK(cl', ses.authdone) /\ ClientRead(cl') = ClientRead(cl)
  BY <1>1, <1>3, <1>4 DEF ClientOK, ClientRead, ClientStage
<1>6. ClientWrote(cl) = 4 * k /\ ClientWrote(cl') = 4 * k
  BY <1>1, <1>4 DEF ClientWrote
<1>7. k > 0
  <2>1. cl.gen > 0 \/ cl.kex = "new"
    BY DEF ClientRequest
  <2> QED BY <1>1, <2>1 DEF ClientOK
<1>8. \/ cl.phase = "service" /\ p = [type |-> "SERVICE_REQUEST", name |-> "ssh-userauth"]
      \/ p.type = "USERAUTH_REQUEST" /\ p.user = Me /\ p.known
      \/ cl.phase = "connection" /\ p.type = "GLOBAL_REQUEST"
  BY DEF ClientRequest
<1>9. p.type \in Request /\ InOK([p |-> p, key |-> k], ses.authdone)
  <2>1. CASE p = [type |-> "SERVICE_REQUEST", name |-> "ssh-userauth"]
    <3>1. p.type = "SERVICE_REQUEST" /\ p.name = "ssh-userauth"
      BY <2>1
    <3> QED BY <1>7, <3>1 DEF InOK, Request
  <2>2. CASE p.type = "USERAUTH_REQUEST" /\ p.user = Me /\ p.known
    BY <1>7, <2>2 DEF InOK, Request
  <2>3. CASE cl.phase = "connection" /\ p.type = "GLOBAL_REQUEST"
    BY <1>1, <1>7, <2>3 DEF InOK, Request, ClientOK
  <2> QED BY <1>8, <2>1, <2>2, <2>3
<1>10. Step("in", ClientWrote(cl), [p |-> p, key |-> k], ClientWrote(cl'))
  BY <1>1, <1>6, <1>9 DEF Step, InFrom, InTo, Request
<1>11. inq' = Cat(inq, Packed(<<p>>, k))
  BY DEF ClientRequest, Put, Packed, Cat
<1> QED BY <1>4, <1>5, <1>9, <1>10, <1>11, OnePut

-----------------------------------------------------------------------------
(* The client receives. *)

\* When KEXDH_REPLY arrives the client has sent its key: the server, which is ahead
\* of it, has read it.
LEMMA ReplyStage ==
    ASSUME PairOK(ses, cl, inq, outq), ses.state = "run", outq # <<>>, Head(outq).type = "KEXDH_REPLY"
    PROVE  ClientStage(cl) = 1 /\ cl.ckey = cl.gen /\ ClientWrote(cl) = (4 * cl.gen) + 3
<1> DEFINE m == Head(outq)
           a == ses.authdone
<1>1. outq \in Seq(ToClient(a)) /\ inq \in Seq(ToServer(a)) /\ m \in ToClient(a)
      /\ cl \in ClientType /\ Tail(outq) \in Seq(ToClient(a))
  BY HeadTailProperties DEF PairOK, Linked, ClientOK
<1>2. PICK y \in Int : Step("out", ClientRead(cl), m, y) /\ Run("out", Tail(outq), y, ServerWrote(ses))
  BY <1>1, RunTail DEF PairOK, Linked
<1>3. ClientStage(cl) = 1 /\ y = (3 * cl.gen) + 2
  <2>1. OutFrom(m) = ClientStage(cl) /\ y = IF m.type \in Kex THEN ClientRead(cl) + 1 ELSE ClientRead(cl)
    BY <1>1, <1>2, OutStage
  <2>2. OutFrom(m) = 1 /\ m.type \in Kex
    BY DEF OutFrom, Kex
  <2>3. cl.gen \in Nat
    BY <1>1, ClientFields
  <2> QED BY <2>1, <2>2, <2>3 DEF ClientRead
<1>4. y <= ServerWrote(ses)
  BY <1>1, <1>2, PacketsRise, RunUp
<1>5. ServerRead(ses) <= ClientWrote(cl)
  BY <1>1, PacketsRise, RunUp DEF PairOK, Linked
<1>6. cl.kex # "new"
  BY <1>3 DEF ClientStage
<1>7. cl.gen \in Nat /\ cl.ckey = cl.gen
  BY <1>1, <1>6, ClientFields DEF PairOK, ClientOK
<1>8. /\ ses.gen \in Nat /\ ses.rkey \in Nat /\ ses.sentnewkeys \in BOOLEAN
      /\ ses.gen = IF ses.sentnewkeys THEN ses.rkey + 1 ELSE ses.rkey
  BY DEF PairOK, ServerOK, Inv, SesType, KexFlags
<1>9. ses.gen >= cl.gen + 1
  BY <1>3, <1>4, <1>7, <1>8 DEF ServerWrote
<1>10. ServerRead(ses) >= (4 * cl.gen) + 3
  <2>1. CASE ses.sentnewkeys
    BY <1>7, <1>8, <1>9, <2>1 DEF ServerRead
  <2>2. CASE ~ses.sentnewkeys
    BY <1>7, <1>8, <1>9, <2>2 DEF ServerRead
  <2> QED BY <2>1, <2>2
<1>11. ServerRead(ses) \in Int
  BY <1>8 DEF ServerRead
<1>12. ClientWrote(cl) <= (4 * cl.gen) + 3 /\ ClientWrote(cl) \in Int
  BY <1>7 DEF ClientWrote
<1> QED BY <1>3, <1>5, <1>7, <1>10, <1>11, <1>12

\* The client reads a packet: c with the number it expects next, then what the
\* packet means to it.
LEMMA Read ==
    ASSUME PairOK(ses, cl, inq, outq), outq # <<>>, NEW d, ClientOK(d, ses.authdone),
           d.expect = IF Head(outq).n > 0 THEN Head(outq).n + 1 ELSE cl.expect,
           ClientRead(d) = IF Head(outq).type \in Kex THEN ClientRead(cl) + 1 ELSE ClientRead(cl)
    PROVE  /\ Tail(outq) \in Seq(ToClient(ses.authdone))
           /\ Run("out", Tail(outq), ClientRead(d), ServerWrote(ses))
           /\ Run("num", Tail(outq), d.expect, First(ses))
<1> DEFINE m == Head(outq)
           a == ses.authdone
<1>1. outq \in Seq(ToClient(a)) /\ m \in ToClient(a) /\ cl \in ClientType /\ Tail(outq) \in Seq(ToClient(a))
  BY HeadTailProperties DEF PairOK, Linked, ClientOK
<1>2. PICK y \in Int : Step("out", ClientRead(cl), m, y) /\ Run("out", Tail(outq), y, ServerWrote(ses))
  BY <1>1, RunTail DEF PairOK, Linked
<1>3. PICK z \in Int : Step("num", cl.expect, m, z) /\ Run("num", Tail(outq), z, First(ses))
  BY <1>1, RunTail DEF PairOK, Linked
<1>4. y = ClientRead(d)
  BY <1>1, <1>2, OutStage
<1>5. z = d.expect
  BY <1>3 DEF Step
<1> QED BY <1>1, <1>2, <1>3, <1>4, <1>5

LEMMA ReplyRead ==
    ASSUME PairOK(ses, cl, inq, outq), ses.state = "run", ClientReceive, Head(outq).type = "KEXDH_REPLY"
    PROVE  PairOK(ses, cl', inq', outq')
<1> DEFINE m == Head(outq)
           e == IF m.n > 0 THEN m.n + 1 ELSE cl.expect
           k == cl.ckey
           g == cl.gen + 1
           p == [type |-> "NEWKEYS"]
           d == [cl EXCEPT !.expect = e, !.ckey = g, !.kex = "new"]
<1>1. outq # <<>> /\ outq' = Tail(outq) /\ cl' = Learn(m)
  BY DEF ClientReceive
<1>2. ClientStage(cl) = 1 /\ cl.ckey = cl.gen /\ ClientWrote(cl) = (4 * cl.gen) + 3
  BY <1>1, ReplyStage
<1>3. cl \in ClientType /\ cl.gen \in Nat /\ cl.expect \in Int /\ g \in Nat /\ cl.got \in BOOLEAN
  BY ClientFields DEF PairOK, ClientOK
<1>4. m \in ToClient(ses.authdone) /\ e \in Int
  <2>1. m \in ToClient(ses.authdone)
    BY <1>1, HeadTailProperties DEF PairOK, Linked
  <2> QED BY <1>3, <2>1 DEF ToClient, Sent
<1>5. cl' = d
  BY <1>1, <1>3 DEF Learn, ClientType
<1> HIDE DEF e, g
<1>6. d \in ClientType
  BY <1>3, <1>4 DEF ClientType
<1>7. /\ d.kex = "new" /\ d.got = cl.got /\ d.gen = cl.gen /\ d.ckey = g
      /\ d.skey = cl.skey /\ d.expect = e /\ d.phase = cl.phase
  BY <1>3, <1>4 DEF ClientType
<1> HIDE DEF d
<1>8. cl.got
  BY <1>2 DEF ClientStage
<1>9. ClientOK(d, ses.authdone)
  BY <1>6, <1>7, <1>8 DEF PairOK, ClientOK, g
<1>10. ClientRead(d) = ClientRead(cl) + 1 /\ ClientWrote(d) = (4 * cl.gen) + 4
  BY <1>2, <1>3, <1>7 DEF ClientRead, ClientStage, ClientWrote, g
<1>11. /\ Tail(outq) \in Seq(ToClient(ses.authdone))
       /\ Run("out", Tail(outq), ClientRead(d), ServerWrote(ses))
       /\ Run("num", Tail(outq), d.expect, First(ses))
  BY <1>1, <1>7, <1>9, <1>10, Read DEF e, Kex
<1>12. inq' = Cat(inq, Packed(<<p>>, k))
  BY DEF ClientReceive, Put, Packed, Cat
<1>13. p \in Packet /\ InOK([p |-> p, key |-> k], ses.authdone)
  BY DEF Packet, InOK, Request
<1>14. Step("in", ClientWrote(cl), [p |-> p, key |-> k], ClientWrote(d))
  BY <1>2, <1>3, <1>10 DEF Step, InFrom, InTo
<1> DEFINE ps == <<p>>
           r == Packed(ps, k)
<1> HIDE DEF p
<1>15. ps \in Seq(Packet) /\ Len(ps) = 1 /\ ps[1] = p
  BY <1>13
<1> HIDE DEF ps
<1>16. r \in Seq(ToServer(ses.authdone)) /\ Len(r) = 1 /\ r[1] = [p |-> p, key |-> k]
  <2>1. \A i \in 1..Len(ps) : InOK([p |-> ps[i], key |-> k], ses.authdone)
    BY <1>13, <1>15
  <2>2. r \in Seq(ToServer(ses.authdone)) /\ Len(r) = Len(ps)
        /\ \A i \in 1..Len(ps) : r[i] = [p |-> ps[i], key |-> k]
    BY <1>2, <1>3, <1>15, <2>1, PackedType
  <2> QED BY <1>15, <2>2
<1>17. Run("in", r, ClientWrote(cl), ClientWrote(d))
  <2>1. ClientWrote(cl) \in Int /\ ClientWrote(d) \in Int
    BY <1>2, <1>3, <1>10
  <2> QED BY <1>14, <1>16, <2>1, RunSingle
<1>18. inq' \in Seq(ToServer(ses.authdone)) /\ Run("in", inq', ServerRead(ses), ClientWrote(d))
  BY <1>12, <1>16, <1>17, CatType, RunCat DEF PairOK, Linked, ps
<1> QED BY <1>1, <1>5, <1>9, <1>11, <1>18 DEF PairOK, Linked

\* A packet that the client does not answer at once.
LEMMA Heard ==
    ASSUME PairOK(ses, cl, inq, outq), ClientReceive, Head(outq).type # "KEXDH_REPLY",
           ClientOK(cl', ses.authdone), ClientWrote(cl') = ClientWrote(cl),
           cl'.expect = IF Head(outq).n > 0 THEN Head(outq).n + 1 ELSE cl.expect,
           ClientRead(cl') = IF Head(outq).type \in Kex THEN ClientRead(cl) + 1 ELSE ClientRead(cl)
    PROVE  PairOK(ses, cl', inq', outq')
<1>1. outq # <<>> /\ outq' = Tail(outq)
  BY DEF ClientReceive
<1>2. /\ Tail(outq) \in Seq(ToClient(ses.authdone))
      /\ Run("out", Tail(outq), ClientRead(cl'), ServerWrote(ses))
      /\ Run("num", Tail(outq), cl'.expect, First(ses))
  BY <1>1, Read
<1>3. inq' = Cat(inq, Packed(<<>>, cl.ckey))
  BY DEF ClientReceive, Put, Packed, Cat
<1>4. inq' = inq
  BY <1>3, NonePut DEF PairOK, Linked
<1> QED BY <1>1, <1>2, <1>4 DEF PairOK, Linked

LEMMA KexRead ==
    ASSUME PairOK(ses, cl, inq, outq), ClientReceive, Head(outq).type \in {"KEXINIT", "NEWKEYS"}
    PROVE  PairOK(ses, cl', inq', outq')
<1> DEFINE m == Head(outq)
           e == IF m.n > 0 THEN m.n + 1 ELSE cl.expect
           g == cl.gen + 1
<1>1. outq # <<>> /\ outq' = Tail(outq) /\ cl' = Learn(m)
  BY DEF ClientReceive
<1>2. cl \in ClientType /\ cl.gen \in Nat /\ cl.expect \in Int /\ g \in Nat /\ cl.got \in BOOLEAN /\ cl.ckey \in Nat
      /\ ClientOK(cl, ses.authdone)
  BY ClientFields DEF PairOK, ClientOK
<1>3. m \in ToClient(ses.authdone) /\ e \in Int
  <2>1. m \in ToClient(ses.authdone)
    BY <1>1, HeadTailProperties DEF PairOK, Linked
  <2> QED BY <1>2, <2>1 DEF ToClient, Sent
<1>4. OutFrom(m) = ClientStage(cl)
  <2>1. PICK y \in Int : Step("out", ClientRead(cl), m, y)
    BY <1>1, RunTail DEF PairOK, Linked
  <2> QED BY <1>2, <1>3, <2>1, OutStage
<1>5. CASE m.type = "KEXINIT"
  <2> DEFINE d == [cl EXCEPT !.expect = e, !.got = TRUE]
  <2>1. cl' = d
    BY <1>1, <1>2, <1>5 DEF Learn, ClientType
  <2>2. ClientStage(cl) = 0
    BY <1>4, <1>5 DEF OutFrom
  <2> HIDE DEF e
  <2>3. d \in ClientType
    BY <1>2, <1>3 DEF ClientType
  <2>4. /\ d.kex = cl.kex /\ d.got /\ d.gen = cl.gen /\ d.ckey = cl.ckey /\ d.guess = cl.guess
        /\ d.skey = cl.skey /\ d.expect = e /\ d.phase = cl.phase
    BY <1>2, <1>3 DEF ClientType
  <2> HIDE DEF d
  <2>5. ClientOK(d, ses.authdone) /\ ClientWrote(d) = ClientWrote(cl)
    BY <1>2, <2>3, <2>4 DEF ClientOK, ClientWrote
  <2>6. cl.kex # "new"
    BY <2>2 DEF ClientStage
  <2>7. ClientStage(d) = 1
    BY <2>4, <2>6 DEF ClientStage
  <2>8. ClientRead(d) = ClientRead(cl) + 1
    BY <1>2, <2>2, <2>4, <2>7 DEF ClientRead
  <2> QED BY <1>5, <2>1, <2>4, <2>5, <2>8, Heard DEF Kex, e
<1>6. CASE m.type = "NEWKEYS"
  <2> DEFINE d == [cl EXCEPT !.expect = e, !.skey = g, !.gen = g, !.kex = "none", !.got = FALSE]
  <2>1. cl' = d
    BY <1>1, <1>2, <1>6 DEF Learn, ClientType
  <2>2. ClientStage(cl) = 2
    BY <1>4, <1>6 DEF OutFrom
  <2>3. cl.kex = "new"
    BY <2>2 DEF ClientStage
  <2>4. cl.ckey = g
    BY <1>2, <2>3 DEF ClientOK
  <2> HIDE DEF e, g
  <2>5. d \in ClientType
    BY <1>2, <1>3 DEF ClientType
  <2>6. /\ d.kex = "none" /\ d.got = FALSE /\ d.gen = g /\ d.ckey = cl.ckey
        /\ d.skey = g /\ d.expect = e /\ d.phase = cl.phase
    BY <1>2, <1>3 DEF ClientType
  <2> HIDE DEF d
  <2>7. ClientOK(d, ses.authdone) /\ ClientWrote(d) = ClientWrote(cl)
    BY <1>2, <2>3, <2>4, <2>5, <2>6 DEF ClientOK, ClientWrote
  <2>8. ClientStage(d) = 0
    BY <2>6 DEF ClientStage
  <2>9. ClientRead(d) = ClientRead(cl) + 1
    BY <1>2, <2>2, <2>6, <2>8 DEF ClientRead, g
  <2> QED BY <1>6, <2>1, <2>6, <2>7, <2>9, Heard DEF Kex, e
<1> QED BY <1>5, <1>6

\* A packet outside the key exchange; only USERAUTH_SUCCESS lets the client go on to
\* the connection protocol.
LEMMA DataRead ==
    ASSUME PairOK(ses, cl, inq, outq), ClientReceive, Head(outq).type \notin Kex
    PROVE  PairOK(ses, cl', inq', outq')
<1> DEFINE m == Head(outq)
           e == IF m.n > 0 THEN m.n + 1 ELSE cl.expect
           f == IF m.type = "SERVICE_ACCEPT" THEN "auth"
                ELSE IF m.type = "USERAUTH_SUCCESS" THEN "connection" ELSE cl.phase
           w == IF m.type \in {"SERVICE_ACCEPT", "USERAUTH_SUCCESS", "USERAUTH_FAILURE",
                               "REQUEST_SUCCESS", "REQUEST_FAILURE"}
                THEN cl.waiting - 1 ELSE cl.waiting
           d == [cl EXCEPT !.expect = e, !.phase = f, !.waiting = w]
<1>1. outq # <<>> /\ outq' = Tail(outq) /\ cl' = Learn(m)
  BY DEF ClientReceive
<1>2. cl \in ClientType /\ cl.expect \in Int /\ cl.waiting \in Int /\ ClientOK(cl, ses.authdone)
  BY ClientFields DEF PairOK, ClientOK
<1>3. m \in ToClient(ses.authdone) /\ e \in Int
  <2>1. m \in ToClient(ses.authdone)
    BY <1>1, HeadTailProperties DEF PairOK, Linked
  <2> QED BY <1>2, <2>1 DEF ToClient, Sent
<1>4. cl.phase \in {"service", "auth", "connection"}
  BY <1>2 DEF ClientType
<1>5. f \in {"service", "auth", "connection"} /\ w \in Int /\ (f = "connection" => ses.authdone)
  <2>1. cl.phase = "connection" => ses.authdone
    BY <1>2 DEF ClientOK
  <2>2. m.type = "USERAUTH_SUCCESS" => ses.authdone
    BY <1>3 DEF ToClient, OutOK
  <2> QED BY <1>2, <1>4, <2>1, <2>2
<1>6. cl' = d
  <2> DEFINE c == [cl EXCEPT !.expect = e]
  <2>1. /\ m.type = "SERVICE_ACCEPT" => Learn(m) = [c EXCEPT !.phase = "auth", !.waiting = @ - 1]
        /\ m.type = "USERAUTH_SUCCESS" => Learn(m) = [c EXCEPT !.phase = "connection", !.waiting = @ - 1]
        /\ m.type \in {"USERAUTH_FAILURE", "REQUEST_SUCCESS", "REQUEST_FAILURE"}
              => Learn(m) = [c EXCEPT !.waiting = @ - 1]
        /\ m.type \notin {"SERVICE_ACCEPT", "USERAUTH_SUCCESS", "USERAUTH_FAILURE", "REQUEST_SUCCESS", "REQUEST_FAILURE"}
              => Learn(m) = c
    BY <1>2 DEF Learn, ClientType, Kex
  <2>2. CASE m.type = "SERVICE_ACCEPT"
    <3>1. cl' = [c EXCEPT !.phase = "auth", !.waiting = @ - 1] /\ f = "auth" /\ w = cl.waiting - 1
      BY <1>1, <2>1, <2>2
    <3> HIDE DEF e, f, w, m
    <3> QED BY <1>2, <3>1 DEF ClientType
  <2>3. CASE m.type = "USERAUTH_SUCCESS"
    <3>1. cl' = [c EXCEPT !.phase = "connection", !.waiting = @ - 1] /\ f = "connection" /\ w = cl.waiting - 1
      BY <1>1, <2>1, <2>3
    <3> HIDE DEF e, f, w, m
    <3> QED BY <1>2, <3>1 DEF ClientType
  <2>4. CASE m.type \in {"USERAUTH_FAILURE", "REQUEST_SUCCESS", "REQUEST_FAILURE"}
    <3>1. cl' = [c EXCEPT !.waiting = @ - 1] /\ f = cl.phase /\ w = cl.waiting - 1
      BY <1>1, <2>1, <2>4
    <3> HIDE DEF e, f, w, m
    <3> QED BY <1>2, <3>1 DEF ClientType
  <2>5. CASE m.type \notin {"SERVICE_ACCEPT", "USERAUTH_SUCCESS", "USERAUTH_FAILURE",
                            "REQUEST_SUCCESS", "REQUEST_FAILURE"}
    <3>1. cl' = c /\ f = cl.phase /\ w = cl.waiting
      BY <1>1, <2>1, <2>5
    <3> HIDE DEF e, f, w, m
    <3> QED BY <1>2, <3>1 DEF ClientType
  <2> QED BY <2>2, <2>3, <2>4, <2>5
<1> HIDE DEF e, f, w
<1>7. d \in ClientType
  BY <1>2, <1>3, <1>5 DEF ClientType
<1>8. /\ d.kex = cl.kex /\ d.got = cl.got /\ d.gen = cl.gen /\ d.ckey = cl.ckey /\ d.guess = cl.guess
      /\ d.skey = cl.skey /\ d.expect = e /\ d.phase = f
  BY <1>2, <1>3, <1>5 DEF ClientType
<1> HIDE DEF d
<1>9. ClientOK(d, ses.authdone)
  BY <1>2, <1>5, <1>7, <1>8 DEF ClientOK
<1>10. ClientWrote(d) = ClientWrote(cl) /\ ClientRead(d) = ClientRead(cl)
  BY <1>8 DEF ClientWrote, ClientRead, ClientStage
<1> QED BY <1>6, <1>8, <1>9, <1>10, Heard DEF Kex, e

LEMMA ClientReads ==
    ASSUME PairOK(ses, cl, inq, outq), ses.state = "run", ClientReceive
    PROVE  PairOK(ses, cl', inq', outq')
BY ReplyRead, KexRead, DataRead DEF Kex

-----------------------------------------------------------------------------
(* The server's rounds. *)

\* A round begins with nothing written.
LEMMA Starts ==
    ASSUME ServerOK(ses), ses.state = "run"
    PROVE  /\ Serving(Begin, ServerWrote(ses), First(ses)) /\ ServerRead(Begin) = ServerRead(ses)
           /\ Begin.authdone = ses.authdone /\ SameKex(ses, Begin)
<1>1. ses \in SesType /\ Inv(Begin) /\ Begin.state = ses.state /\ SameKex(ses, Begin)
  BY Silence DEF ServerOK, Begin, Inv
<1>2. /\ Begin.sent = <<>> /\ Begin.queue = ses.queue /\ Begin.made = ses.made
      /\ Begin.authdone = ses.authdone /\ Begin.username = ses.username /\ Begin.ignorenext = ses.ignorenext
  BY <1>1 DEF Begin, SesType
<1>3. ServerRead(Begin) = ServerRead(ses) /\ ServerWrote(Begin) = ServerWrote(ses) /\ First(Begin) = First(ses)
  BY <1>1, <1>2 DEF ServerRead, ServerWrote, First, SameKex
<1>4. Polite(Begin) /\ Flushed(Begin)
  BY <1>1, <1>2 DEF ServerOK, Polite, Flushed, SameKex
<1>5. ses.made \in Nat /\ ServerWrote(ses) \in Int /\ First(ses) \in Int
  <2>1. ses.made \in Nat /\ ses.gen \in Nat /\ ses.queue \in Seq(Held)
    BY <1>1 DEF SesType
  <2>2. Len(ses.queue) \in Nat
    BY <2>1, LenProperties
  <2> QED BY <2>1, <2>2 DEF ServerWrote, First
<1>6. Says(Begin, ServerWrote(ses), First(ses), Begin.authdone)
  <2>1. <<>> \in Seq(ToClient(ses.authdone))
    OBVIOUS
  <2>2. Run("out", <<>>, ServerWrote(ses), ServerWrote(ses)) /\ Run("num", <<>>, First(ses), First(ses))
    BY <1>5, RunEmpty
  <2> QED BY <1>2, <1>3, <1>5, <2>1, <2>2 DEF ServerOK, Says, Spoken
<1> QED BY <1>1, <1>2, <1>3, <1>4, <1>6 DEF Serving

\* What the server wrote in a round follows what it wrote before.
LEMMA Writes ==
    ASSUME NEW s, NEW c, NEW iq, NEW oq, PairOK(s, c, iq, oq),
           NEW t, Serving(t, ServerWrote(s), First(s)), s.authdone => t.authdone,
           NEW ip, ip \in Seq(ToServer(s.authdone)), Run("in", ip, ServerRead(t), ClientWrote(c))
    PROVE  PairOK(t, c, ip, Cat(oq, t.sent))
<1> DEFINE a == s.authdone
           b == t.authdone
<1>1. a \in BOOLEAN /\ b \in BOOLEAN
  BY DEF PairOK, ServerOK, Serving, Inv, SesType
<1>2. ToServer(a) \subseteq ToServer(b) /\ ToClient(a) \subseteq ToClient(b)
  BY <1>1, MoreTypes
<1>3. ip \in Seq(ToServer(b)) /\ oq \in Seq(ToClient(b))
  BY <1>2, SeqMore DEF PairOK, Linked
<1>4. /\ t.sent \in Seq(ToClient(b)) /\ t.queue \in Seq(HeldBack(b))
      /\ Run("out", t.sent, ServerWrote(s), ServerWrote(t))
      /\ Run("num", t.sent, First(s), First(t)) /\ Run("num", t.queue, First(t), t.made + 1)
  BY DEF Serving, Says, Spoken
<1>5. /\ Run("out", Cat(oq, t.sent), ClientRead(c), ServerWrote(t))
      /\ Run("num", Cat(oq, t.sent), c.expect, First(t)) /\ Cat(oq, t.sent) \in Seq(ToClient(b))
  BY <1>3, <1>4, RunCat, CatType DEF PairOK, Linked
<1>6. ServerOK(t)
  BY <1>4 DEF ServerOK, Serving
<1>7. ClientOK(c, b)
  BY DEF PairOK, ClientOK
<1> QED BY <1>3, <1>5, <1>6, <1>7 DEF PairOK, Linked

\* A round that handled a packet leading to stage y.
LEMMA RoundPair ==
    ASSUME PairOK(ses, cl, inq, outq), ses.state = "run", NEW s, NEW y, NEW ip,
           Processed(Begin, s, ServerWrote(ses), First(ses), y), ses' = Round(s),
           ip \in Seq(ToServer(ses.authdone)), Run("in", ip, y, ClientWrote(cl)),
           outq' = outq \o ses'.sent
    PROVE  ses'.state = "max auth tries" \/ PairOK(ses', cl, ip, outq')
<1>1. Begin.authdone = ses.authdone
  BY Starts DEF PairOK
<1>2. \/ ses'.state = "max auth tries"
      \/ /\ Serving(ses', ServerWrote(ses), First(ses)) /\ ServerRead(ses') = y
         /\ (Begin.authdone => ses'.authdone)
  BY RoundServes
<1>3. outq' = Cat(outq, ses'.sent)
  BY DEF Cat
<1> QED BY <1>1, <1>2, <1>3, Writes

LEMMA ServerReads ==
    ASSUME PairOK(ses, cl, inq, outq), ses.state = "run", ServerReceive
    PROVE  ses'.state = "max auth tries" \/ PairOK(ses', cl, inq', outq')
<1> DEFINE m == Head(inq)
           s == process_packet(Begin, m.p)
<1>1. /\ inq # <<>> /\ inq' = Tail(inq) /\ ses' = Round(s) /\ outq' = outq \o ses'.sent
  BY DEF ServerReceive, Receive, Written
<1>2. inq \in Seq(ToServer(ses.authdone)) /\ Run("in", inq, ServerRead(ses), ClientWrote(cl))
  BY DEF PairOK, Linked
<1>3. m \in ToServer(ses.authdone) /\ Tail(inq) \in Seq(ToServer(ses.authdone))
  BY <1>1, <1>2, HeadTailProperties
<1>4. PICK y \in Int : Step("in", ServerRead(ses), m, y) /\ Run("in", Tail(inq), y, ClientWrote(cl))
  BY <1>1, <1>2, RunTail
<1>5. /\ Serving(Begin, ServerWrote(ses), First(ses)) /\ ServerRead(Begin) = ServerRead(ses)
      /\ Begin.authdone = ses.authdone
  BY Starts DEF PairOK
<1>6. Processed(Begin, s, ServerWrote(ses), First(ses), y)
  BY <1>3, <1>4, <1>5, PacketProcessed
<1> HIDE DEF s
<1> QED BY <1>1, <1>3, <1>4, <1>6, RoundPair

\* A key exchange that the server starts.
LEMMA ServerRekeys ==
    ASSUME PairOK(ses, cl, inq, outq), correct, ServerRekey
    PROVE  ses'.state = "max auth tries" \/ PairOK(ses', cl, inq, outq')
<1> DEFINE s == send_msg_kexinit(Begin)
           x == ServerWrote(ses)
           n == First(ses)
<1>1. ses.state = "run" /\ ~ses.sentkexinit /\ ses' = Round(s) /\ outq' = outq \o ses'.sent
  BY DEF ServerRekey, Rekey, Written
<1>2. /\ Serving(Begin, x, n) /\ ServerRead(Begin) = ServerRead(ses)
      /\ Begin.authdone = ses.authdone /\ SameKex(ses, Begin)
  BY <1>1, Starts DEF PairOK
<1>3. Inv(Begin) /\ Begin \in SesType /\ KexFlags(Begin) /\ KexNext(Begin) /\ ~Begin.sentkexinit
      /\ Begin.state = "run" /\ Polite(Begin) /\ Flushed(Begin)
  BY <1>1, <1>2 DEF Serving, Inv, SameKex
<1>4. KexIdle(Begin)
  BY <1>3 DEF KexIdle, KexFlags, Inv, SesType
<1>5. ~Begin.recvkexinit /\ ~Begin.sentnewkeys
  BY <1>4 DEF KexIdle
<1>6. Begin.dataallowed /\ Begin.queue = <<>>
  <2>1. Begin.dataallowed = ~(Begin.sentkexinit /\ ~Begin.sentnewkeys)
    BY <1>3 DEF KexFlags
  <2> QED BY <1>3, <2>1 DEF Flushed
<1>7. Core(s) /\ s.sentkexinit /\ ~s.recvkexinit /\ ~s.sentnewkeys
      /\ s.requirenext = Begin.requirenext /\ s.gen = Begin.gen /\ s.rkey = Begin.rkey
      /\ s.ignorenext = Begin.ignorenext
  BY <1>4, SendKexinit
<1>8. Says(s, x, n, Begin.authdone) /\ SameAuth(Begin, s)
  BY <1>2, <1>4, <1>6, SaysKexinit DEF Serving
<1> HIDE DEF s, x, n
<1>9. KexNext(s)
  BY <1>3, <1>5, <1>7 DEF KexNext
<1>10. Inv(s) /\ s.state = "run"
  BY <1>7, <1>9, CoreInv DEF Core
<1>11. s.authdone = Begin.authdone /\ s.username = Begin.username
  BY <1>8 DEF SameAuth
<1>12. Polite(s)
  BY <1>3, <1>5, <1>7, <1>11 DEF Polite
<1>13. ServerRead(s) = ServerRead(ses)
  BY <1>2, <1>5, <1>7 DEF ServerRead
<1>14. Processed(Begin, s, x, n, ServerRead(ses))
  BY <1>8, <1>10, <1>11, <1>12, <1>13 DEF Processed
<1>15. inq \in Seq(ToServer(ses.authdone)) /\ Run("in", inq, ServerRead(ses), ClientWrote(cl))
  BY DEF PairOK, Linked
<1> QED BY <1>1, <1>14, <1>15, RoundPair DEF x, n

\* Data of a channel.
LEMMA ServerSends ==
    ASSUME PairOK(ses, cl, inq, outq), correct, ServerChannelIO
    PROVE  PairOK(ses', cl, inq, outq')
<1> DEFINE s == encrypt_packet(Begin, "CHANNEL_DATA")
           x == ServerWrote(ses)
           n == First(ses)
<1>1. ses.state = "run" /\ ses.authdone /\ ses' = s /\ outq' = outq \o ses'.sent
  BY DEF ServerChannelIO, ChannelIO, Written
<1>2. /\ Serving(Begin, x, n) /\ ServerRead(Begin) = ServerRead(ses)
      /\ Begin.authdone = ses.authdone /\ SameKex(ses, Begin)
  BY <1>1, Starts DEF PairOK
<1>3. Inv(Begin) /\ Begin \in SesType /\ KexFlags(Begin) /\ SentEncrypted(Begin)
      /\ Begin.state = "run" /\ Polite(Begin) /\ Flushed(Begin) /\ Begin.authdone \in BOOLEAN
  BY <1>1, <1>2 DEF Serving, Inv, SesType
<1>4. "CHANNEL_DATA" \in Reply /\ "CHANNEL_DATA" \notin Kex \cup {"UNIMPLEMENTED"}
  BY DEF Reply, Kex
<1>5. MaySend(Begin, "CHANNEL_DATA")
  BY <1>1, <1>2, <1>3 DEF Inv, CredentialsEncrypted, MaySend
<1>6. Talks(Begin, s)
  BY <1>3, <1>4, <1>5, EncryptPacket
<1>7. Says(s, x, n, Begin.authdone) /\ Flushed(s)
  BY <1>2, <1>3, <1>4, <1>6, SaysData DEF Serving
<1> HIDE DEF s, x, n
<1>8. Inv(s) /\ SameKex(Begin, s) /\ SameAuth(Begin, s) /\ s.state = "run" /\ s.ignorenext = Begin.ignorenext
  BY <1>3, <1>6, TalksInv DEF Talks
<1>9. ServerRead(s) = ServerRead(ses) /\ Polite(s) /\ s.authdone = ses.authdone
  BY <1>2, <1>3, <1>8 DEF ServerRead, Polite, SameKex, SameAuth
<1>10. Serving(s, x, n)
  BY <1>2, <1>7, <1>8, <1>9 DEF Serving
<1>11. inq \in Seq(ToServer(ses.authdone)) /\ Run("in", inq, ServerRead(s), ClientWrote(cl))
  BY <1>9 DEF PairOK, Linked
<1>12. PairOK(s, cl, inq, Cat(outq, s.sent))
  BY <1>9, <1>10, <1>11, Writes DEF x, n
<1> QED BY <1>1, <1>12 DEF Cat

-----------------------------------------------------------------------------
(* The invariant of the pair. *)

LEMMA PairInitInv == PairInit => PairInv
<1> SUFFICES ASSUME PairInit
             PROVE  PairInv
  OBVIOUS
<1>1. PICK a \in {"password", "publickey"} : ses = send_msg_kexinit(common_session_init(a))
  BY DEF PairInit, Init
<1>2. Inv(ses)
  BY InitInv DEF PairInit
<1> DEFINE s == common_session_init(a)
           t == send_msg_kexinit(s)
<1>3. /\ KexIdle(s) /\ s.requirenext = "KEXINIT" /\ s.gen = 0 /\ s.rkey = 0
      /\ s.dataallowed /\ s.ignorenext = FALSE /\ s.authdone = FALSE /\ s.username = None
      /\ s.sent = <<>> /\ s.queue = <<>> /\ s.made = 0
  BY InitIdle
<1>4. Core(t) /\ t.sentkexinit /\ ~t.recvkexinit /\ ~t.sentnewkeys /\ t.gen = s.gen /\ t.rkey = s.rkey
      /\ t.ignorenext = s.ignorenext
  BY <1>3, SendKexinit
<1> HIDE DEF s
<1>5. Says(s, 0, 1, FALSE)
  <2>1. ServerWrote(s) = 0 /\ First(s) = 1
    <3>1. Len(s.queue) = 0
      BY <1>3, EmptySeq
    <3>2. ~s.sentkexinit
      BY <1>3 DEF KexIdle
    <3> QED BY <1>3, <3>1, <3>2 DEF ServerWrote, First
  <2>2. Run("out", <<>>, 0, 0) /\ Run("num", <<>>, 1, 1)
    BY RunEmpty
  <2>3. <<>> \in Seq(ToClient(FALSE)) /\ <<>> \in Seq(HeldBack(FALSE)) /\ s.made + 1 = 1
    BY <1>3
  <2> QED BY <1>3, <2>1, <2>2, <2>3 DEF Says, Spoken
<1>6. Says(t, 0, 1, FALSE) /\ SameAuth(s, t)
  BY <1>3, <1>5, SaysKexinit
<1> HIDE DEF t
<1>7. t.authdone = FALSE /\ t.username = None /\ t.state = "run" /\ t.ignorenext = FALSE
  BY <1>3, <1>4, <1>6 DEF SameAuth, Core
<1>8. ~t.dataallowed
  <2>1. t.dataallowed = ~(t.sentkexinit /\ ~t.sentnewkeys)
    BY <1>4 DEF Core, KexFlags
  <2> QED BY <1>4, <2>1
<1>9. ses = t
  BY <1>1 DEF s, t
<1>10. Serving(t, 0, 1)
  BY <1>2, <1>6, <1>7, <1>8, <1>9 DEF Serving, Polite, Flushed
<1>11. ServerOK(t)
  BY <1>7, <1>10 DEF ServerOK, Serving, Says, Spoken
<1>12. cl \in ClientType /\ cl.kex = "none" /\ cl.got = FALSE /\ cl.gen = 0 /\ cl.ckey = 0 /\ cl.skey = 0
       /\ cl.expect = 1 /\ cl.phase = "service"
  BY DEF PairInit, ClientType
<1>13. ClientOK(cl, t.authdone) /\ ClientWrote(cl) = 0 /\ ClientRead(cl) = 0
  BY <1>12 DEF ClientOK, ClientWrote, ClientRead, ClientStage
<1>14. ServerRead(t) = 0
  BY <1>3, <1>4 DEF ServerRead
<1>15. Run("in", <<>>, 0, 0) /\ <<>> \in Seq(ToServer(t.authdone))
  BY RunEmpty
<1>16. Linked(t, cl, <<>>, t.sent)
  BY <1>7, <1>10, <1>12, <1>13, <1>14, <1>15 DEF Linked, Serving, Says, Spoken
<1>17. PairOK(t, cl, <<>>, t.sent)
  BY <1>11, <1>13, <1>16 DEF PairOK
<1> QED BY <1>2, <1>7, <1>9, <1>17 DEF PairInit, PairInv, CorrectServed

LEMMA PairNextInv == PairInv /\ [PairNext]_pairVars => PairInv'
<1> SUFFICES ASSUME PairInv, [PairNext]_pairVars
             PROVE  PairInv'
  OBVIOUS
<1> USE DEF Running
<1>1. [Next]_ses
  <2>1. ASSUME ServerReceive
        PROVE  Next
    <3>1. correct /\ Running /\ inq # <<>> /\ Receive(Head(inq).p)
      BY <2>1 DEF ServerReceive, Receive
    <3>2. inq \in Seq(ToServer(ses.authdone))
      BY <3>1 DEF PairInv, PairOK, Linked
    <3>3. Head(inq) \in ToServer(ses.authdone)
      BY <3>1, <3>2, HeadTailProperties
    <3>4. Head(inq).p \in Packet
      BY <3>3 DEF ToServer
    <3> QED BY <3>1, <3>4 DEF Next
  <2>2. ASSUME NEW p \in Packet, ServerReceiveAny(p)
        PROVE  Next
    BY <2>2 DEF ServerReceiveAny, Next
  <2>3. ServerRekey \/ ServerChannelIO \/ ServerClose => Next
    BY DEF ServerRekey, ServerChannelIO, ServerClose, Next
  <2>4. (\E g \in Guess : ClientKexinit(g)) \/ ClientKexdh \/ ClientRequests \/ ClientReceive => UNCHANGED ses
    BY DEF ClientKexinit, ClientKexdh, ClientRequests, ClientRequest, ClientReceive
  <2> QED BY <2>1, <2>2, <2>3, <2>4 DEF PairNext, pairVars
<1>2. Inv(ses')
  BY <1>1, NextInv DEF PairInv
<1>3. ASSUME correct, correct', Running, UNCHANGED ses, PairOK(ses, cl', inq', outq')
      PROVE  PairInv'
  BY <1>2, <1>3 DEF PairInv, CorrectServed
<1>4. ASSUME correct, correct', UNCHANGED cl,
             ses'.state \in {"max auth tries", "closed"} \/ PairOK(ses', cl, inq', outq')
      PROVE  PairInv'
  <2>1. PairOK(ses', cl, inq', outq') => ses'.state = "run"
    BY DEF PairOK, ServerOK
  <2>2. CorrectServed'
    BY <1>4, <2>1 DEF CorrectServed
  <2>3. ses'.state = "run" => PairOK(ses', cl', inq', outq')
    BY <1>4
  <2> QED BY <1>2, <1>4, <2>2, <2>3 DEF PairInv
<1>5. ASSUME ~correct, ~correct', inq' = <<>>, outq' = <<>>
      PROVE  PairInv'
  BY <1>2, <1>5 DEF PairInv, CorrectServed
<1>6. ASSUME correct, Running
      PROVE  PairOK(ses, cl, inq, outq)
  BY <1>6 DEF PairInv
<1>7. ASSUME NEW g \in Guess, ClientKexinit(g)
      PROVE  PairInv'
  <2>1. correct /\ Running /\ UNCHANGED <<ses, correct, outq>>
    BY <1>7 DEF ClientKexinit
  <2> QED BY <1>3, <1>6, <1>7, <2>1, KexinitPut
<1>8. CASE ClientKexdh
  <2>1. correct /\ Running /\ UNCHANGED <<ses, correct, outq>>
    BY <1>8 DEF ClientKexdh
  <2> QED BY <1>3, <1>6, <1>8, <2>1, KexdhPut
<1>9. ASSUME NEW p \in Packet, ClientRequest(p)
      PROVE  PairInv'
  <2>1. correct /\ Running /\ UNCHANGED <<ses, correct, outq>>
    BY <1>9 DEF ClientRequest
  <2> QED BY <1>3, <1>6, <1>9, <2>1, RequestPut
<1>10. CASE ClientReceive
  <2>1. correct /\ Running /\ UNCHANGED <<ses, correct>>
    BY <1>10 DEF ClientReceive
  <2> QED BY <1>3, <1>6, <1>10, <2>1, ClientReads
<1>11. CASE ServerReceive
  <2>1. correct /\ Running /\ UNCHANGED <<correct, cl>>
    BY <1>11 DEF ServerReceive, Receive
  <2>2. ses'.state = "max auth tries" \/ PairOK(ses', cl, inq', outq')
    BY <1>6, <1>11, <2>1, ServerReads
  <2> QED BY <1>4, <2>1, <2>2
<1>12. ASSUME NEW p \in Packet, ServerReceiveAny(p)
       PROVE  PairInv'
  BY <1>5, <1>12 DEF ServerReceiveAny, Written, PairInv
<1>13. CASE ServerRekey
  <2>1. Running /\ UNCHANGED <<correct, cl, inq>>
    BY <1>13 DEF ServerRekey, Rekey
  <2>2. CASE correct
    BY <1>4, <1>6, <1>13, <2>1, <2>2, ServerRekeys
  <2>3. CASE ~correct
    BY <1>5, <1>13, <2>1, <2>3 DEF ServerRekey, Written, PairInv
  <2> QED BY <2>2, <2>3
<1>14. CASE ServerChannelIO
  <2>1. Running /\ UNCHANGED <<correct, cl, inq>>
    BY <1>14 DEF ServerChannelIO, ChannelIO
  <2>2. CASE correct
    BY <1>4, <1>6, <1>14, <2>1, <2>2, ServerSends
  <2>3. CASE ~correct
    BY <1>5, <1>14, <2>1, <2>3 DEF ServerChannelIO, Written, PairInv
  <2> QED BY <2>2, <2>3
<1>15. CASE ServerClose
  <2>1. Close /\ UNCHANGED <<correct, cl, inq, outq>>
    BY <1>15 DEF ServerClose
  <2>2. CASE correct
    <3>1. ses'.state = "closed"
      <4>1. Begin \in SesType
        BY Silence DEF PairInv, Inv, Begin
      <4> QED BY <2>1, <4>1 DEF Close, exit, SesType
    <3> QED BY <1>4, <2>1, <2>2, <3>1
  <2>3. CASE ~correct
    BY <1>5, <2>1, <2>3 DEF PairInv
  <2> QED BY <2>2, <2>3
<1>16. CASE UNCHANGED pairVars
  BY <1>16 DEF PairInv, CorrectServed, pairVars
<1> QED BY <1>7, <1>8, <1>9, <1>10, <1>11, <1>12, <1>13, <1>14, <1>15, <1>16 DEF PairNext, ClientRequests

\* A session and its client keep the invariant of the pair, whichever side starts
\* key exchanges and however the two directions of the connection interleave.
THEOREM PairInvariance == PairSpec => []PairInv
BY PairInitInv, PairNextInv, PTL DEF PairSpec

\* The packet at the head of a queue fits the stage of its reader.
LEMMA HeadFits ==
    ASSUME PairInv, correct, Running
    PROVE  /\ inq # <<>> => Head(inq).key = ses.rkey
           /\ outq # <<>> => /\ Head(outq).key = cl.skey /\ OutFrom(Head(outq)) = ClientStage(cl)
                             /\ Head(outq).n > 0 => Head(outq).n = cl.expect
                             /\ Head(outq) \in ToClient(ses.authdone)
<1>1. PairOK(ses, cl, inq, outq)
  BY DEF PairInv
<1>2. ASSUME inq # <<>>
      PROVE  Head(inq).key = ses.rkey
  <2>1. Head(inq) \in ToServer(ses.authdone) /\ ses \in SesType
    BY <1>1, <1>2, HeadTailProperties DEF PairOK, Linked, ServerOK, Inv
  <2>2. PICK y \in Int : Step("in", ServerRead(ses), Head(inq), y)
    BY <1>1, <1>2, RunTail DEF PairOK, Linked
  <2> QED BY <2>1, <2>2, InStage
<1>3. ASSUME outq # <<>>
      PROVE  /\ Head(outq).key = cl.skey /\ OutFrom(Head(outq)) = ClientStage(cl)
             /\ Head(outq).n > 0 => Head(outq).n = cl.expect
             /\ Head(outq) \in ToClient(ses.authdone)
  <2>1. Head(outq) \in ToClient(ses.authdone) /\ cl \in ClientType /\ cl.skey = cl.gen
    BY <1>1, <1>3, HeadTailProperties DEF PairOK, Linked, ClientOK
  <2>2. PICK y \in Int : Step("out", ClientRead(cl), Head(outq), y)
    BY <1>1, <1>3, RunTail DEF PairOK, Linked
  <2>3. PICK z \in Int : Step("num", cl.expect, Head(outq), z)
    BY <1>1, <1>3, RunTail DEF PairOK, Linked
  <2>4. Head(outq).n > 0 => Head(outq).n = cl.expect
    BY <2>3 DEF Step
  <2> QED BY <2>1, <2>2, <2>4, OutStage
<1> QED BY <1>2, <1>3

\* send_msg_newkeys(), recv_msg_newkeys() and switch_keys() change the keys of each
\* direction at the packet where the other end changes them: a packet is decrypted
\* with the keys it was encrypted with, whoever starts the exchange.
THEOREM EndsAgreeOnKeys == PairSpec => []KeysAgree
<1>1. PairInv => KeysAgree
  <2>1. CASE correct
    BY <2>1, HeadFits DEF KeysAgree
  <2>2. CASE ~correct
    BY <2>2 DEF PairInv, KeysAgree
  <2> QED BY <2>1, <2>2
<1> QED BY <1>1, PairInvariance, PTL

\* process_packet() and the handlers throw out no client that follows the protocol,
\* wherever its packets and the server's own KEXINIT cross; only maxauthtries ends it.
THEOREM CorrectClientServed == PairSpec => []CorrectServed
<1>1. PairInv => CorrectServed
  BY DEF PairInv
<1> QED BY <1>1, PairInvariance, PTL

\* encrypt_packet() and maybe_flush_reply_queue() keep the order in which packets
\* were made, through every exchange that holds some of them back, and lose none.
THEOREM PacketsInOrder == PairSpec => []InOrder
<1>1. PairInv => InOrder
  <2>1. CASE correct
    BY <2>1, HeadFits DEF InOrder
  <2>2. CASE ~correct
    BY <2>2 DEF PairInv, InOrder
  <2> QED BY <2>1, <2>2
<1> QED BY <1>1, PairInvariance, PTL

\* encrypt_packet() sends nothing but the key exchange between the server's KEXINIT
\* and its NEWKEYS, as the client sees them.
THEOREM SilentDuringKex == PairSpec => []QuietDuringKex
<1>1. PairInv => QuietDuringKex
  <2> SUFFICES ASSUME PairInv, Running, outq # <<>>, cl.got
               PROVE  Head(outq).n = 0
    BY DEF QuietDuringKex
  <2>1. correct
    BY DEF PairInv
  <2>2. OutFrom(Head(outq)) = ClientStage(cl) /\ Head(outq) \in ToClient(ses.authdone)
    BY <2>1, HeadFits
  <2>3. ClientStage(cl) \in {1, 2}
    BY DEF ClientStage
  <2>4. Head(outq).type \in {"KEXDH_REPLY", "NEWKEYS"}
    BY <2>2, <2>3 DEF OutFrom
  <2> QED BY <2>2, <2>4 DEF ToClient, OutOK
<1> QED BY <1>1, PairInvariance, PTL
=============================================================================
