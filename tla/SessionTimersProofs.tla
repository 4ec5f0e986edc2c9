------------------------- MODULE SessionTimersProofs -------------------------
(***************************************************************************)
(* Proofs about SessionTimers, for every choice of the time limits: the    *)
(* main loop does not sleep past a deadline, and does not spin.            *)
(***************************************************************************)
EXTENDS SessionTimers, TLAPS

Limit == keepalive_secs * DEFAULT_KEEPALIVE_LIMIT

\* What a session looks like when nothing is overdue.
InTime(s) ==
    /\ ~s.authdone => s.connect < AUTH_TIMEOUT
    /\ s.ident = "known" =>
         /\ idle_timeout_secs > 0 => s.idle < idle_timeout_secs
         /\ s.kex = "none" => s.kexage < KEX_REKEY_TIMEOUT
         /\ keepalives(s) =>
              /\ s.recv < Limit
              /\ s.recv < keepalive_secs \/ s.sent < keepalive_secs
              /\ dataallowed(s) => s.any < keepalive_secs

\* t is s, with some time stamps renewed.
Younger(s, t) ==
    /\ t \in SesType
    /\ t.state = s.state /\ t.ident = s.ident /\ t.authdone = s.authdone /\ t.kex = s.kex
    /\ t.connect = s.connect /\ t.kexage = s.kexage
    /\ t.any <= s.any /\ t.recv <= s.recv /\ t.sent <= s.sent /\ t.idle <= s.idle

LEMMA Ages ==
    ASSUME NEW s \in SesType
    PROVE  /\ s.connect \in Nat /\ s.kexage \in Nat /\ s.any \in Nat /\ s.recv \in Nat /\ s.sent \in Nat
           /\ s.idle \in Nat /\ s.quiet \in Nat /\ s.chan \in Nat
           /\ 0 \in Age /\ Forever \in Age
BY TimeAssumption DEF SesType, Age

LEMMA Limits ==
    /\ Limit \in Nat
    /\ Limit >= keepalive_secs
    /\ keepalive_secs * (DEFAULT_KEEPALIVE_LIMIT + 1) = Limit + keepalive_secs
<1>1. keepalive_secs \in Nat /\ DEFAULT_KEEPALIVE_LIMIT \in Nat /\ DEFAULT_KEEPALIVE_LIMIT >= 1
  BY TimeAssumption
<1>2. \A k, n \in Nat : k * n \in Nat /\ k * (n + 1) = k * n + k /\ (n >= 1 => k * n >= k)
  OBVIOUS
<1> QED BY <1>1, <1>2 DEF Limit

LEMMA YoungerInTime ==
    ASSUME NEW s \in SesType, NEW t, InTime(s), Younger(s, t)
    PROVE  InTime(t)
<1>1. /\ s.any \in Nat /\ s.recv \in Nat /\ s.sent \in Nat /\ s.idle \in Nat
      /\ t.any \in Nat /\ t.recv \in Nat /\ t.sent \in Nat /\ t.idle \in Nat
  BY Ages DEF Younger
<1>2. /\ keepalive_secs \in Nat /\ idle_timeout_secs \in Nat /\ Limit \in Nat
  BY Limits, TimeAssumption
<1>3. /\ t.ident = s.ident /\ t.authdone = s.authdone /\ t.kex = s.kex
      /\ t.connect = s.connect /\ t.kexage = s.kexage
      /\ t.any <= s.any /\ t.recv <= s.recv /\ t.sent <= s.sent /\ t.idle <= s.idle
  BY DEF Younger
<1>4. keepalives(t) = keepalives(s) /\ dataallowed(t) = dataallowed(s)
  BY <1>3 DEF keepalives, dataallowed
<1>5. ASSUME t.ident = "known", idle_timeout_secs > 0
      PROVE  t.idle < idle_timeout_secs
  <2>1. s.idle < idle_timeout_secs
    BY <1>3, <1>5 DEF InTime
  <2> QED BY <1>1, <1>2, <1>3, <2>1
<1>6. ASSUME t.ident = "known", keepalives(t)
      PROVE  /\ t.recv < Limit
             /\ t.recv < keepalive_secs \/ t.sent < keepalive_secs
             /\ dataallowed(t) => t.any < keepalive_secs
  <2>1. /\ s.recv < Limit
        /\ s.recv < keepalive_secs \/ s.sent < keepalive_secs
        /\ dataallowed(t) => s.any < keepalive_secs
    BY <1>3, <1>4, <1>6 DEF InTime
  <2> QED BY <1>1, <1>2, <1>3, <2>1
<1> QED BY <1>3, <1>5, <1>6 DEF InTime

\* encrypt_packet() renews time stamps, and any if it does not hold the packet back.
LEMMA EncryptPacket ==
    ASSUME NEW s \in SesType, NEW type \in Answer \cup {"keepalive", "other", "kex"}
    PROVE  LET t == encrypt_packet(s, type)
           IN  Younger(s, t) /\ t.ready = s.ready /\ t.asked = s.asked /\ t.owed = s.owed
               /\ (dataallowed(s) \/ type = "kex" => t.any = 0)
<1>1. 0 \in Age /\ s.any >= 0 /\ s.idle >= 0 /\ s.recv <= s.recv /\ s.sent <= s.sent /\ s.idle <= s.idle
      /\ s.any <= s.any
  BY Ages
<1>2. CASE ~dataallowed(s) /\ type \notin {"kex", "UNIMPLEMENTED"}
  <2> DEFINE held == s.held \cup {type}
             t == [s EXCEPT !.held = held]
  <2>1. held \in SUBSET (Answer \cup {"keepalive", "other"})
    BY <1>2 DEF SesType
  <2>2. encrypt_packet(s, type) = t
    BY <1>2 DEF encrypt_packet
  <2> HIDE DEF held
  <2>3. t \in SesType
    BY <2>1 DEF SesType
  <2>4. /\ t.state = s.state /\ t.ident = s.ident /\ t.authdone = s.authdone /\ t.kex = s.kex
        /\ t.connect = s.connect /\ t.kexage = s.kexage
        /\ t.any = s.any /\ t.recv = s.recv /\ t.sent = s.sent /\ t.idle = s.idle
        /\ t.ready = s.ready /\ t.asked = s.asked /\ t.owed = s.owed
    BY DEF SesType
  <2> HIDE DEF t
  <2>5. Younger(s, t)
    BY <1>1, <2>3, <2>4 DEF Younger
  <2> QED BY <1>2, <2>2, <2>4, <2>5
<1>3. CASE ~(~dataallowed(s) /\ type \notin {"kex", "UNIMPLEMENTED"})
  <2> DEFINE idle == IF type \in Answer THEN s.idle ELSE 0
             quiet == IF type \in Answer \cup {"keepalive"} THEN s.quiet ELSE 0
             t == [s EXCEPT !.any = 0, !.idle = idle, !.quiet = quiet]
  <2>1. idle \in Age /\ quiet \in Age /\ idle <= s.idle
    BY <1>1 DEF SesType
  <2>2. encrypt_packet(s, type) = t
    BY <1>3 DEF encrypt_packet
  <2> HIDE DEF idle, quiet
  <2>3. t \in SesType
    BY <1>1, <2>1 DEF SesType
  <2>4. /\ t.state = s.state /\ t.ident = s.ident /\ t.authdone = s.authdone /\ t.kex = s.kex
        /\ t.connect = s.connect /\ t.kexage = s.kexage
        /\ t.any = 0 /\ t.recv = s.recv /\ t.sent = s.sent /\ t.idle = idle
        /\ t.ready = s.ready /\ t.asked = s.asked /\ t.owed = s.owed
    BY DEF SesType
  <2> HIDE DEF t
  <2>5. Younger(s, t)
    BY <1>1, <2>1, <2>3, <2>4 DEF Younger
  <2> QED BY <2>2, <2>4, <2>5
<1> QED BY <1>2, <1>3

LEMMA FlushYounger ==
    ASSUME NEW s \in SesType
    PROVE  Younger(s, maybe_flush_reply_queue(s))
<1>1. 0 \in Age /\ s.any >= 0 /\ s.idle >= 0 /\ s.recv <= s.recv /\ s.sent <= s.sent /\ s.idle <= s.idle
      /\ s.any <= s.any
  BY Ages
<1>2. CASE ~dataallowed(s) \/ s.held = {}
  BY <1>1, <1>2 DEF maybe_flush_reply_queue, Younger
<1>3. CASE ~(~dataallowed(s) \/ s.held = {})
  <2> DEFINE idle == IF s.held \subseteq Answer THEN s.idle ELSE 0
             quiet == IF s.held \subseteq Answer \cup {"keepalive"} THEN s.quiet ELSE 0
             t == [s EXCEPT !.held = {}, !.any = 0, !.idle = idle, !.quiet = quiet]
  <2>1. idle \in Age /\ quiet \in Age /\ idle <= s.idle
    BY <1>1 DEF SesType
  <2>2. maybe_flush_reply_queue(s) = t
    BY <1>3 DEF maybe_flush_reply_queue
  <2> HIDE DEF idle, quiet
  <2>3. t \in SesType
    BY <1>1, <2>1 DEF SesType
  <2>4. /\ t.state = s.state /\ t.ident = s.ident /\ t.authdone = s.authdone /\ t.kex = s.kex
        /\ t.connect = s.connect /\ t.kexage = s.kexage
        /\ t.any = 0 /\ t.recv = s.recv /\ t.sent = s.sent /\ t.idle = idle
    BY DEF SesType
  <2> HIDE DEF t
  <2> QED BY <1>1, <2>1, <2>2, <2>3, <2>4 DEF Younger
<1> QED BY <1>2, <1>3

\* A keepalive renews sent, and any if it is not held back.
LEMMA Keepalive ==
    ASSUME NEW s \in SesType
    PROVE  LET t == send_msg_keepalive(s)
           IN  /\ Younger(s, t) /\ t.sent = 0 /\ (dataallowed(s) => t.any = 0) /\ t.idle = s.idle
<1> DEFINE e == encrypt_packet(s, "keepalive")
           asked == IF dataallowed(s) THEN Min2(e.asked + 1, DEFAULT_KEEPALIVE_LIMIT) ELSE e.asked
           owed == e.owed \/ s.ready
           t == [e EXCEPT !.sent = 0, !.idle = s.idle, !.owed = owed, !.asked = asked]
<1>1. Younger(s, e) /\ (dataallowed(s) => e.any = 0)
  BY EncryptPacket
<1>2. send_msg_keepalive(s) = t
  BY DEF send_msg_keepalive
<1> HIDE DEF e
<1>3. 0 \in Age /\ s.sent >= 0 /\ s.idle \in Age /\ s.idle <= s.idle
  BY Ages DEF SesType
<1>4. asked \in 0 .. DEFAULT_KEEPALIVE_LIMIT
  BY <1>1, TimeAssumption DEF Younger, SesType, Min2
<1>5. owed \in BOOLEAN
  BY <1>1 DEF Younger, SesType
<1> HIDE DEF asked, owed
<1>6. t \in SesType
  BY <1>1, <1>3, <1>4, <1>5 DEF SesType, Younger
<1>7. /\ t.state = e.state /\ t.ident = e.ident /\ t.authdone = e.authdone /\ t.kex = e.kex
      /\ t.connect = e.connect /\ t.kexage = e.kexage
      /\ t.any = e.any /\ t.recv = e.recv /\ t.sent = 0 /\ t.idle = s.idle
  BY <1>1 DEF SesType, Younger
<1> HIDE DEF t
<1> QED BY <1>1, <1>2, <1>3, <1>6, <1>7 DEF Younger

LEMMA SendKexinit ==
    ASSUME NEW s \in SesType
    PROVE  LET t == send_msg_kexinit(s)
           IN  /\ t \in SesType /\ t.state = s.state /\ t.ident = s.ident /\ t.authdone = s.authdone
               /\ t.kex = "sent" /\ t.connect = s.connect /\ t.kexage = s.kexage
               /\ t.any = 0 /\ t.recv <= s.recv /\ t.sent <= s.sent /\ t.idle <= s.idle
<1> DEFINE e == encrypt_packet(s, "kex")
           t == [e EXCEPT !.kex = "sent"]
<1>1. Younger(s, e) /\ e.any = 0
  BY EncryptPacket
<1>2. send_msg_kexinit(s) = t
  BY DEF send_msg_kexinit
<1> HIDE DEF e
<1>3. t \in SesType
  BY <1>1 DEF SesType, Younger
<1>4. /\ t.state = e.state /\ t.ident = e.ident /\ t.authdone = e.authdone /\ t.kex = "sent"
      /\ t.connect = e.connect /\ t.kexage = e.kexage
      /\ t.any = e.any /\ t.recv = e.recv /\ t.sent = e.sent /\ t.idle = e.idle
  BY <1>1 DEF SesType, Younger
<1> HIDE DEF t
<1> QED BY <1>1, <1>2, <1>3, <1>4 DEF Younger

\* checktimeouts() leaves nothing overdue, whatever was overdue before it.
LEMMA Checktimeouts ==
    ASSUME NEW s \in SesType, s.state = "run", NEW full \in BOOLEAN
    PROVE  LET t == checktimeouts(s, full)
           IN  /\ t \in SesType
               /\ t.state = "run" => /\ InTime(t)
                                     /\ t.ident = IF s.ident \in {"none", "reading"} THEN s.ident ELSE "known"
<1> DEFINE k == [s EXCEPT !.ident = "known"]
           r == IF k.kex = "none" /\ (k.kexage >= KEX_REKEY_TIMEOUT \/ full) THEN send_msg_kexinit(k) ELSE k
           a == IF keepalives(r) /\ r.any >= keepalive_secs THEN send_msg_keepalive(r) ELSE r
           b == IF keepalives(a) /\ a.recv >= keepalive_secs /\ a.sent >= keepalive_secs
                THEN send_msg_keepalive(a) ELSE a
           t == checktimeouts(s, full)
<1>1. t = IF ~s.authdone /\ s.connect >= AUTH_TIMEOUT THEN exit(s, "auth_timeout")
          ELSE IF s.ident \in {"none", "reading"} THEN s
          ELSE IF keepalives(b) /\ b.recv >= keepalive_secs * DEFAULT_KEEPALIVE_LIMIT THEN keepalive_timeout(b, s.asked)
          ELSE IF idle_timeout_secs > 0 /\ b.idle >= idle_timeout_secs THEN exit(b, "idle_timeout")
          ELSE b
  BY DEF checktimeouts
<1>2. /\ k \in SesType /\ k.state = "run" /\ k.ident = "known" /\ k.authdone = s.authdone /\ k.connect = s.connect
  BY DEF SesType
<1> HIDE DEF k
<1>3. /\ r \in SesType /\ r.state = "run" /\ r.ident = "known" /\ r.authdone = s.authdone /\ r.connect = s.connect
      /\ r.kex = "none" => r.kexage < KEX_REKEY_TIMEOUT
  <2>1. CASE k.kex = "none" /\ (k.kexage >= KEX_REKEY_TIMEOUT \/ full)
    BY <1>2, <2>1, SendKexinit
  <2>2. CASE ~(k.kex = "none" /\ (k.kexage >= KEX_REKEY_TIMEOUT \/ full))
    <3>1. k.kexage \in Nat /\ KEX_REKEY_TIMEOUT \in Nat
      BY <1>2, Ages, TimeAssumption
    <3> QED BY <1>2, <2>2, <3>1
  <2> QED BY <2>1, <2>2
<1> HIDE DEF r
<1>4. /\ Younger(r, a) /\ (keepalives(a) /\ dataallowed(a) => a.any < keepalive_secs)
  <2>1. r.any \in Nat /\ r.recv \in Nat /\ r.sent \in Nat /\ r.idle \in Nat /\ keepalive_secs \in Nat
    BY <1>3, Ages, TimeAssumption
  <2>2. CASE keepalives(r) /\ r.any >= keepalive_secs
    <3>1. Younger(r, a) /\ (dataallowed(r) => a.any = 0)
      BY <1>3, <2>2, Keepalive
    <3>2. dataallowed(a) => dataallowed(r)
      BY <3>1 DEF Younger, dataallowed
    <3>3. keepalive_secs > 0
      BY <2>2 DEF keepalives
    <3> HIDE DEF a
    <3> QED BY <3>1, <3>2, <3>3
  <2>3. CASE ~(keepalives(r) /\ r.any >= keepalive_secs)
    <3>1. a = r
      BY <2>3
    <3> HIDE DEF a
    <3>2. Younger(r, a)
      BY <1>3, <2>1, <3>1 DEF Younger
    <3> QED BY <2>1, <2>3, <3>1, <3>2
  <2> QED BY <2>2, <2>3
<1> HIDE DEF a
<1>5. a \in SesType /\ a.any \in Nat /\ a.recv \in Nat /\ a.sent \in Nat /\ a.idle \in Nat /\ keepalive_secs \in Nat
  BY <1>4, Ages, TimeAssumption DEF Younger
<1>6. /\ Younger(a, b)
      /\ keepalives(b) => b.recv < keepalive_secs \/ b.sent < keepalive_secs
  <2>1. CASE keepalives(a) /\ a.recv >= keepalive_secs /\ a.sent >= keepalive_secs
    <3>1. Younger(a, b) /\ b.sent = 0
      BY <1>5, <2>1, Keepalive
    <3>2. keepalive_secs > 0
      BY <2>1 DEF keepalives
    <3> QED BY <3>1, <3>2
  <2>2. CASE ~(keepalives(a) /\ a.recv >= keepalive_secs /\ a.sent >= keepalive_secs)
    <3>1. b = a
      BY <2>2
    <3> HIDE DEF b
    <3>2. Younger(a, b)
      BY <1>5, <3>1 DEF Younger
    <3> QED BY <1>5, <2>2, <3>1, <3>2
  <2> QED BY <2>1, <2>2
<1> HIDE DEF b
<1>7. /\ b \in SesType /\ b.any \in Nat /\ b.recv \in Nat /\ b.idle \in Nat
      /\ b.state = "run" /\ b.ident = "known" /\ b.authdone = s.authdone /\ b.connect = s.connect
      /\ b.kex = "none" => b.kexage < KEX_REKEY_TIMEOUT
  <2>1. b \in SesType
    BY <1>6 DEF Younger
  <2> QED BY <1>3, <1>4, <1>6, <2>1, Ages DEF Younger
<1>8. keepalives(b) /\ dataallowed(b) => b.any < keepalive_secs
  <2>1. keepalives(b) = keepalives(a) /\ dataallowed(b) = dataallowed(a) /\ b.any <= a.any
    BY <1>6 DEF Younger, keepalives, dataallowed
  <2> QED BY <1>4, <1>5, <1>7, <2>1
<1>9. s.connect \in Nat /\ AUTH_TIMEOUT \in Nat /\ idle_timeout_secs \in Nat /\ Limit \in Nat
  BY Ages, Limits, TimeAssumption
<1>10. CASE ~s.authdone /\ s.connect >= AUTH_TIMEOUT
  <2>1. t = exit(s, "auth_timeout")
    BY <1>1, <1>10
  <2>2. exit(s, "auth_timeout") \in SesType /\ exit(s, "auth_timeout").state # "run"
    BY DEF exit, SesType
  <2> QED BY <2>1, <2>2
<1>11. CASE ~(~s.authdone /\ s.connect >= AUTH_TIMEOUT)
  <2>1. ~s.authdone => s.connect < AUTH_TIMEOUT
    BY <1>9, <1>11
  <2>2. CASE s.ident \in {"none", "reading"}
    <3>1. t = s
      BY <1>1, <1>11, <2>2
    <3>2. InTime(s)
      BY <2>1, <2>2 DEF InTime
    <3> QED BY <2>2, <3>1, <3>2
  <2>3. CASE s.ident \notin {"none", "reading"} /\ keepalives(b) /\ b.recv >= Limit
    <3>1. t = keepalive_timeout(b, s.asked)
      BY <1>1, <1>11, <2>3 DEF Limit
    <3>2. s.asked \in 0 .. DEFAULT_KEEPALIVE_LIMIT
      BY DEF SesType
    <3>3. keepalive_timeout(b, s.asked) \in SesType /\ keepalive_timeout(b, s.asked).state # "run"
      BY <1>7, <3>2 DEF keepalive_timeout, exit, SesType
    <3> QED BY <3>1, <3>3
  <2>4. CASE s.ident \notin {"none", "reading"} /\ ~(keepalives(b) /\ b.recv >= Limit)
             /\ idle_timeout_secs > 0 /\ b.idle >= idle_timeout_secs
    <3>1. t = exit(b, "idle_timeout")
      BY <1>1, <1>11, <2>4 DEF Limit
    <3>2. exit(b, "idle_timeout") \in SesType /\ exit(b, "idle_timeout").state # "run"
      BY <1>7 DEF exit, SesType
    <3> QED BY <3>1, <3>2
  <2>5. CASE s.ident \notin {"none", "reading"} /\ ~(keepalives(b) /\ b.recv >= Limit)
             /\ ~(idle_timeout_secs > 0 /\ b.idle >= idle_timeout_secs)
    <3>1. t = b
      BY <1>1, <1>11, <2>5 DEF Limit
    <3>2. keepalives(b) => b.recv < Limit
      BY <1>7, <1>9, <2>5
    <3>3. idle_timeout_secs > 0 => b.idle < idle_timeout_secs
      BY <1>7, <1>9, <2>5
    <3>4. InTime(b)
      BY <1>6, <1>7, <1>8, <2>1, <3>2, <3>3 DEF InTime
    <3> QED BY <1>7, <2>5, <3>1, <3>4
  <2> QED BY <2>2, <2>3, <2>4, <2>5
<1> QED BY <1>10, <1>11

\* A handler leaves nothing overdue either: the packets it sends and the one it
\* received only renew time stamps, and a key exchange or an authentication that
\* makes a limit apply renews what it is measured from.
LEMMA ProcessPacket ==
    ASSUME NEW s \in SesType, s.state = "run", s.ident = "known", InTime(s),
           NEW type \in PacketType, Allowed(s, type)
    PROVE  LET t == process_packet(s, type)
           IN  t \in SesType /\ t.state = "run" /\ t.ident = "known" /\ InTime(t)
<1> DEFINE r == [s EXCEPT !.recv = 0, !.asked = 0]
           idle == IF type \in {"GLOBAL_REQUEST", "REQUEST_FAILURE"} THEN r.idle ELSE 0
           quiet == IF type \in Quiet THEN r.quiet ELSE 0
           q == [r EXCEPT !.idle = idle, !.quiet = quiet]
<1>1. 0 \in Age /\ s.any \in Nat /\ s.recv \in Nat /\ s.sent \in Nat /\ s.idle \in Nat
      /\ 0 \in 0 .. DEFAULT_KEEPALIVE_LIMIT
  BY Ages, TimeAssumption
<1>2. r \in SesType
  BY <1>1 DEF SesType
<1>3. /\ r.state = s.state /\ r.ident = s.ident /\ r.authdone = s.authdone /\ r.kex = s.kex
      /\ r.connect = s.connect /\ r.kexage = s.kexage
      /\ r.any = s.any /\ r.recv = 0 /\ r.sent = s.sent /\ r.idle = s.idle
  BY DEF SesType
<1>4. process_packet(s, type) = IF type = "IGNORE" THEN r ELSE Handle(q, type)
  BY DEF process_packet
<1> HIDE DEF r
<1>5. Younger(s, r)
  BY <1>1, <1>2, <1>3 DEF Younger
<1>6. idle \in Age /\ quiet \in Age /\ idle <= s.idle
  BY <1>1, <1>2, <1>3 DEF SesType
<1> HIDE DEF idle, quiet
<1>7. q \in SesType
  BY <1>2, <1>6 DEF SesType
<1>8. /\ q.state = r.state /\ q.ident = r.ident /\ q.authdone = r.authdone /\ q.kex = r.kex
      /\ q.connect = r.connect /\ q.kexage = r.kexage
      /\ q.any = r.any /\ q.recv = 0 /\ q.sent = r.sent /\ q.idle = idle
  BY <1>2, <1>3 DEF SesType
<1> HIDE DEF q
<1>9. Younger(s, q)
  BY <1>1, <1>3, <1>6, <1>7, <1>8 DEF Younger
<1>10. InTime(r) /\ InTime(q)
  BY <1>5, <1>9, YoungerInTime
<1>11. q.state = "run" /\ q.ident = "known" /\ q.recv = 0
  BY <1>3, <1>8
<1>12. KEX_REKEY_TIMEOUT > 0 /\ Limit \in Nat /\ keepalive_secs \in Nat /\ Limit >= keepalive_secs
  BY Limits, TimeAssumption
<1>13. ASSUME NEW u \in SesType, NEW v \in SesType, InTime(u),
              v.state = u.state, v.ident = u.ident, v.authdone = u.authdone, v.kex = u.kex,
              v.connect = u.connect, v.kexage = u.kexage, v.any = u.any, v.recv = u.recv,
              v.sent = u.sent, v.idle = u.idle
       PROVE  InTime(v)
  BY <1>13 DEF InTime, keepalives, dataallowed
<1>14. CASE type = "KEXINIT"
  <2> DEFINE o == IF q.kex = "none" THEN send_msg_kexinit(q) ELSE q
             t == [o EXCEPT !.kex = "recv"]
  <2>1. Handle(q, type) = t
    BY <1>14 DEF Handle
  <2>2. /\ o \in SesType /\ o.state = q.state /\ o.ident = q.ident /\ o.authdone = q.authdone
        /\ o.connect = q.connect
        /\ o.recv <= q.recv /\ o.sent <= q.sent /\ o.idle <= q.idle
    <3>1. q.recv \in Nat /\ q.sent \in Nat /\ q.idle \in Nat
      BY <1>7, Ages
    <3> QED BY <1>7, <3>1, SendKexinit
  <2> HIDE DEF o
  <2>3. t \in SesType
    BY <2>2 DEF SesType
  <2>4. /\ t.state = o.state /\ t.ident = o.ident /\ t.authdone = o.authdone /\ t.kex = "recv"
        /\ t.connect = o.connect /\ t.recv = o.recv /\ t.sent = o.sent /\ t.idle = o.idle
    BY <2>2 DEF SesType
  <2> HIDE DEF t
  <2>5. t.idle \in Nat /\ t.recv \in Nat /\ t.sent \in Nat /\ q.idle \in Nat /\ q.recv \in Nat /\ q.sent \in Nat
    BY <1>7, <2>3, Ages
  <2>6. ~dataallowed(t) /\ (keepalives(t) => keepalives(q))
    BY <2>2, <2>4 DEF dataallowed, keepalives
  <2>7. idle_timeout_secs > 0 => t.idle < idle_timeout_secs
    <3>1. idle_timeout_secs > 0 => q.idle < idle_timeout_secs
      BY <1>10, <1>11 DEF InTime
    <3> QED BY <2>2, <2>4, <2>5, <3>1, TimeAssumption
  <2>8. keepalives(t) => t.recv < Limit /\ t.recv < keepalive_secs
    <3>1. t.recv = 0
      BY <1>11, <2>2, <2>4, <2>5
    <3> QED BY <1>12, <3>1 DEF keepalives
  <2>9. ~t.authdone => t.connect < AUTH_TIMEOUT
    BY <1>10, <2>2, <2>4 DEF InTime
  <2>10. InTime(t)
    BY <2>4, <2>6, <2>7, <2>8, <2>9 DEF InTime
  <2> QED BY <1>4, <1>11, <1>14, <2>1, <2>2, <2>3, <2>4, <2>10
<1>15. CASE type = "KEXDH_INIT"
  <2> DEFINE e == encrypt_packet(q, "kex")
             t == [e EXCEPT !.kex = "newkeys"]
  <2>1. Handle(q, type) = t
    BY <1>15 DEF Handle
  <2>2. Younger(q, e) /\ e.any = 0
    BY <1>7, EncryptPacket
  <2>3. InTime(e)
    BY <1>7, <1>10, <2>2, YoungerInTime
  <2> HIDE DEF e
  <2>4. t \in SesType
    BY <2>2 DEF SesType, Younger
  <2>5. /\ t.state = e.state /\ t.ident = e.ident /\ t.authdone = e.authdone /\ t.kex = "newkeys"
        /\ t.connect = e.connect /\ t.any = e.any /\ t.recv = e.recv /\ t.sent = e.sent /\ t.idle = e.idle
    BY <2>2 DEF SesType, Younger
  <2> HIDE DEF t
  <2>6. keepalives(t) => t.any < keepalive_secs
    BY <1>12, <2>2, <2>5 DEF keepalives
  <2>7. keepalives(t) => keepalives(e)
    BY <2>5 DEF keepalives
  <2>8. InTime(t)
    BY <2>3, <2>5, <2>6, <2>7 DEF InTime
  <2> QED BY <1>4, <1>11, <1>15, <2>1, <2>2, <2>4, <2>5, <2>8 DEF Younger
<1>16. CASE type = "NEWKEYS"
  <2> DEFINE t == [q EXCEPT !.kex = "none", !.kexage = 0, !.firstkex = TRUE]
  <2>1. Handle(q, type) = t
    BY <1>16 DEF Handle
  <2>2. t \in SesType
    BY <1>1, <1>7 DEF SesType
  <2>3. /\ t.state = q.state /\ t.ident = q.ident /\ t.authdone = q.authdone /\ t.kex = "none" /\ t.kexage = 0
        /\ t.connect = q.connect /\ t.any = q.any /\ t.recv = q.recv /\ t.sent = q.sent /\ t.idle = q.idle
    BY <1>7 DEF SesType
  <2> HIDE DEF t
  <2>4. dataallowed(q)
    <3>1. s.kex = "newkeys"
      BY <1>16 DEF Allowed
    <3> QED BY <1>3, <1>8, <3>1 DEF dataallowed
  <2>5. keepalives(t) => keepalives(q)
    BY <2>3 DEF keepalives
  <2>6. InTime(t)
    BY <1>10, <1>12, <2>3, <2>4, <2>5 DEF InTime
  <2> QED BY <1>4, <1>11, <1>16, <2>1, <2>2, <2>3, <2>6
<1>17. CASE type = "USERAUTH_REQUEST"
  <2> DEFINE e == encrypt_packet(q, "other")
             t == [e EXCEPT !.authdone = TRUE, !.connect = 0]
  <2>1. Handle(q, type) = t
    BY <1>17 DEF Handle
  <2>2. Younger(q, e) /\ (dataallowed(q) => e.any = 0)
    BY <1>7, EncryptPacket
  <2>3. InTime(e)
    BY <1>7, <1>10, <2>2, YoungerInTime
  <2> HIDE DEF e
  <2>4. t \in SesType
    BY <1>1, <2>2 DEF SesType, Younger
  <2>5. /\ t.state = e.state /\ t.ident = e.ident /\ t.authdone = TRUE /\ t.kex = e.kex /\ t.kexage = e.kexage
        /\ t.any = e.any /\ t.recv = e.recv /\ t.idle = e.idle
    BY <2>2 DEF SesType, Younger
  <2> HIDE DEF t
  <2>6. t.recv = 0
    <3>1. t.recv \in Nat /\ t.recv <= 0
      BY <1>11, <2>2, <2>4, <2>5, Ages DEF Younger
    <3> QED BY <3>1
  <2>7. keepalives(t) => t.recv < keepalive_secs /\ t.recv < Limit
    BY <1>12, <2>6 DEF keepalives
  <2>8. keepalives(t) /\ dataallowed(t) => t.any < keepalive_secs
    <3>1. dataallowed(t) => dataallowed(q)
      BY <2>2, <2>5 DEF Younger, dataallowed
    <3> QED BY <1>12, <2>2, <2>5, <3>1 DEF keepalives
  <2>9. InTime(t)
    BY <2>3, <2>5, <2>7, <2>8 DEF InTime
  <2> QED BY <1>4, <1>11, <1>17, <2>1, <2>2, <2>4, <2>5, <2>9 DEF Younger
<1>18. CASE type = "CHANNEL_OPEN"
  <2> DEFINE e == encrypt_packet(q, "other")
             t == [e EXCEPT !.ready = TRUE]
  <2>1. Handle(q, type) = t
    BY <1>18 DEF Handle
  <2>2. Younger(q, e)
    BY <1>7, EncryptPacket
  <2>3. InTime(e) /\ e \in SesType
    BY <1>7, <1>10, <2>2, YoungerInTime DEF Younger
  <2> HIDE DEF e
  <2>4. t \in SesType
    BY <2>3 DEF SesType
  <2>5. /\ t.state = e.state /\ t.ident = e.ident /\ t.authdone = e.authdone /\ t.kex = e.kex
        /\ t.connect = e.connect /\ t.kexage = e.kexage /\ t.any = e.any /\ t.recv = e.recv
        /\ t.sent = e.sent /\ t.idle = e.idle
    BY <2>3 DEF SesType
  <2> HIDE DEF t
  <2>6. InTime(t)
    BY <1>13, <2>3, <2>4, <2>5
  <2> QED BY <1>4, <1>11, <1>18, <2>1, <2>2, <2>4, <2>5, <2>6 DEF Younger
<1>19. CASE type = "GLOBAL_REQUEST"
  <2> DEFINE t == encrypt_packet(q, "REQUEST_FAILURE")
  <2>1. Handle(q, type) = t
    BY <1>19 DEF Handle
  <2>2. Younger(q, t)
    BY <1>7, EncryptPacket DEF Answer
  <2> HIDE DEF t
  <2>3. InTime(t)
    BY <1>7, <1>10, <2>2, YoungerInTime
  <2> QED BY <1>4, <1>11, <1>19, <2>1, <2>2, <2>3 DEF Younger
<1>20. CASE type \in {"CHANNEL_EOF", "CHANNEL_FAILURE"}
  <2> DEFINE t == IF type = "CHANNEL_EOF" THEN [q EXCEPT !.ready = FALSE] ELSE [q EXCEPT !.chan = 0, !.owed = FALSE]
  <2>1. Handle(q, type) = t
    BY <1>20 DEF Handle
  <2>2. t \in SesType
    BY <1>1, <1>7 DEF SesType
  <2>3. /\ t.state = q.state /\ t.ident = q.ident /\ t.authdone = q.authdone /\ t.kex = q.kex
        /\ t.connect = q.connect /\ t.kexage = q.kexage /\ t.any = q.any /\ t.recv = q.recv
        /\ t.sent = q.sent /\ t.idle = q.idle
    BY <1>7 DEF SesType
  <2> HIDE DEF t
  <2>4. InTime(t)
    BY <1>7, <1>10, <1>13, <2>2, <2>3
  <2> QED BY <1>4, <1>11, <1>20, <2>1, <2>2, <2>3, <2>4
<1>21. CASE type \in {"IGNORE", "REQUEST_FAILURE", "CHANNEL_DATA"}
  <2>1. Handle(q, type) = q \/ type = "IGNORE"
    BY <1>21 DEF Handle
  <2> QED BY <1>2, <1>3, <1>4, <1>7, <1>10, <1>11, <2>1
<1> QED BY <1>14, <1>15, <1>16, <1>17, <1>18, <1>19, <1>20, <1>21 DEF PacketType, Kex, Quiet

-----------------------------------------------------------------------------
(* The timeout of select(). *)

LEMMA UpdateTimeout ==
    ASSUME NEW timeout \in Nat, NEW limit \in Nat, NEW age \in Nat
    PROVE  LET t == update_timeout(timeout, limit, age)
           IN  /\ t \in Nat /\ t <= timeout
               /\ limit > 0 /\ age < limit => t + age <= limit
               /\ limit > 0 /\ age >= limit => t = 0
               /\ timeout > 0 /\ (limit > 0 => age < limit) => t > 0
BY DEF update_timeout, Min2

\* select_timeout() ends before any limit it looks at, and sleeps when nothing is due.
LEMMA SelectTimeout ==
    ASSUME NEW s \in SesType, InTime(s)
    PROVE  LET t == select_timeout(s)
           IN  /\ t \in Nat
               /\ ~s.authdone => s.connect + t <= AUTH_TIMEOUT
               /\ s.ident = "known" =>
                    /\ t > 0
                    /\ idle_timeout_secs > 0 => s.idle + t <= idle_timeout_secs
                    /\ s.kex = "none" => s.kexage + t <= KEX_REKEY_TIMEOUT
                    /\ keepalives(s) => t + Min2(s.recv, s.sent) <= keepalive_secs
<1> DEFINE k == IF s.kex = "none" THEN update_timeout(KEX_REKEY_TIMEOUT, KEX_REKEY_TIMEOUT, s.kexage) ELSE KEX_REKEY_TIMEOUT
           a == IF ~s.authdone THEN update_timeout(k, AUTH_TIMEOUT, s.connect) ELSE k
           p == IF s.authdone THEN update_timeout(a, keepalive_secs, Min2(s.recv, s.sent)) ELSE a
           t == update_timeout(p, idle_timeout_secs, s.idle)
<1>1. select_timeout(s) = t
  BY DEF select_timeout
<1>2. /\ KEX_REKEY_TIMEOUT \in Nat /\ KEX_REKEY_TIMEOUT > 0 /\ AUTH_TIMEOUT \in Nat /\ AUTH_TIMEOUT > 0
      /\ keepalive_secs \in Nat /\ idle_timeout_secs \in Nat
  BY TimeAssumption
<1>3. s.connect \in Nat /\ s.kexage \in Nat /\ s.recv \in Nat /\ s.sent \in Nat /\ s.idle \in Nat
  BY Ages
<1>4. Min2(s.recv, s.sent) \in Nat /\ Min2(s.recv, s.sent) <= s.recv /\ Min2(s.recv, s.sent) <= s.sent
  BY <1>3 DEF Min2
<1> DEFINE min == Min2(s.recv, s.sent)
<1>5. min \in Nat
  BY <1>4
<1> HIDE DEF min
<1>6. /\ k \in Nat
      /\ s.kex = "none" /\ s.kexage < KEX_REKEY_TIMEOUT => k > 0 /\ k + s.kexage <= KEX_REKEY_TIMEOUT
      /\ s.kex # "none" => k > 0
  <2>1. CASE s.kex = "none"
    BY <1>2, <1>3, <2>1, UpdateTimeout
  <2>2. CASE s.kex # "none"
    BY <1>2, <2>2
  <2> QED BY <2>1, <2>2
<1> HIDE DEF k
<1>7. /\ a \in Nat /\ a <= k
      /\ ~s.authdone => a + s.connect <= AUTH_TIMEOUT
      /\ k > 0 => a > 0
  <2>1. CASE ~s.authdone
    <3>1. s.connect < AUTH_TIMEOUT
      BY <2>1 DEF InTime
    <3> QED BY <1>2, <1>3, <1>6, <2>1, <3>1, UpdateTimeout
  <2>2. CASE s.authdone
    BY <1>6, <2>2
  <2> QED BY <2>1, <2>2
<1> HIDE DEF a
<1>8. /\ p \in Nat /\ p <= a
      /\ s.ident = "known" /\ keepalives(s) => p + min <= keepalive_secs
      /\ s.ident = "known" /\ a > 0 => p > 0
  <2>1. CASE s.authdone
    <3>1. p = update_timeout(a, keepalive_secs, min)
      BY <2>1 DEF min
    <3>2. min \in Nat /\ (s.ident = "known" /\ keepalive_secs > 0 => min < keepalive_secs)
      <4>1. s.ident = "known" /\ keepalive_secs > 0 => s.recv < keepalive_secs \/ s.sent < keepalive_secs
        BY <2>1 DEF InTime, keepalives
      <4> QED BY <1>2, <1>3, <1>4, <4>1 DEF min
    <3> HIDE DEF p
    <3>3. /\ p \in Nat /\ p <= a
          /\ keepalive_secs > 0 /\ min < keepalive_secs => p + min <= keepalive_secs
          /\ a > 0 /\ (keepalive_secs > 0 => min < keepalive_secs) => p > 0
      BY <1>2, <1>7, <3>1, <3>2, UpdateTimeout
    <3>4. s.ident = "known" /\ keepalives(s) => p + min <= keepalive_secs
      BY <1>2, <3>2, <3>3 DEF keepalives
    <3> QED BY <1>2, <3>2, <3>3, <3>4
  <2>2. CASE ~s.authdone
    BY <1>7, <2>2 DEF keepalives
  <2> QED BY <2>1, <2>2
<1> HIDE DEF p
<1>9. /\ t \in Nat /\ t <= p
      /\ idle_timeout_secs > 0 /\ s.idle < idle_timeout_secs => t + s.idle <= idle_timeout_secs
      /\ p > 0 /\ (idle_timeout_secs > 0 => s.idle < idle_timeout_secs) => t > 0
  BY <1>2, <1>3, <1>8, UpdateTimeout
<1> HIDE DEF t
<1>10. ~s.authdone => s.connect + t <= AUTH_TIMEOUT
  BY <1>2, <1>3, <1>7, <1>8, <1>9
<1>11. ASSUME s.ident = "known"
       PROVE  /\ t > 0
              /\ idle_timeout_secs > 0 => s.idle + t <= idle_timeout_secs
              /\ s.kex = "none" => s.kexage + t <= KEX_REKEY_TIMEOUT
              /\ keepalives(s) => t + min <= keepalive_secs
  <2>1. /\ idle_timeout_secs > 0 => s.idle < idle_timeout_secs
        /\ s.kex = "none" => s.kexage < KEX_REKEY_TIMEOUT
    BY <1>11 DEF InTime
  <2>2. t > 0
    BY <1>6, <1>7, <1>8, <1>9, <1>11, <2>1
  <2>3. idle_timeout_secs > 0 => s.idle + t <= idle_timeout_secs
    BY <1>3, <1>9, <2>1
  <2>4. s.kex = "none" => s.kexage + t <= KEX_REKEY_TIMEOUT
    BY <1>2, <1>3, <1>6, <1>7, <1>8, <1>9, <2>1
  <2>5. keepalives(s) => t + min <= keepalive_secs
    BY <1>2, <1>5, <1>8, <1>9, <1>11
  <2> QED BY <2>2, <2>3, <2>4, <2>5
<1> QED BY <1>1, <1>9, <1>10, <1>11 DEF min

-----------------------------------------------------------------------------
(* The invariant: what is left of the timeout ends before the deadlines. *)

Timed(s, l, sp) ==
    /\ s.state # "run" => ~sp
    /\ s.state = "run" =>
        /\ sp => l = 0
        /\ ~s.authdone => IF sp THEN s.connect < AUTH_TIMEOUT ELSE s.connect + l <= AUTH_TIMEOUT
        /\ s.ident = "known" =>
             /\ ~sp
             /\ idle_timeout_secs > 0 => s.idle + l <= idle_timeout_secs
             /\ s.kex = "none" => s.kexage + l <= KEX_REKEY_TIMEOUT
             /\ keepalives(s) => s.recv + l < Limit + keepalive_secs
             /\ keepalives(s) /\ dataallowed(s) => s.any + l < 2 * keepalive_secs

TimersInv == TypeOK /\ Timed(ses, left, spin)

\* A round that leaves nothing overdue goes to sleep in time.
LEMMA RoundInv ==
    ASSUME NEW s \in SesType, s.state = "run" => InTime(s), Round(s)
    PROVE  TimersInv'
<1>1. CASE s.state = "run"
  <2> DEFINE f == maybe_flush_reply_queue(s)
             l == select_timeout(f)
  <2>1. ses' = f /\ left' = l /\ spin' = (l = 0)
    BY <1>1 DEF Round
  <2>2. Younger(s, f)
    BY FlushYounger
  <2> HIDE DEF f
  <2>3. InTime(f) /\ f \in SesType
    BY <1>1, <2>2, YoungerInTime DEF Younger
  <2>4. /\ l \in Nat
        /\ ~f.authdone => f.connect + l <= AUTH_TIMEOUT
        /\ f.ident = "known" =>
             /\ l > 0
             /\ idle_timeout_secs > 0 => f.idle + l <= idle_timeout_secs
             /\ f.kex = "none" => f.kexage + l <= KEX_REKEY_TIMEOUT
             /\ keepalives(f) => l + Min2(f.recv, f.sent) <= keepalive_secs
    BY <2>3, SelectTimeout
  <2> HIDE DEF l
  <2>5. f.recv \in Nat /\ f.sent \in Nat /\ f.any \in Nat /\ keepalive_secs \in Nat /\ Limit \in Nat
    BY <2>3, Ages, Limits, TimeAssumption
  <2>6. f.ident = "known" /\ keepalives(f) => f.recv + l < Limit + keepalive_secs
    <3>1. f.ident = "known" /\ keepalives(f) => f.recv < Limit
      BY <2>3 DEF InTime
    <3> QED BY <2>4, <2>5, <3>1 DEF Min2
  <2>7. f.ident = "known" /\ keepalives(f) /\ dataallowed(f) => f.any + l < 2 * keepalive_secs
    <3>1. f.ident = "known" /\ keepalives(f) /\ dataallowed(f) => f.any < keepalive_secs
      BY <2>3 DEF InTime
    <3> QED BY <2>4, <2>5, <3>1 DEF Min2
  <2>8. ~f.authdone => f.connect < AUTH_TIMEOUT
    BY <2>3 DEF InTime
  <2>9. l = 0 => f.ident # "known"
    BY <2>4
  <2> DEFINE sp == (l = 0)
  <2>10. sp \in BOOLEAN /\ (sp <=> l = 0)
    OBVIOUS
  <2> HIDE DEF sp
  <2>11. Timed(f, l, sp)
    <3>1. f.state = "run"
      BY <1>1, <2>2 DEF Younger
    <3> QED BY <2>4, <2>6, <2>7, <2>8, <2>9, <2>10, <3>1 DEF Timed
  <2>12. spin' = sp
    BY <2>1 DEF sp
  <2> QED BY <2>1, <2>3, <2>4, <2>10, <2>11, <2>12 DEF TimersInv, TypeOK
<1>2. CASE s.state # "run"
  <2>1. ses' = s /\ left' = 0 /\ spin' = FALSE
    BY <1>2 DEF Round
  <2> QED BY <1>2, <2>1 DEF TimersInv, TypeOK, Timed
<1> QED BY <1>1, <1>2

LEMMA InitInv == Init => TimersInv
<1> SUFFICES ASSUME Init PROVE TimersInv
  OBVIOUS
<1>1. 0 \in Age /\ Forever \in Age /\ 0 \in 0 .. DEFAULT_KEEPALIVE_LIMIT /\ AUTH_TIMEOUT > 0
  BY TimeAssumption DEF Age
<1>2. ses \in SesType
  BY <1>1 DEF Init, common_session_init, SesType
<1>3. ses.ident = "none" /\ ses.authdone = FALSE /\ ses.connect = 0
  BY DEF Init, common_session_init
<1>4. InTime(ses)
  BY <1>1, <1>3 DEF InTime
<1>5. left \in Nat /\ ses.connect + left <= AUTH_TIMEOUT
  BY <1>2, <1>3, <1>4, SelectTimeout DEF Init
<1> QED BY <1>2, <1>3, <1>5 DEF TimersInv, TypeOK, Timed, Init

LEMMA TickInv == TimersInv /\ Tick => TimersInv'
<1> SUFFICES ASSUME TimersInv, Tick PROVE TimersInv'
  OBVIOUS
<1>1. ses \in SesType /\ left \in Nat /\ spin \in BOOLEAN /\ Timed(ses, left, spin) /\ ses.state = "run"
  BY DEF TimersInv, TypeOK, Tick
<1>2. \A age \in Age : Older(age) \in Age /\ Older(age) <= age + 1
  BY TimeAssumption DEF Older, Age
<1> DEFINE c == IF ses.authdone THEN 0 ELSE Older(ses.connect)
           t == [ses EXCEPT !.connect = c, !.kexage = Older(@), !.any = Older(@), !.recv = Older(@),
                            !.sent = Older(@), !.idle = Older(@), !.quiet = Older(@), !.chan = Older(@)]
<1>3. ses' = t
  BY DEF Tick
<1>4. /\ ses.connect \in Age /\ ses.kexage \in Age /\ ses.any \in Age /\ ses.recv \in Age /\ ses.sent \in Age
      /\ ses.idle \in Age /\ ses.quiet \in Age /\ ses.chan \in Age
  BY <1>1 DEF SesType
<1>5. /\ c \in Age /\ Older(ses.kexage) \in Age /\ Older(ses.any) \in Age /\ Older(ses.recv) \in Age
      /\ Older(ses.sent) \in Age /\ Older(ses.idle) \in Age /\ Older(ses.quiet) \in Age /\ Older(ses.chan) \in Age
  BY <1>1, <1>2, <1>4, Ages
<1> HIDE DEF c
<1>6. t \in SesType
  BY <1>1, <1>5 DEF SesType
<1>7. /\ t.state = ses.state /\ t.ident = ses.ident /\ t.authdone = ses.authdone /\ t.kex = ses.kex
      /\ t.connect = c /\ t.kexage = Older(ses.kexage) /\ t.any = Older(ses.any) /\ t.recv = Older(ses.recv)
      /\ t.idle = Older(ses.idle)
  BY <1>1 DEF SesType
<1> HIDE DEF t
<1>8. /\ t.connect \in Nat /\ t.kexage \in Nat /\ t.any \in Nat /\ t.recv \in Nat /\ t.idle \in Nat
      /\ ses.connect \in Nat /\ ses.kexage \in Nat /\ ses.any \in Nat /\ ses.recv \in Nat /\ ses.idle \in Nat
  BY <1>1, <1>6, Ages
<1>9. /\ ~ses.authdone => t.connect <= ses.connect + 1
      /\ t.kexage <= ses.kexage + 1 /\ t.any <= ses.any + 1
      /\ t.recv <= ses.recv + 1 /\ t.idle <= ses.idle + 1
  BY <1>2, <1>4, <1>7 DEF c
<1>10. /\ keepalive_secs \in Nat /\ Limit \in Nat /\ AUTH_TIMEOUT \in Nat /\ idle_timeout_secs \in Nat
       /\ KEX_REKEY_TIMEOUT \in Nat /\ 2 * keepalive_secs \in Nat
  BY Limits, TimeAssumption
<1> DEFINE l == IF left > 0 THEN left - 1 ELSE 0
<1>11. left' = l /\ spin' = FALSE /\ (left > 0 \/ spin)
  BY DEF Tick
<1>12. l \in Nat /\ (~spin => l + 1 = left) /\ (spin => l = 0)
  BY <1>1, <1>11 DEF Timed
<1> HIDE DEF l
<1>13. ~t.authdone => t.connect + l <= AUTH_TIMEOUT
  <2>1. ~ses.authdone => IF spin THEN ses.connect < AUTH_TIMEOUT ELSE ses.connect + left <= AUTH_TIMEOUT
    BY <1>1 DEF Timed
  <2> QED BY <1>1, <1>7, <1>8, <1>9, <1>10, <1>12, <2>1
<1>14. ASSUME t.ident = "known"
       PROVE  /\ idle_timeout_secs > 0 => t.idle + l <= idle_timeout_secs
              /\ t.kex = "none" => t.kexage + l <= KEX_REKEY_TIMEOUT
              /\ keepalives(t) => t.recv + l < Limit + keepalive_secs
              /\ keepalives(t) /\ dataallowed(t) => t.any + l < 2 * keepalive_secs
  <2>1. keepalives(t) = keepalives(ses) /\ dataallowed(t) = dataallowed(ses)
    BY <1>7 DEF keepalives, dataallowed
  <2>2. /\ ~spin
        /\ idle_timeout_secs > 0 => ses.idle + left <= idle_timeout_secs
        /\ t.kex = "none" => ses.kexage + left <= KEX_REKEY_TIMEOUT
        /\ keepalives(t) => ses.recv + left < Limit + keepalive_secs
        /\ keepalives(t) /\ dataallowed(t) => ses.any + left < 2 * keepalive_secs
    BY <1>1, <1>7, <1>14, <2>1 DEF Timed
  <2>3. l + 1 = left
    BY <1>12, <2>2
  <2>4. idle_timeout_secs > 0 => t.idle + l <= idle_timeout_secs
    BY <1>1, <1>8, <1>9, <1>10, <1>12, <2>2, <2>3
  <2>5. t.kex = "none" => t.kexage + l <= KEX_REKEY_TIMEOUT
    BY <1>1, <1>8, <1>9, <1>10, <1>12, <2>2, <2>3
  <2>6. keepalives(t) => t.recv + l < Limit + keepalive_secs
    BY <1>1, <1>8, <1>9, <1>10, <1>12, <2>2, <2>3
  <2>7. keepalives(t) /\ dataallowed(t) => t.any + l < 2 * keepalive_secs
    BY <1>1, <1>8, <1>9, <1>10, <1>12, <2>2, <2>3
  <2> QED BY <2>4, <2>5, <2>6, <2>7
<1>15. Timed(t, l, FALSE)
  BY <1>13, <1>14 DEF Timed
<1> QED BY <1>3, <1>6, <1>11, <1>12, <1>15 DEF TimersInv, TypeOK

LEMMA NextInv == TimersInv /\ [Next]_vars => TimersInv'
<1> SUFFICES ASSUME TimersInv, [Next]_vars PROVE TimersInv'
  OBVIOUS
<1>1. ses \in SesType /\ left \in Nat /\ spin \in BOOLEAN /\ Timed(ses, left, spin)
  BY DEF TimersInv, TypeOK
<1>2. CASE Tick
  BY <1>2, TickInv
<1>3. CASE Wake
  <2>1. PICK full \in BOOLEAN : Round(checktimeouts(ses, full))
    BY <1>3 DEF Wake
  <2> QED BY <1>1, <1>3, <2>1, Checktimeouts, RoundInv DEF Wake
<1>4. ASSUME NEW type \in PacketType, Deliver(type)
      PROVE  TimersInv'
  <2> DEFINE s == checktimeouts(ses, FALSE)
             r == IF s.state = "run" THEN process_packet(s, type) ELSE s
  <2>1. ses.state = "run" /\ ses.ident \in {"fresh", "known"} /\ Allowed(s, type) /\ Round(r)
    BY <1>4 DEF Deliver
  <2>2. s \in SesType /\ (s.state = "run" => InTime(s) /\ s.ident = "known")
    BY <1>1, <2>1, Checktimeouts
  <2> HIDE DEF s
  <2>3. r \in SesType /\ (r.state = "run" => InTime(r))
    BY <2>1, <2>2, ProcessPacket
  <2> HIDE DEF r
  <2> QED BY <2>1, <2>3, RoundInv
<1>5. CASE Output
  <2> DEFINE s == checktimeouts(ses, FALSE)
             r == IF s.state = "run" THEN encrypt_packet(s, "other") ELSE s
  <2>1. ses.state = "run" /\ Round(r)
    BY <1>5 DEF Output
  <2>2. s \in SesType /\ (s.state = "run" => InTime(s))
    BY <1>1, <2>1, Checktimeouts
  <2> HIDE DEF s
  <2>3. Younger(s, encrypt_packet(s, "other"))
    BY <2>2, EncryptPacket
  <2>4. r \in SesType /\ (r.state = "run" => InTime(r))
    BY <2>2, <2>3, YoungerInTime DEF Younger
  <2> HIDE DEF r
  <2> QED BY <2>1, <2>4, RoundInv
<1>6. CASE ReadIdent
  <2> DEFINE s == checktimeouts(ses, FALSE)
             w == [s EXCEPT !.ident = "reading"]
             k == [s EXCEPT !.ident = "fresh"]
             r == IF s.state = "run" THEN k ELSE s
  <2>1. /\ ses.state = "run"
        /\ \/ s.state = "run" /\ ses' = w /\ left' = 1 /\ spin' = FALSE
           \/ Round(r)
    BY <1>6 DEF ReadIdent
  <2>2. s \in SesType /\ (s.state = "run" => InTime(s))
    BY <1>1, <2>1, Checktimeouts
  <2> HIDE DEF s
  <2>3. w \in SesType /\ w.ident = "reading" /\ w.authdone = s.authdone /\ w.connect = s.connect
    BY <2>2 DEF SesType
  <2>4. k \in SesType /\ k.ident = "fresh" /\ k.authdone = s.authdone /\ k.connect = s.connect
    BY <2>2 DEF SesType
  <2>5. CASE s.state = "run" /\ ses' = w /\ left' = 1 /\ spin' = FALSE
    <3> HIDE DEF w
    <3>1. ~w.authdone => w.connect < AUTH_TIMEOUT
      BY <2>2, <2>3, <2>5 DEF InTime
    <3>2. w.connect \in Nat /\ AUTH_TIMEOUT \in Nat
      BY <2>3, Ages, TimeAssumption
    <3>3. ~w.authdone => w.connect + 1 <= AUTH_TIMEOUT
      BY <3>1, <3>2
    <3>4. Timed(w, 1, FALSE)
      BY <2>3, <3>3 DEF Timed
    <3> QED BY <2>3, <2>5, <3>4 DEF TimersInv, TypeOK
  <2>6. CASE Round(r)
    <3>1. s.state = "run" => InTime(k)
      BY <2>2, <2>4 DEF InTime
    <3>2. r \in SesType /\ (r.state = "run" => InTime(r))
      BY <2>2, <2>4, <3>1
    <3> HIDE DEF r
    <3> QED BY <2>6, <3>2, RoundInv
  <2> QED BY <2>1, <2>5, <2>6
<1>7. CASE UNCHANGED vars
  BY <1>7 DEF vars, TimersInv, TypeOK, Timed, keepalives, dataallowed
<1> QED BY <1>2, <1>3, <1>4, <1>5, <1>6, <1>7 DEF Next

-----------------------------------------------------------------------------
\* Whatever packets come and whenever they do, what is left of the timeout ends
\* before the deadlines.
THEOREM Invariance == Spec => []TimersInv
<1> QED BY InitInv, NextInv, PTL DEF Spec

\* The time stamps, the timeout and the rest keep their types.
THEOREM TypeCorrect == Spec => []TypeOK
<1>1. TimersInv => TypeOK
  BY DEF TimersInv
<1> QED BY <1>1, Invariance, PTL

\* session_loop() never sleeps past a deadline of checktimeouts().
THEOREM DeadlinesMet == Spec => []OnTime
<1>1. TimersInv => OnTime
  <2> SUFFICES ASSUME TimersInv, ses.state = "run" PROVE OnTime
    BY DEF OnTime
  <2>1. ses \in SesType /\ left \in Nat /\ spin \in BOOLEAN /\ Timed(ses, left, spin)
    BY DEF TimersInv, TypeOK
  <2>2. /\ ses.connect \in Nat /\ ses.idle \in Nat /\ ses.recv \in Nat /\ ses.any \in Nat /\ ses.kexage \in Nat
        /\ AUTH_TIMEOUT \in Nat /\ idle_timeout_secs \in Nat /\ keepalive_secs \in Nat /\ Limit \in Nat
        /\ KEX_REKEY_TIMEOUT \in Nat
    BY <2>1, Ages, Limits, TimeAssumption
  <2>3. ~ses.authdone => ses.connect <= AUTH_TIMEOUT
    BY <2>1, <2>2 DEF Timed
  <2>4. ASSUME ses.ident = "known"
        PROVE  /\ idle_timeout_secs > 0 => ses.idle <= idle_timeout_secs
               /\ ses.kex = "none" => ses.kexage <= KEX_REKEY_TIMEOUT
               /\ keepalives(ses) => ses.recv < Limit + keepalive_secs
               /\ keepalives(ses) /\ dataallowed(ses) => ses.any < 2 * keepalive_secs
    <3>1. /\ idle_timeout_secs > 0 => ses.idle + left <= idle_timeout_secs
          /\ ses.kex = "none" => ses.kexage + left <= KEX_REKEY_TIMEOUT
          /\ keepalives(ses) => ses.recv + left < Limit + keepalive_secs
          /\ keepalives(ses) /\ dataallowed(ses) => ses.any + left < 2 * keepalive_secs
      BY <2>1, <2>4 DEF Timed
    <3> QED BY <2>1, <2>2, <3>1
  <2>5. keepalive_secs * (DEFAULT_KEEPALIVE_LIMIT + 1) = Limit + keepalive_secs
    BY Limits
  <2> QED BY <2>3, <2>4, <2>5 DEF OnTime
<1> QED BY <1>1, Invariance, PTL

\* select_timeout() and checktimeouts() agree on what is due: the loop sleeps.
THEOREM LoopSleeps == Spec => []NoBusyLoop
<1>1. TimersInv => NoBusyLoop
  BY DEF TimersInv, Timed, NoBusyLoop
<1> QED BY <1>1, Invariance, PTL

-----------------------------------------------------------------------------
(* The keepalive limit.  A keepalive is sent at the latest keepalive_secs   *)
(* after the last one or the last packet, so that outside a key exchange    *)
(* the count of keepalives keeps up with the time since the peer was last   *)
(* heard of.  An exchange ends only with packets of the peer, after which   *)
(* both start again.                                                        *)

Counted(s) ==
    dataallowed(s) /\ s.asked < DEFAULT_KEEPALIVE_LIMIT
        => s.recv <= s.sent + keepalive_secs * s.asked

\* KeepaliveLimit, of any session.
GivenUp(s) ==
    s.state = "keepalive_timeout" => s.asked >= DEFAULT_KEEPALIVE_LIMIT - 1 \/ ~dataallowed(s)

KeepInv ==
    /\ ses.state = "run" => Counted(ses)
    /\ ses.state = "run" /\ ses.authdone => ses.ident = "known"
    /\ ses.state = "run" /\ keepalives(ses) => Min2(ses.recv, ses.sent) + left <= keepalive_secs
    /\ KeepaliveLimit

Same(s, t) ==
    /\ t.recv = s.recv /\ t.sent = s.sent /\ t.asked = s.asked
    /\ t.ident = s.ident /\ t.authdone = s.authdone /\ t.state = s.state /\ t.kex = s.kex

LEMMA SameEncrypt ==
    ASSUME NEW s \in SesType, NEW type
    PROVE  Same(s, encrypt_packet(s, type))
BY DEF encrypt_packet, SesType, Same

LEMMA SameFlush ==
    ASSUME NEW s \in SesType
    PROVE  Same(s, maybe_flush_reply_queue(s))
BY DEF maybe_flush_reply_queue, SesType, Same

LEMMA SameKexinit ==
    ASSUME NEW s \in SesType
    PROVE  LET t == send_msg_kexinit(s)
           IN  /\ t.recv = s.recv /\ t.sent = s.sent /\ t.asked = s.asked
               /\ t.ident = s.ident /\ t.authdone = s.authdone /\ t.state = s.state /\ ~dataallowed(t)
<1> DEFINE e == encrypt_packet(s, "kex")
<1>1. Same(s, e) /\ e \in SesType
  BY SameEncrypt, EncryptPacket DEF Younger
<1>2. send_msg_kexinit(s) = [e EXCEPT !.kex = "sent"]
  BY DEF send_msg_kexinit
<1> HIDE DEF e
<1> DEFINE t == [e EXCEPT !.kex = "sent"]
<1>3. /\ t.recv = e.recv /\ t.sent = e.sent /\ t.asked = e.asked
      /\ t.ident = e.ident /\ t.authdone = e.authdone /\ t.state = e.state /\ t.kex = "sent"
  BY <1>1 DEF SesType
<1> HIDE DEF t
<1> QED BY <1>1, <1>2, <1>3 DEF Same, dataallowed, t

LEMMA SameCounted ==
    ASSUME NEW s, NEW t, Same(s, t), Counted(s)
    PROVE  Counted(t)
BY DEF Same, Counted, dataallowed

\* A keepalive counts, unless the limit is reached already.
LEMMA KeepaliveCounts ==
    ASSUME NEW s \in SesType, Counted(s), s.recv <= keepalive_secs \/ s.sent <= keepalive_secs
    PROVE  LET t == send_msg_keepalive(s)
           IN  t.recv = s.recv /\ t.authdone = s.authdone /\ t.kex = s.kex /\ Counted(t)
<1> DEFINE e == encrypt_packet(s, "keepalive")
           asked == IF dataallowed(s) THEN Min2(e.asked + 1, DEFAULT_KEEPALIVE_LIMIT) ELSE e.asked
           owed == e.owed \/ s.ready
           t == [e EXCEPT !.sent = 0, !.idle = s.idle, !.owed = owed, !.asked = asked]
<1>1. Same(s, e) /\ e \in SesType
  BY SameEncrypt, EncryptPacket DEF Younger
<1>2. send_msg_keepalive(s) = t
  BY DEF send_msg_keepalive
<1> HIDE DEF e, asked, owed
<1>3. t.recv = e.recv /\ t.sent = 0 /\ t.asked = asked /\ t.authdone = e.authdone /\ t.kex = e.kex
  BY <1>1 DEF SesType
<1> HIDE DEF t
<1>4. /\ s.asked \in Nat /\ s.asked <= DEFAULT_KEEPALIVE_LIMIT /\ DEFAULT_KEEPALIVE_LIMIT \in Nat
      /\ s.recv \in Nat /\ s.sent \in Nat /\ keepalive_secs \in Nat
  BY Ages, TimeAssumption DEF SesType
<1>5. dataallowed(s) => asked = Min2(s.asked + 1, DEFAULT_KEEPALIVE_LIMIT)
  BY <1>1 DEF Same, asked
<1>6. ASSUME dataallowed(s), asked < DEFAULT_KEEPALIVE_LIMIT
      PROVE  s.recv <= keepalive_secs * asked
  <2>1. asked = s.asked + 1 /\ s.asked < DEFAULT_KEEPALIVE_LIMIT
    BY <1>4, <1>5, <1>6 DEF Min2
  <2>2. s.recv <= s.sent + keepalive_secs * s.asked
    BY <1>6, <2>1 DEF Counted
  <2>3. \A k, n \in Nat : k * n \in Nat /\ k * (n + 1) = k * n + k
    OBVIOUS
  <2> DEFINE c == keepalive_secs * s.asked
  <2>4. c \in Nat /\ keepalive_secs * asked = c + keepalive_secs
    BY <1>4, <2>1, <2>3
  <2>5. s.recv <= s.sent + c
    BY <2>2
  <2> HIDE DEF c
  <2>6. s.recv <= c + keepalive_secs
    BY <1>4, <2>4, <2>5
  <2> QED BY <2>4, <2>6
<1>7. Counted(t)
  <2>1. \A k, n \in Nat : 0 + k * n = k * n
    OBVIOUS
  <2> SUFFICES ASSUME dataallowed(t), t.asked < DEFAULT_KEEPALIVE_LIMIT
               PROVE  t.recv <= t.sent + keepalive_secs * t.asked
    BY DEF Counted
  <2>2. dataallowed(s)
    BY <1>1, <1>3 DEF Same, dataallowed
  <2>3. asked \in Nat
    BY <1>4, <1>5, <2>2 DEF Min2
  <2>4. s.recv <= keepalive_secs * asked
    BY <1>3, <1>6, <2>2
  <2>5. t.recv = s.recv /\ t.sent = 0 /\ t.asked = asked
    BY <1>1, <1>3 DEF Same
  <2> QED BY <1>4, <2>1, <2>3, <2>4, <2>5
<1> QED BY <1>1, <1>2, <1>3, <1>7 DEF Same

\* checktimeouts() gives a session up only after so many keepalives: when it is
\* called the last one is at most keepalive_secs old.
LEMMA CheckCounted ==
    ASSUME NEW s \in SesType, s.state = "run", NEW full \in BOOLEAN, Counted(s),
           keepalives(s) => s.recv <= keepalive_secs \/ s.sent <= keepalive_secs
    PROVE  LET t == checktimeouts(s, full)
           IN  /\ t.state = "run" => Counted(t)
               /\ t.authdone = s.authdone
               /\ GivenUp(t)
<1> DEFINE k == [s EXCEPT !.ident = "known"]
           r == IF k.kex = "none" /\ (k.kexage >= KEX_REKEY_TIMEOUT \/ full) THEN send_msg_kexinit(k) ELSE k
           a == IF keepalives(r) /\ r.any >= keepalive_secs THEN send_msg_keepalive(r) ELSE r
           b == IF keepalives(a) /\ a.recv >= keepalive_secs /\ a.sent >= keepalive_secs
                THEN send_msg_keepalive(a) ELSE a
           t == checktimeouts(s, full)
<1>1. t = IF ~s.authdone /\ s.connect >= AUTH_TIMEOUT THEN exit(s, "auth_timeout")
          ELSE IF s.ident \in {"none", "reading"} THEN s
          ELSE IF keepalives(b) /\ b.recv >= keepalive_secs * DEFAULT_KEEPALIVE_LIMIT THEN keepalive_timeout(b, s.asked)
          ELSE IF idle_timeout_secs > 0 /\ b.idle >= idle_timeout_secs THEN exit(b, "idle_timeout")
          ELSE b
  BY DEF checktimeouts
<1>2. k \in SesType /\ k.recv = s.recv /\ k.sent = s.sent /\ k.asked = s.asked /\ k.authdone = s.authdone
      /\ k.state = "run" /\ k.kex = s.kex
  BY DEF SesType
<1> HIDE DEF k
<1>3. /\ r \in SesType /\ r.recv = s.recv /\ r.sent = s.sent /\ r.asked = s.asked /\ r.authdone = s.authdone
      /\ r.state = "run" /\ (dataallowed(r) => r.kex = s.kex)
  <2>1. CASE k.kex = "none" /\ (k.kexage >= KEX_REKEY_TIMEOUT \/ full)
    BY <1>2, <2>1, SendKexinit, SameKexinit
  <2>2. CASE ~(k.kex = "none" /\ (k.kexage >= KEX_REKEY_TIMEOUT \/ full))
    BY <1>2, <2>2
  <2> QED BY <2>1, <2>2
<1> HIDE DEF r
<1>4. Counted(r) /\ (keepalives(r) => r.recv <= keepalive_secs \/ r.sent <= keepalive_secs)
  BY <1>3 DEF Counted, keepalives, dataallowed
<1>5. /\ a \in SesType /\ Counted(a) /\ a.authdone = s.authdone /\ a.state = "run"
      /\ a.recv = s.recv /\ a.kex = r.kex
      /\ keepalives(a) => a.recv <= keepalive_secs \/ a.sent <= keepalive_secs
  <2>1. CASE keepalives(r) /\ r.any >= keepalive_secs
    <3>1. Counted(a) /\ a.authdone = r.authdone /\ a.recv = r.recv /\ a.kex = r.kex
      BY <1>3, <1>4, <2>1, KeepaliveCounts
    <3>2. Younger(r, a) /\ a.sent = 0
      BY <1>3, <2>1, Keepalive
    <3>3. keepalive_secs >= 0
      BY TimeAssumption
    <3> HIDE DEF a
    <3> QED BY <1>3, <3>1, <3>2, <3>3 DEF Younger
  <2>2. CASE ~(keepalives(r) /\ r.any >= keepalive_secs)
    BY <1>3, <1>4, <2>2
  <2> QED BY <2>1, <2>2
<1> HIDE DEF a
<1>6. /\ b \in SesType /\ Counted(b) /\ b.authdone = s.authdone /\ b.state = "run"
      /\ b.recv = s.recv /\ b.kex = r.kex
  <2>1. CASE keepalives(a) /\ a.recv >= keepalive_secs /\ a.sent >= keepalive_secs
    <3>1. Counted(b) /\ b.authdone = a.authdone /\ b.recv = a.recv /\ b.kex = a.kex
      BY <1>5, <2>1, KeepaliveCounts
    <3>2. Younger(a, b)
      BY <1>5, <2>1, Keepalive
    <3> HIDE DEF b
    <3> QED BY <1>5, <3>1, <3>2 DEF Younger
  <2>2. CASE ~(keepalives(a) /\ a.recv >= keepalive_secs /\ a.sent >= keepalive_secs)
    BY <1>5, <2>2
  <2> QED BY <2>1, <2>2
<1> HIDE DEF b
<1>7. keepalives(b) /\ b.recv >= Limit /\ dataallowed(b) => s.asked >= DEFAULT_KEEPALIVE_LIMIT - 1
  <2> SUFFICES ASSUME keepalives(b), s.recv >= Limit, dataallowed(b), ~(s.asked >= DEFAULT_KEEPALIVE_LIMIT - 1)
               PROVE  FALSE
    BY <1>6
  <2>1. /\ s.asked \in Nat /\ DEFAULT_KEEPALIVE_LIMIT \in Nat /\ s.recv \in Nat /\ s.sent \in Nat
        /\ Limit \in Nat /\ keepalive_secs \in Nat /\ keepalive_secs > 0
    BY Ages, Limits, TimeAssumption DEF SesType, keepalives
  <2>2. s.asked + 2 <= DEFAULT_KEEPALIVE_LIMIT /\ s.asked < DEFAULT_KEEPALIVE_LIMIT
    BY <2>1
  <2>3. dataallowed(s) /\ keepalives(s)
    BY <1>3, <1>6 DEF dataallowed, keepalives
  <2>4. s.recv <= s.sent + keepalive_secs * s.asked
    BY <2>2, <2>3 DEF Counted
  <2>5. s.recv <= keepalive_secs \/ s.sent <= keepalive_secs
    BY <2>3
  <2>6. \A q, n, d \in Nat : q * n \in Nat /\ q * d \in Nat /\ q * (n + 2 + d) = q * n + q + q + q * d
    OBVIOUS
  <2> DEFINE d == DEFAULT_KEEPALIVE_LIMIT - (s.asked + 2)
             c == keepalive_secs * s.asked
             x == keepalive_secs * d
  <2>7. d \in Nat /\ DEFAULT_KEEPALIVE_LIMIT = s.asked + 2 + d
    BY <2>1, <2>2
  <2> HIDE DEF d
  <2>8. c \in Nat /\ x \in Nat /\ Limit = c + keepalive_secs + keepalive_secs + x
    BY <2>1, <2>6, <2>7 DEF Limit
  <2>9. s.recv <= s.sent + c
    BY <2>4
  <2> HIDE DEF c, x
  <2> QED BY <2>1, <2>5, <2>8, <2>9
<1>8. CASE ~s.authdone /\ s.connect >= AUTH_TIMEOUT
  <2>1. t = exit(s, "auth_timeout")
    BY <1>1, <1>8
  <2>2. LET e == exit(s, "auth_timeout")
        IN  e.state = "auth_timeout" /\ e.authdone = s.authdone
    BY DEF exit, SesType
  <2> QED BY <2>1, <2>2 DEF GivenUp
<1>9. CASE ~(~s.authdone /\ s.connect >= AUTH_TIMEOUT) /\ s.ident \in {"none", "reading"}
  <2>1. t = s
    BY <1>1, <1>9
  <2> QED BY <2>1 DEF GivenUp
<1>10. CASE ~(~s.authdone /\ s.connect >= AUTH_TIMEOUT) /\ s.ident \notin {"none", "reading"}
  <2>1. CASE keepalives(b) /\ b.recv >= Limit
    <3> DEFINE e == keepalive_timeout(b, s.asked)
    <3>1. t = e
      BY <1>1, <1>10, <2>1 DEF Limit
    <3>2. e.state = "keepalive_timeout" /\ e.asked = s.asked /\ e.authdone = b.authdone /\ e.kex = b.kex
      BY <1>6 DEF keepalive_timeout, exit, SesType
    <3> HIDE DEF e
    <3>3. dataallowed(e) => dataallowed(b)
      BY <3>2 DEF dataallowed
    <3>4. GivenUp(e)
      BY <1>7, <2>1, <3>2, <3>3 DEF GivenUp
    <3> QED BY <1>6, <3>1, <3>2, <3>4
  <2>2. CASE ~(keepalives(b) /\ b.recv >= Limit) /\ idle_timeout_secs > 0 /\ b.idle >= idle_timeout_secs
    <3>1. t = exit(b, "idle_timeout")
      BY <1>1, <1>10, <2>2 DEF Limit
    <3>2. exit(b, "idle_timeout").state = "idle_timeout" /\ exit(b, "idle_timeout").authdone = b.authdone
      BY <1>6 DEF exit, SesType
    <3> QED BY <1>6, <3>1, <3>2 DEF GivenUp
  <2>3. CASE ~(keepalives(b) /\ b.recv >= Limit) /\ ~(idle_timeout_secs > 0 /\ b.idle >= idle_timeout_secs)
    <3>1. t = b
      BY <1>1, <1>10, <2>3 DEF Limit
    <3> QED BY <1>6, <3>1 DEF GivenUp
  <2> QED BY <2>1, <2>2, <2>3
<1> QED BY <1>8, <1>9, <1>10

\* A packet was received: the count starts again.
LEMMA ProcessHeard ==
    ASSUME NEW s \in SesType, NEW type \in PacketType
    PROVE  process_packet(s, type).recv = 0
<1> DEFINE r == [s EXCEPT !.recv = 0, !.asked = 0]
           idle == IF type \in {"GLOBAL_REQUEST", "REQUEST_FAILURE"} THEN r.idle ELSE 0
           quiet == IF type \in Quiet THEN r.quiet ELSE 0
           q == [r EXCEPT !.idle = idle, !.quiet = quiet]
<1>1. 0 \in Age /\ 0 \in 0 .. DEFAULT_KEEPALIVE_LIMIT
  BY Ages, TimeAssumption
<1>2. r \in SesType /\ r.recv = 0
  BY <1>1 DEF SesType
<1>3. process_packet(s, type) = IF type = "IGNORE" THEN r ELSE Handle(q, type)
  BY DEF process_packet
<1> HIDE DEF r
<1>4. idle \in Age /\ quiet \in Age
  BY <1>1, <1>2 DEF SesType
<1> HIDE DEF idle, quiet
<1>5. q \in SesType /\ q.recv = 0
  BY <1>2, <1>4 DEF SesType
<1> HIDE DEF q
<1>6. \A x \in {"kex", "other", "REQUEST_FAILURE"} :
         encrypt_packet(q, x) \in SesType /\ encrypt_packet(q, x).recv = 0
  <2> SUFFICES ASSUME NEW x \in {"kex", "other", "REQUEST_FAILURE"}
               PROVE  encrypt_packet(q, x) \in SesType /\ encrypt_packet(q, x).recv = 0
    OBVIOUS
  <2>1. Same(q, encrypt_packet(q, x))
    BY <1>5, SameEncrypt
  <2>2. Younger(q, encrypt_packet(q, x))
    BY <1>5, EncryptPacket DEF Answer
  <2> QED BY <1>5, <2>1, <2>2 DEF Same, Younger
<1>7. send_msg_kexinit(q) \in SesType /\ send_msg_kexinit(q).recv = 0
  BY <1>5, SendKexinit, SameKexinit DEF Same
<1>8. ASSUME NEW u \in SesType, u.recv = 0
      PROVE  /\ [u EXCEPT !.kex = "recv"].recv = 0 /\ [u EXCEPT !.kex = "newkeys"].recv = 0
             /\ [u EXCEPT !.kex = "none", !.kexage = 0, !.firstkex = TRUE].recv = 0
             /\ [u EXCEPT !.authdone = TRUE, !.connect = 0].recv = 0
             /\ [u EXCEPT !.ready = TRUE].recv = 0 /\ [u EXCEPT !.ready = FALSE].recv = 0
             /\ [u EXCEPT !.chan = 0, !.owed = FALSE].recv = 0
  BY <1>8 DEF SesType
<1>9. Handle(q, type).recv = 0
  <2>1. CASE type = "KEXINIT"
    <3>1. Handle(q, type) = [(IF q.kex = "none" THEN send_msg_kexinit(q) ELSE q) EXCEPT !.kex = "recv"]
      BY <2>1 DEF Handle
    <3> QED BY <1>5, <1>7, <1>8, <3>1
  <2>2. CASE type = "KEXDH_INIT"
    <3>1. Handle(q, type) = [encrypt_packet(q, "kex") EXCEPT !.kex = "newkeys"]
      BY <2>2 DEF Handle
    <3> QED BY <1>6, <1>8, <3>1
  <2>3. CASE type = "NEWKEYS"
    <3>1. Handle(q, type) = [q EXCEPT !.kex = "none", !.kexage = 0, !.firstkex = TRUE]
      BY <2>3 DEF Handle
    <3> QED BY <1>5, <1>8, <3>1
  <2>4. CASE type = "USERAUTH_REQUEST"
    <3>1. Handle(q, type) = [encrypt_packet(q, "other") EXCEPT !.authdone = TRUE, !.connect = 0]
      BY <2>4 DEF Handle
    <3> QED BY <1>6, <1>8, <3>1
  <2>5. CASE type = "CHANNEL_OPEN"
    <3>1. Handle(q, type) = [encrypt_packet(q, "other") EXCEPT !.ready = TRUE]
      BY <2>5 DEF Handle
    <3> QED BY <1>6, <1>8, <3>1
  <2>6. CASE type = "GLOBAL_REQUEST"
    BY <1>6, <2>6 DEF Handle
  <2>7. CASE type = "CHANNEL_EOF"
    <3>1. Handle(q, type) = [q EXCEPT !.ready = FALSE]
      BY <2>7 DEF Handle
    <3> QED BY <1>5, <1>8, <3>1
  <2>8. CASE type = "CHANNEL_FAILURE"
    <3>1. Handle(q, type) = [q EXCEPT !.chan = 0, !.owed = FALSE]
      BY <2>8 DEF Handle
    <3> QED BY <1>5, <1>8, <3>1
  <2>9. CASE type \in {"IGNORE", "REQUEST_FAILURE", "CHANNEL_DATA"}
    BY <1>5, <2>9 DEF Handle
  <2> QED BY <2>1, <2>2, <2>3, <2>4, <2>5, <2>6, <2>7, <2>8, <2>9 DEF PacketType, Kex, Quiet
<1> QED BY <1>2, <1>3, <1>9

\* s.asked counts for something only if it is not too large already.
LEMMA HeardCounted ==
    ASSUME NEW s \in SesType, s.recv = 0
    PROVE  Counted(s)
<1>1. s.asked \in Nat /\ s.sent \in Nat /\ keepalive_secs \in Nat
  BY Ages, TimeAssumption DEF SesType
<1>2. \A m, q, n \in Nat : 0 <= m + q * n
  OBVIOUS
<1> QED BY <1>1, <1>2 DEF Counted

LEMMA RoundKeep ==
    ASSUME NEW s \in SesType, s.state = "run" => InTime(s) /\ Counted(s),
           s.state = "run" /\ s.authdone => s.ident = "known",
           GivenUp(s), Round(s)
    PROVE  KeepInv'
<1>1. CASE s.state = "run"
  <2> DEFINE f == maybe_flush_reply_queue(s)
             l == select_timeout(f)
  <2>1. ses' = f /\ left' = l
    BY <1>1 DEF Round
  <2>2. Younger(s, f) /\ Same(s, f)
    BY FlushYounger, SameFlush
  <2> HIDE DEF f
  <2>3. InTime(f) /\ f \in SesType /\ Counted(f)
    BY <1>1, <2>2, YoungerInTime, SameCounted DEF Younger
  <2>4. l \in Nat /\ (f.ident = "known" /\ keepalives(f) => l + Min2(f.recv, f.sent) <= keepalive_secs)
    BY <2>3, SelectTimeout
  <2> HIDE DEF l
  <2>5. (f.authdone => f.ident = "known") /\ f.state = "run"
    BY <1>1, <2>2 DEF Same
  <2>6. keepalives(f) => Min2(f.recv, f.sent) + l <= keepalive_secs
    <3>1. Min2(f.recv, f.sent) \in Nat
      BY <2>3, Ages DEF Min2
    <3>2. keepalives(f) => f.ident = "known"
      BY <2>5 DEF keepalives
    <3> QED BY <2>4, <3>1, <3>2
  <2> QED BY <2>1, <2>3, <2>5, <2>6 DEF KeepInv, KeepaliveLimit, Counted, dataallowed, keepalives
<1>2. CASE s.state # "run"
  <2>1. ses' = s
    BY <1>2 DEF Round
  <2> QED BY <1>2, <2>1 DEF KeepInv, KeepaliveLimit, GivenUp, dataallowed
<1> QED BY <1>1, <1>2

LEMMA InitKeep == Init => KeepInv
<1> SUFFICES ASSUME Init PROVE KeepInv
  OBVIOUS
<1>1. /\ ses.recv = 0 /\ ses.authdone = FALSE /\ ses.state = "run"
  BY DEF Init, common_session_init
<1>2. Counted(ses)
  BY <1>1, InitInv, HeardCounted DEF TimersInv, TypeOK
<1> QED BY <1>1, <1>2 DEF KeepInv, keepalives, KeepaliveLimit

LEMMA TickKeep == TimersInv /\ KeepInv /\ Tick => KeepInv'
<1> SUFFICES ASSUME TimersInv, KeepInv, Tick PROVE KeepInv'
  OBVIOUS
<1>1. ses \in SesType /\ left \in Nat /\ spin \in BOOLEAN /\ Timed(ses, left, spin) /\ ses.state = "run"
  BY DEF TimersInv, TypeOK, Tick
<1> DEFINE c == IF ses.authdone THEN 0 ELSE Older(ses.connect)
           t == [ses EXCEPT !.connect = c, !.kexage = Older(@), !.any = Older(@), !.recv = Older(@),
                            !.sent = Older(@), !.idle = Older(@), !.quiet = Older(@), !.chan = Older(@)]
<1>2. ses' = t
  BY DEF Tick
<1>3. /\ t.recv = Older(ses.recv) /\ t.sent = Older(ses.sent) /\ t.asked = ses.asked
      /\ t.ident = ses.ident /\ t.authdone = ses.authdone /\ t.state = "run" /\ t.kex = ses.kex
  BY <1>1 DEF SesType
<1> HIDE DEF t
<1>4. ses.recv \in Age /\ ses.sent \in Age /\ ses.asked \in Nat /\ keepalive_secs \in Nat /\ Forever \in Nat
  BY <1>1, TimeAssumption DEF SesType
<1>5. /\ t.recv \in Nat /\ t.sent \in Nat /\ t.recv <= ses.recv + 1 /\ t.sent <= ses.sent + 1
      /\ t.sent = ses.sent + 1 \/ t.recv <= t.sent
  BY <1>3, <1>4 DEF Older, Age
<1>6. Counted(t)
  <2> SUFFICES ASSUME dataallowed(ses), ses.asked < DEFAULT_KEEPALIVE_LIMIT
               PROVE  t.recv <= t.sent + keepalive_secs * ses.asked
    BY <1>3 DEF Counted, dataallowed
  <2> DEFINE n == keepalive_secs * ses.asked
  <2>1. n \in Nat
    BY <1>4
  <2>2. ses.recv <= ses.sent + n
    BY <1>1 DEF KeepInv, Counted
  <2> HIDE DEF n
  <2>3. t.recv <= t.sent + n
    BY <1>4, <1>5, <2>1, <2>2 DEF Age
  <2> QED BY <2>3 DEF n
<1>7. keepalives(t) => Min2(t.recv, t.sent) + left' <= keepalive_secs
  <2> SUFFICES ASSUME keepalives(t)
               PROVE  Min2(t.recv, t.sent) + left' <= keepalive_secs
    OBVIOUS
  <2>1. keepalives(ses) /\ ses.ident = "known"
    BY <1>1, <1>3 DEF keepalives, KeepInv
  <2>2. left > 0 /\ left' = left - 1
    BY <1>1, <2>1 DEF Tick, Timed
  <2>3. Min2(ses.recv, ses.sent) + left <= keepalive_secs
    BY <1>1, <2>1 DEF KeepInv
  <2>4. Min2(ses.recv, ses.sent) \in Nat /\ Min2(t.recv, t.sent) \in Nat
        /\ Min2(t.recv, t.sent) <= Min2(ses.recv, ses.sent) + 1
    BY <1>4, <1>5 DEF Min2, Age
  <2> QED BY <1>1, <1>4, <2>2, <2>3, <2>4
<1> QED BY <1>1, <1>2, <1>3, <1>6, <1>7 DEF KeepInv, KeepaliveLimit, Counted, dataallowed, keepalives

LEMMA NextKeep == TimersInv /\ KeepInv /\ [Next]_vars => KeepInv'
<1> SUFFICES ASSUME TimersInv, KeepInv, [Next]_vars PROVE KeepInv'
  OBVIOUS
<1>1. ses \in SesType /\ left \in Nat
  BY DEF TimersInv, TypeOK
<1>2. ses.state = "run" /\ keepalives(ses) => ses.recv <= keepalive_secs \/ ses.sent <= keepalive_secs
  <2>1. ses.recv \in Nat /\ ses.sent \in Nat /\ keepalive_secs \in Nat
    BY <1>1, Ages, TimeAssumption
  <2> QED BY <1>1, <2>1 DEF KeepInv, Min2
\* What checktimeouts() makes of the session.
<1>3. ASSUME NEW full \in BOOLEAN, ses.state = "run"
      PROVE  LET s == checktimeouts(ses, full)
             IN  /\ s \in SesType /\ GivenUp(s) /\ s.authdone = ses.authdone
                 /\ s.state = "run" =>
                      /\ InTime(s) /\ Counted(s)
                      /\ s.ident = IF ses.ident \in {"none", "reading"} THEN ses.ident ELSE "known"
  BY <1>1, <1>2, <1>3, Checktimeouts, CheckCounted DEF KeepInv
<1>4. CASE Tick
  BY <1>4, TickKeep
<1>5. CASE Wake
  <2>1. PICK full \in BOOLEAN : Round(checktimeouts(ses, full))
    BY <1>5 DEF Wake
  <2> DEFINE s == checktimeouts(ses, full)
  <2>2. ses.state = "run"
    BY <1>5 DEF Wake
  <2>3. /\ s \in SesType /\ GivenUp(s) /\ s.authdone = ses.authdone
        /\ s.state = "run" => InTime(s) /\ Counted(s) /\ (ses.ident = "known" => s.ident = "known")
    BY <1>3, <2>2
  <2>4. Round(s)
    BY <2>1
  <2> HIDE DEF s
  <2>5. s.state = "run" /\ s.authdone => s.ident = "known"
    BY <2>2, <2>3 DEF KeepInv
  <2> QED BY <2>3, <2>4, <2>5, RoundKeep
<1>6. ASSUME NEW type \in PacketType, Deliver(type)
      PROVE  KeepInv'
  <2> DEFINE s == checktimeouts(ses, FALSE)
             p == process_packet(s, type)
             r == IF s.state = "run" THEN p ELSE s
  <2>1. ses.state = "run" /\ ses.ident \in {"fresh", "known"} /\ Allowed(s, type) /\ Round(r)
    BY <1>6 DEF Deliver
  <2>2. /\ s \in SesType /\ GivenUp(s)
        /\ s.state = "run" => InTime(s) /\ Counted(s) /\ s.ident = "known"
    BY <1>3, <2>1
  <2> HIDE DEF s
  <2>3. s.state = "run" => p \in SesType /\ p.state = "run" /\ p.ident = "known" /\ InTime(p) /\ p.recv = 0
    BY <2>1, <2>2, ProcessPacket, ProcessHeard
  <2> HIDE DEF p
  <2>4. s.state = "run" => Counted(p)
    BY <2>3, HeardCounted
  <2>5. r \in SesType /\ GivenUp(r) /\ (r.state = "run" => InTime(r) /\ Counted(r) /\ r.ident = "known")
    BY <2>2, <2>3, <2>4 DEF GivenUp
  <2> HIDE DEF r
  <2> QED BY <2>1, <2>5, RoundKeep
<1>7. CASE Output
  <2> DEFINE s == checktimeouts(ses, FALSE)
             e == encrypt_packet(s, "other")
             r == IF s.state = "run" THEN e ELSE s
  <2>1. ses.state = "run" /\ ses.ident \in {"fresh", "known"} /\ Round(r)
    BY <1>7 DEF Output
  <2>2. /\ s \in SesType /\ GivenUp(s)
        /\ s.state = "run" => InTime(s) /\ Counted(s) /\ s.ident = "known"
    BY <1>3, <2>1
  <2> HIDE DEF s
  <2>3. Younger(s, e) /\ Same(s, e)
    BY <2>2, EncryptPacket, SameEncrypt
  <2> HIDE DEF e
  <2>4. e \in SesType /\ e.state = s.state /\ e.ident = s.ident
        /\ (s.state = "run" => InTime(e) /\ Counted(e))
    BY <2>2, <2>3, YoungerInTime, SameCounted DEF Younger
  <2>5. r \in SesType /\ GivenUp(r) /\ (r.state = "run" => InTime(r) /\ Counted(r) /\ r.ident = "known")
    BY <2>2, <2>4 DEF GivenUp
  <2> HIDE DEF r
  <2> QED BY <2>1, <2>5, RoundKeep
<1>8. CASE ReadIdent
  <2> DEFINE s == checktimeouts(ses, FALSE)
             w == [s EXCEPT !.ident = "reading"]
             k == [s EXCEPT !.ident = "fresh"]
             r == IF s.state = "run" THEN k ELSE s
  <2>1. /\ ses.state = "run" /\ ses.ident \in {"none", "reading"}
        /\ \/ s.state = "run" /\ ses' = w
           \/ Round(r)
    BY <1>8 DEF ReadIdent
  <2>2. /\ s \in SesType /\ GivenUp(s) /\ s.authdone = ses.authdone
        /\ s.state = "run" => InTime(s) /\ Counted(s)
    BY <1>3, <2>1
  <2>3. s.authdone = FALSE
    BY <1>1, <2>1, <2>2 DEF KeepInv, SesType
  <2> HIDE DEF s
  <2>4. /\ w.recv = s.recv /\ w.sent = s.sent /\ w.asked = s.asked /\ w.authdone = s.authdone /\ w.state = s.state
        /\ w.kex = s.kex
    BY <2>2 DEF SesType
  <2>5. /\ k \in SesType /\ k.recv = s.recv /\ k.sent = s.sent /\ k.asked = s.asked /\ k.authdone = s.authdone
        /\ k.state = s.state /\ k.ident = "fresh" /\ k.connect = s.connect /\ k.kex = s.kex
    BY <2>2 DEF SesType
  <2> HIDE DEF w, k
  <2>6. CASE s.state = "run" /\ ses' = w
    BY <2>2, <2>3, <2>4, <2>6 DEF KeepInv, KeepaliveLimit, Counted, dataallowed, keepalives
  <2>7. CASE Round(r)
    <3>1. s.state = "run" => InTime(k)
      BY <2>2, <2>5 DEF InTime
    <3>2. s.state = "run" => Counted(k)
      BY <2>2, <2>5 DEF Counted, dataallowed
    <3>3. r \in SesType /\ GivenUp(r) /\ (r.state = "run" => InTime(r) /\ Counted(r)) /\ ~r.authdone
      BY <2>2, <2>3, <2>5, <3>1, <3>2 DEF GivenUp
    <3> HIDE DEF r
    <3> QED BY <2>7, <3>3, RoundKeep
  <2> QED BY <2>1, <2>6, <2>7
<1>9. CASE UNCHANGED vars
  BY <1>9 DEF vars, KeepInv, KeepaliveLimit, Counted, dataallowed, keepalives
<1> QED BY <1>4, <1>5, <1>6, <1>7, <1>8, <1>9 DEF Next

\* checktimeouts() gives a session up only after all keepalives but the last went
\* out unanswered, or during a key exchange, which holds them back.
THEOREM LimitKept == Spec => []KeepaliveLimit
<1>1. KeepInv => KeepaliveLimit
  BY DEF KeepInv
<1> QED BY <1>1, InitKeep, NextKeep, Invariance, PTL DEF Spec

-----------------------------------------------------------------------------
(* Keepalives and the idle timeout.  The time stamp of the idle timeout is  *)
(* renewed only with quiet or chan.  The one exception is a keepalive that  *)
(* a key exchange held back and that is sent from the reply queue: by then  *)
(* the packets of the exchange themselves have renewed quiet.               *)

Calm(s) ==
    /\ s.quiet <= s.idle \/ s.chan <= s.idle
    /\ dataallowed(s) => s.held = {} \/ s.quiet = 0

QuietInv == ses.state = "run" => Calm(ses) /\ (dataallowed(ses) => ses.held = {})

LEMMA CalmEncrypt ==
    ASSUME NEW s \in SesType, Calm(s), NEW type \in {"kex", "other", "REQUEST_FAILURE"}
    PROVE  LET t == encrypt_packet(s, type)
           IN  /\ t \in SesType /\ Calm(t) /\ t.kex = s.kex /\ t.state = s.state
               /\ type = "kex" => t.quiet = 0
<1> DEFINE t == encrypt_packet(s, type)
<1>1. Younger(s, t)
  BY EncryptPacket DEF Answer
<1>2. s.idle \in Nat /\ s.quiet \in Nat /\ s.chan \in Nat
  BY Ages
<1>3. CASE ~dataallowed(s) /\ type # "kex"
  <2>1. t.quiet = s.quiet /\ t.idle = s.idle /\ t.chan = s.chan /\ t.kex = s.kex
    BY <1>3 DEF encrypt_packet, SesType
  <2> QED BY <1>1, <1>3, <2>1 DEF Calm, dataallowed, Younger
<1>4. CASE ~(~dataallowed(s) /\ type # "kex") /\ type = "REQUEST_FAILURE"
  <2>1. t.quiet = s.quiet /\ t.idle = s.idle /\ t.chan = s.chan /\ t.kex = s.kex /\ t.held = s.held
    BY <1>4 DEF encrypt_packet, Answer, SesType
  <2> QED BY <1>1, <1>4, <2>1 DEF Calm, dataallowed, Younger
<1>5. CASE ~(~dataallowed(s) /\ type # "kex") /\ type # "REQUEST_FAILURE"
  <2>1. t.quiet = 0 /\ t.idle = 0
    BY <1>5 DEF encrypt_packet, Answer, SesType
  <2> QED BY <1>1, <2>1 DEF Calm, Younger
<1> QED BY <1>3, <1>4, <1>5

LEMMA CalmKexinit ==
    ASSUME NEW s \in SesType, Calm(s)
    PROVE  LET t == send_msg_kexinit(s)
           IN  t \in SesType /\ Calm(t) /\ t.state = s.state
<1> DEFINE e == encrypt_packet(s, "kex")
           t == [e EXCEPT !.kex = "sent"]
<1>1. e \in SesType /\ Calm(e) /\ e.state = s.state
  BY CalmEncrypt
<1>2. send_msg_kexinit(s) = t
  BY DEF send_msg_kexinit
<1> HIDE DEF e
<1>3. t \in SesType /\ t.quiet = e.quiet /\ t.idle = e.idle /\ t.chan = e.chan /\ t.state = e.state /\ t.kex = "sent"
  BY <1>1 DEF SesType
<1> HIDE DEF t
<1> QED BY <1>1, <1>2, <1>3 DEF Calm, dataallowed

\* send_msg_keepalive() puts the time stamp back.
LEMMA CalmKeepalive ==
    ASSUME NEW s \in SesType, Calm(s)
    PROVE  LET t == send_msg_keepalive(s)
           IN  t \in SesType /\ Calm(t) /\ t.state = s.state
<1> DEFINE e == encrypt_packet(s, "keepalive")
           asked == IF dataallowed(s) THEN Min2(e.asked + 1, DEFAULT_KEEPALIVE_LIMIT) ELSE e.asked
           owed == e.owed \/ s.ready
           t == [e EXCEPT !.sent = 0, !.idle = s.idle, !.owed = owed, !.asked = asked]
<1>1. send_msg_keepalive(s) = t
  BY DEF send_msg_keepalive
<1>2. t \in SesType /\ t.state = s.state
  BY <1>1, Keepalive DEF Younger
<1>3. /\ e \in SesType /\ e.quiet = s.quiet /\ e.chan = s.chan /\ e.kex = s.kex
      /\ dataallowed(s) => e.held = s.held
  <2>1. e \in SesType
    BY EncryptPacket DEF Younger
  <2> QED BY <2>1 DEF encrypt_packet, Answer, SesType
<1> HIDE DEF e, asked, owed
<1>4. t.quiet = e.quiet /\ t.chan = e.chan /\ t.kex = e.kex /\ t.held = e.held /\ t.idle = s.idle
  BY <1>3 DEF SesType
<1> HIDE DEF t
<1> QED BY <1>1, <1>2, <1>3, <1>4 DEF Calm, dataallowed

LEMMA CalmCheck ==
    ASSUME NEW s \in SesType, NEW full \in BOOLEAN, Calm(s)
    PROVE  Calm(checktimeouts(s, full))
<1> DEFINE k == [s EXCEPT !.ident = "known"]
           r == IF k.kex = "none" /\ (k.kexage >= KEX_REKEY_TIMEOUT \/ full) THEN send_msg_kexinit(k) ELSE k
           a == IF keepalives(r) /\ r.any >= keepalive_secs THEN send_msg_keepalive(r) ELSE r
           b == IF keepalives(a) /\ a.recv >= keepalive_secs /\ a.sent >= keepalive_secs
                THEN send_msg_keepalive(a) ELSE a
           t == checktimeouts(s, full)
<1>1. t = IF ~s.authdone /\ s.connect >= AUTH_TIMEOUT THEN exit(s, "auth_timeout")
          ELSE IF s.ident \in {"none", "reading"} THEN s
          ELSE IF keepalives(b) /\ b.recv >= keepalive_secs * DEFAULT_KEEPALIVE_LIMIT THEN keepalive_timeout(b, s.asked)
          ELSE IF idle_timeout_secs > 0 /\ b.idle >= idle_timeout_secs THEN exit(b, "idle_timeout")
          ELSE b
  BY DEF checktimeouts
<1>2. k \in SesType /\ k.quiet = s.quiet /\ k.idle = s.idle /\ k.chan = s.chan /\ k.kex = s.kex /\ k.held = s.held
  BY DEF SesType
<1> HIDE DEF k
<1>3. Calm(k)
  BY <1>2 DEF Calm, dataallowed
<1>4. r \in SesType /\ Calm(r)
  BY <1>2, <1>3, CalmKexinit
<1> HIDE DEF r
<1>5. a \in SesType /\ Calm(a)
  BY <1>4, CalmKeepalive
<1> HIDE DEF a
<1>6. b \in SesType /\ Calm(b)
  BY <1>5, CalmKeepalive
<1> HIDE DEF b
<1>7. ASSUME NEW u \in SesType, NEW why, Calm(u)
      PROVE  Calm(exit(u, why))
  <2> DEFINE e == exit(u, why)
  <2>1. e.quiet = u.quiet /\ e.idle = u.idle /\ e.chan = u.chan /\ e.kex = u.kex /\ e.held = u.held
    BY DEF exit, SesType
  <2> HIDE DEF e
  <2>2. Calm(e)
    BY <1>7, <2>1 DEF Calm, dataallowed
  <2> QED BY <2>2 DEF e
<1> HIDE DEF t
<1>8. CASE ~s.authdone /\ s.connect >= AUTH_TIMEOUT
  BY <1>1, <1>7, <1>8 DEF t
<1>9. CASE ~(~s.authdone /\ s.connect >= AUTH_TIMEOUT) /\ s.ident \in {"none", "reading"}
  BY <1>1, <1>9 DEF t
<1>10. CASE ~(~s.authdone /\ s.connect >= AUTH_TIMEOUT) /\ s.ident \notin {"none", "reading"}
  <2> DEFINE c == [b EXCEPT !.asked = s.asked]
  <2>1. t \in {b, exit(c, "keepalive_timeout"), exit(b, "idle_timeout")}
    BY <1>1, <1>10 DEF keepalive_timeout
  <2>2. s.asked \in 0 .. DEFAULT_KEEPALIVE_LIMIT
    BY DEF SesType
  <2>3. /\ c \in SesType
        /\ c.quiet = b.quiet /\ c.idle = b.idle /\ c.chan = b.chan /\ c.kex = b.kex /\ c.held = b.held
    BY <1>6, <2>2 DEF SesType
  <2> HIDE DEF c
  <2>4. Calm(c)
    BY <1>6, <2>3 DEF Calm, dataallowed
  <2> QED BY <1>6, <1>7, <2>1, <2>3, <2>4 DEF t
<1> QED BY <1>8, <1>9, <1>10

\* A packet that renews the idle time renews quiet or chan too.
LEMMA CalmProcess ==
    ASSUME NEW s \in SesType, Calm(s), NEW type \in PacketType, Allowed(s, type)
    PROVE  Calm(process_packet(s, type))
<1> DEFINE r == [s EXCEPT !.recv = 0, !.asked = 0]
           idle == IF type \in {"GLOBAL_REQUEST", "REQUEST_FAILURE"} THEN r.idle ELSE 0
           quiet == IF type \in Quiet THEN r.quiet ELSE 0
           q == [r EXCEPT !.idle = idle, !.quiet = quiet]
<1>1. 0 \in Age /\ 0 \in 0 .. DEFAULT_KEEPALIVE_LIMIT
  BY Ages, TimeAssumption
<1>2. /\ r \in SesType /\ r.quiet = s.quiet /\ r.idle = s.idle /\ r.chan = s.chan /\ r.kex = s.kex
      /\ r.held = s.held
  BY <1>1 DEF SesType
<1>3. process_packet(s, type) = IF type = "IGNORE" THEN r ELSE Handle(q, type)
  BY DEF process_packet
<1> HIDE DEF r
<1>4. Calm(r)
  BY <1>2 DEF Calm, dataallowed
<1>5. idle \in Age /\ quiet \in Age
  BY <1>1, <1>2 DEF SesType
<1> HIDE DEF idle, quiet
<1>6. q \in SesType /\ q.quiet = quiet /\ q.idle = idle /\ q.chan = r.chan /\ q.kex = r.kex /\ q.held = r.held
  BY <1>2, <1>5 DEF SesType
<1> HIDE DEF q
<1>7. type # "CHANNEL_FAILURE" => Calm(q)
  BY <1>4, <1>5, <1>6 DEF Calm, dataallowed, idle, quiet, Quiet, Age
<1>8. ASSUME type # "IGNORE"
      PROVE  Calm(Handle(q, type))
  <2> DEFINE h == Handle(q, type)
  <2>1. CASE type = "KEXINIT"
    <3> DEFINE u == IF q.kex = "none" THEN send_msg_kexinit(q) ELSE q
    <3>1. h = [u EXCEPT !.kex = "recv"]
      BY <2>1 DEF Handle
    <3>2. u \in SesType /\ Calm(u)
      BY <1>6, <1>7, <2>1, CalmKexinit
    <3> HIDE DEF u, h
    <3>3. h.quiet = u.quiet /\ h.idle = u.idle /\ h.chan = u.chan /\ h.kex = "recv"
      BY <3>1, <3>2 DEF SesType
    <3>4. Calm(h)
      BY <3>2, <3>3 DEF Calm, dataallowed
    <3> QED BY <3>4 DEF h
  <2>2. CASE type = "KEXDH_INIT"
    <3> DEFINE u == encrypt_packet(q, "kex")
    <3>1. h = [u EXCEPT !.kex = "newkeys"]
      BY <2>2 DEF Handle
    <3>2. u \in SesType /\ Calm(u) /\ u.quiet = 0
      BY <1>6, <1>7, <2>2, CalmEncrypt
    <3> HIDE DEF u, h
    <3>3. h.quiet = u.quiet /\ h.idle = u.idle /\ h.chan = u.chan
      BY <3>1, <3>2 DEF SesType
    <3>4. Calm(h)
      BY <3>2, <3>3 DEF Calm
    <3> QED BY <3>4 DEF h
  <2>3. CASE type = "NEWKEYS"
    <3>1. h = [q EXCEPT !.kex = "none", !.kexage = 0, !.firstkex = TRUE]
      BY <2>3 DEF Handle
    <3>2. q.quiet = 0
      BY <1>6, <2>3 DEF quiet, Quiet
    <3> HIDE DEF h
    <3>3. h.quiet = q.quiet /\ h.idle = q.idle /\ h.chan = q.chan
      BY <1>6, <3>1 DEF SesType
    <3>4. Calm(h)
      BY <1>7, <2>3, <3>2, <3>3 DEF Calm
    <3> QED BY <3>4 DEF h
  <2>4. CASE type \in {"USERAUTH_REQUEST", "CHANNEL_OPEN"}
    <3> DEFINE u == encrypt_packet(q, "other")
    <3>1. h = IF type = "USERAUTH_REQUEST" THEN [u EXCEPT !.authdone = TRUE, !.connect = 0]
              ELSE [u EXCEPT !.ready = TRUE]
      BY <2>4 DEF Handle
    <3>2. u \in SesType /\ Calm(u)
      BY <1>6, <1>7, <2>4, CalmEncrypt
    <3> HIDE DEF u, h
    <3>3. h.quiet = u.quiet /\ h.idle = u.idle /\ h.chan = u.chan /\ h.kex = u.kex /\ h.held = u.held
      BY <3>1, <3>2 DEF SesType
    <3>4. Calm(h)
      BY <3>2, <3>3 DEF Calm, dataallowed
    <3> QED BY <3>4 DEF h
  <2>5. CASE type = "GLOBAL_REQUEST"
    <3>1. h = encrypt_packet(q, "REQUEST_FAILURE")
      BY <2>5 DEF Handle
    <3> QED BY <1>6, <1>7, <2>5, <3>1, CalmEncrypt
  <2>6. CASE type = "CHANNEL_EOF"
    <3>1. h = [q EXCEPT !.ready = FALSE]
      BY <2>6 DEF Handle
    <3> HIDE DEF h
    <3>2. h.quiet = q.quiet /\ h.idle = q.idle /\ h.chan = q.chan /\ h.kex = q.kex /\ h.held = q.held
      BY <1>6, <3>1 DEF SesType
    <3>3. Calm(h)
      BY <1>7, <2>6, <3>2 DEF Calm, dataallowed
    <3> QED BY <3>3 DEF h
  <2>7. CASE type = "CHANNEL_FAILURE"
    <3>1. h = [q EXCEPT !.chan = 0, !.owed = FALSE]
      BY <2>7 DEF Handle
    <3>2. idle = 0 /\ quiet = r.quiet
      BY <2>7 DEF idle, quiet, Quiet
    <3> HIDE DEF h
    <3>3. h.quiet = q.quiet /\ h.idle = q.idle /\ h.chan = 0 /\ h.kex = q.kex /\ h.held = q.held
      BY <1>6, <3>1 DEF SesType
    <3>4. Calm(h)
      BY <1>4, <1>6, <3>2, <3>3 DEF Calm, dataallowed
    <3> QED BY <3>4 DEF h
  <2>8. CASE type \in {"REQUEST_FAILURE", "CHANNEL_DATA"}
    BY <1>7, <2>8 DEF Handle
  <2> QED BY <1>8, <2>1, <2>2, <2>3, <2>4, <2>5, <2>6, <2>7, <2>8 DEF PacketType, Kex, Quiet
<1> QED BY <1>3, <1>4, <1>8

LEMMA RoundQuiet ==
    ASSUME NEW s \in SesType, Calm(s), Round(s)
    PROVE  QuietInv'
<1>1. CASE s.state = "run"
  <2> DEFINE f == maybe_flush_reply_queue(s)
  <2>1. ses' = f
    BY <1>1 DEF Round
  <2>2. s.idle \in Nat /\ s.quiet \in Nat /\ s.chan \in Nat
    BY Ages
  <2>3. CASE ~dataallowed(s) \/ s.held = {}
    <3>1. f = s
      BY <2>3 DEF maybe_flush_reply_queue
    <3> QED BY <2>1, <2>3, <3>1 DEF QuietInv, Calm, dataallowed
  <2>4. CASE dataallowed(s) /\ s.held # {}
    <3>1. f.held = {} /\ f.quiet = 0
      BY <2>4 DEF maybe_flush_reply_queue, SesType, Calm
    <3>2. f.idle \in {0, s.idle}
      BY <2>4 DEF maybe_flush_reply_queue, SesType
    <3> HIDE DEF f
    <3> QED BY <2>1, <2>2, <3>1, <3>2 DEF QuietInv, Calm, dataallowed
  <2> QED BY <2>3, <2>4
<1>2. CASE s.state # "run"
  BY <1>2 DEF Round, QuietInv
<1> QED BY <1>1, <1>2

LEMMA TickQuiet == TimersInv /\ QuietInv /\ Tick => QuietInv'
<1> SUFFICES ASSUME TimersInv, QuietInv, Tick PROVE QuietInv'
  OBVIOUS
<1>1. ses \in SesType /\ ses.state = "run"
  BY DEF TimersInv, TypeOK, Tick
<1> DEFINE c == IF ses.authdone THEN 0 ELSE Older(ses.connect)
           t == [ses EXCEPT !.connect = c, !.kexage = Older(@), !.any = Older(@), !.recv = Older(@),
                            !.sent = Older(@), !.idle = Older(@), !.quiet = Older(@), !.chan = Older(@)]
<1>2. ses' = t
  BY DEF Tick
<1>3. /\ t.quiet = Older(ses.quiet) /\ t.idle = Older(ses.idle) /\ t.chan = Older(ses.chan)
      /\ t.kex = ses.kex /\ t.held = ses.held /\ t.state = ses.state
  BY <1>1 DEF SesType
<1> HIDE DEF t
<1>4. ses.quiet \in Age /\ ses.idle \in Age /\ ses.chan \in Age /\ Forever \in Nat
  BY <1>1, TimeAssumption DEF SesType
<1>5. \A x, y \in Age : x <= y => Older(x) <= Older(y)
  BY <1>4 DEF Older, Age
<1>6. t.quiet <= t.idle \/ t.chan <= t.idle
  BY <1>1, <1>3, <1>4, <1>5 DEF QuietInv, Calm
<1> QED BY <1>1, <1>2, <1>3, <1>6 DEF QuietInv, Calm, dataallowed

LEMMA NextQuiet == TimersInv /\ QuietInv /\ [Next]_vars => QuietInv'
<1> SUFFICES ASSUME TimersInv, QuietInv, [Next]_vars PROVE QuietInv'
  OBVIOUS
<1>1. ses \in SesType
  BY DEF TimersInv, TypeOK
<1>2. ASSUME NEW full \in BOOLEAN, ses.state = "run"
      PROVE  checktimeouts(ses, full) \in SesType /\ Calm(checktimeouts(ses, full))
  BY <1>1, <1>2, Checktimeouts, CalmCheck DEF QuietInv
<1>3. CASE Tick
  BY <1>3, TickQuiet
<1>4. CASE Wake
  BY <1>2, <1>4, RoundQuiet DEF Wake
<1>5. ASSUME NEW type \in PacketType, Deliver(type)
      PROVE  QuietInv'
  <2> DEFINE s == checktimeouts(ses, FALSE)
             p == process_packet(s, type)
             r == IF s.state = "run" THEN p ELSE s
  <2>1. ses.state = "run" /\ Allowed(s, type) /\ Round(r)
    BY <1>5 DEF Deliver
  <2>2. s \in SesType /\ Calm(s) /\ (s.state = "run" => InTime(s) /\ s.ident = "known")
    BY <1>1, <1>2, <1>5, Checktimeouts DEF Deliver
  <2> HIDE DEF s
  <2>3. s.state = "run" => p \in SesType /\ Calm(p)
    BY <2>1, <2>2, ProcessPacket, CalmProcess
  <2> HIDE DEF p
  <2> QED BY <2>1, <2>2, <2>3, RoundQuiet
<1>6. CASE Output
  <2> DEFINE s == checktimeouts(ses, FALSE)
             e == encrypt_packet(s, "other")
             r == IF s.state = "run" THEN e ELSE s
  <2>1. s \in SesType /\ Calm(s) /\ Round(r)
    BY <1>2, <1>6 DEF Output
  <2> HIDE DEF s
  <2>2. e \in SesType /\ Calm(e)
    BY <2>1, CalmEncrypt
  <2> HIDE DEF e
  <2> QED BY <2>1, <2>2, RoundQuiet
<1>7. CASE ReadIdent
  <2> DEFINE s == checktimeouts(ses, FALSE)
             w == [s EXCEPT !.ident = "reading"]
             k == [s EXCEPT !.ident = "fresh"]
             r == IF s.state = "run" THEN k ELSE s
  <2>1. \/ s.state = "run" /\ ses' = w
        \/ Round(r)
    BY <1>7 DEF ReadIdent
  <2>2. s \in SesType /\ Calm(s)
    BY <1>2, <1>7 DEF ReadIdent
  <2>3. s = ses \/ s.state # "run"
    <3>1. ses.ident \in {"none", "reading"} /\ ses.state = "run"
      BY <1>7 DEF ReadIdent
    <3>2. s = ses \/ s = exit(ses, "auth_timeout")
      BY <3>1 DEF checktimeouts
    <3> QED BY <1>1, <3>2 DEF exit, SesType
  <2> HIDE DEF s
  <2>4. /\ k \in SesType /\ k.quiet = s.quiet /\ k.idle = s.idle /\ k.chan = s.chan /\ k.kex = s.kex
        /\ k.held = s.held
    BY <2>2 DEF SesType
  <2>5. /\ w.quiet = s.quiet /\ w.idle = s.idle /\ w.chan = s.chan /\ w.kex = s.kex
        /\ w.held = s.held /\ w.state = s.state
    BY <2>2 DEF SesType
  <2> HIDE DEF w, k
  <2>6. CASE s.state = "run" /\ ses' = w
    BY <2>2, <2>3, <2>5, <2>6 DEF QuietInv, Calm, dataallowed
  <2>7. CASE Round(r)
    <3>1. Calm(k)
      BY <2>2, <2>4 DEF Calm, dataallowed
    <3> QED BY <2>2, <2>4, <2>7, <3>1, RoundQuiet
  <2> QED BY <2>1, <2>6, <2>7
<1>8. CASE UNCHANGED vars
  BY <1>8 DEF vars, QuietInv, Calm, dataallowed
<1> QED BY <1>3, <1>4, <1>5, <1>6, <1>7, <1>8 DEF Next

\* Besides activity only answers to channel keepalives put off the idle timeout:
\* not the keepalives checktimeouts() sends, not those the reply queue held back,
\* and not the answers to global requests, in either direction.
THEOREM QuietSessionsClose == Spec => []QuietCloses
<1>1. Init => QuietInv
  <2> SUFFICES ASSUME Init PROVE QuietInv
    OBVIOUS
  <2>1. ses.quiet = 0 /\ ses.idle = 0 /\ ses.kex = "sent"
    BY DEF Init, common_session_init
  <2> QED BY <2>1 DEF QuietInv, Calm, dataallowed
<1>2. TimersInv /\ OnTime /\ QuietInv => QuietCloses
  <2> SUFFICES ASSUME TimersInv, OnTime, QuietInv, ses.state = "run", ses.ident = "known", idle_timeout_secs > 0
               PROVE  ses.quiet <= idle_timeout_secs \/ ses.chan <= idle_timeout_secs
    BY DEF QuietCloses
  <2>1. ses.idle <= idle_timeout_secs
    BY DEF OnTime
  <2>2. ses.idle \in Nat /\ ses.quiet \in Nat /\ ses.chan \in Nat /\ idle_timeout_secs \in Nat
    BY Ages, TimeAssumption DEF TimersInv, TypeOK
  <2> QED BY <2>1, <2>2 DEF QuietInv, Calm
<1> QED BY <1>1, <1>2, NextQuiet, Invariance, DeadlinesMet, PTL DEF Spec
=============================================================================
