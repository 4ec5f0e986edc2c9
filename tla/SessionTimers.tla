---------------------------- MODULE SessionTimers ----------------------------
(***************************************************************************)
(* The timers of a session, common-session.c: checktimeouts() decides what *)
(* is due, select_timeout() how long the main loop may sleep, and packets  *)
(* move the time stamps they look at.                                      *)
(*                                                                         *)
(* The code only uses the time that has passed since a time stamp, so a    *)
(* time stamp is kept as its age in seconds, up to Forever.  A C function  *)
(* is an operator that maps ses to ses.  The key exchange is reduced to    *)
(* what decides which packets may pass: "none", "sent" (our KEXINIT is     *)
(* out), "recv" (theirs is in), "newkeys" (we sent NEWKEYS).               *)
(***************************************************************************)
EXTENDS Naturals

CONSTANTS
    AUTH_TIMEOUT,
    KEX_REKEY_TIMEOUT,
    keepalive_secs,            \* option -K, 0 for never
    DEFAULT_KEEPALIVE_LIMIT,
    idle_timeout_secs,         \* option -I, 0 for never
    Forever                    \* an age beyond every limit

ASSUME TimeAssumption ==
    /\ AUTH_TIMEOUT \in Nat \ {0} /\ KEX_REKEY_TIMEOUT \in Nat \ {0}
    /\ keepalive_secs \in Nat /\ DEFAULT_KEEPALIVE_LIMIT \in Nat \ {0}
    /\ idle_timeout_secs \in Nat /\ Forever \in Nat
    /\ Forever > AUTH_TIMEOUT /\ Forever > KEX_REKEY_TIMEOUT /\ Forever > idle_timeout_secs
    /\ Forever > keepalive_secs * (DEFAULT_KEEPALIVE_LIMIT + 1)

VARIABLES
    ses,     \* the session and its time stamps
    left,    \* what is left of the timeout select() was given
    spin     \* select() was given no time at all

vars == <<ses, left, spin>>

Older(age) == IF age < Forever THEN age + 1 ELSE age

Min2(a, b) == IF a <= b THEN a ELSE b

exit(s, why) == [s EXCEPT !.state = why]

-----------------------------------------------------------------------------
(* Sending.  A packet is one of the key exchange, an answer to a keepalive, *)
(* a keepalive (a channel request if a channel is ready, else a global one), *)
(* or another; held is what the reply queue has.                           *)

dataallowed(s) == s.kex \in {"none", "newkeys"}

\* Packets that answer a keepalive of the peer are no activity.
Answer == {"REQUEST_FAILURE", "UNIMPLEMENTED"}

\* A packet is sent, or held back during a key exchange.  quiet is the time
\* since the last packet, in or out, that has nothing to do with keepalives.
encrypt_packet(s, type) ==
    IF ~dataallowed(s) /\ type \notin {"kex", "UNIMPLEMENTED"}
    THEN [s EXCEPT !.held = @ \cup {type}]
    ELSE [s EXCEPT !.any = 0,
                   !.idle = IF type \in Answer THEN @ ELSE 0,
                   !.quiet = IF type \in Answer \cup {"keepalive"} THEN @ ELSE 0]

maybe_flush_reply_queue(s) ==
    IF ~dataallowed(s) \/ s.held = {} THEN s
    ELSE [s EXCEPT !.held = {}, !.any = 0,
                   !.idle = IF s.held \subseteq Answer THEN @ ELSE 0,
                   !.quiet = IF s.held \subseteq Answer \cup {"keepalive"} THEN @ ELSE 0]

\* asked is a history of the keepalives sent since the peer was last heard of,
\* without those that only went to the reply queue.  owed is set when one is a
\* channel request that has no answer yet.
send_msg_keepalive(s) ==
    [encrypt_packet(s, "keepalive") EXCEPT
        !.sent = 0, !.idle = s.idle, !.owed = @ \/ s.ready,
        !.asked = IF dataallowed(s) THEN Min2(@ + 1, DEFAULT_KEEPALIVE_LIMIT) ELSE @]

send_msg_kexinit(s) == [encrypt_packet(s, "kex") EXCEPT !.kex = "sent"]

-----------------------------------------------------------------------------
(* What is due, and when. *)

keepalives(s) == keepalive_secs > 0 /\ s.authdone

\* Nothing is written any more: the keepalives of the call that gives up are
\* not sent, and asked is what it was before.
keepalive_timeout(b, asked) == exit([b EXCEPT !.asked = asked], "keepalive_timeout")

\* Mutant: one keepalive stands for both.
checktimeouts_once(s, full) ==
    LET k == [s EXCEPT !.ident = "known"]
        r == IF k.kex = "none" /\ (k.kexage >= KEX_REKEY_TIMEOUT \/ full) THEN send_msg_kexinit(k) ELSE k
        b == IF keepalives(r) /\ r.any >= keepalive_secs THEN send_msg_keepalive(r) ELSE r
    IN  IF ~s.authdone /\ s.connect >= AUTH_TIMEOUT THEN exit(s, "auth_timeout")
        ELSE IF s.ident \in {"none", "reading"} THEN s
        ELSE IF keepalives(b) /\ b.recv >= keepalive_secs * DEFAULT_KEEPALIVE_LIMIT THEN keepalive_timeout(b, s.asked)
        ELSE IF idle_timeout_secs > 0 /\ b.idle >= idle_timeout_secs THEN exit(b, "idle_timeout")
        ELSE b

\* full: KEX_REKEY_DATA bytes have gone by since the last exchange.  ident is
\* "fresh" until the first call that knows the peer's version.
checktimeouts(s, full) ==
    LET k == [s EXCEPT !.ident = "known"]
        r == IF k.kex = "none" /\ (k.kexage >= KEX_REKEY_TIMEOUT \/ full) THEN send_msg_kexinit(k) ELSE k
        a == IF keepalives(r) /\ r.any >= keepalive_secs THEN send_msg_keepalive(r) ELSE r
        b == IF keepalives(a) /\ a.recv >= keepalive_secs /\ a.sent >= keepalive_secs THEN send_msg_keepalive(a) ELSE a
    IN  IF ~s.authdone /\ s.connect >= AUTH_TIMEOUT THEN exit(s, "auth_timeout")
        ELSE IF s.ident \in {"none", "reading"} THEN s
        ELSE IF keepalives(b) /\ b.recv >= keepalive_secs * DEFAULT_KEEPALIVE_LIMIT THEN keepalive_timeout(b, s.asked)
        ELSE IF idle_timeout_secs > 0 /\ b.idle >= idle_timeout_secs THEN exit(b, "idle_timeout")
        ELSE b

\* The timeout so far, cut to what is left until limit; never less than 0.
update_timeout(timeout, limit, age) ==
    IF limit = 0 THEN timeout
    ELSE IF age >= limit THEN 0 ELSE Min2(timeout, limit - age)

\* Mutant: the timeouts that end a session are left to chance.
select_timeout_late(s) ==
    LET k == IF s.kex = "none" THEN update_timeout(KEX_REKEY_TIMEOUT, KEX_REKEY_TIMEOUT, s.kexage) ELSE KEX_REKEY_TIMEOUT
        a == IF ~s.authdone THEN update_timeout(k, AUTH_TIMEOUT, s.connect) ELSE k
    IN  IF s.authdone THEN update_timeout(a, keepalive_secs, Min2(s.recv, s.sent)) ELSE a

select_timeout(s) ==
    LET k == IF s.kex = "none" THEN update_timeout(KEX_REKEY_TIMEOUT, KEX_REKEY_TIMEOUT, s.kexage) ELSE KEX_REKEY_TIMEOUT
        a == IF ~s.authdone THEN update_timeout(k, AUTH_TIMEOUT, s.connect) ELSE k
        p == IF s.authdone THEN update_timeout(a, keepalive_secs, Min2(s.recv, s.sent)) ELSE a
    IN  update_timeout(p, idle_timeout_secs, s.idle)

-----------------------------------------------------------------------------
(* Receiving.  What a correct peer may send in each phase. *)

Kex == {"KEXINIT", "KEXDH_INIT", "NEWKEYS"}

Allowed(s, type) ==
    CASE type = "KEXINIT" -> s.kex \in {"none", "sent"}
      [] type = "KEXDH_INIT" -> s.kex = "recv"
      [] type = "NEWKEYS" -> s.kex = "newkeys"
      [] type = "IGNORE" -> TRUE
      [] type = "USERAUTH_REQUEST" -> s.firstkex /\ s.kex \in {"none", "sent"} /\ ~s.authdone
      [] type = "CHANNEL_FAILURE" -> s.kex \in {"none", "sent"} /\ s.owed /\ "keepalive" \notin s.held
      [] OTHER -> s.kex \in {"none", "sent"} /\ s.authdone

\* The handlers, as far as they matter here.
Handle(s, type) ==
    CASE type = "KEXINIT" -> [(IF s.kex = "none" THEN send_msg_kexinit(s) ELSE s) EXCEPT !.kex = "recv"]
      [] type = "KEXDH_INIT" -> [encrypt_packet(s, "kex") EXCEPT !.kex = "newkeys"]
      [] type = "NEWKEYS" -> [s EXCEPT !.kex = "none", !.kexage = 0, !.firstkex = TRUE]
      [] type = "USERAUTH_REQUEST" -> [encrypt_packet(s, "other") EXCEPT !.authdone = TRUE, !.connect = 0]
      [] type = "CHANNEL_OPEN" -> [encrypt_packet(s, "other") EXCEPT !.ready = TRUE]
      [] type = "CHANNEL_EOF" -> [s EXCEPT !.ready = FALSE]
      [] type = "GLOBAL_REQUEST" -> encrypt_packet(s, "REQUEST_FAILURE")
      [] type = "CHANNEL_FAILURE" -> [s EXCEPT !.chan = 0, !.owed = FALSE]
      [] OTHER -> s

\* A packet that only says that the peer is there.
Quiet == {"GLOBAL_REQUEST", "REQUEST_FAILURE", "CHANNEL_FAILURE"}

\* Mutant: any packet counts as activity.
process_packet_active(s, type) ==
    LET r == [s EXCEPT !.recv = 0, !.asked = 0]
    IN  IF type = "IGNORE" THEN r
        ELSE Handle([r EXCEPT !.idle = 0, !.quiet = IF type \in Quiet THEN @ ELSE 0], type)

\* IGNORE stands for DEBUG and UNIMPLEMENTED too.
process_packet(s, type) ==
    LET r == [s EXCEPT !.recv = 0, !.asked = 0]
    IN  IF type = "IGNORE" THEN r
        ELSE Handle([r EXCEPT !.idle = IF type \in {"GLOBAL_REQUEST", "REQUEST_FAILURE"} THEN @ ELSE 0,
                              !.quiet = IF type \in Quiet THEN @ ELSE 0], type)

PacketType == Kex \cup Quiet \cup {"IGNORE", "USERAUTH_REQUEST", "CHANNEL_OPEN", "CHANNEL_EOF", "CHANNEL_DATA"}

-----------------------------------------------------------------------------
(* Rounds of session_loop(). *)

\* The end of a round: the queue is flushed, and select() is called again.
Round(s) ==
    /\ ses' = IF s.state = "run" THEN maybe_flush_reply_queue(s) ELSE s
    /\ left' = IF s.state = "run" THEN select_timeout(ses') ELSE 0
    /\ spin' = (s.state = "run" /\ left' = 0)

\* A round in which nothing is read: the timeout, a signal, a channel.
Wake ==
    /\ ses.state = "run" /\ ses.ident # "reading"
    /\ \E full \in BOOLEAN : Round(checktimeouts(ses, full))

\* A packet is read.  It answers no keepalive of this very round.
Deliver(type) ==
    /\ ses.state = "run" /\ ses.ident \in {"fresh", "known"}
    /\ type = "CHANNEL_FAILURE" => ses.owed
    /\ LET s == checktimeouts(ses, FALSE)
       IN  /\ Allowed(s, type)
           /\ Round(IF s.state = "run" THEN process_packet(s, type) ELSE s)

\* channelio() has something to send.
Output ==
    /\ ses.state = "run" /\ ses.ident \in {"fresh", "known"} /\ ses.ready
    /\ LET s == checktimeouts(ses, FALSE)
       IN  Round(IF s.state = "run" THEN encrypt_packet(s, "other") ELSE s)

\* read_session_identification(): the peer's version, waited for by the second.
ReadIdent ==
    /\ ses.state = "run" /\ ses.ident \in {"none", "reading"}
    /\ LET s == checktimeouts(ses, FALSE)
       IN  \/ /\ s.state = "run"
              /\ ses' = [s EXCEPT !.ident = "reading"]
              /\ left' = 1
              /\ spin' = FALSE
           \/ Round(IF s.state = "run" THEN [s EXCEPT !.ident = "fresh"] ELSE s)

\* A second goes by in select().
Tick ==
    /\ ses.state = "run"
    /\ left > 0 \/ spin
    /\ ses' = [ses EXCEPT !.connect = IF ses.authdone THEN 0 ELSE Older(@), !.kexage = Older(@), !.any = Older(@), !.recv = Older(@),
                          !.sent = Older(@), !.idle = Older(@), !.quiet = Older(@), !.chan = Older(@)]
    /\ left' = IF left > 0 THEN left - 1 ELSE 0
    /\ spin' = FALSE

-----------------------------------------------------------------------------
\* common_session_init() and the first KEXINIT; a time stamp of 0 is long ago.
common_session_init ==
    [state |-> "run", ident |-> "none", authdone |-> FALSE, kex |-> "sent", firstkex |-> FALSE,
     ready |-> FALSE, held |-> {}, asked |-> 0, owed |-> FALSE,
     connect |-> 0, kexage |-> 0, any |-> 0, recv |-> 0, sent |-> Forever, idle |-> 0,
     quiet |-> 0, chan |-> Forever]

Init ==
    /\ ses = common_session_init
    /\ left = select_timeout(ses)
    /\ spin = FALSE

Next == Tick \/ Wake \/ (\E t \in PacketType : Deliver(t)) \/ Output \/ ReadIdent

Spec == Init /\ [][Next]_vars

-----------------------------------------------------------------------------
(* Safety. *)

Age == 0 .. Forever

SesType ==
    [state : {"run", "auth_timeout", "keepalive_timeout", "idle_timeout"},
     ident : {"none", "reading", "fresh", "known"}, authdone : BOOLEAN,
     kex : {"none", "sent", "recv", "newkeys"}, firstkex : BOOLEAN, ready : BOOLEAN,
     held : SUBSET (Answer \cup {"keepalive", "other"}),
     asked : 0 .. DEFAULT_KEEPALIVE_LIMIT, owed : BOOLEAN,
     connect : Age, kexage : Age, any : Age, recv : Age, sent : Age, idle : Age,
     quiet : Age, chan : Age]

\* Types of the session and of the timeout.
TypeOK == ses \in SesType /\ left \in Nat /\ spin \in BOOLEAN

\* The loop never sleeps past a deadline, however packets, key exchanges and
\* keepalives move the time stamps: AUTH_TIMEOUT (while the version is being read
\* too), the idle timeout and the rekey time are met to the second.  The keepalive
\* limit and the sending of keepalives, which select_timeout() does not look at,
\* come less than keepalive_secs late.
OnTime ==
    ses.state = "run" =>
        /\ ~ses.authdone => ses.connect <= AUTH_TIMEOUT
        /\ ses.ident = "known" /\ idle_timeout_secs > 0 => ses.idle <= idle_timeout_secs
        /\ ses.ident = "known" /\ keepalives(ses) => ses.recv < keepalive_secs * (DEFAULT_KEEPALIVE_LIMIT + 1)
        /\ ses.ident = "known" /\ keepalives(ses) /\ dataallowed(ses) => ses.any < 2 * keepalive_secs
        /\ ses.ident = "known" /\ ses.kex = "none" => ses.kexage <= KEX_REKEY_TIMEOUT

\* "so as to avoid waking when unneccessary": a round leaves nothing overdue, so
\* once checktimeouts() knows the version the loop does not go round without
\* sleeping.  (Before, it does when -I is less than AUTH_TIMEOUT, and this says
\* nothing of it.)
NoBusyLoop == ses.ident = "known" => ~spin

\* "If this many KEEPALIVES are sent with no packets received from the other
\* side, exit.": the limit counts seconds, but what it amounts to is that at least
\* DEFAULT_KEEPALIVE_LIMIT - 1 keepalives went out and stayed unanswered, however
\* packets and output shifted the two conditions that send them.  The last one is
\* never written.  In a key exchange the peer owes the next packet of the exchange,
\* and keepalives wait in the reply queue: there it may be none at all.
KeepaliveLimit ==
    ses.state = "keepalive_timeout" =>
        ses.asked >= DEFAULT_KEEPALIVE_LIMIT - 1 \/ ~dataallowed(ses)

\* What puts off the idle timeout: besides activity (quiet) only an answer to a
\* keepalive that was a channel request (chan).  The keepalives sent, those that a
\* key exchange held back, the peer's own keepalives, our answers to them and its
\* answers to global requests do not.
QuietCloses ==
    ses.state = "run" /\ ses.ident = "known" /\ idle_timeout_secs > 0
        => ses.quiet <= idle_timeout_secs \/ ses.chan <= idle_timeout_secs

\* "so that keepalives don't interfere with idle detection": a session without
\* activity ends in time also when the peer answers keepalives.
IdleDetected ==
    ses.state = "run" /\ ses.ident = "known" /\ idle_timeout_secs > 0
        => ses.quiet <= idle_timeout_secs
=============================================================================
