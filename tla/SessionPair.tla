----------------------------- MODULE SessionPair -----------------------------
(***************************************************************************)
(* A session of SvrSession and its client, with the two directions of the  *)
(* connection between them.  The client is either a correct one, modelled  *)
(* from what the server expects of it, or one that sends anything at all.  *)
(*                                                                         *)
(* A packet in flight carries the keys it was encrypted with.              *)
(***************************************************************************)
EXTENDS SvrSession

CONSTANTS
    Guess,       \* first packets a correct client may guess: "none", "right", "wrong"
    WriteQueue,  \* the server reads and makes packets while no more than this many are unsent
    MaxKex,      \* bound on the number of key exchanges that are started
    MaxMade,     \* bound: nobody asks or sends of its own accord after this many packets
    MaxWaiting   \* bound on the requests a correct client has unanswered

ASSUME PairAssumption ==
    /\ Guess \subseteq {"none", "right", "wrong"}
    /\ Name # {} /\ {"too_long", "with_nul"} \cap Name = {}
    /\ WriteQueue \in Nat /\ MaxWaiting \in Nat /\ MaxKex \in Nat /\ MaxMade \in Nat

VARIABLES
    correct,     \* whether the client is a correct one
    cl,          \* its state
    inq, outq    \* packets on their way to the server and to the client

pairVars == <<ses, correct, cl, inq, outq>>

Running == ses.state = "run"

\* The client adds packets, with the keys it uses.
Put(ps) == inq' = inq \o [i \in DOMAIN ps |-> [p |-> ps[i], key |-> cl.ckey]]

-----------------------------------------------------------------------------
(* The correct client.  kex is where it stands in a key exchange: "none",  *)
(* "init" (KEXINIT sent), "dh" (KEXDH_INIT sent), "new" (NEWKEYS sent).    *)

\* It sticks to one user name.
Me == CHOOSE u \in Name : TRUE

\* The packets that start a key exchange: KEXINIT, and the guess if there is one.
Opening(g) ==
    LET k(guess) == [type |-> "KEXINIT", guess |-> guess, match |-> TRUE]
    IN  CASE g = "none" -> <<k("none")>>
          [] g = "right" -> <<k("right"), [type |-> "KEXDH_INIT", valid |-> TRUE]>>
          [] g = "wrong" -> <<k("wrong"), [type |-> "KEXDH_INIT", valid |-> FALSE]>>

\* It starts an exchange, or answers the server's KEXINIT.
ClientKexinit(g) ==
    /\ correct /\ Running
    /\ cl.kex = "none"
    /\ cl.gen < MaxKex
    /\ Put(Opening(g))
    /\ cl' = [cl EXCEPT !.kex = "init", !.guess = g]
    /\ UNCHANGED <<ses, correct, outq>>

\* With both KEXINITs known it sends its key, unless its guess was right.
ClientKexdh ==
    /\ correct /\ Running
    /\ cl.kex = "init" /\ cl.got
    /\ Put(IF cl.guess = "right" THEN <<>> ELSE <<[type |-> "KEXDH_INIT", valid |-> TRUE]>>)
    /\ cl' = [cl EXCEPT !.kex = "dh"]
    /\ UNCHANGED <<ses, correct, outq>>

\* It asks for what it may ask for now: nothing but the exchange from its
\* KEXINIT to its NEWKEYS.
ClientRequest(p) ==
    /\ correct /\ Running
    /\ ses.made < MaxMade
    /\ cl.kex \in {"none", "new"}
    /\ cl.gen > 0 \/ cl.kex = "new"
    /\ cl.waiting < (IF cl.phase = "connection" THEN MaxWaiting ELSE 1)
    /\ \/ cl.phase = "service" /\ p = [type |-> "SERVICE_REQUEST", name |-> "ssh-userauth"]
       \/ /\ cl.phase = "auth"
          /\ p.type = "USERAUTH_REQUEST" /\ p.user = Me /\ p.known
          /\ p.method \in {"none", "password_right", "key_signed"}
       \/ cl.phase = "connection" /\ p.type = "GLOBAL_REQUEST" /\ p.answer # "none"
    /\ Put(<<p>>)
    /\ cl' = [cl EXCEPT !.waiting = @ + 1]
    /\ UNCHANGED <<ses, correct, outq>>

\* What a packet from the server means to it.
Learn(m) ==
    LET c == [cl EXCEPT !.expect = IF m.n > 0 THEN m.n + 1 ELSE @]
    IN  CASE m.type = "KEXINIT" -> [c EXCEPT !.got = TRUE]
          [] m.type = "KEXDH_REPLY" -> [c EXCEPT !.ckey = cl.gen + 1, !.kex = "new"]
          [] m.type = "NEWKEYS" -> [c EXCEPT !.skey = cl.gen + 1, !.gen = @ + 1, !.kex = "none", !.got = FALSE]
          [] m.type = "SERVICE_ACCEPT" -> [c EXCEPT !.phase = "auth", !.waiting = @ - 1]
          [] m.type = "USERAUTH_SUCCESS" -> [c EXCEPT !.phase = "connection", !.waiting = @ - 1]
          [] m.type \in {"USERAUTH_FAILURE", "REQUEST_SUCCESS", "REQUEST_FAILURE"} -> [c EXCEPT !.waiting = @ - 1]
          [] OTHER -> c

\* It reads a packet; KEXDH_REPLY is answered with NEWKEYS.
ClientReceive ==
    /\ correct /\ Running
    /\ outq # <<>>
    /\ outq' = Tail(outq)
    /\ cl' = Learn(Head(outq))
    /\ Put(IF Head(outq).type = "KEXDH_REPLY" THEN <<[type |-> "NEWKEYS"]>> ELSE <<>>)
    /\ UNCHANGED <<ses, correct>>

-----------------------------------------------------------------------------
(* The server. *)

writequeue_has_space == Len(outq) <= WriteQueue

\* What the server wrote in this round goes to a correct client.
Written == outq' = IF correct THEN outq \o ses'.sent ELSE <<>>

\* The next packet of a correct client.
ServerReceive ==
    /\ correct
    /\ inq # <<>>
    /\ writequeue_has_space
    /\ Receive(Head(inq).p)
    /\ inq' = Tail(inq)
    /\ Written
    /\ UNCHANGED <<correct, cl>>

\* A packet of the other client.
ServerReceiveAny(p) ==
    /\ ~correct
    /\ ses.made < MaxMade /\ (p.type = "KEXINIT" => ses.gen < MaxKex)
    /\ Receive(p)
    /\ Written
    /\ UNCHANGED <<correct, cl, inq>>

ServerRekey == ses.gen < MaxKex /\ Rekey /\ Written /\ UNCHANGED <<correct, cl, inq>>

ServerChannelIO == ses.made < MaxMade /\ writequeue_has_space /\ ChannelIO /\ Written /\ UNCHANGED <<correct, cl, inq>>

ServerClose == Close /\ UNCHANGED <<correct, cl, inq, outq>>

-----------------------------------------------------------------------------
PairInit ==
    /\ Init
    /\ correct \in BOOLEAN
    /\ cl = [kex |-> "none", got |-> FALSE, guess |-> "none", gen |-> 0, ckey |-> 0, skey |-> 0,
             expect |-> 1, phase |-> "service", waiting |-> 0]
    /\ inq = <<>>
    /\ outq = IF correct THEN ses.sent ELSE <<>>

ClientRequests == \E p \in Packet : ClientRequest(p)

PairNext ==
    \/ \E g \in Guess : ClientKexinit(g)
    \/ ClientKexdh \/ ClientRequests \/ ClientReceive
    \/ ServerReceive \/ (\E p \in Packet : ServerReceiveAny(p))
    \/ ServerRekey \/ ServerChannelIO \/ ServerClose

PairSpec == PairInit /\ [][PairNext]_pairVars

\* The server runs while there is something to read; a correct client reads and
\* goes through with a key exchange.
FairPair ==
    /\ PairSpec
    /\ WF_pairVars(ServerReceive)
    /\ WF_pairVars(ClientReceive)
    /\ WF_pairVars(ClientKexdh)
    /\ WF_pairVars(cl.got /\ \E g \in Guess : ClientKexinit(g))

-----------------------------------------------------------------------------
(* Safety. *)

\* Both ends change keys at the same packets, in each direction, although each
\* starts exchanges when it likes: a packet arrives at keys that fit it.
KeysAgree ==
    Running =>
        /\ inq # <<>> => Head(inq).key = ses.rkey
        /\ outq # <<>> => Head(outq).key = cl.skey

\* A correct client is never thrown out by the packet filter or a handler.
CorrectServed == correct => ses.state \in {"run", "closed", "max auth tries"}

\* Packets arrive in the order they were made, whether or not they were held back.
InOrder == Running /\ outq # <<>> /\ Head(outq).n > 0 => Head(outq).n = cl.expect

\* RFC 4253 7.1, encrypt_packet(): from its KEXINIT to its NEWKEYS the server
\* sends nothing but the key exchange.
QuietDuringKex == Running /\ outq # <<>> /\ cl.got => Head(outq).n = 0

-----------------------------------------------------------------------------
(* Liveness. *)

\* A key exchange either side started is completed, or the session ends.
KexCompletes == correct /\ ses.sentkexinit ~> ~ses.sentkexinit \/ ~Running

\* A request that was held up by a key exchange is answered.
RequestsAnswered == correct /\ cl.waiting > 0 ~> cl.waiting = 0 \/ ~Running
=============================================================================
