------------------------------ MODULE SvrSession ------------------------------
(***************************************************************************)
(* The server's side of the SSH protocol: the packet filter of             *)
(* process-packet.c, key exchange and rekeying (common-kex.c, svr-kex.c),  *)
(* the reply queue of packet.c and user authentication (svr-auth.c).       *)
(*                                                                         *)
(* The session structure is the record ses.  A C function is an operator   *)
(* that maps ses to ses, and dropbear_exit() sets ses.state, which nothing *)
(* leaves.  An action is one round of session_loop().  The client is any   *)
(* client at all here; SessionPair adds one that follows the protocol.     *)
(*                                                                         *)
(* Packets are kept as their types and the parts that decide what happens. *)
(* A set of keys is the number of the exchange that made it, 0 for none.   *)
(***************************************************************************)
EXTENDS Naturals, Sequences

CONSTANTS
    Name,            \* user names
    None,            \* a null pointer, and 0 in requirenext
    maxauthtries,
    Banner           \* whether there is a banner to send

ASSUME SessionAssumption ==
    /\ None \notin Name \cup {"KEXINIT", "KEXDH_INIT", "NEWKEYS"}
    /\ maxauthtries \in Nat \ {0}
    /\ Banner \in BOOLEAN

VARIABLE ses

-----------------------------------------------------------------------------
(* What a client can send. *)

Method == {"none", "password_right", "password_wrong", "key_unknown", "key_query",
           "key_signed", "key_forged", "other"}

Packet ==
    [type : {"IGNORE", "DISCONNECT", "NEWKEYS", "GEX_REQUEST", "USERAUTH_OTHER", "RESPONSE"}]
    \cup [type : {"KEXINIT"}, guess : {"none", "right", "wrong"}, match : BOOLEAN]
    \cup [type : {"KEXDH_INIT"}, valid : BOOLEAN]
    \cup [type : {"SERVICE_REQUEST"}, name : {"ssh-userauth", "ssh-connection", "other"}]
    \cup [type : {"USERAUTH_REQUEST"}, user : Name \cup {"too_long", "with_nul"},
          known : BOOLEAN, method : Method]
    \cup [type : {"GLOBAL_REQUEST"}, answer : {"REQUEST_SUCCESS", "REQUEST_FAILURE", "none"}]

\* Types 1 to 49 without the two service packets and KEXINIT.
Transport == {"KEXDH_INIT", "NEWKEYS", "GEX_REQUEST"}

\* Types above MAX_UNAUTH_PACKET_TYPE.
Connection == {"GLOBAL_REQUEST", "RESPONSE"}

-----------------------------------------------------------------------------
(* Sending. *)

exit(s, why) == [s EXCEPT !.state = why]

packet_is_okay_kex(type) == type \in {"KEXDH_REPLY", "NEWKEYS", "UNIMPLEMENTED"}

\* Mutant: a packet that is held back only while the peer's KEXINIT is awaited.
encrypt_packet_early(s, type) ==
    IF packet_is_okay_kex(type)
    THEN [s EXCEPT !.sent = Append(@, [type |-> type, n |-> 0, key |-> s.tkey])]
    ELSE IF s.dataallowed \/ s.recvkexinit
    THEN [s EXCEPT !.made = @ + 1, !.sent = Append(@, [type |-> type, n |-> s.made + 1, key |-> s.tkey])]
    ELSE [s EXCEPT !.made = @ + 1, !.queue = Append(@, [type |-> type, n |-> s.made + 1])]

\* A packet is put on the wire, or held back during a key exchange.  The
\* packets that can be held back are numbered as they are made.
encrypt_packet(s, type) ==
    IF packet_is_okay_kex(type)
    THEN [s EXCEPT !.sent = Append(@, [type |-> type, n |-> 0, key |-> s.tkey])]
    ELSE IF s.dataallowed
    THEN [s EXCEPT !.made = @ + 1, !.sent = Append(@, [type |-> type, n |-> s.made + 1, key |-> s.tkey])]
    ELSE [s EXCEPT !.made = @ + 1, !.queue = Append(@, [type |-> type, n |-> s.made + 1])]

\* Mutant: what was held back is forgotten.
maybe_flush_drops(s) == IF s.dataallowed THEN [s EXCEPT !.queue = <<>>] ELSE s

\* What was held back is sent, in order.
maybe_flush_reply_queue(s) ==
    IF s.dataallowed
    THEN [s EXCEPT !.sent = @ \o [i \in DOMAIN s.queue |->
                                  [type |-> s.queue[i].type, n |-> s.queue[i].n, key |-> s.tkey]],
                   !.queue = <<>>]
    ELSE s

recv_unimplemented(s) == encrypt_packet(s, "UNIMPLEMENTED")

-----------------------------------------------------------------------------
(* Key exchange.  newkeys is allocated, has its algorithms, and holds keys *)
(* that are not in use yet.                                                *)

NoKeys == [alloc |-> FALSE, algo |-> FALSE, recv |-> FALSE, trans |-> FALSE]

kexinitialise(s) ==
    [s EXCEPT !.sentkexinit = FALSE, !.recvkexinit = FALSE,
              !.sentnewkeys = FALSE, !.recvnewkeys = FALSE]

send_msg_kexinit(s) ==
    [encrypt_packet(s, "KEXINIT") EXCEPT
        !.transkexinit = TRUE, !.dataallowed = FALSE, !.sentkexinit = TRUE,
        !.newkeys = [NoKeys EXCEPT !.alloc = TRUE]]

\* Mutant: both directions change keys as soon as they are known.
switch_keys_both(s) ==
    IF ~(s.sentkexinit /\ s.recvkexinit) THEN exit(s, "newkeys")
    ELSE LET t == [s EXCEPT !.rkey = s.gen, !.tkey = s.gen, !.newkeys.recv = FALSE, !.newkeys.trans = FALSE]
         IN  IF t.sentnewkeys /\ t.recvnewkeys THEN kexinitialise([t EXCEPT !.newkeys = NoKeys]) ELSE t

\* Each direction changes keys at its own NEWKEYS; after both the exchange is over.
switch_keys(s) ==
    IF ~(s.sentkexinit /\ s.recvkexinit) THEN exit(s, "newkeys")
    ELSE LET r == IF s.recvnewkeys /\ s.newkeys.recv
                  THEN [s EXCEPT !.rkey = s.gen, !.newkeys.recv = FALSE] ELSE s
             t == IF r.sentnewkeys /\ r.newkeys.trans
                  THEN [r EXCEPT !.tkey = s.gen, !.newkeys.trans = FALSE] ELSE r
         IN  IF t.sentnewkeys /\ t.recvnewkeys THEN kexinitialise([t EXCEPT !.newkeys = NoKeys]) ELSE t

gen_new_keys(s) == [s EXCEPT !.gen = @ + 1, !.newkeys.recv = TRUE, !.newkeys.trans = TRUE]

send_msg_newkeys(s) ==
    switch_keys(gen_new_keys([encrypt_packet(s, "NEWKEYS") EXCEPT !.sentnewkeys = TRUE, !.dataallowed = TRUE]))

recv_msg_newkeys(s) == switch_keys([s EXCEPT !.recvnewkeys = TRUE])

\* Mutant: the packet that follows a wrong guess is not ignored.
read_kex_algos_noguess(s, p) ==
    IF ~s.newkeys.alloc THEN exit(s, "null pointer")
    ELSE IF ~p.match THEN exit(s, "no matching algo")
    ELSE [s EXCEPT !.newkeys = [NoKeys EXCEPT !.alloc = TRUE, !.algo = TRUE]]

\* Mutant: any guess is taken for a wrong one.
read_kex_algos_nofirst(s, p) ==
    IF ~s.newkeys.alloc THEN exit(s, "null pointer")
    ELSE IF ~p.match THEN exit(s, "no matching algo")
    ELSE [s EXCEPT !.newkeys = [NoKeys EXCEPT !.alloc = TRUE, !.algo = TRUE],
                   !.ignorenext = @ \/ p.guess # "none"]

\* What is chosen from the client's lists; a guess that was wrong is to be ignored.
read_kex_algos(s, p) ==
    IF ~s.newkeys.alloc THEN exit(s, "null pointer")
    ELSE IF ~p.match THEN exit(s, "no matching algo")
    ELSE [s EXCEPT !.newkeys = [NoKeys EXCEPT !.alloc = TRUE, !.algo = TRUE],
                   !.ignorenext = @ \/ p.guess = "wrong"]

\* The client's KEXINIT, in answer to ours or to start an exchange.
recv_msg_kexinit(s, p) ==
    LET o == IF s.sentkexinit THEN s ELSE send_msg_kexinit(s)
        k == IF o.transkexinit THEN read_kex_algos(o, p) ELSE exit(o, "null pointer")
    IN  IF k.state # "run" THEN k
        ELSE [k EXCEPT !.kexhashbuf = TRUE, !.requirenext = "KEXDH_INIT", !.transkexinit = FALSE,
                       !.recvkexinit = TRUE]

\* Mutant: the order of the exchange is not checked.
recv_msg_kexdh_init_premature(s, p) ==
    IF ~s.newkeys.algo \/ ~s.kexhashbuf THEN exit(s, "null pointer")
    ELSE IF ~p.valid THEN exit(s, "bad kex value")
    ELSE [send_msg_newkeys([encrypt_packet(s, "KEXDH_REPLY") EXCEPT !.kexhashbuf = FALSE])
            EXCEPT !.requirenext = "NEWKEYS"]

\* The client's key: the reply, NEWKEYS, and new keys for what is sent from now on.
recv_msg_kexdh_init(s, p) ==
    IF ~s.recvkexinit THEN exit(s, "premature kexdh_init")
    ELSE IF ~s.newkeys.algo \/ ~s.kexhashbuf THEN exit(s, "null pointer")
    ELSE IF ~p.valid THEN exit(s, "bad kex value")
    ELSE [send_msg_newkeys([encrypt_packet(s, "KEXDH_REPLY") EXCEPT !.kexhashbuf = FALSE])
            EXCEPT !.requirenext = "NEWKEYS"]

-----------------------------------------------------------------------------
(* Services and authentication. *)

recv_msg_service_request(s, p) ==
    IF p.name = "other" \/ (p.name = "ssh-connection" /\ ~s.authdone)
    THEN exit(s, "service")
    ELSE encrypt_packet(s, "SERVICE_ACCEPT")

send_msg_userauth_failure(s, incrfail) ==
    LET f == [encrypt_packet(s, "USERAUTH_FAILURE") EXCEPT !.failcount = IF incrfail THEN @ + 1 ELSE @]
    IN  IF f.failcount >= maxauthtries THEN exit(f, "max auth tries") ELSE f

send_msg_userauth_success(s) == [encrypt_packet(s, "USERAUTH_SUCCESS") EXCEPT !.authdone = TRUE]

\* The first request settles the user name; a name that is too long is not looked at.
checkusername(s, user) ==
    IF user = "too_long" THEN s
    ELSE IF user = "with_nul" \/ s.username \notin {None, user} THEN exit(s, "username")
    ELSE [s EXCEPT !.username = user]

\* Whether the password counts is decided by authtypes, not by the name.
svr_auth_password(s, method) ==
    IF method = "password_right" THEN send_msg_userauth_success(s) ELSE send_msg_userauth_failure(s, TRUE)

svr_auth_pubkey(s, valid_user, method) ==
    IF ~valid_user \/ method = "key_unknown" THEN send_msg_userauth_failure(s, FALSE)
    ELSE IF method = "key_query" THEN encrypt_packet(s, "USERAUTH_PK_OK")
    ELSE IF method = "key_signed" THEN send_msg_userauth_success(s)
    ELSE send_msg_userauth_failure(s, TRUE)

\* A request names the service it is for; known is false when it is another one.
recv_msg_userauth_request(s, p) ==
    LET b == IF s.banner THEN [encrypt_packet(s, "USERAUTH_BANNER") EXCEPT !.banner = FALSE] ELSE s
        c == IF p.known THEN checkusername(b, p.user) ELSE exit(b, "unknown service")
    IN  IF s.authdone THEN s
        ELSE IF c.state # "run" THEN c
        ELSE IF p.method = "none" THEN send_msg_userauth_failure(c, FALSE)
        ELSE IF s.authtypes = "password" /\ p.method \in {"password_right", "password_wrong"}
        THEN svr_auth_password(c, p.method)
        ELSE IF p.method \in {"key_unknown", "key_query", "key_signed", "key_forged"}
        THEN svr_auth_pubkey(c, p.user # "too_long", p.method)
        ELSE send_msg_userauth_failure(c, TRUE)

\* Forwarding requests; whether one succeeds is up to the network.
recv_msg_global_request_remotetcp(s, p) ==
    IF p.answer = "none" THEN s ELSE encrypt_packet(s, p.answer)

-----------------------------------------------------------------------------
(* The packet filter. *)

\* packettypes[]: the handler of a packet; ignore_recv_response() does nothing.
Handle(s, p) ==
    CASE p.type = "KEXINIT" -> recv_msg_kexinit(s, p)
      [] p.type = "KEXDH_INIT" -> recv_msg_kexdh_init(s, p)
      [] p.type = "NEWKEYS" -> recv_msg_newkeys(s)
      [] p.type = "SERVICE_REQUEST" -> recv_msg_service_request(s, p)
      [] p.type = "USERAUTH_REQUEST" -> recv_msg_userauth_request(s, p)
      [] p.type = "GLOBAL_REQUEST" -> recv_msg_global_request_remotetcp(s, p)
      [] p.type = "RESPONSE" -> s
      [] OTHER -> recv_unimplemented(s)

\* Mutant: a packet to be ignored ends the wait for the one that is required.
process_packet_forgets(s, p) ==
    IF p.type = "IGNORE" THEN s
    ELSE IF p.type = "DISCONNECT" THEN exit(s, "disconnect")
    ELSE IF s.requirenext \notin {None, p.type}
    THEN IF p.type \in Transport THEN recv_unimplemented(s) ELSE exit(s, "unexpected packet")
    ELSE IF s.ignorenext THEN [s EXCEPT !.ignorenext = FALSE, !.requirenext = None]
    ELSE IF ~s.authdone /\ p.type \in Connection THEN exit(s, "before userauth")
    ELSE Handle([s EXCEPT !.requirenext = None], p)

\* Mutant: packets that are not expected are only a matter for their handlers.
process_packet_lax(s, p) ==
    IF p.type = "IGNORE" THEN s
    ELSE IF p.type = "DISCONNECT" THEN exit(s, "disconnect")
    ELSE IF s.ignorenext THEN [s EXCEPT !.ignorenext = FALSE]
    ELSE IF ~s.authdone /\ p.type \in Connection THEN exit(s, "before userauth")
    ELSE Handle([s EXCEPT !.requirenext = None], p)

process_packet(s, p) ==
    IF p.type = "IGNORE" THEN s
    ELSE IF p.type = "DISCONNECT" THEN exit(s, "disconnect")
    ELSE IF s.requirenext \notin {None, p.type}
    THEN IF p.type \in Transport THEN recv_unimplemented(s) ELSE exit(s, "unexpected packet")
    ELSE IF s.ignorenext THEN [s EXCEPT !.ignorenext = FALSE]
    ELSE IF ~s.authdone /\ p.type \in Connection THEN exit(s, "before userauth")
    ELSE Handle([s EXCEPT !.requirenext = None], p)

-----------------------------------------------------------------------------
(* Rounds of session_loop(). *)

\* The end of a round.  Nothing is written once the session ends.
Round(s) == IF s.state = "run" THEN maybe_flush_reply_queue(s) ELSE [s EXCEPT !.sent = <<>>]

Begin == [ses EXCEPT !.sent = <<>>]

\* A packet was read.
Receive(p) ==
    /\ ses.state = "run"
    /\ ses' = Round(process_packet(Begin, p))

\* checktimeouts(): it is time for new keys.
Rekey ==
    /\ ses.state = "run"
    /\ ~ses.sentkexinit
    /\ ses' = Round(send_msg_kexinit(Begin))

\* channelio() and the others that send of their own accord, after authentication.
ChannelIO ==
    /\ ses.state = "run"
    /\ ses.authdone
    /\ ses' = encrypt_packet(Begin, "CHANNEL_DATA")

\* svr_remoteclosed(), or a timeout.
Close ==
    /\ ses.state = "run"
    /\ ses' = exit(Begin, "closed")

-----------------------------------------------------------------------------
\* common_session_init(), svr_authinitialise() and kexfirstinitialise().
common_session_init(authtypes) ==
    [state |-> "run", requirenext |-> "KEXINIT", ignorenext |-> FALSE, dataallowed |-> TRUE,
     sentkexinit |-> FALSE, recvkexinit |-> FALSE, sentnewkeys |-> FALSE, recvnewkeys |-> FALSE,
     transkexinit |-> FALSE, kexhashbuf |-> FALSE, newkeys |-> NoKeys,
     gen |-> 0, rkey |-> 0, tkey |-> 0,
     authtypes |-> authtypes, authdone |-> FALSE, username |-> None, failcount |-> 0, banner |-> Banner,
     made |-> 0, queue |-> <<>>, sent |-> <<>>]

Init == \E a \in {"password", "publickey"} : ses = send_msg_kexinit(common_session_init(a))

Next == (\E p \in Packet : Receive(p)) \/ Rekey \/ ChannelIO \/ Close

Spec == Init /\ [][Next]_ses

-----------------------------------------------------------------------------
(* Safety. *)

Ended == {"newkeys", "no matching algo", "null pointer", "premature kexdh_init", "bad kex value",
          "service", "max auth tries", "username", "unknown service", "disconnect",
          "unexpected packet", "before userauth", "closed"}

Reply == {"KEXINIT", "KEXDH_REPLY", "NEWKEYS", "UNIMPLEMENTED", "SERVICE_ACCEPT",
          "USERAUTH_FAILURE", "USERAUTH_SUCCESS", "USERAUTH_PK_OK", "USERAUTH_BANNER",
          "REQUEST_SUCCESS", "REQUEST_FAILURE", "CHANNEL_DATA"}

Held == [type : Reply, n : Nat]

Sent == [type : Reply, n : Nat, key : Nat]

SesType ==
    [state : Ended \cup {"run"}, requirenext : {None, "KEXINIT", "KEXDH_INIT", "NEWKEYS"},
     ignorenext : BOOLEAN, dataallowed : BOOLEAN, sentkexinit : BOOLEAN, recvkexinit : BOOLEAN,
     sentnewkeys : BOOLEAN, recvnewkeys : BOOLEAN, transkexinit : BOOLEAN, kexhashbuf : BOOLEAN,
     newkeys : [alloc : BOOLEAN, algo : BOOLEAN, recv : BOOLEAN, trans : BOOLEAN],
     gen : Nat, rkey : Nat, tkey : Nat, authtypes : {"password", "publickey"},
     authdone : BOOLEAN, username : Name \cup {None}, failcount : Nat, banner : BOOLEAN,
     made : Nat, queue : Seq(Held), sent : Seq(Sent)]

\* Types of the session structure.
TypeOK == ses \in SesType

KexFlags(s) ==
    /\ s.recvkexinit => s.sentkexinit
    /\ s.sentnewkeys => s.recvkexinit
    /\ ~s.recvnewkeys
    /\ s.dataallowed = ~(s.sentkexinit /\ ~s.sentnewkeys)
    /\ s.transkexinit = (s.sentkexinit /\ ~s.recvkexinit)
    /\ s.kexhashbuf = (s.recvkexinit /\ ~s.sentnewkeys)
    /\ s.newkeys = [alloc |-> s.sentkexinit, algo |-> s.recvkexinit, recv |-> s.sentnewkeys, trans |-> FALSE]
    /\ s.gen = 0 => s.sentkexinit
    /\ s.tkey = s.gen
    /\ s.gen = IF s.sentnewkeys THEN s.rkey + 1 ELSE s.rkey

KexNext(s) ==
    s.requirenext = IF s.sentnewkeys THEN "NEWKEYS"
                    ELSE IF s.recvkexinit THEN "KEXDH_INIT"
                    ELSE IF s.gen = 0 THEN "KEXINIT" ELSE None

\* The flags, buffers and keys of a key exchange agree, whatever the client
\* sends and whichever side starts: our KEXINIT is kept until theirs has come,
\* newkeys lives as long as the exchange, requirenext is what the exchange waits
\* for, each direction uses the keys its own NEWKEYS announced.
KexState == ses.state = "run" => KexFlags(ses) /\ KexNext(ses)

\* No order of packets makes a handler use a buffer that is not there.
NoNullPointer == ses.state # "null pointer"

CredentialsEncrypted(s) ==
    s.username # None \/ s.authdone \/ s.failcount > 0 => s.rkey > 0 /\ s.tkey > 0

SentEncrypted(s) ==
    \A i \in DOMAIN s.sent : s.sent[i].n > 0 /\ s.sent[i].type # "KEXINIT" => s.sent[i].key > 0

\* No user name and no credential is accepted before keys are in use both ways, and
\* no packet is sent before they are in use our way but those of the key exchange
\* and UNIMPLEMENTED, which have no number, and KEXINIT.
Encrypted == CredentialsEncrypted(ses) /\ SentEncrypted(ses)

\* The inductive invariant.
SessionInv == TypeOK /\ KexState /\ NoNullPointer /\ Encrypted
=============================================================================
