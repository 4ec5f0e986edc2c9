------------------------------- MODULE SvrMain -------------------------------
(***************************************************************************)
(* The dropbear listener, main_noinetd() of svr-main.c: the select loop    *)
(* that accepts connections, limits how many of them are unauthenticated   *)
(* and forks a session process for each.  A session keeps the write end of *)
(* a pipe open until it authenticates or exits; the listener keeps the     *)
(* read end in childpipes[] and frees the slot when it reads end of file.  *)
(*                                                                         *)
(* A pipe is named by its connection.  The session process is modelled by  *)
(* what the listener can observe of it.                                    *)
(***************************************************************************)
EXTENDS Naturals, Sequences, FiniteSets

CONSTANTS
    Conn,               \* connections
    Addr,               \* remote addresses
    From,               \* the ways the connections may be spread over the addresses
    Listen,             \* the listening sockets
    MAX_UNAUTH_CLIENTS,
    MAX_UNAUTH_PER_IP,
    None,               \* -1 in childpipes[], NULL in preauth_addrs[]
    Faults              \* whether system calls may fail and signals arrive

ASSUME FromAssumption == From \subseteq [Conn -> Addr]
ASSUME NoneAssumption == None \notin Conn /\ None \notin Addr
ASSUME LimitAssumption == MAX_UNAUTH_CLIENTS \in Nat \ {0} /\ MAX_UNAUTH_PER_IP \in Nat \ {0}
ASSUME FaultsAssumption == Faults \in BOOLEAN

VARIABLES
    session,        \* what became of each connection
    addr,           \* its remote address
    backlog,        \* connections waiting in accept() of each listening socket
    childpipes,     \* pipe of the session that holds each slot
    preauth_addrs,  \* and its address
    pc,             \* place in the select loop
    fds,            \* what select() reported: slots whose pipe is at its end
    socks,          \* and listening sockets with something to accept
    exitflag        \* set by SIGINT and SIGTERM

sessionVars  == <<session, addr, backlog>>
slotVars     == <<childpipes, preauth_addrs>>
loopVars     == <<pc, fds, socks, exitflag>>
vars == <<sessionVars, slotVars, loopVars>>

\* The indices of childpipes[] and preauth_addrs[].
Slot == 0 .. MAX_UNAUTH_CLIENTS - 1

SessionState == {"none", "backlog", "unauth", "auth", "closed"}

Used == {j \in Slot : childpipes[j] # None}

UsedBy(a) == {j \in Used : preauth_addrs[j] = a}

Unauth == {c \in Conn : session[c] = "unauth"}

-----------------------------------------------------------------------------
(* Clients and session processes. *)

\* A client connects.  A name is used again once nothing refers to it.
Connect(c, l) ==
    /\ pc # "exited"
    /\ session[c] \in {"none", "closed"}
    /\ \A j \in Slot : childpipes[j] # c
    /\ session' = [session EXCEPT ![c] = "backlog"]
    /\ backlog' = [backlog EXCEPT ![l] = Append(@, c)]
    /\ UNCHANGED <<addr, slotVars, loopVars>>

\* send_msg_userauth_success(): the session closes its end of the pipe.
Authenticate(c) ==
    /\ session[c] = "unauth"
    /\ session' = [session EXCEPT ![c] = "auth"]
    /\ UNCHANGED <<addr, backlog, slotVars, loopVars>>

\* checktimeouts(): a session that has not authenticated in time exits.
AuthTimeout(c) ==
    /\ session[c] = "unauth"
    /\ session' = [session EXCEPT ![c] = "closed"]
    /\ UNCHANGED <<addr, backlog, slotVars, loopVars>>

\* A session process exits for any other reason.
SessionExit(c) ==
    /\ session[c] \in {"unauth", "auth"}
    /\ session' = [session EXCEPT ![c] = "closed"]
    /\ UNCHANGED <<addr, backlog, slotVars, loopVars>>

-----------------------------------------------------------------------------
(* The select loop. *)

\* Mutant: a session that exits does not give its slot back.
AtEOFAuth(j) == childpipes[j] # None /\ session[childpipes[j]] = "auth"

\* The pipe is at its end: no process has its write end any more.
AtEOF(j) == childpipes[j] # None /\ session[childpipes[j]] # "unauth"

\* Mutant: only the first socket that has something to say is handled.
ReadyFirst ==
    LET r == {l \in Listen : backlog[l] # <<>>}
    IN  IF r = {} THEN {} ELSE {CHOOSE l \in r : TRUE}

\* The listening sockets that select() can report.
Ready == {l \in Listen : backlog[l] # <<>>}

\* select() returns what is ready; exitflag is looked at first.
Select ==
    /\ pc = "select"
    /\ fds' = {j \in Slot : AtEOF(j)}
    /\ socks' = Ready
    /\ fds' # {} \/ socks' # {}
    /\ pc' = IF exitflag THEN "exited" ELSE "free"
    /\ UNCHANGED <<sessionVars, slotVars, exitflag>>

\* A signal interrupts select(): SIGCHLD, or SIGINT and SIGTERM, which end it.
Interrupted ==
    /\ Faults
    /\ pc = "select"
    /\ exitflag' \in {exitflag, TRUE}
    /\ pc' = IF exitflag' THEN "exited" ELSE "select"
    /\ UNCHANGED <<sessionVars, slotVars, fds, socks>>

\* select() fails for another reason.
SelectFails ==
    /\ Faults
    /\ pc = "select"
    /\ pc' = "exited"
    /\ UNCHANGED <<sessionVars, slotVars, fds, socks, exitflag>>

\* A termination signal that comes at another place, just before select()
\* included, only sets the flag.
Terminate ==
    /\ Faults
    /\ pc # "exited"
    /\ exitflag' = TRUE
    /\ UNCHANGED <<sessionVars, slotVars, pc, fds, socks>>

\* Mutant: every used slot is freed, whether or not select() reported it.
FreeAllSlots ==
    /\ pc = "free"
    /\ childpipes' = [j \in Slot |-> None]
    /\ preauth_addrs' = [j \in Slot |-> None]
    /\ pc' = "accept"
    /\ UNCHANGED <<sessionVars, fds, socks, exitflag>>

\* Slots whose session has authenticated or exited are freed.
FreeSlots ==
    /\ pc = "free"
    /\ childpipes' = [j \in Slot |-> IF j \in fds THEN None ELSE childpipes[j]]
    /\ preauth_addrs' = [j \in Slot |-> IF j \in fds THEN None ELSE preauth_addrs[j]]
    /\ pc' = "accept"
    /\ UNCHANGED <<sessionVars, fds, socks, exitflag>>

\* Mutant: the address limit is off by one.
RefusedLate(a) ==
    \/ Cardinality(Used) >= MAX_UNAUTH_CLIENTS
    \/ Cardinality(UsedBy(a)) > MAX_UNAUTH_PER_IP

\* Mutant: only the limit for each address is checked.
RefusedPerAddr(a) == Cardinality(UsedBy(a)) >= MAX_UNAUTH_PER_IP

\* The limits on unauthenticated connections.
Refused(a) ==
    \/ Cardinality(Used) >= MAX_UNAUTH_CLIENTS
    \/ Cardinality(UsedBy(a)) >= MAX_UNAUTH_PER_IP

\* The last free slot, 0 if there is none.
conn_idx ==
    LET free == Slot \ Used
    IN  IF free = {} THEN 0 ELSE CHOOSE j \in free : \A k \in free : k <= j

\* The parent's part after fork(): the slot is taken.
TakeSlot(c) ==
    /\ childpipes' = [childpipes EXCEPT ![conn_idx] = c]
    /\ preauth_addrs' = [preauth_addrs EXCEPT ![conn_idx] = addr[c]]

\* accept() on a listening socket that select() reported: the connection is
\* refused, or gets a session process, or is dropped when pipe() or fork() fails.
\* With nothing to accept, accept() fails.
Accept(l) ==
    /\ pc = "accept"
    /\ l \in socks
    /\ socks' = socks \ {l}
    /\ \/ /\ backlog[l] # <<>>
          /\ LET c == Head(backlog[l])
             IN  /\ backlog' = [backlog EXCEPT ![l] = Tail(@)]
                 /\ \/ /\ Refused(addr[c]) \/ Faults
                       /\ session' = [session EXCEPT ![c] = "closed"]
                       /\ UNCHANGED slotVars
                    \/ /\ ~Refused(addr[c])
                       /\ session' = [session EXCEPT ![c] = "unauth"]
                       /\ TakeSlot(c)
       \/ /\ backlog[l] = <<>> \/ Faults
          /\ UNCHANGED <<session, backlog, slotVars>>
    /\ UNCHANGED <<addr, pc, fds, exitflag>>

\* Every reported socket was handled.
Again ==
    /\ pc = "accept"
    /\ socks = {}
    /\ pc' = "select"
    /\ UNCHANGED <<sessionVars, slotVars, fds, socks, exitflag>>

-----------------------------------------------------------------------------
Init ==
    /\ session = [c \in Conn |-> "none"]
    /\ addr \in From
    /\ backlog = [l \in Listen |-> <<>>]
    /\ childpipes = [j \in Slot |-> None]
    /\ preauth_addrs = [j \in Slot |-> None]
    /\ pc = "select"
    /\ fds = {}
    /\ socks = {}
    /\ exitflag = FALSE

Listener == Select \/ FreeSlots \/ (\E l \in Listen : Accept(l)) \/ Again

Next ==
    \/ \E c \in Conn, l \in Listen : Connect(c, l)
    \/ \E c \in Conn : Authenticate(c) \/ AuthTimeout(c) \/ SessionExit(c)
    \/ Listener \/ Interrupted \/ SelectFails \/ Terminate

Spec == Init /\ [][Next]_vars

-----------------------------------------------------------------------------
(* Safety. *)

\* Types; a slot has a pipe exactly when it has an address.
TypeOK ==
    /\ session \in [Conn -> SessionState]
    /\ addr \in [Conn -> Addr]
    /\ backlog \in [Listen -> Seq(Conn)]
    /\ childpipes \in [Slot -> Conn \cup {None}]
    /\ preauth_addrs \in [Slot -> Addr \cup {None}]
    /\ \A j \in Slot : childpipes[j] = None <=> preauth_addrs[j] = None
    /\ pc \in {"select", "free", "accept", "exited"}
    /\ fds \subseteq Slot
    /\ socks \subseteq Listen
    /\ exitflag \in BOOLEAN

\* Every unauthenticated session is accounted for: it holds a slot with its own
\* address, so no slot was freed or given away under it.
Accounted ==
    \A c \in Unauth : \E j \in Slot : childpipes[j] = c /\ preauth_addrs[j] = addr[c]

\* MAX_UNAUTH_CLIENTS: the number of session processes that have not
\* authenticated is limited, whatever order they authenticate, time out and
\* exit in relative to the select loop.
TotalLimit == Cardinality(Unauth) <= MAX_UNAUTH_CLIENTS

\* MAX_UNAUTH_PER_IP, the same for one remote address.
AddressLimit ==
    \A a \in Addr : Cardinality({c \in Unauth : addr[c] = a}) <= MAX_UNAUTH_PER_IP

\* What select() reported of the pipes is still so when the slots are freed.
FdsAtEnd == pc = "free" => \A j \in fds : AtEOF(j)

\* No address holds more slots than its limit.
SlotLimit == \A a \in Addr : Cardinality(UsedBy(a)) <= MAX_UNAUTH_PER_IP

\* The inductive invariant.
SlotInv == TypeOK /\ Accounted /\ FdsAtEnd /\ SlotLimit

-----------------------------------------------------------------------------
(* Liveness: the listener runs, accept() does not fail for ever, and            *)
(* AUTH_TIMEOUT ends a session that does not authenticate.                      *)

FairSpec ==
    /\ Spec
    /\ WF_vars(Listener)
    /\ \A l \in Listen : SF_vars(Accept(l) /\ backlog' # backlog)
    /\ \A c \in Conn : WF_vars(AuthTimeout(c))

HoldsSlot(c) == \E j \in Slot : childpipes[j] = c

\* "we might end up leaking connection slots, and disallow new logins - a nasty
\* situation": a connection gives its slot back as long as the listener runs.
SlotsReleased ==
    \A c \in Conn : HoldsSlot(c) ~> (~HoldsSlot(c) \/ pc = "exited")

\* A connection does not stay in the backlog: it is accepted or refused, however
\* many others there are.
BacklogServed ==
    \A c \in Conn : session[c] = "backlog" ~> (session[c] # "backlog" \/ pc = "exited")
=============================================================================
