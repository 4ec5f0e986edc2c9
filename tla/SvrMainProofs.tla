---------------------------- MODULE SvrMainProofs ----------------------------
(***************************************************************************)
(* Proofs about SvrMain for every number of connections, addresses and     *)
(* listening sockets, and every value of the two limits.                   *)
(***************************************************************************)
EXTENDS SvrMain, FiniteSetTheorems, WellFoundedInduction, TLAPS

-----------------------------------------------------------------------------
(* The slots. *)

\* The slots are finitely many, as many as MAX_UNAUTH_CLIENTS.
LEMMA SlotsFinite == IsFiniteSet(Slot) /\ Cardinality(Slot) = MAX_UNAUTH_CLIENTS /\ 0 \in Slot
<1>1. MAX_UNAUTH_CLIENTS \in Nat /\ MAX_UNAUTH_CLIENTS # 0
  BY LimitAssumption
<1>2. IsFiniteSet(0 .. MAX_UNAUTH_CLIENTS - 1)
  BY <1>1, FS_Interval
<1>3. Cardinality(0 .. MAX_UNAUTH_CLIENTS - 1) = MAX_UNAUTH_CLIENTS
  BY <1>1, FS_Interval
<1> QED BY <1>1, <1>2, <1>3 DEF Slot

\* A nonempty set of slots has a last one.
LEMMA LastSlot ==
  ASSUME NEW S \in SUBSET Slot, S # {}
  PROVE  \E j \in S : \A k \in S : k <= j
<1> DEFINE N == MAX_UNAUTH_CLIENTS
           T == {n \in Nat : N - n \in S}
<1>1. N \in Nat
  BY LimitAssumption
<1>2. T # {}
  <2>1. PICK j \in S : TRUE
    OBVIOUS
  <2>2. N - j \in Nat /\ N - (N - j) = j
    BY <1>1, <2>1 DEF Slot
  <2> QED BY <2>1, <2>2
<1>3. PICK m \in T : \A k \in T : ~ (<<k, m>> \in OpToRel(<, Nat))
  <2> HIDE DEF T
  <2>1. T \subseteq Nat
    BY DEF T
  <2> QED BY <1>2, <2>1, NatLessThanWellFounded, WFMin
<1>4. \A k \in T : ~ (k < m)
  BY <1>3 DEF OpToRel
<1>5. ASSUME NEW k \in S PROVE k <= N - m
  <2>1. N - k \in Nat /\ N - (N - k) = k /\ k \in Int
    BY <1>1 DEF Slot
  <2>2. N - k \in T
    BY <2>1
  <2>3. ~ (N - k < m)
    BY <2>2, <1>4
  <2> QED BY <1>1, <2>1, <2>3
<1> QED BY <1>5

\* The slot taken for a new session is a slot, and a free one if there is any.
LEMMA ConnIdx == conn_idx \in Slot /\ (Used # Slot => conn_idx \notin Used)
<1>1. CASE Slot \ Used = {}
  BY <1>1, SlotsFinite DEF conn_idx, Used
<1>2. CASE Slot \ Used # {}
  <2>1. \E j \in Slot \ Used : \A k \in Slot \ Used : k <= j
    BY <1>2, LastSlot
  <2> QED BY <1>2, <2>1 DEF conn_idx
<1> QED BY <1>1, <1>2

\* When the limits admit an address there is a free slot.
LEMMA FreeSlot == ASSUME NEW a, ~Refused(a) PROVE conn_idx \in Slot /\ conn_idx \notin Used
<1>1. Used # Slot
  <2> SUFFICES ASSUME Used = Slot PROVE FALSE
    OBVIOUS
  <2> QED BY SlotsFinite, LimitAssumption DEF Refused
<1> QED BY <1>1, ConnIdx

\* Every set of slots is finite.
LEMMA UsedFinite ==
  /\ IsFiniteSet(Used) /\ Cardinality(Used) \in Nat
  /\ \A a : IsFiniteSet(UsedBy(a)) /\ Cardinality(UsedBy(a)) \in Nat
<1>1. Used \in SUBSET Slot /\ \A a : UsedBy(a) \in SUBSET Slot
  BY DEF Used, UsedBy
<1>2. \A S \in SUBSET Slot : IsFiniteSet(S) /\ Cardinality(S) \in Nat
  BY SlotsFinite, FS_Subset, FS_CardinalityType
<1> QED BY <1>1, <1>2

-----------------------------------------------------------------------------
(* Type correctness. *)

\* Every initial state is well typed.
LEMMA InitTypeOK == Init => TypeOK
<1> SUFFICES ASSUME Init PROVE TypeOK
  OBVIOUS
<1>1. exitflag \in BOOLEAN
  BY Zenon DEF Init
<1>2. backlog \in [Listen -> Seq(Conn)]
  BY DEF Init
<1>3. childpipes \in [Slot -> Conn \cup {None}] /\ preauth_addrs \in [Slot -> Addr \cup {None}]
  BY DEF Init
<1>4. \A j \in Slot : childpipes[j] = None <=> preauth_addrs[j] = None
  BY DEF Init
<1> QED BY FromAssumption, <1>1, <1>2, <1>3, <1>4 DEF Init, TypeOK, SessionState

\* A step of a client or a session process keeps the state well typed.
LEMMA SessionTypeOK ==
  ASSUME TypeOK, NEW c \in Conn,
         \/ \E l \in Listen : Connect(c, l)
         \/ Authenticate(c) \/ AuthTimeout(c) \/ SessionExit(c)
  PROVE  TypeOK'
<1>1. CASE \E l \in Listen : Connect(c, l)
  BY <1>1 DEF TypeOK, Connect, SessionState, slotVars, loopVars
<1>2. CASE Authenticate(c) \/ AuthTimeout(c) \/ SessionExit(c)
  BY <1>2 DEF TypeOK, Authenticate, AuthTimeout, SessionExit, SessionState, slotVars, loopVars
<1> QED BY <1>1, <1>2

\* A step of the select loop outside accept() keeps the state well typed.
LEMMA LoopTypeOK ==
  ASSUME TypeOK, Select \/ FreeSlots \/ Again \/ Interrupted \/ SelectFails \/ Terminate
  PROVE  TypeOK'
<1>1. CASE Select
  BY <1>1 DEF TypeOK, Select, Ready, sessionVars, slotVars
<1>2. CASE FreeSlots
  BY <1>2 DEF TypeOK, FreeSlots, sessionVars
<1>3. CASE Again \/ SelectFails
  BY <1>3 DEF TypeOK, Again, SelectFails, sessionVars, slotVars
<1>4. CASE Interrupted \/ Terminate
  <2>1. exitflag' \in BOOLEAN
    BY <1>4, Zenon DEF TypeOK, Interrupted, Terminate
  <2> QED BY <1>4, <2>1 DEF TypeOK, Interrupted, Terminate, sessionVars, slotVars
<1> QED BY <1>1, <1>2, <1>3, <1>4

\* Taking a slot keeps the slots well typed.
LEMMA TakeSlotTypeOK ==
  ASSUME TypeOK, NEW c \in Conn, TakeSlot(c)
  PROVE  /\ childpipes' \in [Slot -> Conn \cup {None}]
         /\ preauth_addrs' \in [Slot -> Addr \cup {None}]
         /\ \A j \in Slot : childpipes'[j] = None <=> preauth_addrs'[j] = None
  BY ConnIdx, NoneAssumption DEF TypeOK, TakeSlot

\* Accepting a connection keeps the state well typed.
LEMMA AcceptTypeOK ==
  ASSUME TypeOK, NEW l \in Listen, Accept(l)
  PROVE  TypeOK'
<1>1. UNCHANGED <<addr, pc, fds, exitflag>> /\ socks' \subseteq Listen
  BY DEF TypeOK, Accept
<1>3. CASE UNCHANGED <<session, backlog, slotVars>>
  BY <1>1, <1>3 DEF TypeOK, slotVars
<1>4. ASSUME NEW c, c = Head(backlog[l]), backlog[l] # <<>>,
             backlog' = [backlog EXCEPT ![l] = Tail(@)]
      PROVE  c \in Conn /\ backlog' \in [Listen -> Seq(Conn)]
  BY <1>4 DEF TypeOK
<1>5. CASE \E c : /\ c = Head(backlog[l]) /\ backlog[l] # <<>>
                   /\ backlog' = [backlog EXCEPT ![l] = Tail(@)]
                   /\ session' = [session EXCEPT ![c] = "closed"]
                   /\ UNCHANGED slotVars
  BY <1>1, <1>4, <1>5 DEF TypeOK, slotVars, SessionState
<1>6. CASE \E c : /\ c = Head(backlog[l]) /\ backlog[l] # <<>>
                   /\ backlog' = [backlog EXCEPT ![l] = Tail(@)]
                   /\ session' = [session EXCEPT ![c] = "unauth"]
                   /\ TakeSlot(c)
  BY <1>1, <1>4, <1>6, TakeSlotTypeOK DEF TypeOK, SessionState
<1> QED BY <1>3, <1>5, <1>6 DEF Accept

\* Every step keeps the state well typed.
LEMMA NextTypeOK == TypeOK /\ [Next]_vars => TypeOK'
<1> SUFFICES ASSUME TypeOK, [Next]_vars PROVE TypeOK'
  OBVIOUS
<1>1. CASE UNCHANGED vars
  BY <1>1 DEF TypeOK, vars, sessionVars, slotVars, loopVars
<1> QED BY <1>1, SessionTypeOK, LoopTypeOK, AcceptTypeOK DEF Next, Listener

\* The slots, the sessions and the select loop keep their types; a slot has an
\* address exactly when it has a pipe.
THEOREM TypeCorrect == Spec => []TypeOK
  BY InitTypeOK, NextTypeOK, PTL DEF Spec

-----------------------------------------------------------------------------
(* The limits. *)

\* Clients and session processes take no slot, free none, and no session
\* becomes unauthenticated, so the pipes at their end stay so.
LEMMA SessionInv ==
  ASSUME SlotInv, NEW c \in Conn,
         \/ \E l \in Listen : Connect(c, l)
         \/ Authenticate(c) \/ AuthTimeout(c) \/ SessionExit(c)
  PROVE  Accounted' /\ FdsAtEnd' /\ SlotLimit'
<1>1. /\ UNCHANGED <<childpipes, preauth_addrs, pc, fds>>
      /\ session'[c] # "unauth"
      /\ \A d \in Conn \ {c} : session'[d] = session[d] /\ addr'[d] = addr[d]
      /\ session' \in [Conn -> SessionState]
  BY SessionTypeOK DEF SlotInv, TypeOK, Connect, Authenticate, AuthTimeout, SessionExit,
                       slotVars, loopVars
<1>2. Accounted'
  BY <1>1 DEF SlotInv, Accounted, Unauth
<1>3. FdsAtEnd'
  BY <1>1 DEF SlotInv, TypeOK, FdsAtEnd, AtEOF
<1>4. SlotLimit'
  BY <1>1 DEF SlotInv, SlotLimit, UsedBy, Used
<1> QED BY <1>2, <1>3, <1>4

\* The steps of the loop that leave the slots alone.
LEMMA IdleInv ==
  ASSUME SlotInv, Select \/ Again \/ Interrupted \/ SelectFails \/ Terminate
  PROVE  Accounted' /\ FdsAtEnd' /\ SlotLimit'
<1>1. UNCHANGED <<session, addr, childpipes, preauth_addrs>>
  BY DEF Select, Again, Interrupted, SelectFails, Terminate, sessionVars, slotVars
<1>2. Accounted' /\ SlotLimit'
  BY <1>1 DEF SlotInv, Accounted, Unauth, SlotLimit, UsedBy, Used
<1>3. FdsAtEnd'
  <2>1. CASE Select
    BY <2>1, <1>1 DEF Select, FdsAtEnd, AtEOF
  <2>2. CASE Again \/ Interrupted \/ SelectFails \/ Terminate
    BY <2>2, <1>1 DEF SlotInv, Again, Interrupted, SelectFails, Terminate, FdsAtEnd, AtEOF
  <2> QED BY <2>1, <2>2
<1> QED BY <1>2, <1>3

\* Freeing the slots at their end takes none from an unauthenticated session.
LEMMA FreeInv ==
  ASSUME SlotInv, FreeSlots
  PROVE  Accounted' /\ FdsAtEnd' /\ SlotLimit'
<1>1. /\ UNCHANGED <<session, addr>>
      /\ pc = "free" /\ pc' = "accept"
      /\ \A j \in Slot : ~AtEOF(j) => childpipes'[j] = childpipes[j] /\ preauth_addrs'[j] = preauth_addrs[j]
      /\ \A j \in Slot : childpipes'[j] # None => childpipes'[j] = childpipes[j]
                                                  /\ preauth_addrs'[j] = preauth_addrs[j]
  BY DEF FreeSlots, sessionVars, SlotInv, FdsAtEnd
<1>2. Accounted'
  BY <1>1 DEF SlotInv, Accounted, Unauth, AtEOF
<1>3. SlotLimit'
  <2> SUFFICES ASSUME NEW a \in Addr PROVE Cardinality(UsedBy(a)') <= MAX_UNAUTH_PER_IP
    BY DEF SlotLimit
  <2>1. UsedBy(a)' \in SUBSET UsedBy(a)
    BY <1>1 DEF UsedBy, Used
  <2>2. Cardinality(UsedBy(a)') <= Cardinality(UsedBy(a))
    BY <2>1, UsedFinite, FS_Subset
  <2>3. Cardinality(UsedBy(a)') \in Nat
    BY <2>1, UsedFinite, FS_Subset, FS_CardinalityType
  <2> QED BY <2>2, <2>3, UsedFinite, LimitAssumption DEF SlotInv, SlotLimit
<1> QED BY <1>1, <1>2, <1>3 DEF FdsAtEnd

\* A session gets a free slot, so no other loses its own, and only when its
\* address has less than the limit.
LEMMA AcceptInv ==
  ASSUME SlotInv, NEW l \in Listen, Accept(l)
  PROVE  Accounted' /\ FdsAtEnd' /\ SlotLimit'
<1>1. pc' = "accept" /\ addr' = addr
  BY DEF Accept
<1>2. FdsAtEnd'
  BY <1>1 DEF FdsAtEnd
<1>3. CASE UNCHANGED <<session, slotVars>>
  BY <1>1, <1>2, <1>3 DEF SlotInv, Accounted, Unauth, SlotLimit, UsedBy, Used, slotVars
<1>4. ASSUME NEW c \in Conn, session' = [session EXCEPT ![c] = "closed"], UNCHANGED slotVars
      PROVE  Accounted' /\ SlotLimit'
  BY <1>1, <1>4 DEF SlotInv, TypeOK, Accounted, Unauth, SlotLimit, UsedBy, Used, slotVars
<1>5. ASSUME NEW c \in Conn, ~Refused(addr[c]), TakeSlot(c),
             session' = [session EXCEPT ![c] = "unauth"]
      PROVE  Accounted' /\ SlotLimit'
  <2>1. conn_idx \in Slot /\ conn_idx \notin Used
    BY <1>5, FreeSlot
  <2>2. /\ childpipes'[conn_idx] = c /\ preauth_addrs'[conn_idx] = addr[c]
        /\ \A j \in Slot \ {conn_idx} : childpipes'[j] = childpipes[j]
                                        /\ preauth_addrs'[j] = preauth_addrs[j]
    BY <1>5, <2>1 DEF SlotInv, TypeOK, TakeSlot
  <2>3. Accounted'
    <3> SUFFICES ASSUME NEW d \in Conn, session'[d] = "unauth"
                 PROVE  \E j \in Slot : childpipes'[j] = d /\ preauth_addrs'[j] = addr[d]
      BY <1>1 DEF Accounted, Unauth
    <3>1. CASE d = c
      BY <3>1, <2>1, <2>2
    <3>2. CASE d # c
      <4>1. d \in Unauth
        BY <3>2, <1>5 DEF SlotInv, TypeOK, Unauth
      <4>2. PICK j \in Slot : childpipes[j] = d /\ preauth_addrs[j] = addr[d]
        BY <4>1 DEF SlotInv, Accounted
      <4>3. j # conn_idx
        BY <4>2, <2>1, NoneAssumption DEF Used
      <4> QED BY <4>2, <4>3, <2>2
    <3> QED BY <3>1, <3>2
  <2>4. SlotLimit'
    <3> SUFFICES ASSUME NEW a \in Addr PROVE Cardinality(UsedBy(a)') <= MAX_UNAUTH_PER_IP
      BY DEF SlotLimit
    <3>1. CASE a = addr[c]
      <4>1. UsedBy(a)' = UsedBy(a) \cup {conn_idx}
        BY <3>1, <2>1, <2>2, NoneAssumption DEF UsedBy, Used
      <4>2. Cardinality(UsedBy(a)') = Cardinality(UsedBy(a)) + 1
        <5>1. conn_idx \notin UsedBy(a)
          BY <2>1 DEF UsedBy
        <5>2. Cardinality(UsedBy(a) \cup {conn_idx}) = Cardinality(UsedBy(a)) + 1
          BY <5>1, UsedFinite, FS_AddElement
        <5> QED BY <4>1, <5>2
      <4>3. Cardinality(UsedBy(a)') \in Nat
        BY <4>1, UsedFinite, FS_AddElement, FS_CardinalityType
      <4>4. Cardinality(UsedBy(a)) < MAX_UNAUTH_PER_IP
        BY <3>1, <1>5, UsedFinite, LimitAssumption DEF Refused
      <4> QED BY <4>2, <4>3, <4>4, UsedFinite, LimitAssumption
    <3>2. CASE a # addr[c]
      <4>1. UsedBy(a)' = UsedBy(a)
        BY <3>2, <2>1, <2>2, NoneAssumption DEF UsedBy, Used
      <4> QED BY <4>1 DEF SlotInv, SlotLimit
    <3> QED BY <3>1, <3>2
  <2> QED BY <2>3, <2>4
<1>6. backlog[l] # <<>> => Head(backlog[l]) \in Conn
  BY DEF SlotInv, TypeOK
<1> QED BY <1>2, <1>3, <1>4, <1>5, <1>6 DEF Accept

\* The inductive invariant holds for ever.
THEOREM Invariance == Spec => []SlotInv
<1>1. Init => SlotInv
  <2> SUFFICES ASSUME Init PROVE SlotInv
    OBVIOUS
  <2>1. Accounted /\ FdsAtEnd
    BY DEF Init, Accounted, Unauth, FdsAtEnd
  <2>2. SlotLimit
    <3>1. \A a \in Addr : UsedBy(a) = {}
      BY DEF Init, UsedBy, Used
    <3> QED BY <3>1, FS_EmptySet, LimitAssumption DEF SlotLimit
  <2> QED BY <2>1, <2>2, InitTypeOK DEF SlotInv
<1>2. SlotInv /\ [Next]_vars => SlotInv'
  <2> SUFFICES ASSUME SlotInv, [Next]_vars PROVE SlotInv'
    OBVIOUS
  <2>1. TypeOK'
    BY NextTypeOK DEF SlotInv
  <2>2. CASE UNCHANGED vars
    BY <2>1, <2>2 DEF SlotInv, Accounted, Unauth, FdsAtEnd, AtEOF, SlotLimit, UsedBy, Used,
                      vars, sessionVars, slotVars, loopVars
  <2> QED BY <2>1, <2>2, SessionInv, IdleInv, FreeInv, AcceptInv DEF Next, Listener, SlotInv
<1> QED BY <1>1, <1>2, PTL DEF Spec

\* Every unauthenticated session process holds a slot with its own address.
THEOREM SessionsAccounted == Spec => []Accounted
<1>1. SlotInv => Accounted
  BY DEF SlotInv
<1> QED BY <1>1, Invariance, PTL

\* There are never more unauthenticated session processes than
\* MAX_UNAUTH_CLIENTS: they take different slots.
THEOREM TotalLimited == Spec => []TotalLimit
<1>1. SlotInv => TotalLimit
  <2> SUFFICES ASSUME SlotInv PROVE TotalLimit
    OBVIOUS
  <2> DEFINE f == [c \in Unauth |-> CHOOSE j \in Slot : childpipes[j] = c]
  <2>1. \A c \in Unauth : f[c] \in Slot /\ childpipes[f[c]] = c
    BY DEF SlotInv, Accounted
  <2>2. f \in Injection(Unauth, Slot)
    BY <2>1 DEF Injection, IsInjective
  <2>3. Cardinality(Unauth) <= Cardinality(Slot)
    BY <2>2, SlotsFinite, FS_Injection
  <2> QED BY <2>3, SlotsFinite DEF TotalLimit
<1> QED BY <1>1, Invariance, PTL

\* One address never has more unauthenticated session processes than
\* MAX_UNAUTH_PER_IP: they take different slots that carry the address.
THEOREM AddressLimited == Spec => []AddressLimit
<1>1. SlotInv => AddressLimit
  <2> SUFFICES ASSUME SlotInv, NEW a \in Addr
               PROVE  Cardinality({c \in Unauth : addr[c] = a}) <= MAX_UNAUTH_PER_IP
    BY DEF AddressLimit
  <2> DEFINE S == {c \in Unauth : addr[c] = a}
             f == [c \in S |-> CHOOSE j \in UsedBy(a) : childpipes[j] = c]
  <2>1. \A c \in S : f[c] \in UsedBy(a) /\ childpipes[f[c]] = c
    <3> SUFFICES ASSUME NEW c \in S PROVE \E j \in UsedBy(a) : childpipes[j] = c
      OBVIOUS
    <3> QED BY NoneAssumption DEF SlotInv, Accounted, Unauth, UsedBy, Used
  <2>2. f \in Injection(S, UsedBy(a))
    <3>1. f = [c \in S |-> f[c]]
      OBVIOUS
    <3> HIDE DEF S, f
    <3>2. f \in [S -> UsedBy(a)]
      BY <2>1, <3>1
    <3> QED BY <2>1, <3>2 DEF Injection, IsInjective
  <2> HIDE DEF S, f
  <2>3. IsFiniteSet(S) /\ Cardinality(S) <= Cardinality(UsedBy(a))
    BY <2>2, UsedFinite, FS_Injection
  <2>4. Cardinality(S) \in Nat
    BY <2>3, FS_CardinalityType
  <2>5. Cardinality(S) <= MAX_UNAUTH_PER_IP
    BY <2>3, <2>4, UsedFinite, LimitAssumption DEF SlotInv, SlotLimit
  <2> QED BY <2>5 DEF S
<1> QED BY <1>1, Invariance, PTL
=============================================================================
