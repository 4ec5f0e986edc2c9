---------------------- MODULE SimpleSSHDServiceProofs ----------------------
(***************************************************************************)
(* Proofs about SimpleSSHDService, and its history RestartThrottle, for     *)
(* every set of process ids and every number of waiter threads.            *)
(***************************************************************************)
EXTENDS RestartThrottle, SequenceTheorems, TLAPS

-----------------------------------------------------------------------------
(* Type correctness. *)

\* The main thread and the waiters are threads.
LEMMA Threads == Main \in Thread /\ Waiter \subseteq Thread
  BY DEF Thread

\* The clock only shows times within its bound.
LEMMA TimeType ==
  /\ KernelOK => clock \in Nat
  /\ KernelOK /\ CurrentTimeMillis => clock' \in 1 .. MaxClock /\ clock' \in Nat
  BY BoundAssumption DEF KernelOK, CurrentTimeMillis

\* Every initial state of the service is well typed.
LEMMA InitTypeOK == Init => TypeOK
<1> SUFFICES ASSUME Init PROVE TypeOK
  OBVIOUS
<1>1. KernelOK
  BY BoundAssumption DEF Init, KernelOK, ProcState
<1>2. StaticOK
  BY DEF Init, StaticOK, PidOrNone
<1>3. ThreadOK
  BY DEF Init, ThreadOK, PC, PidOrNone
<1>4. CallbackOK
  BY Threads DEF Init, CallbackOK
<1>5. FlagOK
  BY DEF Init, FlagOK
<1> QED BY <1>1, <1>2, <1>3, <1>4, <1>5 DEF TypeOK

\* A step of a listener process keeps the state well typed.
LEMMA ListenerTypeOK ==
  ASSUME TypeOK, NEW p \in Pid, Listener(p)
  PROVE  TypeOK'
<1>1. KernelOK'
  BY DEF TypeOK, KernelOK, Listener, Bind, WritePidfile, Terminated, Dies, Killed, Exit, ProcState
<1>2. UNCHANGED <<staticVars, threadVars, androidVars>>
  BY DEF Listener, Bind, WritePidfile, Terminated, Dies, Killed
<1> QED BY <1>1, <1>2 DEF TypeOK, StaticOK, ThreadOK, CallbackOK, FlagOK, staticVars, threadVars, androidVars

\* A step of a thread inside stop_sshd(), do_start() or maybe_restart() keeps
\* the state well typed.
LEMMA ThreadTypeOK ==
  ASSUME TypeOK, NEW t \in Thread, ThreadStep(t)
  PROVE  TypeOK'
<1> USE Threads
<1>t. KernelOK /\ StaticOK /\ ThreadOK /\ CallbackOK /\ FlagOK
  BY DEF TypeOK
<1>1. CASE Take(t)
  <2>1. KernelOK'
    BY <1>1, <1>t DEF KernelOK, Take, kernelVars
  <2>2. StaticOK'
    BY <1>1, <1>t DEF StaticOK, Take, PidOrNone
  <2>3. ThreadOK'
    BY <1>1, <1>t DEF ThreadOK, StaticOK, Take, PC, PidOrNone
  <2>4. CallbackOK'
    BY <1>1, <1>t DEF CallbackOK, ThreadOK, Take, androidVars
  <2>5. FlagOK'
    BY <1>1, <1>t DEF FlagOK, Take, androidVars
  <2> QED BY <2>1, <2>2, <2>3, <2>4, <2>5 DEF TypeOK
<1>2. CASE Kill(t)
  <2>1. KernelOK'
    BY <1>2, <1>t DEF KernelOK, Kill, SigKill
  <2>2. StaticOK'
    BY <1>2, <1>t DEF StaticOK, Kill
  <2>3. ThreadOK'
    <3>1. CASE Finish(t)
      BY <3>1, <1>t DEF ThreadOK, Finish, PC, PidOrNone
    <3>2. CASE pc' = [pc EXCEPT ![t] = "fork"]
      BY <3>2, <1>2, <1>t DEF ThreadOK, Kill, Finish, PC, PidOrNone
    <3> QED BY <3>1, <3>2, <1>2 DEF Kill
  <2>4. CallbackOK'
    <3>1. inbox' \in Seq(Callback) /\ lastCmd' \in {"none", "start", "stop"}
      BY <1>2, <1>t DEF CallbackOK, Kill, StopService, StopSelf, Callback, androidVars
    <3>2. op' \in Callback \cup {"none"} /\ (op' = "none" <=> pc'[Main] = "idle")
      BY <1>2, <1>t DEF CallbackOK, ThreadOK, Kill, Finish
    <3> QED BY <3>1, <3>2 DEF CallbackOK
  <2>5. FlagOK'
    BY <1>2, <1>t DEF FlagOK, Kill, StopService, StopSelf, androidVars
  <2> QED BY <2>1, <2>2, <2>3, <2>4, <2>5 DEF TypeOK
<1>3. CASE Fork(t)
  <2>t. clock' \in 1 .. MaxClock /\ clock' \in Nat
    BY <1>3, <1>t, TimeType DEF Fork
  <2>1. KernelOK'
    BY <1>3, <1>t, <2>t DEF KernelOK, Fork, ProcState
  <2>2. StaticOK'
    BY <1>3, <1>t DEF StaticOK, Fork, staticVars
  <2>3. ThreadOK'
    BY <1>3, <1>t, <2>t DEF ThreadOK, Fork, PC, PidOrNone, ForkFailed
  <2>4. CallbackOK'
    BY <1>3, <1>t DEF CallbackOK, ThreadOK, Fork, androidVars
  <2>5. FlagOK'
    BY <1>3, <1>t DEF FlagOK, Fork, staticVars, androidVars
  <2> QED BY <2>1, <2>2, <2>3, <2>4, <2>5 DEF TypeOK
<1>4. CASE Record(t)
  <2>1. KernelOK'
    BY <1>4, <1>t DEF KernelOK, Record, ReplaceSshd, SigKill
  <2>2. StaticOK'
    BY <1>4, <1>t DEF StaticOK, ThreadOK, Record, ReplaceSshd, Duration
  <2>3. ThreadOK'
    BY <1>4, <1>t DEF ThreadOK, Record, PC, PidOrNone, SpawnWaiter
  <2>4. CallbackOK'
    BY <1>4, <1>t, ThreadAssumption DEF CallbackOK, ThreadOK, Record, SpawnWaiter, DoForeground
  <2>5. FlagOK'
    BY <1>4, <1>t, ForegroundAssumption DEF FlagOK, Record, DoForeground
  <2> QED BY <2>1, <2>2, <2>3, <2>4, <2>5 DEF TypeOK
<1>5. CASE StartFailed(t)
  <2>1. KernelOK'
    BY <1>5, <1>t DEF KernelOK, StartFailed, kernelVars
  <2>2. StaticOK'
    BY <1>5, <1>t DEF StaticOK, StartFailed
  <2>3. ThreadOK'
    BY <1>5, <1>t DEF ThreadOK, StartFailed, PC, PidOrNone, Finish
  <2>4. CallbackOK'
    BY <1>5, <1>t DEF CallbackOK, ThreadOK, StartFailed, Finish, DoForeground
  <2>5. FlagOK'
    BY <1>5, <1>t, ForegroundAssumption DEF FlagOK, StartFailed, DoForeground
  <2> QED BY <2>1, <2>2, <2>3, <2>4, <2>5 DEF TypeOK
<1>6. CASE Reap(t)
  <2>t. clock' \in 1 .. MaxClock /\ clock' \in Nat
    BY <1>6, <1>t, TimeType DEF Reap
  <2>1. KernelOK'
    BY <1>6, <1>t, <2>t DEF KernelOK, Reap, ProcState
  <2>2. StaticOK'
    BY <1>6, <1>t DEF StaticOK, Reap, staticVars
  <2>3. ThreadOK'
    BY <1>6, <1>t, <2>t DEF ThreadOK, Reap, PC
  <2>4. CallbackOK'
    BY <1>6, <1>t DEF CallbackOK, ThreadOK, Reap, androidVars
  <2>5. FlagOK'
    BY <1>6, <1>t DEF FlagOK, Reap, staticVars, androidVars
  <2> QED BY <2>1, <2>2, <2>3, <2>4, <2>5 DEF TypeOK
<1>7. CASE MaybeRestart(t)
  <2>1. KernelOK'
    BY <1>7, <1>t DEF KernelOK, MaybeRestart, kernelVars
  <2>2. StaticOK'
    BY <1>7, <1>t DEF StaticOK, MaybeRestart, PidOrNone
  <2>3. ThreadOK'
    BY <1>7, <1>t DEF ThreadOK, MaybeRestart, PC, PidOrNone, Finish
  <2>4. CallbackOK'
    BY <1>7, <1>t DEF CallbackOK, ThreadOK, MaybeRestart, Finish, androidVars
  <2>5. FlagOK'
    BY <1>7, <1>t DEF FlagOK, MaybeRestart, androidVars
  <2> QED BY <2>1, <2>2, <2>3, <2>4, <2>5 DEF TypeOK
<1> QED BY <1>1, <1>2, <1>3, <1>4, <1>5, <1>6, <1>7 DEF ThreadStep

\* A step of a service callback on the main thread keeps the state well typed.
LEMMA CallbacksTypeOK == TypeOK /\ Callbacks => TypeOK'
<1> SUFFICES ASSUME TypeOK, Callbacks PROVE TypeOK'
  OBVIOUS
<1> USE Threads
<1>t. KernelOK /\ StaticOK /\ ThreadOK /\ CallbackOK /\ FlagOK
  BY DEF TypeOK
<1>1. CASE Dispatch
  <2>1. KernelOK' /\ StaticOK' /\ FlagOK'
    BY <1>1, <1>t DEF KernelOK, StaticOK, FlagOK, Dispatch, kernelVars, staticVars
  <2>2. ThreadOK'
    BY <1>1, <1>t DEF ThreadOK, Dispatch, PC
  <2>3. CallbackOK'
    BY <1>1, <1>t DEF CallbackOK, ThreadOK, Dispatch, Callback
  <2> QED BY <2>1, <2>2, <2>3 DEF TypeOK
<1>2. CASE ReadPidfile
  <2>1. KernelOK' /\ StaticOK' /\ FlagOK'
    BY <1>2, <1>t DEF KernelOK, StaticOK, FlagOK, ReadPidfile, kernelVars, staticVars, androidVars
  <2>2. ThreadOK'
    BY <1>2, <1>t DEF ThreadOK, KernelOK, ReadPidfile, PC, PidOrNone
  <2>3. CallbackOK'
    BY <1>2, <1>t DEF CallbackOK, ThreadOK, ReadPidfile, androidVars
  <2> QED BY <2>1, <2>2, <2>3 DEF TypeOK
<1>3. CASE Adopt
  <2>t. UNCHANGED clock \/ CurrentTimeMillis
    BY <1>3 DEF Adopt
  <2>u. clock' \in 1 .. MaxClock /\ clock' \in Nat
    BY <1>t, <2>t, TimeType DEF KernelOK
  <2>1. KernelOK'
    BY <1>3, <1>t, <2>u DEF KernelOK, Adopt, ReplaceSshd, SigKill
  <2>2. StaticOK'
    BY <1>3, <1>t, <2>u DEF StaticOK, ThreadOK, Adopt, ReplaceSshd
  <2>3. ThreadOK'
    BY <1>3, <1>t DEF ThreadOK, Adopt, PC, PidOrNone
  <2>4. CallbackOK' /\ FlagOK'
    BY <1>3, <1>t DEF CallbackOK, FlagOK, ThreadOK, Adopt, androidVars
  <2> QED BY <2>1, <2>2, <2>3, <2>4 DEF TypeOK
<1> QED BY <1>1, <1>2, <1>3 DEF Callbacks

\* Requests of the user and the death of the app process keep the state well typed.
LEMMA EnvironmentTypeOK == TypeOK /\ (Clicked \/ Boot \/ AppKilled) => TypeOK'
<1> SUFFICES ASSUME TypeOK, Clicked \/ Boot \/ AppKilled PROVE TypeOK'
  OBVIOUS
<1> USE Threads
<1>t. KernelOK /\ StaticOK /\ ThreadOK /\ CallbackOK /\ FlagOK
  BY DEF TypeOK
<1>1. CASE Clicked \/ Boot
  <2>1. KernelOK' /\ StaticOK' /\ ThreadOK'
    BY <1>1, <1>t DEF KernelOK, StaticOK, ThreadOK, Clicked, Boot, kernelVars, staticVars, threadVars
  <2>2. PICK cmd \in {"start", "stop"} : StartService(cmd)
    BY <1>1 DEF Clicked, Boot
  <2>c. cmd \in Callback /\ <<"create", cmd>> \in Seq(Callback)
    BY <2>2 DEF Callback
  <2>s. inbox \o <<"create", cmd>> \in Seq(Callback) /\ Append(inbox, cmd) \in Seq(Callback)
    BY <2>c, <1>t DEF CallbackOK
  <2>i. inbox' \in {Append(inbox, cmd), inbox \o <<"create", cmd>>}
    BY <2>2 DEF StartService
  <2>3. CallbackOK'
    <3>1. inbox' \in Seq(Callback)
      BY <2>s, <2>i
    <3>2. UNCHANGED <<op, pc, lastCmd>>
      BY <1>1, <2>2 DEF Clicked, Boot, StartService, threadVars
    <3> QED BY <3>1, <3>2, <1>t DEF CallbackOK
  <2>4. FlagOK'
    BY <1>1, <2>2, <1>t DEF FlagOK, Clicked, Boot, StartService, staticVars
  <2> QED BY <2>1, <2>3, <2>4 DEF TypeOK
<1>2. CASE AppKilled
  <2>1. KernelOK'
    BY <1>2, <1>t DEF KernelOK, AppKilled, ProcState
  <2>2. StaticOK'
    BY <1>2 DEF StaticOK, AppKilled, PidOrNone
  <2>3. ThreadOK'
    BY <1>2 DEF ThreadOK, AppKilled, PC, PidOrNone
  <2>4. CallbackOK'
    <3>1. <<"create", "start">> \in Seq(Callback) /\ <<>> \in Seq(Callback)
      BY DEF Callback
    <3>2. inbox' \in {<<"create", "start">>, <<>>}
      BY <1>2 DEF AppKilled
    <3>3. inbox' \in Seq(Callback)
      BY <3>1, <3>2
    <3>4. op' = "none" /\ pc'[Main] = "idle" /\ lastCmd' = "none"
      BY <1>2 DEF AppKilled
    <3> QED BY <3>3, <3>4 DEF CallbackOK
  <2>5. FlagOK'
    BY <1>2, <1>t DEF FlagOK, AppKilled
  <2> QED BY <2>1, <2>2, <2>3, <2>4, <2>5 DEF TypeOK
<1> QED BY <1>1, <1>2

\* Every step keeps the state well typed.
LEMMA NextTypeOK == TypeOK /\ [Next]_vars => TypeOK'
<1> SUFFICES ASSUME TypeOK, [Next]_vars PROVE TypeOK'
  OBVIOUS
<1>1. CASE UNCHANGED vars
  BY <1>1 DEF vars, kernelVars, staticVars, threadVars, androidVars,
              TypeOK, KernelOK, StaticOK, ThreadOK, CallbackOK, FlagOK
<1>2. CASE Next
  BY <1>2, ListenerTypeOK, ThreadTypeOK, CallbacksTypeOK, EnvironmentTypeOK DEF Next
<1> QED BY <1>1, <1>2

\* The service's fields, the threads' locals and the queued callbacks keep their
\* types, and the main thread is busy exactly while it runs a callback.
THEOREM TypeCorrect == Spec => []TypeOK
<1>1. Init => TypeOK
  BY InitTypeOK
<1>2. TypeOK /\ [Next]_vars => TypeOK'
  BY NextTypeOK
<1> QED BY <1>1, <1>2, PTL DEF Spec

-----------------------------------------------------------------------------
(* The inductive invariant. *)

\* Nothing runs and nothing is queued initially.
LEMMA InitServiceInv == Init => ServiceInv
<1> SUFFICES ASSUME Init PROVE ServiceInv
  OBVIOUS
<1>1. Tracked /\ Waited
  BY DEF Init, Tracked, Waited, Live, Child, Running
<1>2. OrphanLive /\ SignalledLive /\ OwnChild /\ CheckDead /\ OnePort /\ PidfileNamesServer
  BY DEF Init, OrphanLive, SignalledLive, OwnChild, CheckDead, OnePort, PidfileNamesServer, HasPort
<1> QED BY <1>1, <1>2, InitTypeOK DEF ServiceInv

\* Exit(p) leaves p dead, no longer signalled and no longer an orphan, and
\* changes nothing else.
LEMMA ExitFacts ==
  ASSUME KernelOK, NEW p \in Pid, Exit(p)
  PROVE  /\ proc'[p] \in {"free", "zombie"}
         /\ p \in orphan => proc'[p] = "free"
         /\ \A q \in Pid : q # p => proc'[q] = proc[q]
         /\ signalled' = signalled \ {p}
         /\ orphan' = orphan \ {p}
  BY DEF KernelOK, Exit

\* A listener step that ends in Exit(p) preserves the safety parts.
LEMMA ExitInv ==
  ASSUME ServiceInv, NEW p \in Pid, Live(p), Exit(p),
         UNCHANGED <<staticVars, threadVars, androidVars>>,
         pidfile' = pidfile \/ (pidfile' = 0 /\ proc[p] \in HasPort)
  PROVE  /\ Tracked' /\ Waited' /\ OrphanLive' /\ SignalledLive' /\ OwnChild' /\ CheckDead'
         /\ OnePort' /\ PidfileNamesServer'
<1>t. KernelOK /\ ThreadOK
  BY DEF ServiceInv, TypeOK
<1>e. /\ proc'[p] \in {"free", "zombie"}
      /\ p \in orphan => proc'[p] = "free"
      /\ \A q \in Pid : q # p => proc'[q] = proc[q]
      /\ signalled' = signalled \ {p}
      /\ orphan' = orphan \ {p}
  BY <1>t, ExitFacts
<1>u. UNCHANGED <<sshd_pid, pc, lpid, took>>
  BY DEF staticVars, threadVars
<1>1. Tracked'
  BY <1>e, <1>u DEF ServiceInv, Tracked, Live, Running, Held
<1>2. Waited'
  BY <1>e, <1>u DEF ServiceInv, Waited, Live, Running, Child
<1>3. OrphanLive'
  BY <1>e, <1>t DEF ServiceInv, OrphanLive, Live, KernelOK
<1>s. SignalledLive'
  BY <1>e, <1>t DEF ServiceInv, SignalledLive, Live, KernelOK
<1>4. OwnChild'
  BY <1>e, <1>u DEF ServiceInv, OwnChild
<1>5. CheckDead'
  BY <1>e, <1>u DEF ServiceInv, CheckDead, Live, Running
<1>6. OnePort'
  BY <1>e DEF ServiceInv, OnePort, HasPort
<1>7. PidfileNamesServer'
  BY <1>e DEF ServiceInv, OnePort, PidfileNamesServer, HasPort
<1> QED BY <1>1, <1>2, <1>3, <1>4, <1>5, <1>6, <1>7, <1>s

\* Every step of a listener preserves the safety parts.
LEMMA ListenerInv ==
  ASSUME ServiceInv, NEW p \in Pid, Listener(p)
  PROVE  /\ Tracked' /\ Waited' /\ OrphanLive' /\ SignalledLive' /\ OwnChild' /\ CheckDead'
         /\ OnePort' /\ PidfileNamesServer'
<1>t. KernelOK /\ ThreadOK
  BY DEF ServiceInv, TypeOK
<1>u. UNCHANGED <<staticVars, threadVars, androidVars>>
  BY DEF Listener, Bind, WritePidfile, Terminated, Dies, Killed
<1>v. UNCHANGED <<sshd_pid, pc, lpid, took>>
  BY <1>u DEF staticVars, threadVars
<1>1. CASE Live(p) /\ Exit(p)
  <2>1. pidfile' = pidfile \/ (pidfile' = 0 /\ proc[p] \in HasPort)
    BY <1>1, <1>t DEF Listener, Bind, WritePidfile, Terminated, Dies, Killed, Exit, KernelOK, HasPort
  <2> QED BY <1>1, <1>u, <2>1, ExitInv
<1>2. CASE Bind(p) /\ ~Exit(p)
  <2>1. /\ proc' = [proc EXCEPT ![p] = "bound"] /\ proc[p] = "init"
        /\ UNCHANGED <<signalled, orphan, pidfile>>
        /\ \A q \in Pid : proc[q] \notin HasPort
    BY <1>2 DEF Bind
  <2>2. Tracked' /\ Waited' /\ OrphanLive' /\ SignalledLive' /\ OwnChild' /\ CheckDead'
    BY <2>1, <1>v, <1>t DEF ServiceInv, KernelOK, Tracked, Waited, OrphanLive, SignalledLive, OwnChild, CheckDead,
                         Live, Running, Child, Held
  <2>3. OnePort' /\ PidfileNamesServer'
    BY <2>1, <1>t DEF KernelOK, OnePort, PidfileNamesServer, HasPort
  <2> QED BY <2>2, <2>3
<1>3. CASE WritePidfile(p)
  <2>1. /\ proc' = [proc EXCEPT ![p] = "serving"] /\ proc[p] = "bound" /\ pidfile' = p
        /\ UNCHANGED <<signalled, orphan>>
    BY <1>3 DEF WritePidfile
  <2>2. Tracked' /\ Waited' /\ OrphanLive' /\ SignalledLive' /\ OwnChild' /\ CheckDead'
    BY <2>1, <1>v, <1>t DEF ServiceInv, KernelOK, Tracked, Waited, OrphanLive, SignalledLive, OwnChild, CheckDead,
                         Live, Running, Child, Held
  <2>3. OnePort' /\ PidfileNamesServer'
    BY <2>1, <1>t DEF ServiceInv, KernelOK, OnePort, PidfileNamesServer, HasPort
  <2> QED BY <2>2, <2>3
<1> QED BY <1>1, <1>2, <1>3 DEF Listener, Bind, Terminated, Dies, Killed, Live, Running, HasPort,
                               ServiceInv, SignalledLive

\* stop_sshd(): kill(k) signals the running process k.
LEMMA SigKillFacts ==
  ASSUME NEW k
  PROVE  /\ SigKill(k) \subseteq Pid
         /\ \A p \in SigKill(k) : Live(p)
         /\ (k \in Pid /\ Live(k)) => k \in SigKill(k)
  BY DEF SigKill

\* Steps of the threads preserve the safety parts.
LEMMA ThreadInv ==
  ASSUME ServiceInv, NEW t \in Thread, ThreadStep(t)
  PROVE  /\ Tracked' /\ Waited' /\ OrphanLive' /\ SignalledLive' /\ OwnChild' /\ CheckDead'
         /\ OnePort' /\ PidfileNamesServer'
<1> USE Threads, PidAssumption
<1>t. KernelOK /\ StaticOK /\ ThreadOK
  BY DEF ServiceInv, TypeOK
<1>1. CASE Take(t)
  <2>1. UNCHANGED <<proc, signalled, orphan, pidfile, lpid>>
    BY <1>1 DEF Take, kernelVars
  <2>2. Tracked'
    BY <1>1, <2>1, <1>t DEF ServiceInv, ThreadOK, Tracked, Take, Live, Held
  <2>3. Waited' /\ OwnChild' /\ CheckDead'
    BY <1>1, <2>1, <1>t DEF ServiceInv, ThreadOK, Waited, OwnChild, CheckDead, Take, Live, Child
  <2>4. OrphanLive' /\ SignalledLive' /\ OnePort' /\ PidfileNamesServer'
    BY <2>1 DEF ServiceInv, OrphanLive, SignalledLive, OnePort, PidfileNamesServer, Live
  <2> QED BY <2>2, <2>3, <2>4
<1>2. CASE Kill(t)
  <2>1. UNCHANGED <<proc, orphan, pidfile, sshd_pid>> /\ pc[t] = "kill"
    BY <1>2 DEF Kill
  <2>2. signalled' = signalled \cup SigKill(took[t])
    BY <1>2 DEF Kill
  <2>3. /\ pc'[t] \in {"idle", "fork"}
        /\ \A u \in Thread : u # t => pc'[u] = pc[u] /\ lpid'[u] = lpid[u] /\ took'[u] = took[u]
    <3>1. CASE Finish(t)
      BY <3>1, <1>t DEF Finish, ThreadOK
    <3>2. CASE pc' = [pc EXCEPT ![t] = "fork"] /\ took' = [took EXCEPT ![t] = 0] /\ UNCHANGED lpid
      BY <3>2, <1>t DEF ThreadOK
    <3> QED BY <3>1, <3>2, <1>2 DEF Kill
  <2>4. Tracked'
    <3>1. (took[t] \in Pid /\ Live(took[t])) => took[t] \in signalled'
      BY <2>2, SigKillFacts
    <3>2. signalled \subseteq signalled'
      BY <2>2
    <3> SUFFICES ASSUME NEW p \in Pid, Live(p), p \notin orphan, p \notin signalled', sshd_pid # p
                 PROVE  \E u \in Thread : p \in Held(u)'
      BY <2>1 DEF Tracked, Live
    <3>3. PICK u \in Thread : p \in Held(u)
      BY <3>2 DEF ServiceInv, Tracked
    <3>4. u # t
      BY <3>1, <3>3, <2>1 DEF Held
    <3>5. Held(u)' = Held(u)
      BY <3>4, <2>3 DEF Held
    <3> QED BY <3>3, <3>5
  <2>5. Waited' /\ OwnChild' /\ CheckDead'
    BY <2>1, <2>3 DEF ServiceInv, Waited, OwnChild, CheckDead, Live, Child
  <2>6. OrphanLive' /\ OnePort' /\ PidfileNamesServer'
    BY <2>1 DEF ServiceInv, OrphanLive, OnePort, PidfileNamesServer, Live
  <2>7. SignalledLive'
    BY <2>1, <2>2, SigKillFacts DEF ServiceInv, SignalledLive, Live
  <2> QED BY <2>4, <2>5, <2>6, <2>7
<1>3. CASE Fork(t)
  <2>1. UNCHANGED <<signalled, orphan, pidfile, sshd_pid, took>> /\ pc[t] = "fork"
    BY <1>3 DEF Fork, staticVars
  <2>2. pc' = [pc EXCEPT ![t] = "record"]
    BY <1>3 DEF Fork
  <2>3. CASE lpid'[t] \in {ForkFailed, 0} /\ UNCHANGED proc
    <3>1. lpid'[t] \notin Pid /\ \A u \in Thread : u # t => lpid'[u] = lpid[u] /\ pc'[u] = pc[u]
      BY <1>3, <2>2, <2>3, <1>t DEF Fork, ForkFailed, ThreadOK
    <3>2. pc'[t] = "record"
      BY <2>2, <1>t DEF ThreadOK
    <3>3. Tracked'
      <4> SUFFICES ASSUME NEW p \in Pid, Live(p), p \notin orphan, p \notin signalled, sshd_pid # p
                   PROVE  \E u \in Thread : p \in Held(u)'
        BY <2>1, <2>3 DEF Tracked, Live
      <4>1. PICK u \in Thread : p \in Held(u)
        BY DEF ServiceInv, Tracked
      <4>2. u # t
        BY <4>1, <2>1 DEF Held
      <4>3. Held(u)' = Held(u)
        BY <4>2, <3>1, <2>1 DEF Held
      <4> QED BY <4>1, <4>3
    <3>w. Waited'
      <4> SUFFICES ASSUME NEW p \in Pid, Child(p)
                   PROVE  \E u \in Thread : lpid'[u] = p /\ pc'[u] \in {"record", "wait"}
        BY <2>1, <2>3 DEF Waited, Child
      <4>1. PICK u \in Thread : lpid[u] = p /\ pc[u] \in {"record", "wait"}
        BY DEF ServiceInv, Waited
      <4> QED BY <4>1, <3>1, <2>1
    <3>4. OwnChild' /\ CheckDead'
      BY <2>1, <2>3, <3>1, <3>2, <1>t DEF ServiceInv, KernelOK, OwnChild, CheckDead, Live
    <3>5. OrphanLive' /\ SignalledLive' /\ OnePort' /\ PidfileNamesServer'
      BY <2>1, <2>3 DEF ServiceInv, OrphanLive, SignalledLive, OnePort, PidfileNamesServer, Live
    <3> QED BY <3>3, <3>w, <3>4, <3>5
  <2>4. ASSUME NEW p \in Pid \ Remembered, proc[p] = "free",
               proc' = [proc EXCEPT ![p] = "init"], lpid' = [lpid EXCEPT ![t] = p]
        PROVE  /\ Tracked' /\ Waited' /\ OrphanLive' /\ SignalledLive' /\ OwnChild' /\ CheckDead'
         /\ OnePort' /\ PidfileNamesServer'
    <3>1. /\ pc'[t] = "record" /\ lpid'[t] = p
          /\ \A u \in Thread : u # t => lpid'[u] = lpid[u] /\ pc'[u] = pc[u]
      BY <2>2, <2>4, <1>t DEF ThreadOK
    <3>2. proc'[p] = "init" /\ \A q \in Pid : q # p => proc'[q] = proc[q]
      BY <2>4, <1>t DEF KernelOK
    <3>3. p \notin orphan /\ p \notin signalled /\ \A u \in Thread : lpid[u] # p
      BY <2>4 DEF ServiceInv, OrphanLive, SignalledLive, Live, Running, Remembered
    <3>h. \A u \in Thread : Held(u) \subseteq Held(u)'
      <4> SUFFICES ASSUME NEW u \in Thread PROVE Held(u) \subseteq Held(u)'
        OBVIOUS
      <4>1. CASE u = t
        BY <4>1, <2>1 DEF Held
      <4>2. CASE u # t
        BY <4>2, <2>1, <3>1 DEF Held
      <4> QED BY <4>1, <4>2
    <3>t. Tracked'
      <4> SUFFICES ASSUME NEW q \in Pid, Live(q)', q \notin orphan, q \notin signalled, sshd_pid # q
                   PROVE  \E u \in Thread : q \in Held(u)'
        BY <2>1 DEF Tracked
      <4>1. CASE q = p
        BY <4>1, <3>1 DEF Held
      <4>2. CASE q # p
        BY <4>2, <3>2, <3>h DEF ServiceInv, Tracked, Live
      <4> QED BY <4>1, <4>2
    <3>w. Waited'
      <4> SUFFICES ASSUME NEW q \in Pid, Child(q)'
                   PROVE  \E u \in Thread : lpid'[u] = q /\ pc'[u] \in {"record", "wait"}
        BY DEF Waited
      <4>1. CASE q = p
        BY <4>1, <3>1
      <4>2. CASE q # p
        <5>1. PICK u \in Thread : lpid[u] = q /\ pc[u] \in {"record", "wait"}
          BY <4>2, <3>2, <2>1 DEF ServiceInv, Waited, Child
        <5> QED BY <5>1, <2>1, <3>1
      <4> QED BY <4>1, <4>2
    <3>5. OwnChild' /\ CheckDead'
      BY <2>1, <3>1, <3>2, <3>3 DEF ServiceInv, OwnChild, CheckDead, Live
    <3>6. OrphanLive' /\ SignalledLive'
      BY <2>1, <3>2, <3>3, <1>t DEF ServiceInv, KernelOK, OrphanLive, SignalledLive, Live, Running
    <3>7. OnePort' /\ PidfileNamesServer'
      BY <2>1, <3>2 DEF ServiceInv, OnePort, PidfileNamesServer, HasPort
    <3> QED BY <3>t, <3>w, <3>5, <3>6, <3>7
  <2> QED BY <1>3, <2>3, <2>4, <1>t DEF Fork, ThreadOK
<1>4. CASE Record(t)
  <2>1. /\ UNCHANGED <<proc, orphan, pidfile>> /\ pc[t] = "record" /\ sshd_pid' = lpid[t]
        /\ signalled' = signalled \cup SigKill(sshd_pid)
    BY <1>4 DEF Record, ReplaceSshd
  <2>2. PICK w \in Waiter : /\ pc[w] = "idle" \/ w = t
                            /\ pc' = [pc EXCEPT ![t] = "idle", ![w] = "wait"]
                            /\ lpid' = [lpid EXCEPT ![t] = 0, ![w] = lpid[t]]
    BY <1>4 DEF Record, SpawnWaiter
  <2>3. /\ pc'[w] = "wait" /\ lpid'[w] = lpid[t] /\ (w # t => pc'[t] = "idle")
        /\ \A u \in Thread : u \notin {t, w} =>
               pc'[u] = pc[u] /\ lpid'[u] = lpid[u] /\ took'[u] = took[u]
    BY <1>4, <2>2, <1>t DEF ThreadOK, Record
  <2>4. Tracked'
    <3>1. (sshd_pid \in Pid /\ Live(sshd_pid)) => sshd_pid \in signalled'
      BY <2>1, SigKillFacts
    <3> SUFFICES ASSUME NEW p \in Pid, Live(p), p \notin orphan, p \notin signalled', lpid[t] # p
                 PROVE  \E u \in Thread : p \in Held(u)'
      BY <2>1 DEF Tracked, Live
    <3>2. PICK u \in Thread : p \in Held(u)
      BY <3>1, <2>1 DEF ServiceInv, Tracked
    <3>3. u # t /\ u # w
      BY <3>2, <2>1, <2>2 DEF Held
    <3>4. Held(u)' = Held(u)
      BY <3>3, <2>3 DEF Held
    <3> QED BY <3>2, <3>4
  <2>5. Waited'
    <3> SUFFICES ASSUME NEW p \in Pid, Child(p)
                 PROVE  \E u \in Thread : lpid'[u] = p /\ pc'[u] \in {"record", "wait"}
      BY <2>1 DEF Waited, Child
    <3>1. PICK u \in Thread : lpid[u] = p /\ pc[u] \in {"record", "wait"}
      BY DEF ServiceInv, Waited
    <3>2. CASE u = t
      BY <3>1, <3>2, <2>3
    <3>3. CASE u # t
      BY <3>1, <3>3, <2>2, <2>3
    <3> QED BY <3>2, <3>3
  <2>6. OwnChild' /\ CheckDead'
    <3> SUFFICES ASSUME NEW u \in Thread
                 PROVE  /\ pc'[u] \in {"record", "wait", "check"} => lpid'[u] \notin orphan
                        /\ (pc'[u] = "check" /\ lpid'[u] \in Pid) => ~Live(lpid'[u])
      BY <2>1 DEF OwnChild, CheckDead, Live
    <3>1. CASE u = w
      BY <3>1, <2>1, <2>3 DEF ServiceInv, OwnChild
    <3>2. CASE u = t /\ u # w
      BY <3>2, <2>3
    <3>3. CASE u \notin {t, w}
      BY <3>3, <2>3 DEF ServiceInv, OwnChild, CheckDead
    <3> QED BY <3>1, <3>2, <3>3
  <2>7. OrphanLive' /\ OnePort' /\ PidfileNamesServer'
    BY <2>1 DEF ServiceInv, OrphanLive, OnePort, PidfileNamesServer, Live
  <2>8. SignalledLive'
    BY <2>1, SigKillFacts DEF ServiceInv, SignalledLive, Live
  <2> QED BY <2>4, <2>5, <2>6, <2>7, <2>8
<1>5. CASE StartFailed(t)
  <2>1. /\ UNCHANGED <<proc, signalled, orphan, pidfile, sshd_pid>>
        /\ pc[t] = "record" /\ lpid[t] = 0
    BY <1>5 DEF StartFailed, kernelVars
  <2>2. /\ pc'[t] = "idle"
        /\ \A u \in Thread : u # t => pc'[u] = pc[u] /\ lpid'[u] = lpid[u] /\ took'[u] = took[u]
    BY <1>5, <1>t DEF StartFailed, Finish, ThreadOK
  <2>3. Tracked' /\ Waited'
    BY <2>1, <2>2 DEF ServiceInv, Tracked, Waited, Live, Child, Held
  <2>4. OwnChild' /\ CheckDead'
    BY <2>1, <2>2 DEF ServiceInv, OwnChild, CheckDead, Live
  <2>5. OrphanLive' /\ SignalledLive' /\ OnePort' /\ PidfileNamesServer'
    BY <2>1 DEF ServiceInv, OrphanLive, SignalledLive, OnePort, PidfileNamesServer, Live
  <2> QED BY <2>3, <2>4, <2>5
<1>6. CASE Reap(t)
  <2>1. /\ UNCHANGED <<signalled, orphan, pidfile, sshd_pid, lpid, took>>
        /\ pc[t] = "wait" /\ pc' = [pc EXCEPT ![t] = "check"]
    BY <1>6 DEF Reap, staticVars
  <2>2. pc'[t] = "check" /\ \A u \in Thread : u # t => pc'[u] = pc[u]
    BY <2>1, <1>t DEF ThreadOK
  <2>3. /\ \A q \in Pid : proc'[q] = proc[q] \/ (proc[q] = "zombie" /\ proc'[q] = "free")
        /\ lpid[t] \in Pid => (proc'[lpid[t]] = "free" \/ lpid[t] \in orphan)
    <3>1. CASE UNCHANGED proc /\ NoChild(lpid[t])
      <4>1. lpid[t] \in Pid => ~Child(lpid[t])
        BY <3>1 DEF NoChild
      <4> QED BY <3>1, <4>1 DEF Child
    <3>2. CASE \E p \in Pid : /\ lpid[t] \in {p, ForkFailed}
                              /\ proc[p] = "zombie"
                              /\ proc' = [proc EXCEPT ![p] = "free"]
      <4>1. PICK p \in Pid : /\ lpid[t] \in {p, ForkFailed}
                             /\ proc[p] = "zombie"
                             /\ proc' = [proc EXCEPT ![p] = "free"]
        BY <3>2
      <4>2. proc'[p] = "free" /\ \A q \in Pid : q # p => proc'[q] = proc[q]
        BY <4>1, <1>t DEF KernelOK
      <4>3. lpid[t] \in Pid => lpid[t] = p
        BY <4>1 DEF ForkFailed
      <4> QED BY <4>1, <4>2, <4>3
    <3> QED BY <1>6, <3>1, <3>2 DEF Reap
  <2>4. Tracked'
    BY <2>1, <2>2, <2>3 DEF ServiceInv, Tracked, Live, Running, Held
  <2>5. Waited'
    BY <2>1, <2>2, <2>3 DEF ServiceInv, Waited, Child
  <2>6. OwnChild' /\ CheckDead'
    BY <2>1, <2>2, <2>3, <1>t DEF ServiceInv, OwnChild, CheckDead, Live, Running
  <2>7. OrphanLive' /\ SignalledLive' /\ OnePort' /\ PidfileNamesServer'
    BY <2>1, <2>3, <1>t DEF ServiceInv, KernelOK, OrphanLive, SignalledLive, OnePort,
                            PidfileNamesServer, HasPort, Live, Running
  <2> QED BY <2>4, <2>5, <2>6, <2>7
<1>7. CASE MaybeRestart(t)
  <2>1. UNCHANGED <<proc, signalled, orphan, pidfile>> /\ pc[t] = "check"
    BY <1>7 DEF MaybeRestart, kernelVars
  <2>2. /\ pc'[t] \in {"idle", "take"}
        /\ \A u \in Thread : u # t => pc'[u] = pc[u] /\ lpid'[u] = lpid[u] /\ took'[u] = took[u]
    BY <1>7, <1>t DEF MaybeRestart, Finish, ThreadOK
  <2>3. sshd_pid' = sshd_pid \/ sshd_pid = lpid[t]
    BY <1>7 DEF MaybeRestart
  <2>4. Tracked'
    BY <2>1, <2>2, <2>3 DEF ServiceInv, Tracked, CheckDead, Live, Held
  <2>5. Waited' /\ OwnChild' /\ CheckDead'
    BY <2>1, <2>2 DEF ServiceInv, Waited, OwnChild, CheckDead, Live, Child
  <2>6. OrphanLive' /\ SignalledLive' /\ OnePort' /\ PidfileNamesServer'
    BY <2>1 DEF ServiceInv, OrphanLive, SignalledLive, OnePort, PidfileNamesServer, Live
  <2> QED BY <2>4, <2>5, <2>6
<1> QED BY <1>1, <1>2, <1>3, <1>4, <1>5, <1>6, <1>7 DEF ThreadStep

\* Steps of a callback on the main thread preserve the safety parts.
LEMMA CallbacksInv ==
  ASSUME ServiceInv, Callbacks
  PROVE  /\ Tracked' /\ Waited' /\ OrphanLive' /\ SignalledLive' /\ OwnChild' /\ CheckDead'
         /\ OnePort' /\ PidfileNamesServer'
<1> USE Threads, PidAssumption
<1>t. KernelOK /\ StaticOK /\ ThreadOK
  BY DEF ServiceInv, TypeOK
<1>1. /\ UNCHANGED <<proc, orphan, pidfile, took>>
      /\ pc[Main] \in {"idle", "readfile", "adopt"}
      /\ pc'[Main] \in {"readfile", "adopt", "take"}
      /\ \A u \in Thread : u # Main => pc'[u] = pc[u] /\ lpid'[u] = lpid[u]
  BY <1>t DEF Callbacks, Dispatch, ReadPidfile, Adopt, kernelVars, ThreadOK
<1>2. \/ UNCHANGED <<sshd_pid, signalled>>
      \/ signalled' = signalled \cup SigKill(sshd_pid)
  BY DEF Callbacks, Dispatch, ReadPidfile, Adopt, ReplaceSshd, kernelVars, staticVars
<1>3. Tracked'
  <2>1. \/ UNCHANGED <<sshd_pid, signalled>>
        \/ /\ signalled \subseteq signalled'
           /\ (sshd_pid \in Pid /\ Live(sshd_pid)) => sshd_pid \in signalled'
    BY <1>2, SigKillFacts
  <2>2. \A u \in Thread : \A p \in Held(u) : p \in Held(u)'
    BY <1>1 DEF Held
  <2> QED BY <1>1, <2>1, <2>2 DEF ServiceInv, Tracked, Live
<1>4. Waited' /\ OwnChild' /\ CheckDead'
  BY <1>1 DEF ServiceInv, Waited, OwnChild, CheckDead, Live, Child
<1>5. OrphanLive' /\ OnePort' /\ PidfileNamesServer'
  BY <1>1 DEF ServiceInv, OrphanLive, OnePort, PidfileNamesServer, Live
<1>6. SignalledLive'
  BY <1>1, <1>2, SigKillFacts DEF ServiceInv, SignalledLive, Live
<1> QED BY <1>3, <1>4, <1>5, <1>6

\* Requests touch neither the processes nor the threads, and the
\* death of the app process turns every running child into an orphan.
LEMMA EnvironmentInv ==
  ASSUME ServiceInv, Clicked \/ Boot \/ AppKilled \/ UNCHANGED vars
  PROVE  /\ Tracked' /\ Waited' /\ OrphanLive' /\ SignalledLive' /\ OwnChild' /\ CheckDead'
         /\ OnePort' /\ PidfileNamesServer'
<1>t. KernelOK
  BY DEF ServiceInv, TypeOK
<1>1. CASE Clicked \/ Boot \/ UNCHANGED vars
  <2>1. UNCHANGED <<proc, signalled, orphan, pidfile, sshd_pid, pc, lpid, took>>
    BY <1>1 DEF Clicked, Boot, vars, kernelVars, staticVars, threadVars
  <2>2. Tracked' /\ Waited' /\ OwnChild' /\ CheckDead'
    BY <2>1 DEF ServiceInv, Tracked, Waited, OwnChild, CheckDead, Live, Child, Held
  <2>3. OrphanLive' /\ SignalledLive' /\ OnePort' /\ PidfileNamesServer'
    BY <2>1 DEF ServiceInv, OrphanLive, SignalledLive, OnePort, PidfileNamesServer, Live
  <2> QED BY <2>2, <2>3
<1>2. CASE AppKilled
  <2>1. /\ UNCHANGED <<signalled, pidfile>>
        /\ orphan' = {p \in Pid : Live(p)}
        /\ \A p \in Pid : proc'[p] = IF proc[p] = "zombie" THEN "free" ELSE proc[p]
        /\ \A u \in Thread : pc'[u] = "idle"
    BY <1>2 DEF AppKilled
  <2>2. \A p \in Pid : Live(p)' <=> Live(p)
    BY <2>1 DEF Live, Running
  <2>3. \A p \in Pid : p \in orphan' \/ proc'[p] = "free"
    BY <2>1, <1>t DEF Live, Running, KernelOK, ProcState
  <2>4. Tracked' /\ Waited'
    BY <2>1, <2>2, <2>3 DEF Tracked, Waited, Child
  <2>5. OwnChild' /\ CheckDead'
    BY <2>1 DEF OwnChild, CheckDead
  <2>6. OrphanLive' /\ SignalledLive'
    BY <2>1, <2>2, <1>t DEF ServiceInv, KernelOK, OrphanLive, SignalledLive
  <2>7. OnePort' /\ PidfileNamesServer'
    BY <2>1 DEF ServiceInv, OnePort, PidfileNamesServer, HasPort
  <2> QED BY <2>4, <2>5, <2>6, <2>7
<1> QED BY <1>1, <1>2

\* The inductive invariant holds for ever.
THEOREM Invariance == Spec => []ServiceInv
<1>1. Init => ServiceInv
  BY InitServiceInv
<1>2. ServiceInv /\ [Next]_vars => ServiceInv'
  <2> SUFFICES ASSUME ServiceInv, [Next]_vars PROVE ServiceInv'
    OBVIOUS
  <2>1. TypeOK'
    BY NextTypeOK DEF ServiceInv
  <2>2. /\ Tracked' /\ Waited' /\ OrphanLive' /\ SignalledLive' /\ OwnChild' /\ CheckDead'
        /\ OnePort' /\ PidfileNamesServer'
    BY ListenerInv, ThreadInv, CallbacksInv, EnvironmentInv DEF Next
  <2> QED BY <2>1, <2>2 DEF ServiceInv
<1> QED BY <1>1, <1>2, PTL DEF Spec

\* No listener is lost: every running, unkilled child of the app is recorded in
\* sshd_pid or in the hands of a thread that will kill or record it.
THEOREM NoListenerLost == Spec => []Tracked
<1>1. ServiceInv => Tracked
  BY DEF ServiceInv
<1> QED BY <1>1, Invariance, PTL

\* Every child has a thread that will collect it with waitpid().
THEOREM EveryChildWaited == Spec => []Waited
<1>1. ServiceInv => Waited
  BY DEF ServiceInv
<1> QED BY <1>1, Invariance, PTL

\* dropbear.pid names the process that serves the port.
THEOREM PidfileCorrect == Spec => []PidfileNamesServer
<1>1. ServiceInv => PidfileNamesServer
  BY DEF ServiceInv
<1> QED BY <1>1, Invariance, PTL

\* A waiter never forgets or replaces a listener that is still running.
THEOREM RestartCorrect == Spec => RestartOnlyTheDead
<1> DEFINE Step == \A t \in Waiter :
          (MaybeRestart(t) /\ sshd_pid' # sshd_pid /\ sshd_pid \in Pid) => ~Live(sshd_pid)
<1>1. ServiceInv /\ [Next]_vars => [Step]_vars
  <2> SUFFICES ASSUME ServiceInv, NEW t \in Waiter,
                      MaybeRestart(t), sshd_pid' # sshd_pid, sshd_pid \in Pid
               PROVE  ~Live(sshd_pid)
    OBVIOUS
  <2> QED BY Threads DEF MaybeRestart, ServiceInv, CheckDead
<1> QED BY <1>1, Invariance, PTL DEF Spec, RestartOnlyTheDead

-----------------------------------------------------------------------------
(* The give-up rule over several restarts. *)

\* A thread that is about to record a listener has read the clock.
ClockRead == \A t \in Thread : pc[t] = "record" => lnow[t] \in Nat \ {0}

\* The statics of the rule are the last two entries of the history.
StaticsAreHistory ==
    /\ restarts \in Seq(Nat \ {0}) /\ Len(restarts) <= 2
    /\ Len(restarts) = 1 => sshd_when = restarts[1]
    /\ Len(restarts) = 2 => sshd_when = restarts[2] /\ sshd_duration = restarts[2] - restarts[1]

ThrottleInv == TypeOK /\ ClockRead /\ StaticsAreHistory

\* A step of the history is a step of the service.
LEMMA ThrottleStep == [ThrottleNext]_throttleVars => [Next]_vars
<1> SUFFICES ASSUME ThrottleNext PROVE Next
  BY DEF throttleVars
<1>1. CASE Restarted
  <2>1. PICK w \in Waiter : Record(w)
    BY <1>1 DEF Restarted
  <2>2. ThreadStep(w) /\ w \in Thread
    BY <2>1, Threads DEF ThreadStep
  <2> QED BY <2>2 DEF Next
<1>2. CASE StartedAfresh
  <2>1. CASE Record(Main)
    <3>1. ThreadStep(Main) /\ Main \in Thread
      BY <2>1, Threads DEF ThreadStep
    <3> QED BY <3>1 DEF Next
  <2>2. CASE Adopt
    BY <2>2 DEF Next, Callbacks
  <2> QED BY <1>2, <2>1, <2>2 DEF StartedAfresh
<1>3. CASE Otherwise
  BY <1>3 DEF Otherwise, Next, ThreadStep, Callbacks
<1> QED BY <1>1, <1>2, <1>3 DEF ThrottleNext

\* Only Fork brings a thread to where it records, and it has just read the clock.
LEMMA ClockReadNext ==
  ASSUME TypeOK, ClockRead, ThrottleNext
  PROVE  ClockRead'
<1> USE Threads
<1>t. KernelOK /\ ThreadOK
  BY DEF TypeOK
<1>1. ASSUME NEW t \in Thread, Fork(t) PROVE ClockRead'
  <2>1. clock' \in Nat \ {0}
    BY <1>1, <1>t, BoundAssumption DEF Fork, CurrentTimeMillis, KernelOK
  <2>2. /\ lnow' = [lnow EXCEPT ![t] = clock']
        /\ pc' = [pc EXCEPT ![t] = "record"]
    BY <1>1 DEF Fork
  <2> QED BY <1>t, <2>1, <2>2 DEF ClockRead, ThreadOK
<1>2. ASSUME NEW t \in Thread, Record(t) PROVE ClockRead'
  <2>1. PICK w \in Waiter : pc' = [pc EXCEPT ![t] = "idle", ![w] = "wait"]
    BY <1>2 DEF Record, SpawnWaiter
  <2>2. lnow' = [lnow EXCEPT ![t] = 0]
    BY <1>2 DEF Record
  <2> QED BY <1>t, <2>1, <2>2 DEF ClockRead, ThreadOK
<1>3. ASSUME NEW t \in Thread, Take(t) \/ StartFailed(t) \/ Reap(t) \/ MaybeRestart(t) \/ Kill(t)
      PROVE  ClockRead'
  <2>1. /\ \A u \in Thread \ {t} : pc'[u] = pc[u] /\ lnow'[u] = lnow[u]
        /\ pc'[t] # "record"
    BY <1>3, <1>t DEF Take, StartFailed, Reap, MaybeRestart, Kill, Finish, ThreadOK
  <2> QED BY <2>1 DEF ClockRead
<1>4. CASE Adopt \/ Dispatch \/ ReadPidfile
  <2>1. /\ \A u \in Thread \ {Main} : pc'[u] = pc[u] /\ lnow'[u] = lnow[u]
        /\ pc'[Main] # "record"
    BY <1>4, <1>t DEF Adopt, Dispatch, ReadPidfile, ThreadOK
  <2> QED BY <2>1 DEF ClockRead
<1>5. CASE Clicked \/ Boot \/ \E p \in Pid : Listener(p)
  BY <1>5 DEF Clicked, Boot, Listener, Bind, WritePidfile, Terminated, Dies, Killed, threadVars, ClockRead
<1>6. CASE Restarted
  BY <1>2, <1>6 DEF Restarted
<1>7. CASE StartedAfresh
  BY <1>2, <1>4, <1>7 DEF StartedAfresh
<1>8. CASE Otherwise
  BY <1>1, <1>3, <1>4, <1>5, <1>8 DEF Otherwise
<1> QED BY <1>6, <1>7, <1>8 DEF ThrottleNext

\* The statics change only where the history does, and in step with it.
LEMMA StaticsNext ==
  ASSUME TypeOK, ClockRead, StaticsAreHistory, ThrottleNext
  PROVE  StaticsAreHistory'
<1> USE Threads
<1>1. CASE Restarted
  <2>1. PICK w \in Waiter :
        /\ Record(w)
        /\ restarts' = IF Len(restarts) = 2
                       THEN <<restarts[2], lnow[w]>>
                       ELSE Append(restarts, lnow[w])
    BY <1>1 DEF Restarted
  <2> DEFINE now == lnow[w]
  <2>2. now \in Nat \ {0} /\ sshd_when' = now
        /\ sshd_duration' = IF sshd_when # 0 THEN now - sshd_when ELSE 0
    BY <2>1 DEF Record, Duration, ClockRead
  <2> HIDE DEF now
  <2>3. restarts \in Seq(Nat \ {0}) /\ Len(restarts) \in 0..2
    <3>1. restarts \in Seq(Nat \ {0}) /\ Len(restarts) <= 2
      BY DEF StaticsAreHistory
    <3>2. Len(restarts) \in Nat
      BY <3>1, LenProperties
    <3>3. \A n \in Nat : n <= 2 => n \in 0..2
      OBVIOUS
    <3> QED BY <3>1, <3>2, <3>3, Zenon
  <2>4. CASE Len(restarts) = 2
    <3>1. restarts[2] \in Nat \ {0} /\ sshd_when = restarts[2]
      <4>1. 2 \in 1..Len(restarts)
        BY <2>4
      <4>2. restarts[2] \in Nat \ {0}
        BY <2>3, <4>1, ElementOfSeq
      <4> QED BY <2>4, <4>2 DEF StaticsAreHistory
    <3>2. restarts' = <<restarts[2], now>>
      BY <2>1, <2>4 DEF now
    <3>3. restarts' \in Seq(Nat \ {0}) /\ Len(restarts') = 2
          /\ restarts'[1] = restarts[2] /\ restarts'[2] = now
      BY <2>2, <3>1, <3>2
    <3> QED BY <2>2, <3>1, <3>3 DEF StaticsAreHistory
  <2>5. CASE Len(restarts) = 1
    <3>1. restarts[1] \in Nat \ {0} /\ sshd_when = restarts[1]
      <4>1. 1 \in 1..Len(restarts)
        BY <2>5
      <4> QED BY <2>3, <2>5, <4>1, ElementOfSeq DEF StaticsAreHistory
    <3>2. restarts' = Append(restarts, now)
      BY <2>1, <2>5 DEF now
    <3>3. restarts' \in Seq(Nat \ {0}) /\ Len(restarts') = 2
          /\ restarts'[1] = restarts[1] /\ restarts'[2] = now
      <4>1. /\ Append(restarts, now) \in Seq(Nat \ {0})
            /\ Len(Append(restarts, now)) = Len(restarts) + 1
            /\ \A i \in 1..Len(restarts) : Append(restarts, now)[i] = restarts[i]
            /\ Append(restarts, now)[Len(restarts) + 1] = now
        BY <2>2, <2>3, AppendProperties
      <4>2. 1 \in 1..Len(restarts) /\ Len(restarts) + 1 = 2
        BY <2>5
      <4>3. Append(restarts, now)[2] = now /\ Append(restarts, now)[1] = restarts[1]
        BY <4>1, <4>2
      <4> QED BY <3>2, <4>1, <4>2, <4>3
    <3> QED BY <2>2, <3>1, <3>3 DEF StaticsAreHistory
  <2>6. CASE Len(restarts) = 0
    <3>1. restarts' = Append(restarts, now)
      BY <2>1, <2>6 DEF now
    <3>2. restarts' \in Seq(Nat \ {0}) /\ Len(restarts') = 1 /\ restarts'[1] = now
      BY <2>2, <2>3, <2>6, <3>1
    <3> QED BY <2>2, <3>2 DEF StaticsAreHistory
  <2> QED BY <2>3, <2>4, <2>5, <2>6
<1>2. CASE StartedAfresh
  BY <1>2 DEF StartedAfresh, StaticsAreHistory
<1>3. CASE Otherwise
  <2>1. UNCHANGED <<sshd_when, sshd_duration>>
    BY <1>3 DEF Otherwise, Take, Kill, Fork, StartFailed, Reap, MaybeRestart, Dispatch, ReadPidfile,
                Clicked, Boot, Listener, Bind, WritePidfile, Terminated, Dies, Killed, staticVars
  <2> QED BY <1>3, <2>1 DEF Otherwise, StaticsAreHistory
<1> QED BY <1>1, <1>2, <1>3 DEF ThrottleNext

\* The history and the statics that maybe_restart() decides on agree for ever.
LEMMA ThrottleInvariance == ThrottleSpec => []ThrottleInv
<1>1. ThrottleInit => ThrottleInv
  <2> SUFFICES ASSUME ThrottleInit PROVE ThrottleInv
    OBVIOUS
  <2>1. TypeOK
    BY InitTypeOK DEF ThrottleInit
  <2>2. ClockRead
    BY DEF ThrottleInit, Init, ClockRead
  <2>3. StaticsAreHistory
    BY DEF ThrottleInit, StaticsAreHistory
  <2> QED BY <2>1, <2>2, <2>3 DEF ThrottleInv
<1>2. ThrottleInv /\ [ThrottleNext]_throttleVars => ThrottleInv'
  <2> SUFFICES ASSUME ThrottleInv, [ThrottleNext]_throttleVars PROVE ThrottleInv'
    OBVIOUS
  <2>1. TypeOK'
    BY ThrottleStep, NextTypeOK DEF ThrottleInv
  <2>2. CASE ThrottleNext
    BY <2>1, <2>2, ClockReadNext, StaticsNext DEF ThrottleInv
  <2>3. CASE UNCHANGED throttleVars
    BY <2>1, <2>3 DEF ThrottleInv, ClockRead, StaticsAreHistory, throttleVars, vars, threadVars, staticVars
  <2> QED BY <2>2, <2>3
<1> QED BY <1>1, <1>2, PTL DEF ThrottleSpec

\* maybe_restart() gives up on a listener that was restarted twice within
\* MIN_DURATION and died within MIN_DURATION of the second restart, whichever
\* threads made the restarts.
THEOREM RestartsGiveUp == ThrottleSpec => GivesUp
<1> DEFINE Step ==
       \A w \in Waiter :
          /\ MaybeRestart(w)
          /\ Len(restarts) = 2
          /\ restarts[1] < restarts[2]
          /\ restarts[2] - restarts[1] < MIN_DURATION
          /\ lnow[w] - restarts[2] < MIN_DURATION
          => pc'[w] = "idle"
<1>1. ThrottleInv /\ [ThrottleNext]_throttleVars => [Step]_throttleVars
  <2> SUFFICES ASSUME ThrottleInv, NEW w \in Waiter, MaybeRestart(w), Len(restarts) = 2,
                      restarts[1] < restarts[2], restarts[2] - restarts[1] < MIN_DURATION,
                      lnow[w] - restarts[2] < MIN_DURATION
               PROVE  pc'[w] = "idle"
    OBVIOUS
  <2>1. /\ restarts[1] \in Nat \ {0} /\ restarts[2] \in Nat \ {0}
        /\ sshd_when = restarts[2] /\ sshd_duration = restarts[2] - restarts[1]
    <3>1. restarts \in Seq(Nat \ {0}) /\ 1 \in 1..Len(restarts) /\ 2 \in 1..Len(restarts)
      BY DEF ThrottleInv, StaticsAreHistory
    <3>2. restarts[1] \in Nat \ {0} /\ restarts[2] \in Nat \ {0}
      BY <3>1, ElementOfSeq
    <3> QED BY <3>2 DEF ThrottleInv, StaticsAreHistory
  <2>2. lnow[w] \in Nat /\ pc \in [Thread -> PC] /\ w \in Thread /\ MIN_DURATION \in Nat
    BY Threads, BoundAssumption DEF ThrottleInv, TypeOK, ThreadOK
  <2>3. ~DoRestart(lnow[w])
    BY <2>1, <2>2 DEF DoRestart
  <2>4. pc' = [pc EXCEPT ![w] = "idle"]
    BY <2>3 DEF MaybeRestart, Finish
  <2> QED BY <2>2, <2>4
<1> QED BY <1>1, ThrottleInvariance, PTL DEF ThrottleSpec, GivesUp
=============================================================================
