------------------------- MODULE SimpleSSHDService -------------------------
(***************************************************************************)
(* The Android service that owns the sshd listener process:                *)
(* SimpleSSHDService.java, the JNI calls it makes (jni/interface.c:        *)
(* start_sshd, kill, waitpid) and the part of dropbear's main_noinetd that *)
(* the service can observe (binding the port, writing dropbear.pid,        *)
(* exiting).                                                               *)
(*                                                                         *)
(* The Java statics are shared by the main thread, which runs the service  *)
(* callbacks, and by one waiter thread per started listener, which blocks  *)
(* in waitpid and may restart it.  A synchronized block is one action; so  *)
(* is every system call; everything between two of them is interleaved.    *)
(***************************************************************************)
EXTENDS Integers, Sequences, FiniteSets

CONSTANTS
    Pid,           \* process ids the kernel can give to a listener
    Main,          \* the main (UI) thread of the app
    Waiter,        \* the anonymous Threads created by do_start
    Foreground,    \* values Prefs.get_foreground() may return
    AppMayDie,     \* whether Android may kill the app process
    MIN_DURATION,  \* SimpleSSHDService.MIN_DURATION, in ticks
    MaxClock,      \* bound: last value of System.currentTimeMillis()
    MaxInbox       \* bound: callbacks queued on the main thread

ASSUME PidAssumption == Pid \subseteq Nat \ {0}
ASSUME ThreadAssumption == Main \notin Waiter
ASSUME ForegroundAssumption == Foreground \subseteq BOOLEAN
ASSUME AppMayDieAssumption == AppMayDie \in BOOLEAN
ASSUME BoundAssumption ==
    /\ MIN_DURATION \in Nat \ {0}
    /\ MaxClock \in Nat \ {0}
    /\ MaxInbox \in Nat

VARIABLES
    clock,         \* what System.currentTimeMillis() returned last
    \* kernel
    proc,          \* state of every process id
    signalled,     \* live processes with a pending SIGKILL
    orphan,        \* live listeners whose parent (the app process) has died
    pidfile,       \* contents of dropbear.pid, 0 when there is none
    \* static fields of SimpleSSHDService
    sshd_pid, sshd_when, sshd_duration, foregrounded,
    \* local state of the threads
    pc, lpid, took, lnow,
    op,            \* the service callback the main thread is executing
    \* ActivityManager
    started,       \* the service record is started
    inbox,         \* service callbacks queued on the main thread
    lastCmd        \* last onStartCommand handled: decides START_STICKY

kernelVars  == <<proc, signalled, orphan, pidfile>>
staticVars  == <<sshd_pid, sshd_when, sshd_duration, foregrounded>>
threadVars  == <<pc, lpid, took, lnow, op>>
androidVars == <<started, inbox, lastCmd>>
vars == <<clock, kernelVars, staticVars, threadVars, androidVars>>

Thread == {Main} \cup Waiter

\* What start_sshd returns when fork() fails (interface.c returns fork's pid).
ForkFailed == -1

PidOrNone == Pid \cup {0, ForkFailed}

ProcState == {"free", "init", "bound", "serving", "zombie"}
Running   == {"init", "bound", "serving"}
HasPort   == {"bound", "serving"}

PC == {"idle", "readfile", "adopt", "take", "kill", "fork", "record", "wait", "check"}

Callback == {"create", "start", "stop", "destroy"}

Live(p) == proc[p] \in Running

\* waitpid can only return a child of this app process.
Child(p) == proc[p] # "free" /\ p \notin orphan

-----------------------------------------------------------------------------
(* The kernel and the dropbear listener process. *)

\* kill(k, SIGKILL): k = -1 addresses every process of this uid.
SigKill(k) ==
    IF k = ForkFailed THEN {p \in Pid : Live(p)} ELSE {p \in Pid : p = k /\ Live(p)}

\* Linux hands out ids in sequence, so an id comes back only after the whole
\* id space has wrapped around: not while a thread still remembers it.
Remembered == {sshd_pid} \cup {lpid[t] : t \in Thread} \cup {took[t] : t \in Thread}

\* The process is gone; its parent sees a zombie, an orphan is reaped by init.
Exit(p) ==
    /\ proc' = [proc EXCEPT ![p] = IF p \in orphan THEN "free" ELSE "zombie"]
    /\ signalled' = signalled \ {p}
    /\ orphan' = orphan \ {p}

\* listensockets(): the port is free, or the listener gives up.
Bind(p) ==
    /\ proc[p] = "init"
    /\ \/ /\ \A q \in Pid : proc[q] \notin HasPort
          /\ proc' = [proc EXCEPT ![p] = "bound"]
          /\ UNCHANGED <<signalled, orphan>>
       \/ /\ \E q \in Pid : proc[q] \in HasPort
          /\ Exit(p)
    /\ UNCHANGED <<clock, pidfile, staticVars, threadVars, androidVars>>

\* Mutant: the pid file is written before the port is bound.
WritePidfileEarly(p) ==
    /\ proc[p] \in {"init", "bound"}
    /\ proc' = [proc EXCEPT ![p] = IF proc[p] = "init" THEN "init" ELSE "serving"]
    /\ pidfile' = IF proc[p] = "init" THEN p ELSE pidfile
    /\ UNCHANGED <<clock, signalled, orphan, staticVars, threadVars, androidVars>>

\* The pid file is written after the port is bound.  A listener whose fopen()
\* fails stays "bound": it serves the port without a pid file of its own.
WritePidfile(p) ==
    /\ proc[p] = "bound"
    /\ proc' = [proc EXCEPT ![p] = "serving"]
    /\ pidfile' = p
    /\ UNCHANGED <<clock, signalled, orphan, staticVars, threadVars, androidVars>>

\* SIGTERM or SIGINT: the only exit that removes the pid file.
Terminated(p) ==
    /\ proc[p] \in HasPort
    /\ pidfile' = 0
    /\ Exit(p)
    /\ UNCHANGED <<clock, staticVars, threadVars, androidVars>>

\* The listener dies without being asked to: a bad option, a lost permission,
\* or Android killing a process it does not manage.
Dies(p) ==
    /\ Live(p)
    /\ Exit(p)
    /\ UNCHANGED <<clock, pidfile, staticVars, threadVars, androidVars>>

\* The pending SIGKILL takes effect.
Killed(p) ==
    /\ p \in signalled
    /\ Exit(p)
    /\ UNCHANGED <<clock, pidfile, staticVars, threadVars, androidVars>>

\* System.currentTimeMillis(): any time may have passed since the last call.
CurrentTimeMillis == clock' \in clock .. MaxClock

-----------------------------------------------------------------------------
(* stop_sshd(), do_start() and maybe_restart(), run by any thread. *)

\* stop_sshd(), synchronized part: take sshd_pid and clear it.
Take(t) ==
    /\ pc[t] = "take"
    /\ took' = [took EXCEPT ![t] = sshd_pid]
    /\ sshd_pid' = 0
    /\ pc' = [pc EXCEPT ![t] = "kill"]
    /\ UNCHANGED <<clock, kernelVars, sshd_when, sshd_duration, foregrounded,
                   lpid, lnow, op, androidVars>>

\* Mutant: the recorded listener is replaced without stop_sshd().
ReplaceNoStop(p) ==
    /\ UNCHANGED signalled
    /\ sshd_pid' = p

\* stop_sshd() and the assignment that follows it under the same lock.
ReplaceSshd(p) ==
    /\ signalled' = signalled \cup SigKill(sshd_pid)
    /\ sshd_pid' = p

\* Mutant: the main thread does not note that its callback has returned.
FinishBusy(t) ==
    /\ pc' = [pc EXCEPT ![t] = "idle"]
    /\ lpid' = [lpid EXCEPT ![t] = 0]
    /\ took' = [took EXCEPT ![t] = 0]
    /\ lnow' = [lnow EXCEPT ![t] = 0]
    /\ op' = op

\* The thread returns to the looper, or ends.
Finish(t) ==
    /\ pc' = [pc EXCEPT ![t] = "idle"]
    /\ lpid' = [lpid EXCEPT ![t] = 0]
    /\ took' = [took EXCEPT ![t] = 0]
    /\ lnow' = [lnow EXCEPT ![t] = 0]
    /\ op' = IF t = Main THEN "none" ELSE op

\* stopSelf(): ActivityManager queues onDestroy once per started record.
StopSelf ==
    /\ started' = FALSE
    /\ inbox' = IF started THEN Append(inbox, "destroy") ELSE inbox

\* stop_service(): onStartCommand stops its own, started record; when onDestroy
\* calls it that record is already gone and only the flag is left.
StopService(current) ==
    /\ foregrounded' = FALSE
    /\ IF current THEN StopSelf ELSE UNCHANGED <<started, inbox>>

\* stop_sshd(), after the lock is released: kill what was taken.  onCreate is
\* then done; onStartCommand("stop") and onDestroy go on with stop_service();
\* do_start goes on to fork.
Kill(t) ==
    /\ pc[t] = "kill"
    /\ signalled' = signalled \cup SigKill(took[t])
    /\ \/ /\ t = Main /\ op = "create"
          /\ Finish(t)
          /\ UNCHANGED <<foregrounded, started, inbox, lastCmd>>
       \/ /\ t = Main /\ op = "stop"
          /\ Finish(t)
          /\ StopService(TRUE)
          /\ lastCmd' = "stop"
       \/ /\ t = Main /\ op = "destroy"
          /\ Finish(t)
          /\ StopService(FALSE)
          /\ UNCHANGED lastCmd
       \/ /\ t = Main => op = "start"
          /\ pc' = [pc EXCEPT ![t] = "fork"]
          /\ took' = [took EXCEPT ![t] = 0]
          /\ UNCHANGED <<lpid, lnow, op, foregrounded, androidVars>>
    /\ UNCHANGED <<clock, proc, orphan, pidfile, sshd_pid, sshd_when, sshd_duration>>

\* Bound: there are finitely many Waiter threads, so the main thread forks only
\* when one is left to wait for the child.
WaiterLeft(t) == t = Main => \E w \in Waiter : pc[w] = "idle"

\* start_sshd(): a new child, -1 when fork fails, 0 when jni_init fails.  The
\* clock is read right after it, before the lock is taken.
Fork(t) ==
    /\ pc[t] = "fork"
    /\ WaiterLeft(t)
    /\ \/ \E p \in Pid \ Remembered :
             /\ proc[p] = "free"
             /\ proc' = [proc EXCEPT ![p] = "init"]
             /\ lpid' = [lpid EXCEPT ![t] = p]
       \/ /\ lpid' = [lpid EXCEPT ![t] = ForkFailed]
          /\ UNCHANGED proc
       \/ /\ lpid' = [lpid EXCEPT ![t] = 0]
          /\ UNCHANGED proc
    /\ CurrentTimeMillis
    /\ lnow' = [lnow EXCEPT ![t] = clock']
    /\ pc' = [pc EXCEPT ![t] = "record"]
    /\ UNCHANGED <<signalled, orphan, pidfile, staticVars, took, op, androidVars>>

\* onStartCommand goes on with do_foreground() and returns START_STICKY.
DoForeground(t) ==
    IF t = Main
    THEN /\ foregrounded' \in Foreground
         /\ lastCmd' = "start"
    ELSE UNCHANGED <<foregrounded, lastCmd>>

\* Mutant: sshd_when is assigned before sshd_duration is computed from it.
DurationSwapped(now) == 0

\* How long the listener that is being replaced had been recorded.
Duration(now) == IF sshd_when # 0 THEN now - sshd_when ELSE 0

\* Mutant: no thread waits for the child.
NoWaiter(t) ==
    /\ pc' = [pc EXCEPT ![t] = "idle"]
    /\ lpid' = [lpid EXCEPT ![t] = 0]

\* The new waiter thread, which may reuse the name of the thread that ends here.
SpawnWaiter(t) ==
    \E w \in Waiter :
        /\ pc[w] = "idle" \/ w = t
        /\ pc' = [pc EXCEPT ![t] = "idle", ![w] = "wait"]
        /\ lpid' = [lpid EXCEPT ![t] = 0, ![w] = lpid[t]]

\* do_start(), synchronized part and the new waiter thread.
Record(t) ==
    /\ pc[t] = "record"
    /\ lpid[t] # 0
    /\ ReplaceSshd(lpid[t])
    /\ sshd_duration' = Duration(lnow[t])
    /\ sshd_when' = lnow[t]
    /\ SpawnWaiter(t)
    /\ took' = [took EXCEPT ![t] = 0]
    /\ lnow' = [lnow EXCEPT ![t] = 0]
    /\ op' = IF t = Main THEN "none" ELSE op
    /\ DoForeground(t)
    /\ UNCHANGED <<clock, proc, orphan, pidfile, started, inbox>>

\* do_start() when start_sshd returned 0.
StartFailed(t) ==
    /\ pc[t] = "record"
    /\ lpid[t] = 0
    /\ Finish(t)
    /\ DoForeground(t)
    /\ UNCHANGED <<clock, kernelVars, sshd_pid, sshd_when, sshd_duration, started, inbox>>

\* Mutant: waitpid() may be interrupted and return with the child still there.
NoChildOrEINTR(k) == TRUE

\* waitpid(k) would fail with ECHILD.
NoChild(k) == \A p \in Pid : k \in {p, ForkFailed} => ~Child(p)

\* waitpid(pid) returns: a zombie was reaped, or there is no such child.
\* waitpid(-1) takes any child.
Reap(t) ==
    /\ pc[t] = "wait"
    /\ \/ \E p \in Pid :
             /\ lpid[t] \in {p, ForkFailed}
             /\ proc[p] = "zombie"
             /\ proc' = [proc EXCEPT ![p] = "free"]
       \/ /\ NoChild(lpid[t])
          /\ UNCHANGED proc
    /\ CurrentTimeMillis
    /\ lnow' = [lnow EXCEPT ![t] = clock']
    /\ pc' = [pc EXCEPT ![t] = "check"]
    /\ UNCHANGED <<signalled, orphan, pidfile, staticVars, lpid, took, op, androidVars>>

\* The give-up rule: two short runs in a row are not followed by a restart.
DoRestart(now) ==
    \/ sshd_duration = 0
    \/ sshd_when = 0
    \/ sshd_duration >= MIN_DURATION
    \/ now - sshd_when >= MIN_DURATION

\* maybe_restart(pid), synchronized part.
MaybeRestart(t) ==
    /\ pc[t] = "check"
    /\ \/ /\ sshd_pid = lpid[t]
          /\ sshd_pid' = 0
          /\ \/ /\ DoRestart(lnow[t])
                /\ pc' = [pc EXCEPT ![t] = "take"]
                /\ lpid' = [lpid EXCEPT ![t] = 0]
                /\ lnow' = [lnow EXCEPT ![t] = 0]
                /\ UNCHANGED <<took, op>>
             \/ /\ ~DoRestart(lnow[t])
                /\ Finish(t)
       \/ /\ sshd_pid # lpid[t]
          /\ Finish(t)
          /\ UNCHANGED sshd_pid
    /\ UNCHANGED <<clock, kernelVars, sshd_when, sshd_duration, foregrounded, androidVars>>

-----------------------------------------------------------------------------
(* Service callbacks, run one after the other by the main thread. *)

\* The next queued callback starts.
Dispatch ==
    /\ pc[Main] = "idle"
    /\ inbox # <<>>
    /\ op' = Head(inbox)
    /\ inbox' = Tail(inbox)
    /\ pc' = [pc EXCEPT ![Main] = IF Head(inbox) = "create" THEN "readfile" ELSE "take"]
    /\ UNCHANGED <<clock, kernelVars, staticVars, lpid, took, lnow, started, lastCmd>>

\* read_pidfile(), reading dropbear.pid.  A listener that is between fopen() and
\* fclose() shows it as an empty file, which does not parse.
ReadPidfile ==
    /\ pc[Main] = "readfile"
    /\ \/ lpid' = [lpid EXCEPT ![Main] = pidfile]
       \/ /\ \E p \in Pid : proc[p] = "bound"
          /\ lpid' = [lpid EXCEPT ![Main] = 0]
    /\ pc' = [pc EXCEPT ![Main] = "adopt"]
    /\ UNCHANGED <<clock, kernelVars, staticVars, took, lnow, op, androidVars>>

\* read_pidfile(), synchronized part; onCreate goes on with stop_sshd().
Adopt ==
    /\ pc[Main] = "adopt"
    /\ IF lpid[Main] # 0
       THEN /\ ReplaceSshd(lpid[Main])
            /\ CurrentTimeMillis
            /\ sshd_when' = clock'
            /\ sshd_duration' = 0
       ELSE UNCHANGED <<clock, signalled, sshd_pid, sshd_when, sshd_duration>>
    /\ lpid' = [lpid EXCEPT ![Main] = 0]
    /\ pc' = [pc EXCEPT ![Main] = "take"]
    /\ UNCHANGED <<proc, orphan, pidfile, foregrounded, took, lnow, op, androidVars>>

-----------------------------------------------------------------------------
(* The user and Android. *)

is_started == sshd_pid # 0

\* startService(): creates the service first unless its record is started.
StartService(cmd) ==
    /\ inbox' = IF started THEN Append(inbox, cmd) ELSE inbox \o <<"create", cmd>>
    /\ started' = TRUE
    /\ UNCHANGED lastCmd

\* startstop_clicked(), a UI callback of the main thread.
Clicked ==
    /\ pc[Main] = "idle"
    /\ Len(inbox) < MaxInbox
    /\ StartService(IF is_started THEN "stop" ELSE "start")
    /\ UNCHANGED <<clock, kernelVars, staticVars, threadVars>>

\* BootReceiver.onReceive(), also run by the main thread.
Boot ==
    /\ pc[Main] = "idle"
    /\ Len(inbox) < MaxInbox
    /\ StartService("start")
    /\ UNCHANGED <<clock, kernelVars, staticVars, threadVars>>

\* Android kills the app process.  Its statics and threads are gone, its
\* children run on; a sticky service may be created and started again.
AppKilled ==
    /\ AppMayDie
    /\ orphan' = {p \in Pid : Live(p)}
    /\ proc' = [p \in Pid |-> IF proc[p] = "zombie" THEN "free" ELSE proc[p]]
    /\ sshd_pid' = 0 /\ sshd_when' = 0 /\ sshd_duration' = 0
    /\ foregrounded' = FALSE
    /\ pc' = [t \in Thread |-> "idle"]
    /\ lpid' = [t \in Thread |-> 0]
    /\ took' = [t \in Thread |-> 0]
    /\ lnow' = [t \in Thread |-> 0]
    /\ op' = "none"
    /\ \/ /\ started /\ lastCmd = "start"
          /\ inbox' = <<"create", "start">>
          /\ UNCHANGED started
       \/ /\ inbox' = <<>>
          /\ started' = FALSE
    /\ lastCmd' = "none"
    /\ UNCHANGED <<clock, signalled, pidfile>>

-----------------------------------------------------------------------------
Init ==
    /\ clock = 1
    /\ proc = [p \in Pid |-> "free"]
    /\ signalled = {}
    /\ orphan = {}
    /\ pidfile = 0
    /\ sshd_pid = 0 /\ sshd_when = 0 /\ sshd_duration = 0
    /\ foregrounded = FALSE
    /\ pc = [t \in Thread |-> "idle"]
    /\ lpid = [t \in Thread |-> 0]
    /\ took = [t \in Thread |-> 0]
    /\ lnow = [t \in Thread |-> 0]
    /\ op = "none"
    /\ started = FALSE
    /\ inbox = <<>>
    /\ lastCmd = "none"

Listener(p) == Bind(p) \/ WritePidfile(p) \/ Terminated(p) \/ Dies(p) \/ Killed(p)

ThreadStep(t) ==
    \/ Take(t) \/ Kill(t) \/ Fork(t) \/ Record(t) \/ StartFailed(t)
    \/ Reap(t) \/ MaybeRestart(t)

Callbacks == Dispatch \/ ReadPidfile \/ Adopt

Next ==
    \/ \E p \in Pid : Listener(p)
    \/ \E t \in Thread : ThreadStep(t)
    \/ Callbacks
    \/ Clicked \/ Boot \/ AppKilled

Spec == Init /\ [][Next]_vars

-----------------------------------------------------------------------------
KernelOK ==
    /\ clock \in 1 .. MaxClock
    /\ proc \in [Pid -> ProcState]
    /\ signalled \subseteq Pid
    /\ orphan \subseteq Pid
    /\ pidfile \in Pid \cup {0}

StaticOK ==
    /\ sshd_pid \in PidOrNone
    /\ sshd_when \in Nat
    /\ sshd_duration \in Int

ThreadOK ==
    /\ pc \in [Thread -> PC]
    /\ lpid \in [Thread -> PidOrNone]
    /\ took \in [Thread -> PidOrNone]
    /\ lnow \in [Thread -> Nat]

CallbackOK ==
    /\ op \in Callback \cup {"none"}
    /\ op = "none" <=> pc[Main] = "idle"
    /\ inbox \in Seq(Callback)
    /\ lastCmd \in {"none", "start", "stop"}

FlagOK == foregrounded \in BOOLEAN /\ started \in BOOLEAN

\* The type invariant: kernel, static fields, thread locals and callbacks; the
\* main thread is busy exactly while it executes a callback.
TypeOK == KernelOK /\ StaticOK /\ ThreadOK /\ CallbackOK /\ FlagOK

\* What a thread holds: a pid it took and will kill, or a child it will record.
Held(t) ==
    IF pc[t] = "kill" THEN {took[t]}
    ELSE IF pc[t] = "record" THEN {lpid[t]}
    ELSE {}

\* No listener is lost: a running child of the app that nobody has killed is the
\* one is_started() reports, or is in the hands of a thread that is about to
\* kill or to record it.  This is why stop_sshd() and do_start() may each touch
\* sshd_pid in separate synchronized blocks.
Tracked ==
    \A p \in Pid :
        (Live(p) /\ p \notin orphan /\ p \notin signalled) =>
            \/ sshd_pid = p
            \/ \E t \in Thread : p \in Held(t)

\* Every child has a thread that will collect it: a waiter in waitpid() for it,
\* or the thread that forked it and has not yet created that waiter.
Waited ==
    \A p \in Pid :
        Child(p) =>
            \E t \in Thread : lpid[t] = p /\ pc[t] \in {"record", "wait"}

\* A running listener that has written dropbear.pid is the one it names, whoever
\* its parent is: no other listener overwrote or removed the file, so read_pidfile()
\* finds the listener after the app process was killed.
PidfileNamesServer == \A p \in Pid : proc[p] = "serving" => pidfile = p

\* maybe_restart() acts only on a listener that is gone: a waiter never forgets,
\* or replaces, one that is still running.
RestartOnlyTheDead ==
    [][\A t \in Waiter :
          (MaybeRestart(t) /\ sshd_pid' # sshd_pid /\ sshd_pid \in Pid) => ~Live(sshd_pid)]_vars

(* Facts that make the invariants above inductive. *)

\* Orphans are running processes.
OrphanLive == \A p \in orphan : Live(p)

\* So are the processes with a pending SIGKILL.
SignalledLive == \A p \in signalled : Live(p)

\* A thread that will record, wait for or check a process is its parent's.
OwnChild == \A t \in Thread : pc[t] \in {"record", "wait", "check"} => lpid[t] \notin orphan

\* The pid in the hands of maybe_restart() is not a running process.
CheckDead == \A t \in Thread : (pc[t] = "check" /\ lpid[t] \in Pid) => ~Live(lpid[t])

\* One process at a time has the port.
OnePort == \A p, q \in Pid : (proc[p] \in HasPort /\ proc[q] \in HasPort) => p = q

ServiceInv ==
    /\ TypeOK /\ Tracked /\ Waited /\ OrphanLive /\ SignalledLive /\ OwnChild /\ CheckDead
    /\ OnePort /\ PidfileNamesServer

\* "a Service that can be started, stopped": once a stop command was carried out
\* and nothing is queued, no listener is left running.  A waiter that decided to
\* restart before the stop breaks it.
StopSticks ==
    (lastCmd = "stop" /\ ~started /\ inbox = <<>> /\ pc[Main] = "idle")
        => ~(sshd_pid \in Pid /\ Live(sshd_pid) /\ sshd_pid \notin signalled)

-----------------------------------------------------------------------------
(* Fairness: the threads, the looper and the kernel keep running. *)

Fairness ==
    /\ WF_vars(ThreadStep(Main) \/ Callbacks)
    /\ \A w \in Waiter : WF_vars(ThreadStep(w))
    /\ \A p \in Pid : WF_vars(Killed(p))

FairSpec == Spec /\ Fairness

\* is_started() does not go on reporting a listener that is gone.
StatusCatchesUp ==
    \A p \in Pid : (sshd_pid = p /\ ~Live(p)) ~> (sshd_pid # p \/ Live(p))

\* A listener that stop_sshd() took, or that died, is killed and collected: no
\* zombie stays, unless the app process itself dies first.
EventuallyReaped ==
    \A p \in Pid :
        (proc[p] = "zombie" \/ (Live(p) /\ \E t \in Thread : pc[t] = "kill" /\ took[t] = p))
            ~> (proc[p] = "free" \/ p \in orphan)
=============================================================================
