# SimpleSSHD: TLA+ models, checks and proofs

SimpleSSHD is an Android app that runs a dropbear SSH server. An Android
`Service` forks the server through JNI, watches it and restarts it; dropbear's
listener process accepts connections and forks a session process for each; a
session exchanges keys, authenticates the user and runs commands on channels; rsync
runs behind a small relay, `buffersu`. This directory models the parts that carry
the program's control logic, checks them with TLC and proves the central invariants
with TLAPS.

## 1. Inventory

| Part | State | Operations | Interacts with |
|---|---|---|---|
| **SimpleSSHDService** (`SimpleSSHDService.java`) | statics `sshd_pid`, `sshd_when`, `sshd_duration`, `foregrounded`; one lock | `onCreate`, `onStartCommand`, `onDestroy`, `stop_sshd`, `do_start`, `maybe_restart`, `read_pidfile`, a waiter thread per listener | JNI (fork, kill, waitpid), dropbear.pid, ActivityManager, the UI |
| **JNI bridge** (`jni/interface.c`) | C statics `conf_*`, `env` | `start_sshd`, `kill`, `waitpid`, `split_cmd` | the service above, `dropbear_main` below |
| **UI and boot receiver** (`SimpleSSHD.java`, `BootReceiver.java`, `UpdaterThread.java`) | current activity, updater thread | start/stop button, start on open, start on boot, log view | the service |
| **Preferences, settings** (`Prefs.java`, `Settings.java`) | SharedPreferences | getters, validation | all of the Java side |
| **dropbear listener** (`svr-main.c`) | `childpipes[]`, `preauth_addrs[]`, listening sockets, `exitflag` | select loop, accept, limits, fork, SIGCHLD/SIGTERM handlers | clients, session processes (a pipe each), dropbear.pid |
| **session: main loop and timers** (`common-session.c`) | time stamps, `writequeue`, `remoteident` | `session_loop`, `read_session_identification`, `checktimeouts`, `select_timeout`, keepalives | everything below |
| **session: packets** (`packet.c`, `process-packet.c`, `queue.c`) | `requirenext`, `ignorenext`, `dataallowed`, reply queue | `process_packet`, `encrypt_packet`, `maybe_flush_reply_queue` | key exchange, authentication, channels |
| **session: key exchange** (`common-kex.c`, `svr-kex.c`) | `kexstate`, `newkeys`, `keys`, `transkexinit`, `kexhashbuf` | KEXINIT, KEXDH_INIT, NEWKEYS in both directions, `switch_keys` | packet layer, timers |
| **session: authentication** (`svr-auth.c`, `svr-authpasswd.c`, `svr-authpubkey.c`, `svr-service.c`) | `authstate` | service and authentication requests, failure limit | packet layer, the listener's pipe |
| **session: channels** (`common-channel.c`, `svr-chansession.c`, `circbuffer.c`) | `struct Channel`, `struct ChanSess`, `childpids[]`, ring buffers | data, windows, EOF, CLOSE, `check_close`, SIGCHLD, exec | client, command, pipes or a pseudo-terminal |
| **buffersu** (`jni/buffersu.c`) | two block lists, `child_dead`, fd sets | select loop, `buf_read`, `buf_write`, SIGCHLD, SIGPIPE | an SSH session on fd 0/1, rsync on two pipes |
| vendored: libtomcrypt, libtommath, rsync, OpenSSH's sftp-server; dropbear's client and tools | | | |

What is hard here:

* *Threads*: the main thread and any number of waiter threads share the service's
  statics. The lock is released between taking a pid and killing it, and between
  deciding to restart and restarting.
* *Crashes*: Android kills the app process and leaves its children running; all
  the next app process knows is `dropbear.pid`.
* *Signals*: the select loops are interrupted at arbitrary points, and a failed
  `select()` leaves the sets as they were asked for.
* *Two parties*: both sides may start a key exchange at any time, with packets of
  the other on their way, and each counts the other's window.
* *Order*: packets, the command's output, its exit, SIGCHLD and the closing of three
  descriptors come in any order.
* *Time*: packets, key exchanges and keepalives move the time stamps from which the
  main loop computes how long it may sleep.
* *Limits*: slots are freed on what `select()` said, while sessions go on
  authenticating and exiting; client and rsync may each stop reading; a full
  write queue stops the reading.
* *Progress*: zombies, slots, backlog, buffered bytes, windows, replies held back.

`PROJECT.json` lists every hazard with its line and the properties that watch it.

## 2. Modules

| Module | Models |
|---|---|
| `SimpleSSHDService` | the service, its threads, the JNI calls, the listener process as the service sees it, ActivityManager |
| `RestartThrottle` | the same with a history of restarts, for the give-up rule |
| `SvrMain` | the listener's select loop, slots and limits |
| `SvrSession` | packet filter, key exchange, reply queue and authentication of a session, with any client |
| `SessionPair` | `SvrSession` composed with a client and the connection between them |
| `SessionTimers` | time stamps, timeouts, keepalives and the sleep of the main loop |
| `Channel` | a session channel, its ring buffer, its command and the kernel's pipes, with a client that keeps to the protocol |
| `ByteStream` | abstract: the sink sees a growing prefix of what the source wrote |
| `BufferSu` | the relay |
| `SeqSum` | the sum of a list, for the length of a buffer and the bytes in a queue |
| `SimpleSSHDServiceProofs`, `SvrMainProofs`, `SvrSessionProofs`, `SessionTimersProofs`, `ChannelProofs`, `BufferSuProofs` | theorems about the module of that name; the first also about `RestartThrottle`, the third also about `SessionPair` |
| `ChannelPeerProofs` | theorems about `Channel` with its client and both queues |
| `SeqLemmas` | lemmas about sequences: joining, sums, flattening |
| `MCService`, `MCThrottle`, `MCSvrMain`, `MCSession`, `MCTimers`, `MCChannel`, `MCBufferSu` | the instances TLC checks |

`ByteStream` is implemented three times: by each direction of `BufferSu`
(`IsStream`) and by the ring buffer of `Channel` (`StdinIsStream`).

Operators marked `Mutant` in the modules are plausible bugs of the definition that
follows them; nothing uses them except mutation runs, in which each property
must fail.

### SimpleSSHDService

One action per synchronized block and per system call; everything in between is
interleaved. `pc[t]` is the place of a thread, `lpid[t]`, `took[t]`, `lnow[t]` its
locals `pid` (of `do_start`, `maybe_restart`, `read_pidfile`), `pid` (of
`stop_sshd`) and `now`.

| Action | Code |
|---|---|
| `Take`, `Kill` | `stop_sshd()`, inside and after the lock; `Kill` goes on with what the caller does next (`onCreate` ends, `stop` and `onDestroy` call `stop_service()`, `do_start` forks) |
| `Fork` | `start_sshd()`: a new child, -1 (fork failed) or 0 (jni_init failed) |
| `Record`, `StartFailed` | the rest of `do_start()`: under the lock, stop what is recorded, record the child, the times; the waiter thread; then `do_foreground()` when it is `onStartCommand` |
| `Reap`, `MaybeRestart` | the waiter thread: `waitpid()`, `maybe_restart()` |
| `Dispatch`, `ReadPidfile`, `Adopt` | the main looper, `read_pidfile()` |
| `Clicked`, `Boot` | requests through `startService()` |
| `AppKilled` | Android kills the app; the listener becomes an orphan, a sticky service is started again |
| `Bind`, `WritePidfile`, `Terminated`, `Dies`, `Killed` | the listener process; a listener whose `fopen()` of the pid file fails stays `"bound"` |

Abstractions: preferences are only the foreground flag (any value); the
notification, logging and `update_startstop()` (which only redraws) are left out.
A process id is reused only when no thread remembers it: Linux hands ids out in
sequence and the space is large. Time passes at the calls of
`System.currentTimeMillis()`, the only places that can tell.

### SvrMain

A pipe is named by its connection. A session process is what the listener can see
of it: it holds the write end of its pipe (`"unauth"`) until it authenticates,
times out or exits. `Select` stores the report in `fds` (pipes) and `socks`
(sockets), `FreeSlots` and one `Accept` per socket act on it later, with sessions
and clients interleaved. `Accept` covers the whole body of the code's loop:
failed `accept()`, refusal by a limit, failed `pipe()` or `fork()`, and the parent's
part. Signals: `Interrupted` (EINTR), `Terminate` (flag set elsewhere).

### SvrSession and SessionPair

A session is one process with one loop, so its C functions are operators that map
the structure `ses` to its next value, under the code's names, and an action is a
round of `session_loop()`: `Receive(p)` reads and processes a packet, `Rekey` is the
round in which `checktimeouts()` starts a key exchange, `ChannelIO` one in which a
channel has data, `Close` one in which the connection is gone. `maybe_flush_reply_queue()`
comes where the loop has it: after the packet, before `channelio()`. `dropbear_exit()`
sets `ses.state`.

A packet is its type and the parts that decide what happens (whether a guess was
right, the user name, whether a credential is good). A set of keys is the number of
the exchange that made it. `sent` and `queue` carry the number in which packets were
made, so that order can be stated. A null pointer is a state of its own, which the
handlers enter where the code would dereference it.

`SvrSession` alone lets any packet come at any time: this is what the first half of
the proofs is about. `SessionPair` adds the connection's two queues, in which a packet carries the
key number it was encrypted with, and the choice between a correct client
(`ClientKexinit`, `ClientKexdh`, `ClientRequest`, `ClientReceive`), which may guess its first packet rightly or
wrongly, and one that sends anything.

### SessionTimers

The code only uses how long ago a time stamp was set, so a time stamp is kept as its
age in seconds, up to `Forever`. `Tick` is a second of `select()`, `Wake` its timeout or
a signal, `Deliver` a packet, `Output` something to send, `ReadIdent` a step of
`read_session_identification()`; each but `Tick` runs the whole round:
`checktimeouts()`, the reply queue, `select_timeout()`. `left` is what is left of the
timeout; when it is used up, time goes on only after the loop has gone round.
`spin` says that the timeout was zero to begin with. Four histories serve the
properties: `asked` is how many keepalives were sent since the peer was last heard,
without those that a key exchange left in the reply queue and without those made in
the call of `checktimeouts()` that then gives up, which are never written; `owed` that a
keepalive went out as a channel request, which only CHANNEL_FAILURE answers;
`quiet` is how long ago there was activity and `chan` how long ago such an answer
came.

### Channel

`s` is the channel with its command and the pipes between them; an operator per C
function again. `Select` is the report of `select()`, `Round` the work on it:
a packet or none, SIGCHLD, `channelio()` with its reads, writes and `check_close()`.
Client, command and kernel move between `Select` and `Round`, so what was reported
may be old. Input bytes are numbered, output is counted. The ring buffer is modelled by position:
a packet goes in in two pieces where it wraps around, and comes out one contiguous
piece at a time, as much as the pipe takes. The command (reads, writes to two pipes or a terminal, closes its
stdin, exits) and the client (data within the window, EOF, CLOSE, window
adjustments) are external. A command may be ended by a signal that the table `signames`
(`common-chansession.c:28`) has no name for, such as SIGBUS: then
`send_msg_chansess_exitsignal()` sends nothing, and the client gets CLOSE without being
told of an exit. `s.unnamed` records it.

### BufferSu

A byte is its position in its stream, a buffer a sequence of blocks. The loop is
split wherever a signal handler makes a difference: `child_dead` is read in
`Prepare`, again in `Prepare0` and in `Write0`. `Sigchld` may run anywhere and turns
a waiting `select()` into a failed one. SIGPIPE is part of the write that raises it.

## 3. Runs

| Run | Question | Bounds |
|---|---|---|
| `service` | Is a listener ever lost, a child not waited for, the pid file wrong, a running listener "restarted"? | 2 pids, main + 2 waiters, 2 queued requests, app may die: two concurrent `do_start()`s, replacement of a live listener, an orphan with a stale pid file, a start between a stop and its `onDestroy` all occur. The clock stands still, so every death is followed by a restart; giving up is in `throttle`, and the proofs cover both |
| `service_live` | Does the status catch up, is every listener collected? | as above with 1 queued request, without app deaths (a dead app has nothing to collect) |
| `throttle` | Do restarts stop? | clock 1..3, `MIN_DURATION` 2: runs shorter than, equal to and longer than the limit |
| `svr_main` | Do the limits hold, are slots given back, connections served? | 3 connections on 2 sockets, spread over 1, 2 or 3 addresses, 2 slots, 1 per address: either limit can be the one that refuses; every system call may fail |
| `session` | Do the two ends agree on keys, is a correct client served, in order, and an incorrect one kept from a null pointer or an unencrypted login? | 3 key exchanges (the first, and one from each side, or two crossing), 2 user names, 2 tries, all guesses, a write queue of 1, 2 requests unanswered, 8 packets made by the server |
| `timers` | Is a deadline slept past, does the loop spin, are sessions given up, or kept open, only as keepalives justify? | AUTH and rekey 5 s, idle 3 s, keepalive 2 s with limit 3 (the code's), ages up to 9: every order of the deadlines occurs |
| `channel` | Are windows, ring buffer, output and end of a channel right? | window 6 (given back in steps of 2 or more), packets of 5, a pipe of 2, the client's window 2; 10 bytes in, or 5 in and 2 out, or 3 out; pipes or a terminal; an exit or a signal without a name: the ring wraps inside a packet, the pipe fills, both windows are used up |
| `buffersu` | Order, loss, duplication, bounds, refinement of `ByteStream`; does data arrive when one side never reads, does the relay end? | blocks of 2, limit 2, pipes of 2 and 1, 2 and 4 bytes, faults: short reads and writes, overshoot of the limit, full pipes on all sides |
| `stop_sticks`, `buffersu_lost`, `timers_idle`, `channel_pty` | disagreements, see below | |

Named bounds: `MaxClock`, `MaxInbox` (`Clicked` and `Boot`), the number of waiters
(`WaiterLeft`), `Total0`, `Total1`, `MaxKex`, `MaxMade`, `MaxWaiting`, `Traffic`, `MaxRequests`,
`Forever`. `MaxMade` limits what either side does of its own accord, never an answer
it owes. Symmetry is used for waiters in `service` and `throttle`.
Deadlock is checked in the service and throttle runs; it is switched off where the
modelled process may really end (the relay, the listener, a session, a channel).

### Fairness

* Service: each Java thread and the main looper run (weak fairness per thread), and
  a SIGKILL takes effect. Nothing is assumed of the user, of Android, or of a
  listener's own progress: it need not bind, write its file or die.
* Listener: the loop runs; an `accept()` does not fail for ever (strong fairness of an
  `Accept` that takes a connection, since `select()` reports it again each time);
  AUTH_TIMEOUT fires for a session that does not authenticate (`checktimeouts()`).
  Clients need not do anything.
* Session: the server reads what has arrived, the correct client reads and answers a
  key exchange the server began. Nobody has to begin one or to ask anything.
* Channel: the main loop runs (`Select`, and `Round` whenever something was reported,
  written out because `Round`'s ENABLED is costly), and the client reads, gives its
  window back and answers CLOSE. The command need not do anything; `WindowReopens`
  names its reading as an antecedent.
* Relay: its loop and its signal handler run, and a write that can make progress does
  not fail for ever. Each property names, as an antecedent, the one other process
  that has to keep reading.

### Disagreements between code and documentation

1. `stop_sticks`: `maybe_restart()` decides under the lock and restarts after it. A
   stop carried out in between is undone: the service is stopped and a listener runs.
2. `buffersu_lost`: the relay exits when `child_dead` is set and `buf1` is empty, with
   output still in the pipe, against the comment in the handler.
3. `timers_idle`: with a channel open a keepalive is a channel request, and the
   CHANNEL_FAILURE that answers it renews the idle time. With `-K` less than `-I` a session
   on which nothing but keepalives pass is never closed, against the comments at
   `process-packet.c:77` and `packet.c:610`.
4. `channel_pty`: after the command's exit `check_close()` closes `writefd` before it
   flushes the output. With a terminal that is also `readfd`, and the rest of the
   output is lost, against the comment three lines below.

Four more disagreements show in the models without a run of their own. A failed
`fork()` returns -1, which `do_start()` records as the listener, so that `is_started()` is
true without one and a stop is `kill(-1)`. `default_options.h:288` counts
`DEFAULT_KEEPALIVE_LIMIT` keepalives sent; in fact the last one is never written, and in a
key exchange that stalls none is (`KeepaliveLimit` says what holds). A client's EOF
before its request makes the server send EOF before the command's output
(`OrderlyEnd` excepts it through `s.late`). A channel closed before it had a command gets no
CLOSE in return, although `common-channel.c:618` says that one is answered in kind.

## 4. Proofs

All theorems hold for every value of the constants that satisfies the named
assumptions in the modules: any number of processes, connections and packets, any
size of windows, pipes and timeouts.

**`SimpleSSHDServiceProofs`** (process ids are positive, the main thread is not a
waiter). `TypeCorrect` first; then the inductive invariant `ServiceInv`:

* `Tracked` says that a live child is recorded or held; that it survives
  `MaybeRestart`, which clears `sshd_pid`, needs `CheckDead`: the pid in the hands of
  `maybe_restart()` is not running, because `waitpid()` returned for it.
* `CheckDead` needs that the pid is the thread's own child (`OwnChild`, `OrphanLive`)
  and that it is not handed out again while remembered (`Fork`).
* `PidfileNamesServer` needs `OnePort`: the file is only written by the process that
  has the port.

From it follow `NoListenerLost`, `EveryChildWaited`, `PidfileCorrect` and the step
property `RestartCorrect`.

`RestartsGiveUp` is about `RestartThrottle`, whose history of restarts the code does
not have. `StaticsAreHistory` says that `sshd_when` and `sshd_duration` are its last
entry and the difference of its last two: this is what makes the rule of
`maybe_restart()`, which compares two static fields, a rule about restarts.

**`SvrMainProofs`** (both limits positive, `None` is no connection and no address).
The invariant `SlotInv` is `TypeOK`, `Accounted` (every unauthenticated session holds a
slot with its address), `FdsAtEnd` (what `select()` said about a pipe is still true
when the slot is freed, since a session never becomes unauthenticated again) and
`SlotLimit` (no address holds more slots than its limit). `FreeSlot` shows that a
connection the limits admit gets a free slot; the last free index exists by
well-foundedness of the naturals. The limits follow by an injection from sessions
into slots: `TotalLimited`, `AddressLimited`.

**`SvrSessionProofs`** (`None` is no name and no packet type). Any packet may come at
any time, so the invariant `SessionInv` speaks of one structure: `KexState` ties the
four `kexstate` flags, the buffers, the parts of `newkeys` that are filled in, the key
numbers and `requirenext` together. `NoNullPointer` is not inductive without it (a
handler's buffer is there because of the flags), and neither is `Encrypted`
(`requirenext` is what keeps other packets out until the first keys are in use).
One lemma per C function, then one step per action: `KexConsistent`,
`NoNullPointerUsed`, `TrafficEncrypted`.

The second half of the module is about `SessionPair` (there is a user name, and the
two names that stand for malformed ones are not among them; `MaxKex`, `MaxMade`,
`MaxWaiting` are bounds for TLC and may be any numbers). Its properties speak of the
packet at the head of a queue, so the invariant `PairInv` must speak of whole queues.
Each key has four stages in the client's direction (outside an exchange; a wrong
guess is to follow; the client's key is to follow; its NEWKEYS is to follow) and
three in the server's. A packet leads from one stage to one stage (`Step`), and
`Run` says that the packets of a queue lead, one after the other, from the stage its
reader has reached to the stage its writer has reached. The packets of the server are
numbered in the same way: those in the queue, then those in the reply queue, without
a gap. What remains of `PairInv` is what the two ends themselves satisfy: `Inv` of the
session structure, that a wrong guess is awaited only before the key, that there is
one user name, that nothing is held back outside an exchange.

`RunCat` and `RunTail` are the two ends of a queue: a writer extends a run at its end, a
reader takes its first step. The directions are coupled by `RunUp`: packets never lead
back, so a writer is never behind its reader. This is what `ReplyStage` needs: when
KEXDH_REPLY arrives the server has read the client's key, hence the client has sent it
and its NEWKEYS comes at the right place. One lemma per type of packet and end shows
that it is handled where its stage says it is (`PacketProcessed`, `ClientReads`),
`RoundServes` that the flush at the end of a round keeps the order. From
`PairInvariance` follow `EndsAgreeOnKeys`, `CorrectClientServed`, `PacketsInOrder` and
`SilentDuringKex`.

**`SessionTimersProofs`** (all timeouts are numbers, `Forever` exceeds each of them). The
invariant `TimersInv` adds to the types what makes `OnTime` inductive: whenever the
loop sleeps, the age of each time stamp plus `left` does not exceed the deadline
that applies to it. A lemma shows that a round leaves nothing overdue after
`checktimeouts()`, so that the sleep is positive: `DeadlinesMet`, `LoopSleeps`.
`LoopSleeps` says nothing of the time before the client's version has come, when the
loop does spin if `-I` is less than `AUTH_TIMEOUT`.
`LimitKept` needs an invariant of its own, `KeepInv`, because the code counts seconds and
the property keepalives. Outside an exchange the time since the last packet is at
most the time since the last keepalive plus `keepalive_secs` for each one that went out
unanswered; and the loop never sleeps so long that both are older than
`keepalive_secs` when it wakes. So when the seconds reach the limit, all but one of the keepalives they
stand for went out. The other case of the property is an exchange, in which
keepalives do not go out.
`QuietSessionsClose` needs `QuietInv`: the idle time stamp is renewed only together with
one of `quiet` and `chan`. There are two ways in which keepalives renew it. An answer to a
channel keepalive does, which is why `chan` is in the property and why the stricter
`IdleDetected` is violated. A keepalive held back by a key exchange and sent after it
does too, but without harm, because the packets of the exchange were traffic; so the
invariant also says that nothing is held back while data is allowed.

**`ChannelProofs`** (sizes are numbers, those of window, pipe and packet positive). The invariant
`ChannelInv` has four parts: the descriptors a channel can have with and without a
command and a terminal (`FdsOK`); what the command's exit implies for its pipes and
what `exitpid` and `flushing` imply for the command (`CommandOK`); the sum of
`recvwindow`, `recvdonelen` and what is in the ring (`WindowOK`), which is short by a
packet's length while the packet is being handled; and `FdsStillReady`: what
`select()` reported of a descriptor is still so in `Round`, though others moved in
between. The last one is what `OutputIsComplete` rests on: a read of zero bytes means
the end only because the report was not stale. `WindowIsAccounted` follows from
the third.

**`ChannelPeerProofs`** (the same assumptions). These theorems are about the server, the
client and the packets between them. The invariant `PeerInv` is `ChannelInv` and

* `WireOK`: what the client may send, with the data under way to the server and the
  adjustments under way to the client, is at most `recvwindow`; and the same the other
  way. `NoFailure` rests on it: a packet is never larger than the window left;
* `FlagsOK` and `ToClient`: what `sent_eof` and `sent_close` imply for the descriptors and
  the command's exit, and which packets may follow which in the queue to the client.
  Neither is inductive alone: no data follows EOF because the descriptors it would
  be read from are closed by then. CLOSE follows the exit status in the queue unless
  `s.unnamed`;
* `ToServer`: the same for the client's packets, which shows that no data reaches a
  channel that has seen EOF or CLOSE;
* `RingOK`: the ring buffer holds, from its read position on and around its end,
  exactly the bytes accepted and not yet delivered. The assertions of `circbuffer.c`
  (lengths and positions within the buffer), which `NoFailure` does not include, follow
  from it.

A round of the server is several C functions. Between them the packets already sent
are in `s.out` and belong to no queue yet, so each function is shown to preserve `Law`,
which is `PeerInv` for the queue as it will be, relative to what the round began with.
`PeersAgreeOnWindows`, `ChannelNeverFails`, `EndIsOrderly` follow from `PeerInv`.
`RingIsStream` shows that `Channel` implements `ByteStream`: by `RingOK` every step
appends to the delivered bytes a piece of the accepted ones, or nothing.

**`BufferSuProofs`** (block, buffer and pipe sizes are numbers, blocks and pipes not
empty). `InOrder` needs that a block is taken from a list that has one
(`WritesWaiting`, `OnlyOutput`: what `select()` was asked for is decided several steps
before, and the signal handler may come in between), `Bounded` that a read happens only
below the limit, decided equally early (`ReadsBelow`). With the types these make
the inductive invariant `IInv`: `BufferTypes`, `BytesInOrder`, `BuffersBounded`.
`RelayIsStream` follows from `BytesInOrder` and the shape of the steps.

**`SeqLemmas`** holds what the last two modules and `SvrSessionProofs` need of sequences: joining (`Cat`), sums
(`SumSeq` of a sequence with one element more at either end), `FlattenSeq`. Sums are
defined by a recursive function; instead of induction, the proofs take the least index
at which two functions differ (`LeastNat`, from the well-foundedness of the naturals).

Only model-checked: the liveness properties (fairness and ENABLED are out of the
prover's reach).

## 5. Not modelled

* Vendored code (libtomcrypt, libtommath, rsync, sftp-server, by far most lines of
  the repository), dropbear's client and tools, cryptography and key formats, random
  numbers: arithmetic and third-party programs without control logic of this app.
* The activity's life cycle, the log view and its updater thread; preferences; option
  parsing; `split_cmd`; the C statics of `interface.c`, which several threads assign.
* Listener: descriptor leaks after a failed `fork()`, zombies.
* Session: parsing of `authorized_keys`, the failure delay, partial reads and writes of
  the socket (`netio.c`), compression, algorithm lists beyond whether they match. A
  wrong guess of another packet type (GEX_REQUEST) is left out of the correct client;
  see the hazards.
* Channels: the table of channels and their opening, forwarding and its listeners,
  signal, window-change and pty requests, a second shell on a channel, a channel
  closed without a command, a background process that keeps a pipe open. Key
  exchanges are in `SessionPair`, not in `Channel`.

## 6. What is left

1. The channel table: opening, several channels, forwarding listeners, and the
   composition of `Channel` with the reply queue of `SvrSession`.
2. The activity with its updater thread, and `split_cmd` as a function checked
   against a reference.
3. Descriptors and zombies of the listener.
