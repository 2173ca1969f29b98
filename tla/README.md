# A TLA+ model of SecureVPNProxySuperVPN

The repository is an Android VPN client: a Kotlin front end
(`src/app/.../fastvpn`), the Java service of "OpenVPN for Android"
(`src/open/src/main/java/de/blinkt/openvpn`), which runs in a process of its own
(`:openvpn`), and the C program OpenVPN 2
(`src/open/src/main/cpp/openvpn/src/openvpn`), which that service starts as a child
process. openvpn3, OpenSSL, mbedTLS, lzo, lz4, asio and Spongy Castle are vendored and
left aside.

Below, J is `src/open/src/main/java/de/blinkt/openvpn/core/` and O is
`src/open/src/main/cpp/openvpn/src/openvpn/`.

## 1. The system

| Component | State it keeps | Operations | What makes it correct |
|---|---|---|---|
| Hold and commands of the management interface (O `manage.c`, `init.c`, `openvpn.c`) | position in the restart loop, `hold_release`, command and notification lines in the socket | `hold release`, `signal SIGUSR1`, `network-change`, entering and leaving `management_hold`, restart | every connection attempt asks the client first; a signal leads back to the hold |
| Management thread (J `OpenVpnManagementThread`) | `mWaitingForRelease`, `lastPauseReason`, posted `mResumeHoldRunnable`s, static list `active` | `handleHold`, `releaseHoldCmd`, `pause`, `resume`, `networkChange`, `stopVPN` | its copy of the process's state is right whenever it is used; one release per hold, and only a wanted one |
| Device state receiver (J `DeviceStateReceiver`) | the three `connectState`s, `lastConnectedNetwork`, posted `mDelayDisconnectRunnable`s | network, screen, user and byte count events | the VPN is up exactly when network, screen and user allow it |
| Service and session lifecycle (J `OpenVPNService`, `OpenVPNThread`) | `mProcessThread`, `mManagement`, `mDeviceStateReceiver`, `mStarting`, the connected profile | start, replace, stop, revoke, `endVpnService` | a replacement survives the end of what it replaces; the last end leaves nothing |
| Replay protection (O `packet_id.c`, `crypto.c`) | next id, circular list of arrival times | write, test, add, reap | nothing is accepted twice, and what may be accepted is |
| Reliability layer (O `reliable.c`) | send and receive windows, retransmission timers | send, ack, schedule, receive | in-order, exactly-once delivery over loss, duplication and reordering |
| TLS sessions and keys (O `ssl.c`) | key states, soft resets | negotiation steps | both ends use a key both know |
| Status bus (J `VpnStatus`, `LogFileHandler`, `TrafficHistory`) | last state, listeners, log buffer | `updateState`, add and remove listener | listeners converge to the last state |
| Status service and external API (J `OpenVPNStatusService`, `StatusListener`, `api/`) | remote callbacks, replayed state | bind, register, callback | a client process converges to what the VPN process says |
| Keep-alive job (J `keepVPNAlive`) | scheduled job | start if not connected | restarts what died, not what was stopped |
| Tunnel configuration (J `NetworkSpace`, `CIDRIP`, `tunConfig` of `OpenVPNService`; O `tun.c`, `init.c`) | sets of routes, the collected and the last configuration, the tun's descriptor | add, split, query; NEED-OK questions, open, keep or replace the tun | the routes installed cover exactly what was included and not excluded; the process has one tun, with what was pushed |
| Profiles, parser, launch activity | preferences, files | load, parse, save | text in, options out |
| Connect screen (`MainActivity.kt`, `UIActivity.kt`, `Hot.kt`) | connect coroutine, displayed state | connect, disconnect, state callbacks | the screen agrees with the service in the end |
| Advertisement slots (`AdManager.kt`, `AdUtils.kt`) | per slot: loading flag, cached ad and its age | load, show, expire | a slot can always load again; a stale ad is not shown |
| Session timer, remote configuration, server list | preferences | HTTP, tick | I/O |

How they interact:

- **Service and process.** A child process and a Unix domain socket. The service binds
  `mgmtsocket`, starts the process, writes its configuration to stdin, and the process
  connects. Commands flow one way and notifications the other; lines cross each other.
  The configuration always says `management-client` and `management-hold`
  (`VpnProfile.java:374-385`).
- **Threads in the service.** The main looper (broadcasts, posted runnables, `onRevoke`),
  a command `HandlerThread` (`startOpenVPN`), a process thread and a management thread
  for each session, and binder threads (`IOpenVPNServiceInternal`, external API).
  `mWaitingForRelease`, the receiver's states and most of the service's fields are
  shared without a lock; only `mProcessThread` and `active` have one.
- **Management thread and receiver.** The thread asks the receiver through
  `PausedStateCallback.shouldBeRunning`; the receiver calls `pause`, `resume` and
  `networkChange` of the thread.
- **Front end and service.** AIDL to `ExternalOpenVPNService`: start, disconnect, and a
  one-way callback for every status. `VpnStatus` tells the service, the service posts to
  its handler, the handler calls the registered clients, and a client's binder thread
  hands the call to its main thread.
- **Two ends of a tunnel.** Control packets go through `reliable.c`, data packets through
  `packet_id.c`, both over a network that may lose, duplicate and reorder.

What is hard here is the interleaving of those threads, the messages that cross in the
socket, delayed runnables that race with the events they wait for, restarts of the process
in between, and an old session that ends while a new one starts. `PROJECT.json` lists the
places under `hazards`.

## 2. The modules

```
ManagementHold  <-  ManagementThread  <-  DeviceStateReceiver  <-  PauseControl  <-  MCPauseControl
  (process)          (its client)          (what it wants)          |                PauseControlProofs
                                                   implements HoldHandshake

PacketId       <-  MCPacketId, PacketIdProofs                 implements AtMostOnce
MCPacketId     <-  MCPacketIdProofs
ReliableLayer  <-  MCReliableLayer, ReliableLayerProofs       implements FifoChannel
VpnSession     <-  MCVpnSession, VpnSessionProofs
StatusRelay    <-  ConnectScreen  <-  MCConnectScreen, ConnectScreenProofs
NetworkSpace   <-  NetworkSpaceProofs
TunSetup       <-  MCTunSetup, TunSetupProofs
```

An arrow is EXTENDS. MCPacketIdProofs takes PacketIdProofs with INSTANCE.

### Pause control: ManagementHold, ManagementThread, DeviceStateReceiver, PauseControl

- **ManagementHold** is the process. `proc` is its place in the restart loop of
  `openvpn_main`; `cmds` and `evts` are the two directions of the socket. `ReadCommand`
  is one `recv()` of `man_read`, of one line or, with `Coalesce`, of all of them; what it
  does with SIGUSR1 depends on where the process is (`ManSignalUsr1`: ignored in the hold,
  taken by the event loop, or turned into SIGHUP by `close_context` while `init_instance`
  waits). `EnterHold`, `LeaveHold`, `InitDone`, `Restart`, `SelfSignal` and `HupExit` are
  the rest of the loop, `SendByteCount` the periodic notification.
- **ManagementThread** is `OpenVpnManagementThread`. `handleHold` is split where another
  thread can run: `ReceiveHold`, `CheckHold`, `PostRelease`. `releaseHoldCmd` is
  split at its three-second sleep: `BeginRelease`, `FinishRelease`. `Preempt` says whether
  other threads may run between those parts; without it the handler is one uninterrupted
  whole as far as others see. With it, a test and the call it leads to are two steps as
  well, in `mResumeHoldRunnable`, `networkStateChange`, SCREEN_ON and `userPause`: `Call`
  notes what the thread has made up its mind to do, `MakeCall` does it, whatever has
  happened since. So is the end of `releaseHoldCmd`, which resets the flag and then
  writes the line.
- **DeviceStateReceiver** is every branch of `DeviceStateReceiver.java`. `HandleNetwork`
  is `networkStateChange` with its three outcomes, `SameNetworkBack`, `OtherNetwork` and
  `NetworkLost`; the runnable it posts is `DelayDisconnect`. `updateByteCount` runs on the
  management thread and is again two steps. The traffic figures themselves are a
  nondeterministic choice: whether the window is below the limit is all that matters.
  `undone` is history: since the last `pause()`, `networkChange(true)` has released a hold
  without asking, or the signal was ignored.
- **PauseControl** composes them, states fairness and the properties, and maps the
  composition to **HoldHandshake**, the four-step abstract hold: ask, learn, grant, proceed.

One abstraction is left with `Preempt`: `pause()` tests `mWaitingForRelease` and sends the
signal in one step. In the code a thread may stand still between the two (line 752) for as
long as a hold, a release and a restart take, and then take back the release posted since.

### PacketId

`packet_id.c` with a sender, a receiver and a network in which whatever was sent may
arrive at any time, any number of times or never. `Write` is `packet_id_write`, `Test`
`packet_id_test`, `Added` `packet_id_add`, `Reaped` `packet_id_reap`; `Accept` and
`Refuse` are the two outcomes of `crypto_check_replay`. The circular list is a sequence
whose head belongs to the newest id; `SeqUnseen` (0) and `SeqExpired` (1) share it with
the times, as in the code, which is why both clocks begin after 1. `PacketId` maps to
**AtMostOnce**: no identity is sent twice and none is delivered twice.

`MCPacketId` holds two instances, a UDP link with the window of the cfg and a TCP link
without one; `Init` chooses which of the two takes steps.

### ReliableLayer

Both ends of one key negotiation, each with the send and receive buffers of `reliable.c`,
its two lists of acknowledgements (`rec_ack` and the recent ones of `lru_acks`), and the
part of `ssl.c` that drives them. `TlsProcess` is `tls_process`: it begins the handshake,
writes what the TLS object has, hands on what is in order, then sends the lowest packet
that is due or a dedicated acknowledgement. `Receive` is `tls_pre_decrypt`: the burst at
first contact, `reliable_send_purge`, then the tests of `reliable_can_get`,
`reliable_wont_break_sequentiality` and `reliable_not_replay`; an acknowledgement is noted
"even if it's a replay". The loop of `tls_process` may stop behind the hard reset, as
`parse_early_negotiation_tlvs` does not set `state_change`; nothing is behind it then,
because no other packet is taken before it and the event loop runs `tls_process` before it
reads the next one (the first guard of `Receive`). `Expire` is the passing of an entry's retry time. The server
writes nothing before it has heard its client (`xmit_hold`, `init.c:3320-3323`). The layer
maps to **FifoChannel**.

Abstractions: the TLS object takes every packet it is handed, in order, and may write up
to a full window at any time; `tls_process` acts when the buffer to the link is empty.
Which acknowledgements go into a packet, when not all fit, is left open. The exponential
backoff is any delay. The end of the handshake window, soft resets and the wrap of the
32-bit ids are left out.

### StatusRelay and ConnectScreen

`StatusRelay` is the path of a status: `UpdateState` (`VpnStatus.updateStateString` and the
listener), `Broadcast` (the handler), `RegisterSend` and `RegisterEntry` (the two halves of
`registerStatusCallback`, on a binder thread, between which a broadcast can fall), `TakeUp`
(the client's main thread). `ConnectScreen` is `MainActivity` on top of it, with the tunnel
it starts and stops. Its handlers all run on the main thread but cross each other at every
delay: the coroutine of a click (`job`), the runnables of `showConnectAd` (`pollers`, in
the order their 500 ms end), the advertisement on display (`ad`), the delayed updates
(`later`) and the callbacks (`Hear...`). `mi` is what the screen shows, `hot` what it has
heard. `jumpLost`, `heard`, `missed` and the `fate` of a runnable are history for the
properties.

Three things shape it. `adShown` is one flag for all runnables: `cancelCOD` sets it to stop
them (`Stopped`), and the next `showConnectAd` clears it and with that revives those
that have not looked yet (`Revived`). The coroutine that connects falls through to the test that disconnects
(`MainActivity.kt:288`), which applies when the status came up during the delay. And the
last attempt jumps and looks for an advertisement all the same (480-487).

`DelayOver` is a timing assumption: the coroutine's two seconds are longer than the 500 ms
of a runnable that was told to stop. Left out are the debounce of clicks, the end page,
the back key, the destruction of the activity and the exception that `disconnect` throws
when the service has died under it.

### NetworkSpace

`generateIPList` with one action for each way through its loop, and the two ways in which
`openTun` installs the outcome: the positive list (`InstallPositiveOnly`, with the
multicast range left out and a route added for a resolver on Samsung devices) or, from
Android 13 on, everything as collected. The priority queue is a bag whose head is any
least network, since `PriorityQueue` breaks ties arbitrarily and `compareTo` ignores the
sign; the two TreeSets drop what compares equal. A single address is split like any other
network, into two pieces whose masks are one bit longer than an address and the upper one
of which lies behind the whole; a debug build throws there (`NetworkSpace.java:158-159`),
and the model, like a release build, goes on. `Asserted` says when that and the other
assertions of the loop cannot happen. `Size` counts the addresses of a network with the recursive
function `PowerOfTwo`.

### TunSetup

How a process gets its tun. `do_open_tun` and `open_tun` put what the server pushed to the
app one NEED-OK question at a time (`AskAddress`, `AskRoute`, `AskDNS`), then ask whether
the tun may stay (`AskAction`) and, if not, for a new one (`AskTun`). On the other side
`processNeedCommand` collects it in `tunConfig` (`Collect`), compares it with
`mLastTunCfg` (`PersistTunAction`), and establishes a tun (`OpenTun`, `OpenTunFails`).
`sendCommandWithFd` is three steps, since the descriptor is set on the socket (`outbound`)
before the line is written (`WriteOk`) and cleared after it (`ClearDescriptor`), and
whatever another thread writes in between carries it too (`OtherThreadWrites`, with
`Interrupting`). `Read...` is `man_read` inside a question or in the event loop;
`descriptors` counts what the process has open. Processes end anywhere (`ProcessExits`), restart with
or without persist-tun (`RestartWith`), and the service, with `tunConfig`, survives them.
A signal in a question stays pending: the process puts its other questions without waiting
and dies of the answer it does not get to PERSIST_TUN_ACTION (`failing`, `AskInVain`).

A tun device is a model value that is free again when no descriptor of it is left. An
address is named by the network it is in, and a configuration is what `getTunConfigString`
compares, less IPv6, the search domain, the MTU and the proxy. Whether a route leads into
the tunnel is decided as in `addRoute`, by its gateway: one inside the network of the
interface, or the other end of it (`LeadsIn`). An interface that is a single host
(`Hosts`) gets no route of its own. `man_read` goes through all lines of a `recv()`, which
ends at a line that carries a descriptor; in the model lines are read one at a time, except
that a signal takes the lines before it along (`ReadTo`): the question ends without an
answer even if the answer came just before. `clean` and `interrupted` are history.

### VpnSession

Sessions are numbered by the starts that ask for them, as the start ids of
`onStartCommand` are; the queue of the command thread holds those ids and stops. The command thread
walks through `startOpenVPN` (`cmd`): `BeginStart` up to the first sleep, `ForceStop` and
`ForceOver` with `mProcessLock` held, `OldStopped` where `mStarting` is reset, then
`OpenManagement`, `Launch`, `WriteConfig`, `PostReceiver`; two of them may take an early return
through `endVpnService`. `endVpnService` itself (`EndLock`, `EndUnregister`, `EndForget`,
`EndService`) is run by process threads, the main looper (`onRevoke`) and the command
thread, each at its own pace. A process thread gets there when `waitFor` returns, or when
`forceStopOpenVpnProcess` interrupts it while the process is still quitting (`ThreadEnds`).
`AlwaysVisible` is `mNotificationAlwaysVisible`, with which `endVpnService` leaves the
service running; nothing in the repository sends the intent extra that sets it, so the
runs have it FALSE, and the theorems hold for both. Management threads accept one process and close; processes
connect to whoever owns the socket path at that time.

`hurry` separates two environments. In haste (`TRUE`) any step may happen at any time and
the one-second sleeps of `stopOldOpenVPNProcess` may be too short. At leisure (`FALSE`)
the comment in the code, "An old running VPN should now be exited", is true: `OldStopped`
waits until it is, starts and revocations come when the service has settled, the end of a
process thread does not fall between a start request and its first statement, and a
posted registration does not fall between two statements of `endVpnService`. What is
promised at leisure is not promised in haste.

Two facts of the code shape the module. `mOpenVPNThread` is never assigned, so
`setReplaceConnection` is never called and a replaced process thread always runs the
full `endVpnService` of the service that now belongs to another session. And
`OpenVpnManagementThread.run` returns at an end of file without `active.remove(this)`
(line 201), so `active` may hold threads that are dead.

## 3. What the runs check

| Run | States | What it asks |
|---|---|---|
| `pause_calm` | 19,694 | The default `netchangereconnect`, all calls on the main looper, two networks, two outstanding delayed disconnects, screen pauses, self-made restarts, signals during initialisation, several lines per `recv()`. `HoldAgreement`: with nothing under way, `mWaitingForRelease` is right. `UserPauseEffective`, `PauseLasts`: a user's pause brings the tunnel down and keeps it down, unless it is `undone`. `LostNetworkHolds`: a lost network ends in a hold; `Reconnects`: a returned one in a connection. `ImplementsHandshake`. |
| `pause_threads` | 806,750 | Threads run inside each other's handlers and between their tests and calls, several lines per `recv()`. `RestartHolds` and `Reconnects` still hold. The handshake, `HoldAgreement` and `UserPauseEffective` do not and are not claimed. |
| `packets` | 65,755 | UDP: a window of two ids, back-track time 1, reaper every 2. `ImplementsAtMostOnce`; `AcceptsExactly` compares `packet_id_test` on the circular list with a definition over the set of packets received; `LateRefused`: an overtaken packet is refused after its time. TCP: `TcpInOrder`, and `TcpAtMostOnce` across the roll-over. |
| `session_replace` | 10,528 | Two sessions at leisure. `ReplacedWhole`: the new session keeps its thread, management, receiver and service. `StoppedEnds`: a stopped session's thread ends although `forceStopOpenVpnProcess` sleeps with the lock it needs. |
| `session_haste` | 4,132,206 | Two sessions in haste. `TornDown`: after the last end no thread, profile or running service is left. The receiver is not part of it: a registration that was posted before the end and runs after it stays registered, and `TornDown` says only what the code does achieve. |
| `reliable` | 39,034 | Four packets one way and one the other, windows of two. `ImplementsFifo`; `PurgedIsReceived`: nothing leaves the send buffer before the peer has it; `NeverRefused`: the send window never gets ahead of the receive buffer; `NoReceiveDeadlock`, the "Avoid deadlock" of `ssl.c:3863`; `Drained`: what is written arrives and is acknowledged, though a full list of acknowledgements drops some. |
| `screen` | 922,569 | A user who clicks, cancels and leaves, advertisements that come, fail or are dismissed, a tunnel that fails by itself, a service that dies. `StatusMirrored`: a registered client was last sent the present status, unless an update fell between the two halves of its registration. `CancelHolds`: nobody disconnects but a coroutine that was not cancelled, an advertisement on display, or a runnable that `cancelCOD` has not stopped or a later `showConnectAd` has revived. `SpinnerEnds` and `Settles`: the spinner of a connection or disconnection that the screen has heard to be complete has something to wait for, and ends; for a connection, unless an advertisement has lost the jump (`jumpLost`). The spinner of a start that failed is not covered. |
| `routes` | 465,512 | Every set of up to four networks over three bits. `Preserved`: at each iteration what is done, current and queued says of each address what the routes say. `Exact`: so does what is installed. `Asserted`: no assertion of a debug build fails. `Terminates`. The first three exclude `Layered` and `Paired` routes, which the code gets wrong. |
| `tun_setup` | 1,687,320 | Two processes with restarts, pushes, signals and failures, in and out of a local network that `mAllowLocalLAN` excludes. `NothingLost`: what was pushed is in the tun, whatever was left over from before; `RequestedIfClean`: and nothing else, if nothing was; `LastIsHeld`: `getTunReopenStatus` compares with the tun the process really has; `ReplacedIfChanged`: a tun is replaced only by one with another configuration, unless it may exclude local networks; `OneDescriptor`: the process has one descriptor of its tun and none of another, unless another thread wrote while one was sent, which in this run none does; `Completes`: every question is answered. |

`TypeOK` is part of the runs `pause_calm`, `packets`, `reliable` and `routes`; the type
invariants of the sessions, the screen and the tun set-up are theorems (section 4).

Three runs expect a violation; each one is a finding in `PROJECT.json`:

| Run | Property | What happens |
|---|---|---|
| `session_profile` | `ProfileNoted` | The end of the replaced session clears `LAST_CONNECTED_PROFILE` after the new start has set it: a connected session is not the one "to connect if the service restarts". |
| `pause_undone` | `UserPauseKept` | `DeviceStateReceiver.java:233` calls `networkChange(true)`, "Reprotect the sockets just be sure", and that releases a hold without asking: where the network was lost for less than `DISCONNECT_WAIT`, a VPN that the user has paused connects. |
| `routes_nested` | `ExcludedStaysOut` | -10.0.0.0/8, +10.1.0.0/16, -10.1.0.0/24: the innermost comes before the included one, is taken for a part of the first and dropped. Before Android 13 its addresses enter the tunnel. |

The mirror image, with the signs exchanged (+0.0.0.0/0, -10.0.0.0/8, +10.0.0.0/16), is got
wrong in the same way: the addresses of the innermost bypass the tunnel.

`Paired` is the other case that `generateIPList` gets wrong: with +10.0.0.0/8, -10.1.0.0/16
and -10.128.0.0/9 the upper half of the split /8 is put into the queue
(`NetworkSpace.java:348`) beside the excluded network that equals it, without the test that
lines 309 and 317 make, and most of what is excluded gets included.

In both cases a debug build may not get that far: for some such routes an assertion fails
(`Asserted`), for instance that of `split()` when a single address is split, as with
-10.0.0.0/30, +10.0.0.2/31 and +10.0.0.2/32.

More disagreements between the code and what is written about it show in the model
without a run of their own:

- SIGUSR1 from the management socket during `init_instance` is turned into SIGHUP by
  `close_context` (`CC_HARD_USR1_TO_HUP`, `openvpn.c:69`); the restart reads its
  configuration from a closed stdin and the process exits (`HupExit`). The comment at
  `init.c:4414-4418` promises "signals thrown during initialization can bring us back to a
  management hold".
- `userPause(false)` on a VPN nobody has paused does more than "Update the reason why we
  currently paused" (`DeviceStateReceiver.java:125`): it sends SIGUSR1 and restarts it, or,
  in a hold, removes the posted release and leaves the VPN down. With `RedundantResume`,
  `Reconnects` fails for that; the runs leave such resumes out.
- A SIGUSR1 that `man_read` finds behind a `hold release` in one `recv()` is ignored, as
  the loop of `management_hold` has not looked at its condition yet (`manage.c:3848`): the
  pause that sent it has no effect. Hence `SignalDropped` in `undone`.
- `updateByteCount` looks at `screen` on the management thread and sets it later
  (`DeviceStateReceiver.java:90`, 105). If SCREEN_ON falls between the two, the VPN stays
  paused, against "Pause VPN when screen is off" (`strings.xml:283`).
- A disconnection that is called off happens all the same if the status CONNECTED is heard
  within the 500 ms in which its runnable would notice: `showConnectAd`
  (`MainActivity.kt:470`) clears the flag that stopped it. And an advertisement on display
  keeps its jump, although `onStop` calls the disconnection off (313-321).
- A start that fails inside `openVTool` is swallowed (`MainActivity.kt:557-575`), and the
  screen keeps the spinner of a connection.
- `tunConfig` is emptied by `openTun` only (`OpenVPNService.java:792`). After NOACTION, or a
  process that ended between its questions, the next tun has the old routes and name
  servers besides "the requested configuration" (`doc/android.txt:82-83` of openvpn). Hence
  `clean` in `RequestedIfClean`.
- With `mAllowLocalLAN`, `openTun` adds the excluded local networks to the configuration it
  remembers (1046); the same push again never equals that, so in a local network every
  reconnect replaces the tun by an equal one, although "tun cfg stayed the same"
  (`OpenVpnManagementThread.java:591`). Hence `Excluding` in `ReplacedIfChanged`.
- A `network-change` or signal that another thread writes between the two
  `setFileDescriptorsForSend` (`OpenVpnManagementThread.java:637-643`) carries the tun's
  descriptor as well. `man_read` overwrites `lastfdreceived` with the second copy
  (`manage.c:2255`), and the first stays open. Hence `interrupted` in `OneDescriptor`.

### Bounds

- Pause control: `MaxCmds` (2 or 3) bounds the lines in flight *when a user or a broadcast
  adds one*; the releases and signals the program writes by itself are never refused. Two
  are needed for a signal behind a release, three for a release, a signal and a network
  change. `MaxEvts` (2, and 1 with threads) makes the process wait with a hold behind unread
  notifications; one byte count is in flight at a time, so a hold finds room unless an old one is unread.
  `MaxTimers` (2) and `MaxNetTimers` (1 or 2) bound the posts outstanding: a hold is read
  and a loss of the network is reported while there is room for one more, so that one post
  can overtake another. Two networks suffice, as the receiver remembers only one.
- Packet ids: `PacketIdMax` is 4 where the code has 2^32 - 1, so the roll-over happens;
  the window of 2 is smaller than the id space, so the list starts over, shifts and wraps.
  Clocks run long enough for expiry (receiver) and for three times of the sender.
  The proofs hold for all values of these constants.
- Reliability layer: the client writes four packets with windows of two, so that each
  window slides twice over; the server writes one, so that acknowledgements ride on data
  and go alone. The network holds one packet to the client and two to the server, and a
  full one loses a packet for a new one, so old acknowledgements meet new packets.
  `RecSize = SendSize` is the tightest the theorems allow (12 and 6 in the code).
- Screen: two attempts where the code has 20, so that a first, a middle and a last one
  differ; two runnables, so that one can be stopped, revived or outlasted by another. One
  message in each queue lets every handler fall between sending and hearing.
- Routes: three bits is the least width in which the multicast range exists and a network
  in a network in a network is smaller than an address range; four networks make one more
  than each of the two failures needs.
- Tun set-up: three pushes that differ in address, name servers and routes. A network has a
  pushed route to itself by the default gateway besides its own; a single host, which may
  also be a local network, has one that excludes it; to a third network a gateway leads that
  is inside the first and the other end of the second. One push has no address, so that
  establishing fails, or an old address is taken for it; two processes, the second of which
  finds what the first has left; two tuns, as one is
  opened before the other is closed. `MaxLines` (1) bounds the unread lines of other
  threads, so that one can be before or behind an answer; outside the
  sending of a descriptor they are written at any time.
- Sessions: two starts, which is one replacement; the command queue holds two tasks, so a
  stop and a start may be queued behind each other. A third session adds no new kind of
  crossing: every operation looks at one older session only, through `mProcessThread`,
  `mManagement` and `mDeviceStateReceiver`; only the list `active` sees more.

### Fairness

Weak fairness is assumed of what the system schedules by itself: a looper runs what was
posted to it, a sleeping thread wakes up, a thread that has something to read reads it,
the process takes its own steps, a process told to quit exits. Nothing is assumed of
users, networks, the screen, revocations or of restarts of the process's own making.
A `recv()` returns finitely many lines (`ProcLoops`), and each thread ends the
`releaseHoldCmd` it has begun (`Releases`).

Strong fairness is assumed in two places. A looper runs its posts in the order of their
times, so new ones cannot keep an old one out for ever, although each new one may disable
it for a while (`ResumeStep`, `DelayDisconnect`). And a network that is given packets again
and again, with numbers or acknowledgements the other end waits for, delivers one of them
in the end; without it a network that loses everything would refute `Drained`. Of the screen,
the timers and callbacks of its main thread, the handler of the service and the binder are
fair; an advertisement is assumed to be dismissed.

In TunSetup the management thread handles what it is asked, and the process asks and reads
on; whether it restarts or a server pushes is left open.

Deadlock is checked in the pause, packet, reliability and screen runs. The session runs
switch it off: a service without sessions, with no start left, has nothing to do. So do
the route runs, where `openTun` is over when the routes are installed, and the tun runs,
whose processes are used up.

## 4. What is proved

TLAPS checks the following for every value of the constants, under the modules' own
ASSUMEs (types of the constants).

| Module | Theorem | Setting | Statement |
|---|---|---|---|
| PauseControlProofs | `TypeCorrect` | any | `[]TypeOK` |
| | `RestartAsksAgain` | any | `[]RestartHolds`: no instance reaches its hold with an old release |
| | `HandshakeImplemented` | `OneLooper` | `PauseControl` implements `HoldHandshake` |
| | `Agreement` | `OneLooper` | `[]HoldAgreement` |
| | `UserPauseHolds` | `OneLooper` | `[]UserPauseEffective` |
| PacketIdProofs | `TypeCorrect` | any | `[]TypeOK` |
| | `AtMostOnceImplemented` | any | `PacketId` implements `AtMostOnce` |
| | `ListIsExact`, `LateIsRefused` | any | `AcceptsExactly`, `LateRefused` |
| | `AcceptedInOrder` | any | `[]InOrder` |
| MCPacketIdProofs | `TcpAcceptedInOrder` | any | `[]TcpInOrder`: `InOrder` of the TCP link |
| | `TcpOnceOnly` | any | `TcpAtMostOnce` |
| VpnSessionProofs | `TypeCorrect` | any | `[]TypeOK` |
| | `EverythingTornDown` | any | `[]TornDown`, at leisure and in haste |
| | `ReplacementWhole` | `~hurry` inside | `[]ReplacedWhole` |
| ReliableLayerProofs | `ReliableTypeCorrect` | any | `[]TypeOK` |
| | `PurgedOnlyReceived`, `NoneRefused`, `NoDeadlockOnReceive` | any | `[]PurgedIsReceived`, `[]NeverRefused`, `[]NoReceiveDeadlock` |
| | `ReliableRefinesFifo` | any | `ReliableLayer` implements `FifoChannel` |
| ConnectScreenProofs | `ScreenTypeCorrect` | any | `[]TypeOK` |
| | `MirrorsStatus`, `SpinnersEnd` | any | `[]StatusMirrored`, `[]SpinnerEnds` |
| | `CancelledHolds` | any | `CancelHolds` |
| TunSetupProofs | `TunTypeCorrect` | any | `[]TypeOK` |
| | `RememberedIsHeld` | any | `[]LastIsHeld` |
| | `CollectedWhole`, `CleanAsRequested` | any | `[]NothingLost`, `[]RequestedIfClean` |
| | `OneDescriptorIsOpen` | any | `[]OneDescriptor` |
| | `ReplacementDiffers` | any | `ReplacedIfChanged` |
| NetworkSpaceProofs | `RoutesTypeOK` | any | `[]TypeOK` |
| | `RoutesPreserved` | any | `[]Preserved` |
| | `RoutesExact` | any | `[]Exact` |
| | `RoutesAsserted` | any | `[]Asserted`: no assertion of a debug build fails |
| | `RoutesDisjoint` | any | `[]Spread(ipsDone)`: what is generated does not overlap, layered and paired routes included |

`OneLooper` is `~Preempt /\ ~BinderCalls`: all calls on the main looper, the preferences as
they may be.

*Handshake.* `HoldAgreement` is not inductive: it is silent while anything is under way.
The invariant `Token` says that a hold is one token, which is at exactly one place: in the
`>HOLD` line, in the handler, in `mWaitingForRelease`, or in the release line. Each action
moves the token or leaves it, and the phase of the abstract handshake is where it is. The
cancelled `mResumeHoldRunnable`s are part of it: one that is left over would be a second
token.

*User pause.* While the user has paused, no release is about to be written, and each one
already written is followed in the socket by a signal that takes it back
(`SignalAfterRelease`). Every preference is included, and several lines per `recv()`. Two
things in the code break it, and they are what `undone` notes: `networkChange(true)`, which
releases a hold without asking, and a `recv()` that has the release and the signal, which
`man_read` then ignores in the hold.

*Packet ids.* The invariant has the types, the fact that whatever was sent comes
no later than the sender's present id (`SentBefore`), that everything received was
sent, and `Remembers`: every identity received is either from an earlier time, below the
window, or has an entry in the list that is not `SeqUnseen`. The lemmas say how pushing,
marking, starting over and reaping act on single entries, so no induction over the list
is needed.

`Remembers` allows the list to refuse too much. That it does not is a second invariant,
`Mirrors`: as many entries as the window or the ids so far allow, and (`Tells`) an entry is
the time of arrival of its packet until it is marked expired; one that is unseen has no
packet, nor a later one that came longer ago than the back-track time at the last pass of
the reaper (`Blocked`); and everything behind an expired entry is expired, where
`packet_id_reap` stops looking. So `packet_id_test` on the list says what
`WindowAccepts` says of the packets, and what has been overtaken for longer than the
back-track time and one interval is expired. Without a window `Row` says that the last
packet of the present time is the one whose id is remembered.

A step of either link of `MCPacketId` is a step of its TCP link or leaves that alone, and
the TCP link is a PacketId without a window: `TcpSteps` says so, and with it the theorems
on PacketId hold for the link.

*Sessions.* `TornDown` speaks of settled states only. The invariant says for every state who
is still to come: a noted profile, or a service that was not told to stop, means that
`startOpenVPN` has yet to launch its process, has failed and is about to call
`endVpnService`, or that the newest session has not finished its own (`EndAwaited`); a
remembered process thread has not yet passed `synchronized (mProcessLock)` on its way out
(`ThreadKept`). An end that meets `mStarting` skips `stopSelf`, which is harmless because
`mStarting` means that the newest session is not launched yet (`Command`). That it is the
newest needs starts to be begun in the order of their ids (`Order`).

`ReplacedWhole` is about a session at leisure that is still up. It is `Lost` once its
process has gone, its socket is closed or a stop is queued; until then nobody may have
touched what its start set up. The invariant `Leisure`
says how the start and the end of the old session are kept apart. One task is under way
at a time (`OneTask`); from `OldStopped` on all older sessions have run their ends to the
last statement (`OthersEnded`); there is at most one receiver and one registration posted
for it (`OneReceiver`); the newest process talks to the socket of its own session
(`OwnSocket`). With these nobody but the newest start touches what it sets up
(`Untouched`), and `ReplacedWhole` is that at the moment the session is up.

*Reliability layer.* The theorems assume `SendSize <= RecSize`. An acknowledgement, in a
list or in a packet, is of something the peer has received (`Truthful`), so what is
deleted is received (`PurgedIsReceived`), so the oldest packet not yet handed on is still
in the send buffer (`NextUnacknowledged`). As the send window begins there (`Spans`),
whatever is in flight or buffered lies within the receive window (`Ahead`, `InFlight`): it
is not refused, and a buffer that is full of distinct ids of that window contains the first. `InOrder`
says that what has been delivered is 0, 1, 2 and so on up to `recId`, which with the
bound on `recId` is the refinement.

*Screen.* `StatusMirrored` needs what is under way: the last of the posted statuses is the
most recent one (`Latest`). `SpinnerEnds` needs the unregistered screen, which has heard
nothing yet or whose service has died (`Unbound`), and the one between the two halves of
its registration (`Binding`). `CancelHolds` needs that `adShown` is set, at which every
runnable stops, as long as there is one that `cancelCOD` has called off and no
`showConnectAd` has revived (`CalledOff`).

*Tun set-up.* `Talk` is the invariant the rest stands on: while a process waits in a
question, that question is in the socket, or the app is sending the descriptor that answers
it, or exactly one answer is in the other direction, and it is one the app may give now
(`Good`). When the process does not wait, nothing of that kind is under way; so an answer
never meets another question, and a new process, which starts when the old questions are
handled, meets none at all. For `NothingLost` and `RequestedIfClean` a second invariant says
how far the collecting is (`AddressIn`, `RoutesIn`, `DnsIn`): what was pushed is either still
left to ask, or in the question the app has not handled (`Pending`), or in `tunConfig`, the
name servers in their order at its end; `OnlyThat` says that a configuration which was empty
has nothing else. At OPENTUN all of it moves to `mLastTunCfg` (`Remembered`). A route that is
dropped because there is no address needs no case of its own: without an address
`establish()` fails. For `OneDescriptor` it has to be known which line carries a descriptor
(`Carried`), which holds until another thread has written while one was sent
(`interrupted`). Of a push the theorems assume nothing but its type.

*Routes.* Two networks are nested or apart (`Laminar`), and the two halves of one are
what is left of it (`Halved`). That needs sizes to be powers of two for every width of an
address, which is an induction: it is done by the least number for which it fails
(`LeastMember`, from the well-foundedness of the natural numbers). From there `SplitSays`
and `DropSays` say what a step of `generateIPList` does to what a set of networks says of
an address: a split around a network changes nothing, and neither does dropping what lies in
another one of its sign, if no network of the other sign is between the two.

That last condition is why `Preserved` is not inductive. To drop a network is right only
because of where the networks came from, which the queue does not say and `Loop` does: each
is part of a route of its sign (`Stems`), and what waits is a route itself, or the lower
half of one that was split around the current network (`LowerPiece`), or the upper half of
one whose lower half is behind or within the current network (`UpperPiece`). Where pieces of
the current network's sign wait at its base, a route of the other sign is between them and
the half (`Shielded`). So an opposed network between the two can be traced back to routes
that are layered or paired, and those two are the only exceptions. `Ordered` says that what
is done lies before the current network, and the queue behind its base; that alone, with
the types, gives `RoutesDisjoint`. For `Exact`, disjoint networks need no most specific one:
dropping the excluded ones, and then what lies in the multicast range, changes nothing for
the other addresses. `Asserted` follows from the same: what overlaps the current network is
within it or begins with it, since two networks are nested or apart, and a network that is
split has a smaller one inside it, of the other sign, and so is no single address.
`TypeOK` needs that a piece of a single address, whose mask is
too long, is not split again, since none comes twice (`Ahead`).

Model-checked only: all liveness (`Reconnects`, `LostNetworkHolds`, `PauseLasts`,
`StoppedEnds`, `Drained`, `Settles`, `Terminates`, `Completes`), since the prover handles
neither fairness nor ENABLED. The invariants and action properties of the passing runs
are all theorems. The proof modules and what they extend have no RECURSIVE operator, and
one recursive function, `PowerOfTwo`; what a fold or a recursion over other data computes
for every input would be out of the prover's reach.

## 5. What is not modelled

- In the pause model: `signal SIGINT` and the end of the session (they are in VpnSession),
  passwords, proxies, remotes and the tun descriptor. `reconnect()` has no caller. A
  network that is present but not CONNECTED changes nothing in the receiver, so it is
  not an event. Java data races below the grain of a handler's steps (visibility of
  unsynchronised fields) are not modelled: a step reads the latest value.
- In VpnSession: `onDestroy`, since `ExternalOpenVPNService` keeps the service bound
  (`ExternalOpenVPNService.java:107-109`); a start without a profile; the failure of
  `ProcessBuilder.start`, which cancels the future that `startOpenVPN` waits on and so
  throws a `CancellationException` nobody catches; OpenVPN 3. A stop that arrives
  before the management socket is accepted is lost, in the model as in the code.
- `--replay-persist`, which no profile of this program asks for.
- Of `ssl.c`, key exchange, renegotiation and lame duck keys: they depend on what the TLS
  library and the clock report. What is left out of the reliability layer, of the screen
  and of the routes is said with those modules above.
- `AdManager`'s loading, limits and expiry: what the advertisement library and the remote
  configuration answer decides there. `loadAdFromList` has early returns that leave the
  loading flag of a slot set (`AdManager.kt:74`, 100); ConnectScreen holds whether a slot
  can load again or not.
- In TunSetup: MTU, search domain, proxy and the allowed apps; a socket that
  refuses a descriptor (`sendCommandWithFd` then answers "cancel" and keeps its copy of the
  tun). PROTECTFD, by which the process has its sockets protected.
- The keep-alive job: a scheduled start like any other of VpnSession's. The log buffer,
  traffic history and `OpenVPNStatusService`: they feed views; the last repeats the
  registration of `ExternalOpenVPNService` that StatusRelay has.
- `ConfigParser`, `ProfileManager`, `LaunchVPN`, `CIDRIP`: text and preferences. The
  session timer and the remote configuration: one looper, or plain HTTP.
- The vendored libraries (OpenSSL, mbedTLS, lzo, lz4, asio, fmt, openvpn3) and the parts of
  OpenVPN 2 an Android client does not reach (server mode, other platforms' tun devices).

## 6. Plan

What is left, in this order.

1. **The loading of advertisements** (`AdManager.loadAd`) with expiry and the flag of a slot,
   and the keep-alive job as a source of starts in VpnSession.
2. **NetworkSpace.** That the loop ends is a matter of a decreasing measure of the
   queue; it is checked, and a proof would need sums over bags.

## 7. Running it

`tlc -config PauseCalm.cfg MCPauseControl` and so on; each cfg names the run it is for.
The MC modules hold nothing but what TLC needs. `tlapm PauseControlProofs.tla` and the
other `*Proofs` modules check the theorems. The operators marked `fault:` in the modules
are mutations: each replaces the definition that follows it, with the same parameters, to
show that a property can tell the two apart.
