# Twilight Line for Android: TLA+ models

Twilight Line is an Android VPN app. A Java front end turns the VPN on and off;
a native program, `tun2socks` (derived from BadVPN), reads the IP packets of the
VPN's TUN device, terminates TCP in an lwIP stack of its own and relays each
connection to a local SOCKS server (`tlclient`, not in this repository); UDP
packets are wrapped and sent to a "udpgw" server (not in this repository either)
over one long-lived SOCKS connection.

Paths below are relative to `src/app/src/main/`; `V/` stands for
`java/com/brickredstudio/twilightline/`, `B/` for `jni/badvpn/`.

## Inventory

| Component | State | Operations | Talks to | Hard parts |
|---|---|---|---|---|
| Activity and presenter (`V/MainActivity.java`, `V/MainActivityPresenter.java`) | the switch (checked, enabled), the settings (enabled), an open permission dialog | press, permission result, `onCreate`, `onDestroy` | ProxyManager (calls, callbacks) | recreated at any time while an operation is under way; callbacks into a destroyed activity |
| ProxyManager (`V/ProxyManager.java`) | `status`, two callbacks, `proxyServiceMessenger`, the bound connection | `start`, `stop`, connection events, two answers | service, by Messenger and binding | answers that never come; a service that goes away; late events |
| Service (`V/TwilightLineVpnService.java`) | `clientMessenger`, VPN descriptor, two process handles | start request, stop request | ProxyManager; runs `tlclient` and `tun2socks`; sends the descriptor over a local socket | four steps that fail separately; a blocking retry loop; outlives the main process |
| Settings (`V/SettingsManager.java` and the fragments) | config name, per-app flag, set of apps, cached from SharedPreferences | setters, add, remove | read when the service is connected | an app uninstalled after the cache was filled; the empty set |
| TCP relay (`struct tcp_client` in `B/tun2socks/tun2socks.c`) | see below | lwIP callbacks, SOCKS events, send and receive completions, termination | lwIP pcb (callbacks from inside `tcp_input()`), BSocksClient (reactor jobs) | re-entrancy (`SYNC_COMMIT`), half-closed states, who owns the pcb, flow control |
| lwIP (`B/lwip`) | pcbs, windows, send queues | `tcp_input`, timers, `tcp_write`, `tcp_recved`, `tcp_close`, `tcp_abort` | relay, TUN device | vendored |
| udpgw client (`B/udpgw_client/UdpGwClient.c`, `B/tun2socks/SocksUdpGwClient.c`) | connections in a list and two trees, `next_conid`, `keepalive_sending`, the link (`have_socks`, `socks_up`, `have_server`, timer) | submit, receive, keepalive, connect, disconnect, reconnect | fair queue, connector, SOCKS client | reuse of ids, packets kept across a lost link, order of jobs |
| SOCKS client (`B/socksclient/BSocksClient.c`) | one of ten states, buffer, stream operations | connect, handshake steps, error, free | BConnection, its user | freed from inside its own callbacks |
| Jobs and reactor (`B/base/BPending.c`, `B/system/BReactor_badvpn.c`) | stack of pending jobs, timers, descriptors | set, unset, execute, synchronize | everything native | last-in first-out order is relied upon |
| Packet flow (`B/flow`, `B/flowextra`) | queues, virtual times, packets in transit | send, done, schedule, connect and disconnect the output | each other, one operation at a time | cancelled operations, time overflow, framing across a reconnection |
| Sockets and TUN (`B/system/BConnection_unix.c`, `B/tuntap/BTap.c`) | pending send and receive, limits | send, receive, error | reactor, flow | order of completion and error |
| Never started or not built | `socks_udp_client` (`socks5_udp` is always 0), Windows, GLib, Emscripten files | | | |

What makes each correct:

* Proxy control: an answer belongs to the operation that waits for it; RUNNING
  means that traffic is proxied and IDLE that nothing is left; no program becomes
  unreachable; a switch tells the truth and is never disabled for good.
* TCP relay: relay and lwIP agree on who owns the pcb; no callback survives its
  client; ERR_ABRT is returned exactly when the pcb was aborted under
  `tcp_input()`; no buffer is overrun; no byte is lost, repeated or reordered; no
  client waits for something that cannot happen; half-closed clients are freed.
* udpgw client: the tables agree; a first packet says REBIND; packets of a
  connection stay in order across a reconnection; exactly one of connection,
  attempt and timer exists; one keepalive at a time.
* Jobs, flow, sockets, SOCKS client: one operation at a time on each interface,
  every accepted operation is completed or cancelled once, fairness between flows.

## Modules

| Module | Models | Checked by | Proofs |
|---|---|---|---|
| `TcpRelay` | the TCP relay and the pcb it drives | `MCTcpRelay` | `TcpRelayProofs`: its safety properties |
| `ProxyControl` | activity, ProxyManager, service, hand-over of the descriptor | `MCProxyControl` | `ProxyControlProofs`: its safety properties |
| `PerAppProxy` | what the service makes of the per-app choice: extends `ProxyControl` | `MCPerAppProxy` | `ProxyControlProofs`: its safety properties |
| `Settings` | the per-app choice: the rows that edit it, memory and disk | `MCSettings` | `SettingsProofs`: its safety properties |
| `UdpGw` | UdpGwClient, SocksUdpGwClient, and the flow modules between them and the stream | `MCUdpGw` | `UdpGwProofs`: its safety properties |
| `FairQueue` | the virtual times by which the flows of `UdpGw` share the output | `MCFlow` | `FlowProofs`: its properties, fairness among them |
| `Fifo`, `PacketBuffer` | what the queue of a connection promises, and the ring of blocks that keeps it | `MCFlow` | `FlowProofs`: its properties, the refinement among them |
| `PacketStream` | framing: packets cut into bytes and back, over connections that are lost | `MCPacketStream` | `FlowProofs`: its safety properties |
| `SocksClient` | the SOCKS 5 handshake | `MCSocksClient` | `SocksClientProofs`: its safety properties |
| `Connection` | a non-blocking socket with its two operations | `MCConnection` | `ConnectionProofs`: its safety property |
| `Reactor` | the stack of jobs, timers and descriptors | `MCReactor` | `ReactorProofs`: its safety properties |

How they fit. `TcpRelay` and `UdpGw` are the two halves of `tun2socks`; both take an
event of the reactor with the jobs it sets off as one step or as a nested sequence
of steps, which is what `Reactor` shows to be so. `UdpGw` leaves open which flow goes
next, and takes a queue for a sequence and the stream for something that takes a packet
whole or in part; `FairQueue`, `PacketBuffer` and `PacketStream` are what is
behind these three. The events `up`, `error` and `closed` of a SOCKS connection that
`TcpRelay` and `UdpGw` react to come from `SocksClient`, which runs on `Connection`.
`ProxyControl` starts and stops the program. `Settings` is how the choice of apps comes about;
`PerAppProxy` composes the steps of `ProxyControl` with when that choice is
read and what the service makes of it.

### TcpRelay

`cl[i]` is a slot for a connection: the fields of `struct tcp_client` under their
own names, and the part of the lwIP pcb the relay depends on (`pcb`, `rcv_wnd`,
`sndq`, and `cb`, the callbacks registered with `tcp_err`, `tcp_recv` and
`tcp_sent`). `buf` is `client->buf[0 .. buf_used)`; `rbuf` the part of
`socks_recv_buf` not yet given to `tcp_write()`; `sending` and `receiving` are the
operations in progress on the SOCKS stream; `dead` is `dead_aborted` and whether a
DEAD_ENTER block is watching it. `net[i]` counts how far each stream has got, which
makes "no byte lost or reordered" expressible: a byte is its position in its stream.

Each helper of `tun2socks.c` that takes a client (`client_free_client`,
`client_abort_client`, `client_free_socks`, `client_murder`, `client_dealloc`, ...)
is an operator of the same name from the old client to the new one, so that an action,
like the C function, is a composition of them. A failed `ASSERT` clears `ok`; the Android
build defines NDEBUG and would go on.

lwIP runs the callbacks of one segment from inside `tcp_input()`: sent, then data,
then FIN, and three of them run reactor jobs (`SYNC_COMMIT`) before they return.
`input` is the segment in hand and the stage it has reached; `SegmentArrives`,
`SentEvent`, `RecvEvent`, `FinEvent` and `SyncCommit` are the steps. The stages
ending in "sync" are inside a SYNC_COMMIT, where jobs (`SendDone`, `RecvDone`,
`SocksUp`, `SocksEof`, `SocksError`) of that connection may run; otherwise they run
from the event loop. `PcbDies` is a reset, a timeout or a pcb taken by lwIP for
another connection; `OrphanAck` and `OrphanGone` follow a pcb the relay has let go
of; `Terminate` is the loop over `client_murder` at exit.

Abstractions: sequence numbers and retransmission are gone (a segment acknowledges
bytes and brings new ones); lwIP's refused-data path cannot be taken, because
`client_recv_func` never refuses (`AssertsHold`); memory errors of `tcp_write()` and
`tcp_output()` are the booleans `oom` and `fail`.

### ProxyControl

`ui` is the activity on the screen; older ones survive only as "stale" callbacks.
`pm` is ProxyManager with the system's end of its ServiceConnection (`bound`,
`connected`). `svc[s]` are the fields of an instance of the service: `clientMessenger`, whether it has
a descriptor, whether its `tlclient` runs, and which `tun2socks` its handle refers to;
`orphans` records that a handle of a running program was overwritten. `current`
is the instance Android counts as running: a destroyed instance still gets the
messages sent to it, since its looper lives on. `toProxy` and `toMain` are the two
message queues. `job` is the loop of `startTun2Socks()`, which blocks the looper of
:proxy; every other handler is one step.

The processes are separate from the instances that started them, for a `tun2socks` may be left over.
`tun2socks[p]` is how far one has got with `android_wait_for_vpn_fd()` (`Tun2SocksListens`,
`Tun2SocksGetsFd`), and `path` the one that bound the socket's file last: the name of the
file is fixed, so that `FdSent` reaches whichever process that is, perhaps one an earlier start has left,
and perhaps one that has taken its connection and closes. `vpn` is the instance whose interface is
up. It stays up until all copies of its descriptor are closed (`VpnWith`), is replaced by the
next one that is established, and a process that reads from the descriptor of one that is no more
ends (`WithoutDevice`). `Revoked` takes it away under the service, which then stops itself
and tells nobody.

Android (creation and destruction of services and activities, process death) is
external, and nondeterministic within the constant `Faults`. What has gone wrong so far is
remembered in `mishaps`: a start that failed, a service that is gone, a program or :proxy gone
without notice, an interface revoked, a descriptor given to a process that no longer waited for one, a main
process that died. Each property says after which of them it promises nothing; `RunningMeansProxied`
does after those of which the manager is not told (`Unnoticed`). An unanswered send to a
dead process and a caught exception have the same effect in this code, and are
one case here: the message is lost. `Unpressed` is a switch that changes by a keyboard or an accessibility
service: the listener ignores it, and what the switch says from then on is nobody's promise.

What the model shows about the code as it is, beyond the properties: a start that
fails leaves the manager in STARTING and the switch disabled until the process ends;
so does, for STOPPING, the death of the service; an activity created while the proxy is not IDLE
shows a switch that is off and enabled, and pressing it disables it for good; a
stop request that a main process has left behind stops what the next one starts; a revoked
interface leaves the app at RUNNING; after a start that was slow and a death of the main process, the
`tun2socks` of that start can get the descriptor of the next, and the service that would stop it
knows another one. No document of the repository says otherwise, so that these are not listed as findings;
the properties are stated for the cases the code does handle.

### UdpGw

`con`, `by_conaddr` and `list` are the two trees and the list of `UdpGwClient`;
`num_connections` is the length of `list`. `queue[c]` holds the packets in the
`PacketProtoFlow` of connection `c`; its head stays there, and is sent from there, until it
has been written. `pipe` is what the packets of all connections pass through:
`PacketPassFairQueue` (`sending`), `PacketPassInactivityMonitor` (`timer`),
`PacketPassConnector` (`output`) and `PacketStreamSender` (`stream`: nothing, a whole
packet, or a rest of one to be written). `link` has the fields of `SocksUdpGwClient`.
`accepted`, `written`, `server` and `rebindLost` are history.

An action is an event of the reactor with all jobs it sets off. This is sound because
jobs are run last-in first-out and all of them before the next event: the jobs an event
handler or a job sets run before anything that was set earlier, such as the job of the
next packet from the device or of a failed receive (`SyncRunsWhatItSetOff` and `LoopAgrees` of
`Reactor`). Which flow the fair queue picks depends on its virtual times
and is left open here; `FairQueue` has them. `StartPacket` says when a packet finds room:
always while fewer than `send_buffer_size` are queued, since the buffer has blocks for that many
of full length; never when `MaxBuffered` are; and perhaps in between. The contents
of packets, among them the DNS and IPv6 flags, and the checks of their headers are
data. Two things the model shows that may surprise: a packet with REBIND is dropped like any
other when the queue it inherits is full, and an answer on its way when an id changes
hands between two local addresses that talk to the same remote one goes to the
new one. Nothing in the repository promises otherwise; `RebindAnnounced` is stated with the first as an
exception, which for an id is permanent, and there is no property about the second.
The server is external: it remembers for each id the last pair it got
on the current link, and answers from it at any time.

### FairQueue

`time`, `queued`, `sending_flow`, `previous_flow`, `schedule_job` and `freeing` are the fields of
`PacketPassFairQueue` and its flows; `queued` stands for the tree, whose order is that of
`time`. Numbers are unsigned with `FAIRQUEUE_MAX_TIME` as the largest one (`Wrap`), so that the
shift before an overflow, and the wrap of the sender's own time below zero on the way, happen
within a few packets. Which of several flows with the least time is sent is left open. `ahead`
and `served` are history: by how much one flow got more than another while both had packets.

What it shows: times start again from 0 whenever the queue is empty for a moment, while a flow
keeps its own. A flow that comes back then waits until the others have caught up with it,
which has no bound but its own time. `FairOnceServed` therefore counts from the first
packet that a flow gets served; from there on the promise holds across shifts of the times.

### Fifo and PacketBuffer

`Fifo` is what a packet buffer promises: packets come out whole, once and in order. `PacketBuffer`
is the ring of `ChunkBuffer2` (`len` and `data` are what its blocks hold, `wrap`, `start`, `used` its
fields) with the receiver and the sender of `PacketBuffer.c`. `lent` is the place the input was
given: it writes there whenever it likes until it is done (`InputWrites`), also where a wrong
place would overwrite a packet. `sent` is what the output was given. The refinement mapping
`Contents` reads the packets out of the blocks as the code does, from `start` and from each to the next by its
length. `places` is history: where the packets that were put in began. A packet that is not found there (`Found`),
or a block that should have been a length but holds something else, makes the packet `Corrupt`, which `Fifo` cannot explain.

### PacketStream

The pieces below a packet of `UdpGw`: `PacketPassConnector` keeps it (`in_len`) while there is no
stream and sends it again from its first byte, `PacketStreamSender` writes pieces
(`in_used`), `PacketProtoDecoder` reads pieces into `buf[buf_start ..]`. A byte is its
packet and its place in it, so that a header read from the wrong place shows (`misread`). The
same module stands for both directions: the udpgw server frames in the same way. A packet longer than
the decoder takes costs the connection, as in the code (`decoder_handler_error`).

### SocksClient

`state` and the one `buffer` are those of `BSocksClient`; `out` and `out_left` what is being sent,
`recv_len` and `recv_total` what is being received, `content` the bytes received into the
buffer. The server sends any sequence of replies, right and wrong, in pieces and ahead of time, closes or fails;
the user frees the client at any time. `sent`, `read` and `events` are history.

### Connection

`send` and `recv` are the states of the two operations, `send_count` and `recv_count` the limits
(`BReactorLimit`), `wait_events` and `is_hupd` what the descriptor is monitored for, `jobs` the
jobs of this connection, newest first. The peer, the network and the room in the
socket's buffer change between any two steps. `epoll_wait` reports what is so at the moment it returns,
and what has changed before the handler runs is stale by then. An error can be reported with or without a hangup.

### Reactor

`jobs` is the stack of `BPendingGroup`; a `sync_mark` is a member of it, named by the depth of the call
that owns it. `calls` are the handlers that are being run: one that has called
`BReactor_Synchronize` is `syncing`, and `below` remembers what was pending under its mark. `timers`, `expired`, `fds`,
`results` and `pos` are the fields of the epoll build, `returned` is `epoll_returned_ptr`. What a
handler does is arbitrary, one operation a step: it sets, unsets and frees jobs, sets and removes
timers, adds, removes and changes descriptors, synchronizes, quits. Time (`Tick`) passes anywhere.

### Settings

`perAppProxyEnabled` and `proxyApps` are what `SettingsManager` has in memory, `preferences` and `disk`
what was given to `SharedPreferences` and what has been written of it. `fragment` is the view of
`SettingsFragment`: a new one for each activity, enabled whatever the proxy does, its list shown and removed by a
`commit()` that is posted and runs later (`CommitRuns`). `list.apps` is a snapshot of the installed apps made when
the list is shown, so that an app that is no longer there can be chosen.
`rows` are the views of `EditPerAppProxyFragment`, which Android binds to other apps as the list is scrolled: binding sets the switch
while the listener of the app before is still in place, and only a press counts (`ListenerHeeds`). The
user may toggle a switch without a press, by a keyboard or an accessibility service: the row then shows what was not chosen,
which `slipped` remembers. `wanted` is history: what the user has pressed. Apps are installed and removed, activities destroyed, settings
disabled by the presenter, and the main process dies, at any time. The name
of the proxy configuration is a string passed on and not modelled.

### PerAppProxy

Each action that begins with a capital (`StartProxy`, `ProxyServiceConnected`, `StartProxyRequest`, ...) is the step of
`ProxyControl` of that name together with what it does to the settings, to the list and to the tunnel; `Elsewhere` has
those that do nothing to them. `contents[k]` is what the request `toProxy[k]` carries. `onProxyServiceConnected()` reads the settings, in a
later message of the main looper than `ProxyManager.start()`: between the two the looper runs what was posted
before, the removal of the list among it (`list.pending`, `list.ahead`), and a press of a row that is still shown
counts. `tunnel` is what `startVpnService()` makes of a request: a builder with some allowed apps takes those, any
other takes all but the disallowed (`Scope`), and an app that is not there makes it fail (`Refused`). The service, its requests and
its interface outlive the main process; the next one may find any choice on its disk, so that nothing is assumed of what was written.

`meddled` is history: the settings were changed by an activity that was not `clean` (created while the proxy was not off)
since they were last read. In such an activity the settings are enabled while they are in use, and the tunnel does not
follow; no document says that it should. `gone`, and `removed` in a request, are the apps removed since a main process
began: an interface knows apps by the user id they had when it was established.

## Runs

| Run | Instance | Shows |
|---|---|---|
| `tcp_relay` | 2 connections, window of 2, send buffer of 1, `socks_recv_buf` of 2 bytes; 3 bytes up, 2 down | every field in range, no ASSERT fails; window = free buffer and pending = queued (`CountersAgree`); nobody is stuck; order of bytes; no pcb and no callback dangles; ERR_ABRT is returned exactly after an abort; no early close |
| `tcp_relay_live` | 1 connection, with fairness | half-closed clients are freed |
| `proxy_control` | 2 instances of the service, 2 programs, 2 attempts, all faults, with fairness | answers match operations; IDLE means stopped; nothing orphaned; the switch tells the truth and comes back; RUNNING means proxied |
| `udpgw` | 2 ids for 4 pairs of addresses, queues of 1 or 2 packets, 3 packets, 1 answer on its way, with fairness | tables, link and pipe agree (nothing stalls, keepalives only when idle), order and completeness across lost links, REBIND, queues drain |
| `reactor` | 2 jobs, 2 timers, 2 descriptors, handlers 3 deep, 3 operations per event, with fairness | the loop's structures agree; a handler that synchronizes runs what it has set off and nothing older; no stale event; due timers run |
| `flow` | 3 flows, times up to 7, packets of 1 and 2; blocks of 2 bytes, packets of 0 to 3, room for 2 | times in range and in order across shifts, work conserving, fair; the ring implements `Fifo`, loans stay valid, neither side is forgotten |
| `packetstream` | 4 packets of 0, 1, 3 and (too long) 4 bytes, 3 streams, all ways to cut them, with fairness | the decoder never misreads and has room when it asks; packets come in order, once; all are delivered on a stream that stays |
| `connection` | limits of 2, 6 bytes, with fairness | operations, events and jobs agree; the user is told the truth; operations end; the loop is given back |
| `socksclient` | both methods, 4 replies | one use of the buffer at a time; never idle; up only after what the protocol asks for; events in order |
| `settings` | 2 apps, 2 rows | the choice is what the user has pressed, and is kept |
| `per_app` | 1 instance, 1 program, 1 app that comes and goes beside this one, a builder that fails, the death of either process | the tunnel takes what was chosen, by each main process; a start is refused only for an app that was removed |
| `per_app_self` | the same | a disagreement, see below |

`per_app_self` is expected to fail. `startVpnService()` keeps the app itself, under whose user id
`tlclient` runs, out of the tunnel in both of its branches: it is disallowed when the choice of apps is
off, and left out of the allowed apps when it is on. But when the choice is on and no app is
chosen, the builder is given no list at all, which to Android means every app: this one too, whose way
to its server then leads into the tunnel.

Bounds. In `tcp_relay` the streams are longer than the buffers, so that partial writes, a full window,
and a full send buffer all occur, and two connections interleave, which
ownership and callbacks depend on; its safety properties are proved for all sizes, and those of
`proxy_control`, `settings`, `per_app`, `reactor`, `connection` and `socksclient` for all values of their constants. For
`ProxyControl` two instances suffice for an old one with leftovers and a new one;
two attempts are "not the last" and "the last"; two programs are one that an earlier start has left and one that is started; `QueueBound` limits how many requests dead
main processes may leave in the queue of a blocked looper. What goes wrong in a behaviour is of two of the kinds in
`mishaps` at most (`TwoKindsOfMishap`), as often as it likes: a third is only reached as a last step. Two are a start that
fails and a main process that dies, after which a `tun2socks` is left over that waits for the next start's descriptor, and
each other pair. `PerAppProxy` takes the looper and the requests from `ProxyControl` and needs of its faults only those that
change what becomes of a request; one app beside this one is installed or not, chosen or not. In `udpgw` three packets are
enough to use both ids, overflow a queue and take an id from its pair, and how often the link is
lost, keepalives are sent and attempts fail is not bounded; the safety properties are
proved without bounds. In `flow`, of which a behaviour is one of `FairQueue` or one of `PacketBuffer`, times reach their maximum after four of the larger packets, and
the number of packets is not bounded; its properties are proved for all sizes. The ring of nine blocks ends early for some sequences of
lengths and not for others, and runs without end. In `packetstream` the buffer holds the largest packet
and its header, so that two small packets and a part of a third fit, and a rest has to be moved.
`MaxOps` and `MaxDepth` of `reactor` allow a synchronization within a synchronization, and the removal and renewed
addition of a descriptor with its event still to be handled; a loop runs for any number of events. One kind of event
to wait for is enough there, as HUP is another that comes unasked. The delay of a timer is 1, and the order of
timers comes from when they are set. `connection` has more bytes than the limit lets through
in one go. In `socksclient` four replies are one more than a handshake takes. In `settings` a row that
waits is bound to the other app or to the same.

Fairness. `TcpRelay`: `tcp_input()` returns (weak); lwIP retransmits until data is
acknowledged or gives the pcb up, a SOCKS handshake ends in success or error,
and the server keeps reading (strong, because another connection's `tcp_input()`
interrupts the event loop). The model does not assume that the server ever sends,
that an app ever closes, or that errors occur. `ProxyControl`: loopers handle
their queues, Android reports a connection, `tun2socks` reaches `listen()` before
the attempts run out, and the user answers the dialog. `UdpGw`: timers run out
(weak); an attempt to open the link, its handshake, and the writing of a packet succeed if they
are tried again and again (strong: the link may be lost between any two tries). Failures
are never assumed to end. `Reactor`: the loop and the handlers go on, and `epoll_wait` returns when the
first timer is due; that descriptors are served is not claimed, and is not so if timers are always due
(those of `tun2socks` are 250 ms and longer). `PacketStream`: the connection moves what it is asked to move, and
the output of the decoder comes back. `Connection`: the loop goes on; the socket owes nothing.

## Proofs

`TcpRelayProofs` proves, for every set of connections and all buffer sizes
(`SizesAssumption`: sizes are positive, stream bounds natural; `ClientsAssumption`:
`NoClient` is not a connection):

* `TypeCorrect`: `Spec => []TypeOK`, which contains the bounds of `client->buf`,
  `socks_recv_buf` and the send queue. One lemma per operator says that it maps a
  well-typed client to a well-typed client.
* `OwnershipHolds`: `Spec => []Ownership`. None of the three properties below is
  inductive by itself: that a pcb is alive while a client is open depends on what
  the callbacks on the stack will return, that in turn on `aborted` and `dead`, and
  all of it on the stage of `tcp_input()`. `Ownership` states the relation
  between these: `Core` for every slot at all times, `Owned` for a client between
  operations, and two clauses that tie `dead` to the stage. The helper lemmas
  (`Mine`, `SameOwner`, `Kept`) say which operators keep ownership and which give it up.
* `PcbNeverDangles`, `CallbackNeverDangles` (together `NothingEverDangles`) and
  `AbortsAreReported`: `NothingDangles` and `AbortIsReported` of `tcp_relay`, from `Ownership`.
* `FlowHolds`: `Spec => []FlowInv`, on top of the two invariants above. For a client between
  operations (`Flow`): no ASSERT has failed, and the flags say what it waits for (`Steady`); while
  its pcb is its own, the window and `buf` add up to `TCP_WND`, what the app has not acknowledged is
  `socks_recv_tcp_pending`, and each buffer holds the bytes of its stream from the one after the last that
  was passed on (`Window`, `Pending`, `Upward`, `Downward`). `CountersAgree` is not
  inductive because within one segment lwIP has taken data out of the window that the relay has
  not got yet, and dropped bytes from the send queue that `tcp_sent` has not told of: these
  are the parameters `held` and `acked`, and `InOrder` says at which stage of
  `tcp_input()` they can be other than zero. `AssertsAlwaysHold`, `CountersAlwaysAgree`, `NoClientGetsStuck` and
  `BytesStayInOrder` follow from it.
* `ClosesAfterDelivery`, an action property: outside the callback of the app's FIN, a client that
  closes its pcb finds `pending` zero and `rbuf` empty, and `Downward` makes this all that the server sent.

`ProxyControlProofs` proves the safety properties of `proxy_control` for any number of instances of
the service, any numbers of attempts and requests, and any `Faults`. `ControlInv` says for each
status where the one operation of the manager can be (`WhenIdle`, `WhenStarting`, `WhenRunning`,
`WhenStopping`): at the system, in the queue of a looper, at an instance, in the blocking
loop or in the queue back. `OneService` is what makes this inductive although main processes come and go: only the last
request in a queue is this process's, and no request that an earlier process left stands between it
and the instance that answers. `Running` says that what was started serves until it is asked to stop, `FirstProcess` that as long as
no main process has died every request, every program and the interface is this one's, and `Switch` relates the
switch to the status; each up to the mishap that ends what the code promises.

It also proves both properties of `per_app`, for any apps, on top of that: `PerAppNext` is a step of `ProxyControl` or none of its
business (`PerAppSteps`), so that `ControlInv` holds of `PerAppSpec` too. `PerAppInv` follows the choice: what is in
the queue is what the settings are (`Sends`), what is up was made for them (`Takes`, `Fits`), and this stays so because the list that a
clean activity still shows goes away before the settings are read (`GoesFirst`). `Removed` accounts for each app that is
chosen or asked for and not there. `Quiet` is what most steps have in common: they neither read the settings nor handle a request.

`SocksClientProofs` proves both properties of `socksclient` for any methods and lengths, any number of
answers and all ways to cut them. `InState` gives for each of the ten states the use of the buffer, the
operation in progress, what was sent and read, and what the user was told. That the address after
a reply's header is there whole, and not the tunnel's first byte, needs
something about the server's side: what it sent consists of whole answers (`WholeAnswers`). It is proved locally,
as what has to follow a byte that grants the request (`Granted`).

`ConnectionProofs` proves `ConnectionAgrees` for all limits and any amount of data. `connection_send` and
`connection_recv` run in the middle of a handler, when what is monitored and what is pending are its
local values, so that `Sending`, `Receiving`, `WaitsOn` and `Reported` are stated over these: at the calls
(`SendKeeps`, `RecvKeeps`) they say of the parameters what they say of the variables between steps. `WaitsOn` is
the strengthening: when an error makes the handler go on with a receiver that is still
waited for, there is nothing to read, or the limit makes it wait again, so that it never completes while its event stays
monitored.

`ReactorProofs` proves the three safety properties of `reactor` for any jobs, for finite sets of timers and descriptors, and for any
depth and number of operations. `Stacked`: the marks on the stack of jobs are exactly
those of the calls that wait in `BReactor_Synchronize`, what stands below a mark is what was there when it was
set but for jobs unset since, and the marks of outer calls are below those of inner ones. So the job
that runs next is never a mark, and a mark is found on top by the call that owns it
(`SyncRunsOnlyItsOwn`). `Polled`: results and `epoll_returned_ptr` refer to each other, what is left of a result is
what epoll reported since the descriptor was added, and nothing is left when epoll is asked again
(`NoEventIsStale`). `Timed`: the list of expired timers has each of them once, ordered by their time. Lists that
elements are taken out of are written with `RemoveFirst`; what it leaves is
proved from its definition (`Removed`, `Without`), which a recursive filter would not allow.

`UdpGwProofs` proves every safety property of `UdpGw`, for any sets of addresses, any
`max_connections` and any sizes of queues (`SizesAssumption`: they are at least 1,
and `MaxBuffered` is not below `send_buffer_size`; `NamesAssumption`: `NoAddr` is not
a pair of addresses, `KeepaliveFlow` and `NoFlow` are not ids):

* `IInv` is the inductive invariant, a conjunction of parts that have a lemma each for the
  initial states and for a step. `LinkInv` adds to `LinkAgrees` that there is no
  server after `Free`. `PipeInv` says that the stages of the pipe agree with each other and
  with the queues (`Consistent`), and that the pipe has a packet when there is one
  (`Busy`); `PipeFacts` shows it equivalent to `NothingStalls` and `KeepaliveWhenIdle`
  together, neither of which is inductive alone, and `PipeAlwaysAgrees` is their conjunction. That a packet is taken only from a
  queue that has one, which typing and order need, comes from it.
* The four ways of a packet from the device change the pipe, the queues and their
  histories only in `connection_send`, so that each part has one lemma about that
  operator (`SendTypes`, `SubmitKeeps`, `SendPipe`, `SendOrder`, `SendRebind`).
* `TablesAgree` is inductive given the types; `PairTakesId` is its core, and
  `MovedToEnd` says what `MoveToEnd` does to a list.
* `RebindIsAnnounced` proves an action property. Its invariant, `RebindInv`, follows a
  queue from what the server knows of the id to the pair the id has now: wherever
  the pair changes along it, a packet has the flag. Together with a step that
  takes the head of the queue, this is `RebindAnnounced`. `RebindInv` needs
  `TablesAgree`, since a packet of a known pair is queued without the flag.

`SettingsProofs` proves the property of `settings` for any sets of apps and rows
(`ChoiceIsAlwaysKept`). It needs that a row that is shown is bound to an app (`Bound`) and that no editor outlives its
process (`Lives`).

`FlowProofs` proves the three properties of `FairQueue` that `flow` checks, for any flows, any sizes of packets and
any `FAIRQUEUE_MAX_TIME` (`FairQueueAssumption`: sizes are positive and none is above it, as
`PacketPassFairQueue_Init` demands):

* `QueueAlwaysAgrees`: the inductive invariant adds `Order` to the property: the flow that is being sent
  has the least time of all that wait, and a flow that has just been sent has a job to follow it.
* `ServiceAloneCounts`, an action property: `IncrementShifts` says that shifting the times down by the
  least of them keeps every difference, and `WrapBack` that the time of the sender, which wraps
  below zero on the way, is back in range when its packet is added.
* `FairnessHolds`: `FairInv` ties the history `ahead` to the times: a flow that was served is at most one packet
  past any other that waits, and what another got more than it is what that one is past it, but for
  one packet. Together this makes two packets, so that `Tolerance` must be at least 2, as it is in the run.

It also proves the safety properties of `packetstream`, for any header, any limit of the decoder, any packets and any number
of streams (`PacketStreamAssumption` only asks for a header of at least one byte):

* `DecoderAlwaysAgrees`: the inductive invariant `StreamInv` speaks of the `Line`, the bytes in the decoder's buffer and after
  them those of the stream. Each byte of it has the place after that of the byte before, or begins
  the next packet (`OnePiece`, `InOrder`); it begins with the packet that is due (`Begins`) and ends with what is
  written so far of the last (`Ends`). `Longer` keeps this when bytes are written, `Shorter` when a packet is
  cut off the front, `LineMoved` and `LineRead` when bytes are only moved. All of it is said of two
  neighbours or of one packet's bytes, so that nothing has to be summed up over the packets in between.
  `DecoderAgrees` alone is not inductive: it does not say what is still on the stream.
* `NextIsInOrder`, an action property: what `process_data` gives out is what the line begins with.

And it proves both properties of `PacketBuffer` that `flow` checks, for any sizes of blocks and packets and any number of packets
(`PacketBufferAssumption`: each is at least 1):

* `BufferAlwaysAgrees`: the inductive invariant `RingInv` has two parts beside the property. `RingOK` is about the fields
  of the ring alone: where it does not wrap around it has not ended early and has room for the largest packet, where it
  ended early there was none. `Packets` says that each packet begins where the one before ends (`Chained`), in order of the
  logical place `Off` (`Ordered`), in one piece and within the data (`Lies`). `Submitted` and `Consumed` keep the first,
  whatever the ring's end does, `PacketsSubmitted` and `PacketsConsumed` the second. `Apart` says that what is lent has
  no block of a packet in it. That less than `num_packets` packets leave room comes last (`RoomForTwo`): a packet takes
  `1 + mtu` blocks at most, and the one spare chunk of `ChunkBuffer2_calc_blocks` makes up for what is lost where the ring ends early.
* `ImplementsFifo`: the refinement. `FifoPut`, `FifoGet` and `FifoRests` map each action to `Put`, to `Get` or to a stutter. To
  say what is in the ring without recursion, which needs induction over data, `Contents` follows the history `places`.

The three components share a module, and the names of `PacketStream` and `PacketBuffer` that `FairQueue` has too
(`StreamInit`, `BufferNext`, `PacketProtoDecoder_input_handler_done` and so on) are longer for it.

Every safety invariant, action property and refinement that a passing run checks is proved. Liveness, and any statement about
ENABLED, stay with TLC: they are out of the reach of the installed provers.

## Plan

What is there: every component of the inventory that keeps state of its own and is started on Android, but for the
TUN device. What is left, in order:

1. An abstract `Relay`, a pair of pipes with a half-close each, implemented by `TcpRelay`.

## Not modelled

* Fragments that Android restores into a recreated activity from its saved state, next to the new one.
* An app that loses the INTERNET permission and stays installed; the aliasing of sets inside `SharedPreferences`.
* The order in which the jobs of a write that is done and of an end of stream run when one event brings both (an event of
  `UdpGw` is one step, and `Connection` gives its user both), and the order of steps within `connection_init`.
* The TUN device (`B/tuntap/BTap.c`) as a module of its own: it hands over one packet at a time, and what the packet
  sets off is a step of `TcpRelay` or `UdpGw`.
* `BDatagram` and `BListener`: nothing that runs on Android calls them.
* lwIP beyond its interface to the relay: vendored, and by far most of the lines of the repository.
* Parsing and building of packet headers and checksums: data no property looks at.
* The containers of `B/structure` other than `ChunkBuffer2`: the models use sets, functions and
  sequences in their place. Logging and option parsing.
* The SOCKS UDP client, which is never started, and the files Android.mk does not build.
