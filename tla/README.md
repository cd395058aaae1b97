# A TLA+ verification of meta-mystia-network

meta-mystia-network is a Rust library (`src/src/`) with a C interface that joins
the processes of one session into a full mesh of TCP connections, keeps track of
who is there, elects a leader or lets the application choose one, and routes the
application's messages. This project models the parts of it that run
concurrently, checks them with TLC on small sessions, and proves with TLAPS every
safety property of the passing runs, for sessions of any size and every value of
the bounds.

1. [Inventory](#1-inventory): the system's parts, and what is hard about each
2. [Plan](#2-plan): the modules, in the order in which they were written
3. [Modules and code](#3-modules-and-code): how state and actions correspond
4. [Runs](#4-runs): what TLC checks, on which bounds, and what it shows
5. [Proofs](#5-proofs): what is proved, from what, and how
6. [Limits](#6-limits): abstractions, and what is only model-checked

`PROJECT.json` lists components, runs, mutants, the map from definitions to
source lines, the hazards and the findings.

## 1. Inventory

One process runs one `NetworkState` (`lib.rs`), created and destroyed through
the C interface (`ffi.rs`). It owns the components below; all of them run as
tokio tasks of one multi-threaded runtime, share state behind `parking_lot`
locks that are held for one operation at a time, and never across an `await`.
Almost every hard behaviour of this code follows from that last fact: what a task
read under a lock may be out of date when it takes the lock again.

| component | state | operations | what is hard | correct when |
|---|---|---|---|---|
| leader election (`leader.rs`) | `ElectionState`: role, term, vote, votes received, known leader, `auto_election_enabled`, `manual_override`; a leader-change channel of 16 | `start_election`, `handle_request_vote`, `handle_vote_response`, `handle_heartbeat`, `handle_leader_assign`, `set_leader`, `enable_auto_election`, `handle_peer_left` | the handlers come in any order, from four tasks and the application; majorities are computed from the peers connected at that moment; nothing is persisted | one vote per term, one winner per term, role and known leader agree, a manual leader is not replaced by an election, a session without a leader gets one |
| membership (`membership.rs`) | peers with status, `last_seen`, RTT; a broadcast channel of 256 events | `add_peer`, `remove_peer`, `update_status`, `update_last_seen`, `check_timeouts` | timeouts race with packets; a lagging watcher loses events | a lasting connection is counted, a departed peer is reported once |
| message handler and periodic tasks (`lib.rs`) | none of its own | `handle_message` (one packet at a time), ping/timeout, heartbeat and election timer tasks, membership and leader watchers | check-then-act over several locks | as for the components they call |
| transport, control connections (`transport.rs`) | connection table keyed by peer, one read and one write task per connection, reconnect tasks, `auto_reconnect_enabled` | `connect_to`, `handle_incoming_connection`, `register_connection`, cleanup, `spawn_reconnect`, `disconnect_peer`, `send_to_peer`, `broadcast`, `shutdown` | both sides connect at once; a cleanup finds the entry of a newer stream; limits are checked long before the insert; bounded queues drop packets | the table and the running tasks agree, half-open connections end, limits hold |
| transport, data channels (`transport.rs`) | `data_tx`, `data_cancel` of an entry | `open_data_channel`, `register_data_channel`, cleanup, fallback to the control channel | replacement races with cleanup | a newer channel survives the end of the older one |
| packet codec and messaging (`transport.rs`, `messaging.rs`, `protocol.rs`) | none | encode, decode, compress, split by message type | size limits, flags | decoding inverts encoding; nothing over the limit |
| session router (`session_router.rs`) | `centralized_mode`, `centralized_auto_forward` | `send_message`, `route_message`, forwarding by the leader | leader and role are read under two locks | a message reaches every peer once |
| callbacks (`callback.rs`) | the registered functions, a bounded queue, a thread | register, enqueue, run, shut down | full queue; shutdown with events queued | events in order; none after shutdown |
| C interface (`ffi.rs`) | the global `NETWORK` and `RUNTIME`, last error | initialise, shut down, all calls | two calls of initialise; calls during shutdown | one network at a time |
| discovery (`discovery.rs`) | the mDNS daemon | advertise, browse, connect to what is found | who connects to whom | a pair is not connected twice |
| configuration, types, errors (`config.rs`, `types.rs`, `error.rs`) | none | `validate`, conversions | boundary values | accepted configurations are usable |
| C# binding (`csharp/`) | none | a wrapper of the C interface | | |

How they interact: the transport puts every control packet, and a notification
of every registered connection, into one queue (`incoming_tx`) that
`handle_message` empties; `handle_message` updates membership and election and
answers through `send_to_peer`; a `Left` event of the membership reaches the
election through a watcher task; a timeout found by the ping task changes the
membership and then the transport; the application's calls enter the election
and the transport from its own threads.

A disagreement between the repository's own words and its code has a run under
"findings"; others met on the way are in section 4, Known disagreements.

## 2. Plan

Written, in this order (the most important behaviour first):

1. `LeaderElection`, `Election`: the election, with its network and its tasks.
2. `ElectionProofs`: its types, roles, votes and election safety.
3. `Peering`: control connections and the membership that follows them.
4. `PeeringProofs`: its types and the agreement of table and tasks.
5. `DataChannel`: the second stream of a pair, with its tasks apart.
6. `Packets`, `Routing`: what a message is made into, and how it travels over a
   changing leader. `Routing` composes the handlers of `LeaderElection` with
   queues, codec and router.
7. `Settings`, `Lifecycle`: the configuration, start and shutdown, and the
   callback thread.
8. `EventFeed`, `Events`: what the application is told; the detailed
   channels implement the abstract lossy feed.
9. `Mesh`: discovery, peer lists and reconnects, and the mesh they make.
10. `DataChannelProofs`, `LifecycleProofs`, `RoutingProofs`, `MeshProofs` and
    `EventsProofs`: the safety properties of the modules from 5 on, and that
    `Events` implements `EventFeed`; `Induction`, the lemma on natural numbers
    that `EventsProofs` and `LifecycleProofs` share.

11. `BallotBox`: the abstract specification of elections, which `Election`
    implements under the provisos of section 5.
12. What `ReachesAll` needs besides fairness: that an undisturbed message is
    always somewhere on its way to everybody it is addressed to, as an invariant
    of `Routing` (`NothingLost`).

## 3. Modules and code

### LeaderElection

The handlers of `leader.rs`. Each takes the write lock once, so each is an
operator from the `ElectionState` of one node to the next one. Peer ids are
compared as strings; only their order matters, so a node is a number. The
`Bad...` operators are mutated forms, used to test that the properties can fail.

### Election

A session of the nodes `Node`. `es[n]` is the `ElectionState`, `members[n]` the
membership, `conns[n]` the connection table, `net[n][p]` the send queue and the
TCP stream from `n` to `p` in one sequence (`SendQueueCapacity` drops what does
not fit, order is kept, a cut loses a suffix), `joins[n]` the notifications of new
connections, `leftEvents[n]` the events for the watcher. `pc[n]` says where the
tasks are between two locked sections:

* election timer: `ElectionTimeout` (the three checks), `RunElection`
  (`start_election`, the broadcast), `TimerCheck` (`is_leader()`, when there was
  nothing to broadcast), `TimerAnnounce` (the leader reads its term again and
  sends a heartbeat);
* heartbeat task: `HeartbeatTick` (`is_leader()`), `SendHeartbeat`
  (`current_term()` and the broadcast);
* message handler: `OnRequestVote`, `OnVoteResponse` with `HandlerAnnounce`,
  `OnHeartbeat`, `OnLeaderAssign`, `OnPeerLeave`, `OnHandshake`;
* watcher and ping task: `OnLeft`, `TimeoutOfLost`, `TimeoutOfSlow`;
* application: `CallSetLeader`, `CallEnableAuto`, `CallDisconnectPeer`;
* environment: `Connect`, `LinkLost`, `Shutdown`, `Crash`, `Restart`.

`ballots` and `elections` are history: every vote given, and every election won
with the voters counted and the number of nodes the winner believed in.

`BallotBox` is the promise behind the election without messages, roles or tasks:
a box of votes and a list of victories. A node gives a vote only in a term above
all of its earlier ones, no vote leaves the box, and a victory has the votes it
counts in the box and enough of them. `Election` implements it with `ballots` as
the box and `elections` as the victories (`ImplementsBox`); a candidate that is
its own majority gives its vote and wins in one step.

### Peering

One stream is one TCP connection with two ends, `end[s][n]` the state of the
task of `n` at its end: `hello` (handshake under way), `acked` (the acceptor has
answered and not registered), `open` (registered, read task running), `closing`
(the read loop ended, the cleanup has not run), `closed`. `table[n][p]` is the
`PeerConnection`, `cancelled[s]` the ends whose token is cancelled, `leaves[s]`
a `PeerLeave` on its way, `owed` and `inbox` the notification between the
registration and the message handler, `task[s][n]` the reconnect task that the
loss of `s` started, with its attempts.

`CallConnect`, `AcceptHello`, `RegisterInbound`, `ReceiveAck` and `AckFails` are
`connect_to` and `handle_incoming_connection`, cut where they wait;
`QueueJoin` is the send that follows the registration; `ReadLeave`, `ReadEnds`
and `ReadCleanup` the read task; `Retry` one round of `spawn_reconnect`;
`HandleJoin` and `HandleLeave` the message handler; `TimeoutMark`/`TimeoutCut`
and `CallDisconnect`/`RemoveMember` the two callers of `disconnect_peer`, which
change the membership and the table in opposite orders.

### DataChannel

One pair of peers: the smaller id opens the channel, the larger accepts it.
`ctl[x]` is the control connection in the entry of `x`, `slot[x]` the channel in
its `data_tx` and `data_cancel` (set and cleared together), `rd[d][x]` and
`wr[d][x]` the read and the write task of an end, which stop separately; the
socket is closed when both are over. Both are started by the registration, and an
end that is not registered is dropped with both of its halves (`HalvesTogether`, a
part of `TypeOK`). `RegisterControl`, `ControlEnds`,
`ControlWriteStalls` and `SilentTimeout` are the life of the control entry;
`OpenCheck`, `AcceptData`, `RegisterInbound` and `OpenReturns` the handshake, cut
where it waits; `ReadEnds`, `ReadTest` and `ReadClear` the read task, whose
cleanup tests its token outside the lock; `WriteEnds` and `WriteStalls` the write
task.

### Packets and Routing

`Packets` has the codec as operators: a payload is an identity and two lengths,
compression changes a length and a flag, an internal message adds an envelope,
and each of the three size checks is made where the code makes it. `Routing` lets
three nodes send every kind of message. A call that has read `is_leader()` and
not yet `leader_id()` is in `routing[n]`; a handler that has decided to relay and
not asked again is in `relaying[n]`. `out[n][p][c]` is the queue and the stream of
the control or data channel, `inbox[n]` the handler's queue. `CallSetLeader`,
`OnAssign` and `VoteRequested` change the leader with the operators of
`LeaderElection`; `got[n]` is what the node has handed to its callback manager, whose
queue is in `Lifecycle` and `Events`; a packet over the reader's limit cuts the channel. A broadcast
relayed by the leader reaches the others in the leader's name, as in the code;
the flags a callback is given include the compression bit. `calm` is true until something
disturbs the traffic (a change of leader, a toggle of `centralized_auto_forward`,
a cut, a full queue, a packet over a limit) and stays true when the mode or the
compression threshold changes; `NothingLost` and `ReachesAll` speak of calm
sessions.

### Settings and Lifecycle

`Settings` has the defaults, the conversion from the C layout, `validate()` and
what the tasks need (`Startable`). `Lifecycle` follows the globals `NETWORK` and
`RUNTIME` through `InitializeNetwork` (`InitCheck`, `InitBuild`, `StoreNetwork`,
`StoreRuntime`) and `ShutdownNetwork` (`TakeNetwork`, `LockRuntime`,
`CancelTasks`, `DrainAndShutdown`, `JoinThread`, `TakeRuntime`), one step per lock
section; `holder` is the thread that keeps `RUNTIME` locked over the shutdown.
Other threads connect (`CallConnect`, `SpawnConnect`, `DialEnds`) and register
(`CallRegister`); `CallbackCheck`, `CallbackRecv` and `CallbackReturns` are the
callback thread of each instance. Handlers under way may send events
(`OtherEvent`) until `DrainAndShutdown` takes the queue away.

### EventFeed and Events

`EventFeed` is the abstract promise for one topic: what was reported is heard in
that order, each report at most once, some not at all. `Events` is one node: the
tasks that change the leader, the membership and a link, the reports each still
owes (`todo`, between the unlock and the send), the three channels, the watchers
and the callback queue. The mpsc channels drop the newest report, the broadcast
the oldest, which its watcher learns as `Lagged`. The refinement maps `pending` to
the reports of a topic in callback queue and channel, oldest first, and `heard` to
the last callback. The peers' status is not refined: the ping task reports a
timeout on two paths at once, so that its reports do overtake each other;
`QuietAccurate` says that this does no harm.

### Mesh

Processes on one LAN and how they come to know each other. `stream[s]` is one call of
`connect_to` with its TCP stream: the state of the task at each end (`calling`,
`hello`, `acked`, `listed`, `open`, `closed`), the answer and the peer list on their
way to the dialler, a `PeerLeave` of either side, and how many attempts the
reconnect task behind the call has made. `table[n][p]` is the entry, which names the
end it was registered for; `inbox[n]` the handler's queue; `member[n][p]` the
membership.

* discovery: `Start` is `NetworkState::new`, whose discovery starts, or fails, or
  registers the service and cannot browse (an error that is only logged); `Resolve`
  is one `ServiceResolved` in the browse task, `ShouldConnect` its decision;
* dialling: `CallConnect` (any address the application has, its own too), `Connect`
  (the limit, the TCP connection, the `Handshake`), `ReceiveAck` and `AckFails`
  (registration or an error, after which a reconnect task dials again: `DialFails`);
* accepting: `AcceptHello` (limit, session, table, in this order), `SendList`,
  `RegisterInbound`. Each end registers or refuses by itself (`Insert`, `Refuse`), so
  that dials that cross can end with one stream, with none, or with a stream that one
  end has refused;
* read task: `Read` hands a list or a `PeerLeave` to the handler, `ReadEnds` cleans up
  and starts a reconnect task;
* handler: `OnJoin`, `OnLeave`, `OnList`;
* loss: `Break` cuts a stream, `Shutdown` closes the ends of one node; the other ends
  notice by themselves.

`told` and `hurt` are history, for `MeshForms`: who was told of whom, and which pairs
the code is not expected to bring together.

## 4. Runs

`cd tla; tlc -config X.cfg M`, with the configuration and module of the run.

### Runs that pass

| run | instance | checks |
|---|---|---|
| `election_three` | 3 connected nodes, 2 of which elect, 2 terms | votes counted were given, votes remembered, election safety; the election implements `BallotBox`: one vote per term, victories backed |
| `election_faults` | 2 nodes, one of which elects at the start, with periodic heartbeats; one disruption, one new connection, one restart, one `SetLeader`, one toggle | types, roles, terms, and that a manual leader is replaced only by an assignment or its departure, with every action |
| `election_recovery` | 2 nodes, one disruption, one assignment; fair | a node without a leader that may elect one gets one |
| `peering_two` | 2 peers, 2 streams, one connect, one disconnect, one fault, unlimited retries | types (the attempt counter saturates) and the agreement of table and tasks |
| `peering_live` | 2 peers, 2 streams, one fault, one retry; fair | a half-open connection ends; a lasting one is counted as a member |
| `peering_cross` | 2 peers that both connect, one toggle of auto-reconnect; fair | what is left of crossed streams is cleaned up on both sides |
| `data_channels` | 2 sides, 2 control connections, 2 channels, one fault; fair | the queue in an entry belongs to a live channel and can be written to; ends that the other side closed, or whose control queue is dead, are given up |
| `routing` | 3 peers, limits 3, 3 and 2, four kinds of data, one message, one change; fair | at most once, intact, refused means not sent, packets fit, nothing lost on the way and delivery when nothing disturbs it |
| `lifecycle` | 2 threads, one of which starts and stops; 2 instances, 2 connects, a queue of 1, about 70 configurations; fair | globals agree, configurations that pass can run, no callback after shutdown, every call returns, results arrive |
| `events` | 2 peers, every channel of capacity 1, 4 changes | the leader and reconnect feeds implement `EventFeed`, the application's picture is right when it should be |
| `mesh` | 3 peers of a session, one without mDNS, one that starts later with or without it, and a peer of another session; `max_connections` 2; one call (the foreign peer's, and one to a node's own address, among them), broken stream, late answer or shutdown; fair | types and the limit of retries; sessions stay apart; whoever was told of a peer of its session, by mDNS, a list or the application, is connected to it in the end, and again after a loss although both ends dial |

Bounds. Three nodes are the least for which a majority is more than one vote, and
two electing nodes the least for which votes compete; with two terms a late
answer of the first term meets the candidacy of the second. Two nodes are enough
for every fault because every rule of the code concerns a pair. `MaxTerm` stops
elections and assignments, not messages; `BeatBacklog` keeps heartbeats from
filling queues that nobody has read (0 leaves out the periodic heartbeat and
keeps the announcement of a new leader when some peer is connected). Two streams
are what one pair needs for a duplicate or a reconnect; the retries that come
after need no more, since a stream's ends are the same whichever task opened it.
One entry can hold two channels in a row, one replacing the other, with two
control connections: the stale cleanup needs no more. One message is enough in
`routing`, since the code relates no two messages except through full queues,
which the assignments fill; lengths 1 to 3 stand for a message that is compressed
or not, that fits with and without the envelope, and that only some peers accept.
`lifecycle` changes one field of the defaults at a time to zero, one and the
largest value, and the related pairs together; 63 stands for the largest `u32`.
Capacities of one make every queue of `events` overflow with two reports. In
`mesh` the first peer has the application's address of the second and no mDNS, so
that it learns of the third from a list only. One trouble is one broken stream, one
call or one shutdown; two retries and their crossing follow from one broken stream.
Three dials are what a pair needs for that: TLC confirmed that no pair outside `hurt`
is ever held up by the bound. With `max_connections` 2 a peer that is connected to
the two others of its session refuses every further dial.
Deadlock is not checked: with every bound used up a session rests, and a leader
without peers to answer does nothing of interest.

### A run that ends in a violation

`election_converge` (`EventuallyAgree`). Two nodes stay connected and no fault
happens. The heartbeat task reads the role and then the term; the election timer
checks for a leader and then starts an election. With both windows each node can
end as a follower of the other. No heartbeat is sent any more, and no election
starts because `leader_id` is set.

### Known disagreements

Sentences of the repository that the code does not keep. Each has a property and
a configuration of its own, for which TLC prints a trace; they are kept beside the
runs for whoever changes that code.

| command | property | what the trace shows |
|---|---|---|
| `tlc -config ElectionLostLeader.cfg MCElection` | `LostLeaderReplaced` | a leader that falls silent is marked `Disconnected` (`lib.rs:496`); only a `Left` event clears `leader_id`, so it is never replaced, although `config.rs:109` promises an election "when current leader becomes unresponsive" |
| `tlc -config ElectionManualDeposed.cfg MCElection` | `ManualLeaderStays` | a `RequestVote` of a higher term demotes a manual leader (`leader.rs:164`), although `leader.rs:39` says that leader changes then "only occur via `SetLeader` or `handle_leader_assign`" |
| `tlc -config PeeringLimit.cfg MCPeering` | `LimitRespected` | two handshakes pass the check of `max_connections` (`transport.rs:308`) before either registers; `config.rs:79` calls it a maximum |
| `tlc -config PeeringDuplicate.cfg MCPeering` | `KeepsExisting` | two peers connect to each other at once and each closes the stream the other kept (`transport.rs:543`), where `transport.rs:327` logs "keeping existing" |
| `tlc -config PeeringDisconnect.cfg MCPeering` | `NoReconnectAfterDisconnect` | a reconnect task under way is not stopped by `DisconnectPeer` (`transport.rs:1097`), against `.github/prompts/plan-Transport.prompt.md:284` |
| `tlc -config DataFallback.cfg MCDataChannel` | `BrokenFallsBack` | a data write task that ends alone leaves its closed queue in `data_tx` (`transport.rs:941`), and sends fail where `transport.rs:103` lets them "fall back transparently to the control channel" |
| `tlc -config EventsLag.cfg MCEvents` | `DepartedLeaderForgotten` | the membership watcher is told `Lagged` and goes on (`lib.rs:638`); a `Left` among the lost events never reaches `handle_peer_left`, so that `leader_id` names a peer that is gone, and no election starts while it is set (`lib.rs:556`). The comment at `lib.rs:613` has the watcher "detect leader loss and trigger re-election", and `.github/prompts/plan-MembershipLeader.prompt.md:81-82`, which with `plan-MetaMystiaNetwork.prompt.md:240` lets the receiver leave its loop, promises that a missed `PeerLeft` leaves nothing stale in the election |
| `tlc -config RoutingFull.cfg MCRouting` | `FullQueueReported` | a broadcast skips a peer whose queue is full and returns OK (`transport.rs:1067`), where `.github/prompts/plan-CSharpUsage.prompt.md:489` says "若队列满返回 `SendQueueFull`" |

By reading only: a leader's `SendToLeader` returns OK and the message is dropped
(`session_router.rs:164`), where `.github/prompts/plan-RoutingDiscovery.prompt.md:42`
has it handled locally ("本地处理（自己是 Leader）"). `Audience` of `Routing` leaves
this message out.

Met as well, without a sentence against them: `ConnectToPeer` between the two
locks of a shutdown returns OK and never reports (`ffi.rs:382`); a shutdown by a
second thread between the two stores of `InitializeNetwork` leaves a runtime
without a network (`ffi.rs:280`; `GlobalsAgree` holds with one controlling
thread); a reconnect task counts `AlreadyConnected` as a failure
(`transport.rs:811`); after a false timeout nothing reconnects the pair; without
mDNS a newcomer is never connected to smaller ids it only heard of
(`lib.rs:335`), and two newcomers at once are on nobody's list (`transport.rs:420`);
the reconnect dials of both ends may cross so that each end refuses the stream the
other kept (`transport.rs:543`), which starts the next round, and after
`reconnect_max_retries` attempts the pair may stay apart; a node that dials its own
address registers itself as a peer (`transport.rs:491`); when browsing fails
`is_mdns_active` is true although the node will never dial (`discovery.rs:131`); a `heartbeat_timeout_multiplier` of 1 is accepted.

### Fairness

`FairSpec` assumes weak fairness of the tasks of a running process and of
nothing else: tokio polls every spawned task, an interval fires again, an
undelivered packet is read while its connection lasts, a silent peer is found by
the next check. The application's calls, faults and false timeouts are never
assumed to happen. In `Election` fairness is per task, since each of them runs
on its own, and one assumption per sender for the handler, whose queue serves
the connections in arrival order. In `Peering` and `DataChannel` it is per task of
an end. In `Routing` a call goes on, the handler runs and each stream is read. In
`Lifecycle` the threads run on, a dial ends because `connect_to` has timeouts, and
the application's callbacks return; they may not call the library
(`plan-FFIIntegration.prompt.md:50`). In `Events` the tasks, watchers and the
callback thread run. In `Mesh` the task at each end of a stream makes its next step,
the handler takes its packets, and the mDNS daemon delivers what it resolved;
the late answers of `AckFails` are faults and not assumed.

## 5. Proofs

`tlapm M.tla` checks the proofs of a module `M`. They hold for every set of
nodes, every topology at the start and every value of the bounds and capacities:

| module | theorem | states | provisos |
|---|---|---|---|
| `ElectionProofs` | `TypeCorrect` | `Spec => []TypeOK` | none |
| | `RolesAgree` | `Spec => []RoleConsistent` | none: all faults and calls |
| | `TermsNeverFall` | `Spec => TermsGrow` | none |
| | `ManualLeadersHold` | `Spec => ManualLeaderHolds` | none |
| | `OneVotePerTerm` | `Spec => []VoteOnce` | no assignment, no restart |
| | `VotesRemembered` | `Spec => []BallotRemembered` | no assignment, no restart |
| | `VotesGiven` | `Spec => []VotesBacked` | no assignment, no restart |
| | `ElectionsSafe` | `Spec => []ElectionSafety` | no assignment, no restart |
| | `ElectionImplementsBox` | `Spec => ImplementsBox` (refinement) | no assignment, no restart |
| `PeeringProofs` | `PeeringTypeCorrect` | `Spec => []TypeOK` | none |
| | `TableAgrees` | `Spec => []TableMatchesTasks` | none: all faults and calls |
| `DataChannelProofs` | `DataTypeCorrect` | `Spec => []TypeOK` | none |
| | `SlotsBacked` | `Spec => []SlotBacked` | none |
| | `SlotsUsable` | `Spec => []SlotUsable` | none |
| `LifecycleProofs` | `ValidateSuffices` | `Validate(c) => Startable(c)` | numbers of a `u32` |
| | `LifecycleTypeCorrect` | `Spec => []TypeOK` | none |
| | `ConfigsSafe` | `Spec => []ConfigSafe` | none |
| | `GlobalsStayInStep` | `Spec => []GlobalsAgree` | one thread starts and stops |
| | `QuietForGood` | `Spec => QuietAfterShutdown` | one thread starts and stops |
| `RoutingProofs` | `CodecRoundTrip` | decoding undoes encoding | none |
| | `RoutingTypeCorrect` | `Spec => []TypeOK` | none |
| | `QueuesFit` | `Spec => []PacketsFit` | none |
| | `DeliveriesIntact` | `Spec => []DeliveredIntact` | none |
| | `ErrorsSendNothing` | `Spec => []RefusedNotSent` | none |
| | `NoDuplicates` | `Spec => []AtMostOnce` | none |
| | `MessagesNotLost` | `Spec => []NothingLost` | none |
| `MeshProofs` | `MeshTypeCorrect` | `Spec => []TypeOK` | none |
| | `SessionsStayApart` | `Spec => []SessionsApart` | none |
| `EventsProofs` | `EventsTypeCorrect` | `Spec => []TypeOK` | none |
| | `QuietIsAccurate` | `Spec => []QuietAccurate` | none |
| | `FeedsInOrder` | `Spec => FeedInOrder` (refinement) | none |

The assumptions on constants are the named ones of the modules; TLC evaluates
them on every run.

* `LeaderElection`, `Election`: nodes are a finite non-empty set of numbers,
  `None` is not a node, the connections at the start are symmetric and no node is
  its own peer, bounds are natural numbers.
* `Peering`: peers are a finite set without the marker for nobody, limits are
  natural numbers, the retry limit fits the counter. `DataChannel`: bounds are
  natural numbers.
* `Settings`, `Lifecycle`: the numbers of a configuration are unsigned and at most
  a `u32` wide (`Representable`), threads are not confused with the mark of a free
  lock. That at most one thread starts and stops the network is the hypothesis of
  two theorems (`OneLifecycle`), not an assumption: with two such threads
  `GlobalsAgree` fails.
* `Routing`: the size limits are positive, which `validate()` demands.
* `Events`: capacities are positive, as `NetworkState::new` makes them, and no
  peer is named like the mark of a topic nothing was heard of.
* `Mesh`: nodes are a finite set of numbers with their sessions.

### Election and Peering

`RoleConsistent` is not inductive: a leader would lose its `leader_id` if its
own departure were reported to it. `RoleInv` adds `NoSelf`: no node is in its own
table, membership or `Left` events.

`ElectionSafety` rests on `SafeInv`: a node gives one vote per term (`VoteOnce`),
a running node still knows the vote of its present term (`BallotRemembered`),
every granted answer on its way and every vote counted was given in that term to
that candidate (`NetOK`, `CountedOK`), and every election won had the votes its
winner needed (`ElectedOK`). `BallotRemembered` is what a voter must know not to
vote twice; the other parts carry a vote from the ballot to the count. Then two
winners of one term that both counted all nodes each have more than half of
them, the majorities intersect, and the voter in both gave one vote.

`ElectionImplementsBox` takes the same invariant through every step. Three steps
change `ballots` or `elections`: `RunElection` (the vote for oneself, and the
victory of a node that is its own majority), `OnRequestVote` and `OnVoteResponse`;
each is `Give`, `Win` or both, every other step stutters. That the box takes a vote
only in a term above the voter's earlier ones is `BallotRemembered`: what a node
voted before is of an earlier term, or is its `voted_for`, and then the same vote
again. That a victory is backed is `CountedOK`.

The provisos are where the code loses a vote: an assignment clears `voted_for`
within the term, and a restarted process has forgotten its term. `ElectionSafety`
speaks of elections that counted every node, since the code computes majorities
from connected peers: nodes of a larger session that see at most one peer need one
vote, their own, and two of them may win the same term.

`TableMatchesTasks` is not inductive either. `PeerInv` adds that only the two ends
of an opened stream are in use (`EndsLinked`), that an end not registered yet is
not cancelled (`FreshEnds`: otherwise a stream could be registered dead), that a
notification is owed for an end in use (`OwedEnds`), and that a reconnect task,
and the task a stream was opened for, belong to an end that is closed for good
(`TasksClosed`, `CallersClosed`). The interesting case is the cleanup that finds a
newer stream in the entry of its peer: it removes the entry and cancels the
tasks behind it in one locked section, so both sides of the agreement change
together (`RemoveStep`). Register and disconnect are the other two lemmas that
carry the argument.

`ManualLeaderHolds` is an action property and follows from `RoleInv`: a node under
the override is no candidate, so that no vote it counts makes it a leader;
`start_election` and the heartbeat of another leader are refused (`HandlerHolds`,
one fact per handler).

### Data channels

`SlotBacked` says that the queue in an entry has a read task that will clear it.
A read task skips its cleanup when its token is cancelled, so `DataInv` adds that
the token of the channel in an entry is not cancelled (`SlotLive`), that only
channels that ran are cancelled (`CancelledWasRun`), and that a channel not
dialled yet has no task (`Undialed`). That the two halves of an end go together
(`HalvesTogether`) is inductive with the types.

### Lifecycle

`Stage(t)` follows `InitializeNetwork` and `ShutdownNetwork` lock by lock: which of
the two globals is set, which instance has tasks, and that every other callback
thread is over. Between the calls it is `Agree`. `ThreadsOver` keeps a callback
thread that is over from coming back, which is `QuietAfterShutdown`.

`ValidateSuffices` needs the recursive backoff of `spawn_reconnect` for any number
of attempts: that it has a solution, and that every delay stays between the first
and the limit.

### Routing

`ShapeInv` has the types, the lengths of the histories and that a channel that was
cut is empty. `ContentInv` says of every packet on a queue, in an inbox or in the
hands of router and relay that it stands for a message that an application sent
with a call that returned OK, that it decodes to that message, and that the node
that holds it could encode it. Intact delivery, sizes and the silence of refused
calls follow; the round trip of the codec enters as `CodecRoundTrip`.

`AtMostOnce` takes an account of places. `PlaceInv` says that a message has at most
one copy for each receiver among queues, inboxes and receipts (`OutOnce`, `InOnce`,
`GotOnce`, `OnePlace`), none for its sender (`NotHome`), and that while its envelope
is on the way to a leader, or with it, there is no copy at or for any other node
(`EnvelopeAlone`). The cases that matter are the relay, which turns the envelope
into the copies, and the leader that is replaced between the forwarding and the
relaying.

`NothingLost` is the other half: not too few. It is not inductive, since a relay
with another leader in mind, or with forwarding switched off, drops what it holds.
`ReachInv` says of a calm session, on top of `PlaceInv`, that everybody names the
same leader and forwards (`Settled`); that no assignment is under way, and what was
read fits the limit of its reader (`Unassigned`), so that a leader can encode the
copy it makes of an envelope although its own threshold may differ from the
sender's; that a call inside the router, between its two reads, goes to the leader
its sender knew (`Aimed`); that envelopes are with that leader and hold broadcasts
(`Addressed`); and that everybody a message is addressed to has it, will get it,
or is served by an envelope (`Reached`). `ReadReach`, `HandlerReach`, `RelayReach`,
`RouteReach` and `CallReach` take `Reached` through the steps that move a message.
What `ReachesAll` adds is that each of these steps happens.

One step did not preserve `ContentInv`, rightly: `SetLeader` stores the leader first
and then encodes the assignment, and with a very small `max_message_size` the
encoding fails and nothing is broadcast. `CallSetLeader` of `Routing` has that case
since.

### Mesh

Tables and members of one session are not inductive: an end registers on what it
was told. `MeshInv` adds, of every stream, that what follows an acceptance joins two
nodes of one session (`Sound`): an answer `ok`, an accepting end that has answered, or
a connecting end that has registered (`Vouched`). Only `AcceptHello` makes a stream
vouched, and there the sessions were compared. The two ends then register in any
order, or one does and the other refuses (`InsertSound`, `OneEnd`). Peer lists and addresses
need no assumption: they may name nodes of any session, and `DialEachSound` says that
a new dial vouches for nothing. `Sound` also carries the attempts of a reconnect task
(`DialFailsSound`).

### Events

`QuietAccurate` speaks of the moment when nothing is on its way. `EventsInv` says
what holds before: the tasks' debts (`Debts`: which task may owe which reports),
what each channel carries (`Pipes`), and for every topic of which nothing was lost
or crossed that only one task owes a report and owes the right one (`OneVoice`), and
that when none does the youngest report on the trail is right (`Trail`: channel,
then what the watcher still has to say, then callback queue, then what was heard).
The ping task's report past the broadcast is the case that took most of the
proof (`MarkTimeoutKeeps`, `ReportStatus`).

`FeedsInOrder` shows that every step of `Events` is a step of both feeds or changes
neither. `About` filters a sequence by topic and is recursive; `AboutAppend` and
`AboutTail` say what a report at either end contributes. Then a send is `Say`, a
watcher that forwards changes nothing of `pending` or is `Lose`, and a callback is
`Hear` (`FeedSent`, `FeedForwarded`, `FeedCallback`).

### Form

Where the proofs need induction over data, they take a least counterexample
(`LeastNatural` of `Induction`, from the well-foundedness of the naturals): the
backoff and the filter. Two definitions are written for it, as recursive functions
instead of recursive operators or folds: `About` of `Events` and `ReconnectDelay` of
`Settings`. `EventsInv` and
`ReachInv`, the largest of the invariants, were checked with TLC on the bounds of
`events` and `routing` before they were proved.

## 6. Limits

Only model-checked, since the proof system does not treat fairness and
`ENABLED`: `LeaderlessEnds`, `OneSidedEnds`, `ConnectionKnown`,
`DataEndsTogether`, `MutedEntryEnds`, `ReachesAll`, `CallsReturn`,
`ConnectAnswered`, `MeshForms`. Every invariant, action
property and refinement of the passing runs is proved.

Abstractions of `Election`:

* A connection is taken out of both tables at once; `Peering` has the two sides
  apart. A `PeerLeave` may be lost with the connection.
* `last_seen`, `Ping`, `Pong` and `HeartbeatResponse` appear as timeouts that may
  happen (bounded when the peer is there, unbounded when it is gone).
* `HeartbeatResponse`, `Ping` and `Pong` take no place in the send queues.
* The election timer's three checks are one step. `start_election` tests the
  second of them again, and a node that knows no leader is not the leader.
* The number of connected peers is read in the step that starts an election or
  counts a vote.
* A handler's change of state and the enqueueing of its answer are one step; no
  other task of the node reads the state and sends in between, except where `pc`
  says so.
* Every `Left` event reaches the watcher; the lag of the channel is in `Events`.
* `SetLeader` and its broadcast are one step; the notifications are in `Events`.

Abstractions of `Peering`:

* A TCP connection that cannot be made, a handshake that times out and a stream
  that fails during it are one outcome, `AckFails`.
* The write task is folded into the other steps: a `PeerLeave` is sent or lost, a
  write failure is a broken stream. A write task that ends alone is in
  `DataChannel`.
* The queue to the message handler is unbounded; the code's read task waits when
  it is full.
* A peer never connects to itself, all peers are of one session and version.
* `TableMatchesTasks` allows what the code does when a stale cleanup meets a
  newer connection: it removes and cancels that one, so the table stays right
  although a healthy connection ends.
* `ConnectionKnown` is checked without `DisconnectPeer`. With one such call it
  fails: a connection registered and announced between `disconnect_peer` and
  `remove_peer` is in the table and not in the membership. No document
  promises otherwise.

Abstractions of the later modules:

* `DataChannel`: one pair of peers; what passes through a channel is left out. A
  control connection is an entry that is registered or dropped, Peering has its
  handshake. A peer whose control write task is over times out at the other side;
  its own read task then sees the stream closed.
* `Routing`: a channel is there or cut; queue and stream are one sequence; a
  channel is cut at both ends at once. Assignments and vote requests stand for
  everything that changes the leader. `ReachesAll` speaks of messages that no
  change, cut, full queue or smaller limit disturbs, and ends at the callback
  manager: what a full callback queue drops is in `Lifecycle` and `Events`. A send to
  a queue whose write task is over fails with `ConnectionFailed` and sends nothing
  (`transport.rs:1029`); such queues are in `DataChannel`.
* `Lifecycle`: one callback, the connection result, stands for the five, which are
  registered and dispatched alike. `ShutdownNetwork` lets the runtime stop its
  tasks at once; the code waits up to five seconds.
* `Events`: any peer may be named leader or time out; one peer's link is followed.
  A failed `add_peer` and the `update_status` after it are one step (`AddPeer`): what
  another task does between the two locks it might as well have done before both or
  after both, since the failed call changes nothing and `update_status` looks again.
  `QuietAccurate` excepts topics of which a report was dropped or that two tasks
  changed at once: for those the last report heard may be an old one.
* `Mesh`: timeouts, `DisconnectPeer` and the toggle of automatic reconnection are left
  to `Peering`; the task that registers a connection notifies the handler in the same
  step, and a read task leaves its loop and cleans up in one step. mDNS resolves every
  service once for every browser. `MeshForms` excepts the pairs in `hurt`: a dial of
  theirs was answered too late, met the limit or was cut before anybody had
  registered it, or dials crossed and a stream was registered at one end and refused
  at the other. The code may leave such a pair apart.

Not modelled: compression, serialisation, mDNS and TCP, which are libraries; the
hash and the length of DNS labels; round-trip times and the queries that only read;
the last error and logging; the protocol version, which is compared like the
session; the C# binding, which has no state.
