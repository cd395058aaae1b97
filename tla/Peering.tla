-------------------------------- MODULE Peering --------------------------------
(***************************************************************************)
(* Control connections: how src/transport.rs makes, registers, loses and   *)
(* re-makes the connection of each pair of peers, and how the membership   *)
(* table of src/membership.rs follows.                                     *)
(*                                                                         *)
(* A TCP stream has two ends, each with its own task.  The connection      *)
(* table is keyed by the peer alone, and the tasks take its lock for one   *)
(* step at a time: to check, to insert, to remove.  Between those steps    *)
(* another stream of the same peer may come or go.                         *)
(***************************************************************************)
EXTENDS Naturals, Sequences, FiniteSets

CONSTANTS
  Node,             \* the peers
  MaxConnections,   \* max_connections
  MaxRetries,       \* reconnect_max_retries, 0 for no limit
  AttemptMax,       \* where the attempt counter saturates (u8::MAX)
  MaxStreams,       \* bound: TCP streams ever opened
  MaxCalls,         \* bound: calls of ConnectToPeer
  MaxDisconnects,   \* bound: calls of DisconnectPeer
  MaxFaults,        \* bound: broken streams, handshake and false timeouts
  MaxToggles        \* bound: calls of SetAutoReconnect

ASSUME PeeringAssumption ==
  /\ IsFiniteSet(Node) /\ 0 \notin Node
  /\ MaxConnections \in Nat \ {0} /\ MaxRetries \in Nat
  /\ AttemptMax \in Nat \ {0} /\ MaxRetries <= AttemptMax
  /\ MaxStreams \in Nat /\ MaxCalls \in Nat /\ MaxDisconnects \in Nat
  /\ MaxFaults \in Nat /\ MaxToggles \in Nat

VARIABLES
  opened,     \* the number of streams opened so far
  link,       \* link[s]: who opened stream s, to whom and for which task
  end,        \* end[s][n]: the task of n at its end of s
  answer,     \* answer[s]: the HandshakeAck sent on s
  cancelled,  \* cancelled[s]: the ends whose control_cancel is cancelled
  leaves,     \* leaves[s]: the ends whose PeerLeave is on its way
  broken,     \* the streams the network has cut
  table,      \* table[n][p]: the PeerConnection of p at n
  owed,       \* <<n, s>> registered, its notification not queued yet
  inbox,      \* inbox[n]: incoming_rx of the message handler
  member,     \* member[n][p]: the status of p in the membership of n
  cutting,    \* cutting[n]: the peer timed out and not yet disconnected
  dropping,   \* dropping[n]: the peer DisconnectPeer has yet to remove
  task,       \* task[s][n]: the reconnect task the loss of s started at n
  auto,       \* auto[n]: auto_reconnect_enabled
  dropped,    \* history: <<n, p>> disconnected by the application of n
  used        \* how much of each bound is used up

vars == <<opened, link, end, answer, cancelled, leaves, broken, table, owed,
          inbox, member, cutting, dropping, task, auto, dropped, used>>

Stream == 1 .. MaxStreams
Nobody == 0
Pairs == {e \in Node \X Node : e[1] # e[2]}

End == {"none", "hello", "acked", "open", "closing", "closed"}
Packet == [kind : {"join", "leave"}, peer : Node]
PeerStatus == {"absent", "Connected", "Disconnected"}

NoEntry == [stream |-> Nobody, reconnect |-> FALSE]
Entry == [stream : Stream, reconnect : BOOLEAN] \cup {NoEntry}

NoTask == [state |-> "none", attempts |-> 0]
Task == [state : {"none", "sleep", "trying", "done"}, attempts : 0 .. AttemptMax]

NoLink == [from |-> Nobody, to |-> Nobody, by |-> Nobody]
Link == [from : Node, to : Node, by : Stream \cup {Nobody}] \cup {NoLink}

Other(s, n) == IF link[s].from = n THEN link[s].to ELSE link[s].from

\* contains_key on the connection table.
Registered(n, p) == table[n][p].stream # Nobody

Full(n) == Cardinality({p \in Node : Registered(n, p)}) >= MaxConnections

Init ==
  /\ opened = 0
  /\ link = [s \in Stream |-> NoLink]
  /\ end = [s \in Stream |-> [n \in Node |-> "none"]]
  /\ answer = [s \in Stream |-> "none"]
  /\ cancelled = [s \in Stream |-> {}]
  /\ leaves = [s \in Stream |-> {}]
  /\ broken = {}
  /\ table = [n \in Node |-> [p \in Node |-> NoEntry]]
  /\ owed = {}
  /\ inbox = [n \in Node |-> <<>>]
  /\ member = [n \in Node |-> [p \in Node |-> "absent"]]
  /\ cutting = [n \in Node |-> Nobody]
  /\ dropping = [n \in Node |-> Nobody]
  /\ task = [s \in Stream |-> [n \in Node |-> NoTask]]
  /\ auto = [n \in Node |-> TRUE]
  /\ dropped = {}
  /\ used = [calls |-> 0, disconnects |-> 0, faults |-> 0, toggles |-> 0]

\* Of the variables below, what each group of steps leaves alone.
StreamsUnchanged == UNCHANGED <<opened, link, answer, broken>>
PeersUnchanged == UNCHANGED <<inbox, member, cutting, dropping>>
CallsUnchanged == UNCHANGED <<auto, dropped, used>>

-----------------------------------------------------------------------------
(* connect_to and handle_incoming_connection.                              *)

\* The TCP connection is made and the Handshake sent.
OpenStream(n, p, by) ==
  LET s == opened + 1
  IN /\ opened < MaxStreams
     /\ opened' = s
     /\ link' = [link EXCEPT ![s] = [from |-> n, to |-> p, by |-> by]]
     /\ end' = [end EXCEPT ![s] = [@ EXCEPT ![n] = "hello", ![p] = "hello"]]

\* The task that ConnectToPeer of src/ffi.rs spawned calls connect_to.
CallConnect(n, p) ==
  /\ <<n, p>> \in Pairs /\ used.calls < MaxCalls
  /\ ~Full(n)
  /\ OpenStream(n, p, Nobody)
  /\ used' = [used EXCEPT !.calls = @ + 1]
  /\ dropped' = dropped \ {<<n, p>>}
  /\ UNCHANGED <<answer, cancelled, leaves, broken, table, owed, task, auto>>
  /\ PeersUnchanged

\* The acceptor reads the Handshake: it refuses a peer too many, answers one
\* it is connected to, and acknowledges the others.
AcceptHello(p, s) ==
  /\ end[s][p] = "hello" /\ link[s].to = p
  /\ \/ /\ s \in broken \/ Full(p)
        /\ end' = [end EXCEPT ![s][p] = "closed"]
        /\ UNCHANGED answer
     \/ /\ s \notin broken /\ ~Full(p) /\ Registered(p, link[s].from)
        /\ end' = [end EXCEPT ![s][p] = "closed"]
        /\ answer' = [answer EXCEPT ![s] = "already"]
     \/ /\ s \notin broken /\ ~Full(p) /\ ~Registered(p, link[s].from)
        /\ end' = [end EXCEPT ![s][p] = "acked"]
        /\ answer' = [answer EXCEPT ![s] = "ok"]
  /\ UNCHANGED <<opened, link, cancelled, leaves, broken, table, owed, task>>
  /\ PeersUnchanged /\ CallsUnchanged

\* register_connection: insert the stream unless there is one, start the
\* read task, and owe the message handler a notification.
Register(n, s) ==
  LET p == Other(s, n)
  IN IF Registered(n, p)
       THEN /\ end' = [end EXCEPT ![s][n] = "closed"]
            /\ UNCHANGED <<table, owed>>
       ELSE /\ end' = [end EXCEPT ![s][n] = "open"]
            /\ table' = [table EXCEPT ![n][p] =
                           [stream |-> s, reconnect |-> TRUE]]
            /\ owed' = owed \cup {<<n, s>>}

RegisterInbound(p, s) ==
  /\ end[s][p] = "acked"
  /\ Register(p, s)
  /\ UNCHANGED <<cancelled, leaves, task>>
  /\ StreamsUnchanged /\ PeersUnchanged /\ CallsUnchanged

\* Mutated form: the counter does not saturate.
BadFailed(t) ==
  [attempts |-> t.attempts + 1,
   state |-> IF MaxRetries > 0 /\ t.attempts + 1 >= MaxRetries THEN "done"
             ELSE "sleep"]

\* The loop of spawn_reconnect after connect_to returned an error.
Failed(t) ==
  LET attempts == IF t.attempts < AttemptMax THEN t.attempts + 1 ELSE AttemptMax
  IN [attempts |-> attempts,
      state |-> IF MaxRetries > 0 /\ attempts >= MaxRetries THEN "done"
                ELSE "sleep"]

\* connect_to returns to the task that called it.
Return(n, s, ok) ==
  LET k == link[s].by
  IN task' = IF k = Nobody THEN task
             ELSE [task EXCEPT ![k][n] =
                     IF ok THEN [@ EXCEPT !.state = "done"] ELSE Failed(@)]

\* The connecting end reads the HandshakeAck.
ReceiveAck(n, s) ==
  /\ end[s][n] = "hello" /\ link[s].from = n /\ s \notin broken
  /\ \/ /\ answer[s] = "ok"
        /\ Register(n, s)
        /\ Return(n, s, ~Registered(n, Other(s, n)))
     \/ /\ answer[s] = "already"
        /\ end' = [end EXCEPT ![s][n] = "closed"]
        /\ Return(n, s, FALSE)
        /\ UNCHANGED <<table, owed>>
  /\ UNCHANGED <<cancelled, leaves>>
  /\ StreamsUnchanged /\ PeersUnchanged /\ CallsUnchanged

\* The stream fails or the answer does not come.
AckFails(n, s) ==
  /\ end[s][n] = "hello" /\ link[s].from = n
  /\ \/ /\ \/ s \in broken
           \/ end[s][link[s].to] = "closed" /\ answer[s] = "none"
        /\ UNCHANGED used
     \/ /\ used.faults < MaxFaults
        /\ used' = [used EXCEPT !.faults = @ + 1]
  /\ end' = [end EXCEPT ![s][n] = "closed"]
  /\ Return(n, s, FALSE)
  /\ UNCHANGED <<cancelled, leaves, table, owed, auto, dropped>>
  /\ StreamsUnchanged /\ PeersUnchanged

\* The task that registered the connection queues the notification.
QueueJoin(n, s) ==
  /\ <<n, s>> \in owed
  /\ owed' = owed \ {<<n, s>>}
  /\ inbox' = [inbox EXCEPT ![n] = Append(@, [kind |-> "join",
                                              peer |-> Other(s, n)])]
  /\ UNCHANGED <<end, cancelled, leaves, table, member, cutting, dropping, task>>
  /\ StreamsUnchanged /\ CallsUnchanged

-----------------------------------------------------------------------------
(* The read task of a control channel.                                     *)

ReadLeave(n, s) ==
  LET p == Other(s, n)
  IN /\ end[s][n] = "open" /\ p \in leaves[s]
     /\ leaves' = [leaves EXCEPT ![s] = @ \ {p}]
     /\ inbox' = [inbox EXCEPT ![n] = Append(@, [kind |-> "leave", peer |-> p])]
     /\ UNCHANGED <<end, cancelled, table, owed, member, cutting, dropping, task>>
     /\ StreamsUnchanged /\ CallsUnchanged

\* Mutated form: the close of the other end goes unnoticed.
BadReadEnds(n, s) ==
  /\ end[s][n] = "open" /\ n \in cancelled[s]
  /\ end' = [end EXCEPT ![s][n] = "closing"]
  /\ UNCHANGED <<cancelled, leaves, table, owed, task>>
  /\ StreamsUnchanged /\ PeersUnchanged /\ CallsUnchanged

\* The loop ends: the end was cancelled, or the stream failed or was closed.
ReadEnds(n, s) ==
  /\ end[s][n] = "open"
  /\ \/ n \in cancelled[s]
     \/ s \in broken
     \/ end[s][Other(s, n)] = "closed" /\ Other(s, n) \notin leaves[s]
  /\ end' = [end EXCEPT ![s][n] = "closing"]
  /\ UNCHANGED <<cancelled, leaves, table, owed, task>>
  /\ StreamsUnchanged /\ PeersUnchanged /\ CallsUnchanged

\* Mutated form: the tasks of the entry that is removed are left running.
BadCleanup(n, s) ==
  LET p == Other(s, n)
      e == table[n][p]
  IN /\ table' = [table EXCEPT ![n][p] = NoEntry]
     /\ task' = IF Registered(n, p) /\ e.reconnect /\ auto[n]
                  THEN [task EXCEPT ![s][n].state = "sleep"]
                  ELSE task
     /\ UNCHANGED cancelled

\* The entry of the peer is removed, whichever stream it holds by now, and a
\* reconnect task starts when the entry allows it.
Cleanup(n, s) ==
  LET p == Other(s, n)
      e == table[n][p]
  IN IF Registered(n, p)
       THEN /\ cancelled' = [cancelled EXCEPT ![e.stream] = @ \cup {n}]
            /\ table' = [table EXCEPT ![n][p] = NoEntry]
            /\ task' = IF e.reconnect /\ auto[n]
                         THEN [task EXCEPT ![s][n].state = "sleep"]
                         ELSE task
       ELSE UNCHANGED <<cancelled, table, task>>

ReadCleanup(n, s) ==
  /\ end[s][n] = "closing"
  /\ Cleanup(n, s)
  /\ end' = [end EXCEPT ![s][n] = "closed"]
  /\ UNCHANGED <<leaves, owed>>
  /\ StreamsUnchanged /\ PeersUnchanged /\ CallsUnchanged

\* One round of spawn_reconnect after its delay.
Retry(n, s) ==
  LET p == Other(s, n)
  IN /\ task[s][n].state = "sleep"
     /\ \/ /\ ~auto[n]
           /\ task' = [task EXCEPT ![s][n].state = "done"]
           /\ UNCHANGED <<opened, link, end>>
        \/ /\ auto[n] /\ Full(n)
           /\ task' = [task EXCEPT ![s][n] = Failed(@)]
           /\ UNCHANGED <<opened, link, end>>
        \/ /\ auto[n] /\ ~Full(n)
           /\ OpenStream(n, p, s)
           /\ task' = [task EXCEPT ![s][n].state = "trying"]
     /\ UNCHANGED <<answer, cancelled, leaves, broken, table, owed>>
     /\ PeersUnchanged /\ CallsUnchanged

-----------------------------------------------------------------------------
(* The message handler.                                                    *)

\* Mutated form: the status of a peer that is known already is not restored.
BadHandleJoin(n) ==
  /\ inbox[n] # <<>> /\ Head(inbox[n]).kind = "join"
  /\ inbox' = [inbox EXCEPT ![n] = Tail(@)]
  /\ LET p == Head(inbox[n]).peer
     IN member' = IF Registered(n, p) /\ member[n][p] = "absent"
                    THEN [member EXCEPT ![n][p] = "Connected"] ELSE member
  /\ UNCHANGED <<end, cancelled, leaves, table, owed, cutting, dropping, task>>
  /\ StreamsUnchanged /\ CallsUnchanged

\* The Handshake or HandshakeAck notification: add_peer, or restore the
\* status of a peer that is known already.
HandleJoin(n) ==
  /\ inbox[n] # <<>> /\ Head(inbox[n]).kind = "join"
  /\ inbox' = [inbox EXCEPT ![n] = Tail(@)]
  /\ LET p == Head(inbox[n]).peer
     IN member' = IF Registered(n, p)
                    THEN [member EXCEPT ![n][p] = "Connected"] ELSE member
  /\ UNCHANGED <<end, cancelled, leaves, table, owed, cutting, dropping, task>>
  /\ StreamsUnchanged /\ CallsUnchanged

\* set_should_reconnect(false), then remove_peer.
HandleLeave(n) ==
  /\ inbox[n] # <<>> /\ Head(inbox[n]).kind = "leave"
  /\ inbox' = [inbox EXCEPT ![n] = Tail(@)]
  /\ LET p == Head(inbox[n]).peer
     IN /\ table' = [table EXCEPT ![n][p].reconnect = FALSE]
        /\ member' = [member EXCEPT ![n][p] = "absent"]
  /\ UNCHANGED <<end, cancelled, leaves, owed, cutting, dropping, task>>
  /\ StreamsUnchanged /\ CallsUnchanged

-----------------------------------------------------------------------------
(* disconnect_peer and its callers.                                        *)

\* PeerLeave is queued, the tasks are cancelled and the entry is removed.
\* The write task may see the cancellation before it sees the packet.
Disconnect(n, p) ==
  LET s == table[n][p].stream
  IN IF Registered(n, p)
       THEN /\ cancelled' = [cancelled EXCEPT ![s] = @ \cup {n}]
            /\ table' = [table EXCEPT ![n][p] = NoEntry]
            /\ \/ leaves' = [leaves EXCEPT ![s] = @ \cup {n}]
               \/ UNCHANGED leaves
       ELSE UNCHANGED <<cancelled, table, leaves>>

\* The ping task finds that p was silent for too long: update_status first.
TimeoutMark(n, p) ==
  /\ member[n][p] = "Connected" /\ cutting[n] = Nobody
  /\ \/ ~Registered(n, p) /\ UNCHANGED used
     \/ /\ used.faults < MaxFaults
        /\ used' = [used EXCEPT !.faults = @ + 1]
  /\ member' = [member EXCEPT ![n][p] = "Disconnected"]
  /\ cutting' = [cutting EXCEPT ![n] = p]
  /\ UNCHANGED <<end, cancelled, leaves, table, owed, inbox, dropping, task,
                 auto, dropped>>
  /\ StreamsUnchanged

\* Then disconnect_peer.
TimeoutCut(n) ==
  /\ cutting[n] # Nobody
  /\ Disconnect(n, cutting[n])
  /\ cutting' = [cutting EXCEPT ![n] = Nobody]
  /\ UNCHANGED <<end, owed, inbox, member, dropping, task>>
  /\ StreamsUnchanged /\ CallsUnchanged

\* DisconnectPeer of src/ffi.rs: disconnect_peer first.
CallDisconnect(n, p) ==
  /\ <<n, p>> \in Pairs /\ used.disconnects < MaxDisconnects
  /\ dropping[n] = Nobody
  /\ Disconnect(n, p)
  /\ dropping' = [dropping EXCEPT ![n] = p]
  /\ dropped' = dropped \cup {<<n, p>>}
  /\ used' = [used EXCEPT !.disconnects = @ + 1]
  /\ UNCHANGED <<end, owed, inbox, member, cutting, task, auto>>
  /\ StreamsUnchanged

\* Then remove_peer.
RemoveMember(n) ==
  /\ dropping[n] # Nobody
  /\ member' = [member EXCEPT ![n][dropping[n]] = "absent"]
  /\ dropping' = [dropping EXCEPT ![n] = Nobody]
  /\ UNCHANGED <<end, cancelled, leaves, table, owed, inbox, cutting, task>>
  /\ StreamsUnchanged /\ CallsUnchanged

\* SetAutoReconnect of src/ffi.rs, which waits for the lock a DisconnectPeer
\* under way holds.
CallSetAutoReconnect(n) ==
  /\ used.toggles < MaxToggles /\ dropping[n] = Nobody
  /\ auto' = [auto EXCEPT ![n] = ~@]
  /\ used' = [used EXCEPT !.toggles = @ + 1]
  /\ UNCHANGED <<end, cancelled, leaves, table, owed, task, dropped>>
  /\ StreamsUnchanged /\ PeersUnchanged

\* The network cuts a stream.
Break(s) ==
  /\ s <= opened /\ s \notin broken
  /\ \E n \in Node : end[s][n] \in {"hello", "acked", "open"}
  /\ used.faults < MaxFaults
  /\ broken' = broken \cup {s}
  /\ leaves' = [leaves EXCEPT ![s] = {}]
  /\ used' = [used EXCEPT !.faults = @ + 1]
  /\ UNCHANGED <<opened, link, end, answer, cancelled, table, owed, task, auto,
                 dropped>>
  /\ PeersUnchanged

-----------------------------------------------------------------------------
StreamStep(n, s) ==
  \/ AcceptHello(n, s) \/ RegisterInbound(n, s) \/ ReceiveAck(n, s)
  \/ AckFails(n, s) \/ QueueJoin(n, s)
  \/ ReadLeave(n, s) \/ ReadEnds(n, s) \/ ReadCleanup(n, s) \/ Retry(n, s)

NodeStep(n) ==
  HandleJoin(n) \/ HandleLeave(n) \/ TimeoutCut(n) \/ RemoveMember(n)

PairStep(n, p) == CallConnect(n, p) \/ CallDisconnect(n, p) \/ TimeoutMark(n, p)

Next ==
  \/ \E n \in Node : NodeStep(n) \/ CallSetAutoReconnect(n)
  \/ \E n \in Node, s \in Stream : StreamStep(n, s)
  \/ \E n \in Node, p \in Node : PairStep(n, p)
  \/ \E s \in Stream : Break(s)

Spec == Init /\ [][Next]_vars

\* The tasks run while the process does: a packet that has arrived is read,
\* a notification is queued and handled, a peer that is gone times out.  False
\* timeouts and broken streams may happen or not.
Fairness ==
  \A n \in Node :
    /\ \A s \in Stream : WF_vars(StreamStep(n, s) /\ UNCHANGED used)
    /\ WF_vars(HandleJoin(n) \/ HandleLeave(n))
    /\ WF_vars(TimeoutCut(n)) /\ WF_vars(RemoveMember(n))
    /\ \A p \in Node : WF_vars(TimeoutMark(n, p) /\ UNCHANGED used)

FairSpec == Spec /\ Fairness

-----------------------------------------------------------------------------
(* Properties.                                                             *)

\* Every variable has the shape the code gives it.
TypeOK ==
  /\ opened \in 0 .. MaxStreams
  /\ link \in [Stream -> Link]
  /\ end \in [Stream -> [Node -> End]]
  /\ answer \in [Stream -> {"none", "ok", "already"}]
  /\ cancelled \in [Stream -> SUBSET Node]
  /\ leaves \in [Stream -> SUBSET Node]
  /\ broken \subseteq Stream
  /\ table \in [Node -> [Node -> Entry]]
  /\ owed \subseteq Node \X Stream
  /\ inbox \in [Node -> Seq(Packet)]
  /\ member \in [Node -> [Node -> PeerStatus]]
  /\ cutting \in [Node -> Node \cup {Nobody}]
  /\ dropping \in [Node -> Node \cup {Nobody}]
  /\ task \in [Stream -> [Node -> Task]]
  /\ auto \in [Node -> BOOLEAN]
  /\ dropped \subseteq Pairs
  /\ used \in [calls : Nat, disconnects : Nat, faults : Nat, toggles : Nat]

\* The tasks of an end run, and nobody told them to stop.
Running(n, s) == end[s][n] \in {"open", "closing"} /\ n \notin cancelled[s]

\* The connection table and the running tasks agree: an entry has running
\* tasks behind it, and tasks that run are in the table, so no connection
\* outlives its entry, although a cleanup may remove the entry of another
\* stream than its own.
TableMatchesTasks ==
  /\ \A n, p \in Node : Registered(n, p) =>
       Running(n, table[n][p].stream) /\ Other(table[n][p].stream, n) = p
  /\ \A n \in Node, s \in Stream :
       Running(n, s) => table[n][Other(s, n)].stream = s

\* An end whose other end is closed does not stay in the table: duplicates
\* refused, timeouts and departures on one side reach the other side.
OneSidedEnds ==
  \A n, p \in Node, s \in Stream :
    (table[n][p].stream = s /\ end[s][p] = "closed")
    ~> (table[n][p].stream # s)

\* A connection that lasts is one that the membership counts.
ConnectionKnown ==
  \A n, p \in Node :
    (Registered(n, p) /\ member[n][p] # "Connected")
    ~> (~Registered(n, p) \/ member[n][p] = "Connected")

\* "maximum number of simultaneous peer connections".
LimitRespected ==
  \A n \in Node :
    Cardinality({p \in Node : Registered(n, p)}) <= MaxConnections

\* "a duplicate keeps the existing connection": while nothing fails and
\* nobody disconnects, a connection that is registered stays registered.
KeepsExisting ==
  [][used'.faults = 0 /\ used'.disconnects = 0 =>
       \A n, p \in Node : Registered(n, p) => Registered(n, p)']_vars

\* "no automatic reconnect after DisconnectPeer": what the application of n
\* disconnected, no reconnect task of n registers again.
NoReconnectAfterDisconnect ==
  [][\A n, p \in Node :
       <<n, p>> \in dropped /\ ~Registered(n, p) /\ Registered(n, p)'
       => \/ link[table'[n][p].stream].by = Nobody
          \/ link[table'[n][p].stream].from # n]_vars
=============================================================================
