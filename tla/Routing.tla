-------------------------------- MODULE Routing --------------------------------
(***************************************************************************)
(* How a user's message travels: the send functions of src/ffi.rs, the     *)
(* SessionRouter of src/session_router.rs, the queues of src/transport.rs  *)
(* and the message handler of src/lib.rs.                                  *)
(*                                                                         *)
(* In centralized mode a broadcast of a follower goes to the leader as     *)
(* ForwardedUserData, and the leader sends it on.  The router reads the    *)
(* election state in several lock sections, the leader in two, while       *)
(* assignments and vote requests arrive; a control and a data channel per  *)
(* pair carry packets in two orders.                                       *)
(*                                                                         *)
(* The election itself is in module Election, the channels' own life in    *)
(* Peering and DataChannel: here a channel is there or is cut.             *)
(***************************************************************************)
EXTENDS LeaderElection, Packets, Sequences

CONSTANTS
  Limit,        \* Limit[n]: max_message_size of n
  QueueSize,    \* send_queue_capacity
  Data,         \* what applications send: [type, flags, raw, packs]
  Threshold,    \* compression_threshold of the configuration
  Thresholds,   \* values for SetCompressionThreshold
  MaxSends,     \* bound: messages sent by applications
  MaxChanges    \* bound: changes of leader, of settings, and channels cut

ASSUME RoutingAssumption ==
  /\ Limit \in [Node -> Nat \ {0}] /\ QueueSize \in Nat \ {0}
  /\ Data \subseteq [type : Nat, flags : 0 .. 255, raw : Int, packs : BOOLEAN]
  /\ Threshold \in Nat /\ Thresholds \subseteq Nat
  /\ MaxSends \in Nat /\ MaxChanges \in Nat

VARIABLES
  es,         \* es[n]: the election state of n
  central,    \* central[n]: centralized_mode
  forward,    \* forward[n]: centralized_auto_forward
  threshold,  \* threshold[n]: compression_threshold
  conn,       \* conn[n][p]: the channels in the entry of p at n
  out,        \* out[n][p][c]: packets queued and under way on a channel
  inbox,      \* inbox[n]: incoming_rx, with the peer each packet came from
  routing,    \* routing[n]: the call that has read is_leader, not leader_id
  relaying,   \* relaying[n]: the ForwardedUserData that n decided to relay
  sent,       \* history: the messages handed to a send function
  result,     \* history: what each send function returned
  got,        \* history: got[n]: what n gave to its callback manager
  calm,       \* history: no leadership change, cut, full queue or oversize
  changes     \* how many changes have happened

vars == <<es, central, forward, threshold, conn, out, inbox, routing, relaying,
          sent, result, got, calm, changes>>

Channels == {"control", "data"}
Idle == [id |-> 0]

\* Whom a message was addressed to.
Everyone == {"Broadcast", "FromLeader"}
Target == [to : Everyone \cup {"ToLeader"}]
          \cup [to : {"ToPeer"}, peer : Node]
          \cup [to : {"Forward"}, from : Node, peer : OptNode]

\* Nobody leads, or everybody has heard of the leader that was chosen.
InitElection(n, l) ==
  IF l = None THEN NewElection(TRUE)
  ELSE HandleLeaderAssign(NewElection(TRUE), n, 1, l)

\* The applications have chosen the mode, the same one everywhere
\* (SetCentralizedMode), and perhaps a leader.
Init ==
  /\ \E l \in OptNode : es = [n \in Node |-> InitElection(n, l)]
  /\ \E c \in BOOLEAN : central = [n \in Node |-> c]
  /\ forward = [n \in Node |-> TRUE]
  /\ threshold = [n \in Node |-> Threshold]
  /\ conn = [n \in Node |-> [p \in Node |-> IF p = n THEN {} ELSE Channels]]
  /\ out = [n \in Node |-> [p \in Node |-> [c \in Channels |-> <<>>]]]
  /\ inbox = [n \in Node |-> <<>>]
  /\ routing = [n \in Node |-> Idle]
  /\ relaying = [n \in Node |-> Idle]
  /\ sent = <<>> /\ result = <<>>
  /\ got = [n \in Node |-> <<>>]
  /\ calm = TRUE
  /\ changes = 0

SettingsUnchanged == UNCHANGED <<central, forward, threshold>>

-----------------------------------------------------------------------------
(* The transport's queues.                                                 *)

\* User packets prefer the data channel, internal ones use the control channel.
ChannelFor(n, p, packet) ==
  IF ~IsInternal(packet.type) /\ "data" \in conn[n][p] THEN "data" ELSE "control"

Room(n, p, packet) == Len(out[n][p][ChannelFor(n, p, packet)]) < QueueSize

\* The result of send_to_peer.
SendError(n, p, packet) ==
  IF conn[n][p] = {} THEN "PeerNotFound"
  ELSE IF ~Room(n, p, packet) THEN "SendQueueFull"
  ELSE "OK"

Enqueue(n, P, packet) ==
  out' = [out EXCEPT ![n] = [p \in Node |->
            IF p \in P
              THEN [out[n][p] EXCEPT ![ChannelFor(n, p, packet)] =
                                       Append(@, packet)]
              ELSE out[n][p]]]

\* Mutated form: the queue grows beyond its capacity.
BadSendTo(n, p, packet) ==
  Enqueue(n, IF conn[n][p] # {} THEN {p} ELSE {}, packet)

\* send_to_peer, or the error it returns.
SendTo(n, p, packet) ==
  Enqueue(n, IF SendError(n, p, packet) = "OK" THEN {p} ELSE {}, packet)

\* broadcast: a peer whose queue is full does not get the packet.
BroadcastPacket(n, packet, exclude) ==
  LET P == {p \in Node \ exclude : conn[n][p] # {}}
      Q == {p \in P : Room(n, p, packet)}
  IN Enqueue(n, Q, packet) /\ calm' = (calm /\ Q = Node \ (exclude \cup {n}))

-----------------------------------------------------------------------------
(* The send functions.  A call holds the NETWORK lock of its process, so   *)
(* one call is under way at a node.                                        *)

\* The next message is m, sent by n to target t.
Submit(n, m, t, r) ==
  /\ sent' = Append(sent, [data |-> m, from |-> n, target |-> t,
                           leader |-> es[n].leaderId])
  /\ result' = Append(result, r)
  /\ SettingsUnchanged
  /\ UNCHANGED <<es, conn, inbox, relaying, got, changes>>

\* The tests every send function makes before it routes the message.
ValidMessage(n, m) ==
  m.raw >= 0 /\ ~TooLarge(m.raw, Limit[n]) /\ ~IsInternal(m.type)

Refuse(n, m, t, r) ==
  Submit(n, m, t, r) /\ UNCHANGED <<out, routing, calm>>

\* The packet encode_packet makes of message number id.
UserPacket(n, id, m) ==
  EncodePacket(m.type, m.flags, Payload(id, m.raw, m.packs), threshold[n])

NewPacket(n, m) == UserPacket(n, Len(sent) + 1, m)

\* The router goes on with the leader's id, which it has yet to read.
Pause(n, m, t, how) ==
  /\ Submit(n, m, t, "pending")
  /\ routing' = [routing EXCEPT ![n] =
                   [id |-> Len(sent) + 1, how |-> how, data |-> m]]
  /\ UNCHANGED <<out, calm>>

Leads(n) == es[n].role = "Leader"

BroadcastMessage(n, m) ==
  LET t == [to |-> "Broadcast"]
  IN \/ ~ValidMessage(n, m) /\ Refuse(n, m, t, "InvalidArgument")
     \/ /\ ValidMessage(n, m) /\ central[n] /\ ~Leads(n)
        /\ Pause(n, m, t, "forward")
     \/ /\ ValidMessage(n, m) /\ (~central[n] \/ Leads(n))
        /\ Submit(n, m, t, "OK")
        /\ BroadcastPacket(n, NewPacket(n, m), {})
        /\ UNCHANGED routing

SendToPeer(n, m, p) ==
  LET t == [to |-> "ToPeer", peer |-> p]
  IN \/ ~ValidMessage(n, m) /\ Refuse(n, m, t, "InvalidArgument")
     \/ /\ ValidMessage(n, m)
        /\ Submit(n, m, t, SendError(n, p, NewPacket(n, m)))
        /\ SendTo(n, p, NewPacket(n, m))
        /\ UNCHANGED <<routing, calm>>

SendToLeader(n, m) ==
  LET t == [to |-> "ToLeader"]
  IN \/ ~ValidMessage(n, m) /\ Refuse(n, m, t, "InvalidArgument")
     \/ ValidMessage(n, m) /\ Leads(n) /\ Refuse(n, m, t, "OK")
     \/ ValidMessage(n, m) /\ ~Leads(n) /\ Pause(n, m, t, "direct")

SendFromLeader(n, m) ==
  LET t == [to |-> "FromLeader"]
  IN \/ ~ValidMessage(n, m) /\ Refuse(n, m, t, "InvalidArgument")
     \/ ValidMessage(n, m) /\ ~Leads(n) /\ Refuse(n, m, t, "NotLeader")
     \/ /\ ValidMessage(n, m) /\ Leads(n)
        /\ Submit(n, m, t, "OK")
        /\ BroadcastPacket(n, NewPacket(n, m), {})
        /\ UNCHANGED routing

\* ForwardMessage, to one peer or (p = None) to all but `from`.
ForwardMessage(n, m, from, p) ==
  LET t == [to |-> "Forward", from |-> from, peer |-> p]
  IN \/ ~ValidMessage(n, m) /\ Refuse(n, m, t, "InvalidArgument")
     \/ ValidMessage(n, m) /\ ~Leads(n) /\ Refuse(n, m, t, "NotLeader")
     \/ /\ ValidMessage(n, m) /\ Leads(n) /\ p = None
        /\ Submit(n, m, t, "OK")
        /\ BroadcastPacket(n, NewPacket(n, m), {from})
        /\ UNCHANGED routing
     \/ /\ ValidMessage(n, m) /\ Leads(n) /\ p # None
        /\ Submit(n, m, t, SendError(n, p, NewPacket(n, m)))
        /\ SendTo(n, p, NewPacket(n, m))
        /\ UNCHANGED <<routing, calm>>

\* What the follower sends the leader in place of a broadcast.
Forwarded(n, r) ==
  [type |-> 0, kind |-> "forwarded", from |-> n, original |-> r.data.type,
   flags |-> 0, originalFlags |-> CleanFlags(r.data.flags),
   pay |-> Payload(r.id, r.data.raw, r.data.packs)]

\* leader_id() is read and the packet sent to that peer.  A node that was
\* deposed may find its own id there.
FinishRoute(n) ==
  LET r == routing[n]
      l == es[n].leaderId
      packet == IF r.how = "forward" THEN Forwarded(n, r)
                ELSE UserPacket(n, r.id, r.data)
      Return(code) == result' = [result EXCEPT ![r.id] = code]
  IN /\ r # Idle
     /\ \/ l = None /\ Return("NotLeader") /\ UNCHANGED out
        \/ /\ l # None /\ ~Encodable(packet, Limit[n])
           /\ Return("MessageTooLarge") /\ UNCHANGED out
        \/ /\ l # None /\ Encodable(packet, Limit[n])
           /\ Return(SendError(n, l, packet))
           /\ SendTo(n, l, packet)
     /\ routing' = [routing EXCEPT ![n] = Idle]
     /\ SettingsUnchanged
     /\ UNCHANGED <<es, conn, inbox, relaying, sent, got, calm, changes>>

-----------------------------------------------------------------------------
(* Receiving.                                                              *)

\* Mutated form: what was queued waits for the next connection.
BadCut(n, p, c) ==
  LET gone == IF c = "control" THEN Channels ELSE {"data"}
  IN /\ conn' = [conn EXCEPT ![n][p] = @ \ gone, ![p][n] = @ \ gone]
     /\ calm' = FALSE
     /\ UNCHANGED out

\* A channel is gone at both ends, with what was under way on it; the data
\* channel ends with the control connection.
Cut(n, p, c) ==
  LET gone == IF c = "control" THEN Channels ELSE {"data"}
  IN /\ conn' = [conn EXCEPT ![n][p] = @ \ gone, ![p][n] = @ \ gone]
     /\ out' = [out EXCEPT
                  ![n][p] = [d \in Channels |-> IF d \in gone THEN <<>> ELSE @[d]],
                  ![p][n] = [d \in Channels |-> IF d \in gone THEN <<>> ELSE @[d]]]
     /\ calm' = FALSE

\* The read task of n for channel c of p: a packet over the limit of n is a
\* decode error, which ends the channel.
Read(n, p, c) ==
  LET packet == Head(out[p][n][c])
  IN /\ out[p][n][c] # <<>>
     /\ \/ /\ CodecAccepts(packet, Limit[n])
           /\ inbox' = [inbox EXCEPT ![n] =
                          Append(@, [peer |-> p, packet |-> packet])]
           /\ out' = [out EXCEPT ![p][n][c] = Tail(@)]
           /\ UNCHANGED <<conn, calm>>
        \/ ~CodecAccepts(packet, Limit[n]) /\ Cut(n, p, c) /\ UNCHANGED inbox
     /\ SettingsUnchanged
     /\ UNCHANGED <<es, routing, relaying, sent, result, got, changes>>

\* send_received: the message is handed to the callback manager of n, whose
\* queue may drop it (SendEvent of Lifecycle has that).
Deliver(n, peer, id, type, flags, size) ==
  got' = [got EXCEPT ![n] = Append(@,
            [peer |-> peer, id |-> id, type |-> type, flags |-> flags,
             size |-> size])]

\* The handler of n takes a packet of this kind.
Takes(n) == relaying[n] = Idle /\ inbox[n] # <<>>
Received(n) == Head(inbox[n])
Forwards(packet) == IsInternal(packet.type) /\ packet.kind = "forwarded"
Assigns(packet) == IsInternal(packet.type) /\ packet.kind = "assign"

\* A user packet: decoded and delivered in the name of the peer it came from.
OnUser(n) ==
  LET packet == Received(n).packet
      pay == DecodePayload(packet)
  IN /\ Takes(n) /\ ~IsInternal(packet.type)
     /\ inbox' = [inbox EXCEPT ![n] = Tail(@)]
     /\ IF Decodes(packet)
          THEN Deliver(n, Received(n).peer, pay.id, packet.type, packet.flags,
                       pay.size)
          ELSE UNCHANGED got
     /\ SettingsUnchanged
     /\ UNCHANGED <<es, conn, out, routing, relaying, sent, result, calm, changes>>

\* handle_forwarded_user_data up to its first test: the leader relays.
OnForwarded(n) ==
  LET packet == Received(n).packet
      relays == Leads(n) /\ forward[n]
  IN /\ Takes(n) /\ Forwards(packet)
     /\ inbox' = [inbox EXCEPT ![n] = Tail(@)]
     /\ \/ /\ relays
           /\ relaying' = [relaying EXCEPT ![n] = [id |-> packet.pay.id,
                                                   packet |-> packet]]
           /\ UNCHANGED <<got, calm>>
        \/ /\ ~relays
           /\ Deliver(n, packet.from, packet.pay.id, packet.original,
                      packet.originalFlags, packet.pay.size)
           /\ UNCHANGED <<relaying, calm>>
     /\ SettingsUnchanged
     /\ UNCHANGED <<es, conn, out, routing, sent, result, changes>>

\* Mutated form: the sender of the message is not excluded.
BadExcluded(packet) == {}

\* Whom the leader does not send a relayed message to.
Excluded(packet) == {packet.from}

\* Mutated form: the leader hears nothing of what it relays.
BadRelay(n) ==
  LET packet == relaying[n].packet
      copy == EncodePacket(packet.original, packet.originalFlags, packet.pay,
                           threshold[n])
  IN /\ relaying[n] # Idle
     /\ IF Leads(n) /\ Encodable(copy, Limit[n])
          THEN BroadcastPacket(n, copy, Excluded(packet))
          ELSE UNCHANGED <<out, calm>>
     /\ relaying' = [relaying EXCEPT ![n] = Idle]
     /\ SettingsUnchanged
     /\ UNCHANGED <<es, conn, inbox, routing, sent, result, got, changes>>

\* forward_message asks again whether the node leads, and the message is
\* delivered here whatever it answers.
Relay(n) ==
  LET packet == relaying[n].packet
      copy == EncodePacket(packet.original, packet.originalFlags, packet.pay,
                           threshold[n])
  IN /\ relaying[n] # Idle
     /\ IF Leads(n) /\ Encodable(copy, Limit[n])
          THEN BroadcastPacket(n, copy, Excluded(packet))
          ELSE UNCHANGED <<out, calm>>
     /\ Deliver(n, packet.from, packet.pay.id, packet.original,
                packet.originalFlags, packet.pay.size)
     /\ relaying' = [relaying EXCEPT ![n] = Idle]
     /\ SettingsUnchanged
     /\ UNCHANGED <<es, conn, inbox, routing, sent, result, changes>>

OnAssign(n) ==
  LET packet == Received(n).packet
  IN /\ Takes(n) /\ Assigns(packet)
     /\ inbox' = [inbox EXCEPT ![n] = Tail(@)]
     /\ es' = [es EXCEPT ![n] =
                 HandleLeaderAssign(@, n, packet.term, packet.leader)]
     /\ SettingsUnchanged
     /\ UNCHANGED <<conn, out, routing, relaying, sent, result, got, calm, changes>>

-----------------------------------------------------------------------------
(* What disturbs the routing.                                              *)

Change == changes' = changes + 1

\* SetLeader: the assignment is broadcast on the control channels, unless it
\* does not fit: then the call fails, with the leader set here.
CallSetLeader(n, l) ==
  LET next == SetLeader(es[n], n, l)
      packet == [type |-> 0, kind |-> "assign", term |-> next.currentTerm,
                 leader |-> l, flags |-> 0, pay |-> Payload(0, 0, FALSE)]
      P == {p \in Node : conn[n][p] # {} /\ Room(n, p, packet)
                          /\ Encodable(packet, Limit[n])}
  IN /\ Change /\ routing[n] = Idle
     /\ es' = [es EXCEPT ![n] = next]
     /\ Enqueue(n, P, packet)
     /\ calm' = FALSE
     /\ SettingsUnchanged
     /\ UNCHANGED <<conn, inbox, routing, relaying, sent, result, got>>

\* A vote request of a higher term: the node steps down and still names the
\* leader of the old term, itself perhaps.
VoteRequested(n, c) ==
  /\ Change /\ relaying[n] = Idle /\ c # n
  /\ es' = [es EXCEPT ![n] = HandleRequestVote(@, @.currentTerm + 1, c)]
  /\ calm' = FALSE
  /\ SettingsUnchanged
  /\ UNCHANGED <<conn, out, inbox, routing, relaying, sent, result, got>>

CutChannel(n, p, c) ==
  /\ n < p /\ c \in conn[n][p] /\ Change
  /\ Cut(n, p, c)
  /\ SettingsUnchanged
  /\ UNCHANGED <<es, inbox, routing, relaying, sent, result, got>>

\* A setting is changed by the application of n.
Toggle(n) ==
  /\ Change /\ routing[n] = Idle
  /\ UNCHANGED <<es, conn, out, inbox, routing, relaying, sent, result, got>>

SetCentralizedMode(n) ==
  /\ Toggle(n)
  /\ central' = [central EXCEPT ![n] = ~@]
  /\ UNCHANGED <<forward, threshold, calm>>

SetCentralizedAutoForward(n) ==
  /\ Toggle(n)
  /\ forward' = [forward EXCEPT ![n] = ~@]
  /\ calm' = FALSE
  /\ UNCHANGED <<central, threshold>>

SetCompressionThreshold(n, t) ==
  /\ Toggle(n)
  /\ threshold' = [threshold EXCEPT ![n] = t]
  /\ UNCHANGED <<central, forward, calm>>

-----------------------------------------------------------------------------
CallStep(n) ==
  /\ Len(sent) < MaxSends /\ routing[n] = Idle
  /\ \E m \in Data :
       \/ BroadcastMessage(n, m) \/ SendToLeader(n, m) \/ SendFromLeader(n, m)
       \/ \E p \in Node : SendToPeer(n, m, p)
       \/ \E from \in Node, p \in OptNode : ForwardMessage(n, m, from, p)

HandlerStep(n) == OnUser(n) \/ OnForwarded(n) \/ Relay(n) \/ OnAssign(n)

TaskStep(n) ==
  \/ FinishRoute(n) \/ HandlerStep(n)
  \/ \E p \in Node, c \in Channels : Read(n, p, c)

ChangeStep(n) ==
  /\ changes < MaxChanges
  /\ \/ SetCentralizedMode(n) \/ SetCentralizedAutoForward(n)
     \/ \E t \in Thresholds : SetCompressionThreshold(n, t)
     \/ \E l \in Node : CallSetLeader(n, l) \/ VoteRequested(n, l)
     \/ \E p \in Node, c \in Channels : CutChannel(n, p, c)

Next ==
  \E n \in Node :
    CallStep(n) \/ TaskStep(n) \/ ChangeStep(n)

Spec == Init /\ [][Next]_vars

\* A call returns, a queued packet is written and read, the handler runs.
Fairness ==
  \A n \in Node :
    /\ WF_vars(FinishRoute(n)) /\ WF_vars(HandlerStep(n))
    /\ \A p \in Node, c \in Channels : WF_vars(Read(n, p, c))

FairSpec == Spec /\ Fairness

-----------------------------------------------------------------------------
(* Properties.                                                             *)

Code == {"pending", "OK", "InvalidArgument", "NotLeader", "PeerNotFound",
         "SendQueueFull", "MessageTooLarge"}

\* Every variable has the shape the code gives it; what is relayed or on its
\* way through the router is a message that was sent.
TypeOK ==
  /\ es \in [Node -> ElectionState]
  /\ central \in [Node -> BOOLEAN] /\ forward \in [Node -> BOOLEAN]
  /\ threshold \in [Node -> Nat]
  /\ conn \in [Node -> [Node -> {{}, {"control"}, Channels}]]
  /\ \A n, p \in Node, c \in Channels :
       c \notin conn[n][p] => out[n][p][c] = <<>>
  /\ Len(sent) = Len(result) /\ Len(sent) <= MaxSends
  /\ \A i \in DOMAIN sent : sent[i].target \in Target /\ result[i] \in Code
  /\ \A n \in Node : /\ routing[n].id \in 0 .. Len(sent)
                     /\ relaying[n].id \in 0 .. Len(sent)
  /\ calm \in BOOLEAN

Copies(n, i) == {k \in DOMAIN got[n] : got[n][k].id = i}

\* However a broadcast travels, directly or through a leader that changes
\* while it is forwarded, nobody receives a message twice, and nobody the one
\* it sent itself.
AtMostOnce ==
  \A i \in DOMAIN sent, n \in Node :
    Cardinality(Copies(n, i)) <= (IF n = sent[i].from THEN 0 ELSE 1)

\* What is handed to the callback manager is what was sent: the type, the seven user bits
\* of the flags and the length, compressed or not, forwarded or not.
DeliveredIntact ==
  \A n \in Node : \A k \in DOMAIN got[n] :
    LET g == got[n][k]
        m == sent[g.id].data
    IN /\ g.type = m.type /\ g.size = m.raw
       /\ CleanFlags(g.flags) = CleanFlags(m.flags)

Queued(n, p, i) ==
  \E c \in Channels : \E k \in DOMAIN out[n][p][c] : out[n][p][c][k].pay.id = i

\* A call that returned an error has sent nothing, to anybody: the application
\* may retry without a duplicate.
RefusedNotSent ==
  \A i \in DOMAIN sent : result[i] \notin {"OK", "pending"} =>
    \A n \in Node : Copies(n, i) = {} /\ \A p \in Node : ~Queued(n, p, i)

\* No packet is queued that the sender's own encoder refuses, which would end
\* the channel for everybody: the envelope of a forwarded message counts.
PacketsFit ==
  \A n, p \in Node, c \in Channels : \A k \in DOMAIN out[n][p][c] :
    CodecAccepts(out[n][p][c][k], Limit[n])

\* Who should receive message i: the leader's id is the one the sender knew.
Audience(i) ==
  LET t == sent[i].target
      n == sent[i].from
  IN CASE t.to \in Everyone -> Node \ {n}
       [] t.to = "ToPeer" -> {t.peer}
       [] t.to = "ToLeader" -> {sent[i].leader} \ {n, None}
       [] t.to = "Forward" -> IF t.peer = None THEN Node \ {n, t.from}
                              ELSE {t.peer}

\* Message i is on a queue to p, in its inbox, or with its relay.
OnTheWay(p, i) ==
  \/ \E n \in Node : Queued(n, p, i)
  \/ \E k \in DOMAIN inbox[p] : inbox[p][k].packet.pay.id = i
  \/ relaying[p].id = i

\* An envelope with message i in it is on a queue to p, in its inbox, or with
\* its relay.
Enveloped(p, i) ==
  \/ \E n \in Node, c \in Channels : \E k \in DOMAIN out[n][p][c] :
       Forwards(out[n][p][c][k]) /\ out[n][p][c][k].pay.id = i
  \/ \E k \in DOMAIN inbox[p] :
       Forwards(inbox[p][k].packet) /\ inbox[p][k].packet.pay.id = i
  \/ relaying[p].id = i

\* While leader, channels and auto_forward stay as they are and no queue is full,
\* a message whose call returned OK is lost for nobody it was addressed to, at
\* no point of its way: it has been delivered there, is on its way there, or
\* is in an envelope at or before the one node that leads and will relay it.
NothingLost ==
  calm => \A i \in DOMAIN sent : result[i] = "OK" =>
    \A p \in Audience(i) :
      \/ Copies(p, i) # {} \/ OnTheWay(p, i)
      \/ \E l \in Node : Leads(l) /\ Enveloped(l, i)

\* Somebody has yet to receive message i, and nothing came in its way.
Missing(i) ==
  /\ i <= Len(sent) /\ calm /\ result[i] = "OK"
  /\ \E p \in Audience(i) : Copies(p, i) = {}

\* While leadership, channels and settings stay as they are, a message whose
\* call returned OK reaches the callback manager of everybody it was addressed
\* to.
ReachesAll == \A i \in 1 .. MaxSends : Missing(i) ~> ~Missing(i)

\* "BroadcastMessage / SendToPeer: [...] returns SendQueueFull when the queue is
\* full": a broadcast that returns OK was queued for every connected peer.
FullQueueReported ==
  [][\A i \in 1 .. MaxSends, n, p \in Node :
       /\ i > Len(sent) /\ i <= Len(sent')
       /\ result'[i] = "OK" /\ sent'[i].target.to = "Broadcast" /\ sent'[i].from = n
       /\ conn[n][p] # {}
       => Queued(n, p, i)']_vars
=============================================================================
