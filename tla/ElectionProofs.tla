---------------------------- MODULE ElectionProofs ----------------------------
(***************************************************************************)
(* Theorems about Election, for every set of nodes, every start, and every *)
(* value of the bounds.                                                    *)
(***************************************************************************)
EXTENDS Election, FiniteSetTheorems, TLAPS

-----------------------------------------------------------------------------
(* The handlers of src/leader.rs map election states to election states.   *)

\* What every handler is given.
LEMMA HandlerTypes ==
  ASSUME NEW s \in ElectionState, NEW self \in Node, NEW p \in Node,
         NEW t \in Nat, NEW count \in Nat, NEW b \in BOOLEAN
  PROVE  /\ NewElection(b) \in ElectionState
         /\ StartElection(s, self, count) \in ElectionState
         /\ HandleRequestVote(s, t, p) \in ElectionState
         /\ GrantsVote(s, t, p) \in BOOLEAN
         /\ HandleVoteResponse(s, self, t, p, b, count) \in ElectionState
         /\ HandleHeartbeat(s, self, t, p) \in ElectionState
         /\ HandleLeaderAssign(s, self, t, p) \in ElectionState
         /\ SetLeader(s, self, p) \in ElectionState
         /\ EnableAutoElection(s, b) \in ElectionState
         /\ HandlePeerLeft(s, p) \in ElectionState
<1> USE DEF ElectionState, Role, OptNode
<1>1. NewElection(b) \in ElectionState
  BY DEF NewElection
<1>2. \A r \in ElectionState : Tally(r, self, count) \in ElectionState
  BY DEF Tally, BecomeLeader
<1>0. s.currentTerm + 1 \in Nat
  OBVIOUS
<1>3. StartElection(s, self, count) \in ElectionState
  <2>1. Candidacy(s, self) \in ElectionState
    BY <1>0 DEF Candidacy
  <2> QED BY <2>1, <1>2 DEF StartElection
<1>4. AdoptIfHigher(s, t) \in ElectionState /\ Adopt(s, t) \in ElectionState
  BY DEF AdoptIfHigher, Adopt
<1>5. HandleRequestVote(s, t, p) \in ElectionState
  BY <1>4 DEF HandleRequestVote
<1>6. GrantsVote(s, t, p) \in BOOLEAN
  BY DEF GrantsVote, CanVote
<1>7. HandleVoteResponse(s, self, t, p, b, count) \in ElectionState
  <2>1. [s EXCEPT !.votes = @ \cup {p}] \in ElectionState
    OBVIOUS
  <2> QED BY <2>1, <1>2, <1>4 DEF HandleVoteResponse
<1>8. HandleHeartbeat(s, self, t, p) \in ElectionState
  BY DEF HandleHeartbeat
<1>9. HandleLeaderAssign(s, self, t, p) \in ElectionState
  BY DEF HandleLeaderAssign, Assigned
<1>10. SetLeader(s, self, p) \in ElectionState
  BY <1>0 DEF SetLeader, Assigned
<1>11. EnableAutoElection(s, b) \in ElectionState
  BY DEF EnableAutoElection
<1>12. HandlePeerLeft(s, p) \in ElectionState
  BY DEF HandlePeerLeft
<1> QED BY <1>1, <1>3, <1>5, <1>6, <1>7, <1>8, <1>9, <1>10, <1>11, <1>12

\* The number of connected peers a node counts is a natural number.
LEMMA CountType ==
  ASSUME NEW n \in Node
  PROVE  ConnectedCount(n) \in Nat
<1>1. IsFiniteSet({p \in Node : members[n][p] = "Connected"})
  BY FS_Subset, NodeAssumption
<1> QED BY <1>1, FS_CardinalityType DEF ConnectedCount

-----------------------------------------------------------------------------
(* The control channels carry messages.                                    *)

NetType == net \in [Node -> [Node -> Seq(Message)]]

\* try_send appends a message or drops it.
LEMMA EnqueueType ==
  ASSUME NEW q \in Seq(Message), NEW m \in Message
  PROVE  Enqueue(q, m) \in Seq(Message)
BY DEF Enqueue

\* broadcast changes the channels of the sender only, to channels.
LEMMA BroadcastType ==
  ASSUME NetType, NEW n \in Node, NEW m \in Message
  PROVE  Broadcast(n, m) \in [Node -> [Node -> Seq(Message)]]
<1>1. \A p \in Node : Enqueue(net[n][p], m) \in Seq(Message)
  BY EnqueueType DEF NetType
<1> QED BY <1>1 DEF Broadcast, NetType

\* Taking the first message leaves a channel.
LEMMA TakeType ==
  ASSUME NetType, NEW n \in Node, NEW p \in Node, net[p][n] # <<>>
  PROVE  /\ Take(p, n) \in [Node -> [Node -> Seq(Message)]]
         /\ Head(net[p][n]) \in Message
         /\ \A m \in Message :
              TakeAndReply(p, n, m) \in [Node -> [Node -> Seq(Message)]]
<1>1. Tail(net[p][n]) \in Seq(Message) /\ Head(net[p][n]) \in Message
  BY DEF NetType
<1>2. Take(p, n) \in [Node -> [Node -> Seq(Message)]]
  BY <1>1 DEF NetType, Take
<1>3. ASSUME NEW m \in Message
      PROVE  TakeAndReply(p, n, m) \in [Node -> [Node -> Seq(Message)]]
  <2>1. Enqueue(Take(p, n)[n][p], m) \in Seq(Message)
    BY <1>2, EnqueueType
  <2> QED BY <2>1, <1>2 DEF TakeAndReply
<1> QED BY <1>1, <1>2, <1>3

\* What is left of a cut channel is a channel.
LEMMA CutType ==
  ASSUME NEW q \in Seq(Message), NEW r \in Cuts(q)
  PROVE  r \in Seq(Message)
BY DEF Cuts

\* Closing a channel keeps the types of the table and of the channels.
LEMMA SeverType ==
  ASSUME NetType, conns \in [Node -> SUBSET Node],
         NEW n \in Node, NEW p \in Node, NEW q \in Seq(Message),
         Sever(n, p, q)
  PROVE  NetType' /\ conns' \in [Node -> SUBSET Node]
<1>1. conns' \in [Node -> SUBSET Node]
  BY DEF Sever
<1>2. PICK out \in Cuts(q), in \in Cuts(net[p][n]) :
        net' = [net EXCEPT ![n][p] = out, ![p][n] = in]
  BY DEF Sever
<1>3. out \in Seq(Message) /\ in \in Seq(Message)
  BY CutType DEF NetType
<1> QED BY <1>1, <1>2, <1>3 DEF NetType

\* The messages the nodes send are messages.
LEMMA MessageType ==
  ASSUME NEW t \in Nat, NEW b \in BOOLEAN, NEW l \in Node
  PROVE  /\ [type |-> "RequestVote", term |-> t] \in Message
         /\ [type |-> "Heartbeat", term |-> t] \in Message
         /\ [type |-> "VoteResponse", term |-> t, granted |-> b] \in Message
         /\ [type |-> "LeaderAssign", term |-> t, leader |-> l] \in Message
         /\ [type |-> "PeerLeave"] \in Message
BY DEF Message

\* A message of a type has the fields of that type.
LEMMA MessageFields ==
  ASSUME NEW m \in Message
  PROVE  /\ m.type # "PeerLeave" => m.term \in Nat
         /\ m.type = "VoteResponse" => m.granted \in BOOLEAN
         /\ m.type = "LeaderAssign" => m.leader \in Node
BY DEF Message

-----------------------------------------------------------------------------
(* Type correctness.                                                       *)

\* NetworkState::new starts from values of these types.
LEMMA InitType == Init => TypeOK
<1> SUFFICES ASSUME Init PROVE TypeOK
  OBVIOUS
<1>1. es \in [Node -> ElectionState]
  <2>1. \A n \in Node : NewElection(n \in AutoNodes) \in ElectionState
    BY DEF NewElection, ElectionState, Role, OptNode
  <2> QED BY <2>1 DEF Init
<1>2. pc \in [Node -> TaskState]
  BY DEF Init, IdleTasks, TaskState
<1>3. members \in [Node -> [Node -> PeerStatus]]
  BY DEF Init, PeerStatus
<1>4. conns \in [Node -> SUBSET Node] /\ joins \in [Node -> SUBSET Node]
  BY ConnsAssumption DEF Init
<1>5. leftEvents \in [Node -> Seq(Node)] /\ net \in [Node -> [Node -> Seq(Message)]]
  BY DEF Init
<1>6. used \in Used
  BY DEF Init, Used
<1> QED BY <1>1, <1>2, <1>3, <1>4, <1>5, <1>6 DEF Init, TypeOK

\* Counting one more use of a bound.
LEMMA UsedType ==
  ASSUME NEW u \in Used
  PROVE  /\ [u EXCEPT !.assigns = @ + 1] \in Used
         /\ [u EXCEPT !.toggles = @ + 1] \in Used
         /\ [u EXCEPT !.disruptions = @ + 1] \in Used
         /\ [u EXCEPT !.connects = @ + 1] \in Used
         /\ [u EXCEPT !.restarts = @ + 1] \in Used
<1> USE DEF Used
<1>1. /\ u.assigns + 1 \in Nat /\ u.toggles + 1 \in Nat
      /\ u.disruptions + 1 \in Nat /\ u.connects + 1 \in Nat
      /\ u.restarts + 1 \in Nat
  OBVIOUS
<1> QED BY <1>1

\* The tasks that only read the term and broadcast it.
LEMMA HeartbeatType ==
  ASSUME TypeOK, NEW n \in Node, BroadcastHeartbeat(n)
  PROVE  NetType'
<1>1. [type |-> "Heartbeat", term |-> es[n].currentTerm] \in Message
  BY MessageType DEF TypeOK, ElectionState
<1> QED BY <1>1, BroadcastType DEF BroadcastHeartbeat, NetType, TypeOK

\* A task of n moves on.
LEMMA MoveType ==
  ASSUME pc \in [Node -> TaskState], NEW n \in Node,
         \/ \E v \in {"idle", "elect", "check", "announce"} :
              pc' = [pc EXCEPT ![n].timer = v]
         \/ \E v \in {"idle", "announce"} : pc' = [pc EXCEPT ![n].handler = v]
         \/ \E v \in {"idle", "send"} : pc' = [pc EXCEPT ![n].beat = v]
  PROVE  pc' \in [Node -> TaskState]
<1>1. PICK s \in TaskState : s = pc[n]
  OBVIOUS
<1>2. /\ \A v \in {"idle", "elect", "check", "announce"} :
           [s EXCEPT !.timer = v] \in TaskState
      /\ \A v \in {"idle", "announce"} : [s EXCEPT !.handler = v] \in TaskState
      /\ \A v \in {"idle", "send"} : [s EXCEPT !.beat = v] \in TaskState
  BY DEF TaskState
<1>3. PICK r \in TaskState : pc' = [pc EXCEPT ![n] = r]
  <2>1. CASE \E v \in {"idle", "elect", "check", "announce"} :
               pc' = [pc EXCEPT ![n].timer = v]
    BY <1>1, <1>2, <2>1
  <2>2. CASE \E v \in {"idle", "announce"} : pc' = [pc EXCEPT ![n].handler = v]
    BY <1>1, <1>2, <2>2
  <2>3. CASE \E v \in {"idle", "send"} : pc' = [pc EXCEPT ![n].beat = v]
    BY <1>1, <1>2, <2>3
  <2> QED BY <2>1, <2>2, <2>3
<1> QED BY <1>3

\* The history records an election of the right shape.
LEMMA WonType ==
  ASSUME TypeOK, NEW n \in Node, NEW V \in SUBSET Node, es'[n].currentTerm \in Nat
  PROVE  Victory(n, V) \in Won
<1>1. PICK k \in Nat : k = ConnectedCount(n)
  BY CountType
<1>2. Victory(n, V) = [term |-> es'[n].currentTerm, leader |-> n, voters |-> V,
                       total |-> 1 + k]
  BY <1>1 DEF Victory
<1>3. 1 + k \in Nat
  OBVIOUS
<1> QED BY <1>2, <1>3 DEF Won

\* The steps of the periodic tasks and the watcher keep the types.
LEMMA TaskType ==
  ASSUME TypeOK, NEW n \in Node, TaskStep(n)
  PROVE  TypeOK'
<1> USE DEF NetworkUnchanged
<1>0. ConnectedCount(n) \in Nat
  BY CountType
<1>1. CASE ElectionTimeout(n)
  <2>1. pc' \in [Node -> TaskState]
    BY <1>1, MoveType DEF ElectionTimeout, TypeOK
  <2> QED BY <1>1, <2>1 DEF ElectionTimeout, TypeOK
<1>2. CASE RunElection(n)
  <2>1. StartElection(es[n], n, ConnectedCount(n)) \in ElectionState
    BY <1>0, HandlerTypes DEF TypeOK
  <2>2. es' \in [Node -> ElectionState]
    BY <1>2, <2>1 DEF RunElection, TypeOK
  <2>3. es'[n].currentTerm \in Nat
    BY <2>2 DEF ElectionState
  <2>4. net' \in [Node -> [Node -> Seq(Message)]]
    BY <1>2, <2>3, MessageType, BroadcastType DEF RunElection, TypeOK, NetType
  <2>5. elections' \subseteq Won
    <3>1. Victory(n, {n}) \in Won
      BY <2>3, WonType
    <3> QED BY <1>2, <3>1 DEF RunElection, TypeOK
  <2>6. ballots' \subseteq Node \X Nat \X Node
    BY <1>2, <2>3 DEF RunElection, TypeOK
  <2>7. pc' \in [Node -> TaskState]
    <3>1. \E v \in {"idle", "elect", "check", "announce"} :
            pc' = [pc EXCEPT ![n].timer = v]
      BY <1>2 DEF RunElection
    <3> QED BY <3>1, MoveType DEF TypeOK
  <2> QED BY <1>2, <2>2, <2>4, <2>5, <2>6, <2>7 DEF RunElection, TypeOK
<1>3. CASE TimerAnnounce(n)
  <2>1. NetType'
    BY <1>3, HeartbeatType DEF TimerAnnounce
  <2>2. pc' \in [Node -> TaskState]
    BY <1>3, MoveType DEF TimerAnnounce, TypeOK
  <2> QED BY <1>3, <2>1, <2>2 DEF TimerAnnounce, TypeOK, NetType
<1>4. CASE HeartbeatTick(n)
  <2>1. pc' \in [Node -> TaskState]
    BY <1>4, MoveType DEF HeartbeatTick, TypeOK
  <2> QED BY <1>4, <2>1 DEF HeartbeatTick, TypeOK
<1>5. CASE SendHeartbeat(n)
  <2>1. NetType'
    BY <1>5, HeartbeatType DEF SendHeartbeat
  <2>2. pc' \in [Node -> TaskState]
    BY <1>5, MoveType DEF SendHeartbeat, TypeOK
  <2> QED BY <1>5, <2>1, <2>2 DEF SendHeartbeat, TypeOK, NetType
<1>6. CASE HandlerAnnounce(n)
  <2>1. NetType'
    BY <1>6, HeartbeatType DEF HandlerAnnounce
  <2>2. pc' \in [Node -> TaskState]
    BY <1>6, MoveType DEF HandlerAnnounce, TypeOK
  <2> QED BY <1>6, <2>1, <2>2 DEF HandlerAnnounce, TypeOK, NetType
<1>7. CASE OnLeft(n)
  <2>1. Head(leftEvents[n]) \in Node /\ Tail(leftEvents[n]) \in Seq(Node)
    BY <1>7 DEF OnLeft, TypeOK
  <2>2. HandlePeerLeft(es[n], Head(leftEvents[n])) \in ElectionState
    BY <2>1, HandlerTypes DEF TypeOK
  <2> QED BY <1>7, <2>1, <2>2 DEF OnLeft, TypeOK
<1>8. CASE TimerCheck(n)
  <2>1. pc' \in [Node -> TaskState]
    <3>1. \E v \in {"idle", "elect", "check", "announce"} :
            pc' = [pc EXCEPT ![n].timer = v]
      BY <1>8 DEF TimerCheck
    <3> QED BY <3>1, MoveType DEF TypeOK
  <2> QED BY <1>8, <2>1 DEF TimerCheck, TypeOK
<1> QED BY <1>1, <1>2, <1>3, <1>4, <1>5, <1>6, <1>7, <1>8 DEF TaskStep

\* So do the steps of the message handler.
LEMMA HandlerType ==
  ASSUME TypeOK, NEW n \in Node, NEW p \in Node, HandlerStep(n, p)
  PROVE  TypeOK'
<1> USE DEF NetworkUnchanged
<1> DEFINE m == Head(net[p][n])
<1>0. ConnectedCount(n) \in Nat
  BY CountType
<1>a. ASSUME net[p][n] # <<>>
      PROVE  /\ m \in Message
             /\ Take(p, n) \in [Node -> [Node -> Seq(Message)]]
  BY <1>a, TakeType DEF TypeOK, NetType
<1>1. CASE OnRequestVote(n, p)
  <2>1. m.term \in Nat
    BY <1>1, <1>a, MessageFields DEF OnRequestVote, Handles
  <2>2. /\ HandleRequestVote(es[n], m.term, p) \in ElectionState
        /\ GrantsVote(es[n], m.term, p) \in BOOLEAN
    BY <2>1, HandlerTypes DEF TypeOK
  <2>3. es' \in [Node -> ElectionState]
    BY <1>1, <2>2 DEF OnRequestVote, TypeOK
  <2>4. [type |-> "VoteResponse", term |-> es'[n].currentTerm,
         granted |-> GrantsVote(es[n], m.term, p)] \in Message
    BY <2>2, <2>3, MessageType DEF ElectionState
  <2>5. net' \in [Node -> [Node -> Seq(Message)]]
    <3> DEFINE a == [type |-> "VoteResponse", term |-> es'[n].currentTerm,
                     granted |-> GrantsVote(es[n], m.term, p)]
    <3>1. net[p][n] # <<>> /\ net' = TakeAndReply(p, n, a)
      BY <1>1 DEF OnRequestVote, Handles
    <3>2. a \in Message
      BY <2>4
    <3> HIDE DEF a
    <3> QED BY <3>1, <3>2, TakeType DEF TypeOK, NetType
  <2>6. ballots' \subseteq Node \X Nat \X Node
    BY <1>1, <2>1 DEF OnRequestVote, TypeOK
  <2>7. UNCHANGED <<alive, pc, members, leftEvents, conns, joins, used, elections>>
    BY <1>1 DEF OnRequestVote
  <2> QED BY <2>3, <2>5, <2>6, <2>7 DEF TypeOK
<1>2. CASE OnVoteResponse(n, p)
  <2>1. m.term \in Nat /\ m.granted \in BOOLEAN
    BY <1>2, <1>a, MessageFields DEF OnVoteResponse, Handles
  <2>2. HandleVoteResponse(es[n], n, m.term, p, m.granted, ConnectedCount(n))
          \in ElectionState
    BY <1>0, <2>1, HandlerTypes DEF TypeOK
  <2>3. es' \in [Node -> ElectionState]
    BY <1>2, <2>2 DEF OnVoteResponse, TypeOK
  <2>4. elections' \subseteq Won
    <3>1. es'[n].currentTerm \in Nat /\ es[n].votes \subseteq Node
      BY <2>3 DEF ElectionState, TypeOK
    <3> DEFINE V == IF m.granted THEN es[n].votes \cup {p} ELSE es[n].votes
    <3>2. V \in SUBSET Node
      BY <3>1
    <3>3. Victory(n, V) \in Won
      BY <3>1, <3>2, WonType
    <3>4. elections' \subseteq elections \cup {Victory(n, V)}
      BY <1>2 DEF OnVoteResponse
    <3> HIDE DEF V
    <3> QED BY <3>3, <3>4 DEF TypeOK
  <2>5. pc' \in [Node -> TaskState]
    <3>1. pc' = pc \/ pc' = [pc EXCEPT ![n].handler = "announce"]
      BY <1>2 DEF OnVoteResponse
    <3>2. CASE pc' = pc
      BY <3>2 DEF TypeOK
    <3>3. CASE pc' = [pc EXCEPT ![n].handler = "announce"]
      BY <3>3, MoveType DEF TypeOK
    <3> QED BY <3>1, <3>2, <3>3
  <2>6. net' \in [Node -> [Node -> Seq(Message)]]
    BY <1>2, <1>a DEF OnVoteResponse, Handles
  <2>7. UNCHANGED <<alive, members, leftEvents, conns, joins, used, ballots>>
    BY <1>2 DEF OnVoteResponse
  <2> QED BY <2>3, <2>4, <2>5, <2>6, <2>7 DEF TypeOK
<1>3. CASE OnHeartbeat(n, p)
  <2>1. m.term \in Nat
    BY <1>3, <1>a, MessageFields DEF OnHeartbeat, Handles
  <2>2. HandleHeartbeat(es[n], n, m.term, p) \in ElectionState
    BY <2>1, HandlerTypes DEF TypeOK
  <2>3. net' \in [Node -> [Node -> Seq(Message)]]
    BY <1>3, <1>a DEF OnHeartbeat, Handles
  <2> QED BY <1>3, <2>2, <2>3 DEF OnHeartbeat, TypeOK
<1>4. CASE OnLeaderAssign(n, p)
  <2>1. m.term \in Nat /\ m.leader \in Node
    BY <1>4, <1>a, MessageFields DEF OnLeaderAssign, Handles
  <2>2. HandleLeaderAssign(es[n], n, m.term, m.leader) \in ElectionState
    BY <2>1, HandlerTypes DEF TypeOK
  <2>3. net' \in [Node -> [Node -> Seq(Message)]]
    BY <1>4, <1>a DEF OnLeaderAssign, Handles
  <2> QED BY <1>4, <2>2, <2>3 DEF OnLeaderAssign, TypeOK
<1>5. CASE OnPeerLeave(n, p)
  <2>1. net' \in [Node -> [Node -> Seq(Message)]]
    BY <1>5, <1>a DEF OnPeerLeave, Handles
  <2>2. members' \in [Node -> [Node -> PeerStatus]]
    BY <1>5 DEF OnPeerLeave, RemovePeer, TypeOK, PeerStatus
  <2>3. leftEvents' \in [Node -> Seq(Node)]
    BY <1>5 DEF OnPeerLeave, RemovePeer, TypeOK
  <2> QED BY <1>5, <2>1, <2>2, <2>3 DEF OnPeerLeave, TypeOK
<1>6. CASE OnHandshake(n, p)
  BY <1>6 DEF OnHandshake, TypeOK, PeerStatus
<1>7. CASE TimeoutOfLost(n, p)
  BY <1>7 DEF TimeoutOfLost, TypeOK, PeerStatus
<1> QED BY <1>1, <1>2, <1>3, <1>4, <1>5, <1>6, <1>7 DEF HandlerStep

\* So do slow links, lost links and the calls of the application.
LEMMA EnvironmentType ==
  ASSUME TypeOK, NEW n \in Node, NEW p \in Node, EnvironmentStep(n, p)
  PROVE  TypeOK'
<1>0. Enqueue(net[n][p], [type |-> "PeerLeave"]) \in Seq(Message)
  BY EnqueueType, MessageType DEF TypeOK
<1>1. CASE TimeoutOfSlow(n, p)
  <2>1. NetType' /\ conns' \in [Node -> SUBSET Node]
    BY <1>0, <1>1, SeverType DEF TimeoutOfSlow, TypeOK, NetType
  <2>2. used' \in Used
    BY <1>1, UsedType DEF TimeoutOfSlow, TypeOK
  <2> QED BY <1>1, <2>1, <2>2 DEF TimeoutOfSlow, TypeOK, NetType, PeerStatus
<1>2. CASE CallSetLeader(n, p)
  <2>1. SetLeader(es[n], n, p) \in ElectionState
    BY HandlerTypes DEF TypeOK
  <2>2. es' \in [Node -> ElectionState]
    BY <1>2, <2>1 DEF CallSetLeader, TypeOK
  <2>3. [type |-> "LeaderAssign", term |-> es'[n].currentTerm, leader |-> p]
          \in Message
    BY <2>2, MessageType DEF ElectionState
  <2>4. net' \in [Node -> [Node -> Seq(Message)]]
    BY <1>2, <2>3, BroadcastType DEF CallSetLeader, TypeOK, NetType
  <2>5. used' \in Used
    BY <1>2, UsedType DEF CallSetLeader, TypeOK
  <2> QED BY <1>2, <2>2, <2>4, <2>5 DEF CallSetLeader, TypeOK
<1>3. CASE CallDisconnectPeer(n, p)
  <2>1. NetType' /\ conns' \in [Node -> SUBSET Node]
    BY <1>0, <1>3, SeverType DEF CallDisconnectPeer, TypeOK, NetType
  <2>2. used' \in Used
    BY <1>3, UsedType DEF CallDisconnectPeer, TypeOK
  <2>3. members' \in [Node -> [Node -> PeerStatus]] /\ leftEvents' \in [Node -> Seq(Node)]
    BY <1>3 DEF CallDisconnectPeer, RemovePeer, TypeOK, PeerStatus
  <2> QED BY <1>3, <2>1, <2>2, <2>3 DEF CallDisconnectPeer, TypeOK, NetType
<1>4. CASE Connect(n, p)
  <2>1. used' \in Used
    BY <1>4, UsedType DEF Connect, TypeOK
  <2> QED BY <1>4, <2>1 DEF Connect, TypeOK
<1>5. CASE LinkLost(n, p)
  <2>1. NetType' /\ conns' \in [Node -> SUBSET Node]
    BY <1>5, SeverType DEF LinkLost, TypeOK, NetType
  <2>2. used' \in Used
    BY <1>5, UsedType DEF LinkLost, TypeOK
  <2> QED BY <1>5, <2>1, <2>2 DEF LinkLost, TypeOK, NetType
<1> QED BY <1>1, <1>2, <1>3, <1>4, <1>5 DEF EnvironmentStep

\* The end of a process keeps the types, whatever it had sent.
LEMMA StopType ==
  ASSUME TypeOK, NEW n \in Node, NEW sent \in [Node -> Seq(Message)],
         Stop(n, sent)
  PROVE  TypeOK'
<1>1. NewElection(n \in AutoNodes) \in ElectionState
  BY DEF NewElection, ElectionState, Role, OptNode
<1>2. es' \in [Node -> ElectionState] /\ alive' \subseteq Node
  BY <1>1 DEF Stop, TypeOK
<1>3. pc' \in [Node -> TaskState]
  BY DEF Stop, TypeOK, TaskState, IdleTasks
<1>4. /\ members' \in [Node -> [Node -> PeerStatus]]
      /\ leftEvents' \in [Node -> Seq(Node)]
      /\ joins' \in [Node -> SUBSET Node]
      /\ conns' \in [Node -> SUBSET Node]
  BY DEF Stop, TypeOK, PeerStatus
<1>5. net' \in [Node -> [Node -> Seq(Message)]]
  <2>1. PICK k \in [Node -> 0 .. SendQueueCapacity] :
          net' = [i \in Node |-> [p \in Node |->
                CASE p = n            -> <<>>
                  [] i = n /\ p # n   -> SubSeq(sent[p], 1,
                                           IF k[p] < Len(sent[p]) THEN k[p]
                                           ELSE Len(sent[p]))
                  [] OTHER            -> net[i][p]]]
    BY DEF Stop
  <2>2. ASSUME NEW p \in Node
        PROVE  SubSeq(sent[p], 1, IF k[p] < Len(sent[p]) THEN k[p]
                                  ELSE Len(sent[p])) \in Seq(Message)
    BY <2>1, BoundAssumption
  <2>3. \A i, p \in Node : net'[i][p] \in Seq(Message)
    BY <2>1, <2>2 DEF TypeOK
  <2> QED BY <2>1, <2>3
<1>6. used' \in Used
  BY UsedType DEF Stop, TypeOK
<1> QED BY <1>2, <1>3, <1>4, <1>5, <1>6 DEF Stop, TypeOK

\* So do a toggle, the end of a process and its restart.
LEMMA ProcessType ==
  ASSUME TypeOK, NEW n \in Node, ProcessStep(n)
  PROVE  TypeOK'
<1>1. CASE CallEnableAuto(n)
  <2>1. PICK enable \in BOOLEAN :
          es' = [es EXCEPT ![n] = EnableAutoElection(es[n], enable)]
    BY <1>1 DEF CallEnableAuto
  <2>2. EnableAutoElection(es[n], enable) \in ElectionState
    BY HandlerTypes DEF TypeOK
  <2>3. used' \in Used
    BY <1>1, UsedType DEF CallEnableAuto, TypeOK
  <2> QED BY <1>1, <2>1, <2>2, <2>3 DEF CallEnableAuto, TypeOK
<1>2. CASE Shutdown(n)
  <2>1. Broadcast(n, [type |-> "PeerLeave"])[n] \in [Node -> Seq(Message)]
    <3>1. [type |-> "PeerLeave"] \in Message
      BY DEF Message
    <3>2. Broadcast(n, [type |-> "PeerLeave"])
            \in [Node -> [Node -> Seq(Message)]]
      BY <3>1, BroadcastType DEF TypeOK, NetType
    <3> QED BY <3>2
  <2> QED BY <1>2, <2>1, StopType DEF Shutdown
<1>3. CASE Crash(n)
  <2>1. net[n] \in [Node -> Seq(Message)]
    BY DEF TypeOK
  <2> QED BY <1>3, <2>1, StopType DEF Crash
<1>4. CASE Restart(n)
  <2>1. used' \in Used
    BY <1>4, UsedType DEF Restart, TypeOK
  <2> QED BY <1>4, <2>1 DEF Restart, TypeOK
<1> QED BY <1>1, <1>2, <1>3, <1>4 DEF ProcessStep

\* Every step keeps the types.
LEMMA NextType == TypeOK /\ [Next]_vars => TypeOK'
<1> SUFFICES ASSUME TypeOK, [Next]_vars PROVE TypeOK'
  OBVIOUS
<1>1. CASE UNCHANGED vars
  BY <1>1 DEF vars, TypeOK
<1>2. CASE Next
  <2>1. PICK n \in Node :
          \/ TaskStep(n)
          \/ ProcessStep(n)
          \/ \E p \in Node : HandlerStep(n, p) \/ EnvironmentStep(n, p)
    BY <1>2 DEF Next
  <2> QED BY <2>1, TaskType, ProcessType, HandlerType, EnvironmentType
<1> QED BY <1>1, <1>2

\* Every variable of the composed system keeps its type: in particular no
\* interleaving of tasks stores a leader, a vote or a term that is not one.
THEOREM TypeCorrect == Spec => []TypeOK
<1> QED BY InitType, NextType, PTL DEF Spec

-----------------------------------------------------------------------------
(* The role of a node, its known leader and its votes agree.  RoleConsistent *)
(* is not inductive: a leader would lose its leader_id if its own departure  *)
(* were reported to it, so the invariant also says that no node is its own   *)
(* peer.                                                                     *)

NoSelf ==
  \A n \in Node : /\ n \notin conns[n]
                  /\ members[n][n] = "absent"
                  /\ leftEvents[n] \in Seq(Node \ {n})

RoleInv == TypeOK /\ RoleConsistent /\ NoSelf

\* Every handler keeps a node's role, leader and votes in agreement; the
\* departure of a peer only when the peer is not the node itself.
LEMMA HandlerRoles ==
  ASSUME NEW s \in ElectionState, NEW self \in Node, RoleOK(s, self),
         NEW p \in Node, NEW t \in Nat, NEW count \in Nat, NEW b \in BOOLEAN
  PROVE  /\ RoleOK(NewElection(b), self)
         /\ RoleOK(StartElection(s, self, count), self)
         /\ RoleOK(HandleRequestVote(s, t, p), self)
         /\ RoleOK(HandleVoteResponse(s, self, t, p, b, count), self)
         /\ RoleOK(HandleHeartbeat(s, self, t, p), self)
         /\ RoleOK(HandleLeaderAssign(s, self, t, p), self)
         /\ RoleOK(SetLeader(s, self, p), self)
         /\ RoleOK(EnableAutoElection(s, b), self)
         /\ p # self => RoleOK(HandlePeerLeft(s, p), self)
<1> USE DEF RoleOK, ElectionState, Role, OptNode
<1>1. RoleOK(NewElection(b), self)
  BY DEF NewElection
<1>2. \A r \in ElectionState :
        r.role = "Candidate" /\ RoleOK(r, self) => RoleOK(Tally(r, self, count), self)
  BY DEF Tally, BecomeLeader
<1>3. RoleOK(StartElection(s, self, count), self)
  <2>1. s.currentTerm + 1 \in Nat
    OBVIOUS
  <2>2. Candidacy(s, self) \in ElectionState
    BY <2>1 DEF Candidacy
  <2>3. MayElect(s) =>
          Candidacy(s, self).role = "Candidate" /\ RoleOK(Candidacy(s, self), self)
    BY DEF Candidacy, MayElect
  <2> QED BY <1>2, <2>2, <2>3 DEF StartElection
<1>4. RoleOK(Adopt(s, t), self) /\ RoleOK(AdoptIfHigher(s, t), self)
  BY DEF AdoptIfHigher, Adopt
<1>5. RoleOK(HandleRequestVote(s, t, p), self)
  BY NoneAssumption DEF HandleRequestVote, GrantsVote, CanVote, AdoptIfHigher, Adopt
<1>6. RoleOK(HandleVoteResponse(s, self, t, p, b, count), self)
  <2>1. /\ [s EXCEPT !.votes = @ \cup {p}] \in ElectionState
        /\ s.role = "Candidate" => RoleOK([s EXCEPT !.votes = @ \cup {p}], self)
    OBVIOUS
  <2> QED BY <1>2, <1>4, <2>1 DEF HandleVoteResponse
<1>7. RoleOK(HandleHeartbeat(s, self, t, p), self)
  BY DEF HandleHeartbeat
<1>8. RoleOK(HandleLeaderAssign(s, self, t, p), self)
  BY DEF HandleLeaderAssign, Assigned
<1>9. RoleOK(SetLeader(s, self, p), self)
  BY DEF SetLeader, Assigned
<1>10. RoleOK(EnableAutoElection(s, b), self)
  BY DEF EnableAutoElection
<1>11. p # self => RoleOK(HandlePeerLeft(s, p), self)
  BY DEF HandlePeerLeft
<1> QED BY <1>1, <1>3, <1>5, <1>6, <1>7, <1>8, <1>9, <1>10, <1>11

\* A step that gives one node another consistent state keeps them all.
LEMMA OneNodeRole ==
  ASSUME TypeOK, RoleConsistent, NEW n \in Node, NEW s, RoleOK(s, n),
         es' = [es EXCEPT ![n] = s]
  PROVE  RoleConsistent'
BY DEF TypeOK, RoleConsistent

\* The periodic tasks and the watcher keep the roles in agreement.
LEMMA TaskRoles ==
  ASSUME RoleInv, NEW n \in Node, TaskStep(n)
  PROVE  RoleConsistent' /\ NoSelf'
<1> USE DEF NetworkUnchanged
<1>0. TypeOK /\ RoleConsistent /\ NoSelf /\ es[n] \in ElectionState
      /\ RoleOK(es[n], n) /\ ConnectedCount(n) \in Nat
  BY CountType DEF RoleInv, TypeOK, RoleConsistent
<1>1. CASE UNCHANGED es /\ NetworkUnchanged
  BY <1>0, <1>1 DEF RoleConsistent, NoSelf
<1>2. CASE RunElection(n)
  <2>1. RoleOK(StartElection(es[n], n, ConnectedCount(n)), n)
    BY <1>0, HandlerRoles
  <2>2. RoleConsistent'
    BY <1>0, <1>2, <2>1, OneNodeRole DEF RunElection
  <2> QED BY <1>0, <1>2, <2>2 DEF RunElection, NoSelf
<1>3. CASE OnLeft(n)
  <2>1. /\ Head(leftEvents[n]) \in Node \ {n}
        /\ Tail(leftEvents[n]) \in Seq(Node \ {n})
    <3>1. leftEvents[n] \in Seq(Node \ {n}) /\ leftEvents[n] # <<>>
      BY <1>0, <1>3 DEF OnLeft, NoSelf
    <3>2. ASSUME NEW S, NEW q \in Seq(S), q # <<>>
          PROVE  Head(q) \in S /\ Tail(q) \in Seq(S)
      BY <3>2
    <3> QED BY <3>1, <3>2
  <2>2. RoleOK(HandlePeerLeft(es[n], Head(leftEvents[n])), n)
    BY <1>0, <2>1, HandlerRoles
  <2>3. RoleConsistent'
    BY <1>0, <1>3, <2>2, OneNodeRole DEF OnLeft
  <2> QED BY <1>0, <1>3, <2>1, <2>3 DEF OnLeft, NoSelf, TypeOK
<1> QED BY <1>1, <1>2, <1>3 DEF TaskStep, ElectionTimeout, TimerCheck,
           TimerAnnounce, HeartbeatTick, SendHeartbeat, HandlerAnnounce

\* remove_peer reports no node's departure to itself.
LEMMA RemovePeerNoSelf ==
  ASSUME TypeOK, NoSelf, NEW n \in Node, NEW p \in Node, RemovePeer(n, p)
  PROVE  \A i \in Node : /\ members'[i][i] = "absent"
                         /\ leftEvents'[i] \in Seq(Node \ {i})
<1>1. \A i \in Node : members'[i][i] = "absent"
  BY DEF RemovePeer, NoSelf, TypeOK
<1>2. CASE members[n][p] = "absent"
  BY <1>1, <1>2 DEF RemovePeer, NoSelf
<1>3. CASE members[n][p] # "absent"
  <2>1. p \in Node \ {n}
    BY <1>3 DEF NoSelf
  <2>2. Append(leftEvents[n], p) \in Seq(Node \ {n})
    BY <2>1 DEF NoSelf
  <2> QED BY <1>1, <1>3, <2>2 DEF RemovePeer, NoSelf, TypeOK
<1> QED BY <1>2, <1>3

\* So does the message handler.
LEMMA HandlerStepRoles ==
  ASSUME RoleInv, NEW n \in Node, NEW p \in Node, HandlerStep(n, p)
  PROVE  RoleConsistent' /\ NoSelf'
<1> USE DEF NetworkUnchanged
<1> DEFINE m == Head(net[p][n])
<1>0. TypeOK /\ RoleConsistent /\ NoSelf /\ es[n] \in ElectionState
      /\ RoleOK(es[n], n) /\ ConnectedCount(n) \in Nat
  BY CountType DEF RoleInv, TypeOK, RoleConsistent
<1>a. net[p][n] # <<>> => m \in Message
  BY <1>0, TakeType DEF TypeOK, NetType
<1>1. CASE OnRequestVote(n, p)
  <2>1. m.term \in Nat
    BY <1>1, <1>a, MessageFields DEF OnRequestVote, Handles
  <2>2. RoleOK(HandleRequestVote(es[n], m.term, p), n)
    BY <1>0, <2>1, HandlerRoles
  <2>3. RoleConsistent'
    BY <1>0, <1>1, <2>2, OneNodeRole DEF OnRequestVote
  <2> QED BY <1>0, <1>1, <2>3 DEF OnRequestVote, NoSelf
<1>2. CASE OnVoteResponse(n, p)
  <2>1. m.term \in Nat /\ m.granted \in BOOLEAN
    BY <1>2, <1>a, MessageFields DEF OnVoteResponse, Handles
  <2>2. RoleOK(HandleVoteResponse(es[n], n, m.term, p, m.granted,
                                  ConnectedCount(n)), n)
    BY <1>0, <2>1, HandlerRoles
  <2>3. RoleConsistent'
    BY <1>0, <1>2, <2>2, OneNodeRole DEF OnVoteResponse
  <2> QED BY <1>0, <1>2, <2>3 DEF OnVoteResponse, NoSelf
<1>3. CASE OnHeartbeat(n, p)
  <2>1. m.term \in Nat
    BY <1>3, <1>a, MessageFields DEF OnHeartbeat, Handles
  <2>2. RoleOK(HandleHeartbeat(es[n], n, m.term, p), n)
    BY <1>0, <2>1, HandlerRoles
  <2>3. RoleConsistent'
    BY <1>0, <1>3, <2>2, OneNodeRole DEF OnHeartbeat
  <2> QED BY <1>0, <1>3, <2>3 DEF OnHeartbeat, NoSelf
<1>4. CASE OnLeaderAssign(n, p)
  <2>1. m.term \in Nat /\ m.leader \in Node
    BY <1>4, <1>a, MessageFields DEF OnLeaderAssign, Handles
  <2>2. RoleOK(HandleLeaderAssign(es[n], n, m.term, m.leader), n)
    BY <1>0, <2>1, HandlerRoles
  <2>3. RoleConsistent'
    BY <1>0, <1>4, <2>2, OneNodeRole DEF OnLeaderAssign
  <2> QED BY <1>0, <1>4, <2>3 DEF OnLeaderAssign, NoSelf
<1>5. CASE OnPeerLeave(n, p)
  <2>1. \A i \in Node : /\ members'[i][i] = "absent"
                        /\ leftEvents'[i] \in Seq(Node \ {i})
    BY <1>0, <1>5, RemovePeerNoSelf DEF OnPeerLeave
  <2> QED BY <1>0, <1>5, <2>1 DEF OnPeerLeave, RoleConsistent, NoSelf
<1>6. CASE OnHandshake(n, p)
  BY <1>0, <1>6 DEF OnHandshake, RoleConsistent, NoSelf, TypeOK
<1>7. CASE TimeoutOfLost(n, p)
  BY <1>0, <1>7 DEF TimeoutOfLost, RoleConsistent, NoSelf, TypeOK
<1> QED BY <1>1, <1>2, <1>3, <1>4, <1>5, <1>6, <1>7 DEF HandlerStep

\* So do connections made and lost, and assignments.
LEMMA EnvironmentRoles ==
  ASSUME RoleInv, NEW n \in Node, NEW p \in Node, EnvironmentStep(n, p)
  PROVE  RoleConsistent' /\ NoSelf'
<1>0. TypeOK /\ RoleConsistent /\ NoSelf /\ es[n] \in ElectionState
      /\ RoleOK(es[n], n)
  BY DEF RoleInv, TypeOK, RoleConsistent
<1>1. CASE TimeoutOfSlow(n, p)
  BY <1>0, <1>1 DEF TimeoutOfSlow, Sever, RoleConsistent, NoSelf, TypeOK
<1>2. CASE CallSetLeader(n, p)
  <2>1. RoleOK(SetLeader(es[n], n, p), n)
    BY <1>0, HandlerRoles
  <2>2. RoleConsistent'
    BY <1>0, <1>2, <2>1, OneNodeRole DEF CallSetLeader
  <2> QED BY <1>0, <1>2, <2>2 DEF CallSetLeader, NoSelf
<1>3. CASE CallDisconnectPeer(n, p)
  <2>1. \A i \in Node : /\ members'[i][i] = "absent"
                        /\ leftEvents'[i] \in Seq(Node \ {i})
    BY <1>0, <1>3, RemovePeerNoSelf DEF CallDisconnectPeer
  <2>2. \A i \in Node : i \notin conns'[i]
    <3>1. CASE p \in conns[n]
      <4>1. conns' = [conns EXCEPT ![n] = @ \ {p}, ![p] = @ \ {n}]
        BY <1>3, <3>1 DEF CallDisconnectPeer, Sever
      <4> QED BY <1>0, <4>1 DEF NoSelf, TypeOK
    <3>2. CASE p \notin conns[n]
      BY <1>0, <1>3, <3>2 DEF CallDisconnectPeer, NoSelf
    <3> QED BY <3>1, <3>2
  <2> QED BY <1>0, <1>3, <2>1, <2>2 DEF CallDisconnectPeer, RoleConsistent, NoSelf
<1>4. CASE Connect(n, p)
  BY <1>0, <1>4 DEF Connect, RoleConsistent, NoSelf, TypeOK
<1>5. CASE LinkLost(n, p)
  BY <1>0, <1>5 DEF LinkLost, Sever, RoleConsistent, NoSelf, TypeOK
<1> QED BY <1>1, <1>2, <1>3, <1>4, <1>5 DEF EnvironmentStep

\* So do toggles, processes that end and processes that restart.
LEMMA ProcessRoles ==
  ASSUME RoleInv, NEW n \in Node, ProcessStep(n)
  PROVE  RoleConsistent' /\ NoSelf'
<1>0. TypeOK /\ RoleConsistent /\ NoSelf /\ es[n] \in ElectionState
      /\ RoleOK(es[n], n)
  BY DEF RoleInv, TypeOK, RoleConsistent
<1>1. CASE CallEnableAuto(n)
  <2>1. PICK enable \in BOOLEAN :
          es' = [es EXCEPT ![n] = EnableAutoElection(es[n], enable)]
    BY <1>1 DEF CallEnableAuto
  <2>2. RoleOK(EnableAutoElection(es[n], enable), n)
    BY <1>0, HandlerRoles
  <2>3. RoleConsistent'
    BY <1>0, <2>1, <2>2, OneNodeRole
  <2> QED BY <1>0, <1>1, <2>3 DEF CallEnableAuto, NoSelf
<1>2. ASSUME NEW sent, Stop(n, sent)
      PROVE  RoleConsistent' /\ NoSelf'
  <2>1. RoleOK(NewElection(n \in AutoNodes), n)
    BY DEF RoleOK, NewElection
  <2>2. RoleConsistent'
    BY <1>0, <1>2, <2>1, OneNodeRole DEF Stop
  <2>3. \A i \in Node : i \notin conns'[i] /\ members'[i][i] = "absent"
    BY <1>0, <1>2 DEF Stop, NoSelf, TypeOK
  <2>4. \A i \in Node : leftEvents'[i] \in Seq(Node \ {i})
    <3>1. <<>> \in Seq(Node \ {n})
      OBVIOUS
    <3> QED BY <1>0, <1>2, <3>1 DEF Stop, NoSelf, TypeOK
  <2> QED BY <2>2, <2>3, <2>4 DEF NoSelf
<1>3. CASE Restart(n)
  BY <1>0, <1>3 DEF Restart, RoleConsistent, NoSelf
<1> QED BY <1>1, <1>2, <1>3 DEF ProcessStep, Shutdown, Crash

\* The roles agree at the start.
LEMMA RoleInit == Init => RoleInv
<1> SUFFICES ASSUME Init PROVE RoleInv
  OBVIOUS
<1>1. RoleConsistent
  BY DEF Init, RoleConsistent, RoleOK, NewElection
<1>2. NoSelf
  BY ConnsAssumption DEF Init, NoSelf
<1> QED BY InitType, <1>1, <1>2 DEF RoleInv

\* RoleInv is inductive.
LEMMA RoleNext == RoleInv /\ [Next]_vars => RoleInv'
<1> SUFFICES ASSUME RoleInv, [Next]_vars PROVE RoleInv'
  OBVIOUS
<1>1. TypeOK'
  BY NextType DEF RoleInv
<1>2. CASE UNCHANGED vars
  BY <1>1, <1>2 DEF vars, RoleInv, RoleConsistent, NoSelf
<1>3. CASE Next
  <2>1. PICK n \in Node :
          \/ TaskStep(n)
          \/ ProcessStep(n)
          \/ \E p \in Node : HandlerStep(n, p) \/ EnvironmentStep(n, p)
    BY <1>3 DEF Next
  <2>2. RoleConsistent' /\ NoSelf'
    BY <2>1, TaskRoles, ProcessRoles, HandlerStepRoles, EnvironmentRoles
  <2> QED BY <1>1, <2>2 DEF RoleInv
<1> QED BY <1>2, <1>3

\* A leader knows that it is the leader, a candidate has its own vote and no
\* override, and nobody else holds votes, in every reachable state of every
\* session, whatever fails and whatever the application calls.
THEOREM RolesAgree == Spec => []RoleConsistent
<1>1. RoleInv => RoleConsistent
  BY DEF RoleInv
<1> QED BY RoleInit, RoleNext, <1>1, PTL DEF Spec

-----------------------------------------------------------------------------
(* Election safety.  A vote counts if it was given (VotesBacked), a node   *)
(* gives one vote per term (VoteOnce) because it remembers it for as long  *)
(* as the term lasts (BallotRemembered), and two majorities of one session *)
(* have a voter in common.  An assignment makes a node forget its vote and *)
(* so does a restart, so neither may happen.                               *)

\* What a channel from v to c may carry when the votes of B were given.
MsgOK(m, v, c, B) ==
  /\ m.type # "LeaderAssign"
  /\ m.type = "VoteResponse" /\ m.granted => <<v, m.term, c>> \in B

ChanOK(q, v, c, B) == \A i \in 1 .. Len(q) : MsgOK(q[i], v, c, B)

NetOK == \A v, c \in Node : ChanOK(net[v][c], v, c, ballots)

CountedOK ==
  \A c \in Node : \A v \in es[c].votes : <<v, es[c].currentTerm, c>> \in ballots

ElectedOK ==
  \A e \in elections :
    /\ Wins(e.voters, e.total - 1)
    /\ \A v \in e.voters : <<v, e.term, e.leader>> \in ballots

SafeInv ==
  VoteOnce /\ BallotRemembered /\ NetOK /\ CountedOK /\ ElectedOK

\* What is put into a sound channel leaves it sound if it is sound itself.
LEMMA EnqueueOK ==
  ASSUME NEW q \in Seq(Message), NEW m \in Message, NEW v, NEW c, NEW B,
         ChanOK(q, v, c, B), MsgOK(m, v, c, B)
  PROVE  ChanOK(Enqueue(q, m), v, c, B)
<1>1. CASE Len(q) < SendQueueCapacity
  <2>1. Enqueue(q, m) = Append(q, m)
    BY <1>1 DEF Enqueue
  <2>2. \A i \in 1 .. Len(Append(q, m)) :
          Append(q, m)[i] = IF i = Len(q) + 1 THEN m ELSE q[i]
    OBVIOUS
  <2>3. Len(Append(q, m)) = Len(q) + 1 /\ Len(q) \in Nat
    OBVIOUS
  <2>4. ASSUME NEW i \in 1 .. Len(Append(q, m))
        PROVE  MsgOK(Append(q, m)[i], v, c, B)
    <3>1. CASE i = Len(q) + 1
      BY <2>2, <3>1
    <3>2. CASE i # Len(q) + 1
      <4>1. i \in 1 .. Len(q)
        BY <2>3, <3>2
      <4> QED BY <2>2, <3>2, <4>1 DEF ChanOK
    <3> QED BY <3>1, <3>2
  <2> QED BY <2>1, <2>4 DEF ChanOK
<1>2. CASE ~(Len(q) < SendQueueCapacity)
  BY <1>2 DEF Enqueue
<1> QED BY <1>1, <1>2

\* What is taken from a sound channel is sound, and so is the rest.
LEMMA TailOK ==
  ASSUME NEW q \in Seq(Message), q # <<>>, NEW v, NEW c, NEW B,
         ChanOK(q, v, c, B)
  PROVE  ChanOK(Tail(q), v, c, B) /\ MsgOK(Head(q), v, c, B)
<1>1. Len(q) \in Nat /\ Len(q) > 0 /\ Len(Tail(q)) = Len(q) - 1
  OBVIOUS
<1>2. \A i \in 1 .. Len(Tail(q)) : Tail(q)[i] = q[i + 1] /\ i + 1 \in 1 .. Len(q)
  BY <1>1
<1>3. Head(q) = q[1] /\ 1 \in 1 .. Len(q)
  BY <1>1
<1> QED BY <1>2, <1>3 DEF ChanOK

\* What is left of a sound channel that is cut is sound.
LEMMA CutOK ==
  ASSUME NEW q \in Seq(Message), NEW v, NEW c, NEW B, ChanOK(q, v, c, B),
         NEW k \in 0 .. Len(q)
  PROVE  ChanOK(SubSeq(q, 1, k), v, c, B)
<1>1. Len(q) \in Nat /\ k \in Nat /\ k <= Len(q)
  OBVIOUS
<1>2. Len(SubSeq(q, 1, k)) = k
  BY <1>1
<1>3. \A i \in 1 .. k : SubSeq(q, 1, k)[i] = q[i] /\ i \in 1 .. Len(q)
  BY <1>1
<1> QED BY <1>2, <1>3 DEF ChanOK

\* More votes given keep a channel in order.
LEMMA MoreBallotsOK ==
  ASSUME NEW q, NEW v, NEW c, NEW B, NEW C, B \subseteq C, ChanOK(q, v, c, B)
  PROVE  ChanOK(q, v, c, C)
BY DEF ChanOK, MsgOK

\* Broadcasting anything but votes and assignments keeps channels sound.
LEMMA BroadcastOK ==
  ASSUME NetType, NetOK, NEW n \in Node, NEW m \in Message,
         m.type \notin {"LeaderAssign", "VoteResponse"}
  PROVE  \A v, c \in Node : ChanOK(Broadcast(n, m)[v][c], v, c, ballots)
<1> TAKE v, c \in Node
<1>1. ChanOK(net[v][c], v, c, ballots) /\ net[v][c] \in Seq(Message)
  BY DEF NetOK, NetType
<1>2. ChanOK(Enqueue(net[v][c], m), v, c, ballots)
  <2>1. MsgOK(m, v, c, ballots)
    BY DEF MsgOK
  <2> QED BY <1>1, <2>1, EnqueueOK
<1>3. Broadcast(n, m)[v][c] \in {net[v][c], Enqueue(net[v][c], m)}
  BY DEF Broadcast, NetType
<1> QED BY <1>1, <1>2, <1>3

\* Handling a packet keeps the channels sound.
LEMMA TakeOK ==
  ASSUME NetType, NetOK, NEW n \in Node, NEW p \in Node, net[p][n] # <<>>
  PROVE  /\ \A v, c \in Node : ChanOK(Take(p, n)[v][c], v, c, ballots)
         /\ MsgOK(Head(net[p][n]), p, n, ballots)
<1>1. ChanOK(Tail(net[p][n]), p, n, ballots) /\ MsgOK(Head(net[p][n]), p, n, ballots)
  BY TailOK DEF NetOK, NetType
<1>2. ASSUME NEW v \in Node, NEW c \in Node
      PROVE  ChanOK(Take(p, n)[v][c], v, c, ballots)
  <2>1. CASE v = p /\ c = n
    BY <1>1, <2>1 DEF Take, NetType
  <2>2. CASE ~(v = p /\ c = n)
    <3>1. Take(p, n)[v][c] = net[v][c]
      BY <2>2 DEF Take, NetType
    <3> QED BY <3>1 DEF NetOK
  <2> QED BY <2>1, <2>2
<1> QED BY <1>1, <1>2

\* So does answering it with a vote that was given.
LEMMA ReplyOK ==
  ASSUME NetType, NetOK, NEW n \in Node, NEW p \in Node, net[p][n] # <<>>,
         NEW m \in Message, NEW B, ballots \subseteq B, MsgOK(m, n, p, B)
  PROVE  \A v, c \in Node : ChanOK(TakeAndReply(p, n, m)[v][c], v, c, B)
<1>1. /\ \A v, c \in Node : ChanOK(Take(p, n)[v][c], v, c, B)
      /\ Take(p, n) \in [Node -> [Node -> Seq(Message)]]
  BY TakeOK, TakeType, MoreBallotsOK
<1>2. ChanOK(Enqueue(Take(p, n)[n][p], m), n, p, B)
  BY <1>1, EnqueueOK
<1> TAKE v, c \in Node
<1>3. CASE v = n /\ c = p
  BY <1>1, <1>2, <1>3 DEF TakeAndReply
<1>4. CASE ~(v = n /\ c = p)
  <2>1. TakeAndReply(p, n, m)[v][c] = Take(p, n)[v][c]
    BY <1>1, <1>4 DEF TakeAndReply
  <2> QED BY <1>1, <2>1
<1> QED BY <1>3, <1>4

\* So does closing a channel.
LEMMA SeverOK ==
  ASSUME NetType, NetOK, NEW n \in Node, NEW p \in Node,
         NEW q \in Seq(Message), ChanOK(q, n, p, ballots),
         Sever(n, p, q), ballots' = ballots
  PROVE  NetOK'
<1>1. PICK out \in Cuts(q), in \in Cuts(net[p][n]) :
        net' = [net EXCEPT ![n][p] = out, ![p][n] = in]
  BY DEF Sever
<1>2. ChanOK(out, n, p, ballots)
  BY CutOK DEF Cuts
<1>3. ChanOK(in, p, n, ballots)
  BY CutOK DEF Cuts, NetOK, NetType
<1>4. ASSUME NEW v \in Node, NEW c \in Node
      PROVE  ChanOK(net'[v][c], v, c, ballots)
  <2>1. CASE v = p /\ c = n
    BY <1>1, <1>3, <2>1 DEF NetType
  <2>2. CASE v = n /\ c = p /\ n # p
    BY <1>1, <1>2, <2>2 DEF NetType
  <2>3. CASE ~(v = p /\ c = n) /\ ~(v = n /\ c = p)
    <3>1. net'[v][c] = net[v][c]
      BY <1>1, <2>3 DEF NetType
    <3> QED BY <3>1 DEF NetOK
  <2> QED BY <2>1, <2>2, <2>3
<1> QED BY <1>4 DEF NetOK

\* So does the end of a process.
LEMMA StopOK ==
  ASSUME NetType, NetOK, NEW n \in Node, NEW sent \in [Node -> Seq(Message)],
         \A p \in Node : ChanOK(sent[p], n, p, ballots), Stop(n, sent)
  PROVE  NetOK'
<1>1. PICK k \in [Node -> 0 .. SendQueueCapacity] :
        net' = [i \in Node |-> [p \in Node |->
                CASE p = n            -> <<>>
                  [] i = n /\ p # n   -> SubSeq(sent[p], 1,
                                           IF k[p] < Len(sent[p]) THEN k[p]
                                           ELSE Len(sent[p]))
                  [] OTHER            -> net[i][p]]]
  BY DEF Stop
<1>2. ballots' = ballots
  BY DEF Stop
<1>3. ASSUME NEW v \in Node, NEW c \in Node
      PROVE  ChanOK(net'[v][c], v, c, ballots)
  <2>1. CASE c = n
    <3>1. net'[v][c] = <<>>
      BY <1>1, <2>1
    <3> QED BY <3>1 DEF ChanOK
  <2>2. CASE c # n /\ v = n
    <3> DEFINE j == IF k[c] < Len(sent[c]) THEN k[c] ELSE Len(sent[c])
    <3>1. net'[v][c] = SubSeq(sent[c], 1, j)
      BY <1>1, <2>2
    <3>2. j \in 0 .. Len(sent[c])
      BY <1>1, BoundAssumption
    <3> QED BY <2>2, <3>1, <3>2, CutOK
  <2>3. CASE c # n /\ v # n
    <3>1. net'[v][c] = net[v][c]
      BY <1>1, <2>3
    <3> QED BY <3>1 DEF NetOK
  <2> QED BY <2>1, <2>2, <2>3
<1> QED BY <1>2, <1>3 DEF NetOK

-----------------------------------------------------------------------------
\* What a handler other than an assignment does to term and vote.
Keeps(s, r) ==
  /\ r.currentTerm >= s.currentTerm
  /\ r.currentTerm = s.currentTerm /\ s.votedFor # None => r.votedFor = s.votedFor

\* No handler but an assignment forgets the vote of the present term.
LEMMA HandlerKeeps ==
  ASSUME NEW s \in ElectionState, NEW self \in Node, RoleOK(s, self),
         NEW p \in Node, NEW t \in Nat, NEW count \in Nat, NEW b \in BOOLEAN
  PROVE  /\ Keeps(s, StartElection(s, self, count))
         /\ Keeps(s, HandleRequestVote(s, t, p))
         /\ Keeps(s, HandleVoteResponse(s, self, t, p, b, count))
         /\ Keeps(s, HandleHeartbeat(s, self, t, p))
         /\ Keeps(s, EnableAutoElection(s, b))
         /\ Keeps(s, HandlePeerLeft(s, p))
<1> USE DEF Keeps, ElectionState
<1>1. Keeps(s, StartElection(s, self, count))
  BY DEF StartElection, Candidacy, Tally, BecomeLeader
<1>2. Keeps(s, HandleRequestVote(s, t, p))
  BY DEF HandleRequestVote, GrantsVote, CanVote, AdoptIfHigher, Adopt
<1>3. Keeps(s, HandleVoteResponse(s, self, t, p, b, count))
  BY DEF HandleVoteResponse, Adopt, Tally, BecomeLeader
<1>4. Keeps(s, HandleHeartbeat(s, self, t, p))
  BY DEF HandleHeartbeat, AcceptsHeartbeat
<1>5. Keeps(s, EnableAutoElection(s, b))
  BY DEF EnableAutoElection
<1>6. Keeps(s, HandlePeerLeft(s, p))
  BY DEF HandlePeerLeft
<1> QED BY <1>1, <1>2, <1>3, <1>4, <1>5, <1>6

\* No vote is forgotten by a step of n that keeps its vote.
LEMMA RememberKept ==
  ASSUME TypeOK, BallotRemembered, NEW n \in Node, NEW s \in ElectionState,
         Keeps(es[n], s), es' = [es EXCEPT ![n] = s], alive' \subseteq alive
  PROVE  \A b \in ballots : b[1] \in alive' =>
           \/ b[2] < es'[b[1]].currentTerm
           \/ b[2] = es'[b[1]].currentTerm /\ es'[b[1]].votedFor = b[3]
<1> SUFFICES ASSUME NEW b \in ballots, b[1] \in alive'
             PROVE  \/ b[2] < es'[b[1]].currentTerm
                    \/ b[2] = es'[b[1]].currentTerm /\ es'[b[1]].votedFor = b[3]
  OBVIOUS
<1>1. b[1] \in Node /\ b[2] \in Nat /\ b[3] \in Node /\ b[3] # None
  BY NoneAssumption DEF TypeOK
<1>2. \/ b[2] < es[b[1]].currentTerm
      \/ b[2] = es[b[1]].currentTerm /\ es[b[1]].votedFor = b[3]
  BY DEF BallotRemembered
<1>3. CASE b[1] # n
  <2>1. es'[b[1]] = es[b[1]]
    BY <1>1, <1>3 DEF TypeOK
  <2> QED BY <1>2, <2>1
<1>4. CASE b[1] = n
  <2>1. es'[b[1]] = s
    BY <1>4 DEF TypeOK
  <2>2. es[n].currentTerm \in Nat /\ s.currentTerm \in Nat
    BY DEF TypeOK, ElectionState
  <2> QED BY <1>1, <1>2, <1>4, <2>1, <2>2 DEF Keeps
<1> QED BY <1>3, <1>4

\* The votes a handler leaves were there before, for the same term.
OldVotes(s, r) ==
  \A v \in r.votes : v \in s.votes /\ r.currentTerm = s.currentTerm

\* No handler gains votes but start_election and handle_vote_response.
LEMMA HandlerVotes ==
  ASSUME NEW s \in ElectionState, NEW self \in Node, RoleOK(s, self),
         NEW p \in Node, NEW t \in Nat, NEW b \in BOOLEAN
  PROVE  /\ OldVotes(s, HandleRequestVote(s, t, p))
         /\ OldVotes(s, HandleHeartbeat(s, self, t, p))
         /\ OldVotes(s, EnableAutoElection(s, b))
         /\ OldVotes(s, HandlePeerLeft(s, p))
<1> USE DEF OldVotes, ElectionState, RoleOK
<1>1. OldVotes(s, HandleRequestVote(s, t, p))
  BY DEF HandleRequestVote, AdoptIfHigher, Adopt
<1>2. OldVotes(s, HandleHeartbeat(s, self, t, p))
  BY DEF HandleHeartbeat
<1>3. OldVotes(s, EnableAutoElection(s, b))
  BY DEF EnableAutoElection
<1>4. OldVotes(s, HandlePeerLeft(s, p))
  BY DEF HandlePeerLeft
<1> QED BY <1>1, <1>2, <1>3, <1>4

\* A step that gives no vote, counts none and elects nobody.
LEMMA QuietStep ==
  ASSUME RoleInv, SafeInv, NEW n \in Node, NEW s \in ElectionState,
         Keeps(es[n], s), OldVotes(es[n], s), es' = [es EXCEPT ![n] = s],
         alive' \subseteq alive, ballots' = ballots, elections' = elections
  PROVE  VoteOnce' /\ BallotRemembered' /\ CountedOK' /\ ElectedOK'
<1>0. TypeOK
  BY DEF RoleInv
<1>1. VoteOnce' /\ ElectedOK'
  BY DEF SafeInv, VoteOnce, ElectedOK, Wins
<1>2. BallotRemembered'
  BY <1>0, RememberKept DEF SafeInv, BallotRemembered
<1>3. CountedOK'
  BY <1>0 DEF SafeInv, CountedOK, OldVotes, TypeOK
<1> QED BY <1>1, <1>2, <1>3

\* A step that leaves the election states alone.
LEMMA IdleStep ==
  ASSUME SafeInv, UNCHANGED <<es, ballots, elections>>, alive' \subseteq alive
  PROVE  VoteOnce' /\ BallotRemembered' /\ CountedOK' /\ ElectedOK'
BY DEF SafeInv, VoteOnce, BallotRemembered, CountedOK, ElectedOK, Wins

\* A heartbeat on its way is no vote.
LEMMA HeartbeatOK ==
  ASSUME TypeOK, NetOK, NEW n \in Node, BroadcastHeartbeat(n),
         ballots' = ballots
  PROVE  NetOK'
<1> DEFINE m == [type |-> "Heartbeat", term |-> es[n].currentTerm]
<1>1. m \in Message
  BY MessageType DEF TypeOK, ElectionState
<1>2. m.type \notin {"LeaderAssign", "VoteResponse"}
  OBVIOUS
<1>3. \A v, c \in Node : ChanOK(Broadcast(n, m)[v][c], v, c, ballots)
  BY <1>1, <1>2, BroadcastOK DEF TypeOK, NetType
<1> QED BY <1>3 DEF NetOK, BroadcastHeartbeat

\* The vote a candidate gives itself is the first of its new term.
LEMMA RunElectionSafe ==
  ASSUME RoleInv, SafeInv, NEW n \in Node, RunElection(n)
  PROVE  SafeInv'
<1> USE DEF NetworkUnchanged
<1> DEFINE s == StartElection(es[n], n, ConnectedCount(n))
<1>0. /\ TypeOK /\ RoleOK(es[n], n) /\ es[n] \in ElectionState
      /\ ConnectedCount(n) \in Nat /\ s \in ElectionState /\ Keeps(es[n], s)
  BY CountType, HandlerTypes, HandlerKeeps
     DEF RoleInv, RoleConsistent, TypeOK
<1>1. es' = [es EXCEPT ![n] = s] /\ es'[n] = s /\ n \in alive /\ alive' = alive
  BY <1>0 DEF RunElection, TypeOK
<1>2. CASE ~MayElect(es[n])
  <2>1. s = es[n] /\ UNCHANGED <<es, ballots, elections, net>>
    BY <1>0, <1>1, <1>2 DEF StartElection, RunElection, TypeOK
  <2>2. VoteOnce' /\ BallotRemembered' /\ CountedOK' /\ ElectedOK'
    BY <1>1, <2>1, IdleStep
  <2>3. NetOK'
    BY <2>1 DEF SafeInv, NetOK
  <2> QED BY <2>2, <2>3 DEF SafeInv
<1>3. CASE MayElect(es[n])
  <2> DEFINE t == es[n].currentTerm + 1
  <2>1. /\ t \in Nat /\ es[n].currentTerm \in Nat
        /\ s.currentTerm = t /\ s.votedFor = n /\ s.votes \subseteq {n}
        /\ s.role = "Leader" => Wins({n}, ConnectedCount(n))
    BY <1>0, <1>3 DEF StartElection, Candidacy, Tally, BecomeLeader, ElectionState
  <2>2. ballots' = ballots \cup {<<n, t, n>>}
    BY <1>1, <1>3, <2>1 DEF RunElection
  <2>3. ASSUME NEW b \in ballots, b[1] = n
        PROVE  b[2] # t
    <3>1. b[2] \in Nat
      BY <1>0 DEF TypeOK
    <3> QED BY <1>1, <2>1, <2>3, <3>1 DEF SafeInv, BallotRemembered
  <2>4. VoteOnce'
    BY <2>2, <2>3 DEF SafeInv, VoteOnce
  <2>5. BallotRemembered'
    <3>1. \A b \in ballots : b[1] \in alive' =>
           \/ b[2] < es'[b[1]].currentTerm
           \/ b[2] = es'[b[1]].currentTerm /\ es'[b[1]].votedFor = b[3]
      BY <1>0, <1>1, RememberKept DEF SafeInv
    <3> QED BY <1>1, <2>1, <2>2, <3>1 DEF BallotRemembered
  <2>6. CountedOK'
    BY <1>0, <1>1, <2>1, <2>2 DEF SafeInv, CountedOK, TypeOK
  <2>7. ElectedOK'
    <3>1. ASSUME NEW e \in elections', e \notin elections
          PROVE  Wins(e.voters, e.total - 1) /\ e.voters = {n} /\ e.term = t
                   /\ e.leader = n
      <4>1. e = Victory(n, {n}) /\ s.role = "Leader"
        BY <1>1, <3>1 DEF RunElection
      <4>2. e.total - 1 = ConnectedCount(n)
        BY <1>0, <4>1 DEF Victory
      <4> QED BY <1>1, <2>1, <4>1, <4>2 DEF Victory
    <3>2. ASSUME NEW e \in elections
          PROVE  /\ Wins(e.voters, e.total - 1)
                 /\ \A v \in e.voters : <<v, e.term, e.leader>> \in ballots'
      BY <2>2 DEF SafeInv, ElectedOK
    <3> QED BY <2>2, <3>1, <3>2 DEF ElectedOK, Wins
  <2>8. NetOK'
    <3> DEFINE m == [type |-> "RequestVote", term |-> t]
    <3>1. m \in Message /\ m.type \notin {"LeaderAssign", "VoteResponse"}
      BY <2>1, MessageType
    <3>2. \A v, c \in Node : ChanOK(Broadcast(n, m)[v][c], v, c, ballots)
      BY <1>0, <3>1, BroadcastOK DEF TypeOK, NetType, SafeInv
    <3>3. net' = net \/ net' = Broadcast(n, m)
      BY <1>1, <2>1 DEF RunElection
    <3>4. \A v, c \in Node : ChanOK(net'[v][c], v, c, ballots)
      BY <3>2, <3>3 DEF SafeInv, NetOK
    <3> QED BY <2>2, <3>4, MoreBallotsOK DEF NetOK
  <2> QED BY <2>4, <2>5, <2>6, <2>7, <2>8 DEF SafeInv
<1> QED BY <1>2, <1>3

\* A node that grants a vote has given none in that term, or the same one.
LEMMA RequestVoteSafe ==
  ASSUME RoleInv, SafeInv, NEW n \in Node, NEW p \in Node, OnRequestVote(n, p)
  PROVE  SafeInv'
<1> USE DEF NetworkUnchanged
<1> DEFINE t == Head(net[p][n]).term
           s == HandleRequestVote(es[n], t, p)
           granted == GrantsVote(es[n], t, p)
           m == [type |-> "VoteResponse", term |-> s.currentTerm,
                 granted |-> granted]
<1>0. /\ TypeOK /\ RoleOK(es[n], n) /\ es[n] \in ElectionState /\ NetType
      /\ net[p][n] # <<>> /\ n \in alive /\ alive' = alive
  BY DEF RoleInv, RoleConsistent, TypeOK, OnRequestVote, Handles, NetType
<1>1. t \in Nat
  <2>1. Head(net[p][n]) \in Message
    BY <1>0, TakeType
  <2> QED BY <2>1, MessageFields DEF OnRequestVote, Handles
<1>2. s \in ElectionState /\ Keeps(es[n], s) /\ OldVotes(es[n], s)
  BY <1>0, <1>1, HandlerTypes, HandlerKeeps, HandlerVotes
<1>3. es' = [es EXCEPT ![n] = s] /\ es'[n] = s /\ elections' = elections
  BY <1>0 DEF OnRequestVote, TypeOK
<1>4. granted \in BOOLEAN /\ s.currentTerm \in Nat /\ es[n].currentTerm \in Nat
  BY <1>2, <1>0 DEF GrantsVote, CanVote, ElectionState
<1>5. granted => s.currentTerm = t /\ s.votedFor = p
  BY <1>0, <1>1 DEF HandleRequestVote, GrantsVote, AdoptIfHigher, Adopt,
                    ElectionState
<1>6. ballots' = IF granted THEN ballots \cup {<<n, t, p>>} ELSE ballots
  BY DEF OnRequestVote
<1>7. ASSUME granted, NEW b \in ballots, b[1] = n, b[2] = t
      PROVE  b[3] = p
  <2>1. b[3] \in Node /\ b[3] # None
    BY <1>0, NoneAssumption DEF TypeOK
  <2>2. \/ t < es[n].currentTerm
        \/ t = es[n].currentTerm /\ es[n].votedFor = b[3]
    BY <1>0, <1>7 DEF SafeInv, BallotRemembered
  <2> QED BY <1>1, <1>4, <1>7, <2>1, <2>2 DEF GrantsVote, CanVote, AdoptIfHigher
<1>8. VoteOnce'
  BY <1>6, <1>7 DEF SafeInv, VoteOnce
<1>9. BallotRemembered'
  <2>1. \A b \in ballots : b[1] \in alive' =>
         \/ b[2] < es'[b[1]].currentTerm
         \/ b[2] = es'[b[1]].currentTerm /\ es'[b[1]].votedFor = b[3]
    BY <1>0, <1>2, <1>3, RememberKept DEF SafeInv
  <2>2. granted => t = es'[n].currentTerm /\ es'[n].votedFor = p
    <3> HIDE DEF s, granted, t
    <3> QED BY <1>3, <1>5
  <2>3. ASSUME NEW b \in ballots', b \notin ballots
        PROVE  b[1] = n /\ b[2] = t /\ b[3] = p /\ granted
    <3> HIDE DEF granted, t
    <3> QED BY <1>6, <2>3
  <2> HIDE DEF granted, t
  <2> QED BY <2>1, <2>2, <2>3 DEF BallotRemembered
<1>10. CountedOK'
  BY <1>0, <1>2, <1>3, <1>6 DEF SafeInv, CountedOK, OldVotes, TypeOK
<1>11. ElectedOK'
  BY <1>3, <1>6 DEF SafeInv, ElectedOK, Wins
<1>12. NetOK'
  <2>1. m \in Message
    BY <1>4, MessageType
  <2>2. MsgOK(m, n, p, ballots')
    BY <1>5, <1>6 DEF MsgOK
  <2>3. \A v, c \in Node : ChanOK(TakeAndReply(p, n, m)[v][c], v, c, ballots')
    BY <1>0, <1>6, <2>1, <2>2, ReplyOK DEF SafeInv
  <2>4. net' = TakeAndReply(p, n, m)
    BY <1>3 DEF OnRequestVote
  <2> QED BY <2>3, <2>4 DEF NetOK
<1> QED BY <1>8, <1>9, <1>10, <1>11, <1>12 DEF SafeInv

\* A vote that is counted was given, and a winner has the votes it needs.
LEMMA VoteResponseSafe ==
  ASSUME RoleInv, SafeInv, NEW n \in Node, NEW p \in Node, OnVoteResponse(n, p)
  PROVE  SafeInv'
<1> USE DEF NetworkUnchanged
<1> DEFINE m == Head(net[p][n])
           count == ConnectedCount(n)
           voters == IF m.granted THEN es[n].votes \cup {p} ELSE es[n].votes
           s == HandleVoteResponse(es[n], n, m.term, p, m.granted, count)
<1>0. /\ TypeOK /\ RoleOK(es[n], n) /\ es[n] \in ElectionState /\ NetType
      /\ net[p][n] # <<>> /\ alive' = alive /\ ballots' = ballots
      /\ count \in Nat /\ m.type = "VoteResponse"
  BY CountType DEF RoleInv, RoleConsistent, TypeOK, OnVoteResponse, Handles,
                   NetType
<1>1. m.term \in Nat /\ m.granted \in BOOLEAN
  <2>1. m \in Message
    BY <1>0, TakeType
  <2> QED BY <1>0, <2>1, MessageFields
<1>2. s \in ElectionState /\ Keeps(es[n], s)
  BY <1>0, <1>1, HandlerTypes, HandlerKeeps
<1>3. es' = [es EXCEPT ![n] = s] /\ es'[n] = s /\ net' = Take(p, n)
  BY <1>0 DEF OnVoteResponse, TypeOK
<1>4. /\ \A v, c \in Node : ChanOK(Take(p, n)[v][c], v, c, ballots)
      /\ m.granted => <<p, m.term, n>> \in ballots
  <2>1. MsgOK(m, p, n, ballots)
        /\ \A v, c \in Node : ChanOK(Take(p, n)[v][c], v, c, ballots)
    BY <1>0, TakeOK DEF SafeInv
  <2> QED BY <1>0, <2>1 DEF MsgOK
<1>5. NetOK' /\ VoteOnce'
  BY <1>0, <1>3, <1>4 DEF SafeInv, NetOK, VoteOnce
<1>6. BallotRemembered'
  BY <1>0, <1>2, <1>3, RememberKept DEF SafeInv, BallotRemembered
<1>7. m.term = es[n].currentTerm =>
        \A v \in voters : <<v, es[n].currentTerm, n>> \in ballots
  BY <1>4 DEF SafeInv, CountedOK
<1>8. \A v \in s.votes : /\ s.currentTerm = es[n].currentTerm
                         /\ v \in es[n].votes
                            \/ (m.term = es[n].currentTerm /\ v \in voters)
  <2>1. CASE m.term > es[n].currentTerm
    BY <1>0, <2>1 DEF HandleVoteResponse, Adopt, ElectionState
  <2>2. CASE /\ ~(m.term > es[n].currentTerm)
             /\ es[n].role # "Candidate" \/ m.term # es[n].currentTerm
    <3>1. s = es[n]
      BY <2>2 DEF HandleVoteResponse
    <3> QED BY <3>1
  <2>3. CASE /\ ~(m.term > es[n].currentTerm)
             /\ ~(es[n].role # "Candidate" \/ m.term # es[n].currentTerm)
    <3>1. s = Tally(IF m.granted THEN [es[n] EXCEPT !.votes = @ \cup {p}]
                    ELSE es[n], n, count)
      BY <2>3 DEF HandleVoteResponse
    <3> QED BY <1>0, <2>3, <3>1 DEF Tally, BecomeLeader, ElectionState
  <2> QED BY <2>1, <2>2, <2>3
<1>9. CountedOK'
  BY <1>0, <1>3, <1>7, <1>8 DEF SafeInv, CountedOK, TypeOK
<1>10. s.role = "Leader" /\ es[n].role # "Leader" =>
         /\ m.term = es[n].currentTerm /\ s.currentTerm = es[n].currentTerm
         /\ Wins(voters, count)
  BY <1>0, <1>1 DEF HandleVoteResponse, Adopt, Tally, BecomeLeader, ElectionState
<1>11. ElectedOK'
  <2>1. ASSUME NEW e \in elections', e \notin elections
        PROVE  /\ Wins(e.voters, e.total - 1)
               /\ \A v \in e.voters : <<v, e.term, e.leader>> \in ballots'
    <3>1. e = Victory(n, voters) /\ s.role = "Leader" /\ es[n].role # "Leader"
      BY <1>3, <2>1 DEF OnVoteResponse
    <3>2. e.total - 1 = count /\ e.voters = voters /\ e.leader = n
          /\ e.term = es[n].currentTerm
      <4>1. PICK t : t = es[n].currentTerm /\ es'[n].currentTerm = t
        <5> HIDE DEF s
        <5> QED BY <1>3, <1>10, <3>1
      <4>2. PICK k \in Nat : k = count
        BY <1>0
      <4>3. e = [term |-> t, leader |-> n, voters |-> voters, total |-> 1 + k]
        BY <3>1, <4>1, <4>2 DEF Victory
      <4>4. (1 + k) - 1 = k
        OBVIOUS
      <4> HIDE DEF voters, count
      <4> QED BY <4>1, <4>2, <4>3, <4>4
    <3> QED BY <1>0, <1>7, <1>10, <3>1, <3>2
  <2>2. ASSUME NEW e \in elections
        PROVE  /\ Wins(e.voters, e.total - 1)
               /\ \A v \in e.voters : <<v, e.term, e.leader>> \in ballots'
    BY <1>0 DEF SafeInv, ElectedOK
  <2> QED BY <2>1, <2>2 DEF ElectedOK, Wins
<1> QED BY <1>5, <1>6, <1>9, <1>11 DEF SafeInv

\* The periodic tasks and the watcher keep SafeInv.
LEMMA TaskSafe ==
  ASSUME RoleInv, SafeInv, NEW n \in Node, TaskStep(n)
  PROVE  SafeInv'
<1> USE DEF NetworkUnchanged
<1>0. TypeOK /\ es[n] \in ElectionState /\ RoleOK(es[n], n) /\ NetOK
  BY DEF RoleInv, RoleConsistent, TypeOK, SafeInv
<1>1. CASE ElectionTimeout(n) \/ TimerCheck(n) \/ HeartbeatTick(n)
  <2>1. UNCHANGED <<es, ballots, elections, net, alive>>
    BY <1>1 DEF ElectionTimeout, TimerCheck, HeartbeatTick
  <2>2. NetOK'
    BY <1>0, <2>1 DEF NetOK
  <2> QED BY <2>1, <2>2, IdleStep DEF SafeInv
<1>2. CASE RunElection(n)
  BY <1>2, RunElectionSafe
<1>3. CASE TimerAnnounce(n) \/ SendHeartbeat(n) \/ HandlerAnnounce(n)
  <2>1. UNCHANGED <<es, ballots, elections, alive>> /\ BroadcastHeartbeat(n)
    BY <1>3 DEF TimerAnnounce, SendHeartbeat, HandlerAnnounce
  <2>2. NetOK'
    BY <1>0, <2>1, HeartbeatOK
  <2> QED BY <2>1, <2>2, IdleStep DEF SafeInv
<1>4. CASE OnLeft(n)
  <2> DEFINE l == Head(leftEvents[n])
             s == HandlePeerLeft(es[n], l)
  <2>1. l \in Node
    BY <1>0, <1>4 DEF OnLeft, TypeOK
  <2>2. s \in ElectionState /\ Keeps(es[n], s) /\ OldVotes(es[n], s)
    BY <1>0, <2>1, HandlerTypes, HandlerKeeps, HandlerVotes
  <2>3. /\ UNCHANGED <<ballots, elections, alive, net>>
        /\ es' = [es EXCEPT ![n] = s]
    BY <1>4 DEF OnLeft
  <2>4. NetOK'
    BY <1>0, <2>3 DEF NetOK
  <2>5. VoteOnce' /\ BallotRemembered' /\ CountedOK' /\ ElectedOK'
    BY <2>2, <2>3, QuietStep
  <2> QED BY <2>4, <2>5 DEF SafeInv
<1> QED BY <1>1, <1>2, <1>3, <1>4 DEF TaskStep

\* So does the message handler.
LEMMA HandlerSafe ==
  ASSUME RoleInv, SafeInv, NEW n \in Node, NEW p \in Node, HandlerStep(n, p)
  PROVE  SafeInv'
<1> USE DEF NetworkUnchanged
<1>0. TypeOK /\ es[n] \in ElectionState /\ RoleOK(es[n], n) /\ NetOK /\ NetType
  BY DEF RoleInv, RoleConsistent, TypeOK, SafeInv, NetType
<1>1. CASE OnRequestVote(n, p)
  BY <1>1, RequestVoteSafe
<1>2. CASE OnVoteResponse(n, p)
  BY <1>2, VoteResponseSafe
<1>3. CASE OnHeartbeat(n, p)
  <2> DEFINE m == Head(net[p][n])
             s == HandleHeartbeat(es[n], n, m.term, p)
  <2>1. net[p][n] # <<>> /\ m.term \in Nat
    <3>1. net[p][n] # <<>> /\ m.type = "Heartbeat"
      BY <1>3 DEF OnHeartbeat, Handles
    <3>2. m \in Message
      BY <1>0, <3>1, TakeType
    <3> QED BY <3>1, <3>2, MessageFields
  <2>2. s \in ElectionState /\ Keeps(es[n], s) /\ OldVotes(es[n], s)
    BY <1>0, <2>1, HandlerTypes, HandlerKeeps, HandlerVotes
  <2>3. /\ UNCHANGED <<ballots, elections, alive>> /\ net' = Take(p, n)
        /\ es' = [es EXCEPT ![n] = s]
    BY <1>3 DEF OnHeartbeat
  <2>4. NetOK'
    BY <1>0, <2>1, <2>3, TakeOK DEF NetOK
  <2>5. VoteOnce' /\ BallotRemembered' /\ CountedOK' /\ ElectedOK'
    BY <2>2, <2>3, QuietStep
  <2> QED BY <2>4, <2>5 DEF SafeInv
<1>4. CASE OnLeaderAssign(n, p)
  <2>1. net[p][n] # <<>> /\ Head(net[p][n]).type = "LeaderAssign"
    BY <1>4 DEF OnLeaderAssign, Handles
  <2>2. MsgOK(Head(net[p][n]), p, n, ballots)
    BY <1>0, <2>1, TakeOK
  <2> QED BY <2>1, <2>2 DEF MsgOK
<1>5. CASE OnPeerLeave(n, p)
  <2>1. /\ UNCHANGED <<es, ballots, elections, alive>> /\ net' = Take(p, n)
        /\ net[p][n] # <<>>
    BY <1>5 DEF OnPeerLeave, Handles
  <2>2. NetOK'
    BY <1>0, <2>1, TakeOK DEF NetOK
  <2> QED BY <2>1, <2>2, IdleStep DEF SafeInv
<1>6. CASE OnHandshake(n, p) \/ TimeoutOfLost(n, p)
  <2>1. UNCHANGED <<es, ballots, elections, alive, net>>
    BY <1>6 DEF OnHandshake, TimeoutOfLost
  <2>2. NetOK'
    BY <1>0, <2>1 DEF NetOK
  <2> QED BY <2>1, <2>2, IdleStep DEF SafeInv
<1> QED BY <1>1, <1>2, <1>3, <1>4, <1>5, <1>6 DEF HandlerStep

\* So do connections made and lost.
LEMMA EnvironmentSafe ==
  ASSUME RoleInv, SafeInv, NEW n \in Node, NEW p \in Node,
         EnvironmentStep(n, p), Assignable = {}
  PROVE  SafeInv'
<1> DEFINE leave == [type |-> "PeerLeave"]
<1>0. TypeOK /\ NetOK /\ NetType /\ net[n][p] \in Seq(Message)
      /\ ChanOK(net[n][p], n, p, ballots)
  BY DEF RoleInv, TypeOK, SafeInv, NetType, NetOK
<1>1. /\ Enqueue(net[n][p], leave) \in Seq(Message)
      /\ ChanOK(Enqueue(net[n][p], leave), n, p, ballots)
  <2>1. leave \in Message /\ MsgOK(leave, n, p, ballots)
    BY MessageType DEF MsgOK
  <2> QED BY <1>0, <2>1, EnqueueOK, EnqueueType
<1>2. ~CallSetLeader(n, p)
  BY DEF CallSetLeader
<1>3. UNCHANGED <<es, ballots, elections, alive>>
  BY <1>2 DEF EnvironmentStep, TimeoutOfSlow, CallDisconnectPeer, Connect,
              LinkLost
<1>4. \/ Sever(n, p, Enqueue(net[n][p], leave))
      \/ Sever(n, p, net[n][p])
      \/ UNCHANGED net
  BY <1>2 DEF EnvironmentStep, TimeoutOfSlow, CallDisconnectPeer, Connect,
              LinkLost
<1>5. NetOK'
  <2>1. CASE Sever(n, p, Enqueue(net[n][p], leave))
    BY <1>0, <1>1, <1>3, <2>1, SeverOK
  <2>2. CASE Sever(n, p, net[n][p])
    BY <1>0, <1>3, <2>2, SeverOK
  <2>3. CASE UNCHANGED net
    BY <1>0, <1>3, <2>3 DEF NetOK
  <2> QED BY <1>4, <2>1, <2>2, <2>3
<1> QED BY <1>3, <1>5, IdleStep DEF SafeInv

\* The election state of a process that ended holds no vote and is not asked.
LEMMA StopSafe ==
  ASSUME RoleInv, SafeInv, NEW n \in Node, NEW sent \in [Node -> Seq(Message)],
         \A p \in Node : ChanOK(sent[p], n, p, ballots), Stop(n, sent)
  PROVE  SafeInv'
<1> DEFINE s == NewElection(n \in AutoNodes)
<1>0. TypeOK /\ NetOK /\ NetType
  BY DEF RoleInv, TypeOK, SafeInv, NetType
<1>1. /\ es' = [es EXCEPT ![n] = s] /\ alive' = alive \ {n}
      /\ UNCHANGED <<ballots, elections>>
  BY DEF Stop
<1>2. NetOK'
  BY <1>0, StopOK
<1>3. VoteOnce' /\ ElectedOK'
  BY <1>1 DEF SafeInv, VoteOnce, ElectedOK, Wins
<1>4. CountedOK'
  <2>1. s.votes = {}
    BY DEF NewElection
  <2> QED BY <1>0, <1>1, <2>1 DEF SafeInv, CountedOK, TypeOK
<1>5. BallotRemembered'
  <2>1. \A i \in Node : i # n => es'[i] = es[i]
    BY <1>0, <1>1 DEF TypeOK
  <2>2. \A b \in ballots : b[1] \in Node
    BY <1>0 DEF TypeOK
  <2> QED BY <1>1, <2>1, <2>2 DEF SafeInv, BallotRemembered
<1> QED BY <1>2, <1>3, <1>4, <1>5 DEF SafeInv

\* So do toggles and processes that end.
LEMMA ProcessSafe ==
  ASSUME RoleInv, SafeInv, NEW n \in Node, ProcessStep(n), MaxRestarts = 0
  PROVE  SafeInv'
<1>0. TypeOK /\ es[n] \in ElectionState /\ RoleOK(es[n], n) /\ NetOK /\ NetType
  BY DEF RoleInv, RoleConsistent, TypeOK, SafeInv, NetType
<1>1. CASE CallEnableAuto(n)
  <2>1. PICK b \in BOOLEAN :
          es' = [es EXCEPT ![n] = EnableAutoElection(es[n], b)]
    BY <1>1 DEF CallEnableAuto
  <2> DEFINE s == EnableAutoElection(es[n], b)
  <2>2. s \in ElectionState /\ Keeps(es[n], s) /\ OldVotes(es[n], s)
    BY <1>0, HandlerTypes, HandlerKeeps, HandlerVotes
  <2>3. UNCHANGED <<ballots, elections, alive, net>>
    BY <1>1 DEF CallEnableAuto
  <2>4. NetOK'
    BY <1>0, <2>3 DEF NetOK
  <2>5. VoteOnce' /\ BallotRemembered' /\ CountedOK' /\ ElectedOK'
    BY <2>1, <2>2, <2>3, QuietStep
  <2> QED BY <2>4, <2>5 DEF SafeInv
<1>2. CASE Shutdown(n)
  <2> DEFINE leave == [type |-> "PeerLeave"]
  <2>1. leave \in Message /\ leave.type \notin {"LeaderAssign", "VoteResponse"}
    BY MessageType
  <2>2. /\ \A v, c \in Node : ChanOK(Broadcast(n, leave)[v][c], v, c, ballots)
        /\ Broadcast(n, leave)[n] \in [Node -> Seq(Message)]
    BY <1>0, <2>1, BroadcastOK, BroadcastType
  <2>3. Stop(n, Broadcast(n, leave)[n])
    BY <1>2 DEF Shutdown
  <2> QED BY <2>2, <2>3, StopSafe
<1>3. CASE Crash(n)
  <2>1. /\ \A p \in Node : ChanOK(net[n][p], n, p, ballots)
        /\ net[n] \in [Node -> Seq(Message)]
    BY <1>0 DEF NetOK, NetType
  <2>2. Stop(n, net[n])
    BY <1>3 DEF Crash
  <2> QED BY <2>1, <2>2, StopSafe
<1>4. ~Restart(n)
  <2>1. used.restarts \in Nat
    BY <1>0 DEF TypeOK, Used
  <2> QED BY <2>1 DEF Restart
<1> QED BY <1>1, <1>2, <1>3, <1>4 DEF ProcessStep

\* Nobody has voted at the start.
LEMMA SafeInit == Init => SafeInv
BY DEF Init, SafeInv, VoteOnce, BallotRemembered, NetOK, ChanOK, CountedOK,
       ElectedOK, NewElection

\* SafeInv is inductive, given RoleInv.
LEMMA SafeNext ==
  ASSUME Assignable = {}, MaxRestarts = 0
  PROVE  RoleInv /\ SafeInv /\ [Next]_vars => SafeInv'
<1> SUFFICES ASSUME RoleInv, SafeInv, [Next]_vars PROVE SafeInv'
  OBVIOUS
<1>1. CASE UNCHANGED vars
  BY <1>1 DEF vars, SafeInv, VoteOnce, BallotRemembered, NetOK, CountedOK,
              ElectedOK, Wins
<1>2. CASE Next
  <2>1. PICK n \in Node :
          \/ TaskStep(n)
          \/ ProcessStep(n)
          \/ \E p \in Node : HandlerStep(n, p) \/ EnvironmentStep(n, p)
    BY <1>2 DEF Next
  <2> QED BY <2>1, TaskSafe, ProcessSafe, HandlerSafe, EnvironmentSafe
<1> QED BY <1>1, <1>2

\* Two elections with a majority of all nodes have a voter in common, who gave
\* both of them its one vote of the term.
LEMMA SafeElections == TypeOK /\ SafeInv => ElectionSafety
<1> SUFFICES ASSUME TypeOK, SafeInv, NEW e \in elections, NEW f \in elections,
                    e.term = f.term, Cardinality(Node) > 2,
                    e.total = Cardinality(Node), f.total = Cardinality(Node)
             PROVE  e.leader = f.leader
  BY DEF ElectionSafety
<1> DEFINE N == Cardinality(Node)
<1>1. N \in Nat /\ IsFiniteSet(Node)
  BY NodeAssumption, FS_CardinalityType
<1>2. ASSUME NEW g \in elections, g.total = N
      PROVE  /\ g.voters \subseteq Node
             /\ Cardinality(g.voters) \in Nat
             /\ 2 * Cardinality(g.voters) > N
             /\ \A v \in g.voters : <<v, g.term, g.leader>> \in ballots
  <2>1. g.voters \subseteq Node
    BY DEF TypeOK, Won
  <2>2. IsFiniteSet(g.voters) /\ Cardinality(g.voters) \in Nat
    BY <1>1, <2>1, FS_Subset, FS_CardinalityType
  <2>3. Wins(g.voters, N - 1)
    BY <1>2 DEF SafeInv, ElectedOK
  <2>4. 1 + (N - 1) = N
    BY <1>1
  <2>5. Cardinality(g.voters) >= N \div 2 + 1
    BY <1>1, <2>3, <2>4 DEF Wins, MajorityThreshold
  <2>6. 2 * (N \div 2 + 1) > N
    BY <1>1
  <2>7. N \div 2 \in Nat
    BY <1>1
  <2>8. 2 * Cardinality(g.voters) > N
    BY <1>1, <2>2, <2>5, <2>6, <2>7
  <2> QED BY <2>1, <2>2, <2>8 DEF SafeInv, ElectedOK
<1>3. PICK v \in Node : v \in e.voters /\ v \in f.voters
  <2>1. Cardinality(e.voters) + Cardinality(f.voters) > N
    BY <1>1, <1>2
  <2>2. e.voters \cap f.voters # {}
    BY <1>1, <1>2, <2>1, FS_MajoritiesIntersect
  <2> QED BY <1>2, <2>2
<1>4. <<v, e.term, e.leader>> \in ballots /\ <<v, e.term, f.leader>> \in ballots
  BY <1>2, <1>3
<1> QED BY <1>4 DEF SafeInv, VoteOnce

\* With the handlers of src/leader.rs, over channels that lose packets and
\* break, and with processes that end, no two nodes win an election of the
\* same term among all nodes of the session, however large it is: provided
\* that nobody assigns a leader and no process starts again.
THEOREM ElectionsSafe ==
  ASSUME Assignable = {}, MaxRestarts = 0
  PROVE  Spec => []ElectionSafety
<1>1. Init => RoleInv /\ SafeInv
  BY RoleInit, SafeInit
<1>2. (RoleInv /\ SafeInv) /\ [Next]_vars => (RoleInv /\ SafeInv)'
  BY RoleNext, SafeNext
<1>3. RoleInv /\ SafeInv => ElectionSafety
  BY SafeElections DEF RoleInv
<1> QED BY <1>1, <1>2, <1>3, PTL DEF Spec

\* Under the same provisos no node ever votes for two candidates of a term.
THEOREM OneVotePerTerm ==
  ASSUME Assignable = {}, MaxRestarts = 0
  PROVE  Spec => []VoteOnce
<1>1. Init => RoleInv /\ SafeInv
  BY RoleInit, SafeInit
<1>2. (RoleInv /\ SafeInv) /\ [Next]_vars => (RoleInv /\ SafeInv)'
  BY RoleNext, SafeNext
<1>3. RoleInv /\ SafeInv => VoteOnce
  BY DEF SafeInv
<1> QED BY <1>1, <1>2, <1>3, PTL DEF Spec

\* Under the same provisos every vote on its way, counted, or recorded with a
\* win was given in that term to that candidate.
THEOREM VotesGiven ==
  ASSUME Assignable = {}, MaxRestarts = 0
  PROVE  Spec => []VotesBacked
<1>1. Init => RoleInv /\ SafeInv
  BY RoleInit, SafeInit
<1>2. (RoleInv /\ SafeInv) /\ [Next]_vars => (RoleInv /\ SafeInv)'
  BY RoleNext, SafeNext
<1>3. RoleInv /\ SafeInv => VotesBacked
  BY DEF SafeInv, VotesBacked, NetOK, ChanOK, MsgOK, CountedOK, ElectedOK
<1> QED BY <1>1, <1>2, <1>3, PTL DEF Spec

\* Under the same provisos a running node still has the vote it gave in its
\* current term: no path through the handlers clears voted_for within a term.
THEOREM VotesRemembered ==
  ASSUME Assignable = {}, MaxRestarts = 0
  PROVE  Spec => []BallotRemembered
<1>1. Init => RoleInv /\ SafeInv
  BY RoleInit, SafeInit
<1>2. (RoleInv /\ SafeInv) /\ [Next]_vars => (RoleInv /\ SafeInv)'
  BY RoleNext, SafeNext
<1>3. RoleInv /\ SafeInv => BallotRemembered
  BY DEF SafeInv
<1> QED BY <1>1, <1>2, <1>3, PTL DEF Spec

-----------------------------------------------------------------------------
(* The ballot box.  BallotRemembered is what makes the terms of a node's    *)
(* votes go up, and SafeInv and RoleConsistent what backs a win.            *)

\* A step of the box, or one it does not see.
BoxStep == Box!Next \/ UNCHANGED <<ballots, elections>>

\* A vote later than all votes of its voter may go into the box.
LEMMA BoxGives ==
  ASSUME NEW b \in Node \X Nat \X Node,
         \A c \in ballots : c[1] = b[1] => c[2] < b[2],
         ballots' = ballots \cup {b}
  PROVE  Box!Give(b)
BY DEF Box!Give, Box!Vote, Box!Unspent

\* MajorityThreshold of three or more nodes is more than half of them.
LEMMA WinsMajority ==
  ASSUME NEW V \in SUBSET Node, NEW k \in Nat, Wins(V, k)
  PROVE  1 + k > 2 => 2 * Cardinality(V) > 1 + k
<1>1. Cardinality(V) \in Nat
  BY NodeAssumption, FS_Subset, FS_CardinalityType
<1>2. PICK N \in Nat : N = 1 + k
  OBVIOUS
<1>3. 2 * (N \div 2 + 1) > N /\ N \div 2 \in Nat
  OBVIOUS
<1>4. N > 2 => Cardinality(V) >= N \div 2 + 1
  BY <1>2 DEF Wins, MajorityThreshold
<1>5. N > 2 => 2 * Cardinality(V) > N
  BY <1>1, <1>3, <1>4
<1> QED BY <1>2, <1>5

\* An election with enough votes, all of them in the box, may be recorded.
LEMMA BoxWins ==
  ASSUME TypeOK, NEW n \in Node, NEW V \in SUBSET Node, n \in V,
         NEW t \in Nat, es'[n].currentTerm = t, Wins(V, ConnectedCount(n)),
         \A v \in V : <<v, t, n>> \in ballots',
         elections' = elections \cup {Victory(n, V)}
  PROVE  /\ Box!Win(Victory(n, V)) /\ Victory(n, V) \in elections'
         /\ Victory(n, V).leader = n /\ Victory(n, V).term = t
<1>1. PICK k \in Nat : k = ConnectedCount(n)
  BY CountType
<1>2. Victory(n, V) = [term |-> t, leader |-> n, voters |-> V, total |-> 1 + k]
  BY <1>1 DEF Victory
<1>3. Victory(n, V) \in Box!Victory
  <2>1. Victory(n, V) \in Won
    BY WonType
  <2> QED BY <2>1 DEF Won, Box!Victory
<1>4. 1 + k > 2 => 2 * Cardinality(V) > 1 + k
  BY <1>1, WinsMajority
<1>5. /\ Victory(n, V).leader = n /\ Victory(n, V).term = t
      /\ Victory(n, V).voters = V /\ Victory(n, V).total = 1 + k
  BY <1>2
<1>6. Box!Enough(Victory(n, V))
  <2>1. PICK w : w = Victory(n, V)
    OBVIOUS
  <2>2. w.leader \in w.voters
    BY <1>5, <2>1
  <2>3. w.total > 2 => 2 * Cardinality(w.voters) > w.total
    BY <1>4, <1>5, <2>1
  <2>4. Box!Cardinality(w.voters) = Cardinality(w.voters)
    BY DEF Box!Cardinality, Cardinality
  <2> QED BY <2>1, <2>2, <2>3, <2>4 DEF Box!Enough
<1> QED BY <1>3, <1>5, <1>6 DEF Box!Win

\* start_election: the candidate's own vote, and the win when it is enough.
LEMMA RunElectionBox ==
  ASSUME RoleInv, SafeInv, NEW n \in Node, RunElection(n)
  PROVE  BoxStep
<1> DEFINE s == StartElection(es[n], n, ConnectedCount(n))
           t == es[n].currentTerm + 1
           b == <<n, t, n>>
<1>0. /\ TypeOK /\ es[n] \in ElectionState /\ ConnectedCount(n) \in Nat
      /\ n \in alive /\ es'[n] = s
  BY CountType DEF RoleInv, TypeOK, RunElection
<1>1. CASE ~MayElect(es[n])
  BY <1>1 DEF RunElection, BoxStep
<1>2. CASE MayElect(es[n])
  <2>1. /\ t \in Nat /\ es[n].currentTerm \in Nat /\ s.currentTerm = t
        /\ s.role = "Leader" => Wins({n}, ConnectedCount(n))
    BY <1>0, <1>2 DEF StartElection, Candidacy, Tally, BecomeLeader, ElectionState
  <2>2. es'[n].currentTerm = t /\ es'[n].role = s.role
    BY <1>0, <2>1
  <2>3. ballots' = ballots \cup {b}
    BY <1>2, <2>2 DEF RunElection
  <2>4. ASSUME NEW c \in ballots, c[1] = n
        PROVE  c[2] < t
    <3>1. c[2] \in Nat
      BY <1>0 DEF TypeOK
    <3>2. c[2] <= es[n].currentTerm
      BY <1>0, <2>1, <2>4, <3>1 DEF SafeInv, BallotRemembered
    <3> QED BY <2>1, <3>1, <3>2
  <2>5. Box!Give(b)
    <3>1. b \in Node \X Nat \X Node /\ b[1] = n /\ b[2] = t
      BY <2>1
    <3> HIDE DEF b, t
    <3> QED BY <2>3, <2>4, <3>1, BoxGives
  <2>6. CASE s.role # "Leader"
    <3>1. elections' = elections
      BY <2>2, <2>6 DEF RunElection
    <3>2. b \in ballots'
      BY <2>3
    <3> HIDE DEF b
    <3> QED BY <2>5, <3>1, <3>2 DEF BoxStep, Box!Next
  <2>7. CASE s.role = "Leader"
    <3>1. elections' = elections \cup {Victory(n, {n})}
      BY <1>2, <2>2, <2>7 DEF RunElection
    <3>2. /\ Box!Win(Victory(n, {n})) /\ Victory(n, {n}) \in elections'
          /\ Victory(n, {n}).leader = n /\ Victory(n, {n}).term = t
      <4>1. Wins({n}, ConnectedCount(n)) /\ \A v \in {n} : <<v, t, n>> \in ballots'
        BY <2>1, <2>3, <2>7
      <4>2. {n} \in SUBSET Node /\ n \in {n} /\ t \in Nat
        BY <2>1
      <4>3. PICK V \in SUBSET Node : V = {n}
        BY <4>2
      <4>4. \A v \in V : <<v, t, n>> \in ballots'
        BY <4>1, <4>3
      <4>5. /\ n \in V /\ Wins(V, ConnectedCount(n)) /\ es'[n].currentTerm = t
            /\ elections' = elections \cup {Victory(n, V)}
        BY <2>2, <3>1, <4>1, <4>3
      <4> HIDE DEF t
      <4>6. /\ Box!Win(Victory(n, V)) /\ Victory(n, V) \in elections'
            /\ Victory(n, V).leader = n /\ Victory(n, V).term = t
        BY <1>0, <4>2, <4>4, <4>5, BoxWins
      <4> QED BY <4>3, <4>6
    <3>3. Box!Give(<<Victory(n, {n}).leader, Victory(n, {n}).term,
                     Victory(n, {n}).leader>>)
      BY <2>5, <3>2
    <3> QED BY <3>2, <3>3 DEF BoxStep, Box!Next
  <2> QED BY <2>6, <2>7
<1> QED BY <1>1, <1>2

\* handle_request_vote: a vote in a new term, the same vote again, or none.
LEMMA RequestVoteBox ==
  ASSUME RoleInv, SafeInv, NEW n \in Node, NEW p \in Node, OnRequestVote(n, p)
  PROVE  BoxStep
<1> DEFINE t == Head(net[p][n]).term
           b == <<n, t, p>>
           granted == GrantsVote(es[n], t, p)
<1>0. /\ TypeOK /\ es[n] \in ElectionState /\ es[n].currentTerm \in Nat
      /\ net[p][n] # <<>> /\ n \in alive /\ elections' = elections /\ NetType
      /\ ballots' = IF granted THEN ballots \cup {b} ELSE ballots
  BY DEF RoleInv, TypeOK, NetType, OnRequestVote, Handles, ElectionState
<1>1. t \in Nat
  <2>1. Head(net[p][n]) \in Message
    BY <1>0, TakeType
  <2> QED BY <2>1, MessageFields DEF OnRequestVote, Handles
<1>2. ASSUME granted, NEW c \in ballots, c[1] = n
      PROVE  c = b \/ c[2] < t
  <2>1. /\ c[2] \in Nat /\ c[3] \in Node /\ c[3] # None
        /\ c = <<c[1], c[2], c[3]>>
    <3>1. c \in Node \X Nat \X Node
      BY <1>0 DEF TypeOK
    <3>2. \A x \in Node \X Nat \X Node :
            x[2] \in Nat /\ x[3] \in Node /\ x = <<x[1], x[2], x[3]>>
      OBVIOUS
    <3>3. c[2] \in Nat /\ c[3] \in Node /\ c = <<c[1], c[2], c[3]>>
      BY <3>1, <3>2
    <3> QED BY <3>3, NoneAssumption
  <2>2. \/ c[2] < es[n].currentTerm
        \/ c[2] = es[n].currentTerm /\ es[n].votedFor = c[3]
    BY <1>0, <1>2 DEF SafeInv, BallotRemembered
  <2>3. t >= es[n].currentTerm
    BY <1>2 DEF GrantsVote
  <2>4. t = es[n].currentTerm => es[n].votedFor \in {None, p}
    BY <1>0, <1>1, <1>2 DEF GrantsVote, CanVote, AdoptIfHigher
  <2>5. CASE t = es[n].currentTerm /\ c[2] = t
    <3>1. c[3] = p
      BY <2>1, <2>2, <2>4, <2>5
    <3> QED BY <1>2, <2>1, <2>5, <3>1
  <2>6. CASE ~(t = es[n].currentTerm /\ c[2] = t)
    <3> HIDE DEF t
    <3> QED BY <1>0, <1>1, <2>1, <2>2, <2>3, <2>6
  <2> QED BY <2>5, <2>6
<1>3. CASE granted /\ b \notin ballots
  <2>1. ballots' = ballots \cup {b} /\ b \in ballots'
    BY <1>0, <1>3
  <2>2. b \in Node \X Nat \X Node /\ b[1] = n /\ b[2] = t
    BY <1>1
  <2>3. \A c \in ballots : c[1] = b[1] => c[2] < b[2]
    BY <1>2, <1>3, <2>2
  <2> HIDE DEF b
  <2>4. Box!Give(b)
    BY <2>1, <2>2, <2>3, BoxGives
  <2> QED BY <1>0, <2>1, <2>4 DEF BoxStep, Box!Next
<1>4. CASE ~(granted /\ b \notin ballots)
  BY <1>0, <1>4 DEF BoxStep
<1> QED BY <1>3, <1>4

\* handle_vote_response: the votes of a winner are in the box, its own too.
LEMMA VoteResponseBox ==
  ASSUME RoleInv, SafeInv, NEW n \in Node, NEW p \in Node, OnVoteResponse(n, p)
  PROVE  BoxStep
<1> DEFINE m == Head(net[p][n])
           count == ConnectedCount(n)
           voters == IF m.granted THEN es[n].votes \cup {p} ELSE es[n].votes
           s == HandleVoteResponse(es[n], n, m.term, p, m.granted, count)
<1>0. /\ TypeOK /\ RoleOK(es[n], n) /\ es[n] \in ElectionState /\ NetType
      /\ net[p][n] # <<>> /\ ballots' = ballots /\ es'[n] = s
      /\ count \in Nat /\ m.type = "VoteResponse" /\ es[n].currentTerm \in Nat
  BY CountType DEF RoleInv, RoleConsistent, TypeOK, OnVoteResponse, Handles,
                   NetType, ElectionState
<1>1. m.term \in Nat /\ m.granted \in BOOLEAN
  <2>1. m \in Message
    BY <1>0, TakeType
  <2> QED BY <1>0, <2>1, MessageFields
<1>2. CASE ~(s.role = "Leader" /\ es[n].role # "Leader")
  BY <1>0, <1>2 DEF OnVoteResponse, BoxStep
<1>3. CASE s.role = "Leader" /\ es[n].role # "Leader"
  <2>1. /\ m.term = es[n].currentTerm /\ s.currentTerm = es[n].currentTerm
        /\ es[n].role = "Candidate" /\ Wins(voters, count)
    BY <1>0, <1>1, <1>3
       DEF HandleVoteResponse, Adopt, Tally, BecomeLeader, ElectionState, Role
  <2>2. m.granted => <<p, m.term, n>> \in ballots
    <3>1. MsgOK(m, p, n, ballots)
      BY <1>0, TakeOK DEF SafeInv
    <3> QED BY <1>0, <3>1 DEF MsgOK
  <2>3. n \in voters /\ voters \in SUBSET Node
    BY <1>0, <2>1 DEF RoleOK, ElectionState
  <2>4. \A v \in voters : <<v, es[n].currentTerm, n>> \in ballots'
    BY <1>0, <2>1, <2>2 DEF SafeInv, CountedOK
  <2>5. elections' = elections \cup {Victory(n, voters)}
    BY <1>0, <1>3 DEF OnVoteResponse
  <2>6. es'[n].currentTerm = es[n].currentTerm
    <3> HIDE DEF s
    <3> QED BY <1>0, <2>1
  <2> HIDE DEF voters
  <2>7. Box!Win(Victory(n, voters)) /\ Victory(n, voters) \in elections'
    BY <1>0, <2>1, <2>3, <2>4, <2>5, <2>6, BoxWins
  <2> QED BY <1>0, <2>7 DEF BoxStep, Box!Next
<1> QED BY <1>2, <1>3

\* No other step gives a vote or wins an election.
LEMMA NextBox ==
  ASSUME RoleInv, SafeInv, [Next]_vars
  PROVE  BoxStep
<1>1. CASE UNCHANGED vars
  BY <1>1 DEF vars, BoxStep
<1>2. ASSUME NEW n \in Node, TaskStep(n)
      PROVE  BoxStep
  <2>1. CASE RunElection(n)
    BY <2>1, RunElectionBox
  <2>2. CASE ~RunElection(n)
    BY <1>2, <2>2
       DEF TaskStep, ElectionTimeout, TimerCheck, TimerAnnounce, HeartbeatTick,
           SendHeartbeat, HandlerAnnounce, OnLeft, BoxStep
  <2> QED BY <2>1, <2>2
<1>3. ASSUME NEW n \in Node, NEW p \in Node, HandlerStep(n, p)
      PROVE  BoxStep
  <2>1. CASE OnRequestVote(n, p)
    BY <2>1, RequestVoteBox
  <2>2. CASE OnVoteResponse(n, p)
    BY <2>2, VoteResponseBox
  <2>3. CASE ~OnRequestVote(n, p) /\ ~OnVoteResponse(n, p)
    BY <1>3, <2>3
       DEF HandlerStep, OnHeartbeat, OnLeaderAssign, OnPeerLeave, OnHandshake,
           TimeoutOfLost, BoxStep
  <2> QED BY <2>1, <2>2, <2>3
<1>4. ASSUME NEW n \in Node, NEW p \in Node, EnvironmentStep(n, p)
      PROVE  BoxStep
  BY <1>4 DEF EnvironmentStep, TimeoutOfSlow, CallSetLeader, CallDisconnectPeer,
              Connect, LinkLost, BoxStep
<1>5. ASSUME NEW n \in Node, ProcessStep(n)
      PROVE  BoxStep
  BY <1>5 DEF ProcessStep, CallEnableAuto, Shutdown, Crash, Stop, Restart, BoxStep
<1>6. CASE Next
  BY <1>2, <1>3, <1>4, <1>5, <1>6 DEF Next
<1> QED BY <1>1, <1>6

\* Provided that nobody assigns a leader and no process starts again, the
\* election of src/leader.rs is a ballot box, in a session of any size and with
\* messages late, lost or crossed: a node votes in rising terms and once in each,
\* and who wins has the votes of the majority it counted in the box, its own
\* among them.
THEOREM ElectionImplementsBox ==
  ASSUME Assignable = {}, MaxRestarts = 0
  PROVE  Spec => ImplementsBox
<1>1. Init => RoleInv /\ SafeInv
  BY RoleInit, SafeInit
<1>2. (RoleInv /\ SafeInv) /\ [Next]_vars => (RoleInv /\ SafeInv)'
  BY RoleNext, SafeNext
<1>3. Init => Box!Init
  BY DEF Init, Box!Init
<1>4. RoleInv /\ SafeInv /\ [Next]_vars => [Box!Next]_<<ballots, elections>>
  BY NextBox DEF BoxStep
<1> QED BY <1>1, <1>2, <1>3, <1>4, PTL DEF Spec, ImplementsBox, Box!Spec, Box!box

-----------------------------------------------------------------------------
(* Terms.  No handler lowers the term, assignments included.               *)

\* No handler lowers the term.
LEMMA HandlerTerms ==
  ASSUME NEW s \in ElectionState, NEW self \in Node, NEW l \in Node,
         NEW t \in Nat
  PROVE  /\ HandleLeaderAssign(s, self, t, l).currentTerm >= s.currentTerm
         /\ SetLeader(s, self, l).currentTerm >= s.currentTerm
BY DEF HandleLeaderAssign, SetLeader, Assigned, ElectionState

\* A step that moves n to s, with a term no lower, lowers no term.
TermKept ==
  \A i \in alive \cap alive' : es'[i].currentTerm >= es[i].currentTerm

\* When one node changes and its term does not fall, no term falls.
LEMMA OneNodeTerm ==
  ASSUME TypeOK, NEW n \in Node, NEW s, es' = [es EXCEPT ![n] = s],
         s.currentTerm >= es[n].currentTerm
  PROVE  TermKept
<1>1. \A i \in Node : es[i].currentTerm \in Nat
  BY DEF TypeOK, ElectionState
<1>2. \A i \in Node : es'[i] = IF i = n THEN s ELSE es[i]
  BY DEF TypeOK
<1> QED BY <1>1, <1>2 DEF TermKept, TypeOK

\* When no election state changes, no term falls.
LEMMA SameTerm ==
  ASSUME TypeOK, es' = es
  PROVE  TermKept
<1>1. \A i \in Node : es[i].currentTerm \in Nat
  BY DEF TypeOK, ElectionState
<1> QED BY <1>1 DEF TermKept, TypeOK

\* The periodic tasks and the watcher lower no term.
LEMMA TaskTerms ==
  ASSUME RoleInv, NEW n \in Node, TaskStep(n)
  PROVE  TermKept
<1>0. TypeOK /\ es[n] \in ElectionState /\ RoleOK(es[n], n)
      /\ ConnectedCount(n) \in Nat
  BY CountType DEF RoleInv, RoleConsistent, TypeOK
<1>1. CASE RunElection(n)
  BY <1>0, <1>1, HandlerKeeps, OneNodeTerm DEF RunElection, Keeps
<1>2. CASE OnLeft(n)
  <2>1. Head(leftEvents[n]) \in Node
    BY <1>0, <1>2 DEF OnLeft, TypeOK
  <2> QED BY <1>0, <1>2, <2>1, HandlerKeeps, OneNodeTerm DEF OnLeft, Keeps
<1>3. CASE ~RunElection(n) /\ ~OnLeft(n)
  <2>1. es' = es
    BY <1>3 DEF TaskStep, ElectionTimeout, TimerCheck, TimerAnnounce, HeartbeatTick,
                SendHeartbeat, HandlerAnnounce
  <2> QED BY <1>0, <2>1, SameTerm
<1> QED BY <1>1, <1>2, <1>3

\* Neither does the message handler.
LEMMA HandlerStepTerms ==
  ASSUME RoleInv, NEW n \in Node, NEW p \in Node, HandlerStep(n, p)
  PROVE  TermKept
<1> DEFINE m == Head(net[p][n])
<1>0. TypeOK /\ es[n] \in ElectionState /\ RoleOK(es[n], n)
      /\ ConnectedCount(n) \in Nat
  BY CountType DEF RoleInv, RoleConsistent, TypeOK
<1>a. net[p][n] # <<>> => m \in Message
  BY <1>0, TakeType DEF TypeOK, NetType
<1>1. CASE OnRequestVote(n, p)
  <2>1. m.term \in Nat
    BY <1>1, <1>a, MessageFields DEF OnRequestVote, Handles
  <2> QED BY <1>0, <1>1, <2>1, HandlerKeeps, OneNodeTerm DEF OnRequestVote, Keeps
<1>2. CASE OnVoteResponse(n, p)
  <2>1. m.term \in Nat /\ m.granted \in BOOLEAN
    BY <1>2, <1>a, MessageFields DEF OnVoteResponse, Handles
  <2> QED BY <1>0, <1>2, <2>1, HandlerKeeps, OneNodeTerm DEF OnVoteResponse, Keeps
<1>3. CASE OnHeartbeat(n, p)
  <2>1. m.term \in Nat
    BY <1>3, <1>a, MessageFields DEF OnHeartbeat, Handles
  <2> QED BY <1>0, <1>3, <2>1, HandlerKeeps, OneNodeTerm DEF OnHeartbeat, Keeps
<1>4. CASE OnLeaderAssign(n, p)
  <2>1. m.term \in Nat /\ m.leader \in Node
    BY <1>4, <1>a, MessageFields DEF OnLeaderAssign, Handles
  <2> QED BY <1>0, <1>4, <2>1, HandlerTerms, OneNodeTerm DEF OnLeaderAssign
<1>5. CASE OnPeerLeave(n, p) \/ OnHandshake(n, p) \/ TimeoutOfLost(n, p)
  BY <1>0, <1>5, SameTerm DEF OnPeerLeave, OnHandshake, TimeoutOfLost
<1> QED BY <1>1, <1>2, <1>3, <1>4, <1>5 DEF HandlerStep

\* Neither does any other step.
LEMMA OtherTerms ==
  ASSUME RoleInv, NEW n \in Node, NEW p \in Node,
         EnvironmentStep(n, p) \/ ProcessStep(n)
  PROVE  TermKept
<1>0. TypeOK /\ es[n] \in ElectionState /\ RoleOK(es[n], n)
  BY DEF RoleInv, RoleConsistent, TypeOK
<1>1. CASE CallSetLeader(n, p)
  BY <1>0, <1>1, HandlerTerms, OneNodeTerm DEF CallSetLeader
<1>2. CASE CallEnableAuto(n)
  <2>1. PICK b \in BOOLEAN :
          es' = [es EXCEPT ![n] = EnableAutoElection(es[n], b)]
    BY <1>2 DEF CallEnableAuto
  <2> QED BY <1>0, <2>1, HandlerKeeps, OneNodeTerm DEF Keeps
<1>3. CASE Shutdown(n) \/ Crash(n)
  <2>1. /\ es' = [es EXCEPT ![n] = NewElection(n \in AutoNodes)]
        /\ alive' = alive \ {n}
    BY <1>3 DEF Shutdown, Crash, Stop
  <2>2. \A i \in Node : es[i].currentTerm \in Nat
    BY <1>0 DEF TypeOK, ElectionState
  <2> QED BY <1>0, <2>1, <2>2 DEF TermKept, TypeOK
<1>4. CASE Restart(n) \/ TimeoutOfSlow(n, p) \/ CallDisconnectPeer(n, p)
           \/ Connect(n, p) \/ LinkLost(n, p)
  BY <1>0, <1>4, SameTerm
     DEF Restart, TimeoutOfSlow, CallDisconnectPeer, Connect, LinkLost
<1> QED BY <1>1, <1>2, <1>3, <1>4 DEF EnvironmentStep, ProcessStep

\* The term of a running process never goes back, whatever messages arrive
\* and whatever leader the application assigns.
THEOREM TermsNeverFall == Spec => TermsGrow
<1>1. RoleInv /\ [Next]_vars =>
        [\A n \in alive \cap alive' :
           es'[n].currentTerm >= es[n].currentTerm]_vars
  <2> SUFFICES ASSUME RoleInv, Next
               PROVE  TermKept
    BY DEF TermKept
  <2>1. PICK n \in Node :
          \/ TaskStep(n)
          \/ ProcessStep(n)
          \/ \E p \in Node : HandlerStep(n, p) \/ EnvironmentStep(n, p)
    BY DEF Next
  <2> QED BY <2>1, TaskTerms, HandlerStepTerms, OtherTerms
<1> QED BY RoleInit, RoleNext, <1>1, PTL DEF Spec, TermsGrow

-----------------------------------------------------------------------------
(* The manual override.  A node under it is no candidate (RoleConsistent), *)
(* so no vote makes it a leader; start_election and the heartbeat of       *)
(* another leader are refused.                                             *)

\* x is the state of a node whose leader no election or heartbeat replaced.
Holds(s, x) == s.manual /\ s.leaderId # None => x.leaderId \in {s.leaderId, None}

\* The handlers other than set_leader and handle_leader_assign.
LEMMA HandlerHolds ==
  ASSUME NEW s \in ElectionState, NEW self \in Node, RoleOK(s, self),
         NEW p \in Node, NEW t \in Nat, NEW count \in Nat, NEW b \in BOOLEAN
  PROVE  /\ Holds(s, StartElection(s, self, count))
         /\ Holds(s, HandleRequestVote(s, t, p))
         /\ Holds(s, HandleVoteResponse(s, self, t, p, b, count))
         /\ Holds(s, HandleHeartbeat(s, self, t, p))
         /\ Holds(s, EnableAutoElection(s, b))
         /\ Holds(s, HandlePeerLeft(s, p))
<1>1. Adopt(s, t).leaderId = s.leaderId
  BY DEF Adopt, ElectionState
<1>2. Holds(s, StartElection(s, self, count))
  BY DEF Holds, StartElection, MayElect
<1>3. Holds(s, HandleRequestVote(s, t, p))
  <2>1. AdoptIfHigher(s, t) \in ElectionState /\ AdoptIfHigher(s, t).leaderId = s.leaderId
    BY <1>1, NoneAssumption DEF AdoptIfHigher, Adopt, ElectionState, OptNode, Role
  <2> QED BY <2>1 DEF Holds, HandleRequestVote, ElectionState
<1>4. Holds(s, HandleVoteResponse(s, self, t, p, b, count))
  <2>1. s.manual => s.role # "Candidate"
    BY DEF RoleOK
  <2> QED BY <1>1, <2>1 DEF Holds, HandleVoteResponse
<1>5. Holds(s, HandleHeartbeat(s, self, t, p))
  <2>1. CASE AcceptsHeartbeat(s, self, t, p)
    <3>1. HandleHeartbeat(s, self, t, p).leaderId = p
      BY <2>1 DEF HandleHeartbeat, ElectionState
    <3> QED BY <2>1, <3>1 DEF AcceptsHeartbeat, Overridden, Holds
  <2>2. CASE ~AcceptsHeartbeat(s, self, t, p)
    BY <2>2 DEF HandleHeartbeat, Holds
  <2> QED BY <2>1, <2>2
<1>6. Holds(s, EnableAutoElection(s, b))
  BY DEF Holds, EnableAutoElection, ElectionState
<1>7. Holds(s, HandlePeerLeft(s, p))
  BY DEF Holds, HandlePeerLeft, ElectionState
<1> QED BY <1>2, <1>3, <1>4, <1>5, <1>6, <1>7

\* What ManualLeaderHolds allows of one step.
ManualKept ==
  \A n \in alive \cap alive' :
    /\ es[n].manual /\ es[n].leaderId # None
    /\ es'[n].leaderId # es[n].leaderId
    => \/ used'.assigns > used.assigns
       \/ TakesAssign(n)
       \/ es'[n].leaderId = None

LEMMA OneNodeHolds ==
  ASSUME TypeOK, NEW n \in Node, NEW x, es' = [es EXCEPT ![n] = x], Holds(es[n], x)
  PROVE  ManualKept
<1>1. \A i \in Node : es'[i] = IF i = n THEN x ELSE es[i]
  BY DEF TypeOK
<1> QED BY <1>1 DEF ManualKept, Holds, TypeOK

LEMMA SameHolds ==
  ASSUME es' = es
  PROVE  ManualKept
BY DEF ManualKept

\* The periodic tasks and the watcher.
LEMMA TaskHolds ==
  ASSUME RoleInv, NEW n \in Node, TaskStep(n)
  PROVE  ManualKept
<1>0. TypeOK /\ es[n] \in ElectionState /\ RoleOK(es[n], n)
      /\ ConnectedCount(n) \in Nat
  BY CountType DEF RoleInv, RoleConsistent, TypeOK
<1>1. CASE RunElection(n)
  BY <1>0, <1>1, HandlerHolds, OneNodeHolds DEF RunElection
<1>2. CASE OnLeft(n)
  <2>1. Head(leftEvents[n]) \in Node
    BY <1>0, <1>2 DEF OnLeft, TypeOK
  <2> QED BY <1>0, <1>2, <2>1, HandlerHolds, OneNodeHolds DEF OnLeft
<1>3. CASE ~RunElection(n) /\ ~OnLeft(n)
  <2>1. es' = es
    BY <1>3 DEF TaskStep, ElectionTimeout, TimerCheck, TimerAnnounce, HeartbeatTick,
                SendHeartbeat, HandlerAnnounce
  <2> QED BY <2>1, SameHolds
<1> QED BY <1>1, <1>2, <1>3

\* The message handler: it takes an assignment, or leaves the leader.
LEMMA HandlerStepHolds ==
  ASSUME RoleInv, NEW n \in Node, NEW p \in Node, HandlerStep(n, p)
  PROVE  ManualKept
<1> DEFINE m == Head(net[p][n])
<1>0. TypeOK /\ es[n] \in ElectionState /\ RoleOK(es[n], n)
      /\ ConnectedCount(n) \in Nat
  BY CountType DEF RoleInv, RoleConsistent, TypeOK
<1>a. net[p][n] # <<>> => m \in Message
  BY <1>0, TakeType DEF TypeOK, NetType
<1>1. CASE OnRequestVote(n, p)
  <2>1. m.term \in Nat
    BY <1>1, <1>a, MessageFields DEF OnRequestVote, Handles
  <2> QED BY <1>0, <1>1, <2>1, HandlerHolds, OneNodeHolds DEF OnRequestVote
<1>2. CASE OnVoteResponse(n, p)
  <2>1. m.term \in Nat /\ m.granted \in BOOLEAN
    BY <1>2, <1>a, MessageFields DEF OnVoteResponse, Handles
  <2> QED BY <1>0, <1>2, <2>1, HandlerHolds, OneNodeHolds DEF OnVoteResponse
<1>3. CASE OnHeartbeat(n, p)
  <2>1. m.term \in Nat
    BY <1>3, <1>a, MessageFields DEF OnHeartbeat, Handles
  <2> QED BY <1>0, <1>3, <2>1, HandlerHolds, OneNodeHolds DEF OnHeartbeat
<1>4. CASE OnLeaderAssign(n, p)
  <2>1. net[p][n] # <<>> /\ m.type = "LeaderAssign" /\ net' = Take(p, n)
    BY <1>4 DEF OnLeaderAssign, Handles
  <2>2. net'[p][n] = Tail(net[p][n])
    BY <1>0, <2>1 DEF Take, TypeOK
  <2>3. TakesAssign(n)
    BY <2>1, <2>2 DEF TakesAssign
  <2>4. \A i \in Node : i # n => es'[i] = es[i]
    BY <1>0, <1>4 DEF OnLeaderAssign, TypeOK
  <2> QED BY <1>0, <2>3, <2>4 DEF ManualKept, TypeOK
<1>5. CASE OnPeerLeave(n, p) \/ OnHandshake(n, p) \/ TimeoutOfLost(n, p)
  BY <1>5, SameHolds DEF OnPeerLeave, OnHandshake, TimeoutOfLost
<1> QED BY <1>1, <1>2, <1>3, <1>4, <1>5 DEF HandlerStep

\* The other steps.
LEMMA OtherHolds ==
  ASSUME RoleInv, NEW n \in Node, NEW p \in Node,
         EnvironmentStep(n, p) \/ ProcessStep(n)
  PROVE  ManualKept
<1>0. TypeOK /\ es[n] \in ElectionState /\ RoleOK(es[n], n)
  BY DEF RoleInv, RoleConsistent, TypeOK
<1>1. CASE CallSetLeader(n, p)
  <2>1. used' = [used EXCEPT !.assigns = @ + 1]
    BY <1>1 DEF CallSetLeader
  <2>2. used.assigns \in Nat /\ used'.assigns = used.assigns + 1
    BY <1>0, <2>1 DEF TypeOK, Used
  <2>3. used'.assigns > used.assigns
    BY <2>2
  <2> QED BY <2>3 DEF ManualKept
<1>2. CASE CallEnableAuto(n)
  <2>1. PICK b \in BOOLEAN :
          es' = [es EXCEPT ![n] = EnableAutoElection(es[n], b)]
    BY <1>2 DEF CallEnableAuto
  <2>2. Holds(es[n], EnableAutoElection(es[n], b))
    BY <1>0 DEF Holds, EnableAutoElection, ElectionState
  <2> QED BY <1>0, <2>1, <2>2, OneNodeHolds
<1>3. CASE Shutdown(n) \/ Crash(n)
  <2>1. /\ es' = [es EXCEPT ![n] = NewElection(n \in AutoNodes)]
        /\ alive' = alive \ {n}
    BY <1>3 DEF Shutdown, Crash, Stop
  <2>2. \A i \in alive \cap alive' : es'[i] = es[i]
    BY <1>0, <2>1 DEF TypeOK
  <2> QED BY <2>2 DEF ManualKept
<1>4. CASE Restart(n) \/ TimeoutOfSlow(n, p) \/ CallDisconnectPeer(n, p)
           \/ Connect(n, p) \/ LinkLost(n, p)
  BY <1>4, SameHolds
     DEF Restart, TimeoutOfSlow, CallDisconnectPeer, Connect, LinkLost
<1> QED BY <1>1, <1>2, <1>3, <1>4 DEF EnvironmentStep, ProcessStep

\* A leader chosen by hand (SetLeader of src/ffi.rs) is replaced on no running
\* node by an election, a vote or a heartbeat, in any session and under any
\* interleaving: only by another assignment, or it is forgotten when it leaves.
THEOREM ManualLeadersHold == Spec => ManualLeaderHolds
<1>1. RoleInv /\ [Next]_vars =>
        [\A n \in alive \cap alive' :
           /\ es[n].manual /\ es[n].leaderId # None
           /\ es'[n].leaderId # es[n].leaderId
           => \/ used'.assigns > used.assigns
              \/ TakesAssign(n)
              \/ es'[n].leaderId = None]_vars
  <2> SUFFICES ASSUME RoleInv, Next
               PROVE  ManualKept
    BY DEF ManualKept
  <2>1. PICK n \in Node :
          \/ TaskStep(n)
          \/ ProcessStep(n)
          \/ \E p \in Node : HandlerStep(n, p) \/ EnvironmentStep(n, p)
    BY DEF Next
  <2> QED BY <2>1, TaskHolds, HandlerStepHolds, OtherHolds
<1> QED BY RoleInit, RoleNext, <1>1, PTL DEF Spec, ManualLeaderHolds
=============================================================================
