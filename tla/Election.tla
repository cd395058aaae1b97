------------------------------- MODULE Election -------------------------------
(***************************************************************************)
(* Leader election between the nodes of one session: the handlers of       *)
(* src/leader.rs (module LeaderElection) called by the tasks that          *)
(* src/lib.rs spawns on every node, over control channels of               *)
(* src/transport.rs and the membership tables of src/membership.rs.        *)
(*                                                                         *)
(* Every node runs, concurrently: the message handler (one message at a    *)
(* time), the election timer, the heartbeat task, the timeout check, the   *)
(* membership watcher, and the application's calls through src/ffi.rs.     *)
(* The state lock is released between two calls to LeaderElection, so a    *)
(* task that reads and then acts is two actions, and pc says where it is.  *)
(***************************************************************************)
EXTENDS LeaderElection, Sequences

CONSTANTS
  InitialConns,       \* the control channels that exist at the start
  AutoNodes,          \* the nodes with auto_election_enabled configured
  Assignable,         \* the peers the application may pass to SetLeader
  SendQueueCapacity,  \* send_queue_capacity of a control channel
  BeatBacklog,        \* bound: no heartbeat behind this many unread packets
  MaxTerm,            \* bound: no election or assignment starts beyond it
  MaxAssigns,         \* bound: calls of SetLeader
  MaxToggles,         \* bound: calls of EnableAutoLeaderElection
  MaxDisruptions,     \* bound: lost links, false timeouts, departures
  MaxConnects,        \* bound: connections made after the start
  MaxRestarts         \* bound: processes started again under their peer id

ASSUME ConnsAssumption ==
  /\ InitialConns \in [Node -> SUBSET Node]
  /\ \A n, p \in Node : p \in InitialConns[n] => n \in InitialConns[p] /\ n # p
ASSUME InputAssumption == AutoNodes \subseteq Node /\ Assignable \subseteq Node
ASSUME BoundAssumption ==
  /\ SendQueueCapacity \in Nat /\ BeatBacklog \in Nat /\ MaxTerm \in Nat
  /\ MaxAssigns \in Nat
  /\ MaxToggles \in Nat /\ MaxDisruptions \in Nat
  /\ MaxConnects \in Nat /\ MaxRestarts \in Nat

VARIABLES
  alive,       \* the nodes whose process runs
  es,          \* es[n]: the ElectionState of n
  pc,          \* pc[n]: where the tasks of n are between two locked sections
  members,     \* members[n][p]: the status of p in the membership of n
  leftEvents,  \* leftEvents[n]: Left events the watcher of n has not seen
  conns,       \* conns[n]: the peers in the connection table of n
  joins,       \* joins[n]: handshake notifications queued for the handler
  net,         \* net[n][p]: packets n sent to p that p has not handled
  ballots,     \* history: <<voter, term, candidate>> of every vote given
  elections,   \* history: every election won, with its voters
  used         \* how much of each bound is used up

vars == <<alive, es, pc, members, leftEvents, conns, joins, net, ballots,
          elections, used>>

Message ==
  [type : {"RequestVote", "Heartbeat"}, term : Nat]
    \cup [type : {"VoteResponse"}, term : Nat, granted : BOOLEAN]
    \cup [type : {"LeaderAssign"}, term : Nat, leader : Node]
    \cup [type : {"PeerLeave"}]

PeerStatus == {"absent", "Connected", "Disconnected"}

TaskState == [handler : {"idle", "announce"},
              timer   : {"idle", "elect", "check", "announce"},
              beat    : {"idle", "send"}]

IdleTasks == [handler |-> "idle", timer |-> "idle", beat |-> "idle"]

Won == [term : Nat, leader : Node, voters : SUBSET Node, total : Nat]

Used == [assigns : Nat, toggles : Nat, disruptions : Nat, connects : Nat,
         restarts : Nat]

-----------------------------------------------------------------------------
(* Membership, src/membership.rs.                                          *)

\* get_connected_peer_count
ConnectedCount(n) == Cardinality({p \in Node : members[n][p] = "Connected"})

\* remove_peer: a Left event only when the peer was present.
RemovePeer(n, p) ==
  /\ members' = [members EXCEPT ![n][p] = "absent"]
  /\ leftEvents' = IF members[n][p] = "absent" THEN leftEvents
                   ELSE [leftEvents EXCEPT ![n] = Append(@, p)]

-----------------------------------------------------------------------------
(* Control channels, src/transport.rs: a bounded queue per peer that drops *)
(* what does not fit, in front of a TCP stream that keeps the order.       *)

\* try_send on the queue of a control channel.
Enqueue(q, m) == IF Len(q) < SendQueueCapacity THEN Append(q, m) ELSE q

\* transport.broadcast of an internal packet.
Broadcast(n, m) ==
  [net EXCEPT ![n] = [p \in Node |-> IF p \in conns[n]
                                       THEN Enqueue(net[n][p], m)
                                       ELSE net[n][p]]]

\* The heartbeat goes out to the connected peers with this node's id in it.
BroadcastHeartbeat(n) ==
  net' = Broadcast(n, [type |-> "Heartbeat", term |-> es[n].currentTerm])

\* The handler of n takes the first packet of the channel from p.
Take(p, n) == [net EXCEPT ![p][n] = Tail(@)]

\* It also answers p with send_to_peer.  The answer is lost when the
\* connection is gone.
TakeAndReply(p, n, m) ==
  [Take(p, n) EXCEPT ![n][p] = IF p \in conns[n] THEN Enqueue(@, m) ELSE @]

\* What the other end may have read of q by the time the channel is cut.
Cuts(q) == {SubSeq(q, 1, k) : k \in 0 .. Len(q)}

\* The channel between n and p is closed.  extra is what n still enqueued.
Sever(n, p, extra) ==
  /\ conns' = [conns EXCEPT ![n] = @ \ {p}, ![p] = @ \ {n}]
  /\ \E out \in Cuts(extra), in \in Cuts(net[p][n]) :
       net' = [net EXCEPT ![n][p] = out, ![p][n] = in]

\* The process of n ends, with `leave' broadcast before when it is shut down.
\* Every peer sees the channel close after some of what n sent; whatever was
\* on its way to n is gone.
Stop(n, sent) ==
  /\ alive' = alive \ {n}
  /\ es' = [es EXCEPT ![n] = NewElection(n \in AutoNodes)]
  /\ pc' = [pc EXCEPT ![n] = IdleTasks]
  /\ members' = [members EXCEPT ![n] = [p \in Node |-> "absent"]]
  /\ leftEvents' = [leftEvents EXCEPT ![n] = <<>>]
  /\ joins' = [joins EXCEPT ![n] = {}]
  /\ conns' = [p \in Node |-> IF p = n THEN {} ELSE conns[p] \ {n}]
  /\ \E k \in [Node -> 0 .. SendQueueCapacity] :
       net' = [m \in Node |-> [p \in Node |->
                CASE p = n            -> <<>>
                  [] m = n /\ p # n   -> SubSeq(sent[p], 1,
                                           IF k[p] < Len(sent[p]) THEN k[p]
                                           ELSE Len(sent[p]))
                  [] OTHER            -> net[m][p]]]
  /\ used' = [used EXCEPT !.disruptions = @ + 1]
  /\ UNCHANGED <<ballots, elections>>

-----------------------------------------------------------------------------
Init ==
  /\ alive = Node
  /\ es = [n \in Node |-> NewElection(n \in AutoNodes)]
  /\ pc = [n \in Node |-> IdleTasks]
  /\ members = [n \in Node |-> [p \in Node |->
                  IF p \in InitialConns[n] THEN "Connected" ELSE "absent"]]
  /\ leftEvents = [n \in Node |-> <<>>]
  /\ conns = InitialConns
  /\ joins = [n \in Node |-> {}]
  /\ net = [n \in Node |-> [p \in Node |-> <<>>]]
  /\ ballots = {}
  /\ elections = {}
  /\ used = [assigns |-> 0, toggles |-> 0, disruptions |-> 0,
             connects |-> 0, restarts |-> 0]

\* Actions that touch only the election state and the tasks of a node.
NetworkUnchanged ==
  UNCHANGED <<alive, members, leftEvents, conns, joins, used>>

\* What the history records of an election that n has just won.
Victory(n, voters) == [term |-> es'[n].currentTerm, leader |-> n,
                       voters |-> voters, total |-> 1 + ConnectedCount(n)]

-----------------------------------------------------------------------------
(* The election timer task.                                                *)

\* Mutated form: a node that is left alone does not elect itself.
BadElectionTimeout(n) ==
  /\ n \in alive
  /\ pc[n].timer = "idle"
  /\ es[n].role # "Leader" /\ es[n].auto /\ es[n].leaderId = None
  /\ conns[n] # {}
  /\ pc' = [pc EXCEPT ![n].timer = "elect"]
  /\ UNCHANGED <<es, net, ballots, elections>>
  /\ NetworkUnchanged

\* The timeout expired and nothing says that there is a leader.
ElectionTimeout(n) ==
  /\ n \in alive
  /\ pc[n].timer = "idle"
  /\ es[n].role # "Leader" /\ es[n].auto /\ es[n].leaderId = None
  /\ pc' = [pc EXCEPT ![n].timer = "elect"]
  /\ UNCHANGED <<es, net, ballots, elections>>
  /\ NetworkUnchanged

\* The call of start_election that follows, and the broadcast when it returns a
\* candidacy.  By now the state may have changed.
RunElection(n) ==
  /\ n \in alive /\ pc[n].timer = "elect"
  /\ es[n].currentTerm < MaxTerm
  /\ es' = [es EXCEPT ![n] = StartElection(es[n], n, ConnectedCount(n))]
  /\ net' = IF es'[n].role = "Candidate" /\ MayElect(es[n])
              THEN Broadcast(n, [type |-> "RequestVote",
                                 term |-> es'[n].currentTerm])
              ELSE net
  /\ pc' = [pc EXCEPT ![n].timer =
              IF es'[n].role = "Candidate" /\ MayElect(es[n])
                THEN "idle" ELSE "check"]
  /\ ballots' = IF MayElect(es[n])
                  THEN ballots \cup {<<n, es'[n].currentTerm, n>>}
                  ELSE ballots
  /\ elections' =
       IF MayElect(es[n]) /\ es'[n].role = "Leader"
         THEN elections \cup {Victory(n, {n})}
         ELSE elections
  /\ NetworkUnchanged

\* start_election returned None: is_leader() tells an election that was won by
\* one's own vote from one that was not held.
TimerCheck(n) ==
  /\ n \in alive /\ pc[n].timer = "check"
  /\ pc' = [pc EXCEPT ![n].timer =
              IF es[n].role = "Leader" THEN "announce" ELSE "idle"]
  /\ UNCHANGED <<es, net, ballots, elections>>
  /\ NetworkUnchanged

\* Then the leader announces itself.
TimerAnnounce(n) ==
  /\ n \in alive /\ pc[n].timer = "announce"
  /\ BroadcastHeartbeat(n)
  /\ pc' = [pc EXCEPT ![n].timer = "idle"]
  /\ UNCHANGED <<es, ballots, elections>>
  /\ NetworkUnchanged

-----------------------------------------------------------------------------
(* The heartbeat task: is_leader() and current_term() are two calls.       *)

HeartbeatTick(n) ==
  /\ n \in alive
  /\ pc[n].beat = "idle"
  /\ es[n].role = "Leader"
  /\ \A p \in conns[n] : Len(net[n][p]) < BeatBacklog
  /\ pc' = [pc EXCEPT ![n].beat = "send"]
  /\ UNCHANGED <<es, net, ballots, elections>>
  /\ NetworkUnchanged

SendHeartbeat(n) ==
  /\ n \in alive /\ pc[n].beat = "send"
  /\ BroadcastHeartbeat(n)
  /\ pc' = [pc EXCEPT ![n].beat = "idle"]
  /\ UNCHANGED <<es, ballots, elections>>
  /\ NetworkUnchanged

-----------------------------------------------------------------------------
(* The message handler task: handle_message, one arm per message.          *)

\* The handler of n is about to process m, sent by p.
Handles(n, p, type) ==
  /\ n \in alive
  /\ pc[n].handler = "idle"
  /\ net[p][n] # <<>>
  /\ Head(net[p][n]).type = type

OnRequestVote(n, p) ==
  /\ Handles(n, p, "RequestVote")
  /\ LET t == Head(net[p][n]).term
         granted == GrantsVote(es[n], t, p)
     IN /\ es' = [es EXCEPT ![n] = HandleRequestVote(es[n], t, p)]
        /\ net' = TakeAndReply(p, n, [type |-> "VoteResponse",
                                      term |-> es'[n].currentTerm,
                                      granted |-> granted])
        /\ ballots' = IF granted THEN ballots \cup {<<n, t, p>>} ELSE ballots
  /\ UNCHANGED <<pc, elections>>
  /\ NetworkUnchanged

OnVoteResponse(n, p) ==
  /\ Handles(n, p, "VoteResponse")
  /\ LET m == Head(net[p][n])
         voters == IF m.granted THEN es[n].votes \cup {p} ELSE es[n].votes
     IN /\ es' = [es EXCEPT ![n] = HandleVoteResponse(es[n], n, m.term, p,
                                        m.granted, ConnectedCount(n))]
        /\ elections' = IF es'[n].role = "Leader" /\ es[n].role # "Leader"
                          THEN elections \cup {Victory(n, voters)}
                          ELSE elections
  /\ net' = Take(p, n)
  /\ pc' = IF es'[n].role = "Leader" /\ es[n].role # "Leader"
             THEN [pc EXCEPT ![n].handler = "announce"]
             ELSE pc
  /\ UNCHANGED ballots
  /\ NetworkUnchanged

\* The rest of the VoteResponse arm: the new leader reads its term again.
HandlerAnnounce(n) ==
  /\ n \in alive /\ pc[n].handler = "announce"
  /\ BroadcastHeartbeat(n)
  /\ pc' = [pc EXCEPT ![n].handler = "idle"]
  /\ UNCHANGED <<es, ballots, elections>>
  /\ NetworkUnchanged

\* The HeartbeatResponse only refreshes last_seen at the sender.
OnHeartbeat(n, p) ==
  /\ Handles(n, p, "Heartbeat")
  /\ es' = [es EXCEPT ![n] = HandleHeartbeat(es[n], n, Head(net[p][n]).term, p)]
  /\ net' = Take(p, n)
  /\ UNCHANGED <<pc, ballots, elections>>
  /\ NetworkUnchanged

OnLeaderAssign(n, p) ==
  /\ Handles(n, p, "LeaderAssign")
  /\ LET m == Head(net[p][n])
     IN es' = [es EXCEPT ![n] = HandleLeaderAssign(es[n], n, m.term, m.leader)]
  /\ net' = Take(p, n)
  /\ UNCHANGED <<pc, ballots, elections>>
  /\ NetworkUnchanged

OnPeerLeave(n, p) ==
  /\ Handles(n, p, "PeerLeave")
  /\ RemovePeer(n, p)
  /\ net' = Take(p, n)
  /\ UNCHANGED <<alive, es, pc, conns, joins, ballots, elections, used>>

\* The Handshake or HandshakeAck that registering a connection queued: the
\* peer is added, or its status restored, if it still is connected.
OnHandshake(n, p) ==
  /\ n \in alive /\ pc[n].handler = "idle" /\ p \in joins[n]
  /\ joins' = [joins EXCEPT ![n] = @ \ {p}]
  /\ members' = IF p \in conns[n]
                  THEN [members EXCEPT ![n][p] = "Connected"]
                  ELSE members
  /\ UNCHANGED <<alive, es, pc, leftEvents, conns, net, ballots, elections,
                 used>>

-----------------------------------------------------------------------------
(* The membership watcher.                                                 *)

OnLeft(n) ==
  /\ n \in alive
  /\ leftEvents[n] # <<>>
  /\ es' = [es EXCEPT ![n] = HandlePeerLeft(es[n], Head(leftEvents[n]))]
  /\ leftEvents' = [leftEvents EXCEPT ![n] = Tail(@)]
  /\ UNCHANGED <<alive, pc, members, conns, joins, net, ballots, elections,
                 used>>

-----------------------------------------------------------------------------
(* The ping task: a peer not heard of for too long is marked Disconnected  *)
(* and its connection is closed.                                           *)

\* p is silent because it is gone, or because the link is slow.
TimeoutOfLost(n, p) ==
  /\ n \in alive
  /\ members[n][p] = "Connected"
  /\ p \notin conns[n] /\ net[p][n] = <<>> /\ p \notin joins[n]
  /\ members' = [members EXCEPT ![n][p] = "Disconnected"]
  /\ UNCHANGED <<alive, es, pc, leftEvents, conns, joins, net, ballots,
                 elections, used>>

TimeoutOfSlow(n, p) ==
  /\ n \in alive
  /\ members[n][p] = "Connected"
  /\ p \in conns[n]
  /\ used.disruptions < MaxDisruptions
  /\ members' = [members EXCEPT ![n][p] = "Disconnected"]
  /\ Sever(n, p, Enqueue(net[n][p], [type |-> "PeerLeave"]))
  /\ used' = [used EXCEPT !.disruptions = @ + 1]
  /\ UNCHANGED <<alive, es, pc, leftEvents, joins, ballots, elections>>

-----------------------------------------------------------------------------
(* Calls of the application, src/ffi.rs.                                   *)

CallSetLeader(n, l) ==
  /\ n \in alive /\ l \in Assignable
  /\ used.assigns < MaxAssigns /\ es[n].currentTerm < MaxTerm
  /\ es' = [es EXCEPT ![n] = SetLeader(es[n], n, l)]
  /\ net' = Broadcast(n, [type |-> "LeaderAssign",
                          term |-> es'[n].currentTerm, leader |-> l])
  /\ used' = [used EXCEPT !.assigns = @ + 1]
  /\ UNCHANGED <<alive, pc, members, leftEvents, conns, joins, ballots,
                 elections>>

CallEnableAuto(n) ==
  /\ n \in alive
  /\ used.toggles < MaxToggles
  /\ \E enable \in BOOLEAN :
       es' = [es EXCEPT ![n] = EnableAutoElection(es[n], enable)]
  /\ used' = [used EXCEPT !.toggles = @ + 1]
  /\ UNCHANGED <<alive, pc, members, leftEvents, conns, joins, net, ballots,
                 elections>>

CallDisconnectPeer(n, p) ==
  /\ n \in alive /\ p # n
  /\ used.disruptions < MaxDisruptions
  /\ IF p \in conns[n]
       THEN Sever(n, p, Enqueue(net[n][p], [type |-> "PeerLeave"]))
       ELSE UNCHANGED <<conns, net>>
  /\ RemovePeer(n, p)
  /\ used' = [used EXCEPT !.disruptions = @ + 1]
  /\ UNCHANGED <<alive, es, pc, joins, ballots, elections>>

-----------------------------------------------------------------------------
(* The environment: connections made and lost, processes that end.         *)

Connect(n, p) ==
  /\ n \in alive /\ p \in alive /\ n # p
  /\ p \notin conns[n]
  /\ used.connects < MaxConnects
  /\ conns' = [conns EXCEPT ![n] = @ \cup {p}, ![p] = @ \cup {n}]
  /\ joins' = [joins EXCEPT ![n] = @ \cup {p}, ![p] = @ \cup {n}]
  /\ used' = [used EXCEPT !.connects = @ + 1]
  /\ UNCHANGED <<alive, es, pc, members, leftEvents, net, ballots, elections>>

LinkLost(n, p) ==
  /\ p \in conns[n]
  /\ used.disruptions < MaxDisruptions
  /\ Sever(n, p, net[n][p])
  /\ used' = [used EXCEPT !.disruptions = @ + 1]
  /\ UNCHANGED <<alive, es, pc, members, leftEvents, joins, ballots, elections>>

\* NetworkState::shutdown: PeerLeave is broadcast and the queues drained for
\* at most a second before the tasks are cancelled.
Shutdown(n) ==
  /\ n \in alive
  /\ used.disruptions < MaxDisruptions
  /\ Stop(n, Broadcast(n, [type |-> "PeerLeave"])[n])

Crash(n) ==
  /\ n \in alive
  /\ used.disruptions < MaxDisruptions
  /\ Stop(n, net[n])

\* Nothing is persisted: the process starts from LeaderElection::new.
Restart(n) ==
  /\ n \notin alive
  /\ used.restarts < MaxRestarts
  /\ alive' = alive \cup {n}
  /\ used' = [used EXCEPT !.restarts = @ + 1]
  /\ UNCHANGED <<es, pc, members, leftEvents, conns, joins, net, ballots,
                 elections>>

-----------------------------------------------------------------------------
TaskStep(n) ==
  \/ ElectionTimeout(n) \/ RunElection(n) \/ TimerCheck(n)
  \/ TimerAnnounce(n)
  \/ HeartbeatTick(n) \/ SendHeartbeat(n) \/ HandlerAnnounce(n) \/ OnLeft(n)

HandlerStep(n, p) ==
  \/ OnRequestVote(n, p) \/ OnVoteResponse(n, p) \/ OnHeartbeat(n, p)
  \/ OnLeaderAssign(n, p) \/ OnPeerLeave(n, p) \/ OnHandshake(n, p)
  \/ TimeoutOfLost(n, p)

EnvironmentStep(n, p) ==
  \/ TimeoutOfSlow(n, p) \/ CallSetLeader(n, p) \/ CallDisconnectPeer(n, p)
  \/ Connect(n, p) \/ LinkLost(n, p)

ProcessStep(n) ==
  \/ CallEnableAuto(n) \/ Shutdown(n) \/ Crash(n) \/ Restart(n)

Next ==
  \E n \in Node :
    \/ TaskStep(n)
    \/ ProcessStep(n)
    \/ \E p \in Node : HandlerStep(n, p) \/ EnvironmentStep(n, p)

Spec == Init /\ [][Next]_vars

\* The tasks keep running while the process does: tokio polls every spawned
\* task, the timers fire again and again, and a queued packet is delivered
\* while the connection lasts.  Nothing of the application or the
\* environment is assumed.
Fairness ==
  \A n \in Node :
    /\ WF_vars(ElectionTimeout(n)) /\ WF_vars(RunElection(n))
    /\ WF_vars(TimerCheck(n))
    /\ WF_vars(TimerAnnounce(n)) /\ WF_vars(HandlerAnnounce(n))
    /\ WF_vars(HeartbeatTick(n)) /\ WF_vars(SendHeartbeat(n))
    /\ WF_vars(OnLeft(n))
    /\ \A p \in Node : WF_vars(HandlerStep(n, p))

FairSpec == Spec /\ Fairness

-----------------------------------------------------------------------------
(* Properties.                                                             *)

\* Every variable has the shape the code gives it.
TypeOK ==
  /\ alive \subseteq Node
  /\ es \in [Node -> ElectionState]
  /\ pc \in [Node -> TaskState]
  /\ members \in [Node -> [Node -> PeerStatus]]
  /\ leftEvents \in [Node -> Seq(Node)]
  /\ conns \in [Node -> SUBSET Node]
  /\ joins \in [Node -> SUBSET Node]
  /\ net \in [Node -> [Node -> Seq(Message)]]
  /\ ballots \subseteq Node \X Nat \X Node
  /\ elections \subseteq Won
  /\ used \in Used

\* The three facts about one node that RoleConsistent states of all.
RoleOK(s, n) ==
  /\ s.role = "Leader" => s.leaderId = n
  /\ s.role = "Candidate" => s.votedFor = n /\ n \in s.votes /\ ~s.manual
  /\ s.role # "Candidate" => s.votes = {}

\* A node that acts as leader (it sends heartbeats, IsLeader() is true) tells
\* the application that it is the leader (GetCurrentLeader()), whatever
\* messages, assignments and departures interleave.  A candidate still has
\* its own vote and is never under a manual override, and only a candidate
\* holds votes, so no vote of an earlier candidacy counts for a later one.
RoleConsistent == \A n \in Node : RoleOK(es[n], n)

\* handle_request_vote gives the vote of a term to one candidate only.
VoteOnce ==
  \A b, c \in ballots : b[1] = c[1] /\ b[2] = c[2] => b[3] = c[3]

\* Every vote that is counted or on its way was given, in that term and to
\* that candidate: handle_vote_response never counts an answer to an older
\* request.  Every election was won with the votes it needed.
VotesBacked ==
  /\ \A v, c \in Node : \A i \in 1 .. Len(net[v][c]) :
       LET m == net[v][c][i]
       IN m.type = "VoteResponse" /\ m.granted => <<v, m.term, c>> \in ballots
  /\ \A c \in Node : \A v \in es[c].votes :
       <<v, es[c].currentTerm, c>> \in ballots
  /\ \A e \in elections :
       /\ Wins(e.voters, e.total - 1)
       /\ \A v \in e.voters : <<v, e.term, e.leader>> \in ballots

\* A running node remembers its vote for as long as its term lasts.
BallotRemembered ==
  \A b \in ballots :
    b[1] \in alive =>
      \/ b[2] < es[b[1]].currentTerm
      \/ b[2] = es[b[1]].currentTerm /\ es[b[1]].votedFor = b[3]

\* Two elections of one term that both counted every node of a session of
\* three or more have the same winner.
ElectionSafety ==
  \A e, f \in elections :
    /\ e.term = f.term
    /\ e.total = Cardinality(Node) /\ f.total = Cardinality(Node)
    /\ Cardinality(Node) > 2
    => e.leader = f.leader

\* The election implements its abstract specification: whatever messages are
\* late, lost or crossed, votes go into the box in the order of their terms and
\* once per term, none is taken back, and an election is won with votes that
\* are in it (handle_request_vote, handle_vote_response, start_election).
Box == INSTANCE BallotBox WITH votes <- ballots, wins <- elections
ImplementsBox == Box!Spec

\* The term of a running process never goes back: every handler that stores
\* a term stores a higher one.
TermsGrow ==
  [][\A n \in alive \cap alive' : es'[n].currentTerm >= es[n].currentTerm]_vars

\* n handles a LeaderAssign in this step.
TakesAssign(n) ==
  \E p \in Node : /\ net[p][n] # <<>>
                  /\ Head(net[p][n]).type = "LeaderAssign"
                  /\ net'[p][n] = Tail(net[p][n])

\* Under a manual override the known leader changes only through SetLeader, a
\* LeaderAssign or the departure of that leader: no election, heartbeat or
\* vote, in any order, replaces it.
ManualLeaderHolds ==
  [][\A n \in alive \cap alive' :
       /\ es[n].manual /\ es[n].leaderId # None
       /\ es'[n].leaderId # es[n].leaderId
       => \/ used'.assigns > used.assigns
          \/ TakesAssign(n)
          \/ es'[n].leaderId = None]_vars

\* In a session of two, where one's own vote is enough, a node that knows of
\* no leader and may elect one does not stay without: neither a departure,
\* a manual leader that left, nor a vote or heartbeat on its way prevents it.
LeaderlessEnds ==
  \A n \in Node :
    (n \in alive /\ MayElect(es[n]) /\ es[n].leaderId = None)
    ~> (n \notin alive \/ ~MayElect(es[n]) \/ es[n].leaderId # None)

\* "this gives deterministic convergence": two nodes that stay connected end
\* up with the same leader for good, and that leader knows it.
Agreement ==
  \E l \in Node : \A n \in Node :
    /\ es[n].leaderId = l
    /\ es[n].role = IF n = l THEN "Leader" ELSE "Follower"
EventuallyAgree == <>[]Agreement

\* A manually chosen host is not displaced by an automatic election: it stays
\* leader as long as the override and its own leader_id stand.
ManualLeaderStays ==
  [][\A n \in alive \cap alive' :
       /\ es[n].manual /\ es[n].leaderId = n /\ es[n].role = "Leader"
       /\ es'[n].manual /\ es'[n].leaderId = n
       => es'[n].role = "Leader"]_vars

\* A node whose leader became unresponsive does not keep that leader forever.
LostLeaderReplaced ==
  \A n, l \in Node :
    (/\ n \in alive /\ MayElect(es[n])
     /\ es[n].leaderId = l /\ members[n][l] = "Disconnected")
    ~> (n \notin alive \/ es[n].leaderId # l \/ members[n][l] = "Connected")
=============================================================================
