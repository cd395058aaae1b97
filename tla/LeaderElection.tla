---------------------------- MODULE LeaderElection ----------------------------
(***************************************************************************)
(* The handlers of `LeaderElection` (src/leader.rs).  Each of them takes   *)
(* the write lock on `ElectionState`, changes it and releases the lock, so *)
(* each is an operator from the state of one node to its next state.       *)
(* Election.tla composes the handlers of several nodes with the network,   *)
(* the membership tables and the tasks of src/lib.rs that call them.       *)
(*                                                                         *)
(* Peer ids are compared as strings by the code; only their order matters, *)
(* so a node is a natural number.                                          *)
(***************************************************************************)
EXTENDS Naturals, FiniteSets

CONSTANTS
  Node,         \* the peer ids of the session
  None,         \* Option::None of `voted_for` and `leader_id`
  AutoElect     \* manual_override_recovery: TRUE is AutoElect, FALSE is Hold

ASSUME NodeAssumption == Node \subseteq Nat /\ IsFiniteSet(Node) /\ Node # {}
ASSUME NoneAssumption == None \notin Node
ASSUME RecoveryAssumption == AutoElect \in BOOLEAN

Role == {"Follower", "Candidate", "Leader"}

OptNode == Node \cup {None}

\* `ElectionState`, the fields in the order of the code.
ElectionState ==
  [ role         : Role,
    currentTerm  : Nat,
    votedFor     : OptNode,
    votes        : SUBSET Node,
    leaderId     : OptNode,
    auto         : BOOLEAN,
    manual       : BOOLEAN ]

-----------------------------------------------------------------------------
(* Mutated forms of the handlers below: what a plausible slip in           *)
(* src/leader.rs would have made of them.                                  *)

\* An empty id, which is the id of nobody, instead of no id.
BadNewElection(auto) ==
  [ role |-> "Follower", currentTerm |-> 0, votedFor |-> 0, votes |-> {},
    leaderId |-> None, auto |-> auto, manual |-> FALSE ]

\* Half of the nodes instead of more than half.
BadMajorityThreshold(total) == IF total <= 2 THEN 1 ELSE total \div 2

\* The leader's own id is not stored.
BadBecomeLeader(s, self) == [s EXCEPT !.role = "Leader", !.votes = {}]

\* voted_for is not consulted.
BadCanVote(s, c) == TRUE

\* An answer to an older request is counted.
BadHandleVoteResponse(s, self, t, voter, granted, count) ==
  IF s.role = "Candidate" /\ granted
    THEN [s EXCEPT !.votes = @ \cup {voter}]
    ELSE s

\* The override is not consulted.
BadOverridden(s, l) == FALSE

\* The term of the assignment replaces a higher one.
BadHandleLeaderAssign(s, self, t, l) ==
  [s EXCEPT !.currentTerm = t, !.leaderId = l, !.manual = TRUE,
            !.votedFor = None, !.votes = {},
            !.role = IF l = self THEN "Leader" ELSE "Follower"]

-----------------------------------------------------------------------------
\* LeaderElection::new
NewElection(auto) ==
  [ role |-> "Follower", currentTerm |-> 0, votedFor |-> None, votes |-> {},
    leaderId |-> None, auto |-> auto, manual |-> FALSE ]

MajorityThreshold(total) == IF total <= 2 THEN 1 ELSE total \div 2 + 1

\* become_leader_inner
BecomeLeader(s, self) ==
  [s EXCEPT !.role = "Leader", !.leaderId = self, !.votes = {}]

\* What handle_request_vote and handle_vote_response do on a higher term.
\* The known leader of the old term is kept.
Adopt(s, t) ==
  [s EXCEPT !.currentTerm = t, !.votedFor = None, !.role = "Follower",
            !.votes = {}]

\* The condition under which start_election goes ahead.
MayElect(s) == s.auto /\ ~s.manual

\* start_election up to the test of the threshold.
Candidacy(s, self) ==
  [s EXCEPT !.currentTerm = @ + 1, !.role = "Candidate", !.votedFor = self,
            !.votes = {self}]

\* Enough votes for a node that counts `count` connected peers.
Wins(votes, count) == Cardinality(votes) >= MajorityThreshold(1 + count)

\* The node becomes leader when it has enough votes.
Tally(s, self, count) ==
  IF Wins(s.votes, count) THEN BecomeLeader(s, self) ELSE s

\* start_election: the caller broadcasts RequestVote when the result is a
\* candidate, and a heartbeat when it is the leader.
StartElection(s, self, count) ==
  IF MayElect(s) THEN Tally(Candidacy(s, self), self, count) ELSE s

\* Raising the term is the first half of handle_request_vote.
AdoptIfHigher(s, t) == IF t > s.currentTerm THEN Adopt(s, t) ELSE s

CanVote(s, c) == s.votedFor = None \/ s.votedFor = c

\* handle_request_vote: the next state, and the answer (its term is the
\* term of the next state).
GrantsVote(s, t, c) ==
  t >= s.currentTerm /\ CanVote(AdoptIfHigher(s, t), c)

HandleRequestVote(s, t, c) ==
  IF t < s.currentTerm THEN s
  ELSE IF GrantsVote(s, t, c) THEN [AdoptIfHigher(s, t) EXCEPT !.votedFor = c]
  ELSE AdoptIfHigher(s, t)

\* handle_vote_response
HandleVoteResponse(s, self, t, voter, granted, count) ==
  IF t > s.currentTerm THEN Adopt(s, t)
  ELSE IF s.role # "Candidate" \/ t # s.currentTerm THEN s
  ELSE Tally(IF granted THEN [s EXCEPT !.votes = @ \cup {voter}] ELSE s,
             self, count)

\* Under the override a heartbeat of any other leader is refused.
Overridden(s, l) == s.manual /\ s.leaderId # None /\ s.leaderId # l

\* A leader that hears of another one gives way to a higher term, and in its
\* own term to the larger id.
GivesWay(s, self, t, l) == t > s.currentTerm \/ self < l

AcceptsHeartbeat(s, self, t, l) ==
  /\ t >= s.currentTerm
  /\ ~Overridden(s, l)
  /\ s.role = "Leader" => GivesWay(s, self, t, l)

\* handle_heartbeat
HandleHeartbeat(s, self, t, l) ==
  IF AcceptsHeartbeat(s, self, t, l)
    THEN [s EXCEPT !.currentTerm = t,
                   !.votedFor = IF t > s.currentTerm THEN None ELSE @,
                   !.role = "Follower",
                   !.votes = IF s.role = "Follower" THEN @ ELSE {},
                   !.leaderId = l]
    ELSE s

\* The part handle_leader_assign and set_leader have in common.
Assigned(s, self, l) ==
  [s EXCEPT !.leaderId = l, !.manual = TRUE, !.votedFor = None, !.votes = {},
            !.role = IF l = self THEN "Leader" ELSE "Follower"]

\* handle_leader_assign: an assignment is never refused, whatever its term.
HandleLeaderAssign(s, self, t, l) ==
  Assigned([s EXCEPT !.currentTerm = IF t > @ THEN t ELSE @], self, l)

\* set_leader
SetLeader(s, self, l) ==
  Assigned([s EXCEPT !.currentTerm = @ + 1], self, l)

\* enable_auto_election
EnableAutoElection(s, enable) ==
  [s EXCEPT !.auto = enable,
            !.manual = IF enable /\ s.leaderId = None THEN FALSE ELSE @]

\* handle_peer_left
HandlePeerLeft(s, p) ==
  IF s.leaderId = p
    THEN [s EXCEPT !.leaderId = None,
                   !.manual = IF AutoElect THEN FALSE ELSE @]
    ELSE s
=============================================================================
