-------------------------------- MODULE Events ---------------------------------
(***************************************************************************)
(* How one node tells its application what changes: the known leader       *)
(* (src/leader.rs), the status of the peers (src/membership.rs) and the    *)
(* reconnections (src/transport.rs).  A task changes the state under a     *)
(* lock and reports the change after it has released it; the reports pass  *)
(* a bounded channel, a watcher task of src/lib.rs and the bounded queue   *)
(* of the callback thread (src/callback.rs).                               *)
(*                                                                         *)
(* The election and the connections decide when a leader is named and when *)
(* a link is lost (Election, Peering); here any peer may be named or lost. *)
(***************************************************************************)
EXTENDS Naturals, Sequences, FiniteSets

CONSTANTS
  Peer,        \* the other peers
  Self,        \* the local peer
  Flaky,       \* bound: the only peer whose connection is ever lost
  LeaderCap,   \* capacity of the leader-change channel (16)
  RingCap,     \* capacity of the membership broadcast (256)
  ReconnectCap,\* capacity of the reconnect channel (16)
  QueueCap,    \* capacity of the callback queue (1024)
  MaxChanges   \* bound: changes of the leader, of a status or of a link

ASSUME EventsAssumption ==
  /\ IsFiniteSet(Peer) /\ Self \notin Peer /\ Flaky \in Peer
  /\ "nothing" \notin Peer \cup {Self}   \* the mark of a topic not heard of
  /\ LeaderCap \in Nat \ {0} /\ RingCap \in Nat \ {0}
  /\ ReconnectCap \in Nat \ {0} /\ QueueCap \in Nat \ {0}
  /\ MaxChanges \in Nat

VARIABLES
  leader,   \* leader_id
  status,   \* status[p]: the status of p in the membership table
  link,     \* the connection of Flaky, and its reconnect tasks
  todo,     \* todo[t]: the reports task t has still to make, in order
  due,      \* the peer the ping task found timed out
  chan,     \* the channels, and the callback queue
  lagged,   \* the membership watcher has missed events
  seen,     \* seen[k]: the last value the application heard of topic k
  lost,     \* history: topics of which a report was dropped
  crossed,  \* history: topics changed while another task owed a report
  changes   \* changes made so far

vars == <<leader, status, link, todo, due, chan, lagged, seen, lost, crossed,
          changes>>

Nobody == "nobody"
Leader == <<"leader", Self>>
Task == {"handler", "timer", "app", "ping", "watcher"}
Status == {"absent", "Connected", "Disconnected"}

\* Topics: the leader, the status of p, the reconnections.
StatusOf(p) == <<"status", p>>
Reconnect == <<"reconnect", Flaky>>
Topics == {Leader, Reconnect} \cup {StatusOf(p) : p \in Peer}

\* A report, and the channel that takes it.
Channel == {"leader", "ring", "reconnect", "callback"}
Capacity == [leader |-> LeaderCap, ring |-> RingCap,
             reconnect |-> ReconnectCap, callback |-> QueueCap]
Says(k, v) == [topic |-> k, value |-> v]
To(c, r) == [to |-> c, report |-> r]

Value == Peer \cup {Self, Nobody} \cup Status \cup {"left"} \cup
         {"retrying", "back", "failed"}

Range(f) == {f[x] : x \in DOMAIN f}

\* up: the connection is registered; retrying: reconnect tasks at work;
\* returned: reconnect tasks that succeeded and have not said so yet.
Link == [up : BOOLEAN, retrying : 0 .. MaxChanges, returned : 0 .. MaxChanges]
Connected == [up |-> TRUE, retrying |-> 0, returned |-> 0]

Init ==
  /\ leader = Nobody
  /\ status = [p \in Peer |-> "absent"]
  /\ link = Connected
  /\ todo = [t \in Task |-> <<>>]
  /\ due = Nobody
  /\ chan = [c \in Channel |-> <<>>]
  /\ lagged = FALSE
  /\ seen = [k \in Topics |-> "nothing"]
  /\ lost = {} /\ crossed = {}
  /\ changes = 0

-----------------------------------------------------------------------------
(* The channels.                                                           *)

\* Mutated form: a channel without a bound.
BadSend(c, r) ==
  /\ chan' = [chan EXCEPT ![c] = Append(@, r)]
  /\ UNCHANGED <<lost, lagged>>

\* try_send: a full mpsc channel drops the newest report.  The broadcast ring
\* of the membership drops the oldest, and tells its receiver.
Send(c, r) ==
  LET full == Len(chan[c]) = Capacity[c]
      gone == IF ~full THEN {} ELSE IF c = "ring" THEN {chan[c][1]} ELSE {r}
  IN /\ chan' = [chan EXCEPT ![c] =
                   IF ~full THEN Append(@, r)
                   ELSE IF c = "ring" THEN Append(Tail(@), r) ELSE @]
     /\ lost' = lost \cup {g.topic : g \in gone}
     /\ lagged' = (lagged \/ (full /\ c = "ring"))

\* A watcher takes the next report of channel c and queues v for the callback
\* thread.
Forward(c, v) ==
  LET r == Says(Head(chan[c]).topic, v)
      full == Len(chan["callback"]) = QueueCap
  IN /\ chan' = [chan EXCEPT ![c] = Tail(@),
                             !["callback"] = IF full THEN @ ELSE Append(@, r)]
     /\ lost' = IF full THEN lost \cup {r.topic} ELSE lost

\* Task t makes the next report it owes.
Report(t) ==
  /\ todo[t] # <<>>
  /\ Send(Head(todo[t]).to, Head(todo[t]).report)
  /\ todo' = [todo EXCEPT ![t] = Tail(@)]
  /\ UNCHANGED <<leader, status, link, due, seen, crossed, changes>>

\* Another task has changed topic k, or is about to report an old change of it.
\* The watcher's own status reports follow the order of the broadcast.
Owed(t, k) ==
  \E u \in Task \ {t} : \E j \in DOMAIN todo[u] :
    todo[u][j].report.topic = k /\ (u = "watcher" => k = Leader)

\* Task t changed topic k and owes the reports rs.
Changed(t, k, rs) ==
  /\ todo' = [todo EXCEPT ![t] = @ \o rs]
  /\ crossed' = IF Owed(t, k) THEN crossed \cup {k} ELSE crossed

Count == changes < MaxChanges /\ changes' = changes + 1

-----------------------------------------------------------------------------
(* The leader, src/leader.rs.                                              *)

\* handle_heartbeat, handle_leader_assign (the message handler) and set_leader
\* (the application) name a leader and report it when it is another one.
NameLeader(t, l) ==
  /\ t \in {"handler", "app"} /\ todo[t] = <<>>
  /\ l # leader /\ Count
  /\ leader' = l
  /\ Changed(t, Leader, <<To("leader", Says(Leader, l))>>)
  /\ UNCHANGED <<status, link, due, chan, lagged, seen, lost>>

\* Mutated form: the callback queue is written to without the channel.
BadBecomeLeader ==
  /\ Count
  /\ leader' = Self
  /\ Send("callback", Says(Leader, Self))
  /\ Changed("timer", Leader, <<>>)
  /\ UNCHANGED <<status, link, due, seen>>

\* become_leader_inner reports while it holds the lock; the election timer or
\* the message handler called it.
BecomeLeader ==
  /\ Count
  /\ leader' = Self
  /\ Send("leader", Says(Leader, Self))
  /\ Changed("timer", Leader, <<>>)
  /\ UNCHANGED <<status, link, due, seen>>

-----------------------------------------------------------------------------
(* The membership, src/membership.rs.                                      *)

\* add_peer, or update_status when the peer is known, which takes the lock
\* again.  What changes in between comes to the same: if p is removed, nothing
\* happens here and this step is not taken; if it times out, the timeout comes
\* first.  A known peer that is Connected already is no change.
AddPeer(p) ==
  /\ todo["handler"] = <<>>
  /\ status[p] # "Connected" /\ Count
  /\ status' = [status EXCEPT ![p] = "Connected"]
  /\ Changed("handler", StatusOf(p), <<To("ring", Says(StatusOf(p), "Connected"))>>)
  /\ UNCHANGED <<leader, link, due, chan, lagged, seen, lost>>

\* remove_peer, for a PeerLeave or for DisconnectPeer.
RemovePeer(t, p) ==
  /\ t \in {"handler", "app"} /\ todo[t] = <<>>
  /\ status[p] # "absent" /\ Count
  /\ status' = [status EXCEPT ![p] = "absent"]
  /\ Changed(t, StatusOf(p), <<To("ring", Says(StatusOf(p), "left"))>>)
  /\ UNCHANGED <<leader, link, due, chan, lagged, seen, lost>>

\* The ping task: check_timeouts finds p.
FindTimeout(p) ==
  /\ todo["ping"] = <<>> /\ due = Nobody
  /\ status[p] = "Connected" /\ Count
  /\ due' = p
  /\ UNCHANGED <<leader, status, link, todo, chan, lagged, seen, lost, crossed>>

\* Mutated form: the application is told before the table is changed.
BadMarkTimeout ==
  LET p == due
  IN /\ p # Nobody /\ due' = Nobody
     /\ status' = [status EXCEPT ![p] = IF @ = "Connected" THEN "Disconnected" ELSE @]
     /\ Changed("ping", StatusOf(p),
                <<To("callback", Says(StatusOf(p), "Disconnected"))>>)
     /\ UNCHANGED <<leader, link, chan, lagged, seen, lost, changes>>

\* update_status reports if p is still Connected; the ping task then tells the
\* application itself, past the broadcast, whatever it found.
MarkTimeout ==
  LET p == due
      r == Says(StatusOf(p), "Disconnected")
  IN /\ p # Nobody
     /\ due' = Nobody
     /\ status' = [status EXCEPT ![p] = IF @ = "Connected" THEN "Disconnected" ELSE @]
     /\ Changed("ping", StatusOf(p),
                (IF status[p] = "Connected" THEN <<To("ring", r)>> ELSE <<>>)
                  \o <<To("callback", r)>>)
     /\ UNCHANGED <<leader, link, chan, lagged, seen, lost, changes>>

-----------------------------------------------------------------------------
(* The watchers of src/lib.rs.                                             *)

WatchLeader ==
  /\ chan["leader"] # <<>>
  /\ Forward("leader", Head(chan["leader"]).value)
  /\ UNCHANGED <<leader, status, link, todo, due, lagged, seen, crossed, changes>>

\* Joined and StatusChanged.
WatchStatus ==
  /\ chan["ring"] # <<>> /\ ~lagged /\ todo["watcher"] = <<>>
  /\ Head(chan["ring"]).value # "left"
  /\ Forward("ring", Head(chan["ring"]).value)
  /\ UNCHANGED <<leader, status, link, todo, due, lagged, seen, crossed, changes>>

\* Left: handle_peer_left forgets a leader that left and reports that, then the
\* application is told of the peer.
WatchLeft ==
  LET k == Head(chan["ring"]).topic
      told == To("callback", Says(k, "Disconnected"))
      forget == leader = k[2]
  IN /\ chan["ring"] # <<>> /\ ~lagged /\ todo["watcher"] = <<>>
     /\ Head(chan["ring"]).value = "left"
     /\ chan' = [chan EXCEPT !["ring"] = Tail(@)]
     /\ leader' = IF forget THEN Nobody ELSE leader
     /\ crossed' = IF forget /\ Owed("watcher", Leader)
                     THEN crossed \cup {Leader} ELSE crossed
     /\ todo' = [todo EXCEPT !["watcher"] =
                   (IF forget THEN <<To("leader", Says(Leader, Nobody))>> ELSE <<>>)
                     \o <<told>>]
     /\ UNCHANGED <<status, link, due, lagged, seen, lost, changes>>

\* RecvError::Lagged is logged, and the oldest event still there comes next.
WatchLag ==
  /\ lagged /\ todo["watcher"] = <<>>
  /\ lagged' = FALSE
  /\ UNCHANGED <<leader, status, link, todo, due, chan, seen, lost, crossed,
                 changes>>

WatchReconnect ==
  /\ chan["reconnect"] # <<>>
  /\ Forward("reconnect", Head(chan["reconnect"]).value)
  /\ UNCHANGED <<leader, status, link, todo, due, lagged, seen, crossed, changes>>

\* The callback thread calls the application.
Callback ==
  LET r == Head(chan["callback"])
  IN /\ chan["callback"] # <<>>
     /\ seen' = [seen EXCEPT ![r.topic] = r.value]
     /\ chan' = [chan EXCEPT !["callback"] = Tail(@)]
     /\ UNCHANGED <<leader, status, link, todo, due, lagged, lost, crossed, changes>>

-----------------------------------------------------------------------------
(* Reconnection, src/transport.rs.                                         *)

ReconnectUnchanged == UNCHANGED <<leader, status, todo, due, seen, crossed>>

\* The read task ends: it reports and starts a reconnect task, or does
\* neither when should_reconnect or auto_reconnect_enabled is off.
LinkLost ==
  /\ link.up /\ Count
  /\ \/ /\ Send("reconnect", Says(Reconnect, "retrying"))
        /\ link' = [link EXCEPT !.up = FALSE, !.retrying = @ + 1]
     \/ /\ link' = [link EXCEPT !.up = FALSE]
        /\ UNCHANGED <<chan, lost, lagged>>
  /\ ReconnectUnchanged

\* The peer, or the application, connects again.
LinkBack ==
  /\ ~link.up /\ Count
  /\ link' = [link EXCEPT !.up = TRUE]
  /\ UNCHANGED <<chan, lost, lagged>>
  /\ ReconnectUnchanged

\* connect_to of a reconnect task succeeds; the link may be lost again before
\* the task reports it.
RetrySucceeds ==
  /\ link.retrying > 0 /\ ~link.up
  /\ link' = [link EXCEPT !.up = TRUE, !.retrying = @ - 1,
                          !.returned = @ + 1]
  /\ UNCHANGED <<chan, lost, lagged, changes>>
  /\ ReconnectUnchanged

ReportBack ==
  /\ link.returned > 0
  /\ link' = [link EXCEPT !.returned = @ - 1]
  /\ Send("reconnect", Says(Reconnect, "back"))
  /\ UNCHANGED changes
  /\ ReconnectUnchanged

\* The attempts are used up, AlreadyConnected counting as a failure like any
\* other, or auto_reconnect_enabled was switched off.
GiveUp ==
  /\ link.retrying > 0
  /\ link' = [link EXCEPT !.retrying = @ - 1]
  /\ Send("reconnect", Says(Reconnect, "failed"))
  /\ UNCHANGED changes
  /\ ReconnectUnchanged

-----------------------------------------------------------------------------

Next ==
  \/ \E t \in Task : Report(t)
  \/ \E t \in Task : \E l \in Peer \cup {Self} : NameLeader(t, l)
  \/ BecomeLeader
  \/ \E p \in Peer : AddPeer(p)
  \/ \E t \in Task : \E p \in Peer : RemovePeer(t, p)
  \/ \E p \in Peer : FindTimeout(p)
  \/ MarkTimeout
  \/ WatchLeader \/ WatchStatus \/ WatchLeft \/ WatchLag \/ WatchReconnect
  \/ Callback
  \/ LinkLost \/ LinkBack \/ RetrySucceeds \/ ReportBack \/ GiveUp

Spec == Init /\ [][Next]_vars

\* Every task of the runtime and the callback thread get their turn; what the
\* peers and the application do is not assumed.
Fairness ==
  /\ \A t \in Task : WF_vars(Report(t))
  /\ WF_vars(MarkTimeout) /\ WF_vars(WatchLeader) /\ WF_vars(WatchReconnect)
  /\ WF_vars(WatchStatus \/ WatchLeft \/ WatchLag)
  /\ WF_vars(Callback)

FairSpec == Spec /\ Fairness

-----------------------------------------------------------------------------
(* Properties.                                                             *)

Reports == [topic : Topics, value : Value]

\* Types, and no channel of NetworkState::new ever holds more than it was
\* made for.
TypeOK ==
  /\ leader \in Peer \cup {Self, Nobody} /\ due \in Peer \cup {Nobody}
  /\ status \in [Peer -> Status] /\ link \in Link
  /\ \A t \in Task : Range(todo[t]) \subseteq [to : Channel, report : Reports]
  /\ \A c \in Channel : /\ Len(chan[c]) <= Capacity[c]
                        /\ Range(chan[c]) \subseteq Reports
  /\ lagged \in BOOLEAN /\ changes \in 0 .. MaxChanges
  /\ seen \in [Topics -> Value \cup {"nothing"}]
  /\ lost \subseteq Topics /\ crossed \subseteq Topics

\* Nothing about topic k is on its way.
Settled(k) ==
  /\ \A t \in Task : \A j \in DOMAIN todo[t] : todo[t][j].report.topic # k
  /\ \A c \in Channel : \A j \in DOMAIN chan[c] : chan[c][j].topic # k

\* What the application should believe about the leader and about p.
Heard(k) == IF k = Leader /\ seen[k] = "nothing" THEN Nobody ELSE seen[k]
Present(p) == seen[StatusOf(p)] = "Connected"

\* When nothing about it is on its way, no report of it was dropped and no two
\* tasks reported changes of it at once, the application knows the leader of
\* src/leader.rs and which peers src/membership.rs counts as Connected: the
\* short cut of the ping task past the broadcast does no harm.
QuietAccurate ==
  /\ Settled(Leader) /\ Leader \notin lost \cup crossed => Heard(Leader) = leader
  /\ \A p \in Peer :
       Settled(StatusOf(p)) /\ StatusOf(p) \notin lost \cup crossed
         => (Present(p) <=> status[p] = "Connected")

\* The Left event of p is still to come to the watcher.
Leaving(p) ==
  LET left == Says(StatusOf(p), "left")
  IN \/ \E t \in Task : To("ring", left) \in Range(todo[t])
     \/ left \in Range(chan["ring"])

\* The watcher of src/lib.rs "notifies the leader election module when a peer
\* leaves so it can detect leader loss": the leader that left is forgotten, or
\* another one is known.  (Nobody else clears it: the election timer does nothing
\* while leader_id is set.)
DepartedLeaderForgotten ==
  \A p \in Peer : (Leaving(p) /\ leader = p) ~> leader # p

\* What is on its way to the application about k, oldest first: the values in the
\* callback queue, then those in the channel before it.
AboutUpTo(s, k) ==
  LET f[i \in 0 .. Len(s)] ==   \* the values of k among the first i reports of s
        IF i = 0 THEN <<>>
        ELSE IF s[i].topic = k THEN Append(f[i - 1], s[i].value) ELSE f[i - 1]
  IN f
About(s, k) == AboutUpTo(s, k)[Len(s)]
OnTheWay(k) ==
  About(chan["callback"], k) \o About(chan["leader"], k) \o About(chan["reconnect"], k)

LeaderFeed == INSTANCE EventFeed
                WITH pending <- OnTheWay(Leader), heard <- seen[Leader]
ReconnectFeed == INSTANCE EventFeed
                   WITH pending <- OnTheWay(Reconnect), heard <- seen[Reconnect]

\* The reports of the leader and of the reconnections reach the application as
\* EventFeed promises: in order, at most once, possibly not at all.
FeedInOrder == LeaderFeed!Spec /\ ReconnectFeed!Spec
=============================================================================
