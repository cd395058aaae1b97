--------------------------------- MODULE Mesh ----------------------------------
(***************************************************************************)
(* How a session becomes a full mesh: mDNS discovery (src/discovery.rs),   *)
(* the peer list an acceptor sends (src/transport.rs) and its handler      *)
(* (src/lib.rs), the calls of the application, and what brings a lost      *)
(* connection back.                                                        *)
(*                                                                         *)
(* Each end of a stream has its own task and each node its own table, as   *)
(* in Peering.  Here nobody times out or is disconnected by the            *)
(* application, auto_reconnect_enabled is on, the task that registers a    *)
(* connection notifies the handler in the same step, and a read task       *)
(* leaves its loop and cleans up in one step: Peering has all of that.     *)
(*                                                                         *)
(* Peer ids are compared as strings; only their order matters, so a node   *)
(* is a number.                                                            *)
(***************************************************************************)
EXTENDS Naturals, Sequences, FiniteSets

CONSTANTS
  Node,            \* the processes on the LAN
  Session,         \* Session[n]: the session n belongs to
  MaxConnections,  \* max_connections
  MaxRetries,      \* reconnect_max_retries, 0 for no limit
  Early,           \* bound: the nodes that run from the beginning
  Advertising,     \* bound: those of them whose service is registered
  Browsing,        \* bound: and those of these that browse
  Address,         \* bound: <<n, p>>, the application of n knows p's address
  MaxDials,        \* bound: connect_to calls of one pair of nodes
  MaxTrouble       \* bound: calls of ConnectToPeer, broken streams, late
                   \* answers and shutdowns

ASSUME MeshAssumption ==
  /\ IsFiniteSet(Node) /\ Node \subseteq Nat
  /\ DOMAIN Session = Node
  /\ MaxConnections \in Nat \ {0} /\ MaxRetries \in Nat
  /\ Early \subseteq Node /\ Advertising \subseteq Early /\ Browsing \subseteq Advertising
  /\ Address \subseteq Node \X Node
  /\ MaxDials \in Nat \ {0} /\ MaxTrouble \in Nat

VARIABLES
  up,          \* the nodes whose NetworkState exists
  gone,        \* the nodes that have shut down
  advertised,  \* the nodes whose service is registered
  browsing,    \* the nodes whose browse task runs
  found,       \* found[n]: the services resolved for n, in the browse channel
  dials,       \* dials[{n, p}]: calls of connect_to between n and p so far
  stream,      \* stream[s]: the connect_to call s and its TCP stream
  table,       \* table[n][p]: the PeerConnection of p at n
  inbox,       \* inbox[n]: incoming_rx of the message handler
  member,      \* member[n][p]: the status of p in the membership of n
  told,        \* history: pairs a peer list or the application has introduced
  hurt,        \* history: pairs whose connection or dial was taken away
  trouble      \* how many calls, faults and shutdowns there were

vars == <<up, gone, advertised, browsing, found, dials, stream, table, inbox, member,
          told, hurt, trouble>>

\* <<n, p, k>>: the k-th call of connect_to by n with p's address.
Stream == Node \X Node \X (1 .. MaxDials)
Pair == {{n, p} : n, p \in Node}
Side == {"con", "acc"}
End == Stream \X Side
EndState == {"closed", "calling", "hello", "acked", "listed", "open"}

Opposite(x) == IF x = "con" THEN "acc" ELSE "con"
OwnerOf(e) == IF e[2] = "con" THEN e[1][1] ELSE e[1][2]
PeerOf(e) == IF e[2] = "con" THEN e[1][2] ELSE e[1][1]

Answer == {"none", "ok", "already", "refused"}
\* A stream carries an answer and a peer list to the end that dialled, and a
\* PeerLeave to either; `tries' counts the attempts of a reconnect task, 0 for
\* any other caller.
StreamState == [end : [Side -> EndState], tries : Nat, answer : Answer,
                list : SUBSET Node, leaves : SUBSET Side, broken : BOOLEAN]
Free == [end |-> [x \in Side |-> "closed"], tries |-> 0, answer |-> "none",
         list |-> {}, leaves |-> {}, broken |-> FALSE]

Nowhere == <<>>
Entry == [at : End \cup {Nowhere}, reconnect : BOOLEAN]
NoEntry == [at |-> Nowhere, reconnect |-> FALSE]

Packet == [kind : {"join", "leave", "list"}, peer : Node, list : SUBSET Node]
PeerStatus == {"absent", "Connected"}

Init ==
  /\ up = Early /\ gone = {}
  /\ advertised = Advertising /\ browsing = Browsing
  /\ found = [n \in Node |-> IF n \in browsing THEN advertised ELSE {}]
  /\ dials = [d \in Pair |-> 0]
  /\ stream = [s \in Stream |-> Free]
  /\ table = [n \in Node |-> [p \in Node |-> NoEntry]]
  /\ inbox = [n \in Node |-> <<>>]
  /\ member = [n \in Node |-> [p \in Node |-> "absent"]]
  /\ told = {} /\ hurt = {}
  /\ trouble = 0

NodesUnchanged == UNCHANGED <<up, gone, advertised, browsing>>
Trouble == trouble < MaxTrouble /\ trouble' = trouble + 1

\* contains_key on the connection table.
Registered(n, p) == table[n][p].at # Nowhere

Full(n) == Cardinality({p \in Node : Registered(n, p)}) >= MaxConnections

-----------------------------------------------------------------------------
(* What a step does to the streams f.                                      *)

\* Nothing is left of a stream when both ends are closed.
Closed(f, e) ==
  LET r == [f[e[1]] EXCEPT !.end[e[2]] = "closed"]
  IN [f EXCEPT ![e[1]] = IF \A x \in Side : r.end[x] = "closed" THEN Free ELSE r]

\* Nobody dials.
Becomes(f) == stream' = f /\ UNCHANGED dials

Calling(t) == [Free EXCEPT !.end["con"] = "calling", !.tries = t]

\* A reconnect task of n calls connect_to, for the t-th time.
Redial(f, n, p, t) ==
  LET k == dials[{n, p}] + 1
  IN /\ k <= MaxDials
     /\ dials' = [dials EXCEPT ![{n, p}] = k]
     /\ stream' = [f EXCEPT ![<<n, p, k>>] = Calling(t)]

\* Tasks of n call connect_to for each of ps.
DialEach(n, ps) ==
  /\ \A p \in ps : dials[{n, p}] < MaxDials
  /\ dials' = [d \in Pair |-> IF \E p \in ps : d = {n, p} THEN dials[d] + 1 ELSE dials[d]]
  /\ stream' = [s \in Stream |->
                  IF s[1] = n /\ s[2] \in ps /\ s[3] = dials[{n, s[2]}] + 1
                    THEN Calling(0) ELSE stream[s]]

-----------------------------------------------------------------------------
(* src/discovery.rs.                                                       *)

\* NetworkState::new: the node listens.  Its discovery starts; or fails, or
\* registers the service and cannot browse, which is only logged.  The mDNS
\* daemons (external) resolve every service for every browser once, the own
\* one too.
Start(n) ==
  /\ n \notin up \cup gone
  /\ up' = up \cup {n}
  /\ \/ advertised' = advertised \cup {n} /\ browsing' = browsing \cup {n}
     \/ advertised' = advertised \cup {n} /\ UNCHANGED browsing
     \/ UNCHANGED <<advertised, browsing>>
  /\ found' = [m \in Node |->
                 IF m = n THEN IF n \in browsing' THEN advertised' ELSE {}
                 ELSE IF m \in browsing THEN found[m] \cup (advertised' \ advertised)
                 ELSE found[m]]
  /\ UNCHANGED <<gone, dials, stream, table, inbox, member, told, hurt, trouble>>

\* Neither tracked nor connected.
Unknown(n, p) == member[n][p] = "absent" /\ ~Registered(n, p)

\* should_connect_to_discovered_peer.
ShouldConnect(n, p) ==
  /\ Session[n] = Session[p]
  /\ n # p
  /\ Unknown(n, p)
  /\ n < p

\* The browse task takes a ServiceResolved and spawns connect_to.
Resolve(n, p) ==
  /\ p \in found[n]
  /\ found' = [found EXCEPT ![n] = @ \ {p}]
  /\ DialEach(n, IF ShouldConnect(n, p) THEN {p} ELSE {})
  /\ NodesUnchanged
  /\ UNCHANGED <<table, inbox, member, told, hurt, trouble>>

-----------------------------------------------------------------------------
(* connect_to.                                                             *)

\* ConnectToPeer of src/ffi.rs, with any address, the own one too.
CallConnect(n, p) ==
  /\ n \in up /\ <<n, p>> \in Address /\ Trouble
  /\ DialEach(n, {p})
  /\ told' = IF p \in up THEN told \cup {{n, p}} ELSE told
  /\ NodesUnchanged
  /\ UNCHANGED <<found, table, inbox, member, hurt>>

\* Mutated form: one attempt too many.
BadTriesLeft(t) == t > 0 /\ (MaxRetries = 0 \/ t <= MaxRetries)

\* The loop of spawn_reconnect goes on after the t-th attempt failed.
TriesLeft(t) == t > 0 /\ (MaxRetries = 0 \/ t < MaxRetries)

\* connect_to returns an error; a reconnect task sleeps and calls again, until
\* it has made reconnect_max_retries attempts.
DialFails(s) ==
  LET t == stream[s].tries
      f == Closed(stream, <<s, "con">>)
  IN IF TriesLeft(t)
       THEN Redial(f, s[1], s[2], IF MaxRetries = 0 THEN t ELSE t + 1)
       ELSE Becomes(f)

\* The limit, then the TCP connection and the Handshake.  (A connection the
\* network does not let through is Break.)
Connect(s) ==
  LET n == s[1]
      p == s[2]
  IN /\ stream[s].end["con"] = "calling"
     /\ \/ /\ Full(n)
           /\ DialFails(s)
           /\ hurt' = IF Registered(n, p) THEN hurt ELSE hurt \cup {{n, p}}
        \/ ~Full(n) /\ p \notin up /\ DialFails(s) /\ UNCHANGED hurt
        \/ /\ ~Full(n) /\ p \in up
           /\ Becomes([stream EXCEPT ![s].end = [x \in Side |-> "hello"]])
           /\ UNCHANGED hurt
     /\ NodesUnchanged
     /\ UNCHANGED <<found, table, inbox, member, told, trouble>>

\* Mutated form: a new entry starts with should_reconnect off.
BadNewEntry(e) == [at |-> e, reconnect |-> FALSE]

\* PeerInfo::new.
NewEntry(e) == [at |-> e, reconnect |-> TRUE]

\* register_connection by the task of end e: insert the end unless the peer is
\* there, start the read task and notify the message handler.  A stream that
\* one end registers and the other refuses will end.
Insert(e) ==
  LET n == OwnerOf(e)
      p == PeerOf(e)
  IN /\ ~Registered(n, p)
     /\ Becomes([stream EXCEPT ![e[1]].end[e[2]] = "open"])
     /\ table' = [table EXCEPT ![n][p] = NewEntry(e)]
     /\ inbox' = [inbox EXCEPT ![n] =
                    Append(@, [kind |-> "join", peer |-> p, list |-> {}])]
     /\ hurt' = IF stream[e[1]].end[Opposite(e[2])] = "closed"
                  THEN hurt \cup {{n, p}} ELSE hurt

Refuse(e) ==
  LET n == OwnerOf(e)
      p == PeerOf(e)
  IN /\ Registered(n, p)
     /\ hurt' = IF stream[e[1]].end[Opposite(e[2])] = "open"
                  THEN hurt \cup {{n, p}} ELSE hurt
     /\ UNCHANGED <<table, inbox>>

\* The HandshakeAck.
ReceiveAck(s) ==
  /\ stream[s].end["con"] = "hello" /\ ~stream[s].broken
  /\ \/ stream[s].answer = "ok" /\ Insert(<<s, "con">>)
     \/ stream[s].answer = "ok" /\ Refuse(<<s, "con">>) /\ DialFails(s)
     \/ /\ stream[s].answer \in {"already", "refused"}
        /\ DialFails(s)
        /\ UNCHANGED <<table, inbox, hurt>>
  /\ NodesUnchanged
  /\ UNCHANGED <<found, member, told, trouble>>

\* The stream fails or is closed without an answer; or the answer comes too
\* late.
AckFails(s) ==
  /\ stream[s].end["con"] = "hello"
  /\ \/ /\ \/ stream[s].broken
           \/ stream[s].end["acc"] = "closed" /\ stream[s].answer = "none"
        /\ UNCHANGED <<hurt, trouble>>
     \/ Trouble /\ hurt' = hurt \cup {{s[1], s[2]}}
  /\ DialFails(s)
  /\ NodesUnchanged
  /\ UNCHANGED <<found, table, inbox, member, told>>

-----------------------------------------------------------------------------
(* handle_incoming_connection.                                             *)

\* Mutated form: the acceptor takes a peer of any session.
BadSessionMatches(n, p) == TRUE

SessionMatches(n, p) == Session[n] = Session[p]

\* The limit, the session and the table are looked at, in this order.
AcceptHello(s) ==
  LET n == s[1]
      p == s[2]
      Reply(a) == [stream EXCEPT ![s].answer = a]
  IN /\ stream[s].end["acc"] = "hello"
     /\ \/ /\ stream[s].broken
           /\ stream' = Closed(stream, <<s, "acc">>) /\ UNCHANGED hurt
        \/ /\ ~stream[s].broken /\ Full(p)
           /\ stream' = Closed(stream, <<s, "acc">>)
           /\ hurt' = IF Registered(p, n) THEN hurt ELSE hurt \cup {{n, p}}
        \/ /\ ~stream[s].broken /\ ~Full(p) /\ ~SessionMatches(n, p)
           /\ stream' = Closed(Reply("refused"), <<s, "acc">>) /\ UNCHANGED hurt
        \/ /\ ~stream[s].broken /\ ~Full(p) /\ SessionMatches(n, p)
           /\ Registered(p, n)
           /\ stream' = Closed(Reply("already"), <<s, "acc">>) /\ UNCHANGED hurt
        \/ /\ ~stream[s].broken /\ ~Full(p) /\ SessionMatches(n, p)
           /\ ~Registered(p, n)
           /\ stream' = [Reply("ok") EXCEPT ![s].end["acc"] = "acked"]
           /\ UNCHANGED hurt
     /\ NodesUnchanged
     /\ UNCHANGED <<found, dials, table, inbox, member, told, trouble>>

\* PeerListSync, which names whoever is in the table by now; an empty list is
\* not sent.
SendList(s) ==
  /\ stream[s].end["acc"] = "acked"
  /\ stream' = [stream EXCEPT ![s].end["acc"] = "listed",
                  ![s].list = IF stream[s].broken THEN {}
                              ELSE {m \in Node : Registered(s[2], m)}]
  /\ NodesUnchanged
  /\ UNCHANGED <<found, dials, table, inbox, member, told, hurt, trouble>>

RegisterInbound(s) ==
  /\ stream[s].end["acc"] = "listed"
  /\ \/ Insert(<<s, "acc">>)
     \/ Refuse(<<s, "acc">>) /\ Becomes(Closed(stream, <<s, "acc">>))
  /\ NodesUnchanged
  /\ UNCHANGED <<found, member, told, trouble>>

-----------------------------------------------------------------------------
(* The read task of a registered end.                                      *)

Reading(e) == stream[e[1]].end[e[2]] = "open"
ListWaits(e) == e[2] = "con" /\ stream[e[1]].list # {}
LeaveWaits(e) == Opposite(e[2]) \in stream[e[1]].leaves

\* A packet is handed to the message handler.
Read(e) ==
  LET s == e[1]
      n == OwnerOf(e)
      Hand(kind, ps) == inbox' = [inbox EXCEPT ![n] =
                          Append(@, [kind |-> kind, peer |-> PeerOf(e), list |-> ps])]
  IN /\ Reading(e)
     /\ \/ /\ ListWaits(e)
           /\ Hand("list", stream[s].list)
           /\ stream' = [stream EXCEPT ![s].list = {}]
        \/ /\ ~ListWaits(e) /\ LeaveWaits(e)
           /\ Hand("leave", {})
           /\ stream' = [stream EXCEPT ![s].leaves = @ \ {Opposite(e[2])}]
     /\ NodesUnchanged
     /\ UNCHANGED <<found, dials, table, member, told, hurt, trouble>>

\* The loop ends with the stream and cleans up: the entry of the peer is removed
\* (its own, as nobody disconnects; Peering has the other case), and a reconnect
\* task starts when the entry allows it.
ReadEnds(e) ==
  LET s == e[1]
      n == OwnerOf(e)
      p == PeerOf(e)
      f == Closed(stream, e)
  IN /\ Reading(e)
     /\ \/ stream[s].broken
        \/ /\ stream[s].end[Opposite(e[2])] = "closed"
           /\ ~ListWaits(e) /\ ~LeaveWaits(e)
     /\ IF table[n][p].reconnect THEN Redial(f, n, p, 1) ELSE Becomes(f)
     /\ table' = [table EXCEPT ![n][p] = NoEntry]
     /\ NodesUnchanged
     /\ UNCHANGED <<found, inbox, member, told, hurt, trouble>>

-----------------------------------------------------------------------------
(* The message handler, src/lib.rs.                                        *)

Arrives(n, kind) ==
  /\ inbox[n] # <<>> /\ Head(inbox[n]).kind = kind
  /\ inbox' = [inbox EXCEPT ![n] = Tail(@)]

\* Handshake or HandshakeAck: add_peer, or update_status of a known peer.
OnJoin(n) ==
  /\ Arrives(n, "join")
  /\ LET p == Head(inbox[n]).peer
     IN member' = IF Registered(n, p) THEN [member EXCEPT ![n][p] = "Connected"]
                  ELSE member
  /\ NodesUnchanged
  /\ UNCHANGED <<found, dials, stream, table, told, hurt, trouble>>

\* PeerLeave: set_should_reconnect(false), then remove_peer.
OnLeave(n) ==
  /\ Arrives(n, "leave")
  /\ LET p == Head(inbox[n]).peer
     IN /\ table' = [table EXCEPT ![n][p].reconnect = FALSE]
        /\ member' = [member EXCEPT ![n][p] = "absent"]
  /\ NodesUnchanged
  /\ UNCHANGED <<found, dials, stream, told, hurt, trouble>>

\* Mutated form: the larger id dials, as if the smaller one had the list.
BadDialsListed(n, p) == Unknown(n, p) /\ p < n

DialsListed(n, p) == Unknown(n, p) /\ n < p

\* PeerListSync: a dial for every unknown peer with a larger id.
OnList(n) ==
  /\ Arrives(n, "list")
  /\ LET list == Head(inbox[n]).list
     IN /\ DialEach(n, {p \in list : DialsListed(n, p)})
        /\ told' = told \cup {{n, p} : p \in {p \in list : n < p}}
  /\ NodesUnchanged
  /\ UNCHANGED <<found, table, member, hurt, trouble>>

-----------------------------------------------------------------------------
(* Losing a connection.                                                    *)

\* The network cuts a stream; what is on its way is lost.  Before one end is
\* registered, nobody will try again.
Break(s) ==
  /\ ~stream[s].broken
  /\ \E x \in Side : stream[s].end[x] \in {"hello", "acked", "listed", "open"}
  /\ Trouble
  /\ stream' = [stream EXCEPT ![s].broken = TRUE, ![s].list = {}, ![s].leaves = {}]
  /\ hurt' = IF \E x \in Side : stream[s].end[x] = "open" THEN hurt
             ELSE hurt \cup {{s[1], s[2]}}
  /\ NodesUnchanged
  /\ UNCHANGED <<found, dials, table, inbox, member, told>>

\* NetworkState::shutdown: PeerLeave to everybody, which some do not get;
\* discovery is torn down, the streams are closed and the tasks stop.  The
\* other ends see that by themselves.
Shutdown(n) ==
  LET Mine(s, x) == OwnerOf(<<s, x>>) = n
      After(s, lost) ==
        LET r == stream[s]
            ends == [x \in Side |-> IF Mine(s, x) THEN "closed" ELSE r.end[x]]
        IN IF \A x \in Side : ends[x] = "closed" THEN Free
           ELSE [r EXCEPT !.end = ends,
                   !.leaves = @ \cup {x \in Side :
                     Mine(s, x) /\ r.end[x] = "open" /\ ~r.broken /\ PeerOf(<<s, x>>) \notin lost}]
  IN /\ n \in up /\ Trouble
     /\ up' = up \ {n} /\ gone' = gone \cup {n}
     /\ advertised' = advertised \ {n} /\ browsing' = browsing \ {n}
     /\ found' = [found EXCEPT ![n] = {}]
     /\ \E lost \in SUBSET {p \in Node : Registered(n, p)} :
          stream' = [s \in Stream |-> After(s, lost)]
     /\ table' = [table EXCEPT ![n] = [p \in Node |-> NoEntry]]
     /\ inbox' = [inbox EXCEPT ![n] = <<>>]
     /\ member' = [member EXCEPT ![n] = [p \in Node |-> "absent"]]
     /\ UNCHANGED <<dials, told, hurt>>

-----------------------------------------------------------------------------
ConnectStep(s) == Connect(s) \/ ReceiveAck(s) \/ AckFails(s)
AcceptStep(s) == AcceptHello(s) \/ SendList(s) \/ RegisterInbound(s)
EndStep(e) == Read(e) \/ ReadEnds(e)
Handle(n) == OnJoin(n) \/ OnLeave(n) \/ OnList(n)

\* The task at either end of a stream, from its first step to its last.
DialTask(s) ==
  stream[s].end["con"] # "closed" /\ (ConnectStep(s) \/ EndStep(<<s, "con">>))
AcceptTask(s) ==
  stream[s].end["acc"] # "closed" /\ (AcceptStep(s) \/ EndStep(<<s, "acc">>))

Next ==
  \/ \E n \in Node : Start(n) \/ Handle(n) \/ Shutdown(n)
  \/ \E n, p \in Node : Resolve(n, p) \/ CallConnect(n, p)
  \/ \E s \in Stream : DialTask(s) \/ AcceptTask(s) \/ Break(s)

Spec == Init /\ [][Next]_vars

\* The tasks run: at both ends of a stream the next step is made, the handler
\* takes its packets, and the browse task what mDNS resolved.  Users, faults and
\* timeouts are not assumed to do anything.
Fairness ==
  /\ \A n \in Node : WF_vars(Handle(n)) /\ WF_vars(\E p \in Node : Resolve(n, p))
  /\ \A s \in Stream :
       WF_vars(DialTask(s) /\ UNCHANGED trouble) /\ WF_vars(AcceptTask(s))

FairSpec == Spec /\ Fairness

-----------------------------------------------------------------------------
(* Properties.                                                             *)

\* Every variable has the shape the code gives it, and no reconnect task makes
\* more attempts than reconnect_max_retries.
TypeOK ==
  /\ up \subseteq Node /\ gone \subseteq Node
  /\ advertised \subseteq Node /\ browsing \subseteq Node
  /\ found \in [Node -> SUBSET Node]
  /\ dials \in [Pair -> 0 .. MaxDials]
  /\ stream \in [Stream -> StreamState]
  /\ MaxRetries > 0 => \A s \in Stream : stream[s].tries <= MaxRetries
  /\ table \in [Node -> [Node -> Entry]]
  /\ inbox \in [Node -> Seq(Packet)]
  /\ member \in [Node -> [Node -> PeerStatus]]
  /\ told \subseteq SUBSET Node /\ hurt \subseteq SUBSET Node
  /\ trouble \in Nat

\* Sessions do not mix: neither mDNS, nor the peer lists, nor a wrong address
\* given to ConnectToPeer connects a peer of another session or makes it a
\* member.
SessionsApart ==
  \A n, p \in Node :
    Registered(n, p) \/ member[n][p] # "absent" => Session[n] = Session[p]

\* Both ends of one stream are in the tables of their nodes.
Joined(n, p) ==
  /\ Registered(n, p) /\ Registered(p, n)
  /\ table[n][p].at[1] = table[p][n].at[1]

\* n has been told of p, by mDNS, by a peer list or by the application.
Introduced(n, p) ==
  (n \in browsing /\ p \in advertised) \/ {n, p} \in told

\* The mesh forms and forms again: two running peers of a session of which one
\* was told of the other are in the end connected by one stream and members of
\* each other, after lost connections and crossing dials too.  Excepted are
\* the pairs in `hurt': a dial of theirs got its answer too late, met the limit
\* or was cut off before anybody registered it, or dials crossed and a stream
\* was registered at one end and refused at the other.
MeshForms ==
  \A n, p \in Node :
    n < p /\ Session[n] = Session[p] =>
      <>[](/\ {n, p} \subseteq up /\ {n, p} \notin hurt
           /\ Introduced(n, p)
           => /\ Joined(n, p)
              /\ member[n][p] = "Connected" /\ member[p][n] = "Connected")
=============================================================================
