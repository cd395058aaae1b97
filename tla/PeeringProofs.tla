----------------------------- MODULE PeeringProofs -----------------------------
(***************************************************************************)
(* Proofs about Peering, for any number of peers and streams: its types,   *)
(* and the agreement of the connection table with the tasks that run.      *)
(***************************************************************************)
EXTENDS Peering, TLAPS

\* The task of a node is at one of the two ends of a stream that was opened.
EndsLinked ==
  \A s \in Stream, n \in Node : end[s][n] # "none" =>
    /\ s <= opened
    /\ link[s].from \in Node /\ link[s].to \in Node
    /\ link[s].from # link[s].to
    /\ n \in {link[s].from, link[s].to}

\* Nobody cancels an end that is not registered yet.
FreshEnds ==
  \A s \in Stream, n \in Node :
    end[s][n] \in {"none", "hello", "acked"} => n \notin cancelled[s]

\* A notification is owed for a stream the node has an end of.
OwedEnds ==
  \A n \in Node, s \in Stream : <<n, s>> \in owed => end[s][n] # "none"

\* A stream was opened for a reconnect task of an end that is closed.
CallersClosed ==
  \A s \in Stream :
    link[s].by # Nobody => end[link[s].by][link[s].from] = "closed"

\* A reconnect task belongs to an end that is closed for good.
TasksClosed ==
  \A s \in Stream, n \in Node :
    task[s][n].state # "none" => end[s][n] = "closed"

EndsInv == EndsLinked /\ FreshEnds /\ OwedEnds /\ CallersClosed

\* The inductive invariant.
PeerInv == TypeOK /\ TableMatchesTasks /\ EndsInv /\ TasksClosed

-----------------------------------------------------------------------------
(* The constants and the ends of a stream.                                 *)

\* Nobody is neither a peer nor a stream.
LEMMA NobodyElse == Nobody \notin Node /\ Nobody \notin Stream
BY PeeringAssumption DEF Nobody, Stream

\* The peer at the other end of a stream is another peer.
LEMMA OtherEnd ==
  ASSUME EndsLinked, NEW s \in Stream, NEW n \in Node, end[s][n] # "none"
  PROVE  /\ Other(s, n) \in Node /\ Other(s, n) # n
         /\ s <= opened
BY DEF EndsLinked, Other

\* The reconnect loop keeps the attempt counter within its range.
LEMMA FailedType ==
  ASSUME NEW t \in Task
  PROVE  Failed(t) \in Task /\ Failed(t).state # "none"
BY PeeringAssumption DEF Failed, Task

-----------------------------------------------------------------------------
(* The type of every variable, group by group.                             *)

StreamTypes ==
  /\ opened \in 0 .. MaxStreams
  /\ link \in [Stream -> Link]
  /\ end \in [Stream -> [Node -> End]]
  /\ answer \in [Stream -> {"none", "ok", "already"}]
  /\ cancelled \in [Stream -> SUBSET Node]
  /\ leaves \in [Stream -> SUBSET Node]
  /\ broken \subseteq Stream

TableTypes ==
  /\ table \in [Node -> [Node -> Entry]]
  /\ owed \subseteq Node \X Stream
  /\ task \in [Stream -> [Node -> Task]]

PeerTypes ==
  /\ inbox \in [Node -> Seq(Packet)]
  /\ member \in [Node -> [Node -> PeerStatus]]
  /\ cutting \in [Node -> Node \cup {Nobody}]
  /\ dropping \in [Node -> Node \cup {Nobody}]

CallTypes ==
  /\ auto \in [Node -> BOOLEAN]
  /\ dropped \subseteq Pairs
  /\ used \in [calls : Nat, disconnects : Nat, faults : Nat, toggles : Nat]

\* TypeOK, group by group.
LEMMA TypeGroups ==
  TypeOK <=> StreamTypes /\ TableTypes /\ PeerTypes /\ CallTypes
BY DEF TypeOK, StreamTypes, TableTypes, PeerTypes, CallTypes

\* The same of the next state.
LEMMA TypeGroupsNext ==
  StreamTypes' /\ TableTypes' /\ PeerTypes' /\ CallTypes' => TypeOK'
BY DEF TypeOK, StreamTypes, TableTypes, PeerTypes, CallTypes

\* TransportManager::new starts from values of these types.
LEMMA InitTypes == Init => TypeOK
<1> SUFFICES ASSUME Init PROVE TypeOK
  OBVIOUS
<1>1. StreamTypes
  BY PeeringAssumption DEF Init, StreamTypes, Link, NoLink, End
<1>2. TableTypes
  BY PeeringAssumption DEF Init, TableTypes, Entry, Task, NoTask
<1>3. PeerTypes
  BY DEF Init, PeerTypes, PeerStatus
<1>4. CallTypes
  BY DEF Init, CallTypes
<1> QED BY <1>1, <1>2, <1>3, <1>4, TypeGroups

\* Counting a call or a fault keeps the type of the bounds.
LEMMA UsedTypes ==
  ASSUME NEW u \in [calls : Nat, disconnects : Nat, faults : Nat, toggles : Nat]
  PROVE  /\ [u EXCEPT !.calls = @ + 1] \in
              [calls : Nat, disconnects : Nat, faults : Nat, toggles : Nat]
         /\ [u EXCEPT !.disconnects = @ + 1] \in
              [calls : Nat, disconnects : Nat, faults : Nat, toggles : Nat]
         /\ [u EXCEPT !.faults = @ + 1] \in
              [calls : Nat, disconnects : Nat, faults : Nat, toggles : Nat]
         /\ [u EXCEPT !.toggles = @ + 1] \in
              [calls : Nat, disconnects : Nat, faults : Nat, toggles : Nat]
OBVIOUS

-----------------------------------------------------------------------------
(* What the parts of the actions do to the invariant.                      *)

\* A step that leaves the streams and the table alone keeps what is said of
\* them.
LEMMA QuietStep ==
  ASSUME TableMatchesTasks, EndsInv,
         UNCHANGED <<opened, link, end, cancelled, table>>, owed' \subseteq owed
  PROVE  TableMatchesTasks' /\ EndsInv'
<1>1. TableMatchesTasks'
  BY DEF TableMatchesTasks, Registered, Running, Other
<1>2. EndsLinked' /\ FreshEnds' /\ CallersClosed'
  BY DEF EndsInv, EndsLinked, FreshEnds, CallersClosed
<1>3. OwedEnds'
  BY DEF EndsInv, OwedEnds
<1> QED BY <1>1, <1>2, <1>3 DEF EndsInv

\* A new stream has ends nobody used before.
LEMMA OpenStep ==
  ASSUME StreamTypes, TableTypes, TableMatchesTasks, EndsInv,
         NEW n \in Node, NEW p \in Node, n # p,
         NEW by \in Stream \cup {Nobody},
         by # Nobody => end[by][n] = "closed",
         OpenStream(n, p, by), UNCHANGED <<answer, cancelled, leaves, broken>>,
         UNCHANGED <<table, owed>>
  PROVE  /\ StreamTypes' /\ TableMatchesTasks' /\ EndsInv'
         /\ \A s \in Stream, m \in Node :
              end[s][m] = "closed" => end'[s][m] = "closed"
<1> DEFINE new == opened + 1
<1>1. new \in Stream /\ opened \in Nat /\ \A s \in Stream : s \in Nat
  BY PeeringAssumption DEF OpenStream, StreamTypes, Stream
<1>2. /\ link' = [link EXCEPT ![new] = [from |-> n, to |-> p, by |-> by]]
      /\ end' = [end EXCEPT ![new] = [@ EXCEPT ![n] = "hello", ![p] = "hello"]]
      /\ opened' = new /\ opened < MaxStreams
  BY DEF OpenStream
<1>3. \A m \in Node : end[new][m] = "none"
  BY <1>1 DEF EndsInv, EndsLinked
<1>4. /\ \A s \in Stream \ {new} : link'[s] = link[s] /\ end'[s] = end[s]
      /\ link'[new] = [from |-> n, to |-> p, by |-> by]
      /\ \A m \in Node : end'[new][m] = IF m \in {n, p} THEN "hello" ELSE "none"
  BY <1>1, <1>2, <1>3 DEF StreamTypes
<1>5. StreamTypes'
  <2>1. link' \in [Stream -> Link]
    BY <1>1, <1>2 DEF StreamTypes, Link
  <2>2. end' \in [Stream -> [Node -> End]]
    BY <1>1, <1>2 DEF StreamTypes, End
  <2>3. opened' \in 0 .. MaxStreams
    BY <1>1, <1>2, PeeringAssumption
  <2> QED BY <2>1, <2>2, <2>3 DEF StreamTypes
<1>6. EndsLinked'
  <2> SUFFICES ASSUME NEW s \in Stream, NEW m \in Node, end'[s][m] # "none"
               PROVE  /\ s <= opened'
                      /\ link'[s].from \in Node /\ link'[s].to \in Node
                      /\ link'[s].from # link'[s].to
                      /\ m \in {link'[s].from, link'[s].to}
    BY DEF EndsLinked
  <2>1. CASE s = new
    BY <2>1, <1>1, <1>2, <1>4
  <2>2. CASE s # new
    BY <2>2, <1>1, <1>2, <1>4 DEF EndsInv, EndsLinked
  <2> QED BY <2>1, <2>2
<1>7. FreshEnds'
  BY <1>3, <1>4 DEF EndsInv, FreshEnds
<1>8. OwedEnds'
  BY <1>3, <1>4 DEF EndsInv, OwedEnds
<1>9. \A s \in Stream, m \in Node :
        end[s][m] = "closed" => end'[s][m] = "closed"
  BY <1>3, <1>4
<1>10. CallersClosed'
  <2> SUFFICES ASSUME NEW s \in Stream, link'[s].by # Nobody
               PROVE  end'[link'[s].by][link'[s].from] = "closed"
    BY DEF CallersClosed
  <2>1. CASE s = new
    <3>1. link'[s].by = by /\ link'[s].from = n /\ by \in Stream
      BY <2>1, <1>4
    <3> QED BY <3>1, <1>9
  <2>2. CASE s # new
    <3>1. link[s].by \in Stream /\ link[s].from \in Node
      BY <2>2, <1>4 DEF StreamTypes, Link, NoLink
    <3> QED BY <2>2, <3>1, <1>4, <1>9 DEF EndsInv, CallersClosed
  <2> QED BY <2>1, <2>2
<1>11. TableMatchesTasks'
  <2>1. ASSUME NEW s \in Stream, NEW m \in Node, Running(m, s)'
        PROVE  s # new /\ Running(m, s)
    BY <2>1, <1>4 DEF Running
  <2>2. ASSUME NEW s \in Stream, NEW m \in Node, Running(m, s)
        PROVE  s # new /\ Running(m, s)'
    BY <2>2, <1>3, <1>4 DEF Running
  <2>3. \A s \in Stream \ {new}, m \in Node : Other(s, m)' = Other(s, m)
    BY <1>4 DEF Other
  <2>4. \A m, q \in Node : Registered(m, q)' = Registered(m, q)
    BY DEF Registered
  <2>5. \A m, q \in Node : Registered(m, q) => table[m][q].stream \in Stream
    BY DEF Registered, TableTypes, Entry, NoEntry
  <2> QED BY <2>1, <2>2, <2>3, <2>4, <2>5 DEF TableMatchesTasks
<1> QED BY <1>5, <1>6, <1>7, <1>8, <1>9, <1>10, <1>11 DEF EndsInv

\* An end moves on while its registration stays what it is: an end that is
\* not registered goes on or is given up, a read loop ends.
LEMMA EndStep ==
  ASSUME StreamTypes, TableTypes, TableMatchesTasks, EndsInv,
         NEW n \in Node, NEW s \in Stream, NEW state \in {"acked", "closing", "closed"},
         end[s][n] \in IF state = "closing" THEN {"open"} ELSE {"hello", "acked"},
         end' = [end EXCEPT ![s][n] = state],
         UNCHANGED <<opened, link, cancelled, table, owed>>
  PROVE  /\ end' \in [Stream -> [Node -> End]]
         /\ TableMatchesTasks' /\ EndsInv'
         /\ \A t \in Stream, m \in Node :
              end[t][m] = "closed" => end'[t][m] = "closed"
<1>1. \A t \in Stream, m \in Node :
        end'[t][m] = IF t = s /\ m = n THEN state ELSE end[t][m]
  BY DEF StreamTypes
<1>2. end' \in [Stream -> [Node -> End]]
  BY DEF StreamTypes, End
<1>3. EndsLinked'
  BY <1>1 DEF EndsInv, EndsLinked
<1>4. FreshEnds'
  BY <1>1 DEF EndsInv, FreshEnds
<1>5. OwedEnds'
  BY <1>1 DEF EndsInv, OwedEnds
<1>6. \A t \in Stream, m \in Node :
        end[t][m] = "closed" => end'[t][m] = "closed"
  BY <1>1
<1>7. CallersClosed'
  <2>1. \A t \in Stream : link[t].by # Nobody =>
          link[t].by \in Stream /\ link[t].from \in Node
    BY DEF StreamTypes, Link, NoLink
  <2> QED BY <2>1, <1>6 DEF EndsInv, CallersClosed
<1>8. TableMatchesTasks'
  <2>1. \A t \in Stream, m \in Node : Running(m, t)' = Running(m, t)
    BY <1>1 DEF Running
  <2>2. \A m, q \in Node : Registered(m, q)' = Registered(m, q)
    BY DEF Registered
  <2>3. \A t \in Stream, m \in Node : Other(t, m)' = Other(t, m)
    BY DEF Other
  <2>4. \A m, q \in Node : Registered(m, q) => table[m][q].stream \in Stream
    BY DEF Registered, TableTypes, Entry, NoEntry
  <2> QED BY <2>1, <2>2, <2>3, <2>4 DEF TableMatchesTasks
<1> QED BY <1>2, <1>3, <1>4, <1>5, <1>6, <1>7, <1>8 DEF EndsInv

\* register_connection inserts a stream for a peer that has none, and turns
\* away a stream for a peer that has one.
LEMMA RegisterStep ==
  ASSUME StreamTypes, TableTypes, TableMatchesTasks, EndsInv,
         NEW n \in Node, NEW s \in Stream, end[s][n] \in {"hello", "acked"},
         Register(n, s), UNCHANGED <<opened, link, cancelled>>
  PROVE  /\ end' \in [Stream -> [Node -> End]]
         /\ table' \in [Node -> [Node -> Entry]] /\ owed' \subseteq Node \X Stream
         /\ TableMatchesTasks' /\ EndsInv'
         /\ \A t \in Stream, m \in Node :
              end[t][m] = "closed" => end'[t][m] = "closed"
<1> DEFINE p == Other(s, n)
<1>0. p \in Node /\ p # n
  BY OtherEnd DEF EndsInv
<1>1. CASE Registered(n, p)
  <2>1. end' = [end EXCEPT ![s][n] = "closed"] /\ UNCHANGED <<table, owed>>
    BY <1>1 DEF Register
  <2> QED BY <2>1, EndStep DEF TableTypes
<1>2. CASE ~Registered(n, p)
  <2>1. /\ end' = [end EXCEPT ![s][n] = "open"]
        /\ table' = [table EXCEPT ![n][p] = [stream |-> s, reconnect |-> TRUE]]
        /\ owed' = owed \cup {<<n, s>>}
    BY <1>2 DEF Register
  <2>2. \A t \in Stream, m \in Node :
          end'[t][m] = IF t = s /\ m = n THEN "open" ELSE end[t][m]
    BY <2>1 DEF StreamTypes
  <2>3. \A m, q \in Node :
          table'[m][q] = IF m = n /\ q = p
                           THEN [stream |-> s, reconnect |-> TRUE] ELSE table[m][q]
    BY <1>0, <2>1 DEF TableTypes
  <2>4. end' \in [Stream -> [Node -> End]]
    BY <2>1 DEF StreamTypes, End
  <2>5. table' \in [Node -> [Node -> Entry]] /\ owed' \subseteq Node \X Stream
    <3>1. [stream |-> s, reconnect |-> TRUE] \in Entry
      BY DEF Entry
    <3> QED BY <1>0, <2>1, <3>1 DEF TableTypes
  <2>6. EndsLinked'
    BY <2>2 DEF EndsInv, EndsLinked
  <2>7. FreshEnds'
    BY <2>2 DEF EndsInv, FreshEnds
  <2>8. OwedEnds'
    BY <2>1, <2>2 DEF EndsInv, OwedEnds
  <2>9. \A t \in Stream, m \in Node :
          end[t][m] = "closed" => end'[t][m] = "closed"
    BY <2>2
  <2>10. CallersClosed'
    <3>1. \A t \in Stream : link[t].by # Nobody =>
            link[t].by \in Stream /\ link[t].from \in Node
      BY DEF StreamTypes, Link, NoLink
    <3> QED BY <3>1, <2>9 DEF EndsInv, CallersClosed
  <2>11. TableMatchesTasks'
    <3>1. \A t \in Stream, m \in Node :
            Running(m, t)' = (Running(m, t) \/ (t = s /\ m = n))
      BY <2>2 DEF Running, EndsInv, FreshEnds
    <3>2. \A t \in Stream, m \in Node : Other(t, m)' = Other(t, m)
      BY DEF Other
    <3>3. \A m, q \in Node :
            Registered(m, q)' = (Registered(m, q) \/ (m = n /\ q = p))
      BY <2>3, NobodyElse DEF Registered
    <3>4. \A m, q \in Node : Registered(m, q) => table[m][q].stream \in Stream
      BY DEF Registered, TableTypes, Entry, NoEntry
    <3>5. ASSUME NEW m \in Node, NEW q \in Node, Registered(m, q)'
          PROVE  (Running(m, table[m][q].stream)
                  /\ Other(table[m][q].stream, m) = q)'
      <4>1. CASE m = n /\ q = p
        <5>1. table'[m][q].stream = s
          BY <4>1, <1>0, <2>3
        <5>2. end'[s][n] = "open" /\ n \notin cancelled'[s]
          BY <2>2 DEF EndsInv, FreshEnds
        <5> QED BY <4>1, <5>1, <5>2 DEF Running, Other
      <4>2. CASE ~(m = n /\ q = p)
        <5>1. /\ Registered(m, q) /\ table'[m][q] = table[m][q]
              /\ table[m][q].stream \in Stream
          BY <4>2, <2>3, <3>3, <3>4, <3>5
        <5>2. /\ Running(m, table[m][q].stream)
              /\ Other(table[m][q].stream, m) = q
          BY <5>1 DEF TableMatchesTasks
        <5> QED BY <5>1, <5>2, <2>2 DEF Running, Other
      <4> QED BY <4>1, <4>2
    <3>6. ASSUME NEW m \in Node, NEW t \in Stream, Running(m, t)'
          PROVE  table'[m][Other(t, m)'].stream = t
      <4>1. CASE t = s /\ m = n
        BY <4>1, <1>0, <2>3, <3>2
      <4>2. CASE ~(t = s /\ m = n)
        <5>1. Running(m, t) /\ table[m][Other(t, m)].stream = t
          BY <3>1, <3>6, <4>2 DEF TableMatchesTasks
        <5>2. Other(t, m) \in Node /\ Registered(m, Other(t, m))
          BY <5>1, OtherEnd, NobodyElse DEF EndsInv, Running, Registered
        <5> QED BY <5>1, <5>2, <1>2, <2>3, <3>2
      <4> QED BY <4>1, <4>2
    <3> QED BY <3>5, <3>6 DEF TableMatchesTasks
  <2> QED BY <2>4, <2>5, <2>6, <2>7, <2>8, <2>9, <2>10, <2>11 DEF EndsInv
<1> QED BY <1>1, <1>2

\* Removing the entry of a peer cancels the tasks of that entry, whichever
\* stream it is; a read loop that ended may close its own end meanwhile.
LEMMA RemoveStep ==
  ASSUME StreamTypes, TableTypes, TableMatchesTasks, EndsInv,
         NEW n \in Node, NEW p \in Node,
         UNCHANGED <<opened, link, owed>>,
         \A m, q \in Node :
           table'[m][q] = IF m = n /\ q = p THEN NoEntry ELSE table[m][q],
         \A t \in Stream, m \in Node :
           m \in cancelled'[t] <=>
             \/ m \in cancelled[t]
             \/ m = n /\ Registered(n, p) /\ t = table[n][p].stream,
         \A t \in Stream, m \in Node :
           \/ end'[t][m] = end[t][m]
           \/ /\ m = n /\ Other(t, n) = p
              /\ end[t][m] = "closing" /\ end'[t][m] = "closed"
  PROVE  /\ TableMatchesTasks' /\ EndsInv'
         /\ \A t \in Stream, m \in Node :
              end[t][m] = "closed" => end'[t][m] = "closed"
<1>1. \A m, q \in Node : Registered(m, q) =>
        /\ table[m][q].stream \in Stream
        /\ Running(m, table[m][q].stream) /\ Other(table[m][q].stream, m) = q
  BY DEF Registered, TableTypes, Entry, NoEntry, TableMatchesTasks
<1>2. \A t \in Stream, m \in Node : Other(t, m)' = Other(t, m)
  BY DEF Other
<1>3. ASSUME NEW t \in Stream, NEW m \in Node, Running(m, t)'
      PROVE  Running(m, t) /\ ~(m = n /\ Other(t, m) = p)
  <2>1. Running(m, t)
    BY <1>3 DEF Running
  <2>2. ASSUME m = n, Other(t, m) = p
        PROVE  FALSE
    <3>1. table[n][p].stream = t
      BY <2>1, <2>2 DEF TableMatchesTasks
    <3>2. Registered(n, p)
      BY <3>1, NobodyElse DEF Registered
    <3> QED BY <3>1, <3>2, <1>3, <2>2 DEF Running
  <2> QED BY <2>1, <2>2
<1>4. ASSUME NEW t \in Stream, NEW m \in Node, Running(m, t),
             ~(m = n /\ Other(t, m) = p)
      PROVE  end'[t][m] \in {"open", "closing"} /\ m \notin cancelled'[t]
  BY <1>1, <1>4 DEF Running
<1>5. ASSUME NEW m \in Node, NEW q \in Node, Registered(m, q)'
      PROVE  (Running(m, table[m][q].stream)
              /\ Other(table[m][q].stream, m) = q)'
  <2>1. ~(m = n /\ q = p) /\ table'[m][q] = table[m][q]
    BY <1>5 DEF Registered, NoEntry
  <2>2. Registered(m, q)
    BY <1>5, <2>1 DEF Registered
  <2>3. /\ end'[table[m][q].stream][m] \in {"open", "closing"}
        /\ m \notin cancelled'[table[m][q].stream]
    BY <1>1, <1>4, <2>1, <2>2
  <2> QED BY <1>1, <2>1, <2>2, <2>3 DEF Running, Other
<1>6. ASSUME NEW m \in Node, NEW t \in Stream, Running(m, t)'
      PROVE  table'[m][Other(t, m)'].stream = t
  <2>1. Running(m, t) /\ ~(m = n /\ Other(t, m) = p)
    BY <1>3, <1>6
  <2>2. Other(t, m) \in Node
    BY <2>1, OtherEnd DEF EndsInv, Running
  <2>3. table[m][Other(t, m)].stream = t
    BY <2>1 DEF TableMatchesTasks
  <2> QED BY <1>2, <2>1, <2>2, <2>3
<1>7. TableMatchesTasks'
  BY <1>5, <1>6 DEF TableMatchesTasks
<1>8. EndsLinked' /\ OwedEnds'
  BY DEF EndsInv, EndsLinked, OwedEnds
<1>9. FreshEnds'
  BY <1>1 DEF EndsInv, FreshEnds, Running
<1>10. \A t \in Stream, m \in Node :
         end[t][m] = "closed" => end'[t][m] = "closed"
  OBVIOUS
<1>11. CallersClosed'
  <2>1. \A t \in Stream : link[t].by # Nobody =>
          link[t].by \in Stream /\ link[t].from \in Node
    BY DEF StreamTypes, Link, NoLink
  <2> QED BY <2>1, <1>10 DEF EndsInv, CallersClosed
<1> QED BY <1>7, <1>8, <1>9, <1>10, <1>11 DEF EndsInv

\* disconnect_peer, with the types of what it changes.
LEMMA DisconnectStep ==
  ASSUME StreamTypes, TableTypes, TableMatchesTasks, EndsInv,
         NEW n \in Node, NEW p \in Node, Disconnect(n, p),
         UNCHANGED <<opened, link, end, answer, broken, owed, task>>
  PROVE  /\ StreamTypes' /\ TableTypes' /\ TableMatchesTasks' /\ EndsInv'
         /\ \A t \in Stream, m \in Node :
              end[t][m] = "closed" => end'[t][m] = "closed"
<1> DEFINE s == table[n][p].stream
<1>1. CASE Registered(n, p)
  <2>1. /\ cancelled' = [cancelled EXCEPT ![s] = @ \cup {n}]
        /\ table' = [table EXCEPT ![n][p] = NoEntry]
        /\ leaves' = [leaves EXCEPT ![s] = @ \cup {n}] \/ leaves' = leaves
    BY <1>1 DEF Disconnect
  <2>2. s \in Stream
    BY <1>1 DEF Registered, TableTypes, Entry, NoEntry
  <2>3. StreamTypes'
    BY <2>1, <2>2 DEF StreamTypes
  <2>4. TableTypes'
    BY <2>1 DEF TableTypes, Entry
  <2>5. \A m, q \in Node :
          table'[m][q] = IF m = n /\ q = p THEN NoEntry ELSE table[m][q]
    BY <2>1 DEF TableTypes
  <2>6. \A t \in Stream, m \in Node :
          m \in cancelled'[t] <=>
            \/ m \in cancelled[t]
            \/ m = n /\ Registered(n, p) /\ t = table[n][p].stream
    BY <1>1, <2>1, <2>2 DEF StreamTypes
  <2> QED BY <2>3, <2>4, <2>5, <2>6, RemoveStep
<1>2. CASE ~Registered(n, p)
  <2>1. UNCHANGED <<cancelled, table, leaves>>
    BY <1>2 DEF Disconnect
  <2>2. StreamTypes' /\ TableTypes'
    BY <2>1 DEF StreamTypes, TableTypes
  <2>3. TableMatchesTasks' /\ EndsInv'
    BY <2>1, QuietStep
  <2> QED BY <2>2, <2>3
<1> QED BY <1>1, <1>2

\* A closed end stays closed, and the tasks stay with their ends.
LEMMA SameTasks ==
  ASSUME TasksClosed, task' = task,
         \A t \in Stream, m \in Node :
           end[t][m] = "closed" => end'[t][m] = "closed"
  PROVE  TasksClosed'
BY DEF TasksClosed

\* One reconnect task changes, of an end that is closed.
LEMMA OneTask ==
  ASSUME TableTypes, TasksClosed, NEW n \in Node, NEW s \in Stream, NEW x \in Task,
         task' = [task EXCEPT ![s][n] = x], end'[s][n] = "closed",
         \A t \in Stream, m \in Node :
           end[t][m] = "closed" => end'[t][m] = "closed"
  PROVE  task' \in [Stream -> [Node -> Task]] /\ TasksClosed'
<1>1. \A t \in Stream, m \in Node :
        task'[t][m] = IF t = s /\ m = n THEN x ELSE task[t][m]
  BY DEF TableTypes
<1>2. task' \in [Stream -> [Node -> Task]]
  BY DEF TableTypes
<1>3. TasksClosed'
  BY <1>1 DEF TasksClosed
<1> QED BY <1>2, <1>3

\* connect_to returns to a task whose end is closed.
LEMMA ReturnStep ==
  ASSUME StreamTypes, TableTypes, EndsInv, TasksClosed,
         NEW n \in Node, NEW s \in Stream, link[s].from = n,
         NEW ok \in BOOLEAN, Return(n, s, ok),
         \A t \in Stream, m \in Node :
           end[t][m] = "closed" => end'[t][m] = "closed"
  PROVE  task' \in [Stream -> [Node -> Task]] /\ TasksClosed'
<1> DEFINE k == link[s].by
<1>1. CASE k = Nobody
  <2>1. task' = task
    BY <1>1 DEF Return
  <2> QED BY <2>1, SameTasks DEF TableTypes
<1>2. CASE k # Nobody
  <2>1. k \in Stream
    BY <1>2 DEF StreamTypes, Link, NoLink
  <2>2. end'[k][n] = "closed"
    BY <1>2, <2>1 DEF EndsInv, CallersClosed
  <2>3. task[k][n] \in Task
    BY <2>1 DEF TableTypes
  <2>4. CASE ok
    <3>1. task' = [task EXCEPT ![k][n] = [task[k][n] EXCEPT !.state = "done"]]
      BY <1>2, <2>4 DEF Return
    <3>2. [task[k][n] EXCEPT !.state = "done"] \in Task
      BY <2>3 DEF Task
    <3> QED BY <2>1, <2>2, <3>1, <3>2, OneTask
  <2>5. CASE ~ok
    <3>1. task' = [task EXCEPT ![k][n] = Failed(task[k][n])]
      BY <1>2, <2>5 DEF Return
    <3> QED BY <2>1, <2>2, <2>3, <3>1, FailedType, OneTask
  <2> QED BY <2>4, <2>5
<1> QED BY <1>1, <1>2

\* The cleanup of a read loop that ended.
LEMMA CleanupStep ==
  ASSUME StreamTypes, TableTypes, TableMatchesTasks, EndsInv, TasksClosed,
         NEW n \in Node, NEW s \in Stream, end[s][n] = "closing",
         Cleanup(n, s), end' = [end EXCEPT ![s][n] = "closed"],
         UNCHANGED <<opened, link, answer, broken, leaves, owed>>
  PROVE  /\ StreamTypes' /\ TableTypes' /\ TableMatchesTasks' /\ EndsInv'
         /\ TasksClosed'
<1> DEFINE p == Other(s, n)
           e == table[n][p]
<1>0. p \in Node
  BY OtherEnd DEF EndsInv
<1>1. \A t \in Stream, m \in Node :
        end'[t][m] = IF t = s /\ m = n THEN "closed" ELSE end[t][m]
  BY DEF StreamTypes
<1>2. end' \in [Stream -> [Node -> End]] /\ end'[s][n] = "closed"
  BY <1>1 DEF StreamTypes, End
<1>3. CASE Registered(n, p)
  <2>1. /\ cancelled' = [cancelled EXCEPT ![e.stream] = @ \cup {n}]
        /\ table' = [table EXCEPT ![n][p] = NoEntry]
        /\ task' = IF e.reconnect /\ auto[n]
                     THEN [task EXCEPT ![s][n].state = "sleep"] ELSE task
    BY <1>3 DEF Cleanup
  <2>2. e.stream \in Stream
    BY <1>0, <1>3 DEF Registered, TableTypes, Entry, NoEntry
  <2>3. StreamTypes'
    BY <1>2, <2>1, <2>2 DEF StreamTypes
  <2>4. table' \in [Node -> [Node -> Entry]]
    BY <1>0, <2>1 DEF TableTypes, Entry
  <2>5. \A m, q \in Node :
          table'[m][q] = IF m = n /\ q = p THEN NoEntry ELSE table[m][q]
    BY <1>0, <2>1 DEF TableTypes
  <2>6. \A t \in Stream, m \in Node :
          m \in cancelled'[t] <=>
            \/ m \in cancelled[t]
            \/ m = n /\ Registered(n, p) /\ t = table[n][p].stream
    BY <1>3, <2>1, <2>2 DEF StreamTypes
  <2>7. /\ TableMatchesTasks' /\ EndsInv'
        /\ \A t \in Stream, m \in Node :
             end[t][m] = "closed" => end'[t][m] = "closed"
    BY <1>0, <1>1, <2>5, <2>6, RemoveStep
  <2>8. task' \in [Stream -> [Node -> Task]] /\ TasksClosed'
    <3>1. CASE task' = task
      BY <3>1, <2>7, SameTasks DEF TableTypes
    <3>2. CASE task' = [task EXCEPT ![s][n].state = "sleep"]
      <4>1. task[s][n] \in Task
        BY DEF TableTypes
      <4>2. [task[s][n] EXCEPT !.state = "sleep"] \in Task
        BY <4>1 DEF Task
      <4>3. task' = [task EXCEPT ![s][n] = [task[s][n] EXCEPT !.state = "sleep"]]
        BY <3>2
      <4> QED BY <4>2, <4>3, <1>2, <2>7, OneTask
    <3> QED BY <2>1, <3>1, <3>2
  <2> QED BY <2>3, <2>4, <2>7, <2>8 DEF TableTypes
<1>4. CASE ~Registered(n, p)
  <2>1. UNCHANGED <<cancelled, table, task>>
    BY <1>4 DEF Cleanup
  <2>2. \A m, q \in Node :
          table'[m][q] = IF m = n /\ q = p THEN NoEntry ELSE table[m][q]
    <3>1. table[n][p] \in Entry /\ table[n][p].stream = Nobody
      BY <1>0, <1>4 DEF TableTypes, Registered
    <3>2. table[n][p] = NoEntry
      BY <3>1, NobodyElse DEF Entry
    <3> QED BY <3>2, <2>1
  <2>3. /\ TableMatchesTasks' /\ EndsInv'
        /\ \A t \in Stream, m \in Node :
             end[t][m] = "closed" => end'[t][m] = "closed"
    BY <1>0, <1>1, <1>4, <2>1, <2>2, RemoveStep
  <2>4. StreamTypes' /\ TableTypes'
    BY <1>2, <2>1 DEF StreamTypes, TableTypes
  <2> QED BY <2>1, <2>3, <2>4, SameTasks
<1> QED BY <1>3, <1>4

-----------------------------------------------------------------------------
(* The actions.                                                            *)

\* ConnectToPeer keeps the invariant.
LEMMA CallConnectKeeps ==
  ASSUME PeerInv, NEW n \in Node, NEW p \in Node, CallConnect(n, p)
  PROVE  PeerInv'
<1> USE DEF PeersUnchanged
<1>1. StreamTypes /\ TableTypes /\ PeerTypes /\ CallTypes
  BY TypeGroups DEF PeerInv
<1>2. n # p /\ OpenStream(n, p, Nobody)
  BY DEF CallConnect, Pairs
<1>3. /\ StreamTypes' /\ TableMatchesTasks' /\ EndsInv'
      /\ \A s \in Stream, m \in Node :
           end[s][m] = "closed" => end'[s][m] = "closed"
  BY <1>1, <1>2, OpenStep DEF PeerInv, CallConnect
<1>4. TableTypes' /\ PeerTypes' /\ TasksClosed'
  BY <1>1, <1>3, SameTasks DEF CallConnect, TableTypes, PeerTypes, PeerInv
<1>5. CallTypes'
  <2>1. used' \in [calls : Nat, disconnects : Nat, faults : Nat, toggles : Nat]
    BY <1>1, UsedTypes DEF CallConnect, CallTypes
  <2> QED BY <1>1, <2>1 DEF CallConnect, CallTypes
<1> QED BY <1>3, <1>4, <1>5, TypeGroupsNext DEF PeerInv

\* The handshake at the two ends, up to the registration.
LEMMA HandshakeKeeps ==
  ASSUME PeerInv, NEW n \in Node, NEW s \in Stream,
         AcceptHello(n, s) \/ RegisterInbound(n, s) \/ ReceiveAck(n, s)
         \/ AckFails(n, s)
  PROVE  PeerInv'
<1> USE DEF PeersUnchanged, CallsUnchanged, StreamsUnchanged
<1>1. StreamTypes /\ TableTypes /\ PeerTypes /\ CallTypes
      /\ TableMatchesTasks /\ EndsInv /\ TasksClosed
  BY TypeGroups DEF PeerInv
<1> DEFINE Stays == \A t \in Stream, m \in Node :
                      end[t][m] = "closed" => end'[t][m] = "closed"
           EndType == end' \in [Stream -> [Node -> End]]
           TableType == /\ table' \in [Node -> [Node -> Entry]]
                        /\ owed' \subseteq Node \X Stream
           TaskType == task' \in [Stream -> [Node -> Task]]
<1>2. CASE AcceptHello(n, s)
  <2>1. PICK state \in {"acked", "closed"} :
          end' = [end EXCEPT ![s][n] = state]
    BY <1>2 DEF AcceptHello
  <2>2. EndType /\ TableMatchesTasks' /\ EndsInv' /\ Stays
    BY <1>1, <1>2, <2>1, EndStep DEF AcceptHello
  <2>3. answer' \in [Stream -> {"none", "ok", "already"}]
    BY <1>1, <1>2 DEF AcceptHello, StreamTypes
  <2>4. StreamTypes' /\ TableTypes' /\ PeerTypes' /\ CallTypes'
    BY <1>1, <1>2, <2>2, <2>3
    DEF AcceptHello, StreamTypes, TableTypes, PeerTypes, CallTypes
  <2>5. TasksClosed'
    BY <1>1, <1>2, <2>2, SameTasks DEF AcceptHello
  <2> QED BY <2>2, <2>4, <2>5, TypeGroupsNext DEF PeerInv
<1>3. CASE RegisterInbound(n, s)
  <2>1. EndType /\ TableType /\ TableMatchesTasks' /\ EndsInv' /\ Stays
    BY <1>1, <1>3, RegisterStep DEF RegisterInbound
  <2>2. StreamTypes' /\ TableTypes' /\ PeerTypes' /\ CallTypes'
    BY <1>1, <1>3, <2>1
    DEF RegisterInbound, StreamTypes, TableTypes, PeerTypes, CallTypes
  <2>3. TasksClosed'
    BY <1>1, <1>3, <2>1, SameTasks DEF RegisterInbound
  <2> QED BY <2>1, <2>2, <2>3, TypeGroupsNext DEF PeerInv
<1>4. CASE ReceiveAck(n, s)
  <2>1. EndType /\ TableType /\ TableMatchesTasks' /\ EndsInv' /\ Stays
    <3>1. CASE Register(n, s)
      BY <1>1, <1>4, <3>1, RegisterStep DEF ReceiveAck
    <3>2. CASE end' = [end EXCEPT ![s][n] = "closed"] /\ UNCHANGED <<table, owed>>
      BY <1>1, <1>4, <3>2, EndStep DEF ReceiveAck, TableTypes
    <3> QED BY <1>4, <3>1, <3>2 DEF ReceiveAck
  <2>2. TaskType /\ TasksClosed'
    <3>1. PICK ok \in BOOLEAN : Return(n, s, ok)
      BY <1>4 DEF ReceiveAck, Registered
    <3> QED BY <1>1, <1>4, <2>1, <3>1, ReturnStep DEF ReceiveAck
  <2>3. StreamTypes' /\ TableTypes' /\ PeerTypes' /\ CallTypes'
    BY <1>1, <1>4, <2>1, <2>2
    DEF ReceiveAck, StreamTypes, TableTypes, PeerTypes, CallTypes
  <2> QED BY <2>1, <2>2, <2>3, TypeGroupsNext DEF PeerInv
<1>5. CASE AckFails(n, s)
  <2>1. EndType /\ TableMatchesTasks' /\ EndsInv' /\ Stays
    BY <1>1, <1>5, EndStep DEF AckFails
  <2>2. TaskType /\ TasksClosed'
    BY <1>1, <1>5, <2>1, ReturnStep DEF AckFails
  <2>3. used' \in [calls : Nat, disconnects : Nat, faults : Nat, toggles : Nat]
    BY <1>1, <1>5, UsedTypes DEF AckFails, CallTypes
  <2>4. StreamTypes' /\ TableTypes' /\ PeerTypes' /\ CallTypes'
    BY <1>1, <1>5, <2>1, <2>2, <2>3
    DEF AckFails, StreamTypes, TableTypes, PeerTypes, CallTypes
  <2> QED BY <2>1, <2>2, <2>4, TypeGroupsNext DEF PeerInv
<1> QED BY <1>2, <1>3, <1>4, <1>5

\* The notification of a registered connection, and the read task.
LEMMA ReadTaskKeeps ==
  ASSUME PeerInv, NEW n \in Node, NEW s \in Stream,
         QueueJoin(n, s) \/ ReadLeave(n, s) \/ ReadEnds(n, s)
         \/ ReadCleanup(n, s)
  PROVE  PeerInv'
<1> USE DEF PeersUnchanged, CallsUnchanged, StreamsUnchanged
<1>1. StreamTypes /\ TableTypes /\ PeerTypes /\ CallTypes
      /\ TableMatchesTasks /\ EndsInv /\ TasksClosed
  BY TypeGroups DEF PeerInv
<1>2. CASE QueueJoin(n, s)
  <2>1. TableMatchesTasks' /\ EndsInv'
    BY <1>1, <1>2, QuietStep DEF QueueJoin
  <2>2. [kind |-> "join", peer |-> Other(s, n)] \in Packet
    BY <1>1, <1>2, OtherEnd DEF QueueJoin, EndsInv, OwedEnds, Packet
  <2>3. StreamTypes' /\ TableTypes' /\ PeerTypes' /\ CallTypes'
    BY <1>1, <1>2, <2>2
    DEF QueueJoin, StreamTypes, TableTypes, PeerTypes, CallTypes
  <2>4. TasksClosed'
    BY <1>1, <1>2, SameTasks DEF QueueJoin
  <2> QED BY <2>1, <2>3, <2>4, TypeGroupsNext DEF PeerInv
<1>3. CASE ReadLeave(n, s)
  <2>1. TableMatchesTasks' /\ EndsInv'
    BY <1>1, <1>3, QuietStep DEF ReadLeave
  <2>2. [kind |-> "leave", peer |-> Other(s, n)] \in Packet
    BY <1>1, <1>3, OtherEnd DEF ReadLeave, EndsInv, Packet
  <2>3. StreamTypes' /\ TableTypes' /\ PeerTypes' /\ CallTypes'
    BY <1>1, <1>3, <2>2
    DEF ReadLeave, StreamTypes, TableTypes, PeerTypes, CallTypes
  <2>4. TasksClosed'
    BY <1>1, <1>3, SameTasks DEF ReadLeave
  <2> QED BY <2>1, <2>3, <2>4, TypeGroupsNext DEF PeerInv
<1>4. CASE ReadEnds(n, s)
  <2>1. /\ end' \in [Stream -> [Node -> End]]
        /\ TableMatchesTasks' /\ EndsInv'
        /\ \A t \in Stream, m \in Node :
             end[t][m] = "closed" => end'[t][m] = "closed"
    BY <1>1, <1>4, EndStep DEF ReadEnds
  <2>2. StreamTypes' /\ TableTypes' /\ PeerTypes' /\ CallTypes'
    BY <1>1, <1>4, <2>1
    DEF ReadEnds, StreamTypes, TableTypes, PeerTypes, CallTypes
  <2>3. TasksClosed'
    BY <1>1, <1>4, <2>1, SameTasks DEF ReadEnds
  <2> QED BY <2>1, <2>2, <2>3, TypeGroupsNext DEF PeerInv
<1>5. CASE ReadCleanup(n, s)
  <2>1. /\ StreamTypes' /\ TableTypes' /\ TableMatchesTasks' /\ EndsInv'
        /\ TasksClosed'
    BY <1>1, <1>5, CleanupStep DEF ReadCleanup
  <2>2. PeerTypes' /\ CallTypes'
    BY <1>1, <1>5 DEF ReadCleanup, PeerTypes, CallTypes
  <2> QED BY <2>1, <2>2, TypeGroupsNext DEF PeerInv
<1> QED BY <1>2, <1>3, <1>4, <1>5

\* A round of the reconnect loop.
LEMMA RetryKeeps ==
  ASSUME PeerInv, NEW n \in Node, NEW s \in Stream, Retry(n, s)
  PROVE  PeerInv'
<1> USE DEF PeersUnchanged, CallsUnchanged
<1> DEFINE p == Other(s, n)
<1>1. StreamTypes /\ TableTypes /\ PeerTypes /\ CallTypes
      /\ TableMatchesTasks /\ EndsInv /\ TasksClosed
  BY TypeGroups DEF PeerInv
<1>2. end[s][n] = "closed" /\ task[s][n] \in Task
  BY <1>1 DEF Retry, TasksClosed, TableTypes
<1>3. p \in Node /\ p # n
  BY <1>1, <1>2, OtherEnd DEF EndsInv
<1>4. PeerTypes' /\ CallTypes'
  BY <1>1 DEF Retry, PeerTypes, CallTypes
<1>5. /\ StreamTypes' /\ TableMatchesTasks' /\ EndsInv'
      /\ \A t \in Stream, m \in Node :
           end[t][m] = "closed" => end'[t][m] = "closed"
  <2>1. CASE UNCHANGED <<opened, link, end>>
    <3>1. TableMatchesTasks' /\ EndsInv'
      BY <1>1, <2>1, QuietStep DEF Retry
    <3> QED BY <1>1, <2>1, <3>1 DEF Retry, StreamTypes
  <2>2. CASE OpenStream(n, p, s)
    BY <1>1, <1>2, <1>3, <2>2, OpenStep DEF Retry
  <2> QED BY <2>1, <2>2 DEF Retry
<1>6. PICK x \in Task : task' = [task EXCEPT ![s][n] = x]
  <2>1. /\ [task[s][n] EXCEPT !.state = "done"] \in Task
        /\ [task[s][n] EXCEPT !.state = "trying"] \in Task
    BY <1>2 DEF Task
  <2>2. Failed(task[s][n]) \in Task
    BY <1>2, FailedType
  <2>3. CASE task' = [task EXCEPT ![s][n].state = "done"]
    <3>1. task' = [task EXCEPT ![s][n] = [task[s][n] EXCEPT !.state = "done"]]
      BY <2>3
    <3> QED BY <2>1, <3>1
  <2>4. CASE task' = [task EXCEPT ![s][n].state = "trying"]
    <3>1. task' = [task EXCEPT ![s][n] = [task[s][n] EXCEPT !.state = "trying"]]
      BY <2>4
    <3> QED BY <2>1, <3>1
  <2>5. CASE task' = [task EXCEPT ![s][n] = Failed(@)]
    BY <2>2, <2>5
  <2> QED BY <2>3, <2>4, <2>5 DEF Retry
<1>7. task' \in [Stream -> [Node -> Task]] /\ TasksClosed'
  BY <1>1, <1>2, <1>5, <1>6, OneTask
<1>8. TableTypes'
  BY <1>1, <1>7 DEF Retry, TableTypes
<1> QED BY <1>4, <1>5, <1>7, <1>8, TypeGroupsNext DEF PeerInv

\* Clearing should_reconnect changes nothing else of the table.
LEMMA LeaveStep ==
  ASSUME TableTypes, TableMatchesTasks, EndsInv,
         NEW n \in Node, NEW p \in Node,
         table' = [table EXCEPT ![n][p].reconnect = FALSE],
         UNCHANGED <<opened, link, end, cancelled, owed>>
  PROVE  table' \in [Node -> [Node -> Entry]] /\ TableMatchesTasks' /\ EndsInv'
<1> DEFINE x == [table[n][p] EXCEPT !.reconnect = FALSE]
<1>1. table' = [table EXCEPT ![n][p] = x]
  OBVIOUS
<1>2. table[n][p] \in Entry
  BY DEF TableTypes
<1>3. x \in Entry /\ x.stream = table[n][p].stream
  <2>1. CASE table[n][p] \in [stream : Stream, reconnect : BOOLEAN]
    BY <2>1 DEF Entry
  <2>2. CASE table[n][p] = NoEntry
    <3> DEFINE R == [stream : {Nobody}, reconnect : {FALSE}]
    <3>1. table[n][p] \in R
      BY <2>2 DEF NoEntry
    <3>2. x \in R
      BY <3>1
    <3>3. ASSUME NEW r \in R PROVE r = NoEntry
      BY DEF NoEntry
    <3> HIDE DEF x, R
    <3>4. x = NoEntry
      BY <3>2, <3>3
    <3> QED BY <2>2, <3>4 DEF Entry
  <2> QED BY <1>2, <2>1, <2>2 DEF Entry
<1>4. table' \in [Node -> [Node -> Entry]]
  BY <1>1, <1>3 DEF TableTypes
<1>5. \A m, q \in Node : table'[m][q].stream = table[m][q].stream
  BY <1>1, <1>3 DEF TableTypes
<1>6. EndsInv'
  BY DEF EndsInv, EndsLinked, FreshEnds, OwedEnds, CallersClosed
<1>7. ASSUME NEW m \in Node, NEW q \in Node, Registered(m, q)'
      PROVE  (Running(m, table[m][q].stream)
              /\ Other(table[m][q].stream, m) = q)'
  <2>1. Registered(m, q)
    BY <1>5, <1>7 DEF Registered
  <2>2. Running(m, table[m][q].stream) /\ Other(table[m][q].stream, m) = q
    BY <2>1 DEF TableMatchesTasks
  <2> QED BY <1>5, <2>2 DEF Running, Other
<1>8. ASSUME NEW m \in Node, NEW t \in Stream, Running(m, t)'
      PROVE  table'[m][Other(t, m)'].stream = t
  <2>1. Running(m, t) /\ Other(t, m)' = Other(t, m)
    BY <1>8 DEF Running, Other
  <2>2. Other(t, m) \in Node
    BY <2>1, OtherEnd DEF EndsInv, Running
  <2>3. table[m][Other(t, m)].stream = t
    BY <2>1 DEF TableMatchesTasks
  <2> QED BY <1>5, <2>1, <2>2, <2>3
<1>9. TableMatchesTasks'
  BY <1>7, <1>8 DEF TableMatchesTasks
<1> QED BY <1>4, <1>6, <1>9

\* The message handler, and the second halves of timeout and DisconnectPeer.
LEMMA NodeKeeps ==
  ASSUME PeerInv, NEW n \in Node, NodeStep(n)
  PROVE  PeerInv'
<1> USE DEF CallsUnchanged, StreamsUnchanged
<1>1. StreamTypes /\ TableTypes /\ PeerTypes /\ CallTypes
      /\ TableMatchesTasks /\ EndsInv /\ TasksClosed
  BY TypeGroups DEF PeerInv
<1>2. ASSUME inbox[n] # <<>>
      PROVE  Head(inbox[n]).peer \in Node /\ Tail(inbox[n]) \in Seq(Packet)
  <2>1. inbox[n] \in Seq(Packet)
    BY <1>1 DEF PeerTypes
  <2>2. Head(inbox[n]) \in Packet /\ Tail(inbox[n]) \in Seq(Packet)
    BY <1>2, <2>1
  <2> QED BY <2>2 DEF Packet
<1>3. CASE HandleJoin(n)
  <2>1. TableMatchesTasks' /\ EndsInv'
    BY <1>1, <1>3, QuietStep DEF HandleJoin
  <2>2. member' \in [Node -> [Node -> PeerStatus]]
    BY <1>1, <1>2, <1>3 DEF HandleJoin, PeerTypes, PeerStatus
  <2>3. StreamTypes' /\ TableTypes' /\ PeerTypes' /\ CallTypes'
    BY <1>1, <1>2, <1>3, <2>2
    DEF HandleJoin, StreamTypes, TableTypes, PeerTypes, CallTypes
  <2>4. TasksClosed'
    BY <1>1, <1>3, SameTasks DEF HandleJoin
  <2> QED BY <2>1, <2>3, <2>4, TypeGroupsNext DEF PeerInv
<1>4. CASE HandleLeave(n)
  <2> DEFINE p == Head(inbox[n]).peer
  <2>1. /\ p \in Node
        /\ table' = [table EXCEPT ![n][p].reconnect = FALSE]
        /\ member' = [member EXCEPT ![n][p] = "absent"]
    BY <1>2, <1>4 DEF HandleLeave
  <2>2. table' \in [Node -> [Node -> Entry]] /\ TableMatchesTasks' /\ EndsInv'
    BY <1>1, <1>4, <2>1, LeaveStep DEF HandleLeave
  <2>3. member' \in [Node -> [Node -> PeerStatus]]
    BY <1>1, <2>1 DEF PeerTypes, PeerStatus
  <2>4. StreamTypes' /\ TableTypes' /\ PeerTypes' /\ CallTypes'
    BY <1>1, <1>2, <1>4, <2>2, <2>3
    DEF HandleLeave, StreamTypes, TableTypes, PeerTypes, CallTypes
  <2>5. TasksClosed'
    BY <1>1, <1>4, SameTasks DEF HandleLeave
  <2> QED BY <2>2, <2>4, <2>5, TypeGroupsNext DEF PeerInv
<1>5. CASE TimeoutCut(n)
  <2>1. cutting[n] \in Node /\ Disconnect(n, cutting[n])
    BY <1>1, <1>5 DEF TimeoutCut, PeerTypes
  <2>2. /\ StreamTypes' /\ TableTypes' /\ TableMatchesTasks' /\ EndsInv'
        /\ \A t \in Stream, m \in Node :
             end[t][m] = "closed" => end'[t][m] = "closed"
    BY <1>1, <1>5, <2>1, DisconnectStep DEF TimeoutCut
  <2>3. PeerTypes' /\ CallTypes'
    BY <1>1, <1>5 DEF TimeoutCut, PeerTypes, CallTypes
  <2>4. TasksClosed'
    BY <1>1, <1>5, <2>2, SameTasks DEF TimeoutCut
  <2> QED BY <2>2, <2>3, <2>4, TypeGroupsNext DEF PeerInv
<1>6. CASE RemoveMember(n)
  <2>1. TableMatchesTasks' /\ EndsInv'
    BY <1>1, <1>6, QuietStep DEF RemoveMember
  <2>2. StreamTypes' /\ TableTypes' /\ PeerTypes' /\ CallTypes'
    BY <1>1, <1>6
    DEF RemoveMember, StreamTypes, TableTypes, PeerTypes, CallTypes, PeerStatus
  <2>3. TasksClosed'
    BY <1>1, <1>6, SameTasks DEF RemoveMember
  <2> QED BY <2>1, <2>2, <2>3, TypeGroupsNext DEF PeerInv
<1> QED BY <1>3, <1>4, <1>5, <1>6 DEF NodeStep

\* The first halves, and the application's other calls.
LEMMA PairKeeps ==
  ASSUME PeerInv, NEW n \in Node, NEW p \in Node,
         CallDisconnect(n, p) \/ TimeoutMark(n, p) \/ CallSetAutoReconnect(n)
  PROVE  PeerInv'
<1> USE DEF StreamsUnchanged, PeersUnchanged
<1>1. StreamTypes /\ TableTypes /\ PeerTypes /\ CallTypes
      /\ TableMatchesTasks /\ EndsInv /\ TasksClosed
  BY TypeGroups DEF PeerInv
<1>2. used' \in [calls : Nat, disconnects : Nat, faults : Nat, toggles : Nat]
  BY <1>1, UsedTypes
  DEF CallDisconnect, TimeoutMark, CallSetAutoReconnect, CallTypes
<1>3. CASE CallDisconnect(n, p)
  <2>1. /\ StreamTypes' /\ TableTypes' /\ TableMatchesTasks' /\ EndsInv'
        /\ \A t \in Stream, m \in Node :
             end[t][m] = "closed" => end'[t][m] = "closed"
    BY <1>1, <1>3, DisconnectStep DEF CallDisconnect
  <2>2. PeerTypes' /\ CallTypes'
    BY <1>1, <1>2, <1>3 DEF CallDisconnect, PeerTypes, CallTypes
  <2>3. TasksClosed'
    BY <1>1, <1>3, <2>1, SameTasks DEF CallDisconnect
  <2> QED BY <2>1, <2>2, <2>3, TypeGroupsNext DEF PeerInv
<1>4. CASE TimeoutMark(n, p)
  <2>1. TableMatchesTasks' /\ EndsInv'
    BY <1>1, <1>4, QuietStep DEF TimeoutMark
  <2>2. StreamTypes' /\ TableTypes' /\ PeerTypes' /\ CallTypes'
    BY <1>1, <1>2, <1>4
    DEF TimeoutMark, StreamTypes, TableTypes, PeerTypes, CallTypes, PeerStatus
  <2>3. TasksClosed'
    BY <1>1, <1>4, SameTasks DEF TimeoutMark
  <2> QED BY <2>1, <2>2, <2>3, TypeGroupsNext DEF PeerInv
<1>5. CASE CallSetAutoReconnect(n)
  <2>1. TableMatchesTasks' /\ EndsInv'
    BY <1>1, <1>5, QuietStep DEF CallSetAutoReconnect
  <2>2. auto' \in [Node -> BOOLEAN]
    BY <1>1, <1>5 DEF CallSetAutoReconnect, CallTypes
  <2>3. StreamTypes' /\ TableTypes' /\ PeerTypes' /\ CallTypes'
    BY <1>1, <1>2, <1>5, <2>2
    DEF CallSetAutoReconnect, StreamTypes, TableTypes, PeerTypes, CallTypes
  <2>4. TasksClosed'
    BY <1>1, <1>5, SameTasks DEF CallSetAutoReconnect
  <2> QED BY <2>1, <2>3, <2>4, TypeGroupsNext DEF PeerInv
<1> QED BY <1>3, <1>4, <1>5

\* A cut stream leaves the tables as they are; its tasks notice later.
LEMMA BreakKeeps ==
  ASSUME PeerInv, NEW s \in Stream, Break(s)
  PROVE  PeerInv'
<1> USE DEF PeersUnchanged
<1>1. StreamTypes /\ TableTypes /\ PeerTypes /\ CallTypes
      /\ TableMatchesTasks /\ EndsInv /\ TasksClosed
  BY TypeGroups DEF PeerInv
<1>2. used' \in [calls : Nat, disconnects : Nat, faults : Nat, toggles : Nat]
  BY <1>1, UsedTypes DEF Break, CallTypes
<1>3. TableMatchesTasks' /\ EndsInv'
  BY <1>1, QuietStep DEF Break
<1>4. StreamTypes' /\ TableTypes' /\ PeerTypes' /\ CallTypes'
  BY <1>1, <1>2 DEF Break, StreamTypes, TableTypes, PeerTypes, CallTypes
<1>5. TasksClosed'
  BY <1>1, SameTasks DEF Break
<1> QED BY <1>3, <1>4, <1>5, TypeGroupsNext DEF PeerInv

-----------------------------------------------------------------------------
(* The theorems.                                                           *)

\* The invariant holds when nothing is connected yet.
LEMMA PeerInit == Init => PeerInv
<1> SUFFICES ASSUME Init PROVE PeerInv
  OBVIOUS
<1>1. TableMatchesTasks
  BY DEF Init, TableMatchesTasks, Registered, Running, NoEntry
<1>2. EndsLinked /\ FreshEnds /\ OwedEnds
  BY DEF Init, EndsLinked, FreshEnds, OwedEnds
<1>3. CallersClosed /\ TasksClosed
  BY DEF Init, CallersClosed, TasksClosed, NoLink, NoTask
<1> QED BY <1>1, <1>2, <1>3, InitTypes DEF PeerInv, EndsInv

\* Every step keeps the invariant.
LEMMA PeerNext == PeerInv /\ [Next]_vars => PeerInv'
<1> SUFFICES ASSUME PeerInv, [Next]_vars PROVE PeerInv'
  OBVIOUS
<1>1. CASE UNCHANGED vars
  <2>1. TypeOK'
    BY <1>1 DEF vars, PeerInv, TypeOK
  <2>2. TableMatchesTasks' /\ EndsInv'
    BY <1>1, QuietStep DEF vars, PeerInv
  <2>3. TasksClosed'
    BY <1>1 DEF vars, PeerInv, TasksClosed
  <2> QED BY <2>1, <2>2, <2>3 DEF PeerInv
<1>2. ASSUME NEW n \in Node, NodeStep(n) PROVE PeerInv'
  BY <1>2, NodeKeeps
<1>3. ASSUME NEW n \in Node, CallSetAutoReconnect(n) PROVE PeerInv'
  BY <1>3, PairKeeps
<1>4. ASSUME NEW n \in Node, NEW s \in Stream, StreamStep(n, s) PROVE PeerInv'
  BY <1>4, HandshakeKeeps, ReadTaskKeeps, RetryKeeps DEF StreamStep
<1>5. ASSUME NEW n \in Node, NEW p \in Node, PairStep(n, p) PROVE PeerInv'
  BY <1>5, CallConnectKeeps, PairKeeps DEF PairStep
<1>6. ASSUME NEW s \in Stream, Break(s) PROVE PeerInv'
  BY <1>6, BreakKeeps
<1> QED BY <1>1, <1>2, <1>3, <1>4, <1>5, <1>6 DEF Next

\* Every variable of the connection table, the streams and the tasks keeps
\* its type, the saturating attempt counter included.
THEOREM PeeringTypeCorrect == Spec => []TypeOK
<1>1. PeerInv => TypeOK
  BY DEF PeerInv
<1> QED BY PeerInit, PeerNext, <1>1, PTL DEF Spec

\* The connection table of src/transport.rs agrees with the tasks that run,
\* for any number of peers and streams: crossed connections, stale cleanups,
\* timeouts, disconnects and reconnects leave neither an entry without tasks
\* nor tasks without an entry.
THEOREM TableAgrees == Spec => []TableMatchesTasks
<1>1. PeerInv => TableMatchesTasks
  BY DEF PeerInv
<1> QED BY PeerInit, PeerNext, <1>1, PTL DEF Spec
=============================================================================
