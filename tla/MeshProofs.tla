------------------------------ MODULE MeshProofs -------------------------------
(***************************************************************************)
(* Theorems about Mesh, for every set of nodes, every division of them     *)
(* into sessions and every value of the bounds.                            *)
(***************************************************************************)
EXTENDS Mesh, TLAPS

-----------------------------------------------------------------------------
(* The inductive invariant.                                                *)

\* The acceptor has compared the sessions and found them equal.
Vouched(r) ==
  r.answer = "ok" \/ r.end["acc"] \in {"acked", "listed", "open"} \/ r.end["con"] = "open"

\* A stream in the state r: no reconnect task makes an attempt too many, and
\* what follows an acceptance joins two nodes of a session.
Sound(s, r) ==
  /\ r \in StreamState
  /\ MaxRetries > 0 => r.tries <= MaxRetries
  /\ Vouched(r) => Session[s[1]] = Session[s[2]]

SoundStreams(f) ==
  /\ f = [s \in Stream |-> f[s]]
  /\ \A s \in Stream : Sound(s, f[s])

NodesOK ==
  /\ up \subseteq Node /\ gone \subseteq Node
  /\ advertised \subseteq Node /\ browsing \subseteq Node
  /\ found \in [Node -> SUBSET Node]

HistoryOK == told \subseteq SUBSET Node /\ hurt \subseteq SUBSET Node /\ trouble \in Nat

TableOK ==
  /\ table \in [Node -> [Node -> Entry]]
  /\ \A n, p \in Node : Registered(n, p) => Session[n] = Session[p]

MemberOK ==
  /\ member \in [Node -> [Node -> PeerStatus]]
  /\ \A n, p \in Node : member[n][p] # "absent" => Session[n] = Session[p]

MeshInv ==
  /\ NodesOK /\ HistoryOK
  /\ dials \in [Pair -> 0 .. MaxDials]
  /\ SoundStreams(stream)
  /\ TableOK
  /\ inbox \in [Node -> Seq(Packet)]
  /\ MemberOK

-----------------------------------------------------------------------------
(* Streams.                                                                *)

LEMMA EndParts ==
  ASSUME NEW e \in End
  PROVE  /\ e[1] \in Stream /\ e[2] \in Side
         /\ OwnerOf(e) \in Node /\ PeerOf(e) \in Node
         /\ {OwnerOf(e), PeerOf(e)} = {e[1][1], e[1][2]}
BY DEF End, Stream, Side, OwnerOf, PeerOf

LEMMA StreamParts ==
  ASSUME NEW s \in Stream
  PROVE  /\ s[1] \in Node /\ s[2] \in Node /\ {s[1], s[2]} \in Pair
         /\ <<s, "con">> \in End /\ <<s, "acc">> \in End
BY DEF End, Stream, Side, Pair

LEMMA FreeSound ==
  ASSUME NEW s \in Stream
  PROVE  Sound(s, Free)
BY MeshAssumption DEF Sound, Free, StreamState, Vouched, EndState, Side, Answer

LEMMA CallingSound ==
  ASSUME NEW s \in Stream, NEW t \in Nat, MaxRetries > 0 => t <= MaxRetries
  PROVE  Sound(s, Calling(t))
BY MeshAssumption DEF Sound, Calling, Free, StreamState, Vouched, EndState, Side, Answer

\* An end that closes vouches for nothing new.
LEMMA ClosedEnd ==
  ASSUME NEW s \in Stream, NEW r, Sound(s, r), NEW x \in Side
  PROVE  Sound(s, [r EXCEPT !.end[x] = "closed"])
BY DEF Sound, StreamState, Vouched, EndState, Side

LEMMA ClosedSound ==
  ASSUME NEW f, SoundStreams(f), NEW e \in End
  PROVE  SoundStreams(Closed(f, e))
<1> DEFINE s == e[1]
           r == [f[s] EXCEPT !.end[e[2]] = "closed"]
           v == IF \A x \in Side : r.end[x] = "closed" THEN Free ELSE r
<1>1. s \in Stream /\ e[2] \in Side
  BY EndParts
<1>2. Sound(s, r)
  BY <1>1, ClosedEnd DEF SoundStreams
<1>3. Sound(s, v)
  BY <1>1, <1>2, FreeSound
<1>4. Closed(f, e) = [f EXCEPT ![s] = v]
  BY DEF Closed
<1> HIDE DEF s, v
<1> QED BY <1>1, <1>3, <1>4 DEF SoundStreams

LEMMA RedialSound ==
  ASSUME NEW f, SoundStreams(f), NEW n \in Node, NEW p \in Node,
         NEW t \in Nat, MaxRetries > 0 => t <= MaxRetries,
         dials \in [Pair -> 0 .. MaxDials], Redial(f, n, p, t)
  PROVE  SoundStreams(stream)' /\ dials' \in [Pair -> 0 .. MaxDials]
<1> DEFINE k == dials[{n, p}] + 1
<1>1. {n, p} \in Pair /\ k \in 1 .. MaxDials
  BY MeshAssumption DEF Redial, Pair
<1>2. <<n, p, k>> \in Stream
  BY <1>1 DEF Stream
<1>3. stream' = [f EXCEPT ![<<n, p, k>>] = Calling(t)]
  BY DEF Redial
<1>4. Sound(<<n, p, k>>, Calling(t))
  BY <1>2, CallingSound
<1>5. SoundStreams(stream')
  BY <1>2, <1>3, <1>4 DEF SoundStreams
<1>6. dials' = [dials EXCEPT ![{n, p}] = k] /\ k \in 0 .. MaxDials
  BY <1>1, MeshAssumption DEF Redial
<1>7. dials' \in [Pair -> 0 .. MaxDials]
  <2> HIDE DEF k
  <2> QED BY <1>1, <1>6
<1> QED BY <1>5, <1>7 DEF SoundStreams, Sound, Vouched

LEMMA DialEachSound ==
  ASSUME SoundStreams(stream), NEW n \in Node, NEW ps, ps \subseteq Node,
         dials \in [Pair -> 0 .. MaxDials], DialEach(n, ps)
  PROVE  SoundStreams(stream)' /\ dials' \in [Pair -> 0 .. MaxDials]
<1>1. \A s \in Stream : Sound(s, Calling(0))
  BY MeshAssumption, CallingSound
<1>2. \A s \in Stream : stream'[s] = Calling(0) \/ stream'[s] = stream[s]
  BY DEF DialEach
<1>3. stream' = [s \in Stream |-> stream'[s]]
  BY DEF DialEach
<1>4. SoundStreams(stream')
  BY <1>1, <1>2, <1>3 DEF SoundStreams
<1>5. ASSUME NEW d \in Pair
      PROVE  dials'[d] \in 0 .. MaxDials
  BY MeshAssumption DEF DialEach
<1>6. dials' = [d \in Pair |-> dials'[d]]
  BY DEF DialEach
<1>7. dials' \in [Pair -> 0 .. MaxDials]
  BY <1>5, <1>6
<1> QED BY <1>4, <1>7 DEF SoundStreams, Sound, Vouched

LEMMA DialFailsSound ==
  ASSUME SoundStreams(stream), NEW s \in Stream,
         dials \in [Pair -> 0 .. MaxDials], DialFails(s)
  PROVE  SoundStreams(stream)' /\ dials' \in [Pair -> 0 .. MaxDials]
<1> DEFINE t == stream[s].tries
           f == Closed(stream, <<s, "con">>)
<1>1. SoundStreams(f)
  BY StreamParts, ClosedSound
<1>2. t \in Nat /\ (MaxRetries > 0 => t <= MaxRetries)
  BY DEF SoundStreams, Sound, StreamState
<1>3. CASE TriesLeft(t)
  <2> DEFINE u == IF MaxRetries = 0 THEN t ELSE t + 1
  <2>1. Redial(f, s[1], s[2], u)
    BY <1>3 DEF DialFails
  <2>2. u \in Nat /\ (MaxRetries > 0 => u <= MaxRetries)
    BY <1>2, <1>3, MeshAssumption DEF TriesLeft
  <2> HIDE DEF u, f
  <2> QED BY <1>1, <2>1, <2>2, StreamParts, RedialSound
<1>4. CASE ~TriesLeft(t)
  <2>1. stream' = f /\ dials' = dials
    BY <1>4 DEF DialFails, Becomes
  <2> HIDE DEF f
  <2> QED BY <1>1, <2>1 DEF SoundStreams, Sound, Vouched
<1> QED BY <1>3, <1>4

-----------------------------------------------------------------------------
(* Every step preserves the invariant.                                     *)

LEMMA InitInv == Init => MeshInv
<1> SUFFICES ASSUME Init
             PROVE  MeshInv
  OBVIOUS
<1>1. NodesOK /\ HistoryOK
  BY MeshAssumption DEF Init, NodesOK, HistoryOK
<1>2. dials \in [Pair -> 0 .. MaxDials]
  BY MeshAssumption DEF Init
<1>3. SoundStreams(stream)
  BY FreeSound DEF Init, SoundStreams
<1>4. TableOK
  BY DEF Init, TableOK, Entry, NoEntry, Registered
<1>5. inbox \in [Node -> Seq(Packet)]
  BY DEF Init
<1>6. MemberOK
  BY DEF Init, MemberOK, PeerStatus
<1> QED BY <1>1, <1>2, <1>3, <1>4, <1>5, <1>6 DEF MeshInv

\* The parts a step leaves alone are preserved.
LEMMA Unmoved ==
  ASSUME MeshInv
  PROVE  /\ UNCHANGED <<up, gone, advertised, browsing, found>> => NodesOK'
         /\ UNCHANGED <<told, hurt, trouble>> => HistoryOK'
         /\ UNCHANGED <<dials, stream>> =>
              SoundStreams(stream)' /\ dials' \in [Pair -> 0 .. MaxDials]
         /\ UNCHANGED table => TableOK'
         /\ UNCHANGED inbox => inbox' \in [Node -> Seq(Packet)]
         /\ UNCHANGED member => MemberOK'
BY DEF MeshInv, NodesOK, HistoryOK, SoundStreams, Sound, Vouched, TableOK,
       Registered, MemberOK

\* A step that changes one stream.
LEMMA OneStream ==
  ASSUME MeshInv, NEW s \in Stream, NEW r, Sound(s, r),
         stream' = [stream EXCEPT ![s] = r], dials' = dials
  PROVE  SoundStreams(stream)' /\ dials' \in [Pair -> 0 .. MaxDials]
<1>1. SoundStreams(stream')
  BY DEF MeshInv, SoundStreams
<1> QED BY <1>1 DEF MeshInv, SoundStreams, Sound, Vouched

\* An end that closes, alone or after other changes f of the streams.
LEMMA OneEnd ==
  ASSUME MeshInv, NEW f, SoundStreams(f), NEW e \in End,
         stream' = Closed(f, e), dials' = dials
  PROVE  SoundStreams(stream)' /\ dials' \in [Pair -> 0 .. MaxDials]
<1>1. SoundStreams(stream')
  BY ClosedSound
<1> QED BY <1>1 DEF MeshInv, SoundStreams, Sound, Vouched

\* A pair is a set of nodes, and a step of trouble counts it.
LEMMA HistoryGrows ==
  ASSUME MeshInv,
         told' \subseteq told \cup SUBSET Node, hurt' \subseteq hurt \cup SUBSET Node,
         Trouble \/ UNCHANGED trouble
  PROVE  HistoryOK'
BY DEF MeshInv, HistoryOK, Trouble

LEMMA StartInv ==
  ASSUME MeshInv, NEW n \in Node, Start(n)
  PROVE  MeshInv'
<1>1. NodesOK'
  BY DEF MeshInv, NodesOK, Start
<1> QED BY <1>1, Unmoved DEF Start, MeshInv

LEMMA ResolveInv ==
  ASSUME MeshInv, NEW n \in Node, NEW p \in Node, Resolve(n, p)
  PROVE  MeshInv'
<1>1. NodesOK'
  BY DEF MeshInv, NodesOK, Resolve, NodesUnchanged
<1>2. SoundStreams(stream)' /\ dials' \in [Pair -> 0 .. MaxDials]
  BY DialEachSound DEF MeshInv, Resolve
<1> QED BY <1>1, <1>2, Unmoved DEF Resolve, MeshInv

LEMMA CallConnectInv ==
  ASSUME MeshInv, NEW n \in Node, NEW p \in Node, CallConnect(n, p)
  PROVE  MeshInv'
<1>1. SoundStreams(stream)' /\ dials' \in [Pair -> 0 .. MaxDials]
  BY DialEachSound DEF MeshInv, CallConnect
<1>2. HistoryOK'
  BY HistoryGrows DEF CallConnect
<1> QED BY <1>1, <1>2, Unmoved DEF CallConnect, NodesUnchanged, MeshInv

LEMMA ConnectInv ==
  ASSUME MeshInv, NEW s \in Stream, Connect(s)
  PROVE  MeshInv'
<1>1. s[1] \in Node /\ s[2] \in Node
  BY StreamParts
<1>2. SoundStreams(stream)' /\ dials' \in [Pair -> 0 .. MaxDials]
  <2>1. CASE DialFails(s)
    BY <2>1, DialFailsSound DEF MeshInv
  <2>2. CASE Becomes([stream EXCEPT ![s].end = [x \in Side |-> "hello"]])
    <3> DEFINE r == [stream[s] EXCEPT !.end = [x \in Side |-> "hello"]]
    <3>1. Sound(s, r)
      <4>1. Sound(s, stream[s])
        BY DEF MeshInv, SoundStreams
      <4> QED BY <4>1 DEF Sound, StreamState, Vouched, EndState, Side
    <3>2. stream' = [stream EXCEPT ![s] = r] /\ dials' = dials
      BY <2>2 DEF Becomes
    <3> HIDE DEF r
    <3> QED BY <3>1, <3>2, OneStream
  <2> QED BY <2>1, <2>2 DEF Connect
<1>3. HistoryOK'
  BY <1>1, HistoryGrows DEF Connect
<1> QED BY <1>2, <1>3, Unmoved DEF Connect, NodesUnchanged, MeshInv

\* register_connection by an end the acceptor has vouched for.
LEMMA InsertSound ==
  ASSUME MeshInv, NEW e \in End, Vouched(stream[e[1]]), Insert(e)
  PROVE  /\ SoundStreams(stream)' /\ dials' \in [Pair -> 0 .. MaxDials]
         /\ TableOK' /\ inbox' \in [Node -> Seq(Packet)]
         /\ hurt' \subseteq hurt \cup SUBSET Node
<1> DEFINE n == OwnerOf(e)
           p == PeerOf(e)
           r == [stream[e[1]] EXCEPT !.end[e[2]] = "open"]
<1>1. /\ e[1] \in Stream /\ e[2] \in Side /\ n \in Node /\ p \in Node
      /\ {n, p} = {e[1][1], e[1][2]}
  BY EndParts
<1>2. Sound(e[1], stream[e[1]])
  BY <1>1 DEF MeshInv, SoundStreams
<1>3. Session[n] = Session[p]
  BY <1>2 DEF Sound, OwnerOf, PeerOf
<1>4. Sound(e[1], r)
  BY <1>1, <1>2 DEF Sound, StreamState, Vouched, EndState, Side
<1>5. stream' = [stream EXCEPT ![e[1]] = r] /\ dials' = dials
  BY DEF Insert, Becomes
<1>6. SoundStreams(stream)' /\ dials' \in [Pair -> 0 .. MaxDials]
  <2> HIDE DEF r
  <2> QED BY <1>1, <1>4, <1>5, OneStream
<1>7. TableOK'
  <2>1. NewEntry(e) \in Entry
    BY DEF NewEntry, Entry
  <2>2. table' = [table EXCEPT ![n][p] = NewEntry(e)]
    BY DEF Insert
  <2>3. table' \in [Node -> [Node -> Entry]]
    BY <1>1, <2>1, <2>2 DEF MeshInv, TableOK
  <2>4. \A m, q \in Node : table'[m][q] = table[m][q] \/ (m = n /\ q = p)
    BY <1>1, <2>2 DEF MeshInv, TableOK
  <2>5. \A m, q \in Node : Registered(m, q)' => Session[m] = Session[q]
    <3> SUFFICES ASSUME NEW m \in Node, NEW q \in Node, Registered(m, q)'
                 PROVE  Session[m] = Session[q]
      OBVIOUS
    <3>1. CASE m = n /\ q = p
      BY <1>3, <3>1
    <3>2. CASE table'[m][q] = table[m][q]
      BY <3>2 DEF MeshInv, TableOK, Registered
    <3> QED BY <2>4, <3>1, <3>2
  <2> QED BY <2>3, <2>5 DEF TableOK
<1>8. inbox' \in [Node -> Seq(Packet)]
  <2> DEFINE k == [kind |-> "join", peer |-> p, list |-> {}]
  <2>1. k \in Packet
    BY <1>1 DEF Packet
  <2>2. inbox' = [inbox EXCEPT ![n] = Append(@, k)]
    BY DEF Insert
  <2> HIDE DEF k
  <2> QED BY <1>1, <2>1, <2>2 DEF MeshInv
<1>9. hurt' \subseteq hurt \cup SUBSET Node
  BY <1>1 DEF Insert
<1> QED BY <1>6, <1>7, <1>8, <1>9

LEMMA RefuseHurts ==
  ASSUME NEW e \in End, Refuse(e)
  PROVE  hurt' \subseteq hurt \cup SUBSET Node
BY EndParts DEF Refuse

LEMMA ReceiveAckInv ==
  ASSUME MeshInv, NEW s \in Stream, ReceiveAck(s)
  PROVE  MeshInv'
<1> DEFINE e == <<s, "con">>
<1>1. e \in End /\ e[1] = s
  BY StreamParts
<1>2. /\ SoundStreams(stream)' /\ dials' \in [Pair -> 0 .. MaxDials]
      /\ TableOK' /\ inbox' \in [Node -> Seq(Packet)]
      /\ hurt' \subseteq hurt \cup SUBSET Node
  <2>1. CASE stream[s].answer = "ok" /\ Insert(e)
    <3>1. Vouched(stream[e[1]])
      BY <1>1, <2>1 DEF Vouched
    <3> HIDE DEF e
    <3> QED BY <1>1, <2>1, <3>1, InsertSound
  <2>2. CASE Refuse(e) /\ DialFails(s)
    BY <1>1, <2>2, RefuseHurts, DialFailsSound, Unmoved DEF MeshInv, Refuse
  <2>3. CASE DialFails(s) /\ UNCHANGED <<table, inbox, hurt>>
    BY <2>3, DialFailsSound, Unmoved DEF MeshInv
  <2> QED BY <2>1, <2>2, <2>3 DEF ReceiveAck
<1>3. HistoryOK'
  BY <1>2, HistoryGrows DEF ReceiveAck
<1> QED BY <1>2, <1>3, Unmoved DEF ReceiveAck, NodesUnchanged, MeshInv

LEMMA AckFailsInv ==
  ASSUME MeshInv, NEW s \in Stream, AckFails(s)
  PROVE  MeshInv'
<1>1. s[1] \in Node /\ s[2] \in Node
  BY StreamParts
<1>2. SoundStreams(stream)' /\ dials' \in [Pair -> 0 .. MaxDials]
  BY DialFailsSound DEF MeshInv, AckFails
<1>3. HistoryOK'
  BY <1>1, HistoryGrows DEF AckFails
<1> QED BY <1>2, <1>3, Unmoved DEF AckFails, NodesUnchanged, MeshInv

LEMMA AcceptHelloInv ==
  ASSUME MeshInv, NEW s \in Stream, AcceptHello(s)
  PROVE  MeshInv'
<1> DEFINE e == <<s, "acc">>
           Reply(a) == [stream EXCEPT ![s].answer = a]
           r == [stream[s] EXCEPT !.answer = "ok", !.end["acc"] = "acked"]
<1>1. s[1] \in Node /\ s[2] \in Node /\ e \in End
  BY StreamParts
<1>2. Sound(s, stream[s]) /\ SoundStreams(stream)
  BY DEF MeshInv, SoundStreams
<1>3. ASSUME NEW a \in {"refused", "already"}
      PROVE  SoundStreams(Reply(a))
  <2>1. Sound(s, [stream[s] EXCEPT !.answer = a])
    BY <1>2 DEF Sound, StreamState, Vouched, Answer, Side
  <2>2. Reply(a) = [stream EXCEPT ![s] = [stream[s] EXCEPT !.answer = a]]
    BY <1>2 DEF SoundStreams
  <2> QED BY <1>2, <2>1, <2>2 DEF SoundStreams
<1>4. SoundStreams(stream)' /\ dials' \in [Pair -> 0 .. MaxDials]
  <2>1. CASE stream' = Closed(stream, e)
    BY <1>1, <1>2, <2>1, OneEnd DEF AcceptHello
  <2>2. CASE stream' = Closed(Reply("refused"), e)
    <3>1. SoundStreams(Reply("refused")) /\ dials' = dials
      BY <1>3 DEF AcceptHello
    <3> HIDE DEF Reply
    <3> QED BY <1>1, <2>2, <3>1, OneEnd
  <2>3. CASE stream' = Closed(Reply("already"), e)
    <3>1. SoundStreams(Reply("already")) /\ dials' = dials
      BY <1>3 DEF AcceptHello
    <3> HIDE DEF Reply
    <3> QED BY <1>1, <2>3, <3>1, OneEnd
  <2>4. CASE /\ SessionMatches(s[1], s[2])
             /\ stream' = [Reply("ok") EXCEPT ![s].end["acc"] = "acked"]
    <3>1. Sound(s, r)
      BY <1>2, <2>4 DEF Sound, StreamState, EndState, Answer, Side, SessionMatches
    <3>2. stream' = [stream EXCEPT ![s] = r]
      BY <1>2, <2>4 DEF SoundStreams
    <3>3. dials' = dials
      BY DEF AcceptHello
    <3> HIDE DEF r
    <3> QED BY <3>1, <3>2, <3>3, OneStream
  <2> QED BY <2>1, <2>2, <2>3, <2>4 DEF AcceptHello
<1>5. HistoryOK'
  BY <1>1, HistoryGrows DEF AcceptHello
<1> QED BY <1>4, <1>5, Unmoved DEF AcceptHello, NodesUnchanged, MeshInv

LEMMA SendListInv ==
  ASSUME MeshInv, NEW s \in Stream, SendList(s)
  PROVE  MeshInv'
<1> DEFINE ps == IF stream[s].broken THEN {} ELSE {m \in Node : Registered(s[2], m)}
           r == [stream[s] EXCEPT !.end["acc"] = "listed", !.list = ps]
<1>1. Sound(s, stream[s]) /\ stream = [q \in Stream |-> stream[q]]
  BY DEF MeshInv, SoundStreams
<1>2. ps \in SUBSET Node
  OBVIOUS
<1>3. Sound(s, r)
  <2> HIDE DEF ps
  <2> QED BY <1>1, <1>2 DEF SendList, Sound, StreamState, Vouched, EndState, Side
<1>4. stream' = [stream EXCEPT ![s] = r] /\ dials' = dials
  <2>1. stream' = [stream EXCEPT ![s].end["acc"] = "listed", ![s].list = ps]
    BY DEF SendList
  <2>2. dials' = dials
    BY DEF SendList
  <2> HIDE DEF ps
  <2> QED BY <1>1, <2>1, <2>2
<1>5. SoundStreams(stream)' /\ dials' \in [Pair -> 0 .. MaxDials]
  <2> HIDE DEF r
  <2> QED BY <1>3, <1>4, OneStream
<1> QED BY <1>5, Unmoved DEF SendList, NodesUnchanged, MeshInv

LEMMA RegisterInboundInv ==
  ASSUME MeshInv, NEW s \in Stream, RegisterInbound(s)
  PROVE  MeshInv'
<1> DEFINE e == <<s, "acc">>
<1>1. e \in End /\ e[1] = s
  BY StreamParts
<1>2. /\ SoundStreams(stream)' /\ dials' \in [Pair -> 0 .. MaxDials]
      /\ TableOK' /\ inbox' \in [Node -> Seq(Packet)]
      /\ hurt' \subseteq hurt \cup SUBSET Node
  <2>1. CASE Insert(e)
    <3>1. Vouched(stream[e[1]])
      BY <1>1 DEF RegisterInbound, Vouched
    <3> HIDE DEF e
    <3> QED BY <1>1, <2>1, <3>1, InsertSound
  <2>2. CASE Refuse(e) /\ Becomes(Closed(stream, e))
    BY <1>1, <2>2, RefuseHurts, OneEnd, Unmoved DEF MeshInv, Refuse, Becomes
  <2> QED BY <2>1, <2>2 DEF RegisterInbound
<1>3. HistoryOK'
  BY <1>2, HistoryGrows DEF RegisterInbound
<1> QED BY <1>2, <1>3, Unmoved DEF RegisterInbound, NodesUnchanged, MeshInv

LEMMA ReadInv ==
  ASSUME MeshInv, NEW e \in End, Read(e)
  PROVE  MeshInv'
<1> DEFINE s == e[1]
           n == OwnerOf(e)
           p == PeerOf(e)
           Hands(k) == inbox' = [inbox EXCEPT ![n] = Append(@, k)]
<1>1. s \in Stream /\ e[2] \in Side /\ n \in Node /\ p \in Node
  BY EndParts
<1>2. Sound(s, stream[s]) /\ stream = [q \in Stream |-> stream[q]]
  BY <1>1 DEF MeshInv, SoundStreams
<1>3. stream[s].list \in SUBSET Node /\ stream[s].leaves \in SUBSET Side
  BY <1>2 DEF Sound, StreamState
<1>4. ASSUME NEW k \in Packet, Hands(k)
      PROVE  inbox' \in [Node -> Seq(Packet)]
  <2> HIDE DEF n
  <2> QED BY <1>1, <1>4 DEF MeshInv
<1>5. CASE /\ Hands([kind |-> "list", peer |-> p, list |-> stream[s].list])
           /\ stream' = [stream EXCEPT ![s].list = {}]
  <2> DEFINE r == [stream[s] EXCEPT !.list = {}]
  <2>1. [kind |-> "list", peer |-> p, list |-> stream[s].list] \in Packet
    BY <1>1, <1>3 DEF Packet
  <2>2. inbox' \in [Node -> Seq(Packet)]
    BY <1>4, <1>5, <2>1
  <2>3. Sound(s, r)
    BY <1>2 DEF Sound, StreamState, Vouched
  <2>4. stream' = [stream EXCEPT ![s] = r] /\ dials' = dials
    BY <1>1, <1>2, <1>5 DEF Read
  <2>5. SoundStreams(stream)' /\ dials' \in [Pair -> 0 .. MaxDials]
    <3> HIDE DEF r
    <3> QED BY <1>1, <2>3, <2>4, OneStream
  <2> QED BY <2>2, <2>5, Unmoved DEF Read, NodesUnchanged, MeshInv
<1>6. CASE /\ Hands([kind |-> "leave", peer |-> p, list |-> {}])
           /\ stream' = [stream EXCEPT ![s].leaves = @ \ {Opposite(e[2])}]
  <2> DEFINE r == [stream[s] EXCEPT !.leaves = @ \ {Opposite(e[2])}]
  <2>1. [kind |-> "leave", peer |-> p, list |-> {}] \in Packet
    BY <1>1 DEF Packet
  <2>2. inbox' \in [Node -> Seq(Packet)]
    BY <1>4, <1>6, <2>1
  <2>3. Sound(s, r)
    BY <1>2, <1>3 DEF Sound, StreamState, Vouched
  <2>4. stream' = [stream EXCEPT ![s] = r] /\ dials' = dials
    BY <1>1, <1>2, <1>6 DEF Read
  <2>5. SoundStreams(stream)' /\ dials' \in [Pair -> 0 .. MaxDials]
    <3> HIDE DEF r
    <3> QED BY <1>1, <2>3, <2>4, OneStream
  <2> QED BY <2>2, <2>5, Unmoved DEF Read, NodesUnchanged, MeshInv
<1> QED BY <1>5, <1>6 DEF Read

LEMMA ReadEndsInv ==
  ASSUME MeshInv, NEW e \in End, ReadEnds(e)
  PROVE  MeshInv'
<1> DEFINE n == OwnerOf(e)
           p == PeerOf(e)
           f == Closed(stream, e)
<1>1. n \in Node /\ p \in Node
  BY EndParts
<1>2. SoundStreams(f)
  BY ClosedSound DEF MeshInv
<1>3. SoundStreams(stream)' /\ dials' \in [Pair -> 0 .. MaxDials]
  <2>1. CASE Redial(f, n, p, 1)
    <3>1. MaxRetries > 0 => 1 <= MaxRetries
      BY MeshAssumption
    <3>2. dials \in [Pair -> 0 .. MaxDials]
      BY DEF MeshInv
    <3> HIDE DEF f, n, p
    <3> QED BY <1>1, <1>2, <2>1, <3>1, <3>2, RedialSound
  <2>2. CASE Becomes(f)
    BY <2>2, OneEnd DEF MeshInv, Becomes
  <2> QED BY <2>1, <2>2 DEF ReadEnds
<1>4. TableOK'
  <2>1. table' = [table EXCEPT ![n][p] = NoEntry]
    BY DEF ReadEnds
  <2>2. NoEntry \in Entry
    BY DEF NoEntry, Entry
  <2>3. table' \in [Node -> [Node -> Entry]]
    BY <1>1, <2>1, <2>2 DEF MeshInv, TableOK
  <2>4. \A m, q \in Node : table'[m][q] = table[m][q] \/ table'[m][q] = NoEntry
    BY <1>1, <2>1 DEF MeshInv, TableOK
  <2>5. \A m, q \in Node : Registered(m, q)' => Registered(m, q)
    BY <2>4 DEF Registered, NoEntry
  <2> QED BY <2>3, <2>5 DEF MeshInv, TableOK
<1> QED BY <1>3, <1>4, Unmoved DEF ReadEnds, NodesUnchanged, MeshInv

\* The handler takes the oldest packet.
LEMMA ArrivesParts ==
  ASSUME MeshInv, NEW n \in Node, NEW kind, Arrives(n, kind)
  PROVE  /\ inbox' \in [Node -> Seq(Packet)]
         /\ Head(inbox[n]).peer \in Node /\ Head(inbox[n]).list \in SUBSET Node
<1>1. inbox[n] \in Seq(Packet) /\ inbox[n] # <<>>
  BY DEF MeshInv, Arrives
<1>2. Head(inbox[n]) \in Packet /\ Tail(inbox[n]) \in Seq(Packet)
  BY <1>1
<1>3. inbox' \in [Node -> Seq(Packet)]
  BY <1>2 DEF MeshInv, Arrives
<1> QED BY <1>2, <1>3 DEF Packet

LEMMA OnJoinInv ==
  ASSUME MeshInv, NEW n \in Node, OnJoin(n)
  PROVE  MeshInv'
<1> DEFINE p == Head(inbox[n]).peer
<1>1. inbox' \in [Node -> Seq(Packet)] /\ p \in Node
  BY ArrivesParts DEF OnJoin
<1>2. MemberOK'
  <2>1. CASE Registered(n, p) /\ member' = [member EXCEPT ![n][p] = "Connected"]
    <3>1. Session[n] = Session[p]
      BY <1>1, <2>1 DEF MeshInv, TableOK
    <3>2. member' \in [Node -> [Node -> PeerStatus]]
      BY <1>1, <2>1 DEF MeshInv, MemberOK, PeerStatus
    <3>3. \A m, q \in Node : member'[m][q] = member[m][q] \/ (m = n /\ q = p)
      BY <1>1, <2>1 DEF MeshInv, MemberOK
    <3> HIDE DEF p
    <3> QED BY <3>1, <3>2, <3>3 DEF MeshInv, MemberOK
  <2>2. CASE member' = member
    BY <2>2, Unmoved
  <2> QED BY <2>1, <2>2 DEF OnJoin
<1> QED BY <1>1, <1>2, Unmoved DEF OnJoin, NodesUnchanged, MeshInv

LEMMA OnLeaveInv ==
  ASSUME MeshInv, NEW n \in Node, OnLeave(n)
  PROVE  MeshInv'
<1> DEFINE p == Head(inbox[n]).peer
<1>1. inbox' \in [Node -> Seq(Packet)] /\ p \in Node
  BY ArrivesParts DEF OnLeave
<1>2. TableOK'
  <2>1. table' = [table EXCEPT ![n][p].reconnect = FALSE]
    BY DEF OnLeave
  <2>2. [table[n][p] EXCEPT !.reconnect = FALSE] \in Entry
    <3>1. table[n][p] \in Entry
      BY <1>1 DEF MeshInv, TableOK
    <3> QED BY <3>1 DEF Entry
  <2>3. table' \in [Node -> [Node -> Entry]]
    BY <1>1, <2>1, <2>2 DEF MeshInv, TableOK
  <2>4. \A m, q \in Node : table[m][q] \in Entry
    BY DEF MeshInv, TableOK
  <2>5. \A m, q \in Node : table'[m][q].at = table[m][q].at
    BY <1>1, <2>1, <2>4 DEF MeshInv, TableOK, Entry
  <2> QED BY <2>3, <2>5 DEF MeshInv, TableOK, Registered
<1>3. MemberOK'
  <2>1. member' = [member EXCEPT ![n][p] = "absent"]
    BY DEF OnLeave
  <2>2. member' \in [Node -> [Node -> PeerStatus]]
    BY <1>1, <2>1 DEF MeshInv, MemberOK, PeerStatus
  <2>3. \A m, q \in Node : member'[m][q] # "absent" => member[m][q] # "absent"
    BY <1>1, <2>1 DEF MeshInv, MemberOK
  <2> QED BY <2>2, <2>3 DEF MeshInv, MemberOK
<1> QED BY <1>1, <1>2, <1>3, Unmoved DEF OnLeave, NodesUnchanged, MeshInv

LEMMA OnListInv ==
  ASSUME MeshInv, NEW n \in Node, OnList(n)
  PROVE  MeshInv'
<1> DEFINE list == Head(inbox[n]).list
<1>1. inbox' \in [Node -> Seq(Packet)] /\ list \subseteq Node
  BY ArrivesParts DEF OnList
<1>2. SoundStreams(stream)' /\ dials' \in [Pair -> 0 .. MaxDials]
  BY <1>1, DialEachSound DEF MeshInv, OnList
<1>3. HistoryOK'
  BY <1>1, HistoryGrows DEF OnList
<1> QED BY <1>1, <1>2, <1>3, Unmoved DEF OnList, NodesUnchanged, MeshInv

LEMMA BreakInv ==
  ASSUME MeshInv, NEW s \in Stream, Break(s)
  PROVE  MeshInv'
<1> DEFINE r == [stream[s] EXCEPT !.broken = TRUE, !.list = {}, !.leaves = {}]
<1>1. Sound(s, stream[s]) /\ stream = [q \in Stream |-> stream[q]]
  BY DEF MeshInv, SoundStreams
<1>2. Sound(s, r)
  BY <1>1 DEF Sound, StreamState, Vouched
<1>3. stream' = [stream EXCEPT ![s] = r] /\ dials' = dials
  BY <1>1 DEF Break
<1>4. SoundStreams(stream)' /\ dials' \in [Pair -> 0 .. MaxDials]
  <2> HIDE DEF r
  <2> QED BY <1>2, <1>3, OneStream
<1>5. HistoryOK'
  BY StreamParts, HistoryGrows DEF Break
<1> QED BY <1>4, <1>5, Unmoved DEF Break, NodesUnchanged, MeshInv

LEMMA ShutdownInv ==
  ASSUME MeshInv, NEW n \in Node, Shutdown(n)
  PROVE  MeshInv'
<1>1. NodesOK'
  BY DEF MeshInv, NodesOK, Shutdown
<1>2. ASSUME NEW s \in Stream
      PROVE  Sound(s, stream'[s])
  <2>1. Sound(s, stream[s])
    BY DEF MeshInv, SoundStreams
  <2>2. PICK ends \in [Side -> EndState], leaves \in SUBSET Side :
          /\ stream'[s] = Free \/ stream'[s] = [stream[s] EXCEPT !.end = ends, !.leaves = leaves]
          /\ \A x \in Side : ends[x] = "closed" \/ ends[x] = stream[s].end[x]
    <3> DEFINE r == stream[s]
               Mine(x) == OwnerOf(<<s, x>>) = n
               ends == [x \in Side |-> IF Mine(x) THEN "closed" ELSE r.end[x]]
               leaves(lost) == r.leaves \cup {x \in Side :
                 Mine(x) /\ r.end[x] = "open" /\ ~r.broken /\ PeerOf(<<s, x>>) \notin lost}
    <3>1. PICK lost \in SUBSET {p \in Node : Registered(n, p)} :
            stream'[s] = IF \A x \in Side : ends[x] = "closed" THEN Free
                         ELSE [r EXCEPT !.end = ends, !.leaves = leaves(lost)]
      BY DEF Shutdown
    <3>2. ends \in [Side -> EndState] /\ leaves(lost) \in SUBSET Side
      BY <2>1 DEF Sound, StreamState, EndState
    <3>3. \A x \in Side : ends[x] = "closed" \/ ends[x] = r.end[x]
      OBVIOUS
    <3> HIDE DEF ends, leaves
    <3> QED BY <3>1, <3>2, <3>3
  <2>3. CASE stream'[s] = Free
    BY <2>3, FreeSound
  <2>4. CASE stream'[s] = [stream[s] EXCEPT !.end = ends, !.leaves = leaves]
    BY <2>1, <2>2, <2>4 DEF Sound, StreamState, Vouched, Side
  <2> QED BY <2>2, <2>3, <2>4
<1>3. SoundStreams(stream)' /\ dials' \in [Pair -> 0 .. MaxDials]
  <2>1. stream' = [s \in Stream |-> stream'[s]] /\ dials' = dials
    BY DEF Shutdown
  <2>2. SoundStreams(stream')
    BY <1>2, <2>1 DEF SoundStreams
  <2> QED BY <2>1, <2>2 DEF MeshInv, SoundStreams, Sound, Vouched
<1>4. TableOK'
  <2>1. table' = [table EXCEPT ![n] = [p \in Node |-> NoEntry]]
    BY DEF Shutdown
  <2>2. NoEntry \in Entry
    BY DEF NoEntry, Entry
  <2>3. table' \in [Node -> [Node -> Entry]]
    BY <2>1, <2>2 DEF MeshInv, TableOK
  <2>4. \A m, q \in Node : table'[m][q] = table[m][q] \/ table'[m][q] = NoEntry
    BY <2>1 DEF MeshInv, TableOK
  <2>5. \A m, q \in Node : Registered(m, q)' => Registered(m, q)
    BY <2>4 DEF Registered, NoEntry
  <2> QED BY <2>3, <2>5 DEF MeshInv, TableOK
<1>5. MemberOK'
  <2>1. member' = [member EXCEPT ![n] = [p \in Node |-> "absent"]]
    BY DEF Shutdown
  <2>2. member' \in [Node -> [Node -> PeerStatus]]
    BY <2>1 DEF MeshInv, MemberOK, PeerStatus
  <2>3. \A m, q \in Node : member'[m][q] # "absent" => member[m][q] # "absent"
    BY <2>1 DEF MeshInv, MemberOK
  <2> QED BY <2>2, <2>3 DEF MeshInv, MemberOK
<1>6. inbox' \in [Node -> Seq(Packet)]
  <2> DEFINE none == <<>>
  <2>1. none \in Seq(Packet)
    OBVIOUS
  <2>2. inbox' = [inbox EXCEPT ![n] = none]
    BY DEF Shutdown
  <2> HIDE DEF none
  <2> QED BY <2>1, <2>2 DEF MeshInv
<1>7. HistoryOK'
  BY HistoryGrows DEF Shutdown
<1> QED BY <1>1, <1>3, <1>4, <1>5, <1>6, <1>7 DEF MeshInv

LEMMA NextInv == MeshInv /\ [Next]_vars => MeshInv'
<1> SUFFICES ASSUME MeshInv, [Next]_vars
             PROVE  MeshInv'
  OBVIOUS
<1>1. CASE UNCHANGED vars
  BY <1>1, Unmoved DEF vars, MeshInv
<1>2. ASSUME NEW n \in Node, Start(n) \/ Handle(n) \/ Shutdown(n)
      PROVE  MeshInv'
  BY <1>2, StartInv, OnJoinInv, OnLeaveInv, OnListInv, ShutdownInv DEF Handle
<1>3. ASSUME NEW n \in Node, NEW p \in Node, Resolve(n, p) \/ CallConnect(n, p)
      PROVE  MeshInv'
  BY <1>3, ResolveInv, CallConnectInv
<1>4. ASSUME NEW s \in Stream, ConnectStep(s) \/ AcceptStep(s) \/ Break(s)
      PROVE  MeshInv'
  BY <1>4, ConnectInv, AcceptHelloInv, SendListInv, RegisterInboundInv,
     ReceiveAckInv, AckFailsInv, BreakInv DEF ConnectStep, AcceptStep
<1>5. ASSUME NEW e \in End, EndStep(e)
      PROVE  MeshInv'
  BY <1>5, ReadInv, ReadEndsInv DEF EndStep
<1>6. ASSUME NEW s \in Stream, DialTask(s) \/ AcceptTask(s) \/ Break(s)
      PROVE  MeshInv'
  BY <1>4, <1>5, <1>6, StreamParts DEF DialTask, AcceptTask
<1> QED BY <1>1, <1>2, <1>3, <1>6 DEF Next

LEMMA MeshInvariant == Spec => []MeshInv
BY InitInv, NextInv, PTL DEF Spec

-----------------------------------------------------------------------------
(* Theorems.                                                               *)

\* Every variable of a reachable state has the shape the code gives it, and a
\* reconnect task stops after reconnect_max_retries attempts, whatever nodes,
\* dials and faults there are.
THEOREM MeshTypeCorrect == Spec => []TypeOK
<1>1. MeshInv => TypeOK
  <2> SUFFICES ASSUME MeshInv
               PROVE  TypeOK
    OBVIOUS
  <2>1. stream \in [Stream -> StreamState]
    BY DEF MeshInv, SoundStreams, Sound
  <2>2. MaxRetries > 0 => \A s \in Stream : stream[s].tries <= MaxRetries
    BY DEF MeshInv, SoundStreams, Sound
  <2> QED BY <2>1, <2>2 DEF MeshInv, TypeOK, NodesOK, HistoryOK, TableOK, MemberOK
<1> QED BY <1>1, MeshInvariant, PTL

\* Sessions stay apart, on every path to a connection: whoever dials whom with
\* whatever address, the check of the Handshake (AcceptHello) comes before
\* either end registers the stream, and a member was registered.
THEOREM SessionsStayApart == Spec => []SessionsApart
<1>1. MeshInv => SessionsApart
  BY DEF MeshInv, SessionsApart, TableOK, MemberOK
<1> QED BY <1>1, MeshInvariant, PTL
=============================================================================
