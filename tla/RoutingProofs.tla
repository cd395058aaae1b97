----------------------------- MODULE RoutingProofs -----------------------------
(***************************************************************************)
(* Theorems about Packets and Routing, for every set of nodes, every       *)
(* message the applications may send, every limit, threshold and capacity, *)
(* and every value of the bounds.                                          *)
(***************************************************************************)
EXTENDS Routing, FiniteSetTheorems, SequenceTheorems, TLAPS

-----------------------------------------------------------------------------
(* The packet codec.                                                       *)

Flags == 0 .. 255
Pay == [id : Nat, raw : Nat, size : Int, packs : BOOLEAN]

\* A byte of flags, its lowest bit apart.
LEMMA FlagBits ==
  ASSUME NEW f \in Flags
  PROVE  /\ CleanFlags(f) \in Flags /\ CleanFlags(f) + 1 \in Flags
         /\ ~IsCompressed(CleanFlags(f)) /\ IsCompressed(CleanFlags(f) + 1)
         /\ CleanFlags(CleanFlags(f)) = CleanFlags(f)
         /\ CleanFlags(CleanFlags(f) + 1) = CleanFlags(f)
BY DEF Flags, CleanFlags, IsCompressed

LEMMA PayloadType ==
  ASSUME NEW id \in Nat, NEW raw \in Nat, NEW packs \in BOOLEAN
  PROVE  /\ Payload(id, raw, packs) \in Pay
         /\ Payload(id, raw, packs).id = id
         /\ Payload(id, raw, packs).raw = raw
         /\ Payload(id, raw, packs).size = raw
         /\ Payload(id, raw, packs).packs = packs
BY DEF Payload, Pay

\* What encode_packet makes of a payload: the type, the user's flags, the
\* identity and the length are kept, the compression bit says what was done to
\* the payload, and nothing grows.
EncodesAs(e, type, f, pay) ==
  /\ e \in [type : Nat, flags : Flags, pay : Pay]
  /\ e.type = type /\ CleanFlags(e.flags) = CleanFlags(f)
  /\ e.pay.id = pay.id /\ e.pay.raw = pay.raw
  /\ e.pay.size <= e.pay.raw
  /\ IsCompressed(e.flags) <=> e.pay.size # e.pay.raw

LEMMA EncodeEffect ==
  ASSUME NEW type \in Nat, NEW f \in Flags, NEW pay \in Pay, pay.size = pay.raw,
         NEW limit \in Nat
  PROVE  EncodesAs(EncodePacket(type, f, pay, limit), type, f, pay)
<1> DEFINE c == Compressed(pay)
           e == EncodePacket(type, f, pay, limit)
<1>1. c \in Pay /\ c.id = pay.id /\ c.raw = pay.raw /\ c.size # pay.raw
  BY DEF Compressed, Pay
<1>2. CASE pay.raw > limit /\ c.size < pay.raw
  <2>1. e = [type |-> type, flags |-> CleanFlags(f) + 1, pay |-> c]
    BY <1>2 DEF EncodePacket
  <2> HIDE DEF e, c
  <2>2. /\ e \in [type : Nat, flags : Flags, pay : Pay]
        /\ e.type = type /\ e.flags = CleanFlags(f) + 1 /\ e.pay = c
    BY <1>1, <2>1, FlagBits
  <2>3. c.size \in Int /\ pay.raw \in Int
    BY <1>1 DEF Pay
  <2>4. e.pay.size <= e.pay.raw
    BY <1>1, <1>2, <2>2, <2>3
  <2>5. IsCompressed(e.flags) /\ e.pay.size # e.pay.raw
    BY <1>1, <2>2, FlagBits
  <2>6. CleanFlags(e.flags) = CleanFlags(f)
    BY <2>2, FlagBits
  <2>7. QED BY <1>1, <2>2, <2>4, <2>5, <2>6 DEF e, EncodesAs
<1>3. CASE ~(pay.raw > limit /\ c.size < pay.raw)
  <2>1. e = [type |-> type, flags |-> CleanFlags(f), pay |-> pay]
    BY <1>3 DEF EncodePacket
  <2> HIDE DEF e, c
  <2>2. /\ e \in [type : Nat, flags : Flags, pay : Pay]
        /\ e.type = type /\ e.flags = CleanFlags(f) /\ e.pay = pay
    BY <2>1, FlagBits
  <2>3. e.pay.size <= e.pay.raw /\ e.pay.size = e.pay.raw
    BY <2>2 DEF Pay
  <2>4. ~IsCompressed(e.flags) /\ CleanFlags(e.flags) = CleanFlags(f)
    BY <2>2, FlagBits
  <2>5. QED BY <2>2, <2>3, <2>4 DEF e, EncodesAs
<1> QED BY <1>2, <1>3

\* decode_payload undoes encode_packet: whatever the payload, the flags of the
\* caller and the threshold, the packet decodes, to the payload that went in.
THEOREM CodecRoundTrip ==
  ASSUME NEW type \in Nat, NEW f \in Flags, NEW pay \in Pay, pay.size = pay.raw,
         NEW limit \in Nat
  PROVE  LET e == EncodePacket(type, f, pay, limit)
         IN Decodes(e) /\ DecodePayload(e) = pay
<1> DEFINE c == Compressed(pay)
           e == EncodePacket(type, f, pay, limit)
<1>1. Decodes(e)
  BY EncodeEffect DEF EncodesAs, Decodes, WasCompressed
<1>2. CASE pay.raw > limit /\ c.size < pay.raw
  <2>1. e = [type |-> type, flags |-> CleanFlags(f) + 1, pay |-> c]
    BY <1>2 DEF EncodePacket
  <2>2. IsCompressed(e.flags)
    BY <2>1, FlagBits
  <2>3. [c EXCEPT !.size = c.raw] = pay
    BY DEF Compressed, Pay
  <2> QED BY <1>1, <2>1, <2>2, <2>3 DEF DecodePayload
<1>3. CASE ~(pay.raw > limit /\ c.size < pay.raw)
  <2>1. e = [type |-> type, flags |-> CleanFlags(f), pay |-> pay]
    BY <1>3 DEF EncodePacket
  <2>2. ~IsCompressed(e.flags)
    BY <2>1, FlagBits
  <2> QED BY <1>1, <2>1, <2>2 DEF DecodePayload
<1> QED BY <1>2, <1>3

-----------------------------------------------------------------------------
(* The identities in a sequence.  `f` gives the identity of an entry; 0 is *)
(* the identity of what no application sent.                               *)

Has(f, s, i) == \E k \in 1 .. Len(s) : f[s[k]] = i
Once(f, s) ==
  \A j, k \in 1 .. Len(s) : f[s[j]] = f[s[k]] /\ f[s[j]] # 0 => j = k

LEMMA EmptyIds ==
  ASSUME NEW f, NEW i
  PROVE  ~Has(f, <<>>, i) /\ Once(f, <<>>)
BY DEF Has, Once

LEMMA AppendIds ==
  ASSUME NEW S, NEW s \in Seq(S), NEW e \in S, NEW f
  PROVE  /\ \A i : Has(f, Append(s, e), i) <=> Has(f, s, i) \/ f[e] = i
         /\ Once(f, s) /\ (f[e] = 0 \/ ~Has(f, s, f[e])) => Once(f, Append(s, e))
<1> DEFINE t == Append(s, e)
<1>1. /\ Len(t) = Len(s) + 1 /\ t[Len(s) + 1] = e /\ Len(s) \in Nat
      /\ \A k \in 1 .. Len(s) : t[k] = s[k]
  OBVIOUS
<1> HIDE DEF t
<1>2. ASSUME NEW i
      PROVE  Has(f, t, i) <=> Has(f, s, i) \/ f[e] = i
  <2>1. ASSUME Has(f, t, i) PROVE Has(f, s, i) \/ f[e] = i
    BY <1>1, <2>1 DEF Has
  <2>2. ASSUME Has(f, s, i) PROVE Has(f, t, i)
    BY <1>1, <2>2 DEF Has
  <2>3. ASSUME f[e] = i PROVE Has(f, t, i)
    BY <1>1, <2>3 DEF Has
  <2> QED BY <2>1, <2>2, <2>3
<1>3. ASSUME Once(f, s), f[e] = 0 \/ ~Has(f, s, f[e])
      PROVE  Once(f, t)
  BY <1>1, <1>3 DEF Has, Once
<1> QED BY <1>2, <1>3 DEF t

LEMMA TailIds ==
  ASSUME NEW S, NEW s \in Seq(S), s # <<>>, NEW f
  PROVE  /\ Has(f, s, f[Head(s)]) /\ Head(s) \in S /\ Tail(s) \in Seq(S)
         /\ \A i : Has(f, Tail(s), i) => Has(f, s, i)
         /\ \A i : Has(f, s, i) => Has(f, Tail(s), i) \/ i = f[Head(s)]
         /\ Once(f, s) => Once(f, Tail(s))
         /\ Once(f, s) /\ f[Head(s)] # 0 => ~Has(f, Tail(s), f[Head(s)])
<1> DEFINE t == Tail(s)
<1>1. /\ t \in Seq(S) /\ Len(t) = Len(s) - 1 /\ Len(s) \in Nat \ {0}
      /\ s[1] \in S /\ Head(s) = s[1]
      /\ \A k \in 1 .. Len(t) : t[k] = s[k + 1]
  BY HeadTailProperties, LenProperties, EmptySeq, ElementOfSeq
<1> HIDE DEF t
<1>2. Has(f, s, f[Head(s)])
  BY <1>1 DEF Has
<1>3. ASSUME NEW i, Has(f, t, i) PROVE Has(f, s, i)
  <2>1. PICK k \in 1 .. Len(t) : f[t[k]] = i
    BY <1>3 DEF Has
  <2>2. k + 1 \in 1 .. Len(s) /\ f[s[k + 1]] = i
    BY <1>1, <2>1
  <2> QED BY <2>2 DEF Has
<1>4. ASSUME Once(f, s) PROVE Once(f, t)
  <2>1. SUFFICES ASSUME NEW j \in 1 .. Len(t), NEW k \in 1 .. Len(t),
                        f[t[j]] = f[t[k]], f[t[j]] # 0
                 PROVE  j = k
    BY DEF Once
  <2>2. j + 1 \in 1 .. Len(s) /\ k + 1 \in 1 .. Len(s)
    BY <1>1
  <2>3. j + 1 = k + 1
    BY <1>1, <1>4, <2>1, <2>2 DEF Once
  <2> QED BY <2>3
<1>5. ASSUME Once(f, s), f[Head(s)] # 0, Has(f, t, f[Head(s)]) PROVE FALSE
  <2>1. PICK k \in 1 .. Len(t) : f[t[k]] = f[Head(s)]
    BY <1>5 DEF Has
  <2>2. k + 1 \in 1 .. Len(s) /\ 1 \in 1 .. Len(s) /\ k + 1 # 1
    BY <1>1
  <2> QED BY <1>1, <1>5, <2>1, <2>2 DEF Once
<1>6. ASSUME NEW i, Has(f, s, i) PROVE Has(f, t, i) \/ i = f[Head(s)]
  <2>1. PICK k \in 1 .. Len(s) : f[s[k]] = i
    BY <1>6 DEF Has
  <2>2. CASE k = 1
    BY <1>1, <2>1, <2>2
  <2>3. CASE k # 1
    <3>1. k - 1 \in 1 .. Len(t)
      BY <1>1, <2>3
    <3>2. t[k - 1] = s[(k - 1) + 1] /\ (k - 1) + 1 = k
      BY <1>1, <3>1
    <3> QED BY <2>1, <3>1, <3>2 DEF Has
  <2> QED BY <2>2, <2>3
<1> QED BY <1>1, <1>2, <1>3, <1>4, <1>5, <1>6 DEF t

-----------------------------------------------------------------------------
(* The inductive invariant.  First, the shape of the variables.            *)

UserPkt == {pk \in [type : Nat, flags : Flags, pay : Pay] : ~IsInternal(pk.type)}
FwdPkt == [type : {0}, kind : {"forwarded"}, from : Node, original : Nat,
           flags : {0}, originalFlags : Flags, pay : Pay]
AssignPkt == {pk \in [type : {0}, kind : {"assign"}, term : Nat, leader : Node,
                      flags : {0}, pay : Pay] : pk.pay.id = 0}
Packet == UserPkt \cup FwdPkt \cup AssignPkt
Arrival == [peer : Node, packet : Packet]
Receipt == [peer : Node, id : Nat, type : Nat, flags : Flags, size : Int]
Sending == [data : Data, from : Node, target : Target, leader : OptNode]

States ==
  /\ es \in [Node -> ElectionState]
  /\ central \in [Node -> BOOLEAN] /\ forward \in [Node -> BOOLEAN]
  /\ threshold \in [Node -> Nat]
  /\ calm \in BOOLEAN

Connections ==
  /\ conn \in [Node -> [Node -> {{}, {"control"}, Channels}]]
  /\ \A n \in Node : conn[n][n] = {}

History ==
  /\ sent \in Seq(Sending) /\ result \in Seq(Code)
  /\ Len(sent) = Len(result) /\ Len(sent) <= MaxSends

Shapes ==
  /\ out \in [Node -> [Node -> [Channels -> Seq(Packet)]]]
  /\ inbox \in [Node -> Seq(Arrival)]
  /\ got \in [Node -> Seq(Receipt)]

\* A channel that is not there carries nothing.
NothingOnCut ==
  \A n, p \in Node, c \in Channels : c \notin conn[n][p] => out[n][p][c] = <<>>

(* Second, what is under way or delivered comes from a call that returned  *)
(* OK, and carries what that call was given.                               *)

Genuine(id, type, flags, raw) ==
  /\ id \in 1 .. Len(sent) /\ result[id] = "OK"
  /\ type = sent[id].data.type /\ raw = sent[id].data.raw
  /\ CleanFlags(flags) = CleanFlags(sent[id].data.flags)

GoodUser ==
  {pk \in UserPkt :
     /\ Genuine(pk.pay.id, pk.type, pk.flags, pk.pay.raw)
     /\ IsCompressed(pk.flags) <=> pk.pay.size # pk.pay.raw}
GoodForward ==
  {pk \in FwdPkt :
     /\ Genuine(pk.pay.id, pk.original, pk.originalFlags, pk.pay.raw)
     /\ ~IsInternal(pk.original)
     /\ pk.from = sent[pk.pay.id].from /\ pk.pay.size = pk.pay.raw}
Good == GoodUser \cup GoodForward \cup AssignPkt
GoodReceipt == {g \in Receipt : Genuine(g.id, g.type, g.flags, g.size)}
Outgoing(n) == {pk \in Good : CodecAccepts(pk, Limit[n])}
Relays == {r \in [id : Nat, packet : GoodForward] : r.id = r.packet.pay.id}

Contents ==
  /\ \A n, p \in Node, c \in Channels : out[n][p][c] \in Seq(Outgoing(n))
  /\ \A n \in Node : inbox[n] \in Seq([peer : Node, packet : Good])
  /\ \A n \in Node : got[n] \in Seq(GoodReceipt)
  /\ relaying \in [Node -> {Idle} \cup Relays]

\* The call the router is busy with has not returned, and passed the tests.
Pending(n, r) ==
  /\ r.id \in 1 .. Len(sent) /\ result[r.id] = "pending"
  /\ sent[r.id].data = r.data /\ sent[r.id].from = n
  /\ r.data.raw >= 0 /\ ~IsInternal(r.data.type)
Route == [id : Nat, how : {"forward", "direct"}, data : Data]

Routes ==
  /\ routing \in [Node -> {Idle} \cup Route]
  /\ \A n \in Node : routing[n] # Idle => Pending(n, routing[n])

ShapeInv == States /\ Connections /\ History /\ Shapes /\ NothingOnCut
ContentInv == Contents /\ Routes

-----------------------------------------------------------------------------
(* What the operators of the model return.                                 *)

LEMMA ElectionTypes ==
  ASSUME NEW s \in ElectionState, NEW n \in Node, NEW p \in Node, NEW t \in Nat
  PROVE  /\ NewElection(TRUE) \in ElectionState
         /\ HandleRequestVote(s, s.currentTerm + 1, p) \in ElectionState
         /\ HandleLeaderAssign(s, n, t, p) \in ElectionState
         /\ SetLeader(s, n, p) \in ElectionState
<1> USE DEF ElectionState, Role, OptNode
<1>1. NewElection(TRUE) \in ElectionState
  BY DEF NewElection
<1>2. s.currentTerm + 1 \in Nat
  OBVIOUS
<1>3. HandleRequestVote(s, s.currentTerm + 1, p) \in ElectionState
  BY <1>2 DEF HandleRequestVote, AdoptIfHigher, Adopt
<1>4. HandleLeaderAssign(s, n, t, p) \in ElectionState
  BY DEF HandleLeaderAssign, Assigned
<1>5. SetLeader(s, n, p) \in ElectionState
  BY <1>2 DEF SetLeader, Assigned
<1> QED BY <1>1, <1>3, <1>4, <1>5

\* The kinds of packets can be told apart.
LEMMA PacketKinds ==
  ASSUME NEW pk \in Packet
  PROVE  /\ IsInternal(0)
         /\ ~IsInternal(pk.type) <=> pk \in UserPkt
         /\ Forwards(pk) <=> pk \in FwdPkt
         /\ Assigns(pk) <=> pk \in AssignPkt
         /\ pk.pay \in Pay
<1>1. IsInternal(0)
  BY PacketAssumption DEF IsInternal
<1>2. CASE pk \in UserPkt
  <2>1. ~IsInternal(pk.type) /\ pk.pay \in Pay
    BY <1>2 DEF UserPkt
  <2>2. pk \notin FwdPkt /\ pk \notin AssignPkt
    BY <1>1, <2>1 DEF FwdPkt, AssignPkt
  <2> QED BY <1>1, <1>2, <2>1, <2>2 DEF Forwards, Assigns
<1>3. CASE pk \in FwdPkt
  <2>1. pk.type = 0 /\ pk.kind = "forwarded" /\ pk.pay \in Pay
    BY <1>3 DEF FwdPkt
  <2>2. pk \notin UserPkt /\ pk \notin AssignPkt
    BY <1>1, <2>1 DEF UserPkt, AssignPkt
  <2> QED BY <1>1, <1>3, <2>1, <2>2 DEF Forwards, Assigns
<1>4. CASE pk \in AssignPkt
  <2>1. pk.type = 0 /\ pk.kind = "assign" /\ pk.pay \in Pay
    BY <1>4 DEF AssignPkt
  <2>2. pk \notin UserPkt /\ pk \notin FwdPkt
    BY <1>1, <2>1 DEF UserPkt, FwdPkt
  <2> QED BY <1>1, <1>4, <2>1, <2>2 DEF Forwards, Assigns
<1> QED BY <1>2, <1>3, <1>4 DEF Packet

\* What encode_packet makes of a user's message, and whether it fits.
MessageAs(pk, n, id, m) ==
  /\ pk \in UserPkt /\ pk.type = m.type
  /\ pk.pay.id = id /\ pk.pay.raw = m.raw
  /\ CleanFlags(pk.flags) = CleanFlags(m.flags)
  /\ IsCompressed(pk.flags) <=> pk.pay.size # pk.pay.raw
  /\ ~TooLarge(m.raw, Limit[n]) => CodecAccepts(pk, Limit[n])
  /\ Encodable(pk, Limit[n]) => CodecAccepts(pk, Limit[n])

LEMMA UserPacketEffect ==
  ASSUME States, NEW n \in Node, NEW id \in Nat, NEW m \in Data, m.raw >= 0,
         ~IsInternal(m.type)
  PROVE  MessageAs(UserPacket(n, id, m), n, id, m)
<1> DEFINE pay == Payload(id, m.raw, m.packs)
           pk == UserPacket(n, id, m)
<1>1. /\ m.type \in Nat /\ m.flags \in Flags /\ m.raw \in Nat
      /\ m.packs \in BOOLEAN /\ threshold[n] \in Nat
  BY RoutingAssumption DEF Flags, States
<1>2. pay \in Pay /\ pay.size = pay.raw /\ pay.id = id /\ pay.raw = m.raw
  BY <1>1, PayloadType
<1>3. pk = EncodePacket(m.type, m.flags, pay, threshold[n])
  BY DEF UserPacket
<1> HIDE DEF pay, pk
<1>4. /\ pk \in [type : Nat, flags : Flags, pay : Pay]
      /\ pk.type = m.type /\ CleanFlags(pk.flags) = CleanFlags(m.flags)
      /\ pk.pay.id = id /\ pk.pay.raw = m.raw
      /\ pk.pay.size <= pk.pay.raw
      /\ IsCompressed(pk.flags) <=> pk.pay.size # pk.pay.raw
  <2>1. EncodesAs(pk, m.type, m.flags, pay)
    BY <1>1, <1>2, <1>3, EncodeEffect
  <2> QED BY <1>2, <2>1 DEF EncodesAs
<1>5. /\ pk.pay.size \in Int /\ Limit[n] \in Nat /\ m.raw \in Int
      /\ pk.pay.size <= m.raw
  BY <1>1, <1>4, RoutingAssumption DEF Pay
<1>6. ~TooLarge(m.raw, Limit[n]) => CodecAccepts(pk, Limit[n])
  BY <1>4, <1>5 DEF TooLarge, CodecAccepts, WireSize
<1>7. Encodable(pk, Limit[n]) => ~TooLarge(m.raw, Limit[n])
  BY <1>4 DEF Encodable
<1> QED BY <1>4, <1>6, <1>7 DEF pk, UserPkt, MessageAs

\* The envelope a follower sends the leader.
EnvelopeAs(pk, n, r) ==
  /\ pk \in FwdPkt /\ pk.from = n /\ pk.original = r.data.type
  /\ pk.pay.id = r.id /\ pk.pay.raw = r.data.raw
  /\ pk.pay.size = pk.pay.raw
  /\ CleanFlags(pk.originalFlags) = CleanFlags(r.data.flags)
  /\ Encodable(pk, Limit[n]) => CodecAccepts(pk, Limit[n])

LEMMA ForwardedEffect ==
  ASSUME NEW n \in Node, NEW r \in Route, r.data.raw >= 0
  PROVE  EnvelopeAs(Forwarded(n, r), n, r)
<1> DEFINE pay == Payload(r.id, r.data.raw, r.data.packs)
           pk == Forwarded(n, r)
<1>1. /\ r.data.type \in Nat /\ r.data.flags \in Flags /\ r.data.raw \in Nat
      /\ r.data.packs \in BOOLEAN /\ r.id \in Nat
  BY RoutingAssumption DEF Flags, Route
<1>2. pay \in Pay /\ pay.size = pay.raw /\ pay.id = r.id /\ pay.raw = r.data.raw
  BY <1>1, PayloadType
<1>3. pk = [type |-> 0, kind |-> "forwarded", from |-> n,
            original |-> r.data.type, flags |-> 0,
            originalFlags |-> CleanFlags(r.data.flags), pay |-> pay]
  BY DEF Forwarded
<1>4. /\ CleanFlags(r.data.flags) \in Flags
      /\ CleanFlags(CleanFlags(r.data.flags)) = CleanFlags(r.data.flags)
  BY <1>1, FlagBits
<1> HIDE DEF pay, pk
<1>5. /\ pk \in FwdPkt /\ pk.from = n /\ pk.original = r.data.type
      /\ pk.pay = pay /\ pk.originalFlags = CleanFlags(r.data.flags)
      /\ pk.type = 0
  BY <1>1, <1>2, <1>3, <1>4 DEF FwdPkt
<1>6. Encodable(pk, Limit[n]) => CodecAccepts(pk, Limit[n])
  BY <1>5, PacketAssumption DEF Encodable, CodecAccepts, IsInternal
<1> QED BY <1>2, <1>4, <1>5, <1>6 DEF pk, EnvelopeAs

\* try_send on the channels of some peers.
Appended(n, P, pk) ==
  \A m, p \in Node, c \in Channels :
    out'[m][p][c] = IF m = n /\ p \in P /\ c = ChannelFor(n, p, pk)
                      THEN Append(out[m][p][c], pk) ELSE out[m][p][c]

LEMMA EnqueueEffect ==
  ASSUME Connections, Shapes, NothingOnCut, NEW n \in Node, NEW P \in SUBSET Node,
         NEW pk \in Packet, Enqueue(n, P, pk), UNCHANGED conn,
         \A p \in P : conn[n][p] # {}
  PROVE  /\ out' \in [Node -> [Node -> [Channels -> Seq(Packet)]]]
         /\ Appended(n, P, pk)
         /\ \A p \in Node : ChannelFor(n, p, pk) \in Channels
         /\ NothingOnCut'
<1>1. \A p \in Node : ChannelFor(n, p, pk) \in Channels
  BY DEF ChannelFor, Channels
<1> DEFINE row == [p \in Node |->
             IF p \in P
               THEN [out[n][p] EXCEPT ![ChannelFor(n, p, pk)] = Append(@, pk)]
               ELSE out[n][p]]
<1>2. out' = [out EXCEPT ![n] = row]
  BY DEF Enqueue
<1>3. row \in [Node -> [Channels -> Seq(Packet)]]
  <2>1. ASSUME NEW p \in Node
        PROVE  [out[n][p] EXCEPT ![ChannelFor(n, p, pk)] = Append(@, pk)]
                  \in [Channels -> Seq(Packet)]
    BY <1>1 DEF Shapes
  <2> QED BY <2>1 DEF Shapes
<1>4. ASSUME NEW p \in Node, NEW c \in Channels
      PROVE  row[p][c] = IF p \in P /\ c = ChannelFor(n, p, pk)
                           THEN Append(out[n][p][c], pk) ELSE out[n][p][c]
  <2>1. out[n][p] \in [Channels -> Seq(Packet)]
    BY DEF Shapes
  <2> QED BY <1>1, <2>1
<1> HIDE DEF row
<1>5. out' \in [Node -> [Node -> [Channels -> Seq(Packet)]]]
  BY <1>2, <1>3 DEF Shapes
<1>6. ASSUME NEW m \in Node, NEW p \in Node, NEW c \in Channels
      PROVE  out'[m][p][c] =
                IF m = n /\ p \in P /\ c = ChannelFor(n, p, pk)
                  THEN Append(out[m][p][c], pk) ELSE out[m][p][c]
  <2>1. CASE m = n
    BY <1>2, <1>4, <2>1 DEF Shapes
  <2>2. CASE m # n
    BY <1>2, <2>2 DEF Shapes
  <2> QED BY <2>1, <2>2
<1>7. NothingOnCut'
  <2>1. SUFFICES ASSUME NEW m \in Node, NEW p \in Node, NEW c \in Channels,
                        c \notin conn[m][p]
                 PROVE  out'[m][p][c] = <<>>
    BY DEF NothingOnCut
  <2>2. ~(m = n /\ p \in P /\ c = ChannelFor(n, p, pk))
    <3>1. conn[m][p] \in {{}, {"control"}, Channels}
      BY DEF Connections
    <3> QED BY <2>1, <3>1 DEF ChannelFor, Channels
  <2> QED BY <1>6, <2>1, <2>2 DEF NothingOnCut
<1> QED BY <1>1, <1>5, <1>6, <1>7 DEF Appended

\* What came from a call that returned OK still does: calls are only added,
\* and a result that was OK stays.
Grows ==
  /\ Len(sent) <= Len(sent')
  /\ \A i \in 1 .. Len(sent) : /\ sent'[i] = sent[i]
                               /\ result[i] = "OK" => result'[i] = "OK"

LEMMA GoodGrows ==
  ASSUME History, History', Grows
  PROVE  /\ GoodUser \subseteq GoodUser' /\ GoodForward \subseteq GoodForward'
         /\ Good \subseteq Good' /\ GoodReceipt \subseteq GoodReceipt'
         /\ \A n \in Node : Outgoing(n) \subseteq Outgoing(n)'
         /\ Relays \subseteq Relays'
<1>1. Len(sent) \in Nat /\ Len(sent') \in Nat
  BY DEF History
<1>2. ASSUME NEW id, NEW type, NEW flags, NEW raw, Genuine(id, type, flags, raw)
      PROVE  Genuine(id, type, flags, raw)' /\ sent'[id] = sent[id]
  BY <1>1, <1>2 DEF Genuine, Grows
<1>3. GoodUser \subseteq GoodUser'
  BY <1>2 DEF GoodUser
<1>4. GoodForward \subseteq GoodForward'
  BY <1>2 DEF GoodForward
<1>5. GoodReceipt \subseteq GoodReceipt'
  BY <1>2 DEF GoodReceipt
<1>6. Good \subseteq Good'
  BY <1>3, <1>4 DEF Good
<1>7. \A n \in Node : Outgoing(n) \subseteq Outgoing(n)'
  BY <1>6 DEF Outgoing
<1>8. Relays \subseteq Relays'
  BY <1>4 DEF Relays
<1> QED BY <1>3, <1>4, <1>5, <1>6, <1>7, <1>8

\* The contents of the queues and the histories stay good.
LEMMA ContentGrows ==
  ASSUME History, History', Grows, Contents
  PROVE  /\ \A n, p \in Node, c \in Channels : out[n][p][c] \in Seq(Outgoing(n)')
         /\ \A n \in Node : inbox[n] \in Seq([peer : Node, packet : Good'])
         /\ \A n \in Node : got[n] \in Seq(GoodReceipt')
         /\ relaying \in [Node -> {Idle} \cup Relays']
<1>1. ASSUME NEW n \in Node, NEW p \in Node, NEW c \in Channels
      PROVE  out[n][p][c] \in Seq(Outgoing(n)')
  <2>1. out[n][p][c] \in Seq(Outgoing(n)) /\ Outgoing(n) \subseteq Outgoing(n)'
    BY GoodGrows DEF Contents
  <2> QED BY <2>1, SeqMonotonic
<1>2. ASSUME NEW n \in Node
      PROVE  inbox[n] \in Seq([peer : Node, packet : Good'])
  <2>1. [peer : Node, packet : Good] \subseteq [peer : Node, packet : Good']
    BY GoodGrows
  <2>2. inbox[n] \in Seq([peer : Node, packet : Good])
    BY DEF Contents
  <2> QED BY <2>1, <2>2, SeqMonotonic
<1>3. ASSUME NEW n \in Node
      PROVE  got[n] \in Seq(GoodReceipt')
  <2>1. got[n] \in Seq(GoodReceipt) /\ GoodReceipt \subseteq GoodReceipt'
    BY GoodGrows DEF Contents
  <2> QED BY <2>1, SeqMonotonic
<1>4. relaying \in [Node -> {Idle} \cup Relays']
  BY GoodGrows DEF Contents
<1> QED BY <1>1, <1>2, <1>3, <1>4

\* A send function adds one call to the history.
LEMMA SubmitEffect ==
  ASSUME States, History, NEW n \in Node, NEW m \in Data, NEW t \in Target,
         NEW r \in Code, Len(sent) < MaxSends, Submit(n, m, t, r)
  PROVE  /\ History' /\ Grows /\ Len(sent) \in Nat
         /\ Len(sent') = Len(sent) + 1 /\ Len(sent) + 1 \in 1 .. Len(sent')
         /\ sent'[Len(sent) + 1].data = m /\ sent'[Len(sent) + 1].from = n
         /\ sent'[Len(sent) + 1].target = t
         /\ sent'[Len(sent) + 1].leader = es[n].leaderId
         /\ result'[Len(sent) + 1] = r
         /\ \A i \in 1 .. Len(sent) : /\ i \in 1 .. Len(sent')
                                      /\ sent'[i] = sent[i]
                                      /\ result'[i] = result[i]
<1> DEFINE x == [data |-> m, from |-> n, target |-> t, leader |-> es[n].leaderId]
<1>1. /\ x \in Sending /\ x.data = m /\ x.from = n
      /\ x.target = t /\ x.leader = es[n].leaderId
  BY DEF Sending, States, ElectionState
<1>2. sent' = Append(sent, x) /\ result' = Append(result, r)
  BY DEF Submit
<1> HIDE DEF x
<1>3. /\ sent \in Seq(Sending) /\ result \in Seq(Code) /\ Len(sent) = Len(result)
      /\ Len(sent) \in Nat
  BY DEF History
<1>4. /\ sent' \in Seq(Sending) /\ Len(sent') = Len(sent) + 1
      /\ sent'[Len(sent) + 1] = x
      /\ \A i \in 1 .. Len(sent) : sent'[i] = sent[i]
  BY <1>1, <1>2, <1>3, AppendProperties
<1>5. /\ result' \in Seq(Code) /\ Len(result') = Len(result) + 1
      /\ result'[Len(sent) + 1] = r
      /\ \A i \in 1 .. Len(sent) : result'[i] = result[i]
  BY <1>2, <1>3, AppendProperties
<1>6. MaxSends \in Nat
  BY RoutingAssumption
<1>7. Len(sent') <= MaxSends
  BY <1>3, <1>4, <1>6
<1>8. History'
  BY <1>3, <1>4, <1>5, <1>7 DEF History
<1>9. Grows
  BY <1>3, <1>4, <1>5 DEF Grows
<1> QED BY <1>1, <1>3, <1>4, <1>5, <1>8, <1>9

\* Whom a message of n for target t is addressed to: the leader n knows is l.
Hears(p, n, t, l) ==
  \/ t.to \in Everyone /\ p # n
  \/ t.to = "ToPeer" /\ p = t.peer
  \/ t.to = "ToLeader" /\ p = l /\ p # n
  \/ t.to = "Forward" /\ IF t.peer = None THEN p # n /\ p # t.from
                         ELSE p = t.peer

\* The three forms of a call.  Nothing is sent, as a leader has nobody to send
\* to that writes to its leader; the router pauses; or a packet is queued for
\* some peers: all it is addressed to, if the call returns OK in calm.
Refuses(n, m, t, r) ==
  Refuse(n, m, t, r) /\ (r = "OK" => t.to = "ToLeader" /\ Leads(n))
Pauses(n, m, t, how) ==
  /\ Pause(n, m, t, how)
  /\ t.to = IF how = "forward" THEN "Broadcast" ELSE "ToLeader"
Sends(n, m, t, r, P) ==
  /\ r \in Code \ {"pending"} /\ (P # {} => r = "OK")
  /\ \A p \in P : conn[n][p] # {}
  /\ Submit(n, m, t, r) /\ Enqueue(n, P, NewPacket(n, m))
  /\ calm' \in BOOLEAN /\ (calm' => calm) /\ UNCHANGED routing
  /\ r = "OK" /\ calm' =>
       \A p \in Node : Hears(p, n, t, es[n].leaderId) => p \in P

LEMMA CallForms ==
  ASSUME States, Connections, NEW n \in Node, CallStep(n)
  PROVE  /\ Len(sent) < MaxSends /\ routing[n] = Idle
         /\ \E m \in Data, t \in Target :
              \/ \E r \in Code \ {"pending"} : Refuses(n, m, t, r)
              \/ /\ ValidMessage(n, m)
                 /\ \E how \in {"forward", "direct"} : Pauses(n, m, t, how)
              \/ /\ ValidMessage(n, m)
                 /\ \E r \in Code, P \in SUBSET Node : Sends(n, m, t, r, P)
<1> DEFINE Form(m, t) ==
             \/ \E r \in Code \ {"pending"} : Refuses(n, m, t, r)
             \/ /\ ValidMessage(n, m)
                /\ \E how \in {"forward", "direct"} : Pauses(n, m, t, how)
             \/ /\ ValidMessage(n, m)
                /\ \E r \in Code, P \in SUBSET Node : Sends(n, m, t, r, P)
<1>1. PICK m \in Data :
        \/ BroadcastMessage(n, m) \/ SendToLeader(n, m) \/ SendFromLeader(n, m)
        \/ \E p \in Node : SendToPeer(n, m, p)
        \/ \E from \in Node, p \in OptNode : ForwardMessage(n, m, from, p)
  BY DEF CallStep
<1>2. ASSUME NEW t \in Target, NEW pk, NEW X \in SUBSET Node, pk = NewPacket(n, m),
             Submit(n, m, t, "OK"), BroadcastPacket(n, pk, X), UNCHANGED routing,
             \A p \in Node : Hears(p, n, t, es[n].leaderId) => p # n /\ p \notin X
      PROVE  \E r \in Code, P \in SUBSET Node : Sends(n, m, t, r, P)
  <2> DEFINE Q == {p \in {p \in Node \ X : conn[n][p] # {}} : Room(n, p, pk)}
  <2>1. /\ Enqueue(n, Q, NewPacket(n, m)) /\ Q \in SUBSET Node
        /\ \A p \in Q : conn[n][p] # {}
        /\ calm' \in BOOLEAN /\ (calm' => calm) /\ "OK" \in Code \ {"pending"}
        /\ calm' => Q = Node \ (X \cup {n})
    BY <1>2 DEF BroadcastPacket, Code, States
  <2> HIDE DEF Q
  <2>2. Sends(n, m, t, "OK", Q)
    BY <1>2, <2>1 DEF Sends
  <2> QED BY <2>1, <2>2
<1>3. ASSUME NEW t \in Target, NEW p \in Node, NEW pk, pk = NewPacket(n, m),
             Submit(n, m, t, SendError(n, p, pk)), SendTo(n, p, pk),
             UNCHANGED <<routing, calm>>,
             \A q \in Node : Hears(q, n, t, es[n].leaderId) => q = p
      PROVE  \E r \in Code, P \in SUBSET Node : Sends(n, m, t, r, P)
  <2> DEFINE r == SendError(n, p, pk)
             Q == IF r = "OK" THEN {p} ELSE {}
  <2>1. /\ Enqueue(n, Q, NewPacket(n, m)) /\ Q \in SUBSET Node
        /\ \A q \in Q : conn[n][q] # {}
        /\ calm' \in BOOLEAN /\ r \in Code \ {"pending"}
        /\ Q # {} => r = "OK"
        /\ r = "OK" => p \in Q
    BY <1>3 DEF SendTo, SendError, Code, States
  <2> HIDE DEF Q, r
  <2>2. Sends(n, m, t, r, Q)
    BY <1>3, <2>1 DEF Sends, r
  <2> QED BY <2>1, <2>2
<1>4. ASSUME NEW t \in Target, NEW r \in {"InvalidArgument", "NotLeader"},
             Refuse(n, m, t, r)
      PROVE  Form(m, t)
  <2>1. r \in Code \ {"pending"} /\ Refuses(n, m, t, r)
    BY <1>4 DEF Code, Refuses
  <2> QED BY <2>1
<1>5. CASE BroadcastMessage(n, m)
  <2>1. PICK t \in Target : t = [to |-> "Broadcast"]
    BY DEF Target, Everyone
  <2>2. \A p \in Node : Hears(p, n, t, es[n].leaderId) => p # n /\ p \notin {}
    BY <2>1 DEF Hears, Everyone
  <2>3. \/ Refuse(n, m, t, "InvalidArgument")
        \/ ValidMessage(n, m) /\ Pause(n, m, t, "forward")
        \/ /\ ValidMessage(n, m) /\ Submit(n, m, t, "OK")
           /\ BroadcastPacket(n, NewPacket(n, m), {}) /\ UNCHANGED routing
    BY <1>5, <2>1 DEF BroadcastMessage
  <2>4. Pause(n, m, t, "forward") => Pauses(n, m, t, "forward")
    BY <2>1 DEF Pauses
  <2>5. Form(m, t)
    BY <1>2, <1>4, <2>2, <2>3, <2>4
  <2> QED BY <2>5 DEF CallStep
<1>6. CASE SendToLeader(n, m)
  <2>1. PICK t \in Target : t = [to |-> "ToLeader"]
    BY DEF Target, Everyone
  <2>2. \/ Refuse(n, m, t, "InvalidArgument")
        \/ Refuse(n, m, t, "OK") /\ Leads(n)
        \/ ValidMessage(n, m) /\ Pause(n, m, t, "direct")
    BY <1>6, <2>1 DEF SendToLeader
  <2>3. Refuse(n, m, t, "OK") /\ Leads(n) => Refuses(n, m, t, "OK")
    BY <2>1 DEF Refuses
  <2>4. Pause(n, m, t, "direct") => Pauses(n, m, t, "direct")
    BY <2>1 DEF Pauses
  <2>5. "OK" \in Code \ {"pending"}
    BY DEF Code
  <2>6. Form(m, t)
    BY <1>4, <2>2, <2>3, <2>4, <2>5
  <2> QED BY <2>6 DEF CallStep
<1>7. CASE SendFromLeader(n, m)
  <2>1. PICK t \in Target : t = [to |-> "FromLeader"]
    BY DEF Target, Everyone
  <2>2. \A p \in Node : Hears(p, n, t, es[n].leaderId) => p # n /\ p \notin {}
    BY <2>1 DEF Hears, Everyone
  <2>3. \/ \E r \in {"InvalidArgument", "NotLeader"} : Refuse(n, m, t, r)
        \/ /\ ValidMessage(n, m) /\ Submit(n, m, t, "OK")
           /\ BroadcastPacket(n, NewPacket(n, m), {}) /\ UNCHANGED routing
    BY <1>7, <2>1 DEF SendFromLeader
  <2>4. Form(m, t)
    BY <1>2, <1>4, <2>2, <2>3
  <2> QED BY <2>4 DEF CallStep
<1>8. CASE \E p \in Node : SendToPeer(n, m, p)
  <2>1. PICK p \in Node : SendToPeer(n, m, p)
    BY <1>8
  <2>2. PICK t \in Target : t = [to |-> "ToPeer", peer |-> p]
    BY DEF Target
  <2>3. \A q \in Node : Hears(q, n, t, es[n].leaderId) => q = p
    BY <2>2 DEF Hears, Everyone
  <2>4. \/ Refuse(n, m, t, "InvalidArgument")
        \/ /\ ValidMessage(n, m) /\ Submit(n, m, t, SendError(n, p, NewPacket(n, m)))
           /\ SendTo(n, p, NewPacket(n, m)) /\ UNCHANGED <<routing, calm>>
    BY <2>1, <2>2 DEF SendToPeer
  <2>5. Form(m, t)
    BY <1>3, <1>4, <2>3, <2>4
  <2> QED BY <2>5 DEF CallStep
<1>9. CASE \E from \in Node, p \in OptNode : ForwardMessage(n, m, from, p)
  <2>1. PICK from \in Node, p \in OptNode : ForwardMessage(n, m, from, p)
    BY <1>9
  <2>2. PICK t \in Target : t = [to |-> "Forward", from |-> from, peer |-> p]
    BY DEF Target
  <2>3. \/ \E r \in {"InvalidArgument", "NotLeader"} : Refuse(n, m, t, r)
        \/ /\ ValidMessage(n, m) /\ p = None /\ Submit(n, m, t, "OK")
           /\ BroadcastPacket(n, NewPacket(n, m), {from}) /\ UNCHANGED routing
        \/ /\ ValidMessage(n, m) /\ p # None
           /\ Submit(n, m, t, SendError(n, p, NewPacket(n, m)))
           /\ SendTo(n, p, NewPacket(n, m)) /\ UNCHANGED <<routing, calm>>
    BY <2>1, <2>2 DEF ForwardMessage
  <2>4. p = None => \A q \in Node : Hears(q, n, t, es[n].leaderId)
                                      => q # n /\ q \notin {from}
    BY <2>2 DEF Hears, Everyone
  <2>5. p # None => /\ p \in Node
                    /\ \A q \in Node : Hears(q, n, t, es[n].leaderId) => q = p
    BY <2>2 DEF Hears, Everyone, OptNode
  <2>6. {from} \in SUBSET Node
    OBVIOUS
  <2>7. Form(m, t)
    BY <1>2, <1>3, <1>4, <2>3, <2>4, <2>5, <2>6
  <2> QED BY <2>7 DEF CallStep
<1> QED BY <1>1, <1>5, <1>6, <1>7, <1>8, <1>9

BaseInv == ShapeInv /\ ContentInv

LEMMA BaseInit == Init => BaseInv
<1>1. SUFFICES ASSUME Init PROVE BaseInv
  OBVIOUS
<1>2. States
  <2>1. PICK l \in OptNode : es = [n \in Node |-> InitElection(n, l)]
    BY <1>1 DEF Init
  <2>2. ASSUME NEW n \in Node PROVE InitElection(n, l) \in ElectionState
    <3>1. NewElection(TRUE) \in ElectionState
      BY ElectionTypes DEF NewElection, ElectionState, Role, OptNode
    <3>2. l # None => HandleLeaderAssign(NewElection(TRUE), n, 1, l) \in ElectionState
      BY <3>1, ElectionTypes DEF OptNode
    <3> QED BY <3>1, <3>2 DEF InitElection
  <2>3. es \in [Node -> ElectionState]
    BY <2>1, <2>2
  <2>4. threshold \in [Node -> Nat]
    BY <1>1, RoutingAssumption DEF Init
  <2>5. central \in [Node -> BOOLEAN] /\ forward \in [Node -> BOOLEAN]
    BY <1>1, Zenon DEF Init
  <2> QED BY <1>1, <2>3, <2>4, <2>5 DEF Init, States
<1>3. Connections
  BY <1>1 DEF Init, Connections
<1>4. History
  BY <1>1, RoutingAssumption DEF Init, History
<1>5. Shapes
  BY <1>1, EmptySeq DEF Init, Shapes
<1>6. NothingOnCut
  BY <1>1 DEF Init, NothingOnCut
<1>7. Contents
  <2>1. \A n, p \in Node, c \in Channels : out[n][p][c] \in Seq(Outgoing(n))
    BY <1>1 DEF Init
  <2>2. \A n \in Node : inbox[n] \in Seq([peer : Node, packet : Good])
    BY <1>1 DEF Init
  <2>3. \A n \in Node : got[n] \in Seq(GoodReceipt)
    BY <1>1 DEF Init
  <2>4. relaying \in [Node -> {Idle} \cup Relays]
    BY <1>1 DEF Init
  <2> QED BY <2>1, <2>2, <2>3, <2>4 DEF Contents
<1>8. Routes
  BY <1>1 DEF Init, Routes
<1> QED BY <1>2, <1>3, <1>4, <1>5, <1>6, <1>7, <1>8 DEF BaseInv, ShapeInv, ContentInv

\* Queues that some good packet was appended to.
LEMMA EnqueueGood ==
  ASSUME BaseInv, History', Grows, NEW n \in Node, NEW P \in SUBSET Node,
         NEW pk \in Packet, Enqueue(n, P, pk), UNCHANGED conn,
         \A p \in P : conn[n][p] # {}, P # {} => pk \in Outgoing(n)'
  PROVE  \A m, p \in Node, c \in Channels : out'[m][p][c] \in Seq(Outgoing(m)')
<1>1. SUFFICES ASSUME NEW m \in Node, NEW p \in Node, NEW c \in Channels
               PROVE  out'[m][p][c] \in Seq(Outgoing(m)')
  OBVIOUS
<1>2. out[m][p][c] \in Seq(Outgoing(m)')
  <2>1. History /\ Contents
    BY DEF BaseInv, ShapeInv, ContentInv
  <2> QED BY <2>1, ContentGrows
<1>3. out'[m][p][c] = IF m = n /\ p \in P /\ c = ChannelFor(n, p, pk)
                        THEN Append(out[m][p][c], pk) ELSE out[m][p][c]
  <2>1. Connections /\ Shapes /\ NothingOnCut
    BY DEF BaseInv, ShapeInv
  <2>2. Appended(n, P, pk)
    BY <2>1, EnqueueEffect
  <2> QED BY <2>2 DEF Appended
<1>4. CASE m = n /\ p \in P /\ c = ChannelFor(n, p, pk)
  <2>1. pk \in Outgoing(m)'
    BY <1>4
  <2> QED BY <1>2, <1>3, <1>4, <2>1, AppendProperties
<1>5. CASE ~(m = n /\ p \in P /\ c = ChannelFor(n, p, pk))
  BY <1>2, <1>3, <1>5
<1> QED BY <1>4, <1>5

\* The calls that are under way at other nodes are not touched by a new call.
LEMMA RoutesKeep ==
  ASSUME History, Routes, NEW n \in Node, NEW m \in Data, NEW t \in Target,
         NEW r \in Code, Len(sent) < MaxSends, States, Submit(n, m, t, r)
  PROVE  \A p \in Node : routing[p] # Idle => Pending(p, routing[p])'
                                               \/ routing'[p] # routing[p]
<1>1. SUFFICES ASSUME NEW p \in Node, routing[p] # Idle, routing'[p] = routing[p]
               PROVE  Pending(p, routing[p])'
  OBVIOUS
<1>2. Pending(p, routing[p])
  BY <1>1 DEF Routes
<1>3. \A i \in 1 .. Len(sent) : /\ i \in 1 .. Len(sent')
                                /\ sent'[i] = sent[i]
                                /\ result'[i] = result[i]
  BY SubmitEffect
<1> QED BY <1>1, <1>2, <1>3 DEF Pending

\* What a call never changes.
LEMMA SubmitFrame ==
  ASSUME States, Connections, NEW n, NEW m, NEW t, NEW r, Submit(n, m, t, r),
         calm' \in BOOLEAN
  PROVE  /\ States' /\ Connections'
         /\ UNCHANGED <<es, conn, inbox, relaying, got, changes>>
<1>1. UNCHANGED <<es, central, forward, threshold, conn, inbox, relaying, got,
                  changes>>
  BY DEF Submit, SettingsUnchanged
<1>2. States'
  BY <1>1 DEF States
<1>3. Connections'
  BY <1>1 DEF Connections
<1> QED BY <1>1, <1>2, <1>3

LEMMA RefuseBase ==
  ASSUME BaseInv, NEW n \in Node, NEW m \in Data, NEW t \in Target,
         NEW r \in Code, Len(sent) < MaxSends, Refuse(n, m, t, r)
  PROVE  BaseInv'
<1> USE DEF BaseInv, ShapeInv, ContentInv, Refuse
<1>1. Submit(n, m, t, r) /\ UNCHANGED <<out, routing, calm>>
  OBVIOUS
<1>2. History' /\ Grows
  BY <1>1, SubmitEffect
<1>3. States' /\ Connections' /\ Shapes' /\ NothingOnCut'
  <2>1. calm' \in BOOLEAN
    BY <1>1 DEF States
  <2>2. /\ States' /\ Connections'
        /\ UNCHANGED <<es, conn, inbox, relaying, got, changes>>
    BY <1>1, <2>1, SubmitFrame
  <2>3. Shapes' /\ NothingOnCut'
    BY <1>1, <2>2 DEF Shapes, NothingOnCut
  <2> QED BY <2>2, <2>3
<1>4. Contents'
  BY <1>1, <1>2, ContentGrows DEF Submit, Contents
<1>5. Routes'
  BY <1>1, RoutesKeep DEF Routes
<1> QED BY <1>2, <1>3, <1>4, <1>5

LEMMA PauseBase ==
  ASSUME BaseInv, NEW n \in Node, NEW m \in Data, NEW t \in Target,
         NEW how \in {"forward", "direct"}, Len(sent) < MaxSends,
         ValidMessage(n, m), Pause(n, m, t, how)
  PROVE  BaseInv'
<1> USE DEF BaseInv, ShapeInv, ContentInv
<1>0. "pending" \in Code
  BY DEF Code
<1>1. Submit(n, m, t, "pending") /\ UNCHANGED <<out, calm>>
  BY DEF Pause
<1>2. History' /\ Grows
  BY <1>0, <1>1, SubmitEffect
<1>3. States' /\ Connections' /\ Shapes' /\ NothingOnCut'
  <2>1. calm' \in BOOLEAN
    BY <1>1 DEF States
  <2>2. /\ States' /\ Connections'
        /\ UNCHANGED <<es, conn, inbox, relaying, got, changes>>
    BY <1>1, <2>1, SubmitFrame
  <2>3. Shapes' /\ NothingOnCut'
    BY <1>1, <2>2 DEF Shapes, NothingOnCut
  <2> QED BY <2>2, <2>3
<1>4. Contents'
  BY <1>1, <1>2, ContentGrows DEF Submit, Contents
<1>5. Routes'
  <2>1. PICK id \in Nat : id = Len(sent) + 1
    BY <1>0, <1>1, SubmitEffect
  <2>2. /\ id \in 1 .. Len(sent') /\ sent'[id].data = m /\ sent'[id].from = n
        /\ result'[id] = "pending"
    BY <1>0, <1>1, <2>1, SubmitEffect
  <2>3. PICK x \in Route : /\ x.id = id /\ x.data = m
                           /\ routing' = [routing EXCEPT ![n] = x]
    BY <2>1 DEF Pause, Route
  <2>4. Pending(n, x)'
    BY <2>2, <2>3 DEF Pending, ValidMessage
  <2>5. routing' \in [Node -> {Idle} \cup Route]
    BY <2>3 DEF Routes
  <2>6. \A p \in Node : routing'[p] = IF p = n THEN x ELSE routing[p]
    BY <2>3 DEF Routes
  <2>7. ASSUME NEW p \in Node, routing'[p] # Idle
        PROVE  Pending(p, routing[p])'
    <3>1. CASE p = n
      <4>1. routing'[p] = x
        BY <2>6, <3>1
      <4> QED BY <2>4, <3>1, <4>1
    <3>2. CASE p # n
      BY <1>0, <1>1, <2>6, <2>7, <3>2, RoutesKeep
    <3> QED BY <3>1, <3>2
  <2> QED BY <2>5, <2>7 DEF Routes
<1> QED BY <1>2, <1>3, <1>4, <1>5

\* A packet of a call that is in the history, and has returned OK.
LEMMA GoodPacket ==
  ASSUME States, NEW n \in Node, NEW id \in Nat, NEW m \in Data, m.raw >= 0,
         ~IsInternal(m.type), NEW pk, pk = UserPacket(n, id, m),
         id \in 1 .. Len(sent'), result'[id] = "OK", sent'[id].data = m
  PROVE  /\ pk \in GoodUser' /\ pk \in Packet /\ pk.pay.id = id
         /\ ~TooLarge(m.raw, Limit[n]) => pk \in Outgoing(n)'
         /\ Encodable(pk, Limit[n]) => pk \in Outgoing(n)'
<1>1. MessageAs(pk, n, id, m)
  BY UserPacketEffect
<1>2. pk \in GoodUser'
  BY <1>1 DEF GoodUser, Genuine, MessageAs
<1> QED BY <1>1, <1>2 DEF Packet, Good, Outgoing, MessageAs

LEMMA SendsBase ==
  ASSUME BaseInv, NEW n \in Node, NEW m \in Data, NEW t \in Target,
         NEW r \in Code, NEW P \in SUBSET Node, Len(sent) < MaxSends,
         ValidMessage(n, m), Sends(n, m, t, r, P)
  PROVE  BaseInv'
<1> USE DEF BaseInv, ShapeInv, ContentInv
<1>1. Submit(n, m, t, r) /\ calm' \in BOOLEAN /\ UNCHANGED routing
  BY DEF Sends
<1>2. History' /\ Grows
  BY <1>1, SubmitEffect
<1>3. /\ States' /\ Connections'
      /\ UNCHANGED <<es, conn, inbox, relaying, got, changes>>
  BY <1>1, SubmitFrame
<1>4. PICK id \in Nat : id = Len(sent) + 1
  BY <1>1, SubmitEffect
<1>5. id \in 1 .. Len(sent') /\ sent'[id].data = m /\ result'[id] = r
  BY <1>1, <1>4, SubmitEffect
<1>6. PICK pk : pk = UserPacket(n, id, m)
  OBVIOUS
<1>7. pk \in Packet /\ (r = "OK" => pk \in Outgoing(n)')
  <2>1. m.raw >= 0 /\ ~TooLarge(m.raw, Limit[n]) /\ ~IsInternal(m.type)
    BY DEF ValidMessage
  <2>2. r = "OK" => pk \in Outgoing(n)'
    BY <1>5, <1>6, <2>1, GoodPacket
  <2>3. pk \in UserPkt
    BY <1>6, <2>1, UserPacketEffect DEF MessageAs
  <2> QED BY <2>2, <2>3 DEF Packet
<1>8. /\ Enqueue(n, P, pk) /\ (\A p \in P : conn[n][p] # {})
      /\ P # {} => pk \in Outgoing(n)'
  BY <1>4, <1>6, <1>7 DEF Sends, NewPacket
<1>9. /\ out' \in [Node -> [Node -> [Channels -> Seq(Packet)]]] /\ NothingOnCut'
  BY <1>3, <1>7, <1>8, EnqueueEffect
<1>10. \A q, p \in Node, c \in Channels : out'[q][p][c] \in Seq(Outgoing(q)')
  BY <1>2, <1>3, <1>7, <1>8, EnqueueGood
<1>11. Shapes'
  BY <1>3, <1>9 DEF Shapes
<1>12. Contents'
  BY <1>2, <1>3, <1>10, ContentGrows DEF Contents
<1>13. Routes'
  BY <1>1, RoutesKeep DEF Routes
<1> QED BY <1>2, <1>3, <1>9, <1>11, <1>12, <1>13

LEMMA CallBase ==
  ASSUME BaseInv, NEW n \in Node, CallStep(n)
  PROVE  BaseInv'
<1>1. States /\ Connections
  BY DEF BaseInv, ShapeInv
<1>2. Code \ {"pending"} \subseteq Code
  OBVIOUS
<1> QED BY <1>1, <1>2, CallForms, RefuseBase, PauseBase, SendsBase DEF Refuses, Pauses

-----------------------------------------------------------------------------
(* The router's second half.                                               *)

\* The forms of FinishRoute: the call `id` returns `code`, and when it returns
\* OK a packet has been queued for the leader the node knows.
Routed(n, id, code, P, pk) ==
  /\ result' = [result EXCEPT ![id] = code]
  /\ code \in Code \ {"pending"} /\ (P # {} => code = "OK")
  /\ \A p \in P : conn[n][p] # {}
  /\ \A p, q \in P : p = q
  /\ Enqueue(n, P, pk)
  /\ pk = IF routing[n].how = "forward" THEN Forwarded(n, routing[n])
          ELSE UserPacket(n, id, routing[n].data)
  /\ P # {} => Encodable(pk, Limit[n])
  /\ code = "OK" => P = {es[n].leaderId}

\* Queued for nobody: the queues stay as they are.
LEMMA NoneQueued ==
  ASSUME Shapes, NEW n \in Node, NEW pk, UNCHANGED out
  PROVE  Enqueue(n, {}, pk)
<1>1. out \in [Node -> [Node -> [Channels -> Seq(Packet)]]]
  BY DEF Shapes
<1>2. [p \in Node |-> out[n][p]] = out[n]
  BY <1>1
<1>3. [out EXCEPT ![n] = out[n]] = out
  BY <1>1
<1> QED BY <1>2, <1>3 DEF Enqueue

LEMMA RouteForms ==
  ASSUME BaseInv, NEW n \in Node, FinishRoute(n)
  PROVE  /\ routing[n] # Idle /\ routing' = [routing EXCEPT ![n] = Idle]
         /\ UNCHANGED <<es, central, forward, threshold, conn, inbox, relaying,
                        sent, got, calm, changes>>
         /\ \E code \in Code, P \in SUBSET Node : \E pk :
              Routed(n, routing[n].id, code, P, pk)
<1> DEFINE r == routing[n]
           l == es[n].leaderId
           pk == IF r.how = "forward" THEN Forwarded(n, r)
                 ELSE UserPacket(n, r.id, r.data)
<1>1. UNCHANGED out => Enqueue(n, {}, pk)
  <2> HIDE DEF pk
  <2> QED BY NoneQueued DEF BaseInv, ShapeInv
<1>2. pk = IF r.how = "forward" THEN Forwarded(n, r)
           ELSE UserPacket(n, r.id, r.data)
  OBVIOUS
<1>3. l \in OptNode
  BY DEF BaseInv, ShapeInv, States, ElectionState
<1> DEFINE Return(code) == result' = [result EXCEPT ![r.id] = code]
<1>4. /\ r # Idle /\ routing' = [routing EXCEPT ![n] = Idle]
      /\ UNCHANGED <<es, central, forward, threshold, conn, inbox, relaying,
                     sent, got, calm, changes>>
      /\ \/ l = None /\ Return("NotLeader") /\ UNCHANGED out
         \/ l # None /\ Return("MessageTooLarge") /\ UNCHANGED out
         \/ /\ l # None /\ Encodable(pk, Limit[n])
            /\ Return(SendError(n, l, pk)) /\ SendTo(n, l, pk)
  BY DEF FinishRoute, SettingsUnchanged
<1> HIDE DEF pk, r, l
<1>5. CASE l = None /\ Return("NotLeader") /\ UNCHANGED out
  <2>1. Routed(n, r.id, "NotLeader", {}, pk) /\ "NotLeader" \in Code
    BY <1>1, <1>2, <1>5 DEF Routed, Code, r
  <2> QED BY <1>4, <2>1 DEF r
<1>6. CASE l # None /\ Return("MessageTooLarge") /\ UNCHANGED out
  <2>1. Routed(n, r.id, "MessageTooLarge", {}, pk) /\ "MessageTooLarge" \in Code
    BY <1>1, <1>2, <1>6 DEF Routed, Code, r
  <2> QED BY <1>4, <2>1 DEF r
<1>7. CASE /\ l # None /\ Encodable(pk, Limit[n])
           /\ Return(SendError(n, l, pk)) /\ SendTo(n, l, pk)
  <2> DEFINE code == SendError(n, l, pk)
             P == IF code = "OK" THEN {l} ELSE {}
  <2>1. l \in Node
    BY <1>3, <1>7 DEF OptNode
  <2>2. /\ code \in Code \ {"pending"} /\ (P # {} => code = "OK")
        /\ (\A p \in P : conn[n][p] # {})
        /\ (\A p, q \in P : p = q) /\ P \in SUBSET Node
        /\ Enqueue(n, P, pk) /\ (code = "OK" => P = {l})
    BY <1>7, <2>1 DEF SendError, SendTo, Code
  <2>3. Return(code)
    BY <1>7
  <2> HIDE DEF code, P
  <2>4. Routed(n, r.id, code, P, pk)
    BY <1>2, <1>7, <2>2, <2>3 DEF Routed, r, l
  <2> QED BY <1>4, <2>2, <2>4 DEF r
<1> QED BY <1>4, <1>5, <1>6, <1>7

\* The result of the call that was pending is the only change to the history.
LEMMA RoutedHistory ==
  ASSUME History, Routes, NEW n \in Node, routing[n] # Idle, NEW code \in Code,
         NEW P, NEW pk, Routed(n, routing[n].id, code, P, pk), UNCHANGED sent
  PROVE  /\ History' /\ Grows /\ routing[n].id \in 1 .. Len(sent')
         /\ result'[routing[n].id] = code
         /\ \A i \in 1 .. Len(sent) : i # routing[n].id => result'[i] = result[i]
<1>1. PICK id : id = routing[n].id
  OBVIOUS
<1>2. id \in 1 .. Len(sent) /\ result[id] = "pending"
  BY <1>1 DEF Routes, Pending
<1>3. result \in Seq(Code) /\ Len(result) = Len(sent) /\ Len(sent) \in Nat
  BY DEF History
<1>4. result' = [result EXCEPT ![id] = code]
  BY <1>1 DEF Routed
<1>5. /\ result' \in Seq(Code) /\ Len(result') = Len(result)
      /\ \A i \in 1 .. Len(sent) : result'[i] = IF i = id THEN code ELSE result[i]
  BY <1>2, <1>3, <1>4, ExceptSeq
<1>6. History'
  BY <1>5 DEF History
<1>7. Grows
  BY <1>2, <1>3, <1>5 DEF Grows
<1> QED BY <1>1, <1>2, <1>5, <1>6, <1>7

\* What the router queues carries what its call was given.
LEMMA RoutedGood ==
  ASSUME BaseInv, NEW n \in Node, routing[n] # Idle, NEW code \in Code,
         NEW P, NEW pk, Routed(n, routing[n].id, code, P, pk), UNCHANGED sent
  PROVE  /\ pk \in Packet /\ pk.pay.id = routing[n].id
         /\ P # {} => pk \in Outgoing(n)'
<1> USE DEF BaseInv, ShapeInv, ContentInv
<1>1. PICK r \in Route : r = routing[n]
  BY DEF Routes
<1>2. Pending(n, r)
  BY <1>1 DEF Routes
<1>3. /\ r.data \in Data /\ r.id \in Nat /\ r.data.raw >= 0
      /\ ~IsInternal(r.data.type)
  BY <1>2 DEF Route, Pending
<1>4. /\ r.id \in 1 .. Len(sent') /\ result'[r.id] = code
      /\ sent'[r.id].data = r.data /\ sent'[r.id].from = n
  BY <1>1, <1>2, RoutedHistory DEF Pending
<1>5. P # {} => code = "OK" /\ Encodable(pk, Limit[n])
  BY DEF Routed
<1>6. CASE pk = UserPacket(n, r.id, r.data)
  <2>1. MessageAs(pk, n, r.id, r.data)
    BY <1>3, <1>6, UserPacketEffect
  <2>2. P # {} => pk \in Outgoing(n)'
    BY <1>3, <1>4, <1>5, <1>6, GoodPacket
  <2> QED BY <1>1, <2>1, <2>2 DEF MessageAs, Packet
<1>7. CASE pk = Forwarded(n, r)
  <2>1. EnvelopeAs(pk, n, r)
    BY <1>3, <1>7, ForwardedEffect
  <2>2. P # {} => pk \in GoodForward'
    BY <1>3, <1>4, <1>5, <2>1 DEF GoodForward, Genuine, EnvelopeAs
  <2> QED BY <1>1, <1>5, <2>1, <2>2 DEF EnvelopeAs, Packet, Outgoing, Good
<1> QED BY <1>1, <1>6, <1>7 DEF Routed

LEMMA RouteBase ==
  ASSUME BaseInv, NEW n \in Node, FinishRoute(n)
  PROVE  BaseInv'
<1> USE DEF BaseInv, ShapeInv, ContentInv
<1>1. /\ routing[n] # Idle /\ routing' = [routing EXCEPT ![n] = Idle]
      /\ UNCHANGED <<es, central, forward, threshold, conn, inbox, relaying,
                     sent, got, calm, changes>>
  BY RouteForms
<1>2a. PICK code \in Code, P \in SUBSET Node :
         \E pk : Routed(n, routing[n].id, code, P, pk)
  BY RouteForms
<1>2. PICK pk : Routed(n, routing[n].id, code, P, pk)
  BY <1>2a
<1>3. /\ pk \in Packet /\ pk.pay.id = routing[n].id
      /\ P # {} => pk \in Outgoing(n)'
  BY <1>1, <1>2, RoutedGood
<1>4. /\ History' /\ Grows
      /\ \A i \in 1 .. Len(sent) : i # routing[n].id => result'[i] = result[i]
  BY <1>1, <1>2, RoutedHistory
<1>5. Enqueue(n, P, pk) /\ \A p \in P : conn[n][p] # {}
  BY <1>2 DEF Routed
<1>6. States' /\ Connections'
  BY <1>1 DEF States, Connections
<1>7. /\ out' \in [Node -> [Node -> [Channels -> Seq(Packet)]]] /\ NothingOnCut'
  BY <1>1, <1>3, <1>5, EnqueueEffect
<1>8. \A q, p \in Node, c \in Channels : out'[q][p][c] \in Seq(Outgoing(q)')
  BY <1>1, <1>3, <1>4, <1>5, EnqueueGood
<1>9. Shapes'
  BY <1>1, <1>7 DEF Shapes
<1>10. Contents'
  BY <1>1, <1>4, <1>8, ContentGrows DEF Contents
<1>11. Routes'
  <2>1. routing' \in [Node -> {Idle} \cup Route]
    BY <1>1 DEF Routes
  <2>2. ASSUME NEW p \in Node, routing'[p] # Idle PROVE Pending(p, routing[p])'
    <3>1. p # n /\ routing'[p] = routing[p]
      BY <1>1, <2>2 DEF Routes
    <3>2. Pending(p, routing[p]) /\ Pending(n, routing[n])
      BY <1>1, <2>2, <3>1 DEF Routes
    <3>3. routing[p].id # routing[n].id
      BY <3>1, <3>2 DEF Pending
    <3> QED BY <1>1, <1>4, <3>1, <3>2, <3>3 DEF Pending
  <2> QED BY <2>1, <2>2 DEF Routes
<1> QED BY <1>4, <1>6, <1>7, <1>9, <1>10, <1>11

-----------------------------------------------------------------------------
(* The channels, the handler and the changes.                              *)

\* Where the history of calls does not change, neither do the good sets.
LEMMA SameHistory ==
  ASSUME History, UNCHANGED <<sent, result>>
  PROVE  /\ History' /\ Grows /\ Good' = Good /\ GoodReceipt' = GoodReceipt
         /\ \A n \in Node : Outgoing(n)' = Outgoing(n)
         /\ Relays' = Relays /\ GoodForward' = GoodForward
<1>1. History'
  BY DEF History
<1>2. Grows
  BY DEF History, Grows
<1>3. GoodUser' = GoodUser /\ GoodForward' = GoodForward
  BY DEF GoodUser, GoodForward, Genuine
<1>4. GoodReceipt' = GoodReceipt
  BY DEF GoodReceipt, Genuine
<1>5. Good' = Good
  BY <1>3 DEF Good
<1>6. \A n \in Node : Outgoing(n)' = Outgoing(n)
  BY <1>5 DEF Outgoing
<1>7. Relays' = Relays
  BY <1>3 DEF Relays
<1> QED BY <1>1, <1>2, <1>3, <1>4, <1>5, <1>6, <1>7

LEMMA RoutesSame ==
  ASSUME Routes, UNCHANGED <<sent, result, routing>>
  PROVE  Routes'
BY DEF Routes, Pending

\* Both ends of a channel are dropped, with what it carried.
LEMMA CutEffect ==
  ASSUME Connections, Shapes, NothingOnCut, NEW n \in Node, NEW p \in Node, n # p,
         NEW c \in Channels, Cut(n, p, c)
  PROVE  /\ out' \in [Node -> [Node -> [Channels -> Seq(Packet)]]]
         /\ Connections' /\ NothingOnCut' /\ calm' \in BOOLEAN
         /\ \A m, q \in Node, d \in Channels :
              out'[m][q][d] = out[m][q][d] \/ out'[m][q][d] = <<>>
<1> DEFINE gone == IF c = "control" THEN Channels ELSE {"data"}
           left(s) == [d \in Channels |-> IF d \in gone THEN <<>> ELSE s[d]]
<1>1. conn' = [conn EXCEPT ![n][p] = @ \ gone, ![p][n] = @ \ gone]
  BY DEF Cut
<1>2. out' = [out EXCEPT ![n][p] = left(@), ![p][n] = left(@)]
  BY DEF Cut
<1>3. \A s \in [Channels -> Seq(Packet)] : left(s) \in [Channels -> Seq(Packet)]
  OBVIOUS
<1>4. ASSUME NEW m \in Node, NEW q \in Node
      PROVE  /\ conn'[m][q] = IF <<m, q>> \in {<<n, p>>, <<p, n>>}
                                THEN conn[m][q] \ gone ELSE conn[m][q]
             /\ out'[m][q] = IF <<m, q>> \in {<<n, p>>, <<p, n>>}
                                THEN left(out[m][q]) ELSE out[m][q]
  <2>1. conn'[m][q] = IF <<m, q>> \in {<<n, p>>, <<p, n>>}
                        THEN conn[m][q] \ gone ELSE conn[m][q]
    BY <1>1 DEF Connections
  <2> HIDE DEF left
  <2>2. out'[m][q] = IF <<m, q>> \in {<<n, p>>, <<p, n>>}
                       THEN left(out[m][q]) ELSE out[m][q]
    BY <1>2 DEF Shapes
  <2> QED BY <2>1, <2>2
<1>5. out' \in [Node -> [Node -> [Channels -> Seq(Packet)]]]
  <2>1. left(out[n][p]) \in [Channels -> Seq(Packet)]
        /\ left(out[p][n]) \in [Channels -> Seq(Packet)]
    BY <1>3 DEF Shapes
  <2> HIDE DEF left
  <2> QED BY <1>2, <2>1 DEF Shapes
<1>6. Connections'
  <2>1. \A s \in {{}, {"control"}, Channels} : s \ gone \in {{}, {"control"}, Channels}
    BY DEF Channels
  <2>2. conn' \in [Node -> [Node -> {{}, {"control"}, Channels}]]
    <3> DEFINE S == {{}, {"control"}, Channels}
    <3>1. conn \in [Node -> [Node -> S]]
      BY DEF Connections
    <3> HIDE DEF gone, S
    <3>2. conn[n][p] \ gone \in S /\ conn[p][n] \ gone \in S
      BY <2>1, <3>1 DEF S
    <3>3. conn' \in [Node -> [Node -> S]]
      BY <1>1, <3>1, <3>2
    <3> QED BY <3>3 DEF S
  <2> QED BY <1>4, <2>2 DEF Connections
<1>7. ASSUME NEW m \in Node, NEW q \in Node, NEW d \in Channels
      PROVE  /\ out'[m][q][d] = out[m][q][d] \/ out'[m][q][d] = <<>>
             /\ d \notin conn'[m][q] => out'[m][q][d] = <<>>
  <2>1. CASE <<m, q>> \in {<<n, p>>, <<p, n>>}
    <3>a. conn'[m][q] = conn[m][q] \ gone /\ out'[m][q] = left(out[m][q])
      <4> HIDE DEF gone, left
      <4> QED BY <1>4, <2>1
    <3>1. /\ conn'[m][q] = conn[m][q] \ gone
          /\ out'[m][q][d] = IF d \in gone THEN <<>> ELSE out[m][q][d]
      <4> HIDE DEF gone
      <4> QED BY <3>a
    <3> HIDE DEF gone
    <3> QED BY <3>1 DEF NothingOnCut
  <2>2. CASE <<m, q>> \notin {<<n, p>>, <<p, n>>}
    <3>1. conn'[m][q] = conn[m][q] /\ out'[m][q] = out[m][q]
      <4> HIDE DEF gone, left
      <4> QED BY <1>4, <2>2
    <3> QED BY <3>1 DEF NothingOnCut
  <2> QED BY <2>1, <2>2
<1>8. calm' \in BOOLEAN
  BY DEF Cut
<1> QED BY <1>5, <1>6, <1>7, <1>8 DEF NothingOnCut

LEMMA CutBase ==
  ASSUME BaseInv, NEW n \in Node, NEW p \in Node, n # p, NEW c \in Channels,
         Cut(n, p, c),
         UNCHANGED <<es, central, forward, threshold, inbox, routing, relaying,
                     sent, result, got>>
  PROVE  BaseInv'
<1> USE DEF BaseInv, ShapeInv, ContentInv
<1>1. /\ out' \in [Node -> [Node -> [Channels -> Seq(Packet)]]]
      /\ Connections' /\ NothingOnCut' /\ calm' \in BOOLEAN
      /\ \A m, q \in Node, d \in Channels :
           out'[m][q][d] = out[m][q][d] \/ out'[m][q][d] = <<>>
  BY CutEffect
<1>2. States'
  BY <1>1 DEF States
<1>3. Shapes'
  BY <1>1 DEF Shapes
<1>4. History'
  BY SameHistory
<1>5. \A m, q \in Node, d \in Channels : out'[m][q][d] \in Seq(Outgoing(m)')
  <2>1. SUFFICES ASSUME NEW m \in Node, NEW q \in Node, NEW d \in Channels
                 PROVE  out'[m][q][d] \in Seq(Outgoing(m))
    BY SameHistory
  <2>2. out[m][q][d] \in Seq(Outgoing(m)) /\ <<>> \in Seq(Outgoing(m))
    BY EmptySeq DEF Contents
  <2> QED BY <1>1, <2>2
<1>6. Contents'
  BY <1>5, SameHistory DEF Contents
<1>7. Routes'
  BY RoutesSame
<1> QED BY <1>1, <1>2, <1>3, <1>4, <1>6, <1>7

\* A packet leaves a queue, at its head.
Dequeued(n, p, c) ==
  /\ out' \in [Node -> [Node -> [Channels -> Seq(Packet)]]]
  /\ out'[p][n][c] = Tail(out[p][n][c])
  /\ \A m, q \in Node, d \in Channels :
       ~(m = p /\ q = n /\ d = c) => out'[m][q][d] = out[m][q][d]

LEMMA DequeueEffect ==
  ASSUME Shapes, NEW n \in Node, NEW p \in Node, NEW c \in Channels,
         out[p][n][c] # <<>>, out' = [out EXCEPT ![p][n][c] = Tail(@)]
  PROVE  Head(out[p][n][c]) \in Packet /\ Dequeued(n, p, c)
<1>1. out \in [Node -> [Node -> [Channels -> Seq(Packet)]]]
  BY DEF Shapes
<1>2. /\ Head(out[p][n][c]) \in Packet
      /\ Tail(out[p][n][c]) \in Seq(Packet)
  BY <1>1, HeadTailProperties
<1>3. out' \in [Node -> [Node -> [Channels -> Seq(Packet)]]]
  BY <1>1, <1>2
<1>4. out'[p][n][c] = Tail(out[p][n][c])
  BY <1>1
<1>5. ASSUME NEW m \in Node, NEW q \in Node, NEW d \in Channels,
             ~(m = p /\ q = n /\ d = c)
      PROVE  out'[m][q][d] = out[m][q][d]
  BY <1>1, <1>5
<1> QED BY <1>2, <1>3, <1>4, <1>5 DEF Dequeued

\* The two ends of a queue that is not empty are two nodes.
LEMMA QueueEnds ==
  ASSUME Connections, NothingOnCut, NEW n \in Node, NEW p \in Node,
         NEW c \in Channels, out[p][n][c] # <<>>
  PROVE  n # p
BY DEF Connections, NothingOnCut

LEMMA ReadBase ==
  ASSUME BaseInv, NEW n \in Node, NEW p \in Node, NEW c \in Channels, Read(n, p, c)
  PROVE  BaseInv'
<1> USE DEF BaseInv, ShapeInv, ContentInv
<1>1. PICK pk : pk = Head(out[p][n][c])
  OBVIOUS
<1>2. out[p][n][c] # <<>> /\ n # p
  BY QueueEnds DEF Read
<1>3. UNCHANGED <<es, central, forward, threshold, routing, relaying, sent,
                  result, got, changes>>
  BY DEF Read, SettingsUnchanged
<1>4. CASE /\ inbox' = [inbox EXCEPT ![n] = Append(@, [peer |-> p, packet |-> pk])]
           /\ out' = [out EXCEPT ![p][n][c] = Tail(@)]
           /\ UNCHANGED <<conn, calm>>
  <2>1. /\ pk \in Packet
        /\ out' \in [Node -> [Node -> [Channels -> Seq(Packet)]]]
        /\ out'[p][n][c] = Tail(out[p][n][c])
        /\ \A m, q \in Node, d \in Channels :
             ~(m = p /\ q = n /\ d = c) => out'[m][q][d] = out[m][q][d]
    <3>1. pk \in Packet /\ Dequeued(n, p, c)
      BY <1>1, <1>2, <1>4, DequeueEffect
    <3> QED BY <3>1 DEF Dequeued
  <2>2. pk \in Outgoing(p) /\ Tail(out[p][n][c]) \in Seq(Outgoing(p))
    <3>1. out[p][n][c] \in Seq(Outgoing(p))
      BY DEF Contents
    <3> QED BY <1>1, <1>2, <3>1, HeadTailProperties
  <2>3. pk \in Good
    BY <2>2 DEF Outgoing
  <2>4. PICK a : a = [peer |-> p, packet |-> pk]
    OBVIOUS
  <2>5. a \in Arrival /\ a \in [peer : Node, packet : Good]
    BY <2>1, <2>3, <2>4 DEF Arrival
  <2>6. inbox' = [inbox EXCEPT ![n] = Append(@, a)]
    BY <1>4, <2>4
  <2>7. inbox' \in [Node -> Seq(Arrival)]
    BY <2>5, <2>6 DEF Shapes
  <2>8. ASSUME NEW m \in Node
        PROVE  inbox'[m] \in Seq([peer : Node, packet : Good])
    <3>1. inbox[m] \in Seq([peer : Node, packet : Good])
      BY DEF Contents
    <3>2. Append(inbox[n], a) \in Seq([peer : Node, packet : Good])
      BY <2>5, AppendProperties DEF Contents
    <3> QED BY <2>6, <3>1, <3>2 DEF Shapes
  <2>9. ASSUME NEW m \in Node, NEW q \in Node, NEW d \in Channels
        PROVE  out'[m][q][d] \in Seq(Outgoing(m))
    <3>1. out[m][q][d] \in Seq(Outgoing(m))
      BY DEF Contents
    <3>2. CASE m = p /\ q = n /\ d = c
      BY <2>1, <2>2, <3>2
    <3>3. CASE ~(m = p /\ q = n /\ d = c)
      BY <2>1, <3>1, <3>3
    <3> QED BY <3>2, <3>3
  <2>10. NothingOnCut'
    <3>1. SUFFICES ASSUME NEW m \in Node, NEW q \in Node, NEW d \in Channels,
                          d \notin conn[m][q]
                   PROVE  out'[m][q][d] = <<>>
      BY <1>4 DEF NothingOnCut
    <3>2. out[m][q][d] = <<>>
      BY <3>1 DEF NothingOnCut
    <3> QED BY <1>2, <2>1, <3>2
  <2>11. States' /\ Connections'
    BY <1>3, <1>4 DEF States, Connections
  <2>12. Shapes'
    BY <1>3, <2>1, <2>7 DEF Shapes
  <2>13. Contents'
    BY <1>3, <2>8, <2>9, SameHistory DEF Contents
  <2> QED BY <1>3, <2>10, <2>11, <2>12, <2>13, SameHistory, RoutesSame
<1>5. CASE Cut(n, p, c) /\ UNCHANGED inbox
  BY <1>2, <1>3, <1>5, CutBase
<1> QED BY <1>1, <1>4, <1>5 DEF Read

\* A receipt is added to what a node has delivered.
LEMMA DeliverBase ==
  ASSUME Shapes, Contents, NEW n \in Node, NEW g \in GoodReceipt,
         got' = [got EXCEPT ![n] = Append(@, g)]
  PROVE  /\ got' \in [Node -> Seq(Receipt)]
         /\ \A m \in Node : got'[m] \in Seq(GoodReceipt)
<1>1. g \in Receipt
  BY DEF GoodReceipt
<1>2. got \in [Node -> Seq(Receipt)]
  BY DEF Shapes
<1>3. got[n] \in Seq(GoodReceipt)
  BY DEF Contents
<1>4. Append(got[n], g) \in Seq(Receipt) /\ Append(got[n], g) \in Seq(GoodReceipt)
  BY <1>1, <1>2, <1>3, AppendProperties
<1>5. got' \in [Node -> Seq(Receipt)]
  BY <1>2, <1>4
<1>6. \A m \in Node : got'[m] = IF m = n THEN Append(got[n], g) ELSE got[m]
  BY <1>2
<1> QED BY <1>4, <1>5, <1>6 DEF Contents

\* The handler takes the packet at the head of its inbox.
LEMMA TakeBase ==
  ASSUME Shapes, Contents, NEW n \in Node, inbox[n] # <<>>,
         inbox' = [inbox EXCEPT ![n] = Tail(@)]
  PROVE  /\ Received(n) \in [peer : Node, packet : Good] /\ Received(n) \in Arrival
         /\ inbox' \in [Node -> Seq(Arrival)]
         /\ \A m \in Node : inbox'[m] \in Seq([peer : Node, packet : Good])
         /\ \A m \in Node : inbox'[m] = IF m = n THEN Tail(inbox[n]) ELSE inbox[m]
<1>1. inbox \in [Node -> Seq(Arrival)]
  BY DEF Shapes
<1>2. inbox[n] \in Seq([peer : Node, packet : Good])
  BY DEF Contents
<1>3. /\ Tail(inbox[n]) \in Seq(Arrival) /\ Head(inbox[n]) \in Arrival
      /\ Tail(inbox[n]) \in Seq([peer : Node, packet : Good])
      /\ Head(inbox[n]) \in [peer : Node, packet : Good]
  BY <1>1, <1>2, HeadTailProperties
<1>4. inbox' \in [Node -> Seq(Arrival)]
  BY <1>1, <1>3
<1>5. \A m \in Node : inbox'[m] = IF m = n THEN Tail(inbox[n]) ELSE inbox[m]
  BY <1>1
<1> QED BY <1>3, <1>4, <1>5 DEF Received, Contents

\* The kinds of good packets.
LEMMA GoodKinds ==
  ASSUME NEW pk \in Good
  PROVE  /\ pk \in Packet
         /\ ~IsInternal(pk.type) => pk \in GoodUser
         /\ Forwards(pk) => pk \in GoodForward
         /\ Assigns(pk) => pk \in AssignPkt
<1>1. pk \in Packet
  BY DEF Good, GoodUser, GoodForward, Packet
<1>2. pk \in GoodUser => pk \in UserPkt
  BY DEF GoodUser
<1>3. pk \in GoodForward => pk \in FwdPkt
  BY DEF GoodForward
<1>4. pk \in UserPkt => pk \notin FwdPkt /\ pk \notin AssignPkt
  BY <1>1, PacketKinds DEF Forwards, Assigns
<1>5. pk \in FwdPkt => pk \notin AssignPkt
  BY <1>1, PacketKinds DEF Forwards, Assigns
<1> QED BY <1>1, <1>2, <1>3, <1>4, <1>5, PacketKinds DEF Good

\* What most handlers leave alone.
LEMMA HandlerFrame ==
  ASSUME ShapeInv, UNCHANGED <<es, central, forward, threshold, calm, conn, out>>
  PROVE  States' /\ Connections' /\ NothingOnCut'
<1>1. States'
  BY DEF ShapeInv, States
<1>2. Connections'
  BY DEF ShapeInv, Connections
<1>3. NothingOnCut'
  BY DEF ShapeInv, NothingOnCut
<1> QED BY <1>1, <1>2, <1>3

\* What a user packet or a forwarded one is delivered as.
LEMMA GoodDelivery ==
  ASSUME NEW pk, NEW peer \in Node
  PROVE  /\ pk \in GoodUser =>
              /\ DecodePayload(pk).id = pk.pay.id /\ pk.pay.id \in Nat
              /\ [peer |-> peer, id |-> DecodePayload(pk).id, type |-> pk.type,
                  flags |-> pk.flags, size |-> DecodePayload(pk).size]
                   \in GoodReceipt
         /\ pk \in GoodForward =>
              /\ pk.from \in Node /\ pk.pay.id \in Nat
              /\ [peer |-> pk.from, id |-> pk.pay.id, type |-> pk.original,
                  flags |-> pk.originalFlags, size |-> pk.pay.size]
                   \in GoodReceipt
<1>1. ASSUME pk \in GoodUser
      PROVE  /\ DecodePayload(pk).id = pk.pay.id /\ pk.pay.id \in Nat
             /\ [peer |-> peer, id |-> DecodePayload(pk).id, type |-> pk.type,
                 flags |-> pk.flags, size |-> DecodePayload(pk).size]
                   \in GoodReceipt
  <2>1. /\ pk.type \in Nat /\ pk.flags \in Flags /\ pk.pay \in Pay
        /\ Genuine(pk.pay.id, pk.type, pk.flags, pk.pay.raw)
        /\ IsCompressed(pk.flags) <=> pk.pay.size # pk.pay.raw
    BY <1>1 DEF GoodUser, UserPkt
  <2>2. DecodePayload(pk).id = pk.pay.id /\ DecodePayload(pk).size = pk.pay.raw
    <3>1. CASE IsCompressed(pk.flags)
      <4>1. DecodePayload(pk) = [pk.pay EXCEPT !.size = pk.pay.raw]
        BY <3>1 DEF DecodePayload
      <4> QED BY <2>1, <4>1 DEF Pay
    <3>2. CASE ~IsCompressed(pk.flags)
      <4>1. DecodePayload(pk) = pk.pay
        BY <3>2 DEF DecodePayload
      <4> QED BY <2>1, <3>2, <4>1
    <3> QED BY <3>1, <3>2
  <2>3. pk.pay.id \in Nat /\ pk.pay.raw \in Int
    BY <2>1 DEF Pay
  <2>4. PICK g : g = [peer |-> peer, id |-> pk.pay.id, type |-> pk.type,
                      flags |-> pk.flags, size |-> pk.pay.raw]
    OBVIOUS
  <2>5. g \in Receipt
    BY <2>1, <2>3, <2>4 DEF Receipt
  <2>6. Genuine(g.id, g.type, g.flags, g.size)
    BY <2>1, <2>4
  <2>7. g \in GoodReceipt
    BY <2>5, <2>6 DEF GoodReceipt
  <2> QED BY <2>2, <2>3, <2>4, <2>7
<1>2. ASSUME pk \in GoodForward
      PROVE  /\ pk.from \in Node /\ pk.pay.id \in Nat
             /\ [peer |-> pk.from, id |-> pk.pay.id, type |-> pk.original,
                 flags |-> pk.originalFlags, size |-> pk.pay.size]
                  \in GoodReceipt
  <2>1. /\ pk.original \in Nat /\ pk.originalFlags \in Flags /\ pk.pay \in Pay
        /\ Genuine(pk.pay.id, pk.original, pk.originalFlags, pk.pay.raw)
        /\ pk.pay.size = pk.pay.raw /\ pk.from \in Node
    BY <1>2 DEF GoodForward, FwdPkt
  <2>2. pk.pay.id \in Nat /\ pk.pay.size \in Int
    BY <2>1 DEF Pay
  <2>3. PICK g : g = [peer |-> pk.from, id |-> pk.pay.id, type |-> pk.original,
                      flags |-> pk.originalFlags, size |-> pk.pay.size]
    OBVIOUS
  <2>4. g \in Receipt
    BY <2>1, <2>2, <2>3 DEF Receipt
  <2>5. Genuine(g.id, g.type, g.flags, g.size)
    BY <2>1, <2>3
  <2> QED BY <2>1, <2>2, <2>3, <2>4, <2>5 DEF GoodReceipt
<1> QED BY <1>1, <1>2

LEMMA UserBase ==
  ASSUME BaseInv, NEW n \in Node, OnUser(n)
  PROVE  BaseInv'
<1> USE DEF BaseInv, ShapeInv, ContentInv
<1>1. PICK a : a = Received(n)
  OBVIOUS
<1>2. /\ inbox[n] # <<>> /\ ~IsInternal(a.packet.type)
      /\ inbox' = [inbox EXCEPT ![n] = Tail(@)]
      /\ UNCHANGED <<es, central, forward, threshold, conn, out, routing, relaying,
                     sent, result, calm, changes>>
  BY <1>1 DEF OnUser, Takes, SettingsUnchanged
<1>3. /\ a \in [peer : Node, packet : Good]
      /\ inbox' \in [Node -> Seq(Arrival)]
      /\ \A m \in Node : inbox'[m] \in Seq([peer : Node, packet : Good])
  BY <1>1, <1>2, TakeBase
<1>4. a.packet \in GoodUser /\ a.peer \in Node
  BY <1>2, <1>3, GoodKinds
<1>5. PICK g : g = [peer |-> a.peer, id |-> DecodePayload(a.packet).id,
                    type |-> a.packet.type, flags |-> a.packet.flags,
                    size |-> DecodePayload(a.packet).size]
  OBVIOUS
<1>6. g \in GoodReceipt
  BY <1>4, <1>5, GoodDelivery
<1>7. got' = [got EXCEPT ![n] = Append(@, g)] \/ got' = got
  BY <1>1, <1>5 DEF OnUser, Deliver
<1>8. got' \in [Node -> Seq(Receipt)] /\ \A m \in Node : got'[m] \in Seq(GoodReceipt)
  <2>1. CASE got' = got
    BY <2>1 DEF Shapes, Contents
  <2>2. CASE got' = [got EXCEPT ![n] = Append(@, g)]
    BY <1>6, <2>2, DeliverBase
  <2> QED BY <1>7, <2>1, <2>2
<1>9. States' /\ Connections' /\ NothingOnCut'
  BY <1>2, HandlerFrame
<1>10. Shapes'
  BY <1>2, <1>3, <1>8 DEF Shapes
<1>11. Contents'
  BY <1>2, <1>3, <1>8, SameHistory DEF Contents
<1> QED BY <1>2, <1>9, <1>10, <1>11, SameHistory, RoutesSame

LEMMA ForwardedBase ==
  ASSUME BaseInv, NEW n \in Node, OnForwarded(n)
  PROVE  BaseInv'
<1> USE DEF BaseInv, ShapeInv, ContentInv
<1>1. PICK pk : pk = Received(n).packet
  OBVIOUS
<1>2. /\ inbox[n] # <<>> /\ Forwards(pk)
      /\ inbox' = [inbox EXCEPT ![n] = Tail(@)]
      /\ UNCHANGED <<es, central, forward, threshold, conn, out, routing,
                     sent, result, calm, changes>>
  BY <1>1 DEF OnForwarded, Takes, SettingsUnchanged
<1>3. /\ Received(n) \in [peer : Node, packet : Good]
      /\ inbox' \in [Node -> Seq(Arrival)]
      /\ \A m \in Node : inbox'[m] \in Seq([peer : Node, packet : Good])
  BY <1>2, TakeBase
<1>4. pk \in GoodForward
  BY <1>1, <1>2, <1>3, GoodKinds
<1>5. PICK g : g = [peer |-> pk.from, id |-> pk.pay.id, type |-> pk.original,
                    flags |-> pk.originalFlags, size |-> pk.pay.size]
  OBVIOUS
<1>6. g \in GoodReceipt /\ pk.pay.id \in Nat
  BY <1>4, <1>5, GoodDelivery
<1>7. PICK r : r = [id |-> pk.pay.id, packet |-> pk]
  OBVIOUS
<1>8. r \in Relays
  BY <1>4, <1>6, <1>7 DEF Relays
<1>9. \/ relaying' = [relaying EXCEPT ![n] = r] /\ got' = got
      \/ relaying' = relaying /\ got' = [got EXCEPT ![n] = Append(@, g)]
  BY <1>1, <1>5, <1>7 DEF OnForwarded, Deliver
<1>10. /\ got' \in [Node -> Seq(Receipt)]
       /\ \A m \in Node : got'[m] \in Seq(GoodReceipt)
       /\ relaying' \in [Node -> {Idle} \cup Relays]
  <2>1. CASE relaying' = [relaying EXCEPT ![n] = r] /\ got' = got
    BY <1>8, <2>1 DEF Shapes, Contents
  <2>2. CASE relaying' = relaying /\ got' = [got EXCEPT ![n] = Append(@, g)]
    <3>1. /\ got' \in [Node -> Seq(Receipt)]
          /\ \A m \in Node : got'[m] \in Seq(GoodReceipt)
      BY <1>6, <2>2, DeliverBase
    <3> QED BY <2>2, <3>1 DEF Contents
  <2> QED BY <1>9, <2>1, <2>2
<1>11. States' /\ Connections' /\ NothingOnCut'
  BY <1>2, HandlerFrame
<1>12. Shapes'
  BY <1>2, <1>3, <1>10 DEF Shapes
<1>13. Contents'
  BY <1>2, <1>3, <1>10, SameHistory DEF Contents
<1> QED BY <1>2, <1>11, <1>12, <1>13, SameHistory, RoutesSame

\* The copy of a forwarded message that its leader sends on.
Copy(n) ==
  LET packet == relaying[n].packet
  IN EncodePacket(packet.original, packet.originalFlags, packet.pay, threshold[n])

LEMMA CopyGood ==
  ASSUME States, History, Contents, NEW n \in Node, relaying[n] # Idle
  PROVE  /\ relaying[n].packet \in GoodForward
         /\ relaying[n].id = relaying[n].packet.pay.id
         /\ Copy(n) \in GoodUser /\ Copy(n) \in Packet
         /\ Copy(n).pay.id = relaying[n].id
         /\ Encodable(Copy(n), Limit[n]) => Copy(n) \in Outgoing(n)
<1>1. PICK pk : pk = relaying[n].packet
  OBVIOUS
<1>2. pk \in GoodForward /\ relaying[n].id = pk.pay.id
  BY <1>1 DEF Contents, Relays
<1>3. /\ pk.original \in Nat /\ pk.originalFlags \in Flags /\ pk.pay \in Pay
      /\ pk.pay.size = pk.pay.raw /\ ~IsInternal(pk.original)
      /\ Genuine(pk.pay.id, pk.original, pk.originalFlags, pk.pay.raw)
  BY <1>2 DEF GoodForward, FwdPkt
<1>4. PICK e : e = Copy(n)
  OBVIOUS
<1>5. EncodesAs(e, pk.original, pk.originalFlags, pk.pay)
  BY <1>1, <1>3, <1>4, EncodeEffect DEF Copy, States
<1>6. e \in UserPkt
  BY <1>3, <1>5 DEF EncodesAs, UserPkt
<1>7. Genuine(e.pay.id, e.type, e.flags, e.pay.raw)
  BY <1>3, <1>5 DEF EncodesAs, Genuine
<1>8. e \in GoodUser /\ e \in Good /\ e \in Packet
  BY <1>5, <1>6, <1>7 DEF EncodesAs, GoodUser, Good, Packet
<1>9. Encodable(e, Limit[n]) => CodecAccepts(e, Limit[n])
  <2>1. e.pay.size <= e.pay.raw /\ e.pay \in Pay /\ ~IsInternal(e.type)
    BY <1>5, <1>6 DEF EncodesAs, UserPkt
  <2>2. e.pay.size \in Int /\ e.pay.raw \in Int /\ Limit[n] \in Int
    BY <2>1, RoutingAssumption DEF Pay
  <2> QED BY <2>1, <2>2 DEF Encodable, CodecAccepts, WireSize, TooLarge
<1>10. e.pay.id = pk.pay.id
  BY <1>5 DEF EncodesAs
<1> QED BY <1>1, <1>2, <1>4, <1>8, <1>9, <1>10 DEF Outgoing

\* The forms of Relay: the copy is queued for some peers, or for nobody.
Relayed(n, P, pk) ==
  /\ pk = Copy(n) /\ Enqueue(n, P, pk)
  /\ \A p \in P : conn[n][p] # {} /\ p \notin Excluded(relaying[n].packet)
  /\ P # {} => Encodable(pk, Limit[n])
  /\ calm' \in BOOLEAN /\ (calm' => calm)
  /\ calm' /\ Leads(n) /\ Encodable(pk, Limit[n]) =>
       P = Node \ (Excluded(relaying[n].packet) \cup {n})

LEMMA RelayForms ==
  ASSUME BaseInv, NEW n \in Node, Relay(n)
  PROVE  /\ relaying[n] # Idle /\ relaying' = [relaying EXCEPT ![n] = Idle]
         /\ UNCHANGED <<es, central, forward, threshold, conn, inbox, routing,
                        sent, result, changes>>
         /\ \E P \in SUBSET Node : \E pk : Relayed(n, P, pk)
<1>1. PICK pk : pk = Copy(n)
  OBVIOUS
<1>2. /\ relaying[n] # Idle /\ relaying' = [relaying EXCEPT ![n] = Idle]
      /\ UNCHANGED <<es, central, forward, threshold, conn, inbox, routing,
                     sent, result, changes>>
      /\ IF Leads(n) /\ Encodable(pk, Limit[n])
           THEN BroadcastPacket(n, pk, Excluded(relaying[n].packet))
           ELSE UNCHANGED <<out, calm>>
  BY <1>1 DEF Relay, Copy, SettingsUnchanged
<1>2a. States
  BY DEF BaseInv, ShapeInv
<1>3. CASE /\ Encodable(pk, Limit[n])
           /\ BroadcastPacket(n, pk, Excluded(relaying[n].packet))
  <2>1. PICK X : X = Excluded(relaying[n].packet)
    OBVIOUS
  <2> DEFINE P == {p \in {p \in Node \ X : conn[n][p] # {}} : Room(n, p, pk)}
  <2>2. /\ Enqueue(n, P, pk) /\ P \in SUBSET Node
        /\ calm' \in BOOLEAN /\ (calm' => calm)
        /\ \A p \in P : conn[n][p] # {} /\ p \notin X
        /\ calm' => P = Node \ (X \cup {n})
    BY <1>2a, <1>3, <2>1 DEF BroadcastPacket, States
  <2> HIDE DEF P
  <2>3. Relayed(n, P, pk)
    BY <1>1, <1>3, <2>1, <2>2 DEF Relayed
  <2> QED BY <1>2, <2>2, <2>3
<1>4. CASE ~(Leads(n) /\ Encodable(pk, Limit[n])) /\ UNCHANGED <<out, calm>>
  <2>1. Enqueue(n, {}, pk)
    BY <1>4, NoneQueued DEF BaseInv, ShapeInv
  <2>2. calm' \in BOOLEAN /\ (calm' => calm)
    BY <1>2a, <1>4 DEF States
  <2>3. Relayed(n, {}, pk)
    BY <1>1, <1>4, <2>1, <2>2 DEF Relayed
  <2> QED BY <1>2, <2>3
<1> QED BY <1>2, <1>3, <1>4

LEMMA RelayDelivers ==
  ASSUME Contents, NEW n \in Node, Relay(n)
  PROVE  \E g \in GoodReceipt : /\ g.id = relaying[n].id
                                /\ got' = [got EXCEPT ![n] = Append(@, g)]
<1>1. PICK pk : pk = relaying[n].packet
  OBVIOUS
<1>2. pk \in GoodForward /\ relaying[n].id = pk.pay.id
  BY <1>1 DEF Contents, Relays, Relay
<1>3. PICK g : g = [peer |-> pk.from, id |-> pk.pay.id, type |-> pk.original,
                    flags |-> pk.originalFlags, size |-> pk.pay.size]
  OBVIOUS
<1>4. g \in GoodReceipt
  <2>1. pk.from \in Node
    BY <1>2 DEF GoodForward, FwdPkt
  <2> QED BY <1>2, <1>3, <2>1, GoodDelivery
<1>5. got' = [got EXCEPT ![n] = Append(@, g)]
  BY <1>1, <1>3 DEF Relay, Deliver
<1> QED BY <1>2, <1>3, <1>4, <1>5

LEMMA RelayBase ==
  ASSUME BaseInv, NEW n \in Node, Relay(n)
  PROVE  BaseInv'
<1> USE DEF BaseInv, ShapeInv, ContentInv
<1>1. /\ relaying[n] # Idle /\ relaying' = [relaying EXCEPT ![n] = Idle]
      /\ UNCHANGED <<es, central, forward, threshold, conn, inbox, routing,
                     sent, result, changes>>
  BY RelayForms
<1>2a. PICK P \in SUBSET Node : \E pk : Relayed(n, P, pk)
  BY RelayForms
<1>2. PICK pk : Relayed(n, P, pk)
  BY <1>2a
<1>3. /\ pk \in Packet /\ Enqueue(n, P, pk) /\ (\A p \in P : conn[n][p] # {})
      /\ P # {} => pk \in Outgoing(n)
      /\ calm' \in BOOLEAN
  BY <1>1, <1>2, CopyGood DEF Relayed
<1>4. /\ History' /\ Grows /\ Outgoing(n)' = Outgoing(n)
  BY <1>1, SameHistory
<1>5. States'
  BY <1>1, <1>3 DEF States
<1>6. Connections'
  BY <1>1 DEF Connections
<1>7. /\ out' \in [Node -> [Node -> [Channels -> Seq(Packet)]]] /\ NothingOnCut'
  BY <1>1, <1>3, EnqueueEffect
<1>8. \A q, p \in Node, c \in Channels : out'[q][p][c] \in Seq(Outgoing(q)')
  <2>1. UNCHANGED conn /\ (P # {} => pk \in Outgoing(n)')
    BY <1>1, <1>3, <1>4
  <2>2. BaseInv
    OBVIOUS
  <2> HIDE DEF BaseInv, ShapeInv, ContentInv
  <2> QED BY <1>3, <1>4, <2>1, <2>2, EnqueueGood
<1>9. /\ got' \in [Node -> Seq(Receipt)]
      /\ \A m \in Node : got'[m] \in Seq(GoodReceipt)
  BY RelayDelivers, DeliverBase
<1>10. relaying' \in [Node -> {Idle} \cup Relays]
  BY <1>1 DEF Contents
<1>11. Shapes'
  BY <1>1, <1>7, <1>9 DEF Shapes
<1>12. Contents'
  BY <1>1, <1>8, <1>9, <1>10, SameHistory DEF Contents
<1> QED BY <1>1, <1>4, <1>5, <1>6, <1>7, <1>11, <1>12, RoutesSame

LEMMA AssignBase ==
  ASSUME BaseInv, NEW n \in Node, OnAssign(n)
  PROVE  BaseInv'
<1> USE DEF BaseInv, ShapeInv, ContentInv
<1>1. PICK pk : pk = Received(n).packet
  OBVIOUS
<1>2. /\ inbox[n] # <<>> /\ Assigns(pk)
      /\ inbox' = [inbox EXCEPT ![n] = Tail(@)]
      /\ es' = [es EXCEPT ![n] = HandleLeaderAssign(@, n, pk.term, pk.leader)]
      /\ UNCHANGED <<central, forward, threshold, conn, out, routing, relaying,
                     sent, result, got, calm, changes>>
  BY <1>1 DEF OnAssign, Takes, SettingsUnchanged
<1>3. /\ Received(n) \in [peer : Node, packet : Good]
      /\ inbox' \in [Node -> Seq(Arrival)]
      /\ \A m \in Node : inbox'[m] \in Seq([peer : Node, packet : Good])
  BY <1>2, TakeBase
<1>4. pk.term \in Nat /\ pk.leader \in Node
  BY <1>1, <1>2, <1>3, GoodKinds DEF AssignPkt
<1>5. HandleLeaderAssign(es[n], n, pk.term, pk.leader) \in ElectionState
  BY <1>4, ElectionTypes DEF States
<1>6. States'
  BY <1>2, <1>5 DEF States
<1>7. Connections'
  BY <1>2 DEF Connections
<1>8. NothingOnCut'
  BY <1>2 DEF NothingOnCut
<1>9. Shapes'
  BY <1>2, <1>3 DEF Shapes
<1>10. Contents'
  BY <1>2, <1>3, SameHistory DEF Contents
<1> QED BY <1>2, <1>6, <1>7, <1>8, <1>9, <1>10, SameHistory, RoutesSame

\* The assignment a node broadcasts belongs to no call.
LEMMA SetLeaderForms ==
  ASSUME BaseInv, NEW n \in Node, NEW l \in Node, CallSetLeader(n, l)
  PROVE  /\ es' = [es EXCEPT ![n] = SetLeader(@, n, l)] /\ calm' \in BOOLEAN
         /\ UNCHANGED <<central, forward, threshold, conn, inbox, routing, relaying,
                        sent, result, got>>
         /\ \E P \in SUBSET Node, pk \in AssignPkt :
              /\ Enqueue(n, P, pk) /\ (\A p \in P : conn[n][p] # {})
              /\ P # {} => pk \in Outgoing(n)
<1> DEFINE pk == [type |-> 0, kind |-> "assign",
                  term |-> SetLeader(es[n], n, l).currentTerm,
                  leader |-> l, flags |-> 0, pay |-> Payload(0, 0, FALSE)]
           P == {p \in Node : conn[n][p] # {} /\ Room(n, p, pk)
                               /\ Encodable(pk, Limit[n])}
<1>1. /\ es' = [es EXCEPT ![n] = SetLeader(@, n, l)] /\ calm' \in BOOLEAN
      /\ UNCHANGED <<central, forward, threshold, conn, inbox, routing, relaying,
                     sent, result, got>>
      /\ Enqueue(n, P, pk)
  BY DEF CallSetLeader, SettingsUnchanged
<1>2. SetLeader(es[n], n, l).currentTerm \in Nat
  <2>1. SetLeader(es[n], n, l) \in ElectionState
    <3>1. PICK s \in ElectionState : s = es[n]
      BY DEF BaseInv, ShapeInv, States
    <3>2. 0 \in Nat
      OBVIOUS
    <3> QED BY ONLY <3>1, <3>2, n \in Node, l \in Node, ElectionTypes
  <2> QED BY <2>1 DEF ElectionState
<1>3. Payload(0, 0, FALSE) \in Pay /\ Payload(0, 0, FALSE).id = 0
  <2>1. 0 \in Nat /\ FALSE \in BOOLEAN
    OBVIOUS
  <2> QED BY ONLY <2>1, PayloadType
<1>4. pk \in AssignPkt
  <2>1. PICK t \in Nat : t = SetLeader(es[n], n, l).currentTerm
    BY <1>2
  <2>2. PICK y \in Pay : y = Payload(0, 0, FALSE) /\ y.id = 0
    BY <1>3
  <2>3. pk = [type |-> 0, kind |-> "assign", term |-> t, leader |-> l,
              flags |-> 0, pay |-> y]
    BY <2>1, <2>2
  <2> HIDE DEF pk
  <2> QED BY <2>2, <2>3 DEF AssignPkt
<1>5. pk.type = 0
  OBVIOUS
<1>6. P \in SUBSET Node /\ \A p \in P : conn[n][p] # {}
  OBVIOUS
<1>7. P # {} => Encodable(pk, Limit[n])
  OBVIOUS
<1> HIDE DEF pk, P
<1>8. Encodable(pk, Limit[n]) => CodecAccepts(pk, Limit[n])
  BY <1>5, PacketAssumption DEF Encodable, CodecAccepts, IsInternal
<1>9. P # {} => pk \in Outgoing(n)
  BY <1>4, <1>7, <1>8 DEF Outgoing, Good
<1> QED BY <1>1, <1>4, <1>6, <1>9

LEMMA SetLeaderBase ==
  ASSUME BaseInv, NEW n \in Node, NEW l \in Node, CallSetLeader(n, l)
  PROVE  BaseInv'
<1> USE DEF BaseInv, ShapeInv, ContentInv
<1>1. /\ es' = [es EXCEPT ![n] = SetLeader(@, n, l)] /\ calm' \in BOOLEAN
      /\ UNCHANGED <<central, forward, threshold, conn, inbox, routing, relaying,
                     sent, result, got>>
  BY SetLeaderForms
<1>2. PICK P \in SUBSET Node, pk \in AssignPkt :
        /\ Enqueue(n, P, pk) /\ (\A p \in P : conn[n][p] # {})
        /\ P # {} => pk \in Outgoing(n)
  BY SetLeaderForms
<1>3. pk \in Packet
  BY DEF Packet
<1>4. /\ History' /\ Grows /\ Outgoing(n)' = Outgoing(n)
  BY <1>1, SameHistory
<1>5. SetLeader(es[n], n, l) \in ElectionState
  BY ElectionTypes DEF States
<1>6. States'
  BY <1>1, <1>5 DEF States
<1>7. Connections'
  BY <1>1 DEF Connections
<1>8. /\ out' \in [Node -> [Node -> [Channels -> Seq(Packet)]]] /\ NothingOnCut'
  BY <1>1, <1>2, <1>3, EnqueueEffect
<1>9. \A q, p \in Node, c \in Channels : out'[q][p][c] \in Seq(Outgoing(q)')
  BY <1>1, <1>2, <1>3, <1>4, EnqueueGood
<1>10. Shapes'
  BY <1>1, <1>8 DEF Shapes
<1>11. Contents'
  BY <1>1, <1>9, SameHistory DEF Contents
<1> QED BY <1>1, <1>4, <1>6, <1>7, <1>8, <1>10, <1>11, RoutesSame

\* Steps that change the election state of a node or a setting and no queue.
LEMMA QuietBase ==
  ASSUME BaseInv, States',
         UNCHANGED <<conn, out, inbox, routing, relaying, sent, result, got>>
  PROVE  BaseInv'
<1> USE DEF BaseInv, ShapeInv, ContentInv
<1>1. Connections'
  BY DEF Connections
<1>2. NothingOnCut'
  BY DEF NothingOnCut
<1>3. Shapes'
  BY DEF Shapes
<1>4. Contents'
  BY SameHistory DEF Contents
<1> QED BY <1>1, <1>2, <1>3, <1>4, SameHistory, RoutesSame

LEMMA ChangeBase ==
  ASSUME BaseInv, NEW n \in Node, ChangeStep(n)
  PROVE  BaseInv'
<1>0. States
  BY DEF BaseInv, ShapeInv
<1>1. CASE SetCentralizedMode(n)
  <2>1. /\ UNCHANGED <<es, forward, threshold, calm>>
        /\ central' = [central EXCEPT ![n] = ~@]
        /\ UNCHANGED <<conn, out, inbox, routing, relaying, sent, result, got>>
    BY <1>1 DEF SetCentralizedMode, Toggle
  <2>2. central' \in [Node -> BOOLEAN]
    BY <1>0, <2>1, Zenon DEF States
  <2>3. States'
    BY <1>0, <2>1, <2>2 DEF States
  <2> QED BY <2>1, <2>3, QuietBase
<1>2. CASE SetCentralizedAutoForward(n)
  <2>1. /\ UNCHANGED <<es, central, threshold>> /\ calm' = FALSE
        /\ forward' = [forward EXCEPT ![n] = ~@]
        /\ UNCHANGED <<conn, out, inbox, routing, relaying, sent, result, got>>
    BY <1>2 DEF SetCentralizedAutoForward, Toggle
  <2>2. forward' \in [Node -> BOOLEAN]
    BY <1>0, <2>1, Zenon DEF States
  <2>3. States'
    BY <1>0, <2>1, <2>2 DEF States
  <2> QED BY <2>1, <2>3, QuietBase
<1>3. CASE \E t \in Thresholds : SetCompressionThreshold(n, t)
  <2>1. PICK t \in Thresholds : SetCompressionThreshold(n, t)
    BY <1>3
  <2>2. /\ UNCHANGED <<es, central, forward, calm>>
        /\ threshold' = [threshold EXCEPT ![n] = t]
        /\ UNCHANGED <<conn, out, inbox, routing, relaying, sent, result, got>>
    BY <2>1 DEF SetCompressionThreshold, Toggle
  <2>3. t \in Nat
    BY RoutingAssumption
  <2>4. States'
    BY <1>0, <2>2, <2>3 DEF States
  <2> QED BY <2>2, <2>4, QuietBase
<1>4. CASE \E l \in Node : CallSetLeader(n, l)
  BY <1>4, SetLeaderBase
<1>5. CASE \E l \in Node : VoteRequested(n, l)
  <2>1. PICK l \in Node : VoteRequested(n, l)
    BY <1>5
  <2>2. /\ UNCHANGED <<central, forward, threshold>> /\ calm' = FALSE
        /\ es' = [es EXCEPT ![n] = HandleRequestVote(@, @.currentTerm + 1, l)]
        /\ UNCHANGED <<conn, out, inbox, routing, relaying, sent, result, got>>
    BY <2>1 DEF VoteRequested, SettingsUnchanged
  <2>3. HandleRequestVote(es[n], es[n].currentTerm + 1, l) \in ElectionState
    BY <1>0, ElectionTypes DEF States
  <2>4. States'
    BY <1>0, <2>2, <2>3 DEF States
  <2> QED BY <2>2, <2>4, QuietBase
<1>6. CASE \E p \in Node, c \in Channels : CutChannel(n, p, c)
  <2>1. PICK p \in Node, c \in Channels : CutChannel(n, p, c)
    BY <1>6
  <2>2. n # p
    BY <2>1, NodeAssumption DEF CutChannel
  <2> QED BY <2>1, <2>2, CutBase DEF CutChannel, SettingsUnchanged
<1> QED BY <1>1, <1>2, <1>3, <1>4, <1>5, <1>6 DEF ChangeStep

LEMMA BaseStep == BaseInv /\ [Next]_vars => BaseInv'
<1>1. ASSUME BaseInv, Next PROVE BaseInv'
  <2>1. PICK n \in Node : CallStep(n) \/ TaskStep(n) \/ ChangeStep(n)
    BY <1>1 DEF Next
  <2>2. CASE CallStep(n)
    BY <1>1, <2>2, CallBase
  <2>3. CASE TaskStep(n)
    BY <1>1, <2>3, RouteBase, UserBase, ForwardedBase, RelayBase, AssignBase,
       ReadBase DEF TaskStep, HandlerStep
  <2>4. CASE ChangeStep(n)
    BY <1>1, <2>4, ChangeBase
  <2> QED BY <2>1, <2>2, <2>3, <2>4
<1>2. ASSUME BaseInv, UNCHANGED vars PROVE BaseInv'
  <2>1. States'
    BY <1>2 DEF vars, BaseInv, ShapeInv, States
  <2> QED BY <1>2, <2>1, QuietBase DEF vars
<1> QED BY <1>1, <1>2

LEMMA BaseHolds == Spec => []BaseInv
BY BaseInit, BaseStep, PTL DEF Spec

-----------------------------------------------------------------------------
(* What follows from the shape and the contents alone.                     *)

\* Every variable keeps the shape the code gives it, a channel that was cut
\* carries nothing, and what is on its way through the router or the relay is
\* a message that was sent.
THEOREM RoutingTypeCorrect == Spec => []TypeOK
<1>1. BaseInv => TypeOK
  <2>1. SUFFICES ASSUME BaseInv PROVE TypeOK
    OBVIOUS
  <2> USE <2>1 DEF BaseInv, ShapeInv, ContentInv
  <2>2. ASSUME NEW i \in DOMAIN sent
        PROVE  sent[i].target \in Target /\ result[i] \in Code
    <3>1. i \in 1 .. Len(sent) /\ i \in 1 .. Len(result)
      BY DEF History
    <3>2. sent[i] \in Sending /\ result[i] \in Code
      BY <3>1, ElementOfSeq DEF History
    <3> QED BY <3>2 DEF Sending
  <2>3. Len(sent) \in Nat
    BY DEF History
  <2>4. ASSUME NEW n \in Node
        PROVE  routing[n].id \in 0 .. Len(sent) /\ relaying[n].id \in 0 .. Len(sent)
    <3>1. routing[n].id \in 0 .. Len(sent)
      <4>1. CASE routing[n] = Idle
        BY <2>3, <4>1 DEF Idle
      <4>2. CASE routing[n] # Idle
        BY <2>3, <4>2 DEF Routes, Pending
      <4> QED BY <4>1, <4>2
    <3>2. relaying[n].id \in 0 .. Len(sent)
      <4>1. CASE relaying[n] = Idle
        BY <2>3, <4>1 DEF Idle
      <4>2. CASE relaying[n] # Idle
        <5>1. relaying[n] \in Relays
          BY <4>2 DEF Contents
        <5>2. relaying[n].id \in 1 .. Len(sent)
          BY <5>1 DEF Relays, GoodForward, Genuine
        <5> QED BY <2>3, <5>2
      <4> QED BY <4>1, <4>2
    <3> QED BY <3>1, <3>2
  <2>5. States /\ Connections /\ NothingOnCut
    OBVIOUS
  <2>6. Len(sent) = Len(result) /\ Len(sent) <= MaxSends
    BY DEF History
  <2> QED BY <2>2, <2>4, <2>5, <2>6 DEF TypeOK, States, Connections, NothingOnCut
<1> QED BY <1>1, BaseHolds, PTL

\* No queue ever holds a packet that the node's own encoder refuses: the tests
\* of the send functions, of encode_internal and of forward_message are enough,
\* with the envelope of a forwarded message and with compression.
THEOREM QueuesFit == Spec => []PacketsFit
<1>1. BaseInv => PacketsFit
  <2>1. SUFFICES ASSUME BaseInv, NEW n \in Node, NEW p \in Node, NEW c \in Channels,
                        NEW k \in DOMAIN out[n][p][c]
                 PROVE  CodecAccepts(out[n][p][c][k], Limit[n])
    BY DEF PacketsFit
  <2>2. out[n][p][c] \in Seq(Outgoing(n))
    BY <2>1 DEF BaseInv, ContentInv, Contents
  <2>3. out[n][p][c][k] \in Outgoing(n)
    BY <2>2, ElementOfSeq, LenProperties
  <2> QED BY <2>3 DEF Outgoing
<1> QED BY <1>1, BaseHolds, PTL

\* What the receive callback gets is what an application sent: its type, its
\* flags but for the compression bit, and its length, however it was encoded
\* and whoever relayed it.
THEOREM DeliveriesIntact == Spec => []DeliveredIntact
<1>1. BaseInv => DeliveredIntact
  <2>1. SUFFICES ASSUME BaseInv, NEW n \in Node, NEW k \in DOMAIN got[n]
                 PROVE  /\ got[n][k].type = sent[got[n][k].id].data.type
                        /\ got[n][k].size = sent[got[n][k].id].data.raw
                        /\ CleanFlags(got[n][k].flags)
                             = CleanFlags(sent[got[n][k].id].data.flags)
    BY DEF DeliveredIntact
  <2>2. got[n] \in Seq(GoodReceipt)
    BY <2>1 DEF BaseInv, ContentInv, Contents
  <2>3. got[n][k] \in GoodReceipt
    BY <2>2, ElementOfSeq, LenProperties
  <2> QED BY <2>3 DEF GoodReceipt, Genuine
<1> QED BY <1>1, BaseHolds, PTL

\* A call that returned an error has put nothing on any queue and nothing has
\* been delivered for it: what is under way or delivered comes from a call
\* that returned OK.
THEOREM ErrorsSendNothing == Spec => []RefusedNotSent
<1>1. BaseInv => RefusedNotSent
  <2>1. SUFFICES ASSUME BaseInv, NEW i \in DOMAIN sent,
                        result[i] \notin {"OK", "pending"}, NEW n \in Node
                 PROVE  Copies(n, i) = {} /\ \A p \in Node : ~Queued(n, p, i)
    BY DEF RefusedNotSent
  <2>2. i \in 1 .. Len(sent) /\ i # 0
    BY <2>1 DEF BaseInv, ShapeInv, History
  <2>3. ASSUME NEW k \in DOMAIN got[n] PROVE got[n][k].id # i
    <3>1. got[n] \in Seq(GoodReceipt)
      BY <2>1 DEF BaseInv, ContentInv, Contents
    <3>2. got[n][k] \in GoodReceipt
      BY <3>1, ElementOfSeq, LenProperties
    <3> QED BY <2>1, <3>2 DEF GoodReceipt, Genuine
  <2>4. ASSUME NEW p \in Node, NEW c \in Channels, NEW k \in DOMAIN out[n][p][c]
        PROVE  out[n][p][c][k].pay.id # i
    <3>1. out[n][p][c] \in Seq(Outgoing(n))
      BY <2>1 DEF BaseInv, ContentInv, Contents
    <3>2. out[n][p][c][k] \in Good
      BY <3>1, ElementOfSeq, LenProperties DEF Outgoing
    <3> QED BY <2>1, <2>2, <3>2
           DEF Good, GoodUser, GoodForward, AssignPkt, Genuine
  <2> QED BY <2>3, <2>4 DEF Copies, Queued
<1> QED BY <1>1, BaseHolds, PTL

-----------------------------------------------------------------------------
(* Third, where a message is.  On its way to node p, message i is on one   *)
(* queue, in the inbox, with the relay or delivered, and nowhere twice;    *)
(* nothing travels to the node it came from; and while an envelope that    *)
(* holds i is somewhere, i is nowhere else, so that a relay doubles        *)
(* nothing.                                                                *)

OutId == [pk \in Packet |-> pk.pay.id]
InId == [a \in Arrival |-> a.packet.pay.id]
GotId == [g \in Receipt |-> g.id]
OutFwd == [pk \in Packet |-> IF pk \in FwdPkt THEN pk.pay.id ELSE 0]
InFwd == [a \in Arrival |-> IF a.packet \in FwdPkt THEN a.packet.pay.id ELSE 0]

OutAt(n, p, c, i) == Has(OutId, out[n][p][c], i)
InAt(p, i) == Has(InId, inbox[p], i)
GotAt(p, i) == Has(GotId, got[p], i)
RelAt(p, i) == relaying[p].id = i
FwdOutAt(n, p, c, i) == Has(OutFwd, out[n][p][c], i)
FwdInAt(p, i) == Has(InFwd, inbox[p], i)

At(p, i) ==
  \/ \E n \in Node, c \in Channels : OutAt(n, p, c, i)
  \/ InAt(p, i) \/ GotAt(p, i) \/ RelAt(p, i)
FwdAt(p, i) ==
  \/ \E n \in Node, c \in Channels : FwdOutAt(n, p, c, i)
  \/ FwdInAt(p, i) \/ RelAt(p, i)

Apart(p, i) ==
  /\ \A m, n \in Node, c, d \in Channels :
       OutAt(m, p, c, i) /\ OutAt(n, p, d, i) => m = n /\ c = d
  /\ \A n \in Node, c \in Channels :
       OutAt(n, p, c, i) => ~InAt(p, i) /\ ~GotAt(p, i) /\ ~RelAt(p, i)
  /\ InAt(p, i) => ~GotAt(p, i) /\ ~RelAt(p, i)
  /\ GotAt(p, i) => ~RelAt(p, i)

Id == Nat \ {0}

OutOnce == \A n, p \in Node, c \in Channels : Once(OutId, out[n][p][c])
InOnce == \A p \in Node : Once(InId, inbox[p])
GotOnce == \A p \in Node : Once(GotId, got[p])
OnePlace == \A p \in Node, i \in Id : Apart(p, i)
NotHome == \A p \in Node, i \in Id : At(p, i) => sent[i].from # p
EnvelopeAlone == \A p, q \in Node, i \in Id : FwdAt(p, i) /\ q # p => ~At(q, i)

PlaceInv ==
  OutOnce /\ InOnce /\ GotOnce /\ OnePlace /\ NotHome /\ EnvelopeAlone

\* What is somewhere comes from a call that returned OK.
LEMMA AtGenuine ==
  ASSUME BaseInv, NEW p \in Node, NEW i \in Id, At(p, i)
  PROVE  i \in 1 .. Len(sent) /\ result[i] = "OK"
<1> USE DEF BaseInv, ShapeInv, ContentInv
<1>1. ASSUME NEW pk \in Good, pk.pay.id = i PROVE i \in 1 .. Len(sent) /\ result[i] = "OK"
  BY <1>1 DEF Good, GoodUser, GoodForward, AssignPkt, Genuine, Id
<1>2. CASE \E n \in Node, c \in Channels : OutAt(n, p, c, i)
  <2>1. PICK n \in Node, c \in Channels : OutAt(n, p, c, i)
    BY <1>2
  <2>2. PICK k \in 1 .. Len(out[n][p][c]) : OutId[out[n][p][c][k]] = i
    BY <2>1 DEF OutAt, Has
  <2>3. out[n][p][c] \in Seq(Outgoing(n))
    BY DEF Contents
  <2>4. out[n][p][c][k] \in Good
    BY <2>3, ElementOfSeq DEF Outgoing
  <2>5. out[n][p][c][k] \in Packet
    BY <2>4, GoodKinds
  <2> QED BY <1>1, <2>2, <2>4, <2>5 DEF OutId
<1>3. CASE InAt(p, i)
  <2>1. PICK k \in 1 .. Len(inbox[p]) : InId[inbox[p][k]] = i
    BY <1>3 DEF InAt, Has
  <2>2. inbox[p] \in Seq([peer : Node, packet : Good])
    BY DEF Contents
  <2>3. PICK a \in [peer : Node, packet : Good] : a = inbox[p][k]
    BY <2>2, ElementOfSeq
  <2>4. a \in Arrival /\ a.packet \in Good
    BY <2>3, GoodKinds DEF Arrival
  <2> QED BY <1>1, <2>1, <2>3, <2>4 DEF InId
<1>4. CASE GotAt(p, i)
  <2>1. PICK k \in 1 .. Len(got[p]) : GotId[got[p][k]] = i
    BY <1>4 DEF GotAt, Has
  <2>2. got[p] \in Seq(GoodReceipt)
    BY DEF Contents
  <2>3. got[p][k] \in GoodReceipt
    BY <2>2, ElementOfSeq
  <2> QED BY <2>1, <2>3 DEF GotId, GoodReceipt, Genuine
<1>5. CASE RelAt(p, i)
  <2>1. relaying[p] # Idle
    BY <1>5 DEF RelAt, Idle, Id
  <2>2. relaying[p] \in Relays
    BY <2>1 DEF Contents
  <2> QED BY <1>5, <2>2 DEF RelAt, Relays, GoodForward, Genuine
<1> QED BY <1>2, <1>3, <1>4, <1>5 DEF At

\* An envelope that is somewhere is a message that is there.
LEMMA FwdIsAt ==
  ASSUME Shapes, NEW p \in Node, NEW i \in Id
  PROVE  /\ \A n \in Node, c \in Channels : FwdOutAt(n, p, c, i) => OutAt(n, p, c, i)
         /\ FwdInAt(p, i) => InAt(p, i)
         /\ FwdAt(p, i) => At(p, i)
<1>1. ASSUME NEW n \in Node, NEW c \in Channels, FwdOutAt(n, p, c, i)
      PROVE  OutAt(n, p, c, i)
  <2>1. PICK k \in 1 .. Len(out[n][p][c]) : OutFwd[out[n][p][c][k]] = i
    BY <1>1 DEF FwdOutAt, Has
  <2>2. out[n][p][c] \in Seq(Packet)
    BY DEF Shapes
  <2>3. out[n][p][c][k] \in Packet
    BY <2>2, ElementOfSeq
  <2>4. OutId[out[n][p][c][k]] = i
    BY <2>1, <2>3 DEF OutFwd, OutId, Id
  <2> QED BY <2>4 DEF OutAt, Has
<1>2. ASSUME FwdInAt(p, i) PROVE InAt(p, i)
  <2>1. PICK k \in 1 .. Len(inbox[p]) : InFwd[inbox[p][k]] = i
    BY <1>2 DEF FwdInAt, Has
  <2>2. inbox[p] \in Seq(Arrival)
    BY DEF Shapes
  <2>3. inbox[p][k] \in Arrival
    BY <2>2, ElementOfSeq
  <2>4. InId[inbox[p][k]] = i
    BY <2>1, <2>3 DEF InFwd, InId, Id
  <2> QED BY <2>4 DEF InAt, Has
<1> QED BY <1>1, <1>2 DEF FwdAt, At

\* A message that is in fewer places than before is still apart.
LEMMA ApartShrinks ==
  ASSUME NEW p \in Node, NEW i, Apart(p, i),
         \A n \in Node, c \in Channels : OutAt(n, p, c, i)' => OutAt(n, p, c, i),
         InAt(p, i)' => InAt(p, i), GotAt(p, i)' => GotAt(p, i),
         RelAt(p, i)' => RelAt(p, i)
  PROVE  Apart(p, i)' /\ (At(p, i)' => At(p, i))
BY DEF Apart, At

LEMMA PlaceInit == Init => PlaceInv
<1>1. SUFFICES ASSUME Init PROVE PlaceInv
  OBVIOUS
<1>2. \A n, p \in Node, c \in Channels : out[n][p][c] = <<>>
  BY <1>1 DEF Init
<1>3. \A p \in Node : inbox[p] = <<>> /\ got[p] = <<>> /\ relaying[p].id = 0
  BY <1>1 DEF Init, Idle
<1>4. ASSUME NEW p \in Node, NEW i \in Id
      PROVE  /\ \A n \in Node, c \in Channels : ~OutAt(n, p, c, i)
             /\ \A n \in Node, c \in Channels : ~FwdOutAt(n, p, c, i)
             /\ ~InAt(p, i) /\ ~GotAt(p, i) /\ ~RelAt(p, i) /\ ~FwdInAt(p, i)
  BY <1>2, <1>3, EmptyIds DEF OutAt, FwdOutAt, InAt, GotAt, RelAt, FwdInAt, Id
<1>5. OutOnce /\ InOnce /\ GotOnce
  BY <1>2, <1>3, EmptyIds DEF OutOnce, InOnce, GotOnce
<1>6. OnePlace
  BY <1>4 DEF OnePlace, Apart
<1>7. NotHome /\ EnvelopeAlone
  BY <1>4 DEF NotHome, EnvelopeAlone, At, FwdAt
<1> QED BY <1>5, <1>6, <1>7 DEF PlaceInv

\* Where the packets are after one was queued for some peers.
Placed(n, P, pk) ==
  \A m, p \in Node, c \in Channels, i \in Id :
    /\ OutAt(m, p, c, i)' <=>
         \/ OutAt(m, p, c, i)
         \/ m = n /\ p \in P /\ c = ChannelFor(n, p, pk) /\ pk.pay.id = i
    /\ FwdOutAt(m, p, c, i)' <=>
         \/ FwdOutAt(m, p, c, i)
         \/ /\ m = n /\ p \in P /\ c = ChannelFor(n, p, pk) /\ pk.pay.id = i
            /\ pk \in FwdPkt

LEMMA EnqueuePlaces ==
  ASSUME BaseInv, OutOnce, NEW n \in Node, NEW P \in SUBSET Node,
         NEW pk \in Packet, Enqueue(n, P, pk), UNCHANGED conn,
         \A p \in P : conn[n][p] # {},
         pk.pay.id = 0 \/ \A p \in P, c \in Channels : ~OutAt(n, p, c, pk.pay.id)
  PROVE  Placed(n, P, pk) /\ OutOnce'
<1>1. Connections /\ Shapes /\ NothingOnCut
  BY DEF BaseInv, ShapeInv
<1>2. Appended(n, P, pk)
  BY <1>1, EnqueueEffect
<1>3. OutId[pk] = pk.pay.id
  BY DEF OutId
<1>4. OutFwd[pk] = IF pk \in FwdPkt THEN pk.pay.id ELSE 0
  BY DEF OutFwd
<1>5. ASSUME NEW m \in Node, NEW p \in Node, NEW c \in Channels
      PROVE  /\ Once(OutId, out'[m][p][c])
             /\ \A i \in Id :
                  /\ OutAt(m, p, c, i)' <=>
                       \/ OutAt(m, p, c, i)
                       \/ /\ m = n /\ p \in P /\ c = ChannelFor(n, p, pk)
                          /\ pk.pay.id = i
                  /\ FwdOutAt(m, p, c, i)' <=>
                       \/ FwdOutAt(m, p, c, i)
                       \/ /\ m = n /\ p \in P /\ c = ChannelFor(n, p, pk)
                          /\ pk.pay.id = i /\ pk \in FwdPkt
  <2>1. PICK s \in Seq(Packet) : s = out[m][p][c]
    BY <1>1 DEF Shapes
  <2>2. CASE m = n /\ p \in P /\ c = ChannelFor(n, p, pk)
    <3>1. out'[m][p][c] = Append(s, pk)
      BY <1>2, <2>1, <2>2 DEF Appended
    <3>2. \A i : Has(OutId, Append(s, pk), i) <=> Has(OutId, s, i) \/ OutId[pk] = i
      BY AppendIds
    <3>3. \A i : Has(OutFwd, Append(s, pk), i) <=> Has(OutFwd, s, i) \/ OutFwd[pk] = i
      BY AppendIds
    <3>4. Once(OutId, s)
      BY <2>1 DEF OutOnce
    <3>5. OutId[pk] = 0 \/ ~Has(OutId, s, OutId[pk])
      BY <1>3, <2>1, <2>2 DEF OutAt
    <3>6. Once(OutId, Append(s, pk))
      BY <3>4, <3>5, AppendIds
    <3>7. ASSUME NEW i \in Id
          PROVE  /\ OutAt(m, p, c, i)' <=> OutAt(m, p, c, i) \/ pk.pay.id = i
                 /\ FwdOutAt(m, p, c, i)' <=>
                      FwdOutAt(m, p, c, i) \/ (pk.pay.id = i /\ pk \in FwdPkt)
      BY <1>3, <1>4, <2>1, <3>1, <3>2, <3>3 DEF OutAt, FwdOutAt, Id
    <3> QED BY <2>2, <3>1, <3>6, <3>7
  <2>3. CASE ~(m = n /\ p \in P /\ c = ChannelFor(n, p, pk))
    <3>1. out'[m][p][c] = out[m][p][c]
      BY <1>2, <2>3 DEF Appended
    <3> QED BY <2>3, <3>1 DEF OutAt, FwdOutAt, OutOnce
  <2> QED BY <2>2, <2>3
<1> QED BY <1>5 DEF OutOnce, Placed

\* A call is in the history for good: its sender does not change.
SendersKept == \A i \in 1 .. Len(sent) : sent'[i] = sent[i]

\* Every message stays where it is or goes on, an envelope as an envelope.
Kept ==
  \A q \in Node, i \in Id : /\ At(q, i) => At(q, i)'
                            /\ FwdAt(q, i)' <=> FwdAt(q, i)

\* The same, but that a packet is added to the queues to P.
Spread(P, pk) ==
  \A q \in Node, i \in Id :
    /\ At(q, i)' <=> At(q, i) \/ (q \in P /\ pk.pay.id = i)
    /\ FwdAt(q, i)' <=> FwdAt(q, i) \/ (q \in P /\ pk.pay.id = i /\ pk \in FwdPkt)

\* A packet that belongs to a call of which nothing is anywhere, or to no call,
\* is queued for some peers of the caller.
LEMMA QueuedPlace ==
  ASSUME BaseInv, PlaceInv, NEW n \in Node, NEW P \in SUBSET Node,
         NEW pk \in Packet, Enqueue(n, P, pk), \A p \in P : conn[n][p] # {},
         UNCHANGED <<conn, inbox, got, relaying>>, SendersKept,
         pk.pay.id = 0 \/ (\A q \in Node : ~At(q, pk.pay.id)),
         pk.pay.id # 0 /\ P # {} => sent'[pk.pay.id].from = n,
         pk \in FwdPkt => \A p, q \in P : p = q
  PROVE  PlaceInv' /\ Spread(P, pk)
<1>1. pk.pay.id = 0 \/ \A p \in P, c \in Channels : ~OutAt(n, p, c, pk.pay.id)
  BY DEF At
<1>2. Placed(n, P, pk) /\ OutOnce'
  BY <1>1, EnqueuePlaces DEF PlaceInv
<1>3. InOnce' /\ GotOnce'
  BY DEF PlaceInv, InOnce, GotOnce
<1>4. ASSUME NEW p \in Node, NEW i \in Id
      PROVE  /\ InAt(p, i)' <=> InAt(p, i)
             /\ GotAt(p, i)' <=> GotAt(p, i)
             /\ RelAt(p, i)' <=> RelAt(p, i)
             /\ FwdInAt(p, i)' <=> FwdInAt(p, i)
  BY DEF InAt, GotAt, RelAt, FwdInAt
<1>5. ASSUME NEW p \in Node, NEW i \in Id
      PROVE  /\ At(p, i)' <=> At(p, i) \/ (p \in P /\ pk.pay.id = i)
             /\ FwdAt(p, i)' <=>
                  FwdAt(p, i) \/ (p \in P /\ pk.pay.id = i /\ pk \in FwdPkt)
  <2>1. \A q \in Node : ChannelFor(n, q, pk) \in Channels
    BY DEF ChannelFor, Channels
  <2> QED BY <1>2, <1>4, <2>1 DEF Placed, At, FwdAt
<1>6. ASSUME NEW p \in Node, NEW i \in Id, i = pk.pay.id
      PROVE  ~At(p, i) /\ ~FwdAt(p, i)
  <2>1. ~At(p, i)
    BY <1>6 DEF Id
  <2>2. Shapes
    BY DEF BaseInv, ShapeInv
  <2> QED BY <2>1, <2>2, FwdIsAt
<1>7. OnePlace'
  <2>1. SUFFICES ASSUME NEW p \in Node, NEW i \in Id PROVE Apart(p, i)'
    BY DEF OnePlace
  <2>2. CASE i = pk.pay.id
    <3>1. /\ \A m \in Node, c \in Channels : ~OutAt(m, p, c, i)
          /\ ~InAt(p, i) /\ ~GotAt(p, i) /\ ~RelAt(p, i)
      BY <1>6, <2>2 DEF At
    <3>2. ~InAt(p, i)' /\ ~GotAt(p, i)' /\ ~RelAt(p, i)'
      BY <1>4, <3>1
    <3>3. \A m \in Node, c \in Channels :
             OutAt(m, p, c, i)' => m = n /\ c = ChannelFor(n, p, pk)
      BY <1>2, <3>1 DEF Placed
    <3> QED BY <3>2, <3>3 DEF Apart
  <2>3. CASE i # pk.pay.id
    <3>1. \A m \in Node, c \in Channels : OutAt(m, p, c, i)' => OutAt(m, p, c, i)
      BY <1>2, <2>3 DEF Placed
    <3>2. Apart(p, i)
      BY DEF PlaceInv, OnePlace
    <3> QED BY <1>4, <3>1, <3>2, ApartShrinks
  <2> QED BY <2>2, <2>3
<1>8. NotHome'
  <2>1. SUFFICES ASSUME NEW p \in Node, NEW i \in Id, At(p, i)'
                 PROVE  sent'[i].from # p
    BY DEF NotHome
  <2>2. CASE At(p, i)
    <3>1. i \in 1 .. Len(sent)
      BY <2>2, AtGenuine
    <3> QED BY <2>2, <3>1 DEF PlaceInv, NotHome, SendersKept
  <2>3. CASE p \in P /\ pk.pay.id = i
    <3>1. p # n
      BY <2>3 DEF BaseInv, ShapeInv, Connections
    <3> QED BY <2>3, <3>1 DEF Id
  <2> QED BY <1>5, <2>1, <2>2, <2>3
<1>9. EnvelopeAlone'
  <2>1. SUFFICES ASSUME NEW p \in Node, NEW q \in Node, NEW i \in Id,
                        FwdAt(p, i)', q # p, At(q, i)'
                 PROVE  FALSE
    BY DEF EnvelopeAlone
  <2>2. CASE i = pk.pay.id
    BY <1>5, <1>6, <2>1, <2>2
  <2>3. CASE i # pk.pay.id
    <3>1. FwdAt(p, i) /\ At(q, i)
      BY <1>5, <2>1, <2>3
    <3> QED BY <2>1, <3>1 DEF PlaceInv, EnvelopeAlone
  <2> QED BY <2>2, <2>3
<1>10. Spread(P, pk)
  BY <1>5 DEF Spread
<1> QED BY <1>2, <1>3, <1>7, <1>8, <1>9, <1>10 DEF PlaceInv

\* Steps that move one message at one node, or none (j = 0).
Shrinks(p, i) ==
  /\ \A m \in Node, c \in Channels : OutAt(m, p, c, i)' => OutAt(m, p, c, i)
  /\ InAt(p, i)' => InAt(p, i)
  /\ GotAt(p, i)' => GotAt(p, i)
  /\ RelAt(p, i)' => RelAt(p, i)

LEMMA MovedPlace ==
  ASSUME BaseInv, PlaceInv, UNCHANGED sent, NEW n \in Node, NEW j \in Nat,
         \A p \in Node, i \in Id : ~(p = n /\ i = j) => Shrinks(p, i),
         j # 0 => At(n, j) /\ Apart(n, j)',
         \A p \in Node, i \in Id : FwdAt(p, i)' => FwdAt(p, i)
  PROVE  OnePlace' /\ NotHome' /\ EnvelopeAlone'
<1>1. ASSUME NEW p \in Node, NEW i \in Id
      PROVE  Apart(p, i)' /\ (At(p, i)' => At(p, i))
  <2>1. CASE p = n /\ i = j
    BY <2>1 DEF Id
  <2>2. CASE ~(p = n /\ i = j)
    <3>1. Shrinks(p, i) /\ Apart(p, i)
      BY <2>2 DEF PlaceInv, OnePlace
    <3> QED BY <3>1, ApartShrinks DEF Shrinks
  <2> QED BY <2>1, <2>2
<1> QED BY <1>1 DEF PlaceInv, OnePlace, NotHome, EnvelopeAlone

LEMMA QuietPlace ==
  ASSUME BaseInv, PlaceInv, UNCHANGED <<out, inbox, got, relaying>>, SendersKept
  PROVE  PlaceInv'
<1>1. ASSUME NEW p \in Node, NEW i \in Id
      PROVE  (At(p, i)' <=> At(p, i)) /\ (FwdAt(p, i)' <=> FwdAt(p, i))
             /\ (Apart(p, i)' <=> Apart(p, i))
  BY DEF At, FwdAt, Apart, OutAt, InAt, GotAt, RelAt, FwdOutAt, FwdInAt
<1>2. OutOnce' /\ InOnce' /\ GotOnce'
  BY DEF PlaceInv, OutOnce, InOnce, GotOnce
<1>3. OnePlace' /\ EnvelopeAlone'
  BY <1>1 DEF PlaceInv, OnePlace, EnvelopeAlone
<1>4. NotHome'
  BY <1>1, AtGenuine DEF PlaceInv, NotHome, SendersKept
<1> QED BY <1>2, <1>3, <1>4 DEF PlaceInv

LEMMA CutPlace ==
  ASSUME BaseInv, PlaceInv, NEW n \in Node, NEW p \in Node, n # p,
         NEW c \in Channels, Cut(n, p, c), UNCHANGED <<inbox, relaying, sent, got>>
  PROVE  PlaceInv'
<1>1. Connections /\ Shapes /\ NothingOnCut
  BY DEF BaseInv, ShapeInv
<1>2. \A m, q \in Node, d \in Channels :
        out'[m][q][d] = out[m][q][d] \/ out'[m][q][d] = <<>>
  BY <1>1, CutEffect
<1>3. ASSUME NEW m \in Node, NEW q \in Node, NEW d \in Channels
      PROVE  /\ Once(OutId, out'[m][q][d])
             /\ \A i \in Id : OutAt(m, q, d, i)' => OutAt(m, q, d, i)
             /\ \A i \in Id : FwdOutAt(m, q, d, i)' => FwdOutAt(m, q, d, i)
  <2>1. CASE out'[m][q][d] = out[m][q][d]
    BY <2>1 DEF PlaceInv, OutOnce, OutAt, FwdOutAt
  <2>2. CASE out'[m][q][d] = <<>>
    BY <2>2, EmptyIds DEF OutAt, FwdOutAt
  <2> QED BY <1>2, <2>1, <2>2
<1>4. ASSUME NEW q \in Node, NEW i \in Id
      PROVE  /\ InAt(q, i)' <=> InAt(q, i)
             /\ GotAt(q, i)' <=> GotAt(q, i)
             /\ RelAt(q, i)' <=> RelAt(q, i)
             /\ FwdInAt(q, i)' <=> FwdInAt(q, i)
  BY DEF InAt, GotAt, RelAt, FwdInAt
<1>5. \A q \in Node, i \in Id : Shrinks(q, i)
  BY <1>3, <1>4 DEF Shrinks
<1>6. \A q \in Node, i \in Id : FwdAt(q, i)' => FwdAt(q, i)
  BY <1>3, <1>4 DEF FwdAt
<1>7. OnePlace' /\ NotHome' /\ EnvelopeAlone'
  <2>1. 0 \in Nat
    OBVIOUS
  <2> QED BY <1>5, <1>6, <2>1, MovedPlace
<1>8. OutOnce' /\ InOnce' /\ GotOnce'
  BY <1>3 DEF PlaceInv, OutOnce, InOnce, GotOnce
<1> QED BY <1>7, <1>8 DEF PlaceInv

\* A packet moves from a queue to the inbox.
LEMMA ReadPlace ==
  ASSUME BaseInv, PlaceInv, NEW n \in Node, NEW p \in Node, NEW c \in Channels,
         Read(n, p, c)
  PROVE  PlaceInv' /\ (calm' => Kept)
<1>1. Connections /\ Shapes /\ NothingOnCut
  BY DEF BaseInv, ShapeInv
<1>2. out[p][n][c] # <<>> /\ n # p /\ UNCHANGED <<relaying, sent, got>>
  BY <1>1, QueueEnds DEF Read
<1>3. PICK pk : pk = Head(out[p][n][c])
  OBVIOUS
<1>4. CASE Cut(n, p, c) /\ UNCHANGED inbox
  BY <1>2, <1>4, CutPlace DEF Cut
<1>5. CASE /\ inbox' = [inbox EXCEPT ![n] = Append(@, [peer |-> p, packet |-> pk])]
           /\ out' = [out EXCEPT ![p][n][c] = Tail(@)]
  <2>1. pk \in Packet /\ Dequeued(n, p, c)
    BY <1>1, <1>2, <1>3, <1>5, DequeueEffect
  <2>2. PICK a \in Arrival : a = [peer |-> p, packet |-> pk]
    BY <2>1 DEF Arrival
  <2>3. PICK j \in Nat : j = pk.pay.id
    BY <2>1, PacketKinds DEF Pay
  <2>4. /\ OutId[pk] = j /\ InId[a] = j
        /\ OutFwd[pk] = InFwd[a] /\ (InFwd[a] = j \/ InFwd[a] = 0)
    BY <2>1, <2>2, <2>3 DEF OutId, InId, OutFwd, InFwd
  <2>5. PICK s \in Seq(Packet) : s = out[p][n][c]
    BY <1>1 DEF Shapes
  <2>6. PICK b \in Seq(Arrival) : b = inbox[n]
    BY <1>1 DEF Shapes
  <2>7. /\ out'[p][n][c] = Tail(s) /\ inbox'[n] = Append(b, a)
        /\ \A q \in Node \ {n} : inbox'[q] = inbox[q]
        /\ \A m, q \in Node, d \in Channels :
             ~(m = p /\ q = n /\ d = c) => out'[m][q][d] = out[m][q][d]
    BY <1>1, <1>5, <2>1, <2>2, <2>5, <2>6 DEF Dequeued, Shapes
  <2>8. Once(OutId, s) /\ Once(InId, b)
    BY <2>5, <2>6 DEF PlaceInv, OutOnce, InOnce
  <2>9. /\ Has(OutId, s, j) /\ Has(OutFwd, s, OutFwd[pk])
        /\ \A i : Has(OutId, Tail(s), i) => Has(OutId, s, i)
        /\ \A i : Has(OutFwd, Tail(s), i) => Has(OutFwd, s, i)
        /\ \A i : Has(OutId, s, i) => Has(OutId, Tail(s), i) \/ i = j
        /\ \A i : Has(OutFwd, s, i) => Has(OutFwd, Tail(s), i) \/ i = InFwd[a]
        /\ Once(OutId, Tail(s))
        /\ j # 0 => ~Has(OutId, Tail(s), j)
    <3>1. s # <<>> /\ Head(s) = pk
      BY <1>2, <1>3, <2>5
    <3> QED BY <2>4, <2>8, <3>1, TailIds
  <2>10. /\ \A i : Has(InId, Append(b, a), i) <=> Has(InId, b, i) \/ j = i
         /\ \A i : Has(InFwd, Append(b, a), i) <=> Has(InFwd, b, i) \/ InFwd[a] = i
    BY <2>4, AppendIds
  <2>11. OutAt(p, n, c, j) /\ At(n, j)
    BY <2>5, <2>9 DEF OutAt, At
  <2>12. j # 0 => ~Has(InId, b, j)
    <3>1. j # 0 => Apart(n, j)
      BY DEF PlaceInv, OnePlace, Id
    <3> QED BY <2>6, <2>11, <3>1 DEF Apart, InAt
  <2>13. Once(InId, Append(b, a))
    BY <2>4, <2>8, <2>12, AppendIds
  <2>14. ASSUME NEW m \in Node, NEW q \in Node, NEW d \in Channels, NEW i \in Id
         PROVE  /\ OutAt(m, q, d, i)' => OutAt(m, q, d, i)
                /\ FwdOutAt(m, q, d, i)' => FwdOutAt(m, q, d, i)
                /\ OutAt(m, q, d, i) => OutAt(m, q, d, i)' \/ (q = n /\ i = j)
                /\ FwdOutAt(m, q, d, i) => FwdOutAt(m, q, d, i)'
                                            \/ (q = n /\ i = InFwd[a])
    <3>1. CASE m = p /\ q = n /\ d = c
      BY <2>5, <2>7, <2>9, <3>1 DEF OutAt, FwdOutAt
    <3>2. CASE ~(m = p /\ q = n /\ d = c)
      BY <2>7, <3>2 DEF OutAt, FwdOutAt
    <3> QED BY <3>1, <3>2
  <2>15. ASSUME NEW q \in Node, NEW i \in Id
         PROVE  /\ GotAt(q, i)' <=> GotAt(q, i)
                /\ RelAt(q, i)' <=> RelAt(q, i)
                /\ InAt(q, i)' <=> InAt(q, i) \/ (q = n /\ i = j)
                /\ FwdInAt(q, i)' <=> FwdInAt(q, i) \/ (q = n /\ i = InFwd[a])
    BY <1>2, <2>6, <2>7, <2>10 DEF GotAt, RelAt, InAt, FwdInAt
  <2>16. \A q \in Node, i \in Id : ~(q = n /\ i = j) => Shrinks(q, i)
    BY <2>14, <2>15 DEF Shrinks
  <2>17. ASSUME NEW q \in Node, NEW i \in Id, FwdAt(q, i)'
         PROVE  FwdAt(q, i)
    <3>1. i = OutFwd[pk] => FwdOutAt(p, n, c, i)
      BY <2>5, <2>9 DEF FwdOutAt
    <3> QED BY <2>4, <2>14, <2>15, <2>17, <3>1 DEF FwdAt
  <2>18. j # 0 => Apart(n, j)'
    <3>1. SUFFICES ASSUME j # 0 PROVE Apart(n, j)'
      OBVIOUS
    <3>2. Apart(n, j) /\ j \in Id
      BY <3>1 DEF PlaceInv, OnePlace, Id
    <3>3. ~GotAt(n, j) /\ ~RelAt(n, j)
      BY <2>11, <3>2 DEF Apart
    <3>4. ASSUME NEW m \in Node, NEW d \in Channels, OutAt(m, n, d, j)'
          PROVE  FALSE
      <4>1. m = p /\ d = c
        BY <2>11, <2>14, <3>2, <3>4 DEF Apart
      <4> QED BY <2>7, <2>9, <3>1, <3>4, <4>1 DEF OutAt
    <3> QED BY <2>15, <3>2, <3>3, <3>4 DEF Apart
  <2>19. OnePlace' /\ NotHome' /\ EnvelopeAlone'
    BY <1>2, <2>11, <2>16, <2>17, <2>18, MovedPlace
  <2>20. OutOnce'
    <3>1. SUFFICES ASSUME NEW m \in Node, NEW q \in Node, NEW d \in Channels
                   PROVE  Once(OutId, out'[m][q][d])
      BY DEF OutOnce
    <3>2. Once(OutId, out[m][q][d])
      BY DEF PlaceInv, OutOnce
    <3>3. CASE m = p /\ q = n /\ d = c
      BY <2>7, <2>9, <3>3
    <3>4. CASE ~(m = p /\ q = n /\ d = c)
      BY <2>7, <3>2, <3>4
    <3> QED BY <3>3, <3>4
  <2>21. InOnce'
    BY <2>7, <2>13 DEF PlaceInv, InOnce
  <2>22. GotOnce'
    BY <1>2 DEF PlaceInv, GotOnce
  <2>23. ASSUME NEW q \in Node, NEW i \in Id
         PROVE  (At(q, i) => At(q, i)') /\ (FwdAt(q, i) => FwdAt(q, i)')
    <3>1. At(q, i) => At(q, i)'
      BY <2>14, <2>15 DEF At
    <3>2. FwdAt(q, i) => FwdAt(q, i)'
      BY <2>14, <2>15 DEF FwdAt
    <3> QED BY <3>1, <3>2
  <2>24. Kept
    BY <2>17, <2>23 DEF Kept
  <2> QED BY <2>19, <2>20, <2>21, <2>22, <2>24 DEF PlaceInv
<1> QED BY <1>3, <1>4, <1>5 DEF Read

\* A packet leaves the inbox: what the handler took is nowhere else.
Taken(n, a, j) ==
  /\ a \in Arrival /\ j \in Nat /\ j = a.packet.pay.id
  /\ InAt(n, j) /\ At(n, j)
  /\ a.packet \in FwdPkt => FwdInAt(n, j)
  /\ InOnce'
  /\ \A q \in Node, i \in Id : InAt(q, i)' => InAt(q, i)
  /\ \A q \in Node, i \in Id : FwdInAt(q, i)' => FwdInAt(q, i)
  /\ \A q \in Node, i \in Id : InAt(q, i) => InAt(q, i)' \/ (q = n /\ i = j)
  /\ \A q \in Node, i \in Id :
       FwdInAt(q, i) => FwdInAt(q, i)' \/ (q = n /\ i = j /\ a.packet \in FwdPkt)
  /\ j # 0 => ~InAt(n, j)'

LEMMA TakenPlace ==
  ASSUME BaseInv, PlaceInv, NEW n \in Node, inbox[n] # <<>>,
         inbox' = [inbox EXCEPT ![n] = Tail(@)]
  PROVE  \E j \in Nat : Taken(n, Received(n), j)
<1>1. Shapes /\ Contents
  BY DEF BaseInv, ShapeInv, ContentInv
<1>2. PICK a : a = Received(n)
  OBVIOUS
<1>3. /\ a \in Arrival
      /\ \A m \in Node : inbox'[m] = IF m = n THEN Tail(inbox[n]) ELSE inbox[m]
  BY <1>1, <1>2, TakeBase
<1>4. PICK j \in Nat : j = a.packet.pay.id
  <2>1. a.packet \in Packet
    BY <1>3 DEF Arrival
  <2> QED BY <2>1, PacketKinds DEF Pay
<1>5. /\ InId[a] = j /\ (a.packet \in FwdPkt => InFwd[a] = j)
      /\ a.packet \notin FwdPkt => InFwd[a] = 0
  BY <1>3, <1>4 DEF InId, InFwd
<1>6. PICK b \in Seq(Arrival) : b = inbox[n]
  BY <1>1 DEF Shapes
<1>7. b # <<>> /\ Head(b) = a /\ Once(InId, b)
  BY <1>2, <1>6 DEF Received, PlaceInv, InOnce
<1>8. /\ Has(InId, b, j) /\ Has(InFwd, b, InFwd[a])
      /\ \A i : Has(InId, Tail(b), i) => Has(InId, b, i)
      /\ \A i : Has(InFwd, Tail(b), i) => Has(InFwd, b, i)
      /\ \A i : Has(InId, b, i) => Has(InId, Tail(b), i) \/ i = j
      /\ \A i : Has(InFwd, b, i) => Has(InFwd, Tail(b), i) \/ i = InFwd[a]
      /\ Once(InId, Tail(b))
      /\ j # 0 => ~Has(InId, Tail(b), j)
  BY <1>5, <1>7, TailIds
<1>9. InAt(n, j) /\ At(n, j) /\ (a.packet \in FwdPkt => FwdInAt(n, j))
  BY <1>5, <1>6, <1>8 DEF InAt, At, FwdInAt
<1>10. InOnce'
  BY <1>3, <1>6, <1>8 DEF PlaceInv, InOnce
<1>11. ASSUME NEW q \in Node, NEW i \in Id
       PROVE  /\ InAt(q, i)' => InAt(q, i)
              /\ FwdInAt(q, i)' => FwdInAt(q, i)
              /\ InAt(q, i) => InAt(q, i)' \/ (q = n /\ i = j)
              /\ FwdInAt(q, i) => FwdInAt(q, i)'
                                   \/ (q = n /\ i = j /\ a.packet \in FwdPkt)
  <2>1. CASE q = n
    BY <1>3, <1>5, <1>6, <1>8, <2>1 DEF InAt, FwdInAt, Id
  <2>2. CASE q # n
    BY <1>3, <2>2 DEF InAt, FwdInAt
  <2> QED BY <2>1, <2>2
<1>12. j # 0 => ~InAt(n, j)'
  BY <1>3, <1>6, <1>8 DEF InAt
<1>13. Taken(n, a, j)
  BY <1>3, <1>4, <1>9, <1>10, <1>11, <1>12 DEF Taken
<1> QED BY <1>2, <1>13

\* The receive callback is told of message j.
Told(n, j) ==
  \A q \in Node, i \in Id : GotAt(q, i)' <=> GotAt(q, i) \/ (q = n /\ i = j)

LEMMA ToldPlace ==
  ASSUME Shapes, GotOnce, NEW n \in Node, NEW g \in Receipt, NEW j, j = g.id,
         got' = [got EXCEPT ![n] = Append(@, g)], j # 0 => ~GotAt(n, j)
  PROVE  Told(n, j) /\ GotOnce'
<1>1. got \in [Node -> Seq(Receipt)]
  BY DEF Shapes
<1>2. \A q \in Node : got'[q] = IF q = n THEN Append(got[n], g) ELSE got[q]
  BY <1>1
<1>3. GotId[g] = j
  BY DEF GotId
<1>4. \A i : Has(GotId, Append(got[n], g), i) <=> Has(GotId, got[n], i) \/ j = i
  BY <1>1, <1>3, AppendIds
<1>5. Once(GotId, Append(got[n], g))
  <2>1. Once(GotId, got[n]) /\ (GotId[g] = 0 \/ ~Has(GotId, got[n], GotId[g]))
    BY <1>3 DEF GotOnce, GotAt
  <2> QED BY <1>1, <2>1, AppendIds
<1>6. GotOnce'
  BY <1>2, <1>5 DEF GotOnce
<1>7. Told(n, j)
  BY <1>2, <1>4 DEF Told, GotAt
<1> QED BY <1>6, <1>7

\* A packet goes from the inbox to the application, to the relay, or (an
\* assignment) nowhere.
LEMMA TakePlace ==
  ASSUME BaseInv, PlaceInv, NEW n \in Node, NEW j \in Nat, Takes(n),
         Taken(n, Received(n), j), UNCHANGED <<out, sent>>,
         \/ /\ \E g \in Receipt :
                 g.id = j /\ got' = [got EXCEPT ![n] = Append(@, g)]
            /\ UNCHANGED relaying
         \/ /\ \E r : r.id = j /\ relaying' = [relaying EXCEPT ![n] = r]
            /\ Received(n).packet \in FwdPkt /\ UNCHANGED got
         \/ UNCHANGED <<relaying, got>>
  PROVE  PlaceInv'
<1>1. /\ InAt(n, j) /\ At(n, j) /\ InOnce'
      /\ Received(n).packet \in FwdPkt => FwdInAt(n, j)
      /\ \A q \in Node, i \in Id : InAt(q, i)' => InAt(q, i)
      /\ \A q \in Node, i \in Id : FwdInAt(q, i)' => FwdInAt(q, i)
      /\ j # 0 => ~InAt(n, j)'
  BY DEF Taken
<1>2. ASSUME NEW m \in Node, NEW q \in Node, NEW d \in Channels, NEW i \in Id
      PROVE  /\ OutAt(m, q, d, i)' <=> OutAt(m, q, d, i)
             /\ FwdOutAt(m, q, d, i)' <=> FwdOutAt(m, q, d, i)
  BY DEF OutAt, FwdOutAt
<1>3. OutOnce'
  BY DEF PlaceInv, OutOnce
<1>4. j # 0 => /\ j \in Id /\ ~GotAt(n, j) /\ ~RelAt(n, j)
               /\ \A m \in Node, d \in Channels : ~OutAt(m, n, d, j)
  <2>1. j # 0 => Apart(n, j) /\ j \in Id
    BY DEF PlaceInv, OnePlace, Id
  <2> QED BY <1>1, <2>1 DEF Apart
<1>5. Shapes
  BY DEF BaseInv, ShapeInv
<1>6. /\ GotOnce'
      /\ \A q \in Node, i \in Id : GotAt(q, i)' => GotAt(q, i) \/ (q = n /\ i = j)
      /\ \A q \in Node, i \in Id : RelAt(q, i)' => RelAt(q, i) \/ (q = n /\ i = j)
      /\ \A q \in Node, i \in Id :
           RelAt(q, i)' => RelAt(q, i) \/ (q = n /\ FwdInAt(n, i))
      /\ j # 0 => ~(GotAt(n, j)' /\ RelAt(n, j)')
  <2>1. CASE /\ \E g \in Receipt :
                  g.id = j /\ got' = [got EXCEPT ![n] = Append(@, g)]
             /\ UNCHANGED relaying
    <3>1. PICK g \in Receipt : g.id = j /\ got' = [got EXCEPT ![n] = Append(@, g)]
      BY <2>1
    <3>2. Told(n, j) /\ GotOnce'
      BY <1>4, <1>5, <3>1, ToldPlace DEF PlaceInv
    <3>3. \A q \in Node, i \in Id : RelAt(q, i)' <=> RelAt(q, i)
      BY <2>1 DEF RelAt
    <3> QED BY <1>4, <3>2, <3>3 DEF Told
  <2>2. CASE /\ \E r : r.id = j /\ relaying' = [relaying EXCEPT ![n] = r]
             /\ Received(n).packet \in FwdPkt /\ UNCHANGED got
    <3>1. PICK r : r.id = j /\ relaying' = [relaying EXCEPT ![n] = r]
      BY <2>2
    <3>2. \A q \in Node : relaying'[q] = IF q = n THEN r ELSE relaying[q]
      BY <3>1 DEF BaseInv, ContentInv, Contents
    <3>3. \A q \in Node, i \in Id : RelAt(q, i)' => RelAt(q, i) \/ (q = n /\ i = j)
      BY <3>1, <3>2 DEF RelAt
    <3>4. FwdInAt(n, j)
      BY <1>1, <2>2
    <3>5. GotOnce' /\ \A q \in Node, i \in Id : GotAt(q, i)' <=> GotAt(q, i)
      BY <2>2 DEF PlaceInv, GotOnce, GotAt
    <3> QED BY <1>4, <3>3, <3>4, <3>5
  <2>3. CASE UNCHANGED <<relaying, got>>
    <3>1. GotOnce'
      BY <2>3 DEF PlaceInv, GotOnce
    <3>2. ASSUME NEW q \in Node, NEW i \in Id
          PROVE  (GotAt(q, i)' <=> GotAt(q, i)) /\ (RelAt(q, i)' <=> RelAt(q, i))
      BY <2>3 DEF GotAt, RelAt
    <3> QED BY <1>4, <3>1, <3>2
  <2> QED BY <2>1, <2>2, <2>3
<1>7. \A q \in Node, i \in Id : ~(q = n /\ i = j) => Shrinks(q, i)
  BY <1>1, <1>2, <1>6 DEF Shrinks
<1>8. \A q \in Node, i \in Id : FwdAt(q, i)' => FwdAt(q, i)
  BY <1>1, <1>2, <1>6 DEF FwdAt
<1>9. j # 0 => Apart(n, j)'
  BY <1>1, <1>2, <1>4, <1>6 DEF Apart
<1>10. OnePlace' /\ NotHome' /\ EnvelopeAlone'
  BY <1>1, <1>7, <1>8, <1>9, MovedPlace
<1> QED BY <1>1, <1>3, <1>6, <1>10 DEF PlaceInv

\* In the first two cases nothing is lost: a message that is delivered here was
\* no envelope, and an envelope goes to the relay.
LEMMA TakeKept ==
  ASSUME BaseInv, PlaceInv, NEW n \in Node, NEW j \in Nat, Takes(n),
         Taken(n, Received(n), j), UNCHANGED out,
         \/ /\ \E g \in Receipt :
                 g.id = j /\ got' = [got EXCEPT ![n] = Append(@, g)]
            /\ Received(n).packet \notin FwdPkt /\ UNCHANGED relaying
         \/ /\ \E r : r.id = j /\ relaying' = [relaying EXCEPT ![n] = r]
            /\ Received(n).packet \in FwdPkt /\ UNCHANGED got
  PROVE  Kept
<1>1. /\ InAt(n, j)
      /\ Received(n).packet \in FwdPkt => FwdInAt(n, j)
      /\ \A q \in Node, i \in Id : InAt(q, i) => InAt(q, i)' \/ (q = n /\ i = j)
      /\ \A q \in Node, i \in Id : FwdInAt(q, i)' => FwdInAt(q, i)
      /\ \A q \in Node, i \in Id :
           FwdInAt(q, i) => \/ FwdInAt(q, i)'
                            \/ q = n /\ i = j /\ Received(n).packet \in FwdPkt
  BY DEF Taken
<1>2. ASSUME NEW m \in Node, NEW q \in Node, NEW d \in Channels, NEW i \in Id
      PROVE  /\ OutAt(m, q, d, i)' <=> OutAt(m, q, d, i)
             /\ FwdOutAt(m, q, d, i)' <=> FwdOutAt(m, q, d, i)
  BY DEF OutAt, FwdOutAt
<1>3. CASE /\ \E g \in Receipt :
                g.id = j /\ got' = [got EXCEPT ![n] = Append(@, g)]
           /\ Received(n).packet \notin FwdPkt /\ UNCHANGED relaying
  <2>1. PICK g \in Receipt : g.id = j /\ got' = [got EXCEPT ![n] = Append(@, g)]
    BY <1>3
  <2>2. j # 0 => ~GotAt(n, j)
    BY <1>1 DEF PlaceInv, OnePlace, Apart, Id
  <2>3. Told(n, j)
    BY <2>1, <2>2, ToldPlace DEF PlaceInv, BaseInv, ShapeInv
  <2>4. \A q \in Node, i \in Id : RelAt(q, i)' <=> RelAt(q, i)
    BY <1>3 DEF RelAt
  <2>5. \A q \in Node, i \in Id : At(q, i) => At(q, i)'
    BY <1>1, <1>2, <2>3, <2>4 DEF At, Told
  <2>6. \A q \in Node, i \in Id : FwdAt(q, i)' <=> FwdAt(q, i)
    BY <1>1, <1>2, <1>3, <2>4 DEF FwdAt
  <2> QED BY <2>5, <2>6 DEF Kept
<1>4. CASE /\ \E r : r.id = j /\ relaying' = [relaying EXCEPT ![n] = r]
           /\ Received(n).packet \in FwdPkt /\ UNCHANGED got
  <2>1. PICK r : r.id = j /\ relaying' = [relaying EXCEPT ![n] = r]
    BY <1>4
  <2>2. relaying[n] = Idle
    BY DEF Takes
  <2>3. \A q \in Node : relaying'[q] = IF q = n THEN r ELSE relaying[q]
    BY <2>1 DEF BaseInv, ContentInv, Contents
  <2>4. \A q \in Node, i \in Id : RelAt(q, i)' <=> RelAt(q, i) \/ (q = n /\ i = j)
    BY <2>1, <2>2, <2>3 DEF RelAt, Idle, Id
  <2>5. \A q \in Node, i \in Id : GotAt(q, i)' <=> GotAt(q, i)
    BY <1>4 DEF GotAt
  <2>6. \A q \in Node, i \in Id : At(q, i) => At(q, i)'
    BY <1>1, <1>2, <2>4, <2>5 DEF At
  <2>7. \A q \in Node, i \in Id : FwdAt(q, i)' <=> FwdAt(q, i)
    BY <1>1, <1>2, <1>4, <2>4 DEF FwdAt
  <2> QED BY <2>6, <2>7 DEF Kept
<1> QED BY <1>3, <1>4

LEMMA HandlerPlace ==
  ASSUME BaseInv, PlaceInv, NEW n \in Node, OnUser(n) \/ OnForwarded(n) \/ OnAssign(n)
  PROVE  PlaceInv'
<1>1. PICK a : a = Received(n)
  OBVIOUS
<1>2. /\ Takes(n) /\ inbox[n] # <<>> /\ UNCHANGED <<out, sent>>
      /\ inbox' = [inbox EXCEPT ![n] = Tail(@)]
  BY DEF OnUser, OnForwarded, OnAssign, Takes
<1>3. PICK j \in Nat : Taken(n, a, j)
  BY <1>1, <1>2, TakenPlace
<1>4. a \in [peer : Node, packet : Good] /\ j = a.packet.pay.id
  BY <1>1, <1>2, <1>3, TakeBase DEF Taken, BaseInv, ShapeInv, ContentInv
<1>5. CASE OnUser(n)
  <2>1. ~IsInternal(a.packet.type)
    BY <1>1, <1>5 DEF OnUser
  <2>2. a.packet \in GoodUser /\ a.peer \in Node
    BY <1>4, <2>1, GoodKinds
  <2>3. PICK g : g = [peer |-> a.peer, id |-> DecodePayload(a.packet).id,
                      type |-> a.packet.type, flags |-> a.packet.flags,
                      size |-> DecodePayload(a.packet).size]
    OBVIOUS
  <2>4. g \in Receipt /\ g.id = j
    <3>1. g \in GoodReceipt /\ DecodePayload(a.packet).id = a.packet.pay.id
      BY <2>2, <2>3, GoodDelivery
    <3> QED BY <1>4, <2>3, <3>1 DEF GoodReceipt
  <2>5. got' = [got EXCEPT ![n] = Append(@, g)] \/ got' = got
    BY <1>1, <1>5, <2>3 DEF OnUser, Deliver
  <2>6. UNCHANGED relaying
    BY <1>5 DEF OnUser
  <2> QED BY <1>1, <1>2, <1>3, <2>4, <2>5, <2>6, TakePlace
<1>6. CASE OnForwarded(n)
  <2>1. Forwards(a.packet)
    BY <1>1, <1>6 DEF OnForwarded
  <2>2. a.packet \in GoodForward
    BY <1>4, <2>1, GoodKinds
  <2>3. a.packet \in FwdPkt
    BY <2>2 DEF GoodForward
  <2>4. PICK g : g = [peer |-> a.packet.from, id |-> a.packet.pay.id,
                      type |-> a.packet.original, flags |-> a.packet.originalFlags,
                      size |-> a.packet.pay.size]
    OBVIOUS
  <2>5. g \in Receipt /\ g.id = j
    <3>1. a.packet.from \in Node
      BY <2>3 DEF FwdPkt
    <3>2. g \in GoodReceipt
      BY <2>2, <2>4, <3>1, GoodDelivery
    <3> QED BY <1>4, <2>4, <3>2 DEF GoodReceipt
  <2>6. PICK r : r = [id |-> a.packet.pay.id, packet |-> a.packet]
    OBVIOUS
  <2>7. r.id = j
    BY <1>4, <2>6
  <2>8. \/ relaying' = [relaying EXCEPT ![n] = r] /\ got' = got
        \/ relaying' = relaying /\ got' = [got EXCEPT ![n] = Append(@, g)]
    BY <1>1, <1>6, <2>4, <2>6 DEF OnForwarded, Deliver
  <2> QED BY <1>1, <1>2, <1>3, <2>3, <2>5, <2>7, <2>8, TakePlace
<1>7. CASE OnAssign(n)
  <2>1. UNCHANGED <<relaying, got>>
    BY <1>7 DEF OnAssign
  <2> QED BY <1>1, <1>2, <1>3, <2>1, TakePlace
<1> QED BY <1>5, <1>6, <1>7

\* Message j, which is with the relay of n, goes to n and to the peers in P.
RelaySpread(n, j, P) ==
  \A q \in Node, i \in Id :
    /\ At(q, i) => At(q, i)'
    /\ i = j /\ (q = n \/ q \in P) => At(q, i)'
    /\ FwdAt(q, i) => FwdAt(q, i)' \/ i = j
    /\ FwdAt(q, i)' => FwdAt(q, i)

\* The relay delivers its message here and sends copies to others, none of
\* whom has it: the envelope was alone.
LEMMA RelayPlace ==
  ASSUME BaseInv, PlaceInv, NEW n \in Node, Relay(n)
  PROVE  /\ PlaceInv'
         /\ \E P \in SUBSET Node : \E pk :
              Relayed(n, P, pk) /\ RelaySpread(n, relaying[n].id, P)
<1>1. Shapes /\ Connections /\ States /\ History /\ Contents
  BY DEF BaseInv, ShapeInv, ContentInv
<1>2. /\ relaying[n] # Idle /\ relaying' = [relaying EXCEPT ![n] = Idle]
      /\ UNCHANGED <<conn, inbox, sent>>
  BY RelayForms
<1>3a. PICK P \in SUBSET Node : \E pk : Relayed(n, P, pk)
  BY RelayForms
<1>3. PICK pk : Relayed(n, P, pk)
  BY <1>3a
<1>4. PICK env : env = relaying[n].packet
  OBVIOUS
<1>5. /\ env \in GoodForward /\ relaying[n].id = env.pay.id
      /\ pk \in GoodUser /\ pk \in Packet /\ pk.pay.id = relaying[n].id
  BY <1>1, <1>2, <1>3, <1>4, CopyGood DEF Relayed
<1>6. PICK j \in Id : j = relaying[n].id /\ j \in 1 .. Len(sent)
                      /\ env.from = sent[j].from
  BY <1>1, <1>5 DEF GoodForward, Genuine, Id, History
<1>7. pk \notin FwdPkt
  <2>1. pk \in UserPkt
    BY <1>5 DEF GoodUser
  <2> QED BY <1>5, <2>1, PacketKinds DEF Forwards
<1>8. RelAt(n, j) /\ FwdAt(n, j)
  BY <1>6 DEF RelAt, FwdAt
<1>9. /\ \A q \in Node \ {n} : ~At(q, j)
      /\ ~InAt(n, j) /\ ~GotAt(n, j)
      /\ \A m \in Node, d \in Channels : ~OutAt(m, n, d, j)
  <2>1. Apart(n, j)
    BY DEF PlaceInv, OnePlace
  <2> QED BY <1>8, <2>1 DEF PlaceInv, EnvelopeAlone, Apart
<1>10. \A p \in P : p # n /\ p # env.from
  BY <1>1, <1>3, <1>4 DEF Relayed, Connections, Excluded
<1>11. Placed(n, P, pk) /\ OutOnce'
  <2>1. \A p \in P, c \in Channels : ~OutAt(n, p, c, pk.pay.id)
    BY <1>5, <1>6, <1>9, <1>10 DEF At
  <2> QED BY <1>2, <1>3, <1>5, <2>1, EnqueuePlaces DEF Relayed, PlaceInv
<1>12. PICK g \in GoodReceipt : /\ g.id = j /\ got' = [got EXCEPT ![n] = Append(@, g)]
  BY <1>1, <1>6, RelayDelivers
<1>13. Told(n, j) /\ GotOnce'
  <2>1. g \in Receipt
    BY DEF GoodReceipt
  <2> QED BY <1>1, <1>9, <1>12, <2>1, ToldPlace DEF PlaceInv
<1>14. ASSUME NEW q \in Node, NEW i \in Id
       PROVE  /\ InAt(q, i)' <=> InAt(q, i)
              /\ FwdInAt(q, i)' <=> FwdInAt(q, i)
              /\ RelAt(q, i)' <=> RelAt(q, i) /\ q # n
  <2>1. relaying'[q] = IF q = n THEN Idle ELSE relaying[q]
    BY <1>1, <1>2 DEF Contents
  <2> QED BY <1>2, <2>1 DEF InAt, FwdInAt, RelAt, Idle, Id
<1>15. InOnce'
  BY <1>2 DEF PlaceInv, InOnce
<1>16. ASSUME NEW m \in Node, NEW q \in Node, NEW d \in Channels, NEW i \in Id
       PROVE  /\ OutAt(m, q, d, i)' <=>
                   \/ OutAt(m, q, d, i)
                   \/ m = n /\ q \in P /\ d = ChannelFor(n, q, pk) /\ i = j
              /\ FwdOutAt(m, q, d, i)' <=> FwdOutAt(m, q, d, i)
  BY <1>5, <1>6, <1>7, <1>11 DEF Placed
<1>17. ASSUME NEW q \in Node, NEW i \in Id
       PROVE  /\ At(q, i)' => At(q, i) \/ (i = j /\ q \in P)
              /\ FwdAt(q, i)' => FwdAt(q, i)
              /\ i # j => Shrinks(q, i)
  <2>1. At(q, i)' => At(q, i) \/ (i = j /\ q \in P)
    BY <1>8, <1>13, <1>14, <1>16 DEF At, Told
  <2>2. FwdAt(q, i)' => FwdAt(q, i)
    BY <1>14, <1>16 DEF FwdAt
  <2>3. i # j => Shrinks(q, i)
    BY <1>13, <1>14, <1>16 DEF Shrinks, Told
  <2> QED BY <2>1, <2>2, <2>3
<1>18. OnePlace'
  <2>1. SUFFICES ASSUME NEW q \in Node, NEW i \in Id PROVE Apart(q, i)'
    BY DEF OnePlace
  <2>2. CASE i # j
    <3>1. Shrinks(q, i) /\ Apart(q, i)
      BY <1>17, <2>2 DEF PlaceInv, OnePlace
    <3> QED BY <3>1, ApartShrinks DEF Shrinks
  <2>3. CASE i = j /\ q = n
    <3>1. ~InAt(q, i)' /\ ~RelAt(q, i)'
      BY <1>9, <1>14, <2>3
    <3>2. \A m \in Node, d \in Channels : ~OutAt(m, q, d, i)'
      BY <1>9, <1>10, <1>16, <2>3
    <3> QED BY <3>1, <3>2 DEF Apart
  <2>4. CASE i = j /\ q # n
    <3>1. /\ \A m \in Node, d \in Channels : ~OutAt(m, q, d, i)
          /\ ~InAt(q, i) /\ ~GotAt(q, i) /\ ~RelAt(q, i)
      BY <1>9, <2>4 DEF At
    <3>2. ~InAt(q, i)' /\ ~RelAt(q, i)' /\ ~GotAt(q, i)'
      BY <1>13, <1>14, <2>4, <3>1 DEF Told
    <3>3. \A m \in Node, d \in Channels :
             OutAt(m, q, d, i)' => m = n /\ d = ChannelFor(n, q, pk)
      BY <1>16, <3>1
    <3> QED BY <3>2, <3>3 DEF Apart
  <2> QED BY <2>2, <2>3, <2>4
<1>19. NotHome'
  <2>1. SUFFICES ASSUME NEW q \in Node, NEW i \in Id, At(q, i)'
                 PROVE  sent[i].from # q
    BY <1>2 DEF NotHome
  <2>2. CASE At(q, i)
    BY <2>2 DEF PlaceInv, NotHome
  <2>3. CASE i = j /\ q \in P
    BY <1>6, <1>10, <2>3
  <2> QED BY <1>17, <2>1, <2>2, <2>3
<1>20. EnvelopeAlone'
  <2>1. SUFFICES ASSUME NEW p \in Node, NEW q \in Node, NEW i \in Id,
                        FwdAt(p, i)', q # p, At(q, i)'
                 PROVE  FALSE
    BY DEF EnvelopeAlone
  <2>2. CASE i # j
    BY <1>17, <2>1, <2>2 DEF PlaceInv, EnvelopeAlone
  <2>3. CASE i = j
    <3>1. p = n
      <4>1. At(p, i)
        BY <1>1, <1>17, <2>1, FwdIsAt
      <4> QED BY <1>9, <2>3, <4>1
    <3>2. /\ \A m \in Node, d \in Channels : ~FwdOutAt(m, n, d, j)
          /\ ~FwdInAt(n, j)
      BY <1>1, <1>9, FwdIsAt
    <3>3. ~FwdAt(n, j)'
      BY <1>14, <1>16, <3>2 DEF FwdAt
    <3> QED BY <2>1, <2>3, <3>1, <3>3
  <2> QED BY <2>2, <2>3
<1>21. ASSUME NEW q \in Node, NEW i \in Id
       PROVE  /\ At(q, i) => At(q, i)'
              /\ i = j /\ (q = n \/ q \in P) => At(q, i)'
              /\ FwdAt(q, i) => FwdAt(q, i)' \/ i = j
  <2>1. ChannelFor(n, q, pk) \in Channels
    BY DEF ChannelFor, Channels
  <2>2. RelAt(n, i) => i = j
    BY <1>6 DEF RelAt
  <2>3. i = j /\ (q = n \/ q \in P) => At(q, i)'
    BY <1>13, <1>16, <2>1 DEF At, Told
  <2>4. At(q, i) => At(q, i)'
    BY <1>13, <1>14, <1>16, <2>2, <2>3 DEF At, Told
  <2>5. FwdAt(q, i) => FwdAt(q, i)' \/ i = j
    BY <1>14, <1>16, <2>2 DEF FwdAt
  <2> QED BY <2>3, <2>4, <2>5
<1>22. RelaySpread(n, relaying[n].id, P)
  BY <1>6, <1>17, <1>21 DEF RelaySpread
<1> QED BY <1>3, <1>11, <1>13, <1>15, <1>18, <1>19, <1>20, <1>22 DEF PlaceInv

\* Nothing is anywhere of a call that has not been made, or not returned.
LEMMA NowhereYet ==
  ASSUME BaseInv, NEW id \in Nat,
         id \notin 1 .. Len(sent) \/ result[id] # "OK"
  PROVE  id = 0 \/ \A q \in Node : ~At(q, id)
BY AtGenuine DEF Id

\* The packet of a call that sends at once belongs to the call that is added.
LEMMA SendsPlace ==
  ASSUME BaseInv, PlaceInv, NEW n \in Node, NEW m \in Data, NEW t \in Target,
         NEW r \in Code, NEW P \in SUBSET Node, Len(sent) < MaxSends,
         ValidMessage(n, m), Sends(n, m, t, r, P)
  PROVE  /\ PlaceInv'
         /\ \E pk \in UserPkt : /\ pk.pay.id = Len(sent) + 1 /\ Spread(P, pk)
                                /\ Enqueue(n, P, pk)
<1>1. States /\ Connections /\ History
  BY DEF BaseInv, ShapeInv
<1>2. /\ Submit(n, m, t, r) /\ (\A p \in P : conn[n][p] # {})
      /\ Enqueue(n, P, NewPacket(n, m))
  BY DEF Sends
<1>3. SendersKept /\ Len(sent) \in Nat /\ sent'[Len(sent) + 1].from = n
  BY <1>1, <1>2, SubmitEffect DEF SendersKept
<1>4. UNCHANGED <<conn, inbox, got, relaying>>
  BY <1>2 DEF Submit
<1>5. PICK id \in Nat \ {0} : id = Len(sent) + 1 /\ id \notin 1 .. Len(sent)
  BY <1>3
<1>6. PICK pk : pk = UserPacket(n, id, m)
  OBVIOUS
<1>7. MessageAs(pk, n, id, m)
  BY <1>1, <1>6, UserPacketEffect DEF ValidMessage
<1>8. pk \in UserPkt /\ pk \in Packet /\ pk.pay.id = id
  BY <1>7 DEF MessageAs, Packet
<1>9. pk \notin FwdPkt
  BY <1>8, PacketKinds DEF Forwards
<1>10. \A q \in Node : ~At(q, id)
  BY <1>5, NowhereYet
<1>11. Enqueue(n, P, pk)
  BY <1>2, <1>5, <1>6 DEF NewPacket
<1>12. PlaceInv' /\ Spread(P, pk)
  BY <1>2, <1>3, <1>4, <1>5, <1>8, <1>9, <1>10, <1>11, QueuedPlace
<1> QED BY <1>5, <1>8, <1>11, <1>12

LEMMA CallPlace ==
  ASSUME BaseInv, PlaceInv, NEW n \in Node, CallStep(n)
  PROVE  PlaceInv'
<1>1. States /\ Connections /\ History
  BY DEF BaseInv, ShapeInv
<1>2. Len(sent) < MaxSends
  BY <1>1, CallForms
<1>3. PICK m \in Data, t \in Target :
        \/ \E r \in Code \ {"pending"} : Refuses(n, m, t, r)
        \/ /\ ValidMessage(n, m)
           /\ \E how \in {"forward", "direct"} : Pauses(n, m, t, how)
        \/ /\ ValidMessage(n, m)
           /\ \E r \in Code, P \in SUBSET Node : Sends(n, m, t, r, P)
  BY <1>1, CallForms
<1>4. ASSUME NEW r \in Code, Submit(n, m, t, r)
      PROVE  /\ SendersKept /\ UNCHANGED <<conn, inbox, got, relaying>>
             /\ Len(sent) + 1 \in Nat \ {0} /\ Len(sent) + 1 \notin 1 .. Len(sent)
             /\ sent'[Len(sent) + 1].from = n
  <2>1. SendersKept /\ Len(sent) \in Nat /\ sent'[Len(sent) + 1].from = n
    BY <1>1, <1>2, <1>4, SubmitEffect DEF SendersKept
  <2>2. UNCHANGED <<conn, inbox, got, relaying>>
    BY <1>4 DEF Submit
  <2> QED BY <2>1, <2>2
<1>5. CASE \E r \in Code \ {"pending"} : Refuses(n, m, t, r)
  BY <1>4, <1>5, QuietPlace DEF Refuses, Refuse
<1>6. CASE \E how \in {"forward", "direct"} : Pauses(n, m, t, how)
  <2>1. "pending" \in Code
    BY DEF Code
  <2> QED BY <1>4, <1>6, <2>1, QuietPlace DEF Pauses, Pause
<1>7. CASE /\ ValidMessage(n, m)
           /\ \E r \in Code, P \in SUBSET Node : Sends(n, m, t, r, P)
  BY <1>2, <1>7, SendsPlace
<1> QED BY <1>3, <1>5, <1>6, <1>7

\* What the router queues belongs to a call that had not returned.
LEMMA RoutedPlace ==
  ASSUME BaseInv, PlaceInv, NEW n \in Node, routing[n] # Idle, NEW code \in Code,
         NEW P \in SUBSET Node, NEW pk, Routed(n, routing[n].id, code, P, pk),
         UNCHANGED <<conn, inbox, got, relaying, sent>>
  PROVE  PlaceInv' /\ Spread(P, pk)
<1>1. History /\ Routes
  BY DEF BaseInv, ShapeInv, ContentInv
<1>2. pk \in Packet /\ pk.pay.id = routing[n].id
  BY RoutedGood
<1>3. Pending(n, routing[n])
  BY <1>1 DEF Routes
<1>4. PICK id \in Nat : /\ id = routing[n].id /\ id \in 1 .. Len(sent)
                        /\ result[id] # "OK" /\ sent[id].from = n
  BY <1>1, <1>3 DEF Pending, History
<1>5. id = 0 \/ \A q \in Node : ~At(q, id)
  BY <1>4, NowhereYet
<1>6. /\ Enqueue(n, P, pk) /\ (\A p \in P : conn[n][p] # {})
      /\ \A p, q \in P : p = q
  BY DEF Routed
<1>7. SendersKept
  BY DEF SendersKept
<1> QED BY <1>2, <1>4, <1>5, <1>6, <1>7, QueuedPlace

LEMMA RoutePlace ==
  ASSUME BaseInv, PlaceInv, NEW n \in Node, FinishRoute(n)
  PROVE  PlaceInv'
<1>1. /\ routing[n] # Idle /\ UNCHANGED <<conn, inbox, got, relaying, sent>>
  BY RouteForms
<1>2. PICK code \in Code, P \in SUBSET Node :
        \E pk : Routed(n, routing[n].id, code, P, pk)
  BY RouteForms
<1> QED BY <1>1, <1>2, RoutedPlace

LEMMA ChangePlace ==
  ASSUME BaseInv, PlaceInv, NEW n \in Node, ChangeStep(n)
  PROVE  PlaceInv'
<1>1. CASE \E l \in Node : CallSetLeader(n, l)
  <2>1. PICK l \in Node : CallSetLeader(n, l)
    BY <1>1
  <2>2. UNCHANGED <<conn, inbox, got, relaying, sent>>
    BY <2>1, SetLeaderForms
  <2>3. PICK P \in SUBSET Node, pk \in AssignPkt :
          Enqueue(n, P, pk) /\ (\A p \in P : conn[n][p] # {})
    BY <2>1, SetLeaderForms
  <2>4. pk \in Packet /\ pk.pay.id = 0
    BY DEF Packet, AssignPkt
  <2>5. pk \notin FwdPkt
    BY <2>4, PacketKinds DEF Forwards, Assigns
  <2>6. SendersKept
    BY <2>2 DEF SendersKept
  <2> QED BY <2>2, <2>3, <2>4, <2>5, <2>6, QueuedPlace
<1>2. CASE \E p \in Node, c \in Channels : CutChannel(n, p, c)
  <2>1. PICK p \in Node, c \in Channels : CutChannel(n, p, c)
    BY <1>2
  <2>2. n # p
    BY <2>1, NodeAssumption DEF CutChannel
  <2> QED BY <2>1, <2>2, CutPlace DEF CutChannel
<1>3. CASE UNCHANGED <<out, inbox, got, relaying, sent>>
  <2>1. SendersKept
    BY <1>3 DEF SendersKept
  <2> QED BY <1>3, <2>1, QuietPlace
<1> QED BY <1>1, <1>2, <1>3 DEF ChangeStep, SetCentralizedMode,
           SetCentralizedAutoForward, SetCompressionThreshold, Toggle, VoteRequested

RoutingInv == BaseInv /\ PlaceInv

LEMMA RoutingInvHolds == Spec => []RoutingInv
<1>1. Init => RoutingInv
  BY BaseInit, PlaceInit DEF RoutingInv
<1>2. RoutingInv /\ [Next]_vars => RoutingInv'
  <2>1. ASSUME BaseInv, PlaceInv, Next PROVE PlaceInv'
    <3>1. PICK n \in Node : CallStep(n) \/ TaskStep(n) \/ ChangeStep(n)
      BY <2>1 DEF Next
    <3>2. CASE CallStep(n)
      BY <2>1, <3>2, CallPlace
    <3>3. CASE TaskStep(n)
      BY <2>1, <3>3, RoutePlace, HandlerPlace, RelayPlace, ReadPlace
         DEF TaskStep, HandlerStep
    <3>4. CASE ChangeStep(n)
      BY <2>1, <3>4, ChangePlace
    <3> QED BY <3>1, <3>2, <3>3, <3>4
  <2>2. ASSUME BaseInv, PlaceInv, UNCHANGED vars PROVE PlaceInv'
    <3>1. SendersKept
      BY <2>2 DEF vars, SendersKept
    <3> QED BY <2>2, <3>1, QuietPlace DEF vars
  <2> QED BY <2>1, <2>2, BaseStep DEF RoutingInv
<1> QED BY <1>1, <1>2, PTL DEF Spec

\* No node receives a message twice, nor the one it sent, whatever route its
\* copies take: directly, through one leader, or through a leader that is
\* replaced between forwarding and relaying.
THEOREM NoDuplicates == Spec => []AtMostOnce
<1>1. RoutingInv => AtMostOnce
  <2>1. SUFFICES ASSUME RoutingInv, NEW i \in DOMAIN sent, NEW n \in Node
                 PROVE  Cardinality(Copies(n, i))
                          <= (IF n = sent[i].from THEN 0 ELSE 1)
    BY DEF AtMostOnce
  <2>2. BaseInv /\ PlaceInv /\ Shapes /\ History
    BY <2>1 DEF RoutingInv, BaseInv, ShapeInv
  <2>3. i \in Id
    BY <2>2 DEF History, Id
  <2>4. got[n] \in Seq(Receipt)
    BY <2>2 DEF Shapes
  <2>5. DOMAIN got[n] = 1 .. Len(got[n])
    BY <2>4, LenProperties
  <2>6. ASSUME NEW k \in 1 .. Len(got[n]) PROVE GotId[got[n][k]] = got[n][k].id
    <3>1. got[n][k] \in Receipt
      BY <2>4, ElementOfSeq
    <3> QED BY <3>1 DEF GotId
  <2>7. ASSUME NEW k \in Copies(n, i) PROVE n # sent[i].from
    <3>1. GotAt(n, i)
      BY <2>5, <2>6, <2>7 DEF Copies, GotAt, Has
    <3> QED BY <2>2, <2>3, <3>1 DEF PlaceInv, NotHome, At
  <2>8. ASSUME NEW j \in Copies(n, i), NEW k \in Copies(n, i) PROVE j = k
    BY <2>2, <2>3, <2>5, <2>6, <2>8 DEF Copies, PlaceInv, GotOnce, Once, Id
  <2>9. CASE Copies(n, i) = {}
    <3>1. Cardinality(Copies(n, i)) = 0
      BY <2>9, FS_EmptySet
    <3> QED BY <3>1
  <2>10. CASE Copies(n, i) # {}
    <3>1. PICK k : k \in Copies(n, i)
      BY <2>10
    <3>2. Copies(n, i) = {k}
      BY <2>8, <3>1
    <3>3. Cardinality(Copies(n, i)) = 1
      BY <3>2, FS_Singleton
    <3> QED BY <2>7, <3>1, <3>3
  <2> QED BY <2>9, <2>10
<1> QED BY <1>1, RoutingInvHolds, PTL

-----------------------------------------------------------------------------
(* Fourth, while nothing disturbs the routing (`calm`), where a message of *)
(* a call that returned OK still has to get to.  Everybody names the same  *)
(* leader and no assignment is under way; what has been read fits, so that *)
(* the copy a leader makes of it can be encoded; a call under way goes to  *)
(* the leader its sender knew; envelopes are with the leader, and hold     *)
(* broadcasts; and whoever a message is addressed to has it, or is on its  *)
(* way, or an envelope with it is.                                         *)

Settled ==
  /\ \E l \in OptNode : \A n \in Node :
       es[n].leaderId = l /\ (Leads(n) <=> n = l)
  /\ \A n \in Node : forward[n]

Ordinary == Packet \ AssignPkt
Readable(n) == {a \in Arrival : /\ a.packet \in Ordinary
                                /\ CodecAccepts(a.packet, Limit[n])}
Unassigned ==
  /\ \A n, p \in Node, c \in Channels : out[n][p][c] \in Seq(Ordinary)
  /\ \A n \in Node : inbox[n] \in Seq(Readable(n))
  /\ \A n \in Node : relaying[n] # Idle => CodecAccepts(relaying[n].packet, Limit[n])

Aimed ==
  \A n \in Node : routing[n] # Idle =>
    /\ sent[routing[n].id].leader = es[n].leaderId
    /\ sent[routing[n].id].target.to =
         IF routing[n].how = "forward" THEN "Broadcast" ELSE "ToLeader"

Addressed ==
  \A q \in Node, i \in Id :
    FwdAt(q, i) => Leads(q) /\ sent[i].target.to = "Broadcast"

Found(p, i) == At(p, i) \/ \E q \in Node : FwdAt(q, i)
AddressedTo(p, i) == Hears(p, sent[i].from, sent[i].target, sent[i].leader)
Reached ==
  \A i \in 1 .. Len(sent), p \in Node :
    result[i] = "OK" /\ AddressedTo(p, i) => Found(p, i)

Steady == Settled /\ Unassigned /\ Aimed /\ Addressed /\ Reached
ReachInv == calm => Steady

LEMMA ReachInit == Init => ReachInv
<1>1. SUFFICES ASSUME Init PROVE Steady
  BY DEF ReachInv
<1>2. PlaceInv
  BY <1>1, PlaceInit
<1>3. Settled
  <2>1. PICK l \in OptNode : es = [n \in Node |-> InitElection(n, l)]
    BY <1>1 DEF Init
  <2>2. ASSUME NEW n \in Node
        PROVE  es[n].leaderId = l /\ (Leads(n) <=> n = l)
    <3>1. es[n] = InitElection(n, l)
      BY <2>1
    <3>2. NewElection(TRUE).role = "Follower" /\ NewElection(TRUE).leaderId = None
      BY DEF NewElection
    <3>3. CASE l = None
      BY <3>1, <3>2, <3>3, NoneAssumption DEF InitElection, Leads
    <3>4. CASE l # None
      <4>1. /\ HandleLeaderAssign(NewElection(TRUE), n, 1, l).leaderId = l
            /\ HandleLeaderAssign(NewElection(TRUE), n, 1, l).role =
                 IF l = n THEN "Leader" ELSE "Follower"
        BY DEF HandleLeaderAssign, Assigned, NewElection
      <4> QED BY <3>1, <3>4, <4>1 DEF InitElection, Leads
    <3> QED BY <3>3, <3>4
  <2>3. \A n \in Node : forward[n]
    BY <1>1 DEF Init
  <2> QED BY <2>2, <2>3 DEF Settled
<1>4. Unassigned
  BY <1>1 DEF Init, Unassigned
<1>5. Aimed
  BY <1>1 DEF Init, Aimed
<1>6. Addressed
  <2>1. SUFFICES ASSUME NEW q \in Node, NEW i \in Id PROVE ~FwdAt(q, i)
    BY DEF Addressed
  <2>2. \A n \in Node, c \in Channels : out[n][q][c] = <<>>
    BY <1>1 DEF Init
  <2>3. inbox[q] = <<>> /\ relaying[q].id = 0
    BY <1>1 DEF Init, Idle
  <2> QED BY <2>2, <2>3, EmptyIds DEF FwdAt, FwdOutAt, FwdInAt, RelAt, Id
<1>7. Reached
  BY <1>1 DEF Init, Reached
<1> QED BY <1>3, <1>4, <1>5, <1>6, <1>7 DEF Steady

\* Packets that are no assignments were added to some queues.
LEMMA EnqueueOrdinary ==
  ASSUME BaseInv, Unassigned, NEW n \in Node, NEW P \in SUBSET Node,
         NEW pk \in Ordinary, Enqueue(n, P, pk), UNCHANGED conn,
         \A p \in P : conn[n][p] # {}
  PROVE  \A m, p \in Node, c \in Channels : out'[m][p][c] \in Seq(Ordinary)
<1>1. SUFFICES ASSUME NEW m \in Node, NEW p \in Node, NEW c \in Channels
               PROVE  out'[m][p][c] \in Seq(Ordinary)
  OBVIOUS
<1>2. pk \in Packet
  BY DEF Ordinary
<1>3. Appended(n, P, pk)
  BY <1>2, EnqueueEffect DEF BaseInv, ShapeInv
<1>4. PICK s \in Seq(Ordinary) : s = out[m][p][c]
  BY DEF Unassigned
<1>5. Append(s, pk) \in Seq(Ordinary)
  BY AppendProperties
<1> QED BY <1>3, <1>4, <1>5 DEF Appended

\* Users' packets and envelopes are no assignments.
LEMMA OrdinaryKinds ==
  ASSUME NEW pk \in UserPkt \cup FwdPkt
  PROVE  pk \in Ordinary /\ (pk \in FwdPkt => pk \notin UserPkt)
<1>1. pk \in Packet
  BY DEF Packet
<1>2. pk \in UserPkt => ~IsInternal(pk.type)
  BY <1>1, PacketKinds
<1>3. pk \in FwdPkt => pk.kind = "forwarded" /\ IsInternal(pk.type)
  BY <1>1, PacketKinds DEF Forwards
<1>4. pk \in AssignPkt => pk.kind = "assign" /\ IsInternal(pk.type)
  BY <1>1, PacketKinds DEF Assigns
<1> QED BY <1>1, <1>2, <1>3, <1>4 DEF Ordinary

\* A step that moves messages without losing one.
LEMMA KeptSteady ==
  ASSUME BaseInv, Steady, Kept,
         UNCHANGED <<es, forward, routing, sent, result>>
  PROVE  Settled' /\ Aimed' /\ Addressed' /\ Reached'
<1>1. History
  BY DEF BaseInv, ShapeInv
<1>2. Settled'
  BY DEF Steady, Settled, Leads
<1>3. Aimed'
  BY DEF Steady, Aimed
<1>4. Addressed'
  BY DEF Steady, Addressed, Kept, Leads
<1>5. ASSUME NEW i \in 1 .. Len(sent), NEW p \in Node, Found(p, i)
      PROVE  Found(p, i)'
  <2>1. i \in Id
    BY <1>1 DEF History, Id
  <2> QED BY <1>5, <2>1 DEF Found, Kept
<1>6. Reached'
  BY <1>5 DEF Steady, Reached, AddressedTo
<1> QED BY <1>2, <1>3, <1>4, <1>6

\* The settings that do not disturb, and stuttering.
LEMMA QuietReach ==
  ASSUME BaseInv, Steady,
         UNCHANGED <<es, forward, out, inbox, routing, relaying, sent, result, got>>
  PROVE  Steady'
<1>1. Kept
  BY DEF Kept, At, FwdAt, OutAt, InAt, GotAt, RelAt, FwdOutAt, FwdInAt
<1>2. Unassigned'
  BY DEF Steady, Unassigned
<1> QED BY <1>1, <1>2, KeptSteady DEF Steady

LEMMA ReadReach ==
  ASSUME BaseInv, PlaceInv, ReachInv, NEW n \in Node, NEW p \in Node,
         NEW c \in Channels, Read(n, p, c), calm'
  PROVE  Steady'
<1>1. PICK pk : pk = Head(out[p][n][c])
  OBVIOUS
<1>2. /\ out[p][n][c] # <<>>
      /\ UNCHANGED <<es, forward, routing, relaying, sent, result>>
  BY DEF Read, SettingsUnchanged
<1>3. /\ CodecAccepts(pk, Limit[n])
      /\ inbox' = [inbox EXCEPT ![n] = Append(@, [peer |-> p, packet |-> pk])]
      /\ out' = [out EXCEPT ![p][n][c] = Tail(@)]
      /\ UNCHANGED <<conn, calm>>
  BY <1>1 DEF Read, Cut
<1>4. Steady
  BY <1>3 DEF ReachInv
<1>5. Kept
  BY ReadPlace
<1>6. Shapes /\ Unassigned
  BY <1>4 DEF BaseInv, ShapeInv, Steady
<1>7. PICK s \in Seq(Ordinary) : s = out[p][n][c]
  BY <1>6 DEF Unassigned
<1>8. pk \in Ordinary /\ Tail(s) \in Seq(Ordinary)
  BY <1>1, <1>2, <1>7, HeadTailProperties
<1>9. PICK a : a = [peer |-> p, packet |-> pk]
  OBVIOUS
<1>10. a \in Readable(n)
  <2>1. a.packet = pk /\ a \in Arrival
    BY <1>8, <1>9 DEF Arrival, Ordinary
  <2> QED BY <1>3, <1>8, <2>1 DEF Readable
<1>11. ASSUME NEW m \in Node PROVE inbox'[m] \in Seq(Readable(m))
  <2>1. inbox[m] \in Seq(Readable(m))
    BY <1>6 DEF Unassigned
  <2>2. inbox'[m] = IF m = n THEN Append(inbox[m], a) ELSE inbox[m]
    BY <1>3, <1>6, <1>9 DEF Shapes
  <2>3. CASE m = n
    BY <1>10, <2>1, <2>2, <2>3, AppendProperties
  <2>4. CASE m # n
    BY <2>1, <2>2, <2>4
  <2> QED BY <2>3, <2>4
<1>12. ASSUME NEW m \in Node, NEW q \in Node, NEW d \in Channels
       PROVE  out'[m][q][d] \in Seq(Ordinary)
  <2>1. Dequeued(n, p, c)
    BY <1>2, <1>3, <1>6, DequeueEffect
  <2>2. out[m][q][d] \in Seq(Ordinary)
    BY <1>6 DEF Unassigned
  <2>3. CASE m = p /\ q = n /\ d = c
    BY <1>7, <1>8, <2>1, <2>3 DEF Dequeued
  <2>4. CASE ~(m = p /\ q = n /\ d = c)
    BY <2>1, <2>2, <2>4 DEF Dequeued
  <2> QED BY <2>3, <2>4
<1>13. Unassigned'
  BY <1>2, <1>6, <1>11, <1>12 DEF Unassigned
<1> QED BY <1>2, <1>4, <1>5, <1>13, KeptSteady DEF Steady

\* What the handler takes was read here, and is no assignment.
LEMMA TakeReadable ==
  ASSUME Unassigned, Shapes, NEW n \in Node, inbox[n] # <<>>,
         inbox' = [inbox EXCEPT ![n] = Tail(@)]
  PROVE  /\ Received(n).packet \in Ordinary
         /\ CodecAccepts(Received(n).packet, Limit[n])
         /\ \A m \in Node : inbox'[m] \in Seq(Readable(m))
<1>1. PICK b \in Seq(Readable(n)) : b = inbox[n]
  BY DEF Unassigned
<1>2. Head(b) \in Readable(n) /\ Tail(b) \in Seq(Readable(n))
  BY <1>1, HeadTailProperties
<1>3. \A m \in Node : inbox'[m] = IF m = n THEN Tail(b) ELSE inbox[m]
  BY <1>1 DEF Shapes
<1>4. \A m \in Node : inbox'[m] \in Seq(Readable(m))
  BY <1>2, <1>3 DEF Unassigned
<1> QED BY <1>1, <1>2, <1>4 DEF Received, Readable

\* The handler delivers a user's packet, and hands an envelope to its relay: no
\* other node than the leader gets one.
LEMMA HandlerReach ==
  ASSUME BaseInv, PlaceInv, Steady, NEW n \in Node,
         OnUser(n) \/ OnForwarded(n) \/ OnAssign(n)
  PROVE  Steady'
<1>1. PICK a : a = Received(n)
  OBVIOUS
<1>2. /\ Takes(n) /\ inbox[n] # <<>> /\ UNCHANGED out
      /\ inbox' = [inbox EXCEPT ![n] = Tail(@)]
  BY DEF OnUser, OnForwarded, OnAssign, Takes
<1>3. Shapes /\ Unassigned /\ Contents
  BY DEF BaseInv, ShapeInv, ContentInv, Steady
<1>4. /\ a.packet \in Ordinary /\ CodecAccepts(a.packet, Limit[n])
      /\ \A m \in Node : inbox'[m] \in Seq(Readable(m))
  BY <1>1, <1>2, <1>3, TakeReadable
<1>5. PICK j \in Nat : Taken(n, a, j)
  BY <1>1, <1>2, TakenPlace
<1>6. a \in [peer : Node, packet : Good] /\ j = a.packet.pay.id
  BY <1>1, <1>2, <1>3, <1>5, TakeBase DEF Taken
<1>7. \A m, p \in Node, c \in Channels : out'[m][p][c] \in Seq(Ordinary)
  BY <1>2, <1>3 DEF Unassigned
<1>8. ~OnAssign(n)
  <2>1. a.packet \in Packet /\ a.packet \notin AssignPkt
    BY <1>4 DEF Ordinary
  <2> QED BY <1>1, <2>1, PacketKinds DEF OnAssign
<1>9. CASE OnUser(n)
  <2>1. /\ ~IsInternal(a.packet.type)
        /\ UNCHANGED <<es, forward, routing, relaying, sent, result>>
    BY <1>1, <1>9 DEF OnUser, SettingsUnchanged
  <2>2. a.packet \in GoodUser /\ a.peer \in Node
    BY <1>6, <2>1, GoodKinds
  <2>3. a.packet \in UserPkt /\ a.packet \notin FwdPkt
    BY <2>2, OrdinaryKinds DEF GoodUser
  <2>4. Decodes(a.packet)
    BY <2>2 DEF GoodUser, Decodes, WasCompressed
  <2>5. PICK g : g = [peer |-> a.peer, id |-> DecodePayload(a.packet).id,
                      type |-> a.packet.type, flags |-> a.packet.flags,
                      size |-> DecodePayload(a.packet).size]
    OBVIOUS
  <2>6. g \in Receipt /\ g.id = j
    <3>1. g \in GoodReceipt /\ DecodePayload(a.packet).id = a.packet.pay.id
      BY <2>2, <2>5, GoodDelivery
    <3> QED BY <1>6, <2>5, <3>1 DEF GoodReceipt
  <2>7. got' = [got EXCEPT ![n] = Append(@, g)]
    BY <1>1, <1>9, <2>4, <2>5 DEF OnUser, Deliver
  <2>8. Kept
    BY <1>1, <1>2, <1>5, <2>1, <2>3, <2>6, <2>7, TakeKept
  <2>9. Unassigned'
    BY <1>3, <1>4, <1>7, <2>1 DEF Unassigned
  <2> QED BY <2>1, <2>8, <2>9, KeptSteady DEF Steady
<1>10. CASE OnForwarded(n)
  <2>1. /\ Forwards(a.packet)
        /\ UNCHANGED <<es, forward, routing, sent, result>>
    BY <1>1, <1>10 DEF OnForwarded, SettingsUnchanged
  <2>2. a.packet \in GoodForward /\ a.packet \in FwdPkt
    BY <1>6, <2>1, GoodKinds DEF GoodForward
  <2>3. j \in Id
    BY <1>6, <2>2 DEF GoodForward, Genuine, Id
  <2>4. FwdAt(n, j)
    BY <1>5, <2>2 DEF Taken, FwdAt
  <2>5. Leads(n) /\ forward[n]
    BY <2>3, <2>4 DEF Steady, Addressed, Settled
  <2>6. PICK r : r = [id |-> a.packet.pay.id, packet |-> a.packet]
    OBVIOUS
  <2>7. relaying' = [relaying EXCEPT ![n] = r] /\ UNCHANGED got
    BY <1>1, <1>10, <2>5, <2>6 DEF OnForwarded
  <2>8. r.id = j /\ r.packet = a.packet
    BY <1>6, <2>6
  <2>9. Kept
    BY <1>1, <1>2, <1>5, <2>2, <2>7, <2>8, TakeKept
  <2>10. \A m \in Node : relaying'[m] = IF m = n THEN r ELSE relaying[m]
    BY <1>3, <2>7 DEF Contents
  <2>11. ASSUME NEW m \in Node, relaying'[m] # Idle
         PROVE  CodecAccepts(relaying'[m].packet, Limit[m])
    <3>1. CASE m = n
      BY <1>4, <2>8, <2>10, <3>1
    <3>2. CASE m # n
      BY <1>3, <2>10, <2>11, <3>2 DEF Unassigned
    <3> QED BY <3>1, <3>2
  <2>12. Unassigned'
    BY <1>4, <1>7, <2>11 DEF Unassigned
  <2> QED BY <2>1, <2>9, <2>12, KeptSteady DEF Steady
<1> QED BY <1>8, <1>9, <1>10

\* What was read in its envelope is short enough to be sent without.
LEMMA CopyEncodable ==
  ASSUME States, History, Contents, NEW n \in Node, relaying[n] # Idle,
         CodecAccepts(relaying[n].packet, Limit[n])
  PROVE  Encodable(Copy(n), Limit[n])
<1>1. PICK env : env = relaying[n].packet
  OBVIOUS
<1>2. PICK pk : pk = Copy(n)
  OBVIOUS
<1>3. env \in GoodForward
  BY <1>1, CopyGood
<1>4. /\ env.type = 0 /\ env.pay \in Pay /\ env.pay.size = env.pay.raw
      /\ env.original \in Nat /\ env.originalFlags \in Flags
      /\ ~IsInternal(env.original)
  BY <1>3 DEF GoodForward, FwdPkt
<1>5. EncodesAs(pk, env.original, env.originalFlags, env.pay)
  BY <1>1, <1>2, <1>4, EncodeEffect DEF Copy, States
<1>6. pk.type = env.original /\ pk.pay.raw = env.pay.raw
  BY <1>5 DEF EncodesAs
<1>7. IsInternal(env.type)
  BY <1>4, PacketAssumption DEF IsInternal
<1>8. ~(env.pay.size + Envelope > Limit[n])
  BY <1>1, <1>7 DEF CodecAccepts, WireSize, TooLarge
<1>9. env.pay.raw \in Nat /\ Envelope \in Nat /\ Limit[n] \in Nat
  BY <1>4, PacketAssumption, RoutingAssumption DEF Pay
<1>10. ~(pk.pay.raw > Limit[n])
  BY <1>4, <1>6, <1>8, <1>9
<1> QED BY <1>2, <1>4, <1>6, <1>10 DEF Encodable, TooLarge

\* The leader relays to everybody but the sender, and delivers here.
LEMMA RelayReach ==
  ASSUME BaseInv, PlaceInv, ReachInv, NEW n \in Node, Relay(n), calm'
  PROVE  Steady'
<1>1. States /\ History /\ Contents /\ Shapes /\ Connections
  BY DEF BaseInv, ShapeInv, ContentInv
<1>2. /\ relaying[n] # Idle /\ relaying' = [relaying EXCEPT ![n] = Idle]
      /\ UNCHANGED <<es, forward, conn, inbox, routing, sent, result>>
  BY RelayForms
<1>3. PICK P \in SUBSET Node : \E pk :
         Relayed(n, P, pk) /\ RelaySpread(n, relaying[n].id, P)
  BY RelayPlace
<1>4. PICK pk : Relayed(n, P, pk)
  BY <1>3
<1>5. Steady
  BY <1>4 DEF Relayed, ReachInv
<1>6. PICK env : env = relaying[n].packet
  OBVIOUS
<1>7. env \in GoodForward /\ relaying[n].id = env.pay.id /\ pk \in UserPkt
  BY <1>1, <1>2, <1>4, <1>6, CopyGood DEF Relayed, GoodUser
<1>8. PICK j \in Id : /\ j = relaying[n].id /\ j \in 1 .. Len(sent)
                      /\ env.from = sent[j].from
  BY <1>1, <1>7 DEF GoodForward, Genuine, Id, History
<1>9. Leads(n) /\ sent[j].target.to = "Broadcast"
  <2>1. FwdAt(n, j)
    BY <1>8 DEF FwdAt, RelAt
  <2> QED BY <1>5, <2>1 DEF Steady, Addressed
<1>10. P = Node \ {sent[j].from, n}
  <2>1. CodecAccepts(env, Limit[n])
    BY <1>2, <1>5, <1>6 DEF Steady, Unassigned
  <2>2. Encodable(pk, Limit[n])
    BY <1>1, <1>2, <1>4, <1>6, <2>1, CopyEncodable DEF Relayed
  <2>3. P = Node \ (Excluded(env) \cup {n})
    BY <1>4, <1>6, <1>9, <2>2 DEF Relayed
  <2> QED BY <1>8, <2>3 DEF Excluded
<1>11. RelaySpread(n, j, P)
  BY <1>3, <1>8
<1>12. Settled' /\ Aimed'
  BY <1>2, <1>5 DEF Steady, Settled, Aimed, Leads
<1>13. Addressed'
  BY <1>2, <1>5, <1>11 DEF Steady, Addressed, RelaySpread, Leads
<1>14. Reached'
  <2>1. SUFFICES ASSUME NEW i \in 1 .. Len(sent), NEW p \in Node,
                        result[i] = "OK", AddressedTo(p, i)
                 PROVE  Found(p, i)'
    BY <1>2 DEF Reached, AddressedTo
  <2>2. i \in Id /\ Found(p, i)
    BY <1>1, <1>5, <2>1 DEF History, Id, Steady, Reached
  <2>3. CASE i # j
    BY <1>11, <2>2, <2>3 DEF Found, RelaySpread
  <2>4. CASE i = j
    <3>1. p # sent[j].from
      BY <1>9, <2>1, <2>4 DEF AddressedTo, Hears
    <3>2. p = n \/ p \in P
      BY <1>10, <3>1
    <3> QED BY <1>11, <2>2, <2>4, <3>2 DEF Found, RelaySpread
  <2> QED BY <2>3, <2>4
<1>15. \A m, p \in Node, c \in Channels : out'[m][p][c] \in Seq(Ordinary)
  <2>1. pk \in Ordinary
    BY <1>7, OrdinaryKinds
  <2> QED BY <1>2, <1>4, <1>5, <2>1, EnqueueOrdinary DEF Relayed, Steady
<1>16. \A m \in Node : relaying'[m] = IF m = n THEN Idle ELSE relaying[m]
  BY <1>1, <1>2 DEF Contents
<1>17. Unassigned'
  BY <1>2, <1>5, <1>15, <1>16 DEF Unassigned, Steady
<1> QED BY <1>12, <1>13, <1>14, <1>17 DEF Steady

\* The router sends to the leader the caller knew, who leads: a message for the
\* leader arrives there, and a broadcast in its envelope will be relayed.
LEMMA RouteReach ==
  ASSUME BaseInv, PlaceInv, Steady, NEW n \in Node, FinishRoute(n)
  PROVE  Steady'
<1>1. History /\ Routes
  BY DEF BaseInv, ShapeInv, ContentInv
<1>2. /\ routing[n] # Idle /\ routing' = [routing EXCEPT ![n] = Idle]
      /\ UNCHANGED <<es, forward, conn, inbox, relaying, sent, got>>
  BY RouteForms
<1>3. PICK code \in Code, P \in SUBSET Node :
        \E pk : Routed(n, routing[n].id, code, P, pk)
  BY RouteForms
<1>4. PICK pk : Routed(n, routing[n].id, code, P, pk)
  BY <1>3
<1>5. PICK r \in Route : r = routing[n]
  BY <1>1, <1>2 DEF Routes
<1>6. Pending(n, r)
  BY <1>1, <1>2, <1>5 DEF Routes
<1>7. /\ r.id \in 1 .. Len(sent) /\ r.id \in Id /\ r.data.raw >= 0
      /\ ~IsInternal(r.data.type) /\ r.data \in Data /\ r.id \in Nat
  BY <1>1, <1>6 DEF Pending, History, Id, Route
<1>8. Spread(P, pk) /\ pk.pay.id = r.id
  BY <1>2, <1>4, <1>5, RoutedPlace, RoutedGood
<1>9. /\ r.how = "forward" => pk \in FwdPkt
      /\ r.how # "forward" => pk \in UserPkt /\ pk \notin FwdPkt
  <2>1. CASE r.how = "forward"
    <3>1. pk = Forwarded(n, r)
      BY <1>4, <1>5, <2>1 DEF Routed
    <3> QED BY <1>7, <2>1, <3>1, ForwardedEffect DEF EnvelopeAs
  <2>2. CASE r.how # "forward"
    <3>1. pk = UserPacket(n, r.id, r.data)
      BY <1>4, <1>5, <2>2 DEF Routed
    <3>2. pk \in UserPkt
      BY <1>7, <3>1, UserPacketEffect DEF MessageAs, BaseInv, ShapeInv
    <3> QED BY <2>2, <3>2, OrdinaryKinds
  <2> QED BY <2>1, <2>2
<1>10. /\ P # {} => code = "OK"
       /\ code = "OK" => P = {es[n].leaderId} /\ es[n].leaderId \in Node
  BY <1>4 DEF Routed
<1>11. /\ sent[r.id].leader = es[n].leaderId
       /\ r.how = "forward" => sent[r.id].target.to = "Broadcast"
       /\ r.how # "forward" => sent[r.id].target.to = "ToLeader"
  BY <1>2, <1>5 DEF Steady, Aimed
<1>12. /\ result'[r.id] = code
       /\ \A i \in 1 .. Len(sent) : i # r.id => result'[i] = result[i]
  BY <1>1, <1>2, <1>4, <1>5, RoutedHistory
<1>13. Settled'
  BY <1>2 DEF Steady, Settled, Leads
<1>14. Aimed'
  <2>1. \A m \in Node : routing'[m] # Idle => routing'[m] = routing[m]
    BY <1>1, <1>2 DEF Routes
  <2> QED BY <1>2, <2>1 DEF Steady, Aimed
<1>15. Addressed'
  <2>1. SUFFICES ASSUME NEW q \in Node, NEW i \in Id, FwdAt(q, i)'
                 PROVE  Leads(q) /\ sent[i].target.to = "Broadcast"
    BY <1>2 DEF Addressed, Leads
  <2>2. CASE FwdAt(q, i)
    BY <2>2 DEF Steady, Addressed
  <2>3. CASE q \in P /\ pk.pay.id = i /\ pk \in FwdPkt
    <3>1. r.how = "forward" /\ i = r.id /\ q = es[n].leaderId
      BY <1>8, <1>9, <1>10, <2>3
    <3>2. Leads(q)
      BY <3>1 DEF Steady, Settled
    <3> QED BY <1>11, <3>1, <3>2
  <2> QED BY <1>8, <2>1, <2>2, <2>3 DEF Spread
<1>16. Reached'
  <2>1. SUFFICES ASSUME NEW i \in 1 .. Len(sent), NEW p \in Node,
                        result'[i] = "OK", AddressedTo(p, i)
                 PROVE  Found(p, i)'
    BY <1>2 DEF Reached, AddressedTo
  <2>2. i \in Id
    BY <1>1 DEF History, Id
  <2>3. CASE i # r.id
    <3>1. Found(p, i)
      BY <1>12, <2>1, <2>3 DEF Steady, Reached
    <3> QED BY <1>8, <2>2, <3>1 DEF Found, Spread
  <2>4. CASE i = r.id /\ r.how = "forward"
    <3>1. PICK l \in Node : l \in P
      BY <1>10, <1>12, <2>1, <2>4
    <3>2. FwdAt(l, i)'
      BY <1>8, <1>9, <2>2, <2>4, <3>1 DEF Spread
    <3> QED BY <3>2 DEF Found
  <2>5. CASE i = r.id /\ r.how # "forward"
    <3>1. p = es[n].leaderId
      BY <1>11, <2>1, <2>5 DEF AddressedTo, Hears, Everyone
    <3>2. p \in P
      BY <1>10, <1>12, <2>1, <2>5, <3>1
    <3> QED BY <1>8, <2>2, <2>5, <3>2 DEF Found, Spread
  <2> QED BY <2>3, <2>4, <2>5
<1>17. \A m, p \in Node, c \in Channels : out'[m][p][c] \in Seq(Ordinary)
  <2>1. pk \in Ordinary
    BY <1>9, OrdinaryKinds
  <2> QED BY <1>2, <1>4, <2>1, EnqueueOrdinary DEF Routed, Steady
<1>18. Unassigned'
  BY <1>2, <1>17 DEF Steady, Unassigned
<1> QED BY <1>13, <1>14, <1>15, <1>16, <1>18 DEF Steady

\* A call that returns at once has queued its message for everybody it is
\* addressed to, or was addressed to nobody.
LEMMA CalledReach ==
  ASSUME BaseInv, Steady, NEW n \in Node, NEW m \in Data, NEW t \in Target,
         NEW r \in Code, Len(sent) < MaxSends, Submit(n, m, t, r), Kept,
         NEW id \in Id, id = Len(sent) + 1,
         r = "OK" => \A p \in Node : Hears(p, n, t, es[n].leaderId) => At(p, id)'
  PROVE  Settled' /\ Addressed' /\ Reached'
<1>1. States /\ History
  BY DEF BaseInv, ShapeInv
<1>2. /\ Len(sent') = id /\ Len(sent) \in Nat
      /\ sent'[id].from = n /\ sent'[id].target = t
      /\ sent'[id].leader = es[n].leaderId /\ result'[id] = r
      /\ \A i \in 1 .. Len(sent) : sent'[i] = sent[i] /\ result'[i] = result[i]
  BY <1>1, SubmitEffect
<1>3. UNCHANGED <<es, forward>>
  BY DEF Submit, SettingsUnchanged
<1>4. Settled'
  BY <1>3 DEF Steady, Settled, Leads
<1>5. Addressed'
  <2>1. SUFFICES ASSUME NEW q \in Node, NEW i \in Id, FwdAt(q, i)
                 PROVE  Leads(q) /\ sent'[i].target.to = "Broadcast"
    BY <1>3 DEF Addressed, Leads, Kept
  <2>2. i \in 1 .. Len(sent)
    <3>1. At(q, i)
      BY <2>1, FwdIsAt DEF BaseInv, ShapeInv
    <3> QED BY <3>1, AtGenuine
  <2> QED BY <1>2, <2>1, <2>2 DEF Steady, Addressed
<1>6. Reached'
  <2>1. SUFFICES ASSUME NEW i \in 1 .. Len(sent'), NEW p \in Node,
                        result'[i] = "OK", AddressedTo(p, i)'
                 PROVE  Found(p, i)'
    BY DEF Reached
  <2>2. CASE i = id
    <3>1. Hears(p, n, t, es[n].leaderId) /\ r = "OK"
      BY <1>2, <2>1, <2>2 DEF AddressedTo
    <3> QED BY <2>2, <3>1 DEF Found
  <2>3. CASE i # id
    <3>1. i \in 1 .. Len(sent) /\ i \in Id
      BY <1>2, <2>1, <2>3 DEF Id
    <3>2. AddressedTo(p, i) /\ result[i] = "OK"
      BY <1>2, <2>1, <3>1 DEF AddressedTo
    <3>3. Found(p, i)
      BY <3>1, <3>2 DEF Steady, Reached
    <3> QED BY <3>1, <3>3 DEF Found, Kept
  <2> QED BY <2>2, <2>3
<1> QED BY <1>4, <1>5, <1>6

\* The calls under way are aimed as they were, whatever call is added.
LEMMA AimedKeep ==
  ASSUME BaseInv, Aimed, NEW n \in Node, NEW m \in Data, NEW t \in Target,
         NEW r \in Code, Len(sent) < MaxSends, Submit(n, m, t, r)
  PROVE  \A p \in Node : routing[p] # Idle =>
           /\ sent'[routing[p].id].leader = es'[p].leaderId
           /\ sent'[routing[p].id].target.to =
                IF routing[p].how = "forward" THEN "Broadcast" ELSE "ToLeader"
<1>1. SUFFICES ASSUME NEW p \in Node, routing[p] # Idle
               PROVE  sent'[routing[p].id] = sent[routing[p].id] /\ es' = es
  BY DEF Aimed
<1>2. routing[p].id \in 1 .. Len(sent)
  BY <1>1 DEF BaseInv, ContentInv, Routes, Pending
<1>3. \A i \in 1 .. Len(sent) : sent'[i] = sent[i]
  BY SubmitEffect DEF BaseInv, ShapeInv
<1> QED BY <1>2, <1>3 DEF Submit

LEMMA CallReach ==
  ASSUME BaseInv, PlaceInv, ReachInv, NEW n \in Node, CallStep(n), calm'
  PROVE  Steady'
<1>1. States /\ Connections /\ History /\ Routes
  BY DEF BaseInv, ShapeInv, ContentInv
<1>2. Len(sent) < MaxSends
  BY <1>1, CallForms
<1>3. PICK id \in Id : id = Len(sent) + 1
  BY <1>1 DEF History, Id
<1>4. PICK m \in Data, t \in Target :
        \/ \E r \in Code \ {"pending"} : Refuses(n, m, t, r)
        \/ /\ ValidMessage(n, m)
           /\ \E how \in {"forward", "direct"} : Pauses(n, m, t, how)
        \/ /\ ValidMessage(n, m)
           /\ \E r \in Code, P \in SUBSET Node : Sends(n, m, t, r, P)
  BY <1>1, CallForms
<1>5. ASSUME NEW r \in Code, Submit(n, m, t, r), UNCHANGED out
      PROVE  (Steady => Unassigned') /\ Kept
  <2>1. UNCHANGED <<out, inbox, got, relaying>>
    BY <1>5 DEF Submit
  <2>2. Steady => Unassigned'
    BY <2>1 DEF Steady, Unassigned
  <2>3. Kept
    BY <2>1 DEF Kept, At, FwdAt, OutAt, InAt, GotAt, RelAt, FwdOutAt, FwdInAt
  <2> QED BY <2>2, <2>3
<1>6. CASE \E r \in Code \ {"pending"} : Refuses(n, m, t, r)
  <2>1. PICK r \in Code : Refuses(n, m, t, r)
    BY <1>6
  <2>2. /\ Submit(n, m, t, r) /\ UNCHANGED <<out, routing, calm>>
        /\ r = "OK" => t.to = "ToLeader" /\ Leads(n)
    BY <2>1 DEF Refuses, Refuse
  <2>3. Steady
    BY <2>2 DEF ReachInv
  <2>4. r = "OK" => \A p \in Node : ~Hears(p, n, t, es[n].leaderId)
    <3>1. Leads(n) => es[n].leaderId = n
      BY <2>3 DEF Steady, Settled
    <3> QED BY <2>2, <3>1 DEF Hears, Everyone
  <2>5. Settled' /\ Addressed' /\ Reached'
    BY <1>2, <1>3, <1>5, <2>2, <2>3, <2>4, CalledReach
  <2>6. Aimed'
    BY <1>2, <2>2, <2>3, AimedKeep DEF Aimed, Steady
  <2> QED BY <1>5, <2>2, <2>3, <2>5, <2>6 DEF Steady
<1>7. CASE \E how \in {"forward", "direct"} : Pauses(n, m, t, how)
  <2>1. PICK how \in {"forward", "direct"} : Pauses(n, m, t, how)
    BY <1>7
  <2>2. /\ Submit(n, m, t, "pending") /\ UNCHANGED <<out, calm>>
        /\ routing' = [routing EXCEPT ![n] =
                         [id |-> Len(sent) + 1, how |-> how, data |-> m]]
        /\ t.to = IF how = "forward" THEN "Broadcast" ELSE "ToLeader"
    BY <2>1 DEF Pauses, Pause
  <2>3. Steady /\ "pending" \in Code
    BY <2>2 DEF ReachInv, Code
  <2>4. Settled' /\ Addressed' /\ Reached'
    BY <1>2, <1>3, <1>5, <2>2, <2>3, CalledReach
  <2>5. PICK x : x = [id |-> Len(sent) + 1, how |-> how, data |-> m]
    OBVIOUS
  <2>6. /\ \A p \in Node : routing'[p] = IF p = n THEN x ELSE routing[p]
        /\ x.id = Len(sent) + 1 /\ x.how = how
    BY <1>1, <2>2, <2>5 DEF Routes
  <2>7. /\ sent'[x.id].leader = es'[n].leaderId
        /\ sent'[x.id].target.to = IF how = "forward" THEN "Broadcast" ELSE "ToLeader"
    <3>1. /\ sent'[Len(sent) + 1].target = t
          /\ sent'[Len(sent) + 1].leader = es[n].leaderId
      BY <1>1, <1>2, <2>2, <2>3, SubmitEffect
    <3>2. es' = es
      BY <2>2 DEF Submit
    <3> QED BY <2>2, <2>6, <3>1, <3>2
  <2>8. \A p \in Node : routing[p] # Idle =>
          /\ sent'[routing[p].id].leader = es'[p].leaderId
          /\ sent'[routing[p].id].target.to =
               IF routing[p].how = "forward" THEN "Broadcast" ELSE "ToLeader"
    BY <1>2, <2>2, <2>3, AimedKeep DEF Steady
  <2>9. Aimed'
    <3>1. SUFFICES ASSUME NEW p \in Node, routing'[p] # Idle
                   PROVE  /\ sent'[routing'[p].id].leader = es'[p].leaderId
                          /\ sent'[routing'[p].id].target.to =
                               IF routing'[p].how = "forward" THEN "Broadcast"
                               ELSE "ToLeader"
      BY DEF Aimed
    <3>2. CASE p = n
      BY <2>6, <2>7, <3>2
    <3>3. CASE p # n
      BY <2>6, <2>8, <3>1, <3>3
    <3> QED BY <3>2, <3>3
  <2> QED BY <1>5, <2>2, <2>3, <2>4, <2>9 DEF Steady
<1>8. CASE /\ ValidMessage(n, m)
           /\ \E r \in Code, P \in SUBSET Node : Sends(n, m, t, r, P)
  <2>1. PICK r \in Code, P \in SUBSET Node : Sends(n, m, t, r, P)
    BY <1>8
  <2>2. /\ Submit(n, m, t, r) /\ (\A p \in P : conn[n][p] # {}) /\ (calm' => calm)
        /\ UNCHANGED routing
        /\ r = "OK" => \A p \in Node : Hears(p, n, t, es[n].leaderId) => p \in P
    BY <2>1 DEF Sends
  <2>3. Steady
    BY <2>2 DEF ReachInv
  <2>4. PICK pk \in UserPkt : /\ pk.pay.id = Len(sent) + 1 /\ Spread(P, pk)
                              /\ Enqueue(n, P, pk)
    BY <1>2, <1>8, <2>1, SendsPlace
  <2>5. pk \in Ordinary /\ pk \notin FwdPkt
    BY OrdinaryKinds
  <2>6. Kept
    BY <2>4, <2>5 DEF Spread, Kept
  <2>7. \A p \in P : At(p, id)'
    BY <1>3, <2>4 DEF Spread
  <2>8. r = "OK" => \A p \in Node : Hears(p, n, t, es[n].leaderId) => At(p, id)'
    BY <2>2, <2>7
  <2>9. Settled' /\ Addressed' /\ Reached'
    BY <1>2, <1>3, <2>2, <2>3, <2>6, <2>8, CalledReach
  <2>10. UNCHANGED <<conn, inbox, relaying>>
    BY <2>2 DEF Submit
  <2>11. \A q, p \in Node, c \in Channels : out'[q][p][c] \in Seq(Ordinary)
    BY <2>2, <2>3, <2>4, <2>5, <2>10, EnqueueOrdinary DEF Steady
  <2>12. Unassigned'
    BY <2>3, <2>10, <2>11 DEF Steady, Unassigned
  <2>13. Aimed'
    BY <1>2, <2>2, <2>3, AimedKeep DEF Aimed, Steady
  <2> QED BY <2>9, <2>12, <2>13 DEF Steady
<1> QED BY <1>4, <1>6, <1>7, <1>8

LEMMA ReachStep ==
  ASSUME RoutingInv, ReachInv, [Next]_vars
  PROVE  ReachInv'
<1>1. SUFFICES ASSUME calm' PROVE Steady'
  BY DEF ReachInv
<1>2. BaseInv /\ PlaceInv
  BY DEF RoutingInv
<1>3. ASSUME UNCHANGED <<es, forward, out, inbox, routing, relaying, sent, result,
                         got, calm>>
      PROVE  Steady'
  <2>1. Steady
    BY <1>1, <1>3 DEF ReachInv
  <2> QED BY <1>2, <1>3, <2>1, QuietReach
<1>4. CASE UNCHANGED vars
  BY <1>3, <1>4 DEF vars
<1>5. CASE Next
  <2>1. PICK n \in Node : CallStep(n) \/ TaskStep(n) \/ ChangeStep(n)
    BY <1>5 DEF Next
  <2>2. CASE CallStep(n)
    BY <1>1, <1>2, <2>2, CallReach
  <2>3. CASE FinishRoute(n)
    <3>1. Steady
      BY <1>1, <2>3 DEF FinishRoute, ReachInv
    <3> QED BY <1>2, <2>3, <3>1, RouteReach
  <2>4. CASE OnUser(n) \/ OnForwarded(n) \/ OnAssign(n)
    <3>1. UNCHANGED calm
      BY <2>4 DEF OnUser, OnForwarded, OnAssign
    <3>2. Steady
      BY <1>1, <3>1 DEF ReachInv
    <3> QED BY <1>2, <2>4, <3>2, HandlerReach
  <2>5. CASE Relay(n)
    BY <1>1, <1>2, <2>5, RelayReach
  <2>6. CASE \E p \in Node, c \in Channels : Read(n, p, c)
    BY <1>1, <1>2, <2>6, ReadReach
  <2>7. CASE ChangeStep(n)
    <3>1. CASE SetCentralizedMode(n)
      BY <1>3, <3>1 DEF SetCentralizedMode, Toggle
    <3>2. CASE \E t \in Thresholds : SetCompressionThreshold(n, t)
      BY <1>3, <3>2 DEF SetCompressionThreshold, Toggle
    <3>3. CASE calm' = FALSE
      BY <1>1, <3>3
    <3> QED BY <2>7, <3>1, <3>2, <3>3 DEF ChangeStep, SetCentralizedAutoForward,
               CallSetLeader, VoteRequested, CutChannel, Cut
  <2> QED BY <2>1, <2>2, <2>3, <2>4, <2>5, <2>6, <2>7 DEF TaskStep, HandlerStep
<1> QED BY <1>4, <1>5

\* Whom a message is addressed to, in the words of the history.
LEMMA AudienceHears ==
  ASSUME History, NEW i \in 1 .. Len(sent), NEW p \in Audience(i)
  PROVE  p \in Node /\ AddressedTo(p, i)
<1>1. PICK x \in Sending : x = sent[i]
  BY ElementOfSeq DEF History
<1>2. /\ x.from \in Node /\ x.leader \in OptNode /\ x.target \in Target
  BY DEF Sending
<1>3. PICK t \in Target : t = x.target
  BY <1>2
<1>4. p \in CASE t.to \in Everyone -> Node \ {x.from}
              [] t.to = "ToPeer" -> {t.peer}
              [] t.to = "ToLeader" -> {x.leader} \ {x.from, None}
              [] t.to = "Forward" -> IF t.peer = None THEN Node \ {x.from, t.from}
                                     ELSE {t.peer}
  BY <1>1, <1>3 DEF Audience
<1>5. CASE t \in [to : Everyone \cup {"ToLeader"}]
  <2>1. t.to \in Everyone \/ t.to = "ToLeader"
    BY <1>5
  <2>2. CASE t.to \in Everyone
    BY <1>1, <1>3, <1>4, <2>2 DEF AddressedTo, Hears, Everyone
  <2>3. CASE t.to = "ToLeader"
    BY <1>1, <1>2, <1>3, <1>4, <2>3 DEF AddressedTo, Hears, Everyone, OptNode
  <2> QED BY <2>1, <2>2, <2>3
<1>6. CASE t \in [to : {"ToPeer"}, peer : Node]
  <2>1. t.to = "ToPeer" /\ t.peer \in Node
    BY <1>6
  <2> QED BY <1>1, <1>3, <1>4, <2>1 DEF AddressedTo, Hears, Everyone
<1>7. CASE t \in [to : {"Forward"}, from : Node, peer : OptNode]
  <2>1. t.to = "Forward" /\ t.peer \in OptNode
    BY <1>7
  <2> QED BY <1>1, <1>3, <1>4, <2>1 DEF AddressedTo, Hears, Everyone, OptNode
<1> QED BY <1>5, <1>6, <1>7 DEF Target

\* The places a message can be at, in the words of the model.
LEMMA FoundSomewhere ==
  ASSUME Shapes, NEW p \in Node, NEW i \in Id
  PROVE  /\ At(p, i) => Copies(p, i) # {} \/ OnTheWay(p, i)
         /\ FwdAt(p, i) => Enveloped(p, i)
<1>1. ASSUME NEW n \in Node, NEW c \in Channels
      PROVE  /\ OutAt(n, p, c, i) => Queued(n, p, i)
             /\ FwdOutAt(n, p, c, i) => Enveloped(p, i)
  <2>1. PICK s \in Seq(Packet) : s = out[n][p][c]
    BY DEF Shapes
  <2>2. DOMAIN s = 1 .. Len(s) /\ \A k \in 1 .. Len(s) : s[k] \in Packet
    BY LenProperties, ElementOfSeq
  <2>3. ASSUME OutAt(n, p, c, i) PROVE Queued(n, p, i)
    <3>1. PICK k \in 1 .. Len(s) : OutId[s[k]] = i
      BY <2>1, <2>3 DEF OutAt, Has
    <3>2. k \in DOMAIN s /\ s[k].pay.id = i
      BY <2>2, <3>1 DEF OutId
    <3> QED BY <2>1, <3>2 DEF Queued
  <2>4. ASSUME FwdOutAt(n, p, c, i) PROVE Enveloped(p, i)
    <3>1. PICK k \in 1 .. Len(s) : OutFwd[s[k]] = i
      BY <2>1, <2>4 DEF FwdOutAt, Has
    <3>2. k \in DOMAIN s /\ s[k] \in Packet
      BY <2>2
    <3>3. s[k] \in FwdPkt /\ s[k].pay.id = i
      BY <3>1, <3>2 DEF OutFwd, Id
    <3>4. Forwards(s[k])
      BY <3>2, <3>3, PacketKinds
    <3> QED BY <2>1, <3>2, <3>3, <3>4 DEF Enveloped
  <2> QED BY <2>3, <2>4
<1>2. PICK b \in Seq(Arrival) : b = inbox[p]
  BY DEF Shapes
<1>3. DOMAIN b = 1 .. Len(b) /\ \A k \in 1 .. Len(b) : b[k] \in Arrival
  BY LenProperties, ElementOfSeq
<1>4. ASSUME InAt(p, i) PROVE OnTheWay(p, i)
  <2>1. PICK k \in 1 .. Len(b) : InId[b[k]] = i
    BY <1>2, <1>4 DEF InAt, Has
  <2>2. k \in DOMAIN b /\ b[k].packet.pay.id = i
    BY <1>3, <2>1 DEF InId
  <2> QED BY <1>2, <2>2 DEF OnTheWay
<1>5. ASSUME FwdInAt(p, i) PROVE Enveloped(p, i)
  <2>1. PICK k \in 1 .. Len(b) : InFwd[b[k]] = i
    BY <1>2, <1>5 DEF FwdInAt, Has
  <2>2. k \in DOMAIN b /\ b[k] \in Arrival /\ b[k].packet \in Packet
    BY <1>3 DEF Arrival
  <2>3. b[k].packet \in FwdPkt /\ b[k].packet.pay.id = i
    BY <2>1, <2>2 DEF InFwd, Id
  <2>4. Forwards(b[k].packet)
    BY <2>2, <2>3, PacketKinds
  <2> QED BY <1>2, <2>2, <2>3, <2>4 DEF Enveloped
<1>6. ASSUME GotAt(p, i) PROVE Copies(p, i) # {}
  <2>1. PICK s \in Seq(Receipt) : s = got[p]
    BY DEF Shapes
  <2>2. PICK k \in 1 .. Len(s) : GotId[s[k]] = i
    BY <1>6, <2>1 DEF GotAt, Has
  <2>3. k \in DOMAIN s /\ s[k] \in Receipt
    BY LenProperties, ElementOfSeq
  <2>4. s[k].id = i
    BY <2>2, <2>3 DEF GotId
  <2> QED BY <2>1, <2>3, <2>4 DEF Copies
<1>7. RelAt(p, i) => OnTheWay(p, i) /\ Enveloped(p, i)
  BY DEF RelAt, OnTheWay, Enveloped
<1>8. At(p, i) => Copies(p, i) # {} \/ OnTheWay(p, i)
  <2>1. ASSUME NEW n \in Node, NEW c \in Channels, OutAt(n, p, c, i)
        PROVE  OnTheWay(p, i)
    BY <1>1, <2>1 DEF OnTheWay
  <2> QED BY <1>4, <1>6, <1>7, <2>1 DEF At
<1>9. FwdAt(p, i) => Enveloped(p, i)
  BY <1>1, <1>5, <1>7 DEF FwdAt
<1> QED BY <1>8, <1>9

\* While leader, channels and auto_forward stay as they are and no queue is full,
\* no message whose call returned OK is lost on its way: not between the two reads of the
\* router, not in the leader's relay, and not by the copy that the leader makes
\* of an envelope.
THEOREM MessagesNotLost == Spec => []NothingLost
<1>1. RoutingInv /\ ReachInv => NothingLost
  <2>1. SUFFICES ASSUME RoutingInv, ReachInv, calm, NEW i \in DOMAIN sent,
                        result[i] = "OK", NEW p \in Audience(i)
                 PROVE  \/ Copies(p, i) # {} \/ OnTheWay(p, i)
                        \/ \E l \in Node : Leads(l) /\ Enveloped(l, i)
    BY DEF NothingLost
  <2>2. Steady /\ Shapes /\ History
    BY <2>1 DEF ReachInv, RoutingInv, BaseInv, ShapeInv
  <2>3. i \in 1 .. Len(sent) /\ i \in Id
    BY <2>2 DEF History, Id
  <2>4. p \in Node /\ AddressedTo(p, i)
    BY <2>2, <2>3, AudienceHears
  <2>5. Found(p, i)
    BY <2>1, <2>2, <2>3, <2>4 DEF Steady, Reached
  <2>6. ASSUME NEW q \in Node, FwdAt(q, i)
        PROVE  Leads(q) /\ Enveloped(q, i)
    BY <2>2, <2>3, <2>6, FoundSomewhere DEF Steady, Addressed
  <2>7. At(p, i) => Copies(p, i) # {} \/ OnTheWay(p, i)
    BY <2>2, <2>3, <2>4, FoundSomewhere
  <2> QED BY <2>5, <2>6, <2>7 DEF Found
<1>2. Init => ReachInv
  BY ReachInit
<1>3. RoutingInv /\ ReachInv /\ [Next]_vars => ReachInv'
  BY ReachStep
<1> QED BY <1>1, <1>2, <1>3, RoutingInvHolds, PTL DEF Spec
=============================================================================
