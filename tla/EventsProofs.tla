----------------------------- MODULE EventsProofs ------------------------------
(***************************************************************************)
(* Theorems about Events, for every set of peers, every capacity of the    *)
(* channels and any number of changes.                                     *)
(***************************************************************************)
EXTENDS Events, Induction, TLAPS

-----------------------------------------------------------------------------
(* The inductive invariant.                                                *)

Owing == [to : Channel, report : Reports]

\* Types.  Every reconnect task stands for a change, which bounds their number.
Basics ==
  /\ leader \in Peer \cup {Self, Nobody} /\ due \in Peer \cup {Nobody}
  /\ status \in [Peer -> Status]
  /\ lagged \in BOOLEAN /\ changes \in 0 .. MaxChanges
  /\ link \in [up : BOOLEAN, retrying : Nat, returned : Nat]
  /\ link.retrying + link.returned <= changes
  /\ seen \in [Topics -> Value \cup {"nothing"}]
  /\ lost \subseteq Topics /\ crossed \subseteq Topics

\* Every channel carries its own topics and stays within its capacity.
Carries(c, r) ==
  /\ c = "leader" => r.topic = Leader
  /\ c = "reconnect" => r.topic = Reconnect
  /\ c = "ring" => /\ \E p \in Peer : r.topic = StatusOf(p)
                   /\ r.value \in {"Connected", "Disconnected", "left"}

PipeFine(c, s) ==
  /\ s \in Seq(Reports) /\ Len(s) <= Capacity[c]
  /\ \A j \in 1 .. Len(s) : Carries(c, s[j])
Pipes ==
  /\ chan = [c \in Channel |-> chan[c]]
  /\ \A c \in Channel : PipeFine(c, chan[c])

\* What a task may owe: the handler and the application one report; the watcher
\* the end of a peer, behind the end of a leader; the ping task the same report
\* twice, or once.
MostOwed == [handler |-> 1, timer |-> 0, app |-> 1, ping |-> 2, watcher |-> 2]
MayOwe(t, s) ==
  /\ Len(s) <= MostOwed[t]
  /\ t \in {"handler", "app"} /\ Len(s) = 1 =>
       \/ s[1].to = "leader" /\ s[1].report.topic = Leader
       \/ /\ s[1].to = "ring" /\ s[1].report.value \in {"Connected", "left"}
          /\ \E p \in Peer : s[1].report.topic = StatusOf(p)
  /\ t = "watcher" /\ Len(s) > 0 =>
       /\ Len(s) = 2 => s[1] = To("leader", Says(Leader, Nobody))
       /\ \E p \in Peer :
            s[Len(s)] = To("callback", Says(StatusOf(p), "Disconnected"))
  /\ t = "ping" /\ Len(s) > 0 =>
       \E p \in Peer :
         /\ s[Len(s)] = To("callback", Says(StatusOf(p), "Disconnected"))
         /\ Len(s) = 2 => s[1] = To("ring", Says(StatusOf(p), "Disconnected"))

Debts ==
  /\ todo \in [Task -> Seq(Owing)]
  /\ \A t \in Task : MayOwe(t, todo[t])
  /\ due # Nobody => todo["ping"] = <<>>

\* The values of the status of p that agree with the membership table.
Right(p) ==
  IF status[p] = "Connected" THEN {"Connected"}
  ELSE (Value \cup {"nothing"}) \ {"Connected"}

\* No report of k is in s; the last one that is has a value in G.
NoneOf(s, k) == \A j \in 1 .. Len(s) : s[j].topic # k
LastIn(s, k, G) ==
  \E j \in 1 .. Len(s) : /\ s[j].topic = k /\ s[j].value \in G
                         /\ \A i \in 1 .. Len(s) : i > j => s[i].topic # k
EndsRight(s, k, G, before) == (NoneOf(s, k) /\ before) \/ LastIn(s, k, G)

\* The way of the reports of k to the application, youngest first: the channel c,
\* what the watcher still has to say (w), the callback queue q, and what was
\* heard last, h.  The youngest of them all has a value in G.
Trail(c, w, q, h, k, G) ==
  EndsRight(c, k, G, IF w THEN "Disconnected" \in G
                     ELSE EndsRight(q, k, G, h \in G))

Owes(s, k) == \E j \in 1 .. Len(s) : s[j].report.topic = k
OwesTo(c, s, k) == \E j \in 1 .. Len(s) : s[j].report.topic = k /\ s[j].to = c

\* Only one of the tasks ts owes a report of k, and what it owes is in G.
OneVoice(td, k, ts, G) ==
  /\ \A t \in ts : \A j \in 1 .. Len(td[t]) :
       td[t][j].report.topic = k => td[t][j].report.value \in G
  /\ \A t, u \in ts : Owes(td[t], k) /\ Owes(td[u], k) => t = u

\* Unless a report was lost or two tasks reported at once, what a task owes is
\* right, and when none owes a report the last one on the way is.  The reports
\* of a status that the ping task has for the callback queue alone may overtake
\* others, and do not matter to what the ring carries.
LeaderTrail ==
  Leader \notin lost \cup crossed =>
    /\ OneVoice(todo, Leader, Task, {leader})
    /\ (\A t \in Task : ~Owes(todo[t], Leader)) =>
         Trail(chan["leader"], FALSE, chan["callback"], Heard(Leader), Leader, {leader})

Others == Task \ {"watcher"}
StatusTrail(p) ==
  StatusOf(p) \notin lost \cup crossed =>
    /\ OneVoice(todo, StatusOf(p), Others, Right(p))
    /\ (\A t \in Others : ~OwesTo("ring", todo[t], StatusOf(p))) =>
         Trail(chan["ring"], Owes(todo["watcher"], StatusOf(p)), chan["callback"],
               seen[StatusOf(p)], StatusOf(p), Right(p))

EventsInv == /\ Basics /\ Pipes /\ Debts
             /\ LeaderTrail /\ \A p \in Peer : StatusTrail(p)

-----------------------------------------------------------------------------
(* Reports joining and leaving a channel.                                  *)

LEMMA AppendElems ==
  ASSUME NEW S, NEW s \in Seq(S), NEW r \in S
  PROVE  /\ Append(s, r) \in Seq(S) /\ Len(Append(s, r)) = Len(s) + 1
         /\ \A j \in 1 .. Len(s) : Append(s, r)[j] = s[j]
         /\ Append(s, r)[Len(s) + 1] = r
OBVIOUS

LEMMA TailElems ==
  ASSUME NEW S, NEW s \in Seq(S), s # <<>>
  PROVE  /\ Tail(s) \in Seq(S) /\ Head(s) \in S /\ Head(s) = s[1]
         /\ Len(s) \in Nat \ {0} /\ Len(Tail(s)) = Len(s) - 1
         /\ \A j \in 1 .. Len(s) - 1 : Tail(s)[j] = s[j + 1]
OBVIOUS

LEMMA AppendOther ==
  ASSUME NEW s \in Seq(Reports), NEW r \in Reports, NEW k, NEW G, r.topic # k
  PROVE  /\ NoneOf(Append(s, r), k) <=> NoneOf(s, k)
         /\ LastIn(s, k, G) => LastIn(Append(s, r), k, G)
<1>1. PICK a : a = Append(s, r)
  OBVIOUS
<1>2. /\ Len(s) \in Nat /\ Len(a) = Len(s) + 1 /\ a[Len(s) + 1] = r
      /\ \A j \in 1 .. Len(s) : a[j] = s[j]
  BY <1>1, AppendElems
<1>3. \A j \in 1 .. Len(a) : j = Len(s) + 1 \/ j \in 1 .. Len(s)
  BY <1>2
<1>4. \A j \in 1 .. Len(s) : j \in 1 .. Len(a)
  BY <1>2
<1>5. NoneOf(a, k) <=> NoneOf(s, k)
  BY <1>2, <1>3, <1>4 DEF NoneOf
<1>6. ASSUME LastIn(s, k, G)
      PROVE  LastIn(a, k, G)
  <2>1. PICK j \in 1 .. Len(s) :
          /\ s[j].topic = k /\ s[j].value \in G
          /\ \A i \in 1 .. Len(s) : i > j => s[i].topic # k
    BY <1>6 DEF LastIn
  <2>2. j \in 1 .. Len(a) /\ a[j] = s[j]
    BY <1>2, <1>4
  <2>3. \A i \in 1 .. Len(a) : i > j => a[i].topic # k
    BY <1>2, <1>3, <2>1
  <2> QED BY <2>1, <2>2, <2>3 DEF LastIn
<1> QED BY <1>1, <1>5, <1>6

LEMMA AppendSame ==
  ASSUME NEW s \in Seq(Reports), NEW r \in Reports, NEW G, r.value \in G
  PROVE  LastIn(Append(s, r), r.topic, G)
<1>1. PICK a : a = Append(s, r)
  OBVIOUS
<1>2. Len(s) \in Nat /\ Len(a) = Len(s) + 1 /\ a[Len(s) + 1] = r
  BY <1>1, AppendElems
<1>3. /\ Len(s) + 1 \in 1 .. Len(a)
      /\ \A i \in 1 .. Len(a) : ~(i > Len(s) + 1)
  BY <1>2
<1>4. LastIn(a, r.topic, G)
  BY <1>2, <1>3 DEF LastIn
<1> QED BY <1>1, <1>4

LEMMA TailOther ==
  ASSUME NEW s \in Seq(Reports), s # <<>>, NEW k, NEW G, Head(s).topic # k
  PROVE  /\ NoneOf(s, k) => NoneOf(Tail(s), k)
         /\ LastIn(s, k, G) => LastIn(Tail(s), k, G)
<1>1. PICK b : b = Tail(s)
  OBVIOUS
<1>2. /\ Len(s) \in Nat \ {0} /\ Len(b) = Len(s) - 1 /\ s[1].topic # k
      /\ \A j \in 1 .. Len(s) - 1 : b[j] = s[j + 1]
  BY <1>1, TailElems
<1>3. \A j \in 1 .. Len(b) : j + 1 \in 1 .. Len(s) /\ b[j] = s[j + 1]
  BY <1>2
<1>4. NoneOf(s, k) => NoneOf(b, k)
  BY <1>3 DEF NoneOf
<1>5. ASSUME LastIn(s, k, G)
      PROVE  LastIn(b, k, G)
  <2>1. PICK j \in 1 .. Len(s) :
          /\ s[j].topic = k /\ s[j].value \in G
          /\ \A i \in 1 .. Len(s) : i > j => s[i].topic # k
    BY <1>5 DEF LastIn
  <2>2. j # 1
    BY <1>2, <2>1
  <2>3. j - 1 \in 1 .. Len(b) /\ b[j - 1] = s[j]
    BY <1>2, <2>2
  <2>4. ASSUME NEW i \in 1 .. Len(b), i > j - 1
        PROVE  b[i].topic # k
    <3>1. i + 1 > j
      BY <2>4
    <3> QED BY <1>3, <2>1, <3>1
  <2> QED BY <2>1, <2>3, <2>4 DEF LastIn
<1> QED BY <1>1, <1>4, <1>5

LEMMA TailSame ==
  ASSUME NEW s \in Seq(Reports), s # <<>>, NEW k, NEW G, Head(s).topic = k,
         LastIn(s, k, G)
  PROVE  \/ LastIn(Tail(s), k, G)
         \/ NoneOf(Tail(s), k) /\ Head(s).value \in G
<1>1. PICK b : b = Tail(s)
  OBVIOUS
<1>2. /\ Len(s) \in Nat \ {0} /\ Len(b) = Len(s) - 1 /\ s[1] = Head(s)
      /\ \A j \in 1 .. Len(s) - 1 : b[j] = s[j + 1]
  BY <1>1, TailElems
<1>3. \A j \in 1 .. Len(b) : j + 1 \in 1 .. Len(s) /\ b[j] = s[j + 1] /\ j + 1 > 1
  BY <1>2
<1>4. PICK j \in 1 .. Len(s) :
        /\ s[j].topic = k /\ s[j].value \in G
        /\ \A i \in 1 .. Len(s) : i > j => s[i].topic # k
  BY DEF LastIn
<1>5. CASE j = 1
  <2>1. NoneOf(b, k)
    BY <1>3, <1>4, <1>5 DEF NoneOf
  <2> QED BY <1>1, <1>2, <1>4, <1>5, <2>1
<1>6. CASE j # 1
  <2>1. j - 1 \in 1 .. Len(b) /\ b[j - 1] = s[j]
    BY <1>2, <1>6
  <2>2. ASSUME NEW i \in 1 .. Len(b), i > j - 1
        PROVE  b[i].topic # k
    <3>1. i + 1 > j
      BY <2>2
    <3> QED BY <1>3, <1>4, <3>1
  <2>3. LastIn(b, k, G)
    BY <1>4, <2>1, <2>2 DEF LastIn
  <2> QED BY <1>1, <2>3
<1> QED BY <1>5, <1>6

LEMMA LastNotNone ==
  ASSUME NEW s, NEW k, NEW G, LastIn(s, k, G)
  PROVE  ~NoneOf(s, k)
BY DEF LastIn, NoneOf

-----------------------------------------------------------------------------
(* How the trail of a topic goes on.                                       *)

\* A right report enters the channel; one of another topic does, or leaves it.
LEMMA TrailSend ==
  ASSUME NEW c \in Seq(Reports), NEW w, NEW q, NEW h, NEW r \in Reports, NEW G,
         r.value \in G
  PROVE  Trail(Append(c, r), w, q, h, r.topic, G)
<1>1. LastIn(Append(c, r), r.topic, G)
  BY AppendSame
<1> QED BY <1>1 DEF Trail, EndsRight

LEMMA TrailSendOther ==
  ASSUME NEW c \in Seq(Reports), NEW w, NEW q, NEW h, NEW k, NEW G,
         NEW r \in Reports, r.topic # k, Trail(c, w, q, h, k, G)
  PROVE  Trail(Append(c, r), w, q, h, k, G)
<1>1. /\ NoneOf(c, k) => NoneOf(Append(c, r), k)
      /\ LastIn(c, k, G) => LastIn(Append(c, r), k, G)
  BY AppendOther
<1> QED BY <1>1 DEF Trail, EndsRight

LEMMA TrailDropOther ==
  ASSUME NEW c \in Seq(Reports), c # <<>>, NEW w, NEW q, NEW h, NEW k, NEW G,
         Head(c).topic # k, Trail(c, w, q, h, k, G)
  PROVE  Trail(Tail(c), w, q, h, k, G)
<1>1. /\ NoneOf(c, k) => NoneOf(Tail(c), k)
      /\ LastIn(c, k, G) => LastIn(Tail(c), k, G)
  BY TailOther
<1> QED BY <1>1 DEF Trail, EndsRight

\* The watcher moves a report from the channel to the callback queue.
LEMMA TrailForward ==
  ASSUME NEW c \in Seq(Reports), c # <<>>, NEW q \in Seq(Reports), NEW h, NEW G,
         NEW r \in Reports, Head(c).topic = r.topic, Head(c).value = r.value,
         Trail(c, FALSE, q, h, r.topic, G)
  PROVE  Trail(Tail(c), FALSE, Append(q, r), h, r.topic, G)
<1>1. LastIn(c, r.topic, G) =>
        \/ LastIn(Tail(c), r.topic, G)
        \/ NoneOf(Tail(c), r.topic) /\ r.value \in G
  BY TailSame
<1>2. r.value \in G => LastIn(Append(q, r), r.topic, G)
  BY AppendSame
<1>3. ~NoneOf(c, r.topic)
  BY TailElems DEF NoneOf
<1> QED BY <1>1, <1>2, <1>3 DEF Trail, EndsRight

\* The watcher takes the end of a peer from the channel, and tells it later.
LEMMA TrailTake ==
  ASSUME NEW c \in Seq(Reports), c # <<>>, NEW q, NEW h, NEW k, NEW G,
         Head(c).topic = k, Head(c).value \in G => "Disconnected" \in G,
         Trail(c, FALSE, q, h, k, G)
  PROVE  Trail(Tail(c), TRUE, q, h, k, G)
<1>1. LastIn(c, k, G) =>
        \/ LastIn(Tail(c), k, G)
        \/ NoneOf(Tail(c), k) /\ Head(c).value \in G
  BY TailSame
<1>2. ~NoneOf(c, k)
  BY TailElems DEF NoneOf
<1> QED BY <1>1, <1>2 DEF Trail, EndsRight

LEMMA TrailTold ==
  ASSUME NEW c, NEW q \in Seq(Reports), NEW h, NEW r \in Reports, NEW G,
         r.value = "Disconnected", Trail(c, TRUE, q, h, r.topic, G)
  PROVE  Trail(c, FALSE, Append(q, r), h, r.topic, G)
<1>1. r.value \in G => LastIn(Append(q, r), r.topic, G)
  BY AppendSame
<1> QED BY <1>1 DEF Trail, EndsRight

\* A report enters the callback queue by the short cut of the ping task.
LEMMA TrailCut ==
  ASSUME NEW c, NEW w \in BOOLEAN, NEW q \in Seq(Reports), NEW h, NEW r \in Reports,
         NEW G, r.value \in G, Trail(c, w, q, h, r.topic, G)
  PROVE  Trail(c, w, Append(q, r), h, r.topic, G)
<1>1. LastIn(Append(q, r), r.topic, G)
  BY AppendSame
<1> QED BY <1>1 DEF Trail, EndsRight

LEMMA TrailQueueOther ==
  ASSUME NEW c, NEW w \in BOOLEAN, NEW q \in Seq(Reports), NEW h, NEW k, NEW G,
         NEW r \in Reports, r.topic # k, Trail(c, w, q, h, k, G)
  PROVE  Trail(c, w, Append(q, r), h, k, G)
<1>1. /\ NoneOf(q, k) => NoneOf(Append(q, r), k)
      /\ LastIn(q, k, G) => LastIn(Append(q, r), k, G)
  BY AppendOther
<1> QED BY <1>1 DEF Trail, EndsRight

\* The application hears the oldest report.
LEMMA TrailHear ==
  ASSUME NEW c, NEW w \in BOOLEAN, NEW q \in Seq(Reports), q # <<>>, NEW h, NEW k,
         NEW G, Head(q).topic = k, Trail(c, w, q, h, k, G)
  PROVE  Trail(c, w, Tail(q), Head(q).value, k, G)
<1>1. LastIn(q, k, G) =>
        \/ LastIn(Tail(q), k, G)
        \/ NoneOf(Tail(q), k) /\ Head(q).value \in G
  BY TailSame
<1>2. ~NoneOf(q, k)
  BY TailElems DEF NoneOf
<1> QED BY <1>1, <1>2 DEF Trail, EndsRight

LEMMA TrailHearOther ==
  ASSUME NEW c, NEW w \in BOOLEAN, NEW q \in Seq(Reports), q # <<>>, NEW h, NEW k,
         NEW G, Head(q).topic # k, Trail(c, w, q, h, k, G)
  PROVE  Trail(c, w, Tail(q), h, k, G)
<1>1. /\ NoneOf(q, k) => NoneOf(Tail(q), k)
      /\ LastIn(q, k, G) => LastIn(Tail(q), k, G)
  BY TailOther
<1> QED BY <1>1 DEF Trail, EndsRight

\* Nothing on the way: what was heard is right.
LEMMA TrailEmpty ==
  ASSUME NEW c, NEW q, NEW h, NEW k, NEW G, NoneOf(c, k), NoneOf(q, k),
         Trail(c, FALSE, q, h, k, G)
  PROVE  h \in G
BY LastNotNone DEF Trail, EndsRight

-----------------------------------------------------------------------------
(* What the tasks owe.                                                     *)

\* A task that owes no more than before of k.
LEMMA VoiceKept ==
  ASSUME NEW td, NEW td2, NEW k, NEW ts, NEW G, OneVoice(td, k, ts, G),
         \A t \in ts : \A j \in 1 .. Len(td2[t]) :
           td2[t][j].report.topic = k =>
             \E i \in 1 .. Len(td[t]) : td[t][i] = td2[t][j]
  PROVE  OneVoice(td2, k, ts, G)
<1>1. \A t \in ts : Owes(td2[t], k) => Owes(td[t], k)
  BY DEF Owes
<1>2. ASSUME NEW t \in ts, NEW j \in 1 .. Len(td2[t]), td2[t][j].report.topic = k
      PROVE  td2[t][j].report.value \in G
  <2>1. PICK i \in 1 .. Len(td[t]) : td[t][i] = td2[t][j]
    BY <1>2
  <2> QED BY <1>2, <2>1 DEF OneVoice
<1> QED BY <1>1, <1>2 DEF OneVoice

\* A task that owes right reports of k while no other owes one.
LEMMA VoiceNew ==
  ASSUME NEW td, NEW td2, NEW k, NEW ts, NEW G, NEW t \in ts,
         \A u \in ts \ {t} : td2[u] = td[u] /\ ~Owes(td[u], k),
         \A j \in 1 .. Len(td2[t]) :
           td2[t][j].report.topic = k => td2[t][j].report.value \in G
  PROVE  OneVoice(td2, k, ts, G)
<1>1. \A u \in ts \ {t} : ~Owes(td2[u], k)
  OBVIOUS
<1>2. \A u \in ts \ {t} : \A j \in 1 .. Len(td2[u]) : td2[u][j].report.topic # k
  BY <1>1 DEF Owes
<1> QED BY <1>1, <1>2 DEF OneVoice

-----------------------------------------------------------------------------
(* The channels.                                                           *)

LEMMA TopicsApart ==
  /\ Leader \in Topics /\ Reconnect \in Topics /\ Leader # Reconnect
  /\ \A p \in Peer : /\ StatusOf(p) \in Topics /\ StatusOf(p)[2] = p
                     /\ StatusOf(p) # Leader /\ StatusOf(p) # Reconnect
  /\ \A p, q \in Peer : StatusOf(p) = StatusOf(q) => p = q
<1>1. \A p \in Peer : StatusOf(p)[1] = "status" /\ StatusOf(p)[2] = p
  BY DEF StatusOf
<1>2. Leader[1] = "leader" /\ Reconnect[1] = "reconnect"
  BY DEF Leader, Reconnect
<1> QED BY <1>1, <1>2 DEF Topics

LEMMA SaysType ==
  ASSUME NEW k \in Topics, NEW v \in Value
  PROVE  Says(k, v) \in Reports /\ Says(k, v).topic = k /\ Says(k, v).value = v
BY DEF Says, Reports

LEMMA Capacities == \A c \in Channel : Capacity[c] \in Nat \ {0}
BY EventsAssumption DEF Capacity, Channel

LEMMA PipeAppend ==
  ASSUME NEW c \in Channel, NEW s, PipeFine(c, s), Len(s) < Capacity[c],
         NEW r \in Reports, Carries(c, r)
  PROVE  PipeFine(c, Append(s, r))
<1>1. PICK a : a = Append(s, r)
  OBVIOUS
<1>2. s \in Seq(Reports) /\ Len(s) \in Nat
  BY DEF PipeFine
<1>3. /\ a \in Seq(Reports) /\ Len(a) = Len(s) + 1 /\ a[Len(s) + 1] = r
      /\ \A j \in 1 .. Len(s) : a[j] = s[j]
  BY <1>1, <1>2, AppendElems
<1>4. ASSUME NEW j \in 1 .. Len(a)
      PROVE  Carries(c, a[j])
  <2>1. CASE j = Len(s) + 1
    BY <1>3, <2>1
  <2>2. CASE j # Len(s) + 1
    <3>1. j \in 1 .. Len(s)
      BY <1>2, <1>3, <2>2
    <3> QED BY <1>3, <3>1 DEF PipeFine
  <2> QED BY <2>1, <2>2
<1>5. Len(a) <= Capacity[c]
  BY <1>2, <1>3, Capacities
<1> QED BY <1>1, <1>3, <1>4, <1>5 DEF PipeFine

LEMMA PipeTail ==
  ASSUME NEW c \in Channel, NEW s, PipeFine(c, s), s # <<>>
  PROVE  /\ PipeFine(c, Tail(s)) /\ Len(Tail(s)) < Capacity[c]
         /\ Head(s) \in Reports /\ Carries(c, Head(s))
<1>1. PICK b : b = Tail(s)
  OBVIOUS
<1>2. s \in Seq(Reports)
  BY DEF PipeFine
<1>3. /\ b \in Seq(Reports) /\ Len(s) \in Nat \ {0} /\ Len(b) = Len(s) - 1
      /\ \A j \in 1 .. Len(s) - 1 : b[j] = s[j + 1]
      /\ Head(s) \in Reports /\ Head(s) = s[1]
  BY <1>1, <1>2, TailElems
<1>4. \A j \in 1 .. Len(b) : j + 1 \in 1 .. Len(s) /\ b[j] = s[j + 1]
  BY <1>3
<1>5. \A j \in 1 .. Len(b) : Carries(c, b[j])
  BY <1>4 DEF PipeFine
<1>6. 1 \in 1 .. Len(s) /\ Carries(c, s[1])
  BY <1>3 DEF PipeFine
<1>7. Len(b) <= Capacity[c] /\ Len(b) < Capacity[c]
  BY <1>3, Capacities DEF PipeFine
<1> QED BY <1>1, <1>3, <1>5, <1>6, <1>7 DEF PipeFine

\* What try_send and the broadcast do.
Sent(c, r) ==
  /\ \A d \in Channel \ {c} : chan'[d] = chan[d]
  /\ \/ chan'[c] = Append(chan[c], r) /\ lost' = lost
     \/ /\ c = "ring" /\ chan[c] # <<>> /\ chan'[c] = Append(Tail(chan[c]), r)
        /\ lost' = lost \cup {Head(chan[c]).topic}
     \/ c # "ring" /\ chan'[c] = chan[c] /\ lost' = lost \cup {r.topic}

LEMMA SendWorks ==
  ASSUME Pipes, lost \subseteq Topics, lagged \in BOOLEAN,
         NEW c \in Channel, NEW r \in Reports, Carries(c, r), Send(c, r)
  PROVE  Pipes' /\ lost' \subseteq Topics /\ lagged' \in BOOLEAN /\ Sent(c, r)
<1>1. PICK s : s = chan[c]
  OBVIOUS
<1>2. PICK full \in BOOLEAN : full <=> Len(s) = Capacity[c]
  OBVIOUS
<1>3. /\ PipeFine(c, s) /\ s \in Seq(Reports) /\ Len(s) \in Nat
      /\ Len(s) <= Capacity[c] /\ Capacity[c] \in Nat \ {0}
  BY <1>1, Capacities DEF Pipes, PipeFine
<1>4. chan' = [chan EXCEPT ![c] = IF ~full THEN Append(s, r)
                                  ELSE IF c = "ring" THEN Append(Tail(s), r) ELSE s]
  BY <1>1, <1>2 DEF Send
<1>5. lost' = lost \cup {g.topic : g \in IF ~full THEN {}
                                         ELSE IF c = "ring" THEN {s[1]} ELSE {r}}
  BY <1>1, <1>2 DEF Send
<1>6. lagged' \in BOOLEAN
  BY DEF Send
<1>7. /\ chan' = [d \in Channel |-> chan'[d]]
      /\ \A d \in Channel \ {c} : chan'[d] = chan[d]
  BY <1>4 DEF Pipes
<1>8. CASE ~full
  <2>1. chan'[c] = Append(s, r)
    BY <1>4, <1>8 DEF Pipes
  <2>2. lost' = lost
    BY <1>5, <1>8
  <2>3. PipeFine(c, Append(s, r))
    BY <1>2, <1>3, <1>8, PipeAppend
  <2>4. Pipes'
    BY <1>7, <2>1, <2>3 DEF Pipes
  <2>5. Sent(c, r)
    BY <1>1, <1>7, <2>1, <2>2 DEF Sent
  <2> QED BY <1>6, <2>2, <2>4, <2>5
<1>9. CASE full /\ c = "ring"
  <2>1. s # <<>>
    BY <1>2, <1>3, <1>9
  <2>2. /\ PipeFine(c, Tail(s)) /\ Len(Tail(s)) < Capacity[c]
        /\ Head(s) \in Reports
    BY <1>3, <2>1, PipeTail
  <2>3. s[1] = Head(s)
    BY <1>3, <2>1, TailElems
  <2>4. chan'[c] = Append(Tail(s), r)
    BY <1>4, <1>9 DEF Pipes
  <2>5. PipeFine(c, Append(Tail(s), r))
    BY <2>2, PipeAppend
  <2>6. lost' = lost \cup {Head(s).topic}
    BY <1>5, <1>9, <2>3
  <2>7. Head(s).topic \in Topics
    BY <2>2 DEF Reports
  <2>8. Pipes'
    BY <1>7, <2>4, <2>5 DEF Pipes
  <2>9. Sent(c, r)
    BY <1>1, <1>7, <1>9, <2>1, <2>4, <2>6 DEF Sent
  <2> QED BY <1>6, <2>6, <2>7, <2>8, <2>9
<1>10. CASE full /\ c # "ring"
  <2>1. chan'[c] = s
    BY <1>4, <1>10 DEF Pipes
  <2>2. lost' = lost \cup {r.topic}
    BY <1>5, <1>10
  <2>3. r.topic \in Topics
    BY DEF Reports
  <2>4. Pipes'
    BY <1>3, <1>7, <2>1 DEF Pipes
  <2>5. Sent(c, r)
    BY <1>1, <1>7, <1>10, <2>1, <2>2 DEF Sent
  <2> QED BY <1>6, <2>2, <2>3, <2>4, <2>5
<1> QED BY <1>8, <1>9, <1>10

\* What a watcher does with a report r it takes from c.
Forwarded(c, r) ==
  /\ \A d \in Channel \ {c, "callback"} : chan'[d] = chan[d]
  /\ chan'[c] = Tail(chan[c])
  /\ \/ chan'["callback"] = Append(chan["callback"], r) /\ lost' = lost
     \/ chan'["callback"] = chan["callback"] /\ lost' = lost \cup {r.topic}

LEMMA ForwardWorks ==
  ASSUME Pipes, lost \subseteq Topics, NEW c \in Channel \ {"callback"},
         chan[c] # <<>>, Forward(c, Head(chan[c]).value)
  PROVE  /\ Pipes' /\ lost' \subseteq Topics
         /\ Head(chan[c]) \in Reports /\ Carries(c, Head(chan[c]))
         /\ Forwarded(c, Head(chan[c]))
<1>1. PICK s, q : s = chan[c] /\ q = chan["callback"]
  OBVIOUS
<1>2. PICK full \in BOOLEAN : full <=> Len(q) = QueueCap
  OBVIOUS
<1>3. PICK r : r = Head(s)
  OBVIOUS
<1>4. /\ PipeFine(c, s) /\ PipeFine("callback", q)
      /\ Len(q) \in Nat /\ Len(q) <= QueueCap /\ QueueCap \in Nat
      /\ "callback" \in Channel /\ Capacity["callback"] = QueueCap
  BY <1>1, EventsAssumption DEF Pipes, PipeFine, Channel, Capacity
<1>5. PipeFine(c, Tail(s)) /\ r \in Reports /\ Carries(c, r)
  BY <1>1, <1>3, <1>4, PipeTail
<1>6. Says(r.topic, r.value) = r /\ r.topic \in Topics
  BY <1>5 DEF Says, Reports
<1>7. /\ chan' = [chan EXCEPT ![c] = Tail(s),
                              !["callback"] = IF full THEN q ELSE Append(q, r)]
      /\ lost' = IF full THEN lost \cup {r.topic} ELSE lost
  BY <1>1, <1>2, <1>3, <1>6 DEF Forward
<1>8. /\ chan' = [d \in Channel |-> chan'[d]]
      /\ \A d \in Channel \ {c, "callback"} : chan'[d] = chan[d]
      /\ chan'[c] = Tail(s)
      /\ chan'["callback"] = IF full THEN q ELSE Append(q, r)
  BY <1>4, <1>7 DEF Pipes
<1>9. Carries("callback", r)
  BY DEF Carries
<1>10. ~full => PipeFine("callback", Append(q, r))
  BY <1>2, <1>4, <1>5, <1>9, PipeAppend
<1>11. PipeFine("callback", chan'["callback"])
  BY <1>4, <1>8, <1>10
<1>12. Pipes'
  BY <1>5, <1>8, <1>11 DEF Pipes
<1>13. Forwarded(c, r)
  BY <1>1, <1>7, <1>8 DEF Forwarded
<1> QED BY <1>1, <1>3, <1>5, <1>6, <1>7, <1>12, <1>13

-----------------------------------------------------------------------------
(* The next report a task makes.                                           *)

LEMMA ToType ==
  ASSUME NEW c \in Channel, NEW r \in Reports
  PROVE  To(c, r) \in Owing /\ To(c, r).to = c /\ To(c, r).report = r
BY DEF To, Owing

LEMMA SaysValue ==
  ASSUME NEW k, NEW v
  PROVE  Says(k, v).topic = k /\ Says(k, v).value = v
BY DEF Says

LEMMA ToFields ==
  ASSUME NEW c, NEW r
  PROVE  To(c, r).to = c /\ To(c, r).report = r
BY DEF To

\* What is known of the report a task makes next.
NextDebt(t, o) ==
  /\ o \in Owing /\ Carries(o.to, o.report)
  /\ o.to \in {"leader", "ring", "callback"}
  /\ o.to = "leader" <=> o.report.topic = Leader
  /\ o.to = "callback" => o.report.value = "Disconnected" /\ t \in {"watcher", "ping"}
  /\ t = "watcher" => o.to # "ring"

LEMMA MostOwedType == \A t \in Task : MostOwed[t] \in 0 .. 2
BY DEF MostOwed, Task

LEMMA OwedLength ==
  ASSUME NEW t \in Task, NEW s, Len(s) \in Nat, MayOwe(t, s)
  PROVE  /\ t = "timer" => Len(s) = 0
         /\ t \in {"handler", "app"} => Len(s) \in 0 .. 1
         /\ Len(s) \in 0 .. 2
<1>1. Len(s) <= MostOwed[t]
  BY DEF MayOwe
<1>2. t = "timer" => MostOwed[t] = 0
  BY DEF MostOwed
<1>3. t \in {"handler", "app"} => MostOwed[t] = 1
  BY DEF MostOwed
<1>4. t \in {"ping", "watcher"} => MostOwed[t] = 2
  BY DEF MostOwed
<1>5. PICK n \in Nat : n = Len(s)
  OBVIOUS
<1>6. t = "timer" => n = 0
  BY <1>1, <1>2, <1>5
<1>7. t \in {"handler", "app"} => n \in 0 .. 1
  BY <1>1, <1>3, <1>5
<1>8. t \in {"ping", "watcher"} => n \in 0 .. 2
  BY <1>1, <1>4, <1>5
<1>9. n \in 0 .. 2
  BY <1>6, <1>7, <1>8 DEF Task
<1> QED BY <1>5, <1>6, <1>7, <1>9

LEMMA HeadOwed ==
  ASSUME NEW t \in Task, NEW s \in Seq(Owing), s # <<>>, MayOwe(t, s)
  PROVE  NextDebt(t, Head(s))
<1>1. PICK o : o = Head(s)
  OBVIOUS
<1>2. o = s[1] /\ o \in Owing /\ Len(s) \in Nat \ {0}
  BY <1>1, TailElems
<1>3. t # "timer" /\ Len(s) \in 1 .. 2 /\ (t \in {"handler", "app"} => Len(s) = 1)
  BY <1>2, OwedLength
<1>4. \A p \in Peer : /\ StatusOf(p) # Leader /\ StatusOf(p) # Reconnect
                      /\ Says(StatusOf(p), "Disconnected").topic = StatusOf(p)
                      /\ Says(StatusOf(p), "Disconnected").value = "Disconnected"
  BY TopicsApart, SaysValue
<1>5. Says(Leader, Nobody).topic = Leader
  BY SaysValue
<1>6. \A c, r : To(c, r).to = c /\ To(c, r).report = r
  BY ToFields
<1>7. CASE t \in {"handler", "app"}
  <2>1. Len(s) = 1
    BY <1>3, <1>7
  <2>2. CASE o.to = "leader" /\ o.report.topic = Leader
    BY <1>1, <1>2, <1>7, <2>2 DEF NextDebt, Carries
  <2>3. CASE /\ o.to = "ring" /\ o.report.value \in {"Connected", "left"}
             /\ \E p \in Peer : o.report.topic = StatusOf(p)
    BY <1>1, <1>2, <1>4, <1>7, <2>3 DEF NextDebt, Carries
  <2> QED BY <1>2, <1>7, <2>1, <2>2, <2>3 DEF MayOwe
<1>8. CASE t = "watcher"
  <2>1. CASE Len(s) = 2
    <3>1. o = To("leader", Says(Leader, Nobody))
      BY <1>2, <1>8, <2>1 DEF MayOwe
    <3>2. o.to = "leader" /\ o.report.topic = Leader
      BY <1>5, <1>6, <3>1
    <3> QED BY <1>1, <1>2, <1>8, <3>2 DEF NextDebt, Carries
  <2>2. CASE Len(s) = 1
    <3>1. PICK p \in Peer : o = To("callback", Says(StatusOf(p), "Disconnected"))
      BY <1>2, <1>8, <2>2 DEF MayOwe
    <3>2. /\ o.to = "callback" /\ o.report.topic = StatusOf(p)
          /\ o.report.value = "Disconnected"
      BY <1>4, <1>6, <3>1
    <3> QED BY <1>1, <1>2, <1>4, <1>8, <3>2 DEF NextDebt, Carries
  <2> QED BY <1>3, <2>1, <2>2
<1>9. CASE t = "ping"
  <2>1. PICK p \in Peer :
          /\ s[Len(s)] = To("callback", Says(StatusOf(p), "Disconnected"))
          /\ Len(s) = 2 => s[1] = To("ring", Says(StatusOf(p), "Disconnected"))
    BY <1>2, <1>9 DEF MayOwe
  <2>2. Len(s) = 1 \/ Len(s) = 2
    BY <1>3
  <2>3. \/ o = To("callback", Says(StatusOf(p), "Disconnected"))
        \/ o = To("ring", Says(StatusOf(p), "Disconnected"))
    BY <1>2, <2>1, <2>2
  <2>4. /\ o.to \in {"callback", "ring"} /\ o.report.topic = StatusOf(p)
        /\ o.report.value = "Disconnected"
    BY <1>4, <1>6, <2>3
  <2> QED BY <1>1, <1>2, <1>4, <1>9, <2>4 DEF NextDebt, Carries
<1> QED BY <1>3, <1>7, <1>8, <1>9 DEF Task

\* What the task owes then.  The ring is sent to before the callback queue, and
\* one leader, or the end of one peer, is reported once.
RestOwed(t, s, b) ==
  /\ b \in Seq(Owing) /\ MayOwe(t, b)
  /\ \A j \in 1 .. Len(b) : \E i \in 1 .. Len(s) : s[i] = b[j]
  /\ \A j \in 1 .. Len(b) : b[j].to = "callback" /\ b[j].report.topic # Leader
  /\ \A k : Owes(s, k) => Owes(b, k) \/ Head(s).report.topic = k
  /\ t = "watcher" /\ Head(s).to = "callback" => Len(b) = 0
  /\ \A k : OwesTo("ring", s, k) => Head(s).to = "ring" /\ Head(s).report.topic = k

LEMMA TailOwed ==
  ASSUME NEW t \in Task, NEW s \in Seq(Owing), s # <<>>, MayOwe(t, s)
  PROVE  RestOwed(t, s, Tail(s))
<1>1. PICK b : b = Tail(s)
  OBVIOUS
<1>2. /\ Head(s) = s[1] /\ Len(s) \in Nat \ {0} /\ b \in Seq(Owing)
      /\ Len(b) = Len(s) - 1 /\ \A j \in 1 .. Len(s) - 1 : b[j] = s[j + 1]
  BY <1>1, TailElems
<1>3. t # "timer" /\ Len(s) \in 1 .. 2 /\ (t \in {"handler", "app"} => Len(s) = 1)
  BY <1>2, OwedLength
<1>4. \A c, r : To(c, r).to = c /\ To(c, r).report = r
  BY ToFields
<1>5. \A p \in Peer : /\ StatusOf(p) # Leader
                      /\ Says(StatusOf(p), "Disconnected").topic = StatusOf(p)
  BY TopicsApart, SaysValue
<1>6. CASE Len(s) = 1
  <2>1. Len(b) = 0 /\ 1 .. Len(b) = {} /\ 1 .. Len(s) = {1}
    BY <1>2, <1>6
  <2>2. MayOwe(t, b)
    BY <2>1, MostOwedType DEF MayOwe
  <2>3. \A k : Owes(s, k) => Head(s).report.topic = k
    BY <1>2, <2>1 DEF Owes
  <2>4. \A k : OwesTo("ring", s, k) => Head(s).to = "ring" /\ Head(s).report.topic = k
    BY <1>2, <2>1 DEF OwesTo
  <2>5. RestOwed(t, s, b)
    BY <1>2, <2>1, <2>2, <2>3, <2>4 DEF RestOwed
  <2> QED BY <1>1, <2>5
<1>7. CASE Len(s) = 2
  <2>1. Len(b) = 1 /\ b[1] = s[2] /\ 1 .. Len(b) = {1} /\ 1 .. Len(s) = {1, 2}
    BY <1>2, <1>7
  <2>2. t \in {"watcher", "ping"}
    BY <1>3, <1>7 DEF Task
  <2>3. PICK p \in Peer : /\ s[2] = To("callback", Says(StatusOf(p), "Disconnected"))
                          /\ \/ s[1] = To("leader", Says(Leader, Nobody))
                             \/ /\ t = "ping"
                                /\ s[1] = To("ring", Says(StatusOf(p), "Disconnected"))
    BY <1>7, <2>2 DEF MayOwe
  <2>4. MayOwe(t, b)
    <3>1. Len(b) <= MostOwed[t]
      BY <2>1, <1>7, MostOwedType DEF MayOwe
    <3> QED BY <2>1, <2>2, <2>3, <3>1 DEF MayOwe
  <2>5. b[1].to = "callback" /\ b[1].report.topic # Leader
    BY <1>4, <1>5, <2>1, <2>3
  <2>6. \A k : Owes(s, k) => Owes(b, k) \/ Head(s).report.topic = k
    BY <1>2, <2>1 DEF Owes
  <2>7. \A k : OwesTo("ring", s, k) => Head(s).to = "ring" /\ Head(s).report.topic = k
    BY <1>2, <2>1, <2>5 DEF OwesTo
  <2>8. t = "watcher" => Head(s).to = "leader"
    BY <1>2, <1>4, <2>3
  <2>9. \A j \in 1 .. Len(b) : \E i \in 1 .. Len(s) : s[i] = b[j]
    BY <2>1
  <2>10. RestOwed(t, s, b)
    BY <1>2, <2>1, <2>4, <2>5, <2>6, <2>7, <2>8, <2>9 DEF RestOwed
  <2> QED BY <1>1, <2>10
<1> QED BY <1>3, <1>6, <1>7

-----------------------------------------------------------------------------
(* A task makes a report.                                                  *)

\* The rest of what t owes is part of what it owed.
LEMMA VoiceRest ==
  ASSUME NEW td, NEW td2, NEW t, NEW k, NEW ts, NEW G, OneVoice(td, k, ts, G),
         \A u \in ts \ {t} : td2[u] = td[u],
         \A j \in 1 .. Len(td2[t]) : \E i \in 1 .. Len(td[t]) : td[t][i] = td2[t][j]
  PROVE  OneVoice(td2, k, ts, G)
<1>1. \A u \in ts : \A j \in 1 .. Len(td2[u]) :
        td2[u][j].report.topic = k =>
          \E i \in 1 .. Len(td[u]) : td[u][i] = td2[u][j]
  OBVIOUS
<1> QED BY <1>1, VoiceKept

\* Who still owes k owed it.
LEMMA RestStillOwes ==
  ASSUME NEW s, NEW b, NEW k,
         \A j \in 1 .. Len(b) : \E i \in 1 .. Len(s) : s[i] = b[j]
  PROVE  Owes(b, k) => Owes(s, k)
BY DEF Owes

LEMMA HeadOwes ==
  ASSUME NEW S, NEW s \in Seq(S), s # <<>>
  PROVE  Owes(s, Head(s).report.topic)
<1>1. Head(s) = s[1] /\ 1 \in 1 .. Len(s)
  BY TailElems
<1> QED BY <1>1 DEF Owes

\* A report of another topic leaves it open whether k is owed.
LEMMA OwedRest ==
  ASSUME NEW t, NEW s, NEW b, RestOwed(t, s, b), NEW k, Head(s).report.topic # k
  PROVE  Owes(b, k) = Owes(s, k)
<1>1. Owes(b, k) => Owes(s, k)
  BY RestStillOwes DEF RestOwed
<1>2. Owes(s, k) => Owes(b, k)
  BY DEF RestOwed
<1>3. Owes(b, k) \in BOOLEAN /\ Owes(s, k) \in BOOLEAN
  BY DEF Owes
<1> QED BY <1>1, <1>2, <1>3

\* The parts of a report.
Making(t, o, b) ==
  /\ todo[t] \in Seq(Owing) /\ todo[t] # <<>> /\ o = Head(todo[t])
  /\ NextDebt(t, o) /\ RestOwed(t, todo[t], b)
  /\ \A u \in Task \ {t} : todo'[u] = todo[u]
  /\ todo'[t] = b
  /\ Sent(o.to, o.report)
  /\ UNCHANGED <<leader, status, link, due, seen, crossed, changes>>

LEMMA ReportParts ==
  ASSUME Basics, Pipes, Debts, NEW t \in Task, Report(t)
  PROVE  /\ Making(t, Head(todo[t]), Tail(todo[t]))
         /\ Basics' /\ Pipes' /\ Debts'
<1>1. PICK s, b, o : s = todo[t] /\ b = Tail(todo[t]) /\ o = Head(todo[t])
  OBVIOUS
<1>2. s \in Seq(Owing) /\ s # <<>> /\ MayOwe(t, s)
  BY <1>1 DEF Debts, Report
<1>3. NextDebt(t, o) /\ RestOwed(t, s, b)
  BY <1>1, <1>2, HeadOwed, TailOwed
<1>4. /\ Send(o.to, o.report) /\ todo' = [todo EXCEPT ![t] = b]
      /\ UNCHANGED <<leader, status, link, due, seen, crossed, changes>>
  BY <1>1 DEF Report
<1>5. o.to \in Channel /\ o.report \in Reports /\ Carries(o.to, o.report)
  BY <1>3 DEF NextDebt, Owing
<1>6. Pipes' /\ lost' \subseteq Topics /\ lagged' \in BOOLEAN /\ Sent(o.to, o.report)
  BY <1>4, <1>5, SendWorks DEF Basics
<1>7. (\A u \in Task \ {t} : todo'[u] = todo[u]) /\ todo'[t] = b
  BY <1>4 DEF Debts
<1>8. Basics'
  BY <1>4, <1>6 DEF Basics
<1>9. Debts'
  <2>1. b \in Seq(Owing) /\ MayOwe(t, b)
    BY <1>3 DEF RestOwed
  <2>2. todo' \in [Task -> Seq(Owing)]
    BY <1>4, <2>1 DEF Debts
  <2>3. \A u \in Task : MayOwe(u, todo'[u])
    BY <1>7, <2>1 DEF Debts
  <2>4. due' # Nobody => todo'["ping"] = <<>>
    <3>1. due' # Nobody => t # "ping" /\ todo["ping"] = <<>>
      BY <1>1, <1>2, <1>4 DEF Debts
    <3> QED BY <1>7, <3>1 DEF Task
  <2> QED BY <2>2, <2>3, <2>4 DEF Debts
<1> QED BY <1>1, <1>2, <1>3, <1>4, <1>6, <1>7, <1>8, <1>9 DEF Making

LEMMA ReportLeader ==
  ASSUME Pipes, LeaderTrail, NEW t \in Task, NEW o, NEW b, Making(t, o, b)
  PROVE  LeaderTrail'
<1> SUFFICES ASSUME Leader \notin lost' \cup crossed'
             PROVE  /\ OneVoice(todo', Leader, Task, {leader'})
                    /\ (\A u \in Task : ~Owes(todo'[u], Leader)) =>
                         Trail(chan'["leader"], FALSE, chan'["callback"],
                               Heard(Leader)', Leader, {leader'})
  BY DEF LeaderTrail
<1>1. /\ NextDebt(t, o) /\ RestOwed(t, todo[t], b) /\ todo'[t] = b
      /\ \A u \in Task \ {t} : todo'[u] = todo[u]
      /\ Sent(o.to, o.report) /\ leader' = leader /\ seen' = seen /\ crossed' = crossed
      /\ todo[t] \in Seq(Owing) /\ todo[t] # <<>> /\ o = Head(todo[t])
  BY DEF Making
<1>2. PICK r, c : r = o.report /\ c = o.to
  OBVIOUS
<1>3. /\ r \in Reports /\ c \in {"leader", "ring", "callback"}
      /\ c = "leader" <=> r.topic = Leader
  BY <1>1, <1>2 DEF NextDebt, Owing
<1>4. PICK C, q : C = chan["leader"] /\ q = chan["callback"]
  OBVIOUS
<1>5. C \in Seq(Reports) /\ q \in Seq(Reports)
  BY <1>4 DEF Pipes, PipeFine, Channel
<1>6. Heard(Leader)' = Heard(Leader)
  BY <1>1 DEF Heard
<1>7. lost \subseteq lost'
  BY <1>1 DEF Sent
<1>8. /\ OneVoice(todo, Leader, Task, {leader})
      /\ (\A u \in Task : ~Owes(todo[u], Leader)) =>
           Trail(C, FALSE, q, Heard(Leader), Leader, {leader})
  BY <1>1, <1>4, <1>7 DEF LeaderTrail
<1>9. OneVoice(todo', Leader, Task, {leader'})
  <2>1. \A j \in 1 .. Len(todo'[t]) : \E i \in 1 .. Len(todo[t]) : todo[t][i] = todo'[t][j]
    BY <1>1 DEF RestOwed
  <2>2. PICK td, td2 : td = todo /\ td2 = todo'
    OBVIOUS
  <2>3. OneVoice(td2, Leader, Task, {leader})
    BY <1>1, <1>8, <2>1, <2>2, VoiceRest
  <2> QED BY <1>1, <2>2, <2>3
<1>10. CASE r.topic = Leader
  <2>1. c = "leader" /\ chan'["leader"] = Append(C, r)
    BY <1>1, <1>2, <1>3, <1>4, <1>10 DEF Sent
  <2>2. 1 \in 1 .. Len(todo[t]) /\ o = todo[t][1]
    BY <1>1, TailElems
  <2>3. r.value \in {leader}
    BY <1>2, <1>8, <1>10, <2>2 DEF OneVoice
  <2>4. Trail(Append(C, r), FALSE, chan'["callback"], Heard(Leader)', r.topic, {leader})
    BY <1>3, <1>5, <2>3, TrailSend
  <2> QED BY <1>1, <1>9, <1>10, <2>1, <2>4
<1>11. CASE r.topic # Leader
  <2>1. c # "leader" /\ chan'["leader"] = C
    BY <1>1, <1>2, <1>3, <1>4, <1>11 DEF Sent, Channel
  <2>2. chan'["callback"] = q \/ chan'["callback"] = Append(q, r)
    BY <1>1, <1>2, <1>3, <1>4 DEF Sent, Channel
  <2>3. ASSUME \A u \in Task : ~Owes(todo'[u], Leader)
        PROVE  Trail(C, FALSE, chan'["callback"], Heard(Leader), Leader, {leader})
    <3>1. \A u \in Task : ~Owes(todo[u], Leader)
      BY <1>1, <1>2, <1>11, <2>3 DEF RestOwed
    <3>2. Trail(C, FALSE, q, Heard(Leader), Leader, {leader})
      BY <1>8, <3>1
    <3>3. Trail(C, FALSE, Append(q, r), Heard(Leader), Leader, {leader})
      BY <1>3, <1>5, <1>11, <3>2, TrailQueueOther
    <3> QED BY <2>2, <3>2, <3>3
  <2> QED BY <1>1, <1>6, <1>9, <2>1, <2>3
<1> QED BY <1>10, <1>11

LEMMA ReportStatus ==
  ASSUME Pipes, NEW p \in Peer, StatusTrail(p), NEW t \in Task, NEW o, NEW b,
         Making(t, o, b)
  PROVE  StatusTrail(p)'
<1>1. PICK k : k = StatusOf(p)
  OBVIOUS
<1>2. PICK G : G = Right(p)
  OBVIOUS
<1>3. /\ NextDebt(t, o) /\ RestOwed(t, todo[t], b) /\ todo'[t] = b
      /\ \A u \in Task \ {t} : todo'[u] = todo[u]
      /\ Sent(o.to, o.report) /\ status' = status /\ seen' = seen /\ crossed' = crossed
      /\ todo[t] \in Seq(Owing) /\ todo[t] # <<>> /\ o = Head(todo[t])
  BY DEF Making
<1>4. Right(p)' = G
  BY <1>2, <1>3 DEF Right
<1> SUFFICES ASSUME k \notin lost' \cup crossed'
             PROVE  /\ OneVoice(todo', k, Others, G)
                    /\ (\A u \in Others : ~OwesTo("ring", todo'[u], k)) =>
                         Trail(chan'["ring"], Owes(todo'["watcher"], k),
                               chan'["callback"], seen[k], k, G)
  BY <1>1, <1>3, <1>4 DEF StatusTrail
<1>5. PICK r, c : r = o.report /\ c = o.to
  OBVIOUS
<1>6. /\ r \in Reports /\ c \in {"leader", "ring", "callback"}
      /\ c = "leader" <=> r.topic = Leader
      /\ c = "callback" => r.value = "Disconnected"
      /\ t = "watcher" => c # "ring"
  BY <1>3, <1>5 DEF NextDebt, Owing
<1>7. PICK C, q, w : C = chan["ring"] /\ q = chan["callback"]
                       /\ w = Owes(todo["watcher"], k)
  OBVIOUS
<1>8. C \in Seq(Reports) /\ q \in Seq(Reports) /\ w \in BOOLEAN
  BY <1>7 DEF Pipes, PipeFine, Channel, Owes
<1>9. lost \subseteq lost' /\ k # Leader
  BY <1>1, <1>3, TopicsApart DEF Sent
<1>10. /\ OneVoice(todo, k, Others, G)
       /\ (\A u \in Others : ~OwesTo("ring", todo[u], k)) =>
            Trail(C, w, q, seen[k], k, G)
  BY <1>1, <1>2, <1>3, <1>7, <1>9 DEF StatusTrail
<1>11. OneVoice(todo', k, Others, G)
  <2>1. \A j \in 1 .. Len(todo'[t]) : \E i \in 1 .. Len(todo[t]) : todo[t][i] = todo'[t][j]
    BY <1>3 DEF RestOwed
  <2>2. \A u \in Others \ {t} : todo'[u] = todo[u]
    BY <1>3 DEF Others
  <2>3. PICK td, td2 : td = todo /\ td2 = todo'
    OBVIOUS
  <2>4. OneVoice(td2, k, Others, G)
    BY <1>10, <2>1, <2>2, <2>3, VoiceRest
  <2> QED BY <2>3, <2>4
<1>12. SUFFICES ASSUME \A u \in Others : ~OwesTo("ring", todo'[u], k)
                PROVE  Trail(chan'["ring"], Owes(todo'["watcher"], k),
                             chan'["callback"], seen[k], k, G)
  BY <1>11
<1>13. 1 \in 1 .. Len(todo[t]) /\ o = todo[t][1]
  BY <1>3, TailElems
<1>14. CASE c = "ring" /\ r.topic = k
  <2>1. PICK D \in Seq(Reports) : chan'["ring"] = Append(D, r)
    <3>1. C # <<>> => Tail(C) \in Seq(Reports)
      BY <1>8, TailElems
    <3> QED BY <1>3, <1>5, <1>7, <1>8, <1>14, <3>1 DEF Sent
  <2>2. t \in Others
    BY <1>6, <1>14 DEF Others
  <2>3. r.value \in G
    BY <1>5, <1>10, <1>13, <1>14, <2>2 DEF OneVoice
  <2>4. Trail(Append(D, r), Owes(todo'["watcher"], k), chan'["callback"], seen[k], r.topic, G)
    BY <1>6, <2>3, TrailSend
  <2> QED BY <1>14, <2>1, <2>4
<1>15. CASE ~(c = "ring" /\ r.topic = k)
  <2>1. \A u \in Others : ~OwesTo("ring", todo[u], k)
    <3>1. \A u \in Others \ {t} : ~OwesTo("ring", todo[u], k)
      BY <1>3, <1>12 DEF Others
    <3>2. ASSUME OwesTo("ring", todo[t], k)
          PROVE  FALSE
      <4>1. c = "ring" /\ r.topic = k
        BY <1>3, <1>5, <3>2 DEF RestOwed
      <4> QED BY <1>15, <4>1
    <3> QED BY <3>1, <3>2
  <2>2. Trail(C, w, q, seen[k], k, G)
    BY <1>10, <2>1
  <2>3. CASE c = "leader"
    <3>1. chan'["ring"] = C /\ chan'["callback"] = q /\ r.topic # k
      BY <1>3, <1>5, <1>6, <1>7, <1>9, <2>3 DEF Sent, Channel
    <3>2. Owes(todo'["watcher"], k) = w
      BY <1>3, <1>5, <1>7, <3>1, OwedRest DEF Task
    <3> QED BY <2>2, <3>1, <3>2
  <2>4. CASE c = "ring"
    <3>1. chan'["callback"] = q /\ r.topic # k /\ t # "watcher"
      BY <1>3, <1>5, <1>6, <1>7, <1>15, <2>4 DEF Sent, Channel
    <3>2. Owes(todo'["watcher"], k) = w
      BY <1>3, <1>7, <3>1 DEF Task
    <3>3. CASE chan'["ring"] = Append(C, r)
      BY <1>6, <1>8, <2>2, <3>1, <3>2, <3>3, TrailSendOther
    <3>4. CASE C # <<>> /\ Head(C).topic # k /\ chan'["ring"] = Append(Tail(C), r)
      <4>1. Tail(C) \in Seq(Reports)
        BY <1>8, <3>4, TailElems
      <4>2. Trail(Tail(C), w, q, seen[k], k, G)
        BY <1>8, <2>2, <3>4, TrailDropOther
      <4> QED BY <1>6, <3>1, <3>2, <3>4, <4>1, <4>2, TrailSendOther
    <3> QED BY <1>3, <1>5, <1>7, <2>4, <3>3, <3>4 DEF Sent
  <2>5. CASE c = "callback" /\ r.topic # k
    <3>1. /\ chan'["ring"] = C
          /\ chan'["callback"] = q \/ chan'["callback"] = Append(q, r)
      BY <1>3, <1>5, <1>7, <2>5 DEF Sent, Channel
    <3>2. Owes(todo'["watcher"], k) = w
      BY <1>3, <1>5, <1>7, <2>5, OwedRest DEF Task
    <3>3. Trail(C, w, Append(q, r), seen[k], k, G)
      BY <1>6, <1>8, <2>2, <2>5, TrailQueueOther
    <3> QED BY <2>2, <3>1, <3>2, <3>3
  <2>6. CASE c = "callback" /\ r.topic = k /\ t = "watcher"
    <3>1. chan'["ring"] = C /\ chan'["callback"] = Append(q, r)
      BY <1>3, <1>5, <1>7, <2>6 DEF Sent, Channel
    <3>2. ~Owes(todo'["watcher"], k)
      BY <1>3, <1>5, <2>6 DEF RestOwed, Owes
    <3>3. w = TRUE
      BY <1>3, <1>5, <1>7, <1>8, <2>6, HeadOwes
    <3>4. Trail(C, FALSE, Append(q, r), seen[k], k, G)
      BY <1>6, <1>8, <2>2, <2>6, <3>3, TrailTold
    <3>5. Owes(todo'["watcher"], k) = FALSE
      BY <3>2 DEF Owes
    <3> QED BY <3>1, <3>4, <3>5
  <2>7. CASE c = "callback" /\ r.topic = k /\ t # "watcher"
    <3>1. chan'["ring"] = C /\ chan'["callback"] = Append(q, r)
      BY <1>3, <1>5, <1>7, <2>7 DEF Sent, Channel
    <3>2. Owes(todo'["watcher"], k) = w
      BY <1>3, <1>7, <2>7 DEF Task
    <3>3. r.value \in G
      BY <1>5, <1>10, <1>13, <2>7 DEF OneVoice, Others
    <3>4. Trail(C, w, Append(q, r), seen[k], k, G)
      BY <1>6, <1>8, <2>2, <2>7, <3>3, TrailCut
    <3> QED BY <3>1, <3>2, <3>4
  <2> QED BY <1>6, <2>3, <2>4, <2>5, <2>6, <2>7
<1> QED BY <1>14, <1>15

LEMMA ReportKeeps ==
  ASSUME EventsInv, NEW t \in Task, Report(t)
  PROVE  EventsInv'
<1>1. PICK o, b : o = Head(todo[t]) /\ b = Tail(todo[t])
  OBVIOUS
<1>2. Making(t, o, b) /\ Basics' /\ Pipes' /\ Debts'
  BY <1>1, ReportParts DEF EventsInv
<1>3. LeaderTrail'
  BY <1>2, ReportLeader DEF EventsInv
<1>4. \A p \in Peer : StatusTrail(p)'
  BY <1>2, ReportStatus DEF EventsInv
<1> QED BY <1>2, <1>3, <1>4 DEF EventsInv

-----------------------------------------------------------------------------
(* A task changes a topic and owes reports of it.                          *)

Adding(t, rs) ==
  /\ todo[t] = <<>> /\ todo'[t] = rs
  /\ \A u \in Task \ {t} : todo'[u] = todo[u]
  /\ crossed \subseteq crossed' /\ crossed' \subseteq Topics

\* Unless that is recorded, no other task owes a report of k; what the watcher
\* has still to say of a status is older than what comes through the ring.
Alone(t, k) ==
  k \notin crossed' =>
    \A u \in Task \ {t} : Owes(todo[u], k) => u = "watcher" /\ k # Leader

LEMMA ChangedWorks ==
  ASSUME Debts, crossed \subseteq Topics, NEW t \in Task, NEW k \in Topics,
         NEW rs \in Seq(Owing), todo[t] = <<>>, MayOwe(t, rs), Changed(t, k, rs),
         due' = due \/ due' = Nobody, t = "ping" => due' = Nobody
  PROVE  Debts' /\ Adding(t, rs) /\ Alone(t, k)
<1>1. <<>> \o rs = rs
  OBVIOUS
<1>2. todo' = [todo EXCEPT ![t] = rs]
  BY <1>1 DEF Changed
<1>3. todo'[t] = rs /\ \A u \in Task \ {t} : todo'[u] = todo[u]
  BY <1>2 DEF Debts
<1>4. todo' \in [Task -> Seq(Owing)]
  BY <1>2 DEF Debts
<1>5. \A u \in Task : MayOwe(u, todo'[u])
  BY <1>3 DEF Debts
<1>6. due' # Nobody => todo'["ping"] = <<>>
  BY <1>3 DEF Debts, Task
<1>7. Debts'
  BY <1>4, <1>5, <1>6 DEF Debts
<1>8. ASSUME k \notin crossed', NEW u \in Task \ {t}, Owes(todo[u], k)
      PROVE  u = "watcher" /\ k # Leader
  <2>1. ~Owed(t, k)
    BY <1>8 DEF Changed
  <2>2. DOMAIN todo[u] = 1 .. Len(todo[u])
    BY DEF Debts
  <2>3. PICK j \in 1 .. Len(todo[u]) : todo[u][j].report.topic = k
    BY <1>8 DEF Owes
  <2> QED BY <2>1, <2>2, <2>3 DEF Owed
<1>9. crossed \subseteq crossed' /\ crossed' \subseteq Topics
  BY DEF Changed
<1> QED BY <1>3, <1>7, <1>8, <1>9 DEF Adding, Alone

LEMMA NothingOwed ==
  ASSUME NEW k
  PROVE  ~Owes(<<>>, k) /\ \A c : ~OwesTo(c, <<>>, k)
<1>1. 1 .. Len(<<>>) = {}
  OBVIOUS
<1> QED BY <1>1 DEF Owes, OwesTo

\* A topic the reports are not about.
LEMMA VoiceOther ==
  ASSUME NEW td, NEW td2, NEW t, NEW k, NEW ts, NEW G, OneVoice(td, k, ts, G),
         \A u \in ts \ {t} : td2[u] = td[u], ~Owes(td2[t], k)
  PROVE  OneVoice(td2, k, ts, G)
<1>1. \A u \in ts : \A j \in 1 .. Len(td2[u]) :
        td2[u][j].report.topic = k =>
          \E i \in 1 .. Len(td[u]) : td[u][i] = td2[u][j]
  BY DEF Owes
<1> QED BY <1>1, VoiceKept

LEMMA LeaderOther ==
  ASSUME LeaderTrail, NEW t \in Task, NEW rs, Adding(t, rs), ~Owes(rs, Leader),
         UNCHANGED <<leader, seen>>, lost \subseteq lost',
         chan'["leader"] = chan["leader"], chan'["callback"] = chan["callback"]
  PROVE  LeaderTrail'
<1>1. PICK td, td2 : td = todo /\ td2 = todo'
  OBVIOUS
<1>2. /\ td[t] = <<>> /\ td2[t] = rs /\ crossed \subseteq crossed'
      /\ \A u \in Task \ {t} : td2[u] = td[u]
  BY <1>1 DEF Adding
<1>3. ~Owes(td2[t], Leader) /\ ~Owes(td[t], Leader)
  BY <1>2, NothingOwed
<1>4. OneVoice(td, Leader, Task, {leader}) => OneVoice(td2, Leader, Task, {leader})
  BY <1>2, <1>3, VoiceOther
<1>5. (\A u \in Task : ~Owes(td2[u], Leader)) => (\A u \in Task : ~Owes(td[u], Leader))
  BY <1>2, <1>3
<1>6. Heard(Leader)' = Heard(Leader)
  BY DEF Heard
<1> QED BY <1>1, <1>2, <1>4, <1>5, <1>6 DEF LeaderTrail

LEMMA StatusOther ==
  ASSUME NEW p \in Peer, StatusTrail(p), NEW t \in Task, NEW rs,
         Adding(t, rs), ~Owes(rs, StatusOf(p)), UNCHANGED seen,
         lost \subseteq lost', status'[p] = status[p],
         chan'["ring"] = chan["ring"], chan'["callback"] = chan["callback"]
  PROVE  StatusTrail(p)'
<1>1. PICK td, td2 : td = todo /\ td2 = todo'
  OBVIOUS
<1>2. PICK h : h = StatusOf(p)
  OBVIOUS
<1>3. /\ td[t] = <<>> /\ td2[t] = rs /\ crossed \subseteq crossed'
      /\ \A u \in Task \ {t} : td2[u] = td[u]
  BY <1>1 DEF Adding
<1>4. /\ ~Owes(td2[t], h) /\ ~Owes(td[t], h)
      /\ ~OwesTo("ring", td2[t], h) /\ ~OwesTo("ring", td[t], h)
  BY <1>2, <1>3, NothingOwed DEF Owes, OwesTo
<1>5. OneVoice(td, h, Others, Right(p)) => OneVoice(td2, h, Others, Right(p))
  BY <1>3, <1>4, VoiceOther DEF Others
<1>6. (\A u \in Others : ~OwesTo("ring", td2[u], h)) =>
        (\A u \in Others : ~OwesTo("ring", td[u], h))
  BY <1>3, <1>4 DEF Others
<1>7. Owes(td2["watcher"], h) = Owes(td["watcher"], h)
  <2>1. CASE t = "watcher"
    BY <1>4, <2>1 DEF Owes
  <2>2. CASE t # "watcher"
    BY <1>3, <2>2 DEF Task
  <2> QED BY <2>1, <2>2
<1>8. Right(p)' = Right(p)
  BY DEF Right
<1> QED BY <1>1, <1>2, <1>3, <1>5, <1>6, <1>7, <1>8 DEF StatusTrail

\* The topic the reports are about.
LEMMA LeaderNew ==
  ASSUME NEW t \in Task, NEW rs, Adding(t, rs), Alone(t, Leader),
         \A j \in 1 .. Len(rs) :
           rs[j].report.topic = Leader => rs[j].report.value = leader',
         Owes(rs, Leader)
  PROVE  LeaderTrail'
<1> SUFFICES ASSUME Leader \notin lost' \cup crossed'
             PROVE  /\ OneVoice(todo', Leader, Task, {leader'})
                    /\ ~(\A u \in Task : ~Owes(todo'[u], Leader))
  BY DEF LeaderTrail
<1>1. PICK td, td2, l : td = todo /\ td2 = todo' /\ l = leader'
  OBVIOUS
<1>2. td2[t] = rs /\ \A u \in Task \ {t} : td2[u] = td[u] /\ ~Owes(td[u], Leader)
  BY <1>1 DEF Adding, Alone
<1>3. OneVoice(td2, Leader, Task, {l})
  BY <1>1, <1>2, VoiceNew
<1> QED BY <1>1, <1>2, <1>3

\* The reports are right; they include one for the ring unless nothing changed.
LEMMA StatusNew ==
  ASSUME NEW p \in Peer, StatusTrail(p), NEW t \in Others, NEW rs,
         Adding(t, rs), Alone(t, StatusOf(p)), UNCHANGED <<seen, lost, chan>>,
         \A j \in 1 .. Len(rs) :
           rs[j].report.topic = StatusOf(p) => rs[j].report.value \in Right(p)',
         OwesTo("ring", rs, StatusOf(p)) \/ status'[p] = status[p]
  PROVE  StatusTrail(p)'
<1>1. PICK td, td2, G : td = todo /\ td2 = todo' /\ G = Right(p)'
  OBVIOUS
<1>2. PICK h : h = StatusOf(p)
  OBVIOUS
<1>3. t \in Task /\ t # "watcher"
  BY DEF Others
<1>4. /\ td[t] = <<>> /\ td2[t] = rs /\ crossed \subseteq crossed'
      /\ \A u \in Task \ {t} : td2[u] = td[u]
      /\ h \notin crossed' => \A u \in Others \ {t} : ~Owes(td[u], h)
  BY <1>1, <1>2 DEF Adding, Alone, Others
<1> SUFFICES ASSUME h \notin lost' \cup crossed'
             PROVE  /\ OneVoice(td2, h, Others, G)
                    /\ (\A u \in Others : ~OwesTo("ring", td2[u], h)) =>
                         Trail(chan["ring"], Owes(td2["watcher"], h), chan["callback"],
                               seen[h], h, G)
  BY <1>1, <1>2 DEF StatusTrail
<1>5. OneVoice(td2, h, Others, G)
  <2>1. \A u \in Others \ {t} : td2[u] = td[u] /\ ~Owes(td[u], h)
    BY <1>4 DEF Others
  <2>2. \A j \in 1 .. Len(td2[t]) :
          td2[t][j].report.topic = h => td2[t][j].report.value \in G
    BY <1>1, <1>2, <1>4
  <2> QED BY <2>1, <2>2, VoiceNew
<1>6. ASSUME \A u \in Others : ~OwesTo("ring", td2[u], h)
      PROVE  Trail(chan["ring"], Owes(td2["watcher"], h), chan["callback"], seen[h], h, G)
  <2>1. ~OwesTo("ring", rs, h)
    BY <1>4, <1>6
  <2>2. G = Right(p)
    BY <1>1, <1>2, <2>1 DEF Right
  <2>3. \A u \in Others : ~OwesTo("ring", td[u], h)
    BY <1>3, <1>4, <1>6, NothingOwed DEF Others
  <2>4. td2["watcher"] = td["watcher"]
    BY <1>3, <1>4 DEF Task
  <2> QED BY <1>1, <1>2, <1>4, <2>2, <2>3, <2>4 DEF StatusTrail
<1> QED BY <1>5, <1>6

-----------------------------------------------------------------------------
(* The steps that do so.                                                   *)

LEMMA One ==
  ASSUME NEW o, NEW k
  PROVE  /\ Len(<<o>>) = 1 /\ <<o>>[1] = o /\ 1 .. Len(<<o>>) = {1}
         /\ o \in Owing => <<o>> \in Seq(Owing)
         /\ Owes(<<o>>, k) <=> o.report.topic = k
         /\ \A c : OwesTo(c, <<o>>, k) <=> o.report.topic = k /\ o.to = c
<1>1. Len(<<o>>) = 1 /\ <<o>>[1] = o /\ 1 .. Len(<<o>>) = {1}
  OBVIOUS
<1>2. o \in Owing => <<o>> \in Seq(Owing)
  OBVIOUS
<1>3. Owes(<<o>>, k) <=> o.report.topic = k
  BY <1>1 DEF Owes
<1>4. \A c : OwesTo(c, <<o>>, k) <=> o.report.topic = k /\ o.to = c
  BY <1>1 DEF OwesTo
<1> QED BY <1>1, <1>2, <1>3, <1>4

LEMMA Two ==
  ASSUME NEW o, NEW x, NEW k
  PROVE  /\ Len(<<o, x>>) = 2 /\ <<o, x>>[1] = o /\ <<o, x>>[2] = x
         /\ 1 .. Len(<<o, x>>) = {1, 2}
         /\ o \in Owing /\ x \in Owing => <<o, x>> \in Seq(Owing)
         /\ Owes(<<o, x>>, k) <=> o.report.topic = k \/ x.report.topic = k
         /\ \A c : OwesTo(c, <<o, x>>, k) <=> \/ o.report.topic = k /\ o.to = c
                                              \/ x.report.topic = k /\ x.to = c
<1>1. /\ Len(<<o, x>>) = 2 /\ <<o, x>>[1] = o /\ <<o, x>>[2] = x
      /\ 1 .. Len(<<o, x>>) = {1, 2}
  OBVIOUS
<1>2. o \in Owing /\ x \in Owing => <<o, x>> \in Seq(Owing)
  OBVIOUS
<1>3. Owes(<<o, x>>, k) <=> o.report.topic = k \/ x.report.topic = k
  BY <1>1 DEF Owes
<1>4. \A c : OwesTo(c, <<o, x>>, k) <=> \/ o.report.topic = k /\ o.to = c
                                        \/ x.report.topic = k /\ x.to = c
  BY <1>1 DEF OwesTo
<1> QED BY <1>1, <1>2, <1>3, <1>4

LEMMA ConcatElems ==
  ASSUME NEW S, NEW a \in Seq(S), NEW b \in Seq(S)
  PROVE  /\ a \o b \in Seq(S) /\ Len(a \o b) = Len(a) + Len(b)
         /\ \A i \in 1 .. Len(a) + Len(b) :
              (a \o b)[i] = IF i <= Len(a) THEN a[i] ELSE b[i - Len(a)]
OBVIOUS

LEMMA SeqExt ==
  ASSUME NEW S, NEW a \in Seq(S), NEW b \in Seq(S), Len(a) = Len(b),
         \A i \in 1 .. Len(a) : a[i] = b[i]
  PROVE  a = b
<1>1. a \in [1 .. Len(a) -> S] /\ b \in [1 .. Len(a) -> S]
  OBVIOUS
<1> QED BY <1>1

LEMMA PairIs ==
  ASSUME NEW o, NEW x
  PROVE  <<o>> \o <<x>> = <<o, x>>
<1>1. PICK S : S = {o, x}
  OBVIOUS
<1>2. PICK a, b, c : a = <<o>> /\ b = <<x>> /\ c = <<o>> \o <<x>>
  OBVIOUS
<1>3. a \in Seq(S) /\ Len(a) = 1 /\ a[1] = o
  BY <1>1, <1>2
<1>4. b \in Seq(S) /\ Len(b) = 1 /\ b[1] = x
  BY <1>1, <1>2
<1>5. c = a \o b
  BY <1>2
<1>6. /\ c \in Seq(S) /\ Len(c) = Len(a) + Len(b)
      /\ \A i \in 1 .. Len(a) + Len(b) :
           c[i] = IF i <= Len(a) THEN a[i] ELSE b[i - Len(a)]
  BY <1>3, <1>4, <1>5, ConcatElems
<1>7. Len(c) = 2 /\ c[1] = o /\ c[2] = x
  <2>1. 1 \in 1 .. 2 /\ 2 \in 1 .. 2 /\ 2 - 1 = 1
    OBVIOUS
  <2> QED BY <1>3, <1>4, <1>6, <2>1
<1>8. PICK d : d = <<o, x>>
  OBVIOUS
<1>9. d \in Seq(S) /\ Len(d) = 2 /\ d[1] = o /\ d[2] = x
  BY <1>1, <1>8
<1>10. \A i \in 1 .. 2 : c[i] = d[i]
  BY <1>7, <1>9
<1>11. c = d
  BY <1>6, <1>7, <1>9, <1>10, SeqExt
<1> QED BY <1>2, <1>8, <1>11

LEMMA Counted ==
  ASSUME Basics, Count
  PROVE  /\ changes' \in 0 .. MaxChanges
         /\ link.retrying + link.returned <= changes'
         /\ link.retrying + link.returned + 1 <= changes'
<1>1. changes \in Nat /\ changes' = changes + 1 /\ changes < MaxChanges
  BY EventsAssumption DEF Basics, Count
<1>2. PICK x, y \in Nat : x = link.retrying /\ y = link.returned /\ x + y <= changes
  BY DEF Basics
<1>3. x + y <= changes' /\ x + y + 1 <= changes'
  BY <1>1, <1>2
<1>4. changes' \in 0 .. MaxChanges
  BY <1>1, EventsAssumption
<1> QED BY <1>2, <1>3, <1>4

LEMMA MostOwedIs ==
  /\ \A t \in {"handler", "app"} : MostOwed[t] = 1
  /\ \A t \in {"ping", "watcher"} : MostOwed[t] = 2
BY DEF MostOwed

LEMMA NameLeaderKeeps ==
  ASSUME EventsInv, NEW t \in Task, NEW l \in Peer \cup {Self}, NameLeader(t, l)
  PROVE  EventsInv'
<1> USE DEF EventsInv
<1>1. PICK o : o = To("leader", Says(Leader, l))
  OBVIOUS
<1>2. /\ t \in {"handler", "app"} /\ todo[t] = <<>>
      /\ leader' = l /\ Changed(t, Leader, <<o>>)
      /\ UNCHANGED <<status, link, due, chan, lagged, seen, lost>>
      /\ changes < MaxChanges /\ changes' = changes + 1
  BY <1>1 DEF NameLeader, Count
<1>3. l \in Value /\ "leader" \in Channel /\ Leader \in Topics
  BY TopicsApart DEF Value, Channel
<1>4. /\ o \in Owing /\ o.to = "leader" /\ o.report.topic = Leader
      /\ o.report.value = l
  BY <1>1, <1>3, SaysType, ToType
<1>5. MayOwe(t, <<o>>)
  BY <1>2, <1>4, One, MostOwedIs DEF MayOwe
<1>6. <<o>> \in Seq(Owing)
  BY <1>4, One
<1>7. Debts' /\ Adding(t, <<o>>) /\ Alone(t, Leader)
  BY <1>2, <1>3, <1>5, <1>6, ChangedWorks DEF Basics
<1>8. Basics'
  <2>1. changes' \in 0 .. MaxChanges /\ link.retrying + link.returned <= changes'
    BY Counted DEF NameLeader
  <2> QED BY <1>2, <1>7, <2>1 DEF Basics, Adding
<1>9. Pipes'
  BY <1>2 DEF Pipes
<1>10. LeaderTrail'
  <2>1. \A j \in 1 .. Len(<<o>>) :
          <<o>>[j].report.topic = Leader => <<o>>[j].report.value = leader'
    BY <1>2, <1>4, One
  <2>2. Owes(<<o>>, Leader)
    BY <1>4, One
  <2> QED BY <1>7, <2>1, <2>2, LeaderNew
<1>11. ASSUME NEW p \in Peer
       PROVE  StatusTrail(p)'
  <2>1. ~Owes(<<o>>, StatusOf(p))
    BY <1>4, One, TopicsApart
  <2> QED BY <1>2, <1>7, <2>1, StatusOther
<1> QED BY <1>7, <1>8, <1>9, <1>10, <1>11

\* A status changes and is reported to the ring.
LEMMA StatusChange ==
  ASSUME EventsInv, NEW t \in {"handler", "app"}, NEW p \in Peer,
         NEW s \in Status, NEW v \in {"Connected", "left"},
         s = "Connected" <=> v = "Connected", todo[t] = <<>>,
         status' = [status EXCEPT ![p] = s], Count,
         Changed(t, StatusOf(p), <<To("ring", Says(StatusOf(p), v))>>),
         UNCHANGED <<leader, link, due, chan, lagged, seen, lost>>
  PROVE  EventsInv'
<1> USE DEF EventsInv
<1>1. PICK o, k : o = To("ring", Says(StatusOf(p), v)) /\ k = StatusOf(p)
  OBVIOUS
<1>2. v \in Value /\ "ring" \in Channel /\ k \in Topics /\ t \in Task /\ t \in Others
  BY <1>1, TopicsApart DEF Value, Status, Channel, Task, Others
<1>3. o \in Owing /\ o.to = "ring" /\ o.report.topic = k /\ o.report.value = v
  BY <1>1, <1>2, SaysType, ToType
<1>4. MayOwe(t, <<o>>)
  BY <1>1, <1>3, One, MostOwedIs DEF MayOwe
<1>5. <<o>> \in Seq(Owing)
  BY <1>3, One
<1>6. Debts' /\ Adding(t, <<o>>) /\ Alone(t, k)
  BY <1>1, <1>2, <1>4, <1>5, ChangedWorks DEF Basics
<1>7. Basics'
  <2>1. status' \in [Peer -> Status]
    BY DEF Basics
  <2>2. changes' \in 0 .. MaxChanges /\ link.retrying + link.returned <= changes'
    BY Counted
  <2> QED BY <1>6, <2>1, <2>2 DEF Basics, Adding
<1>8. Pipes'
  BY DEF Pipes
<1>9. LeaderTrail'
  <2>1. ~Owes(<<o>>, Leader)
    BY <1>1, <1>3, One, TopicsApart
  <2> QED BY <1>2, <1>6, <2>1, LeaderOther
<1>10. ASSUME NEW q \in Peer
       PROVE  StatusTrail(q)'
  <2>1. CASE q = p
    <3>1. status'[p] = s
      BY DEF Basics
    <3>2. v \in Right(p)'
      BY <1>2, <3>1 DEF Right
    <3>3. \A j \in 1 .. Len(<<o>>) :
            <<o>>[j].report.topic = StatusOf(p) => <<o>>[j].report.value \in Right(p)'
      BY <1>3, <3>2, One
    <3>4. OwesTo("ring", <<o>>, StatusOf(p))
      BY <1>1, <1>3, One
    <3>5. StatusTrail(p)'
      BY <1>1, <1>2, <1>6, <3>3, <3>4, StatusNew
    <3> QED BY <2>1, <3>5
  <2>2. CASE q # p
    <3>1. ~Owes(<<o>>, StatusOf(q))
      BY <1>1, <1>3, <2>2, One, TopicsApart
    <3>2. status'[q] = status[q]
      BY <2>2 DEF Basics
    <3> QED BY <1>2, <1>6, <3>1, <3>2, StatusOther
  <2> QED BY <2>1, <2>2
<1> QED BY <1>6, <1>7, <1>8, <1>9, <1>10

LEMMA AddPeerKeeps ==
  ASSUME EventsInv, NEW p \in Peer, AddPeer(p)
  PROVE  EventsInv'
<1>1. "Connected" \in Status
  BY DEF Status
<1> QED BY <1>1, StatusChange DEF AddPeer

LEMMA RemovePeerKeeps ==
  ASSUME EventsInv, NEW t \in Task, NEW p \in Peer, RemovePeer(t, p)
  PROVE  EventsInv'
<1>1. "absent" \in Status
  BY DEF Status
<1> QED BY <1>1, StatusChange DEF RemovePeer

LEMMA MarkTimeoutKeeps ==
  ASSUME EventsInv, MarkTimeout
  PROVE  EventsInv'
<1> USE DEF EventsInv
<1>1. PICK p, k, r : p = due /\ k = StatusOf(p) /\ r = Says(k, "Disconnected")
  OBVIOUS
<1>2. PICK o, x : o = To("ring", r) /\ x = To("callback", r)
  OBVIOUS
<1>3. PICK rs : rs = (IF status[p] = "Connected" THEN <<o>> ELSE <<>>) \o <<x>>
  OBVIOUS
<1>4. /\ p # Nobody /\ due' = Nobody
      /\ status' = [status EXCEPT ![p] = IF @ = "Connected" THEN "Disconnected" ELSE @]
      /\ Changed("ping", k, rs)
      /\ UNCHANGED <<leader, link, chan, lagged, seen, lost, changes>>
  BY <1>1, <1>2, <1>3 DEF MarkTimeout
<1>5. p \in Peer /\ todo["ping"] = <<>> /\ "ping" \in Task /\ "ping" \in Others
  BY <1>1, <1>4 DEF Basics, Debts, Task, Others
<1>6. /\ "Disconnected" \in Value /\ {"ring", "callback"} \subseteq Channel
      /\ k \in Topics /\ k # Leader
  BY <1>1, <1>5, TopicsApart DEF Value, Status, Channel
<1>7. r \in Reports /\ r.topic = k /\ r.value = "Disconnected"
  BY <1>1, <1>6, SaysType
<1>8. /\ o \in Owing /\ o.to = "ring" /\ o.report = r
      /\ x \in Owing /\ x.to = "callback" /\ x.report = r
  BY <1>2, <1>6, <1>7, ToType
<1>9. IF status[p] = "Connected" THEN rs = <<o, x>> ELSE rs = <<x>>
  <2>1. <<o>> \o <<x>> = <<o, x>>
    BY PairIs
  <2>2. <<>> \o <<x>> = <<x>>
    OBVIOUS
  <2> QED BY <1>3, <2>1, <2>2
<1>10. /\ rs \in Seq(Owing) /\ MayOwe("ping", rs)
       /\ \A j \in 1 .. Len(rs) : rs[j].report = r
       /\ status[p] = "Connected" => OwesTo("ring", rs, k)
       /\ \A h : Owes(rs, h) => h = k
  <2>1. CASE rs = <<o, x>>
    <3>1. /\ Len(rs) = 2 /\ rs[1] = o /\ rs[2] = x /\ 1 .. Len(rs) = {1, 2}
          /\ rs \in Seq(Owing) /\ OwesTo("ring", rs, k)
      BY <1>7, <1>8, <2>1, Two
    <3>2. MayOwe("ping", rs)
      BY <1>1, <1>2, <1>5, <3>1, MostOwedIs DEF MayOwe
    <3>3. \A h : Owes(rs, h) => h = k
      BY <1>7, <1>8, <3>1 DEF Owes
    <3> QED BY <1>8, <3>1, <3>2, <3>3
  <2>2. CASE rs = <<x>> /\ status[p] # "Connected"
    <3>1. /\ Len(rs) = 1 /\ rs[1] = x /\ 1 .. Len(rs) = {1} /\ rs \in Seq(Owing)
      BY <1>8, <2>2, One
    <3>2. MayOwe("ping", rs)
      BY <1>1, <1>2, <1>5, <3>1, MostOwedIs DEF MayOwe
    <3>3. \A h : Owes(rs, h) => h = k
      BY <1>7, <1>8, <3>1 DEF Owes
    <3> QED BY <1>8, <2>2, <3>1, <3>2, <3>3
  <2> QED BY <1>9, <2>1, <2>2
<1>11. Debts' /\ Adding("ping", rs) /\ Alone("ping", k)
  BY <1>4, <1>5, <1>6, <1>10, ChangedWorks DEF Basics
<1>12. Basics'
  <2>1. status' \in [Peer -> Status]
    BY <1>4 DEF Basics, Status
  <2> QED BY <1>4, <1>11, <2>1 DEF Basics, Adding
<1>13. Pipes'
  BY <1>4 DEF Pipes
<1>14. LeaderTrail'
  <2>1. ~Owes(rs, Leader)
    BY <1>6, <1>10
  <2> QED BY <1>4, <1>5, <1>11, <2>1, LeaderOther
<1>15. ASSUME NEW q \in Peer
       PROVE  StatusTrail(q)'
  <2>1. CASE q = p
    <3>1. /\ status'[p] # "Connected"
          /\ status[p] # "Connected" => status'[p] = status[p]
      BY <1>4, <1>5 DEF Basics
    <3>2. "Disconnected" \in Right(p)'
      BY <1>6, <3>1 DEF Right
    <3>3. \A j \in 1 .. Len(rs) :
            rs[j].report.topic = StatusOf(p) => rs[j].report.value \in Right(p)'
      BY <1>7, <1>10, <3>2
    <3>4. OwesTo("ring", rs, StatusOf(p)) \/ status'[p] = status[p]
      BY <1>1, <1>10, <3>1
    <3>5. StatusTrail(p)'
      BY <1>1, <1>4, <1>5, <1>11, <3>3, <3>4, StatusNew
    <3> QED BY <2>1, <3>5
  <2>2. CASE q # p
    <3>1. ~Owes(rs, StatusOf(q))
      BY <1>1, <1>5, <1>10, <2>2, TopicsApart
    <3>2. status'[q] = status[q]
      BY <1>4, <2>2 DEF Basics
    <3> QED BY <1>4, <1>5, <1>11, <3>1, <3>2, StatusOther
  <2> QED BY <2>1, <2>2
<1> QED BY <1>11, <1>12, <1>13, <1>14, <1>15

LEMMA BecomeLeaderKeeps ==
  ASSUME EventsInv, BecomeLeader
  PROVE  EventsInv'
<1> USE DEF EventsInv
<1>1. PICK r : r = Says(Leader, Self)
  OBVIOUS
<1>2. /\ leader' = Self /\ Send("leader", r) /\ Changed("timer", Leader, <<>>)
      /\ UNCHANGED <<status, link, due, seen>> /\ Count
  BY <1>1 DEF BecomeLeader
<1>3. /\ "timer" \in Task /\ "leader" \in Channel /\ Leader \in Topics
      /\ Self \in Value
  BY TopicsApart DEF Task, Channel, Value
<1>4. r \in Reports /\ r.topic = Leader /\ r.value = Self /\ Carries("leader", r)
  BY <1>1, <1>3, SaysType DEF Carries
<1>5. Pipes' /\ lost' \subseteq Topics /\ lagged' \in BOOLEAN /\ Sent("leader", r)
  BY <1>2, <1>3, <1>4, SendWorks DEF Basics
<1>6. todo["timer"] \in Seq(Owing) /\ Len(todo["timer"]) = 0
  BY <1>3, OwedLength DEF Debts
<1>7. todo["timer"] = <<>> /\ <<>> \in Seq(Owing) /\ MayOwe("timer", <<>>)
  BY <1>3, <1>6, MostOwedType DEF MayOwe
<1>8. Debts' /\ Adding("timer", <<>>) /\ Alone("timer", Leader)
  BY <1>2, <1>3, <1>7, ChangedWorks DEF Basics
<1>9. Basics'
  <2>1. changes' \in 0 .. MaxChanges /\ link.retrying + link.returned <= changes'
    BY <1>2, Counted
  <2> QED BY <1>2, <1>5, <1>8, <2>1 DEF Basics, Adding
<1>10. /\ chan'["ring"] = chan["ring"] /\ chan'["callback"] = chan["callback"]
       /\ lost \subseteq lost'
       /\ Leader \notin lost' => chan'["leader"] = Append(chan["leader"], r)
  BY <1>4, <1>5 DEF Sent, Channel
<1>11. LeaderTrail'
  <2> SUFFICES ASSUME Leader \notin lost' \cup crossed'
               PROVE  /\ OneVoice(todo', Leader, Task, {leader'})
                      /\ Trail(chan'["leader"], FALSE, chan'["callback"],
                               Heard(Leader)', Leader, {leader'})
    BY DEF LeaderTrail
  <2>1. PICK td, td2, C : td = todo /\ td2 = todo' /\ C = chan["leader"]
    OBVIOUS
  <2>2. /\ \A u \in Task \ {"timer"} : td2[u] = td[u] /\ ~Owes(td[u], Leader)
        /\ td2["timer"] = <<>> /\ 1 .. Len(td2["timer"]) = {}
    BY <1>8, <2>1 DEF Adding, Alone
  <2>3. OneVoice(td2, Leader, Task, {Self})
    BY <1>3, <2>2, VoiceNew
  <2>4. C \in Seq(Reports)
    BY <1>3, <2>1 DEF Pipes, PipeFine
  <2>5. Trail(Append(C, r), FALSE, chan'["callback"], Heard(Leader)', r.topic, {Self})
    BY <1>4, <2>4, TrailSend
  <2> QED BY <1>2, <1>4, <1>10, <2>1, <2>3, <2>5
<1>12. ASSUME NEW p \in Peer
       PROVE  StatusTrail(p)'
  <2>1. ~Owes(<<>>, StatusOf(p))
    BY NothingOwed
  <2> QED BY <1>2, <1>3, <1>8, <1>10, <2>1, StatusOther
<1> QED BY <1>5, <1>8, <1>9, <1>11, <1>12

LEMMA WatchLeftKeeps ==
  ASSUME EventsInv, WatchLeft
  PROVE  EventsInv'
<1> USE DEF EventsInv
<1>1. PICK C, k, f : C = chan["ring"] /\ k = Head(chan["ring"]).topic
                       /\ f = (leader = k[2])
  OBVIOUS
<1>2. PICK o, x : /\ o = To("leader", Says(Leader, Nobody))
                  /\ x = To("callback", Says(k, "Disconnected"))
  OBVIOUS
<1>3. PICK rs : rs = (IF f THEN <<o>> ELSE <<>>) \o <<x>>
  OBVIOUS
<1>4. /\ C # <<>> /\ todo["watcher"] = <<>> /\ Head(C).value = "left"
      /\ chan' = [chan EXCEPT !["ring"] = Tail(C)]
      /\ leader' = IF f THEN Nobody ELSE leader
      /\ crossed' = IF f /\ Owed("watcher", Leader) THEN crossed \cup {Leader}
                    ELSE crossed
      /\ todo' = [todo EXCEPT !["watcher"] = rs]
      /\ UNCHANGED <<status, link, due, lagged, seen, lost, changes>>
  BY <1>1, <1>2, <1>3 DEF WatchLeft
<1>5. /\ "ring" \in Channel /\ "leader" \in Channel /\ "callback" \in Channel
      /\ "watcher" \in Task
  BY DEF Channel, Task
<1>6. /\ PipeFine("ring", Tail(C)) /\ Carries("ring", Head(C))
      /\ C \in Seq(Reports)
  BY <1>1, <1>4, <1>5, PipeTail DEF Pipes, PipeFine
<1>7. PICK p \in Peer : k = StatusOf(p)
  BY <1>1, <1>6 DEF Carries
<1>8. k \in Topics /\ k # Leader /\ Leader \in Topics /\ f = (leader = p)
  BY <1>1, <1>7, TopicsApart
<1>9. "Disconnected" \in Value /\ Nobody \in Value
  BY DEF Value, Status
<1>10. /\ o \in Owing /\ o.to = "leader" /\ o.report.topic = Leader
       /\ o.report.value = Nobody
       /\ x \in Owing /\ x.to = "callback" /\ x.report.topic = k
  BY <1>2, <1>5, <1>8, <1>9, SaysType, ToType
<1>11. IF f THEN rs = <<o, x>> ELSE rs = <<x>>
  <2>1. <<o>> \o <<x>> = <<o, x>>
    BY PairIs
  <2>2. <<>> \o <<x>> = <<x>>
    OBVIOUS
  <2> QED BY <1>3, <2>1, <2>2
<1>12. /\ rs \in Seq(Owing) /\ MayOwe("watcher", rs)
       /\ \A h : Owes(rs, h) <=> h = k \/ (f /\ h = Leader)
       /\ \A j \in 1 .. Len(rs) :
            rs[j].report.topic = Leader => rs[j].report.value = Nobody
  <2>1. CASE rs = <<o, x>> /\ f
    <3>1. /\ Len(rs) = 2 /\ rs[1] = o /\ rs[2] = x /\ 1 .. Len(rs) = {1, 2}
          /\ rs \in Seq(Owing)
      BY <1>10, <2>1, Two
    <3>2. MayOwe("watcher", rs)
      BY <1>2, <1>7, <3>1, MostOwedIs DEF MayOwe
    <3>3. \A h : Owes(rs, h) <=> h = k \/ (f /\ h = Leader)
      BY <1>10, <2>1, <3>1 DEF Owes
    <3> QED BY <1>8, <1>10, <3>1, <3>2, <3>3
  <2>2. CASE rs = <<x>> /\ ~f
    <3>1. Len(rs) = 1 /\ rs[1] = x /\ 1 .. Len(rs) = {1} /\ rs \in Seq(Owing)
      BY <1>10, <2>2, One
    <3>2. MayOwe("watcher", rs)
      BY <1>2, <1>7, <3>1, MostOwedIs DEF MayOwe
    <3>3. \A h : Owes(rs, h) <=> h = k \/ (f /\ h = Leader)
      BY <1>10, <2>2, <3>1 DEF Owes
    <3> QED BY <1>8, <1>10, <3>1, <3>2, <3>3
  <2> QED BY <1>11, <2>1, <2>2
<1>13. todo'["watcher"] = rs /\ \A u \in Task \ {"watcher"} : todo'[u] = todo[u]
  BY <1>4, <1>5 DEF Debts
<1>14. Debts'
  <2>1. todo' \in [Task -> Seq(Owing)]
    BY <1>4, <1>5, <1>12 DEF Debts
  <2>2. \A u \in Task : MayOwe(u, todo'[u])
    BY <1>12, <1>13 DEF Debts
  <2>3. due' # Nobody => todo'["ping"] = <<>>
    BY <1>4, <1>13 DEF Debts, Task
  <2> QED BY <2>1, <2>2, <2>3 DEF Debts
<1>15. /\ chan' = [c \in Channel |-> chan'[c]] /\ chan'["ring"] = Tail(C)
       /\ \A c \in Channel \ {"ring"} : chan'[c] = chan[c]
  BY <1>4, <1>5 DEF Pipes
<1>16. Pipes'
  BY <1>6, <1>15 DEF Pipes
<1>17. Adding("watcher", rs) /\ (f => Alone("watcher", Leader))
  <2>1. crossed \subseteq crossed' /\ crossed' \subseteq Topics
    BY <1>4, <1>8 DEF Basics
  <2>2. ASSUME f, Leader \notin crossed', NEW u \in Task \ {"watcher"},
               Owes(todo[u], Leader)
        PROVE  FALSE
    <3>1. ~Owed("watcher", Leader)
      BY <1>4, <2>2
    <3>2. DOMAIN todo[u] = 1 .. Len(todo[u])
      BY DEF Debts
    <3>3. PICK j \in 1 .. Len(todo[u]) : todo[u][j].report.topic = Leader
      BY <2>2 DEF Owes
    <3> QED BY <3>1, <3>2, <3>3 DEF Owed
  <2> QED BY <1>4, <1>13, <2>1, <2>2 DEF Adding, Alone
<1>18. Basics'
  BY <1>4, <1>17 DEF Basics, Adding
<1>19. LeaderTrail'
  <2>1. CASE f
    <3>1. Owes(rs, Leader)
      BY <1>12, <2>1
    <3> QED BY <1>4, <1>5, <1>12, <1>17, <2>1, <3>1, LeaderNew
  <2>2. CASE ~f
    <3>1. ~Owes(rs, Leader)
      BY <1>8, <1>12, <2>2
    <3> QED BY <1>4, <1>5, <1>15, <1>17, <2>2, <3>1, LeaderOther
  <2>3. f \in BOOLEAN
    BY <1>8
  <2> QED BY <2>1, <2>2, <2>3
<1>20. ASSUME NEW q \in Peer
       PROVE  StatusTrail(q)'
  <2>1. PICK h, G : h = StatusOf(q) /\ G = Right(q)
    OBVIOUS
  <2>2. PICK td, td2, cb : td = todo /\ td2 = todo' /\ cb = chan["callback"]
    OBVIOUS
  <2>3. Right(q)' = G /\ \A u \in Others : td2[u] = td[u]
    BY <1>4, <1>13, <2>1, <2>2 DEF Right, Others
  <2> SUFFICES ASSUME h \notin lost' \cup crossed'
               PROVE  /\ OneVoice(td2, h, Others, G)
                      /\ (\A u \in Others : ~OwesTo("ring", td2[u], h)) =>
                           Trail(Tail(C), Owes(rs, h), cb, seen[h], h, G)
    BY <1>4, <1>5, <1>13, <1>15, <2>1, <2>2, <2>3 DEF StatusTrail
  <2>4. h \notin lost \cup crossed
    BY <1>4
  <2>5. Owes(td["watcher"], h) = FALSE
    BY <1>4, <2>2, NothingOwed DEF Owes
  <2>6. /\ OneVoice(td, h, Others, G)
        /\ (\A u \in Others : ~OwesTo("ring", td[u], h)) =>
             Trail(C, FALSE, cb, seen[h], h, G)
    BY <1>1, <2>1, <2>2, <2>4, <2>5 DEF StatusTrail
  <2>7. OneVoice(td2, h, Others, G)
    BY <2>3, <2>6 DEF OneVoice
  <2>8. ASSUME Trail(C, FALSE, cb, seen[h], h, G)
        PROVE  Trail(Tail(C), Owes(rs, h), cb, seen[h], h, G)
    <3>1. CASE q = p
      <4>1. Owes(rs, h) = TRUE
        BY <1>7, <1>12, <2>1, <3>1 DEF Owes
      <4>2. Head(C).topic = h /\ (Head(C).value \in G => "Disconnected" \in G)
        BY <1>1, <1>4, <1>7, <1>9, <2>1, <3>1 DEF Right
      <4>3. Trail(Tail(C), TRUE, cb, seen[h], h, G)
        BY <1>4, <1>6, <2>8, <4>2, TrailTake
      <4> QED BY <4>1, <4>3
    <3>2. CASE q # p
      <4>1. h # k /\ h # Leader
        BY <1>7, <2>1, <3>2, TopicsApart
      <4>2. Owes(rs, h) = FALSE
        BY <1>12, <4>1 DEF Owes
      <4>3. Trail(Tail(C), FALSE, cb, seen[h], h, G)
        BY <1>1, <1>4, <1>6, <2>8, <4>1, TrailDropOther
      <4> QED BY <4>2, <4>3
    <3> QED BY <3>1, <3>2
  <2> QED BY <2>3, <2>6, <2>7, <2>8
<1> QED BY <1>14, <1>16, <1>18, <1>19, <1>20

-----------------------------------------------------------------------------
(* Steps that leave alone what the tasks owe.                              *)

LEMMA LeaderKept ==
  ASSUME LeaderTrail, UNCHANGED <<todo, leader, crossed>>, lost \subseteq lost',
         /\ Leader \notin lost'
         /\ Trail(chan["leader"], FALSE, chan["callback"], Heard(Leader), Leader, {leader})
         => Trail(chan'["leader"], FALSE, chan'["callback"], Heard(Leader)', Leader, {leader})
  PROVE  LeaderTrail'
BY DEF LeaderTrail

LEMMA StatusKept ==
  ASSUME NEW p \in Peer, StatusTrail(p), UNCHANGED <<todo, status, crossed>>,
         lost \subseteq lost',
         /\ StatusOf(p) \notin lost'
         /\ Trail(chan["ring"], Owes(todo["watcher"], StatusOf(p)), chan["callback"],
                  seen[StatusOf(p)], StatusOf(p), Right(p))
         => Trail(chan'["ring"], Owes(todo["watcher"], StatusOf(p)), chan'["callback"],
                  seen'[StatusOf(p)], StatusOf(p), Right(p))
  PROVE  StatusTrail(p)'
<1>1. Right(p)' = Right(p)
  BY DEF Right
<1> QED BY <1>1 DEF StatusTrail

\* A step that touches neither the channels of the leader and the statuses nor
\* the callback queue.
LEMMA TrailsSame ==
  ASSUME EventsInv, UNCHANGED <<todo, leader, status, crossed, seen>>,
         lost \subseteq lost', chan'["leader"] = chan["leader"],
         chan'["ring"] = chan["ring"], chan'["callback"] = chan["callback"]
  PROVE  LeaderTrail' /\ \A p \in Peer : StatusTrail(p)'
<1>1. Heard(Leader)' = Heard(Leader)
  BY DEF Heard
<1>2. LeaderTrail'
  BY <1>1, LeaderKept DEF EventsInv
<1>3. \A p \in Peer : StatusTrail(p)'
  BY StatusKept DEF EventsInv
<1> QED BY <1>2, <1>3

\* A watcher's report of another topic reaches the callback queue, or is dropped.
LEMMA OtherForwarded ==
  ASSUME NEW c, NEW w \in BOOLEAN, NEW q \in Seq(Reports), NEW q2, NEW h, NEW k,
         NEW G, NEW r \in Reports, r.topic # k, q2 = q \/ q2 = Append(q, r),
         Trail(c, w, q, h, k, G)
  PROVE  Trail(c, w, q2, h, k, G)
<1>1. Trail(c, w, Append(q, r), h, k, G)
  BY TrailQueueOther
<1> QED BY <1>1

LEMMA WatchLeaderKeeps ==
  ASSUME EventsInv, WatchLeader
  PROVE  EventsInv'
<1> USE DEF EventsInv
<1>1. PICK C, q, q2, r : C = chan["leader"] /\ q = chan["callback"]
                           /\ q2 = chan'["callback"] /\ r = Head(chan["leader"])
  OBVIOUS
<1>2. /\ C # <<>> /\ Forward("leader", r.value)
      /\ UNCHANGED <<leader, status, link, todo, due, lagged, seen, crossed, changes>>
  BY <1>1 DEF WatchLeader
<1>3. "leader" \in Channel \ {"callback"} /\ {"callback", "ring"} \subseteq Channel
  BY DEF Channel
<1>4. /\ Pipes' /\ lost' \subseteq Topics /\ r \in Reports /\ Carries("leader", r)
      /\ Forwarded("leader", r)
  BY <1>1, <1>2, <1>3, ForwardWorks DEF Basics
<1>5. /\ chan'["leader"] = Tail(C) /\ chan'["ring"] = chan["ring"] /\ lost \subseteq lost'
      /\ q2 = q \/ q2 = Append(q, r)
      /\ r.topic \notin lost' => q2 = Append(q, r)
  BY <1>1, <1>3, <1>4 DEF Forwarded
<1>6. C \in Seq(Reports) /\ q \in Seq(Reports) /\ r.topic = Leader
  BY <1>1, <1>3, <1>4 DEF Pipes, PipeFine, Carries
<1>7. Basics' /\ Debts'
  BY <1>2, <1>4 DEF Basics, Debts
<1>8. LeaderTrail'
  <2>1. Heard(Leader)' = Heard(Leader)
    BY <1>2 DEF Heard
  <2>2. PICK h, G : h = Heard(Leader) /\ G = {leader}
    OBVIOUS
  <2>3. Trail(C, FALSE, q, h, Leader, G) => Trail(Tail(C), FALSE, Append(q, r), h, Leader, G)
    BY <1>1, <1>2, <1>4, <1>6, TrailForward
  <2> QED BY <1>1, <1>2, <1>5, <1>6, <2>1, <2>2, <2>3, LeaderKept
<1>9. ASSUME NEW p \in Peer
      PROVE  StatusTrail(p)'
  <2>1. PICK h, G, w, k : h = seen[StatusOf(p)] /\ G = Right(p)
                        /\ w = Owes(todo["watcher"], StatusOf(p)) /\ k = StatusOf(p)
    OBVIOUS
  <2>2. w \in BOOLEAN /\ r.topic # k
    BY <1>6, <2>1, TopicsApart DEF Owes
  <2>3. Trail(chan["ring"], w, q, h, k, G) => Trail(chan["ring"], w, q2, h, k, G)
    BY <1>4, <1>5, <1>6, <2>2, OtherForwarded
  <2> QED BY <1>1, <1>2, <1>5, <2>1, <2>3, StatusKept
<1> QED BY <1>4, <1>7, <1>8, <1>9

LEMMA WatchReconnectKeeps ==
  ASSUME EventsInv, WatchReconnect
  PROVE  EventsInv'
<1> USE DEF EventsInv
<1>1. PICK q, q2, r : q = chan["callback"] /\ q2 = chan'["callback"]
                        /\ r = Head(chan["reconnect"])
  OBVIOUS
<1>2. /\ chan["reconnect"] # <<>> /\ Forward("reconnect", r.value)
      /\ UNCHANGED <<leader, status, link, todo, due, lagged, seen, crossed, changes>>
  BY <1>1 DEF WatchReconnect
<1>3. "reconnect" \in Channel \ {"callback"} /\ {"callback", "ring", "leader"} \subseteq Channel
  BY DEF Channel
<1>4. /\ Pipes' /\ lost' \subseteq Topics /\ r \in Reports /\ Carries("reconnect", r)
      /\ Forwarded("reconnect", r)
  BY <1>1, <1>2, <1>3, ForwardWorks DEF Basics
<1>5. /\ chan'["leader"] = chan["leader"] /\ chan'["ring"] = chan["ring"]
      /\ lost \subseteq lost' /\ (q2 = q \/ q2 = Append(q, r))
  BY <1>1, <1>3, <1>4 DEF Forwarded
<1>6. q \in Seq(Reports) /\ r.topic = Reconnect
  BY <1>1, <1>3, <1>4 DEF Pipes, PipeFine, Carries
<1>7. Basics' /\ Debts'
  BY <1>2, <1>4 DEF Basics, Debts
<1>8. LeaderTrail'
  <2>1. Heard(Leader)' = Heard(Leader)
    BY <1>2 DEF Heard
  <2>2. PICK h, G : h = Heard(Leader) /\ G = {leader}
    OBVIOUS
  <2>3. r.topic # Leader
    BY <1>6, TopicsApart
  <2>4. Trail(chan["leader"], FALSE, q, h, Leader, G) =>
          Trail(chan["leader"], FALSE, q2, h, Leader, G)
    BY <1>4, <1>5, <1>6, <2>3, OtherForwarded
  <2> QED BY <1>1, <1>2, <1>5, <2>1, <2>2, <2>4, LeaderKept
<1>9. ASSUME NEW p \in Peer
      PROVE  StatusTrail(p)'
  <2>1. PICK h, G, w, k : h = seen[StatusOf(p)] /\ G = Right(p)
                        /\ w = Owes(todo["watcher"], StatusOf(p)) /\ k = StatusOf(p)
    OBVIOUS
  <2>2. w \in BOOLEAN /\ r.topic # k
    BY <1>6, <2>1, TopicsApart DEF Owes
  <2>3. Trail(chan["ring"], w, q, h, k, G) => Trail(chan["ring"], w, q2, h, k, G)
    BY <1>4, <1>5, <1>6, <2>2, OtherForwarded
  <2> QED BY <1>1, <1>2, <1>5, <2>1, <2>3, StatusKept
<1> QED BY <1>4, <1>7, <1>8, <1>9

LEMMA WatchStatusKeeps ==
  ASSUME EventsInv, WatchStatus
  PROVE  EventsInv'
<1> USE DEF EventsInv
<1>1. PICK C, q, q2, r : C = chan["ring"] /\ q = chan["callback"]
                           /\ q2 = chan'["callback"] /\ r = Head(chan["ring"])
  OBVIOUS
<1>2. /\ C # <<>> /\ todo["watcher"] = <<>> /\ Forward("ring", r.value)
      /\ UNCHANGED <<leader, status, link, todo, due, lagged, seen, crossed, changes>>
  BY <1>1 DEF WatchStatus
<1>3. "ring" \in Channel \ {"callback"} /\ {"callback", "leader"} \subseteq Channel
  BY DEF Channel
<1>4. /\ Pipes' /\ lost' \subseteq Topics /\ r \in Reports /\ Carries("ring", r)
      /\ Forwarded("ring", r)
  BY <1>1, <1>2, <1>3, ForwardWorks DEF Basics
<1>5. /\ chan'["ring"] = Tail(C) /\ chan'["leader"] = chan["leader"] /\ lost \subseteq lost'
      /\ q2 = q \/ q2 = Append(q, r)
      /\ r.topic \notin lost' => q2 = Append(q, r)
  BY <1>1, <1>3, <1>4 DEF Forwarded
<1>6. C \in Seq(Reports) /\ q \in Seq(Reports)
  BY <1>1, <1>3 DEF Pipes, PipeFine
<1>7. PICK p \in Peer : r.topic = StatusOf(p)
  BY <1>4 DEF Carries
<1>8. Basics' /\ Debts'
  BY <1>2, <1>4 DEF Basics, Debts
<1>9. LeaderTrail'
  <2>1. Heard(Leader)' = Heard(Leader)
    BY <1>2 DEF Heard
  <2>2. PICK h, G : h = Heard(Leader) /\ G = {leader}
    OBVIOUS
  <2>3. r.topic # Leader
    BY <1>7, TopicsApart
  <2>4. Trail(chan["leader"], FALSE, q, h, Leader, G) =>
          Trail(chan["leader"], FALSE, q2, h, Leader, G)
    BY <1>4, <1>5, <1>6, <2>3, OtherForwarded
  <2> QED BY <1>1, <1>2, <1>5, <2>1, <2>2, <2>4, LeaderKept
<1>10. ASSUME NEW s \in Peer
       PROVE  StatusTrail(s)'
  <2>1. PICK h, G, k : h = seen[StatusOf(s)] /\ G = Right(s) /\ k = StatusOf(s)
    OBVIOUS
  <2>2. Owes(todo["watcher"], k) = FALSE
    BY <1>2, NothingOwed DEF Owes
  <2>3. ASSUME k \notin lost', Trail(C, FALSE, q, h, k, G)
        PROVE  Trail(Tail(C), FALSE, q2, h, k, G)
    <3>1. CASE k = r.topic
      <4>1. q2 = Append(q, r)
        BY <1>5, <2>3, <3>1
      <4> QED BY <1>1, <1>2, <1>4, <1>6, <2>3, <3>1, <4>1, TrailForward
    <3>2. CASE k # r.topic
      <4>1. Trail(Tail(C), FALSE, q, h, k, G)
        BY <1>1, <1>2, <1>6, <2>3, <3>2, TrailDropOther
      <4> QED BY <1>4, <1>5, <1>6, <3>2, <4>1, OtherForwarded
    <3> QED BY <3>1, <3>2
  <2> QED BY <1>1, <1>2, <1>5, <2>1, <2>2, <2>3, StatusKept
<1> QED BY <1>4, <1>8, <1>9, <1>10

LEMMA CallbackKeeps ==
  ASSUME EventsInv, Callback
  PROVE  EventsInv'
<1> USE DEF EventsInv
<1>1. PICK q, r : q = chan["callback"] /\ r = Head(chan["callback"])
  OBVIOUS
<1>2. /\ q # <<>> /\ seen' = [seen EXCEPT ![r.topic] = r.value]
      /\ chan' = [chan EXCEPT !["callback"] = Tail(q)]
      /\ UNCHANGED <<leader, status, link, todo, due, lagged, lost, crossed, changes>>
  BY <1>1 DEF Callback
<1>3. {"callback", "ring", "leader"} \subseteq Channel
  BY DEF Channel
<1>4. PipeFine("callback", Tail(q)) /\ r \in Reports /\ q \in Seq(Reports)
  BY <1>1, <1>2, <1>3, PipeTail DEF Pipes, PipeFine
<1>5. /\ chan' = [c \in Channel |-> chan'[c]] /\ chan'["callback"] = Tail(q)
      /\ \A c \in Channel \ {"callback"} : chan'[c] = chan[c]
  BY <1>2, <1>3 DEF Pipes
<1>6. chan'["ring"] = chan["ring"] /\ chan'["leader"] = chan["leader"]
  BY <1>3, <1>5
<1>7. Pipes'
  BY <1>4, <1>5 DEF Pipes
<1>8. r.topic \in Topics /\ r.value \in Value /\ "nothing" \notin Value
  BY <1>4, EventsAssumption DEF Reports, Value, Status, Nobody
<1>9. seen' \in [Topics -> Value \cup {"nothing"}]
  BY <1>2, <1>8 DEF Basics
<1>10. Basics' /\ Debts'
  BY <1>2, <1>9 DEF Basics, Debts
<1>11. LeaderTrail'
  <2>1. PICK C, h, G : C = chan["leader"] /\ h = Heard(Leader) /\ G = {leader}
    OBVIOUS
  <2>2. CASE r.topic = Leader
    <3>1. seen'[Leader] = r.value
      BY <1>2, <1>8, <2>2 DEF Basics
    <3>2. Heard(Leader)' = r.value
      BY <1>8, <3>1 DEF Heard
    <3>3. Trail(C, FALSE, q, h, Leader, G) => Trail(C, FALSE, Tail(q), r.value, Leader, G)
      BY <1>1, <1>2, <1>4, <2>2, TrailHear
    <3> QED BY <1>1, <1>2, <1>5, <1>6, <2>1, <3>2, <3>3, LeaderKept
  <2>3. CASE r.topic # Leader
    <3>1. seen'[Leader] = seen[Leader]
      BY <1>2, <2>3, TopicsApart DEF Basics
    <3>2. Heard(Leader)' = Heard(Leader)
      BY <3>1 DEF Heard
    <3>3. Trail(C, FALSE, q, h, Leader, G) => Trail(C, FALSE, Tail(q), h, Leader, G)
      BY <1>1, <1>2, <1>4, <2>3, TrailHearOther
    <3> QED BY <1>1, <1>2, <1>5, <1>6, <2>1, <3>2, <3>3, LeaderKept
  <2> QED BY <2>2, <2>3
<1>12. ASSUME NEW p \in Peer
       PROVE  StatusTrail(p)'
  <2>1. PICK C, h, G, w, k : C = chan["ring"] /\ h = seen[StatusOf(p)]
          /\ G = Right(p) /\ w = Owes(todo["watcher"], StatusOf(p)) /\ k = StatusOf(p)
    OBVIOUS
  <2>2. w \in BOOLEAN /\ k \in Topics
    BY <2>1, TopicsApart DEF Owes
  <2>3. CASE r.topic = k
    <3>1. seen'[k] = r.value
      BY <1>2, <1>8, <2>3 DEF Basics
    <3>2. Trail(C, w, q, h, k, G) => Trail(C, w, Tail(q), r.value, k, G)
      BY <1>1, <1>2, <1>4, <2>2, <2>3, TrailHear
    <3> QED BY <1>1, <1>2, <1>5, <1>6, <2>1, <3>1, <3>2, StatusKept
  <2>4. CASE r.topic # k
    <3>1. seen'[k] = h
      BY <1>2, <2>1, <2>2, <2>4 DEF Basics
    <3>2. Trail(C, w, q, h, k, G) => Trail(C, w, Tail(q), h, k, G)
      BY <1>1, <1>2, <1>4, <2>2, <2>4, TrailHearOther
    <3> QED BY <1>1, <1>2, <1>5, <1>6, <2>1, <3>1, <3>2, StatusKept
  <2> QED BY <2>3, <2>4
<1> QED BY <1>7, <1>10, <1>11, <1>12

LEMMA TimeoutFoundKeeps ==
  ASSUME EventsInv, NEW p \in Peer, FindTimeout(p)
  PROVE  EventsInv'
<1> USE DEF EventsInv
<1>1. /\ todo["ping"] = <<>> /\ due' = p /\ Count
      /\ UNCHANGED <<leader, status, link, todo, chan, lagged, seen, lost, crossed>>
  BY DEF FindTimeout
<1>2. changes' \in 0 .. MaxChanges /\ link.retrying + link.returned <= changes'
  BY <1>1, Counted
<1>3. Basics'
  BY <1>1, <1>2 DEF Basics
<1>4. Debts'
  BY <1>1 DEF Debts
<1>5. Pipes'
  BY <1>1 DEF Pipes
<1> QED BY <1>1, <1>3, <1>4, <1>5, TrailsSame

LEMMA WatchLagKeeps ==
  ASSUME EventsInv, WatchLag \/ UNCHANGED vars
  PROVE  EventsInv'
<1> USE DEF EventsInv
<1>1. /\ lagged' = FALSE \/ lagged' = lagged
      /\ UNCHANGED <<leader, status, link, todo, due, chan, seen, lost, crossed, changes>>
  BY DEF WatchLag, vars
<1>2. Basics' /\ Debts'
  BY <1>1 DEF Basics, Debts
<1>3. Pipes'
  BY <1>1 DEF Pipes
<1> QED BY <1>1, <1>2, <1>3, TrailsSame

\* The reconnect tasks: their number stays below that of the changes, and they
\* report to a channel of their own, if at all.
LEMMA ReconnectKeeps ==
  ASSUME EventsInv, ReconnectUnchanged,
         link' \in [up : BOOLEAN, retrying : Nat, returned : Nat],
         changes' \in 0 .. MaxChanges, link'.retrying + link'.returned <= changes',
         \/ UNCHANGED <<chan, lost, lagged>>
         \/ \E v \in {"retrying", "back", "failed"} : Send("reconnect", Says(Reconnect, v))
  PROVE  EventsInv'
<1> USE DEF EventsInv
<1>1. UNCHANGED <<leader, status, todo, due, seen, crossed>>
  BY DEF ReconnectUnchanged
<1>2. CASE UNCHANGED <<chan, lost, lagged>>
  <2>1. Basics' /\ Debts'
    BY <1>1, <1>2 DEF Basics, Debts
  <2>2. Pipes'
    BY <1>2 DEF Pipes
  <2> QED BY <1>1, <1>2, <2>1, <2>2, TrailsSame
<1>3. CASE \E v \in {"retrying", "back", "failed"} : Send("reconnect", Says(Reconnect, v))
  <2>1. PICK v \in {"retrying", "back", "failed"} : Send("reconnect", Says(Reconnect, v))
    BY <1>3
  <2>2. PICK r : r = Says(Reconnect, v)
    OBVIOUS
  <2>3. v \in Value /\ {"reconnect", "leader", "ring", "callback"} \subseteq Channel
    BY DEF Value, Channel
  <2>4. r \in Reports /\ Carries("reconnect", r)
    BY <2>2, <2>3, SaysType, TopicsApart DEF Carries
  <2>5. /\ Pipes' /\ lost' \subseteq Topics /\ lagged' \in BOOLEAN
        /\ Sent("reconnect", r)
    BY <2>1, <2>2, <2>3, <2>4, SendWorks DEF Basics
  <2>6. /\ chan'["leader"] = chan["leader"] /\ chan'["ring"] = chan["ring"]
        /\ chan'["callback"] = chan["callback"] /\ lost \subseteq lost'
    BY <2>3, <2>5 DEF Sent
  <2>7. Basics' /\ Debts'
    BY <1>1, <2>5 DEF Basics, Debts
  <2> QED BY <1>1, <2>5, <2>6, <2>7, TrailsSame
<1> QED BY <1>2, <1>3

LEMMA LinkKeeps ==
  ASSUME EventsInv, LinkLost \/ LinkBack \/ RetrySucceeds \/ ReportBack \/ GiveUp
  PROVE  EventsInv'
<1>1. PICK x, y \in Nat : x = link.retrying /\ y = link.returned /\ x + y <= changes
  BY DEF EventsInv, Basics
<1>2. /\ link \in [up : BOOLEAN, retrying : Nat, returned : Nat]
      /\ changes \in 0 .. MaxChanges
  BY DEF EventsInv, Basics
<1>3. CASE LinkLost
  <2>1. /\ changes' \in 0 .. MaxChanges
        /\ x + y <= changes' /\ x + y + 1 <= changes'
    BY <1>1, <1>3, Counted DEF EventsInv, LinkLost
  <2>2. /\ link' \in [up : BOOLEAN, retrying : Nat, returned : Nat]
        /\ link'.returned = y /\ link'.retrying \in {x, x + 1}
    <3>1. CASE link' = [link EXCEPT !.up = FALSE]
      BY <1>1, <1>2, <3>1
    <3>2. CASE link' = [link EXCEPT !.up = FALSE, !.retrying = @ + 1]
      <4>1. link' = [link EXCEPT !.up = FALSE, !.retrying = x + 1]
        BY <1>1, <1>2, <3>2
      <4>2. x + 1 \in Nat
        BY <1>1
      <4> QED BY <1>1, <1>2, <4>1, <4>2
    <3> QED BY <1>3, <3>1, <3>2 DEF LinkLost
  <2>3. link'.retrying + link'.returned <= changes'
    <3>1. PICK n \in {x, x + 1} : n = link'.retrying
      BY <2>2
    <3>2. n + y <= changes'
      BY <1>1, <1>2, <2>1
    <3> QED BY <2>2, <3>1, <3>2
  <2> QED BY <1>3, <2>1, <2>2, <2>3, ReconnectKeeps DEF LinkLost
<1>4. CASE LinkBack
  <2>1. changes' \in 0 .. MaxChanges /\ x + y <= changes'
    BY <1>1, <1>4, Counted DEF EventsInv, LinkBack
  <2>2. /\ link' \in [up : BOOLEAN, retrying : Nat, returned : Nat]
        /\ link'.returned = y /\ link'.retrying = x
    BY <1>1, <1>2, <1>4 DEF LinkBack
  <2> QED BY <1>4, <2>1, <2>2, ReconnectKeeps DEF LinkBack
<1>5. CASE RetrySucceeds
  <2>1. x > 0 /\ changes' = changes
    BY <1>1, <1>5 DEF RetrySucceeds
  <2>2. /\ link' \in [up : BOOLEAN, retrying : Nat, returned : Nat]
        /\ link'.returned = y + 1 /\ link'.retrying = x - 1
    <3>1. link' = [link EXCEPT !.up = TRUE, !.retrying = x - 1, !.returned = y + 1]
      BY <1>1, <1>2, <1>5 DEF RetrySucceeds
    <3>2. x - 1 \in Nat /\ y + 1 \in Nat
      BY <1>1, <2>1
    <3> QED BY <1>1, <1>2, <3>1, <3>2
  <2>3. x - 1 + (y + 1) <= changes
    BY <1>1, <1>2, <2>1
  <2> QED BY <1>2, <1>5, <2>1, <2>2, <2>3, ReconnectKeeps DEF RetrySucceeds
<1>6. CASE ReportBack
  <2>1. y > 0 /\ changes' = changes
    BY <1>1, <1>6 DEF ReportBack
  <2>2. /\ link' \in [up : BOOLEAN, retrying : Nat, returned : Nat]
        /\ link'.returned = y - 1 /\ link'.retrying = x
    BY <1>1, <1>2, <1>6, <2>1 DEF ReportBack
  <2>3. x + (y - 1) <= changes
    BY <1>1, <1>2, <2>1
  <2> QED BY <1>2, <1>6, <2>1, <2>2, <2>3, ReconnectKeeps DEF ReportBack
<1>7. CASE GiveUp
  <2>1. x > 0 /\ changes' = changes
    BY <1>1, <1>7 DEF GiveUp
  <2>2. /\ link' \in [up : BOOLEAN, retrying : Nat, returned : Nat]
        /\ link'.returned = y /\ link'.retrying = x - 1
    BY <1>1, <1>2, <1>7, <2>1 DEF GiveUp
  <2>3. x - 1 + y <= changes
    BY <1>1, <1>2, <2>1
  <2> QED BY <1>2, <1>7, <2>1, <2>2, <2>3, ReconnectKeeps DEF GiveUp
<1> QED BY <1>3, <1>4, <1>5, <1>6, <1>7

-----------------------------------------------------------------------------
(* The theorems.                                                           *)

LEMMA InitEvents == Init => EventsInv
<1> SUFFICES ASSUME Init PROVE EventsInv
  OBVIOUS
<1> USE DEF Init
<1>1. Basics
  <2>1. link \in [up : BOOLEAN, retrying : Nat, returned : Nat]
          /\ link.retrying = 0 /\ link.returned = 0
    BY DEF Connected
  <2>2. status \in [Peer -> Status]
    BY DEF Status
  <2>3. changes \in 0 .. MaxChanges /\ link.retrying + link.returned <= changes
    BY <2>1, EventsAssumption
  <2>4. seen \in [Topics -> Value \cup {"nothing"}]
    OBVIOUS
  <2> QED BY <2>1, <2>2, <2>3, <2>4 DEF Basics
<1>2. 1 .. Len(<<>>) = {} /\ Len(<<>>) = 0 /\ \A S : <<>> \in Seq(S)
  OBVIOUS
<1>3. Pipes
  BY <1>2, Capacities DEF Pipes, PipeFine
<1>4. \A t \in Task : todo[t] = <<>>
  OBVIOUS
<1>5. \A t \in Task : MayOwe(t, <<>>)
  BY <1>2, MostOwedType DEF MayOwe
<1>6. Debts
  BY <1>2, <1>4, <1>5 DEF Debts
<1>7. \A k : NoneOf(<<>>, k) /\ ~Owes(<<>>, k)
  BY <1>2 DEF NoneOf, Owes
<1>8. {"leader", "callback", "ring"} \subseteq Channel /\ "watcher" \in Task
  BY DEF Channel, Task
<1>9. LeaderTrail
  <2>1. Heard(Leader) = leader
    BY TopicsApart DEF Heard
  <2>2. OneVoice(todo, Leader, Task, {leader})
    BY <1>2, <1>4, <1>7 DEF OneVoice
  <2> QED BY <1>7, <1>8, <2>1, <2>2 DEF LeaderTrail, Trail, EndsRight
<1>10. ASSUME NEW p \in Peer
       PROVE  StatusTrail(p)
  <2>1. OneVoice(todo, StatusOf(p), Others, Right(p))
    BY <1>2, <1>4, <1>7 DEF OneVoice, Others
  <2>2. seen[StatusOf(p)] \in Right(p)
    BY TopicsApart DEF Right
  <2> QED BY <1>4, <1>7, <1>8, <2>1, <2>2 DEF StatusTrail, Trail, EndsRight
<1> QED BY <1>1, <1>3, <1>6, <1>9, <1>10 DEF EventsInv

LEMMA EventsStep == EventsInv /\ [Next]_vars => EventsInv'
<1> SUFFICES ASSUME EventsInv, [Next]_vars
             PROVE  EventsInv'
  OBVIOUS
<1>1. CASE UNCHANGED vars \/ WatchLag
  BY <1>1, WatchLagKeeps
<1>2. CASE \E t \in Task : Report(t)
  BY <1>2, ReportKeeps
<1>3. CASE \/ \E t \in Task : \E l \in Peer \cup {Self} : NameLeader(t, l)
           \/ BecomeLeader
  BY <1>3, NameLeaderKeeps, BecomeLeaderKeeps
<1>4. CASE \/ \E p \in Peer : AddPeer(p)
           \/ \E t \in Task : \E p \in Peer : RemovePeer(t, p)
           \/ \E p \in Peer : FindTimeout(p)
           \/ MarkTimeout
  BY <1>4, AddPeerKeeps, RemovePeerKeeps, TimeoutFoundKeeps, MarkTimeoutKeeps
<1>5. CASE WatchLeader \/ WatchStatus \/ WatchLeft \/ WatchReconnect \/ Callback
  BY <1>5, WatchLeaderKeeps, WatchStatusKeeps, WatchLeftKeeps, WatchReconnectKeeps,
     CallbackKeeps
<1>6. CASE LinkLost \/ LinkBack \/ RetrySucceeds \/ ReportBack \/ GiveUp
  BY <1>6, LinkKeeps
<1> QED BY <1>1, <1>2, <1>3, <1>4, <1>5, <1>6 DEF Next

LEMMA EventsAlways == Spec => []EventsInv
BY InitEvents, EventsStep, PTL DEF Spec

\* Types, and the bounds of the channels of NetworkState::new: for every capacity,
\* neither the leader and reconnect channels, nor the membership broadcast, nor
\* the callback queue ever holds more.
THEOREM EventsTypeCorrect == Spec => []TypeOK
<1>1. EventsInv => TypeOK
  <2> SUFFICES ASSUME EventsInv PROVE TypeOK
    OBVIOUS
  <2>1. link \in Link
    <3>1. PICK x, y \in Nat : x = link.retrying /\ y = link.returned /\ x + y <= changes
      BY DEF EventsInv, Basics
    <3>2. x \in 0 .. MaxChanges /\ y \in 0 .. MaxChanges
      BY <3>1, EventsAssumption DEF EventsInv, Basics
    <3> QED BY <3>1, <3>2 DEF EventsInv, Basics, Link
  <2>2. ASSUME NEW t \in Task
        PROVE  Range(todo[t]) \subseteq [to : Channel, report : Reports]
    <3>1. todo[t] \in Seq(Owing)
      BY DEF EventsInv, Debts
    <3>2. Range(todo[t]) \subseteq Owing
      BY <3>1 DEF Range
    <3> QED BY <3>2 DEF Owing
  <2>3. \A c \in Channel : Len(chan[c]) <= Capacity[c] /\ Range(chan[c]) \subseteq Reports
    BY DEF EventsInv, Pipes, PipeFine, Range
  <2> QED BY <2>1, <2>2, <2>3 DEF EventsInv, Basics, TypeOK
<1> QED BY <1>1, EventsAlways, PTL

\* What the application ends up believing is right: whenever nothing about the
\* leader or about a peer is on its way, no report of it was dropped and no two
\* tasks reported it at once, the last callback agrees with src/leader.rs and
\* src/membership.rs, for any number of peers, any capacity and any interleaving
\* of the tasks; the report of a timeout that the ping task puts into the
\* callback queue directly, past what waits in the broadcast, does no harm.
THEOREM QuietIsAccurate == Spec => []QuietAccurate
<1>1. EventsInv => QuietAccurate
  <2> SUFFICES ASSUME EventsInv PROVE QuietAccurate
    OBVIOUS
  <2>1. \A t \in Task : DOMAIN todo[t] = 1 .. Len(todo[t])
    BY DEF EventsInv, Debts
  <2>2. \A c \in Channel : DOMAIN chan[c] = 1 .. Len(chan[c])
    BY DEF EventsInv, Pipes, PipeFine
  <2>3. \A k : Settled(k) => /\ \A t \in Task : ~Owes(todo[t], k)
                             /\ \A c \in Channel : NoneOf(chan[c], k)
    BY <2>1, <2>2 DEF Settled, Owes, NoneOf
  <2>4. {"leader", "callback", "ring"} \subseteq Channel /\ "watcher" \in Task
    BY DEF Channel, Task
  <2>5. ASSUME Settled(Leader), Leader \notin lost \cup crossed
        PROVE  Heard(Leader) = leader
    <3>1. Trail(chan["leader"], FALSE, chan["callback"], Heard(Leader), Leader, {leader})
      BY <2>3, <2>5 DEF EventsInv, LeaderTrail
    <3>2. NoneOf(chan["leader"], Leader) /\ NoneOf(chan["callback"], Leader)
      BY <2>3, <2>4, <2>5
    <3>3. Heard(Leader) \in {leader}
      BY <3>1, <3>2, TrailEmpty
    <3> QED BY <3>3
  <2>6. ASSUME NEW p \in Peer, Settled(StatusOf(p)), StatusOf(p) \notin lost \cup crossed
        PROVE  Present(p) <=> status[p] = "Connected"
    <3>1. PICK k : k = StatusOf(p)
      OBVIOUS
    <3>2. Owes(todo["watcher"], k) = FALSE
      BY <2>3, <2>4, <2>6, <3>1 DEF Owes
    <3>3. \A t \in Others : ~OwesTo("ring", todo[t], k)
      BY <2>3, <2>6, <3>1 DEF Owes, OwesTo, Others
    <3>4. Trail(chan["ring"], FALSE, chan["callback"], seen[k], k, Right(p))
      BY <2>6, <3>1, <3>2, <3>3 DEF EventsInv, StatusTrail
    <3>5. NoneOf(chan["ring"], k) /\ NoneOf(chan["callback"], k)
      BY <2>3, <2>4, <2>6, <3>1
    <3>6. seen[k] \in Right(p)
      BY <3>4, <3>5, TrailEmpty
    <3> QED BY <3>1, <3>6 DEF Right, Present
  <2> QED BY <2>5, <2>6 DEF QuietAccurate
<1> QED BY <1>1, EventsAlways, PTL

-----------------------------------------------------------------------------
(* What About filters.                                                     *)

\* One step of the filter, and its first n steps.
Filtered(a, r, k) == IF r.topic = k THEN Append(a, r.value) ELSE a
FiltersUpTo(n, s, k) ==
  {f \in [0 .. n -> Seq(Value)] :
     \A i \in 0 .. n : f[i] = IF i = 0 THEN <<>> ELSE Filtered(f[i - 1], s[i], k)}

LEMMA FilteredType ==
  ASSUME NEW a \in Seq(Value), NEW r \in Reports, NEW k
  PROVE  Filtered(a, r, k) \in Seq(Value)
<1>1. r.value \in Value
  BY DEF Reports
<1> QED BY <1>1 DEF Filtered

LEMMA FiltersExist ==
  ASSUME NEW s \in Seq(Reports), NEW k
  PROVE  FiltersUpTo(Len(s), s, k) # {}
<1> DEFINE T == {m \in 0 .. Len(s) : FiltersUpTo(m, s, k) = {}}
<1>1. SUFFICES ASSUME T # {}
               PROVE  FALSE
  OBVIOUS
<1>2. T \subseteq Nat /\ Len(s) \in Nat
  OBVIOUS
<1>3. PICK m \in T : \A y \in T : m <= y
  BY <1>1, <1>2, LeastNatural
<1>4. CASE m = 0
  <2>1. [i \in 0 .. 0 |-> <<>>] \in FiltersUpTo(0, s, k)
    BY DEF FiltersUpTo
  <2> QED BY <1>4, <2>1
<1>5. CASE m # 0
  <2>1. m - 1 \in 0 .. Len(s) /\ m - 1 \notin T /\ m \in 1 .. Len(s)
    BY <1>2, <1>3, <1>5
  <2>2. PICK g : g \in FiltersUpTo(m - 1, s, k)
    BY <2>1
  <2>3. /\ g \in [0 .. m - 1 -> Seq(Value)]
        /\ \A i \in 0 .. m - 1 : g[i] = IF i = 0 THEN <<>> ELSE Filtered(g[i - 1], s[i], k)
    BY <2>2 DEF FiltersUpTo
  <2>4. PICK z : z = Filtered(g[m - 1], s[m], k)
    OBVIOUS
  <2>5. z \in Seq(Value)
    BY <2>1, <2>3, <2>4, FilteredType
  <2> DEFINE f == [i \in 0 .. m |-> IF i < m THEN g[i] ELSE z]
  <2>6. f \in [0 .. m -> Seq(Value)]
    BY <2>1, <2>3, <2>5
  <2>7. ASSUME NEW i \in 0 .. m
        PROVE  f[i] = IF i = 0 THEN <<>> ELSE Filtered(f[i - 1], s[i], k)
    <3>1. CASE i < m
      <4>1. i \in 0 .. m - 1 /\ (i # 0 => i - 1 \in 0 .. m /\ i - 1 < m)
        BY <2>1, <3>1
      <4>2. f[i] = g[i] /\ (i # 0 => f[i - 1] = g[i - 1])
        BY <3>1, <4>1
      <4> QED BY <2>3, <4>1, <4>2
    <3>2. CASE i = m
      <4>1. m - 1 \in 0 .. m /\ m - 1 < m
        BY <2>1
      <4>2. f[m - 1] = g[m - 1] /\ f[m] = z
        BY <4>1
      <4> QED BY <1>5, <2>4, <3>2, <4>2
    <3> QED BY <2>1, <3>1, <3>2
  <2>8. f \in FiltersUpTo(m, s, k)
    BY <2>6, <2>7 DEF FiltersUpTo
  <2> QED BY <1>3, <2>8
<1> QED BY <1>4, <1>5

\* Hence AboutUpTo is such a filter.
LEMMA AboutEquation ==
  ASSUME NEW s \in Seq(Reports), NEW k
  PROVE  AboutUpTo(s, k) \in FiltersUpTo(Len(s), s, k)
<1> DEFINE Body(f) == [i \in 0 .. Len(s) |->
                         IF i = 0 THEN <<>>
                         ELSE IF s[i].topic = k THEN Append(f[i - 1], s[i].value)
                         ELSE f[i - 1]]
<1>1. PICK f : f \in FiltersUpTo(Len(s), s, k)
  BY FiltersExist
<1>2. /\ f \in [0 .. Len(s) -> Seq(Value)]
      /\ \A i \in 0 .. Len(s) : f[i] = IF i = 0 THEN <<>> ELSE Filtered(f[i - 1], s[i], k)
  BY <1>1 DEF FiltersUpTo
<1>3. f = Body(f)
  BY <1>2 DEF Filtered
<1>4. AboutUpTo(s, k) = CHOOSE g : g = Body(g)
  BY DEF AboutUpTo
<1>5. AboutUpTo(s, k) = Body(AboutUpTo(s, k))
  BY <1>3, <1>4
<1>6. PICK g : g = AboutUpTo(s, k)
  OBVIOUS
<1>7. \A i \in 0 .. Len(s) : g[i] = IF i = 0 THEN <<>> ELSE Filtered(g[i - 1], s[i], k)
  BY <1>5, <1>6 DEF Filtered
<1>8. DOMAIN g = 0 .. Len(s) /\ g = [i \in 0 .. Len(s) |-> g[i]]
  BY <1>5, <1>6
<1>9. \A i \in 0 .. Len(s) : g[i] = f[i]
  <2> DEFINE T == {i \in 0 .. Len(s) : g[i] # f[i]}
  <2>1. SUFFICES ASSUME T # {}
                 PROVE  FALSE
    OBVIOUS
  <2>2. T \subseteq Nat /\ Len(s) \in Nat
    OBVIOUS
  <2>3. PICK m \in T : \A y \in T : m <= y
    BY <2>1, <2>2, LeastNatural
  <2>4. m # 0
    BY <1>2, <1>7, <2>2
  <2>5. m - 1 \in 0 .. Len(s) /\ m - 1 \notin T
    BY <2>2, <2>3, <2>4
  <2>6. g[m - 1] = f[m - 1]
    BY <2>5
  <2> QED BY <1>2, <1>7, <2>3, <2>4, <2>6
<1>10. g = f
  BY <1>2, <1>8, <1>9
<1> QED BY <1>1, <1>6, <1>10

LEMMA AboutFacts ==
  ASSUME NEW s \in Seq(Reports), NEW k, NEW f, f = AboutUpTo(s, k)
  PROVE  /\ f \in [0 .. Len(s) -> Seq(Value)] /\ f[0] = <<>>
         /\ \A i \in 1 .. Len(s) : f[i] = Filtered(f[i - 1], s[i], k)
         /\ About(s, k) = f[Len(s)] /\ About(s, k) \in Seq(Value)
<1>1. /\ f \in [0 .. Len(s) -> Seq(Value)]
      /\ \A i \in 0 .. Len(s) : f[i] = IF i = 0 THEN <<>> ELSE Filtered(f[i - 1], s[i], k)
  BY AboutEquation DEF FiltersUpTo
<1>2. About(s, k) = f[Len(s)] /\ Len(s) \in 0 .. Len(s) /\ 0 \in 0 .. Len(s)
  BY DEF About
<1>3. \A i \in 1 .. Len(s) : i \in 0 .. Len(s) /\ i # 0
  OBVIOUS
<1> QED BY <1>1, <1>2, <1>3

LEMMA AboutEmpty ==
  ASSUME NEW k
  PROVE  About(<<>>, k) = <<>>
<1>1. PICK f : f = AboutUpTo(<<>>, k)
  OBVIOUS
<1>2. <<>> \in Seq(Reports) /\ Len(<<>>) = 0
  OBVIOUS
<1> QED BY <1>1, <1>2, AboutFacts

LEMMA AboutAppend ==
  ASSUME NEW s \in Seq(Reports), NEW r \in Reports, NEW k
  PROVE  About(Append(s, r), k) = Filtered(About(s, k), r, k)
<1>1. PICK a : a = Append(s, r)
  OBVIOUS
<1>2. /\ a \in Seq(Reports) /\ Len(s) \in Nat /\ Len(a) = Len(s) + 1
      /\ a[Len(s) + 1] = r /\ \A j \in 1 .. Len(s) : a[j] = s[j]
  BY <1>1, AppendElems
<1>3. PICK f, g : f = AboutUpTo(s, k) /\ g = AboutUpTo(a, k)
  OBVIOUS
<1>4. /\ f[0] = <<>> /\ About(s, k) = f[Len(s)]
      /\ \A i \in 1 .. Len(s) : f[i] = Filtered(f[i - 1], s[i], k)
  BY <1>3, AboutFacts
<1>5. /\ g[0] = <<>> /\ About(a, k) = g[Len(s) + 1]
      /\ \A i \in 1 .. Len(s) + 1 : g[i] = Filtered(g[i - 1], a[i], k)
  <2>1. /\ g[0] = <<>> /\ About(a, k) = g[Len(a)]
        /\ \A i \in 1 .. Len(a) : g[i] = Filtered(g[i - 1], a[i], k)
    <3>1. a \in Seq(Reports) /\ g = AboutUpTo(a, k)
      BY <1>2, <1>3
    <3> QED BY ONLY <3>1, AboutFacts
  <2> QED BY <1>2, <2>1
<1>6. \A i \in 0 .. Len(s) : g[i] = f[i]
  <2> DEFINE T == {i \in 0 .. Len(s) : g[i] # f[i]}
  <2>1. SUFFICES ASSUME T # {}
                 PROVE  FALSE
    OBVIOUS
  <2>2. T \subseteq Nat
    BY <1>2
  <2>3. PICK m \in T : \A y \in T : m <= y
    BY <2>1, <2>2, LeastNatural
  <2>4. m # 0
    BY <1>4, <1>5
  <2>5. /\ m - 1 \in 0 .. Len(s) /\ m - 1 \notin T
        /\ m \in 1 .. Len(s) /\ m \in 1 .. Len(s) + 1
    BY <1>2, <2>3, <2>4
  <2>6. g[m - 1] = f[m - 1] /\ a[m] = s[m]
    BY <1>2, <2>5
  <2> QED BY <1>4, <1>5, <2>3, <2>5, <2>6
<1>7. Len(s) \in 0 .. Len(s) /\ Len(s) + 1 \in 1 .. Len(s) + 1 /\ Len(s) + 1 - 1 = Len(s)
  BY <1>2
<1>8. g[Len(s) + 1] = Filtered(f[Len(s)], r, k)
  BY <1>2, <1>5, <1>6, <1>7
<1> QED BY <1>1, <1>4, <1>5, <1>8

\* Two ways to put sequences together.
LEMMA AppendConcat ==
  ASSUME NEW p \in Seq(Value), NEW a \in Seq(Value), NEW v \in Value
  PROVE  Append(p \o a, v) = p \o Append(a, v)
<1>1. PICK x, y, c, d : x = p \o a /\ y = Append(x, v) /\ c = Append(a, v) /\ d = p \o c
  OBVIOUS
<1>2. /\ x \in Seq(Value) /\ Len(x) = Len(p) + Len(a)
      /\ \A i \in 1 .. Len(p) + Len(a) :
           x[i] = IF i <= Len(p) THEN p[i] ELSE a[i - Len(p)]
  BY <1>1, ConcatElems
<1>3. /\ c \in Seq(Value) /\ Len(c) = Len(a) + 1 /\ c[Len(a) + 1] = v
      /\ \A j \in 1 .. Len(a) : c[j] = a[j]
  BY <1>1, AppendElems
<1>4. /\ d \in Seq(Value) /\ Len(d) = Len(p) + Len(c)
      /\ \A i \in 1 .. Len(p) + Len(c) :
           d[i] = IF i <= Len(p) THEN p[i] ELSE c[i - Len(p)]
  BY <1>1, <1>3, ConcatElems
<1>5. /\ y \in Seq(Value) /\ Len(y) = Len(x) + 1 /\ y[Len(x) + 1] = v
      /\ \A j \in 1 .. Len(x) : y[j] = x[j]
  BY <1>1, <1>2, AppendElems
<1>6. Len(p) \in Nat /\ Len(a) \in Nat
  OBVIOUS
<1>7. PICK m, n \in Nat : m = Len(p) /\ n = Len(a)
  BY <1>6
<1>8. Len(y) = m + n + 1 /\ Len(d) = m + n + 1
  BY <1>2, <1>3, <1>4, <1>5, <1>7
<1>9. ASSUME NEW i \in 1 .. m + n + 1
      PROVE  y[i] = d[i]
  <2>1. CASE i <= m
    <3>1. i \in 1 .. m + n
      BY <2>1
    <3>2. y[i] = p[i]
      BY <1>2, <1>5, <1>7, <2>1, <3>1
    <3>3. d[i] = p[i]
      BY <1>3, <1>4, <1>7, <1>8, <2>1
    <3> QED BY <3>2, <3>3
  <2>2. CASE i > m /\ i <= m + n
    <3>1. i \in 1 .. m + n /\ i - m \in 1 .. n /\ ~(i <= m)
      BY <2>2
    <3>2. y[i] = a[i - m]
      BY <1>2, <1>5, <1>7, <3>1
    <3>3. d[i] = c[i - m]
      BY <1>3, <1>4, <1>7, <1>8, <3>1
    <3> QED BY <1>3, <1>7, <3>1, <3>2, <3>3
  <2>3. CASE i = m + n + 1
    <3>1. i - m = n + 1 /\ ~(i <= m)
      BY <2>3
    <3>2. y[i] = v
      BY <1>2, <1>5, <1>7, <2>3
    <3>3. d[i] = c[n + 1]
      BY <1>3, <1>4, <1>7, <1>8, <3>1
    <3> QED BY <1>3, <1>7, <3>2, <3>3
  <2> QED BY <2>1, <2>2, <2>3
<1>10. y = d
  BY <1>4, <1>5, <1>8, <1>9, SeqExt
<1> QED BY <1>1, <1>10

LEMMA ConcatNothing ==
  ASSUME NEW S, NEW a \in Seq(S)
  PROVE  <<>> \o a = a /\ a \o <<>> = a
OBVIOUS

\* What the oldest report of s contributes.
First(s, k) == IF Head(s).topic = k THEN <<Head(s).value>> ELSE <<>>

LEMMA ConcatFiltered ==
  ASSUME NEW p \in Seq(Value), NEW a \in Seq(Value), NEW r \in Reports, NEW k
  PROVE  Filtered(p \o a, r, k) = p \o Filtered(a, r, k)
<1>1. PICK v : v = r.value
  OBVIOUS
<1>2. v \in Value
  BY <1>1 DEF Reports
<1>3. Append(p \o a, v) = p \o Append(a, v)
  BY <1>2, AppendConcat
<1> QED BY <1>1, <1>3 DEF Filtered

LEMMA AboutTail ==
  ASSUME NEW s \in Seq(Reports), s # <<>>, NEW k
  PROVE  /\ First(s, k) \in Seq(Value)
         /\ About(s, k) = First(s, k) \o About(Tail(s), k)
<1>1. PICK b, p : b = Tail(s) /\ p = First(s, k)
  OBVIOUS
<1>2. /\ b \in Seq(Reports) /\ Head(s) \in Reports /\ Head(s) = s[1]
      /\ Len(s) \in Nat \ {0} /\ Len(b) = Len(s) - 1
      /\ \A j \in 1 .. Len(s) - 1 : b[j] = s[j + 1]
  BY <1>1, TailElems
<1>3. PICK f, g : f = AboutUpTo(s, k) /\ g = AboutUpTo(b, k)
  OBVIOUS
<1>4. /\ f[0] = <<>> /\ About(s, k) = f[Len(s)]
      /\ \A i \in 1 .. Len(s) : f[i] = Filtered(f[i - 1], s[i], k)
  BY <1>3, AboutFacts
<1>5. /\ g[0] = <<>> /\ About(b, k) = g[Len(b)] /\ g \in [0 .. Len(b) -> Seq(Value)]
      /\ \A i \in 1 .. Len(b) : g[i] = Filtered(g[i - 1], b[i], k)
  <2>1. b \in Seq(Reports)
    BY <1>2
  <2> QED BY <1>3, <2>1, AboutFacts
<1>6. p \in Seq(Value) /\ p = Filtered(<<>>, s[1], k)
  <2>1. s[1].value \in Value
    BY <1>2 DEF Reports
  <2>2. Append(<<>>, s[1].value) = <<s[1].value>> /\ <<s[1].value>> \in Seq(Value)
    BY <2>1
  <2> QED BY <1>1, <1>2, <2>2 DEF First, Filtered
<1>7. PICK n \in Nat : n = Len(b) /\ Len(s) = n + 1
  BY <1>2
<1>8. \A i \in 0 .. n : f[i + 1] = p \o g[i]
  <2> DEFINE T == {i \in 0 .. n : f[i + 1] # p \o g[i]}
  <2>1. SUFFICES ASSUME T # {}
                 PROVE  FALSE
    OBVIOUS
  <2>2. T \subseteq Nat
    OBVIOUS
  <2>3. PICK m \in T : \A y \in T : m <= y
    BY <2>1, <2>2, LeastNatural
  <2>4. CASE m = 0
    <3>1. 1 \in 1 .. Len(s) /\ 1 - 1 = 0 /\ 0 + 1 = 1
      BY <1>7
    <3>2. f[1] = p
      BY <1>4, <1>6, <3>1
    <3>3. p \o <<>> = p
      BY <1>6, ConcatNothing
    <3>4. f[0 + 1] = p \o g[0]
      BY <1>5, <3>1, <3>2, <3>3
    <3> QED BY <2>3, <2>4, <3>4
  <2>5. CASE m # 0
    <3>1. /\ m - 1 \in 0 .. n /\ m - 1 \notin T /\ m \in 1 .. n
          /\ m + 1 \in 1 .. n + 1 /\ m + 1 - 1 = m /\ m - 1 + 1 = m
      BY <2>3, <2>5
    <3>2. f[m] = p \o g[m - 1]
      BY <3>1
    <3>3. b[m] = s[m + 1] /\ b[m] \in Reports
      BY <1>2, <1>7, <3>1
    <3>4. f[m + 1] = Filtered(f[m], s[m + 1], k)
      BY <1>4, <1>7, <3>1
    <3>5. g[m - 1] \in Seq(Value) /\ g[m] = Filtered(g[m - 1], b[m], k)
      BY <1>5, <1>7, <3>1
    <3>6. Filtered(p \o g[m - 1], b[m], k) = p \o Filtered(g[m - 1], b[m], k)
      <4>1. PICK a, r : a = g[m - 1] /\ r = b[m]
        OBVIOUS
      <4>2. a \in Seq(Value) /\ r \in Reports /\ p \in Seq(Value)
        BY <1>6, <3>3, <3>5, <4>1
      <4>3. Filtered(p \o a, r, k) = p \o Filtered(a, r, k)
        BY <4>2, ConcatFiltered
      <4> QED BY <4>1, <4>3
    <3>7. f[m + 1] = p \o g[m]
      BY <3>2, <3>3, <3>4, <3>5, <3>6
    <3> QED BY <2>3, <3>7
  <2> QED BY <2>4, <2>5
<1>9. f[n + 1] = p \o g[n]
  BY <1>7, <1>8
<1> QED BY <1>1, <1>4, <1>5, <1>6, <1>7, <1>9

\* A channel without a report of k.
LEMMA AboutNone ==
  ASSUME NEW s \in Seq(Reports), NEW k, NoneOf(s, k)
  PROVE  About(s, k) = <<>>
<1>1. PICK f : f = AboutUpTo(s, k)
  OBVIOUS
<1>2. /\ f[0] = <<>> /\ About(s, k) = f[Len(s)]
      /\ \A i \in 1 .. Len(s) : f[i] = Filtered(f[i - 1], s[i], k)
  BY <1>1, AboutFacts
<1>3. \A i \in 1 .. Len(s) : f[i] = f[i - 1]
  BY <1>2 DEF NoneOf, Filtered
<1>4. \A i \in 0 .. Len(s) : f[i] = <<>>
  <2> DEFINE T == {i \in 0 .. Len(s) : f[i] # <<>>}
  <2>1. SUFFICES ASSUME T # {}
                 PROVE  FALSE
    OBVIOUS
  <2>2. T \subseteq Nat /\ Len(s) \in Nat
    OBVIOUS
  <2>3. PICK m \in T : \A y \in T : m <= y
    BY <2>1, <2>2, LeastNatural
  <2>4. m # 0
    BY <1>2
  <2>5. m - 1 \in 0 .. Len(s) /\ m - 1 \notin T /\ m \in 1 .. Len(s)
    BY <2>2, <2>3, <2>4
  <2> QED BY <1>3, <2>3, <2>5
<1>5. Len(s) \in 0 .. Len(s)
  OBVIOUS
<1> QED BY <1>2, <1>4, <1>5


-----------------------------------------------------------------------------
(* One step of a feed.                                                     *)

\* What EventFeed allows of the pending values p and the value heard last, h.
FeedStep(p, h, p2, h2) ==
  \/ p2 = p /\ h2 = h
  \/ Len(p2) = Len(p) + 1 /\ SubSeq(p2, 1, Len(p)) = p /\ h2 = h
  \/ /\ \E i \in DOMAIN p : p2 = SubSeq(p, 1, i - 1) \o SubSeq(p, i + 1, Len(p))
     /\ h2 = h
  \/ p # <<>> /\ h2 = Head(p) /\ p2 = Tail(p)

LEMMA SubSeqElems ==
  ASSUME NEW s \in Seq(Value), NEW m \in 1 .. Len(s) + 1, NEW n \in m - 1 .. Len(s)
  PROVE  /\ SubSeq(s, m, n) \in Seq(Value) /\ Len(SubSeq(s, m, n)) = n - m + 1
         /\ \A i \in 1 .. n - m + 1 : SubSeq(s, m, n)[i] = s[m + i - 1]
OBVIOUS


\* A value moves from the head of c to the end of q.
LEMMA ValueMoves ==
  ASSUME NEW q \in Seq(Value), NEW v \in Value, NEW c \in Seq(Value)
  PROVE  Append(q, v) \o c = q \o (<<v>> \o c)
<1>1. PICK x, y, d, z : x = Append(q, v) /\ y = x \o c /\ d = <<v>> \o c /\ z = q \o d
  OBVIOUS
<1>2. PICK m, n \in Nat : m = Len(q) /\ n = Len(c)
  OBVIOUS
<1>3. /\ x \in Seq(Value) /\ Len(x) = m + 1 /\ x[m + 1] = v
      /\ \A j \in 1 .. m : x[j] = q[j]
  BY <1>1, <1>2, AppendElems
<1>4. /\ y \in Seq(Value) /\ Len(y) = m + 1 + n
      /\ \A i \in 1 .. m + 1 + n : y[i] = IF i <= m + 1 THEN x[i] ELSE c[i - (m + 1)]
  BY <1>1, <1>2, <1>3, ConcatElems
<1>5. <<v>> \in Seq(Value) /\ Len(<<v>>) = 1 /\ <<v>>[1] = v
  OBVIOUS
<1>6. /\ d \in Seq(Value) /\ Len(d) = 1 + n /\ d[1] = v
      /\ \A i \in 1 .. 1 + n : i > 1 => d[i] = c[i - 1]
  <2>1. /\ d \in Seq(Value) /\ Len(d) = 1 + n
        /\ \A i \in 1 .. 1 + n : d[i] = IF i <= 1 THEN <<v>>[i] ELSE c[i - 1]
    BY <1>1, <1>2, <1>5, ConcatElems
  <2> QED BY <1>5, <2>1
<1>7. /\ z \in Seq(Value) /\ Len(z) = m + (1 + n)
      /\ \A i \in 1 .. m + (1 + n) : z[i] = IF i <= m THEN q[i] ELSE d[i - m]
  BY <1>1, <1>2, <1>6, ConcatElems
<1>8. ASSUME NEW i \in 1 .. m + 1 + n
      PROVE  y[i] = z[i]
  <2>1. CASE i <= m
    BY <1>3, <1>4, <1>7, <2>1
  <2>2. CASE i = m + 1
    <3>1. i - m = 1 /\ i <= m + 1 /\ ~(i <= m) /\ i \in 1 .. m + (1 + n)
      BY <2>2
    <3> QED BY <1>3, <1>4, <1>6, <1>7, <2>2, <3>1
  <2>3. CASE i > m + 1
    <3>1. /\ ~(i <= m + 1) /\ ~(i <= m) /\ i - m \in 1 .. 1 + n /\ i - m > 1
          /\ i - m - 1 = i - (m + 1) /\ i \in 1 .. m + (1 + n)
      BY <2>3
    <3> QED BY <1>4, <1>6, <1>7, <3>1
  <2> QED BY <2>1, <2>2, <2>3
<1>9. Len(y) = Len(z) /\ Len(y) = m + 1 + n
  BY <1>4, <1>7
<1>10. y = z
  BY <1>4, <1>7, <1>8, <1>9, SeqExt
<1> QED BY <1>1, <1>10

LEMMA FeedSays ==
  ASSUME NEW q \in Seq(Value), NEW c \in Seq(Value), NEW v \in Value, NEW h
  PROVE  FeedStep(q \o c, h, q \o Append(c, v), h)
<1>1. PICK p, x : p = q \o c /\ x = Append(p, v)
  OBVIOUS
<1>2. p \in Seq(Value) /\ Len(p) \in Nat
  BY <1>1
<1>3. /\ x \in Seq(Value) /\ Len(x) = Len(p) + 1
      /\ \A j \in 1 .. Len(p) : x[j] = p[j]
  BY <1>1, <1>2, AppendElems
<1>4. PICK y : y = SubSeq(x, 1, Len(p))
  OBVIOUS
<1>5. 1 \in 1 .. Len(x) + 1 /\ Len(p) \in 1 - 1 .. Len(x)
  BY <1>2, <1>3
<1>6. /\ y \in Seq(Value) /\ Len(y) = Len(p) - 1 + 1
      /\ \A i \in 1 .. Len(p) - 1 + 1 : y[i] = x[1 + i - 1]
  BY <1>3, <1>4, <1>5, SubSeqElems
<1>7. Len(p) - 1 + 1 = Len(p) /\ \A i \in 1 .. Len(p) : 1 + i - 1 = i
  BY <1>2
<1>8. \A i \in 1 .. Len(p) : y[i] = p[i]
  BY <1>3, <1>6, <1>7
<1>9. y = p
  BY <1>2, <1>6, <1>7, <1>8, SeqExt
<1>10. x = q \o Append(c, v)
  BY <1>1, AppendConcat
<1> QED BY <1>1, <1>3, <1>4, <1>9, <1>10 DEF FeedStep

LEMMA FeedLoses ==
  ASSUME NEW q \in Seq(Value), NEW v \in Value, NEW c \in Seq(Value), NEW h
  PROVE  FeedStep(q \o (<<v>> \o c), h, q \o c, h)
<1>1. PICK x, p : x = Append(q, v) /\ p = x \o c
  OBVIOUS
<1>2. PICK m, n \in Nat : m = Len(q) /\ n = Len(c)
  OBVIOUS
<1>3. /\ x \in Seq(Value) /\ Len(x) = m + 1
      /\ \A j \in 1 .. m : x[j] = q[j]
  BY <1>1, <1>2, AppendElems
<1>4. /\ p \in Seq(Value) /\ Len(p) = m + 1 + n
      /\ \A i \in 1 .. m + 1 + n : p[i] = IF i <= m + 1 THEN x[i] ELSE c[i - (m + 1)]
  BY <1>1, <1>2, <1>3, ConcatElems
<1>5. PICK y, z : y = SubSeq(p, 1, m) /\ z = SubSeq(p, m + 2, m + 1 + n)
  OBVIOUS
<1>6. /\ 1 \in 1 .. Len(p) + 1 /\ m \in 1 - 1 .. Len(p)
      /\ m + 2 \in 1 .. Len(p) + 1 /\ m + 1 + n \in m + 2 - 1 .. Len(p)
  BY <1>4
<1>7. y = q
  <2>1. /\ y \in Seq(Value) /\ Len(y) = m - 1 + 1
        /\ \A i \in 1 .. m - 1 + 1 : y[i] = p[1 + i - 1]
    BY <1>4, <1>5, <1>6, SubSeqElems
  <2>2. m - 1 + 1 = m
    OBVIOUS
  <2>3. ASSUME NEW i \in 1 .. m
        PROVE  y[i] = q[i]
    <3>1. 1 + i - 1 = i /\ i \in 1 .. m + 1 + n /\ i <= m + 1
      OBVIOUS
    <3> QED BY <1>3, <1>4, <2>1, <2>2, <3>1
  <2> QED BY <1>2, <2>1, <2>2, <2>3, SeqExt
<1>8. z = c
  <2>1. /\ z \in Seq(Value) /\ Len(z) = m + 1 + n - (m + 2) + 1
        /\ \A i \in 1 .. m + 1 + n - (m + 2) + 1 : z[i] = p[m + 2 + i - 1]
    BY <1>4, <1>5, <1>6, SubSeqElems
  <2>2. m + 1 + n - (m + 2) + 1 = n
    OBVIOUS
  <2>3. ASSUME NEW i \in 1 .. n
        PROVE  z[i] = c[i]
    <3>1. PICK j \in 1 .. m + 1 + n : j = m + 2 + i - 1 /\ ~(j <= m + 1) /\ j - (m + 1) = i
      OBVIOUS
    <3>2. z[i] = p[j]
      BY <2>1, <2>2, <3>1
    <3>3. p[j] = c[i]
      BY <1>4, <3>1
    <3> QED BY <3>2, <3>3
  <2> QED BY <1>2, <2>1, <2>2, <2>3, SeqExt
<1>9. m + 1 \in DOMAIN p /\ m + 1 - 1 = m /\ m + 1 + 1 = m + 2
  BY <1>4
<1>10. q \o c = SubSeq(p, 1, m + 1 - 1) \o SubSeq(p, m + 1 + 1, Len(p))
  BY <1>4, <1>5, <1>7, <1>8, <1>9
<1>11. p = q \o (<<v>> \o c)
  BY <1>1, ValueMoves
<1>12. PICK p2, i : p2 = q \o c /\ i = m + 1
  OBVIOUS
<1>13. i \in DOMAIN p /\ p2 = SubSeq(p, 1, i - 1) \o SubSeq(p, i + 1, Len(p))
  BY <1>9, <1>10, <1>12
<1>14. FeedStep(p, h, p2, h)
  BY <1>13, Zenon DEF FeedStep
<1> QED BY <1>11, <1>12, <1>14

LEMMA FeedHears ==
  ASSUME NEW q \in Seq(Value), NEW v \in Value, NEW c \in Seq(Value), NEW h
  PROVE  FeedStep((<<v>> \o q) \o c, h, q \o c, v)
<1>1. PICK x, p, z : x = <<v>> \o q /\ p = x \o c /\ z = q \o c
  OBVIOUS
<1>2. PICK m, n \in Nat : m = Len(q) /\ n = Len(c)
  OBVIOUS
<1>3. <<v>> \in Seq(Value) /\ Len(<<v>>) = 1 /\ <<v>>[1] = v
  OBVIOUS
<1>4. /\ x \in Seq(Value) /\ Len(x) = 1 + m /\ x[1] = v
      /\ \A i \in 1 .. m : x[i + 1] = q[i]
  <2>1. /\ x \in Seq(Value) /\ Len(x) = 1 + m
        /\ \A i \in 1 .. 1 + m : x[i] = IF i <= 1 THEN <<v>>[i] ELSE q[i - 1]
    BY <1>1, <1>2, <1>3, ConcatElems
  <2>2. \A i \in 1 .. m : i + 1 \in 1 .. 1 + m /\ ~(i + 1 <= 1) /\ i + 1 - 1 = i
    OBVIOUS
  <2> QED BY <1>3, <2>1, <2>2
<1>5. /\ p \in Seq(Value) /\ Len(p) = 1 + m + n
      /\ \A i \in 1 .. 1 + m + n : p[i] = IF i <= 1 + m THEN x[i] ELSE c[i - (1 + m)]
  BY <1>1, <1>2, <1>4, ConcatElems
<1>6. /\ z \in Seq(Value) /\ Len(z) = m + n
      /\ \A i \in 1 .. m + n : z[i] = IF i <= m THEN q[i] ELSE c[i - m]
  BY <1>1, <1>2, ConcatElems
<1>7. p # <<>> /\ p[1] = v
  BY <1>4, <1>5
<1>8. PICK b : b = Tail(p)
  OBVIOUS
<1>9. /\ b \in Seq(Value) /\ Head(p) = p[1] /\ Len(b) = Len(p) - 1
      /\ \A j \in 1 .. Len(p) - 1 : b[j] = p[j + 1]
  BY <1>5, <1>7, <1>8, TailElems
<1>10. Len(p) - 1 = m + n
  BY <1>5
<1>11. ASSUME NEW i \in 1 .. m + n
       PROVE  b[i] = z[i]
  <2>1. b[i] = p[i + 1] /\ i + 1 \in 1 .. 1 + m + n
    BY <1>9, <1>10
  <2>2. CASE i <= m
    <3>1. i \in 1 .. m /\ i + 1 <= 1 + m
      BY <2>2
    <3>2. p[i + 1] = x[i + 1]
      BY <1>5, <2>1, <3>1
    <3>3. z[i] = q[i]
      BY <1>6, <2>2
    <3> QED BY <1>4, <2>1, <3>1, <3>2, <3>3
  <2>3. CASE ~(i <= m)
    <3>1. ~(i + 1 <= 1 + m) /\ i + 1 - (1 + m) = i - m
      BY <2>3
    <3> QED BY <1>5, <1>6, <2>1, <2>3, <3>1
  <2> QED BY <2>2, <2>3
<1>12. b = z
  BY <1>6, <1>9, <1>10, <1>11, SeqExt
<1> QED BY <1>1, <1>7, <1>8, <1>9, <1>12 DEF FeedStep


\* What is on its way of k in the callback queue q and the channel c before it.
Pending(q, c, k) == About(q, k) \o About(c, k)

LEMMA AboutType ==
  ASSUME NEW s \in Seq(Reports), NEW k
  PROVE  About(s, k) \in Seq(Value)
<1>1. PICK f : f = AboutUpTo(s, k)
  OBVIOUS
<1> QED BY <1>1, AboutFacts

LEMMA AboutHead ==
  ASSUME NEW s \in Seq(Reports), s # <<>>, NEW k
  PROVE  /\ Tail(s) \in Seq(Reports) /\ Head(s) \in Reports /\ Head(s).value \in Value
         /\ Head(s).topic = k => About(s, k) = <<Head(s).value>> \o About(Tail(s), k)
         /\ Head(s).topic # k => About(s, k) = About(Tail(s), k)
<1>1. Tail(s) \in Seq(Reports) /\ Head(s) \in Reports
  BY TailElems
<1>2. Head(s).value \in Value
  BY <1>1 DEF Reports
<1>3. About(s, k) = First(s, k) \o About(Tail(s), k)
  BY AboutTail
<1>4. <<>> \o About(Tail(s), k) = About(Tail(s), k)
  BY <1>1, AboutType, ConcatNothing
<1> QED BY <1>1, <1>2, <1>3, <1>4 DEF First

LEMMA PendingSays ==
  ASSUME NEW q \in Seq(Reports), NEW c \in Seq(Reports), NEW r \in Reports, NEW h
  PROVE  FeedStep(Pending(q, c, r.topic), h, Pending(q, Append(c, r), r.topic), h)
<1>1. PICK k, v, a, b : /\ k = r.topic /\ v = r.value
                        /\ a = About(q, k) /\ b = About(c, k)
  OBVIOUS
<1>2. v \in Value /\ a \in Seq(Value) /\ b \in Seq(Value)
  BY <1>1, AboutType DEF Reports
<1>3. About(Append(c, r), k) = Append(b, v)
  BY <1>1, AboutAppend DEF Filtered
<1>4. FeedStep(a \o b, h, a \o Append(b, v), h)
  BY <1>2, FeedSays
<1> QED BY <1>1, <1>3, <1>4 DEF Pending

LEMMA PendingMoves ==
  ASSUME NEW q \in Seq(Reports), NEW c \in Seq(Reports), c # <<>>
  PROVE  Pending(Append(q, Head(c)), Tail(c), Head(c).topic) = Pending(q, c, Head(c).topic)
<1>1. PICK r, k, v, a, b : /\ r = Head(c) /\ k = r.topic /\ v = r.value
                           /\ a = About(q, k) /\ b = About(Tail(c), k)
  OBVIOUS
<1>2. /\ v \in Value /\ a \in Seq(Value) /\ b \in Seq(Value) /\ r \in Reports
      /\ About(c, k) = <<v>> \o b
  BY <1>1, AboutHead, AboutType
<1>3. About(Append(q, r), k) = Append(a, v)
  BY <1>1, <1>2, AboutAppend DEF Filtered
<1>4. Append(a, v) \o b = a \o (<<v>> \o b)
  BY <1>2, ValueMoves
<1> QED BY <1>1, <1>2, <1>3, <1>4 DEF Pending

LEMMA PendingLoses ==
  ASSUME NEW q \in Seq(Reports), NEW c \in Seq(Reports), c # <<>>, NEW h
  PROVE  FeedStep(Pending(q, c, Head(c).topic), h, Pending(q, Tail(c), Head(c).topic), h)
<1>1. PICK r, k, v, a, b : /\ r = Head(c) /\ k = r.topic /\ v = r.value
                           /\ a = About(q, k) /\ b = About(Tail(c), k)
  OBVIOUS
<1>2. /\ v \in Value /\ a \in Seq(Value) /\ b \in Seq(Value)
      /\ About(c, k) = <<v>> \o b
  BY <1>1, AboutHead, AboutType
<1>3. FeedStep(a \o (<<v>> \o b), h, a \o b, h)
  BY <1>2, FeedLoses
<1> QED BY <1>1, <1>2, <1>3 DEF Pending

LEMMA PendingHears ==
  ASSUME NEW q \in Seq(Reports), NEW c \in Seq(Reports), q # <<>>, NEW h
  PROVE  FeedStep(Pending(q, c, Head(q).topic), h,
                  Pending(Tail(q), c, Head(q).topic), Head(q).value)
<1>1. PICK r, k, v, a, b : /\ r = Head(q) /\ k = r.topic /\ v = r.value
                           /\ a = About(Tail(q), k) /\ b = About(c, k)
  OBVIOUS
<1>2. /\ v \in Value /\ a \in Seq(Value) /\ b \in Seq(Value)
      /\ About(q, k) = <<v>> \o a
  BY <1>1, AboutHead, AboutType
<1>3. FeedStep((<<v>> \o a) \o b, h, a \o b, v)
  BY <1>2, FeedHears
<1> QED BY <1>1, <1>2, <1>3 DEF Pending

\* A report of another topic makes no difference.
LEMMA PendingOther ==
  ASSUME NEW q \in Seq(Reports), NEW c, NEW k
  PROVE  /\ \A r \in Reports :
              r.topic # k => Pending(Append(q, r), c, k) = Pending(q, c, k)
         /\ q # <<>> /\ Head(q).topic # k => Pending(Tail(q), c, k) = Pending(q, c, k)
<1>1. ASSUME NEW r \in Reports, r.topic # k
      PROVE  Pending(Append(q, r), c, k) = Pending(q, c, k)
  <2>1. About(Append(q, r), k) = About(q, k)
    BY <1>1, AboutAppend DEF Filtered
  <2> QED BY <2>1 DEF Pending
<1>2. ASSUME q # <<>>, Head(q).topic # k
      PROVE  Pending(Tail(q), c, k) = Pending(q, c, k)
  <2>1. About(Tail(q), k) = About(q, k)
    BY <1>2, AboutHead
  <2> QED BY <2>1 DEF Pending
<1> QED BY <1>1, <1>2


-----------------------------------------------------------------------------
(* Every step of Events is a step of both feeds.                           *)

\* The topics that pass one channel only, and that channel.
Feeds(c, k) ==
  \/ c = "leader" /\ k = Leader
  \/ c = "reconnect" /\ k = Reconnect
FeedMove(c, k) ==
  FeedStep(Pending(chan["callback"], chan[c], k), seen[k],
           Pending(chan'["callback"], chan'[c], k), seen'[k])

LEMMA FeedChannels ==
  ASSUME NEW c, NEW k, Feeds(c, k)
  PROVE  /\ c \in Channel \ {"ring", "callback"} /\ k \in Topics
         /\ \A p \in Peer : StatusOf(p) # k
         /\ \A r : Carries(c, r) => r.topic = k
         /\ \A d \in Channel \ {c, "callback"} : \A r : Carries(d, r) => r.topic # k
<1>1. /\ c \in Channel \ {"ring", "callback"} /\ k \in Topics
      /\ \A p \in Peer : StatusOf(p) # k
  BY TopicsApart DEF Feeds, Channel
<1>2. \A r : Carries(c, r) => r.topic = k
  BY DEF Feeds, Carries
<1>3. ASSUME NEW d \in Channel \ {c, "callback"}, NEW r, Carries(d, r)
      PROVE  r.topic # k
  <2>1. CASE d = "ring"
    BY <1>1, <1>3, <2>1 DEF Carries
  <2>2. CASE d # "ring"
    <3>1. d \in {"leader", "reconnect"}
      BY <2>2 DEF Channel
    <3> QED BY <1>3, <3>1, TopicsApart DEF Feeds, Carries
  <2> QED BY <2>1, <2>2
<1> QED BY <1>1, <1>2, <1>3

\* The other channel of the two has nothing about k.
LEMMA OnTheWayIs ==
  ASSUME NEW c, NEW k, Feeds(c, k), NEW ch, \A d \in Channel : PipeFine(d, ch[d])
  PROVE  About(ch["callback"], k) \o About(ch["leader"], k) \o About(ch["reconnect"], k)
           = Pending(ch["callback"], ch[c], k)
<1>1. PICK q, x, y : q = ch["callback"] /\ x = ch["leader"] /\ y = ch["reconnect"]
  OBVIOUS
<1>2. /\ PipeFine("callback", q) /\ PipeFine("leader", x) /\ PipeFine("reconnect", y)
  BY <1>1 DEF Channel
<1>3. q \in Seq(Reports) /\ x \in Seq(Reports) /\ y \in Seq(Reports)
  BY <1>2 DEF PipeFine
<1>4. PICK a, b, d : a = About(q, k) /\ b = About(x, k) /\ d = About(y, k)
  OBVIOUS
<1>5. a \in Seq(Value) /\ b \in Seq(Value) /\ d \in Seq(Value)
  BY <1>3, <1>4, AboutType
<1>6. CASE c = "leader" /\ k = Leader
  <2>1. NoneOf(y, k)
    BY <1>2, <1>6, TopicsApart DEF PipeFine, Carries, NoneOf
  <2>2. d = <<>>
    BY <1>3, <1>4, <2>1, AboutNone
  <2>3. (a \o b) \o <<>> = a \o b
    BY <1>5
  <2> QED BY <1>1, <1>4, <1>6, <2>2, <2>3 DEF Pending
<1>7. CASE c = "reconnect" /\ k = Reconnect
  <2>1. NoneOf(x, k)
    BY <1>2, <1>7, TopicsApart DEF PipeFine, Carries, NoneOf
  <2>2. b = <<>>
    BY <1>3, <1>4, <2>1, AboutNone
  <2>3. (a \o <<>>) \o d = a \o d
    BY <1>5, ConcatNothing
  <2> QED BY <1>1, <1>4, <1>7, <2>2, <2>3 DEF Pending
<1> QED BY <1>6, <1>7 DEF Feeds

LEMMA FeedIdles ==
  ASSUME NEW c, NEW k, chan'["callback"] = chan["callback"], chan'[c] = chan[c],
         seen' = seen
  PROVE  FeedMove(c, k)
BY DEF FeedMove, FeedStep

LEMMA FeedSent ==
  ASSUME Pipes, NEW c, NEW k, Feeds(c, k), NEW d \in Channel, NEW r \in Reports,
         Carries(d, r), d = "callback" => r.topic # k, Sent(d, r), seen' = seen
  PROVE  FeedMove(c, k)
<1>1. PICK q, q2, x, x2, h : /\ q = chan["callback"] /\ q2 = chan'["callback"]
                             /\ x = chan[c] /\ x2 = chan'[c] /\ h = seen[k]
  OBVIOUS
<1>2. c \in Channel \ {"ring", "callback"} /\ "callback" \in Channel
  BY FeedChannels DEF Channel
<1>3. q \in Seq(Reports) /\ x \in Seq(Reports)
  BY <1>1, <1>2 DEF Pipes, PipeFine
<1>4. CASE d = c
  <2>1. r.topic = k /\ q2 = q /\ (x2 = x \/ x2 = Append(x, r))
    BY <1>1, <1>2, <1>4, FeedChannels DEF Sent
  <2>2. FeedStep(Pending(q, x, k), h, Pending(q, Append(x, r), k), h)
    BY <1>3, <2>1, PendingSays
  <2>3. FeedStep(Pending(q, x, k), h, Pending(q, x, k), h)
    BY DEF FeedStep
  <2> QED BY <1>1, <2>1, <2>2, <2>3 DEF FeedMove
<1>5. CASE d = "callback"
  <2>1. r.topic # k /\ x2 = x /\ (q2 = q \/ q2 = Append(q, r))
    BY <1>1, <1>2, <1>5 DEF Sent
  <2>2. Pending(Append(q, r), x, k) = Pending(q, x, k)
    BY <1>3, <2>1, PendingOther
  <2>3. Pending(q2, x2, k) = Pending(q, x, k)
    BY <2>1, <2>2
  <2> QED BY <1>1, <2>3 DEF FeedMove, FeedStep
<1>6. CASE d \notin {c, "callback"}
  BY <1>2, <1>6, FeedIdles DEF Sent
<1> QED BY <1>4, <1>5, <1>6

LEMMA FeedForwarded ==
  ASSUME Pipes, NEW c, NEW k, Feeds(c, k), NEW d \in Channel \ {"callback"},
         chan[d] # <<>>, Forwarded(d, Head(chan[d])), seen' = seen
  PROVE  FeedMove(c, k)
<1>1. PICK q, q2, x, y, r, h : /\ q = chan["callback"] /\ q2 = chan'["callback"]
                               /\ x = chan[c] /\ y = chan[d]
                               /\ r = Head(y) /\ h = seen[k]
  OBVIOUS
<1>2. c \in Channel \ {"ring", "callback"} /\ "callback" \in Channel
  BY FeedChannels DEF Channel
<1>3. /\ PipeFine(d, y) /\ y # <<>> /\ q \in Seq(Reports) /\ x \in Seq(Reports)
      /\ q2 = q \/ q2 = Append(q, r)
  BY <1>1, <1>2 DEF Pipes, PipeFine, Forwarded
<1>4. r \in Reports /\ Carries(d, r)
  BY <1>1, <1>3, PipeTail
<1>5. CASE d = c
  <2>1. r.topic = k /\ x # <<>> /\ r = Head(x) /\ chan'[c] = Tail(x)
    BY <1>1, <1>3, <1>4, <1>5, FeedChannels DEF Forwarded
  <2>2. Pending(Append(q, r), Tail(x), k) = Pending(q, x, k)
    BY <1>3, <2>1, PendingMoves
  <2>3. FeedStep(Pending(q, x, k), h, Pending(q, Tail(x), k), h)
    BY <1>3, <2>1, PendingLoses
  <2>4. FeedStep(Pending(q, x, k), h, Pending(q2, Tail(x), k), h)
    BY <1>3, <2>2, <2>3 DEF FeedStep
  <2> QED BY <1>1, <2>1, <2>4 DEF FeedMove
<1>6. CASE d # c
  <2>1. r.topic # k /\ chan'[c] = x
    BY <1>1, <1>2, <1>4, <1>6, FeedChannels DEF Forwarded
  <2>2. Pending(Append(q, r), x, k) = Pending(q, x, k)
    BY <1>3, <1>4, <2>1, PendingOther
  <2>3. Pending(q2, x, k) = Pending(q, x, k)
    BY <1>3, <2>2
  <2> QED BY <1>1, <2>1, <2>3 DEF FeedMove, FeedStep
<1> QED BY <1>5, <1>6

LEMMA FeedCallback ==
  ASSUME Basics, Pipes, NEW c, NEW k, Feeds(c, k), Callback
  PROVE  FeedMove(c, k)
<1>1. PICK q, x, r, h : /\ q = chan["callback"] /\ x = chan[c]
                        /\ r = Head(q) /\ h = seen[k]
  OBVIOUS
<1>2. c \in Channel \ {"ring", "callback"} /\ "callback" \in Channel /\ k \in Topics
  BY FeedChannels DEF Channel
<1>3. q # <<>> /\ q \in Seq(Reports) /\ x \in Seq(Reports)
  BY <1>1, <1>2 DEF Pipes, PipeFine, Callback
<1>4. r \in Reports
  BY <1>1, <1>3, TailElems
<1>5. /\ chan' = [chan EXCEPT !["callback"] = Tail(q)]
      /\ seen' = [seen EXCEPT ![r.topic] = r.value]
  BY <1>1 DEF Callback
<1>6. chan'["callback"] = Tail(q) /\ chan'[c] = x
  BY <1>1, <1>2, <1>5 DEF Pipes
<1>7. seen'[k] = IF r.topic = k THEN r.value ELSE h
  BY <1>1, <1>2, <1>5 DEF Basics
<1>8. CASE r.topic = k
  <2>1. FeedStep(Pending(q, x, k), h, Pending(Tail(q), x, k), r.value)
    BY <1>1, <1>3, <1>8, PendingHears
  <2> QED BY <1>1, <1>6, <1>7, <1>8, <2>1 DEF FeedMove
<1>9. CASE r.topic # k
  <2>1. Pending(Tail(q), x, k) = Pending(q, x, k)
    BY <1>1, <1>3, <1>9, PendingOther
  <2> QED BY <1>1, <1>6, <1>7, <1>9, <2>1 DEF FeedMove, FeedStep
<1> QED BY <1>8, <1>9


\* A task tells the callback queue directly of a status only.
LEMMA OwedToCallback ==
  ASSUME NEW t \in Task, NEW s \in Seq(Owing), s # <<>>, MayOwe(t, s),
         Head(s).to = "callback"
  PROVE  \E p \in Peer : Head(s).report.topic = StatusOf(p)
<1>1. PICK o, n : o = Head(s) /\ n = Len(s)
  OBVIOUS
<1>2. o = s[1] /\ n \in Nat \ {0} /\ n > 0
  BY <1>1, TailElems
<1>3. t # "timer" /\ n \in 1 .. 2 /\ (t \in {"handler", "app"} => n = 1)
  <2>1. Len(s) \in Nat
    BY <1>1, <1>2
  <2>2. /\ t = "timer" => Len(s) = 0
        /\ t \in {"handler", "app"} => Len(s) \in 0 .. 1
        /\ Len(s) \in 0 .. 2
    BY <2>1, OwedLength
  <2> QED BY <1>1, <1>2, <2>2
<1>4. t \notin {"handler", "app"}
  <2>1. t \in {"handler", "app"} => o.to \in {"leader", "ring"}
    BY <1>1, <1>2, <1>3 DEF MayOwe
  <2> QED BY <1>1, <2>1
<1>5. n = 1
  <2>1. CASE t = "watcher"
    <3>1. n = 2 => o = To("leader", Says(Leader, Nobody))
      BY <1>1, <1>2, <2>1 DEF MayOwe
    <3>2. To("leader", Says(Leader, Nobody)).to = "leader"
      BY ToFields
    <3> QED BY <1>1, <1>3, <3>1, <3>2
  <2>2. CASE t = "ping"
    <3>1. PICK p \in Peer : n = 2 => o = To("ring", Says(StatusOf(p), "Disconnected"))
      BY <1>1, <1>2, <2>2 DEF MayOwe
    <3>2. To("ring", Says(StatusOf(p), "Disconnected")).to = "ring"
      BY ToFields
    <3> QED BY <1>1, <1>3, <3>1, <3>2
  <2> QED BY <1>3, <1>4, <2>1, <2>2 DEF Task
<1>6. t \in {"watcher", "ping"}
  BY <1>3, <1>4 DEF Task
<1>7. PICK p \in Peer : o = To("callback", Says(StatusOf(p), "Disconnected"))
  BY <1>1, <1>2, <1>5, <1>6 DEF MayOwe
<1>8. o.report.topic = StatusOf(p)
  BY <1>7, ToFields, SaysValue
<1> QED BY <1>1, <1>8

LEMMA FeedReport ==
  ASSUME EventsInv, NEW c, NEW k, Feeds(c, k), NEW t \in Task, Report(t)
  PROVE  FeedMove(c, k)
<1>1. PICK s, o : s = todo[t] /\ o = Head(todo[t])
  OBVIOUS
<1>2. Making(t, o, Tail(s)) /\ s \in Seq(Owing) /\ s # <<>> /\ MayOwe(t, s)
  BY <1>1, ReportParts DEF EventsInv, Making, Debts
<1>3. /\ o \in Owing /\ Carries(o.to, o.report) /\ Sent(o.to, o.report) /\ seen' = seen
  BY <1>2 DEF Making, NextDebt
<1>4. o.to \in Channel /\ o.report \in Reports
  BY <1>3 DEF Owing
<1>5. o.to = "callback" => o.report.topic # k
  BY <1>1, <1>2, OwedToCallback, FeedChannels
<1>6. Pipes
  BY DEF EventsInv
<1> QED BY <1>3, <1>4, <1>5, <1>6, FeedSent

LEMMA FeedLink ==
  ASSUME EventsInv, NEW c, NEW k, Feeds(c, k),
         LinkLost \/ LinkBack \/ RetrySucceeds \/ ReportBack \/ GiveUp
  PROVE  FeedMove(c, k)
<1>1. /\ seen' = seen
      /\ \/ chan' = chan
         \/ \E v \in {"retrying", "back", "failed"} : Send("reconnect", Says(Reconnect, v))
  BY DEF LinkLost, LinkBack, RetrySucceeds, ReportBack, GiveUp, ReconnectUnchanged
<1>2. CASE chan' = chan
  BY <1>1, <1>2, FeedIdles
<1>3. ASSUME NEW v \in {"retrying", "back", "failed"},
             Send("reconnect", Says(Reconnect, v))
      PROVE  FeedMove(c, k)
  <2>1. PICK r : r = Says(Reconnect, v)
    OBVIOUS
  <2>2. v \in Value /\ "reconnect" \in Channel
    BY DEF Value, Channel
  <2>3. r \in Reports /\ Carries("reconnect", r)
    BY <2>1, <2>2, SaysType, TopicsApart DEF Carries
  <2>4. Pipes /\ lost \subseteq Topics /\ lagged \in BOOLEAN
    BY DEF EventsInv, Basics
  <2>5. Sent("reconnect", r)
    BY <1>3, <2>1, <2>2, <2>3, <2>4, SendWorks
  <2> QED BY <1>1, <2>2, <2>3, <2>4, <2>5, FeedSent
<1> QED BY <1>1, <1>2, <1>3

LEMMA FeedLeads ==
  ASSUME EventsInv, NEW c, NEW k, Feeds(c, k), BecomeLeader
  PROVE  FeedMove(c, k)
<1>1. PICK r : r = Says(Leader, Self)
  OBVIOUS
<1>2. Self \in Value /\ "leader" \in Channel
  BY DEF Value, Channel
<1>3. r \in Reports /\ Carries("leader", r)
  BY <1>1, <1>2, SaysType, TopicsApart DEF Carries
<1>4. Pipes /\ lost \subseteq Topics /\ lagged \in BOOLEAN
  BY DEF EventsInv, Basics
<1>5. Send("leader", r) /\ seen' = seen
  BY <1>1 DEF BecomeLeader
<1>6. Sent("leader", r)
  BY <1>2, <1>3, <1>4, <1>5, SendWorks
<1> QED BY <1>2, <1>3, <1>4, <1>5, <1>6, FeedSent

LEMMA FeedWatched ==
  ASSUME EventsInv, NEW c, NEW k, Feeds(c, k),
         NEW d \in Channel \ {"callback"}, chan[d] # <<>>,
         Forward(d, Head(chan[d]).value), seen' = seen
  PROVE  FeedMove(c, k)
<1>1. Pipes /\ lost \subseteq Topics
  BY DEF EventsInv, Basics
<1>2. Forwarded(d, Head(chan[d]))
  BY <1>1, ForwardWorks
<1> QED BY <1>1, <1>2, FeedForwarded

LEMMA FeedNext ==
  ASSUME EventsInv, [Next]_vars, NEW c, NEW k, Feeds(c, k)
  PROVE  FeedMove(c, k)
<1>1. CASE \E t \in Task : Report(t)
  BY <1>1, FeedReport
<1>2. CASE BecomeLeader
  BY <1>2, FeedLeads
<1>3. CASE LinkLost \/ LinkBack \/ RetrySucceeds \/ ReportBack \/ GiveUp
  BY <1>3, FeedLink
<1>4. CASE Callback
  BY <1>4, FeedCallback DEF EventsInv
<1>5. {"leader", "ring", "reconnect"} \subseteq Channel \ {"callback"}
  BY DEF Channel
<1>6. CASE WatchLeader
  BY <1>5, <1>6, FeedWatched DEF WatchLeader
<1>7. CASE WatchStatus
  BY <1>5, <1>7, FeedWatched DEF WatchStatus
<1>8. CASE WatchReconnect
  BY <1>5, <1>8, FeedWatched DEF WatchReconnect
<1>9. CASE WatchLeft
  <2>1. chan' = [chan EXCEPT !["ring"] = Tail(@)] /\ seen' = seen
    BY <1>9 DEF WatchLeft
  <2>2. c \in Channel \ {"ring", "callback"} /\ "callback" \in Channel
    BY FeedChannels DEF Channel
  <2>3. chan'["callback"] = chan["callback"] /\ chan'[c] = chan[c]
    BY <2>1, <2>2 DEF EventsInv, Pipes
  <2> QED BY <2>1, <2>3, FeedIdles
<1>10. CASE chan' = chan /\ seen' = seen
  BY <1>10, FeedIdles
<1>11. CASE UNCHANGED vars
  BY <1>10, <1>11 DEF vars
<1>12. CASE \/ \E t \in Task : \E l \in Peer \cup {Self} : NameLeader(t, l)
            \/ \E p \in Peer : AddPeer(p)
            \/ \E t \in Task : \E p \in Peer : RemovePeer(t, p)
            \/ \E p \in Peer : FindTimeout(p)
            \/ MarkTimeout \/ WatchLag
  BY <1>10, <1>12 DEF NameLeader, AddPeer, RemovePeer, FindTimeout, MarkTimeout, WatchLag
<1> QED BY <1>1, <1>2, <1>3, <1>4, <1>6, <1>7, <1>8, <1>9, <1>11, <1>12 DEF Next

LEMMA FeedStarts ==
  ASSUME Init
  PROVE  LeaderFeed!Init /\ ReconnectFeed!Init
<1>1. \A c \in Channel : chan[c] = <<>>
  BY DEF Init
<1>2. /\ chan["callback"] = <<>> /\ chan["leader"] = <<>> /\ chan["reconnect"] = <<>>
  BY <1>1 DEF Channel
<1>3. <<>> \o <<>> \o <<>> = <<>>
  OBVIOUS
<1>4. \A k : About(<<>>, k) = <<>>
  BY AboutEmpty
<1>5. OnTheWay(Leader) = <<>> /\ OnTheWay(Reconnect) = <<>>
  BY <1>2, <1>3, <1>4 DEF OnTheWay
<1>6. seen[Leader] = "nothing" /\ seen[Reconnect] = "nothing"
  BY TopicsApart DEF Init
<1> QED BY <1>5, <1>6 DEF LeaderFeed!Init, ReconnectFeed!Init

\* The step of OnTheWay, before and after.
LEMMA FeedPrimes ==
  ASSUME EventsInv, EventsInv', [Next]_vars, NEW c, NEW k, Feeds(c, k)
  PROVE  FeedStep(OnTheWay(k), seen[k], OnTheWay(k)', seen'[k])
<1>1. /\ \A d \in Channel : PipeFine(d, chan[d])
      /\ \A d \in Channel : PipeFine(d, chan'[d])
  BY DEF EventsInv, Pipes
<1>2. PICK x, y : x = chan /\ y = chan'
  OBVIOUS
<1>3. OnTheWay(k) = Pending(x["callback"], x[c], k)
  BY <1>1, <1>2, OnTheWayIs DEF OnTheWay
<1>4. OnTheWay(k)' = Pending(y["callback"], y[c], k)
  BY <1>1, <1>2, OnTheWayIs DEF OnTheWay
<1>5. FeedMove(c, k)
  BY FeedNext
<1> QED BY <1>2, <1>3, <1>4, <1>5 DEF FeedMove

\* The events of src/callback.rs about the leader and about the reconnections are
\* feeds: for every set of peers, every capacity of the channels and every
\* interleaving, what the application hears of either is what was reported, in
\* that order and nothing twice; a full channel or queue loses single reports and
\* disturbs no other.
THEOREM FeedsInOrder == Spec => FeedInOrder
<1>1. Feeds("leader", Leader) /\ Feeds("reconnect", Reconnect)
  BY DEF Feeds
<1>2. Init => LeaderFeed!Init /\ ReconnectFeed!Init
  BY FeedStarts
<1>3. ASSUME EventsInv, EventsInv', [Next]_vars
      PROVE  [LeaderFeed!Next]_(LeaderFeed!feed)
  <2>1. FeedStep(OnTheWay(Leader), seen[Leader], OnTheWay(Leader)', seen'[Leader])
    BY <1>1, <1>3, FeedPrimes
  <2>2. seen[Leader]' = seen'[Leader]
    BY DEF Leader
  <2> QED BY <2>1, <2>2 DEF FeedStep, LeaderFeed!Next, LeaderFeed!feed, LeaderFeed!Say,
          LeaderFeed!Lose, LeaderFeed!Hear, LeaderFeed!Without
<1>4. ASSUME EventsInv, EventsInv', [Next]_vars
      PROVE  [ReconnectFeed!Next]_(ReconnectFeed!feed)
  <2>1. FeedStep(OnTheWay(Reconnect), seen[Reconnect], OnTheWay(Reconnect)', seen'[Reconnect])
    BY <1>1, <1>4, FeedPrimes
  <2>2. seen[Reconnect]' = seen'[Reconnect]
    BY DEF Reconnect
  <2> QED BY <2>1, <2>2 DEF FeedStep, ReconnectFeed!Next, ReconnectFeed!feed,
          ReconnectFeed!Say, ReconnectFeed!Lose, ReconnectFeed!Hear, ReconnectFeed!Without
<1> QED BY <1>2, <1>3, <1>4, EventsAlways, PTL
        DEF Spec, FeedInOrder, LeaderFeed!Spec, ReconnectFeed!Spec
=============================================================================
