---------------------------- MODULE LifecycleProofs ----------------------------
(***************************************************************************)
(* Theorems about Settings and Lifecycle, for every set of threads and of  *)
(* configurations and every value of the bounds.                           *)
(***************************************************************************)
EXTENDS Lifecycle, Induction, TLAPS

-----------------------------------------------------------------------------
(* What validate() is worth.                                               *)

\* One step of the backoff of spawn_reconnect, and the delays up to attempt n.
NextDelay(d, top) == Smaller(SaturatingDouble(d), top)
DelaysUpTo(n, first, top) ==
  {f \in [0 .. n -> Nat] :
     \A k \in 0 .. n : f[k] = IF k = 0 THEN first ELSE NextDelay(f[k - 1], top)}

LEMMA NextDelayType ==
  ASSUME NEW d \in Nat, NEW top \in Nat
  PROVE  NextDelay(d, top) \in Nat
BY SettingsAssumption DEF NextDelay, Smaller, SaturatingDouble

\* A step of the backoff waits, at least as long as the one before, and within
\* the limit: neither the doubling nor its saturation overshoots.
LEMMA NextDelayBounds ==
  ASSUME NEW top \in 0 .. U32Max, NEW d \in 1 .. top
  PROVE  /\ NextDelay(d, top) \in 1 .. top
         /\ NextDelay(d, top) >= d
BY SettingsAssumption DEF NextDelay, Smaller, SaturatingDouble

\* The recursive definition of the delays has a solution, for any number of
\* attempts.
LEMMA DelaysExist ==
  ASSUME NEW n \in Nat, NEW first \in Nat, NEW top \in Nat
  PROVE  DelaysUpTo(n, first, top) # {}
<1> DEFINE T == {m \in Nat : DelaysUpTo(m, first, top) = {}}
<1>1. SUFFICES ASSUME T # {}
               PROVE  FALSE
  OBVIOUS
<1>2. PICK m \in T : \A y \in T : m <= y
  BY <1>1, LeastNatural
<1>3. CASE m = 0
  <2>1. [k \in 0 .. 0 |-> first] \in DelaysUpTo(0, first, top)
    BY DEF DelaysUpTo
  <2> QED BY <1>3, <2>1
<1>4. CASE m # 0
  <2>1. m - 1 \in Nat /\ m - 1 \notin T
    BY <1>2, <1>4
  <2>2. PICK g \in DelaysUpTo(m - 1, first, top) : TRUE
    BY <2>1
  <2> DEFINE f == [k \in 0 .. m |-> IF k < m THEN g[k]
                                    ELSE NextDelay(g[m - 1], top)]
  <2>3. g \in [0 .. m - 1 -> Nat]
    BY <2>2 DEF DelaysUpTo
  <2>4. NextDelay(g[m - 1], top) \in Nat
    <3>1. m - 1 \in 0 .. m - 1
      BY <2>1
    <3>2. g[m - 1] \in Nat
      BY <2>3, <3>1
    <3> QED BY <3>2, NextDelayType
  <2>5. f \in [0 .. m -> Nat]
    <3>1. ASSUME NEW k \in 0 .. m
          PROVE  (IF k < m THEN g[k] ELSE NextDelay(g[m - 1], top)) \in Nat
      <4>1. CASE k < m
        <5>1. k \in 0 .. m - 1
          BY <2>1, <4>1
        <5> QED BY <2>3, <4>1, <5>1
      <4>2. CASE ~(k < m)
        BY <2>4, <4>2
      <4> QED BY <4>1, <4>2
    <3> QED BY <3>1
  <2>6. ASSUME NEW k \in 0 .. m
        PROVE  f[k] = IF k = 0 THEN first ELSE NextDelay(f[k - 1], top)
    <3>1. CASE k < m
      <4>1. k \in 0 .. m - 1
        BY <3>1, <2>1
      <4>2. k # 0 => k - 1 \in 0 .. m /\ k - 1 < m
        BY <4>1, <2>1
      <4>3. g[k] = IF k = 0 THEN first ELSE NextDelay(g[k - 1], top)
        BY <2>2, <4>1 DEF DelaysUpTo
      <4> QED BY <3>1, <4>2, <4>3
    <3>2. CASE k = m
      <4>1. m - 1 \in 0 .. m /\ m - 1 < m
        BY <2>1
      <4> QED BY <3>2, <1>4, <4>1
    <3> QED BY <3>1, <3>2
  <2>7. f \in DelaysUpTo(m, first, top)
    BY <2>5, <2>6 DEF DelaysUpTo
  <2> QED BY <2>7
<1> QED BY <1>3, <1>4

\* Hence ReconnectDelay is that solution.
LEMMA DelayEquation ==
  ASSUME NEW c, c.reconnectInitial \in Nat, c.reconnectMax \in Nat
  PROVE  \A k \in 0 .. Attempts :
           ReconnectDelay(c)[k] =
             IF k = 0 THEN c.reconnectInitial
             ELSE NextDelay(ReconnectDelay(c)[k - 1], c.reconnectMax)
<1> DEFINE Body(f) == [k \in 0 .. Attempts |->
                        IF k = 0 THEN c.reconnectInitial
                        ELSE NextDelay(f[k - 1], c.reconnectMax)]
<1>1. PICK f \in DelaysUpTo(Attempts, c.reconnectInitial, c.reconnectMax) : TRUE
  BY DelaysExist, SettingsAssumption
<1>2. f = Body(f)
  BY <1>1 DEF DelaysUpTo
<1>3. ReconnectDelay(c) = CHOOSE g : g = Body(g)
  BY DEF ReconnectDelay, NextDelay
<1>4. ReconnectDelay(c) = Body(ReconnectDelay(c))
  BY <1>2, <1>3
<1> QED BY <1>4

\* Every delay is positive and within reconnect_max_ms.
LEMMA DelayBounds ==
  ASSUME NEW c, c.reconnectMax \in 0 .. U32Max,
         c.reconnectInitial \in 1 .. c.reconnectMax
  PROVE  \A k \in 0 .. Attempts : ReconnectDelay(c)[k] \in 1 .. c.reconnectMax
<1> DEFINE T == {k \in 0 .. Attempts : ReconnectDelay(c)[k] \notin 1 .. c.reconnectMax}
<1>1. SUFFICES ASSUME T # {}
               PROVE  FALSE
  OBVIOUS
<1>2. T \subseteq Nat /\ Attempts \in Nat
  BY SettingsAssumption
<1>3. PICK m \in T : \A y \in T : m <= y
  BY <1>1, <1>2, LeastNatural
<1>4. c.reconnectInitial \in Nat /\ c.reconnectMax \in Nat
  BY SettingsAssumption
<1>5. CASE m = 0
  BY <1>2, <1>4, <1>5, DelayEquation
<1>6. CASE m # 0
  <2>1. m - 1 \in 0 .. Attempts /\ m - 1 \notin T
    BY <1>2, <1>3, <1>6
  <2>2. ReconnectDelay(c)[m - 1] \in 1 .. c.reconnectMax
    BY <2>1
  <2>3. ReconnectDelay(c)[m] = NextDelay(ReconnectDelay(c)[m - 1], c.reconnectMax)
    BY <1>4, <1>6, DelayEquation
  <2> QED BY <2>2, <2>3, NextDelayBounds
<1> QED BY <1>5, <1>6

\* What the components need of a configuration follows from what validate()
\* tests (src/config.rs), for every configuration and any number of reconnect
\* attempts: no channel or interval is empty, and the backoff of spawn_reconnect
\* grows from a positive delay up to its limit and never beyond.
THEOREM ValidateSuffices ==
  ASSUME NEW c, Representable(c), Validate(c)
  PROVE  Startable(c)
<1>1. /\ c.heartbeatInterval \in Nat \ {0} /\ c.timeoutMultiplier \in Nat \ {0}
      /\ c.sendQueue \in Nat \ {0} /\ c.incomingQueue \in Nat \ {0}
      /\ c.electionMin \in Nat /\ c.electionMax \in Nat
  BY DEF Representable, Validate, Numbers, Positive
<1>2. c.reconnectMax \in 0 .. U32Max /\ c.reconnectInitial \in 1 .. c.reconnectMax
  BY SettingsAssumption DEF Representable, Validate, Numbers, Positive
<1>3. c.sendQueue > 0 /\ c.incomingQueue > 0 /\ c.heartbeatInterval > 0
  BY <1>1
<1>4. c.electionMin .. c.electionMax # {}
  <2>1. c.electionMin \in c.electionMin .. c.electionMax
    BY <1>1 DEF Validate
  <2> QED BY <2>1
<1>5. \A t \in c.electionMin .. c.electionMax : t > c.heartbeatInterval
  BY <1>1 DEF Validate
<1>6. PeerTimeout(c) >= c.heartbeatInterval
  <2>1. \A a, b \in Nat \ {0} : a * b >= a
    OBVIOUS
  <2> QED BY <1>1, <2>1 DEF PeerTimeout
<1>7. ASSUME NEW k \in 0 .. Attempts
      PROVE  /\ ReconnectDelay(c)[k] \in 1 .. c.reconnectMax
             /\ k > 0 => ReconnectDelay(c)[k] >= ReconnectDelay(c)[k - 1]
  <2>1. ReconnectDelay(c)[k] \in 1 .. c.reconnectMax
    BY <1>2, DelayBounds
  <2>2. ASSUME k > 0
        PROVE  ReconnectDelay(c)[k] >= ReconnectDelay(c)[k - 1]
    <3>1. k - 1 \in 0 .. Attempts
      BY <2>2, SettingsAssumption
    <3>2. ReconnectDelay(c)[k - 1] \in 1 .. c.reconnectMax
      BY <1>2, <3>1, DelayBounds
    <3>3. c.reconnectInitial \in Nat /\ c.reconnectMax \in Nat
      BY <1>2, SettingsAssumption
    <3>4. ReconnectDelay(c)[k] = NextDelay(ReconnectDelay(c)[k - 1], c.reconnectMax)
      BY <2>2, <3>3, DelayEquation
    <3> QED BY <1>2, <3>2, <3>4, NextDelayBounds
  <2> QED BY <2>1, <2>2
<1> QED BY <1>3, <1>4, <1>5, <1>6, <1>7 DEF Startable

-----------------------------------------------------------------------------
(* Where a call may be, and what it has in hand there.                     *)

\* The steps of InitializeNetwork and ShutdownNetwork that concern an instance.
Working == {"store", "runtime", "lock", "leave", "drain", "join", "take"}
CallState ==
  {Idle} \cup [at : {"build"}, config : Configs]
         \cup [at : Working, inst : Instance]
         \cup [at : {"connect"}, dial : Dial]
DialState ==
  [state : {"none", "called", "void", "running", "ended"},
   inst : Instance \cup {Nothing}, rt : Instance \cup {Nothing}]

LEMMA CallStates ==
  ASSUME NEW s \in CallState
  PROVE  /\ s.at \in {"idle", "build", "store", "runtime", "lock", "leave",
                      "drain", "join", "take", "connect"}
         /\ s = Idle <=> s.at = "idle"
         /\ s.at = "build" => s.config \in Configs
         /\ s.at = "connect" => s.dial \in Dial
         /\ s.at \in Working =>
              /\ s.inst \in Instance
              /\ \A w \in Working :
                   /\ [s EXCEPT !.at = w] \in CallState
                   /\ [s EXCEPT !.at = w].at = w
                   /\ [s EXCEPT !.at = w].inst = s.inst
<1>1. CASE s = Idle
  BY <1>1 DEF Idle, Working
<1>2. CASE s \in [at : {"build"}, config : Configs]
  BY <1>2 DEF Idle, Working
<1>3. CASE s \in [at : Working, inst : Instance]
  <2>1. s.at \in Working /\ s.inst \in Instance /\ s # Idle
    BY <1>3 DEF Idle, Working
  <2>2. \A w \in Working : [s EXCEPT !.at = w] \in [at : Working, inst : Instance]
    BY <1>3
  <2>3. \A w \in Working : /\ [s EXCEPT !.at = w].at = w
                           /\ [s EXCEPT !.at = w].inst = s.inst
    BY <1>3
  <2> QED BY <2>1, <2>2, <2>3 DEF CallState, Working
<1>4. CASE s \in [at : {"connect"}, dial : Dial]
  BY <1>4 DEF Idle, Working
<1> QED BY <1>1, <1>2, <1>3, <1>4 DEF CallState

\* The types behind TypeOK: a call works on an instance that was made, and is
\* in the drain of one whose tasks were cancelled.
CallsTyped ==
  /\ pc \in [Thread -> CallState]
  /\ \A t \in Thread : pc[t].at \in Working => pc[t].inst \in 1 .. started
  /\ \A t \in Thread : pc[t].at = "drain" => pc[t].inst \in stopping
  /\ \A t \in Thread : pc[t].at = "build" => Validate(pc[t].config)

InstancesTyped ==
  /\ started \in 0 .. MaxStarts
  /\ network \in 1 .. started \cup {Nothing}
  /\ runtime \in 1 .. started \cup {Nothing}
  /\ holder \in LifeThread \cup {Free}
  /\ alive \subseteq 1 .. started /\ stopping \subseteq 1 .. started
  /\ stop \subseteq stopping /\ closed \subseteq 1 .. started
  /\ registered \subseteq 1 .. started
  /\ cb \in [Instance -> {"none", "check", "recv", "call", "done"}]

EventsTyped ==
  /\ queue \in [Instance -> Seq(Event)]
  /\ \A i \in Instance : Len(queue[i]) <= QueueCap
  /\ dial \in [Dial -> DialState]
  /\ answered \subseteq Event /\ lost \subseteq Event

Typed == CallsTyped /\ InstancesTyped /\ EventsTyped

LEMMA Started ==
  ASSUME started \in 0 .. MaxStarts
  PROVE  1 .. started \subseteq Instance /\ Nothing \notin Instance
BY LifecycleAssumption DEF Instance, Nothing

LEMMA InitTyped == Init => Typed
<1> SUFFICES ASSUME Init PROVE Typed
  OBVIOUS
<1> USE LifecycleAssumption DEF Init
<1>1. CallsTyped
  BY DEF CallsTyped, CallState, Idle, Working
<1>2. InstancesTyped
  BY DEF InstancesTyped, Nothing, Free
<1>3. EventsTyped
  BY DEF EventsTyped, DialState, NoDial, Nothing
<1> QED BY <1>1, <1>2, <1>3 DEF Typed

\* A call moves from a state to another one.
LEMMA GotoTyped ==
  ASSUME CallsTyped, NEW t \in Thread, NEW next \in CallState, Goto(t, next),
         started' \in Nat, started \in Nat, started <= started',
         stopping \subseteq stopping',
         next.at \in Working => next.inst \in 1 .. started',
         next.at = "drain" => next.inst \in stopping',
         next.at = "build" => Validate(next.config)
  PROVE  CallsTyped'
BY DEF CallsTyped, Goto

\* A call goes on with the instance it has in hand.
LEMMA AdvanceTyped ==
  ASSUME CallsTyped, NEW t \in Thread, NEW w \in Working, pc[t].at \in Working,
         Goto(t, [pc[t] EXCEPT !.at = w]),
         started' = started, started \in Nat, stopping \subseteq stopping',
         w = "drain" => pc[t].inst \in stopping'
  PROVE  CallsTyped'
<1> DEFINE next == [pc[t] EXCEPT !.at = w]
<1>1. next \in CallState /\ next.at = w /\ next.inst = pc[t].inst
  BY CallStates DEF CallsTyped
<1>2. pc[t].inst \in 1 .. started
  BY DEF CallsTyped
<1>3. Goto(t, next)
  OBVIOUS
<1> HIDE DEF next
<1> QED BY <1>1, <1>2, <1>3, GotoTyped DEF Working

LEMMA StutterCalls ==
  ASSUME CallsTyped, UNCHANGED <<pc, started, stopping>>
  PROVE  CallsTyped'
BY DEF CallsTyped

-----------------------------------------------------------------------------
(* Every action keeps the types.                                           *)

LEMMA StartTyped ==
  ASSUME Typed, NEW t \in LifeThread,
         (\E c \in Configs : InitCheck(t, c)) \/ StartStep(t)
  PROVE  Typed'
<1> USE DEF Typed, GlobalsUnchanged, InstancesUnchanged, HistoryUnchanged
<1>0. t \in Thread /\ MaxStarts \in Nat
  BY LifecycleAssumption
<1>1. ASSUME NEW c \in Configs, InitCheck(t, c)
      PROVE  Typed'
  <2>1. UNCHANGED <<started, stopping>>
    BY <1>1 DEF InitCheck
  <2>2. CASE Validate(c) /\ Goto(t, [at |-> "build", config |-> c])
    <3>1. [at |-> "build", config |-> c] \in CallState
      BY DEF CallState
    <3>2. CallsTyped'
      BY <1>0, <2>1, <2>2, <3>1, GotoTyped DEF InstancesTyped, Working
    <3> QED BY <1>1, <3>2 DEF InitCheck, InstancesTyped, EventsTyped
  <2>3. CASE UNCHANGED pc
    BY <1>1, <2>1, <2>3, StutterCalls DEF InitCheck, InstancesTyped, EventsTyped
  <2> QED BY <1>1, <2>2, <2>3 DEF InitCheck
<1>2. CASE InitBuild(t)
  <2> DEFINE i == started + 1
  <2>1. i \in 1 .. i /\ i \in Instance /\ started \in Nat
    BY <1>0, <1>2 DEF InitBuild, InstancesTyped, Instance
  <2>2. EventsTyped'
    BY <1>2 DEF InitBuild, EventsTyped
  <2>3. CASE /\ started' = i
             /\ alive' = alive \cup {i}
             /\ cb' = [cb EXCEPT ![i] = "check"]
             /\ Goto(t, [at |-> "store", inst |-> i])
    <3>1. [at |-> "store", inst |-> i] \in CallState
      BY <2>1 DEF CallState, Working
    <3>2. CallsTyped'
      BY <1>0, <1>2, <2>1, <2>3, <3>1, GotoTyped DEF InitBuild
    <3>3. InstancesTyped'
      BY <1>0, <1>2, <2>1, <2>3 DEF InitBuild, InstancesTyped
    <3> QED BY <2>2, <3>2, <3>3
  <2>4. CASE Goto(t, Idle) /\ UNCHANGED <<started, alive, cb>>
    <3>1. Idle \in CallState /\ Idle.at = "idle"
      BY DEF CallState, Idle
    <3>2. CallsTyped'
      BY <1>0, <1>2, <2>1, <2>4, <3>1, GotoTyped DEF InitBuild, Working
    <3> QED BY <1>2, <2>2, <2>4, <3>2 DEF InitBuild, InstancesTyped
  <2> QED BY <1>2, <2>3, <2>4 DEF InitBuild
<1>3. CASE StoreNetwork(t)
  <2>1. pc[t] \in CallState /\ pc[t].at \in Working /\ pc[t].inst \in 1 .. started
    BY <1>0, <1>3 DEF StoreNetwork, CallsTyped, Working
  <2>2. /\ "runtime" \in Working /\ Goto(t, [pc[t] EXCEPT !.at = "runtime"])
        /\ UNCHANGED <<started, stopping>> /\ started \in Nat
    BY <1>3 DEF StoreNetwork, InstancesTyped, Working
  <2>3. CallsTyped'
    BY <1>0, <2>1, <2>2, AdvanceTyped
  <2> QED BY <1>3, <2>1, <2>3 DEF StoreNetwork, InstancesTyped, EventsTyped
<1>4. CASE StoreRuntime(t)
  <2>1. pc[t].inst \in 1 .. started
    BY <1>0, <1>4 DEF StoreRuntime, CallsTyped, Working
  <2>2. Idle \in CallState /\ Idle.at = "idle"
    BY DEF CallState, Idle
  <2>3. CallsTyped'
    BY <1>0, <1>4, <2>2, GotoTyped DEF StoreRuntime, InstancesTyped, Working
  <2> QED BY <1>4, <2>1, <2>3 DEF StoreRuntime, InstancesTyped, EventsTyped
<1> QED BY <1>1, <1>2, <1>3, <1>4 DEF StartStep

LEMMA ShutdownTyped ==
  ASSUME Typed, NEW t \in LifeThread, TakeNetwork(t) \/ ShutdownStep(t)
  PROVE  Typed'
<1> USE DEF Typed, GlobalsUnchanged, InstancesUnchanged, HistoryUnchanged
<1>0. t \in Thread /\ started \in Nat
  BY LifecycleAssumption DEF InstancesTyped
<1>i. Idle \in CallState /\ Idle.at = "idle"
  BY DEF CallState, Idle
<1>w. pc[t].at \in Working => pc[t].inst \in 1 .. started
  BY <1>0 DEF CallsTyped
<1>1. CASE TakeNetwork(t)
  <2>1. network \in 1 .. started
    BY <1>1 DEF TakeNetwork, InstancesTyped
  <2>2. [at |-> "lock", inst |-> network] \in CallState
    BY <2>1, Started DEF CallState, Working, InstancesTyped
  <2>3. CallsTyped'
    BY <1>0, <1>1, <2>1, <2>2, GotoTyped DEF TakeNetwork
  <2> QED BY <1>1, <2>3 DEF TakeNetwork, InstancesTyped, EventsTyped
<1>2. CASE LockRuntime(t)
  <2>1. CallsTyped'
    BY <1>0, <1>2, <1>w, AdvanceTyped DEF LockRuntime, Working
  <2> QED BY <1>2, <2>1 DEF LockRuntime, InstancesTyped, EventsTyped
<1>3. CASE CancelTasks(t)
  <2>1. pc[t].inst \in 1 .. started
    BY <1>3, <1>w DEF CancelTasks, Working
  <2>2. CallsTyped'
    BY <1>0, <1>3, <1>w, AdvanceTyped DEF CancelTasks, Working
  <2> QED BY <1>3, <2>1, <2>2 DEF CancelTasks, InstancesTyped, EventsTyped
<1>4. CASE DrainAndShutdown(t)
  <2>1. pc[t].inst \in stopping
    BY <1>0, <1>4 DEF DrainAndShutdown, CallsTyped
  <2>2. CallsTyped'
    BY <1>0, <1>4, <1>w, AdvanceTyped DEF DrainAndShutdown, Working
  <2> QED BY <1>4, <2>1, <2>2 DEF DrainAndShutdown, InstancesTyped, EventsTyped
<1>5. CASE JoinThread(t)
  <2>1. CallsTyped'
    BY <1>0, <1>5, <1>w, AdvanceTyped DEF JoinThread, Working
  <2> QED BY <1>5, <2>1 DEF JoinThread, InstancesTyped, EventsTyped
<1>6. CASE TakeRuntime(t)
  <2>1. pc[t].inst \in 1 .. started
    BY <1>6, <1>w DEF TakeRuntime, Working
  <2>2. CallsTyped'
    BY <1>0, <1>i, <1>6, GotoTyped DEF TakeRuntime, Working
  <2> QED BY <1>6, <2>1, <2>2 DEF TakeRuntime, InstancesTyped, EventsTyped
<1> QED BY <1>1, <1>2, <1>3, <1>4, <1>5, <1>6 DEF ShutdownStep

\* What the steps of a dial make of its state.
LEMMA DialStates ==
  ASSUME NEW d \in DialState
  PROVE  /\ \A i \in Instance :
              [d EXCEPT !.state = "called", !.inst = i] \in DialState
         /\ \A b \in {"none", "called", "void", "running", "ended"},
               r \in Instance \cup {Nothing} :
              [[d EXCEPT !.state = b] EXCEPT !.rt = r] \in DialState
         /\ [d EXCEPT !.state = "ended"] \in DialState
BY DEF DialState

LEMMA CallTyped ==
  ASSUME Typed, NEW t \in Thread,
         \/ \E k \in Dial : CallConnect(t, k)
         \/ SpawnConnect(t) \/ CallRegister(t)
  PROVE  Typed'
<1> USE DEF Typed, GlobalsUnchanged, InstancesUnchanged, HistoryUnchanged
<1>0. started \in Nat
  BY DEF InstancesTyped
<1>1. ASSUME NEW k \in Dial, CallConnect(t, k)
      PROVE  Typed'
  <2>1. [at |-> "connect", dial |-> k] \in CallState
    BY DEF CallState
  <2>2. CallsTyped'
    <3>1. /\ Goto(t, [at |-> "connect", dial |-> k])
          /\ UNCHANGED <<started, stopping>>
      BY <1>1 DEF CallConnect
    <3> QED BY <1>0, <2>1, <3>1, GotoTyped DEF Working
  <2>3. network \in Instance
    BY <1>1, Started DEF CallConnect, InstancesTyped
  <2>4. dial' \in [Dial -> DialState]
    BY <1>1, <2>3, DialStates DEF CallConnect, EventsTyped
  <2> QED BY <1>1, <2>2, <2>4 DEF CallConnect, InstancesTyped, EventsTyped
<1>2. CASE SpawnConnect(t)
  <2>1. Idle \in CallState /\ Idle.at = "idle"
    BY DEF CallState, Idle
  <2>2. CallsTyped'
    BY <1>0, <1>2, <2>1, GotoTyped DEF SpawnConnect, Working
  <2>3. runtime \in Instance \cup {Nothing}
    BY Started DEF InstancesTyped
  <2>4. dial' \in [Dial -> DialState]
    <3> DEFINE k == pc[t].dial
               b == IF runtime = Nothing THEN "void" ELSE "running"
               d == [[dial[k] EXCEPT !.state = b] EXCEPT !.rt = runtime]
    <3>1. dial \in [Dial -> DialState]
      BY DEF EventsTyped
    <3>2. dial' = [dial EXCEPT ![k] = d]
      BY <1>2, <3>1 DEF SpawnConnect
    <3>3. k \in Dial => d \in DialState
      <4>1. b \in {"none", "called", "void", "running", "ended"}
        OBVIOUS
      <4> HIDE DEF b, k
      <4> QED BY <2>3, <3>1, <4>1, DialStates
    <3> HIDE DEF d, k
    <3> QED BY <3>1, <3>2, <3>3
  <2> QED BY <1>2, <2>2, <2>4 DEF SpawnConnect, InstancesTyped, EventsTyped
<1>3. CASE CallRegister(t)
  BY <1>3, StutterCalls DEF CallRegister, InstancesTyped, EventsTyped
<1> QED BY <1>1, <1>2, <1>3

\* send_event keeps the queue within its capacity.
LEMMA SendEventTyped ==
  ASSUME EventsTyped, NEW i, NEW e \in Event, SendEvent(i, e)
  PROVE  /\ queue' \in [Instance -> Seq(Event)]
         /\ \A j \in Instance : Len(queue'[j]) <= QueueCap
         /\ lost' \subseteq Event
<1> USE DEF EventsTyped, SendEvent
<1>1. lost' \subseteq Event
  OBVIOUS
<1>2. CASE queue' = queue
  BY <1>2
<1>3. CASE i \in Instance /\ queue' = [queue EXCEPT ![i] = Append(@, e)]
           /\ ~(Len(queue[i]) >= QueueCap)
  <2>1. queue[i] \in Seq(Event) /\ QueueCap \in Nat
    BY <1>3, LifecycleAssumption
  <2>2. Append(queue[i], e) \in Seq(Event) /\ Len(Append(queue[i], e)) <= QueueCap
    BY <1>3, <2>1
  <2> QED BY <1>1, <1>3, <2>2
<1>4. i \notin Instance => queue' = queue
  OBVIOUS
<1> QED BY <1>1, <1>2, <1>3, <1>4

LEMMA TaskTyped ==
  ASSUME Typed,
         \/ \E k \in Dial : DialEnds(k)
         \/ \E i \in Instance : OtherEvent(i) \/ CallbackStep(i)
  PROVE  Typed'
<1> USE DEF Typed, GlobalsUnchanged, HistoryUnchanged
<1>1. ASSUME NEW k \in Dial, DialEnds(k)
      PROVE  Typed'
  <2>1. k \in Event
    BY DEF Event
  <2>2. dial' \in [Dial -> DialState]
    BY <1>1, DialStates DEF DialEnds, EventsTyped
  <2>3. SendEvent(dial[k].inst, k)
    BY <1>1 DEF DialEnds
  <2>4. EventsTyped'
    BY <1>1, <2>1, <2>2, <2>3, SendEventTyped DEF DialEnds, EventsTyped
  <2> QED BY <1>1, <2>4, StutterCalls DEF DialEnds, InstancesTyped
<1>2. ASSUME NEW i \in Instance, OtherEvent(i)
      PROVE  Typed'
  <2>1. Other \in Event
    BY DEF Event
  <2>2. EventsTyped'
    BY <1>2, <2>1, SendEventTyped DEF OtherEvent, EventsTyped
  <2> QED BY <1>2, <2>2, StutterCalls DEF OtherEvent, InstancesTyped
<1>3. ASSUME NEW i \in Instance, CallbackCheck(i) \/ CallbackReturns(i)
      PROVE  Typed'
  BY <1>3, StutterCalls
     DEF CallbackCheck, CallbackReturns, InstancesTyped, EventsTyped
<1>4. ASSUME NEW i \in Instance, CallbackRecv(i)
      PROVE  Typed'
  <2>1. queue[i] \in Seq(Event) /\ Len(queue[i]) <= QueueCap
    BY DEF EventsTyped
  <2>2. queue[i] # <<>> =>
          /\ Head(queue[i]) \in Event /\ Tail(queue[i]) \in Seq(Event)
          /\ Len(Tail(queue[i])) <= QueueCap
    BY <2>1, LifecycleAssumption
  <2>3. EventsTyped'
    BY <1>4, <2>2 DEF CallbackRecv, EventsTyped
  <2>4. InstancesTyped'
    BY <1>4 DEF CallbackRecv, InstancesTyped
  <2> QED BY <1>4, <2>3, <2>4, StutterCalls DEF CallbackRecv
<1> QED BY <1>1, <1>2, <1>3, <1>4 DEF CallbackStep

LEMMA NextTyped == Typed /\ [Next]_vars => Typed'
<1> SUFFICES ASSUME Typed, [Next]_vars
             PROVE  Typed'
  OBVIOUS
<1>1. CASE UNCHANGED vars
  BY <1>1 DEF vars, Typed, CallsTyped, InstancesTyped, EventsTyped
<1> QED BY <1>1, StartTyped, ShutdownTyped, CallTyped, TaskTyped DEF Next

LEMMA TypedAlways == Spec => []Typed
BY InitTyped, NextTyped, PTL DEF Spec

\* Every variable of Lifecycle keeps its type, with any number of threads that
\* start and stop the network: no queue outgrows its capacity, and only an
\* instance whose tasks were cancelled has its callback thread stopped.
THEOREM LifecycleTypeCorrect == Spec => []TypeOK
<1>1. Typed => TypeOK
  BY Started, CallStates
     DEF Typed, CallsTyped, InstancesTyped, EventsTyped, TypeOK
<1> QED BY <1>1, TypedAlways, PTL

\* Whatever configurations the application tries, a network is built only from
\* one that lets its components start and retry (initialize_network_inner calls
\* validate first).
THEOREM ConfigsSafe == Spec => []ConfigSafe
<1>1. Typed => ConfigSafe
  <2> SUFFICES ASSUME Typed, NEW t \in Thread, pc[t].at = "build"
               PROVE  Startable(pc[t].config)
    BY DEF ConfigSafe
  <2>1. pc[t].config \in Configs /\ Validate(pc[t].config)
    BY CallStates DEF Typed, CallsTyped
  <2>2. Representable(pc[t].config)
    BY <2>1, LifecycleAssumption
  <2> QED BY <2>1, <2>2, ValidateSuffices
<1> QED BY <1>1, TypedAlways, PTL

-----------------------------------------------------------------------------
(* The globals, when the application starts and stops the network from one *)
(* thread, while any number of others use it.  (Two threads that start it  *)
(* at once can leave NETWORK and RUNTIME with different instances: the     *)
(* test and the store of initialize_network_inner are two lock sections.)  *)

OneLifecycle == \A s, t \in LifeThread : s = t

\* What GlobalsAgree says once no call of a lifecycle function is under way.
Agree ==
  /\ network = runtime
  /\ alive = {network} \ {Nothing}
  /\ \A i \in Instance : i # network => cb[i] \in {"none", "done"}
  /\ network # Nothing => network \notin stop

\* Which half of the globals a call has set or cleared, step by step, and that
\* the instance it works on is the only one with tasks or a callback thread.
Stage(t) ==
  LET i == pc[t].inst
  IN pc[t].at \in Working =>
       /\ network = IF pc[t].at = "runtime" THEN i ELSE Nothing
       /\ runtime = IF pc[t].at \in {"store", "runtime"} THEN Nothing ELSE i
       /\ alive = {i}
       /\ \A j \in Instance : j # i => cb[j] \in {"none", "done"}
       /\ pc[t].at \notin {"join", "take"} => i \notin stop
       /\ pc[t].at = "take" => cb[i] = "done"

Stages ==
  /\ \A t \in LifeThread : Stage(t)
  /\ \A t \in LifeThread : pc[t].at = "build" => network = Nothing
  /\ (\A t \in LifeThread : pc[t].at \notin Working) => Agree

\* A callback thread exists once its instance was made, ends only when it was
\* told to, and is over when ShutdownNetwork has returned.
ThreadsOver ==
  \A i \in Instance : /\ i > started => cb[i] = "none"
                      /\ cb[i] = "done" => i \in stop
                      /\ i \in closed => cb[i] = "done"

LifeInv == Typed /\ Stages /\ ThreadsOver

LEMMA InitLife == Init => LifeInv
<1> SUFFICES ASSUME Init PROVE LifeInv
  OBVIOUS
<1>1. Stages
  <2>1. \A t \in LifeThread : pc[t].at = "idle"
    BY LifecycleAssumption DEF Init, Idle
  <2>2. Agree
    BY DEF Init, Agree, Nothing
  <2> QED BY <2>1, <2>2 DEF Stages, Stage, Working
<1>2. ThreadsOver
  BY DEF Init, ThreadsOver
<1> QED BY <1>1, <1>2, InitTyped DEF LifeInv

\* With one lifecycle thread, its own stage is all there is to show.
LEMMA StageSuffices ==
  ASSUME OneLifecycle, NEW t \in LifeThread,
         Stage(t)',
         pc'[t].at = "build" => network' = Nothing,
         pc'[t].at \notin Working => Agree'
  PROVE  Stages'
<1>1. \A s \in LifeThread : s = t
  BY DEF OneLifecycle
<1> QED BY <1>1 DEF Stages

\* A step of another kind: no call moves between stages, no global changes, and
\* a callback thread that is not there does not appear.
LEMMA StagesKept ==
  ASSUME Stages, CallsTyped, UNCHANGED <<network, runtime, alive, stop>>,
         \A t \in LifeThread :
           pc'[t] = pc[t] \/ (pc[t] \in {Idle} /\ pc'[t].at = "connect")
                          \/ (pc[t].at = "connect" /\ pc'[t] = Idle),
         \A i \in Instance : cb[i] \in {"none", "done"} => cb'[i] = cb[i]
  PROVE  Stages'
<1>1. \A t \in LifeThread : pc'[t].at \in Working \cup {"build"} => pc'[t] = pc[t]
  BY DEF Idle, Working
<1>2. \A t \in LifeThread : pc[t].at \in Working => pc'[t] = pc[t]
  BY DEF Idle, Working
<1>3. (\A t \in LifeThread : pc'[t].at \notin Working)
        => (\A t \in LifeThread : pc[t].at \notin Working)
  BY <1>2
<1>4. Agree => Agree'
  BY DEF Agree
<1>5. ASSUME NEW t \in LifeThread
      PROVE  Stage(t)'
  <2>1. CASE pc'[t].at \in Working
    <3>1. pc'[t] = pc[t] /\ Stage(t) /\ pc[t].inst \in Instance
      BY <1>1, <2>1, CallStates, LifecycleAssumption DEF Stages, CallsTyped
    <3>2. /\ network' = network /\ runtime' = runtime /\ alive' = alive
          /\ stop' = stop
      OBVIOUS
    <3>3. \A j \in Instance : cb[j] \in {"none", "done"} => cb'[j] = cb[j]
      OBVIOUS
    <3> QED BY <2>1, <3>1, <3>2, <3>3 DEF Stage
  <2>2. CASE pc'[t].at \notin Working
    BY <2>2 DEF Stage
  <2> QED BY <2>1, <2>2
<1> QED BY <1>1, <1>3, <1>4, <1>5 DEF Stages

LEMMA StartLife ==
  ASSUME OneLifecycle, LifeInv, NEW t \in LifeThread,
         (\E c \in Configs : InitCheck(t, c)) \/ StartStep(t)
  PROVE  Stages' /\ ThreadsOver'
<1> USE DEF GlobalsUnchanged, InstancesUnchanged, HistoryUnchanged, Goto
<1>0. /\ t \in Thread /\ pc \in [Thread -> CallState] /\ started \in Nat
      /\ \A s \in LifeThread : s = t
  BY LifecycleAssumption DEF LifeInv, Typed, CallsTyped, InstancesTyped, OneLifecycle
<1>1. ASSUME NEW c \in Configs, InitCheck(t, c)
      PROVE  Stages' /\ ThreadsOver'
  <2>1. ThreadsOver'
    BY <1>1 DEF InitCheck, ThreadsOver, LifeInv
  <2>2. pc[t].at \notin Working /\ Agree
    BY <1>0, <1>1 DEF InitCheck, Idle, Working, LifeInv, Stages
  <2>3. Agree'
    BY <1>1, <2>2 DEF InitCheck, Agree
  <2>4. CASE UNCHANGED pc
    BY <1>1, <2>1, <2>4, StagesKept DEF InitCheck, LifeInv, Typed
  <2>5. CASE network = Nothing /\ pc' = [pc EXCEPT ![t] = [at |-> "build", config |-> c]]
    <3>1. pc'[t].at = "build" /\ network' = Nothing
      BY <1>0, <1>1, <2>5 DEF InitCheck
    <3>2. Stage(t)'
      BY <3>1 DEF Stage, Working
    <3> QED BY <2>1, <2>3, <3>1, <3>2, StageSuffices
  <2> QED BY <1>1, <2>4, <2>5 DEF InitCheck
<1>2. CASE InitBuild(t)
  <2> DEFINE i == started + 1
  <2>1. i \in Instance /\ i > started /\ i \notin stop /\ i \notin closed /\ i # Nothing
    BY <1>0, <1>2, LifecycleAssumption
       DEF InitBuild, LifeInv, Typed, InstancesTyped, Instance, Nothing
  <2>2. network = Nothing /\ Agree
    BY <1>0, <1>2 DEF InitBuild, LifeInv, Stages, Working
  <2>3. CASE /\ started' = i
             /\ alive' = alive \cup {i}
             /\ cb' = [cb EXCEPT ![i] = "check"]
             /\ pc' = [pc EXCEPT ![t] = [at |-> "store", inst |-> i]]
    <3>1. pc'[t].at = "store" /\ pc'[t].inst = i
      BY <1>0, <2>3
    <3>2. network' = Nothing /\ runtime' = Nothing /\ alive' = {i} /\ i \notin stop'
      BY <1>2, <2>1, <2>2, <2>3 DEF InitBuild, Agree
    <3>3. \A j \in Instance : j # i => cb'[j] = cb[j] /\ cb'[j] \in {"none", "done"}
      BY <2>1, <2>2, <2>3 DEF Agree, LifeInv, Typed, InstancesTyped, Instance, Nothing
    <3>4. cb'[i] = "check"
      BY <2>1, <2>3 DEF LifeInv, Typed, InstancesTyped
    <3>5. Stage(t)'
      BY <3>1, <3>2, <3>3 DEF Stage
    <3>6. Stages'
      BY <3>1, <3>5, StageSuffices DEF Working
    <3>7. ThreadsOver'
      BY <1>0, <1>2, <2>1, <2>3, <3>3, <3>4
         DEF InitBuild, ThreadsOver, LifeInv, Instance
    <3> QED BY <3>6, <3>7
  <2>4. CASE pc' = [pc EXCEPT ![t] = Idle] /\ UNCHANGED <<started, alive, cb>>
    <3>1. pc'[t].at = "idle"
      BY <1>0, <2>4 DEF Idle
    <3>2. Agree'
      BY <1>2, <2>2, <2>4 DEF InitBuild, Agree
    <3>3. Stage(t)'
      BY <3>1 DEF Stage, Working
    <3>4. Stages'
      BY <3>1, <3>2, <3>3, StageSuffices
    <3> QED BY <1>2, <2>4, <3>4 DEF InitBuild, ThreadsOver, LifeInv
  <2> QED BY <1>2, <2>3, <2>4 DEF InitBuild
<1>3. CASE StoreNetwork(t)
  <2>1. pc[t].at = "store" /\ Stage(t)
    BY <1>3 DEF StoreNetwork, LifeInv, Stages
  <2>2. pc'[t].at = "runtime" /\ pc'[t].inst = pc[t].inst
    BY <1>0, <1>3, CallStates DEF StoreNetwork, Working
  <2>3. Stage(t)'
    BY <1>3, <2>1, <2>2 DEF StoreNetwork, Stage, Working
  <2>4. Stages'
    BY <2>2, <2>3, StageSuffices DEF Working
  <2> QED BY <1>3, <2>4 DEF StoreNetwork, ThreadsOver, LifeInv
<1>4. CASE StoreRuntime(t)
  <2>0. pc[t].at = "runtime" /\ pc[t] \in CallState
    BY <1>0, <1>4 DEF StoreRuntime
  <2>1. Stage(t) /\ pc[t].inst \in Instance
    BY <2>0, CallStates DEF LifeInv, Stages, Working
  <2>2. pc'[t].at = "idle"
    BY <1>0, <1>4 DEF StoreRuntime, Idle
  <2>3. pc[t].inst # Nothing
    BY <2>1, Started DEF LifeInv, Typed, InstancesTyped
  <2>4. Agree'
    BY <1>4, <2>0, <2>1, <2>3 DEF StoreRuntime, Stage, Agree, Working
  <2>5. Stage(t)'
    BY <2>2 DEF Stage, Working
  <2>6. Stages'
    BY <2>2, <2>4, <2>5, StageSuffices
  <2> QED BY <1>4, <2>6 DEF StoreRuntime, ThreadsOver, LifeInv
<1> QED BY <1>1, <1>2, <1>3, <1>4 DEF StartStep

LEMMA ShutdownLife ==
  ASSUME OneLifecycle, LifeInv, NEW t \in LifeThread,
         TakeNetwork(t) \/ ShutdownStep(t)
  PROVE  Stages' /\ ThreadsOver'
<1> USE DEF GlobalsUnchanged, InstancesUnchanged, HistoryUnchanged, Goto
<1>0. /\ t \in Thread /\ pc \in [Thread -> CallState]
      /\ \A s \in LifeThread : s = t
  BY LifecycleAssumption DEF LifeInv, Typed, CallsTyped, OneLifecycle
<1>s. Stage(t) /\ (pc[t].at \notin Working => Agree) /\ ThreadsOver
  BY <1>0 DEF LifeInv, Stages
<1>1. CASE TakeNetwork(t)
  <2>1. Agree
    BY <1>1, <1>s DEF TakeNetwork, Idle, Working
  <2>2. pc'[t].at = "lock" /\ pc'[t].inst = network
    BY <1>0, <1>1 DEF TakeNetwork
  <2>3. Stage(t)'
    <3>1. /\ network # Nothing /\ network' = Nothing
          /\ UNCHANGED <<runtime, alive, cb, stop>>
      BY <1>1 DEF TakeNetwork, InstancesUnchanged
    <3>2. /\ runtime' = network /\ alive' = {network} /\ network \notin stop'
          /\ \A j \in Instance : j # network => cb'[j] \in {"none", "done"}
      BY <2>1, <3>1 DEF Agree
    <3> QED BY <2>2, <3>1, <3>2 DEF Stage
  <2>4. Stages'
    BY <2>2, <2>3, StageSuffices DEF Working
  <2> QED BY <1>1, <1>s, <2>4 DEF TakeNetwork, ThreadsOver
<1>2. CASE LockRuntime(t)
  <2>1. pc[t].at = "lock" /\ runtime # Nothing
    <3>1. pc[t].at = "lock"
      BY <1>2 DEF LockRuntime
    <3>2. runtime = pc[t].inst
      BY <1>s, <3>1 DEF Stage, Working
    <3>3. pc[t].inst \in Instance
      <4>1. pc[t] \in CallState /\ pc[t].at \in Working
        BY <1>0, <3>1 DEF Working
      <4> QED BY <4>1, CallStates
    <3>4. Nothing \notin Instance
      BY Started DEF LifeInv, Typed, InstancesTyped
    <3> QED BY <3>1, <3>2, <3>3, <3>4
  <2>2. pc'[t].at = "leave" /\ pc'[t].inst = pc[t].inst
    <3>1. pc' = [pc EXCEPT ![t] = [pc[t] EXCEPT !.at = "leave"]]
      BY <1>2, <2>1 DEF LockRuntime
    <3>2. pc'[t] = [pc[t] EXCEPT !.at = "leave"]
      BY <1>0, <3>1
    <3> QED BY <1>0, <2>1, <3>2, CallStates DEF Working
  <2>3. Stage(t)'
    BY <1>2, <1>s, <2>1, <2>2 DEF LockRuntime, Stage, Working
  <2>4. Stages'
    BY <2>2, <2>3, StageSuffices DEF Working
  <2> QED BY <1>2, <1>s, <2>4 DEF LockRuntime, ThreadsOver
<1>3. CASE CancelTasks(t)
  <2>1. pc'[t].at = "drain" /\ pc'[t].inst = pc[t].inst
    BY <1>0, <1>3, CallStates DEF CancelTasks, Working
  <2>2. Stage(t)'
    BY <1>3, <1>s, <2>1 DEF CancelTasks, Stage, Working
  <2>3. Stages'
    BY <2>1, <2>2, StageSuffices DEF Working
  <2> QED BY <1>3, <1>s, <2>3 DEF CancelTasks, ThreadsOver
<1>4. CASE DrainAndShutdown(t)
  <2>1. pc'[t].at = "join" /\ pc'[t].inst = pc[t].inst
    BY <1>0, <1>4, CallStates DEF DrainAndShutdown, Working
  <2>2. Stage(t)'
    BY <1>4, <1>s, <2>1 DEF DrainAndShutdown, Stage, Working
  <2>3. Stages'
    BY <2>1, <2>2, StageSuffices DEF Working
  <2> QED BY <1>4, <1>s, <2>3 DEF DrainAndShutdown, ThreadsOver
<1>5. CASE JoinThread(t)
  <2>1. pc'[t].at = "take" /\ pc'[t].inst = pc[t].inst
    BY <1>0, <1>5, CallStates DEF JoinThread, Working
  <2>2. Stage(t)'
    BY <1>5, <1>s, <2>1 DEF JoinThread, Stage, Working
  <2>3. Stages'
    BY <2>1, <2>2, StageSuffices DEF Working
  <2> QED BY <1>5, <1>s, <2>3 DEF JoinThread, ThreadsOver
<1>6. CASE TakeRuntime(t)
  <2>1. pc[t].at = "take" /\ pc'[t].at = "idle"
    BY <1>0, <1>6 DEF TakeRuntime, Idle
  <2>2. Agree'
    BY <1>6, <1>s, <2>1 DEF TakeRuntime, Stage, Agree, Working, Nothing
  <2>3. Stage(t)'
    BY <2>1 DEF Stage, Working
  <2>4. Stages'
    BY <2>1, <2>2, <2>3, StageSuffices
  <2>5. ThreadsOver'
    BY <1>6, <1>s, <2>1 DEF TakeRuntime, ThreadsOver, Stage, Working
  <2> QED BY <2>4, <2>5
<1> QED BY <1>1, <1>2, <1>3, <1>4, <1>5, <1>6 DEF ShutdownStep

LEMMA CallLife ==
  ASSUME LifeInv, NEW t \in Thread,
         \/ \E k \in Dial : CallConnect(t, k)
         \/ SpawnConnect(t) \/ CallRegister(t)
  PROVE  Stages' /\ ThreadsOver'
<1> USE DEF GlobalsUnchanged, InstancesUnchanged, HistoryUnchanged, Goto
<1>0. pc \in [Thread -> CallState] /\ LifeThread \subseteq Thread
  BY LifecycleAssumption DEF LifeInv, Typed, CallsTyped
<1>1. UNCHANGED <<network, runtime, alive, stop, cb, started, closed>>
  BY DEF CallConnect, SpawnConnect, CallRegister
<1>2. ASSUME NEW s \in LifeThread
      PROVE  pc'[s] = pc[s] \/ (pc[s] \in {Idle} /\ pc'[s].at = "connect")
                            \/ (pc[s].at = "connect" /\ pc'[s] = Idle)
  <2>1. ASSUME NEW k \in Dial, CallConnect(t, k)
        PROVE  pc'[s] = pc[s] \/ (pc[s] \in {Idle} /\ pc'[s].at = "connect")
    BY <1>0, <2>1 DEF CallConnect
  <2>2. CASE SpawnConnect(t)
    BY <1>0, <2>2 DEF SpawnConnect
  <2>3. CASE CallRegister(t)
    BY <2>3 DEF CallRegister
  <2> QED BY <2>1, <2>2, <2>3
<1>3. Stages'
  BY <1>1, <1>2, StagesKept DEF LifeInv, Typed
<1> QED BY <1>1, <1>3 DEF ThreadsOver, LifeInv

LEMMA TaskLife ==
  ASSUME LifeInv,
         \/ \E k \in Dial : DialEnds(k)
         \/ \E i \in Instance : OtherEvent(i) \/ CallbackStep(i)
  PROVE  Stages' /\ ThreadsOver'
<1> USE DEF GlobalsUnchanged, HistoryUnchanged
<1>1. UNCHANGED <<network, runtime, alive, stop, started, closed, pc>>
  BY DEF DialEnds, OtherEvent, CallbackStep, CallbackCheck, CallbackRecv,
         CallbackReturns
<1>2. CASE UNCHANGED cb
  BY <1>1, <1>2, StagesKept DEF LifeInv, Typed, ThreadsOver
<1>3. ASSUME NEW i \in Instance, CallbackStep(i)
      PROVE  Stages' /\ ThreadsOver'
  <2>1. cb[i] \in {"check", "recv", "call"}
    BY <1>3 DEF CallbackStep, CallbackCheck, CallbackRecv, CallbackReturns
  <2>2. \E v \in {"check", "recv", "call", "done"} :
          cb' = [cb EXCEPT ![i] = v] /\ (v = "done" => i \in stop)
    BY <1>3 DEF CallbackStep, CallbackCheck, CallbackRecv, CallbackReturns
  <2>3. \A j \in Instance : cb[j] \in {"none", "done"} => cb'[j] = cb[j]
    BY <2>1, <2>2 DEF LifeInv, Typed, InstancesTyped
  <2>4. Stages'
    BY <1>1, <2>3, StagesKept DEF LifeInv, Typed
  <2>5. ThreadsOver'
    BY <1>1, <2>1, <2>2 DEF ThreadsOver, LifeInv, Typed, InstancesTyped
  <2> QED BY <2>4, <2>5
<1> QED BY <1>2, <1>3 DEF DialEnds, OtherEvent

LEMMA NextLife ==
  ASSUME OneLifecycle
  PROVE  LifeInv /\ [Next]_vars => LifeInv'
<1> SUFFICES ASSUME LifeInv, [Next]_vars
             PROVE  LifeInv'
  OBVIOUS
<1>1. Typed'
  BY NextTyped DEF LifeInv
<1>2. CASE UNCHANGED vars
  BY <1>1, <1>2 DEF vars, LifeInv, Stages, Stage, Agree, ThreadsOver
<1>3. CASE Next
  BY <1>1, <1>3, StartLife, ShutdownLife, CallLife, TaskLife DEF Next, LifeInv
<1> QED BY <1>2, <1>3

LEMMA LifeAlways ==
  ASSUME OneLifecycle
  PROVE  Spec => []LifeInv
BY InitLife, NextLife, PTL DEF Spec

\* Between the calls of one lifecycle thread NETWORK and RUNTIME agree, the
\* instance stored is the only one with tasks, and its callback thread listens,
\* whatever the other threads, the tasks and the callbacks do meanwhile and for
\* any number of restarts (initialize_network_inner, ShutdownNetwork).
THEOREM GlobalsStayInStep ==
  ASSUME OneLifecycle
  PROVE  Spec => []GlobalsAgree
<1>1. LifeInv => GlobalsAgree
  <2> SUFFICES ASSUME LifeInv, Settled
               PROVE  /\ network = runtime
                      /\ alive = {network} \ {Nothing}
                      /\ \A i \in Instance : i # network => cb[i] \in {"none", "done"}
                      /\ network # Nothing => cb[network] # "done" /\ network \notin stop
    BY DEF GlobalsAgree
  <2>1. Agree
    BY DEF LifeInv, Stages, Settled, Working
  <2>2. network # Nothing => network \in Instance
    BY Started DEF LifeInv, Typed, InstancesTyped
  <2> QED BY <2>1, <2>2 DEF Agree, LifeInv, ThreadsOver
<1> QED BY <1>1, LifeAlways, PTL

\* Once ShutdownNetwork has returned, the callback thread of that instance is
\* over and stays over: join_thread has waited for it, and no later start, late
\* dial or registration revives it.
THEOREM QuietForGood ==
  ASSUME OneLifecycle
  PROVE  Spec => QuietAfterShutdown
<1> DEFINE Quiet == \A i \in Instance :
                      i \in closed => cb'[i] = cb[i] /\ cb[i] = "done"
<1>1. LifeInv /\ [Next]_vars => [Quiet]_vars
  <2> SUFFICES ASSUME LifeInv, Next, NEW i \in Instance, i \in closed
               PROVE  cb'[i] = cb[i] /\ cb[i] = "done"
    BY DEF vars
  <2>1. cb[i] = "done"
    BY DEF LifeInv, ThreadsOver
  <2>2. i \in closed'
    BY DEF Next, StartStep, ShutdownStep, CallbackStep, InitCheck, InitBuild,
           StoreNetwork, StoreRuntime, TakeNetwork, LockRuntime, CancelTasks,
           DrainAndShutdown, JoinThread, TakeRuntime, CallConnect, SpawnConnect,
           CallRegister, DialEnds, OtherEvent, CallbackCheck, CallbackRecv,
           CallbackReturns, HistoryUnchanged
  <2>3. LifeInv'
    BY NextLife
  <2>4. cb'[i] = "done"
    BY <2>2, <2>3 DEF LifeInv, ThreadsOver
  <2> QED BY <2>1, <2>4
<1> QED BY <1>1, LifeAlways, PTL DEF Spec, QuietAfterShutdown
=============================================================================
