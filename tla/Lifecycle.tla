------------------------------- MODULE Lifecycle -------------------------------
(***************************************************************************)
(* The life of the library in its process: the globals NETWORK and RUNTIME *)
(* of src/ffi.rs, the functions that fill and empty them, NetworkState::new*)
(* and shutdown of src/lib.rs, and the callback thread of src/callback.rs  *)
(* that has to be gone when ShutdownNetwork returns.                       *)
(*                                                                         *)
(* Every start makes a new instance: a tokio runtime with its tasks, and a *)
(* thread that calls the application.  NETWORK and RUNTIME are two locks,  *)
(* taken one after the other; other threads of the application call        *)
(* ConnectToPeer and register callbacks at any time.                       *)
(***************************************************************************)
EXTENDS Settings, Sequences, FiniteSets

CONSTANTS
  Thread,        \* threads of the application
  LifeThread,    \* those that call InitializeNetwork and ShutdownNetwork
  Configs,       \* configurations the application tries
  QueueCap,      \* capacity of the callback queue
  MaxStarts,     \* bound: instances
  MaxConnects,   \* bound: calls of ConnectToPeer
  MaxEvents,     \* bound: other events of an instance
  MaxRegisters   \* bound: calls of RegisterConnectionResultCallback

ASSUME LifecycleAssumption ==
  /\ IsFiniteSet(Thread) /\ LifeThread \subseteq Thread /\ 0 \notin Thread
  /\ \A c \in Configs : Representable(c)
  /\ QueueCap \in Nat \ {0} /\ MaxStarts \in Nat /\ MaxConnects \in Nat
  /\ MaxEvents \in Nat /\ MaxRegisters \in Nat

VARIABLES
  network,    \* the instance in NETWORK
  runtime,    \* the instance whose runtime is in RUNTIME
  holder,     \* the thread that holds the lock of RUNTIME over a block_on
  pc,         \* pc[t]: where the call of t is
  started,    \* the number of instances made
  alive,      \* the instances whose runtime executes tasks
  stopping,   \* the instances whose shutdown_token is cancelled
  stop,       \* the instances whose callback thread was told to stop
  queue,      \* queue[i]: events on their way to the callback thread
  cb,         \* cb[i]: the callback thread
  registered, \* the instances with a connection result callback
  dial,       \* dial[k]: the k-th ConnectToPeer
  events,     \* how many other events each instance had
  changes,    \* how many registrations were changed
  closed,     \* history: the instances whose ShutdownNetwork returned
  answered,   \* history: the results that reached the application
  lost        \* history: the results that met a full queue or nobody

vars == <<network, runtime, holder, pc, started, alive, stopping, stop, queue,
          cb, registered, dial, events, changes, closed, answered, lost>>

Instance == 1 .. MaxStarts
Dial == 1 .. MaxConnects
Nothing == 0
Free == 0

Idle == [at |-> "idle"]
NoDial == [state |-> "none", inst |-> Nothing, rt |-> Nothing]

\* A dial's result, or another event of the instance.
Other == 0
Event == Dial \cup {Other}

Init ==
  /\ network = Nothing /\ runtime = Nothing /\ holder = Free
  /\ pc = [t \in Thread |-> Idle]
  /\ started = 0 /\ alive = {} /\ stopping = {} /\ stop = {}
  /\ queue = [i \in Instance |-> <<>>]
  /\ cb = [i \in Instance |-> "none"]
  /\ registered = {}
  /\ dial = [k \in Dial |-> NoDial]
  /\ events = [i \in Instance |-> 0]
  /\ changes = 0
  /\ closed = {} /\ answered = {} /\ lost = {}

GlobalsUnchanged == UNCHANGED <<network, runtime, holder>>
InstancesUnchanged ==
  UNCHANGED <<started, alive, stopping, stop, queue, cb, registered, events>>
HistoryUnchanged == UNCHANGED <<changes, closed, answered, lost>>

Goto(t, next) == pc' = [pc EXCEPT ![t] = next]

-----------------------------------------------------------------------------
(* initialize_network_inner.                                               *)

\* NETWORK is looked at, the arguments and the configuration are checked; the
\* call goes on with what it found, or returns an error.
InitCheck(t, c) ==
  /\ pc[t] = Idle /\ started < MaxStarts
  /\ IF network = Nothing /\ Validate(c)
       THEN Goto(t, [at |-> "build", config |-> c])
       ELSE UNCHANGED pc
  /\ UNCHANGED dial
  /\ GlobalsUnchanged /\ InstancesUnchanged /\ HistoryUnchanged

\* Runtime::new and NetworkState::new, which starts the tasks and the callback
\* thread, or fails: no port, no runtime.
InitBuild(t) ==
  LET i == started + 1
  IN /\ pc[t].at = "build"
     /\ started < MaxStarts
     /\ \/ /\ started' = i
           /\ alive' = alive \cup {i}
           /\ cb' = [cb EXCEPT ![i] = "check"]
           /\ Goto(t, [at |-> "store", inst |-> i])
        \/ /\ Goto(t, Idle)
           /\ UNCHANGED <<started, alive, cb>>
     /\ UNCHANGED <<stopping, stop, queue, registered, dial, events>>
     /\ GlobalsUnchanged /\ HistoryUnchanged

StoreNetwork(t) ==
  /\ pc[t].at = "store"
  /\ network' = pc[t].inst
  /\ Goto(t, [pc[t] EXCEPT !.at = "runtime"])
  /\ UNCHANGED <<runtime, holder, dial>>
  /\ InstancesUnchanged /\ HistoryUnchanged

\* A runtime that is still there is dropped, and its tasks with it.
StoreRuntime(t) ==
  /\ pc[t].at = "runtime" /\ holder = Free
  /\ runtime' = pc[t].inst
  /\ alive' = alive \ {runtime}
  /\ Goto(t, Idle)
  /\ UNCHANGED <<network, holder, started, stopping, stop, queue, cb,
                 registered, dial, events>>
  /\ HistoryUnchanged

-----------------------------------------------------------------------------
(* ShutdownNetwork and NetworkState::shutdown.                             *)

TakeNetwork(t) ==
  /\ pc[t] = Idle
  /\ network # Nothing
  /\ network' = Nothing
  /\ Goto(t, [at |-> "lock", inst |-> network])
  /\ UNCHANGED <<runtime, holder, dial>>
  /\ InstancesUnchanged /\ HistoryUnchanged

\* The shutdown runs on the runtime found, whichever it is; without one the
\* state is just dropped.
LockRuntime(t) ==
  /\ pc[t].at = "lock" /\ holder = Free
  /\ \/ /\ runtime # Nothing
        /\ holder' = t
        /\ Goto(t, [pc[t] EXCEPT !.at = "leave"])
     \/ /\ runtime = Nothing
        /\ Goto(t, [pc[t] EXCEPT !.at = "take"])
        /\ UNCHANGED holder
  /\ UNCHANGED <<network, runtime, dial>>
  /\ InstancesUnchanged /\ HistoryUnchanged

\* broadcast_peer_leave, drain_send_queues, the token, and discovery.
CancelTasks(t) ==
  /\ pc[t].at = "leave"
  /\ stopping' = stopping \cup {pc[t].inst}
  /\ Goto(t, [pc[t] EXCEPT !.at = "drain"])
  /\ UNCHANGED <<started, alive, stop, queue, cb, registered, dial, events>>
  /\ GlobalsUnchanged /\ HistoryUnchanged

\* Mutated form: the callback thread is not told to stop.
BadDrainAndShutdown(t) ==
  /\ pc[t].at = "drain"
  /\ Goto(t, [pc[t] EXCEPT !.at = "join"])
  /\ UNCHANGED <<started, alive, stopping, stop, queue, cb, registered, dial,
                 events>>
  /\ GlobalsUnchanged /\ HistoryUnchanged

\* drain_and_shutdown: the flag is set and the sender of the queue dropped.
\* Then transport.shutdown.
DrainAndShutdown(t) ==
  /\ pc[t].at = "drain"
  /\ stop' = stop \cup {pc[t].inst}
  /\ Goto(t, [pc[t] EXCEPT !.at = "join"])
  /\ UNCHANGED <<started, alive, stopping, queue, cb, registered, dial, events>>
  /\ GlobalsUnchanged /\ HistoryUnchanged

\* Mutated form: the thread is not waited for.
BadJoinThread(t) ==
  /\ pc[t].at = "join"
  /\ holder' = Free
  /\ Goto(t, [pc[t] EXCEPT !.at = "take"])
  /\ UNCHANGED <<network, runtime, dial>>
  /\ InstancesUnchanged /\ HistoryUnchanged

\* join_thread, still under the lock of RUNTIME.
JoinThread(t) ==
  /\ pc[t].at = "join" /\ cb[pc[t].inst] = "done"
  /\ holder' = Free
  /\ Goto(t, [pc[t] EXCEPT !.at = "take"])
  /\ UNCHANGED <<network, runtime, dial>>
  /\ InstancesUnchanged /\ HistoryUnchanged

\* Mutated form: the runtime stays where it is.
BadTakeRuntime(t) ==
  /\ pc[t].at = "take" /\ holder = Free
  /\ closed' = closed \cup {pc[t].inst}
  /\ Goto(t, Idle)
  /\ UNCHANGED <<network, runtime, holder, started, alive, stopping, stop, queue,
                 cb, registered, dial, events, changes, answered, lost>>

\* The runtime in RUNTIME, whichever it is by now, is shut down.
TakeRuntime(t) ==
  /\ pc[t].at = "take" /\ holder = Free
  /\ runtime' = Nothing
  /\ alive' = alive \ {runtime}
  /\ closed' = closed \cup {pc[t].inst}
  /\ Goto(t, Idle)
  /\ UNCHANGED <<network, holder, started, stopping, stop, queue, cb, registered,
                 dial, events, changes, answered, lost>>

-----------------------------------------------------------------------------
(* Calls of any thread.                                                    *)

\* ConnectToPeer takes what it needs from NETWORK.
CallConnect(t, k) ==
  /\ pc[t] = Idle /\ network # Nothing
  /\ dial[k] = NoDial /\ \A j \in 1 .. k - 1 : dial[j] # NoDial
  /\ dial' = [dial EXCEPT ![k] = [@ EXCEPT !.state = "called", !.inst = network]]
  /\ Goto(t, [at |-> "connect", dial |-> k])
  /\ GlobalsUnchanged /\ InstancesUnchanged /\ HistoryUnchanged

\* It spawns the task on the runtime in RUNTIME, and returns OK if there is
\* none, too.
SpawnConnect(t) ==
  LET k == pc[t].dial
  IN /\ pc[t].at = "connect" /\ holder = Free
     /\ dial' = [dial EXCEPT ![k].state = IF runtime = Nothing THEN "void"
                                          ELSE "running",
                             ![k].rt = runtime]
     /\ Goto(t, Idle)
     /\ GlobalsUnchanged /\ InstancesUnchanged /\ HistoryUnchanged

\* RegisterConnectionResultCallback, with a function or with null.
CallRegister(t) ==
  /\ pc[t] = Idle /\ network # Nothing /\ changes < MaxRegisters
  /\ registered' = IF network \in registered THEN registered \ {network}
                   ELSE registered \cup {network}
  /\ changes' = changes + 1
  /\ UNCHANGED <<pc, started, alive, stopping, stop, queue, cb, dial, events,
                 closed, answered, lost>>
  /\ GlobalsUnchanged

-----------------------------------------------------------------------------
(* The tasks of an instance and its callback thread.                       *)

\* Mutated form: the queue has no limit.
BadSendEvent(i, e) ==
  /\ queue' = IF i \in stop THEN queue ELSE [queue EXCEPT ![i] = Append(@, e)]
  /\ lost' = IF i \in stop THEN lost \cup {e} ELSE lost

\* send_event: dropped when the sender is gone or the queue full.
SendEvent(i, e) ==
  /\ queue' = IF i \in stop \/ Len(queue[i]) >= QueueCap THEN queue
              ELSE [queue EXCEPT ![i] = Append(@, e)]
  /\ lost' = IF i \in stop \/ Len(queue[i]) >= QueueCap THEN lost \cup {e}
             ELSE lost

\* The task of a dial ends, well or not, and reports.
DialEnds(k) ==
  LET d == dial[k]
  IN /\ d.state = "running" /\ d.rt \in alive
     /\ dial' = [dial EXCEPT ![k].state = "ended"]
     /\ SendEvent(d.inst, k)
     /\ UNCHANGED <<pc, started, alive, stopping, stop, cb, registered, events,
                    changes, closed, answered>>
     /\ GlobalsUnchanged

\* A message, a leader, a peer: other events.  A task ends with the token, but
\* the handler that is under way when it is cancelled still sends its events.
OtherEvent(i) ==
  /\ i \in alive /\ events[i] < MaxEvents
  /\ events' = [events EXCEPT ![i] = @ + 1]
  /\ SendEvent(i, Other)
  /\ UNCHANGED <<pc, started, alive, stopping, stop, cb, registered, dial,
                 changes, closed, answered>>
  /\ GlobalsUnchanged

\* callback_loop: the flag is read, then the thread waits for an event.
CallbackCheck(i) ==
  /\ cb[i] = "check"
  /\ cb' = [cb EXCEPT ![i] = IF i \in stop THEN "done" ELSE "recv"]
  /\ UNCHANGED <<pc, started, alive, stopping, stop, queue, registered, dial,
                 events>>
  /\ GlobalsUnchanged /\ HistoryUnchanged

\* Mutated form: the event is taken from the queue and not dispatched.
BadCallbackRecv(i) ==
  /\ cb[i] = "recv" /\ queue[i] # <<>>
  /\ queue' = [queue EXCEPT ![i] = Tail(@)]
  /\ cb' = [cb EXCEPT ![i] = "check"]
  /\ UNCHANGED <<pc, started, alive, stopping, stop, registered, dial, events,
                 changes, closed, answered, lost>>
  /\ GlobalsUnchanged

\* blocking_recv, and dispatch_event up to the call.
CallbackRecv(i) ==
  LET e == Head(queue[i])
  IN /\ cb[i] = "recv"
     /\ \/ /\ queue[i] # <<>>
           /\ queue' = [queue EXCEPT ![i] = Tail(@)]
           /\ cb' = [cb EXCEPT ![i] = IF i \in registered \/ e = Other
                                        THEN "call" ELSE "check"]
           /\ answered' = IF i \in registered THEN answered \cup {e} ELSE answered
           /\ lost' = IF i \in registered THEN lost ELSE lost \cup {e}
        \/ /\ queue[i] = <<>> /\ i \in stop
           /\ cb' = [cb EXCEPT ![i] = "done"]
           /\ UNCHANGED <<queue, answered, lost>>
     /\ UNCHANGED <<pc, started, alive, stopping, stop, registered, dial, events,
                    changes, closed>>
     /\ GlobalsUnchanged

\* The application's function returns.
CallbackReturns(i) ==
  /\ cb[i] = "call"
  /\ cb' = [cb EXCEPT ![i] = "check"]
  /\ UNCHANGED <<pc, started, alive, stopping, stop, queue, registered, dial,
                 events>>
  /\ GlobalsUnchanged /\ HistoryUnchanged

-----------------------------------------------------------------------------
StartStep(t) == InitBuild(t) \/ StoreNetwork(t) \/ StoreRuntime(t)

ShutdownStep(t) ==
  \/ LockRuntime(t) \/ CancelTasks(t) \/ DrainAndShutdown(t)
  \/ JoinThread(t) \/ TakeRuntime(t)

CallbackStep(i) == CallbackCheck(i) \/ CallbackRecv(i) \/ CallbackReturns(i)

Next ==
  \/ \E t \in LifeThread : \/ \E c \in Configs : InitCheck(t, c)
                           \/ TakeNetwork(t)
                           \/ StartStep(t) \/ ShutdownStep(t)
  \/ \E t \in Thread : \/ \E k \in Dial : CallConnect(t, k)
                       \/ SpawnConnect(t) \/ CallRegister(t)
  \/ \E k \in Dial : DialEnds(k)
  \/ \E i \in Instance : OtherEvent(i) \/ CallbackStep(i)

Spec == Init /\ [][Next]_vars

\* Threads and tasks run on, a dial ends (connect_to has a timeout), and the
\* application's functions return; that anybody calls is not assumed.
Fairness ==
  /\ \A t \in Thread : /\ WF_vars(StartStep(t)) /\ WF_vars(ShutdownStep(t))
                       /\ WF_vars(SpawnConnect(t))
  /\ \A k \in Dial : WF_vars(DialEnds(k))
  /\ \A i \in Instance : WF_vars(CallbackStep(i))

FairSpec == Spec /\ Fairness

-----------------------------------------------------------------------------
(* Properties.                                                             *)

\* Every variable has the shape the code gives it.
TypeOK ==
  /\ network \in Instance \cup {Nothing} /\ runtime \in Instance \cup {Nothing}
  /\ holder \in LifeThread \cup {Free}
  /\ started \in 0 .. MaxStarts
  /\ alive \subseteq 1 .. started /\ stopping \subseteq 1 .. started
  /\ stop \subseteq stopping /\ closed \subseteq 1 .. started
  /\ registered \subseteq 1 .. started
  /\ cb \in [Instance -> {"none", "check", "recv", "call", "done"}]
  /\ \A i \in Instance : Len(queue[i]) <= QueueCap
  /\ \A t \in Thread : pc[t].at \in {"idle", "build", "store", "runtime", "lock",
                                     "leave", "drain", "join", "take", "connect"}
  /\ answered \subseteq Event /\ lost \subseteq Event

\* No call of a lifecycle function is under way.
Settled == \A t \in LifeThread : pc[t].at \in {"idle", "connect"}

\* Between the lifecycle calls the two globals agree: a stored network has its
\* own runtime, with a callback thread that listens, and without a network no
\* runtime and no thread is left.
GlobalsAgree ==
  Settled =>
    /\ network = runtime
    /\ alive = {network} \ {Nothing}
    /\ \A i \in Instance : i # network => cb[i] \in {"none", "done"}
    /\ network # Nothing => cb[network] # "done" /\ network \notin stop

\* The configuration of a network that is built has passed validate(), which
\* must be enough for its components to start and to retry.
ConfigSafe ==
  \A t \in Thread : pc[t].at = "build" => Startable(pc[t].config)

\* Once ShutdownNetwork has returned, the application is not called any more:
\* it may release what its callbacks use.
QuietAfterShutdown ==
  [][\A i \in Instance : i \in closed => cb'[i] = cb[i] /\ cb[i] = "done"]_vars

\* Every call returns, ShutdownNetwork too, which waits for the callback
\* thread with the lock of RUNTIME held, while others wait for that lock.
CallsReturn ==
  \A t \in Thread : (pc[t] # Idle) ~> (pc[t] = Idle)

\* The result of a ConnectToPeer that found a runtime reaches the application,
\* unless the network is shut down, the queue is full or nobody listens.
ConnectAnswered ==
  \A k \in Dial :
    (dial[k].state = "running" /\ dial[k].inst \notin stop)
    ~> (k \in answered \cup lost \/ dial[k].inst \in stop)
=============================================================================
