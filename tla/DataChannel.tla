------------------------------ MODULE DataChannel ------------------------------
(***************************************************************************)
(* Data channels: the second TCP stream of a pair of peers, which carries  *)
(* the user's messages (src/transport.rs).  The peer with the smaller id   *)
(* opens it some time after the control connection was registered; both    *)
(* ends store its queue in `data_tx` of the peer's entry, and user         *)
(* messages use the control queue while `data_tx` is None.                 *)
(*                                                                         *)
(* The control connection is reduced to what a data channel sees of it:    *)
(* an entry that comes and goes at each side (module Peering has the       *)
(* rest).  The read and the write task of an end are separate: the socket  *)
(* closes when both are over.                                              *)
(***************************************************************************)
EXTENDS Naturals

CONSTANTS
  MaxStreams,    \* bound: control connections of the pair
  MaxChannels,   \* bound: data channels dialled
  MaxFaults      \* bound: broken streams, stalled writes, timeouts

ASSUME DataAssumption ==
  MaxStreams \in Nat /\ MaxChannels \in Nat /\ MaxFaults \in Nat

VARIABLES
  up,         \* the number of control connections made
  joined,     \* joined[e]: the sides that have tried to register e
  shut,       \* shut[e]: the sides that have closed e
  ctl,        \* ctl[x]: the control connection in the entry at x
  mute,       \* mute[x]: the control write task of that entry is over
  opening,    \* opening[e]: the task that registering e at Opener spawned
  dialed,     \* the number of data channels dialled
  by,         \* by[d]: the registration whose task dialled d
  answer,     \* answer[d]: the DataChannelHandshakeAck sent on d
  rd, wr,     \* rd[d][x], wr[d][x]: the tasks of x for d
  cancelled,  \* cancelled[d]: the sides whose cancel token of d is cancelled
  slot,       \* slot[x]: the channel of data_tx and data_cancel at x
  stalled,    \* history: <<d, x>> whose write task ended with an error
  faults      \* how many faults have happened

vars == <<up, joined, shut, ctl, mute, opening, dialed, by, answer, rd, wr,
          cancelled, slot, stalled, faults>>

Opener == "smaller"
Acceptor == "larger"
Side == {Opener, Acceptor}
Other(x) == IF x = Opener THEN Acceptor ELSE Opener

Stream == 1 .. MaxStreams
Channel == 1 .. MaxChannels
Nothing == 0

\* An end of a channel no task holds any more: its socket is closed.
Closed(d, x) == rd[d][x] = "done" /\ wr[d][x] = "done"

Init ==
  /\ up = 0 /\ dialed = 0 /\ faults = 0
  /\ joined = [e \in Stream |-> {}]
  /\ shut = [e \in Stream |-> {}]
  /\ ctl = [x \in Side |-> Nothing]
  /\ mute = [x \in Side |-> FALSE]
  /\ opening = [e \in Stream |-> "none"]
  /\ by = [d \in Channel |-> Nothing]
  /\ answer = [d \in Channel |-> "none"]
  /\ rd = [d \in Channel |-> [x \in Side |-> "none"]]
  /\ wr = [d \in Channel |-> [x \in Side |-> "none"]]
  /\ cancelled = [d \in Channel |-> {}]
  /\ slot = [x \in Side |-> Nothing]
  /\ stalled = {}

ControlUnchanged == UNCHANGED <<up, joined, shut, ctl, mute>>
HandshakeUnchanged == UNCHANGED <<opening, dialed, by, answer>>

Fault == faults < MaxFaults /\ faults' = faults + 1

-----------------------------------------------------------------------------
(* The control connection.                                                 *)

\* A handshake of the control connection succeeds.
ControlConnect ==
  /\ up < MaxStreams /\ (up # 0 => joined[up] = Side)
  /\ up' = up + 1
  /\ UNCHANGED <<joined, shut, ctl, mute, rd, wr, cancelled, slot, stalled,
                 faults>>
  /\ HandshakeUnchanged

\* register_connection: a new entry has no data channel, and at the smaller
\* id a task that will open one is spawned.  A duplicate is dropped.
RegisterControl(x) ==
  /\ up # 0 /\ x \notin joined[up]
  /\ joined' = [joined EXCEPT ![up] = @ \cup {x}]
  /\ \/ /\ ctl[x] = Nothing
        /\ ctl' = [ctl EXCEPT ![x] = up]
        /\ mute' = [mute EXCEPT ![x] = FALSE]
        /\ opening' = IF x = Opener THEN [opening EXCEPT ![up] = "sleep"]
                      ELSE opening
        /\ UNCHANGED shut
     \/ /\ ctl[x] # Nothing
        /\ shut' = [shut EXCEPT ![up] = @ \cup {x}]
        /\ UNCHANGED <<ctl, mute, opening>>
  /\ UNCHANGED <<up, dialed, by, answer, rd, wr, cancelled, slot, stalled,
                 faults>>

\* The entry is removed and the tokens it holds are cancelled: the cleanup of
\* the control read task and disconnect_peer do the same.
RemoveEntry(x) ==
  /\ ctl' = [ctl EXCEPT ![x] = Nothing]
  /\ shut' = [shut EXCEPT ![ctl[x]] = @ \cup {x}]
  /\ slot' = [slot EXCEPT ![x] = Nothing]
  /\ cancelled' = IF slot[x] = Nothing THEN cancelled
                  ELSE [cancelled EXCEPT ![slot[x]] = @ \cup {x}]
  /\ UNCHANGED <<up, joined, mute, rd, wr, stalled>>
  /\ HandshakeUnchanged

\* The stream was closed by the other side, fails, or is disconnected here.
ControlEnds(x) ==
  /\ ctl[x] # Nothing
  /\ \/ shut[ctl[x]] # {} /\ UNCHANGED faults
     \/ shut[ctl[x]] = {} /\ Fault
  /\ RemoveEntry(x)

\* A write times out: the write task ends, the entry stays with its queue
\* closed and the read task goes on.
ControlWriteStalls(x) ==
  /\ ctl[x] # Nothing /\ ~mute[x]
  /\ Fault
  /\ mute' = [mute EXCEPT ![x] = TRUE]
  /\ UNCHANGED <<up, joined, shut, ctl, rd, wr, cancelled, slot, stalled>>
  /\ HandshakeUnchanged

\* Mutated form: the silent peer is only marked as disconnected.
BadSilentTimeout(x) ==
  /\ ctl[x] # Nothing /\ ctl[Other(x)] = ctl[x] /\ mute[Other(x)]
  /\ FALSE /\ UNCHANGED vars

\* The ping task at x hears nothing of a peer whose write task is over, and
\* disconnects it.
SilentTimeout(x) ==
  /\ ctl[x] # Nothing /\ ctl[Other(x)] = ctl[x] /\ mute[Other(x)]
  /\ RemoveEntry(x)
  /\ UNCHANGED faults

-----------------------------------------------------------------------------
(* open_data_channel and its counterpart.                                  *)

\* After the delay: nothing to do when the peer is gone or has a channel,
\* otherwise the stream is dialled, which may fail.
OpenCheck(e) ==
  /\ opening[e] = "sleep"
  /\ \/ /\ ctl[Opener] = Nothing \/ slot[Opener] # Nothing
        /\ opening' = [opening EXCEPT ![e] = "done"]
        /\ UNCHANGED <<dialed, by, rd, faults>>
     \/ /\ ctl[Opener] # Nothing /\ slot[Opener] = Nothing
        /\ dialed < MaxChannels
        /\ dialed' = dialed + 1
        /\ by' = [by EXCEPT ![dialed'] = e]
        /\ rd' = [rd EXCEPT ![dialed'] = [x \in Side |-> "hello"]]
        /\ opening' = [opening EXCEPT ![e] = "busy"]
        /\ UNCHANGED faults
     \/ /\ ctl[Opener] # Nothing /\ slot[Opener] = Nothing
        /\ Fault
        /\ opening' = [opening EXCEPT ![e] = "done"]
        /\ UNCHANGED <<dialed, by, rd>>
  /\ UNCHANGED <<answer, wr, cancelled, slot, stalled>>
  /\ ControlUnchanged

\* Mutated form: only the reading half of the stream is dropped, so that the
\* socket stays open.
BadDropEnd(d, x) ==
  /\ rd' = [rd EXCEPT ![d][x] = "done"]
  /\ UNCHANGED wr

\* The end of x is dropped before any task was started for it.
DropEnd(d, x) ==
  /\ rd' = [rd EXCEPT ![d][x] = "done"]
  /\ wr' = [wr EXCEPT ![d][x] = "done"]

\* handle_incoming_data_channel_framed up to the acknowledgement.
AcceptData(d) ==
  /\ rd[d][Acceptor] = "hello"
  /\ \/ /\ ctl[Acceptor] # Nothing
        /\ answer' = [answer EXCEPT ![d] = "yes"]
        /\ rd' = [rd EXCEPT ![d][Acceptor] = "acked"]
        /\ UNCHANGED wr
     \/ /\ ctl[Acceptor] = Nothing
        /\ answer' = [answer EXCEPT ![d] = "no"]
        /\ DropEnd(d, Acceptor)
  /\ UNCHANGED <<opening, dialed, by, cancelled, slot, stalled, faults>>
  /\ ControlUnchanged

\* Mutated form: the token of the new channel is cancelled, not that of the
\* one it replaces.
BadRegisterData(d, x) ==
  IF ctl[x] # Nothing
    THEN /\ cancelled' = IF slot[x] = Nothing THEN cancelled
                         ELSE [cancelled EXCEPT ![d] = @ \cup {x}]
         /\ slot' = [slot EXCEPT ![x] = d]
         /\ rd' = [rd EXCEPT ![d][x] = "run"]
         /\ wr' = [wr EXCEPT ![d][x] = "run"]
    ELSE DropEnd(d, x) /\ UNCHANGED <<cancelled, slot>>

\* register_data_channel: the new channel takes the place of the one in the
\* entry, whichever control connection it was opened for.
RegisterData(d, x) ==
  IF ctl[x] # Nothing
    THEN /\ cancelled' = IF slot[x] = Nothing THEN cancelled
                         ELSE [cancelled EXCEPT ![slot[x]] = @ \cup {x}]
         /\ slot' = [slot EXCEPT ![x] = d]
         /\ rd' = [rd EXCEPT ![d][x] = "run"]
         /\ wr' = [wr EXCEPT ![d][x] = "run"]
    ELSE DropEnd(d, x) /\ UNCHANGED <<cancelled, slot>>

RegisterInbound(d) ==
  /\ rd[d][Acceptor] = "acked"
  /\ RegisterData(d, Acceptor)
  /\ UNCHANGED <<stalled, faults>>
  /\ ControlUnchanged /\ HandshakeUnchanged

\* The opener reads the acknowledgement, or waits for it in vain.
OpenReturns(d) ==
  /\ rd[d][Opener] = "hello"
  /\ \/ answer[d] = "yes" /\ RegisterData(d, Opener) /\ UNCHANGED faults
     \/ /\ answer[d] = "no" /\ UNCHANGED faults
        /\ DropEnd(d, Opener) /\ UNCHANGED <<cancelled, slot>>
     \/ Fault /\ DropEnd(d, Opener) /\ UNCHANGED <<cancelled, slot>>
  /\ opening' = [opening EXCEPT ![by[d]] = "done"]
  /\ UNCHANGED <<dialed, by, answer, stalled>>
  /\ ControlUnchanged

-----------------------------------------------------------------------------
(* The tasks of a data channel.                                            *)

\* Mutated form: the close of the other end goes unnoticed.
BadReadEnds(d, x) ==
  /\ rd[d][x] = "run" /\ x \in cancelled[d]
  /\ rd' = [rd EXCEPT ![d][x] = "test"]
  /\ UNCHANGED <<wr, cancelled, slot, stalled, faults>>
  /\ ControlUnchanged /\ HandshakeUnchanged

\* The read loop ends: cancelled, closed by the other end, a read error, or
\* the incoming queue was full for too long.
ReadEnds(d, x) ==
  /\ rd[d][x] = "run"
  /\ \/ (x \in cancelled[d] \/ Closed(d, Other(x))) /\ UNCHANGED faults
     \/ x \notin cancelled[d] /\ Fault
  /\ rd' = [rd EXCEPT ![d][x] = "test"]
  /\ UNCHANGED <<wr, cancelled, slot, stalled>>
  /\ ControlUnchanged /\ HandshakeUnchanged

\* cleanup_token.is_cancelled(), outside the lock.
ReadTest(d, x) ==
  /\ rd[d][x] = "test"
  /\ rd' = [rd EXCEPT ![d][x] = IF x \in cancelled[d] THEN "done" ELSE "clear"]
  /\ UNCHANGED <<wr, cancelled, slot, stalled, faults>>
  /\ ControlUnchanged /\ HandshakeUnchanged

\* Mutated form: the task ends and leaves its queue in the entry.
BadReadClear(d, x) ==
  /\ rd[d][x] = "clear"
  /\ rd' = [rd EXCEPT ![d][x] = "done"]
  /\ UNCHANGED <<wr, cancelled, slot, stalled, faults>>
  /\ ControlUnchanged /\ HandshakeUnchanged

\* The entry's data channel is cleared, whichever it is by now.
ReadClear(d, x) ==
  /\ rd[d][x] = "clear"
  /\ rd' = [rd EXCEPT ![d][x] = "done"]
  /\ slot' = [slot EXCEPT ![x] = Nothing]
  /\ UNCHANGED <<wr, cancelled, stalled, faults>>
  /\ ControlUnchanged /\ HandshakeUnchanged

\* The write loop ends: cancelled, or the queue has no sender any more.
WriteEnds(d, x) ==
  /\ wr[d][x] = "run"
  /\ x \in cancelled[d] \/ slot[x] # d
  /\ wr' = [wr EXCEPT ![d][x] = "done"]
  /\ UNCHANGED <<rd, cancelled, slot, stalled, faults>>
  /\ ControlUnchanged /\ HandshakeUnchanged

\* It ends alone: a write fails or times out.
WriteStalls(d, x) ==
  /\ wr[d][x] = "run"
  /\ Fault
  /\ wr' = [wr EXCEPT ![d][x] = "done"]
  /\ stalled' = stalled \cup {<<d, x>>}
  /\ UNCHANGED <<rd, cancelled, slot>>
  /\ ControlUnchanged /\ HandshakeUnchanged

-----------------------------------------------------------------------------
ControlStep(x) ==
  \/ RegisterControl(x) \/ ControlEnds(x) \/ ControlWriteStalls(x)
  \/ SilentTimeout(x)

\* The task that serves the end of x of channel d, from its handshake on.
ReadTask(d, x) ==
  \/ x = Acceptor /\ (AcceptData(d) \/ RegisterInbound(d))
  \/ x = Opener /\ OpenReturns(d)
  \/ ReadEnds(d, x) \/ ReadTest(d, x) \/ ReadClear(d, x)

Next ==
  \/ ControlConnect
  \/ \E x \in Side : ControlStep(x)
  \/ \E e \in Stream : OpenCheck(e)
  \/ \E d \in Channel, x \in Side :
       ReadTask(d, x) \/ WriteEnds(d, x) \/ WriteStalls(d, x)

Spec == Init /\ [][Next]_vars

\* tokio keeps polling every task; a closed socket is noticed, a silent peer
\* times out.  That a new connection is made, or that a fault happens, is not
\* assumed.
NoFault(action) == action /\ UNCHANGED faults

Fairness ==
  /\ \A x \in Side : /\ WF_vars(RegisterControl(x))
                     /\ WF_vars(NoFault(ControlEnds(x) \/ SilentTimeout(x)))
  /\ \A e \in Stream : WF_vars(NoFault(OpenCheck(e)))
  /\ \A d \in Channel, x \in Side :
       WF_vars(NoFault(ReadTask(d, x))) /\ WF_vars(WriteEnds(d, x))

FairSpec == Spec /\ Fairness

-----------------------------------------------------------------------------
(* Properties.                                                             *)

\* The halves of a stream start and are dropped together: no write task runs
\* before the end is registered, and no half is left over when it is not.
HalvesTogether ==
  \A d \in Channel, x \in Side :
    rd[d][x] \in {"none", "hello", "acked"} <=> wr[d][x] = "none"

\* Every variable has the shape the code gives it, and the two tasks of an end
\* of a channel go together.
TypeOK ==
  /\ up \in 0 .. MaxStreams /\ dialed \in 0 .. MaxChannels
  /\ faults \in 0 .. MaxFaults
  /\ joined \in [Stream -> SUBSET Side] /\ shut \in [Stream -> SUBSET Side]
  /\ ctl \in [Side -> Stream \cup {Nothing}]
  /\ mute \in [Side -> BOOLEAN]
  /\ opening \in [Stream -> {"none", "sleep", "busy", "done"}]
  /\ by \in [Channel -> Stream \cup {Nothing}]
  /\ answer \in [Channel -> {"none", "yes", "no"}]
  /\ rd \in [Channel -> [Side -> {"none", "hello", "acked", "run", "test",
                                  "clear", "done"}]]
  /\ wr \in [Channel -> [Side -> {"none", "run", "done"}]]
  /\ cancelled \in [Channel -> SUBSET Side]
  /\ slot \in [Side -> Channel \cup {Nothing}]
  /\ stalled \subseteq Channel \X Side
  /\ HalvesTogether

\* The queue in an entry always belongs to a channel whose read task will
\* still clear it: no data_tx outlives its channel, although the cleanup
\* tests its token outside the lock and may clear the wrong channel.
SlotBacked ==
  \A x \in Side : slot[x] # Nothing =>
    /\ ctl[x] # Nothing
    /\ rd[slot[x]][x] \in {"run", "test", "clear"}

\* A user message handed to the queue in an entry is written, unless that
\* very write task failed: no replacement, stale cleanup or reconnection
\* leaves the entry with a cancelled or closed channel.
SlotUsable ==
  \A x \in Side : slot[x] # Nothing /\ <<slot[x], x>> \notin stalled =>
    x \notin cancelled[slot[x]] /\ wr[slot[x]][x] = "run"

\* A side does not keep using a channel that the other side has closed.
DataEndsTogether ==
  \A d \in Channel, x \in Side :
    (slot[x] = d /\ Closed(d, Other(x))) ~> (slot[x] # d)

\* An entry whose control queue is closed, so that nothing can be sent on it,
\* does not stay: the peer times out, closes, and the read task cleans up.
MutedEntryEnds ==
  \A x \in Side : (ctl[x] # Nothing /\ mute[x]) ~> (ctl[x] = Nothing \/ ~mute[x])

\* "When the data channel is not yet established or has broken, user messages
\* fall back transparently to the control channel": a closed queue does not
\* stay in the entry.
BrokenFallsBack ==
  \A d \in Channel, x \in Side :
    (slot[x] = d /\ wr[d][x] = "done") ~> (slot[x] # d)
=============================================================================
