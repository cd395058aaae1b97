--------------------------- MODULE DataChannelProofs ---------------------------
(***************************************************************************)
(* Theorems about DataChannel, for any number of control connections, of   *)
(* data channels and of faults.                                            *)
(***************************************************************************)
EXTENDS DataChannel, TLAPS

-----------------------------------------------------------------------------
(* The inductive invariant.                                                *)

\* A channel that was not dialled has no task.
Undialed ==
  \A d \in Channel : d > dialed => \A x \in Side : rd[d][x] = "none"

\* Only a channel that was registered at x is ever cancelled at x.
CancelledWasRun ==
  \A d \in Channel, x \in Side :
    x \in cancelled[d] => rd[d][x] \in {"run", "test", "clear", "done"}

\* The token of the channel in an entry is not cancelled, so the read task of
\* that channel will not skip its cleanup.
SlotLive ==
  \A x \in Side : slot[x] # Nothing => x \notin cancelled[slot[x]]

DataInv ==
  TypeOK /\ Undialed /\ CancelledWasRun /\ SlotLive /\ SlotBacked /\ SlotUsable

\* What the two sides are, and that Nothing is no stream and no channel.
LEMMA Sides ==
  /\ Opener \in Side /\ Acceptor \in Side /\ Opener # Acceptor
  /\ Nothing \notin Channel /\ Nothing \notin Stream
BY DataAssumption DEF Side, Opener, Acceptor, Nothing, Channel, Stream

LEMMA InitDataInv == Init => DataInv
BY DataAssumption, Sides
   DEF Init, DataInv, TypeOK, HalvesTogether, Undialed, CancelledWasRun, SlotLive, SlotBacked,
       SlotUsable, Channel, Stream, Side, Nothing

-----------------------------------------------------------------------------
(* One lemma for each action.                                              *)

LEMMA ControlConnectInv ==
  ASSUME DataInv, ControlConnect
  PROVE  DataInv'
BY DataAssumption, Sides
   DEF DataInv, TypeOK, HalvesTogether, Undialed, CancelledWasRun, SlotLive, SlotBacked,
       SlotUsable, ControlConnect, HandshakeUnchanged

\* A new entry is made where there was none, hence no data channel either.
LEMMA RegisterControlInv ==
  ASSUME DataInv, NEW x \in Side, RegisterControl(x)
  PROVE  DataInv'
<1> USE DEF DataInv, RegisterControl
<1>1. up \in Stream
  BY DataAssumption DEF TypeOK, Stream
<1>2. TypeOK'
  <2>0. /\ joined \in [Stream -> SUBSET Side] /\ shut \in [Stream -> SUBSET Side]
        /\ joined[up] \cup {x} \in SUBSET Side
    BY <1>1 DEF TypeOK
  <2>1. joined' \in [Stream -> SUBSET Side] /\ shut' \in [Stream -> SUBSET Side]
    BY <1>1, <2>0
  <2>2. ctl' \in [Side -> Stream \cup {Nothing}]
    BY <1>1 DEF TypeOK
  <2>3. mute' \in [Side -> BOOLEAN]
    BY Zenon DEF TypeOK
  <2>4. opening' \in [Stream -> {"none", "sleep", "busy", "done"}]
    BY <1>1 DEF TypeOK
  <2>5. HalvesTogether'
    BY DEF TypeOK, HalvesTogether
  <2> QED BY <2>1, <2>2, <2>3, <2>4, <2>5 DEF TypeOK
<1>3. SlotBacked'
  BY <1>1, Sides DEF SlotBacked, TypeOK
<1> QED BY <1>2, <1>3 DEF Undialed, CancelledWasRun, SlotLive, SlotUsable

\* The entry goes, with its data channel.
LEMMA RemoveEntryInv ==
  ASSUME DataInv, NEW x \in Side, ctl[x] # Nothing, RemoveEntry(x),
         faults' \in 0 .. MaxFaults
  PROVE  DataInv'
<1> USE DEF DataInv, RemoveEntry, HandshakeUnchanged
<1>1. ctl[x] \in Stream
  BY DEF TypeOK
<1>2. slot[x] # Nothing => slot[x] \in Channel
  BY DEF TypeOK
<1>3. TypeOK'
  BY <1>1, <1>2 DEF TypeOK, HalvesTogether
<1>4. CancelledWasRun'
  BY <1>2 DEF CancelledWasRun, SlotBacked, TypeOK
<1>5. SlotLive' /\ SlotUsable'
  BY <1>2 DEF SlotLive, SlotUsable, TypeOK
<1>6. SlotBacked'
  BY <1>2 DEF SlotBacked, TypeOK
<1> QED BY <1>3, <1>4, <1>5, <1>6 DEF Undialed

LEMMA FaultType ==
  ASSUME TypeOK, Fault \/ UNCHANGED faults
  PROVE  faults' \in 0 .. MaxFaults
BY DataAssumption DEF TypeOK, Fault

LEMMA ControlEndsInv ==
  ASSUME DataInv, NEW x \in Side, ControlEnds(x)
  PROVE  DataInv'
BY RemoveEntryInv, FaultType DEF ControlEnds, DataInv

LEMMA SilentTimeoutInv ==
  ASSUME DataInv, NEW x \in Side, SilentTimeout(x)
  PROVE  DataInv'
BY RemoveEntryInv, FaultType DEF SilentTimeout, DataInv

LEMMA ControlWriteStallsInv ==
  ASSUME DataInv, NEW x \in Side, ControlWriteStalls(x)
  PROVE  DataInv'
BY FaultType
   DEF DataInv, TypeOK, HalvesTogether, Undialed, CancelledWasRun, SlotLive, SlotBacked,
       SlotUsable, ControlWriteStalls, HandshakeUnchanged

\* The channel that is dialled has no task yet: it is in no entry and was
\* never cancelled.
LEMMA OpenCheckInv ==
  ASSUME DataInv, NEW e \in Stream, OpenCheck(e)
  PROVE  DataInv'
<1> USE DEF DataInv, OpenCheck, ControlUnchanged
<1>1. faults' \in 0 .. MaxFaults
  BY FaultType
<1>2. CASE rd' = rd /\ dialed' = dialed /\ by' = by
  <2>1. TypeOK'
    BY <1>1, <1>2 DEF TypeOK, HalvesTogether
  <2>2. Undialed' /\ CancelledWasRun' /\ SlotLive'
    BY <1>2 DEF Undialed, CancelledWasRun, SlotLive
  <2>3. SlotBacked' /\ SlotUsable'
    BY <1>2 DEF SlotBacked, SlotUsable
  <2> QED BY <2>1, <2>2, <2>3
<1>3. CASE /\ dialed < MaxChannels
           /\ dialed' = dialed + 1
           /\ by' = [by EXCEPT ![dialed'] = e]
           /\ rd' = [rd EXCEPT ![dialed'] = [x \in Side |-> "hello"]]
  <2>1. dialed' \in Channel /\ dialed' > dialed
    BY <1>3, DataAssumption DEF TypeOK, Channel
  <2>2. \A x \in Side : rd[dialed'][x] = "none"
    BY <2>1 DEF Undialed
  <2>3. TypeOK'
    <3>1. HalvesTogether'
      BY <1>3, <2>1, <2>2 DEF TypeOK, HalvesTogether
    <3>2. dialed' \in 0 .. MaxChannels
      BY <2>1, DataAssumption DEF Channel
    <3> QED BY <1>1, <1>3, <2>1, <3>1, <3>2 DEF TypeOK
  <2>4. Undialed'
    BY <1>3, <2>1 DEF Undialed, TypeOK, Channel
  <2>5. CancelledWasRun'
    BY <1>3, <2>1, <2>2 DEF CancelledWasRun, TypeOK
  <2>6. \A x \in Side : slot[x] # dialed'
    BY <2>1, <2>2, Sides DEF SlotBacked
  <2>7. SlotBacked' /\ SlotLive' /\ SlotUsable'
    BY <1>3, <2>1, <2>6 DEF SlotBacked, SlotLive, SlotUsable, TypeOK
  <2> QED BY <2>3, <2>4, <2>5, <2>7
<1> QED BY <1>2, <1>3

\* The end of x of a channel that was not registered there is dropped.
LEMMA DropEndInv ==
  ASSUME DataInv, NEW d \in Channel, NEW x \in Side,
         rd[d][x] \in {"hello", "acked"},
         DropEnd(d, x), ControlUnchanged, UNCHANGED <<dialed, by>>,
         UNCHANGED <<cancelled, slot, stalled>>,
         opening' \in [Stream -> {"none", "sleep", "busy", "done"}],
         answer' \in [Channel -> {"none", "yes", "no"}],
         faults' \in 0 .. MaxFaults
  PROVE  DataInv'
<1> USE DEF DataInv, DropEnd, ControlUnchanged
<1>1. TypeOK'
  <2>1. HalvesTogether'
    BY DEF TypeOK, HalvesTogether
  <2> QED BY <2>1 DEF TypeOK
<1>2. Undialed' /\ CancelledWasRun'
  BY DEF Undialed, CancelledWasRun, TypeOK
<1>3. slot[x] # d
  BY Sides DEF SlotBacked
<1>4. SlotBacked' /\ SlotLive' /\ SlotUsable'
  BY <1>3 DEF SlotBacked, SlotLive, SlotUsable, TypeOK
<1> QED BY <1>1, <1>2, <1>4

\* register_data_channel: the channel that is replaced is another one, and the
\* new one was never cancelled.
LEMMA RegisterDataInv ==
  ASSUME DataInv, NEW d \in Channel, NEW x \in Side,
         rd[d][x] \in {"hello", "acked"},
         RegisterData(d, x), ControlUnchanged, UNCHANGED <<dialed, by, answer>>,
         UNCHANGED stalled,
         opening' \in [Stream -> {"none", "sleep", "busy", "done"}],
         faults' \in 0 .. MaxFaults
  PROVE  DataInv'
<1>1. CASE ctl[x] = Nothing
  <2>1. DropEnd(d, x) /\ UNCHANGED <<cancelled, slot>>
    BY <1>1 DEF RegisterData
  <2>2. answer' \in [Channel -> {"none", "yes", "no"}]
    BY DEF DataInv, TypeOK
  <2> QED BY <2>1, <2>2, DropEndInv
<1>2. CASE ctl[x] # Nothing
  <2> USE DEF DataInv, ControlUnchanged
  <2>1. /\ cancelled' = IF slot[x] = Nothing THEN cancelled
                        ELSE [cancelled EXCEPT ![slot[x]] = @ \cup {x}]
        /\ slot' = [slot EXCEPT ![x] = d]
        /\ rd' = [rd EXCEPT ![d][x] = "run"]
        /\ wr' = [wr EXCEPT ![d][x] = "run"]
    BY <1>2 DEF RegisterData
  <2>2. slot[x] # Nothing => slot[x] \in Channel
    BY DEF TypeOK
  <2>3. slot[x] # d
    BY Sides DEF SlotBacked
  <2>4. x \notin cancelled[d]
    BY DEF CancelledWasRun
  <2>5. TypeOK'
    <3>1. cancelled' \in [Channel -> SUBSET Side]
      BY <2>1, <2>2 DEF TypeOK
    <3>2. rd' \in [Channel -> [Side -> {"none", "hello", "acked", "run", "test",
                                        "clear", "done"}]]
      BY <2>1 DEF TypeOK
    <3>3. wr' \in [Channel -> [Side -> {"none", "run", "done"}]]
      BY <2>1 DEF TypeOK
    <3>4. slot' \in [Side -> Channel \cup {Nothing}]
      BY <2>1 DEF TypeOK
    <3>5. HalvesTogether'
      BY <2>1 DEF TypeOK, HalvesTogether
    <3> QED BY <3>1, <3>2, <3>3, <3>4, <3>5 DEF TypeOK
  <2>6. Undialed'
    BY <2>1 DEF Undialed, TypeOK
  <2>7. CancelledWasRun'
    BY <2>1, <2>2 DEF CancelledWasRun, SlotBacked, TypeOK
  <2>8. SlotLive'
    BY <2>1, <2>2, <2>3, <2>4 DEF SlotLive, TypeOK
  <2>9. SlotBacked'
    BY <1>2, <2>1 DEF SlotBacked, TypeOK
  <2>10. SlotUsable'
    BY <2>1, <2>2, <2>3, <2>4, <2>8 DEF SlotUsable, SlotLive, TypeOK
  <2> QED BY <2>5, <2>6, <2>7, <2>8, <2>9, <2>10
<1> QED BY <1>1, <1>2

LEMMA AcceptDataInv ==
  ASSUME DataInv, NEW d \in Channel, AcceptData(d)
  PROVE  DataInv'
<1> USE DEF AcceptData
<1>1. CASE ctl[Acceptor] # Nothing
  <2>1. rd' = [rd EXCEPT ![d][Acceptor] = "acked"] /\ UNCHANGED wr
    BY <1>1
  <2>2. slot[Acceptor] # d
    BY Sides DEF SlotBacked, DataInv
  <2>3. Acceptor \notin cancelled[d]
    BY Sides DEF CancelledWasRun, DataInv
  <2>4. TypeOK'
    <3>1. answer' \in [Channel -> {"none", "yes", "no"}]
      BY DEF DataInv, TypeOK
    <3>2. rd' \in [Channel -> [Side -> {"none", "hello", "acked", "run", "test",
                                        "clear", "done"}]]
      BY <2>1, Sides DEF DataInv, TypeOK
    <3>3. HalvesTogether'
      BY <2>1, Sides DEF DataInv, TypeOK, HalvesTogether
    <3> QED BY <2>1, <3>1, <3>2, <3>3 DEF DataInv, TypeOK, ControlUnchanged
  <2>5. Undialed' /\ CancelledWasRun'
    BY <2>1, <2>3, Sides DEF DataInv, Undialed, CancelledWasRun, TypeOK
  <2>6. SlotBacked' /\ SlotLive' /\ SlotUsable'
    BY <2>1, <2>2, Sides
       DEF DataInv, SlotBacked, SlotLive, SlotUsable, TypeOK, ControlUnchanged
  <2> QED BY <2>4, <2>5, <2>6 DEF DataInv
<1>2. CASE ctl[Acceptor] = Nothing
  BY <1>2, DropEndInv, Sides, FaultType DEF DataInv, TypeOK
<1> QED BY <1>1, <1>2

LEMMA RegisterInboundInv ==
  ASSUME DataInv, NEW d \in Channel, RegisterInbound(d)
  PROVE  DataInv'
BY RegisterDataInv, Sides
   DEF RegisterInbound, HandshakeUnchanged, DataInv, TypeOK

LEMMA OpenReturnsInv ==
  ASSUME DataInv, NEW d \in Channel, OpenReturns(d)
  PROVE  DataInv'
<1> USE DEF OpenReturns
<1>1. faults' \in 0 .. MaxFaults
  BY FaultType DEF DataInv
<1>2. opening' \in [Stream -> {"none", "sleep", "busy", "done"}]
  BY DEF DataInv, TypeOK
<1>3. CASE RegisterData(d, Opener)
  BY <1>1, <1>2, <1>3, RegisterDataInv, Sides
<1>4. CASE DropEnd(d, Opener) /\ UNCHANGED <<cancelled, slot>>
  BY <1>1, <1>2, <1>4, DropEndInv, Sides DEF DataInv, TypeOK
<1> QED BY <1>3, <1>4

\* A read task that finds its token cancelled is not the one of the entry.
LEMMA ReadLoopInv ==
  ASSUME DataInv, NEW d \in Channel, NEW x \in Side,
         ReadEnds(d, x) \/ ReadTest(d, x) \/ ReadClear(d, x)
  PROVE  DataInv'
<1> USE DEF DataInv, ControlUnchanged, HandshakeUnchanged
<1>1. faults' \in 0 .. MaxFaults
  BY FaultType DEF ReadEnds, ReadTest, ReadClear
<1>2. CASE ReadEnds(d, x)
  BY <1>1, <1>2
     DEF ReadEnds, TypeOK, HalvesTogether, Undialed, CancelledWasRun, SlotLive, SlotBacked,
         SlotUsable
<1>3. CASE ReadTest(d, x)
  BY <1>1, <1>3
     DEF ReadTest, TypeOK, HalvesTogether, Undialed, CancelledWasRun, SlotLive, SlotBacked,
         SlotUsable
<1>4. CASE ReadClear(d, x)
  BY <1>1, <1>4
     DEF ReadClear, TypeOK, HalvesTogether, Undialed, CancelledWasRun, SlotLive, SlotBacked,
         SlotUsable
<1> QED BY <1>2, <1>3, <1>4

\* A write task ends when its channel is not the one of the entry, or is
\* remembered as stalled.
LEMMA WriteLoopInv ==
  ASSUME DataInv, NEW d \in Channel, NEW x \in Side,
         WriteEnds(d, x) \/ WriteStalls(d, x)
  PROVE  DataInv'
<1> USE DEF DataInv, ControlUnchanged, HandshakeUnchanged
<1>1. faults' \in 0 .. MaxFaults
  BY FaultType DEF WriteEnds, WriteStalls
<1>2. CASE WriteEnds(d, x)
  BY <1>1, <1>2
     DEF WriteEnds, TypeOK, HalvesTogether, Undialed, CancelledWasRun, SlotLive, SlotBacked,
         SlotUsable
<1>3. CASE WriteStalls(d, x)
  BY <1>1, <1>3
     DEF WriteStalls, TypeOK, HalvesTogether, Undialed, CancelledWasRun, SlotLive, SlotBacked,
         SlotUsable
<1> QED BY <1>2, <1>3

-----------------------------------------------------------------------------
(* The theorems.                                                           *)

LEMMA NextDataInv == DataInv /\ [Next]_vars => DataInv'
<1> SUFFICES ASSUME DataInv, [Next]_vars
             PROVE  DataInv'
  OBVIOUS
<1>1. CASE ControlConnect
  BY <1>1, ControlConnectInv
<1>2. ASSUME NEW x \in Side, ControlStep(x)
      PROVE  DataInv'
  BY <1>2, RegisterControlInv, ControlEndsInv, ControlWriteStallsInv,
     SilentTimeoutInv DEF ControlStep
<1>3. ASSUME NEW e \in Stream, OpenCheck(e)
      PROVE  DataInv'
  BY <1>3, OpenCheckInv
<1>4. ASSUME NEW d \in Channel, NEW x \in Side, ReadTask(d, x)
      PROVE  DataInv'
  BY <1>4, AcceptDataInv, RegisterInboundInv, OpenReturnsInv, ReadLoopInv
     DEF ReadTask
<1>5. ASSUME NEW d \in Channel, NEW x \in Side, WriteEnds(d, x) \/ WriteStalls(d, x)
      PROVE  DataInv'
  BY <1>5, WriteLoopInv
<1>6. CASE UNCHANGED vars
  BY <1>6
     DEF vars, DataInv, TypeOK, HalvesTogether, Undialed, CancelledWasRun, SlotLive, SlotBacked,
         SlotUsable
<1> QED BY <1>1, <1>2, <1>3, <1>4, <1>5, <1>6 DEF Next

LEMMA DataInvariant == Spec => []DataInv
BY InitDataInv, NextDataInv, PTL DEF Spec

\* Every variable of DataChannel keeps its type, and the two tasks of an end
\* start and are dropped together, for any bounds.
THEOREM DataTypeCorrect == Spec => []TypeOK
<1>1. DataInv => TypeOK
  BY DEF DataInv
<1> QED BY <1>1, DataInvariant, PTL

\* The data_tx in an entry always belongs to a channel whose read task is still
\* to clear it (register_data_channel and the cleanup of src/transport.rs), for
\* any number of reconnections and replaced channels.
THEOREM SlotsBacked == Spec => []SlotBacked
<1>1. DataInv => SlotBacked
  BY DEF DataInv
<1> QED BY <1>1, DataInvariant, PTL

\* No replacement, stale cleanup or reconnection leaves an entry with a
\* cancelled or closed data channel: only the failure of that channel's own
\* write task does.
THEOREM SlotsUsable == Spec => []SlotUsable
<1>1. DataInv => SlotUsable
  BY DEF DataInv
<1> QED BY <1>1, DataInvariant, PTL
=============================================================================
