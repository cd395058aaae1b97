-------------------------------- MODULE Settings --------------------------------
(***************************************************************************)
(* NetworkConfig (src/config.rs), its C layout (src/ffi.rs), and what the  *)
(* components require of it: conditions under which they panic.  Times and *)
(* sizes keep their order and their widths, scaled down.                   *)
(***************************************************************************)
EXTENDS Naturals

CONSTANTS
  U32Max,      \* the largest u32, where saturating_mul stops
  Attempts     \* bound: reconnect attempts followed

ASSUME SettingsAssumption == U32Max \in Nat \ {0} /\ Attempts \in Nat

\* impl Default for NetworkConfig, in the units of the model.
DefaultConfig ==
  [ reconnectMax |-> 30, maxMessageSize |-> 20, heartbeatInterval |-> 5,
    electionMin |-> 15, electionMax |-> 30, reconnectInitial |-> 10,
    handshakeTimeout |-> 50, writeTimeout |-> 50, sendQueue |-> 2,
    incomingQueue |-> 2, maxConnections |-> 2, keepaliveTime |-> 60,
    keepaliveInterval |-> 10, timeoutMultiplier |-> 3, keepaliveRetries |-> 3,
    autoForward |-> TRUE, autoElection |-> TRUE, autoElect |-> FALSE,
    noDelay |-> TRUE, autoReconnect |-> TRUE ]

\* The fields validate() refuses to be zero.
Positive ==
  { "heartbeatInterval", "timeoutMultiplier", "reconnectInitial", "sendQueue",
    "incomingQueue", "maxConnections", "maxMessageSize", "handshakeTimeout",
    "writeTimeout", "keepaliveTime", "keepaliveInterval", "keepaliveRetries" }

\* The numbers of a NetworkConfig are unsigned and at most a u32 wide.
Numbers == Positive \cup {"electionMin", "electionMax", "reconnectMax"}
Representable(c) == \A f \in Numbers : c[f] \in 0 .. U32Max

\* impl From<&NetworkConfigFFI>: every number but zero switches a toggle on,
\* and only 1 is ManualOverrideRecovery::AutoElect.
Toggles ==
  {"autoForward", "autoElection", "noDelay", "autoReconnect"}

FromFFI(ffi) ==
  [f \in DOMAIN DefaultConfig |->
     IF f \in Toggles THEN ffi[f] # 0
     ELSE IF f = "autoElect" THEN ffi[f] = 1
     ELSE ffi[f]]

\* Mutated form: the bounds of the election timeout are not compared.
BadValidate(c) ==
  /\ \A f \in Positive : c[f] # 0
  /\ c.electionMin > c.heartbeatInterval
  /\ c.reconnectInitial <= c.reconnectMax

\* NetworkConfig::validate
Validate(c) ==
  /\ \A f \in Positive : c[f] # 0
  /\ c.electionMin > c.heartbeatInterval
  /\ c.electionMin <= c.electionMax
  /\ c.reconnectInitial <= c.reconnectMax

-----------------------------------------------------------------------------
\* delay_ms of spawn_reconnect before each attempt.
SaturatingDouble(d) == IF d > U32Max \div 2 THEN U32Max ELSE 2 * d
Smaller(a, b) == IF a < b THEN a ELSE b

ReconnectDelay(c) ==
  LET delay[k \in 0 .. Attempts] ==
        IF k = 0 THEN c.reconnectInitial
        ELSE Smaller(SaturatingDouble(delay[k - 1]), c.reconnectMax)
  IN delay

\* The silence after which check_timeouts gives a peer up.
PeerTimeout(c) == c.heartbeatInterval * c.timeoutMultiplier

\* What the running components need: channels and intervals that are not
\* empty, which tokio panics on; a range to draw election timeouts from; a
\* retry that waits, ever longer, within its limit; a peer that is not given
\* up before it could answer, and no election while heartbeats arrive.
Startable(c) ==
  /\ c.sendQueue > 0 /\ c.incomingQueue > 0
  /\ c.heartbeatInterval > 0
  /\ c.electionMin .. c.electionMax # {}
  /\ \A t \in c.electionMin .. c.electionMax : t > c.heartbeatInterval
  /\ PeerTimeout(c) >= c.heartbeatInterval
  /\ \A k \in 0 .. Attempts :
       /\ ReconnectDelay(c)[k] \in 1 .. c.reconnectMax
       /\ k > 0 => ReconnectDelay(c)[k] >= ReconnectDelay(c)[k - 1]
=============================================================================
