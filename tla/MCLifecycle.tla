------------------------------ MODULE MCLifecycle ------------------------------
(* Lifecycle for TLC: a thread that starts and stops the network and one    *)
(* that uses it meanwhile.                                                  *)
EXTENDS Lifecycle

CONSTANTS main, worker

\* The C layout of the defaults, with one field, or one pair, changed.
FFIDefault ==
  [f \in DOMAIN DefaultConfig |->
     IF f \in Toggles \cup {"autoElect"} THEN IF DefaultConfig[f] THEN 1 ELSE 0
     ELSE DefaultConfig[f]]

MCConfigs ==
  {DefaultConfig}
  \cup {FromFFI([FFIDefault EXCEPT ![f] = v]) :
          f \in DOMAIN DefaultConfig, v \in {0, 1, 63}}
  \cup {FromFFI([FFIDefault EXCEPT !.reconnectMax = v, !.reconnectInitial = w]) :
          v \in {1, 40, 63}, w \in {1, 32, 40}}
  \cup {FromFFI([FFIDefault EXCEPT !.electionMin = v, !.electionMax = w]) :
          v \in {5, 6}, w \in {5, 6}}
=============================================================================
