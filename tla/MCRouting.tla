------------------------------- MODULE MCRouting -------------------------------
(* Routing for TLC: three peers, one of which accepts smaller packets.     *)
EXTENDS Routing

MCNode == 1 .. 3
MCLimit == [n \in MCNode |-> IF n = 3 THEN 2 ELSE 3]

\* A short message with every flag, one that fits only as it is, one that fits
\* a forward and compresses, and what the send functions refuse.
MCData ==
  { [type |-> 1, flags |-> 3, raw |-> 1, packs |-> FALSE],
    [type |-> 2, flags |-> 0, raw |-> 3, packs |-> FALSE],
    [type |-> 1, flags |-> 2, raw |-> 2, packs |-> TRUE],
    [type |-> 0, flags |-> 0, raw |-> 1, packs |-> FALSE] }
=============================================================================
