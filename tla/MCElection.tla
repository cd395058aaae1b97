------------------------------ MODULE MCElection ------------------------------
(***************************************************************************)
(* Election for TLC.  The sets of peers and the connections at the start   *)
(* of the runs; every bound is given in the configuration files.           *)
(***************************************************************************)
EXTENDS Election

\* Everybody is connected to everybody else.
FullMesh == [n \in Node |-> Node \ {n}]

\* The highest id joins later; the others are connected.
LateJoiner ==
  LET last == CHOOSE n \in Node : \A p \in Node : p <= n
  IN [n \in Node |-> IF n = last THEN {} ELSE Node \ {n, last}]
=============================================================================
