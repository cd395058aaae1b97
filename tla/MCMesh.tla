-------------------------------- MODULE MCMesh ---------------------------------
(* Peers of one session, the last one of another; and the addresses their   *)
(* applications use.                                                         *)
EXTENDS Mesh

OneSession == [n \in Node |-> IF n = 4 THEN "other" ELSE "session"]
Known == {<<1, 2>>, <<3, 2>>, <<4, 1>>, <<1, 1>>}
=============================================================================
