------------------------------- MODULE MCEvents --------------------------------
(* Two peers; every channel is small enough to overflow.                     *)
EXTENDS Events
=============================================================================
