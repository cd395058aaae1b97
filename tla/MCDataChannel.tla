---------------------------- MODULE MCDataChannel ----------------------------
(* DataChannel for TLC; every bound is given in the configuration files.   *)
EXTENDS DataChannel
=============================================================================
