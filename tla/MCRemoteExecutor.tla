-------------------------- MODULE MCRemoteExecutor --------------------------
(* Instances of RemoteExecutor for TLC. *)
EXTENDS RemoteExecutor
CONSTANTS c1, c2
=============================================================================
