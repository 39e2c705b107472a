----------------------------- MODULE MCPlatform -----------------------------
(* Instances of Platform for TLC. *)
EXTENDS Platform
CONSTANTS r1
Triangle == {"postgres", "fusionauth", "postgrest"}
\* The service whose stop the order of bin/stop turns on.
Resisting == {"fusionauth"}
Switches == {{}, {"fusionauth"}, {"postgres"}}
\* A function its client waits for.
Functions == [r \in Requests |->
  [route : {"run"}, body : {"attached"}, id : {NoId}]]
=============================================================================
