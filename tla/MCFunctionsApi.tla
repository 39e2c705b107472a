--------------------------- MODULE MCFunctionsApi ---------------------------
(* Instances of FunctionsApi for TLC. *)
EXTENDS FunctionsApi
CONSTANTS r1, r2, r3
Anything == [r \in Requests |-> Asks]
=============================================================================
