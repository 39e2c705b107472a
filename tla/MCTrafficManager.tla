-------------------------- MODULE MCTrafficManager --------------------------
(* Instances of TrafficManager for TLC. *)
EXTENDS TrafficManager, TLC
CONSTANTS d1, d2, t1, t2

\* Two invocations of different commits, and two of the same commit.
DistinctTags == d1 :> t1 @@ d2 :> t2
SameTag == [d \in Deployers |-> t1]
=============================================================================
