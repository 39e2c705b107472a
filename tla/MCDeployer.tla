----------------------------- MODULE MCDeployer -----------------------------
(* Instances of Deployer for TLC. *)
EXTENDS Deployer, TLC
CONSTANTS d1, d2, t1, t2

DistinctTags == d1 :> t1 @@ d2 :> t2
SameTag == [d \in Deployers |-> t1]
=============================================================================
