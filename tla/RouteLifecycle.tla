--------------------------- MODULE RouteLifecycle ---------------------------
(***************************************************************************)
(* What the operator of a host may rely on about the routes of releases,   *)
(* however the deploys that write them interleave, fail and die: a route   *)
(* appears empty and is filled afterwards, it may be opened anew as long   *)
(* as its deploy is under way, it is filled when the deploy reports        *)
(* success, and from then on nobody touches it.  No route ever disappears. *)
(***************************************************************************)
CONSTANT Releases

VARIABLES
  route,    \* of each release: "absent", "partial" or "published"
  settled   \* releases whose deploy reported success

vars == <<route, settled>>

Init ==
  /\ route = [r \in Releases |-> "absent"]
  /\ settled = {}

Open(r) ==
  /\ r \notin settled
  /\ route' = [route EXCEPT ![r] = "partial"]
  /\ UNCHANGED settled

Publish(r) ==
  /\ r \notin settled /\ route[r] = "partial"
  /\ route' = [route EXCEPT ![r] = "published"]
  /\ UNCHANGED settled

Settle(r) ==
  /\ route[r] = "published"
  /\ settled' = settled \cup {r}
  /\ UNCHANGED route

Next == \E r \in Releases : Open(r) \/ Publish(r) \/ Settle(r)

Spec == Init /\ [][Next]_vars
=============================================================================
