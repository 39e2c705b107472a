---------------------------- MODULE ExecContract ----------------------------
(***************************************************************************)
(* What RemoteExecutor.Exec promises its callers (uberbase/pkg/core,       *)
(* remote.go:71-96): a command may run on the host several times, a        *)
(* bounded number of them, and success means that it ran.  It is all the   *)
(* deploy logic above may rely on.                                         *)
(***************************************************************************)
EXTENDS Naturals
CONSTANTS Callers, Limit
VARIABLES ran,     \* how often each caller's command ran on the host
          result   \* what Exec returned to it

Init ==
  /\ ran = [c \in Callers |-> 0]
  /\ result = [c \in Callers |-> "pending"]

Run(c) ==
  /\ result[c] = "pending" /\ ran[c] < Limit
  /\ ran' = [ran EXCEPT ![c] = @ + 1]
  /\ UNCHANGED result

Return(c) ==
  /\ result[c] = "pending"
  /\ \/ ran[c] > 0 /\ result' = [result EXCEPT ![c] = "ok"]
     \/ result' = [result EXCEPT ![c] = "error"]
  /\ UNCHANGED ran

Next == \E c \in Callers : Run(c) \/ Return(c)
Spec == Init /\ [][Next]_<<ran, result>>
=============================================================================
