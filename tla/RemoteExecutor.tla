--------------------------- MODULE RemoteExecutor ---------------------------
(***************************************************************************)
(* RemoteExecutor.Exec and SendFile (uberbase/pkg/core/remote.go) over one *)
(* SSHSession (uberbase/pkg/ssh/session.go) that all goroutines of a       *)
(* deploy share: the health checks of a round call Exec at the same time.  *)
(*                                                                         *)
(* The mutex covers one attempt.  The IsClosed/Connect before the attempts *)
(* is outside it, so the fields client and closed are read and written by  *)
(* several goroutines at once.                                             *)
(***************************************************************************)
EXTENDS Naturals

CONSTANTS
  Callers,      \* goroutines, each with one command to run or file to send
  Free,         \* the mutex is not held
  MaxRetries    \* RemoteExecutor.maxRetries

ASSUME ExecutorConstants ==
  /\ Free \notin Callers
  /\ MaxRetries \in Nat \ {0}

VARIABLES
  senders,    \* goroutines that call SendFile; the others call Exec
  concurrent, \* whether they call at the same time, as health checks do
  client,    \* SSHSession.client: "nil" or "set"
  closed,    \* SSHSession.closed
  lock,      \* RemoteExecutor.mu
  pc,        \* where the goroutine is
  purpose,   \* which call of Connect it is in
  attempt,   \* Exec's loop variable
  err,       \* err of the attempt
  ran,       \* how often its command ran, or its file was written
  result,    \* what the call returned
  crashed    \* nil client dereferenced: the panic ends the process

session == <<client, closed>>
vars == <<senders, concurrent, client, closed, lock, pc, purpose, attempt, err,
          ran, result, crashed>>

Errors == {"transport",   \* isTransportError
           "conflict",    \* "could not get lock"
           "plain"}       \* anything else, a non-zero exit status included

TypeOK ==
  /\ senders \subseteq Callers /\ concurrent \in BOOLEAN
  /\ client \in {"nil", "set"}
  /\ closed \in BOOLEAN
  /\ lock \in Callers \cup {Free}
  /\ pc \in [Callers -> {"idle", "check", "dial", "open", "lock", "run",
                         "unlock", "done"}]
  /\ purpose \in [Callers -> {"pre", "try", "re", "retry"}]
  /\ attempt \in [Callers -> 1..MaxRetries]
  /\ err \in [Callers -> Errors \cup {"none"}]
  /\ ran \in [Callers -> Nat]
  /\ result \in [Callers -> {"pending", "ok", "error"}]
  /\ crashed \in BOOLEAN

\* A new session has no client and is not marked closed; after a successful
\* Test it has one.
Init ==
  /\ senders \in SUBSET Callers /\ concurrent \in BOOLEAN
  /\ client \in {"nil", "set"} /\ closed = FALSE
  /\ lock = Free
  /\ pc = [c \in Callers |-> "idle"]
  /\ purpose = [c \in Callers |-> "pre"]
  /\ attempt = [c \in Callers |-> 1]
  /\ err = [c \in Callers |-> "none"]
  /\ ran = [c \in Callers |-> 0]
  /\ result = [c \in Callers |-> "pending"]
  /\ crashed = FALSE

Goto(c, stage) == pc' = [pc EXCEPT ![c] = stage]
InConnect(c, why) == purpose' = [purpose EXCEPT ![c] = why]

-----------------------------------------------------------------------------
\* Exec up to its loop: Connect first if the session says it is closed.
\* SendFile begins with the mutex.
Call(c) ==
  /\ pc[c] = "idle"
  /\ concurrent \/ \A d \in Callers : pc[d] \in {"idle", "done"}
  /\ Goto(c, IF closed /\ c \notin senders THEN "check" ELSE "lock")
  /\ UNCHANGED <<session, lock, purpose, attempt, err, ran, result, crashed>>

\* Mutation of Lock: the attempt does not take the mutex.
LockFree(c) ==
  /\ pc[c] = "lock"
  /\ Goto(c, "check") /\ InConnect(c, "try")
  /\ UNCHANGED <<session, lock, attempt, err, ran, result, crashed>>

\* execWithoutRetry and SendFile take the mutex; ExecuteCommand and
\* TransferFile begin with Connect.
Lock(c) ==
  /\ pc[c] = "lock" /\ lock = Free
  /\ lock' = c
  /\ Goto(c, "check") /\ InConnect(c, "try")
  /\ UNCHANGED <<session, attempt, err, ran, result, crashed>>

\* An attempt's command or transfer failed: reconnect and try again once if it was a
\* transport error of the first try.
TryFails(c, kind) ==
  /\ err' = [err EXCEPT ![c] = kind]
  /\ IF purpose[c] = "try" /\ kind = "transport"
       THEN Goto(c, "check") /\ InConnect(c, "re")
       ELSE Goto(c, "unlock") /\ UNCHANGED purpose

\* Connect returned a session.  The ones opened before the attempts and for
\* the reconnect are dropped, only their client is used.
Connected(c) ==
  CASE purpose[c] = "pre" -> Goto(c, "lock") /\ UNCHANGED purpose
    [] purpose[c] = "re" -> Goto(c, "check") /\ InConnect(c, "retry")
    [] purpose[c] \in {"try", "retry"} -> Goto(c, "run") /\ UNCHANGED purpose

\* Connect returned an error.
ConnectFails(c) ==
  \/ /\ purpose[c] = "pre"
     /\ Goto(c, "done") /\ result' = [result EXCEPT ![c] = "error"]
     /\ UNCHANGED <<purpose, err>>
  \/ /\ purpose[c] = "re"
     /\ Goto(c, "unlock") /\ UNCHANGED <<purpose, err, result>>
  \/ /\ purpose[c] \in {"try", "retry"}
     /\ \E kind \in {"transport", "plain"} : TryFails(c, kind)
     /\ UNCHANGED result

\* Mutation of CheckClient: Connect trusts the closed flag.
CheckClosed(c) ==
  /\ pc[c] = "check"
  /\ Goto(c, IF closed THEN "dial" ELSE "open")
  /\ UNCHANGED <<session, lock, purpose, attempt, err, ran, result, crashed>>

\* Connect: the test of client, Dial, and NewSession on whatever client is
\* set by then.
CheckClient(c) ==
  /\ pc[c] = "check"
  /\ Goto(c, IF client = "nil" THEN "dial" ELSE "open")
  /\ UNCHANGED <<session, lock, purpose, attempt, err, ran, result, crashed>>

Dial(c) ==
  /\ pc[c] = "dial"
  /\ \/ /\ client' = "set" /\ Goto(c, "open")
        /\ UNCHANGED <<closed, purpose, err, result>>
     \/ /\ closed' = TRUE /\ ConnectFails(c)
        /\ UNCHANGED client
  /\ UNCHANGED <<lock, attempt, ran, crashed>>

OpenSession(c) ==
  /\ pc[c] = "open"
  /\ \/ /\ client = "set" /\ closed' = FALSE /\ Connected(c)
        /\ UNCHANGED <<client, err, result, crashed>>
     \/ /\ client = "set" /\ closed' = TRUE /\ client' = "nil" /\ ConnectFails(c)
        /\ UNCHANGED crashed
     \/ /\ client = "nil" /\ crashed' = TRUE
        /\ UNCHANGED <<session, pc, purpose, err, result>>
  /\ UNCHANGED <<lock, attempt, ran>>

\* Mutation of RunCommand: a failed command drops the client and leaves the
\* session marked open.
RunCommandStillOpen(c) ==
  /\ pc[c] = "run" /\ c \notin senders
  /\ \/ /\ ran' = [ran EXCEPT ![c] = @ + 1]
        /\ err' = [err EXCEPT ![c] = "none"]
        /\ Goto(c, "unlock") /\ UNCHANGED <<session, purpose>>
     \/ /\ \E kind \in Errors : UNCHANGED ran /\ TryFails(c, kind)
        /\ UNCHANGED closed /\ client' = "nil"
  /\ UNCHANGED <<lock, attempt, result, crashed>>

\* session.Run: the command ran and returned zero; or it failed, after it
\* ran or, if the connection broke, perhaps before.  Any error drops the
\* client without closing it.
RunCommand(c) ==
  /\ pc[c] = "run" /\ c \notin senders
  /\ \/ /\ ran' = [ran EXCEPT ![c] = @ + 1]
        /\ err' = [err EXCEPT ![c] = "none"]
        /\ Goto(c, "unlock") /\ UNCHANGED <<session, purpose>>
     \/ /\ \E kind \in Errors :
             /\ \/ ran' = [ran EXCEPT ![c] = @ + 1]
                \/ kind # "conflict" /\ UNCHANGED ran
             /\ TryFails(c, kind)
        /\ closed' = TRUE /\ client' = "nil"
  /\ UNCHANGED <<lock, attempt, result, crashed>>

\* TransferFile after its Connect: the SFTP client is made from whatever
\* client is set by then, and an error leaves the session as it is.  A
\* transfer that fails may have written to the file.
TransferFile(c) ==
  /\ pc[c] = "run" /\ c \in senders
  /\ \/ /\ client = "nil" /\ crashed' = TRUE
        /\ UNCHANGED <<pc, purpose, err, ran>>
     \/ /\ client = "set" /\ ran' = [ran EXCEPT ![c] = @ + 1]
        /\ err' = [err EXCEPT ![c] = "none"]
        /\ Goto(c, "unlock") /\ UNCHANGED <<purpose, crashed>>
     \/ /\ client = "set" /\ ran' \in {ran, [ran EXCEPT ![c] = @ + 1]}
        /\ \E kind \in {"transport", "plain"} : TryFails(c, kind)
        /\ UNCHANGED crashed
  /\ UNCHANGED <<session, lock, attempt, result>>

\* Mutations of Unlock: an attempt too many; no error after the last attempt;
\* a mutex that is kept.
UnlockOneMore(c) ==
  /\ pc[c] = "unlock" /\ lock' = Free
  /\ err[c] \in {"transport", "conflict"} /\ attempt[c] <= MaxRetries
  /\ attempt' = [attempt EXCEPT ![c] = @ + 1] /\ Goto(c, "lock")
  /\ UNCHANGED <<session, purpose, err, ran, result, crashed>>

UnlockFallsThrough(c) ==
  /\ pc[c] = "unlock" /\ lock' = Free
  /\ IF err[c] \in {"transport", "conflict"} /\ attempt[c] < MaxRetries
       THEN /\ attempt' = [attempt EXCEPT ![c] = @ + 1] /\ Goto(c, "lock")
            /\ UNCHANGED result
       ELSE /\ result' = [result EXCEPT ![c] = IF err[c] = "plain" THEN "error"
                                               ELSE "ok"]
            /\ Goto(c, "done") /\ UNCHANGED attempt
  /\ UNCHANGED <<session, purpose, err, ran, crashed>>

UnlockForgotten(c) ==
  /\ pc[c] = "unlock" /\ Goto(c, "done")
  /\ result' = [result EXCEPT ![c] = IF err[c] = "none" THEN "ok" ELSE "error"]
  /\ UNCHANGED <<session, lock, purpose, attempt, err, ran, crashed>>

\* The attempt is over: the call returns, or Exec sleeps and makes the next
\* one.  SendFile has no loop.
MayRetry(c) ==
  /\ c \notin senders /\ attempt[c] < MaxRetries
  /\ err[c] \in {"transport", "conflict"}

Unlock(c) ==
  /\ pc[c] = "unlock"
  /\ lock' = Free
  /\ \/ /\ MayRetry(c)
        /\ attempt' = [attempt EXCEPT ![c] = @ + 1] /\ Goto(c, "lock")
        /\ UNCHANGED result
     \/ /\ ~MayRetry(c)
        /\ result' = [result EXCEPT ![c] = IF err[c] = "none" THEN "ok" ELSE "error"]
        /\ Goto(c, "done") /\ UNCHANGED attempt
  /\ UNCHANGED <<session, purpose, err, ran, crashed>>

Step(c) ==
  /\ ~crashed /\ UNCHANGED <<senders, concurrent>>
  /\ \/ Call(c) \/ Lock(c) \/ CheckClient(c) \/ Dial(c) \/ OpenSession(c)
     \/ RunCommand(c) \/ TransferFile(c) \/ Unlock(c)

Over == crashed \/ \A c \in Callers : pc[c] = "done"
Next == (\E c \in Callers : Step(c)) \/ (Over /\ UNCHANGED vars)

Spec == Init /\ [][Next]_vars
\* Network calls return, in the worst case with a timeout, and sync.Mutex
\* hands itself to a waiter that starves.
FairSpec ==
  Spec /\ \A c \in Callers : WF_vars(Step(c)) /\ SF_vars(Step(c) /\ Lock(c))

-----------------------------------------------------------------------------
\* One attempt runs the command at most twice.
Contract == INSTANCE ExecContract WITH Limit <- 2 * MaxRetries

\* Exec is at-least-once with a bound: success means the command ran, and it
\* runs at most twice per attempt, whatever fails and however goroutines
\* interleave.
ContractKept == Contract!Spec

\* One goroutine at a time is in an attempt: while it reconnects under the mutex,
\* opens its session and waits for its command, no other opens or waits for one,
\* although every caller may replace the client before it takes the mutex
\* (remote.go:72-118).  This is about the goroutines: an attempt that ends with a
\* lost connection frees the mutex while its command may still run on the host.
InAttempt(c) == pc[c] \in {"run", "unlock"} \/ (pc[c] \in {"check", "dial", "open"}
                                               /\ purpose[c] # "pre")
OneAttemptAtATime ==
  \A c, d \in Callers : InAttempt(c) /\ InAttempt(d) => c = d

\* Exec returns on every path, with MaxRetries attempts at most, unless the
\* process dies.
ExecReturns ==
  \A c \in Callers : (pc[c] # "idle") ~> (crashed \/ result[c] # "pending")

\* A process that calls Exec from one goroutine at a time never dereferences
\* the nil client.  (Concurrent ones can: one drops the client between the
\* other's test of it and its use.)
SerialNeverCrashes == ~concurrent => ~crashed

\* Between calls that do not overlap, the flag Exec trusts is right: once a
\* call returned, a session not marked closed has a client.
OpenHasClient ==
  /\ ~concurrent
  /\ \A c \in Callers : pc[c] \in {"idle", "done"}
  /\ \E c \in Callers : result[c] # "pending"
  => (closed <=> client = "nil")
=============================================================================
