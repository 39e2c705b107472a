------------------------ MODULE RemoteExecutorProofs ------------------------
(* Theorems about RemoteExecutor for every set of goroutines and every      *)
(* number of retries.                                                       *)
EXTENDS RemoteExecutor, TLAPS

-----------------------------------------------------------------------------
(* The inductive invariant.                                                 *)

InConnectNow(c) == pc[c] \in {"check", "dial", "open"}

\* The mutex belongs to the goroutine that is in an attempt.
MutexInv == \A c \in Callers : InAttempt(c) => lock = c

\* How often the command may have run, by how far the attempt is.
RanInv ==
  \A c \in Callers :
    /\ (pc[c] \in {"idle", "lock"} \/ (InConnectNow(c) /\ purpose[c] = "pre"))
         => ran[c] <= 2 * (attempt[c] - 1)
    /\ (InConnectNow(c) \/ pc[c] = "run") /\ purpose[c] = "try"
         => ran[c] <= 2 * (attempt[c] - 1)
    /\ (InConnectNow(c) \/ pc[c] = "run") /\ purpose[c] \in {"re", "retry"}
         => ran[c] <= 2 * (attempt[c] - 1) + 1
    /\ ran[c] <= 2 * attempt[c]

\* A verdict exists when Exec has returned, and success follows a run.
ResultInv ==
  \A c \in Callers :
    /\ pc[c] # "done" => result[c] = "pending"
    /\ pc[c] = "idle" => purpose[c] = "pre"
    /\ pc[c] = "run" => purpose[c] \in {"try", "retry"}
    /\ InConnectNow(c) /\ purpose[c] = "re" => err[c] = "transport"
    /\ pc[c] = "unlock" /\ err[c] = "none" => ran[c] > 0

IInv == TypeOK /\ MutexInv /\ RanInv /\ ResultInv

\* Init establishes the invariant.
LEMMA InitInv == Init => IInv
<1> SUFFICES ASSUME Init PROVE IInv
  OBVIOUS
<1>1. TypeOK
  <2>1. 1 \in 1..MaxRetries /\ 0 \in Nat
    BY ExecutorConstants
  <2> QED BY <2>1 DEF Init, TypeOK
<1>2. MutexInv
  BY DEF Init, MutexInv, InAttempt
<1>3. RanInv
  <2>1. \A c \in Callers : ran[c] = 0 /\ attempt[c] = 1
    BY DEF Init
  <2>2. 0 <= 2 * (1 - 1) /\ 0 <= 2 * (1 - 1) + 1 /\ 0 <= 2 * 1
    OBVIOUS
  <2> QED BY <2>1, <2>2 DEF RanInv
<1>4. ResultInv
  BY DEF Init, ResultInv, InConnectNow
<1> QED BY <1>1, <1>2, <1>3, <1>4 DEF IInv

\* Every step of a goroutine keeps the types.
LEMMA StepType ==
  ASSUME TypeOK, NEW c \in Callers, Step(c)
  PROVE  TypeOK'
<1>0. senders' = senders /\ concurrent' = concurrent
  BY DEF Step
<1> USE <1>0, ExecutorConstants DEF TypeOK, Goto, InConnect, session, Errors
<1>1. CASE Call(c) BY <1>1 DEF Call
<1>2. CASE Lock(c) BY <1>2 DEF Lock
<1>3. CASE CheckClient(c) BY <1>3 DEF CheckClient
<1>4. CASE Dial(c) BY <1>4 DEF Dial, ConnectFails, TryFails
<1>5. CASE OpenSession(c) BY <1>5 DEF OpenSession, Connected, ConnectFails, TryFails
<1>6. CASE RunCommand(c)
  <2>1. ran' \in [Callers -> Nat]
    <3>1. ran[c] + 1 \in Nat
      OBVIOUS
    <3> QED BY <1>6, <3>1 DEF RunCommand
  <2>2. /\ client' \in {"nil", "set"} /\ closed' \in BOOLEAN
        /\ UNCHANGED <<lock, attempt, result, crashed>>
    BY <1>6 DEF RunCommand
  <2>3. /\ pc' \in [Callers -> {"idle", "check", "dial", "open", "lock", "run",
                                "unlock", "done"}]
        /\ purpose' \in [Callers -> {"pre", "try", "re", "retry"}]
        /\ err' \in [Callers -> Errors \cup {"none"}]
    BY <1>6 DEF RunCommand, TryFails
  <2> QED BY <2>1, <2>2, <2>3
<1>7. CASE Unlock(c) BY <1>7 DEF Unlock, MayRetry
<1>8. CASE TransferFile(c)
  <2>1. ran' \in [Callers -> Nat]
    <3>1. ran[c] + 1 \in Nat
      OBVIOUS
    <3> QED BY <1>8, <3>1 DEF TransferFile
  <2>2. UNCHANGED <<client, closed, lock, attempt, result>> /\ crashed' \in BOOLEAN
    BY <1>8 DEF TransferFile
  <2>3. /\ pc' \in [Callers -> {"idle", "check", "dial", "open", "lock", "run",
                                "unlock", "done"}]
        /\ purpose' \in [Callers -> {"pre", "try", "re", "retry"}]
        /\ err' \in [Callers -> Errors \cup {"none"}]
    BY <1>8 DEF TransferFile, TryFails
  <2> QED BY <2>1, <2>2, <2>3
<1> QED BY <1>1, <1>2, <1>3, <1>4, <1>5, <1>6, <1>7, <1>8 DEF Step

\* A step of c leaves the other goroutines where they are, and takes or
\* releases the mutex only for c.
LEMMA Frame ==
  ASSUME TypeOK, NEW c \in Callers, Step(c), NEW d \in Callers, d # c
  PROVE  /\ pc'[d] = pc[d] /\ purpose'[d] = purpose[d] /\ attempt'[d] = attempt[d]
         /\ err'[d] = err[d] /\ ran'[d] = ran[d] /\ result'[d] = result[d]
<1> USE DEF TypeOK, Goto, InConnect, session
<1>1. CASE Call(c) BY <1>1 DEF Call
<1>2. CASE Lock(c) BY <1>2 DEF Lock
<1>3. CASE CheckClient(c) BY <1>3 DEF CheckClient
<1>4. CASE Dial(c) BY <1>4 DEF Dial, ConnectFails, TryFails
<1>5. CASE OpenSession(c) BY <1>5 DEF OpenSession, Connected, ConnectFails, TryFails
<1>6. CASE RunCommand(c) BY <1>6 DEF RunCommand, TryFails
<1>7. CASE Unlock(c) BY <1>7 DEF Unlock, MayRetry
<1>8. CASE TransferFile(c) BY <1>8 DEF TransferFile, TryFails
<1> QED BY <1>1, <1>2, <1>3, <1>4, <1>5, <1>6, <1>7, <1>8 DEF Step

\* Only Lock and Unlock touch the mutex: c enters an attempt by taking it.
LEMMA MutexStep ==
  ASSUME TypeOK, MutexInv, ResultInv, NEW c \in Callers, Step(c)
  PROVE  MutexInv'
<1> USE DEF TypeOK, MutexInv, InAttempt, Goto, InConnect, session
<1>1. CASE Lock(c)
  <2>1. \A d \in Callers : ~InAttempt(d)
    BY <1>1, ExecutorConstants DEF Lock
  <2> QED BY <1>1, <2>1, Frame DEF Lock
<1>2. CASE Unlock(c)
  <2>1. \A d \in Callers : d # c => ~InAttempt(d)
    BY <1>2 DEF Unlock, MayRetry
  <2>2. ~InAttempt(c)'
    BY <1>2 DEF Unlock, MayRetry
  <2> QED BY <2>1, <2>2, Frame
<1>3. CASE ~Lock(c) /\ ~Unlock(c)
  <2>1. lock' = lock
    BY <1>3 DEF Step, Call, CheckClient, Dial, OpenSession, RunCommand, TransferFile
  <2>2. InAttempt(c)' => InAttempt(c)
    <3>1. CASE Call(c) \/ CheckClient(c)
      BY <3>1 DEF Call, CheckClient, ResultInv
    <3>2. CASE Dial(c)
      BY <3>2 DEF Dial, ConnectFails, TryFails
    <3>3. CASE OpenSession(c)
      BY <3>3 DEF OpenSession, Connected, ConnectFails, TryFails
    <3>4. CASE RunCommand(c) \/ TransferFile(c)
      BY <3>4 DEF RunCommand, TransferFile
    <3> QED BY <1>3, <3>1, <3>2, <3>3, <3>4 DEF Step
  <2> QED BY <2>1, <2>2, Frame
<1> QED BY <1>1, <1>2, <1>3

\* Verdicts and error values follow the attempt.
LEMMA ResultStep ==
  ASSUME TypeOK, ResultInv, NEW c \in Callers, Step(c)
  PROVE  ResultInv'
<1> DEFINE Good(d) ==
      /\ pc[d] # "done" => result[d] = "pending"
      /\ pc[d] = "idle" => purpose[d] = "pre"
      /\ pc[d] = "run" => purpose[d] \in {"try", "retry"}
      /\ InConnectNow(d) /\ purpose[d] = "re" => err[d] = "transport"
      /\ pc[d] = "unlock" /\ err[d] = "none" => ran[d] > 0
<1>0. Good(c)
  BY DEF ResultInv
<1>a. \A d \in Callers : d # c => Good(d)'
  BY Frame DEF ResultInv, InConnectNow
<1>b. Good(c)'
  <2> USE <1>0 DEF TypeOK, InConnectNow, Goto, InConnect, session
  <2>1. CASE Call(c) BY <2>1 DEF Call
  <2>2. CASE Lock(c) BY <2>2 DEF Lock
  <2>3. CASE CheckClient(c) BY <2>3 DEF CheckClient
  <2>4. CASE Dial(c) BY <2>4 DEF Dial, ConnectFails, TryFails
  <2>5. CASE OpenSession(c)
    BY <2>5 DEF OpenSession, Connected, ConnectFails, TryFails
  <2>6. CASE RunCommand(c)
    <3>1. CASE ran' = [ran EXCEPT ![c] = @ + 1] /\ err' = [err EXCEPT ![c] = "none"]
               /\ Goto(c, "unlock") /\ UNCHANGED purpose
      <4>1. ran'[c] > 0
        BY <3>1
      <4> QED BY <2>6, <3>1, <4>1 DEF RunCommand
    <3>2. CASE \E kind \in Errors : TryFails(c, kind)
      BY <2>6, <3>2 DEF RunCommand, TryFails, Errors
    <3> QED BY <2>6, <3>1, <3>2 DEF RunCommand
  <2>7. CASE Unlock(c) BY <2>7 DEF Unlock, MayRetry
  <2>8. CASE TransferFile(c)
    <3>1. CASE ran' = [ran EXCEPT ![c] = @ + 1] /\ err' = [err EXCEPT ![c] = "none"]
               /\ Goto(c, "unlock") /\ UNCHANGED purpose
      <4>1. ran'[c] > 0
        BY <3>1
      <4> QED BY <2>8, <3>1, <4>1 DEF TransferFile
    <3>2. CASE \E kind \in {"transport", "plain"} : TryFails(c, kind)
      BY <2>8, <3>2 DEF TransferFile, TryFails
    <3>3. CASE UNCHANGED <<pc, purpose, err, ran>>
      BY <2>8, <3>3 DEF TransferFile
    <3> QED BY <2>8, <3>1, <3>2, <3>3 DEF TransferFile
  <2> QED BY <2>1, <2>2, <2>3, <2>4, <2>5, <2>6, <2>7, <2>8 DEF Step
<1> QED BY <1>a, <1>b DEF ResultInv

\* The number of runs follows the attempt: two more are possible when one
\* begins, one more after a reconnect.
LEMMA RanStep ==
  ASSUME TypeOK, ResultInv, RanInv, NEW c \in Callers, Step(c)
  PROVE  RanInv'
<1> DEFINE Fresh(d) == \/ pc[d] \in {"idle", "lock"}
                       \/ InConnectNow(d) /\ purpose[d] = "pre"
                       \/ (InConnectNow(d) \/ pc[d] = "run") /\ purpose[d] = "try"
           Second(d) == (InConnectNow(d) \/ pc[d] = "run") /\ purpose[d] \in {"re", "retry"}
           Good(d) == /\ Fresh(d) => ran[d] <= 2 * (attempt[d] - 1)
                      /\ Second(d) => ran[d] <= 2 * (attempt[d] - 1) + 1
                      /\ ran[d] <= 2 * attempt[d]
<1>0. RanInv <=> \A d \in Callers : Good(d)
  BY DEF RanInv
<1>0p. RanInv' <=> \A d \in Callers : Good(d)'
  BY DEF RanInv
<1>a. ASSUME NEW d \in Callers, d # c PROVE Good(d)'
  BY <1>0, <1>a, Frame DEF InConnectNow
<1>b. Good(c)'
  <2>0. Good(c) /\ ran[c] \in Nat /\ attempt[c] \in Nat
    BY <1>0, ExecutorConstants DEF TypeOK
  <2>1. CASE ~RunCommand(c) /\ ~TransferFile(c) /\ ~Unlock(c)
    <3>1. ran'[c] = ran[c] /\ attempt'[c] = attempt[c]
      BY <2>1 DEF Step, Call, Lock, CheckClient, Dial, OpenSession
    <3>2. (Fresh(c)' => Fresh(c)) /\ (Second(c)' => Second(c) \/ Fresh(c))
      <4> USE DEF TypeOK, InConnectNow, Goto, InConnect, session
      <4>1. CASE Call(c) BY <4>1 DEF Call, ResultInv
      <4>2. CASE Lock(c) BY <4>2 DEF Lock
      <4>3. CASE CheckClient(c) BY <4>3 DEF CheckClient
      <4>4. CASE Dial(c) BY <4>4 DEF Dial, ConnectFails, TryFails
      <4>5. CASE OpenSession(c)
        BY <4>5 DEF OpenSession, Connected, ConnectFails, TryFails
      <4> QED BY <2>1, <4>1, <4>2, <4>3, <4>4, <4>5 DEF Step
    <3> HIDE DEF Fresh, Second
    <3> QED BY <2>0, <3>1, <3>2
  <2>2. CASE RunCommand(c)
    <3>1. attempt'[c] = attempt[c] /\ ran'[c] \in {ran[c], ran[c] + 1}
      BY <2>2 DEF RunCommand, TypeOK
    <3>2. \/ purpose[c] = "try" /\ ~Fresh(c)' /\ ran[c] <= 2 * (attempt[c] - 1)
          \/ purpose[c] = "retry" /\ ~Fresh(c)' /\ ~Second(c)'
             /\ ran[c] <= 2 * (attempt[c] - 1) + 1
      BY <2>0, <2>2 DEF RunCommand, TryFails, ResultInv, TypeOK, Goto, InConnect, InConnectNow
    <3> HIDE DEF Fresh, Second
    <3> QED BY <2>0, <3>1, <3>2
  <2>4. CASE TransferFile(c)
    <3>1. attempt'[c] = attempt[c] /\ ran'[c] \in {ran[c], ran[c] + 1}
      BY <2>4 DEF TransferFile, TypeOK
    <3>2. CASE UNCHANGED <<pc, purpose, err, ran>>
      <4>1. (Fresh(c)' <=> Fresh(c)) /\ (Second(c)' <=> Second(c)) /\ ran'[c] = ran[c]
        BY <3>2 DEF InConnectNow
      <4> HIDE DEF Fresh, Second
      <4> QED BY <2>0, <3>1, <4>1
    <3>3. CASE pc' # pc
      <4>1. \/ purpose[c] = "try" /\ ~Fresh(c)' /\ ran[c] <= 2 * (attempt[c] - 1)
            \/ purpose[c] = "retry" /\ ~Fresh(c)' /\ ~Second(c)'
               /\ ran[c] <= 2 * (attempt[c] - 1) + 1
        BY <2>0, <2>4, <3>3 DEF TransferFile, TryFails, ResultInv, TypeOK, Goto, InConnect, InConnectNow
      <4> HIDE DEF Fresh, Second
      <4> QED BY <2>0, <3>1, <4>1
    <3>4. pc' = pc => UNCHANGED <<pc, purpose, err, ran>>
      BY <2>4 DEF TransferFile, TryFails, Goto, TypeOK
    <3> QED BY <3>2, <3>3, <3>4
  <2>3. CASE Unlock(c)
    <3>1. ran'[c] = ran[c] /\ ~Second(c)'
      BY <2>3 DEF Unlock, MayRetry, Goto, TypeOK, InConnectNow
    <3>2. \/ attempt'[c] = attempt[c] /\ ~Fresh(c)'
          \/ attempt'[c] = attempt[c] + 1
      BY <2>3 DEF Unlock, MayRetry, Goto, TypeOK, InConnectNow
    <3> HIDE DEF Fresh, Second
    <3> QED BY <2>0, <3>1, <3>2
  <2> QED BY <2>1, <2>2, <2>3, <2>4
<1> QED BY <1>0p, <1>a, <1>b

\* The invariant is inductive.
LEMMA NextInv == IInv /\ [Next]_vars => IInv'
<1> SUFFICES ASSUME IInv, [Next]_vars PROVE IInv'
  OBVIOUS
<1>1. ASSUME NEW c \in Callers, Step(c) PROVE IInv'
  BY <1>1, StepType, MutexStep, ResultStep, RanStep DEF IInv
<1>2. CASE UNCHANGED vars
  BY <1>2 DEF vars, IInv, TypeOK, MutexInv, RanInv, ResultInv, InAttempt, InConnectNow
<1> QED BY <1>1, <1>2 DEF Next

-----------------------------------------------------------------------------
\* The fields of the executor and the session always have their types.
THEOREM ExecTypeCorrect == Spec => []TypeOK
<1>1. IInv => TypeOK
  BY DEF IInv
<1> QED BY <1>1, InitInv, NextInv, PTL DEF Spec

\* One goroutine at a time is in an attempt, for any number of goroutines,
\* although the session is also used outside the mutex.  It says nothing of the
\* host, where the command of an attempt that lost its connection may go on.
THEOREM AttemptsExclude == Spec => []OneAttemptAtATime
<1>1. IInv => OneAttemptAtATime
  BY DEF IInv, MutexInv, OneAttemptAtATime
<1> QED BY <1>1, InitInv, NextInv, PTL DEF Spec

\* Exec implements its contract: success means the command ran, and it ran at
\* most twice per attempt.
THEOREM ExecImplementsContract == Spec => ContractKept
<1>1. Init => Contract!Init
  BY DEF Init, Contract!Init
<1>2. IInv /\ [Next]_vars => [Contract!Next]_<<ran, result>>
  <2> SUFFICES ASSUME IInv, [Next]_vars
               PROVE  Contract!Next \/ UNCHANGED <<ran, result>>
    OBVIOUS
  <2>0. TypeOK /\ RanInv /\ ResultInv
    BY DEF IInv
  <2>1. ASSUME NEW c \in Callers, Step(c)
        PROVE  Contract!Next \/ UNCHANGED <<ran, result>>
    <3>1. CASE Call(c) \/ Lock(c) \/ CheckClient(c)
      BY <3>1 DEF Call, Lock, CheckClient
    <3>2. CASE Dial(c) \/ OpenSession(c)
      <4>1. UNCHANGED ran /\ result[c] = "pending"
        BY <2>0, <3>2 DEF Dial, OpenSession, ResultInv
      <4>2. result' = result \/ result' = [result EXCEPT ![c] = "error"]
        BY <3>2 DEF Dial, OpenSession, ConnectFails
      <4> QED BY <4>1, <4>2 DEF Contract!Next, Contract!Return
    <3>3. CASE RunCommand(c) \/ TransferFile(c)
      <4>1. UNCHANGED result /\ result[c] = "pending"
        BY <2>0, <3>3 DEF RunCommand, TransferFile, ResultInv
      <4>2. ran[c] < 2 * MaxRetries
        <5>1. ran[c] <= 2 * (attempt[c] - 1) + 1
          <6>1. ran[c] <= 2 * (attempt[c] - 1) \/ ran[c] <= 2 * (attempt[c] - 1) + 1
            BY <2>0, <3>3 DEF RunCommand, TransferFile, RanInv, ResultInv
          <6>2. ran[c] \in Nat /\ attempt[c] \in Nat
            BY <2>0, ExecutorConstants DEF TypeOK
          <6> QED BY <6>1, <6>2
        <5>2. ran[c] \in Nat /\ attempt[c] \in 1..MaxRetries /\ MaxRetries \in Nat
          BY <2>0, ExecutorConstants DEF TypeOK
        <5> QED BY <5>1, <5>2
      <4>3. ran' = ran \/ ran' = [ran EXCEPT ![c] = @ + 1]
        BY <3>3 DEF RunCommand, TransferFile
      <4> QED BY <4>1, <4>2, <4>3 DEF Contract!Next, Contract!Run
    <3>4. CASE Unlock(c)
      <4>1. UNCHANGED ran /\ result[c] = "pending"
        BY <2>0, <3>4 DEF Unlock, MayRetry, ResultInv
      <4>2. \/ ran[c] > 0 /\ result' = [result EXCEPT ![c] = "ok"]
            \/ result' = [result EXCEPT ![c] = "error"]
            \/ result' = result
        BY <2>0, <3>4 DEF Unlock, MayRetry, ResultInv
      <4> QED BY <4>1, <4>2 DEF Contract!Next, Contract!Return
    <3> QED BY <2>1, <3>1, <3>2, <3>3, <3>4 DEF Step
  <2>2. CASE UNCHANGED vars
    BY <2>2 DEF vars
  <2> QED BY <2>1, <2>2 DEF Next
<1> QED BY <1>1, <1>2, InitInv, NextInv, PTL DEF Spec, ContractKept, Contract!Spec

-----------------------------------------------------------------------------
(* One call at a time.                                                       *)

Quiet(c) == pc[c] \in {"idle", "done"}
\* The flag Exec trusts says whether there is a client.
Agree == /\ closed = TRUE => client = "nil"
         /\ closed = FALSE => client = "set"

\* Between the test of the client and its use nobody else drops it; an attempt
\* ends with the flag right, whatever it was before the first one.
SerialInv ==
  ~concurrent =>
    /\ ~crashed
    /\ \A c, d \in Callers : ~Quiet(c) /\ ~Quiet(d) => c = d
    /\ \A c \in Callers :
         /\ pc[c] \in {"open", "run"} => client = "set"
         /\ pc[c] = "dial" => client = "nil"
         /\ pc[c] = "run" => closed = FALSE
         /\ pc[c] = "unlock" => Agree
    /\ (\A c \in Callers : Quiet(c)) /\ (\E c \in Callers : result[c] # "pending")
         => Agree

LEMMA InitSerial == Init => SerialInv
<1> SUFFICES ASSUME Init PROVE SerialInv
  OBVIOUS
<1>1. \A c \in Callers : pc[c] = "idle" /\ result[c] = "pending"
  BY DEF Init
<1>2. ~crashed
  BY Zenon DEF Init
<1> QED BY <1>1, <1>2 DEF SerialInv, Quiet

\* Where a step leaves its goroutine and the session, nobody else being active.
LEMMA SerialMove ==
  ASSUME TypeOK, SerialInv, ~concurrent, NEW c \in Callers, Step(c)
  PROVE  /\ ~crashed'
         /\ pc'[c] # "idle"
         /\ pc'[c] \in {"open", "run"} => client' = "set"
         /\ pc'[c] = "dial" => client' = "nil"
         /\ pc'[c] = "run" => closed' = FALSE
         /\ pc'[c] \in {"unlock", "done"} => Agree'
<1>1. /\ ~crashed
      /\ pc[c] \in {"open", "run"} => client = "set"
      /\ pc[c] = "dial" => client = "nil"
      /\ pc[c] = "run" => closed = FALSE
      /\ pc[c] = "unlock" => Agree
  BY DEF SerialInv
<1> USE <1>1 DEF TypeOK, Goto, InConnect, session
<1>2. CASE Call(c) BY <1>2 DEF Call
<1>3. CASE Lock(c) BY <1>3 DEF Lock
<1>4. CASE CheckClient(c) BY <1>4 DEF CheckClient
<1>5. CASE Dial(c)
  <2>1. CASE client' = "set" /\ Goto(c, "open")
    BY <1>5, <2>1 DEF Dial
  <2>2. CASE closed' = TRUE /\ ConnectFails(c) /\ UNCHANGED client
    <3>1. pc'[c] \in {"done", "unlock", "check"} /\ client' = "nil" /\ closed' = TRUE
      BY <1>5, <2>2 DEF Dial, ConnectFails, TryFails
    <3> QED BY <1>5, <3>1 DEF Dial, Agree
  <2> QED BY <1>5, <2>1, <2>2 DEF Dial
<1>6. CASE OpenSession(c)
  <2>1. CASE client = "set" /\ closed' = FALSE /\ Connected(c)
             /\ UNCHANGED <<client, err, result, crashed>>
    <3>1. pc'[c] \in {"lock", "check", "run"}
      BY <2>1 DEF Connected
    <3> QED BY <2>1, <3>1
  <2>2. CASE closed' = TRUE /\ client' = "nil" /\ ConnectFails(c) /\ UNCHANGED crashed
    <3>1. pc'[c] \in {"done", "unlock", "check"}
      BY <1>6, <2>2 DEF OpenSession, ConnectFails, TryFails
    <3> QED BY <2>2, <3>1 DEF Agree
  <2>3. client # "nil"
    BY <1>6 DEF OpenSession
  <2> QED BY <1>6, <2>1, <2>2, <2>3 DEF OpenSession
<1>7. CASE RunCommand(c)
  <2>1. CASE Goto(c, "unlock") /\ UNCHANGED session
    BY <1>7, <2>1 DEF RunCommand, Agree
  <2>2. CASE closed' = TRUE /\ client' = "nil" /\ \E kind \in Errors : TryFails(c, kind)
    <3>1. pc'[c] \in {"unlock", "check"}
      BY <2>2 DEF TryFails
    <3> QED BY <1>7, <2>2, <3>1 DEF RunCommand, Agree
  <2> QED BY <1>7, <2>1, <2>2 DEF RunCommand
<1>8. CASE TransferFile(c)
  <2>1. client = "set" /\ closed = FALSE /\ UNCHANGED <<client, closed, crashed>>
    BY <1>8 DEF TransferFile
  <2>2. pc'[c] \in {"unlock", "check"}
    BY <1>8, <2>1 DEF TransferFile, TryFails
  <2> QED BY <2>1, <2>2 DEF Agree
<1>9. CASE Unlock(c)
  BY <1>9 DEF Unlock, MayRetry, Agree
<1> QED BY <1>2, <1>3, <1>4, <1>5, <1>6, <1>7, <1>8, <1>9 DEF Step

LEMMA SerialStep ==
  ASSUME TypeOK, SerialInv, NEW c \in Callers, Step(c)
  PROVE  SerialInv'
<1>0. concurrent' = concurrent
  BY DEF Step
<1> SUFFICES ASSUME ~concurrent PROVE SerialInv'
  BY <1>0 DEF SerialInv
<1>1. \A d \in Callers : d # c => Quiet(d)
  <2>1. CASE Quiet(c)
    BY <2>1 DEF Step, Call, Lock, CheckClient, Dial, OpenSession, RunCommand,
                TransferFile, Unlock, Quiet
  <2>2. CASE ~Quiet(c)
    BY <2>2 DEF SerialInv
  <2> QED BY <2>1, <2>2
<1>2. \A d \in Callers : d # c => pc'[d] = pc[d]
  BY Frame
<1>3. (\A d \in Callers : Quiet(d)') => pc'[c] = "done"
  BY SerialMove DEF Quiet
<1> QED BY <1>1, <1>2, <1>3, SerialMove DEF SerialInv, Quiet

THEOREM SerialInvariant == Spec => [](IInv /\ SerialInv)
<1>1. IInv /\ SerialInv /\ [Next]_vars => SerialInv'
  <2> SUFFICES ASSUME IInv, SerialInv, [Next]_vars PROVE SerialInv'
    OBVIOUS
  <2>1. ASSUME NEW c \in Callers, Step(c) PROVE SerialInv'
    BY <2>1, SerialStep DEF IInv
  <2>2. CASE UNCHANGED vars
    BY <2>2 DEF vars, SerialInv, Quiet, Agree
  <2> QED BY <2>1, <2>2 DEF Next
<1> QED BY <1>1, InitInv, InitSerial, NextInv, PTL DEF Spec

\* SerialNeverCrashes: without overlapping calls no call uses a client that was
\* dropped, whatever fails (ssh/session.go:45).
THEOREM SerialIsSafe == Spec => []SerialNeverCrashes
<1>1. SerialInv => SerialNeverCrashes
  BY DEF SerialInv, SerialNeverCrashes
<1> QED BY <1>1, SerialInvariant, PTL

\* OpenHasClient: between calls that do not overlap, the closed flag is right
\* once a call returned (core/remote.go:70).
THEOREM FlagIsRight == Spec => []OpenHasClient
<1>1. IInv /\ SerialInv => OpenHasClient
  <2> SUFFICES ASSUME TypeOK, SerialInv, ~concurrent,
                      \A c \in Callers : pc[c] \in {"idle", "done"},
                      \E c \in Callers : result[c] # "pending"
               PROVE  closed <=> client = "nil"
    BY DEF IInv, OpenHasClient
  <2>1. Agree
    BY DEF SerialInv, Quiet
  <2>2. closed \in BOOLEAN
    BY DEF TypeOK
  <2>3. CASE closed = TRUE
    BY <2>1, <2>3 DEF Agree
  <2>4. CASE closed = FALSE
    BY <2>1, <2>4 DEF Agree
  <2> QED BY <2>2, <2>3, <2>4
<1> QED BY <1>1, SerialInvariant, PTL

-----------------------------------------------------------------------------
(* The safety half of ExecReturns: somebody can always go on, and nobody     *)
(* goes on for ever.                                                         *)

\* The mutex is held only by a goroutine inside an attempt, so all that one
\* waiting for it depends on is that goroutine.
HolderInv ==
  /\ \A c \in Callers : lock = c => InAttempt(c)
  /\ ~concurrent => \A c, d \in Callers : ~Quiet(c) /\ ~Quiet(d) => c = d

\* The goroutine can take its next step.  Step(c) is enabled where this holds.
CanStep(c) ==
  /\ ~crashed
  /\ \/ pc[c] = "idle" /\ (concurrent \/ \A d \in Callers : Quiet(d))
     \/ pc[c] = "lock" /\ lock = Free
     \/ pc[c] \in {"check", "dial", "open", "run", "unlock"}

\* No goroutine waits in vain: while the process lives, a caller that cannot go
\* on waits for the mutex, whose holder can.  A caller that has not begun, where
\* calls do not overlap, waits for the one call there is.
ExecNeverStuck ==
  ~crashed =>
    /\ \A c \in Callers : pc[c] = "lock" /\ ~CanStep(c) =>
         lock \in Callers \ {c} /\ CanStep(lock)
    /\ \A c \in Callers : pc[c] = "idle" /\ ~CanStep(c) =>
         \E d \in Callers : ~Quiet(d) /\ CanStep(d)
    /\ \A c \in Callers : pc[c] \in {"lock", "idle", "done"} \/ CanStep(c)

\* Where Connect, an attempt and Exec's loop have their places, last first.
Offset == [check |-> 2, dial |-> 1, open |-> 0]
Base == [pre |-> 14, try |-> 10, re |-> 6, retry |-> 3]
Position(stage, why) ==
  CASE stage = "idle" -> 17
    [] stage = "lock" -> 13
    [] stage = "run" -> IF why = "try" THEN 9 ELSE 2
    [] stage = "unlock" -> 1
    [] stage = "done" -> 0
    [] stage \in {"check", "dial", "open"} -> Base[why] + Offset[stage]
StepsLeft(c) == 14 * (MaxRetries - attempt[c]) + Position(pc[c], purpose[c])

\* Whatever fails and however goroutines interleave, a call takes at most
\* 14 * MaxRetries + 3 steps, none of which another goroutine can add to.
ExecRunsDown ==
  [][\A c \in Callers :
       /\ Step(c) => crashed' \/ StepsLeft(c)' < StepsLeft(c)
       /\ \A d \in Callers \ {c} : Step(d) => StepsLeft(c)' = StepsLeft(c)]_vars

LEMMA HolderStep ==
  ASSUME IInv, HolderInv, NEW c \in Callers, Step(c)
  PROVE  HolderInv'
<1> USE DEF IInv, TypeOK
<1>0. crashed' \in BOOLEAN /\ senders' = senders /\ concurrent' = concurrent
  BY StepType DEF Step
<1>1. \A d \in Callers : d # c => pc'[d] = pc[d] /\ purpose'[d] = purpose[d]
  BY Frame
<1>2. ASSUME NEW d \in Callers, lock' = d, d # c PROVE InAttempt(d)'
  <2>1. lock = d
    BY <1>2, ExecutorConstants
      DEF Step, Call, Lock, CheckClient, Dial, OpenSession, RunCommand, TransferFile, Unlock
  <2> QED BY <1>1, <1>2, <2>1 DEF HolderInv, InAttempt
<1>3. ASSUME lock' = c PROVE InAttempt(c)'
  <2> USE DEF Goto, InConnect, InAttempt
  <2>1. CASE Lock(c)
    BY <2>1 DEF Lock
  <2>2. ~Unlock(c)
    BY <1>3, ExecutorConstants DEF Unlock
  <2>3. CASE ~Lock(c)
    <3>1. lock = c
      BY <1>3, <2>2, <2>3
        DEF Step, Call, CheckClient, Dial, OpenSession, RunCommand, TransferFile
    <3>2. InAttempt(c)
      BY <3>1 DEF HolderInv
    <3>3. ~Call(c)
      BY <3>2 DEF Call
    <3>4. CASE CheckClient(c)
      BY <3>2, <3>4 DEF CheckClient
    <3>5. CASE Dial(c)
      BY <3>2, <3>5 DEF Dial, ConnectFails, TryFails
    <3>6. CASE OpenSession(c)
      BY <3>2, <3>6 DEF OpenSession, Connected, ConnectFails, TryFails
    <3>7. CASE RunCommand(c)
      BY <3>2, <3>7 DEF RunCommand, TryFails
    <3>8. CASE TransferFile(c)
      BY <3>2, <3>8 DEF TransferFile, TryFails
    <3> QED BY <2>2, <2>3, <3>3, <3>4, <3>5, <3>6, <3>7, <3>8 DEF Step
  <2> QED BY <2>1, <2>3
<1>4. ASSUME ~concurrent PROVE \A a, b \in Callers : ~Quiet(a)' /\ ~Quiet(b)' => a = b
  <2>1. \A d \in Callers : d # c => Quiet(d)
    <3>1. CASE Call(c)
      BY <1>4, <3>1 DEF Call, Quiet
    <3>2. CASE ~Call(c)
      <4>1. ~Quiet(c)
        BY <3>2 DEF Step, Lock, CheckClient, Dial, OpenSession, RunCommand,
                    TransferFile, Unlock, Quiet
      <4> QED BY <1>4, <4>1 DEF HolderInv
    <3> QED BY <3>1, <3>2
  <2> QED BY <1>1, <2>1 DEF Quiet
<1> QED BY <1>0, <1>2, <1>3, <1>4 DEF HolderInv

\* ExecNeverStuck, for any number of goroutines (core/remote.go:62-150,
\* ssh/session.go:41-97).
THEOREM CallersNeverStuck == Spec => []ExecNeverStuck
<1>1. Init => HolderInv
  BY ExecutorConstants DEF Init, HolderInv, Quiet
<1>2. IInv /\ HolderInv /\ [Next]_vars => HolderInv'
  <2>1. HolderInv /\ UNCHANGED vars => HolderInv'
    BY DEF HolderInv, InAttempt, Quiet, vars
  <2> QED BY <2>1, HolderStep DEF Next
<1>3. IInv /\ HolderInv => ExecNeverStuck
  <2> SUFFICES ASSUME IInv, HolderInv, ~crashed PROVE ExecNeverStuck
    BY DEF ExecNeverStuck
  <2> USE DEF IInv, TypeOK
  <2>1. ASSUME NEW c \in Callers, pc[c] = "lock", ~CanStep(c)
        PROVE  lock \in Callers \ {c} /\ CanStep(lock)
    <3>1. lock \in Callers
      BY <2>1 DEF CanStep
    <3>2. InAttempt(lock)
      BY <3>1 DEF HolderInv
    <3> QED BY <2>1, <3>1, <3>2 DEF InAttempt, CanStep
  <2>2. ASSUME NEW c \in Callers, pc[c] = "idle", ~CanStep(c)
        PROVE  \E d \in Callers : ~Quiet(d) /\ CanStep(d)
    <3>1. ~concurrent
      BY <2>2 DEF CanStep
    <3>2. PICK d \in Callers : ~Quiet(d)
      BY <2>2 DEF CanStep
    <3>3. CASE pc[d] # "lock"
      BY <3>2, <3>3 DEF CanStep, Quiet
    <3>4. CASE pc[d] = "lock"
      <4>1. lock = Free
        <5> SUFFICES ASSUME lock \in Callers PROVE FALSE
          OBVIOUS
        <5>1. InAttempt(lock)
          BY DEF HolderInv
        <5>2. lock = d
          BY <3>1, <3>2, <5>1 DEF HolderInv, InAttempt, Quiet
        <5> QED BY <3>4, <5>1, <5>2 DEF InAttempt
      <4> QED BY <3>2, <3>4, <4>1 DEF CanStep
    <3> QED BY <3>3, <3>4
  <2>3. ASSUME NEW c \in Callers PROVE pc[c] \in {"lock", "idle", "done"} \/ CanStep(c)
    BY DEF CanStep
  <2> QED BY <2>1, <2>2, <2>3 DEF ExecNeverStuck
<1>4. IInv /\ [Next]_vars => IInv'
  BY NextInv
<1> QED BY <1>1, <1>2, <1>3, <1>4, InitInv, PTL DEF Spec

\* The places in the order a call passes them.
LEMMA Positions ==
  /\ \A why \in {"pre", "try", "re", "retry"} :
       /\ Position("idle", why) = 17 /\ Position("lock", why) = 13
       /\ Position("unlock", why) = 1 /\ Position("done", why) = 0
  /\ Position("run", "try") = 9 /\ Position("run", "retry") = 2
  /\ Position("check", "pre") = 16 /\ Position("dial", "pre") = 15
  /\ Position("open", "pre") = 14
  /\ Position("check", "try") = 12 /\ Position("dial", "try") = 11
  /\ Position("open", "try") = 10
  /\ Position("check", "re") = 8 /\ Position("dial", "re") = 7
  /\ Position("open", "re") = 6
  /\ Position("check", "retry") = 5 /\ Position("dial", "retry") = 4
  /\ Position("open", "retry") = 3
<1>1. /\ Base.pre = 14 /\ Base.try = 10 /\ Base.re = 6 /\ Base.retry = 3
      /\ Offset.check = 2 /\ Offset.dial = 1 /\ Offset.open = 0
  BY DEF Base, Offset
<1> QED BY <1>1 DEF Position

\* A step takes its goroutine to a later place, except that Unlock may begin
\* the next attempt.
LEMMA StepMove ==
  ASSUME IInv, NEW c \in Callers, Step(c)
  PROVE  \/ crashed'
         \/ /\ attempt[c] < MaxRetries /\ attempt'[c] = attempt[c] + 1
            /\ pc[c] = "unlock" /\ pc'[c] = "lock"
         \/ /\ attempt'[c] = attempt[c]
            /\ Position(pc'[c], purpose'[c]) < Position(pc[c], purpose[c])
<1> USE DEF IInv, TypeOK, Goto, InConnect
<1>0. /\ purpose[c] \in {"pre", "try", "re", "retry"}
      /\ purpose'[c] \in {"pre", "try", "re", "retry"}
  BY StepType
<1>1. CASE Call(c)
  <2>1. pc[c] = "idle" /\ purpose[c] = "pre"
    BY <1>1 DEF Call, ResultInv
  <2>2. attempt' = attempt /\ purpose' = purpose /\ pc'[c] \in {"check", "lock"}
    BY <1>1 DEF Call
  <2> QED BY <2>1, <2>2, Positions
<1>2. CASE Lock(c)
  <2>1. pc[c] = "lock" /\ attempt' = attempt /\ pc'[c] = "check" /\ purpose'[c] = "try"
    BY <1>2 DEF Lock
  <2> QED BY <1>0, <2>1, Positions
<1>3. CASE CheckClient(c)
  <2>1. /\ pc[c] = "check" /\ attempt' = attempt /\ purpose' = purpose
        /\ pc'[c] \in {"dial", "open"}
    BY <1>3 DEF CheckClient
  <2> QED BY <1>0, <2>1, Positions
<1>4. CASE Dial(c)
  <2>1. pc[c] = "dial" /\ attempt' = attempt
    BY <1>4 DEF Dial
  <2>2. \/ pc'[c] = "open" /\ purpose'[c] = purpose[c]
        \/ purpose[c] = "pre" /\ pc'[c] = "done"
        \/ purpose[c] = "try" /\ pc'[c] = "check" /\ purpose'[c] = "re"
        \/ pc'[c] = "unlock"
    BY <1>4 DEF Dial, ConnectFails, TryFails
  <2> QED BY <1>0, <2>1, <2>2, Positions
<1>5. CASE OpenSession(c)
  <2>1. pc[c] = "open" /\ attempt' = attempt
    BY <1>5 DEF OpenSession
  <2>2. \/ crashed' = TRUE
        \/ purpose[c] = "pre" /\ pc'[c] \in {"lock", "done"}
        \/ purpose[c] = "re" /\ pc'[c] = "check" /\ purpose'[c] = "retry"
        \/ purpose[c] \in {"try", "retry"} /\ purpose'[c] = purpose[c] /\ pc'[c] = "run"
        \/ purpose[c] = "try" /\ pc'[c] = "check" /\ purpose'[c] = "re"
        \/ pc'[c] = "unlock"
    BY <1>5, <1>0 DEF OpenSession, Connected, ConnectFails, TryFails
  <2> QED BY <1>0, <2>1, <2>2, Positions
<1>6. CASE RunCommand(c) \/ TransferFile(c)
  <2>1. pc[c] = "run" /\ attempt' = attempt /\ purpose[c] \in {"try", "retry"}
    BY <1>6 DEF RunCommand, TransferFile, ResultInv
  <2>2. \/ crashed' = TRUE
        \/ purpose[c] = "try" /\ pc'[c] = "check" /\ purpose'[c] = "re"
        \/ pc'[c] = "unlock"
    BY <1>6 DEF RunCommand, TransferFile, TryFails
  <2> QED BY <1>0, <2>1, <2>2, Positions
<1>7. CASE Unlock(c)
  <2>1. pc[c] = "unlock" /\ purpose' = purpose
    BY <1>7 DEF Unlock
  <2>2. \/ attempt' = attempt /\ pc'[c] = "done"
        \/ /\ attempt[c] < MaxRetries /\ attempt'[c] = attempt[c] + 1
           /\ pc'[c] = "lock"
    BY <1>7 DEF Unlock, MayRetry
  <2> QED BY <1>0, <2>1, <2>2, Positions
<1> QED BY <1>1, <1>2, <1>3, <1>4, <1>5, <1>6, <1>7 DEF Step

\* ExecRunsDown, for any number of goroutines and retries.
THEOREM CallsRunDown == Spec => ExecRunsDown
<1>1. ASSUME IInv, NEW c \in Callers, Step(c)
      PROVE  crashed' \/ StepsLeft(c)' < StepsLeft(c)
  <2> DEFINE here == Position(pc[c], purpose[c])
             there == Position(pc'[c], purpose'[c])
  <2>1. here \in Nat /\ there \in Nat
    <3>1. ASSUME NEW stage \in {"idle", "check", "dial", "open", "lock", "run",
                                "unlock", "done"},
                 NEW why \in {"pre", "try", "re", "retry"}
          PROVE  Position(stage, why) \in Nat
      <4>1. CASE stage = "run"
        BY <4>1 DEF Position
      <4>2. CASE stage # "run"
        BY <4>2, Positions
      <4> QED BY <4>1, <4>2
    <3>2. /\ pc[c] \in {"idle", "check", "dial", "open", "lock", "run", "unlock", "done"}
          /\ purpose[c] \in {"pre", "try", "re", "retry"}
      BY <1>1 DEF IInv, TypeOK
    <3>3. /\ pc'[c] \in {"idle", "check", "dial", "open", "lock", "run", "unlock", "done"}
          /\ purpose'[c] \in {"pre", "try", "re", "retry"}
      BY <1>1, StepType DEF IInv, TypeOK
    <3> QED BY <3>1, <3>2, <3>3
  <2>2. /\ attempt[c] \in Nat /\ attempt'[c] \in Nat /\ MaxRetries \in Nat
    BY <1>1, StepType, ExecutorConstants DEF IInv, TypeOK
  <2>3. CASE crashed'
    BY <2>3
  <2>4. CASE /\ attempt[c] < MaxRetries /\ attempt'[c] = attempt[c] + 1
             /\ pc[c] = "unlock" /\ pc'[c] = "lock"
    <3>1. here = 1 /\ there = 13
      BY <1>1, <2>4, StepType, Positions DEF IInv, TypeOK
    <3>2. 14 * (MaxRetries - (attempt[c] + 1)) + 13 < 14 * (MaxRetries - attempt[c]) + 1
      BY <2>2
    <3> QED BY <2>4, <3>1, <3>2 DEF StepsLeft
  <2>5. CASE attempt'[c] = attempt[c] /\ there < here
    <3> HIDE DEF here, there
    <3>1. 14 * (MaxRetries - attempt[c]) + there < 14 * (MaxRetries - attempt[c]) + here
      BY <2>1, <2>2, <2>5
    <3> QED BY <2>5, <3>1 DEF StepsLeft, here, there
  <2> QED BY <1>1, <2>3, <2>4, <2>5, StepMove
<1>2. ASSUME IInv, NEW c \in Callers, NEW d \in Callers \ {c}, Step(d)
      PROVE  StepsLeft(c)' = StepsLeft(c)
  <2>1. pc'[c] = pc[c] /\ purpose'[c] = purpose[c] /\ attempt'[c] = attempt[c]
    BY <1>2, Frame DEF IInv
  <2> QED BY <2>1 DEF StepsLeft
<1>3. IInv /\ [Next]_vars =>
        [\A c \in Callers :
          /\ Step(c) => crashed' \/ StepsLeft(c)' < StepsLeft(c)
          /\ \A d \in Callers \ {c} : Step(d) => StepsLeft(c)' = StepsLeft(c)]_vars
  BY <1>1, <1>2
<1> QED BY <1>3, InitInv, NextInv, PTL DEF Spec, ExecRunsDown
=============================================================================
