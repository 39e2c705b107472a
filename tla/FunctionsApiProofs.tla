-------------------------- MODULE FunctionsApiProofs --------------------------
(* Theorems about FunctionsApi for any number of requests of any kind.        *)
EXTENDS FunctionsApi, TLAPS

\* What a handler has done so far, by the stage it is at.
Stage(r) ==
  /\ at[r] = "none" => status[r] = 0 /\ container[r] = "none"
  /\ at[r] = "run" =>
       ask[r].route = "run" /\ ask[r].body # "bad" /\ container[r] = "none"
  /\ at[r] = "wait" =>
       /\ ask[r].route = "run" /\ ask[r].body \in {"empty", "attached"}
       /\ container[r] # "none"
  /\ at[r] = "stop" => ask[r].route = "stop"
  /\ at[r] = "stopping" => ask[r].route = "stop" /\ ask[r].id \in Requests
  /\ at[r] # "none" /\ ask[r].body \in {"bad", "empty"} => status[r] = 400
  /\ at[r] # "answered" => status[r] \in {0, 400}
  /\ container[r] # "none" => ask[r].route = "run" /\ ask[r].body # "bad"

\* What an answer of success promises.  A container that is gone stays gone,
\* so other requests cannot break the promise afterwards.
Promise(r) ==
  status[r] = 200 =>
    /\ ask[r].route = "stop" => ask[r].id \in Requests /\ container[ask[r].id] \in Gone
    /\ ask[r].body = "attached" => container[r] = "ok"
    /\ ask[r].body = "detached" => container[r] # "none"

ApiInv == TypeOK /\ \A r \in Requests : Stage(r) /\ Promise(r)

-----------------------------------------------------------------------------
\* A run request never has the body of a stop request, nor the other way.
LEMMA AskKinds ==
  ASSUME NEW a \in Asks
  PROVE  /\ a.route = "run" => a.body \in {"bad", "empty", "attached", "detached"}
         /\ a.route = "stop" => a.body \in {"bad", "empty", "json"}
         /\ a.route \in {"run", "stop"}
         /\ a.id \in Requests \cup {NoId}
BY DEF Asks

LEMMA ApiInit == Init => ApiInv
<1> SUFFICES ASSUME Init PROVE ApiInv
  OBVIOUS
<1>1. podman \in BOOLEAN
  BY Zenon DEF Init
<1>2. TypeOK
  BY <1>1 DEF Init, TypeOK
<1> QED BY <1>2 DEF Init, ApiInv, Stage, Promise, NoAsk

\* Steps of the process, and of its end.
LEMMA ProcessStep ==
  ASSUME ApiInv, Launch \/ Boot \/ Exit
  PROVE  ApiInv'
<1> USE DEF ApiInv, TypeOK
<1>1. podman' \in BOOLEAN /\ serve' \in {"absent", "config", "init", "listen", "serving", "ended"}
  BY DEF Launch, Boot, ReadConfig, InitFunctions, Listen, Exit, serverVars
<1>2. UNCHANGED <<ask, status, container>>
  BY DEF Launch, Boot, ReadConfig, InitFunctions, Listen, Exit, serverVars
<1>3. /\ at' \in [Requests -> {"none", "run", "wait", "stop", "stopping",
                               "answered", "cut"}]
      /\ \A r \in Requests : at'[r] = at[r] \/ (at[r] \notin {"none", "answered"} /\ at'[r] = "cut")
  BY DEF Launch, Boot, ReadConfig, InitFunctions, Listen, Exit, serverVars, InFlight
<1>4. TypeOK'
  BY <1>1, <1>2, <1>3
<1>5. ASSUME NEW r \in Requests PROVE Stage(r)' /\ Promise(r)'
  BY <1>2, <1>3 DEF Stage, Promise
<1> QED BY <1>4, <1>5

\* A handler's answer, written once.
LEMMA AnswerStep ==
  ASSUME ApiInv, NEW r \in Requests, NEW code \in {200, 500}, Answer(r, code)
  PROVE  /\ status' \in [Requests -> {0, 200, 400, 500}]
         /\ at' \in [Requests -> {"none", "run", "wait", "stop", "stopping",
                                  "answered", "cut"}]
         /\ at'[r] = "answered"
         /\ status'[r] = IF status[r] = 0 THEN code ELSE status[r]
         /\ \A q \in Requests \ {r} : at'[q] = at[q] /\ status'[q] = status[q]
BY DEF Answer, Written, ApiInv, TypeOK

\* What one request finds unchanged while another one's handler works: its
\* container is only ever stopped or ends, and what is gone stays gone.
LEMMA OthersKept ==
  ASSUME ApiInv, NEW q \in Requests,
         at'[q] = at[q], status'[q] = status[q], ask'[q] = ask[q],
         \A p \in Requests :
           /\ container[p] \in Gone => container'[p] = container[p]
           /\ p = q => (container'[p] = "none" <=> container[p] = "none")
  PROVE  Stage(q)' /\ Promise(q)'
<1>1. Stage(q) /\ Promise(q)
  BY DEF ApiInv
<1>2. container[q] = "ok" => container'[q] = "ok"
  BY DEF Gone
<1> QED BY <1>1, <1>2 DEF Stage, Promise, Gone

LEMMA ReceiveStep ==
  ASSUME ApiInv, NEW r \in Requests, Receive(r)
  PROVE  ApiInv'
<1>1. PICK a \in Asked[r] :
        /\ ask' = [ask EXCEPT ![r] = a]
        /\ at' = [at EXCEPT ![r] = IF a.body = "bad" THEN "answered" ELSE a.route]
        /\ status' = [status EXCEPT ![r] = IF a.body \in {"bad", "empty"} THEN 400 ELSE 0]
  BY DEF Receive
<1>2. at[r] = "none" /\ UNCHANGED <<serve, podman, container>>
  BY DEF Receive
<1>3. a \in Asks
  BY ApiConstants
<1>4. TypeOK'
  BY <1>1, <1>2, <1>3, AskKinds DEF ApiInv, TypeOK
<1>5. ASSUME NEW q \in Requests \ {r} PROVE Stage(q)' /\ Promise(q)'
  BY <1>1, <1>2, <1>5, OthersKept DEF ApiInv, TypeOK
<1>6. Stage(r)' /\ Promise(r)'
  <2>1. ask'[r] = a /\ container'[r] = "none"
    BY <1>1, <1>2 DEF ApiInv, TypeOK, Stage
  <2>2. /\ at'[r] = IF a.body = "bad" THEN "answered" ELSE a.route
        /\ status'[r] = IF a.body \in {"bad", "empty"} THEN 400 ELSE 0
    BY <1>1 DEF ApiInv, TypeOK
  <2> QED BY <1>3, <2>1, <2>2, AskKinds DEF Stage, Promise
<1> QED BY <1>4, <1>5, <1>6 DEF ApiInv

\* Container steps nobody's handler takes.
LEMMA ContainerStep ==
  ASSUME ApiInv, NEW r \in Requests, ContainerEnds(r) \/ StoppedElsewhere(r)
  PROVE  ApiInv'
<1>1. UNCHANGED <<serve, podman, ask, at, status>>
  BY DEF ContainerEnds, StoppedElsewhere
<1>2. PICK c \in Gone \cup {"stopping"} :
        container[r] \in Alive /\ container' = [container EXCEPT ![r] = c]
  BY DEF ContainerEnds, StoppedElsewhere, Alive
<1>3. TypeOK'
  BY <1>1, <1>2 DEF ApiInv, TypeOK, Alive
<1>4. ASSUME NEW q \in Requests PROVE Stage(q)' /\ Promise(q)'
  BY <1>1, <1>2, OthersKept DEF ApiInv, TypeOK, Alive, Gone
<1> QED BY <1>3, <1>4 DEF ApiInv

LEMMA StartContainerStep ==
  ASSUME ApiInv, NEW r \in Requests, StartContainer(r)
  PROVE  ApiInv'
<1>1. /\ at[r] = "run" /\ UNCHANGED <<serve, podman, ask>>
      /\ ask[r].route = "run" /\ ask[r].body # "bad" /\ container[r] = "none"
      /\ ask[r].body = "empty" => status[r] = 400
      /\ status[r] \in {0, 400} /\ ask[r] \in Asks \cup {NoAsk}
  BY DEF StartContainer, ApiInv, Stage, TypeOK
<1>2. ask[r].body \in {"empty", "attached", "detached"}
  BY <1>1, AskKinds DEF NoAsk
<1>3. ASSUME NEW q \in Requests \ {r}, at'[q] = at[q], status'[q] = status[q],
             UNCHANGED container \/ container' = [container EXCEPT ![r] = "running"]
      PROVE  Stage(q)' /\ Promise(q)'
  BY <1>1, <1>3, OthersKept DEF ApiInv, TypeOK, Gone
<1>4. CASE container' = [container EXCEPT ![r] = "running"] /\ Answer(r, 200)
           /\ ask[r].body = "detached"
  <2>1. TypeOK'
    BY <1>1, <1>4, AnswerStep DEF ApiInv, TypeOK, Alive
  <2>2. Stage(r)' /\ Promise(r)'
    <3>1. at'[r] = "answered" /\ status'[r] = IF status[r] = 0 THEN 200 ELSE status[r]
      BY <1>4, AnswerStep
    <3>2. container'[r] = "running" /\ ask'[r] = ask[r]
      BY <1>1, <1>4 DEF ApiInv, TypeOK
    <3> QED BY <1>1, <1>4, <3>1, <3>2 DEF Stage, Promise
  <2> QED BY <1>3, <1>4, <2>1, <2>2, AnswerStep DEF ApiInv
<1>5. CASE /\ container' = [container EXCEPT ![r] = "running"]
           /\ at' = [at EXCEPT ![r] = "wait"] /\ UNCHANGED status
           /\ ask[r].body # "detached"
  <2>1. TypeOK'
    BY <1>1, <1>5 DEF ApiInv, TypeOK, Alive
  <2>2. Stage(r)' /\ Promise(r)'
    <3>1. at'[r] = "wait" /\ container'[r] = "running" /\ ask'[r] = ask[r]
      BY <1>1, <1>5 DEF ApiInv, TypeOK
    <3> QED BY <1>1, <1>2, <1>5, <3>1 DEF Stage, Promise
  <2>3. \A q \in Requests \ {r} : at'[q] = at[q] /\ status'[q] = status[q]
    BY <1>5 DEF ApiInv, TypeOK
  <2> QED BY <1>3, <1>5, <2>1, <2>2, <2>3 DEF ApiInv
<1>6. CASE Answer(r, 500) /\ UNCHANGED container
  <2>1. TypeOK'
    BY <1>1, <1>6, AnswerStep DEF ApiInv, TypeOK
  <2>2. Stage(r)' /\ Promise(r)'
    <3>1. at'[r] = "answered" /\ status'[r] = IF status[r] = 0 THEN 500 ELSE status[r]
      BY <1>6, AnswerStep
    <3> QED BY <1>1, <1>6, <3>1 DEF Stage, Promise
  <2> QED BY <1>3, <1>6, <2>1, <2>2, AnswerStep DEF ApiInv
<1> QED BY <1>4, <1>5, <1>6 DEF StartContainer

LEMMA RunReturnsStep ==
  ASSUME ApiInv, NEW r \in Requests, RunReturns(r)
  PROVE  ApiInv'
<1>1. /\ at[r] = "wait" /\ container[r] \in Gone
      /\ UNCHANGED <<serve, podman, ask, container>>
      /\ Answer(r, IF container[r] = "ok" THEN 200 ELSE 500)
  BY DEF RunReturns
<1>2. /\ at'[r] = "answered"
      /\ status'[r] = IF status[r] = 0
                        THEN IF container[r] = "ok" THEN 200 ELSE 500
                        ELSE status[r]
      /\ \A q \in Requests \ {r} : at'[q] = at[q] /\ status'[q] = status[q]
  BY <1>1, AnswerStep
<1>3. TypeOK'
  BY <1>1, AnswerStep DEF ApiInv, TypeOK
<1>4. Stage(r)' /\ Promise(r)'
  BY <1>1, <1>2 DEF ApiInv, Stage, Promise, Gone
<1>5. ASSUME NEW q \in Requests \ {r} PROVE Stage(q)' /\ Promise(q)'
  BY <1>1, <1>2, OthersKept
<1> QED BY <1>3, <1>4, <1>5 DEF ApiInv

LEMMA StopContainerStep ==
  ASSUME ApiInv, NEW r \in Requests, StopContainer(r)
  PROVE  ApiInv'
<1>1. /\ at[r] = "stop" /\ ask[r].route = "stop"
      /\ ask[r].id # NoId /\ container[ask[r].id] \in Alive
      /\ container' = [container EXCEPT ![ask[r].id] = "stopping"]
      /\ at' = [at EXCEPT ![r] = "stopping"]
      /\ UNCHANGED <<serve, podman, ask, status>>
  BY DEF StopContainer, ApiInv, Stage
<1>2. ask[r].id \in Requests
  <2>1. ask[r] \in Asks
    BY <1>1 DEF ApiInv, TypeOK, NoAsk
  <2> QED BY <1>1, <2>1, AskKinds
<1>3. TypeOK'
  BY <1>1, <1>2 DEF ApiInv, TypeOK, Alive
<1>4. \A p \in Requests :
        /\ container[p] \in Gone => container'[p] = container[p]
        /\ container'[p] = "none" <=> container[p] = "none"
  BY <1>1, <1>2 DEF ApiInv, TypeOK, Alive, Gone
<1>5. Stage(r)' /\ Promise(r)'
  <2>1. at'[r] = "stopping" /\ status[r] \in {0, 400}
    BY <1>1 DEF ApiInv, TypeOK, Stage
  <2>2. container'[r] = "none" <=> container[r] = "none"
    BY <1>4
  <2> QED BY <1>1, <1>2, <2>1, <2>2 DEF ApiInv, Stage, Promise
<1>6. ASSUME NEW q \in Requests \ {r} PROVE Stage(q)' /\ Promise(q)'
  BY <1>1, <1>4, <1>6, OthersKept DEF ApiInv, TypeOK
<1> QED BY <1>3, <1>5, <1>6 DEF ApiInv

LEMMA StopAnswered ==
  ASSUME ApiInv, NEW r \in Requests, StopReturns(r) \/ StopFails(r) \/ StopGivesUp(r)
  PROVE  ApiInv'
<1>1. UNCHANGED <<serve, podman, ask, container>>
  BY DEF StopReturns, StopFails, StopGivesUp
<1>2. /\ at[r] \in {"stop", "stopping"} /\ ask[r].route = "stop"
      /\ ask[r] \in Asks \cup {NoAsk} /\ status[r] \in {0, 400}
  BY DEF StopReturns, StopFails, StopGivesUp, ApiInv, Stage, TypeOK
<1>3. PICK code \in {200, 500} :
        /\ Answer(r, code)
        /\ code = 200 => ask[r].id \in Requests /\ container[ask[r].id] \in Gone
  BY DEF StopReturns, StopFails, StopGivesUp, ApiInv, Stage
<1>4. /\ at'[r] = "answered"
      /\ status'[r] = IF status[r] = 0 THEN code ELSE status[r]
      /\ \A q \in Requests \ {r} : at'[q] = at[q] /\ status'[q] = status[q]
  BY <1>3, AnswerStep
<1>5. TypeOK'
  BY <1>1, <1>3, AnswerStep DEF ApiInv, TypeOK
<1>6. ask[r].body \in {"bad", "empty", "json"}
  BY <1>2, AskKinds DEF NoAsk
<1>7. Stage(r)' /\ Promise(r)'
  BY <1>1, <1>2, <1>3, <1>4, <1>6 DEF ApiInv, Stage, Promise
<1>8. ASSUME NEW q \in Requests \ {r} PROVE Stage(q)' /\ Promise(q)'
  BY <1>1, <1>4, OthersKept
<1> QED BY <1>5, <1>7, <1>8 DEF ApiInv

-----------------------------------------------------------------------------
(* For the platform around the API.                                          *)

\* All its own steps.
LEMMA ApiStep ==
  ASSUME ApiInv, Launch \/ ApiNext \/ Exit
  PROVE  ApiInv'
<1>1. CASE Launch \/ Boot \/ Exit
  BY <1>1, ProcessStep
<1>2. ASSUME NEW r \in Requests, Receive(r) PROVE ApiInv'
  BY <1>2, ReceiveStep
<1>3. ASSUME NEW r \in Requests, Handle(r) \/ StopGivesUp(r) PROVE ApiInv'
  BY <1>3, StartContainerStep, RunReturnsStep, StopContainerStep,
     StopAnswered DEF Handle
<1>4. ASSUME NEW r \in Requests, ContainerEnds(r) PROVE ApiInv'
  BY <1>4, ContainerStep
<1> QED BY <1>1, <1>2, <1>3, <1>4 DEF ApiNext

\* Somebody else stops containers, ends them or ends the process.
LEMMA OutsideStep ==
  ASSUME ApiInv, UNCHANGED <<podman, ask, status>>,
         serve' \in {serve, "ended"},
         at' = at \/ at' = [r \in Requests |-> IF InFlight(r) THEN "cut" ELSE at[r]],
         container' \in [Requests -> {"none"} \cup Alive \cup Gone],
         \A r \in Requests :
           /\ container[r] \in {"none"} \cup Gone => container'[r] = container[r]
           /\ container[r] \in Alive => container'[r] # "none"
  PROVE  ApiInv'
<1>1. TypeOK'
  BY DEF ApiInv, TypeOK
<1>2. ASSUME NEW r \in Requests PROVE Stage(r)' /\ Promise(r)'
  <2>1. /\ at'[r] = at[r] \/ (at[r] \notin {"none", "answered"} /\ at'[r] = "cut")
        /\ container'[r] = "none" <=> container[r] = "none"
        /\ \A q \in Requests : container[q] \in Gone => container'[q] = container[q]
    BY DEF ApiInv, TypeOK, InFlight, Alive, Gone
  <2>2. Stage(r)'
    BY <2>1 DEF ApiInv, Stage
  <2>3. Promise(r)'
    BY <2>1 DEF ApiInv, Promise, Gone
  <2> QED BY <2>2, <2>3
<1> QED BY <1>1, <1>2 DEF ApiInv

\* What the API's own steps do to containers.
LEMMA ContainerMoves ==
  ASSUME ApiInv, ApiNext, NEW r \in Requests
  PROVE  \/ container'[r] = container[r]
         \/ container[r] = "none" /\ container'[r] = "running"
         \/ container[r] \in Alive /\ container'[r] \in Gone \cup {"stopping"}
<1>1. CASE Boot
  BY <1>1 DEF Boot, ReadConfig, InitFunctions, Listen, serverVars
<1>2. ASSUME NEW q \in Requests, Receive(q) \/ StopGivesUp(q) \/ RunReturns(q)
                                  \/ StopReturns(q) \/ StopFails(q)
      PROVE  container' = container
  BY <1>2 DEF Receive, StopGivesUp, RunReturns, StopReturns, StopFails
<1>3. ASSUME NEW q \in Requests, StartContainer(q)
      PROVE  \/ container'[r] = container[r]
             \/ container[r] = "none" /\ container'[r] = "running"
  BY <1>3 DEF StartContainer, ApiInv, TypeOK, Stage
<1>4. ASSUME NEW q \in Requests, ContainerEnds(q) \/ StopContainer(q)
      PROVE  \/ container'[r] = container[r]
             \/ container[r] \in Alive /\ container'[r] \in Gone \cup {"stopping"}
  BY <1>4 DEF ContainerEnds, StopContainer, ApiInv, TypeOK
<1> QED BY <1>1, <1>2, <1>3, <1>4 DEF ApiNext, Handle

\* A server that is not there serves nobody and is not started by itself.
LEMMA ServeMoves ==
  ASSUME ApiNext, serve \in {"absent", "ended"}
  PROVE  serve' = serve
BY DEF ApiNext, Boot, ReadConfig, InitFunctions, Listen, Receive, Handle,
       StartContainer, RunReturns, StopContainer, StopReturns, StopFails,
       StopGivesUp, ContainerEnds

-----------------------------------------------------------------------------
\* The invariant holds for all requests, interleaved in any way.
THEOREM ApiInvariant == Spec => []ApiInv
<1>1. ApiInv /\ [Next]_vars => ApiInv'
  <2> SUFFICES ASSUME ApiInv, [Next]_vars PROVE ApiInv'
    OBVIOUS
  <2>1. CASE Launch \/ ApiNext \/ Exit
    BY <2>1, ApiStep
  <2>2. ASSUME NEW r \in Requests, StoppedElsewhere(r) PROVE ApiInv'
    BY <2>2, ContainerStep
  <2>3. CASE UNCHANGED vars
    BY <2>3 DEF vars, ApiInv, TypeOK, Stage, Promise
  <2> QED BY <2>1, <2>2, <2>3 DEF Next
<1> QED BY ApiInit, <1>1, PTL DEF Spec

\* The state of the process, its handlers and the containers keeps its types.
THEOREM ApiType == Spec => []TypeOK
<1>1. ApiInv => TypeOK
  BY DEF ApiInv
<1> QED BY ApiInvariant, <1>1, PTL

\* What the invariant says of answers.
LEMMA AnswersTrue == ApiInv => AnswersTell
<1> SUFFICES ASSUME ApiInv, NEW r \in Requests
             PROVE /\ status[r] = 200 =>
                        /\ ask[r].body \notin {"bad", "empty"}
                        /\ ask[r].route = "stop" => container[ask[r].id] \in Gone
                        /\ ask[r].body = "attached" => container[r] = "ok"
                        /\ ask[r].body = "detached" => container[r] # "none"
                   /\ container[r] # "none" => ask[r].route = "run" /\ ask[r].body # "bad"
  BY DEF AnswersTell
<1> QED BY DEF ApiInv, Stage, Promise

\* However requests interleave and stop each other's containers, whatever
\* podman does and whenever the process exits, an answer tells the truth.
THEOREM AnswersAreTrue == Spec => []AnswersTell
BY ApiInvariant, AnswersTrue, PTL

-----------------------------------------------------------------------------
(* The safety half of HandlersReturn: what a handler waits for.              *)

\* A handler works in a server that serves; one that waits for a stop to
\* happen waits for a container that is stopping or gone; and one that waits
\* for its own container has started it.  So handlers never wait for each
\* other, only for podman, whoever stops whose container.
WaitsForPodman ==
  \A r \in Requests :
    /\ InFlight(r) => serve = "serving"
    /\ at[r] = "stopping" =>
         ask[r].id \in Requests /\ container[ask[r].id] \in {"stopping"} \cup Gone
    /\ at[r] = "wait" => container[r] \in Alive \cup Gone

\* What they wait for cannot be taken back: a container that is stopping can
\* only end, one that is gone never runs again, a handler that began to stop one
\* can only wait for that or be through, and what was answered stays answered.
StopsGoOn ==
  [][\A r \in Requests :
       /\ container[r] = "stopping" => container'[r] \in {"stopping"} \cup Gone
       /\ container[r] \in Gone => container'[r] = container[r]
       /\ at[r] \in {"stop", "stopping"} =>
            at'[r] \in {at[r], "stopping", "answered", "cut"}
       /\ at[r] \in {"answered", "cut"} => at'[r] = at[r]]_vars

\* Containers and handlers in any step.
LEMMA Moves ==
  ASSUME ApiInv, Next, NEW r \in Requests
  PROVE  /\ \/ container'[r] = container[r]
            \/ container[r] = "none" /\ container'[r] = "running"
            \/ container[r] \in Alive /\ container'[r] \in Gone \cup {"stopping"}
         /\ \/ at'[r] = at[r] /\ (InFlight(r) => ask'[r] = ask[r])
            \/ serve = "serving" /\ at[r] = "none"
               /\ at'[r] \in {"answered", "run", "stop"}
            \/ StartContainer(r) /\ at'[r] \in {"answered", "wait"}
            \/ StopContainer(r) /\ at'[r] = "stopping"
            \/ at[r] \in {"wait", "stop", "stopping"} /\ at'[r] = "answered"
            \/ InFlight(r) /\ at'[r] = "cut"
<1> USE DEF ApiInv, TypeOK
<1>1. \/ container'[r] = container[r]
      \/ container[r] = "none" /\ container'[r] = "running"
      \/ container[r] \in Alive /\ container'[r] \in Gone \cup {"stopping"}
  <2>1. CASE ApiNext
    BY <2>1, ContainerMoves
  <2>2. ASSUME NEW q \in Requests, StoppedElsewhere(q)
        PROVE  \/ container'[r] = container[r]
               \/ container[r] \in Alive /\ container'[r] = "stopping"
    BY <2>2 DEF StoppedElsewhere, Alive
  <2>3. CASE Launch \/ Exit
    BY <2>3 DEF Launch, Exit, serverVars
  <2> QED BY <2>1, <2>2, <2>3 DEF Next
<1>2. ASSUME UNCHANGED <<ask, at>>
      PROVE  at'[r] = at[r] /\ ask'[r] = ask[r]
  BY <1>2
<1>3. CASE Launch \/ Boot \/ \E q \in Requests : ContainerEnds(q) \/ StoppedElsewhere(q)
  <2>1. UNCHANGED <<ask, at>>
    BY <1>3 DEF Launch, Boot, ReadConfig, InitFunctions, Listen, serverVars,
       ContainerEnds, StoppedElsewhere
  <2> QED BY <1>1, <1>2, <2>1
<1>4. CASE Exit
  BY <1>1, <1>4 DEF Exit
<1>5. ASSUME NEW q \in Requests, Receive(q)
      PROVE  \/ at'[r] = at[r] /\ (InFlight(r) => ask'[r] = ask[r])
             \/ serve = "serving" /\ at[r] = "none"
                /\ at'[r] \in {"answered", "run", "stop"}
  <2>1. PICK a \in Asked[q] :
          /\ ask' = [ask EXCEPT ![q] = a]
          /\ at' = [at EXCEPT ![q] = IF a.body = "bad" THEN "answered" ELSE a.route]
    BY <1>5 DEF Receive
  <2>2. a \in Asks
    <3>1. Asked[q] \in SUBSET Asks
      BY ApiConstants
    <3> QED BY <2>1, <3>1
  <2>3. a.route \in {"run", "stop"}
    BY <2>2, AskKinds
  <2>4. serve = "serving" /\ at[q] = "none"
    BY <1>5 DEF Receive
  <2> QED BY <2>1, <2>3, <2>4 DEF InFlight
<1>6. ASSUME NEW q \in Requests, Handle(q) \/ StopGivesUp(q)
      PROVE  \/ at'[r] = at[r] /\ ask'[r] = ask[r]
             \/ StartContainer(r) /\ at'[r] \in {"answered", "wait"}
             \/ StopContainer(r) /\ at'[r] = "stopping"
             \/ at[r] \in {"wait", "stop", "stopping"} /\ at'[r] = "answered"
  <2>1. ask' = ask
    BY <1>6 DEF Handle, StartContainer, RunReturns, StopContainer, StopReturns,
       StopFails, StopGivesUp
  <2>2. CASE StartContainer(q)
    <3>1. at' \in {[at EXCEPT ![q] = "answered"], [at EXCEPT ![q] = "wait"]}
      BY <2>2 DEF StartContainer, Answer
    <3> QED BY <2>1, <2>2, <3>1
  <2>3. CASE StopContainer(q)
    <3>1. at' = [at EXCEPT ![q] = "stopping"]
      BY <2>3 DEF StopContainer
    <3> QED BY <2>1, <2>3, <3>1
  <2>4. CASE RunReturns(q) \/ StopReturns(q) \/ StopFails(q) \/ StopGivesUp(q)
    <3>1. at' = [at EXCEPT ![q] = "answered"] /\ at[q] \in {"wait", "stop", "stopping"}
      BY <2>4 DEF RunReturns, StopReturns, StopFails, StopGivesUp, Answer
    <3> QED BY <2>1, <3>1
  <2> QED BY <1>6, <2>2, <2>3, <2>4 DEF Handle
<1> QED BY <1>1, <1>3, <1>4, <1>5, <1>6 DEF Next, ApiNext

\* The server's way, as far as its handlers are concerned.
LEMMA ServeStays ==
  ASSUME Next, serve = "serving"
  PROVE  serve' = "serving" \/ Exit
BY DEF Next, Launch, ApiNext, Boot, ReadConfig, InitFunctions, Listen, Receive,
       Handle, StartContainer, RunReturns, StopContainer, StopReturns, StopFails,
       StopGivesUp, ContainerEnds, StoppedElsewhere

LEMMA WaitsKept ==
  ASSUME ApiInv, WaitsForPodman, Next
  PROVE  WaitsForPodman'
<1> SUFFICES ASSUME NEW r \in Requests
             PROVE  /\ InFlight(r)' => serve' = "serving"
                    /\ at'[r] = "stopping" =>
                         /\ ask'[r].id \in Requests
                         /\ container'[ask'[r].id] \in {"stopping"} \cup Gone
                    /\ at'[r] = "wait" => container'[r] \in Alive \cup Gone
  BY DEF WaitsForPodman
<1>1. ApiInv'
  BY ApiStep, ContainerStep DEF Next
<1>2. InFlight(r)' => serve' = "serving"
  <2>1. CASE Exit
    BY <2>1 DEF Exit, InFlight, ApiInv, TypeOK
  <2>2. CASE ~Exit
    <3>1. InFlight(r)' => serve = "serving"
      BY Moves DEF InFlight, WaitsForPodman, StartContainer, StopContainer
    <3> QED BY <2>2, <3>1, ServeStays
  <2> QED BY <2>1, <2>2
<1>3. at'[r] = "wait" => container'[r] \in Alive \cup Gone
  BY <1>1 DEF ApiInv, TypeOK, Stage
<1>4. ASSUME at'[r] = "stopping"
      PROVE  /\ ask'[r].id \in Requests
             /\ container'[ask'[r].id] \in {"stopping"} \cup Gone
  <2>1. CASE at[r] = "stopping"
    <3>1. ask'[r] = ask[r] /\ ask[r].id \in Requests
      BY <1>4, <2>1, Moves DEF InFlight, WaitsForPodman, StartContainer, StopContainer
    <3>2. container[ask[r].id] \in {"stopping"} \cup Gone
      BY <2>1 DEF WaitsForPodman
    <3> QED BY <3>1, <3>2, Moves DEF Alive, Gone
  <2>2. CASE StopContainer(r)
    <3>1. /\ ask' = ask /\ ask[r].id # NoId
          /\ container' = [container EXCEPT ![ask[r].id] = "stopping"]
      BY <2>2 DEF StopContainer
    <3>2. ask'[r].id \in Requests
      BY <1>1, <1>4 DEF ApiInv, Stage
    <3> QED BY <3>1, <3>2 DEF ApiInv, TypeOK
  <2> QED BY <1>4, <2>1, <2>2, Moves
<1> QED BY <1>2, <1>3, <1>4

\* WaitsForPodman, with containers stopped from outside as well and an exit at
\* any time (serve.go:80-156, functions/client.go:45-58).
THEOREM HandlersWaitForPodman == Spec => []WaitsForPodman
<1>1. Init => WaitsForPodman
  BY DEF Init, WaitsForPodman, InFlight
<1>2. ApiInv /\ WaitsForPodman /\ [Next]_vars => WaitsForPodman'
  <2>1. WaitsForPodman /\ UNCHANGED vars => WaitsForPodman'
    BY DEF WaitsForPodman, InFlight, vars
  <2> QED BY <2>1, WaitsKept
<1> QED BY <1>1, <1>2, ApiInvariant, PTL DEF Spec

\* StopsGoOn: with WaitsForPodman, a stop takes two steps of its handler and one
\* of podman, and nothing makes it begin again.
THEOREM StopsAreFinal == Spec => StopsGoOn
<1> DEFINE A(r) ==
      /\ container[r] = "stopping" => container'[r] \in {"stopping"} \cup Gone
      /\ container[r] \in Gone => container'[r] = container[r]
      /\ at[r] \in {"stop", "stopping"} =>
           at'[r] \in {at[r], "stopping", "answered", "cut"}
      /\ at[r] \in {"answered", "cut"} => at'[r] = at[r]
<1>1. ApiInv /\ [Next]_vars => [\A r \in Requests : A(r)]_vars
  <2> SUFFICES ASSUME ApiInv, Next, NEW r \in Requests PROVE A(r)
    BY DEF vars
  <2>1. A(r)!1 /\ A(r)!2
    BY Moves DEF Alive, Gone
  <2>2. A(r)!3 /\ A(r)!4
    BY Moves DEF InFlight, StartContainer, StopContainer
  <2> QED BY <2>1, <2>2
<1> QED BY <1>1, ApiInvariant, PTL DEF Spec, StopsGoOn
=============================================================================
