---------------------------- MODULE FunctionsApi ----------------------------
(***************************************************************************)
(* "uberbase serve", the functions API (uberbase/cmd/uberbase/serve.go,    *)
(* pkg/functions, pkg/http): a server whose handlers, a goroutine each,    *)
(* run and stop containers with podman.  The server keeps nothing about    *)
(* them: a container is named here by the request that started it.         *)
(***************************************************************************)
CONSTANTS
  Requests,  \* requests clients make
  NoId,      \* an id no container has; also what is left of a stop request
             \* without the field containerId
  Asked      \* what each of them may ask for

VARIABLES
  serve,     \* where the serve process is
  podman,    \* fClient.binPath is set
  ask,       \* what a request asks for
  at,        \* where its handler is
  status,    \* the status of its response, 0 before one is written
  container  \* the container a run request started

vars == <<serve, podman, ask, at, status, container>>

\* Routes and what BindJSON makes of a body.  Without a body it fails with
\* io.EOF, which the handlers let pass.
Asks ==
  [route : {"run"}, body : {"bad", "empty", "attached", "detached"}, id : {NoId}]
  \cup [route : {"stop"}, body : {"bad", "empty"}, id : {NoId}]
  \cup [route : {"stop"}, body : {"json"}, id : Requests \cup {NoId}]
NoAsk == [route |-> "none", body |-> "empty", id |-> NoId]

ASSUME ApiConstants == NoId \notin Requests /\ Asked \in [Requests -> SUBSET Asks]

Alive == {"running", "stopping"}
Gone == {"ok", "failed"}         \* exited with status zero or not, removed

TypeOK ==
  /\ serve \in {"absent", "config", "init", "listen", "serving", "ended"}
  /\ podman \in BOOLEAN
  /\ ask \in [Requests -> Asks \cup {NoAsk}]
  /\ at \in [Requests -> {"none", "run", "wait", "stop", "stopping",
                          "answered", "cut"}]
  /\ status \in [Requests -> {0, 200, 400, 500}]
  /\ container \in [Requests -> {"none"} \cup Alive \cup Gone]

Init ==
  /\ serve = "absent"
  /\ podman = FALSE
  /\ ask = [r \in Requests |-> NoAsk]
  /\ at = [r \in Requests |-> "none"]
  /\ status = [r \in Requests |-> 0]
  /\ container = [r \in Requests |-> "none"]

-----------------------------------------------------------------------------
(* The process.                                                            *)

serverVars == <<podman, ask, at, status, container>>

Launch ==
  /\ serve = "absent"
  /\ serve' = "config"
  /\ UNCHANGED serverVars

\* A file that cannot be read is parsed as an empty one, which is not JSON.
ReadConfig ==
  /\ serve = "config"
  /\ serve' \in {"init", "ended"}
  /\ UNCHANGED serverVars

\* Init goes on whatever fails: a runtime that is not found is logged, and
\* every later command then runs the empty path; so are failing builds, the
\* login and pulls.
InitFunctions ==
  /\ serve = "init"
  /\ podman' \in BOOLEAN
  /\ serve' = "listen"
  /\ UNCHANGED <<ask, at, status, container>>

\* An error of ListenAndServe is logged as well: Start returns, and so do
\* RunE and main.
Listen ==
  /\ serve = "listen"
  /\ serve' \in {"serving", "ended"}
  /\ UNCHANGED serverVars

InFlight(r) == at[r] \notin {"none", "answered", "cut"}

\* The process exits under its handlers: their clients lose the connection,
\* the containers go on.
Exit ==
  /\ serve \notin {"absent", "ended"}
  /\ serve' = "ended"
  /\ at' = [r \in Requests |-> IF InFlight(r) THEN "cut" ELSE at[r]]
  /\ UNCHANGED <<podman, ask, status, container>>

-----------------------------------------------------------------------------
(* The handlers.                                                           *)

\* Mutation of Written: an error is answered with the exit status of podman.
WrittenExit(r, code) ==
  IF status[r] = 0 THEN IF code = 500 THEN 125 ELSE code ELSE status[r]

\* The header of a response is written once: a later status is dropped.
Written(r, code) == IF status[r] = 0 THEN code ELSE status[r]
Answer(r, code) ==
  /\ status' = [status EXCEPT ![r] = Written(r, code)]
  /\ at' = [at EXCEPT ![r] = "answered"]

\* BindJSON answers every error with 400 itself, io.EOF included; the handler
\* returns on the others only.  A request names a container it has heard of.
Receive(r) ==
  /\ serve = "serving" /\ at[r] = "none"
  /\ \E a \in Asked[r] :
       /\ a.id # NoId => container[a.id] # "none"
       /\ ask' = [ask EXCEPT ![r] = a]
       /\ at' = [at EXCEPT ![r] = IF a.body = "bad" THEN "answered" ELSE a.route]
       /\ status' = [status EXCEPT ![r] = IF a.body \in {"bad", "empty"} THEN 400 ELSE 0]
  /\ UNCHANGED <<serve, podman, container>>

\* Mutation of StartContainer: the answer does not wait for the container.
StartAndAnswer(r) ==
  /\ at[r] = "run"
  /\ \/ /\ podman
        /\ container' = [container EXCEPT ![r] = "running"]
        /\ Answer(r, 200)
     \/ Answer(r, 500) /\ UNCHANGED container
  /\ UNCHANGED <<serve, podman, ask>>

\* functionHandler's podman run, which fails without a trace or starts a
\* container; with -d that is all, otherwise the handler waits for its end.
StartContainer(r) ==
  /\ at[r] = "run"
  /\ \/ /\ podman
        /\ container' = [container EXCEPT ![r] = "running"]
        /\ \/ ask[r].body = "detached" /\ Answer(r, 200)
           \/ /\ ask[r].body # "detached"
              /\ at' = [at EXCEPT ![r] = "wait"]
              /\ UNCHANGED status
     \/ Answer(r, 500) /\ UNCHANGED container
  /\ UNCHANGED <<serve, podman, ask>>

\* A container ends by itself or because it is stopped (at the latest when
\* podman kills it); --rm removes it.
ContainerEnds(r) ==
  /\ container[r] \in Alive
  /\ \E c \in Gone : container' = [container EXCEPT ![r] = c]
  /\ UNCHANGED <<serve, podman, ask, at, status>>

StoppedEnds(r) == container[r] = "stopping" /\ ContainerEnds(r)

\* Mutation of RunReturns: a function that failed is not answered.
RunReturnsWell(r) ==
  /\ at[r] = "wait" /\ container[r] = "ok"
  /\ Answer(r, 200)
  /\ UNCHANGED <<serve, podman, ask, container>>

RunReturns(r) ==
  /\ at[r] = "wait" /\ container[r] \in Gone
  /\ Answer(r, IF container[r] = "ok" THEN 200 ELSE 500)
  /\ UNCHANGED <<serve, podman, ask, container>>

\* stopHandler's podman stop of a container that is there.
StopContainer(r) ==
  /\ at[r] = "stop" /\ podman
  /\ ask[r].id # NoId /\ container[ask[r].id] \in Alive
  /\ container' = [container EXCEPT ![ask[r].id] = "stopping"]
  /\ at' = [at EXCEPT ![r] = "stopping"]
  /\ UNCHANGED <<serve, podman, ask, status>>

StopReturns(r) ==
  /\ at[r] = "stopping" /\ container[ask[r].id] \in Gone
  /\ Answer(r, 200)
  /\ UNCHANGED <<serve, podman, ask, container>>

\* podman stop fails at once: no such container, no podman.
StopFails(r) ==
  /\ at[r] = "stop"
  /\ Answer(r, 500)
  /\ UNCHANGED <<serve, podman, ask, container>>

\* podman stop may give up later, for reasons of its own.
StopGivesUp(r) ==
  /\ serve = "serving" /\ at[r] = "stopping"
  /\ Answer(r, 500)
  /\ UNCHANGED <<serve, podman, ask, container>>

Handle(r) ==
  /\ serve = "serving"
  /\ \/ StartContainer(r) \/ RunReturns(r)
     \/ StopContainer(r) \/ StopReturns(r) \/ StopFails(r)
Boot == ReadConfig \/ InitFunctions \/ Listen

ApiNext ==
  \/ Boot
  \/ \E r \in Requests :
       Receive(r) \/ Handle(r) \/ StopGivesUp(r) \/ ContainerEnds(r)

\* The component by itself: somebody else, such as bin/stop, may stop
\* containers too, and the process may exit at any time.
StoppedElsewhere(r) ==
  /\ container[r] = "running"
  /\ container' = [container EXCEPT ![r] = "stopping"]
  /\ UNCHANGED <<serve, podman, ask, at, status>>

Next == Launch \/ ApiNext \/ Exit \/ \E r \in Requests : StoppedElsewhere(r)

Spec == Init /\ [][Next]_vars
\* Handlers run on and podman kills what does not stop in time; a function
\* may run for ever.
FairSpec ==
  /\ Spec
  /\ \A r \in Requests : WF_vars(Handle(r)) /\ WF_vars(StoppedEnds(r))

-----------------------------------------------------------------------------
\* What a client may conclude from a response (serve.go:80-156), with other
\* clients stopping its container meanwhile: success of a run means that the
\* container ended well or, detached, that it was started; success of a stop
\* means that the container is gone; and a refused body, unlike an empty one,
\* started nothing.
AnswersTell ==
  \A r \in Requests :
    /\ status[r] = 200 =>
         /\ ask[r].body \notin {"bad", "empty"}
         /\ ask[r].route = "stop" => container[ask[r].id] \in Gone
         /\ ask[r].body = "attached" => container[r] = "ok"
         /\ ask[r].body = "detached" => container[r] # "none"
    /\ container[r] # "none" => ask[r].route = "run" /\ ask[r].body # "bad"

\* Every stop is answered, and so is an attached run whose container somebody
\* stops, unless the process exits: the handlers wait for each other's
\* containers, with no timeout of their own (client.go:45-58).
HandlersReturn ==
  \A r \in Requests :
    (\/ at[r] \in {"stop", "stopping"}
     \/ at[r] = "wait" /\ container[r] = "stopping")
      ~> (at[r] \in {"answered", "cut"})
=============================================================================
