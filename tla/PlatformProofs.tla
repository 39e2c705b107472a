---------------------------- MODULE PlatformProofs ----------------------------
(* Theorems about Platform for any services, switches, requests and number of *)
(* runs of bin/stop.                                                          *)
EXTENDS Platform, TLAPS

ApiProofs == INSTANCE FunctionsApiProofs

Up == Running \cup {"stopping"}

\* What a run of bin/stop has achieved so far.  A container that comes up
\* meanwhile is late, so all that is up, not late and not spared is being
\* stopped.
FusionAuthGoes(p) ==
  handler[p] = "awaitFusionAuth" /\ "fusionauth" \in Services =>
    service["fusionauth"] \notin Running \/ "fusionauth" \in late
FusionAuthGone(p) ==
  handler[p] = "stopAll" =>
    Down("fusionauth") \/ "fusionauth" \in late \/ "fusionauth" \in spared[p]
RestGoes(p) ==
  handler[p] = "awaitAll" =>
    /\ \A s \in Services :
         service[s] \in Up =>
           s \in late \cup spared[p] \/ (s \in doomed[p] /\ service[s] = "stopping")
    /\ \A r \in Requests :
         container[r] \in Api!Alive =>
           r \in late \cup spared[p] \/ (r \in doomed[p] /\ container[r] = "stopping")
RestGone(p) ==
  handler[p] = "exit" =>
    /\ \A s \in Services :
         service[s] \in Up \cup {"killed"} => s \in late \cup spared[p]
    /\ \A r \in Requests : container[r] \in Api!Alive => r \in late \cup spared[p]

StopInv(p) ==
  FusionAuthGoes(p) /\ FusionAuthGone(p) /\ RestGoes(p) /\ RestGone(p)

\* Containers are killed with everything that could go on.
Dead ==
  /\ starter = "ended" /\ script = "ended" /\ serve \in {"absent", "ended"}
  /\ \A p \in Processes : handler[p] \in {"exit", "killed"}
KilledInv == (\E s \in Services : service[s] = "killed") => Dead

PInv ==
  TypeOK /\ ApiProofs!ApiInv /\ KilledInv /\ \A p \in Processes : StopInv(p)

-----------------------------------------------------------------------------
\* The instance the model uses and the one the theorems are stated in are the
\* same module with the same parameters.
LEMMA SameApi ==
  /\ Api!TypeOK <=> ApiProofs!TypeOK
  /\ (Api!TypeOK <=> ApiProofs!TypeOK)'
  /\ Api!Init => ApiProofs!Init
  /\ Api!Launch => ApiProofs!Launch
  /\ Api!Exit => ApiProofs!Exit
  /\ Api!ApiNext => ApiProofs!ApiNext
  /\ \A r : Api!InFlight(r) <=> ApiProofs!InFlight(r)
  /\ Api!Alive = ApiProofs!Alive
<1> USE DEF Api!Asks, ApiProofs!Asks, Api!NoAsk, ApiProofs!NoAsk,
        Api!Alive, ApiProofs!Alive, Api!Gone, ApiProofs!Gone,
        Api!serverVars, ApiProofs!serverVars, Api!InFlight, ApiProofs!InFlight
<1>1. Api!TypeOK <=> ApiProofs!TypeOK
  BY DEF Api!TypeOK, ApiProofs!TypeOK
<1>2. (Api!TypeOK <=> ApiProofs!TypeOK)'
  BY DEF Api!TypeOK, ApiProofs!TypeOK
<1>3. Api!Init => ApiProofs!Init
  BY DEF Api!Init, ApiProofs!Init
<1>4. Api!Launch => ApiProofs!Launch
  BY DEF Api!Launch, ApiProofs!Launch
<1>5. Api!Exit => ApiProofs!Exit
  BY DEF Api!Exit, ApiProofs!Exit
<1>6. Api!ApiNext => ApiProofs!ApiNext
  BY Zenon DEF Api!ApiNext, ApiProofs!ApiNext, Api!Boot, ApiProofs!Boot,
     Api!ReadConfig, ApiProofs!ReadConfig, Api!InitFunctions, ApiProofs!InitFunctions,
     Api!Listen, ApiProofs!Listen, Api!Receive, ApiProofs!Receive,
     Api!Handle, ApiProofs!Handle, Api!StartContainer, ApiProofs!StartContainer,
     Api!RunReturns, ApiProofs!RunReturns, Api!StopContainer, ApiProofs!StopContainer,
     Api!StopReturns, ApiProofs!StopReturns, Api!StopFails, ApiProofs!StopFails,
     Api!StopGivesUp, ApiProofs!StopGivesUp, Api!ContainerEnds, ApiProofs!ContainerEnds,
     Api!Answer, ApiProofs!Answer, Api!Written, ApiProofs!Written
<1> QED BY <1>1, <1>2, <1>3, <1>4, <1>5, <1>6

LEMMA ApiAssumptions ==
  NoId \notin Requests /\ Asked \in [Requests -> SUBSET ApiProofs!Asks]
BY PlatformConstants DEF Api!Asks, ApiProofs!Asks

LEMMA PInit == Init => PInv
<1> SUFFICES ASSUME Init PROVE PInv
  OBVIOUS
<1>1. ApiProofs!ApiInv
  BY ApiAssumptions, SameApi, ApiProofs!ApiInit DEF Init
<1>2. Api!TypeOK
  BY <1>1, SameApi DEF ApiProofs!ApiInv
<1>3. TypeOK
  BY <1>2 DEF Init, TypeOK, StartOrder, HandlerStages
<1> QED BY <1>1, <1>3
        DEF Init, PInv, KilledInv, StopInv, FusionAuthGoes, FusionAuthGone,
            RestGoes, RestGone

-----------------------------------------------------------------------------
(* The API's part.                                                           *)

\* Services and scripts leave the API alone.
LEMMA ApiAlone ==
  ASSUME ApiProofs!ApiInv, UNCHANGED apiVars
  PROVE  ApiProofs!ApiInv'
BY DEF apiVars, ApiProofs!ApiInv, ApiProofs!TypeOK, ApiProofs!Stage,
       ApiProofs!Promise

\* bin/stop stops the functions that run.
LEMMA StopAllApi ==
  ASSUME PInv, NEW p \in Processes, StopAll(p)
  PROVE  ApiProofs!ApiInv'
<1>1. ApiProofs!ApiInv
  BY DEF PInv
<1>2. /\ UNCHANGED <<serve, podman, ask, at, status>>
      /\ \E failed : container' = [r \in Requests |->
           IF container[r] = "running" /\ r \notin failed THEN "stopping" ELSE container[r]]
  BY DEF StopAll
<1>3. container \in [Requests -> {"none"} \cup ApiProofs!Alive \cup ApiProofs!Gone]
  BY <1>1 DEF ApiProofs!ApiInv, ApiProofs!TypeOK
<1>4. /\ container' \in [Requests -> {"none"} \cup ApiProofs!Alive \cup ApiProofs!Gone]
      /\ \A r \in Requests :
           /\ container[r] \in {"none"} \cup ApiProofs!Gone => container'[r] = container[r]
           /\ container[r] \in ApiProofs!Alive => container'[r] # "none"
  BY <1>2, <1>3 DEF ApiProofs!Alive, ApiProofs!Gone
<1> QED BY <1>1, <1>2, <1>4, ApiAssumptions, ApiProofs!OutsideStep

\* The functions and their server die with the image.
LEMMA StarterEndsApi ==
  ASSUME PInv, StarterEnds
  PROVE  ApiProofs!ApiInv'
<1>1. ApiProofs!ApiInv
  BY DEF PInv
<1>2. CASE UNCHANGED apiVars
  BY <1>1, <1>2, ApiAlone
<1>3. CASE ~UNCHANGED apiVars
  <2>1. /\ container' = [r \in Requests |->
             IF container[r] \in Api!Alive THEN "failed" ELSE container[r]]
        /\ at' = [r \in Requests |-> IF Api!InFlight(r) THEN "cut" ELSE at[r]]
        /\ serve' = IF serve = "absent" THEN serve ELSE "ended"
        /\ UNCHANGED <<podman, ask, status>>
    BY <1>3 DEF StarterEnds
  <2>2. at' = [r \in Requests |-> IF ApiProofs!InFlight(r) THEN "cut" ELSE at[r]]
    BY <2>1, SameApi
  <2>3. container \in [Requests -> {"none"} \cup ApiProofs!Alive \cup ApiProofs!Gone]
    BY <1>1 DEF ApiProofs!ApiInv, ApiProofs!TypeOK
  <2>4. /\ container' \in [Requests -> {"none"} \cup ApiProofs!Alive \cup ApiProofs!Gone]
        /\ \A r \in Requests :
             /\ container[r] \in {"none"} \cup ApiProofs!Gone => container'[r] = container[r]
             /\ container[r] \in ApiProofs!Alive => container'[r] # "none"
    BY <2>1, <2>3 DEF Api!Alive, ApiProofs!Alive, ApiProofs!Gone
  <2> QED BY <1>1, <2>1, <2>2, <2>4, ApiAssumptions, ApiProofs!OutsideStep
<1> QED BY <1>2, <1>3

LEMMA ApiKept ==
  ASSUME PInv, Next
  PROVE  ApiProofs!ApiInv'
<1>1. ApiProofs!ApiInv
  BY DEF PInv
<1>2. CASE Api!Launch \/ Api!ApiNext \/ Api!Exit
  <2>1. ApiProofs!Launch \/ ApiProofs!ApiNext \/ ApiProofs!Exit
    BY <1>2, SameApi
  <2> QED BY <1>1, <2>1, ApiAssumptions, ApiProofs!ApiStep
<1>3. CASE UNCHANGED apiVars
  BY <1>1, <1>3, ApiAlone
<1>4. CASE StarterEnds
  BY <1>4, StarterEndsApi
<1>5. ASSUME NEW p \in Processes, StopAll(p) PROVE ApiProofs!ApiInv'
  BY <1>5, StopAllApi
<1> QED BY <1>2, <1>3, <1>4, <1>5
        DEF Next, StartStep, Skip, RunServe, StartService, FetchKeys, ScriptEnds,
            StarterReturns, Ready, ServiceStops, ServeStep, Signal, Interrupt,
            StopStep, StopFusionAuth, FusionAuthStopped, StopGivesUp, AllStopped, HandlerExits

-----------------------------------------------------------------------------
(* What any step does to services, functions and the memory of signals.      *)

LEMMA Memory ==
  ASSUME PInv, Next
  PROVE  /\ late' \in SUBSET (Services \cup Requests)
         /\ late \subseteq late'
<1>1. late \subseteq Services \cup Requests
  BY DEF PInv, TypeOK
<1>2. ASSUME NEW s \in Services, StartService(s)
      PROVE  late' \in {late, late \cup {s}}
  BY <1>2 DEF StartService, Late
<1>3. ASSUME ServeStep
      PROVE  late' = late \/ \E new \in SUBSET Requests : late' = late \cup new
  <2> DEFINE new == {r \in Requests :
                       container[r] \notin Api!Alive /\ container'[r] \in Api!Alive}
  <2>1. late' = late \/ late' = late \cup new
    BY <1>3 DEF ServeStep, Late
  <2> QED BY <2>1
<1>4. ASSUME UNCHANGED late
      PROVE late' \in SUBSET (Services \cup Requests) /\ late \subseteq late'
  BY <1>1, <1>4
<1> QED BY <1>1, <1>2, <1>3, <1>4
        DEF Next, StartStep, Skip, RunServe, FetchKeys, ScriptEnds, StarterEnds,
            StarterReturns, Ready, ServiceStops, Signal, Interrupt, StopAll,
            StopStep, StopFusionAuth, FusionAuthStopped, StopGivesUp, AllStopped, HandlerExits

\* A service: nothing, on its way down, newly started and then late if
\* somebody has heard a signal, or killed.
ServiceMove(s) ==
  \/ service'[s] = service[s]
  \/ service[s] \in Running /\ service'[s] \in Running \cup {"stopping"}
  \/ service'[s] \in {"absent", "stopped"}
  \/ service'[s] \in Running /\ (Signalled => s \in late')
  \/ service[s] \in Up /\ service'[s] = "killed"
ServiceStates == {"absent", "stopping", "stopped", "killed"} \cup Running

\* podman stop fusionauth finds a service.
LEMMA FusionAuthFound ==
  ASSUME "fusionauth" \in Found
  PROVE  "fusionauth" \in Services /\ service["fusionauth"] \in Running \cup {"stopping"}
BY PlatformConstants DEF Found, ServiceNames, StartOrder

LEMMA ServicesMove ==
  ASSUME PInv, Next
  PROVE  /\ service' \in [Services -> ServiceStates]
         /\ \A s \in Services : ServiceMove(s)
<1>1. service \in [Services -> ServiceStates]
  BY DEF PInv, TypeOK, ServiceStates
<1> USE DEF ServiceMove, ServiceStates, Running, Up
<1>2. CASE UNCHANGED service
  BY <1>1, <1>2
<1>3. ASSUME NEW s \in Services, StartService(s)
      PROVE  service' \in [Services -> ServiceStates] /\ \A t \in Services : ServiceMove(t)
  <2>1. PICK c \in {IF s \in Awaited THEN "starting" ELSE "ready", "absent"} :
          service' = [service EXCEPT ![s] = c]
    BY <1>3 DEF StartService
  <2>2. Signalled => s \in late'
    BY <1>3 DEF StartService, Late
  <2> QED BY <1>1, <2>1, <2>2
<1>4. ASSUME NEW s \in Services, Ready(s) \/ ServiceStops(s)
      PROVE  service' \in [Services -> ServiceStates] /\ \A t \in Services : ServiceMove(t)
  BY <1>1, <1>4 DEF Ready, ServiceStops
<1>5. ASSUME NEW p \in Processes, StopFusionAuth(p)
      PROVE  service' \in [Services -> ServiceStates] /\ \A t \in Services : ServiceMove(t)
  <2>1. \/ UNCHANGED service
        \/ /\ "fusionauth" \in Services /\ service["fusionauth"] \in Up
           /\ service' = [service EXCEPT !["fusionauth"] = "stopping"]
    BY <1>5, FusionAuthFound DEF StopFusionAuth, Up
  <2> QED BY <1>1, <2>1
<1>6. ASSUME NEW p \in Processes, StopAll(p) \/ AllStopped(p)
      PROVE  service' \in [Services -> ServiceStates] /\ \A t \in Services : ServiceMove(t)
  <2>1. \/ \E failed : service' = [s \in Services |->
             IF service[s] \in Running /\ s \notin failed THEN "stopping" ELSE service[s]]
        \/ service' = [s \in Services |->
             IF service[s] = "stopped" THEN "absent" ELSE service[s]]
    BY <1>6 DEF StopAll, AllStopped
  <2> QED BY <1>1, <2>1
<1>7. CASE StarterEnds
  <2>1. \/ UNCHANGED service
        \/ service' = [s \in Services |->
             IF service[s] \in Running \cup {"stopping"} THEN "killed" ELSE service[s]]
    BY <1>7 DEF StarterEnds
  <2> QED BY <1>1, <2>1
<1> QED BY <1>2, <1>3, <1>4, <1>5, <1>6, <1>7
        DEF Next, StartStep, Skip, RunServe, FetchKeys, ScriptEnds, ServeStep,
            StarterReturns, Signal, Interrupt, StopStep, FusionAuthStopped, StopGivesUp,
            HandlerExits

\* A function's container.
FunctionMove(r) ==
  \/ container'[r] = container[r]
  \/ container[r] = "running" /\ container'[r] = "stopping"
  \/ container'[r] \notin Api!Alive
  \/ container'[r] = "running" /\ (Signalled => r \in late')

LEMMA FunctionsMove ==
  ASSUME PInv, Next, NEW r \in Requests
  PROVE  FunctionMove(r)
<1> USE DEF FunctionMove, Api!Alive
<1>1. CASE UNCHANGED container
  BY <1>1
<1>2. CASE ServeStep
  <2>1. ApiProofs!ApiInv /\ ApiProofs!ApiNext
    BY <1>2, SameApi DEF PInv, ServeStep
  <2>2. \/ container'[r] = container[r]
        \/ container[r] = "none" /\ container'[r] = "running"
        \/ container[r] \in ApiProofs!Alive
           /\ container'[r] \in ApiProofs!Gone \cup {"stopping"}
    BY <2>1, ApiAssumptions, ApiProofs!ContainerMoves
  <2>3. container[r] = "none" /\ container'[r] = "running" => (Signalled => r \in late')
    BY <1>2 DEF ServeStep, Late
  <2> QED BY <2>2, <2>3 DEF ApiProofs!Alive, ApiProofs!Gone
<1>3. ASSUME NEW p \in Processes, StopAll(p) PROVE FunctionMove(r)
  BY <1>3 DEF StopAll
<1>4. CASE StarterEnds
  <2>1. \/ UNCHANGED container
        \/ container' = [q \in Requests |->
             IF container[q] \in Api!Alive THEN "failed" ELSE container[q]]
    BY <1>4 DEF StarterEnds, apiVars
  <2> QED BY <2>1
<1>5. CASE Api!Launch \/ Api!Exit
  BY <1>5 DEF Api!Launch, Api!Exit, Api!serverVars
<1> QED BY <1>1, <1>2, <1>3, <1>4, <1>5
        DEF Next, StartStep, Skip, RunServe, StartService, FetchKeys, ScriptEnds,
            StarterReturns, Ready, ServiceStops, Signal, Interrupt, apiVars,
            StopStep, StopFusionAuth, FusionAuthStopped, StopGivesUp, AllStopped, HandlerExits

-----------------------------------------------------------------------------
(* Types.                                                                    *)

LEMMA ScriptType ==
  ASSUME PInv, Next
  PROVE  /\ off' \in Switched
         /\ starter' \in {"running", "ended"} /\ script' \in {"running", "ended"}
         /\ pos' \in 1..Len(StartOrder) + 1
         /\ jwks' \in {"none", "noKeys", "taken"}
<1> USE DEF PInv, TypeOK
<1>1. off' = off
  BY DEF Next, StartStep, Skip, RunServe, StartService, FetchKeys, ScriptEnds,
         StarterReturns, StarterEnds, Ready, ServiceStops, ServeStep, Signal,
         Interrupt, StopStep, StopFusionAuth, FusionAuthStopped, StopGivesUp, StopAll,
         AllStopped, HandlerExits
<1>2. starter' \in {starter, "ended"} /\ script' \in {script, "ended"}
  BY DEF Next, StartStep, Skip, RunServe, StartService, FetchKeys, ScriptEnds,
         StarterReturns, StarterEnds, Ready, ServiceStops, ServeStep, Signal,
         Interrupt, StopStep, StopFusionAuth, FusionAuthStopped, StopGivesUp, StopAll,
         AllStopped, HandlerExits, startVars
<1>3. pos' = pos \/ (pos <= Len(StartOrder) /\ pos' = pos + 1)
  BY DEF Next, StartStep, Skip, RunServe, StartService, FetchKeys, ScriptEnds,
         StarterReturns, StarterEnds, Ready, ServiceStops, ServeStep, Signal,
         Interrupt, StopStep, StopFusionAuth, FusionAuthStopped, StopGivesUp, StopAll,
         AllStopped, HandlerExits, startVars, At
<1>4. Len(StartOrder) = 8
  BY DEF StartOrder
<1>5. pos' \in 1..Len(StartOrder) + 1
  BY <1>3, <1>4
<1>6. Fetched \subseteq {"none", "noKeys", "taken"}
  <2>1. "fusionauth" \in Services =>
          service["fusionauth"] \in {"absent", "stopping", "stopped", "killed"} \cup Running
    OBVIOUS
  <2> QED BY <2>1 DEF Fetched, Running
<1>7. jwks' = jwks \/ jwks' \in Fetched
  BY DEF Next, StartStep, Skip, RunServe, StartService, FetchKeys, ScriptEnds,
         StarterReturns, StarterEnds, Ready, ServiceStops, ServeStep, Signal,
         Interrupt, StopStep, StopFusionAuth, FusionAuthStopped, StopGivesUp, StopAll,
         AllStopped, HandlerExits, startVars
<1> QED BY <1>1, <1>2, <1>5, <1>6, <1>7

\* A podman stop -a waits for the same containers, less those that are down.
WaitsOn(p) ==
  /\ spared'[p] = spared[p]
  /\ doomed'[p] \subseteq doomed[p]
  /\ \A s \in Services \cap doomed[p] : service'[s] = "stopping" => s \in doomed'[p]
  /\ \A r \in Requests \cap doomed[p] : container'[r] = "stopping" => r \in doomed'[p]

\* Where a step leaves the handlers, and whom the stopping commands wait for.
HandlerMove(p) ==
  \/ handler'[p] = handler[p] /\ WaitsOn(p)
  \/ Living(p) /\ handler[p] = "none" /\ handler'[p] = "stopFusionAuth"
  \/ handler[p] # "exit" /\ handler'[p] = "killed"
  \/ StopFusionAuth(p) /\ handler'[p] \in {"awaitFusionAuth", "stopAll"}
  \/ FusionAuthStopped(p) /\ handler'[p] = "stopAll"
  \/ StopAll(p) /\ handler'[p] = "awaitAll"
  \/ StopGivesUp(p) /\ handler[p] = "awaitFusionAuth" /\ handler'[p] = "stopAll"
  \/ StopGivesUp(p) /\ handler[p] = "awaitAll" /\ handler'[p] = "awaitAll"
  \/ AllStopped(p) /\ handler'[p] = "exit"

LEMMA SameWaits ==
  ASSUME NEW p \in Processes, UNCHANGED waitVars
  PROVE  WaitsOn(p)
BY DEF WaitsOn, waitVars

LEMMA DownWaits ==
  ASSUME TypeOK, NEW gone \in SUBSET (Services \cup Requests), AreDown(gone),
         UNCHANGED spared, NEW p \in Processes,
         \A s \in Services \cap gone : service'[s] # "stopping",
         \A r \in Requests \cap gone : container'[r] # "stopping"
  PROVE  WaitsOn(p)
BY DEF AreDown, WaitsOn, TypeOK

LEMMA Woken ==
  ASSUME TypeOK, NEW procs \in SUBSET Processes, Wake(procs), UNCHANGED waitVars
  PROVE  /\ handler' \in [Processes -> HandlerStages]
         /\ \A p \in Processes : HandlerMove(p)
<1> DEFINE awake == {p \in procs : Living(p) /\ handler[p] = "none"}
<1>1. handler' = [p \in Processes |->
                   IF p \in awake THEN "stopFusionAuth" ELSE handler[p]]
  BY DEF Wake
<1>2. \A p \in Processes : p \in awake => Living(p) /\ handler[p] = "none"
  OBVIOUS
<1> HIDE DEF awake
<1> QED BY <1>1, <1>2, SameWaits DEF TypeOK, HandlerStages, HandlerMove

\* One run of bin/stop goes on and leaves the others alone.
LEMMA Moved ==
  ASSUME TypeOK, NEW p \in Processes, NEW stage \in HandlerStages,
         To(p, stage) \/ (handler[p] = stage /\ UNCHANGED handler),
         doomed' = doomed \/ \E d : doomed' = [doomed EXCEPT ![p] = d],
         spared' = spared \/ \E d : spared' = [spared EXCEPT ![p] = d]
  PROVE  /\ handler' \in [Processes -> HandlerStages] /\ handler'[p] = stage
         /\ \A q \in Processes \ {p} : handler'[q] = handler[q] /\ WaitsOn(q)
<1>1. /\ handler' \in [Processes -> HandlerStages] /\ handler'[p] = stage
      /\ \A q \in Processes \ {p} : handler'[q] = handler[q]
  BY DEF TypeOK, To
<1>2. \A q \in Processes \ {p} : doomed'[q] = doomed[q] /\ spared'[q] = spared[q]
  BY DEF TypeOK
<1> QED BY <1>1, <1>2 DEF WaitsOn

\* What the commands of bin/stop remember.
LEMMA WaitTypes ==
  ASSUME PInv, Next
  PROVE  /\ doomed' \in [Processes -> SUBSET (Services \cup Requests)]
         /\ spared' \in [Processes -> SUBSET (Services \cup Requests)]
<1> DEFINE All == Services \cup Requests
<1>1. doomed \in [Processes -> SUBSET All] /\ spared \in [Processes -> SUBSET All]
  BY DEF PInv, TypeOK
<1>2. CASE UNCHANGED waitVars
  BY <1>1, <1>2 DEF waitVars
<1>3. ASSUME NEW gone, AreDown(gone), UNCHANGED spared
      PROVE  doomed' \in [Processes -> SUBSET All] /\ spared' \in [Processes -> SUBSET All]
  BY <1>1, <1>3 DEF AreDown
<1>4. ASSUME NEW p \in Processes,
             doomed' = doomed \/ \E d \in SUBSET All : doomed' = [doomed EXCEPT ![p] = d],
             spared' = spared \/ \E d \in SUBSET All : spared' = [spared EXCEPT ![p] = d]
      PROVE  doomed' \in [Processes -> SUBSET All] /\ spared' \in [Processes -> SUBSET All]
  BY <1>1, <1>4
<1>5. Found \in SUBSET All
  BY DEF Found
<1>6. ASSUME NEW p \in Processes, StopFusionAuth(p)
      PROVE  doomed' \in [Processes -> SUBSET All] /\ spared' \in [Processes -> SUBSET All]
  <2>1. doomed' = doomed
    BY <1>6 DEF StopFusionAuth
  <2>2. spared' = spared \/ spared' = [spared EXCEPT ![p] = {"fusionauth"} \cap Found]
    BY <1>6 DEF StopFusionAuth, Spare
  <2>3. {"fusionauth"} \cap Found \in SUBSET All
    BY <1>5
  <2> HIDE DEF All
  <2> QED BY <1>4, <2>1, <2>2, <2>3
<1>7. ASSUME NEW p \in Processes, StopAll(p)
      PROVE  doomed' \in [Processes -> SUBSET All] /\ spared' \in [Processes -> SUBSET All]
  <2>1. PICK failed \in SUBSET Found :
          /\ spared' = [spared EXCEPT ![p] = failed]
          /\ doomed' = [doomed EXCEPT ![p] = Found \ failed]
    BY <1>7 DEF StopAll, Spare
  <2>2. failed \in SUBSET All /\ Found \ failed \in SUBSET All
    BY <1>5
  <2> HIDE DEF All
  <2> QED BY <1>4, <2>1, <2>2
<1>8. ASSUME NEW p \in Processes, StopGivesUp(p)
      PROVE  doomed' \in [Processes -> SUBSET All] /\ spared' \in [Processes -> SUBSET All]
  <2>1. PICK d \in SUBSET All, e \in SUBSET Stubborn :
          /\ doomed' = doomed \/ doomed' = [doomed EXCEPT ![p] = d]
          /\ Spare(p, e)
    BY <1>1, <1>8 DEF StopGivesUp, Spare
  <2>2. e \in SUBSET All /\ spared' = [spared EXCEPT ![p] = e]
    BY <2>1, PlatformConstants DEF Spare
  <2> HIDE DEF All
  <2> QED BY <1>4, <2>1, <2>2
<1> QED BY <1>2, <1>3, <1>6, <1>7, <1>8
        DEF Next, StartStep, Skip, RunServe, StartService, FetchKeys, ScriptEnds,
            StarterReturns, StarterEnds, Ready, ServiceStops, ServeStep, Signal,
            Interrupt, StopStep, FusionAuthStopped, AllStopped, HandlerExits, stopVars

LEMMA HandlersMove ==
  ASSUME PInv, Next
  PROVE  /\ handler' \in [Processes -> HandlerStages]
         /\ \A p \in Processes : HandlerMove(p)
<1>1. TypeOK
  BY DEF PInv
<1>2. CASE UNCHANGED handler /\ \A p \in Processes : WaitsOn(p)
  BY <1>1, <1>2 DEF HandlerMove, TypeOK
<1>3. CASE UNCHANGED stopVars
  BY <1>2, <1>3, SameWaits DEF stopVars
<1>4. ASSUME NEW p \in Processes, Signal(p)
      PROVE  handler' \in [Processes -> HandlerStages] /\ \A q \in Processes : HandlerMove(q)
  BY <1>1, <1>4, Woken DEF Signal
<1>5. CASE Interrupt
  <2>1. Servers \in SUBSET Processes
    BY DEF Processes
  <2>2. Wake(Servers) /\ UNCHANGED waitVars
    BY <1>5 DEF Interrupt
  <2> QED BY <1>1, <2>1, <2>2, Woken
<1>6. CASE StarterEnds
  <2>1. \/ UNCHANGED handler
        \/ handler' = [p \in Processes |-> IF handler[p] = "exit" THEN "exit" ELSE "killed"]
    BY <1>6 DEF StarterEnds
  <2>2. \A p \in Processes : WaitsOn(p)
    BY <1>6, SameWaits DEF StarterEnds
  <2> QED BY <1>1, <2>1, <2>2 DEF HandlerMove, TypeOK, HandlerStages
<1>7. ASSUME NEW s \in Services, ServiceStops(s)
      PROVE  UNCHANGED handler /\ \A p \in Processes : WaitsOn(p)
  <2>1. /\ service'[s] = "stopped" /\ UNCHANGED <<handler, spared>>
        /\ AreDown({s}) /\ {s} \in SUBSET (Services \cup Requests)
    BY <1>1, <1>7 DEF ServiceStops, TypeOK
  <2>2. s \notin Requests
    BY PlatformConstants
  <2> QED BY <1>1, <2>1, <2>2, DownWaits
<1>8. CASE ServeStep
  <2> DEFINE gone == {r \in Requests : container'[r] \in Api!Gone}
  <2>1. AreDown(gone) /\ UNCHANGED <<handler, spared, service>>
    BY <1>8 DEF ServeStep
  <2>2. /\ gone \in SUBSET (Services \cup Requests) /\ Services \cap gone = {}
        /\ \A r \in Requests \cap gone : container'[r] # "stopping"
    BY PlatformConstants DEF Api!Gone
  <2> HIDE DEF gone
  <2>3. \A p \in Processes : WaitsOn(p)
    BY <1>1, <2>1, <2>2, DownWaits
  <2> QED BY <1>2, <2>1, <2>3
<1>9. ASSUME NEW p \in Processes,
             \/ StopFusionAuth(p) \/ FusionAuthStopped(p) \/ StopAll(p)
             \/ StopGivesUp(p) \/ AllStopped(p)
      PROVE  handler' \in [Processes -> HandlerStages] /\ \A q \in Processes : HandlerMove(q)
  <2>1. PICK stage \in HandlerStages :
          /\ To(p, stage) \/ (handler[p] = stage /\ UNCHANGED handler)
          /\ \/ StopFusionAuth(p) /\ stage \in {"awaitFusionAuth", "stopAll"}
             \/ FusionAuthStopped(p) /\ stage = "stopAll"
             \/ StopAll(p) /\ stage = "awaitAll"
             \/ StopGivesUp(p) /\ handler[p] = "awaitFusionAuth" /\ stage = "stopAll"
             \/ StopGivesUp(p) /\ handler[p] = "awaitAll" /\ stage = "awaitAll"
             \/ AllStopped(p) /\ stage = "exit"
    BY <1>9 DEF StopFusionAuth, FusionAuthStopped, StopAll, StopGivesUp, AllStopped,
       HandlerStages, Handling
  <2>2. doomed' = doomed \/ \E d : doomed' = [doomed EXCEPT ![p] = d]
    BY <1>9 DEF StopFusionAuth, FusionAuthStopped, StopAll, StopGivesUp, AllStopped, waitVars
  <2>3. spared' = spared \/ \E d : spared' = [spared EXCEPT ![p] = d]
    BY <1>9 DEF StopFusionAuth, FusionAuthStopped, StopAll, StopGivesUp, AllStopped,
       waitVars, Spare
  <2>4. /\ handler' \in [Processes -> HandlerStages] /\ handler'[p] = stage
        /\ \A q \in Processes \ {p} : handler'[q] = handler[q] /\ WaitsOn(q)
    BY <1>1, <2>1, <2>2, <2>3, Moved
  <2>5. HandlerMove(p)
    BY <2>1, <2>4 DEF HandlerMove
  <2> QED BY <2>4, <2>5 DEF HandlerMove
<1> QED BY <1>2, <1>3, <1>4, <1>5, <1>6, <1>7, <1>8, <1>9
        DEF Next, StartStep, Skip, RunServe, StartService, FetchKeys, ScriptEnds,
            StarterReturns, Ready, StopStep, HandlerExits

LEMMA TypeKept ==
  ASSUME PInv, Next
  PROVE  TypeOK'
<1>1. Api!TypeOK'
  BY ApiKept, SameApi DEF ApiProofs!ApiInv
<1> QED BY <1>1, ScriptType, ServicesMove, HandlersMove, WaitTypes, Memory
        DEF TypeOK, ServiceStates

-----------------------------------------------------------------------------
(* What runs of bin/stop have achieved.                                      *)

LEMMA SignalledBy ==
  ASSUME NEW p \in Processes, handler[p] # "none"
  PROVE  Signalled
BY DEF Signalled

\* A stage keeps what it has achieved while the others work.
LEMMA StageKept ==
  ASSUME PInv, Next, NEW p \in Processes,
         handler'[p] = handler[p], WaitsOn(p)
  PROVE  StopInv(p)'
<1>1. StopInv(p) /\ late \subseteq late' /\ \A s \in Services : ServiceMove(s)
  BY Memory, ServicesMove DEF PInv
<1>2. \A r \in Requests : FunctionMove(r)
  BY FunctionsMove
<1>3. handler[p] # "none" => Signalled
  BY SignalledBy
<1> USE DEF ServiceMove, FunctionMove, Running, Up, Api!Alive, WaitsOn
<1>4. FusionAuthGoes(p)'
  BY <1>1, <1>3 DEF StopInv, FusionAuthGoes
<1>5. FusionAuthGone(p)'
  BY <1>1, <1>3 DEF StopInv, FusionAuthGone, Down
<1>6. RestGoes(p)'
  <2> SUFFICES ASSUME handler[p] = "awaitAll"
               PROVE  /\ \A s \in Services : service'[s] \in Up =>
                           s \in late' \cup spared'[p] \/ (s \in doomed'[p] /\ service'[s] = "stopping")
                      /\ \A r \in Requests : container'[r] \in Api!Alive =>
                           r \in late' \cup spared'[p] \/ (r \in doomed'[p] /\ container'[r] = "stopping")
    BY DEF RestGoes
  <2>1. Signalled
    BY <1>3
  <2>2. ASSUME NEW s \in Services, service'[s] \in Up
        PROVE  s \in late' \cup spared'[p] \/ (s \in doomed'[p] /\ service'[s] = "stopping")
    <3>1. service[s] \in Up => s \in late \cup spared[p] \/ (s \in doomed[p] /\ service[s] = "stopping")
      BY <1>1 DEF StopInv, RestGoes
    <3>2. ServiceMove(s)
      BY <1>1
    <3> QED BY <1>1, <2>1, <2>2, <3>1, <3>2
  <2>3. ASSUME NEW r \in Requests, container'[r] \in Api!Alive
        PROVE  r \in late' \cup spared'[p] \/ (r \in doomed'[p] /\ container'[r] = "stopping")
    <3>1. container[r] \in Api!Alive =>
            r \in late \cup spared[p] \/ (r \in doomed[p] /\ container[r] = "stopping")
      BY <1>1 DEF StopInv, RestGoes
    <3>2. FunctionMove(r)
      BY <1>2
    <3> QED BY <1>1, <2>1, <2>3, <3>1, <3>2
  <2> QED BY <2>2, <2>3
<1>7. RestGone(p)'
  <2> SUFFICES ASSUME handler[p] = "exit"
               PROVE  /\ \A s \in Services :
                           service'[s] \in Up \cup {"killed"} => s \in late' \cup spared'[p]
                      /\ \A r \in Requests : container'[r] \in Api!Alive => r \in late' \cup spared'[p]
    BY DEF RestGone
  <2>1. Signalled
    BY <1>3
  <2>2. ASSUME NEW s \in Services, service'[s] \in Up \cup {"killed"}
        PROVE  s \in late' \cup spared'[p]
    <3>1. service[s] \in Up \cup {"killed"} => s \in late \cup spared[p]
      BY <1>1 DEF StopInv, RestGone
    <3>2. ServiceMove(s)
      BY <1>1
    <3> QED BY <1>1, <2>1, <2>2, <3>1, <3>2
  <2>3. ASSUME NEW r \in Requests, container'[r] \in Api!Alive
        PROVE  r \in late' \cup spared'[p]
    <3>1. container[r] \in Api!Alive => r \in late \cup spared[p]
      BY <1>1 DEF StopInv, RestGone
    <3>2. FunctionMove(r)
      BY <1>2
    <3> QED BY <1>1, <2>1, <2>3, <3>1, <3>2
  <2> QED BY <2>2, <2>3
<1> QED BY <1>4, <1>5, <1>6, <1>7 DEF StopInv

\* A stage achieves what the next one starts from.
LEMMA StageReached ==
  ASSUME PInv, Next, NEW p \in Processes, HandlerMove(p)
  PROVE  StopInv(p)'
<1> USE DEF StopInv, FusionAuthGoes, FusionAuthGone, RestGoes, RestGone
<1>1. StopInv(p) /\ TypeOK /\ KilledInv
  BY DEF PInv
<1>2. CASE handler'[p] = handler[p] /\ WaitsOn(p)
  BY <1>2, StageKept
<1>3. CASE handler'[p] \in {"stopFusionAuth", "killed"}
  BY <1>3
<1>4. CASE StopFusionAuth(p) /\ handler'[p] \in {"awaitFusionAuth", "stopAll"}
  <2>1. \A stage : To(p, stage) => handler'[p] = stage
    BY <1>1 DEF To, TypeOK
  <2>2. UNCHANGED late
    BY <1>4 DEF StopFusionAuth
  <2>3. CASE /\ "fusionauth" \in Found
             /\ service' = [service EXCEPT !["fusionauth"] = "stopping"]
             /\ To(p, "awaitFusionAuth")
    <3>1. handler'[p] = "awaitFusionAuth" /\ service'["fusionauth"] = "stopping"
      BY <1>1, <2>1, <2>3, FusionAuthFound DEF TypeOK
    <3> QED BY <3>1 DEF Running
  <2>4. CASE /\ To(p, "stopAll") /\ Spare(p, {"fusionauth"} \cap Found)
             /\ UNCHANGED service
    <3>1. handler'[p] = "stopAll" /\ spared'[p] = {"fusionauth"} \cap Found
      BY <1>1, <2>1, <2>4 DEF Spare, TypeOK
    <3>2. Down("fusionauth")' \/ "fusionauth" \in Found
      BY <2>4 DEF Down, Found
    <3> QED BY <3>1, <3>2
  <2> QED BY <1>4, <2>3, <2>4 DEF StopFusionAuth
<1>5. CASE FusionAuthStopped(p) /\ handler'[p] = "stopAll"
  <2>1. /\ handler[p] = "awaitFusionAuth" /\ service["fusionauth"] # "stopping"
        /\ UNCHANGED <<service, late>>
    BY <1>5 DEF FusionAuthStopped, Handling
  <2>2. "fusionauth" \in Services =>
          service["fusionauth"] \notin Running \/ "fusionauth" \in late
    BY <1>1, <2>1
  <2> QED BY <1>5, <2>1, <2>2 DEF Down
<1>6. CASE StopAll(p) /\ handler'[p] = "awaitAll"
  <2>1. PICK failed \in SUBSET Found :
        /\ Spare(p, failed)
        /\ doomed' = [doomed EXCEPT ![p] = Found \ failed]
        /\ service' = [s \in Services |->
             IF service[s] \in Running /\ s \notin failed THEN "stopping" ELSE service[s]]
        /\ container' = [r \in Requests |->
             IF container[r] = "running" /\ r \notin failed THEN "stopping" ELSE container[r]]
    BY <1>6 DEF StopAll
  <2>2. doomed'[p] = Found \ failed /\ spared'[p] = failed
    BY <1>1, <2>1 DEF TypeOK, Spare
  <2>3. ASSUME NEW s \in Services, service'[s] \in Up
        PROVE  s \in spared'[p] \/ (s \in doomed'[p] /\ service'[s] = "stopping")
    <3>1. s \in Found
      BY <2>1, <2>3 DEF Found, Up, Running
    <3> QED BY <2>1, <2>2, <2>3, <3>1 DEF Up, Running
  <2>4. ASSUME NEW r \in Requests, container'[r] \in Api!Alive
        PROVE  r \in spared'[p] \/ (r \in doomed'[p] /\ container'[r] = "stopping")
    <3>1. r \in Found
      BY <2>1, <2>4 DEF Found, Api!Alive
    <3> QED BY <2>1, <2>2, <2>4, <3>1 DEF Api!Alive
  <2> QED BY <1>6, <2>3, <2>4
<1>7. CASE StopGivesUp(p) /\ handler[p] = "awaitFusionAuth" /\ handler'[p] = "stopAll"
  <2>1. Spare(p, {"fusionauth"})
    BY <1>7 DEF StopGivesUp, Handling
  <2>2. spared'[p] = {"fusionauth"}
    BY <1>1, <2>1 DEF Spare, TypeOK
  <2> QED BY <1>7, <2>2
<1>8. CASE StopGivesUp(p) /\ handler[p] = "awaitAll" /\ handler'[p] = "awaitAll"
  <2>1. PICK c \in doomed[p] :
          /\ doomed' = [doomed EXCEPT ![p] = @ \ {c}]
          /\ Spare(p, spared[p] \cup {c})
    BY <1>8 DEF StopGivesUp, Handling
  <2>2. UNCHANGED <<service, container, late>>
    BY <1>8 DEF StopGivesUp, apiVars
  <2>3. doomed'[p] = doomed[p] \ {c} /\ spared'[p] = spared[p] \cup {c}
    BY <1>1, <2>1 DEF Spare, TypeOK
  <2>4. RestGoes(p)
    BY <1>1
  <2> QED BY <1>8, <2>2, <2>3, <2>4
<1>9. CASE AllStopped(p) /\ handler'[p] = "exit"
  <2>1. /\ handler[p] = "awaitAll" /\ doomed[p] = {}
        /\ service' = [s \in Services |->
             IF service[s] = "stopped" THEN "absent" ELSE service[s]]
        /\ UNCHANGED <<container, late, spared>>
    BY <1>9 DEF AllStopped, Handling, apiVars, waitVars
  <2>2. \A s \in Services : service[s] # "killed"
    BY <1>1, <2>1 DEF KilledInv, Dead
  <2>3. \A s \in Services : service[s] \in Up => s \in late \cup spared[p]
    BY <1>1, <2>1
  <2>4. \A r \in Requests : container[r] \in Api!Alive => r \in late \cup spared[p]
    BY <1>1, <2>1
  <2> QED BY <1>9, <2>1, <2>2, <2>3, <2>4 DEF Up, Running
<1> QED BY <1>2, <1>3, <1>4, <1>5, <1>6, <1>7, <1>8, <1>9 DEF HandlerMove

\* What dies with the image does not come back.
LEMMA DeadStays ==
  ASSUME PInv, Next
  PROVE  KilledInv'
<1>1. TypeOK
  BY DEF PInv
<1>2. ASSUME Dead PROVE Dead'
  <2>1. starter' = "ended"
    BY <1>2 DEF Dead, Next, StartStep, Skip, RunServe, StartService, FetchKeys,
       ScriptEnds, StarterReturns, StarterEnds, Ready, ServiceStops, ServeStep,
       Signal, Interrupt, StopStep, StopFusionAuth, FusionAuthStopped, StopGivesUp, StopAll,
       AllStopped, HandlerExits
  <2>2. script' = "ended"
    BY <1>2 DEF Dead, Next, StartStep, Skip, RunServe, StartService, FetchKeys,
       ScriptEnds, StarterReturns, StarterEnds, Ready, ServiceStops, ServeStep,
       Signal, Interrupt, StopStep, StopFusionAuth, FusionAuthStopped, StopGivesUp, StopAll,
       AllStopped, HandlerExits, startVars
  <2>3. serve' \in {"absent", "ended"}
    <3>1. CASE ServeStep
      <4>1. ApiProofs!ApiNext /\ serve \in {"absent", "ended"}
        BY <1>2, <3>1, SameApi DEF ServeStep, Dead
      <4> QED BY <4>1, ApiAssumptions, ApiProofs!ServeMoves
    <3> QED BY <1>2, <3>1
            DEF Dead, Next, StartStep, Skip, RunServe, StartService, FetchKeys,
                ScriptEnds, StarterReturns, StarterEnds, Ready, ServiceStops,
                Signal, Interrupt, StopStep, StopFusionAuth, FusionAuthStopped, StopGivesUp,
                StopAll, AllStopped, HandlerExits, Api!Exit, apiVars
  <2>4. ASSUME NEW p \in Processes PROVE handler'[p] \in {"exit", "killed"}
    <3>1. HandlerMove(p)
      BY HandlersMove
    <3> QED BY <1>2, <3>1
            DEF Dead, HandlerMove, StopFusionAuth, FusionAuthStopped, StopGivesUp,
                StopAll, AllStopped, Handling
  <2> QED BY <2>1, <2>2, <2>3, <2>4 DEF Dead
<1>3. ASSUME NEW s \in Services, service'[s] = "killed", service[s] # "killed"
      PROVE  Dead'
  <2>1. CASE StarterEnds
    <3>1. /\ starter' = "ended" /\ script' = "ended"
          /\ serve' = IF serve = "absent" THEN serve ELSE "ended"
          /\ handler' = [p \in Processes |->
               IF handler[p] = "exit" THEN "exit" ELSE "killed"]
      BY <1>3, <2>1 DEF StarterEnds
    <3> QED BY <1>1, <3>1 DEF Dead, TypeOK, Processes
  <2>2. ASSUME NEW t \in Services, StartService(t) \/ Ready(t) \/ ServiceStops(t)
        PROVE  FALSE
    <3>1. PICK c \in {"starting", "ready", "absent", "stopped"} :
            service' = [service EXCEPT ![t] = c]
      BY <2>2 DEF StartService, Ready, ServiceStops
    <3> QED BY <1>1, <1>3, <3>1 DEF TypeOK
  <2>3. ASSUME NEW p \in Processes, StopFusionAuth(p) PROVE FALSE
    BY <1>1, <1>3, <2>3 DEF StopFusionAuth, TypeOK
  <2>4. ASSUME NEW p \in Processes, StopAll(p) PROVE FALSE
    BY <1>1, <1>3, <2>4 DEF StopAll, TypeOK
  <2>5. ASSUME NEW p \in Processes, AllStopped(p) PROVE FALSE
    BY <1>1, <1>3, <2>5 DEF AllStopped, TypeOK
  <2> QED BY <1>3, <2>1, <2>2, <2>3, <2>4, <2>5
          DEF Next, StartStep, Skip, RunServe, FetchKeys, ScriptEnds, ServeStep,
              StarterReturns, Signal, Interrupt, StopStep, FusionAuthStopped, StopGivesUp,
              HandlerExits
<1>4. CASE \E s \in Services : service[s] = "killed"
  BY <1>2, <1>4 DEF PInv, KilledInv
<1>5. CASE \A s \in Services : service[s] # "killed"
  BY <1>3, <1>5 DEF KilledInv
<1> QED BY <1>4, <1>5

-----------------------------------------------------------------------------
\* The invariant holds of every platform.
THEOREM PlatformInvariant == Spec => []PInv
<1>1. PInv /\ [Next]_vars => PInv'
  <2> SUFFICES ASSUME PInv, [Next]_vars PROVE PInv'
    OBVIOUS
  <2>1. CASE Next
    BY <2>1, TypeKept, ApiKept, DeadStays, HandlersMove, StageReached DEF PInv
  <2>2. CASE UNCHANGED vars
    <3>1. ApiProofs!ApiInv'
      BY <2>2, ApiAlone DEF PInv, vars
    <3>2. Api!TypeOK'
      BY <3>1, SameApi DEF ApiProofs!ApiInv
    <3>3. TypeOK'
      BY <2>2, <3>2 DEF PInv, TypeOK, vars, startVars, stopVars, waitVars
    <3>4. KilledInv'
      BY <2>2 DEF PInv, KilledInv, Dead, vars, apiVars, startVars, stopVars
    <3>5. ASSUME NEW p \in Processes PROVE StopInv(p)'
      BY <2>2 DEF PInv, StopInv, FusionAuthGoes, FusionAuthGone, RestGoes,
         RestGone, Down, vars, apiVars, startVars, stopVars, waitVars
    <3> QED BY <3>1, <3>3, <3>4, <3>5 DEF PInv
  <2> QED BY <2>1, <2>2
<1> QED BY PInit, <1>1, PTL DEF Spec

\* The scripts, services, signal handlers and the API keep their types.
THEOREM PlatformType == Spec => []TypeOK
<1>1. PInv => TypeOK
  BY DEF PInv
<1> QED BY PlatformInvariant, <1>1, PTL

\* However many processes run bin/stop, whatever bin/start, serve and the
\* services do meanwhile and whatever podman fails to stop: what is left when one
\* of them is through with it was started after the first signal, or its own
\* podman stop -a has failed to stop it.
THEOREM OnlyLateSurvive == Spec => []OnlyLateLeft
<1>1. PInv => OnlyLateLeft
  BY DEF PInv, StopInv, RestGone, OnlyLateLeft, Up
<1> QED BY PlatformInvariant, <1>1, PTL

\* Postgres is never taken down under a FusionAuth that was there before, unless
\* podman failed to stop FusionAuth for the bin/stop that takes Postgres down.
THEOREM FusionAuthStopsFirst == Spec => FusionAuthFirst
<1> DEFINE Order ==
      \A s \in {"postgres"} \cap Services :
        service[s] \in Running /\ service'[s] = "stopping" =>
          \/ Down("fusionauth") \/ "fusionauth" \in late
          \/ \E p \in Processes :
               /\ handler[p] = "stopAll" /\ handler'[p] = "awaitAll"
               /\ "fusionauth" \in spared[p]
<1>1. PInv /\ [Next]_vars => Order
  <2> SUFFICES ASSUME PInv, [Next]_vars, "postgres" \in Services,
                      service["postgres"] \in Running,
                      service'["postgres"] = "stopping"
               PROVE  \/ Down("fusionauth") \/ "fusionauth" \in late
                      \/ \E p \in Processes :
                           /\ handler[p] = "stopAll" /\ handler'[p] = "awaitAll"
                           /\ "fusionauth" \in spared[p]
    OBVIOUS
  <2>1. service' # service /\ TypeOK
    BY DEF Running, PInv
  <2>2. ASSUME NEW t \in Services, StartService(t) \/ Ready(t) \/ ServiceStops(t)
        PROVE  FALSE
    <3>1. PICK c \in {"starting", "ready", "absent", "stopped"} :
            service' = [service EXCEPT ![t] = c]
      BY <2>2 DEF StartService, Ready, ServiceStops
    <3> QED BY <2>1, <3>1 DEF TypeOK, Running
  <2>3. ASSUME NEW p \in Processes, StopFusionAuth(p)
        PROVE  FALSE
    BY <2>1, <2>3 DEF StopFusionAuth, TypeOK, Running
  <2>4. ASSUME NEW p \in Processes, AllStopped(p)
        PROVE  FALSE
    BY <2>1, <2>4 DEF AllStopped, TypeOK, Running
  <2>5. CASE StarterEnds
    BY <2>1, <2>5 DEF StarterEnds, Running
  <2>6. ASSUME NEW p \in Processes, StopAll(p)
        PROVE  /\ handler[p] = "stopAll" /\ handler'[p] = "awaitAll"
               /\ \/ Down("fusionauth") \/ "fusionauth" \in late
                  \/ "fusionauth" \in spared[p]
    BY <2>1, <2>6 DEF StopAll, Handling, To, TypeOK, PInv, StopInv, FusionAuthGone
  <2> QED BY <2>1, <2>2, <2>3, <2>4, <2>5, <2>6
          DEF Next, StartStep, Skip, RunServe, FetchKeys, ScriptEnds, ServeStep,
              StarterReturns, Signal, Interrupt, StopStep, FusionAuthStopped, StopGivesUp,
              HandlerExits, vars
<1>2. Spec => [][Order]_vars
  BY PlatformInvariant, <1>1, PTL DEF Spec
<1> QED BY <1>2 DEF FusionAuthFirst

\* What FunctionsApi promises its clients holds inside a platform too, where
\* bin/stop stops all containers at once and the image's end kills them
\* (serve.go:80-156, bin/stop:5).
THEOREM PlatformAnswers == Spec => []Api!AnswersTell
<1>1. PInv => ApiProofs!AnswersTell
  BY ApiAssumptions, ApiProofs!AnswersTrue DEF PInv
<1>2. ApiProofs!AnswersTell => Api!AnswersTell
  BY DEF ApiProofs!AnswersTell, Api!AnswersTell, Api!Gone, ApiProofs!Gone
<1> QED BY PlatformInvariant, <1>1, <1>2, PTL

-----------------------------------------------------------------------------
(* The safety half of SignalEnds: what bin/stop waits for.                   *)

\* bin/start has been at the service.
Passed(s) == \E i \in 1..Len(StartOrder) : i < pos /\ StartOrder[i] = s

\* Whatever a run of bin/stop waits for is on its way down, with bin/start,
\* serve and another run of bin/stop at work beside it.
WaitsGoDown ==
  \A p \in Processes :
    /\ handler[p] = "awaitFusionAuth" =>
         "fusionauth" \in Services /\ service["fusionauth"] \notin Running
    /\ handler[p] = "awaitAll" =>
         /\ \A s \in doomed[p] \cap Services : service[s] \notin Running
         /\ \A r \in doomed[p] \cap Requests : container[r] \in {"stopping"} \cup Api!Gone

\* A service is started once, and so never again once bin/stop has found it.
DownInv ==
  /\ \A s \in Services : service[s] # "absent" => Passed(s)
  /\ \A p \in Processes :
       /\ handler[p] = "awaitFusionAuth" => Passed("fusionauth")
       /\ handler[p] = "awaitAll" => \A s \in doomed[p] \cap Services : Passed(s)
  /\ WaitsGoDown

\* Nothing that was stopped or killed comes up again, whoever stopped it, and no
\* run of bin/stop goes back to an earlier command.
StopsStand ==
  [][/\ \A s \in Services :
          service[s] \in {"stopping", "stopped", "killed"} => service'[s] \notin Running
     /\ \A r \in Requests :
          container[r] \in {"stopping"} \cup Api!Gone =>
            container'[r] \in {"stopping"} \cup Api!Gone
     /\ \A p \in Processes :
          /\ handler[p] = "stopFusionAuth" =>
               handler'[p] \in {handler[p], "awaitFusionAuth", "stopAll", "killed"}
          /\ handler[p] = "awaitFusionAuth" =>
               handler'[p] \in {handler[p], "stopAll", "killed"}
          /\ handler[p] = "stopAll" => handler'[p] \in {handler[p], "awaitAll", "killed"}
          /\ handler[p] = "awaitAll" => handler'[p] \in {handler[p], "exit", "killed"}
          /\ handler[p] \in {"exit", "killed"} => handler'[p] \in {handler[p], "killed"}
    ]_vars

LEMMA PosMoves ==
  ASSUME PInv, Next
  PROVE  /\ pos \in 1..9 /\ pos' \in {pos, pos + 1}
         /\ \A s : Passed(s) => Passed(s)'
<1>1. pos' = pos \/ pos' = pos + 1
  BY DEF Next, StartStep, Skip, RunServe, StartService, FetchKeys, ScriptEnds,
         StarterReturns, StarterEnds, Ready, ServiceStops, ServeStep, Signal,
         Interrupt, StopStep, StopFusionAuth, FusionAuthStopped, StopGivesUp, StopAll,
         AllStopped, HandlerExits, startVars
<1>2. Len(StartOrder) = 8
  BY DEF StartOrder
<1>3. pos \in 1..9
  BY <1>2 DEF PInv, TypeOK
<1>4. ASSUME NEW s, Passed(s) PROVE Passed(s)'
  BY <1>1, <1>2, <1>3, <1>4 DEF Passed
<1> QED BY <1>1, <1>3, <1>4

\* Only its own turn in bin/start brings a service up.
LEMMA OnlyStarted ==
  ASSUME PInv, Next, NEW s \in Services, service'[s] # service[s],
         service[s] = "absent" \/ (service[s] \notin Running /\ service'[s] \in Running)
  PROVE  StartService(s)
<1>1. service \in [Services -> ServiceStates]
  BY DEF PInv, TypeOK, ServiceStates
<1> USE DEF ServiceStates, Running
<1>2. ASSUME NEW t \in Services, StartService(t) PROVE StartService(s)
  <2>1. PICK c \in {"starting", "ready", "absent"} :
          service' = [service EXCEPT ![t] = c]
    BY <1>2 DEF StartService
  <2>2. s = t
    BY <1>1, <2>1
  <2> QED BY <1>2, <2>2
<1>3. ASSUME NEW t \in Services, Ready(t) \/ ServiceStops(t) PROVE FALSE
  BY <1>1, <1>3 DEF Ready, ServiceStops
<1>4. ASSUME NEW p \in Processes, StopFusionAuth(p) PROVE FALSE
  <2>1. /\ "fusionauth" \in Services /\ service["fusionauth"] \in Running \cup {"stopping"}
        /\ service' = [service EXCEPT !["fusionauth"] = "stopping"]
    BY <1>4, FusionAuthFound DEF StopFusionAuth
  <2> QED BY <1>1, <2>1
<1>5. ASSUME NEW p \in Processes, StopAll(p) PROVE FALSE
  BY <1>1, <1>5 DEF StopAll
<1>6. ASSUME NEW p \in Processes, AllStopped(p) PROVE FALSE
  BY <1>1, <1>6 DEF AllStopped
<1>7. CASE StarterEnds
  BY <1>1, <1>7 DEF StarterEnds
<1> QED BY <1>2, <1>3, <1>4, <1>5, <1>6, <1>7
        DEF Next, StartStep, Skip, RunServe, FetchKeys, ScriptEnds, ServeStep,
            StarterReturns, Signal, Interrupt, StopStep, FusionAuthStopped, StopGivesUp,
            HandlerExits

LEMMA OneTurn ==
  ASSUME NEW s, At(s), Passed(s), pos \in 1..9
  PROVE  FALSE
BY DEF At, Passed, StartOrder

LEMMA ServicesGo ==
  ASSUME PInv, DownInv, Next, NEW s \in Services
  PROVE  /\ service'[s] # "absent" => Passed(s)'
         /\ Passed(s) /\ service[s] \notin Running => service'[s] \notin Running
<1>1. pos \in 1..9 /\ (Passed(s) => Passed(s)')
  BY PosMoves
<1>2. ASSUME service'[s] # "absent" PROVE Passed(s)'
  <2>1. CASE service[s] # "absent"
    BY <1>1, <2>1 DEF DownInv
  <2>2. CASE service[s] = "absent"
    <3>1. StartService(s)
      BY <1>2, <2>2, OnlyStarted
    <3>2. StartOrder[pos] = s /\ pos <= Len(StartOrder) /\ pos' = pos + 1
      BY <3>1 DEF StartService, At
    <3> QED BY <1>1, <3>2 DEF Passed, StartOrder
  <2> QED BY <2>1, <2>2
<1>3. ASSUME Passed(s), service[s] \notin Running, service'[s] \in Running PROVE FALSE
  <2>1. StartService(s)
    BY <1>3, OnlyStarted
  <2> QED BY <1>1, <1>3, <2>1, OneTurn DEF StartService
<1> QED BY <1>2, <1>3

LEMMA FunctionsGo ==
  ASSUME PInv, Next, NEW r \in Requests, container[r] \in {"stopping"} \cup Api!Gone
  PROVE  container'[r] \in {"stopping"} \cup Api!Gone
<1> USE DEF Api!Gone, Api!Alive
<1>1. CASE ServeStep
  <2>1. ApiProofs!ApiInv /\ ApiProofs!ApiNext
    BY <1>1, SameApi DEF PInv, ServeStep
  <2>2. \/ container'[r] = container[r]
        \/ container[r] = "none" /\ container'[r] = "running"
        \/ container[r] \in ApiProofs!Alive
           /\ container'[r] \in ApiProofs!Gone \cup {"stopping"}
    BY <2>1, ApiAssumptions, ApiProofs!ContainerMoves
  <2> QED BY <2>2 DEF ApiProofs!Gone
<1>2. ASSUME NEW p \in Processes, StopAll(p)
      PROVE  container'[r] \in {"stopping"} \cup Api!Gone
  BY <1>2 DEF StopAll
<1>3. CASE StarterEnds
  <2>1. \/ UNCHANGED container
        \/ container' = [q \in Requests |->
             IF container[q] \in Api!Alive THEN "failed" ELSE container[q]]
    BY <1>3 DEF StarterEnds, apiVars
  <2> QED BY <2>1
<1>4. CASE UNCHANGED container
  BY <1>4
<1>5. CASE Api!Launch \/ Api!Exit
  BY <1>5 DEF Api!Launch, Api!Exit, Api!serverVars
<1> QED BY <1>1, <1>2, <1>3, <1>4, <1>5
        DEF Next, StartStep, Skip, RunServe, StartService, FetchKeys, ScriptEnds,
            StarterReturns, Ready, ServiceStops, Signal, Interrupt, apiVars,
            StopStep, StopFusionAuth, FusionAuthStopped, StopGivesUp, AllStopped, HandlerExits

\* What one run of bin/stop waits for after a step.
LEMMA WaitKept ==
  ASSUME PInv, DownInv, Next, NEW p \in Processes
  PROVE  /\ handler'[p] = "awaitFusionAuth" =>
              /\ "fusionauth" \in Services /\ Passed("fusionauth")'
              /\ service'["fusionauth"] \notin Running
         /\ handler'[p] = "awaitAll" =>
              /\ \A s \in doomed'[p] \cap Services : Passed(s)' /\ service'[s] \notin Running
              /\ \A r \in doomed'[p] \cap Requests :
                   container'[r] \in {"stopping"} \cup Api!Gone
<1>1. HandlerMove(p) /\ TypeOK /\ \A s : Passed(s) => Passed(s)'
  BY HandlersMove, PosMoves DEF PInv
<1>2. CASE handler'[p] = handler[p] /\ doomed'[p] \subseteq doomed[p]
  <2>1. \A s \in Services :
          Passed(s) /\ service[s] \notin Running => service'[s] \notin Running
    BY ServicesGo
  <2>2. \A r \in Requests : container[r] \in {"stopping"} \cup Api!Gone =>
          container'[r] \in {"stopping"} \cup Api!Gone
    BY FunctionsGo
  <2> QED BY <1>1, <1>2, <2>1, <2>2 DEF DownInv, WaitsGoDown
<1>3. CASE StopFusionAuth(p) /\ handler'[p] = "awaitFusionAuth"
  <2>1. /\ "fusionauth" \in Services /\ service["fusionauth"] \in Running \cup {"stopping"}
        /\ service' = [service EXCEPT !["fusionauth"] = "stopping"]
    <3>1. \A stage : To(p, stage) => handler'[p] = stage
      BY <1>1 DEF To, TypeOK
    <3> QED BY <1>3, <3>1, FusionAuthFound DEF StopFusionAuth
  <2>2. Passed("fusionauth")
    BY <2>1 DEF DownInv, Running
  <2>3. service'["fusionauth"] = "stopping"
    BY <1>1, <2>1 DEF TypeOK
  <2> QED BY <1>1, <1>3, <2>1, <2>2, <2>3 DEF Running
<1>4. CASE StopAll(p) /\ handler'[p] = "awaitAll"
  <2>1. PICK failed \in SUBSET Found :
        /\ doomed' = [doomed EXCEPT ![p] = Found \ failed]
        /\ service' = [s \in Services |->
             IF service[s] \in Running /\ s \notin failed THEN "stopping" ELSE service[s]]
        /\ container' = [r \in Requests |->
             IF container[r] = "running" /\ r \notin failed THEN "stopping" ELSE container[r]]
    BY <1>4 DEF StopAll
  <2>2. doomed'[p] = Found \ failed
    BY <1>1, <2>1 DEF TypeOK
  <2>3. Services \cap Requests = {}
    BY PlatformConstants
  <2>4. ASSUME NEW s \in doomed'[p] \cap Services
        PROVE  Passed(s)' /\ service'[s] \notin Running
    <3>1. service[s] \in Running \cup {"stopping"} /\ s \notin failed
      BY <2>2, <2>3 DEF Found
    <3>2. Passed(s)
      BY <3>1 DEF DownInv, Running
    <3> QED BY <1>1, <2>1, <3>1, <3>2 DEF Running
  <2>5. ASSUME NEW r \in doomed'[p] \cap Requests
        PROVE  container'[r] \in {"stopping"} \cup Api!Gone
    <3>1. container[r] \in Api!Alive /\ r \notin failed
      BY <2>2, <2>3 DEF Found
    <3> QED BY <2>1, <3>1 DEF Api!Alive
  <2> QED BY <1>4, <2>4, <2>5
<1>5. CASE handler'[p] \notin {"awaitFusionAuth", "awaitAll"}
  BY <1>5
<1>6. CASE StopGivesUp(p) /\ handler[p] = "awaitAll" /\ handler'[p] = "awaitAll"
  <2>1. doomed'[p] \subseteq doomed[p]
    <3>1. \E c \in doomed[p] : doomed' = [doomed EXCEPT ![p] = @ \ {c}]
      BY <1>6 DEF StopGivesUp, Handling
    <3> QED BY <1>1, <3>1 DEF TypeOK
  <2> QED BY <1>2, <1>6, <2>1
<1> QED BY <1>1, <1>2, <1>3, <1>4, <1>5, <1>6 DEF HandlerMove, WaitsOn

THEOREM DownHolds == Spec => [](PInv /\ DownInv)
<1>1. Init => DownInv
  BY DEF Init, DownInv, WaitsGoDown
<1>2. PInv /\ DownInv /\ [Next]_vars => DownInv'
  <2> SUFFICES ASSUME PInv, DownInv, [Next]_vars PROVE DownInv'
    OBVIOUS
  <2>1. CASE Next
    <3>1. \A s \in Services : service'[s] # "absent" => Passed(s)'
      BY <2>1, ServicesGo
    <3> QED BY <2>1, <3>1, WaitKept DEF DownInv, WaitsGoDown
  <2>2. CASE UNCHANGED vars
    BY <2>2 DEF DownInv, WaitsGoDown, Passed, vars, apiVars, startVars, stopVars, waitVars
  <2> QED BY <2>1, <2>2
<1> QED BY <1>1, <1>2, PlatformInvariant, PTL DEF Spec

\* WaitsGoDown: the two waits of bin/stop, podman stop fusionauth and podman
\* stop -a, are for containers that can only go down (bin/stop:3-6).
THEOREM StopsWaitForTheDoomed == Spec => []WaitsGoDown
<1>1. DownInv => WaitsGoDown
  BY DEF DownInv
<1> QED BY <1>1, DownHolds, PTL

\* StopsStand: with WaitsGoDown, a signalled process runs through bin/stop without
\* going back, and waits at most until containers that are being stopped are down
\* (main.go:33-47, bin/stop:1-6).
THEOREM StopsAreNotUndone == Spec => StopsStand
<1> DEFINE A ==
      /\ \A s \in Services :
           service[s] \in {"stopping", "stopped", "killed"} => service'[s] \notin Running
      /\ \A r \in Requests :
           container[r] \in {"stopping"} \cup Api!Gone =>
             container'[r] \in {"stopping"} \cup Api!Gone
      /\ \A p \in Processes :
           /\ handler[p] = "stopFusionAuth" =>
                handler'[p] \in {handler[p], "awaitFusionAuth", "stopAll", "killed"}
           /\ handler[p] = "awaitFusionAuth" =>
                handler'[p] \in {handler[p], "stopAll", "killed"}
           /\ handler[p] = "stopAll" => handler'[p] \in {handler[p], "awaitAll", "killed"}
           /\ handler[p] = "awaitAll" => handler'[p] \in {handler[p], "exit", "killed"}
           /\ handler[p] \in {"exit", "killed"} => handler'[p] \in {handler[p], "killed"}
<1>1. PInv /\ DownInv /\ [Next]_vars => [A]_vars
  <2> SUFFICES ASSUME PInv, DownInv, Next PROVE A
    OBVIOUS
  <2>1. ASSUME NEW s \in Services, service[s] \in {"stopping", "stopped", "killed"}
        PROVE  service'[s] \notin Running
    BY <2>1, ServicesGo DEF DownInv, Running
  <2>2. ASSUME NEW r \in Requests, container[r] \in {"stopping"} \cup Api!Gone
        PROVE  container'[r] \in {"stopping"} \cup Api!Gone
    BY <2>2, FunctionsGo
  <2>3. ASSUME NEW p \in Processes
        PROVE  /\ handler[p] = "stopFusionAuth" =>
                    handler'[p] \in {handler[p], "awaitFusionAuth", "stopAll", "killed"}
               /\ handler[p] = "awaitFusionAuth" =>
                    handler'[p] \in {handler[p], "stopAll", "killed"}
               /\ handler[p] = "stopAll" => handler'[p] \in {handler[p], "awaitAll", "killed"}
               /\ handler[p] = "awaitAll" => handler'[p] \in {handler[p], "exit", "killed"}
               /\ handler[p] \in {"exit", "killed"} => handler'[p] \in {handler[p], "killed"}
    <3>1. HandlerMove(p)
      BY HandlersMove
    <3> QED BY <3>1 DEF HandlerMove, StopFusionAuth, FusionAuthStopped, StopAll,
                        AllStopped, Handling
  <2> QED BY <2>1, <2>2, <2>3
<1> QED BY <1>1, DownHolds, PTL DEF Spec, StopsStand

-----------------------------------------------------------------------------
(* The safety half of GetsToServe: what bin/start waits for.                 *)

\* bin/start can take its next step.  StartStep is enabled where this holds.
StartCanGo ==
  \/ pos = Len(StartOrder) + 1
  \/ \E s \in ServiceNames :
       /\ At(s)
       /\ Skipped(s) \/ (Waited(s) /\ (s = "postgrest" => "taken" \in Fetched))

\* With switches that fit together, bin/start is on its way or waits for a
\* service that was started and is not ready yet, as long as nothing failed to
\* start and no signal arrived.
StartGoesOn ==
  Consistent /\ ~Lost /\ ~Signalled /\ serve = "absent" =>
    /\ script = "running"
    /\ StartCanGo \/ \E s \in Awaited \cap Services : service[s] = "starting"

\* Before the first signal nothing is stopped, and the script ends with serve.
QuietInv ==
  ~Signalled /\ serve = "absent" =>
    /\ script = "running"
    /\ \A s \in Services : service[s] \in {"absent"} \cup Running

LEMMA QuietKept ==
  ASSUME PInv, QuietInv, Next
  PROVE  QuietInv'
<1> SUFFICES ASSUME ~Signalled', serve' = "absent"
             PROVE  /\ script' = "running"
                    /\ \A s \in Services : service'[s] \in {"absent"} \cup Running
  BY DEF QuietInv
<1>1. ~Signalled
  <2>1. ASSUME NEW p \in Processes PROVE handler'[p] = "none" => handler[p] = "none"
    <3>1. HandlerMove(p)
      BY HandlersMove
    <3> QED BY <3>1 DEF HandlerMove
  <2> QED BY <2>1 DEF Signalled
<1>2. \A p \in Processes : ~StopStep(p) /\ ~StopGivesUp(p)
  BY <1>1 DEF Signalled, StopStep, StopFusionAuth, FusionAuthStopped, StopGivesUp, StopAll,
     AllStopped, HandlerExits, Handling
<1>3. ~Interrupt /\ \A p \in Processes : ~Signal(p)
  <2>1. ASSUME NEW procs \in SUBSET Processes, Wake(procs) PROVE Signalled'
    <3> DEFINE awake == {p \in procs : Living(p) /\ handler[p] = "none"}
    <3>1. awake # {} /\ handler' = [p \in Processes |->
                                   IF p \in awake THEN "stopFusionAuth" ELSE handler[p]]
      BY <2>1 DEF Wake
    <3>2. awake \subseteq Processes
      OBVIOUS
    <3> HIDE DEF awake
    <3> QED BY <3>1, <3>2 DEF Signalled
  <2> QED BY <2>1 DEF Signal, Interrupt, Processes
<1>4. CASE RunServe
  BY <1>4 DEF RunServe, Api!Launch
<1>5. CASE ServeStep
  <2>1. serve = "absent"
    <3>1. ApiProofs!ApiNext
      BY <1>5, SameApi DEF ServeStep
    <3> QED BY <3>1, ApiAssumptions
            DEF ApiProofs!ApiNext, ApiProofs!Boot, ApiProofs!ReadConfig,
                ApiProofs!InitFunctions, ApiProofs!Listen, ApiProofs!Receive,
                ApiProofs!Handle, ApiProofs!StartContainer, ApiProofs!RunReturns,
                ApiProofs!StopContainer, ApiProofs!StopReturns, ApiProofs!StopFails,
                ApiProofs!StopGivesUp, ApiProofs!ContainerEnds
  <2> QED BY <1>1, <1>5, <2>1 DEF QuietInv, ServeStep, startVars
<1>6. CASE StarterReturns
  <2>1. script = "ended" /\ serve = "absent"
    BY <1>6 DEF StarterReturns, StarterEnds, apiVars
  <2> QED BY <1>1, <2>1 DEF QuietInv
<1>7. CASE Skip \/ FetchKeys \/ ScriptEnds
           \/ \E s \in Services : StartService(s) \/ Ready(s) \/ ServiceStops(s)
  <2>1. serve' = serve
    BY <1>7 DEF Skip, FetchKeys, ScriptEnds, StartService, Ready, ServiceStops, apiVars
  <2>2. script = "running" /\ \A s \in Services : service[s] \in {"absent"} \cup Running
    BY <1>1, <2>1 DEF QuietInv
  <2>3. script' = script
    BY <1>7, <2>1
    DEF Skip, FetchKeys, ScriptEnds, StartService, Ready, ServiceStops, startVars
  <2>4. service \in [Services -> ServiceStates]
    BY DEF PInv, TypeOK, ServiceStates
  <2>5. CASE UNCHANGED service
    BY <2>2, <2>3, <2>5
  <2>6. ASSUME NEW t \in Services, StartService(t) \/ Ready(t)
        PROVE  \A s \in Services : service'[s] \in {"absent"} \cup Running
    <3>1. PICK c \in {"starting", "ready", "absent"} :
            service' = [service EXCEPT ![t] = c]
      BY <2>6 DEF StartService, Ready
    <3> QED BY <2>2, <2>4, <3>1 DEF Running
  <2>7. ASSUME NEW t \in Services, ServiceStops(t) PROVE FALSE
    BY <2>2, <2>7 DEF ServiceStops, Running
  <2> QED BY <1>7, <2>2, <2>3, <2>5, <2>6, <2>7 DEF Skip, FetchKeys, ScriptEnds
<1> QED BY <1>2, <1>3, <1>4, <1>5, <1>6, <1>7 DEF Next, StartStep

\* A service bin/start has passed without loss is coming up or ready.
LEMMA PassedIsUp ==
  ASSUME QuietInv, ~Signalled, serve = "absent", ~Lost,
         NEW s \in Services, Passed(s), ~Skipped(s)
  PROVE  service[s] \in Running
BY DEF QuietInv, Lost, Passed

LEMMA CanGo ==
  ASSUME NEW s \in ServiceNames, At(s),
         Skipped(s) \/ (Waited(s) /\ (s = "postgrest" => "taken" \in Fetched))
  PROVE  StartCanGo
BY DEF StartCanGo

LEMMA GoesOn ==
  ASSUME PInv, QuietInv, Awaited \subseteq Services
  PROVE  StartGoesOn
<1> SUFFICES ASSUME Consistent, ~Lost, ~Signalled, serve = "absent"
             PROVE  /\ script = "running"
                    /\ StartCanGo \/ \E s \in Awaited \cap Services : service[s] = "starting"
  BY DEF StartGoesOn
<1>1. script = "running"
  BY DEF QuietInv
<1>2. pos \in 1..9 /\ Len(StartOrder) = 8
  BY DEF PInv, TypeOK, StartOrder
<1>3. CASE pos = 9
  BY <1>1, <1>2, <1>3 DEF StartCanGo
<1>4. CASE pos \in 1..8
  <2>1. PICK s \in ServiceNames : s = StartOrder[pos] /\ At(s)
    BY <1>1, <1>2, <1>4 DEF ServiceNames, At
  <2>2. CASE Skipped(s) \/ s \notin {"fusionauth", "postgrest"}
    <3>1. s \notin {"fusionauth", "postgrest"} => Waited(s)
      BY DEF Waited
    <3> QED BY <1>1, <2>1, <2>2, <3>1, CanGo
  <2>3. CASE ~Skipped(s) /\ s = "fusionauth"
    <3>1. pos = 4
      BY <1>4, <2>1, <2>3 DEF StartOrder
    <3>2. Passed("postgres")
      BY <1>2, <3>1 DEF Passed, StartOrder
    <3>3. "postgres" \in Services /\ "postgres" \notin off
      BY <2>3 DEF Skipped, Consistent, Awaited
    <3>4. service["postgres"] \in Running
      BY <3>2, <3>3, PassedIsUp DEF Skipped
    <3>5. service["postgres"] = "ready" => Waited(s)
      BY <3>3 DEF Waited
    <3>6. CASE service["postgres"] = "ready"
      <4>1. StartCanGo
        BY <2>1, <2>3, <3>5, <3>6, CanGo
      <4> QED BY <1>1, <4>1
    <3>7. CASE service["postgres"] = "starting"
      BY <1>1, <3>3, <3>7 DEF Awaited
    <3> QED BY <3>4, <3>6, <3>7 DEF Running
  <2>4. CASE ~Skipped(s) /\ s = "postgrest"
    <3>1. pos = 7
      BY <1>4, <2>1, <2>4 DEF StartOrder
    <3>2. Passed("fusionauth")
      BY <1>2, <3>1 DEF Passed, StartOrder
    <3>3. "fusionauth" \in Services /\ "postgres" \notin off /\ "postgrest" \notin off
      BY <2>4 DEF Skipped, Awaited
    <3>4. "fusionauth" \in off => jwks = "taken"
      BY <3>3 DEF Consistent
    <3>5. "fusionauth" \notin off => service["fusionauth"] \in Running
      BY <3>2, <3>3, PassedIsUp DEF Skipped
    <3>6. service["fusionauth"] \in {"absent"} \cup Running
      BY <3>3 DEF QuietInv
    <3>7. "taken" \in Fetched
      BY <3>3, <3>4, <3>5, <3>6 DEF Fetched, Running
    <3>8. Waited(s)
      BY <2>4 DEF Waited
    <3> QED BY <1>1, <2>1, <3>7, <3>8, CanGo
  <2> QED BY <2>2, <2>3, <2>4
<1> QED BY <1>2, <1>3, <1>4

\* StartGoesOn, for all switches of a platform that has Postgres and FusionAuth
\* (bin/start:45-76, bin/run/fusionauth:4-12, bin/run/postgrest:4-21).
THEOREM StartNeverStuck == ASSUME Awaited \subseteq Services PROVE Spec => []StartGoesOn
<1>1. Init => QuietInv
  BY DEF Init, QuietInv
<1>2. PInv /\ QuietInv /\ [Next]_vars => QuietInv'
  <2>1. QuietInv /\ UNCHANGED vars => QuietInv'
    BY DEF QuietInv, Signalled, vars, apiVars, startVars, stopVars
  <2> QED BY <2>1, QuietKept
<1>3. PInv /\ QuietInv => StartGoesOn
  BY GoesOn
<1> QED BY <1>1, <1>2, <1>3, PlatformInvariant, PTL DEF Spec
=============================================================================
