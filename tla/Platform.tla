------------------------------ MODULE Platform ------------------------------
(***************************************************************************)
(* The life of a platform: "uberbase start" runs bin/start, which starts   *)
(* the services one by one and ends in "uberbase serve" (FunctionsApi).    *)
(* Both uberbase processes answer their first SIGINT or SIGTERM with       *)
(* bin/stop, beside whatever they and the script are doing, and exit.      *)
(* "uberbase stop" runs bin/stop too.                                      *)
(* In its image "uberbase start" is the container's first process:         *)
(* everything else dies with it.  On a bare host it goes on, bin/stop too. *)
(***************************************************************************)
EXTENDS Naturals, Sequences, FiniteSets

CONSTANTS
  Requests, NoId, Asked,
  Services,   \* the services of bin/start in this instance
  MaxStops,   \* bound: how often bin/stop is run
  Stubborn,   \* bound: the containers podman stop may fail to stop
  Switched    \* sets of services the UBERBASE_DISABLE_ variables switch off

\* The order of bin/start.
StartOrder == <<"vault", "registry", "postgres", "fusionauth", "redis",
                "minio", "postgrest", "traefik">>
ServiceNames == {StartOrder[i] : i \in 1..Len(StartOrder)}

VARIABLES
  serve, podman, ask, at, status, container,  \* FunctionsApi
  off,       \* services switched off
  starter,   \* the process "uberbase start"
  script,    \* bin/start
  pos,       \* the service of bin/start the script is at
  service,   \* the containers of the services
  jwks,      \* jwks.json in PostgREST's storage
  handler,   \* where the signal handlers of the processes are
  doomed,    \* the containers the podman stop -a of each still waits for
  spared,    \* the containers the last podman stop of each failed to stop
  late       \* containers started after the first signal

apiVars == <<serve, podman, ask, at, status, container>>
startVars == <<script, pos, jwks>>
waitVars == <<doomed, spared>>
stopVars == <<handler, waitVars>>
vars == <<apiVars, off, starter, startVars, service, stopVars, late>>

Api == INSTANCE FunctionsApi

ASSUME PlatformConstants ==
  /\ NoId \notin Requests /\ Asked \in [Requests -> SUBSET Api!Asks]
  /\ Services \subseteq ServiceNames
  /\ Requests \cap ServiceNames = {}
  /\ MaxStops \in Nat /\ Stubborn \subseteq Services \cup Requests
  /\ Switched \subseteq SUBSET (Services \ {"vault", "registry"})

Servers == {"start", "serve"}
Processes == Servers \cup {"stop"}      \* with "uberbase stop"
Running == {"starting", "ready"}
Awaited == {"postgres", "fusionauth"}   \* readiness matters to a later script
HandlerStages == {"none", "stopFusionAuth", "awaitFusionAuth", "stopAll",
                  "awaitAll", "exit", "killed"}

TypeOK ==
  /\ Api!TypeOK
  /\ off \in Switched
  /\ starter \in {"running", "ended"} /\ script \in {"running", "ended"}
  /\ pos \in 1..Len(StartOrder) + 1
  /\ service \in [Services -> {"absent", "stopping", "stopped", "killed"} \cup Running]
  /\ jwks \in {"none", "noKeys", "taken"}
  /\ handler \in [Processes -> HandlerStages]
  /\ doomed \in [Processes -> SUBSET (Services \cup Requests)]
  /\ spared \in [Processes -> SUBSET (Services \cup Requests)]
  /\ late \subseteq Services \cup Requests

\* jwks.json may be left from an earlier start.
Init ==
  /\ Api!Init
  /\ off \in Switched
  /\ starter = "running" /\ script = "running"
  /\ pos = 1
  /\ service = [s \in Services |-> "absent"]
  /\ jwks \in {"none", "taken"}
  /\ handler = [p \in Processes |-> "none"]
  /\ doomed = [p \in Processes |-> {}] /\ spared = [p \in Processes |-> {}]
  /\ late = {}

-----------------------------------------------------------------------------
(* bin/start.                                                              *)

Signalled == \E p \in Processes : handler[p] # "none"
Late(new) == late' = IF Signalled THEN late \cup new ELSE late

At(s) ==
  /\ script = "running"
  /\ pos <= Len(StartOrder) /\ StartOrder[pos] = s

\* A service without its own run script in this instance, or switched off.
\* PostgREST needs Postgres too; FusionAuth is only built with Postgres, but
\* run without.
Skipped(s) ==
  \/ s \notin Services \/ s \in off
  \/ s = "postgrest" /\ "postgres" \in off

\* jwks.json after a turn of wait_for_jwks: curl keeps the old file if nobody
\* answers, and any page of a FusionAuth that is starting replaces it.  A page
\* that is not JSON is "taken" like keys: jq prints nothing, not "null".
Fetched ==
  CASE "fusionauth" \notin Services -> {jwks}
    [] "fusionauth" \in Services ->
         CASE service["fusionauth"] = "ready" -> {"taken"}
           [] service["fusionauth"] = "starting" -> {jwks, "noKeys", "taken"}
           [] service["fusionauth"] \notin Running -> {jwks}

\* Mutation of Waited: FusionAuth waits for PostgREST's keys as well.
WaitedForKeys(s) ==
  s = "fusionauth" =>
    /\ "postgres" \in Services
    /\ service["postgres"] = "ready" /\ jwks = "taken"

\* wait_for_postgres: pg_isready in its container.
Waited(s) ==
  s = "fusionauth" =>
    "postgres" \in Services /\ service["postgres"] = "ready"

\* A turn of wait_for_jwks that is not the last.
FetchKeys ==
  /\ At("postgrest") /\ ~Skipped("postgrest")
  /\ jwks' \in Fetched
  /\ UNCHANGED <<apiVars, off, starter, script, pos, service, stopVars, late>>

\* Mutation of Skip: the next service is skipped as well.
SkipTwo ==
  /\ \E s \in ServiceNames : At(s) /\ Skipped(s)
  /\ pos' = pos + 2
  /\ UNCHANGED <<apiVars, off, starter, script, jwks, service, stopVars, late>>

Skip ==
  /\ \E s \in ServiceNames : At(s) /\ Skipped(s)
  /\ pos' = pos + 1
  /\ UNCHANGED <<apiVars, off, starter, script, jwks, service, stopVars, late>>

\* podman run -d --replace; if it fails, the script says "done" all the same.
StartService(s) ==
  /\ At(s) /\ ~Skipped(s) /\ Waited(s)
  /\ \E j \in Fetched :
       /\ s = "postgrest" => j = "taken"
       /\ jwks' = IF s = "postgrest" THEN j ELSE jwks
  /\ \E c \in {IF s \in Awaited THEN "starting" ELSE "ready", "absent"} :
       service' = [service EXCEPT ![s] = c]
  /\ pos' = pos + 1
  /\ Late({s})
  /\ UNCHANGED <<apiVars, off, starter, script, stopVars>>

Ready(s) ==
  /\ service[s] = "starting"
  /\ service' = [service EXCEPT ![s] = "ready"]
  /\ UNCHANGED <<apiVars, off, starter, startVars, stopVars, late>>

RunServe ==
  /\ script = "running" /\ pos = Len(StartOrder) + 1
  /\ Api!Launch
  /\ UNCHANGED <<off, starter, startVars, service, stopVars, late>>

ScriptEnds ==
  /\ script = "running" /\ serve = "ended"
  /\ script' = "ended"
  /\ UNCHANGED <<apiVars, off, starter, pos, jwks, service, stopVars, late>>

\* No podman stop -a waits for these any more.
AreDown(containers) ==
  doomed' = [p \in Processes |-> doomed[p] \ containers]

\* The functions API goes on with its own steps.
ServeStep ==
  /\ Api!ApiNext
  /\ Late({r \in Requests : container[r] \notin Api!Alive /\ container'[r] \in Api!Alive})
  /\ AreDown({r \in Requests : container'[r] \in Api!Gone})
  /\ UNCHANGED <<off, starter, startVars, service, handler, spared>>

-----------------------------------------------------------------------------
(* Signals and bin/stop.                                                   *)

Living(p) ==
  CASE p = "start" -> starter = "running"
    [] p = "serve" -> serve \notin {"absent", "ended"}
    [] p = "stop" -> handler["stop"] \notin {"exit", "killed"}

\* The handler goroutine reads one signal; later ones stay in the channel.
Stopping == {p \in Processes : handler[p] \notin {"none", "killed"}}
Wake(procs) ==
  LET awake == {p \in procs : Living(p) /\ handler[p] = "none"} IN
  /\ awake # {}
  /\ Cardinality(Stopping \cup awake) <= MaxStops
  /\ handler' = [p \in Processes |->
                  IF p \in awake THEN "stopFusionAuth" ELSE handler[p]]

\* SIGTERM to one process, or "uberbase stop", which runs bin/stop itself.
Signal(p) ==
  /\ Wake({p})
  /\ UNCHANGED <<apiVars, off, starter, startVars, service, waitVars, late>>

\* Ctrl-C in the terminal reaches the script as well, which dies with the
\* command it is running unless that is serve.
Interrupt ==
  /\ starter = "running" /\ script = "running"
  /\ Wake(Servers)
  /\ script' = IF serve = "absent" THEN "ended" ELSE script
  /\ UNCHANGED <<apiVars, off, starter, pos, jwks, service, waitVars, late>>

\* bin/stop goes on by itself if the process that runs it returns from main.
Handling(p, stage) == handler[p] = stage
To(p, stage) == handler' = [handler EXCEPT ![p] = stage]

\* The containers podman finds up.
Found ==
  {s \in Services : service[s] \in Running \cup {"stopping"}}
  \cup {r \in Requests : container[r] \in Api!Alive}

\* The last podman stop of p fails to stop these.
Spare(p, containers) ==
  /\ containers \subseteq Stubborn
  /\ spared' = [spared EXCEPT ![p] = containers]

\* Mutation of StopFusionAuth: bin/stop without its first command.
StopFusionAuthNot(p) ==
  /\ Handling(p, "stopFusionAuth")
  /\ To(p, "stopAll")
  /\ UNCHANGED <<apiVars, off, starter, startVars, service, waitVars, late>>

\* podman stop fusionauth.  Without such a container it fails, and it may fail
\* with one: the script does not look at the exit status and goes on.
StopFusionAuth(p) ==
  /\ Handling(p, "stopFusionAuth")
  /\ \/ /\ "fusionauth" \in Found
        /\ service' = [service EXCEPT !["fusionauth"] = "stopping"]
        /\ To(p, "awaitFusionAuth")
        /\ UNCHANGED spared
     \/ /\ To(p, "stopAll")
        /\ Spare(p, {"fusionauth"} \cap Found)
        /\ UNCHANGED service
  /\ UNCHANGED <<apiVars, off, starter, startVars, doomed, late>>

FusionAuthStopped(p) ==
  /\ Handling(p, "awaitFusionAuth")
  /\ service["fusionauth"] # "stopping"
  /\ To(p, "stopAll")
  /\ UNCHANGED <<apiVars, off, starter, startVars, service, waitVars, late>>

\* podman stop -a: the containers there are now, services and functions, except
\* those it fails to stop.
StopAll(p) ==
  /\ Handling(p, "stopAll")
  /\ \E failed \in SUBSET Found :
       /\ Spare(p, failed)
       /\ doomed' = [doomed EXCEPT ![p] = Found \ failed]
       /\ service' = [s \in Services |->
            IF service[s] \in Running /\ s \notin failed THEN "stopping" ELSE service[s]]
       /\ container' = [r \in Requests |->
            IF container[r] = "running" /\ r \notin failed THEN "stopping" ELSE container[r]]
  /\ To(p, "awaitAll")
  /\ UNCHANGED <<serve, podman, ask, at, status, off, starter, startVars, late>>

\* podman gives a container up that it is stopping, and goes on with the others.
StopGivesUp(p) ==
  /\ \/ /\ Handling(p, "awaitFusionAuth") /\ service["fusionauth"] = "stopping"
        /\ To(p, "stopAll")
        /\ Spare(p, {"fusionauth"})
        /\ UNCHANGED doomed
     \/ /\ Handling(p, "awaitAll")
        /\ \E c \in doomed[p] :
             /\ doomed' = [doomed EXCEPT ![p] = @ \ {c}]
             /\ Spare(p, spared[p] \cup {c})
        /\ UNCHANGED handler
  /\ UNCHANGED <<apiVars, off, starter, startVars, service, late>>

ServiceStops(s) ==
  /\ service[s] = "stopping"
  /\ service' = [service EXCEPT ![s] = "stopped"]
  /\ AreDown({s})
  /\ UNCHANGED <<apiVars, off, starter, startVars, handler, spared, late>>

\* Mutation of AllStopped: the command does not wait.
AllStoppedSoon(p) ==
  /\ Handling(p, "awaitAll")
  /\ To(p, "exit")
  /\ UNCHANGED <<apiVars, off, starter, startVars, service, waitVars, late>>

\* Mutation of AllStopped: the handler waits until nothing runs at all.
AllStoppedEver(p) ==
  /\ Handling(p, "awaitAll")
  /\ \A s \in Services : service[s] \notin Running \cup {"stopping"}
  /\ \A r \in Requests : container[r] \notin Api!Alive
  /\ To(p, "exit")
  /\ UNCHANGED <<apiVars, off, starter, startVars, service, waitVars, late>>

\* podman stop -a is through with all it found, and podman rm -a removes what
\* is stopped by now (it complains about the rest).
AllStopped(p) ==
  /\ Handling(p, "awaitAll")
  /\ doomed[p] = {}
  /\ To(p, "exit")
  /\ service' = [s \in Services |->
                  IF service[s] = "stopped" THEN "absent" ELSE service[s]]
  /\ UNCHANGED <<apiVars, off, starter, startVars, waitVars, late>>

\* The end of "uberbase start", with all that dies with it in its image, or
\* with nothing on a bare host.
StarterEnds ==
  /\ starter = "running"
  /\ starter' = "ended"
  /\ \/ /\ script' = "ended"
        /\ service' = [s \in Services |->
             IF service[s] \in Running \cup {"stopping"} THEN "killed" ELSE service[s]]
        /\ container' = [r \in Requests |->
             IF container[r] \in Api!Alive THEN "failed" ELSE container[r]]
        /\ at' = [r \in Requests |-> IF Api!InFlight(r) THEN "cut" ELSE at[r]]
        /\ serve' = IF serve = "absent" THEN serve ELSE "ended"
        /\ handler' = [p \in Processes |->
             IF handler[p] = "exit" THEN "exit" ELSE "killed"]
        /\ UNCHANGED <<podman, ask, status>>
     \/ UNCHANGED <<apiVars, script, service, handler>>
  /\ UNCHANGED <<off, pos, jwks, waitVars, late>>

\* os.Exit(0) of a handler.
HandlerExits(p) ==
  /\ Living(p) /\ handler[p] = "exit"
  /\ \/ p = "start" /\ StarterEnds
     \/ /\ p = "serve" /\ Api!Exit
        /\ UNCHANGED <<off, starter, startVars, service, stopVars, late>>

\* startCmd.Run returns, and main with it.
StarterReturns == script = "ended" /\ StarterEnds

StopStep(p) ==
  \/ StopFusionAuth(p) \/ FusionAuthStopped(p) \/ StopAll(p) \/ AllStopped(p)
  \/ HandlerExits(p)

StartStep == Skip \/ RunServe \/ \E s \in Services : StartService(s)

Next ==
  \/ StartStep \/ FetchKeys \/ ScriptEnds \/ StarterReturns
  \/ \E s \in Services : Ready(s) \/ ServiceStops(s)
  \/ ServeStep
  \/ \E p \in Processes : Signal(p) \/ StopStep(p) \/ StopGivesUp(p)
  \/ Interrupt

Spec == Init /\ [][Next]_vars

\* What happens by itself: the scripts, handlers and processes run on while
\* they can, podman kills what does not stop in time, and a service that was
\* started gets ready.
Automatic ==
  \/ StartStep \/ ScriptEnds \/ StarterReturns
  \/ \E s \in Services : Ready(s) \/ ServiceStops(s)
  \/ \E p \in Processes : StopStep(p)
  \/ /\ \E r \in Requests : Api!Handle(r) \/ Api!StoppedEnds(r)
     /\ ServeStep
\* Nobody has to send requests or signals, no podman stop has to give up, and a
\* function may run for ever.
\* Automatic steps never undo each other, so one condition gives all of them
\* their turn.
FairSpec == Spec /\ WF_vars(Automatic)

-----------------------------------------------------------------------------
\* A bin/stop that comes to its end has stopped every container that was started
\* before the first signal, except those its own podman stop -a failed to stop,
\* with the other handler, serve and bin/start at work beside it, and also as an
\* orphan: what else is left then, or is killed with the process, was started
\* while bin/stop was running, by bin/start, which nobody tells, or by a request,
\* which serve still accepts (main.go:34-47, bin/stop:5).
OnlyLateLeft ==
  \A p \in Processes : handler[p] = "exit" =>
    /\ \A s \in Services :
         service[s] \in Running \cup {"stopping", "killed"} => s \in late \cup spared[p]
    /\ \A r \in Requests : container[r] \in Api!Alive => r \in late \cup spared[p]

Down(s) == s \in Services => service[s] \notin Running \cup {"stopping"}

\* "fusionauth first" (bin/stop:3): bin/stop takes Postgres down only when
\* FusionAuth is down, with two handlers at work too. A FusionAuth that bin/start
\* starts beside bin/stop can outlive Postgres, and so can one that the podman
\* stop fusionauth of the same bin/stop failed to stop, for the script goes on.
FusionAuthFirst ==
  [][\A s \in {"postgres"} \cap Services :
       service[s] \in Running /\ service'[s] = "stopping" =>
         \/ Down("fusionauth") \/ "fusionauth" \in late
         \/ \E p \in Processes :
              /\ handler[p] = "stopAll" /\ handler'[p] = "awaitAll"
              /\ "fusionauth" \in spared[p]]_vars

\* A platform whose switches leave every service what it waits for gets to
\* serve, unless a service could not be started or a signal arrives
\* (bin/start:45-76, bin/run/fusionauth:4-12, bin/run/postgrest:4-21).
Consistent ==
  /\ "fusionauth" \notin off => "postgres" \notin off
  /\ "fusionauth" \in off => {"postgrest", "postgres"} \cap off # {} \/ jwks = "taken"
Lost == \E s \in Services : service[s] = "absent" /\ \E i \in 1..Len(StartOrder) :
          StartOrder[i] = s /\ i < pos /\ ~Skipped(s)
GetsToServe == Consistent ~>
  (serve # "absent" \/ Lost \/ Signalled)

\* A process that has received a signal exits, whatever the other one does and
\* whatever podman fails to stop (main.go:33-47).
SignalEnds == \A p \in Processes : (handler[p] # "none") ~> ~Living(p)
=============================================================================
