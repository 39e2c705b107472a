------------------------------ MODULE Deployer ------------------------------
(***************************************************************************)
(* The deploy sub-command: DeployProject and its RollbackManager           *)
(* (uberbase/pkg/deploy), with the parts they drive: the traffic manager   *)
(* (module TrafficManager), the state file, the compose override file, the *)
(* image registry and the containers of the remote host.                   *)
(*                                                                         *)
(* Each invocation is a process of its own.  Nothing in the code keeps two *)
(* invocations apart (DeploymentLock is declared and never used): Overlap  *)
(* says whether this instance lets them run at the same time.              *)
(* Traefik's directory is on the machine that deploys; the invocations of  *)
(* an instance share it, so they are those of one machine.                 *)
(***************************************************************************)
EXTENDS Integers, Sequences

CONSTANTS
  Deployers, TagOf, Tags, NoTag, BaseFiles, BaseForms, NoConfig, Overlap,
  Services,   \* services of docker-compose.yml
  Built,      \* those with a build section: they get a tagged image
  Priors,     \* releases the host may already be running (NoTag: none)
  MaxFaults   \* bound on faults: failed commands, exits, interrupts

VARIABLES
  files, snapshot, call, target, todo, deployConfig,  \* TrafficManager
  running,    \* containers running on the host: <<service, tag>>
  registry,   \* images of built services in the registry: <<service, tag>>
  override,   \* tag in docker-compose.override.yml, NoTag if there is none
  record,     \* content of deployment-state.yml
  pc,         \* where DeployProject is
  current,    \* currentState, as loaded at the start
  seen,       \* containers found running in this round of health checks
  steps,      \* RollbackManager.steps, by name
  undo,       \* Rollback's loop index
  failed,     \* Rollback's errors is not empty
  initial,    \* Rollback's initialState
  faults      \* faults so far

trafficVars == <<files, snapshot, call, target, todo, deployConfig>>
hostVars == <<running, registry, override, record>>
rollbackVars == <<undo, failed, initial>>
vars == <<trafficVars, hostVars, pc, current, seen, steps, rollbackVars, faults>>

Traffic == INSTANCE TrafficManager

ASSUME DeployerConstants ==
  /\ TagOf \in [Deployers -> Tags]
  /\ NoTag \notin Tags
  /\ BaseFiles \cap Tags = {}
  /\ BaseForms \subseteq Traffic!Forms
  /\ NoConfig \notin [form : Traffic!Forms, backend : Tags \cup {NoTag}]
  /\ Overlap \in BOOLEAN
  /\ Built \subseteq Services
  /\ Priors \subseteq Tags \cup {NoTag}
  /\ MaxFaults \in Nat

Containers == Services \X (Tags \cup {NoTag})
Images == Built \X Tags
\* The containers the code names for a tag ("<service>-<tag>"), and those of
\* a whole release: services without build keep their image.
Named(tag) == Built \X {tag}
Release(tag) == Named(tag) \cup ((Services \ Built) \X {NoTag})
\* Mutation of Own: services without a build section get a tag as well.
OwnAll(d) == Release(TagOf[d]) \cup (Services \X {TagOf[d]})
Own(d) == Named(TagOf[d])

\* A loaded DeploymentState: its Tag and the container names of its compose
\* services.  Without a file Load makes an empty one; the zero value it
\* returns beside an error has a nil Compose.
Records == [tag : Tags \cup {NoTag}, containers : SUBSET Containers]
EmptyState == [tag |-> NoTag, containers |-> {}]
RecordOf(t) == [tag |-> t, containers |-> Named(t)]
NilState == [tag |-> NoTag, containers |-> {}, nil |-> TRUE]

StepNames == {"override", "up", "traffic"}
\* How an invocation ends: DeployProject returned an error without rollback,
\* it returned after a rollback that reported success or errors, or the
\* process died (a panic in the deferred function, a signal).
Ended == {"refused", "rolledBack", "rollbackFailed", "crashed"}
Stages == {"idle", "push", "load", "override", "pull", "up", "healthy",
           "route", "routing", "downOld", "downOldAgain", "update",
           "rollback", "undo", "verify"} \cup Ended

HostType ==
  /\ running \subseteq Containers
  /\ registry \subseteq Images
  /\ override \in Tags \cup {NoTag}
  /\ record \in Records
FlowType ==
  /\ Traffic!TypeOK
  /\ pc \in [Deployers -> Stages]
  /\ steps \in [Deployers -> Seq(StepNames)]
  /\ faults \in 0..MaxFaults
DataType ==
  /\ current \in [Deployers -> Records]
  /\ seen \in [Deployers -> SUBSET Images]
RollbackType ==
  /\ undo \in [Deployers -> Nat]
  /\ failed \in [Deployers -> BOOLEAN]
  /\ initial \in [Deployers -> Records \cup {NilState}]
TypeOK == HostType /\ FlowType /\ DataType /\ RollbackType

\* The host runs nothing of this project, or a release that was put there
\* with its record; no deploy file is left from it.
Init ==
  /\ Traffic!Init
  /\ \E t \in Priors :
       /\ running = IF t = NoTag THEN {} ELSE Release(t)
       /\ registry = IF t = NoTag THEN {} ELSE Named(t)
       /\ record = IF t = NoTag THEN EmptyState ELSE RecordOf(t)
       /\ override = t
  /\ pc = [d \in Deployers |-> "idle"]
  /\ current = [d \in Deployers |-> EmptyState]
  /\ seen = [d \in Deployers |-> {}]
  /\ steps = [d \in Deployers |-> << >>]
  /\ undo = [d \in Deployers |-> 0]
  /\ failed = [d \in Deployers |-> FALSE]
  /\ initial = [d \in Deployers |-> EmptyState]
  /\ faults = 0

-----------------------------------------------------------------------------
At(d, stage) == pc[d] = stage
Goto(d, stage) == pc' = [pc EXCEPT ![d] = stage]
Fault == faults < MaxFaults /\ faults' = faults + 1
NoFault == UNCHANGED faults
\* Mutation of Register: Rollback would run the steps in order.
RegisterFirst(d, name) == steps' = [steps EXCEPT ![d] = <<name>> \o @]
Register(d, name) == steps' = [steps EXCEPT ![d] = Append(@, name)]

\* Every error return of DeployProject: nothing is rolled back.
Refuse(d) == Goto(d, "refused")

-----------------------------------------------------------------------------
(* compose on the host, as Up and Down use it.  The override file names     *)
(* images and hostnames but no containers, so a service has one container,  *)
(* and another image replaces it.                                           *)

\* The services that have a container.
Serving(containers) == {c[1] : c \in containers}
OnePerService(containers) ==
  \A c, e \in containers : c[1] = e[1] => c = e

\* The override file is an argument of every compose command.
OverrideExists == override # NoTag

\* "down --remove-orphans <names>": without names the whole project goes.
Stopped(names) == IF names = {} THEN running ELSE running \cap names

\* A Down that succeeds; one that fails may have stopped some already.
Down(names) ==
  /\ OverrideExists
  /\ running' = running \ Stopped(names)
  /\ NoFault
DownFails(names) ==
  \/ ~OverrideExists /\ UNCHANGED running /\ NoFault
  \/ /\ Fault
     /\ \E part \in SUBSET Stopped(names) : running' = running \ part

-----------------------------------------------------------------------------
(* DeployProject up to the traffic manager.                                 *)

Active(d) == pc[d] \notin {"idle"} \cup Ended
MayStart == Overlap \/ \A e \in Deployers : ~Active(e)

\* GetCurrentCommit and Build, both local.
Start(d) ==
  /\ At(d, "idle") /\ MayStart
  /\ \/ Goto(d, "push") /\ NoFault
     \/ Refuse(d) /\ Fault
  /\ UNCHANGED <<trafficVars, hostVars, current, seen, steps, rollbackVars>>

\* Mutation of PushImages: its error is dropped.
PushImagesUnchecked(d) ==
  /\ At(d, "push") /\ Goto(d, "load")
  /\ \/ registry' = registry \cup Own(d) /\ NoFault
     \/ Fault /\ \E pushed \in SUBSET Own(d) : registry' = registry \cup pushed
  /\ UNCHANGED <<trafficVars, running, override, record, current, seen, steps,
                 rollbackVars>>

\* Push stops at the first image that fails.
PushImages(d) ==
  /\ At(d, "push")
  /\ \/ registry' = registry \cup Own(d) /\ Goto(d, "load") /\ NoFault
     \/ /\ Refuse(d) /\ Fault
        /\ \E pushed \in SUBSET Own(d) : registry' = registry \cup pushed
  /\ UNCHANGED <<trafficVars, running, override, record, current, seen, steps,
                 rollbackVars>>

\* mkdir and StateManager.Load.  An error of "test -f" other than a missing
\* file also counts as a missing file.
LoadState(d) ==
  /\ At(d, "load")
  /\ \/ current' = [current EXCEPT ![d] = record] /\ Goto(d, "override") /\ NoFault
     \/ current' = [current EXCEPT ![d] = EmptyState] /\ Goto(d, "override") /\ Fault
     \/ UNCHANGED current /\ Refuse(d) /\ Fault
  /\ UNCHANGED <<trafficVars, hostVars, seen, steps, rollbackVars>>

\* SendFile, NewComposeOverride, WriteToFile, and the rollback step.
WriteOverride(d) ==
  /\ At(d, "override")
  /\ \/ /\ override' = TagOf[d] /\ Register(d, "override")
        /\ Goto(d, "pull") /\ NoFault
     \/ /\ override' \in {override, TagOf[d]} /\ UNCHANGED steps
        /\ Refuse(d) /\ Fault
  /\ UNCHANGED <<trafficVars, running, registry, record, current, seen,
                 rollbackVars>>

PullImages(d) ==
  /\ At(d, "pull")
  /\ \/ Own(d) \subseteq registry /\ Goto(d, "up") /\ NoFault
     \/ Refuse(d) /\ Fault
  /\ UNCHANGED <<trafficVars, hostVars, current, seen, steps, rollbackVars>>

\* "up -d" replaces what runs by what the override file names now, whoever
\* wrote it.  One that fails has done so for some services, and may have
\* stopped the container of others.
Up(d) ==
  /\ At(d, "up")
  /\ \/ /\ OverrideExists
        /\ running' = Release(override)
        /\ Goto(d, "healthy") /\ NoFault
     \/ ~OverrideExists /\ UNCHANGED running /\ Refuse(d) /\ NoFault
     \/ /\ OverrideExists /\ Refuse(d) /\ Fault
        /\ running' \in {part \in SUBSET (running \cup Release(override)) :
                           OnePerService(part)}
  /\ UNCHANGED <<trafficVars, registry, override, record, current, seen, steps,
                 rollbackVars>>

\* WaitForContainers: the checks of a round inspect the containers one by
\* one, in any order; one that is not running ends the round.  So does one
\* compose does not know by its name, or whose answer does not parse.
Inspect(d) ==
  /\ At(d, "healthy")
  /\ \E c \in Own(d) \ seen[d] :
       \/ c \in running /\ seen' = [seen EXCEPT ![d] = @ \cup {c}]
       \/ seen' = [seen EXCEPT ![d] = {}]
  /\ UNCHANGED <<trafficVars, hostVars, pc, current, steps, rollbackVars, faults>>

Healthy(d) ==
  /\ At(d, "healthy")
  /\ seen[d] = Own(d)
  /\ Register(d, "up") /\ Goto(d, "route")
  /\ UNCHANGED <<trafficVars, hostVars, current, seen, rollbackVars, faults>>

\* Mutation of HealthTimeout: the select has no timer.
NoHealthTimeout(d) == FALSE

\* The select's ten seconds are over first.
HealthTimeout(d) ==
  /\ At(d, "healthy")
  /\ Refuse(d)
  /\ UNCHANGED <<trafficVars, hostVars, current, seen, steps, rollbackVars, faults>>

-----------------------------------------------------------------------------
(* Routing, and what follows it.                                            *)

LoadRoutes(d) ==
  /\ At(d, "route")
  /\ Traffic!Load(d)
  /\ Goto(d, IF call'[d] = "loaded" THEN "routing" ELSE "refused")
  /\ UNCHANGED <<hostVars, current, seen, steps, rollbackVars, faults>>

Route(d) ==
  /\ At(d, "routing")
  /\ Traffic!Deploy(d, current[d].tag, TagOf[d]) \/ Traffic!DeployStep(d)
  /\ UNCHANGED <<hostVars, pc, current, seen, steps, rollbackVars, faults>>

\* Mutation of RouteReturns: the error of Deploy is logged only.
RouteReturnsUnchecked(d) ==
  /\ At(d, "routing")
  /\ \/ call[d] = "ok" /\ Register(d, "traffic") /\ Goto(d, "downOld")
     \/ call[d] = "error" /\ UNCHANGED steps /\ Goto(d, "downOld")
     \/ call[d] = "panic" /\ UNCHANGED steps /\ Goto(d, "rollback")
  /\ UNCHANGED <<trafficVars, hostVars, current, seen, rollbackVars, faults>>

\* Deploy came back: nil, an error, or with a panic that the deferred
\* function recovers.
RouteReturns(d) ==
  /\ At(d, "routing")
  /\ \/ call[d] = "ok" /\ Register(d, "traffic") /\ Goto(d, "downOld")
     \/ call[d] = "error" /\ UNCHANGED steps /\ Refuse(d)
     \/ call[d] = "panic" /\ UNCHANGED steps /\ Goto(d, "rollback")
  /\ UNCHANGED <<trafficVars, hostVars, current, seen, rollbackVars, faults>>

\* oldContainers, from the state as it was loaded.
OldContainers(d) == current[d].containers \ Own(d)

\* Down is called twice with the same arguments.  A straggler of the health
\* checks may have dropped the client it uses: a panic that is rolled back.
DownOld(d) ==
  /\ \/ /\ At(d, "downOld") /\ Down(OldContainers(d)) /\ Goto(d, "downOldAgain")
     \/ /\ At(d, "downOldAgain") /\ Down(OldContainers(d)) /\ Goto(d, "update")
     \/ /\ pc[d] \in {"downOld", "downOldAgain"}
        /\ \/ DownFails(OldContainers(d)) /\ Refuse(d)
           \/ UNCHANGED running /\ Goto(d, "rollback") /\ Fault
  /\ UNCHANGED <<trafficVars, registry, override, record, current, seen, steps,
                 rollbackVars>>

\* StateManager.Update ranges over CurrentState.Compose.Services, and nothing
\* in the program ever assigns CurrentState: its Compose is nil, the access
\* panics, and neither Update nor the Save after it writes the record.
UpdateState(d) ==
  /\ At(d, "update")
  /\ Goto(d, "rollback")
  /\ UNCHANGED <<trafficVars, hostVars, current, seen, steps, rollbackVars, faults>>

-----------------------------------------------------------------------------
(* RollbackManager.Rollback, called by the deferred function only.          *)

\* initialState, _ = Load(): the error is dropped, the zero value is kept.
BeginRollback(d) ==
  /\ At(d, "rollback")
  /\ \/ initial' = [initial EXCEPT ![d] = record] /\ NoFault
     \/ \E s \in {EmptyState, NilState} : initial' = [initial EXCEPT ![d] = s] /\ Fault
  /\ undo' = [undo EXCEPT ![d] = Len(steps[d])]
  /\ Goto(d, "undo")
  /\ UNCHANGED <<trafficVars, hostVars, current, seen, steps, failed>>

Undoing(d, name) == undo[d] > 0 /\ steps[d][undo[d]] = name
NextStep(d) == undo' = [undo EXCEPT ![d] = @ - 1] /\ Goto(d, "undo")
\* Mutation of StepFails: the error is not appended.
StepForgotten(d) == UNCHANGED failed /\ NextStep(d)
\* The error is appended and the loop continues without verifying.
StepFails(d) == failed' = [failed EXCEPT ![d] = TRUE] /\ NextStep(d)
StepDone(d) == Goto(d, "verify") /\ UNCHANGED <<undo, failed>>

UndoOverride(d) ==
  /\ At(d, "undo") /\ Undoing(d, "override")
  /\ \/ override' = NoTag /\ StepDone(d) /\ NoFault
     \/ override' \in {override, NoTag} /\ StepFails(d) /\ Fault
  /\ UNCHANGED <<trafficVars, running, registry, record, current, seen, steps, initial>>

UndoUp(d) ==
  /\ At(d, "undo") /\ Undoing(d, "up")
  /\ \/ Down(Own(d)) /\ StepDone(d)
     \/ DownFails(Own(d)) /\ StepFails(d)
  /\ UNCHANGED <<trafficVars, registry, override, record, current, seen, steps,
                 initial>>

\* trafficManager.Deploy(ctx, &currentState, currentState.Tag): both its
\* outcomes are early returns.
UndoTraffic(d) ==
  /\ At(d, "undo") /\ Undoing(d, "traffic")
  /\ IF Traffic!Verdict(d, current[d].tag, current[d].tag) = "error"
       THEN StepFails(d)
       ELSE StepDone(d)
  /\ UNCHANGED <<trafficVars, hostVars, current, seen, steps, initial, faults>>

\* The verification that belongs to the step just undone.  A command that
\* cannot run counts as "gone".  The health check behind traffic-rollback is
\* left out for a first release; otherwise it may go either way, or panic on
\* a recorded configuration without http section.
VerifyStep(d) ==
  /\ At(d, "verify")
  /\ \/ /\ \/ Undoing(d, "override") /\ OverrideExists /\ NoFault
           \/ Undoing(d, "up") /\ Own(d) \cap running # {} /\ NoFault
           \/ Undoing(d, "traffic") /\ current[d].tag # NoTag /\ NoFault
        /\ StepFails(d)
     \/ /\ \/ Undoing(d, "override") /\ (IF OverrideExists THEN Fault ELSE NoFault)
           \/ /\ Undoing(d, "up")
              /\ IF Own(d) \cap running # {} THEN Fault ELSE NoFault
           \/ Undoing(d, "traffic") /\ NoFault
        /\ NextStep(d) /\ UNCHANGED failed
     \/ /\ Undoing(d, "traffic") /\ current[d].tag # NoTag
        /\ Goto(d, "crashed") /\ NoFault /\ UNCHANGED <<undo, failed>>
  /\ UNCHANGED <<trafficVars, hostVars, current, seen, steps, initial>>

\* "Verify final state matches initial state".  Equal compares the tags
\* first; then it dereferences Compose, which is nil if the first Load had
\* failed: a panic nothing recovers.
Outcome(d, final) ==
  IF initial[d].tag # final.tag THEN "rollbackFailed"
  ELSE IF initial[d] = NilState THEN "crashed"
  ELSE IF initial[d] = final /\ ~failed[d] THEN "rolledBack"
  ELSE "rollbackFailed"

CompareStates(d) ==
  /\ At(d, "undo") /\ undo[d] = 0
  /\ \/ Goto(d, Outcome(d, record)) /\ NoFault
     \/ Goto(d, Outcome(d, EmptyState)) /\ Fault
     \/ Goto(d, "rollbackFailed") /\ Fault
  /\ UNCHANGED <<trafficVars, hostVars, current, seen, steps, rollbackVars>>

-----------------------------------------------------------------------------
(* The environment.                                                         *)

\* SIGINT or SIGTERM (main.go exits without rollback), a panic in a health
\* check goroutine, or the machine.
Interrupted(d) ==
  /\ Active(d)
  /\ Goto(d, "crashed") /\ Fault
  /\ UNCHANGED <<trafficVars, hostVars, current, seen, steps, rollbackVars>>

ContainerExits ==
  /\ \E c \in running : running' = running \ {c}
  /\ Fault
  /\ UNCHANGED <<trafficVars, registry, override, record, pc, current, seen, steps,
                 rollbackVars>>

Forward(d) ==
  \/ Start(d) \/ PushImages(d) \/ LoadState(d) \/ WriteOverride(d)
  \/ PullImages(d) \/ Up(d) \/ Inspect(d) \/ Healthy(d) \/ HealthTimeout(d)
  \/ LoadRoutes(d) \/ Route(d) \/ RouteReturns(d) \/ DownOld(d) \/ UpdateState(d)
Backward(d) ==
  \/ BeginRollback(d) \/ UndoOverride(d) \/ UndoUp(d) \/ UndoTraffic(d)
  \/ VerifyStep(d) \/ CompareStates(d)
Step(d) == Forward(d) \/ Backward(d)

AllEnded == \A d \in Deployers : pc[d] \in Ended
Next ==
  \/ \E d \in Deployers : Step(d) \/ Interrupted(d)
  \/ ContainerExits
  \/ AllEnded /\ UNCHANGED vars

Spec == Init /\ [][Next]_vars
\* Every command and file operation returns, and the select's timer fires
\* even while inspections go on.
FairSpec ==
  Spec /\ \A d \in Deployers : WF_vars(Step(d)) /\ WF_vars(HealthTimeout(d))

-----------------------------------------------------------------------------
\* A container of a built service that runs on the host runs an image that
\* is in the registry, so it can be started again, however invocations
\* overlap, fail and overwrite each other's override file.
RunningWasPushed == running \cap (Built \X Tags) \subseteq registry

HasRouted(d) == "traffic" \in {steps[d][i] : i \in DOMAIN steps[d]}

\* Until its traffic update succeeded an invocation leaves no service without
\* a container that had one, its own containers aside: Up replaces, the
\* rollback of Up stops its own, and only an Up that fails half-way breaks
\* this.  (A container that exits by itself changes no pc.)
ServedUntilRouted ==
  [][\A d \in Deployers : pc'[d] # pc[d] =>
       \/ Serving(running \ Own(d)) \subseteq Serving(running')
       \/ pc[d] = "up" /\ pc'[d] = "refused"
       \/ HasRouted(d)]_vars

\* The rollback of Up runs compose with the override file it was started
\* with: the file's own rollback comes later.
OverrideOutlivesUp ==
  \A d \in Deployers :
    At(d, "undo") /\ Undoing(d, "up") => override = TagOf[d]

\* A rollback that reports success has left no container of its release
\* running and no override file, whatever failed on the way.
ReportedRollbackIsClean ==
  [][\A d \in Deployers : pc[d] # "rolledBack" /\ pc'[d] = "rolledBack" =>
       running' \cap Own(d) = {} /\ override' = NoTag]_vars

\* A commit gets a deploy file from one invocation only: a later deploy of
\* the same commit, a retry after a failure included, is refused.
Published(d) == HasRouted(d) /\ deployConfig[d] # NoConfig
RoutedOnce ==
  \A d, e \in Deployers :
    d # e /\ TagOf[d] = TagOf[e] /\ Published(d) => ~Published(e)

\* Every invocation that begins comes to an end.
DeployEnds == \A d \in Deployers : Active(d) ~> (pc[d] \in Ended)

-----------------------------------------------------------------------------
\* "it will deploy the application using the docker-compose.yml file and
\* start the containers" (README.md:277): an invocation that got through
\* health checks and routing, in a run without a fault, leaves its containers
\* running.
DeployedAppRuns ==
  \A d \in Deployers :
    pc[d] \in Ended /\ faults = 0 /\ HasRouted(d) => Own(d) \subseteq running

\* "a rolling update with zero downtime" (README.md:279): an invocation stops
\* a container of another release only after its traffic update succeeded.
OldKeptUntilRouted ==
  [][\A d \in Deployers : pc'[d] # pc[d] =>
       running \subseteq running' \cup Own(d) \/ HasRouted(d)]_vars
=============================================================================
