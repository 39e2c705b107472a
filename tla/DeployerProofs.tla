--------------------------- MODULE DeployerProofs ---------------------------
(* Theorems about Deployer for every value of its constants.                *)
EXTENDS Deployer, FiniteSets, SequenceTheorems, TLAPS

\* Taken with Overlap, TrafficManager lets any manager load at any time: which
\* invocations are under way is decided here, by MayStart.
Proofs == INSTANCE TrafficManagerProofs WITH Overlap <- TRUE

-----------------------------------------------------------------------------
(* Type correctness: first the traffic manager's steps, then one lemma for  *)
(* each part of DeployProject.                                              *)

\* The instance the model uses and the one the theorems are stated in are the
\* same module; none of these definitions looks at Overlap.
LEMMA SameTraffic ==
  ASSUME NEW d, NEW old, NEW tag
  PROVE  /\ Proofs!TypeOK <=> Traffic!TypeOK
         /\ (Proofs!TypeOK <=> Traffic!TypeOK)'
         /\ Traffic!Load(d) => Proofs!Load(d)
         /\ Traffic!Deploy(d, old, tag) => Proofs!Deploy(d, old, tag)
         /\ Traffic!DeployStep(d) => Proofs!DeployStep(d)
<1> USE DEF Traffic!FileNames, Proofs!FileNames, Traffic!Configs, Proofs!Configs,
        Traffic!Contents, Proofs!Contents, Traffic!Returned, Proofs!Returned,
        Traffic!Forms, Proofs!Forms, Traffic!Goto, Proofs!Goto,
        Traffic!Present, Proofs!Present, Traffic!Truncated, Proofs!Truncated
<1>1. Proofs!TypeOK <=> Traffic!TypeOK
  BY DEF Traffic!TypeOK, Proofs!TypeOK
<1>2. (Proofs!TypeOK <=> Traffic!TypeOK)'
  BY DEF Traffic!TypeOK, Proofs!TypeOK
<1>3. Traffic!Load(d) => Proofs!Load(d)
  BY DEF Traffic!Load, Proofs!Load
<1>4. Traffic!Deploy(d, old, tag) => Proofs!Deploy(d, old, tag)
  BY Zenon DEF Traffic!Deploy, Proofs!Deploy, Traffic!Verdict, Proofs!Verdict,
               Traffic!HasDeployConfigs, Proofs!HasDeployConfigs
<1>5. Traffic!DeployStep(d) => Proofs!DeployStep(d)
  BY Zenon DEF Traffic!DeployStep, Proofs!DeployStep,
               Traffic!CreateConfig, Proofs!CreateConfig,
               Traffic!WriteConfig, Proofs!WriteConfig,
               Traffic!Parts, Proofs!Parts,
               Traffic!Retarget, Proofs!Retarget,
               Traffic!ConfigsCreated, Proofs!ConfigsCreated,
               Traffic!Healthy, Proofs!Healthy,
               Traffic!HealthTimeout, Proofs!HealthTimeout,
               Traffic!FinishDeploy, Proofs!FinishDeploy
<1> QED BY <1>1, <1>2, <1>3, <1>4, <1>5

\* What TrafficManager assumes of its parameters.
LEMMA TrafficParameters ==
  /\ TagOf \in [Deployers -> Tags] /\ NoTag \notin Tags
  /\ BaseFiles \cap Tags = {} /\ BaseForms \subseteq Proofs!Forms
  /\ TRUE \in BOOLEAN
  /\ NoConfig \notin [form : Proofs!Forms, backend : Tags \cup {NoTag}]
BY DeployerConstants DEF Traffic!Forms, Proofs!Forms

\* The steps of the traffic manager keep its part of the type invariant.
LEMMA TrafficStepType ==
  ASSUME Traffic!TypeOK, NEW d \in Deployers,
         NEW old \in Tags \cup {NoTag}, NEW tag \in Tags \cup {NoTag},
         Traffic!Load(d) \/ Traffic!Deploy(d, old, tag) \/ Traffic!DeployStep(d)
  PROVE  Traffic!TypeOK'
<1>2. Proofs!TypeOK
  BY SameTraffic
<1>3. Proofs!Load(d) \/ Proofs!Deploy(d, old, tag) \/ Proofs!DeployStep(d)
  BY SameTraffic
<1>4. Proofs!TypeOK'
  BY Zenon, TrafficParameters, <1>2, <1>3, Proofs!TrafficType
<1> QED BY <1>4, SameTraffic

\* What the step helpers do to their variable.
LEMMA Moves ==
  ASSUME TypeOK, NEW d \in Deployers
  PROVE  /\ \A s \in Stages : Goto(d, s) => pc' \in [Deployers -> Stages]
         /\ Refuse(d) => pc' \in [Deployers -> Stages]
         /\ Fault \/ NoFault => faults' \in 0..MaxFaults
         /\ \A n \in StepNames : Register(d, n) => steps' \in [Deployers -> Seq(StepNames)]
         /\ UNCHANGED trafficVars => Traffic!TypeOK'
<1> USE DEF TypeOK, FlowType
<1>1. \A s \in Stages : Goto(d, s) => pc' \in [Deployers -> Stages]
  BY DEF Goto
<1>2. Refuse(d) => pc' \in [Deployers -> Stages]
  BY <1>1 DEF Refuse, Stages, Ended
<1>3. Fault \/ NoFault => faults' \in 0..MaxFaults
  BY DeployerConstants DEF Fault, NoFault
<1>4. ASSUME NEW n \in StepNames, Register(d, n)
      PROVE  steps' \in [Deployers -> Seq(StepNames)]
  <2>1. Append(steps[d], n) \in Seq(StepNames)
    OBVIOUS
  <2> QED BY <1>4, <2>1 DEF Register
<1>5. UNCHANGED trafficVars => Traffic!TypeOK'
  BY DEF trafficVars, Traffic!TypeOK
<1> QED BY <1>1, <1>2, <1>3, <1>4, <1>5

\* The helper sets lie where the type invariant wants them.
LEMMA Sets ==
  ASSUME NEW d \in Deployers
  PROVE  /\ Own(d) \subseteq Images
         /\ TagOf[d] \in Tags
         /\ \A t \in Tags \cup {NoTag} : Release(t) \subseteq Containers
         /\ EmptyState \in Records
BY DeployerConstants DEF Own, Named, Images, Release, Containers, EmptyState, Records

\* The containers of a release and of an invocation are containers of the host.
LEMMA Names ==
  /\ {"idle", "push", "load", "override", "pull", "up", "healthy", "route",
      "routing", "downOld", "downOldAgain", "update", "rollback", "undo",
      "verify", "refused", "crashed", "rolledBack", "rollbackFailed"} \subseteq Stages
  /\ {"override", "up", "traffic"} \subseteq StepNames
BY DEF Stages, Ended, StepNames

\* DeployProject up to its health checks keeps the type invariant.
LEMMA PrepareType ==
  ASSUME TypeOK, NEW d \in Deployers,
         \/ Start(d) \/ PushImages(d) \/ LoadState(d) \/ WriteOverride(d)
         \/ PullImages(d) \/ Up(d) \/ Inspect(d) \/ Healthy(d) \/ HealthTimeout(d)
  PROVE  TypeOK'
<1>0. HostType /\ FlowType /\ DataType /\ RollbackType
  BY DEF TypeOK
<1>1. CASE Start(d)
  <2>1. HostType' BY <1>1, <1>0 DEF Start, HostType, hostVars
  <2>2. FlowType' BY <1>1, <1>0, Names, Moves DEF Start, FlowType
  <2>3. DataType' BY <1>1, <1>0 DEF Start, DataType
  <2>4. RollbackType' BY <1>1, <1>0 DEF Start, RollbackType, rollbackVars
  <2> QED BY <2>1, <2>2, <2>3, <2>4 DEF TypeOK
<1>2. CASE PushImages(d)
  <2>1. HostType' BY <1>2, <1>0, Sets DEF PushImages, HostType, hostVars
  <2>2. FlowType' BY <1>2, <1>0, Names, Moves DEF PushImages, FlowType
  <2>3. DataType' BY <1>2, <1>0 DEF PushImages, DataType
  <2>4. RollbackType' BY <1>2, <1>0 DEF PushImages, RollbackType, rollbackVars
  <2> QED BY <2>1, <2>2, <2>3, <2>4 DEF TypeOK
<1>3. CASE LoadState(d)
  <2>1. HostType' BY <1>3, <1>0 DEF LoadState, HostType, hostVars
  <2>2. FlowType' BY <1>3, <1>0, Names, Moves DEF LoadState, FlowType
  <2>3. DataType' BY <1>3, <1>0, Sets DEF LoadState, DataType, HostType
  <2>4. RollbackType' BY <1>3, <1>0 DEF LoadState, RollbackType, rollbackVars
  <2> QED BY <2>1, <2>2, <2>3, <2>4 DEF TypeOK
<1>4. CASE WriteOverride(d)
  <2>1. HostType' BY <1>4, <1>0, Sets DEF WriteOverride, HostType, hostVars
  <2>2. FlowType' BY <1>4, <1>0, Names, Moves DEF WriteOverride, FlowType
  <2>3. DataType' BY <1>4, <1>0 DEF WriteOverride, DataType
  <2>4. RollbackType' BY <1>4, <1>0 DEF WriteOverride, RollbackType, rollbackVars
  <2> QED BY <2>1, <2>2, <2>3, <2>4 DEF TypeOK
<1>5. CASE PullImages(d)
  <2>1. HostType' BY <1>5, <1>0 DEF PullImages, HostType, hostVars
  <2>2. FlowType' BY <1>5, <1>0, Names, Moves DEF PullImages, FlowType
  <2>3. DataType' BY <1>5, <1>0 DEF PullImages, DataType
  <2>4. RollbackType' BY <1>5, <1>0 DEF PullImages, RollbackType, rollbackVars
  <2> QED BY <2>1, <2>2, <2>3, <2>4 DEF TypeOK
<1>6. CASE Up(d)
  <2>1. HostType' BY <1>6, <1>0, Sets DEF Up, HostType, hostVars
  <2>2. FlowType' BY <1>6, <1>0, Names, Moves DEF Up, FlowType
  <2>3. DataType' BY <1>6, <1>0 DEF Up, DataType
  <2>4. RollbackType' BY <1>6, <1>0 DEF Up, RollbackType, rollbackVars
  <2> QED BY <2>1, <2>2, <2>3, <2>4 DEF TypeOK
<1>7. CASE Inspect(d)
  <2>1. HostType' BY <1>7, <1>0 DEF Inspect, HostType, hostVars
  <2>2. FlowType' BY <1>7, <1>0, Names, Moves DEF Inspect, FlowType
  <2>3. DataType' BY <1>7, <1>0, Sets DEF Inspect, DataType
  <2>4. RollbackType' BY <1>7, <1>0 DEF Inspect, RollbackType, rollbackVars
  <2> QED BY <2>1, <2>2, <2>3, <2>4 DEF TypeOK
<1>8. CASE Healthy(d)
  <2>1. HostType' BY <1>8, <1>0 DEF Healthy, HostType, hostVars
  <2>2. FlowType' BY <1>8, <1>0, Names, Moves DEF Healthy, FlowType
  <2>3. DataType' BY <1>8, <1>0 DEF Healthy, DataType
  <2>4. RollbackType' BY <1>8, <1>0 DEF Healthy, RollbackType, rollbackVars
  <2> QED BY <2>1, <2>2, <2>3, <2>4 DEF TypeOK
<1>9. CASE HealthTimeout(d)
  <2>1. HostType' BY <1>9, <1>0 DEF HealthTimeout, HostType, hostVars
  <2>2. FlowType' BY <1>9, <1>0, Names, Moves DEF HealthTimeout, FlowType
  <2>3. DataType' BY <1>9, <1>0 DEF HealthTimeout, DataType
  <2>4. RollbackType' BY <1>9, <1>0 DEF HealthTimeout, RollbackType, rollbackVars
  <2> QED BY <2>1, <2>2, <2>3, <2>4 DEF TypeOK
<1> QED BY <1>1, <1>2, <1>3, <1>4, <1>5, <1>6, <1>7, <1>8, <1>9

\* From routing to its end, DeployProject keeps the type invariant.
LEMMA SwitchType ==
  ASSUME TypeOK, NEW d \in Deployers,
         \/ LoadRoutes(d) \/ Route(d) \/ RouteReturns(d) \/ DownOld(d) \/ UpdateState(d)
  PROVE  TypeOK'
<1>0. HostType /\ FlowType /\ DataType /\ RollbackType
  BY DEF TypeOK
<1>a. /\ TagOf[d] \in Tags \cup {NoTag} /\ current[d].tag \in Tags \cup {NoTag}
  BY <1>0, Sets DEF DataType, Records
<1>1. CASE LoadRoutes(d)
  <2>1. HostType' BY <1>1, <1>0 DEF LoadRoutes, HostType, hostVars
  <2>2. FlowType' BY <1>1, <1>0, Names, Moves, TrafficStepType, <1>a DEF LoadRoutes, FlowType
  <2>3. DataType' BY <1>1, <1>0 DEF LoadRoutes, DataType
  <2>4. RollbackType' BY <1>1, <1>0 DEF LoadRoutes, RollbackType, rollbackVars
  <2> QED BY <2>1, <2>2, <2>3, <2>4 DEF TypeOK
<1>2. CASE Route(d)
  <2>1. HostType' BY <1>2, <1>0 DEF Route, HostType, hostVars
  <2>2. FlowType' BY <1>2, <1>0, Names, Moves, TrafficStepType, <1>a DEF Route, FlowType
  <2>3. DataType' BY <1>2, <1>0 DEF Route, DataType
  <2>4. RollbackType' BY <1>2, <1>0 DEF Route, RollbackType, rollbackVars
  <2> QED BY <2>1, <2>2, <2>3, <2>4 DEF TypeOK
<1>3. CASE RouteReturns(d)
  <2>1. HostType' BY <1>3, <1>0 DEF RouteReturns, HostType, hostVars
  <2>2. FlowType' BY <1>3, <1>0, Names, Moves DEF RouteReturns, FlowType
  <2>3. DataType' BY <1>3, <1>0 DEF RouteReturns, DataType
  <2>4. RollbackType' BY <1>3, <1>0 DEF RouteReturns, RollbackType, rollbackVars
  <2> QED BY <2>1, <2>2, <2>3, <2>4 DEF TypeOK
<1>4. CASE DownOld(d)
  <2>1. HostType' BY <1>4, <1>0 DEF DownOld, HostType, hostVars, Down, DownFails, Stopped
  <2>2. FlowType' BY <1>4, <1>0, Names, Moves DEF DownOld, FlowType, Down, DownFails
  <2>3. DataType' BY <1>4, <1>0 DEF DownOld, DataType
  <2>4. RollbackType' BY <1>4, <1>0 DEF DownOld, RollbackType, rollbackVars
  <2> QED BY <2>1, <2>2, <2>3, <2>4 DEF TypeOK
<1>5. CASE UpdateState(d)
  <2>1. HostType' BY <1>5, <1>0 DEF UpdateState, HostType, hostVars
  <2>2. FlowType' BY <1>5, <1>0, Names, Moves DEF UpdateState, FlowType
  <2>3. DataType' BY <1>5, <1>0 DEF UpdateState, DataType
  <2>4. RollbackType' BY <1>5, <1>0 DEF UpdateState, RollbackType, rollbackVars
  <2> QED BY <2>1, <2>2, <2>3, <2>4 DEF TypeOK
<1> QED BY <1>1, <1>2, <1>3, <1>4, <1>5

\* The steps of Rollback keep the type invariant.
LEMMA RollbackStepType ==
  ASSUME TypeOK, NEW d \in Deployers, Backward(d)
  PROVE  TypeOK'
<1>0. HostType /\ FlowType /\ DataType /\ RollbackType
  BY DEF TypeOK
<1>a. \A n : Undoing(d, n) => undo[d] - 1 \in Nat
  BY <1>0 DEF Undoing, RollbackType
<1>b. \A n : Undoing(d, n) /\ (StepFails(d) \/ (NextStep(d) /\ UNCHANGED failed) \/ StepDone(d)) =>
        /\ undo' \in [Deployers -> Nat] /\ failed' \in [Deployers -> BOOLEAN]
        /\ pc' \in [Deployers -> Stages]
  BY <1>0, <1>a, Names, Moves DEF RollbackType, StepFails, NextStep, StepDone
<1>1. CASE BeginRollback(d)
  <2>1. HostType' BY <1>1, <1>0 DEF BeginRollback, HostType, hostVars
  <2>2. FlowType' BY <1>1, <1>0, Names, Moves DEF BeginRollback, FlowType
  <2>3. DataType' BY <1>1, <1>0 DEF BeginRollback, DataType
  <2>4. RollbackType'
    <3>1. Len(steps[d]) \in Nat
      BY <1>0 DEF FlowType
    <3>2. /\ undo' = [undo EXCEPT ![d] = Len(steps[d])] /\ UNCHANGED failed
          /\ \E s \in Records \cup {NilState} : initial' = [initial EXCEPT ![d] = s]
      BY <1>1, <1>0, Sets DEF BeginRollback, HostType
    <3> QED BY <3>1, <3>2, <1>0 DEF RollbackType
  <2> QED BY <2>1, <2>2, <2>3, <2>4 DEF TypeOK
<1>2. CASE UndoOverride(d)
  <2>1. HostType' BY <1>2, <1>0 DEF UndoOverride, HostType, hostVars
  <2>2. FlowType' BY <1>2, <1>0, Names, Moves, <1>b DEF UndoOverride, FlowType
  <2>3. DataType' BY <1>2, <1>0 DEF UndoOverride, DataType
  <2>4. RollbackType' BY <1>2, <1>0, <1>b DEF UndoOverride, RollbackType, rollbackVars
  <2> QED BY <2>1, <2>2, <2>3, <2>4 DEF TypeOK
<1>3. CASE UndoUp(d)
  <2>1. HostType' BY <1>3, <1>0 DEF UndoUp, HostType, hostVars, Down, DownFails, Stopped
  <2>2. FlowType' BY <1>3, <1>0, Names, Moves, <1>b DEF UndoUp, FlowType, Down, DownFails
  <2>3. DataType' BY <1>3, <1>0 DEF UndoUp, DataType
  <2>4. RollbackType' BY <1>3, <1>0, <1>b DEF UndoUp, RollbackType, rollbackVars
  <2> QED BY <2>1, <2>2, <2>3, <2>4 DEF TypeOK
<1>4. CASE UndoTraffic(d)
  <2>1. HostType' BY <1>4, <1>0 DEF UndoTraffic, HostType, hostVars
  <2>2. FlowType' BY <1>4, <1>0, Names, Moves, <1>b DEF UndoTraffic, FlowType
  <2>3. DataType' BY <1>4, <1>0 DEF UndoTraffic, DataType
  <2>4. RollbackType' BY <1>4, <1>0, <1>b DEF UndoTraffic, RollbackType, rollbackVars
  <2> QED BY <2>1, <2>2, <2>3, <2>4 DEF TypeOK
<1>5. CASE VerifyStep(d)
  <2>1. HostType' BY <1>5, <1>0 DEF VerifyStep, HostType, hostVars
  <2>2. FlowType' BY <1>5, <1>0, Names, Moves, <1>b DEF VerifyStep, FlowType
  <2>3. DataType' BY <1>5, <1>0 DEF VerifyStep, DataType
  <2>4. RollbackType'
    <3>1. CASE UNCHANGED <<undo, failed>>
      BY <1>5, <3>1, <1>0 DEF VerifyStep, RollbackType
    <3>2. CASE \E n : Undoing(d, n) /\ (StepFails(d) \/ (NextStep(d) /\ UNCHANGED failed))
      BY <1>5, <3>2, <1>0, <1>b DEF VerifyStep, RollbackType
    <3> QED BY <1>5, <3>1, <3>2 DEF VerifyStep
  <2> QED BY <2>1, <2>2, <2>3, <2>4 DEF TypeOK
<1>6. CASE CompareStates(d)
  <2>1. HostType' BY <1>6, <1>0 DEF CompareStates, HostType, hostVars
  <2>2. FlowType' BY <1>6, <1>0, Names, Moves DEF CompareStates, FlowType, Outcome
  <2>3. DataType' BY <1>6, <1>0 DEF CompareStates, DataType
  <2>4. RollbackType' BY <1>6, <1>0 DEF CompareStates, RollbackType, rollbackVars
  <2> QED BY <2>1, <2>2, <2>3, <2>4 DEF TypeOK
<1> QED BY <1>1, <1>2, <1>3, <1>4, <1>5, <1>6 DEF Backward

\* The variables always have the types the code gives them, however many
\* invocations there are and whatever fails.
THEOREM TypeCorrect == Spec => []TypeOK
<1>1. Init => TypeOK
  <2> SUFFICES ASSUME Init PROVE TypeOK
    OBVIOUS
  <2> USE DeployerConstants
  <2>1. HostType
    BY DEF Init, HostType, Release, Named, Containers, Images, EmptyState, RecordOf, Records
  <2>2. FlowType
    <3>1. Traffic!TypeOK
      BY DEF Init, Traffic!Init, Traffic!TypeOK, Traffic!Contents, Traffic!Configs,
             Traffic!Empty, Traffic!FileNames
    <3> QED BY <3>1, Names DEF Init, FlowType
  <2>3. DataType
    BY DEF Init, DataType, EmptyState, Records
  <2>4. RollbackType
    BY DEF Init, RollbackType, EmptyState, Records
  <2> QED BY <2>1, <2>2, <2>3, <2>4 DEF TypeOK
<1>2. TypeOK /\ [Next]_vars => TypeOK'
  <2> SUFFICES ASSUME TypeOK, [Next]_vars PROVE TypeOK'
    OBVIOUS
  <2>0. HostType /\ FlowType /\ DataType /\ RollbackType
    BY DEF TypeOK
  <2>1. ASSUME NEW d \in Deployers, Forward(d) PROVE TypeOK'
    BY <2>1, PrepareType, SwitchType DEF Forward
  <2>2. ASSUME NEW d \in Deployers, Backward(d) PROVE TypeOK'
    BY <2>2, RollbackStepType
  <2>3. ASSUME NEW d \in Deployers, Interrupted(d) PROVE TypeOK'
    <3>1. HostType' /\ DataType' /\ RollbackType'
      BY <2>0, <2>3 DEF Interrupted, HostType, hostVars, DataType, RollbackType, rollbackVars
    <3>2. FlowType'
      BY <2>0, <2>3, Names, Moves DEF Interrupted, FlowType
    <3> QED BY <3>1, <3>2 DEF TypeOK
  <2>4. CASE ContainerExits
    <3>1. HostType' /\ DataType' /\ RollbackType'
      BY <2>0, <2>4 DEF ContainerExits, HostType, DataType, RollbackType, rollbackVars
    <3>2. UNCHANGED <<trafficVars, pc, steps>> /\ Fault
      BY <2>4 DEF ContainerExits
    <3>3. UNCHANGED trafficVars => Traffic!TypeOK'
      BY <2>0 DEF FlowType, trafficVars, Traffic!TypeOK
    <3>4. faults' \in 0..MaxFaults
      BY <2>0, <3>2, DeployerConstants DEF FlowType, Fault
    <3>5. FlowType'
      BY <2>0, <3>2, <3>3, <3>4 DEF FlowType
    <3> QED BY <3>1, <3>5 DEF TypeOK
  <2>5. CASE UNCHANGED vars
    <3>1. HostType' /\ DataType' /\ RollbackType'
      BY <2>0, <2>5 DEF vars, HostType, hostVars, DataType, RollbackType, rollbackVars
    <3>2. FlowType'
      BY <2>0, <2>5 DEF vars, FlowType, trafficVars, Traffic!TypeOK
    <3> QED BY <3>1, <3>2 DEF TypeOK
  <2> QED BY <2>1, <2>2, <2>3, <2>4, <2>5 DEF Next, Step
<1> QED BY <1>1, <1>2, PTL DEF Spec

-----------------------------------------------------------------------------
(* RunningWasPushed.  It is not inductive: Up starts what the override file *)
(* names, so the images the file names must be in the registry too, and     *)
(* they are there because an invocation pushes before it writes the file.   *)

PushedInv ==
  /\ RunningWasPushed
  /\ override # NoTag => Named(override) \subseteq registry
  /\ \A d \in Deployers : pc[d] \in {"load", "override"} => Own(d) \subseteq registry

\* Images are never removed, and only a push adds some.
LEMMA RegistryGrows ==
  ASSUME [Next]_vars
  PROVE  /\ registry \subseteq registry'
         /\ (\E d \in Deployers : PushImages(d)) \/ registry' = registry
<1>1. ASSUME NEW d \in Deployers, Forward(d)
      PROVE  registry \subseteq registry' /\ (PushImages(d) \/ registry' = registry)
  BY <1>1 DEF Forward, Start, PushImages, LoadState, WriteOverride, PullImages, Up,
     Inspect, Healthy, HealthTimeout, LoadRoutes, Route, RouteReturns, DownOld,
     UpdateState, hostVars
<1>2. ASSUME NEW d \in Deployers, Backward(d) \/ Interrupted(d)
      PROVE  registry' = registry
  BY <1>2 DEF Backward, BeginRollback, UndoOverride, UndoUp, UndoTraffic, VerifyStep,
     CompareStates, Interrupted, hostVars
<1>3. CASE ContainerExits \/ UNCHANGED vars
  BY <1>3 DEF ContainerExits, vars, hostVars
<1> QED BY <1>1, <1>2, <1>3 DEF Next, Step

\* Only Up starts containers, and it starts those of the override file.
LEMMA WhatStarts ==
  ASSUME [Next]_vars
  PROVE  \/ running' \subseteq running
         \/ override # NoTag /\ running' \subseteq running \cup Release(override)
<1>1. ASSUME NEW d \in Deployers, Up(d)
      PROVE  \/ running' \subseteq running
             \/ override # NoTag /\ running' \subseteq running \cup Release(override)
  BY <1>1 DEF Up, OverrideExists
<1>2. ASSUME NEW d \in Deployers, Forward(d), ~Up(d)
      PROVE  running' \subseteq running
  BY <1>2 DEF Forward, Start, PushImages, LoadState, WriteOverride, PullImages,
     Inspect, Healthy, HealthTimeout, LoadRoutes, Route, RouteReturns, DownOld,
     UpdateState, hostVars, Down, DownFails
<1>3. ASSUME NEW d \in Deployers, Backward(d) \/ Interrupted(d)
      PROVE  running' \subseteq running
  BY <1>3 DEF Backward, BeginRollback, UndoOverride, UndoUp, UndoTraffic, VerifyStep,
     CompareStates, Interrupted, hostVars, Down, DownFails
<1>4. CASE ContainerExits \/ UNCHANGED vars
  BY <1>4 DEF ContainerExits, vars, hostVars
<1> QED BY <1>1, <1>2, <1>3, <1>4 DEF Next, Step

\* Only an invocation that has loaded the state writes its tag to the file.
LEMMA WhatIsWritten ==
  ASSUME [Next]_vars
  PROVE  \/ override' \in {override, NoTag}
         \/ \E d \in Deployers : pc[d] = "override" /\ override' = TagOf[d]
<1>1. ASSUME NEW d \in Deployers, WriteOverride(d)
      PROVE  override' = override \/ (pc[d] = "override" /\ override' = TagOf[d])
  BY <1>1 DEF WriteOverride, At
<1>2. ASSUME NEW d \in Deployers, Forward(d), ~WriteOverride(d)
      PROVE  override' = override
  BY <1>2 DEF Forward, Start, PushImages, LoadState, Up, PullImages,
     Inspect, Healthy, HealthTimeout, LoadRoutes, Route, RouteReturns, DownOld,
     UpdateState, hostVars
<1>3. ASSUME NEW d \in Deployers, Backward(d) \/ Interrupted(d)
      PROVE  override' \in {override, NoTag}
  BY <1>3 DEF Backward, BeginRollback, UndoOverride, UndoUp, UndoTraffic, VerifyStep,
     CompareStates, Interrupted, hostVars
<1>4. CASE ContainerExits \/ UNCHANGED vars
  BY <1>4 DEF ContainerExits, vars, hostVars
<1> QED BY <1>1, <1>2, <1>3, <1>4 DEF Next, Step

\* An invocation is past its push only if its images are in the registry.
LEMMA WhoIsPastPush ==
  ASSUME TypeOK, [Next]_vars, NEW e \in Deployers,
         pc'[e] \in {"load", "override"}
  PROVE  pc[e] \in {"load", "override"} \/ Own(e) \subseteq registry'
<1>0. pc \in [Deployers -> Stages]
  BY DEF TypeOK, FlowType
<1> USE <1>0 DEF Goto, Refuse
<1>1. ASSUME NEW d \in Deployers, PushImages(d)
      PROVE  pc'[e] = pc[e] \/ pc'[e] = "refused" \/ Own(e) \subseteq registry'
  BY <1>1 DEF PushImages
<1>2. ASSUME NEW d \in Deployers, Forward(d), ~PushImages(d), ~LoadState(d)
      PROVE  pc'[e] = pc[e] \/ pc'[e] \notin {"load", "override"}
  BY <1>2 DEF Forward, Start, WriteOverride, PullImages, Up, Inspect, Healthy,
     HealthTimeout, LoadRoutes, Route, RouteReturns, DownOld, UpdateState
<1>3. ASSUME NEW d \in Deployers, LoadState(d)
      PROVE  pc'[e] = pc[e] \/ pc'[e] = "refused" \/ pc[e] = "load"
  BY <1>3 DEF LoadState, At
<1>4. ASSUME NEW d \in Deployers, Backward(d) \/ Interrupted(d)
      PROVE  pc'[e] = pc[e] \/ pc'[e] \notin {"load", "override"}
  BY <1>4 DEF Backward, BeginRollback, UndoOverride, UndoUp, UndoTraffic, VerifyStep,
     CompareStates, Interrupted, NextStep, StepFails, StepDone, Outcome
<1>5. CASE ContainerExits \/ UNCHANGED vars
  BY <1>5 DEF ContainerExits, vars
<1> QED BY <1>1, <1>2, <1>3, <1>4, <1>5 DEF Next, Step

\* Whatever invocations overlap, fail or die, and whosever override file a
\* compose command happens to use, the image of every running container of a
\* built service is in the registry.
THEOREM ImagesStayAvailable == Spec => []RunningWasPushed
<1>1. Init => PushedInv
  <2> SUFFICES ASSUME Init PROVE PushedInv
    OBVIOUS
  <2>1. RunningWasPushed
    BY DeployerConstants DEF Init, RunningWasPushed, Release, Named
  <2>2. override # NoTag => Named(override) \subseteq registry
    BY DEF Init
  <2>3. \A d \in Deployers : pc[d] = "idle"
    BY DEF Init
  <2> QED BY <2>1, <2>2, <2>3 DEF PushedInv
<1>2. TypeOK /\ PushedInv /\ [Next]_vars => PushedInv'
  <2> SUFFICES ASSUME TypeOK, PushedInv, [Next]_vars PROVE PushedInv'
    OBVIOUS
  <2> USE DEF PushedInv
  <2>1. RunningWasPushed'
    <3>1. Release(override) \cap (Built \X Tags) \subseteq Named(override)
      BY DeployerConstants DEF Release, Named
    <3> QED BY <3>1, WhatStarts, RegistryGrows DEF RunningWasPushed
  <2>2. (override # NoTag => Named(override) \subseteq registry)'
    <3>1. CASE override' \in {override, NoTag}
      BY <3>1, RegistryGrows DEF Named
    <3>2. ASSUME NEW d \in Deployers, pc[d] = "override", override' = TagOf[d]
          PROVE  Named(override') \subseteq registry'
      BY <3>2, RegistryGrows DEF Own
    <3> QED BY <3>1, <3>2, WhatIsWritten DEF Named
  <2>3. \A d \in Deployers : pc'[d] \in {"load", "override"} => Own(d) \subseteq registry'
    BY RegistryGrows, WhoIsPastPush
  <2> QED BY <2>1, <2>2, <2>3 DEF Own
<1>3. PushedInv => RunningWasPushed
  BY DEF PushedInv
<1> QED BY <1>1, <1>2, <1>3, TypeCorrect, PTL DEF Spec


-----------------------------------------------------------------------------
(* The rollback steps an invocation has registered, by the stage it is at,  *)
(* and what that says of the containers it stops.                           *)

Registered(d, n) ==
  /\ Len(steps[d]) = n
  /\ n >= 1 => steps[d][1] = "override"
  /\ n >= 2 => steps[d][2] = "up"
  /\ n >= 3 => steps[d][3] = "traffic"

Undone(d, n) == undo[d] \in 0..n /\ (pc[d] = "verify" => undo[d] > 0)

StageInv(d) ==
  /\ pc[d] \in {"idle", "push", "load", "override"} => Registered(d, 0)
  /\ pc[d] \in {"pull", "up", "healthy"} => Registered(d, 1)
  /\ pc[d] \in {"route", "routing"} => Registered(d, 2)
  /\ pc[d] \in {"downOld", "downOldAgain", "update"} => Registered(d, 3)
  /\ pc[d] = "rollback" => Registered(d, 2) \/ Registered(d, 3)
  /\ pc[d] \in {"undo", "verify"} =>
       (Registered(d, 2) /\ Undone(d, 2)) \/ (Registered(d, 3) /\ Undone(d, 3))

\* A step of one invocation leaves the others where they are.
LEMMA OthersStay ==
  ASSUME TypeOK, NEW d \in Deployers, Step(d) \/ Interrupted(d),
         NEW e \in Deployers, e # d
  PROVE  /\ pc'[e] = pc[e] /\ steps'[e] = steps[e]
         /\ undo'[e] = undo[e] /\ failed'[e] = failed[e]
<1>0. FlowType /\ RollbackType
  BY DEF TypeOK
<1> USE <1>0 DEF FlowType, RollbackType, Goto, Refuse, Register, rollbackVars
<1>1. CASE Forward(d)
  BY <1>1 DEF Forward, Start, PushImages, LoadState, WriteOverride, PullImages, Up,
     Inspect, Healthy, HealthTimeout, LoadRoutes, Route, RouteReturns, DownOld,
     UpdateState
<1>2. CASE Backward(d) \/ Interrupted(d)
  BY <1>2 DEF Backward, BeginRollback, UndoOverride, UndoUp, UndoTraffic, VerifyStep,
     CompareStates, Interrupted, NextStep, StepFails, StepDone
<1> QED BY <1>1, <1>2 DEF Step

\* What Register does to the registered steps.
LEMMA RegisterNext ==
  ASSUME TypeOK, NEW d \in Deployers
  PROVE  /\ Register(d, "override") /\ Registered(d, 0) => Registered(d, 1)'
         /\ Register(d, "up") /\ Registered(d, 1) => Registered(d, 2)'
         /\ Register(d, "traffic") /\ Registered(d, 2) => Registered(d, 3)'
<1>1. steps \in [Deployers -> Seq(StepNames)] /\ steps[d] \in Seq(StepNames)
  BY DEF TypeOK, FlowType
<1>2. ASSUME NEW n \in StepNames, Register(d, n)
      PROVE  /\ Len(steps'[d]) = Len(steps[d]) + 1
             /\ \A i \in 1..Len(steps[d]) : steps'[d][i] = steps[d][i]
             /\ steps'[d][Len(steps[d]) + 1] = n
  <2>1. steps'[d] = Append(steps[d], n)
    BY <1>1, <1>2 DEF Register
  <2> DEFINE more == Append(steps[d], n)
  <2>2. /\ Len(more) = Len(steps[d]) + 1
        /\ \A i \in 1..Len(steps[d]) : more[i] = steps[d][i]
        /\ more[Len(steps[d]) + 1] = n
    BY <1>1, <1>2, AppendProperties
  <2> HIDE DEF more
  <2>3. steps'[d] = more
    BY <2>1 DEF more
  <2> QED BY <2>2, <2>3
<1>3. ASSUME NEW n \in StepNames, Register(d, n), NEW k \in 0..2, Registered(d, k),
             n = (CASE k = 0 -> "override" [] k = 1 -> "up" [] k = 2 -> "traffic")
      PROVE  Registered(d, k + 1)'
  <2>1. /\ Len(steps'[d]) = k + 1
        /\ \A i \in 1..k : steps'[d][i] = steps[d][i]
        /\ steps'[d][k + 1] = n
    BY <1>2, <1>3 DEF Registered
  <2>2. CASE k = 0
    BY <1>3, <2>1, <2>2 DEF Registered
  <2>3. CASE k = 1
    BY <1>3, <2>1, <2>3 DEF Registered
  <2>4. CASE k = 2
    BY <1>3, <2>1, <2>4 DEF Registered
  <2> QED BY <2>2, <2>3, <2>4
<1>4. "override" \in StepNames /\ "up" \in StepNames /\ "traffic" \in StepNames
  BY DEF StepNames
<1>5. Register(d, "override") /\ Registered(d, 0) => Registered(d, 0 + 1)'
  BY <1>3, <1>4
<1>6. Register(d, "up") /\ Registered(d, 1) => Registered(d, 1 + 1)'
  BY <1>3, <1>4
<1>7. Register(d, "traffic") /\ Registered(d, 2) => Registered(d, 2 + 1)'
  BY <1>3, <1>4
<1> QED BY <1>5, <1>6, <1>7

\* The stage invariant through a step of DeployProject, ...
LEMMA ForwardStage ==
  ASSUME TypeOK, NEW d \in Deployers, StageInv(d), Forward(d)
  PROVE  StageInv(d)'
<1>0. pc \in [Deployers -> Stages]
  BY DEF TypeOK, FlowType
<1> USE <1>0 DEF At, Goto, Refuse
<1>1. CASE WriteOverride(d)
  <2>1. CASE Register(d, "override") /\ Goto(d, "pull")
    <3>1. Registered(d, 1)' /\ pc'[d] = "pull"
      BY <1>1, <2>1, RegisterNext DEF WriteOverride, StageInv
    <3> QED BY <3>1 DEF StageInv
  <2>2. CASE pc'[d] = "refused"
    BY <2>2 DEF StageInv
  <2> QED BY <1>1, <2>1, <2>2 DEF WriteOverride
<1>2. CASE Healthy(d)
  <2>1. Registered(d, 2)' /\ pc'[d] = "route"
    BY <1>2, RegisterNext DEF Healthy, StageInv
  <2> QED BY <2>1 DEF StageInv
<1>3. CASE RouteReturns(d)
  <2>1. CASE Register(d, "traffic") /\ Goto(d, "downOld")
    <3>1. Registered(d, 3)' /\ pc'[d] = "downOld"
      BY <1>3, <2>1, RegisterNext DEF RouteReturns, StageInv
    <3> QED BY <3>1 DEF StageInv
  <2>2. CASE UNCHANGED steps /\ pc'[d] = "refused"
    BY <2>2 DEF StageInv
  <2>3. CASE UNCHANGED steps /\ pc'[d] = "rollback"
    BY <1>3, <2>3 DEF RouteReturns, StageInv, Registered
  <2> QED BY <1>3, <2>1, <2>2, <2>3 DEF RouteReturns
<1>4. CASE Start(d) \/ PushImages(d) \/ LoadState(d) \/ PullImages(d) \/ Up(d)
  BY <1>4 DEF Start, PushImages, LoadState, PullImages, Up, StageInv, Registered
<1>5. CASE Inspect(d) \/ HealthTimeout(d) \/ LoadRoutes(d) \/ Route(d)
  BY <1>5 DEF Inspect, HealthTimeout, LoadRoutes, Route, StageInv, Registered,
     Undone, rollbackVars
<1>6. CASE DownOld(d) \/ UpdateState(d)
  BY <1>6 DEF DownOld, UpdateState, StageInv, Registered
<1> QED BY <1>1, <1>2, <1>3, <1>4, <1>5, <1>6 DEF Forward

\* ... and through a step of Rollback, whose index only goes down.
LEMMA BackwardStage ==
  ASSUME TypeOK, NEW d \in Deployers, StageInv(d), Backward(d)
  PROVE  StageInv(d)'
<1>0. /\ pc \in [Deployers -> Stages] /\ undo \in [Deployers -> Nat]
      /\ failed \in [Deployers -> BOOLEAN]
  BY DEF TypeOK, FlowType, RollbackType
<1> USE <1>0 DEF At, Goto, NextStep, StepFails, StepDone
<1>1. CASE BeginRollback(d)
  <2>1. undo'[d] = Len(steps[d]) /\ pc'[d] = "undo" /\ UNCHANGED steps
    BY <1>1 DEF BeginRollback
  <2>2. Registered(d, 2) \/ Registered(d, 3)
    BY <1>1 DEF BeginRollback, StageInv
  <2> QED BY <2>1, <2>2 DEF StageInv, Registered, Undone
<1>2. CASE CompareStates(d)
  <2>1. pc'[d] \in Ended
    BY <1>2 DEF CompareStates, Outcome, Ended
  <2> QED BY <2>1 DEF StageInv, Ended
<1>3. CASE UndoOverride(d) \/ UndoUp(d) \/ UndoTraffic(d) \/ VerifyStep(d)
  <2>1. /\ pc[d] \in {"undo", "verify"} /\ undo[d] > 0 /\ UNCHANGED steps
        /\ \/ pc'[d] = "undo" /\ undo'[d] = undo[d] - 1
           \/ pc'[d] = "verify" /\ undo'[d] = undo[d]
           \/ pc'[d] = "crashed"
    BY <1>3 DEF UndoOverride, UndoUp, UndoTraffic, VerifyStep, Undoing
  <2> QED BY <2>1 DEF StageInv, Registered, Undone
<1> QED BY <1>1, <1>2, <1>3 DEF Backward

StagesInv == \A d \in Deployers : StageInv(d)

LEMMA InitStages == Init => StagesInv
<1> SUFFICES ASSUME Init, NEW d \in Deployers PROVE StageInv(d)
  BY DEF StagesInv
<1>1. pc[d] = "idle" /\ steps[d] = << >>
  BY DEF Init
<1> QED BY <1>1 DEF StageInv, Registered

LEMMA NextStages == TypeOK /\ StagesInv /\ [Next]_vars => StagesInv'
<1> SUFFICES ASSUME TypeOK, StagesInv, [Next]_vars, NEW e \in Deployers
             PROVE  StageInv(e)'
  BY DEF StagesInv
<1>0. StageInv(e) /\ pc \in [Deployers -> Stages]
  BY DEF StagesInv, TypeOK, FlowType
<1>1. ASSUME NEW d \in Deployers, Step(d) \/ Interrupted(d) PROVE StageInv(e)'
  <2>1. CASE e # d
    BY <1>0, <1>1, <2>1, OthersStay DEF StageInv, Registered, Undone
  <2>2. CASE e = d /\ Interrupted(d)
    <3>1. pc'[e] = "crashed"
      BY <1>0, <2>2 DEF Interrupted, Goto
    <3> QED BY <3>1 DEF StageInv
  <2>3. CASE e = d /\ Step(d)
    BY <1>0, <2>3, ForwardStage, BackwardStage DEF Step
  <2> QED BY <1>1, <2>1, <2>2, <2>3
<1>2. CASE ContainerExits \/ UNCHANGED vars
  BY <1>0, <1>2 DEF ContainerExits, vars, rollbackVars, StageInv, Registered, Undone
<1> QED BY <1>1, <1>2 DEF Next

\* The stages are right in every behaviour.
THEOREM StagesHold == Spec => [](TypeOK /\ StagesInv)
BY InitStages, NextStages, TypeCorrect, PTL DEF Spec

\* ServedUntilRouted: in a project that builds something, no step before the
\* routes were changed leaves a service without a container, the release's own
\* containers and an Up that fails half-way aside; rollback is included.
\* Without built services Rollback's Down has no names and stops the whole
\* project (deploy/deployer.go:198, containers/manager.go:79).
THEOREM ServicesKeepRunning == ASSUME Built # {} PROVE Spec => ServedUntilRouted
<1> DEFINE Kept(d) == \/ Serving(running \ Own(d)) \subseteq Serving(running')
                      \/ pc[d] = "up" /\ pc'[d] = "refused"
                      \/ HasRouted(d)
<1>1. TypeOK /\ StagesInv /\ [Next]_vars =>
        [\A d \in Deployers : pc'[d] # pc[d] => Kept(d)]_vars
  <2> SUFFICES ASSUME TypeOK, StagesInv, Next, NEW d \in Deployers, pc'[d] # pc[d]
               PROVE  Kept(d)
    BY DEF vars
  <2>1. Step(d) \/ Interrupted(d)
    <3>1. ~ContainerExits /\ ~UNCHANGED vars
      BY DEF ContainerExits, vars
    <3> QED BY <3>1, OthersStay DEF Next
  <2>2. /\ steps[d] \in Seq(StepNames) /\ StageInv(d) /\ running \subseteq Containers
        /\ pc \in [Deployers -> Stages]
    BY DEF TypeOK, FlowType, HostType, StagesInv
  <2>3. CASE DownOld(d)
    <3>1. Registered(d, 3)
      BY <2>2, <2>3 DEF DownOld, At, StageInv
    <3>2. 3 \in DOMAIN steps[d] /\ steps[d][3] = "traffic"
      BY <2>2, <3>1 DEF Registered
    <3> QED BY <3>2 DEF HasRouted
  <2>4. CASE UndoUp(d)
    <3>1. Own(d) # {}
      <4>1. PICK s \in Built : TRUE
        OBVIOUS
      <4>2. <<s, TagOf[d]>> \in Own(d)
        BY <4>1 DEF Own, Named
      <4> QED BY <4>2
    <3>2. running' = running \ Stopped(Own(d)) \/ running \ running' \subseteq Stopped(Own(d))
      BY <2>4 DEF UndoUp, Down, DownFails
    <3>3. Stopped(Own(d)) \subseteq Own(d)
      BY <3>1 DEF Stopped
    <3>4. running \ Own(d) \subseteq running'
      BY <3>2, <3>3
    <3> QED BY <3>4 DEF Serving
  <2>5. CASE Up(d)
    <3>1. CASE running' = Release(override)
      <4>1. Serving(running \ Own(d)) \subseteq Services
        BY <2>2 DEF Serving, Containers
      <4>2. ASSUME NEW s \in Services PROVE s \in Serving(running')
        <5>1. \E t : <<s, t>> \in running'
          BY <3>1 DEF Release, Named
        <5> QED BY <5>1 DEF Serving
      <4> QED BY <4>1, <4>2
    <3>2. CASE Refuse(d)
      BY <2>2, <2>5, <3>2 DEF Up, At, Refuse, Goto
    <3> QED BY <2>5, <3>1, <3>2 DEF Up
  <2>6. CASE ~DownOld(d) /\ ~UndoUp(d) /\ ~Up(d)
    <3>1. running' = running
      BY <2>1, <2>6 DEF Step, Forward, Start, PushImages, LoadState, WriteOverride,
         PullImages, Inspect, Healthy, HealthTimeout, LoadRoutes, Route,
         RouteReturns, UpdateState, Backward, BeginRollback, UndoOverride,
         UndoTraffic, VerifyStep, CompareStates, Interrupted, hostVars
    <3> QED BY <3>1 DEF Serving
  <2> QED BY <2>3, <2>4, <2>5, <2>6
<1> QED BY <1>1, StagesHold, PTL DEF Spec, ServedUntilRouted


-----------------------------------------------------------------------------
(* Invocations one after the other: the override file and the containers    *)
(* are those of the one that runs.                                          *)

Alone == \A d, e \in Deployers : Active(d) /\ Active(e) => d = e

Undoes(d) == pc[d] \in {"undo", "verify"}
UpUndone(d) == undo[d] <= 1 \/ (pc[d] = "verify" /\ undo[d] = 2)
OverrideUndone(d) == undo[d] = 0 \/ (pc[d] = "verify" /\ undo[d] = 1)

\* Nothing has gone wrong with the rollback: it has met no error, or only those
\* that come without a fault.
Smooth(d) == ~failed[d] \/ faults = 0

\* The file is this invocation's own until its step is undone, and what was
\* undone without an error is gone.
OwnHost(d) ==
  /\ \/ pc[d] \in {"pull", "up", "healthy", "route", "routing", "downOld",
                   "downOldAgain", "update", "rollback"}
     \/ Undoes(d) /\ undo[d] >= 2
     => override = TagOf[d]
  /\ Undoes(d) /\ Smooth(d) /\ UpUndone(d) => running \cap Own(d) = {}
  /\ Undoes(d) /\ Smooth(d) /\ OverrideUndone(d) => override = NoTag

SerialInv == Alone /\ \A d \in Deployers : OwnHost(d)

\* Who takes a step is, without overlap, the only one active.
LEMMA OneMoves ==
  ASSUME ~Overlap, TypeOK, Alone, NEW d \in Deployers, Step(d) \/ Interrupted(d),
         NEW e \in Deployers, e # d
  PROVE  ~Active(e) /\ ~Active(e)'
<1>1. (At(d, "idle") /\ MayStart) \/ Active(d)
  <2>1. CASE Forward(d)
    BY <2>1 DEF Forward, Start, PushImages, LoadState, WriteOverride, PullImages, Up,
       Inspect, Healthy, HealthTimeout, LoadRoutes, Route, RouteReturns, DownOld,
       UpdateState, At, Active, Ended
  <2>2. CASE Backward(d) \/ Interrupted(d)
    BY <2>2 DEF Backward, BeginRollback, UndoOverride, UndoUp, UndoTraffic, VerifyStep,
       CompareStates, Interrupted, At, Active, Ended
  <2> QED BY <2>1, <2>2 DEF Step
<1>2. ~Active(e)
  BY <1>1 DEF MayStart, Alone
<1>3. pc'[e] = pc[e]
  BY OthersStay
<1> QED BY <1>2, <1>3 DEF Active

\* OwnHost through a step of DeployProject, ...
LEMMA ForwardHost ==
  ASSUME TypeOK, NEW d \in Deployers, StageInv(d), OwnHost(d), Forward(d)
  PROVE  OwnHost(d)'
<1>0. pc \in [Deployers -> Stages]
  BY DEF TypeOK, FlowType
<1> USE <1>0 DEF At, Goto, Refuse
<1>1. CASE WriteOverride(d)
  BY <1>1 DEF WriteOverride, OwnHost, Undoes
<1>2. CASE RouteReturns(d)
  BY <1>2 DEF RouteReturns, OwnHost, Undoes, hostVars
<1>3. CASE Start(d) \/ PushImages(d) \/ LoadState(d) \/ PullImages(d) \/ Up(d)
  BY <1>3 DEF Start, PushImages, LoadState, PullImages, Up, OwnHost, Undoes, hostVars
<1>4. CASE Inspect(d) \/ Healthy(d) \/ HealthTimeout(d) \/ LoadRoutes(d) \/ Route(d)
  BY <1>4 DEF Inspect, Healthy, HealthTimeout, LoadRoutes, Route, OwnHost, Undoes,
     hostVars
<1>5. CASE DownOld(d) \/ UpdateState(d)
  BY <1>5 DEF DownOld, UpdateState, OwnHost, Undoes, hostVars
<1> QED BY <1>1, <1>2, <1>3, <1>4, <1>5 DEF Forward

\* ... and through a step of Rollback.
LEMMA BackwardHost ==
  ASSUME TypeOK, NEW d \in Deployers, StageInv(d), OwnHost(d), Backward(d)
  PROVE  OwnHost(d)'
<1>0. /\ pc \in [Deployers -> Stages] /\ undo \in [Deployers -> Nat]
      /\ failed \in [Deployers -> BOOLEAN]
  BY DEF TypeOK, FlowType, RollbackType
<1>a. TagOf[d] # NoTag
  BY DeployerConstants
<1>b. /\ Fault => faults' # 0
      /\ faults' = 0 => faults = 0
  <2>1. faults \in Nat
    BY DeployerConstants DEF TypeOK, FlowType
  <2>2. Fault \/ NoFault
    BY DEF Backward, BeginRollback, UndoOverride, UndoUp, UndoTraffic, VerifyStep,
       CompareStates, Down, DownFails, NoFault
  <2> QED BY <2>1, <2>2 DEF Fault, NoFault
<1> USE <1>0 DEF At, Goto, NextStep, StepFails, StepDone
<1>1. CASE BeginRollback(d)
  <2>1. /\ undo'[d] = Len(steps[d]) /\ pc'[d] = "undo"
        /\ override' = override /\ override = TagOf[d]
    BY <1>1 DEF BeginRollback, OwnHost, hostVars
  <2>2. Len(steps[d]) \in {2, 3}
    BY <1>1 DEF BeginRollback, StageInv, Registered
  <2>3. undo'[d] \in {2, 3}
    BY <2>1, <2>2
  <2>4. ~UpUndone(d)' /\ ~OverrideUndone(d)'
    <3>1. pc'[d] # "verify"
      BY <2>1
    <3>2. ~(undo'[d] <= 1) /\ undo'[d] # 0
      BY <2>3
    <3> QED BY <3>1, <3>2 DEF UpUndone, OverrideUndone
  <2> QED BY <2>1, <2>4 DEF OwnHost
<1>2. CASE CompareStates(d)
  <2>1. pc'[d] \in Ended
    BY <1>2 DEF CompareStates, Outcome, Ended
  <2> QED BY <2>1 DEF OwnHost, Undoes, Ended
<1>3. CASE UndoOverride(d)
  <2>1. undo[d] = 1
    BY <1>3 DEF UndoOverride, Undoing, StageInv, Registered, Undone
  <2>2. /\ running' = running
        /\ \/ override' = NoTag /\ pc'[d] = "verify" /\ undo'[d] = 1 /\ failed'[d] = failed[d]
           \/ failed'[d] = TRUE /\ pc'[d] = "undo" /\ undo'[d] = 0 /\ Fault
    BY <1>3, <2>1 DEF UndoOverride
  <2>3. pc[d] = "undo"
    BY <1>3 DEF UndoOverride
  <2> QED BY <1>b, <2>1, <2>2, <2>3 DEF OwnHost, Smooth, Undoes, UpUndone,
          OverrideUndone, Own
<1>4. CASE UndoUp(d)
  <2>1. undo[d] = 2 /\ override = TagOf[d]
    BY <1>4 DEF UndoUp, Undoing, StageInv, Registered, Undone, OwnHost, Undoes
  <2>2. /\ override' = override
        /\ \/ /\ running' = running \ Stopped(Own(d))
              /\ pc'[d] = "verify" /\ undo'[d] = 2 /\ failed'[d] = failed[d]
           \/ failed'[d] = TRUE /\ pc'[d] = "undo" /\ undo'[d] = 1 /\ Fault
    BY <1>4, <1>a, <2>1 DEF UndoUp, Down, DownFails, OverrideExists
  <2>3. (running \ Stopped(Own(d))) \cap Own(d) = {}
    BY DEF Stopped
  <2> QED BY <1>b, <2>1, <2>2, <2>3 DEF OwnHost, Smooth, Undoes, UpUndone,
          OverrideUndone, Own
<1>5. CASE UndoTraffic(d)
  <2>1. undo[d] = 3 /\ override' = override /\ running' = running
    BY <1>5 DEF UndoTraffic, Undoing, StageInv, Registered, Undone, hostVars
  <2>2. \/ pc'[d] = "verify" /\ undo'[d] = 3
        \/ failed'[d] = TRUE /\ pc'[d] = "undo" /\ undo'[d] = 2
    BY <1>5, <2>1 DEF UndoTraffic
  <2> QED BY <1>5, <2>1, <2>2 DEF UndoTraffic, OwnHost, Undoes, UpUndone, OverrideUndone
<1>6. CASE VerifyStep(d)
  <2>1. CASE pc'[d] = "crashed"
    BY <2>1 DEF OwnHost, Undoes
  <2>2. CASE NextStep(d)
    <3>1. /\ undo'[d] = undo[d] - 1 /\ undo[d] \in 1..3 /\ pc'[d] = "undo"
          /\ failed'[d] \/ failed'[d] = failed[d]
          /\ override' = override /\ running' = running /\ pc[d] = "verify"
      BY <1>6, <2>2 DEF VerifyStep, Undoing, StageInv, Registered, Undone, hostVars
    <3> QED BY <1>b, <3>1 DEF OwnHost, Smooth, Undoes, UpUndone, OverrideUndone, Own
  <2> QED BY <1>6, <2>1, <2>2 DEF VerifyStep
<1> QED BY <1>1, <1>2, <1>3, <1>4, <1>5, <1>6 DEF Backward

LEMMA InitSerial == Init => SerialInv
<1> SUFFICES ASSUME Init PROVE SerialInv
  OBVIOUS
<1>1. \A d \in Deployers : pc[d] = "idle"
  BY DEF Init
<1> QED BY <1>1 DEF SerialInv, Alone, Active, OwnHost, Undoes

LEMMA NextSerial ==
  ASSUME ~Overlap
  PROVE  TypeOK /\ StagesInv /\ SerialInv /\ [Next]_vars => SerialInv'
<1> SUFFICES ASSUME TypeOK, StagesInv, SerialInv, [Next]_vars PROVE SerialInv'
  OBVIOUS
<1>1. ASSUME NEW d \in Deployers, Step(d) \/ Interrupted(d) PROVE SerialInv'
  <2>1. \A e \in Deployers : e # d => ~Active(e)'
    BY <1>1, OneMoves DEF SerialInv
  <2>2. ASSUME NEW e \in Deployers, e # d PROVE OwnHost(e)'
    BY <2>1, <2>2 DEF OwnHost, Undoes, Active, Ended
  <2>3. CASE Interrupted(d)
    <3>1. pc'[d] = "crashed"
      BY <2>3 DEF Interrupted, Goto, TypeOK, FlowType
    <3>2. OwnHost(d)'
      BY <3>1 DEF OwnHost, Undoes
    <3> QED BY <2>1, <2>2, <3>2 DEF SerialInv, Alone
  <2>4. CASE Step(d)
    <3>1. StageInv(d) /\ OwnHost(d)
      BY DEF StagesInv, SerialInv
    <3>2. OwnHost(d)'
      BY <2>4, <3>1, ForwardHost, BackwardHost DEF Step
    <3> QED BY <2>1, <2>2, <3>2 DEF SerialInv, Alone
  <2> QED BY <1>1, <2>3, <2>4
<1>2. CASE ContainerExits
  <2>1. /\ pc' = pc /\ undo' = undo /\ failed' = failed /\ override' = override
        /\ running' \subseteq running /\ faults' = faults + 1
    BY <1>2 DEF ContainerExits, rollbackVars, Fault
  <2>2. faults' # 0
    BY <2>1, DeployerConstants DEF TypeOK, FlowType
  <2> QED BY <2>1, <2>2 DEF SerialInv, Alone, Active, OwnHost, Smooth, Undoes,
          UpUndone, OverrideUndone, Own
<1>3. CASE UNCHANGED vars
  BY <1>3 DEF vars, rollbackVars, hostVars, SerialInv, Alone, Active, OwnHost, Smooth, Undoes,
     UpUndone, OverrideUndone, Own
<1> QED BY <1>1, <1>2, <1>3 DEF Next

\* Invocations that do not overlap own the host while they run.
THEOREM SerialHolds ==
  ASSUME ~Overlap
  PROVE  Spec => [](TypeOK /\ StagesInv /\ SerialInv)
BY InitSerial, NextSerial, StagesHold, PTL DEF Spec

\* OverrideOutlivesUp: without overlap, the rollback of Up still finds the
\* override file Up was started with (deploy/deployer.go:145, :198).
THEOREM OverrideIsThere == ASSUME ~Overlap PROVE Spec => []OverrideOutlivesUp
<1>1. TypeOK /\ StagesInv /\ SerialInv => OverrideOutlivesUp
  <2> SUFFICES ASSUME StagesInv, SerialInv, NEW d \in Deployers,
                      At(d, "undo"), Undoing(d, "up")
               PROVE  override = TagOf[d]
    BY DEF OverrideOutlivesUp
  <2>1. StageInv(d) /\ OwnHost(d)
    BY DEF StagesInv, SerialInv
  <2>2. undo[d] = 2
    BY <2>1 DEF At, Undoing, StageInv, Registered, Undone
  <2> QED BY <2>1, <2>2 DEF At, OwnHost, Undoes
<1> QED BY <1>1, SerialHolds, PTL

\* ReportedRollbackIsClean: without overlap, a rollback that reports success
\* has removed what its invocation brought to the host (deploy/rollback.go:77).
THEOREM RollbackIsClean == ASSUME ~Overlap PROVE Spec => ReportedRollbackIsClean
<1> DEFINE Clean == \A d \in Deployers : pc[d] # "rolledBack" /\ pc'[d] = "rolledBack" =>
                      running' \cap Own(d) = {} /\ override' = NoTag
<1>1. TypeOK /\ StagesInv /\ SerialInv /\ [Next]_vars => [Clean]_vars
  <2> SUFFICES ASSUME TypeOK, SerialInv, Next, NEW e \in Deployers,
                      pc[e] # "rolledBack", pc'[e] = "rolledBack"
               PROVE  running' \cap Own(e) = {} /\ override' = NoTag
    BY DEF vars
  <2>1. Step(e) \/ Interrupted(e)
    <3>1. ~ContainerExits /\ ~UNCHANGED vars
      BY DEF ContainerExits, vars
    <3> QED BY <3>1, OthersStay DEF Next
  <2>2. CompareStates(e)
    <3>1. pc \in [Deployers -> Stages]
      BY DEF TypeOK, FlowType
    <3> USE <3>1 DEF Goto, Refuse
    <3>2. ~Forward(e)
      BY DEF Forward, Start, PushImages, LoadState, WriteOverride, PullImages, Up,
         Inspect, Healthy, HealthTimeout, LoadRoutes, Route, RouteReturns, DownOld,
         UpdateState
    <3>3. ~(\/ BeginRollback(e) \/ UndoOverride(e) \/ UndoUp(e) \/ UndoTraffic(e)
            \/ VerifyStep(e) \/ Interrupted(e))
      BY DEF BeginRollback, UndoOverride, UndoUp, UndoTraffic, VerifyStep, Interrupted,
         NextStep, StepFails, StepDone
    <3> QED BY <2>1, <3>2, <3>3 DEF Step, Backward
  <2>3. ~failed[e] /\ undo[e] = 0 /\ pc[e] = "undo"
    BY <2>2 DEF CompareStates, Goto, Outcome, At, TypeOK, FlowType
  <2>4. running \cap Own(e) = {} /\ override = NoTag
    BY <2>3 DEF SerialInv, OwnHost, Smooth, Undoes, UpUndone, OverrideUndone
  <2> QED BY <2>2, <2>4 DEF CompareStates, hostVars
<1> QED BY <1>1, SerialHolds, PTL DEF Spec, ReportedRollbackIsClean

-----------------------------------------------------------------------------
(* Why DeployedAppRuns fails: every deploy that gets as far as it can is    *)
(* undone.                                                                  *)

\* An invocation that has changed the routes and then comes to its end, in a
\* run without a fault, takes its release and its override file away again,
\* unless the verification of its traffic rollback kills it.
DeployIsUndone ==
  [][\A d \in Deployers :
       /\ pc[d] \notin Ended /\ pc'[d] \in Ended \ {"crashed"} /\ faults' = 0
       /\ HasRouted(d)
       => running' \cap Own(d) = {} /\ override' = NoTag]_vars

\* Who has registered the step of the traffic manager is past it.
LEMMA PastRouting ==
  ASSUME TypeOK, StagesInv, NEW d \in Deployers,
         HasRouted(d)
  PROVE  pc[d] \in {"downOld", "downOldAgain", "update", "rollback", "undo",
                    "verify"} \cup Ended
<1>1. StageInv(d) /\ pc[d] \in Stages /\ steps[d] \in Seq(StepNames)
  BY DEF TypeOK, FlowType, StagesInv
<1>2. PICK i \in 1..Len(steps[d]) : steps[d][i] = "traffic"
  BY <1>1 DEF HasRouted
<1>3. \A n \in 0..2 : ~Registered(d, n)
  BY <1>1, <1>2 DEF Registered
<1> QED BY <1>1, <1>3 DEF StageInv, Stages

\* Without overlap no deploy leaves its release on the host: UpdateState
\* panics on the compose file nobody has put into CurrentState, and the
\* rollback that follows works (state/manager.go:36, :78, deploy/deployer.go:271).
THEOREM NoDeployStays == ASSUME ~Overlap PROVE Spec => DeployIsUndone
<1> DEFINE Gone == \A d \in Deployers :
                     /\ pc[d] \notin Ended /\ pc'[d] \in Ended \ {"crashed"} /\ faults' = 0
                     /\ HasRouted(d)
                     => running' \cap Own(d) = {} /\ override' = NoTag
<1>1. TypeOK /\ StagesInv /\ SerialInv /\ [Next]_vars => [Gone]_vars
  <2> SUFFICES ASSUME TypeOK, StagesInv, SerialInv, Next, NEW e \in Deployers,
                      pc[e] \notin Ended, pc'[e] \in Ended \ {"crashed"},
                      faults' = 0, HasRouted(e)
               PROVE  running' \cap Own(e) = {} /\ override' = NoTag
    BY DEF vars
  <2>0. faults \in Nat /\ pc \in [Deployers -> Stages] /\ OwnHost(e)
    BY DeployerConstants DEF TypeOK, FlowType, SerialInv
  <2>1. ~Fault
    BY <2>0 DEF Fault
  <2>2. Step(e) \/ Interrupted(e)
    <3>1. ~ContainerExits /\ ~UNCHANGED vars
      BY DEF ContainerExits, vars
    <3> QED BY <3>1, OthersStay DEF Next
  <2>3. pc[e] \in {"downOld", "downOldAgain", "update", "rollback", "undo", "verify"}
    BY PastRouting
  <2>4. CompareStates(e)
    <3> USE <2>0, <2>1, <2>3 DEF Goto, Refuse, At, Ended
    <3>1. ~DownOld(e)
      <4> SUFFICES ASSUME DownOld(e) PROVE FALSE
        OBVIOUS
      <4>1. override # NoTag
        BY DeployerConstants DEF DownOld, OwnHost
      <4> QED BY <4>1 DEF DownOld, DownFails, OverrideExists
    <3>2. ~(Forward(e) /\ ~DownOld(e))
      BY DEF Forward, Start, PushImages, LoadState, WriteOverride, PullImages, Up,
         Inspect, Healthy, HealthTimeout, LoadRoutes, Route, RouteReturns, UpdateState
    <3>3. ~(\/ BeginRollback(e) \/ UndoOverride(e) \/ UndoUp(e) \/ UndoTraffic(e)
            \/ VerifyStep(e) \/ Interrupted(e))
      BY DEF BeginRollback, UndoOverride, UndoUp, UndoTraffic, VerifyStep, Interrupted,
         NextStep, StepFails, StepDone
    <3> QED BY <2>2, <3>1, <3>2, <3>3 DEF Step, Backward
  <2>5. undo[e] = 0 /\ pc[e] = "undo" /\ faults = 0 /\ UNCHANGED hostVars
    BY <2>1, <2>4 DEF CompareStates, At, NoFault
  <2>6. running \cap Own(e) = {} /\ override = NoTag
    BY <2>0, <2>5 DEF OwnHost, Smooth, Undoes, UpUndone, OverrideUndone
  <2> QED BY <2>5, <2>6 DEF hostVars
<1> QED BY <1>1, SerialHolds, PTL DEF Spec, DeployIsUndone

-----------------------------------------------------------------------------
(* One deploy file for a commit.                                            *)

\* A deploy file that was begun stays, and is begun only by a manager that did
\* not find it.
FileInv(d) ==
  /\ deployConfig[d] # NoConfig => files[TagOf[d]] # NoConfig
  /\ call[d] \in {"create", "write"} =>
       /\ target[d] = TagOf[d] /\ snapshot[d][TagOf[d]] = NoConfig
       /\ todo[d] \subseteq Traffic!Present(snapshot[d])
  /\ call[d] = "write" => deployConfig[d] # NoConfig
UnloadedInv(d) == pc[d] = "idle" => call[d] = "idle"

Missed(d) ==
  call[d] \in {"loaded", "create", "write"} /\ snapshot[d][TagOf[d]] = NoConfig
\* No other invocation of d's commit has written its file.
Only(d) ==
  \A e \in Deployers : e # d /\ TagOf[e] = TagOf[d] => deployConfig[e] = NoConfig

OnceInv ==
  \A d \in Deployers :
    /\ FileInv(d) /\ UnloadedInv(d)
    /\ Active(d) /\ Missed(d) => Only(d)
    /\ deployConfig[d] # NoConfig => Only(d)

\* What a step of the traffic manager does to its own invocation and others.
LEMMA RoutingStep ==
  ASSUME TypeOK, NEW d \in Deployers, FileInv(d), NEW old \in Tags \cup {NoTag},
         \/ Traffic!Load(d) \/ Traffic!Deploy(d, old, TagOf[d])
         \/ Traffic!DeployStep(d)
  PROVE  /\ FileInv(d)'
         /\ \A t \in Tags : files[t] # NoConfig => files'[t] # NoConfig
         /\ Missed(d)' => Missed(d) \/ files[TagOf[d]] = NoConfig
         /\ deployConfig'[d] # NoConfig => deployConfig[d] # NoConfig \/ Missed(d)
         /\ \A e \in Deployers : e # d =>
              /\ call'[e] = call[e] /\ target'[e] = target[e] /\ todo'[e] = todo[e]
              /\ snapshot'[e] = snapshot[e] /\ deployConfig'[e] = deployConfig[e]
<1>0. Traffic!TypeOK
  BY DEF TypeOK, FlowType
<1>1. /\ TagOf[d] \in Tags /\ TagOf[d] # NoTag
      /\ TagOf[d] \in Traffic!FileNames /\ Tags \subseteq Traffic!FileNames
      /\ Traffic!Truncated # NoConfig
  BY DeployerConstants DEF Traffic!FileNames, Traffic!Truncated, Traffic!Forms
<1> USE <1>0, <1>1 DEF Traffic!TypeOK, Traffic!Goto, Traffic!Returned,
        Traffic!Contents, FileInv, Missed
<1>2. CASE Traffic!Load(d)
  BY <1>2 DEF Traffic!Load
<1>3. CASE Traffic!Deploy(d, old, TagOf[d])
  BY <1>3 DEF Traffic!Deploy, Traffic!Verdict, Traffic!HasDeployConfigs
<1>4. CASE Traffic!CreateConfig(d)
  <2>1. PICK f \in todo[d] :
          \/ /\ deployConfig' = [deployConfig EXCEPT ![d] = snapshot[d][f]]
             /\ files' = [files EXCEPT ![target[d]] = Traffic!Truncated]
             /\ todo' = [todo EXCEPT ![d] = @ \ {f}] /\ Traffic!Goto(d, "write")
          \/ /\ UNCHANGED <<files, todo, deployConfig>>
             /\ Traffic!Goto(d, "error") \/ Traffic!Goto(d, "panic")
    BY <1>4 DEF Traffic!CreateConfig, Traffic!Retarget
  <2>2. snapshot[d][f] # NoConfig
    BY <1>4, <2>1 DEF Traffic!CreateConfig, Traffic!Present
  <2>3. call[d] = "create" /\ UNCHANGED <<snapshot, target>>
    BY <1>4 DEF Traffic!CreateConfig
  <2> QED BY <2>1, <2>2, <2>3
<1>5. CASE Traffic!WriteConfig(d)
  <2>1. PICK c : c # NoConfig /\ files' = [files EXCEPT ![target[d]] = c]
    BY <1>5 DEF Traffic!WriteConfig, Traffic!Parts
  <2>2. /\ call[d] = "write" /\ UNCHANGED <<snapshot, target, todo, deployConfig>>
        /\ Traffic!Goto(d, "create") \/ Traffic!Goto(d, "error")
    BY <1>5 DEF Traffic!WriteConfig
  <2> QED BY <2>1, <2>2
<1>6. CASE \/ Traffic!ConfigsCreated(d) \/ Traffic!Healthy(d)
           \/ Traffic!HealthTimeout(d) \/ Traffic!FinishDeploy(d)
  BY <1>6 DEF Traffic!ConfigsCreated, Traffic!Healthy, Traffic!HealthTimeout,
     Traffic!FinishDeploy
<1> QED BY <1>2, <1>3, <1>4, <1>5, <1>6 DEF Traffic!DeployStep

\* No other step of DeployProject or Rollback touches the traffic manager, and
\* none makes an ended invocation active or idle.
LEMMA NotRouting ==
  ASSUME TypeOK, NEW d \in Deployers, Step(d) \/ Interrupted(d)
  PROVE  /\ \/ UNCHANGED trafficVars
            \/ Traffic!Load(d)
            \/ \E old \in Tags \cup {NoTag} : Traffic!Deploy(d, old, TagOf[d])
            \/ Traffic!DeployStep(d)
         /\ UNCHANGED trafficVars \/ Active(d)
         /\ Active(d)' => Active(d) \/ pc[d] = "idle"
         /\ pc'[d] # "idle"
<1>0. pc \in [Deployers -> Stages] /\ current \in [Deployers -> Records]
  BY DEF TypeOK, FlowType, DataType
<1> USE <1>0 DEF At, Goto, Refuse, Active, Ended
<1>1. CASE LoadRoutes(d)
  BY <1>1 DEF LoadRoutes
<1>2. CASE Route(d)
  <2>1. current[d].tag \in Tags \cup {NoTag}
    BY DEF Records
  <2> QED BY <1>2, <2>1 DEF Route
<1>3. CASE Start(d) \/ PushImages(d) \/ LoadState(d) \/ WriteOverride(d)
  BY <1>3 DEF Start, PushImages, LoadState, WriteOverride
<1>4. CASE PullImages(d) \/ Up(d) \/ Inspect(d) \/ Healthy(d) \/ HealthTimeout(d)
  BY <1>4 DEF PullImages, Up, Inspect, Healthy, HealthTimeout
<1>5. CASE RouteReturns(d) \/ DownOld(d) \/ UpdateState(d) \/ Interrupted(d)
  BY <1>5 DEF RouteReturns, DownOld, UpdateState, Interrupted
<1>6. CASE Backward(d)
  <2> USE DEF NextStep, StepFails, StepDone
  <2>1. CASE CompareStates(d)
    BY <2>1 DEF CompareStates, Outcome
  <2>2. CASE BeginRollback(d) \/ UndoOverride(d) \/ UndoUp(d)
    BY <2>2 DEF BeginRollback, UndoOverride, UndoUp
  <2>3. CASE UndoTraffic(d) \/ VerifyStep(d)
    BY <2>3 DEF UndoTraffic, VerifyStep
  <2> QED BY <1>6, <2>1, <2>2, <2>3 DEF Backward
<1> QED BY <1>1, <1>2, <1>3, <1>4, <1>5, <1>6 DEF Step, Forward

LEMMA InitOnce == Init => OnceInv
<1> SUFFICES ASSUME Init, NEW d \in Deployers
             PROVE  /\ call[d] = "idle" /\ deployConfig[d] = NoConfig
  BY DEF OnceInv, FileInv, UnloadedInv, Missed
<1> QED BY DEF Init, Traffic!Init

LEMMA NextOnce ==
  ASSUME ~Overlap
  PROVE  TypeOK /\ Alone /\ OnceInv /\ [Next]_vars => OnceInv'
<1> SUFFICES ASSUME TypeOK, Alone, OnceInv, [Next]_vars PROVE OnceInv'
  OBVIOUS
<1>0. \A d \in Deployers : TagOf[d] \in Tags
  BY DeployerConstants
<1>1. ASSUME NEW d \in Deployers, Step(d) \/ Interrupted(d) PROVE OnceInv'
  <2>0. /\ \A e \in Deployers : e # d => pc'[e] = pc[e]
        /\ \A e \in Deployers : e # d => ~Active(e)'
    BY <1>1, OthersStay, OneMoves
  <2>1. CASE UNCHANGED trafficVars
    <3>1. Active(d)' => Active(d) \/ ~Missed(d)
      BY <1>1, NotRouting DEF OnceInv, UnloadedInv, Missed
    <3>2. \A e \in Deployers :
            /\ FileInv(e)' <=> FileInv(e)
            /\ Missed(e)' <=> Missed(e)
            /\ Only(e)' <=> Only(e)
            /\ call'[e] = call[e] /\ deployConfig'[e] = deployConfig[e]
      BY <2>1 DEF trafficVars, FileInv, Missed, Only
    <3>3. pc'[d] # "idle"
      BY <1>1, NotRouting
    <3> QED BY <2>0, <3>1, <3>2, <3>3 DEF OnceInv, UnloadedInv
  <2>2. CASE ~UNCHANGED trafficVars
    <3>1. Active(d) /\ pc'[d] # "idle"
      BY <1>1, <2>2, NotRouting
    <3>2. PICK old \in Tags \cup {NoTag} :
            \/ Traffic!Load(d) \/ Traffic!Deploy(d, old, TagOf[d])
            \/ Traffic!DeployStep(d)
      BY <1>1, <2>2, NotRouting
    <3>3. FileInv(d)
      BY DEF OnceInv
    <3>4. /\ FileInv(d)'
          /\ \A t \in Tags : files[t] # NoConfig => files'[t] # NoConfig
          /\ Missed(d)' => Missed(d) \/ files[TagOf[d]] = NoConfig
          /\ deployConfig'[d] # NoConfig => deployConfig[d] # NoConfig \/ Missed(d)
          /\ \A e \in Deployers : e # d =>
               /\ call'[e] = call[e] /\ target'[e] = target[e] /\ todo'[e] = todo[e]
               /\ snapshot'[e] = snapshot[e] /\ deployConfig'[e] = deployConfig[e]
      BY <3>2, <3>3, RoutingStep
    <3>5. files[TagOf[d]] = NoConfig => Only(d)
      BY DEF OnceInv, FileInv, Only
    <3>6. Only(d)' <=> Only(d)
      BY <3>4 DEF Only
    <3>7. /\ Active(d)' /\ Missed(d)' => Only(d)'
          /\ deployConfig'[d] # NoConfig => Only(d)'
      BY <3>1, <3>4, <3>5, <3>6 DEF OnceInv
    <3>8. ASSUME NEW e \in Deployers, e # d
          PROVE  /\ FileInv(e)' /\ UnloadedInv(e)'
                 /\ deployConfig'[e] # NoConfig => Only(e)'
      <4>1. FileInv(e)'
        BY <1>0, <3>4, <3>8 DEF OnceInv, FileInv
      <4>2. UnloadedInv(e)'
        BY <2>0, <3>4, <3>8 DEF OnceInv, UnloadedInv
      <4>3. ASSUME deployConfig'[e] # NoConfig, NEW f \in Deployers, f # e,
                   TagOf[f] = TagOf[e]
            PROVE  deployConfig'[f] = NoConfig
        <5>1. deployConfig[e] # NoConfig /\ Only(e)
          BY <3>4, <3>8, <4>3 DEF OnceInv
        <5>2. CASE f = d
          BY <3>7, <3>8, <4>3, <5>2 DEF Only
        <5>3. CASE f # d
          BY <3>4, <4>3, <5>1, <5>3 DEF Only
        <5> QED BY <5>2, <5>3
      <4> QED BY <4>1, <4>2, <4>3 DEF Only
    <3>9. UnloadedInv(d)'
      BY <3>1 DEF UnloadedInv
    <3> QED BY <2>0, <3>4, <3>7, <3>8, <3>9 DEF OnceInv
  <2> QED BY <2>1, <2>2
<1>2. CASE ContainerExits \/ UNCHANGED vars
  <2>1. UNCHANGED <<trafficVars, pc>>
    BY <1>2 DEF ContainerExits, vars
  <2> QED BY <2>1 DEF trafficVars, OnceInv, FileInv, UnloadedInv, Missed, Only, Active
<1> QED BY <1>1, <1>2 DEF Next

\* The invariant holds in every behaviour without overlap.
THEOREM OnceHolds == ASSUME ~Overlap PROVE Spec => [](TypeOK /\ OnceInv)
<1>1. SerialInv => Alone
  BY DEF SerialInv
<1> QED BY <1>1, InitOnce, NextOnce, SerialHolds, PTL DEF Spec

\* RoutedOnce: without overlap, a commit's deploy file is written by one
\* invocation, however many follow after it ended, failed or died
\* (loadbalancer/traffic.go:74).
THEOREM CommitsRouteOnce == ASSUME ~Overlap PROVE Spec => []RoutedOnce
<1>1. OnceInv => RoutedOnce
  BY DEF OnceInv, RoutedOnce, Published, Only
<1> QED BY <1>1, OnceHolds, PTL


-----------------------------------------------------------------------------
(* The traffic managers of all invocations together, seen without the rest  *)
(* of DeployProject, behave as TrafficManager says: what is proved there    *)
(* holds here.                                                              *)

\* A step of an invocation is a step of its traffic manager or none.
LEMMA ManagerStep ==
  ASSUME TypeOK, NEW d \in Deployers, Step(d) \/ Interrupted(d)
  PROVE  UNCHANGED trafficVars \/ Proofs!Step(d)
<1>1. \/ UNCHANGED trafficVars
      \/ Traffic!Load(d)
      \/ \E old \in Tags \cup {NoTag} : Traffic!Deploy(d, old, TagOf[d])
      \/ Traffic!DeployStep(d)
  BY NotRouting
<1>2. Proofs!MayStart(d)
  BY DEF Proofs!MayStart
<1>3. /\ Traffic!Load(d) => Proofs!Load(d)
      /\ Traffic!DeployStep(d) => Proofs!DeployStep(d)
      /\ \A old : Traffic!Deploy(d, old, TagOf[d]) => Proofs!Deploy(d, old, TagOf[d])
  BY SameTraffic
<1> QED BY Zenon, <1>1, <1>2, <1>3 DEF Proofs!Step

\* DeployProject drives its traffic manager the way TrafficManager allows:
\* one Load, then one Deploy for its own commit, in every behaviour
\* (deploy/deployer.go:214-218).
THEOREM TrafficIsImplemented == Spec => Proofs!Spec
<1>1. Init => Proofs!Init
  BY DEF Init, Traffic!Init, Proofs!Init, Traffic!Contents, Proofs!Contents,
     Traffic!Configs, Proofs!Configs, Traffic!Forms, Proofs!Forms,
     Traffic!FileNames, Proofs!FileNames, Traffic!Empty, Proofs!Empty
<1>2. TypeOK /\ [Next]_vars => [Proofs!Next]_Proofs!vars
  <2> SUFFICES ASSUME TypeOK, [Next]_vars PROVE Proofs!Next \/ UNCHANGED Proofs!vars
    OBVIOUS
  <2>1. UNCHANGED trafficVars => UNCHANGED Proofs!vars
    BY DEF trafficVars, Proofs!vars
  <2>2. CASE ContainerExits \/ UNCHANGED vars
    BY <2>1, <2>2 DEF ContainerExits, vars
  <2>3. CASE \E d \in Deployers : Step(d) \/ Interrupted(d)
    BY <2>1, <2>3, ManagerStep DEF Proofs!Next
  <2> QED BY <2>2, <2>3 DEF Next
<1> QED BY <1>1, <1>2, TypeCorrect, PTL DEF Spec, Proofs!Spec

\* RoutedFromGoodFiles of TrafficManager, for whole deploys: however
\* invocations overlap, fail and die, a release is routed only from a directory
\* whose files were all whole when they were loaded.
THEOREM DeploysRouteFromGoodFiles == Spec => []Proofs!RoutedFromGoodFiles
<1>1. Proofs!Spec => []Proofs!RoutedFromGoodFiles
  BY TrafficParameters, Proofs!GoodFilesOnly
<1> QED BY <1>1, TrafficIsImplemented, PTL

\* And for whole deploys no route ever points to the release deployed.
THEOREM DeploysMoveNoRoute == Spec => []Proofs!NothingPointsToARelease
<1>1. Proofs!Spec => []Proofs!NothingPointsToARelease
  BY TrafficParameters, Proofs!NoRouteMoves
<1> QED BY <1>1, TrafficIsImplemented, PTL


-----------------------------------------------------------------------------
(* Routes settle in whole deploys.  TrafficManager alone shows it for        *)
(* deploys of different commits, and for managers that run one after the    *)
(* other to their end.  Serial deploys are more than that: a commit is      *)
(* deployed again after its first invocation died in the middle of a write. *)

ManagersInv == \A d \in Deployers : Proofs!FileInv(d)

\* Only the file of its own commit is written by an invocation, and no other
\* invocation of the commit has written it.
LEMMA WritesItsOwn ==
  ASSUME TypeOK, OnceInv, OnceInv', ManagersInv, NEW d \in Deployers,
         Proofs!Step(d), files' # files, NEW e \in Deployers
  PROVE  /\ \A t \in Proofs!FileNames : t # TagOf[d] => files'[t] = files[t]
         /\ e # d /\ TagOf[e] = TagOf[d] => deployConfig[e] = NoConfig
         /\ call[d] \in {"create", "write"}
<1>0. Proofs!TypeOK
  BY SameTraffic DEF TypeOK, FlowType
<1>1. \/ /\ call[d] = "create" /\ call'[d] = "write"
         /\ files' = [files EXCEPT ![target[d]] = Proofs!Truncated]
      \/ /\ call[d] = "write" /\ call'[d] = "create"
         /\ files' = [files EXCEPT ![target[d]] = deployConfig[d]]
      \/ /\ call[d] = "write" /\ call'[d] = "error"
         /\ \E part \in Proofs!Parts(deployConfig[d]) :
              files' = [files EXCEPT ![target[d]] = part]
  BY <1>0, TrafficParameters, Proofs!FilesStep
<1>2. target[d] = TagOf[d]
  BY <1>1 DEF ManagersInv, Proofs!FileInv, Proofs!Looping
<1>3. \A t \in Proofs!FileNames : t # TagOf[d] => files'[t] = files[t]
  BY <1>0, <1>1, <1>2 DEF Proofs!TypeOK, Proofs!Contents
<1>4. e # d /\ TagOf[e] = TagOf[d] => deployConfig[e] = NoConfig
  <2>1. CASE call'[d] = "write"
    <3>1. Only(d)'
      BY <2>1 DEF OnceInv, FileInv
    <3>2. e # d => deployConfig'[e] = deployConfig[e]
      BY <1>0, TrafficParameters, Proofs!ConfigFrame
    <3> QED BY <3>1, <3>2 DEF Only
  <2>2. CASE call[d] = "write"
    BY <2>2 DEF OnceInv, FileInv, Only
  <2> QED BY <1>1, <2>1, <2>2
<1> QED BY <1>1, <1>3, <1>4

\* So what a manager knows of its file stays true.
LEMMA ManagersKeep ==
  ASSUME TypeOK, OnceInv, OnceInv', ManagersInv, NEW d \in Deployers,
         Proofs!Step(d), NEW e \in Deployers
  PROVE  Proofs!FileInv(e)'
<1>0. Proofs!TypeOK
  BY SameTraffic DEF TypeOK, FlowType
<1>1. CASE e = d
  BY <1>0, <1>1, TrafficParameters, Proofs!FileStep DEF ManagersInv
<1>2. CASE e # d
  <2>1. /\ call'[e] = call[e] /\ target'[e] = target[e]
        /\ snapshot'[e] = snapshot[e] /\ todo'[e] = todo[e]
    BY <1>0, <1>2, TrafficParameters, Proofs!TrafficFrame
  <2>2. deployConfig'[e] = deployConfig[e]
    BY <1>0, <1>2, TrafficParameters, Proofs!ConfigFrame
  <2>3. Proofs!FileInv(e)
    BY DEF ManagersInv
  <2>4. CASE files' = files
    BY <2>1, <2>2, <2>3, <2>4 DEF Proofs!FileInv, Proofs!Whole, Proofs!Settled,
       Proofs!Routed, Proofs!Present
  <2>5. CASE files' # files
    <3>1. /\ \A t \in Proofs!FileNames : t # TagOf[d] => files'[t] = files[t]
          /\ TagOf[e] = TagOf[d] => deployConfig[e] = NoConfig
      BY <1>2, <2>5, WritesItsOwn
    <3>2. TagOf[e] \in Tags /\ TagOf[e] \in Proofs!FileNames
      BY DeployerConstants DEF Proofs!FileNames
    <3>3. call[e] \in Proofs!Looping \/ Proofs!Settled(e) => target[e] = TagOf[e]
      BY <2>3 DEF Proofs!FileInv, Proofs!Settled, Proofs!Routed
    <3>4. deployConfig[e] # NoConfig => files'[TagOf[e]] = files[TagOf[e]]
      BY <3>1, <3>2
    <3> QED BY <2>1, <2>2, <2>3, <3>3, <3>4 DEF Proofs!FileInv, Proofs!Whole,
            Proofs!Settled, Proofs!Routed, Proofs!Present, Proofs!Looping
  <2> QED BY <2>4, <2>5
<1> QED BY <1>1, <1>2

\* And nobody touches the file of a commit whose route has settled.
LEMMA SettledStays ==
  ASSUME TypeOK, OnceInv, OnceInv', ManagersInv, NEW d \in Deployers,
         Proofs!Step(d), files' # files
  PROVE  TagOf[d] \notin Proofs!SettledTags
<1> SUFFICES ASSUME NEW e \in Deployers, Proofs!Settled(e), target[e] = TagOf[d]
             PROVE  FALSE
  BY DEF Proofs!SettledTags
<1>1. Proofs!FileInv(e)
  BY DEF ManagersInv
<1>2. TagOf[e] = TagOf[d] /\ deployConfig[e] # NoConfig
  BY <1>1, DeployerConstants DEF Proofs!FileInv, Proofs!Settled
<1>3. e = d
  BY <1>2, WritesItsOwn
<1>4. call[d] \in {"create", "write"}
  BY WritesItsOwn
<1> QED BY <1>3, <1>4 DEF Proofs!Settled, Proofs!Routed

\* RoutesSettle of TrafficManager, for whole deploys: a deploy file appears
\* empty, is filled, may be opened again while its deploy is under way, and
\* once the deploy reported its route it is never written or removed.  It
\* holds for overlapping deploys of different commits, and for any sequence of
\* deploys in which invocations die at any point and commits are tried again
\* (loadbalancer/traffic.go:59-109).
THEOREM DeploysSettleRoutes ==
  ASSUME ~Overlap \/ \A d, e \in Deployers : TagOf[d] = TagOf[e] => d = e
  PROVE  Spec => Proofs!RoutesSettle
<1>1. ASSUME \A d, e \in Deployers : TagOf[d] = TagOf[e] => d = e
      PROVE  Spec => Proofs!RoutesSettle
  <2>1. Proofs!CommitsApart
    BY <1>1 DEF Proofs!CommitsApart
  <2>2. Proofs!Spec => Proofs!RoutesSettle
    BY <2>1, TrafficParameters, Proofs!RoutesImplementLifecycle
  <2> QED BY <2>2, TrafficIsImplemented, PTL
<1>2. ASSUME ~Overlap PROVE Spec => Proofs!RoutesSettle
  <2>1. Init => ManagersInv /\ Proofs!Lifecycle!Init
    <3> SUFFICES ASSUME Init PROVE ManagersInv /\ Proofs!Lifecycle!Init
      OBVIOUS
    <3>1. Proofs!Init
      BY DEF Init, Traffic!Init, Proofs!Init, Traffic!Contents, Proofs!Contents,
         Traffic!Configs, Proofs!Configs, Traffic!Forms, Proofs!Forms,
         Traffic!FileNames, Proofs!FileNames, Traffic!Empty, Proofs!Empty
    <3>2. Proofs!LifeInv /\ Proofs!Lifecycle!Init
      BY <3>1, TrafficParameters, Proofs!InitLife
    <3> QED BY <3>2 DEF Proofs!LifeInv, ManagersInv
  <2>2. TypeOK /\ OnceInv /\ OnceInv' /\ ManagersInv /\ [Next]_vars => ManagersInv'
    <3> SUFFICES ASSUME TypeOK, OnceInv, OnceInv', ManagersInv, [Next]_vars
                 PROVE  ManagersInv'
      OBVIOUS
    <3>1. CASE UNCHANGED trafficVars
      BY <3>1 DEF trafficVars, ManagersInv, Proofs!FileInv, Proofs!Whole, Proofs!Settled,
         Proofs!Routed, Proofs!Present, Proofs!Looping
    <3>2. CASE \E d \in Deployers : Proofs!Step(d)
      BY <3>2, ManagersKeep DEF ManagersInv
    <3>3. ContainerExits \/ UNCHANGED vars => UNCHANGED trafficVars
      BY DEF ContainerExits, vars
    <3> QED BY <3>1, <3>2, <3>3, ManagerStep DEF Next
  <2>3. TypeOK /\ OnceInv /\ OnceInv' /\ ManagersInv /\ [Next]_vars =>
          [Proofs!Lifecycle!Next]_Proofs!Lifecycle!vars
    <3> SUFFICES ASSUME TypeOK, OnceInv, OnceInv', ManagersInv, [Next]_vars
                 PROVE  [Proofs!Lifecycle!Next]_Proofs!Lifecycle!vars
      OBVIOUS
    <3>1. CASE UNCHANGED trafficVars
      BY <3>1 DEF trafficVars, Proofs!Lifecycle!vars, Proofs!Routes, Proofs!Route,
         Proofs!SettledTags, Proofs!Settled, Proofs!Routed, Proofs!Present
    <3>2. ASSUME NEW d \in Deployers, Proofs!Step(d)
          PROVE  [Proofs!Lifecycle!Next]_Proofs!Lifecycle!vars
      <4>1. Proofs!TypeOK /\ Proofs!FileInv(d)
        BY SameTraffic DEF TypeOK, FlowType, ManagersInv
      <4>2. files' # files => TagOf[d] \notin Proofs!SettledTags
        BY <3>2, SettledStays
      <4> QED BY <3>2, <4>1, <4>2, TrafficParameters, Proofs!RouteStep
    <3>3. ContainerExits \/ UNCHANGED vars => UNCHANGED trafficVars
      BY DEF ContainerExits, vars
    <3> QED BY <3>1, <3>2, <3>3, ManagerStep DEF Next
  <2>4. Spec => [](TypeOK /\ OnceInv)
    BY <1>2, OnceHolds
  <2> QED BY <2>1, <2>2, <2>3, <2>4, PTL DEF Spec, Proofs!RoutesSettle,
          Proofs!Lifecycle!Spec
<1> QED BY <1>1, <1>2


-----------------------------------------------------------------------------
(* The half of DeployEnds that needs no fairness: an invocation that is     *)
(* under way always has a next step, and but for the inspections of the     *)
(* health check, which its timeout ends, it has only so many of them.       *)

\* Where a step of an invocation is possible, by the guards of its operations.
CanGo(d) ==
  \/ pc[d] \in {"push", "load", "override", "up", "healthy", "downOld",
                "downOldAgain", "update", "rollback"}
  \/ pc[d] = "pull" /\ Own(d) \subseteq registry
  \/ pc[d] = "route" /\ call[d] = "idle"
  \/ pc[d] = "routing" /\ (Proofs!CanStep(d) \/ call[d] \in Proofs!Returned)
  \/ pc[d] = "undo" /\ (undo[d] = 0 \/ \E n \in StepNames : Undoing(d, n))
  \/ pc[d] = "verify" /\ \E n \in StepNames : Undoing(d, n)
DeployNeverStuck == \A d \in Deployers : Active(d) => CanGo(d)

\* What was pushed is there to be pulled, and the traffic manager is loaded
\* once, before it is asked to deploy.
ReadyInv ==
  \A d \in Deployers :
    /\ pc[d] \in {"load", "override", "pull"} => Own(d) \subseteq registry
    /\ pc[d] \in {"idle", "push", "load", "override", "pull", "up", "healthy", "route"}
         => call[d] = "idle"
    /\ pc[d] = "routing" => call[d] # "idle"

LEMMA ReadyStep ==
  ASSUME TypeOK, ReadyInv, NEW d \in Deployers, Step(d) \/ Interrupted(d)
  PROVE  ReadyInv'
<1>0. /\ pc \in [Deployers -> Stages] /\ Traffic!TypeOK
      /\ call \in [Deployers -> {"idle", "loaded", "create", "write", "health",
                                 "finish"} \cup Traffic!Returned]
  BY DEF TypeOK, FlowType, Traffic!TypeOK
<1>1. registry \subseteq registry'
  BY RegistryGrows DEF Next
<1>2. ASSUME NEW e \in Deployers, e # d
      PROVE  pc'[e] = pc[e] /\ call'[e] = call[e]
  <2>1. UNCHANGED trafficVars => call'[e] = call[e]
    BY DEF trafficVars
  <2>2. Proofs!TypeOK
    BY SameTraffic DEF TypeOK, FlowType
  <2>3. Proofs!Step(d) => call'[e] = call[e]
    BY <1>2, <2>2, TrafficParameters, Proofs!TrafficFrame
  <2> QED BY <1>2, <2>1, <2>3, ManagerStep, OthersStay
<1>3. /\ pc'[d] \in {"load", "override", "pull"} => Own(d) \subseteq registry'
      /\ pc'[d] \in {"idle", "push", "load", "override", "pull", "up", "healthy", "route"}
           => call'[d] = "idle"
      /\ pc'[d] = "routing" => call'[d] # "idle"
  <2> USE <1>0 DEF At, Goto, Refuse, ReadyInv, trafficVars
  <2>1. CASE PushImages(d) BY <2>1 DEF PushImages
  <2>2. CASE Start(d) \/ LoadState(d) \/ WriteOverride(d) \/ PullImages(d)
    BY <1>1, <2>2 DEF Start, LoadState, WriteOverride, PullImages
  <2>3. CASE Up(d) \/ Inspect(d) \/ Healthy(d) \/ HealthTimeout(d)
    BY <2>3 DEF Up, Inspect, Healthy, HealthTimeout
  <2>4. CASE LoadRoutes(d)
    BY <2>4 DEF LoadRoutes
  <2>5. CASE Route(d)
    <3>1. call[d] # "idle" /\ pc' = pc /\ pc[d] = "routing"
      BY <2>5 DEF Route
    <3>2. call'[d] # "idle"
      <4>1. ASSUME NEW old, NEW tag, Traffic!Deploy(d, old, tag) PROVE call'[d] # "idle"
        BY <4>1 DEF Traffic!Deploy, Traffic!Verdict, Traffic!Goto
      <4>2. ASSUME Traffic!DeployStep(d) PROVE call'[d] # "idle"
        BY <4>2 DEF Traffic!DeployStep, Traffic!CreateConfig, Traffic!WriteConfig,
           Traffic!ConfigsCreated, Traffic!Healthy, Traffic!HealthTimeout,
           Traffic!FinishDeploy, Traffic!Goto
      <4> QED BY <2>5, <4>1, <4>2 DEF Route
    <3> QED BY <3>1, <3>2
  <2>6. CASE RouteReturns(d) \/ DownOld(d) \/ UpdateState(d) \/ Interrupted(d)
    BY <2>6 DEF RouteReturns, DownOld, UpdateState, Interrupted
  <2>7. CASE Backward(d)
    BY <2>7 DEF Backward, BeginRollback, UndoOverride, UndoUp, UndoTraffic, VerifyStep,
       CompareStates, NextStep, StepFails, StepDone, Outcome
  <2> QED BY <2>1, <2>2, <2>3, <2>4, <2>5, <2>6, <2>7 DEF Step, Forward
<1> QED BY <1>1, <1>2, <1>3 DEF ReadyInv, Own

\* Images and the traffic manager are ready when they are needed.
THEOREM ReadyHolds == Spec => [](TypeOK /\ StagesInv /\ ReadyInv)
<1>1. Init => ReadyInv
  <2> SUFFICES ASSUME Init, NEW d \in Deployers PROVE pc[d] = "idle" /\ call[d] = "idle"
    BY DEF ReadyInv
  <2> QED BY DEF Init, Traffic!Init
<1>2. TypeOK /\ ReadyInv /\ [Next]_vars => ReadyInv'
  <2>1. ASSUME ReadyInv, ContainerExits \/ UNCHANGED vars PROVE ReadyInv'
    <3>1. UNCHANGED <<pc, registry, call>>
      BY <2>1 DEF ContainerExits, vars, trafficVars, hostVars
    <3> QED BY <2>1, <3>1 DEF ReadyInv, Own
  <2> QED BY <2>1, ReadyStep DEF Next
<1> QED BY <1>1, <1>2, StagesHold, PTL DEF Spec

\* No invocation that is under way ever waits for something that need not
\* come: images that were not pushed, a manager that was not loaded or that
\* nobody loads, a rollback step without a name, a configuration no branch
\* handles; whatever the other invocations do and wherever they died.
THEOREM DeploysNeverStuck == Spec => []DeployNeverStuck
<1>1. Proofs!Spec => []Proofs!NeverStuck
  BY TrafficParameters, Proofs!ManagersNeverStuck
<1>2. TypeOK /\ StagesInv /\ ReadyInv /\ Proofs!NeverStuck => DeployNeverStuck
  <2> SUFFICES ASSUME TypeOK, StagesInv, ReadyInv, Proofs!NeverStuck,
                      NEW d \in Deployers, Active(d)
               PROVE  CanGo(d)
    BY DEF DeployNeverStuck
  <2>1. pc[d] \in Stages /\ StageInv(d)
    BY DEF TypeOK, FlowType, StagesInv
  <2>2. CASE pc[d] \in {"undo", "verify"}
    <3>1. \/ Registered(d, 2) /\ Undone(d, 2)
          \/ Registered(d, 3) /\ Undone(d, 3)
      BY <2>1, <2>2 DEF StageInv
    <3>2. undo[d] \in 1..3 => \E n \in StepNames : Undoing(d, n)
      BY <3>1 DEF Registered, Undone, Undoing, StepNames
    <3>3. undo[d] \in 0..3 /\ (pc[d] = "verify" => undo[d] > 0)
      BY <3>1 DEF Undone
    <3> QED BY <2>2, <3>2, <3>3 DEF CanGo
  <2>3. CASE pc[d] = "routing"
    <3>1. call[d] # "idle"
      BY <2>3 DEF ReadyInv
    <3>2. Proofs!Busy(d) => Proofs!CanStep(d)
      BY DEF Proofs!NeverStuck
    <3> QED BY <2>3, <3>1, <3>2 DEF CanGo, Proofs!Busy
  <2>4. CASE pc[d] \in {"pull", "route"}
    BY <2>4 DEF CanGo, ReadyInv
  <2>5. CASE pc[d] \notin {"undo", "verify", "routing", "pull", "route"}
    BY <2>1, <2>5 DEF CanGo, Active, Stages
  <2> QED BY <2>2, <2>3, <2>4, <2>5
<1> QED BY <1>1, <1>2, ReadyHolds, TrafficIsImplemented, PTL

\* The steps DeployProject and its rollback may still take, without those of
\* the traffic manager.
StagesLeft(d) ==
  CASE pc[d] = "idle" -> 19
    [] pc[d] = "push" -> 18
    [] pc[d] = "load" -> 17
    [] pc[d] = "override" -> 16
    [] pc[d] = "pull" -> 15
    [] pc[d] = "up" -> 14
    [] pc[d] = "healthy" -> 13
    [] pc[d] \in {"route", "routing"} -> 12
    [] pc[d] = "downOld" -> 11
    [] pc[d] = "downOldAgain" -> 10
    [] pc[d] = "update" -> 9
    [] pc[d] = "rollback" -> 8
    [] pc[d] = "undo" -> 2 * undo[d] + 1
    [] pc[d] = "verify" -> 2 * undo[d]
    [] pc[d] \in Ended -> 0
Remaining(d) == StagesLeft(d) + Proofs!StepsLeft(d)

\* Every step of an invocation other than an inspection uses up one of those it
\* has left, and no step of another one adds to them.
DeployRunsDown ==
  [][\A d \in Deployers :
       /\ Remaining(d)' <= Remaining(d)
       /\ Step(d) /\ ~Inspect(d) => Remaining(d)' < Remaining(d)]_vars

\* What a step that is none of the traffic manager's does to StagesLeft.
LEMMA StagesDown ==
  ASSUME TypeOK, StagesInv, NEW d \in Deployers, Step(d) \/ Interrupted(d),
         ~Inspect(d), ~LoadRoutes(d), ~Route(d)
  PROVE  StagesLeft(d)' < StagesLeft(d) /\ UNCHANGED trafficVars
<1>0. /\ pc \in [Deployers -> Stages] /\ undo \in [Deployers -> Nat]
      /\ failed \in [Deployers -> BOOLEAN] /\ undo[d] \in Nat /\ pc[d] \in Stages
  BY DEF TypeOK, FlowType, RollbackType
<1> USE <1>0 DEF At, Goto, Refuse, StagesLeft, Ended
<1>1. CASE Start(d) \/ PushImages(d) \/ LoadState(d) \/ WriteOverride(d)
  BY <1>1 DEF Start, PushImages, LoadState, WriteOverride, Ended
<1>2. CASE PullImages(d) \/ Up(d) \/ Healthy(d) \/ HealthTimeout(d)
  BY <1>2 DEF PullImages, Up, Healthy, HealthTimeout, Ended
<1>3. CASE RouteReturns(d) \/ DownOld(d) \/ UpdateState(d)
  BY <1>3 DEF RouteReturns, DownOld, UpdateState, Ended
<1>4. CASE BeginRollback(d)
  <2>1. undo'[d] = Len(steps[d]) /\ pc'[d] = "undo" /\ pc[d] = "rollback"
        /\ UNCHANGED trafficVars
    BY <1>4 DEF BeginRollback
  <2>2. Len(steps[d]) \in {2, 3}
    BY <2>1 DEF StagesInv, StageInv, Registered
  <2>3. undo'[d] \in {2, 3}
    BY <2>1, <2>2
  <2>4. StagesLeft(d)' = 2 * undo'[d] + 1 /\ StagesLeft(d) = 8
    BY <2>1, <2>3
  <2> HIDE DEF StagesLeft
  <2>5. StagesLeft(d)' < StagesLeft(d)
    BY <2>3, <2>4
  <2> QED BY <2>1, <2>5
<1>5. CASE UndoOverride(d) \/ UndoUp(d) \/ UndoTraffic(d) \/ VerifyStep(d)
  <2>0. UNCHANGED trafficVars /\ undo[d] > 0 /\ pc[d] \in {"undo", "verify"}
    BY <1>5 DEF UndoOverride, UndoUp, UndoTraffic, VerifyStep, Undoing
  <2>1. CASE pc'[d] = "crashed"
    <3>1. StagesLeft(d)' = 0
      BY <2>1 DEF Ended
    <3>2. StagesLeft(d) \in {2 * undo[d], 2 * undo[d] + 1}
      BY <2>0
    <3> HIDE DEF StagesLeft
    <3>3. StagesLeft(d)' < StagesLeft(d)
      BY <1>0, <2>0, <3>1, <3>2
    <3> QED BY <2>0, <3>3
  <2> SUFFICES ASSUME pc'[d] # "crashed" PROVE StagesLeft(d)' < StagesLeft(d)
    BY <2>0, <2>1
  <2>5. /\ undo[d] > 0
        /\ \/ /\ pc'[d] = "undo" /\ undo'[d] = undo[d] - 1
              /\ pc[d] \in {"undo", "verify"}
           \/ pc'[d] = "verify" /\ undo'[d] = undo[d] /\ pc[d] = "undo"
    BY <1>5 DEF UndoOverride, UndoUp, UndoTraffic, VerifyStep, Undoing, StepFails,
       StepDone, NextStep
  <2>2. StagesLeft(d) \in {2 * undo[d], 2 * undo[d] + 1}
    BY <2>5
  <2>3. CASE pc'[d] = "undo"
    <3>1. StagesLeft(d)' = 2 * (undo[d] - 1) + 1
      BY <2>5, <2>3
    <3> QED BY <2>5, <2>2, <3>1
  <2>4. CASE pc'[d] = "verify"
    <3>1. StagesLeft(d)' = 2 * undo[d] /\ StagesLeft(d) = 2 * undo[d] + 1
      BY <2>5, <2>4
    <3> QED BY <2>5, <3>1
  <2> QED BY <2>5, <2>3, <2>4
<1>6. CASE CompareStates(d)
  <2>1. pc'[d] \in Ended /\ pc[d] = "undo" /\ UNCHANGED trafficVars
    BY <1>6 DEF CompareStates, Outcome, Ended
  <2>2. StagesLeft(d)' = 0
    BY <2>1 DEF Ended
  <2>3. StagesLeft(d) = 2 * undo[d] + 1
    BY <2>1
  <2> QED BY <2>1, <2>2, <2>3
<1>7. CASE Interrupted(d)
  <2>1. pc'[d] = "crashed" /\ pc[d] \notin {"idle"} \cup Ended /\ UNCHANGED trafficVars
    BY <1>7 DEF Interrupted, Active
  <2>2. pc[d] = "verify" => undo[d] > 0
    BY DEF StagesInv, StageInv, Undone
  <2> QED BY <2>1, <2>2 DEF Ended, Stages
<1> QED BY <1>1, <1>2, <1>3, <1>4, <1>5, <1>6, <1>7 DEF Step, Forward, Backward

\* The instance brings its own definition of a finite set.
LEMMA SameFinite ==
  ASSUME NEW S, IsFiniteSet(S)
  PROVE  Proofs!IsFiniteSet(S)
BY DEF IsFiniteSet, Proofs!IsFiniteSet

\* The counts are natural numbers.
LEMMA CountsOK ==
  ASSUME TypeOK, NEW d \in Deployers
  PROVE  /\ StagesLeft(d) \in Nat
         /\ TypeOK' => StagesLeft(d)' \in Nat
         /\ IsFiniteSet(Proofs!FileNames) => Proofs!StepsLeft(d) \in Nat
<1>1. StagesLeft(d) \in Nat
  BY DEF TypeOK, FlowType, RollbackType, StagesLeft, Stages, Ended
<1>2. TypeOK' => StagesLeft(d)' \in Nat
  BY DEF TypeOK, FlowType, RollbackType, StagesLeft, Stages, Ended
<1>3. ASSUME IsFiniteSet(Proofs!FileNames) PROVE Proofs!StepsLeft(d) \in Nat
  <2>1. Proofs!TypeOK
    BY SameTraffic DEF TypeOK, FlowType
  <2>2. Proofs!IsFiniteSet(Proofs!FileNames)
    BY <1>3, SameFinite
  <2> QED BY <2>1, <2>2, TrafficParameters, Proofs!SizesOK
<1> QED BY <1>1, <1>2, <1>3

LEMMA RemainingDown ==
  ASSUME TypeOK, TypeOK', StagesInv, Proofs!ParsedInv, IsFiniteSet(Proofs!FileNames),
         NEW d \in Deployers, Step(d) \/ Interrupted(d)
  PROVE  /\ Remaining(d)' <= Remaining(d)
         /\ ~Inspect(d) => Remaining(d)' < Remaining(d)
<1>0. /\ StagesLeft(d) \in Nat /\ StagesLeft(d)' \in Nat
      /\ Proofs!StepsLeft(d) \in Nat
  BY CountsOK
<1>1. UNCHANGED trafficVars => Proofs!StepsLeft(d)' = Proofs!StepsLeft(d)
  BY DEF trafficVars, Proofs!StepsLeft, Proofs!Left
<1>2. CASE Inspect(d)
  <2>1. UNCHANGED trafficVars /\ StagesLeft(d)' = StagesLeft(d)
    BY <1>2 DEF Inspect, StagesLeft, rollbackVars
  <2> QED BY <1>0, <1>1, <1>2, <2>1 DEF Remaining
<1>3. CASE LoadRoutes(d) \/ Route(d)
  <2>1. Proofs!Step(d)
    <3>1. /\ Traffic!Load(d) => Proofs!Load(d)
          /\ Traffic!DeployStep(d) => Proofs!DeployStep(d)
          /\ \A old : Traffic!Deploy(d, old, TagOf[d]) => Proofs!Deploy(d, old, TagOf[d])
      BY SameTraffic
    <3>2. current[d].tag \in Tags \cup {NoTag}
      BY DEF TypeOK, DataType, Records
    <3>3. Proofs!MayStart(d)
      BY DEF Proofs!MayStart
    <3> QED BY <1>3, <3>1, <3>2, <3>3 DEF LoadRoutes, Route, Proofs!Step
  <2>2. Proofs!TypeOK
    BY SameTraffic DEF TypeOK, FlowType
  <2>3. Proofs!StepsLeft(d)' \in Nat /\ Proofs!StepsLeft(d)' < Proofs!StepsLeft(d)
    <3>1. Proofs!IsFiniteSet(Proofs!FileNames)
      BY SameFinite
    <3> QED BY <2>1, <2>2, <3>1, TrafficParameters, Proofs!CountsDown
  <2>4. /\ pc[d] \in {"route", "routing"} /\ pc'[d] \in {"routing", "refused"}
    BY <1>3 DEF LoadRoutes, Route, At, Goto, TypeOK, FlowType
  <2>5. StagesLeft(d) = 12 /\ StagesLeft(d)' \in {0, 12}
    BY <2>4 DEF StagesLeft, Ended
  <2> QED BY <1>0, <2>3, <2>5 DEF Remaining
<1>4. CASE ~Inspect(d) /\ ~LoadRoutes(d) /\ ~Route(d)
  <2>1. StagesLeft(d)' < StagesLeft(d) /\ UNCHANGED trafficVars
    BY <1>4, StagesDown
  <2> QED BY <1>0, <1>1, <2>1 DEF Remaining
<1> QED BY <1>2, <1>3, <1>4

\* An invocation ends after at most 24 steps, two more for each file its
\* traffic manager may meet, and the inspections of one health check, which
\* HealthTimeout cuts off (deploy/deployer.go:184): no retry, rollback or
\* configuration written by somebody else makes it go round again.
THEOREM DeploysRunDown ==
  ASSUME IsFiniteSet(BaseFiles \cup Tags) PROVE Spec => DeployRunsDown
<1>0. IsFiniteSet(Proofs!FileNames)
  BY DEF Proofs!FileNames
<1>1. TypeOK /\ TypeOK' /\ StagesInv /\ Proofs!ParsedInv /\ [Next]_vars =>
        [\A d \in Deployers :
           /\ Remaining(d)' <= Remaining(d)
           /\ Step(d) /\ ~Inspect(d) => Remaining(d)' < Remaining(d)]_vars
  <2> SUFFICES ASSUME TypeOK, TypeOK', StagesInv, Proofs!ParsedInv, Next,
                      NEW d \in Deployers
               PROVE  /\ Remaining(d)' <= Remaining(d)
                      /\ Step(d) /\ ~Inspect(d) => Remaining(d)' < Remaining(d)
    BY DEF vars
  <2>1. CASE Step(d) \/ Interrupted(d)
    BY <1>0, <2>1, RemainingDown
  <2>2. CASE ~(Step(d) \/ Interrupted(d))
    <3>1. pc'[d] = pc[d] /\ undo'[d] = undo[d]
      <4>1. ContainerExits \/ UNCHANGED vars => pc' = pc /\ undo' = undo
        BY DEF ContainerExits, vars, rollbackVars
      <4>2. ASSUME NEW e \in Deployers, Step(e) \/ Interrupted(e)
            PROVE  pc'[d] = pc[d] /\ undo'[d] = undo[d]
        BY <2>2, <4>2, OthersStay
      <4> QED BY <4>1, <4>2 DEF Next
    <3>2. call'[d] = call[d] /\ todo'[d] = todo[d]
      <4>1. ContainerExits \/ UNCHANGED vars => UNCHANGED trafficVars
        BY DEF ContainerExits, vars
      <4>2. ASSUME NEW e \in Deployers, e # d, Proofs!Step(e)
            PROVE  call'[d] = call[d] /\ todo'[d] = todo[d]
        <5>1. Proofs!TypeOK
          BY SameTraffic DEF TypeOK, FlowType
        <5> QED BY <4>2, <5>1, TrafficParameters, Proofs!TrafficFrame
      <4>3. UNCHANGED trafficVars => call'[d] = call[d] /\ todo'[d] = todo[d]
        BY DEF trafficVars
      <4> QED BY <2>2, <4>1, <4>2, <4>3, ManagerStep DEF Next
    <3>3. StagesLeft(d)' = StagesLeft(d) /\ Proofs!StepsLeft(d)' = Proofs!StepsLeft(d)
      BY <3>1, <3>2 DEF StagesLeft, Proofs!StepsLeft, Proofs!Left
    <3>4. StagesLeft(d) \in Nat /\ Proofs!StepsLeft(d) \in Nat
      BY <1>0, CountsOK
    <3> QED BY <2>2, <3>3, <3>4 DEF Remaining
  <2> QED BY <2>1, <2>2
<1>2. Proofs!Spec => []Proofs!ParsedInv
  <2>1. Proofs!Spec => [](Proofs!TypeOK /\ Proofs!ParsedInv)
    BY TrafficParameters, Proofs!ParsedHolds
  <2> QED BY <2>1, PTL
<1> QED BY <1>1, <1>2, StagesHold, TrafficIsImplemented, PTL DEF Spec, DeployRunsDown
=============================================================================
