------------------------ MODULE TrafficManagerProofs ------------------------
(* Theorems about TrafficManager for every value of its constants.          *)
EXTENDS TrafficManager, Naturals, FiniteSetTheorems, TLAPS

\* The steps of one manager keep the type invariant.
LEMMA TrafficType ==
  ASSUME TypeOK, NEW d \in Deployers,
         NEW old \in Tags \cup {NoTag}, NEW tag \in Tags \cup {NoTag},
         Load(d) \/ Deploy(d, old, tag) \/ DeployStep(d)
  PROVE  TypeOK'
<1> USE TrafficConstants DEF TypeOK, Goto, Returned, FileNames, Configs, Contents
<1>1. CASE Load(d)
  <2>1. /\ snapshot' \in {snapshot, [snapshot EXCEPT ![d] = files]}
        /\ call' \in {[call EXCEPT ![d] = "loaded"], [call EXCEPT ![d] = "error"]}
        /\ UNCHANGED <<files, target, todo, deployConfig>>
    BY <1>1 DEF Load
  <2>2. snapshot' \in [Deployers -> Contents]
    BY <2>1
  <2>3. call' \in [Deployers -> {"idle", "loaded", "create", "write", "health",
                                 "finish"} \cup Returned]
    BY <2>1
  <2> QED BY <2>1, <2>2, <2>3
<1>2. CASE Deploy(d, old, tag)
  <2>1. /\ UNCHANGED <<files, snapshot, deployConfig>>
        /\ call' = [call EXCEPT ![d] = Verdict(d, old, tag)]
    BY <1>2 DEF Deploy
  <2>2. Verdict(d, old, tag) \in {"ok", "error", "create"}
    BY DEF Verdict
  <2>3. Verdict(d, old, tag) = "create" => tag \in Tags
    BY DEF Verdict
  <2>4. target' \in [Deployers -> Tags \cup {NoTag}]
    BY <1>2, <2>3 DEF Deploy
  <2>5. todo' \in [Deployers -> SUBSET (BaseFiles \cup Tags)]
    BY <1>2 DEF Deploy, Present
  <2> QED BY <2>1, <2>2, <2>4, <2>5
<1>3. CASE CreateConfig(d)
  <2> USE DEF CreateConfig
  <2>1. UNCHANGED <<snapshot, target>>
    BY <1>3
  <2>2. call' \in [Deployers -> {"idle", "loaded", "create", "write", "health",
                                 "finish"} \cup Returned]
    BY <1>3
  <2>3. PICK f \in todo[d] :
          \/ UNCHANGED <<files, todo, deployConfig>>
          \/ /\ deployConfig' = [deployConfig EXCEPT ![d] = snapshot[d][f]]
             /\ files' = [files EXCEPT ![target[d]] = Truncated]
             /\ todo' = [todo EXCEPT ![d] = @ \ {f}]
    BY <1>3 DEF Retarget
  <2>4. Truncated \in [form : Forms, backend : Tags \cup {NoTag}]
    BY DEF Truncated, Forms
  <2>5. snapshot[d][f] \in Configs /\ Truncated \in Configs
    BY <2>4
  <2>6. files' \in Contents
    BY <2>3, <2>5
  <2>7. deployConfig' \in [Deployers -> Configs]
    BY <2>3, <2>5
  <2>8. todo' \in [Deployers -> SUBSET FileNames]
    BY <2>3
  <2> QED BY <2>1, <2>2, <2>6, <2>7, <2>8
<1>4. CASE WriteConfig(d)
  <2>1. \A part \in Parts(deployConfig[d]) : part \in Configs
    BY DEF Parts, Truncated, Forms
  <2>2. files' \in Contents
    BY <1>4, <2>1 DEF WriteConfig
  <2>3. /\ UNCHANGED <<snapshot, target, todo, deployConfig>>
        /\ call' \in [Deployers -> {"idle", "loaded", "create", "write", "health",
                                    "finish"} \cup Returned]
    BY <1>4 DEF WriteConfig
  <2> QED BY <2>2, <2>3
<1>5. CASE ConfigsCreated(d) \/ Healthy(d) \/ HealthTimeout(d) \/ FinishDeploy(d)
  BY <1>5 DEF ConfigsCreated, Healthy, HealthTimeout, FinishDeploy
<1> QED
  BY <1>1, <1>2, <1>3, <1>4, <1>5 DEF DeployStep

\* The state of the managers always has its types, whatever is in the
\* directory and however many managers there are.
THEOREM TrafficTypeCorrect == Spec => []TypeOK
<1>1. Init => TypeOK
  BY TrafficConstants DEF Init, TypeOK, Empty, Configs, Contents, FileNames
<1>2. TypeOK /\ [Next]_vars => TypeOK'
  <2> SUFFICES ASSUME TypeOK, [Next]_vars PROVE TypeOK'
    OBVIOUS
  <2>1. ASSUME NEW d \in Deployers, Step(d) PROVE TypeOK'
    <3>1. TagOf[d] \in Tags \cup {NoTag} /\ NoTag \in Tags \cup {NoTag}
      BY TrafficConstants
    <3>2. \E old \in Tags \cup {NoTag} :
            Load(d) \/ Deploy(d, old, TagOf[d]) \/ DeployStep(d)
      BY <2>1, <3>1 DEF Step
    <3> QED BY <3>1, <3>2, TrafficType
  <2>2. CASE UNCHANGED vars
    BY <2>2 DEF vars, TypeOK
  <2> QED BY <2>1, <2>2 DEF Next
<1> QED BY <1>1, <1>2, PTL DEF Spec

-----------------------------------------------------------------------------
(* RoutedFromGoodFiles, with what the loop of createDeployConfigs has       *)
(* already looked at.                                                       *)

Looping == {"create", "write", "health", "finish"}

GoodInv(d) ==
  /\ call[d] \in {"idle", "loaded"} => target[d] = NoTag
  /\ call[d] \in Looping \/ Routed(d) =>
       \A f \in Present(snapshot[d]) \ todo[d] : snapshot[d][f].form = "good"
  /\ call[d] \in {"health", "finish"} \/ Routed(d) => todo[d] = {}

\* A step of one manager leaves the private state of the others alone.
LEMMA TrafficFrame ==
  ASSUME TypeOK, NEW d \in Deployers, Step(d), NEW e \in Deployers, e # d
  PROVE  /\ call'[e] = call[e] /\ target'[e] = target[e]
         /\ snapshot'[e] = snapshot[e] /\ todo'[e] = todo[e]
<1> USE DEF TypeOK, Goto
<1>1. CASE Load(d) BY <1>1 DEF Load
<1>2. ASSUME NEW old, Deploy(d, old, TagOf[d])
      PROVE  /\ call'[e] = call[e] /\ target'[e] = target[e]
             /\ snapshot'[e] = snapshot[e] /\ todo'[e] = todo[e]
  BY <1>2 DEF Deploy
<1>3. CASE CreateConfig(d) BY <1>3 DEF CreateConfig
<1>4. CASE WriteConfig(d) \/ ConfigsCreated(d) \/ Healthy(d) \/ HealthTimeout(d)
           \/ FinishDeploy(d)
  BY <1>4 DEF WriteConfig, ConfigsCreated, Healthy, HealthTimeout, FinishDeploy
<1> QED BY <1>1, <1>2, <1>3, <1>4 DEF Step, DeployStep

\* A release is routed only from a directory whose loaded files were all
\* whole and usable.
THEOREM GoodFilesOnly == Spec => []RoutedFromGoodFiles
<1>1. Init => \A d \in Deployers : GoodInv(d)
  BY DEF Init, GoodInv, Looping, Routed
<1>2. TypeOK /\ (\A d \in Deployers : GoodInv(d)) /\ [Next]_vars
        => (\A d \in Deployers : GoodInv(d))'
  <2> SUFFICES ASSUME TypeOK, \A d \in Deployers : GoodInv(d), [Next]_vars
               PROVE  \A d \in Deployers : GoodInv(d)'
    OBVIOUS
  <2>1. ASSUME NEW d \in Deployers, Step(d), NEW e \in Deployers PROVE GoodInv(e)'
    <3>1. CASE e # d
      BY <2>1, <3>1, TrafficFrame DEF GoodInv, Routed, Present
    <3>2. CASE e = d
      <4> USE <2>1 DEF TypeOK, Goto, GoodInv, Looping, Routed
      <4>1. CASE Load(d) BY <4>1 DEF Load
      <4>2. ASSUME NEW old \in Tags \cup {NoTag}, Deploy(d, old, TagOf[d])
            PROVE  GoodInv(d)'
        <5>1. Verdict(d, old, TagOf[d]) \in {"ok", "error", "create"}
          BY DEF Verdict
        <5>2. CASE Verdict(d, old, TagOf[d]) = "create"
          <6>1. snapshot[d][TagOf[d]] = NoConfig
            BY <5>2 DEF Verdict, HasDeployConfigs
          <6>2. todo'[d] = Present(snapshot[d]) \ {TagOf[d]} /\ snapshot' = snapshot
            BY <4>2, <5>2 DEF Deploy
          <6>3. Present(snapshot[d])' \ todo'[d] = {}
            BY <6>1, <6>2 DEF Present
          <6>4. call'[d] = "create"
            BY <4>2, <5>2 DEF Deploy
          <6> QED BY <6>3, <6>4
        <5>3. CASE Verdict(d, old, TagOf[d]) # "create"
          BY <4>2, <5>1, <5>3 DEF Deploy
        <5> QED BY <5>2, <5>3
      <4>3. CASE CreateConfig(d) BY <4>3 DEF CreateConfig, Present
      <4>4. CASE WriteConfig(d) BY <4>4 DEF WriteConfig, Present
      <4>5. CASE ConfigsCreated(d) BY <4>5 DEF ConfigsCreated, Present
      <4>6. CASE Healthy(d) \/ HealthTimeout(d) \/ FinishDeploy(d)
        BY <4>6 DEF Healthy, HealthTimeout, FinishDeploy, Present
      <4> QED BY <2>1, <3>2, <4>1, <4>2, <4>3, <4>4, <4>5, <4>6 DEF Step, DeployStep
    <3> QED BY <3>1, <3>2
  <2>2. CASE UNCHANGED vars
    BY <2>2 DEF vars, GoodInv, Looping, Routed, Present
  <2> QED BY <2>1, <2>2 DEF Next
<1>3. (\A d \in Deployers : GoodInv(d)) => RoutedFromGoodFiles
  BY DEF GoodInv, RoutedFromGoodFiles
<1> QED BY <1>1, <1>2, <1>3, TrafficTypeCorrect, PTL DEF Spec

-----------------------------------------------------------------------------
(* The refinement of RouteLifecycle.  Two deploys of one commit must not be *)
(* under way at once: the check for an existing deploy file looks at the    *)
(* directory as it was loaded, so both would write it.                      *)

CommitsApart ==
  ~Overlap \/ \A d, e \in Deployers : TagOf[d] = TagOf[e] => d = e

\* What is in the deploy file of a manager at each point of its loop.
Whole(t) == files[t] \notin {NoConfig, Truncated}
FileInv(d) ==
  /\ target[d] \in {NoTag, TagOf[d]}
  /\ call[d] \in {"idle", "loaded"} =>
       target[d] = NoTag /\ deployConfig[d] = NoConfig /\ todo[d] = {}
  /\ todo[d] \subseteq Present(snapshot[d])
  /\ call[d] \in Looping => target[d] = TagOf[d]
  /\ deployConfig[d] # NoConfig => deployConfig[d].form = "good"
  /\ call[d] = "write" =>
       deployConfig[d] # NoConfig /\ files[target[d]] = Truncated
  /\ call[d] \in Looping \ {"write"} \/ Settled(d) =>
       (deployConfig[d] # NoConfig => Whole(target[d]))
  /\ call[d] = "create" /\ ~(Present(snapshot[d]) \subseteq todo[d]) =>
       deployConfig[d] # NoConfig
  /\ call[d] \in {"health", "finish"} \/ Routed(d) =>
       (Present(snapshot[d]) # {} => deployConfig[d] # NoConfig)

\* A manager that writes the file of a commit is alone with it: nobody else
\* is on the way to it, and nobody has settled it.
Alone(d, e) ==
  d # e /\ TagOf[d] = TagOf[e] =>
    /\ ~(Busy(d) /\ Busy(e))
    /\ Settled(e) => /\ call[d] \notin Looping
                     /\ call[d] = "loaded" => snapshot[d][TagOf[d]] # NoConfig

LifeInv ==
  /\ \A d \in Deployers : FileInv(d)
  /\ \A d, e \in Deployers : Alone(d, e)

\* What a step of one manager does to files.
LEMMA FilesStep ==
  ASSUME TypeOK, NEW d \in Deployers, Step(d)
  PROVE  \/ files' = files
         \/ /\ call[d] = "create" /\ call'[d] = "write"
            /\ files' = [files EXCEPT ![target[d]] = Truncated]
         \/ /\ call[d] = "write" /\ call'[d] = "create"
            /\ files' = [files EXCEPT ![target[d]] = deployConfig[d]]
         \/ /\ call[d] = "write" /\ call'[d] = "error"
            /\ \E part \in Parts(deployConfig[d]) :
                 files' = [files EXCEPT ![target[d]] = part]
<1> USE DEF TypeOK, Goto
<1>1. CASE Load(d) BY <1>1 DEF Load
<1>2. CASE \E old \in Tags \cup {NoTag} : Deploy(d, old, TagOf[d])
  BY <1>2 DEF Deploy
<1>3. CASE CreateConfig(d) BY <1>3 DEF CreateConfig
<1>4. CASE WriteConfig(d) BY <1>4 DEF WriteConfig
<1>5. CASE ConfigsCreated(d) \/ Healthy(d) \/ HealthTimeout(d) \/ FinishDeploy(d)
  BY <1>5 DEF ConfigsCreated, Healthy, HealthTimeout, FinishDeploy
<1> QED BY <1>1, <1>2, <1>3, <1>4, <1>5 DEF Step, DeployStep

\* A step of one manager leaves the configuration of the others alone, too.
LEMMA ConfigFrame ==
  ASSUME TypeOK, NEW d \in Deployers, Step(d), NEW e \in Deployers, e # d
  PROVE  deployConfig'[e] = deployConfig[e]
<1> USE DEF TypeOK
<1>1. CASE Load(d) BY <1>1 DEF Load
<1>2. CASE \E old \in Tags \cup {NoTag} : Deploy(d, old, TagOf[d])
  BY <1>2 DEF Deploy
<1>3. CASE CreateConfig(d) BY <1>3 DEF CreateConfig
<1>4. CASE WriteConfig(d) \/ ConfigsCreated(d) \/ Healthy(d) \/ HealthTimeout(d)
           \/ FinishDeploy(d)
  BY <1>4 DEF WriteConfig, ConfigsCreated, Healthy, HealthTimeout, FinishDeploy
<1> QED BY <1>1, <1>2, <1>3, <1>4 DEF Step, DeployStep

\* Its own step keeps what a manager knows of its file.
LEMMA FileStep ==
  ASSUME TypeOK, NEW d \in Deployers, FileInv(d), Step(d)
  PROVE  FileInv(d)'
<1>0. TagOf[d] \in Tags /\ TagOf[d] # NoTag
  BY TrafficConstants
<1> USE <1>0, TrafficConstants
    DEF TypeOK, Goto, FileInv, Looping, Routed, Settled, Whole, Returned
<1>1. CASE Load(d) BY <1>1 DEF Load
<1>2. ASSUME NEW old \in Tags \cup {NoTag}, Deploy(d, old, TagOf[d])
      PROVE  FileInv(d)'
  <2>1. Verdict(d, old, TagOf[d]) \in {"ok", "error", "create"}
    BY DEF Verdict
  <2>2. CASE Verdict(d, old, TagOf[d]) = "create"
    <3>1. snapshot[d][TagOf[d]] = NoConfig
      BY <2>2 DEF Verdict, HasDeployConfigs
    <3>2. todo'[d] = Present(snapshot[d]) /\ snapshot' = snapshot
      BY <1>2, <2>2, <3>1 DEF Deploy, Present
    <3>3. /\ call'[d] = "create" /\ target'[d] = TagOf[d]
          /\ UNCHANGED <<files, deployConfig>>
      BY <1>2, <2>2 DEF Deploy
    <3>4. deployConfig[d] = NoConfig
      BY <1>2 DEF Deploy
    <3> QED BY <3>2, <3>3, <3>4 DEF Present
  <2>3. CASE Verdict(d, old, TagOf[d]) # "create"
    BY <1>2, <2>1, <2>3 DEF Deploy
  <2> QED BY <2>2, <2>3
<1>3. CASE CreateConfig(d)
  <2>1. PICK f \in todo[d] :
          \/ /\ UNCHANGED <<files, todo, deployConfig>>
             /\ call'[d] \in {"error", "panic"}
          \/ /\ snapshot[d][f].form = "good"
             /\ deployConfig'[d] = snapshot[d][f]
             /\ todo'[d] = todo[d] \ {f}
             /\ files'[target[d]] = Truncated
             /\ call'[d] = "write"
    BY <1>3 DEF CreateConfig, Retarget, FileNames, Contents
  <2>2. call[d] = "create" /\ UNCHANGED <<snapshot, target>>
    BY <1>3 DEF CreateConfig
  <2>3. CASE call'[d] \in {"error", "panic"}
    BY <2>1, <2>2, <2>3
  <2>4. CASE call'[d] = "write"
    <3>1. snapshot[d][f] # NoConfig
      BY DEF Present
    <3>2. todo'[d] \subseteq Present(snapshot[d])'
      BY <2>1, <2>2, <2>4 DEF Present
    <3> QED BY <2>1, <2>2, <2>4, <3>1, <3>2
  <2> QED BY <2>1, <2>3, <2>4
<1>4. CASE WriteConfig(d)
  <2>1. call[d] = "write" /\ UNCHANGED <<snapshot, target, todo, deployConfig>>
    BY <1>4 DEF WriteConfig
  <2>2. deployConfig[d] # NoConfig /\ deployConfig[d] # Truncated
    BY <2>1 DEF Truncated
  <2>3. \/ call'[d] = "error"
        \/ call'[d] = "create" /\ files'[target[d]] = deployConfig[d]
    BY <1>4 DEF WriteConfig, FileNames, Contents
  <2> QED BY <2>1, <2>2, <2>3
<1>5. CASE ConfigsCreated(d) BY <1>5 DEF ConfigsCreated, Present
<1>6. CASE Healthy(d) \/ HealthTimeout(d) \/ FinishDeploy(d)
  BY <1>6 DEF Healthy, HealthTimeout, FinishDeploy, Present
<1> QED BY <1>1, <1>2, <1>3, <1>4, <1>5, <1>6 DEF Step, DeployStep

\* The step of another manager keeps what a manager knows of its file: only a
\* manager of the same commit could touch it, and none is under way.
LEMMA FileOther ==
  ASSUME TypeOK, NEW d \in Deployers, NEW e \in Deployers, e # d,
         FileInv(d), FileInv(e), Alone(d, e), Alone(e, d), Step(d)
  PROVE  FileInv(e)'
<1>1. /\ call'[e] = call[e] /\ target'[e] = target[e]
      /\ snapshot'[e] = snapshot[e] /\ todo'[e] = todo[e]
      /\ deployConfig'[e] = deployConfig[e]
  BY TrafficFrame, ConfigFrame
<1>2. CASE files' = files
  BY <1>1, <1>2 DEF FileInv, Whole, Settled, Routed, Present
<1>3. CASE files' # files
  <2>1. /\ call[d] \in {"create", "write"} /\ target[d] = TagOf[d]
        /\ \A t \in FileNames : t # TagOf[d] => files'[t] = files[t]
    <3>1. call[d] \in {"create", "write"}
      BY <1>3, FilesStep
    <3>2. target[d] = TagOf[d]
      BY <3>1 DEF FileInv, Looping
    <3> QED BY <1>3, <3>1, <3>2, FilesStep DEF TypeOK, Contents
  <2>2. TagOf[e] = TagOf[d] => call[e] \notin Looping /\ ~Settled(e)
    BY <2>1 DEF Alone, Busy, Looping, Returned
  <2>3. target[e] \in Tags => target[e] = TagOf[e] /\ target[e] \in FileNames
    BY TrafficConstants DEF FileInv, FileNames
  <2>4. call[e] \in Looping \/ Settled(e) =>
          target[e] = TagOf[e] /\ files'[target[e]] = files[target[e]]
    <3>1. call[e] \in Looping \/ Settled(e) => target[e] = TagOf[e]
      BY TrafficConstants DEF FileInv, Settled, Routed
    <3>2. TagOf[e] \in FileNames
      BY TrafficConstants DEF FileNames
    <3> QED BY <2>1, <2>2, <3>1, <3>2
  <2> QED BY <1>1, <2>4 DEF FileInv, Whole, Settled, Routed, Present, Looping
<1> QED BY <1>2, <1>3

\* Where a step of a manager starts and ends.
LEMMA CallStep ==
  ASSUME TypeOK, NEW d \in Deployers, Step(d)
  PROVE  \/ /\ call[d] = "idle" /\ MayStart(d) /\ UNCHANGED target
            /\ \/ call'[d] = "error"
               \/ call'[d] = "loaded" /\ snapshot'[d] = files
         \/ /\ call[d] = "loaded" /\ UNCHANGED snapshot
            /\ \/ call'[d] \in {"ok", "error"} /\ UNCHANGED target
               \/ call'[d] = "create" /\ snapshot[d][TagOf[d]] = NoConfig
         \/ /\ call[d] \in Looping /\ UNCHANGED <<snapshot, target>>
            /\ \/ call'[d] \in Looping \cup {"error", "panic"}
               \/ call[d] = "finish" /\ call'[d] = "ok"
<1> USE DEF TypeOK, Goto, Looping
<1>1. CASE MayStart(d) /\ Load(d) BY <1>1 DEF Load
<1>2. ASSUME NEW old \in Tags \cup {NoTag}, Deploy(d, old, TagOf[d])
      PROVE  /\ call[d] = "loaded" /\ UNCHANGED snapshot
             /\ \/ call'[d] \in {"ok", "error"} /\ UNCHANGED target
                \/ call'[d] = "create" /\ snapshot[d][TagOf[d]] = NoConfig
  <2>1. Verdict(d, old, TagOf[d]) \in {"ok", "error", "create"}
    BY DEF Verdict
  <2>2. Verdict(d, old, TagOf[d]) = "create" => snapshot[d][TagOf[d]] = NoConfig
    BY DEF Verdict, HasDeployConfigs
  <2> QED BY <1>2, <2>1, <2>2 DEF Deploy
<1>3. CASE CreateConfig(d) BY <1>3 DEF CreateConfig
<1>4. CASE WriteConfig(d) BY <1>4 DEF WriteConfig
<1>5. CASE ConfigsCreated(d) BY <1>5 DEF ConfigsCreated
<1>6. CASE Healthy(d) \/ HealthTimeout(d) \/ FinishDeploy(d)
  BY <1>6 DEF Healthy, HealthTimeout, FinishDeploy
<1> QED BY <1>1, <1>2, <1>3, <1>4, <1>5, <1>6 DEF Step, DeployStep

\* No step lets a second manager reach the file of a commit.
LEMMA AloneStep ==
  ASSUME TypeOK, CommitsApart, LifeInv, NEW d \in Deployers, Step(d),
         NEW e \in Deployers, NEW f \in Deployers
  PROVE  Alone(e, f)'
<1> SUFFICES ASSUME e # f, TagOf[e] = TagOf[f]
             PROVE  /\ ~(Busy(e)' /\ Busy(f)')
                    /\ Settled(f)' =>
                         /\ call'[e] \notin Looping
                         /\ call'[e] = "loaded" => snapshot'[e][TagOf[e]] # NoConfig
  BY DEF Alone
<1>1. ~Overlap
  BY DEF CommitsApart
<1>2. Alone(e, f) /\ Alone(f, e) /\ FileInv(e) /\ FileInv(f)
  BY DEF LifeInv
<1>3. \A g \in Deployers : g # d =>
        /\ call'[g] = call[g] /\ target'[g] = target[g]
        /\ snapshot'[g] = snapshot[g]
  BY TrafficFrame
<1>4. \A g \in Deployers : g # d => (Busy(g)' <=> Busy(g)) /\ (Settled(g)' <=> Settled(g))
  BY <1>3 DEF Busy, Settled, Routed, Present
<1>5. Busy(d)' => Busy(d) \/ \A g \in Deployers : ~Busy(g)
  BY CallStep, <1>1 DEF Busy, Looping, Returned, MayStart
<1>6. ~(Busy(e)' /\ Busy(f)')
  BY <1>2, <1>4, <1>5 DEF Alone
<1>7. CASE d # e /\ d # f
  BY <1>2, <1>3, <1>4, <1>6, <1>7 DEF Alone
<1>8. CASE d = e
  <2>1. ASSUME Settled(f)
        PROVE  /\ call'[d] \notin Looping
               /\ call'[d] = "loaded" => snapshot'[d][TagOf[d]] # NoConfig
    <3>1. files[TagOf[f]] # NoConfig
      BY <1>2, <2>1, TrafficConstants DEF FileInv, Settled, Routed, Whole
    <3>2. /\ call[d] \notin Looping
          /\ call[d] = "loaded" => snapshot[d][TagOf[d]] # NoConfig
      BY <1>2, <1>8, <2>1 DEF Alone
    <3> QED BY <1>8, <3>1, <3>2, CallStep DEF Looping
  <2> QED BY <1>4, <1>6, <1>8, <2>1
<1>9. CASE d = f
  <2>1. ASSUME Settled(d)' PROVE call[d] = "finish"
    BY <1>2, <1>9, <2>1, CallStep DEF Settled, Routed, FileInv, Looping
  <2>2. ASSUME Settled(d)' PROVE ~Busy(e)'
    BY <1>2, <1>4, <1>9, <2>1, <2>2 DEF Busy, Returned, Alone
  <2> QED BY <1>6, <1>9, <2>2 DEF Busy, Looping, Returned
<1> QED BY <1>7, <1>8, <1>9

\* TypeOK and LifeInv together are inductive.
LEMMA LifeStep ==
  ASSUME TypeOK, CommitsApart, LifeInv, [Next]_vars
  PROVE  LifeInv'
<1>1. ASSUME NEW d \in Deployers, Step(d) PROVE LifeInv'
  <2>1. ASSUME NEW e \in Deployers PROVE FileInv(e)'
    <3>1. CASE e = d BY <1>1, <3>1, FileStep DEF LifeInv
    <3>2. CASE e # d BY <1>1, <3>2, FileOther DEF LifeInv
    <3> QED BY <3>1, <3>2
  <2>2. \A e, f \in Deployers : Alone(e, f)'
    BY <1>1, AloneStep
  <2> QED BY <2>1, <2>2 DEF LifeInv
<1>2. CASE UNCHANGED vars
  BY <1>2 DEF vars, LifeInv, FileInv, Alone, Whole, Settled, Routed, Present, Busy, Looping
<1> QED BY <1>1, <1>2 DEF Next

\* Which commits are settled after the step of a manager.
LEMMA SettledStep ==
  ASSUME TypeOK, NEW d \in Deployers, FileInv(d), Step(d)
  PROVE  \/ SettledTags' = SettledTags
         \/ /\ call[d] = "finish" /\ files[TagOf[d]] \notin {NoConfig, Truncated}
            /\ SettledTags' = SettledTags \cup {TagOf[d]}
<1>1. \A e \in Deployers : e # d =>
        (Settled(e)' <=> Settled(e)) /\ target'[e] = target[e]
  BY TrafficFrame DEF Settled, Routed, Present
<1>2. FileInv(d) /\ FileInv(d)'
  BY FileStep
<1>3. ~Settled(d)
  BY CallStep DEF Settled, Routed, Looping
<1>4. CASE Settled(d)'
  <2>1. call[d] = "finish" /\ call'[d] = "ok" /\ UNCHANGED <<snapshot, target>>
    BY <1>2, <1>4, CallStep DEF Settled, Routed, FileInv, Looping
  <2>2. target[d] = TagOf[d] /\ Whole(TagOf[d])
    BY <1>2, <1>4, <2>1 DEF FileInv, Looping, Settled, Routed, Present
  <2>3. SettledTags' = SettledTags \cup {TagOf[d]}
    BY <1>1, <1>3, <1>4, <2>1, <2>2 DEF SettledTags
  <2> QED BY <2>1, <2>2, <2>3 DEF Whole
<1>5. CASE ~Settled(d)'
  BY <1>1, <1>3, <1>5 DEF SettledTags
<1> QED BY <1>4, <1>5

\* A step of a manager is a step of the life of its commit's route, if it
\* touches no file of a commit that is settled.
LEMMA RouteStep ==
  ASSUME TypeOK, NEW d \in Deployers, FileInv(d), Step(d),
         files' # files => TagOf[d] \notin SettledTags
  PROVE  [Lifecycle!Next]_Lifecycle!vars
<1> DEFINE t == TagOf[d]
<1>0. t \in Tags /\ t \in FileNames
  BY TrafficConstants DEF FileNames
<1>1. Truncated # NoConfig
  BY NoConfigIsNone DEF Truncated, Forms
<1>2. CASE files' = files
  <2>1. Routes' = Routes
    BY <1>2 DEF Routes, Route
  <2>2. CASE SettledTags' = SettledTags
    BY <2>1, <2>2 DEF Lifecycle!vars
  <2>3. CASE SettledTags' # SettledTags
    <3>1. /\ files[t] \notin {NoConfig, Truncated}
          /\ SettledTags' = SettledTags \cup {t}
      BY <2>3, SettledStep
    <3>2. Routes[t] = "published"
      BY <1>0, <3>1 DEF Routes, Route
    <3> QED BY <1>0, <2>1, <3>1, <3>2 DEF Lifecycle!Settle, Lifecycle!Next
  <2> QED BY <2>2, <2>3
<1>3. CASE files' # files
  <2>1. SettledTags' = SettledTags
    BY <1>3, FilesStep, SettledStep
  <2>2. call[d] \in {"create", "write"} /\ target[d] = t /\ t \notin SettledTags
    BY <1>3, FilesStep DEF FileInv, Looping
  <2>3. CASE files' = [files EXCEPT ![t] = Truncated]
    <3>1. Routes' = [Routes EXCEPT ![t] = "partial"]
      BY <1>0, <1>1, <2>3 DEF Routes, Route, TypeOK, Contents, FileNames
    <3> QED BY <1>0, <2>1, <2>2, <3>1 DEF Lifecycle!Open, Lifecycle!Next
  <2>4. ASSUME call[d] = "write", NEW written, written \notin {NoConfig, Truncated},
               files' = [files EXCEPT ![t] = written]
        PROVE  [Lifecycle!Next]_Lifecycle!vars
    <3>1. files[t] = Truncated
      BY <2>2, <2>4 DEF FileInv
    <3>2. Routes' = [Routes EXCEPT ![t] = "published"]
      <4>1. \A u \in Tags :
              files'[u] = IF u = t THEN written ELSE files[u]
        BY <1>0, <2>4 DEF TypeOK, Contents, FileNames
      <4>2. \A u \in Tags :
              Route(u)' = IF u = t THEN "published" ELSE Route(u)
        BY <2>4, <4>1 DEF Route
      <4> QED BY <1>0, <4>2 DEF Routes
    <3>3. Routes[t] = "partial"
      BY <1>0, <1>1, <3>1 DEF Routes, Route
    <3> QED BY <1>0, <2>1, <2>2, <3>2, <3>3 DEF Lifecycle!Publish, Lifecycle!Next
  <2>5. CASE call[d] = "write" /\ files' = [files EXCEPT ![t] = deployConfig[d]]
    <3>1. deployConfig[d] \notin {NoConfig, Truncated}
      BY <2>5 DEF FileInv, Truncated
    <3> QED BY <2>4, <2>5, <3>1
  <2>6. CASE /\ call[d] = "write"
             /\ \E part \in Parts(deployConfig[d]) :
                  files' = [files EXCEPT ![t] = part]
    <3>1. PICK part \in Parts(deployConfig[d]) : files' = [files EXCEPT ![t] = part]
      BY <2>6
    <3>2. part # NoConfig
      BY <1>1 DEF Parts
    <3>3. CASE part = Truncated BY <2>3, <3>1, <3>3
    <3>4. CASE part # Truncated BY <2>4, <2>6, <3>1, <3>2, <3>4
    <3> QED BY <3>3, <3>4
  <2> QED BY <1>3, <2>2, <2>3, <2>5, <2>6, FilesStep
<1> QED BY <1>2, <1>3

\* What holds of files and routes to begin with.
LEMMA InitLife ==
  ASSUME Init
  PROVE  LifeInv /\ Lifecycle!Init
<1>1. \A d \in Deployers : FileInv(d)
  BY DEF Init, FileInv, Looping, Settled, Routed, Present, Empty
<1>2. \A d, e \in Deployers : Alone(d, e)
  BY DEF Init, Alone, Busy, Settled, Routed, Looping
<1>3. Routes = [t \in Tags |-> "absent"]
  <2>1. \A t \in Tags : files[t] = NoConfig
    BY DEF Init
  <2>2. Truncated # NoConfig
    BY NoConfigIsNone DEF Truncated, Forms
  <2> QED BY <2>1, <2>2 DEF Routes, Route
<1>4. SettledTags = {}
  BY DEF Init, SettledTags, Settled, Routed
<1> QED BY <1>1, <1>2, <1>3, <1>4 DEF LifeInv, Lifecycle!Init

\* Deploy files live the life RouteLifecycle describes, for any number of
\* managers, unless two of them deploy the same commit at the same time.
THEOREM RoutesImplementLifecycle ==
  ASSUME CommitsApart PROVE Spec => RoutesSettle
<1>1. Init => LifeInv /\ Lifecycle!Init
  BY InitLife
<1>2. TypeOK /\ LifeInv /\ [Next]_vars => [Lifecycle!Next]_Lifecycle!vars
  <2> SUFFICES ASSUME TypeOK, LifeInv, [Next]_vars
               PROVE  [Lifecycle!Next]_Lifecycle!vars
    OBVIOUS
  <2>1. ASSUME NEW d \in Deployers, Step(d) PROVE [Lifecycle!Next]_Lifecycle!vars
    <3>1. call[d] \in Looping => TagOf[d] \notin SettledTags
      <4> SUFFICES ASSUME call[d] \in Looping, NEW e \in Deployers,
                          Settled(e), target[e] = TagOf[d]
                   PROVE  FALSE
        BY DEF SettledTags
      <4>1. e # d
        BY DEF Settled, Routed, Looping
      <4>2. TagOf[e] = TagOf[d]
        BY TrafficConstants DEF LifeInv, FileInv
      <4> QED BY <4>1, <4>2 DEF LifeInv, Alone
    <3>2. files' # files => call[d] \in Looping
      BY <2>1, FilesStep DEF Looping
    <3>3. FileInv(d)
      BY DEF LifeInv
    <3> QED BY <2>1, <3>1, <3>2, <3>3, RouteStep
  <2>2. CASE UNCHANGED vars
    BY <2>2 DEF vars, Lifecycle!vars, Routes, Route, SettledTags, Settled, Routed, Present
  <2> QED BY <2>1, <2>2 DEF Next
<1>3. TypeOK /\ LifeInv /\ [Next]_vars => LifeInv'
  BY LifeStep
<1> QED
  BY <1>1, <1>2, <1>3, TrafficTypeCorrect, PTL DEF Spec, RoutesSettle, Lifecycle!Spec

-----------------------------------------------------------------------------
(* The half of DeployReturns that needs no fairness: a manager that has     *)
(* begun always has a next step, and it has only so many of them.           *)

\* Where a step of a manager is possible, by the guards of its operations.
CanStep(d) ==
  \/ call[d] \in {"loaded", "write", "health", "finish"}
  \/ /\ call[d] = "create"
     /\ todo[d] = {} \/ \E f \in todo[d] :
          snapshot[d][f].form \in {"good", "noServices", "badURL", "noBalancer"}
NeverStuck == \A d \in Deployers : Busy(d) => CanStep(d)

\* What Load lets through has been parsed, and the loop reaches nothing else.
ParsedInv ==
  \A d \in Deployers :
    /\ \A f \in Present(snapshot[d]) : snapshot[d][f].form # "unparsable"
    /\ todo[d] \subseteq Present(snapshot[d])
    /\ call[d] = "idle" => todo[d] = {}
    /\ call[d] = "write" => deployConfig[d] # NoConfig

LEMMA ParsedStep ==
  ASSUME TypeOK, ParsedInv, NEW d \in Deployers, Step(d)
  PROVE  ParsedInv'
<1>1. ASSUME NEW e \in Deployers, e # d
      PROVE  /\ \A f \in Present(snapshot[e])' : snapshot'[e][f].form # "unparsable"
             /\ todo'[e] \subseteq Present(snapshot[e])'
             /\ call'[e] = "idle" => todo'[e] = {}
             /\ call'[e] = "write" => deployConfig'[e] # NoConfig
  BY <1>1, TrafficFrame, ConfigFrame DEF ParsedInv, Present
<1>2. /\ \A f \in Present(snapshot[d])' : snapshot'[d][f].form # "unparsable"
      /\ todo'[d] \subseteq Present(snapshot[d])'
      /\ call'[d] # "idle"
      /\ call'[d] = "write" => deployConfig'[d] # NoConfig
  <2> USE DEF TypeOK, ParsedInv, Present
  <2>1. CASE Load(d) BY <2>1 DEF Load, Goto
  <2>2. CASE \E old \in Tags \cup {NoTag} : Deploy(d, old, TagOf[d])
    BY <2>2 DEF Deploy, Goto, Verdict
  <2>3. CASE CreateConfig(d)
    <3>1. PICK f \in todo[d] :
            \/ /\ call' = [call EXCEPT ![d] = "write"]
               /\ deployConfig' = [deployConfig EXCEPT ![d] = snapshot[d][f]]
               /\ todo' = [todo EXCEPT ![d] = @ \ {f}]
            \/ /\ call' \in {[call EXCEPT ![d] = c] : c \in {"error", "panic"}}
               /\ UNCHANGED <<todo, deployConfig>>
      BY <2>3 DEF CreateConfig, Retarget, Goto
    <3>2. snapshot[d][f] # NoConfig
      OBVIOUS
    <3>3. snapshot' = snapshot
      BY <2>3 DEF CreateConfig
    <3>4. call'[d] \in {"write", "error", "panic"}
      BY <3>1
    <3>5. todo'[d] \subseteq todo[d]
      BY <3>1
    <3>6. call'[d] = "write" => deployConfig'[d] # NoConfig
      BY <3>1, <3>2
    <3> QED BY <3>3, <3>4, <3>5, <3>6
  <2>4. CASE WriteConfig(d) \/ ConfigsCreated(d) \/ Healthy(d) \/ HealthTimeout(d)
             \/ FinishDeploy(d)
    BY <2>4 DEF WriteConfig, ConfigsCreated, Healthy, HealthTimeout, FinishDeploy, Goto
  <2> QED BY <2>1, <2>2, <2>3, <2>4 DEF Step, DeployStep
<1> QED BY <1>1, <1>2 DEF ParsedInv

\* Loaded configurations are parsed ones in every behaviour.
THEOREM ParsedHolds == Spec => [](TypeOK /\ ParsedInv)
<1>1. Init => ParsedInv
  <2> SUFFICES ASSUME Init, NEW d \in Deployers
               PROVE  /\ Present(snapshot[d]) = {} /\ todo[d] = {}
                      /\ call[d] = "idle"
    BY DEF ParsedInv
  <2> QED BY DEF Init, Present, Empty
<1>2. TypeOK /\ ParsedInv /\ [Next]_vars => ParsedInv'
  <2>1. CASE UNCHANGED vars
    BY <2>1 DEF vars, ParsedInv, Present
  <2> QED BY <2>1, ParsedStep DEF Next
<1> QED BY <1>1, <1>2, TrafficTypeCorrect, PTL DEF Spec

\* A manager that has begun never stands before a configuration that no branch
\* of createDeployConfigs handles: Load refuses a directory with a file that
\* does not parse (loadbalancer/traffic.go:42, :134).
THEOREM ManagersNeverStuck == Spec => []NeverStuck
<1>1. TypeOK /\ ParsedInv => NeverStuck
  <2> SUFFICES ASSUME TypeOK, ParsedInv, NEW d \in Deployers, Busy(d)
               PROVE  CanStep(d)
    BY DEF NeverStuck
  <2>1. ASSUME NEW f \in todo[d]
        PROVE  snapshot[d][f].form \in {"good", "noServices", "badURL", "noBalancer"}
    <3>1. /\ snapshot[d][f] \in Configs \ {NoConfig}
          /\ snapshot[d][f].form # "unparsable"
      BY DEF TypeOK, Contents, ParsedInv, Present
    <3> QED BY <3>1 DEF Configs, Forms
  <2>2. call[d] \in {"loaded", "create", "write", "health", "finish"}
    BY DEF TypeOK, Busy, Returned
  <2> QED BY <2>1, <2>2 DEF CanStep
<1> QED BY <1>1, ParsedHolds, PTL

\* The steps a manager may still take: two for each configuration the loop has
\* not reached, and those before and after the loop.
Left(d) == 2 * Cardinality(todo[d])
StepsLeft(d) ==
  CASE call[d] = "idle" -> 2 * Cardinality(FileNames) + 5
    [] call[d] = "loaded" -> 2 * Cardinality(FileNames) + 4
    [] call[d] = "write" -> Left(d) + 4
    [] call[d] = "create" -> Left(d) + 3
    [] call[d] = "health" -> 2
    [] call[d] = "finish" -> 1
    [] call[d] \in Returned -> 0

\* A step uses up one of the steps its manager has left, and none of another's.
RunsDown ==
  [][\A d \in Deployers :
       IF Step(d) THEN StepsLeft(d)' < StepsLeft(d)
       ELSE StepsLeft(d)' = StepsLeft(d)]_vars

LEMMA SizesOK ==
  ASSUME TypeOK, IsFiniteSet(FileNames), NEW d \in Deployers
  PROVE  /\ IsFiniteSet(todo[d]) /\ Cardinality(todo[d]) \in Nat
         /\ Cardinality(FileNames) \in Nat
         /\ Cardinality(todo[d]) <= Cardinality(FileNames)
         /\ StepsLeft(d) \in Nat
<1>1. todo[d] \subseteq FileNames
  BY DEF TypeOK
<1>2. IsFiniteSet(todo[d]) /\ Cardinality(todo[d]) <= Cardinality(FileNames)
  BY <1>1, FS_Subset
<1>3. Cardinality(todo[d]) \in Nat /\ Cardinality(FileNames) \in Nat
  BY <1>2, FS_CardinalityType
<1>4. call[d] \in {"idle", "loaded", "create", "write", "health", "finish"} \cup Returned
  BY DEF TypeOK
<1>5. StepsLeft(d) \in Nat
  BY <1>3, <1>4 DEF StepsLeft, Left, Returned
<1> QED BY <1>2, <1>3, <1>5

LEMMA CountsDown ==
  ASSUME TypeOK, ParsedInv, IsFiniteSet(FileNames), NEW d \in Deployers, Step(d)
  PROVE  StepsLeft(d)' \in Nat /\ StepsLeft(d)' < StepsLeft(d)
<1>0. /\ IsFiniteSet(todo[d]) /\ Cardinality(todo[d]) \in Nat
      /\ Cardinality(FileNames) \in Nat
      /\ Cardinality(todo[d]) <= Cardinality(FileNames)
  BY SizesOK
<1> USE <1>0 DEF StepsLeft, Left, Goto, TypeOK, Returned
<1>1. CASE Load(d) BY <1>1 DEF Load
<1>2. ASSUME NEW old \in Tags \cup {NoTag}, Deploy(d, old, TagOf[d])
      PROVE  StepsLeft(d)' \in Nat /\ StepsLeft(d)' < StepsLeft(d)
  <2>1. Verdict(d, old, TagOf[d]) \in {"ok", "error", "create"}
    BY DEF Verdict
  <2>2. CASE Verdict(d, old, TagOf[d]) = "create"
    <3>1. todo'[d] \subseteq FileNames /\ call[d] = "loaded" /\ call'[d] = "create"
      BY <1>2, <2>2 DEF Deploy, Present
    <3>2. /\ Cardinality(todo'[d]) \in Nat
          /\ Cardinality(todo'[d]) <= Cardinality(FileNames)
      BY <3>1, FS_Subset, FS_CardinalityType
    <3> QED BY <3>1, <3>2
  <2>3. CASE Verdict(d, old, TagOf[d]) # "create"
    BY <1>2, <2>1, <2>3 DEF Deploy
  <2> QED BY <2>2, <2>3
<1>3. CASE CreateConfig(d)
  <2>1. PICK f \in todo[d] :
          \/ call'[d] \in {"error", "panic"}
          \/ call'[d] = "write" /\ todo'[d] = todo[d] \ {f}
    BY <1>3 DEF CreateConfig
  <2>2. Cardinality(todo[d] \ {f}) = Cardinality(todo[d]) - 1
    BY FS_RemoveElement
  <2>3. call[d] = "create"
    BY <1>3 DEF CreateConfig
  <2>4. CASE call'[d] \in {"error", "panic"}
    BY <2>3, <2>4
  <2>5. CASE call'[d] = "write" /\ Cardinality(todo'[d]) = Cardinality(todo[d]) - 1
    BY <2>3, <2>5
  <2> QED BY <2>1, <2>2, <2>4, <2>5
<1>4. CASE WriteConfig(d) BY <1>4 DEF WriteConfig
<1>5. CASE ConfigsCreated(d) BY <1>5 DEF ConfigsCreated
<1>6. CASE Healthy(d) \/ HealthTimeout(d) \/ FinishDeploy(d)
  BY <1>6 DEF Healthy, HealthTimeout, FinishDeploy
<1> QED BY <1>1, <1>2, <1>3, <1>4, <1>5, <1>6 DEF Step, DeployStep

\* Every manager comes to the end of its Deploy after at most five steps and
\* two for each file name, however the others rewrite the directory meanwhile:
\* the loop goes over the configurations as they were loaded
\* (loadbalancer/traffic.go:42, :134).
THEOREM ManagersRunDown ==
  ASSUME IsFiniteSet(FileNames) PROVE Spec => RunsDown
<1>1. TypeOK /\ ParsedInv /\ [Next]_vars =>
        [\A d \in Deployers : IF Step(d) THEN StepsLeft(d)' < StepsLeft(d)
                              ELSE StepsLeft(d)' = StepsLeft(d)]_vars
  <2> SUFFICES ASSUME TypeOK, ParsedInv, Next, NEW d \in Deployers, ~Step(d)
               PROVE  StepsLeft(d)' = StepsLeft(d)
    BY CountsDown DEF vars
  <2>1. CASE UNCHANGED vars
    BY <2>1 DEF vars, StepsLeft, Left
  <2>2. ASSUME NEW e \in Deployers, Step(e) PROVE StepsLeft(d)' = StepsLeft(d)
    <3>1. call'[d] = call[d] /\ todo'[d] = todo[d]
      BY <2>2, TrafficFrame
    <3> QED BY <3>1 DEF StepsLeft, Left
  <2> QED BY <2>1, <2>2 DEF Next
<1> QED BY <1>1, ParsedHolds, PTL DEF Spec, RunsDown
-----------------------------------------------------------------------------
(* "Deploy updates the traffic routing for a new deployment with the given  *)
(* tag" (loadbalancer/traffic.go:57), but nothing in it moves a route.      *)

Unpointed(config) == config # NoConfig => config.backend = NoTag
BackendInv ==
  /\ \A f \in FileNames : Unpointed(files[f])
  /\ \A d \in Deployers :
       Unpointed(deployConfig[d]) /\ \A f \in FileNames : Unpointed(snapshot[d][f])

\* No file of the directory points to a release, deploy files included.
NothingPointsToARelease == \A f \in Present(files) : files[f].backend = NoTag

LEMMA BackendStep ==
  ASSUME TypeOK, ParsedInv, BackendInv, NEW d \in Deployers, Step(d)
  PROVE  BackendInv'
<1>0. Unpointed(Truncated)
  BY DEF Unpointed, Truncated
<1> USE DEF TypeOK, Goto, BackendInv, Contents
<1>1. CASE Load(d) BY <1>1 DEF Load, Unpointed
<1>2. CASE \E old \in Tags \cup {NoTag} : Deploy(d, old, TagOf[d])
  BY <1>2 DEF Deploy, Unpointed
<1>3. CASE CreateConfig(d)
  <2>1. PICK f \in todo[d] :
          \/ UNCHANGED <<files, deployConfig>>
          \/ /\ deployConfig' = [deployConfig EXCEPT ![d] = snapshot[d][f]]
             /\ files' = [files EXCEPT ![target[d]] = Truncated]
    BY <1>3 DEF CreateConfig, Retarget
  <2>2. snapshot' = snapshot /\ Unpointed(snapshot[d][f])
    BY <1>3 DEF CreateConfig
  <2> QED BY <1>0, <2>1, <2>2 DEF Unpointed
<1>4. CASE WriteConfig(d)
  <2>1. call[d] = "write" /\ UNCHANGED <<snapshot, deployConfig>>
    BY <1>4 DEF WriteConfig
  <2>2. deployConfig[d] # NoConfig /\ deployConfig[d].backend = NoTag
    BY <2>1 DEF ParsedInv, Unpointed
  <2>3. \A part \in Parts(deployConfig[d]) : Unpointed(part)
    BY <1>0, <2>2 DEF Parts, Unpointed
  <2>4. \E config : Unpointed(config) /\ files' = [files EXCEPT ![target[d]] = config]
    BY <1>4, <2>3 DEF WriteConfig
  <2> QED BY <2>1, <2>4
<1>5. CASE ConfigsCreated(d) \/ Healthy(d) \/ HealthTimeout(d) \/ FinishDeploy(d)
  BY <1>5 DEF ConfigsCreated, Healthy, HealthTimeout, FinishDeploy, Unpointed
<1> QED BY <1>1, <1>2, <1>3, <1>4, <1>5 DEF Step, DeployStep

\* Whatever is deployed, however often and by whomever: no route ever points
\* to the release that was deployed, because createDeployConfigs assigns the
\* new URLs and services to copies (loadbalancer/traffic.go:141-152).
THEOREM NoRouteMoves == Spec => []NothingPointsToARelease
<1>1. Init => BackendInv
  BY TrafficConstants DEF Init, BackendInv, Unpointed, Empty, Contents, FileNames
<1>2. TypeOK /\ ParsedInv /\ BackendInv /\ [Next]_vars => BackendInv'
  <2>1. CASE UNCHANGED vars
    BY <2>1 DEF vars, BackendInv, Unpointed
  <2> QED BY <2>1, BackendStep DEF Next
<1>3. BackendInv => NothingPointsToARelease
  BY DEF BackendInv, Unpointed, NothingPointsToARelease, Present
<1> QED BY <1>1, <1>2, <1>3, ParsedHolds, PTL DEF Spec
=============================================================================
