--------------------------- MODULE TrafficManager ---------------------------
(***************************************************************************)
(* The traffic manager of the deploy sub-command                           *)
(* (uberbase/pkg/loadbalancer/traffic.go over uberbase/pkg/traefik).       *)
(*                                                                         *)
(* Every deploy invocation owns one TrafficManager.  All of them share one *)
(* directory, the dynamic configuration directory of Traefik, which        *)
(* Traefik watches: what is in a file is what is routed.                   *)
(* The file "<tag>-deploy.yml" is named here by its tag.                   *)
(***************************************************************************)
CONSTANTS
  Deployers,   \* deploy invocations
  TagOf,       \* the commit each invocation deploys
  Tags,        \* commits, used as container tags
  NoTag,       \* the empty tag
  BaseFiles,   \* dynamic configuration files the operator wrote
  BaseForms,   \* the forms those files may have
  NoConfig,    \* the content of a file that does not exist
  Overlap      \* whether two invocations may be active at the same time

\* What createDeployConfigs tells apart in a configuration file.
Forms == {"good",        \* services with balancers and host:port URLs
          "noServices",  \* no http section, or one without services
          "noBalancer",  \* a service without loadBalancer
          "badURL",      \* a server URL parseURL refuses
          "unparsable"}  \* not YAML of the expected shape

ASSUME TrafficConstants ==
  /\ TagOf \in [Deployers -> Tags]
  /\ NoTag \notin Tags
  /\ BaseFiles \cap Tags = {}
  /\ BaseForms \subseteq Forms
  /\ Overlap \in BOOLEAN
ASSUME NoConfigIsNone ==
  NoConfig \notin [form : Forms, backend : Tags \cup {NoTag}]

VARIABLES
  files,         \* the directory
  snapshot,      \* TrafficManager.dynamicConfigs
  call,          \* where the manager is in Load and Deploy
  target,        \* the tag Deploy creates configurations for
  todo,          \* configurations createDeployConfigs has not reached yet
  deployConfig   \* the one entry of deployConfigs (all share one key)

vars == <<files, snapshot, call, target, todo, deployConfig>>

FileNames == BaseFiles \cup Tags
\* backend: the release the routers and server URLs of a file point to.
Configs == [form : Forms, backend : Tags \cup {NoTag}] \cup {NoConfig}
Contents == [FileNames -> Configs]
Present(dir) == {f \in FileNames : dir[f] # NoConfig}

\* os.WriteFile truncates before it writes; an empty file parses as an
\* empty configuration.
Truncated == [form |-> "noServices", backend |-> NoTag]

Returned == {"ok", "error", "panic"}

TypeOK ==
  /\ files \in Contents
  /\ snapshot \in [Deployers -> Contents]
  /\ call \in [Deployers -> {"idle", "loaded", "create", "write", "health",
                             "finish"} \cup Returned]
  /\ target \in [Deployers -> Tags \cup {NoTag}]
  /\ todo \in [Deployers -> SUBSET FileNames]
  /\ deployConfig \in [Deployers -> Configs]

Empty == [f \in FileNames |-> NoConfig]

Init ==
  /\ files \in {c \in Contents :
                  /\ \A t \in Tags : c[t] = NoConfig
                  /\ \A f \in BaseFiles :
                       c[f] # NoConfig => /\ c[f].form \in BaseForms
                                          /\ c[f].backend = NoTag}
  /\ snapshot = [d \in Deployers |-> Empty]
  /\ call = [d \in Deployers |-> "idle"]
  /\ target = [d \in Deployers |-> NoTag]
  /\ todo = [d \in Deployers |-> {}]
  /\ deployConfig = [d \in Deployers |-> NoConfig]

Goto(d, c) == call' = [call EXCEPT ![d] = c]

-----------------------------------------------------------------------------
\* Load reads every file of the directory into the manager; one that cannot
\* be read or parsed fails the whole load.
Load(d) ==
  /\ call[d] = "idle"
  /\ \/ /\ \A f \in Present(files) : files[f].form # "unparsable"
        /\ snapshot' = [snapshot EXCEPT ![d] = files]
        /\ Goto(d, "loaded")
     \/ /\ Goto(d, "error")
        /\ UNCHANGED snapshot
  /\ UNCHANGED <<files, target, todo, deployConfig>>

\* Mutation of HasDeployConfigs: the suffix test never matches.
HasNoDeployConfigs(d, tag) == FALSE

\* hasDeployConfigs: the loaded directory holds a deploy file of the tag.
HasDeployConfigs(d, tag) == snapshot[d][tag] # NoConfig

\* Mutation of Verdict: an outcome for an unchanged tag no caller knows.
VerdictUnchanged(d, old, tag) ==
  CASE tag = NoTag -> "error"
    [] tag # NoTag /\ old = tag -> "unchanged"
    [] tag # NoTag /\ old # tag ->
         IF HasDeployConfigs(d, tag) THEN "error" ELSE "create"

\* The early returns of Deploy, in their order.
Verdict(d, old, tag) ==
  CASE tag = NoTag -> "error"
    [] tag # NoTag /\ old = tag -> "ok"
    [] tag # NoTag /\ old # tag ->
         IF HasDeployConfigs(d, tag) THEN "error" ELSE "create"

\* Deploy(ctx, state, tag) with state.Tag = old, up to createDeployConfigs.
Deploy(d, old, tag) ==
  /\ call[d] = "loaded"
  /\ Goto(d, Verdict(d, old, tag))
  /\ IF Verdict(d, old, tag) = "create"
       THEN /\ target' = [target EXCEPT ![d] = tag]
            /\ todo' = [todo EXCEPT ![d] = Present(snapshot[d]) \ {tag}]
       ELSE UNCHANGED <<target, todo>>
  /\ UNCHANGED <<files, snapshot, deployConfig>>

\* The rewriting of server URLs and router services assigns to the range
\* loops' copies of the map's struct values: the configuration written to
\* the deploy file is the one that was read.
Retarget(config, tag) == config

\* Mutation of CreateConfig: a file without services is accepted.
CreateConfigUnchecked(d) ==
  /\ call[d] = "create"
  /\ \E f \in todo[d] :
       /\ snapshot[d][f].form \in {"good", "noServices"}
       /\ deployConfig' = [deployConfig EXCEPT ![d] = snapshot[d][f]]
       /\ files' = [files EXCEPT ![target[d]] = Truncated]
       /\ todo' = [todo EXCEPT ![d] = @ \ {f}]
  /\ Goto(d, "write")
  /\ UNCHANGED <<snapshot, target>>

\* Mutation of CreateConfig: the loop does not leave a configuration it has
\* reached.
CreateConfigAgain(d) ==
  /\ call[d] = "create"
  /\ \E f \in todo[d] :
       /\ snapshot[d][f].form = "good"
       /\ deployConfig' = [deployConfig EXCEPT ![d] = snapshot[d][f]]
       /\ files' = [files EXCEPT ![target[d]] = Truncated]
  /\ Goto(d, "write")
  /\ UNCHANGED <<snapshot, target, todo>>

\* One turn of createDeployConfigs' loop over the configurations (a map: in
\* any order), up to opening the file, which truncates it.
CreateConfig(d) ==
  /\ call[d] = "create"
  /\ \E f \in todo[d] :
       LET config == snapshot[d][f] IN
       \/ /\ config.form = "good"
          /\ deployConfig' = [deployConfig EXCEPT
                                ![d] = Retarget(config, target[d])]
          /\ files' = [files EXCEPT ![target[d]] = Truncated]
          /\ todo' = [todo EXCEPT ![d] = @ \ {f}]
          /\ Goto(d, "write")
       \/ /\ config.form \in {"noServices", "badURL", "good"}
          \* refused, or good and the deploy file could not be opened
          /\ Goto(d, "error")
          /\ UNCHANGED <<files, todo, deployConfig>>
       \/ /\ config.form = "noBalancer"     \* nil LoadBalancer dereferenced
          /\ Goto(d, "panic")
          /\ UNCHANGED <<files, todo, deployConfig>>
  /\ UNCHANGED <<snapshot, target>>

\* What may be in a file whose writing broke off: nothing yet, or a part that
\* is like any other file.
Parts(config) ==
  {Truncated} \cup {c \in Configs \ {NoConfig} : c.backend = config.backend}

\* The rest of WriteToFile: every configuration goes to the same file, so
\* the last one of the loop stays.
WriteConfig(d) ==
  /\ call[d] = "write"
  /\ \/ /\ files' = [files EXCEPT ![target[d]] = deployConfig[d]]
        /\ Goto(d, "create")
     \/ /\ Goto(d, "error")
        /\ \E part \in Parts(deployConfig[d]) :
             files' = [files EXCEPT ![target[d]] = part]
  /\ UNCHANGED <<snapshot, target, todo, deployConfig>>

\* createDeployConfigs returns; with no configurations the loop of health
\* checks has no turn.
ConfigsCreated(d) ==
  /\ call[d] = "create"
  /\ todo[d] = {}
  /\ Goto(d, IF deployConfig[d] = NoConfig THEN "finish" ELSE "health")
  /\ UNCHANGED <<files, snapshot, target, todo, deployConfig>>

\* waitForHealthy and its select: every server answered in time (or none
\* has a health check), or healthCheckTimeout fires first.
Healthy(d) ==
  /\ call[d] = "health"
  /\ Goto(d, "finish")
  /\ UNCHANGED <<files, snapshot, target, todo, deployConfig>>

HealthTimeout(d) ==
  /\ call[d] = "health"
  /\ Goto(d, "error")
  /\ UNCHANGED <<files, snapshot, target, todo, deployConfig>>

\* Mutation of FinishDeploy: the path is joined properly, and the suffix made
\* from an empty old tag is that of every deploy file.
FinishDeployRemoving(d) ==
  /\ call[d] = "finish"
  /\ files' = [f \in FileNames |->
                IF f \in Tags /\ snapshot[d][f] # NoConfig THEN NoConfig
                ELSE files[f]]
  /\ Goto(d, "ok")
  /\ UNCHANGED <<snapshot, target, todo, deployConfig>>

\* updateRouters and removeDynamicConfigs.  The first assigns to loop copies
\* and only for files hasDeployConfigs excluded; the second removes
\* DynamicConfigPath + configFile, a path without separator where no file
\* is.  Neither changes anything, and neither can fail.
FinishDeploy(d) ==
  /\ call[d] = "finish"
  /\ Goto(d, "ok")
  /\ UNCHANGED <<files, snapshot, target, todo, deployConfig>>

\* The steps of Deploy after its early returns.
DeployStep(d) ==
  \/ CreateConfig(d) \/ WriteConfig(d) \/ ConfigsCreated(d)
  \/ Healthy(d) \/ HealthTimeout(d) \/ FinishDeploy(d)

-----------------------------------------------------------------------------
\* The component by itself: every invocation loads, then deploys its tag over
\* some previous tag of its state record.
Busy(d) == call[d] \notin {"idle"} \cup Returned
MayStart(d) == Overlap \/ \A e \in Deployers : ~Busy(e)

Step(d) ==
  \/ MayStart(d) /\ Load(d)
  \/ \E old \in Tags \cup {NoTag} : Deploy(d, old, TagOf[d])
  \/ DeployStep(d)

AllReturned == \A d \in Deployers : call[d] \in Returned
Next == (\E d \in Deployers : Step(d)) \/ (AllReturned /\ UNCHANGED vars)

Spec == Init /\ [][Next]_vars
\* Local file operations return and the select has a timer, so no manager
\* stands still for ever.
FairSpec == Spec /\ \A d \in Deployers : WF_vars(Step(d))

-----------------------------------------------------------------------------
\* The manager routed its release: Deploy created a file and returned nil.
Routed(d) == call[d] = "ok" /\ target[d] # NoTag

\* A release is routed only from a directory in which every file was whole
\* and usable when it was loaded: a damaged file, such as one a dead
\* invocation left truncated, blocks every later release.
RoutedFromGoodFiles ==
  \A d \in Deployers :
    Routed(d) => \A f \in Present(snapshot[d]) : snapshot[d][f].form = "good"

\* What Traefik sees of a commit's deploy file (published: something was
\* written to it, if only a part), and the commits that were routed from a
\* directory with some configuration in it (without one Deploy writes nothing
\* and still returns nil).
Route(t) ==
  CASE files[t] = NoConfig -> "absent"
    [] files[t] = Truncated -> "partial"
    [] files[t] \notin {NoConfig, Truncated} -> "published"
Routes == [t \in Tags |-> Route(t)]
Settled(d) == Routed(d) /\ Present(snapshot[d]) # {}
SettledTags == {target[d] : d \in {e \in Deployers : Settled(e)}}

Lifecycle == INSTANCE RouteLifecycle WITH
  Releases <- Tags, route <- Routes, settled <- SettledTags

\* Deploy files live the life RouteLifecycle promises: a routed release has a
\* whole file that is never written or removed again, although each of its
\* configurations truncates the file anew and the check for an existing file
\* looks at the directory as it was loaded (traffic.go:59-130, config.go:62).
RoutesSettle == Lifecycle!Spec

\* A manager that loaded the directory gets to the end of its Deploy, whatever
\* the other managers do to the directory meanwhile.
DeployReturns ==
  \A d \in Deployers : (call[d] # "idle") ~> (call[d] \in Returned)

=============================================================================
