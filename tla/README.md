# A verification project for uberbase

uberbase starts a small platform on one host (Postgres, Redis, Vault, Traefik,
…) and deploys compose applications to such hosts over SSH. Most of its own
logic is the `deploy` sub-command: it prepares the hosts, builds, pushes and
starts containers, waits for their health, changes the routing, stops the old
release, and rolls back if that fails. The modules here model that sub-command
from its arguments to its rollback, the scripts and processes that bring the
platform up and down, the bootstrap of its vault, and the API that runs
functions. TLC checks them on small instances, and TLAPS proves every safety
property for every size.

## The system

| Part | State | Operations | What makes it hard |
|---|---|---|---|
| **Deployer** (`pkg/deploy/deployer.go`) | local variables of one run; the steps registered for rollback | `DeployProject` | a long sequence of remote commands, each of which may fail; two runs on one host are kept apart by nothing |
| **RollbackManager** (`pkg/deploy/rollback.go`) | registered steps, collected errors | `AddRollbackStep`, `Rollback` | reverse order, verification per step, errors that are dropped or counted as success |
| **TrafficManager** (`pkg/loadbalancer`, `pkg/traefik/config.go`) | a snapshot of the configuration directory | `Load`, `Deploy` | files that are truncated before they are written, and may stay half-written; other runs in the same directory; health check after the write |
| **HealthChecker** (`pkg/health`) | goroutines, a channel per round, one for the verdict | `WaitForContainers`, `WaitForHTTPHealthChecks` | rounds cut short, stragglers, a verdict racing a timer |
| **RemoteExecutor / SSHSession** (`pkg/core/remote.go`, `pkg/ssh/session.go`) | mutex, client, closed flag | `Exec`, `SendFile`, `Test` | retries, reconnects, fields used outside the mutex |
| **StateManager** (`pkg/state`) | `deployment-state.yml` on the host, `CurrentState` | `Load`, `Update`, `Save`, `Equal` | transport errors taken for a missing file; nil fields |
| **ContainerManager** (`pkg/containers`) | containers and images of a host; the override file | `Up`, `Down`, `Inspect`, `Build`, `Push`, `Pull` | one override file for everybody; an empty list means everything |
| **Deploy command** (`cmd/uberbase/deploy.go`, `pkg/ssh/key.go`, `pkg/git`) | the key, the loaded compose file, `GitManager.sha` | arguments to `DeployProject` | the working directory is read again and again while its owner works in it |
| **Host preparation** (`pkg/core/installer.go`, `Verify`, `NewContainerManager`) | installed tools | detection, installation | what one check accepts, another may not find |
| **Functions API** (`cmd/uberbase/serve.go`, `pkg/functions`, `pkg/http`) | `fClient.binPath`; handlers waiting for podman | run and stop containers | concurrent requests, errors that are answered and passed over |
| **Platform** (`bin/start`, `bin/stop`, `bin/run`, `scripts.go`, `main.go`) | services, `jwks.json`, signal handlers | start, serve, stop, signals | `bin/stop` runs beside `bin/start` and itself; waits without bound; start order and switches |
| **Vault bootstrap** (`bin/run/vault`) | `keys.json`, credentials, Vault | initialise or unseal | a script killed half-way, unbounded waiting |
| `LocalExecutor`, `cli`, logging | — | | commands and output |

A deploy run drives all Go components: the Deployer calls the local and the
remote ContainerManager and the StateManager, which issue commands through one
RemoteExecutor; the HealthChecker calls `Inspect`, hence `Exec`, from several
goroutines at once; the TrafficManager reads and writes files which Traefik, a
separate process, watches. Runs of different operators meet on the host: in
the compose project, the override file, the state file and the registry. The
configuration directory is on the machine that deploys, so only runs of one
machine meet there. On the platform's own host, `uberbase start` runs
`bin/start`, which starts the services and becomes `uberbase serve`; both
processes and `uberbase stop` run `bin/stop`, which stops all containers, those
of functions included, and looks at no exit status.

## The modules

| Module | Models | Notes |
|---|---|---|
| `TrafficManager` | `TrafficManager.Load` and `Deploy`, and the directory they share | one action per early return, loop turn, file write, health verdict and timeout |
| `RouteLifecycle` | what the operator may rely on about the routes of releases | the abstract specification `TrafficManager` implements |
| `Deployer` | `DeployProject` and `Rollback` of several runs, with the host; instantiates `TrafficManager` for the routing | one action per remote command or step |
| `ExecContract` | what callers may rely on of `Exec` | the abstract specification |
| `RemoteExecutor` | `Exec` and `SendFile` by several goroutines over one session | implements `ExecContract` |
| `HealthChecker` | `waitForAll` and the select that waits for it | goroutines, channels and the timer |
| `VaultBootstrap` | `bin/run/vault`, killed and started again, and the wrapper of the services | one action per command of the script |
| `HostPreparation` | both `Verify`s, the `Installer` and `NewContainerManager`, over repeated deploys | one action per question, installation and search |
| `DeployCommand` | `uberbase deploy` from its arguments to the images and the compose file it sends, with edits and commits in the working directory | extends `HostPreparation`, and is shown to implement it; `Deployer` takes over |
| `FunctionsApi` | `uberbase serve`: its start, its two handlers, the containers of functions | one action per step of a handler between two commands |
| `Platform` | `uberbase start`, `bin/start` with its waits, signals, `bin/stop` | instantiates `FunctionsApi` for the serve process |
| `TrafficManagerProofs`, `DeployerProofs`, `RemoteExecutorProofs`, `HealthCheckerProofs`, `VaultBootstrapProofs`, `HostPreparationProofs`, `FunctionsApiProofs`, `PlatformProofs` | | the theorems |
| `MC…` | | constants for TLC |

The definitions named after a variation of another one (`HasNoDeployConfigs`,
`LockFree`, …, each introduced as a *mutation*) are never part of a
specification: they are plausible bugs, and each property fails when the
definition it belongs to is replaced by one of them.

### State and code

*TrafficManager.* `files` is `/etc/traefik/config/dynamic`; the file
`<tag>-deploy.yml` is named by its tag. Of a file's content the model keeps
what `createDeployConfigs` tells apart (`form`) and the release its servers
point to (`backend`). `snapshot` is `dynamicConfigs`. Writing is two actions:
`CreateConfig` opens the file, and thereby truncates it, `WriteConfig` fills
it; a process may die between them, another may load in between, and a write
that fails may leave the empty file or any other (`Parts`). All configurations
of the loop are written to one file and stored under one key, so one
`deployConfig` is enough. `Retarget` is the identity because the code assigns
to the range loops' copies; `FinishDeploy` changes no file because
`updateRouters` only visits files `hasDeployConfigs` excluded, and
`removeDynamicConfigs` removes a path without its separator. `Route` maps a
file to the life of a route: absent, partial (truncated) or published
(something was written to it); `SettledTags` are the commits whose `Deploy`
returned success with a file written.

*Deployer.* `pc[d]` is where run `d` is in `DeployProject` (or in `Rollback`).
The host is `running`, `registry`, `override` (the tag in the override file)
and `record` (the state file). A container is a service with the tag of its
image, and a service has one of them: the override file gives it another image
and host name but no container name (`override.go:14` is `yaml:"-"`), so `Up`
replaces what runs by what the file names, and one that fails leaves any part
of either. The names `<service>-<tag>`, by which the code inspects and stops
containers, are not the containers' own; `Inspect` therefore may fail to find
one that runs. `steps` holds the registered rollback steps by name. A failing
command, an exit of the process or of a container costs one of `MaxFaults`;
what the code itself does wrong costs none. `RouteReturns`, `DownOld` (on a
client a straggling health check has dropped) and `UpdateState` lead to
`rollback` where the code panics and its deferred function recovers; every
other error is `Refuse`, which rolls nothing back. `UpdateState` has only that
outcome: `Update` dereferences `CurrentState.Compose`, and nothing in the
program assigns `CurrentState`. `VerifyStep` may end in `crashed`: the
verification of the traffic rollback reads an http section that a recorded
configuration need not have, in the deferred function itself.

*RemoteExecutor.* `Connect` is three actions (test of the client, `Dial`,
`NewSession` on the client as it is then), used from four places: before the
attempts, in an attempt, to reconnect, and in the second try; `purpose` says
which. `senders` and `concurrent` are choices made at the start: which
goroutines call `SendFile`, and whether they overlap. After a successful
`Test`, as `NewDeployer` demands it, the session starts with a client.

*HealthChecker.* A check's look at its target (`Look`) and the send of its
result (`Answer`) are separate. `NextRound` leaves the goroutines of the old
round behind. `World` changes the targets at any time.

*VaultBootstrap.* `script` is the next command. The disk is `keysFile`, the
file of credentials (`stored`: whether it exists; `credentials`: which of its
two ids are not blank) and `secretsFile`; the vault's own storage is `setup`
and `kv`, which survive the container; `server` and `loggedIn` do not. `Start`
is `bin/start` with `bin/configure`, which removes the configuration directory
and makes a new one: a vault that is still up keeps the removed one as its
`/vault/config`. `mounted` says whether the vault sees this start's directory;
without it the policy and the secrets, which are passed by their file's name,
are not stored (`Prepare`, `PutSecrets`). `StartServices` needs the file of
credentials; without it podman refuses the `--env-file` of every service that
reads secrets (`ServicesRefused`). The redirection into `keys.json` is three
steps: the shell creates the file (`CheckKeys`), the server initialises itself
(`OperatorInit`), the answer is written (`Redirect`). A command that fails
changes nothing and the next one runs, as in the script. `fast` is a choice
made at the start: whether two seconds are enough for the server to listen.
`Kill` ends the script anywhere, `Stop` is `bin/stop`, at any moment. A round
of the waiting loop is a step that changes nothing.

*HostPreparation.* `tools` are the tools of the two hosts, `step` is where
`NewDeployer` is, `platform` what the `Installer` detected. A question is a
remote command, so its answer may be lost, and then it is "no" (`Ask`);
`doubted` remembers that this has happened. `NewContainerManagers` is a search
of several questions on each host; one connection that is lost may cost any
subset of its answers. The privileges a package manager needs are modelled as
the command line gives them: `sudo a && b` runs `b` without. `Retry` is the
next deploy, a new process on the same hosts.

*DeployCommand.* `command` is where the command is, and `PrepareHosts` the part
of `HostPreparation` in it. The versions of the working directory are numbers:
`tree` is what is in it, `head` what was committed last. The program's readings
of them are variables of their own: `loaded` (the compose file of
`deploy.go:99`, read before any host is), `sha` (`GitManager`'s, which nobody
uses), `tag`, for each image `built` (the Dockerfile and context it was built
from) and `section` (the build section that named them, which is that of
`loaded`), and `sent` for the compose file. `settled` remembers whether the
directory was exactly its last commit when the tag was read, and has been
since; `calm` the same since the compose file was loaded. `Accepted` is the
check of the arguments, `Loaded` what `SSHKey.Load` finds. The owner only goes
forward: older commits are not checked out again.

*FunctionsApi.* A handler is a goroutine: `at[r]` is where that of request `r`
is, `status[r]` the response written so far (gin keeps the first one),
`container[r]` what became of the container it started. `ask` ranges over the
two routes and over what `BindJSON` makes of a body: unreadable, empty (an
`io.EOF` the handlers let pass, after a 400 was written), and the fields. A stop
request names the container of any request, its own kind included, or none.
`StopGivesUp` and the failing starts are podman's. `Exit` ends the process and
cuts its connections.

*Platform.* `script` and `pos` are `bin/start` and the service it is at,
`starter` is the process that runs it, `service` its containers. `Waited`
says when `bin/run/fusionauth` and `bin/run/postgrest` go on, `jwks` where the
file with FusionAuth's keys is. `handler[p]` is where `bin/stop` is for
process `p` (`start`, `serve`, or `uberbase stop`); `doomed[p]` are the
containers its `podman stop -a` still waits for, `spared[p]` those its last
`podman stop` failed to stop, at once (`StopFusionAuth`, `StopAll`) or after it
had begun to (`StopGivesUp`): the script goes on either way. `StarterEnds` has
two outcomes: in the image, `uberbase start` is the first process and everything
dies with it; on a bare host nothing does, and a `bin/stop` whose process has
returned goes on as an orphan. `late` are the containers started after the first
signal. The API's steps are those of `FunctionsApi`.

### What is taken from outside

- compose, podman and Traefik are external. A service has one container, and
  `up -d` replaces it when its image differs. `inspect` and `down` with names
  mean the container of that service and tag, or nothing; `inspect` may also
  find nothing where there is one. `down --remove-orphans` without names stops
  the whole project.
- A command whose connection fails may or may not have run; see
  `RemoteExecutor`. In `Deployer` a failing command may have done part of its
  work.
- `LoadTraefikDynamicConfigs` reads the directory at one moment.
- Vault refuses a second `operator init`, unseals with its key only, keeps its
  storage, and answers the wrapper if role, secret id and policy are there.
  Only one script runs at a time, and nobody removes the data directory.
- Package managers either install what they are asked for or fail. Docker's
  own script elevates itself and brings the compose plugin.
- `podman stop` ends a container in the end, killing it after its timeout, or
  fails; `podman run` and `podman stop` may fail at any time, in
  `FunctionsApi` and in `Platform`. A container `bin/stop` has given up is being
  stopped all the same and goes down some day. `podman rm -a` removes what is
  stopped, and complains about the rest.
- A process gets one signal; a second Ctrl-C, and signals to the scripts
  themselves other than Ctrl-C on `bin/start`, are left out. So are requests to
  the API that name a container of the platform.
- A host may already run a release (`Priors`), with its record, as if an
  earlier version had put it there. `DeployAppRuns` starts from an empty host,
  `DeployUpdate` from one that runs a release.
- The runs of an instance of `TrafficManager` or `Deployer` are those of one
  machine: they share its configuration directory.

## The runs

| Run | Question | Bounds |
|---|---|---|
| `TrafficOverlap` | A release is routed only from good files (`RoutedFromGoodFiles`), deploy files live the life of `RouteLifecycle` (`RoutesSettle`), and `Deploy` returns (`DeployReturns`) | 2 runs, 2 commits, 2 files of the operator in 5 forms or absent |
| `DeployOverlap` | Running images stay in the registry (`RunningWasPushed`), no step before routing leaves a service without a container (`ServedUntilRouted`), every run ends (`DeployEnds`) | 2 runs at once, 2 commits, 2 services, 1 fault, prior release or none |
| `DeploySerial` | Rollback order (`OverrideOutlivesUp`), what reported success means (`ReportedRollbackIsClean`), one routing per commit (`RoutedOnce`) | 2 runs of one commit in sequence, 3 services, 2 faults, prior release of that or another commit or none |
| `DeployAppRuns` | *violated*: `DeployedAppRuns` | no fault |
| `DeployUpdate` | *violated*: `OldKeptUntilRouted` | a prior release, no fault |
| `ExecCalls` | One goroutine at a time is in an attempt (`OneAttemptAtATime`), the contract holds (`ContractKept`), calls return (`ExecReturns`), calls in sequence never use a nil client (`SerialNeverCrashes`) and leave a truthful flag (`OpenHasClient`) | 2 goroutines, 3 retries as in the code |
| `HealthRounds` | A verdict rests on one round (`VerdictOfOneRound`), targets that stay up are found (`FoundOnceUp`) | 3 targets |
| `VaultRestarts` | Credentials certify the set-up (`CredentialsComeLast`), a vault this start brought up serves its secrets (`ServedCurrent`), no clear text is left (`NoSecretsLeft`), no start ends without the keys on disk (`EndsWithKeys`), keys are kept (`KeysKept`), the script ends (`BootstrapEnds`) | 2 kills, 2 stops, 2 environments, fast and slow hosts, any number of starts |
| `VaultInterrupted` | *violated*: `ServicesAuthenticate` | 1 kill, no stop, a fast host |
| `HostAttempts` | A deploy that starts has a runtime (`ReadyHasRuntime`), what Verify completed is usable (`VerifiedIsUsable`), a host keeps its runtime (`RuntimeKept`), and how what is built relates to the commit it is tagged with (`ImagesHoldTheirCommit`) | every set of tools, 5 systems, 3 kinds of user, 3 local machines, 2 failing commands, 2 images, 1 edit that may be committed, any number of deploys |
| `FunctionsServe` | What an answer tells (`AnswersTell`), and that handlers return (`HandlersReturn`) | 3 requests of every kind at once |
| `PlatformRuns` | What `bin/stop` leaves (`OnlyLateLeft`), the order it keeps (`FusionAuthFirst`), that start gets to serve (`GetsToServe`) and signals end processes (`SignalEnds`) | Postgres, FusionAuth and PostgREST under 3 settings of the switches, 1 function, 2 runs of `bin/stop`, of which podman may fail to stop FusionAuth |

Two runs are enough for every interference the shared files allow: a third one
adds no kind of interleaving that one of two others does not. One fault lets a
run die or fail at any point while another goes on; two let a rollback, which
needs no fault to begin, fail twice, or a failure follow a crash. Two services
tell those with a build section from those without, and the third lets a `Down`
or a push fail half-way. Three targets let one be false, one slow and one a
straggler. Two kills and two stops reach every pair of unfinished starts before
a finished one, and two environments tell a stale secret from a current one.
Two failing commands allow an installation to fail in one attempt and an answer
to be lost in the next. One edit before, between or after any two readings is
what tells them apart; a second one would repeat the first. Of three requests,
one can stop the container of another while a third one does, too. The three
services are those that wait for each other; the other five only start. Two
runs of `bin/stop` are every pair of the three processes that may run it. The
container podman fails to stop is the one the order of `bin/stop` turns on; in
the proofs it is any set (`Stubborn`). Nothing else is bounded: retries and
attempts end by themselves.

### What the violated runs show

- `DeployAppRuns`: the first release of an application has no old containers;
  `Down` of an empty list takes the whole project down, twice, and the deploy
  ends with nothing running. README.md:277 says it will start the containers.
  (On the way `compose inspect` has answered for each container: where it does
  not, the deploy ends in a health timeout.)
- `DeployUpdate`: the container name the override file would have given the new
  release is never written, so `up -d` replaces the old release's container:
  it is stopped before the new one is known to be healthy, and before any route
  is changed. README.md:279 speaks of a rolling update with zero downtime.
- `VaultInterrupted`: a first start is killed after `keys.json` is written; the
  next one unseals the vault, finds no secret engine to store anything in, and
  reports "done". There is no file of credentials, so podman refuses to run the
  services that are given it, `bin/run/fusionauth` waits for Postgres for ever,
  and every later start does the same. The architecture document says the vault
  is bootstrapped automatically and every service authenticates on startup.

Other disagreements of the repository's documents with its code, which need no
run to be seen:

- Only a panic is rolled back: a health timeout or a routing error leaves the
  new containers and the override file (every `Refuse` in `Deployer`), while
  README.md:280 promises a rollback for any failure. Where there is a rollback,
  it does not restore the previous release: `Up` has replaced it, and nothing
  starts it again.
- `Deploy` updates the routing, says its comment (`traffic.go:56`), but what it
  writes are copies of what it loaded: its assignments to server URLs and router
  services go to range copies (`traffic.go:148`, `:152`). Theorem `NoRouteMoves`
  shows it for every directory.
- `bin/run/vault:204` updates "secrets from current environment variables", which
  fails without notice on a start that finds its vault still up: `bin/configure`
  has removed the directory the vault reads them from. `ServedCurrent` excepts
  this case by `mounted`, and fails without that condition.
- The deploy file is written before the health check that, by its comment,
  comes before updating the routing (`pkg/loadbalancer/traffic.go:58`).
- README.md:246 stops a function with `{"id": …}`, but the field is
  `containerId` (`cmd/uberbase/serve.go:31`): the id is lost, and
  `podman stop ""` is answered with 500. (`FunctionsApi`: a stop of `NoId`.)
- README.md:202 names `UBERBASE_DISABLE_TRAFIK`; `bin/start:41` reads
  `UBERBASE_DISABLE_TRAEFIK`.
- `--ssh-key-env` names the variable the key is loaded from, but without a key
  file the command refuses to start unless `SSH_PRIVATE_KEY` is set as well
  (`cmd/uberbase/deploy.go:62`).

### What is not claimed

The conditions of the properties that hold are needed, too.

- `RoutesSettle` fails for two overlapping runs of *one* commit: both pass the
  check for an existing file, and one rewrites it after the other reported
  success. `OverrideOutlivesUp`, `ReportedRollbackIsClean` and `RoutedOnce` fail
  for overlapping runs, too, and hold for runs one after the other.
- `ServedUntilRouted` is not zero downtime: between the stop of the old
  container and the health of the new one the service does not answer, an `Up`
  that fails half-way may leave it stopped, and the run's own containers are
  excepted, since its rollback stops them. It says that no other step, of
  whichever run, takes a service away before that run has routed. It fails for
  a project without a built service, whose rollback of `Up` has no names and
  stops the whole project.
- `OneAttemptAtATime` is about goroutines. A command whose connection was lost
  may still be running on the host when the next one is sent there.
- `SerialNeverCrashes` and `OpenHasClient` are about calls that do not overlap.
  `Exec` uses the client before it takes the mutex, so with overlap one goroutine
  may find it nil.
- `ServedCurrent` is about a vault this start has brought up, see above.
- `BootstrapEnds` has two conditions: the keys are on disk, and the server
  listens when the script has slept for two seconds. Otherwise the loop of
  `wait_for_vault_unseal` never ends.
- `VerifiedIsUsable` names the one host that passes `Verify` and is refused all
  the same: docker without a compose command. `RuntimeKept` says nothing once an
  answer was lost, and rightly: a lost `docker --version` makes Verify install
  podman, which the next search prefers.
- `ImagesHoldTheirCommit` promises the tag's own build section only where nobody
  changed the directory since the compose file was loaded. TLC finds an image
  built by a section older than its tag without that condition (`calm`), and
  one built from files newer than its tag without `settled`.
- `AnswersTell` says what a 200 means, and that a refused body started nothing.
  A 400 to an *empty* body says nothing: the function runs.
- `OnlyLateLeft` and `FusionAuthFirst` except what podman failed to stop: the
  scripts go on, Postgres under a running FusionAuth included. `late` is what a
  start or a request that goes on beside `bin/stop` can leave behind.
- `GetsToServe` names the switches under which a script waits for ever:
  FusionAuth without Postgres, PostgREST without FusionAuth and without an
  earlier key file. It leaves out the wait of `bin/run/vault` for its server,
  which is `BootstrapEnds`.

### Fairness

`Deployer`: a run that can take a step eventually does. Its commands go through
`Exec`, which returns (`ExecReturns`), and `select` has a timer, which fires
even while inspections go on: hence weak fairness of `HealthTimeout` by itself.
Faults are never fair. `TrafficManager`: the same, for local file operations
and the ten-second timer. `RemoteExecutor`: weak fairness of each goroutine,
since network calls return in the end, and strong fairness of taking the mutex,
since Go's `sync.Mutex` hands itself to a waiter that has starved for a
millisecond. `HealthChecker`: the waiter, the timer and the checks of the
current round; targets are not fair. `VaultBootstrap`: the shell goes on to the
next command, and a server that was started listens in the end; starts, kills
and stops are not fair. `FunctionsApi`: weak fairness of each handler and of
podman's stopping; a function may run for ever. `Platform`: weak fairness of
everything that goes on by itself, taken together, which is enough since these
steps never undo each other; requests, signals, exits of the function and a
`podman stop` that fails are not fair. `HostPreparation` and `DeployCommand`
have no liveness property: their steps are a finite sequence.

## The proofs

All theorems hold for every number of runs, commits, files, services, faults,
goroutines, retries, requests, images and edits; they assume only the named
`ASSUME`s of the modules and, where it is said, a condition of their own. Every
invariant and every action property of the passing runs is proved.

- `TrafficTypeCorrect`, `GoodFilesOnly` (`TrafficManagerProofs`).
  `RoutedFromGoodFiles` is not inductive: it says nothing of a manager that is
  still in its loop. The strengthening says that every loaded file the loop has
  passed was good, and that nothing is left of the loop once health checks
  begin. `TrafficFrame` shows that no other manager touches what it speaks of.
- `RoutesImplementLifecycle`: the refinement, for runs that overlap only with
  runs of other commits (`CommitsApart`). `FileInv` says what is in the file at
  each point of a manager's loop, `Alone` that a manager that writes a commit's
  file finds nobody else on the way to it and nobody who has settled it.
- `TypeCorrect`, `ImagesStayAvailable` (`DeployerProofs`). `RunningWasPushed`
  needs to know what `Up` may start, which is what the override file names,
  which another run may have written. `PushedInv` adds that the tag in the
  override file and the tag of every run past its push have their images in the
  registry; that images are never removed carries it through all steps.
- `ServicesKeepRunning` (`Built # {}`): `StageInv` ties the registered rollback
  steps, as a sequence, and the index of the loop that undoes them to the stage
  of the run. So the rollback of `Up` and the two last `Down`s are the only steps
  that stop anything, a run at the latter has routed, and the former has names,
  its own; `Up` keeps every service that ran among those of the release.
- `OverrideIsThere`, `RollbackIsClean`, `CommitsRouteOnce` (`~Overlap`). On top
  of `StageInv`, `OwnHost` says that the override file is the running
  invocation's own until its step is undone, and that what was undone without
  an error is gone; `OneMoves` that the others are not active. `OnceInv` says
  that a deploy file that was begun stays, and that an active run whose
  snapshot misses the file of its commit is the only one that may write it.
- `ExecTypeCorrect`, `AttemptsExclude`, `ExecImplementsContract`
  (`RemoteExecutorProofs`). The invariant `IInv` ties the mutex to the
  goroutine in an attempt (`MutexInv`; the first theorem is about goroutines,
  not about commands on the host), the number of runs to the attempt and to
  whether it has reconnected (`RanInv`), and a successful result to a run
  (`ResultInv`). The last theorem is the refinement: every step is a step of
  `ExecContract` or leaves its variables alone.
- `SerialIsSafe`, `FlagIsRight`. `SerialInv` says that at most one goroutine is
  in a call, and where in a call without overlap the client may be nil.
- `HealthType`, `VerdictsAreBacked` (`HealthCheckerProofs`). `RoundInv` ties the
  answers that are read, waiting or still to come to the round they belong to.
- `VaultType`, `CredentialsCertify`, `KeysSurvive`, `SecretsRemoved`
  (`VaultBootstrapProofs`). Usable credentials certify the set-up although no
  command's failure is noticed, because of `BranchInv`: a script of the first
  branch that is authorized *now* has been authorized since it logged in, since
  a container that is stopped comes back only with a new start, so none of its
  commands in between has failed. That they found their files is `MountInv`: a
  script that finds no `keys.json` cannot have found an unsealed vault, so it has
  brought up its own container. `KeysInv` says that the token comes from the
  keys on disk.
- `EndsHaveKeys`: nothing is unsealed without the keys on disk, and a script gets
  past its wait only with an unsealed server.
- `CurrentSecretsServed` uses the argument of `BranchInv` for both branches: a
  server that is unsealed now, of a container of this start, has been so since
  the script waited for it, so the secrets of this start were stored where an
  engine took them (`ServedInv`).
- `HostType`, `PreparedHosts` (`HostPreparationProofs`). Tools are never
  removed, a "yes" is always true, and what a search finds is there even if it
  did not see everything (`FoundIsComplete`).

- `VerifiedHosts`, `RuntimesStay`. `RInv` says what Verify has settled at each
  question (`WayInv`) and that the runtime of an earlier deploy is still the
  one a search would find (`FoundInv`), as long as no answer was lost.
- `CommandPreparesHosts`, `CommandType`, `ImagesAreTagged`. `DeployCommand`
  implements `HostPreparation`, so the theorems above hold in it. `CInv` orders
  the readings of the working directory: none is newer than the tree, none after
  the tag is older than the tag, and the compose file that builds the images is
  not newer than what they are built from. It needs that a directory that is calm
  when the tag is read is settled.
- `ApiType`, `AnswersAreTrue` (`FunctionsApiProofs`). `ApiInv` says what each
  point of a handler implies of its request, response and container (`Stage`),
  and that an answer stays true while others act (`Promise`).
- `PlatformType`, `OnlyLateSurvive`, `FusionAuthStopsFirst` (`PlatformProofs`).
  `StopInv` says what each stage of a `bin/stop` has achieved: what runs is
  late, is among the containers it waits for, or was given up by its own
  `podman stop`. A container that comes up meanwhile is late by definition, so
  the other processes cannot break this. `KilledInv`: what was killed was
  killed with everything that could go on. The lemmas of `FunctionsApiProofs`
  are used through its instance.

### What the theorems add to the runs

Some theorems state what no run can: they carry a result from a part to the
whole, or say that what a run violates is the rule.

- `TrafficIsImplemented`: every behaviour of `Deployer` is one of
  `TrafficManager`, so `DeploysRouteFromGoodFiles` and `DeploysMoveNoRoute`
  follow from the theorems about that part. `DeploysSettleRoutes` is the
  lifecycle of `RouteLifecycle` for whole deploys. Where commits differ it
  follows as well; without overlap it has a proof of its own, by `OnceInv`,
  since there the same commit may be deployed again after a failure.
  `PlatformAnswers` does the same for `FunctionsApi` in `Platform`, and
  `CommandsKeepHosts` for `HostPreparation` in `DeployCommand`.
- `NoRouteMoves`: nothing in the directory ever points to a release, because all
  that `createDeployConfigs` writes is a loaded configuration with its own
  backend, or a part of one. `NoDeployStays` is behind `DeployAppRuns`: without
  overlap *every* invocation that ends without a fault after it changed the routes
  has undone itself, unless the verification of its traffic rollback kills it.
- `UndisturbedStartsAuthenticate` marks out what `VaultInterrupted` shows: if
  the sleep is long enough and nothing is killed or stopped, what
  `docs/architecture.md` says of authentication on startup holds: every start
  has credentials for its services and secrets they can read, its own ones if
  it has brought up the vault. `QuietInv` says how far the vault must be at
  each command of the script.

### The safety half of the liveness properties

Liveness is out of the prover's reach, and so is `ENABLED`. What stands behind
it is not: that whoever is on the way can go on, or waits for something that
can, and that its steps use up a number. TLC checks the liveness properties
under the fairness above; the theorems say, for every size, why they hold.

| Liveness, model-checked | Never stuck | Runs down |
|---|---|---|
| `DeployReturns`, `DeployEnds` | `ManagersNeverStuck`, `DeploysNeverStuck` | `ManagersRunDown`: 5 steps and 2 per file name; `DeploysRunDown`: 24 and 2 per file name |
| `ExecReturns` | `CallersNeverStuck` | `CallsRunDown`: 14 per retry and 3 |
| `FoundOnceUp` | `UpIsFoundUp`: once the targets are up, a new round cannot fail | `RoundsEnd`: 3 steps per check |
| `BootstrapEnds` | `WaitsEnd` | `ScriptsRunDown`: 20 commands besides the rounds of the wait |
| `HandlersReturn` | `HandlersWaitForPodman` | `StopsAreFinal` |
| `SignalEnds` | `StopsWaitForTheDoomed` | `StopsAreNotUndone`: no stage twice |
| `GetsToServe` | `StartNeverStuck` | — |

"Can go on" is written by hand (`CanStep`, `CanGo`, `StartCanGo`); TLC compared
each with `ENABLED` of the step on the instances of the runs. Counting steps
needs finite sets of files and of checks, which `ManagersRunDown`,
`DeploysRunDown` and `RoundsEnd` assume; the counts hold for every
interleaving, so no retry, reconnection, rollback or rewriting by somebody else
can start a run again. `DeploysRunDown` leaves out the inspections of a health
check, which go on until the timer fires: 24 steps, and two for each file name.
`StartNeverStuck` assumes `Awaited \subseteq Services`: the platform has the
two services whose readiness others wait for. The rest of liveness, that a step
that can be taken is taken, is the fairness stated above.

The invariants behind these: `HolderInv`, the mutex's holder is in an attempt
(the converse of `MutexInv`); `ParsedInv`, a manager has only parsed
configurations before it; `ReadyInv`, the images an invocation pulls are in the
registry and its manager is loaded when it deploys; `WaitInv`, the vault the
script waits for has been started and, with the keys at hand, unsealed;
`DownInv`, what a `bin/stop` waits for can only go down; and `QuietInv` of
`Platform`, nothing goes down before the first signal.

Only model-checked: the eight liveness properties of the table as such.

## What is not modelled

- The struct types that mirror Traefik's schema (`pkg/traefik/staticconfig.go`
  and most of `dynamicconfig.go`), logging, `pkg/cli`, entrypoints and image
  builds of third-party services: data, output and pass-through. What is inside
  an SSH key; `container.go`, which passes its arguments to podman.
- `StateManager.Save`: the program never reaches it. Methods without a caller
  (`ContainerManager.Start`, `Run`, `Exec`, `Auth`, `CompareTags`,
  `GitManager.Fetch`, `SSHSession.Close`, `http.Server.Shutdown`).
- The Windows branches of the Installer: `uname -s` never prints that name.
- Pulls and builds of the functions' images at the start of serve, which leave
  no trace when they fail; `bin/configure`'s templates and certificates; and
  `bin/reset`, which removes everything the models speak of.
- The other five services in `PlatformRuns`; the module and its proofs have all
  eight.
- Contexts and their timeouts in `Rollback`: no step looks at them.
- Connections and goroutines that leak until the process ends.

## How the modules build on each other

`TrafficManager` implements `RouteLifecycle`, `RemoteExecutor` implements
`ExecContract`, `DeployCommand` implements `HostPreparation`. `Deployer`
instantiates `TrafficManager`, `Platform` instantiates `FunctionsApi`, and their
proofs use those of the parts. `DeployCommand` ends where `Deployer` begins:
with a tag, built images and the compose file. What a command of `Deployer`
relies on is `ExecContract`.
