-------------------------- MODULE HostPreparation --------------------------
(***************************************************************************)
(* What NewDeployer does before a deploy: Verify of both executors, with   *)
(* the Installer on the remote host, and NewContainerManager's search for  *)
(* a container runtime (uberbase/pkg/core, uberbase/pkg/containers).       *)
(*                                                                         *)
(* Every question is a command run on the host, and every command that     *)
(* fails means "not there": a lost connection reads like a missing tool.   *)
(***************************************************************************)
EXTENDS Naturals

CONSTANTS
  LocalTools,  \* the sets of tools the local machine may have
  MaxFaults    \* how many remote commands fail for a reason of their own

Tools == {"git", "docker", "plugin", "docker-compose", "podman",
          "podman-compose"}
\* The compose plugin comes with docker.
Installed == {s \in SUBSET Tools : "plugin" \in s => "docker" \in s}
\* What DetectPlatform tells apart; "other" is a Linux it does not know.
Systems == {"Darwin", "debian", "rhel", "alpine", "other"}
Users == {"root", "sudoer", "plain"}

ASSUME HostConstants ==
  /\ LocalTools \subseteq Installed
  /\ MaxFaults \in Nat

VARIABLES
  system,    \* the remote operating system
  user,      \* the remote user's privileges
  tools,     \* the tools on each host
  step,      \* where NewDeployer is
  platform,  \* Installer.platform: NoPlatform before DetectPlatform
  runtime,   \* the executor each ContainerManager got
  previous,  \* the remote runtime of the latest deploy that got this far
  doubted,   \* whether the answer to a question was ever lost
  faults

machine == <<system, user>>
vars == <<machine, tools, step, platform, runtime, previous, doubted, faults>>

Hosts == {"local", "remote"}
Runtimes == {"podman", "docker"}
NoRuntime == "none"
Platforms == [system : Systems, sudo : BOOLEAN]
NoPlatform == [system |-> "unknown", sudo |-> FALSE]
Ended == {"ready", "failed", "refused"}

TypeOK ==
  /\ system \in Systems /\ user \in Users
  /\ tools \in [Hosts -> Installed]
  /\ step \in {"local", "connect", "git", "installGit", "docker", "podman",
               "podmanCompose", "installPodman", "installCompose",
               "installDocker", "managers"} \cup Ended
  /\ platform \in Platforms \cup {NoPlatform}
  /\ runtime \in [Hosts -> Runtimes \cup {NoRuntime}]
  /\ previous \in Runtimes \cup {NoRuntime}
  /\ doubted \in BOOLEAN
  /\ faults \in 0..MaxFaults

Init ==
  /\ system \in Systems /\ user \in Users
  /\ \E l \in LocalTools, r \in Installed :
       tools = [h \in Hosts |-> IF h = "local" THEN l ELSE r]
  /\ step = "local"
  /\ platform = NoPlatform
  /\ runtime = [h \in Hosts |-> NoRuntime]
  /\ previous = NoRuntime
  /\ doubted = FALSE
  /\ faults = 0

At(s, next) == step = s /\ step' = next
Fault == faults < MaxFaults /\ faults' = faults + 1
NoFault == UNCHANGED <<faults, doubted>>

\* The answer to a question whose truth is "truth": the truth, or no.
Ask(truth, answer) ==
  \/ answer = truth /\ NoFault
  \/ answer = FALSE /\ truth /\ Fault /\ doubted' = TRUE

-----------------------------------------------------------------------------
\* LocalExecutor.Verify installs nothing.
Verified(t) ==
  /\ "git" \in t
  /\ {"docker", "podman"} \cap t # {}
  /\ {"plugin", "podman-compose"} \cap t # {}

VerifyLocal ==
  /\ At("local", IF Verified(tools["local"]) THEN "connect" ELSE "failed")
  /\ UNCHANGED <<machine, tools, platform, runtime, previous>> /\ NoFault

\* RemoteExecutor.Test.
Test ==
  /\ \/ At("connect", "git") /\ NoFault
     \/ At("connect", "failed") /\ Fault /\ UNCHANGED doubted
  /\ UNCHANGED <<machine, tools, platform, runtime, previous>>

\* One question of RemoteExecutor.Verify: go to "yes" or to "no".
Question(s, tool, yes, no) ==
  /\ \E answer \in BOOLEAN :
       /\ Ask(tool \in tools["remote"], answer)
       /\ At(s, IF answer THEN yes ELSE no)
  /\ UNCHANGED <<machine, tools, platform, runtime, previous>>

\* Mutation of HasDocker: docker is looked for after podman only.
HasNoDocker ==
  /\ At("docker", "podman")
  /\ UNCHANGED <<machine, tools, platform, runtime, previous>> /\ NoFault

HasGit == Question("git", "git", "docker", "installGit")
HasDocker == Question("docker", "docker", "managers", "podman")
HasPodman == Question("podman", "podman", "podmanCompose", "installPodman")
HasPodmanCompose ==
  Question("podmanCompose", "podman-compose", "managers", "installPodman")

-----------------------------------------------------------------------------
\* DetectPlatform, once per Installer: uname must succeed; a lost answer about
\* sudo or the distribution changes what is installed and how.
Detected(sudo, known) ==
  /\ platform' = [system |-> IF known THEN system ELSE "other", sudo |-> sudo]
  /\ UNCHANGED step

DetectPlatform ==
  /\ step \in {"installGit", "installPodman"}
  /\ platform = NoPlatform
  /\ \/ Detected(user # "plain", TRUE) /\ NoFault
     \/ user # "plain" /\ Detected(FALSE, TRUE) /\ Fault /\ doubted' = TRUE
     \/ /\ system # "Darwin"
        /\ Detected(user # "plain", FALSE)
        /\ Fault /\ doubted' = TRUE
     \/ step' = "failed" /\ Fault /\ UNCHANGED <<platform, doubted>>
  /\ UNCHANGED <<machine, tools, runtime, previous>>

Elevated == user = "root" \/ platform.sudo
\* "sudo " is put before "apt-get update && apt-get install": the shell runs
\* only the first of the two with it.
Apt == platform.system = "debian" /\ user = "root"
Dnf == platform.system = "rhel" /\ Elevated
Apk == platform.system = "alpine" /\ Elevated
Brew == platform.system = "Darwin"
Linux == platform.system # "Darwin"

Add(new) == tools' = [tools EXCEPT !["remote"] = @ \cup new]

\* An installer's command adds its tools and goes on to "next", or does not
\* and goes on to "else": always when it cannot work, else with a fault.
Install(s, works, new, next, else) ==
  /\ platform # NoPlatform
  /\ \/ works /\ Add(new) /\ At(s, next) /\ UNCHANGED faults
     \/ UNCHANGED tools /\ At(s, else)
        /\ IF works THEN Fault ELSE UNCHANGED faults
  /\ UNCHANGED <<machine, platform, runtime, previous, doubted>>

InstallGit ==
  Install("installGit", Apt \/ Dnf \/ Apk \/ Brew, {"git"}, "docker", "failed")

\* Mutation of InstallPodman: the runtime is taken for complete.
InstallPodmanOnly ==
  Install("installPodman", Apt \/ Dnf \/ Brew, {"podman"},
          "managers", "installDocker")

\* InstallContainerRuntime: podman, and docker where podman cannot be had.
InstallPodman ==
  Install("installPodman", Apt \/ Dnf \/ Brew, {"podman"},
          "installCompose", "installDocker")

\* pip3, where podman could be installed and so privileges are there.
InstallPodmanCompose ==
  Install("installCompose", Brew \/ (Linux /\ Elevated), {"podman-compose"},
          "managers", "failed")

\* Mutation of InstallDocker: only the compose plugin is installed.
InstallPlugin ==
  Install("installDocker", Brew \/ (Linux /\ user # "plain"),
          {"plugin"}, "managers", "failed")

\* Docker's script elevates itself where it can, and brings the plugin.
InstallDocker ==
  Install("installDocker", Brew \/ (Linux /\ user # "plain"),
          {"docker", "plugin"}, "managers", "failed")

-----------------------------------------------------------------------------
\* Mutation of Found: podman is taken without podman-compose.
FoundAlone(t) ==
  IF "podman" \in t THEN "podman"
  ELSE IF "docker" \in t /\ {"docker-compose", "plugin"} \cap t # {}
         THEN "docker"
  ELSE NoRuntime

\* NewContainerManager on a host where it sees the tools t.
Found(t) ==
  IF {"podman", "podman-compose"} \subseteq t THEN "podman"
  ELSE IF "docker" \in t /\ {"docker-compose", "plugin"} \cap t # {}
         THEN "docker"
  ELSE NoRuntime

\* Both managers are created, the local one first. One lost connection may cost
\* any of the answers the search on the host waits for.
NewContainerManagers ==
  /\ step = "managers"
  /\ \E seen \in SUBSET tools["remote"] :
       /\ IF seen = tools["remote"] THEN NoFault
          ELSE Fault /\ doubted' = TRUE
       /\ runtime' = [h \in Hosts |-> IF h = "local" THEN Found(tools[h])
                                                     ELSE Found(seen)]
  /\ step' = IF runtime'["local"] = NoRuntime THEN "failed"
             ELSE IF runtime'["remote"] = NoRuntime THEN "refused"
             ELSE "ready"
  /\ UNCHANGED <<machine, tools, platform, previous>>

\* The next deploy is a new process: the tools stay, the platform is unknown.
Retry ==
  /\ step \in Ended
  /\ step' = "local"
  /\ previous' = IF step = "ready" THEN runtime["remote"] ELSE previous
  /\ platform' = NoPlatform
  /\ runtime' = [h \in Hosts |-> NoRuntime]
  /\ UNCHANGED <<machine, tools, doubted, faults>>

Verify ==
  \/ HasGit \/ InstallGit \/ HasDocker \/ HasPodman \/ HasPodmanCompose
  \/ DetectPlatform \/ InstallPodman \/ InstallPodmanCompose \/ InstallDocker

Next == VerifyLocal \/ Test \/ Verify \/ NewContainerManagers \/ Retry

Spec == Init /\ [][Next]_vars

-----------------------------------------------------------------------------
\* A deploy that starts has git and, for the runtime it is going to call, both
\* the engine and its compose command on each host, however many commands
\* failed on the way (containers/manager.go:29-65, core/remote.go:46-69).
ReadyHasRuntime ==
  step = "ready" =>
    \A h \in Hosts :
      /\ "git" \in tools[h]
      /\ runtime[h] = "podman" => {"podman", "podman-compose"} \subseteq tools[h]
      /\ runtime[h] = "docker" =>
           "docker" \in tools[h] /\ {"docker-compose", "plugin"} \cap tools[h] # {}
      /\ runtime[h] # NoRuntime

\* As long as no answer is lost, Verify hands over a host NewContainerManager
\* refuses in one case only: docker is there without any compose command.
\* Installations that broke off in earlier attempts are completed
\* (core/installer.go:127-141).
VerifiedIsUsable ==
  step = "refused" /\ ~doubted =>
    "docker" \in tools["remote"] /\ Found(tools["remote"]) = NoRuntime

\* As long as no answer is lost, a host that was deployed to with one runtime
\* is not deployed to with another, under which the containers of the earlier
\* deploy would not be found (containers/manager.go:32-53).
RuntimeKept ==
  step = "ready" /\ previous # NoRuntime /\ ~doubted =>
    runtime["remote"] = previous
=============================================================================
