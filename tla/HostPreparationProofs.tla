------------------------ MODULE HostPreparationProofs ------------------------
(* Theorems about HostPreparation for every machine and number of faults,    *)
(* and about DeployCommand, which runs it, for every number of edits.        *)
EXTENDS DeployCommand, TLAPS

AfterGit == {"docker", "podman", "podmanCompose", "installPodman",
             "installCompose", "installDocker", "managers", "ready"}

\* What a host needs for the executor its manager got.
Complete(h) ==
  /\ runtime[h] = "podman" => {"podman", "podman-compose"} \subseteq tools[h]
  /\ runtime[h] = "docker" =>
       "docker" \in tools[h] /\ {"docker-compose", "plugin"} \cap tools[h] # {}
  /\ runtime[h] # NoRuntime

\* git is looked for once, on each host, and tools are never removed.
GitInv ==
  /\ step \notin {"local", "failed"} => "git" \in tools["local"]
  /\ step \in AfterGit => "git" \in tools["remote"]

ReadyInv == step = "ready" => \A h \in Hosts : Complete(h)

HInv == TypeOK /\ GitInv /\ ReadyInv

-----------------------------------------------------------------------------
LEMMA InitHInv == Init => HInv
<1> SUFFICES ASSUME Init PROVE HInv
  OBVIOUS
<1>1. tools \in [Hosts -> Installed]
  BY HostConstants DEF Init
<1>2. /\ platform \in Platforms \cup {NoPlatform}
      /\ runtime \in [Hosts -> Runtimes \cup {NoRuntime}]
  BY DEF Init
<1>3. faults \in 0..MaxFaults /\ doubted \in BOOLEAN
  <2>1. faults \in 0..MaxFaults
    BY HostConstants DEF Init
  <2>2. doubted \in BOOLEAN
    BY Zenon DEF Init
  <2> QED BY <2>1, <2>2
<1>4. TypeOK
  <2>1. /\ system \in Systems /\ user \in Users
        /\ previous \in Runtimes \cup {NoRuntime}
        /\ step = "local"
    BY DEF Init
  <2> QED BY <1>1, <1>2, <1>3, <2>1 DEF TypeOK
<1> QED BY <1>4 DEF Init, HInv, GitInv, ReadyInv, AfterGit

\* A fault is counted within its bound.
LEMMA FaultType ==
  ASSUME TypeOK, NoFault \/ Fault
  PROVE  faults' \in 0..MaxFaults
BY HostConstants DEF TypeOK, NoFault, Fault

\* What a question may change.
LEMMA QuestionStep ==
  ASSUME HInv, NEW s, NEW tool, NEW yes, NEW no,
         Question(s, tool, yes, no)
  PROVE  /\ step = s
         /\ step' = no \/ (step' = yes /\ tool \in tools["remote"])
         /\ UNCHANGED <<machine, tools, platform, runtime, previous>>
         /\ faults' \in 0..MaxFaults /\ doubted' \in BOOLEAN
<1>1. PICK answer \in BOOLEAN : /\ Ask(tool \in tools["remote"], answer)
                                /\ At(s, IF answer THEN yes ELSE no)
  BY DEF Question
<1>2. UNCHANGED <<machine, tools, platform, runtime, previous>>
  BY DEF Question
<1>3. faults' \in 0..MaxFaults
  BY <1>1, FaultType DEF Ask, HInv
<1>4. doubted' \in BOOLEAN
  BY <1>1 DEF Ask, NoFault, HInv, TypeOK
<1>5. CASE answer = TRUE
  BY <1>1, <1>2, <1>3, <1>4, <1>5 DEF Ask, At
<1>6. CASE answer = FALSE
  BY <1>1, <1>2, <1>3, <1>4, <1>6 DEF At
<1> QED BY <1>5, <1>6

\* What an installation may change.
LEMMA InstallStep ==
  ASSUME HInv, NEW s, NEW works, NEW new \in SUBSET Tools, NEW next, NEW else,
         "plugin" \in new => "docker" \in new,
         Install(s, works, new, next, else)
  PROVE  /\ step = s
         /\ tools' \in [Hosts -> Installed]
         /\ tools'["local"] = tools["local"]
         /\ \/ step' = next /\ tools'["remote"] = tools["remote"] \cup new
            \/ step' = else /\ tools' = tools
         /\ UNCHANGED <<machine, platform, runtime, previous, doubted>>
         /\ faults' \in 0..MaxFaults
<1>1. tools \in [Hosts -> Installed]
  BY DEF HInv, TypeOK
<1>2. faults' \in 0..MaxFaults
  BY FaultType DEF Install, HInv, TypeOK, NoFault, Fault
<1>3. UNCHANGED <<machine, platform, runtime, previous, doubted>>
  BY DEF Install
<1>4. CASE Add(new) /\ At(s, next)
  <2>1. tools["remote"] \cup new \in Installed
    BY <1>1 DEF Installed, Hosts
  <2> QED BY <1>1, <1>2, <1>3, <1>4, <2>1 DEF Add, At, Hosts
<1>5. CASE UNCHANGED tools /\ At(s, else)
  BY <1>1, <1>2, <1>3, <1>5 DEF At
<1> QED BY <1>4, <1>5 DEF Install

\* What NewContainerManager finds is there, whatever it did not see.
LEMMA FoundIsComplete ==
  ASSUME NEW t, NEW seen \in SUBSET t
  PROVE  /\ Found(seen) \in Runtimes \cup {NoRuntime}
         /\ Found(seen) = "podman" => {"podman", "podman-compose"} \subseteq t
         /\ Found(seen) = "docker" =>
              "docker" \in t /\ {"docker-compose", "plugin"} \cap t # {}
BY DEF Found, Runtimes, NoRuntime

-----------------------------------------------------------------------------
(* Every step keeps the invariant; one lemma for each kind of step.          *)

\* The invariant once the variables a question or an installation leaves
\* alone are left alone.
LEMMA HInvParts ==
  ASSUME HInv,
         UNCHANGED <<machine, runtime, previous>>,
         platform' = platform, doubted' \in BOOLEAN, faults' \in 0..MaxFaults,
         tools' \in [Hosts -> Installed],
         tools'["local"] = tools["local"],
         step \notin {"local"} \cup Ended,
         step' \in {"git", "installGit", "docker", "podman", "podmanCompose",
                   "installPodman", "installCompose", "installDocker",
                   "managers", "failed"},
         step' \in AfterGit => "git" \in tools'["remote"]
  PROVE  HInv'
<1>1. TypeOK'
  <2>1. /\ system' \in Systems /\ user' \in Users
        /\ runtime' \in [Hosts -> Runtimes \cup {NoRuntime}]
        /\ previous' \in Runtimes \cup {NoRuntime}
    BY DEF HInv, TypeOK, machine
  <2>2. platform' \in Platforms \cup {NoPlatform}
    BY DEF HInv, TypeOK
  <2> QED BY <2>1, <2>2 DEF TypeOK, Ended
<1>2. GitInv'
  BY DEF HInv, GitInv, AfterGit, Ended
<1>3. ReadyInv'
  BY DEF ReadyInv
<1> QED BY <1>1, <1>2, <1>3 DEF HInv

LEMMA QuestionInv ==
  ASSUME HInv, HasGit \/ HasDocker \/ HasPodman \/ HasPodmanCompose
  PROVE  HInv'
<1> USE DEF HInv, TypeOK, GitInv, AfterGit, Ended
<1>1. CASE HasGit
  <2>1. /\ step = "git"
        /\ step' = "installGit" \/ (step' = "docker" /\ "git" \in tools["remote"])
        /\ UNCHANGED <<machine, tools, platform, runtime, previous>>
        /\ faults' \in 0..MaxFaults /\ doubted' \in BOOLEAN
    BY <1>1, QuestionStep DEF HasGit
  <2> QED BY <2>1, HInvParts
<1>2. CASE HasDocker
  <2>1. /\ step = "docker"
        /\ step' = "podman" \/ (step' = "managers" /\ "docker" \in tools["remote"])
        /\ UNCHANGED <<machine, tools, platform, runtime, previous>>
        /\ faults' \in 0..MaxFaults /\ doubted' \in BOOLEAN
    BY <1>2, QuestionStep DEF HasDocker
  <2> QED BY <2>1, HInvParts
<1>3. CASE HasPodman
  <2>1. /\ step = "podman"
        /\ step' = "installPodman" \/ (step' = "podmanCompose" /\ "podman" \in tools["remote"])
        /\ UNCHANGED <<machine, tools, platform, runtime, previous>>
        /\ faults' \in 0..MaxFaults /\ doubted' \in BOOLEAN
    BY <1>3, QuestionStep DEF HasPodman
  <2> QED BY <2>1, HInvParts
<1>4. CASE HasPodmanCompose
  <2>1. /\ step = "podmanCompose"
        /\ step' = "installPodman" \/ (step' = "managers" /\ "podman-compose" \in tools["remote"])
        /\ UNCHANGED <<machine, tools, platform, runtime, previous>>
        /\ faults' \in 0..MaxFaults /\ doubted' \in BOOLEAN
    BY <1>4, QuestionStep DEF HasPodmanCompose
  <2> QED BY <2>1, HInvParts
<1> QED BY <1>1, <1>2, <1>3, <1>4

LEMMA InstallInv ==
  ASSUME HInv,
         InstallGit \/ InstallPodman \/ InstallPodmanCompose \/ InstallDocker
  PROVE  HInv'
<1> USE DEF HInv, GitInv, AfterGit, Ended
<1>1. CASE InstallGit
  <2>1. /\ step = "installGit"
        /\ tools' \in [Hosts -> Installed] /\ tools'["local"] = tools["local"]
        /\ \/ step' = "docker" /\ tools'["remote"] = tools["remote"] \cup {"git"}
           \/ step' = "failed" /\ tools' = tools
        /\ UNCHANGED <<machine, platform, runtime, previous, doubted>>
        /\ faults' \in 0..MaxFaults
    BY <1>1, InstallStep DEF InstallGit, Tools
  <2> QED BY <2>1, HInvParts DEF TypeOK
<1>2. CASE InstallPodman
  <2>1. /\ step = "installPodman"
        /\ tools' \in [Hosts -> Installed] /\ tools'["local"] = tools["local"]
        /\ \/ step' = "installCompose" /\ tools'["remote"] = tools["remote"] \cup {"podman"}
           \/ step' = "installDocker" /\ tools' = tools
        /\ UNCHANGED <<machine, platform, runtime, previous, doubted>>
        /\ faults' \in 0..MaxFaults
    BY <1>2, InstallStep DEF InstallPodman, Tools
  <2> QED BY <2>1, HInvParts DEF TypeOK
<1>3. CASE InstallPodmanCompose
  <2>1. /\ step = "installCompose"
        /\ tools' \in [Hosts -> Installed] /\ tools'["local"] = tools["local"]
        /\ \/ /\ step' = "managers"
              /\ tools'["remote"] = tools["remote"] \cup {"podman-compose"}
           \/ step' = "failed" /\ tools' = tools
        /\ UNCHANGED <<machine, platform, runtime, previous, doubted>>
        /\ faults' \in 0..MaxFaults
    BY <1>3, InstallStep DEF InstallPodmanCompose, Tools
  <2> QED BY <2>1, HInvParts DEF TypeOK
<1>4. CASE InstallDocker
  <2>1. /\ step = "installDocker"
        /\ tools' \in [Hosts -> Installed] /\ tools'["local"] = tools["local"]
        /\ \/ step' = "managers" /\ tools'["remote"] = tools["remote"] \cup {"docker", "plugin"}
           \/ step' = "failed" /\ tools' = tools
        /\ UNCHANGED <<machine, platform, runtime, previous, doubted>>
        /\ faults' \in 0..MaxFaults
    BY <1>4, InstallStep DEF InstallDocker, Tools
  <2> QED BY <2>1, HInvParts DEF TypeOK
<1> QED BY <1>1, <1>2, <1>3, <1>4

LEMMA DetectInv ==
  ASSUME HInv, DetectPlatform
  PROVE  HInv'
<1>1. /\ step' \in {step, "failed"}
      /\ UNCHANGED <<machine, tools, runtime, previous>>
      /\ step # "ready"
  BY DEF DetectPlatform, Detected
<1>2. platform' \in Platforms \cup {NoPlatform}
  <2>1. CASE UNCHANGED platform
    BY <2>1 DEF HInv, TypeOK
  <2>2. CASE \E sudo, known \in BOOLEAN : Detected(sudo, known)
    <3>1. PICK sudo \in BOOLEAN, known \in BOOLEAN : Detected(sudo, known)
      BY <2>2
    <3>2. (IF known THEN system ELSE "other") \in Systems
      BY DEF HInv, TypeOK, Systems
    <3> QED BY <3>1, <3>2 DEF Detected, Platforms
  <2>3. (user # "plain") \in BOOLEAN
    OBVIOUS
  <2> QED BY <2>1, <2>2, <2>3 DEF DetectPlatform
<1>3. doubted' \in BOOLEAN
  BY DEF DetectPlatform, NoFault, HInv, TypeOK
<1>4. faults' \in 0..MaxFaults
  BY FaultType DEF DetectPlatform, HInv
<1> QED BY <1>1, <1>2, <1>3, <1>4
        DEF HInv, TypeOK, GitInv, ReadyInv, AfterGit, Ended, machine

LEMMA ManagersInv ==
  ASSUME HInv, NewContainerManagers
  PROVE  HInv'
<1>1. PICK seen \in SUBSET tools["remote"] :
        /\ NoFault \/ (Fault /\ doubted' = TRUE)
        /\ runtime' = [h \in Hosts |-> IF h = "local" THEN Found(tools[h])
                                                      ELSE Found(seen)]
  BY DEF NewContainerManagers
<1>2. UNCHANGED <<machine, tools, platform, previous>> /\ step = "managers"
  BY DEF NewContainerManagers
<1>3. /\ step' \in Ended
      /\ step' = "ready" => /\ runtime'["local"] # NoRuntime
                            /\ runtime'["remote"] # NoRuntime
  BY DEF NewContainerManagers, Ended
<1>4. faults' \in 0..MaxFaults
  BY <1>1, FaultType DEF HInv
<1>5. doubted' \in BOOLEAN
  BY <1>1 DEF NoFault, HInv, TypeOK
<1>6. runtime' \in [Hosts -> Runtimes \cup {NoRuntime}]
  BY <1>1, FoundIsComplete
<1>7. TypeOK'
  BY <1>2, <1>3, <1>4, <1>5, <1>6 DEF HInv, TypeOK, machine
<1>8. GitInv'
  BY <1>2, <1>3 DEF HInv, GitInv, AfterGit, Ended
<1>9. ReadyInv'
  <2> SUFFICES ASSUME step' = "ready", NEW h \in Hosts PROVE Complete(h)'
    BY DEF ReadyInv
  <2>1. runtime'[h] # NoRuntime
    BY <1>3 DEF Hosts
  <2>2. CASE h = "local"
    BY <1>1, <1>2, <2>1, <2>2, FoundIsComplete DEF Complete
  <2>3. CASE h = "remote"
    BY <1>1, <1>2, <2>1, <2>3, FoundIsComplete DEF Complete
  <2> QED BY <2>2, <2>3 DEF Hosts
<1> QED BY <1>7, <1>8, <1>9 DEF HInv

LEMMA OtherInv ==
  ASSUME HInv, VerifyLocal \/ Test \/ Retry
  PROVE  HInv'
<1> USE DEF HInv, TypeOK, GitInv, ReadyInv, AfterGit, Ended, machine
<1>1. CASE VerifyLocal
  BY <1>1 DEF VerifyLocal, Verified, At, NoFault
<1>2. CASE Test
  <2>1. faults' \in 0..MaxFaults /\ doubted' \in BOOLEAN
    BY <1>2, FaultType DEF Test, NoFault
  <2>2. step = "connect" /\ step' \in {"git", "failed"}
    BY <1>2 DEF Test, At
  <2> QED BY <1>2, <2>1, <2>2 DEF Test
<1>3. CASE Retry
  <2>1. previous' \in Runtimes \cup {NoRuntime}
    BY <1>3 DEF Retry, Hosts
  <2>2. runtime' \in [Hosts -> Runtimes \cup {NoRuntime}]
    BY <1>3 DEF Retry
  <2>3. step' = "local" /\ platform' = NoPlatform
        /\ UNCHANGED <<machine, tools, doubted, faults>>
    BY <1>3 DEF Retry
  <2> QED BY <2>1, <2>2, <2>3
<1> QED BY <1>1, <1>2, <1>3

\* The invariant holds of every sequence of attempts.
THEOREM HostInvariant == Spec => []HInv
<1>1. HInv /\ Next => HInv'
  BY QuestionInv, InstallInv, DetectInv, ManagersInv, OtherInv DEF Next, Verify
<1>2. HInv /\ UNCHANGED vars => HInv'
  BY DEF HInv, TypeOK, GitInv, ReadyInv, Complete, vars, machine
<1> QED BY InitHInv, <1>1, <1>2, PTL DEF Spec

\* The types of the hosts, the installer and the managers.
THEOREM HostType == Spec => []TypeOK
<1>1. HInv => TypeOK
  BY DEF HInv
<1> QED BY HostInvariant, <1>1, PTL

\* A deploy that starts has git and a whole runtime on both hosts, whatever
\* the machines had and however many commands failed in whichever attempt.
THEOREM PreparedHosts == Spec => []ReadyHasRuntime
<1>1. HInv => ReadyHasRuntime
  BY DEF HInv, GitInv, ReadyInv, Complete, ReadyHasRuntime, AfterGit, Hosts
<1> QED BY HostInvariant, <1>1, PTL

-----------------------------------------------------------------------------
(* What the runtime that is found depends on.                                *)

Remote == tools["remote"]
Pair == {"podman", "podman-compose"}
RuntimeSteps == {"podman", "podmanCompose", "installPodman", "installCompose",
                 "installDocker"}

\* Whatever was answered on the way, the managers are reached with docker or
\* with all of podman.
WayInv ==
  /\ step \in {"podmanCompose", "installCompose"} => "podman" \in Remote
  /\ step = "managers" => "docker" \in Remote \/ Pair \subseteq Remote

\* As long as no answer was lost the runtime found is the one an earlier deploy
\* found: podman's tools stay, and with docker nothing of podman is installed.
FoundInv ==
  ~doubted =>
    /\ step = "ready" => runtime["remote"] = Found(Remote)
    /\ previous # NoRuntime => Found(Remote) = previous
    /\ previous = "docker" => step \notin RuntimeSteps

RInv == HInv /\ WayInv /\ FoundInv /\ VerifiedIsUsable

LEMMA PairIsPodman == \A t : Found(t) = "podman" <=> Pair \subseteq t
BY DEF Found, Pair, NoRuntime

\* What a step of Verify may do as far as the runtime goes.
LEMMA RuntimeParts ==
  ASSUME RInv, UNCHANGED <<runtime, previous>>,
         step \notin {"local"} \cup Ended, step' \notin {"local", "ready", "refused"},
         Remote \subseteq Remote', ~doubted' => ~doubted,
         WayInv',
         previous = "docker" /\ ~doubted' =>
           Found(Remote') = Found(Remote) /\ step' \notin RuntimeSteps
  PROVE  WayInv' /\ FoundInv' /\ VerifiedIsUsable'
<1>1. VerifiedIsUsable'
  BY DEF VerifiedIsUsable
<1>2. FoundInv'
  <2> SUFFICES ASSUME ~doubted' PROVE FoundInv'
    BY DEF FoundInv
  <2>1. previous # NoRuntime => Found(Remote) = previous
    BY DEF RInv, FoundInv
  <2>2. previous \in Runtimes \cup {NoRuntime}
    BY DEF RInv, HInv, TypeOK
  <2>3. previous = "podman" => Found(Remote') = "podman"
    BY <2>1, PairIsPodman DEF NoRuntime, Pair
  <2> QED BY <2>1, <2>2, <2>3 DEF FoundInv, Runtimes
<1> QED BY <1>1, <1>2

LEMMA QuestionRuntime ==
  ASSUME RInv, HasGit \/ HasDocker \/ HasPodman \/ HasPodmanCompose
  PROVE  WayInv' /\ FoundInv' /\ VerifiedIsUsable'
<1>1. HInv /\ WayInv /\ FoundInv
  BY DEF RInv
<1>2. previous = "docker" /\ ~doubted => "docker" \in Remote /\ step \notin RuntimeSteps
  BY <1>1 DEF FoundInv, Found, NoRuntime
<1>3. ~doubted' => ~doubted
  BY DEF HasGit, HasDocker, HasPodman, HasPodmanCompose, Question, Ask, NoFault
<1>4. CASE HasGit
  <2>1. /\ step = "git" /\ step' \in {"installGit", "docker"}
        /\ UNCHANGED <<tools, runtime, previous>>
    BY <1>1, <1>4, QuestionStep DEF HasGit
  <2> QED BY <1>3, <2>1, RuntimeParts DEF WayInv, Remote, Ended, RuntimeSteps
<1>5. CASE HasDocker
  <2>1. /\ step = "docker"
        /\ step' = "podman" \/ (step' = "managers" /\ "docker" \in Remote)
        /\ UNCHANGED <<tools, runtime, previous>>
    BY <1>1, <1>5, QuestionStep DEF HasDocker, Remote
  <2>2. ~doubted' /\ "docker" \in Remote => step' = "managers"
    BY <1>5 DEF HasDocker, Question, Ask, At, NoFault, Remote
  <2>3. Remote' = Remote /\ WayInv'
    BY <2>1 DEF WayInv, Remote
  <2>4. previous = "docker" /\ ~doubted' => step' \notin RuntimeSteps
    BY <1>2, <1>3, <2>1, <2>2 DEF RuntimeSteps
  <2> QED BY <1>3, <2>1, <2>3, <2>4, RuntimeParts DEF Ended
<1>6. CASE HasPodman
  <2>1. /\ step = "podman"
        /\ step' = "installPodman" \/ (step' = "podmanCompose" /\ "podman" \in Remote)
        /\ UNCHANGED <<tools, runtime, previous>>
    BY <1>1, <1>6, QuestionStep DEF HasPodman, Remote
  <2>2. Remote' = Remote /\ WayInv'
    BY <2>1 DEF WayInv, Remote
  <2>3. ~(previous = "docker" /\ ~doubted')
    BY <1>2, <1>3, <2>1 DEF RuntimeSteps
  <2> QED BY <1>3, <2>1, <2>2, <2>3, RuntimeParts DEF Ended
<1>7. CASE HasPodmanCompose
  <2>1. /\ step = "podmanCompose"
        /\ step' = "installPodman" \/ (step' = "managers" /\ "podman-compose" \in Remote)
        /\ UNCHANGED <<tools, runtime, previous>>
    BY <1>1, <1>7, QuestionStep DEF HasPodmanCompose, Remote
  <2>2. Remote' = Remote /\ WayInv'
    BY <1>1, <2>1 DEF WayInv, Remote, Pair
  <2>3. ~(previous = "docker" /\ ~doubted')
    BY <1>2, <1>3, <2>1 DEF RuntimeSteps
  <2> QED BY <1>3, <2>1, <2>2, <2>3, RuntimeParts DEF Ended
<1> QED BY <1>4, <1>5, <1>6, <1>7

LEMMA InstallRuntime ==
  ASSUME RInv,
         InstallGit \/ InstallPodman \/ InstallPodmanCompose \/ InstallDocker
  PROVE  WayInv' /\ FoundInv' /\ VerifiedIsUsable'
<1>1. HInv /\ WayInv /\ FoundInv
  BY DEF RInv
<1>2. previous = "docker" /\ ~doubted => step \notin RuntimeSteps
  BY <1>1 DEF FoundInv
<1>3. CASE InstallGit
  <2>1. /\ step = "installGit"
        /\ \/ step' = "docker" /\ Remote' = Remote \cup {"git"}
           \/ step' = "failed" /\ Remote' = Remote
        /\ UNCHANGED <<runtime, previous, doubted>>
    BY <1>1, <1>3, InstallStep DEF InstallGit, Tools, Remote
  <2>2. Found(Remote') = Found(Remote)
    BY <2>1 DEF Found
  <2> QED BY <2>1, <2>2, RuntimeParts DEF WayInv, Ended, RuntimeSteps
<1>4. CASE InstallPodman
  <2>1. /\ step = "installPodman"
        /\ \/ step' = "installCompose" /\ Remote' = Remote \cup {"podman"}
           \/ step' = "installDocker" /\ Remote' = Remote
        /\ UNCHANGED <<runtime, previous, doubted>>
    BY <1>1, <1>4, InstallStep DEF InstallPodman, Tools, Remote
  <2> QED BY <1>2, <2>1, RuntimeParts DEF WayInv, Ended, RuntimeSteps
<1>5. CASE InstallPodmanCompose
  <2>1. /\ step = "installCompose"
        /\ \/ step' = "managers" /\ Remote' = Remote \cup {"podman-compose"}
           \/ step' = "failed" /\ Remote' = Remote
        /\ UNCHANGED <<runtime, previous, doubted>>
    BY <1>1, <1>5, InstallStep DEF InstallPodmanCompose, Tools, Remote
  <2> QED BY <1>1, <1>2, <2>1, RuntimeParts DEF WayInv, Pair, Ended, RuntimeSteps
<1>6. CASE InstallDocker
  <2>1. /\ step = "installDocker"
        /\ \/ step' = "managers" /\ Remote' = Remote \cup {"docker", "plugin"}
           \/ step' = "failed" /\ Remote' = Remote
        /\ UNCHANGED <<runtime, previous, doubted>>
    BY <1>1, <1>6, InstallStep DEF InstallDocker, Tools, Remote
  <2> QED BY <1>2, <2>1, RuntimeParts DEF WayInv, Ended, RuntimeSteps
<1> QED BY <1>3, <1>4, <1>5, <1>6

LEMMA ManagersRuntime ==
  ASSUME RInv, NewContainerManagers
  PROVE  WayInv' /\ FoundInv' /\ VerifiedIsUsable'
<1>1. PICK seen \in SUBSET tools["remote"] :
        /\ IF seen = tools["remote"] THEN NoFault ELSE Fault /\ doubted' = TRUE
        /\ runtime' = [h \in Hosts |-> IF h = "local" THEN Found(tools[h])
                                                      ELSE Found(seen)]
  BY DEF NewContainerManagers
<1>2. step = "managers" /\ UNCHANGED <<tools, previous>>
  BY DEF NewContainerManagers
<1>3. step' \in Ended /\ (step' = "refused" => runtime'["remote"] = NoRuntime)
  BY DEF NewContainerManagers, Ended
<1>4. runtime'["remote"] = Found(seen)
  BY <1>1 DEF Hosts
<1>5. ~doubted' => ~doubted /\ seen = Remote
  BY <1>1 DEF NoFault, Remote
<1>6. Pair \subseteq Remote => Found(Remote) # NoRuntime
  BY PairIsPodman DEF NoRuntime
<1>7. VerifiedIsUsable'
  BY <1>2, <1>3, <1>4, <1>5, <1>6 DEF VerifiedIsUsable, RInv, WayInv, Remote
<1>8. FoundInv'
  BY <1>2, <1>3, <1>4, <1>5 DEF FoundInv, RInv, Remote, RuntimeSteps, Ended
<1>9. WayInv'
  BY <1>3 DEF WayInv, Ended
<1> QED BY <1>7, <1>8, <1>9

LEMMA OtherRuntime ==
  ASSUME RInv, VerifyLocal \/ Test \/ DetectPlatform \/ Retry
  PROVE  WayInv' /\ FoundInv' /\ VerifiedIsUsable'
<1> USE DEF Remote
<1>1. CASE VerifyLocal \/ Test
  <2>1. /\ step' \in {"connect", "failed", "git"}
        /\ UNCHANGED <<tools, runtime, previous, doubted>>
    BY <1>1 DEF VerifyLocal, Test, At, NoFault
  <2> QED BY <2>1 DEF RInv, WayInv, FoundInv, VerifiedIsUsable, RuntimeSteps
<1>2. CASE DetectPlatform
  <2>1. /\ step \in {"installGit", "installPodman"} /\ step' \in {step, "failed"}
        /\ UNCHANGED <<tools, runtime, previous>> /\ (~doubted' => ~doubted)
    BY <1>2 DEF DetectPlatform, Detected, NoFault
  <2> QED BY <2>1 DEF RInv, WayInv, FoundInv, VerifiedIsUsable, RuntimeSteps
<1>3. CASE Retry
  <2>1. /\ previous' = IF step = "ready" THEN runtime["remote"] ELSE previous
        /\ step' = "local" /\ UNCHANGED <<tools, doubted>>
    BY <1>3 DEF Retry
  <2> QED BY <2>1 DEF RInv, WayInv, FoundInv, VerifiedIsUsable, RuntimeSteps
<1> QED BY <1>1, <1>2, <1>3

THEOREM RuntimeInvariant == Spec => []RInv
<1>1. Init => RInv
  <2> SUFFICES ASSUME Init PROVE RInv
    OBVIOUS
  <2>1. step = "local" /\ previous = NoRuntime
    BY DEF Init
  <2> QED BY <2>1, InitHInv
          DEF RInv, WayInv, FoundInv, VerifiedIsUsable, RuntimeSteps, NoRuntime
<1>2. RInv /\ Next => RInv'
  <2> SUFFICES ASSUME RInv, Next PROVE RInv'
    OBVIOUS
  <2>1. HInv'
    BY QuestionInv, InstallInv, DetectInv, ManagersInv, OtherInv
       DEF Next, Verify, RInv
  <2> QED BY <2>1, QuestionRuntime, InstallRuntime, ManagersRuntime, OtherRuntime
          DEF Next, Verify, RInv
<1>3. RInv /\ UNCHANGED vars => RInv'
  BY DEF RInv, HInv, TypeOK, GitInv, ReadyInv, Complete, WayInv, FoundInv,
         VerifiedIsUsable, Remote, vars, machine
<1> QED BY <1>1, <1>2, <1>3, PTL DEF Spec

\* VerifiedIsUsable: Verify leaves one unusable host only, with docker and no
\* compose command (core/remote.go:46, containers/manager.go:29).
THEOREM VerifiedHosts == Spec => []VerifiedIsUsable
<1>1. RInv => VerifiedIsUsable
  BY DEF RInv
<1> QED BY RuntimeInvariant, <1>1, PTL

\* RuntimeKept: an installation of a later deploy never changes the runtime an
\* earlier one used (core/installer.go:127, containers/manager.go:32).
THEOREM RuntimesStay == Spec => []RuntimeKept
<1>1. RInv => RuntimeKept
  BY DEF RInv, FoundInv, RuntimeKept
<1> QED BY RuntimeInvariant, <1>1, PTL

-----------------------------------------------------------------------------
(* The command.                                                              *)

LEMMA CommandStep == [CommandNext]_commandVars => [Next]_vars
<1> SUFFICES ASSUME CommandNext PROVE Next \/ UNCHANGED vars
  BY DEF commandVars
<1>1. CASE PrepareHosts
  BY <1>1 DEF PrepareHosts, Next
<1>2. CASE NextCommand
  BY <1>2 DEF NextCommand, Next
<1> QED
  BY <1>1, <1>2 DEF CommandNext, Arguments, LoadCompose, NewGitManager,
     GetCurrentCommit, BuildImage, SendCompose, Edit, Commit

\* The command runs NewDeployer as HostPreparation describes it, retries of
\* the whole command included (cmd/uberbase/deploy.go:113): what holds of
\* HostPreparation holds of the command.
THEOREM CommandPreparesHosts == CommandSpec => Spec
<1>1. CommandInit => Init
  BY DEF CommandInit
<1> QED BY <1>1, CommandStep, PTL DEF CommandSpec, Spec

\* What the command has read of the working directory, and when.
Reads ==
  /\ command \in Stages
  /\ tree \in Versions /\ head \in Versions /\ head <= tree
  /\ loaded \in Read /\ sha \in Read /\ tag \in Read /\ sent \in Read
  /\ built \in [Images -> Read] /\ section \in [Images -> Read]
  /\ calm \in BOOLEAN /\ settled \in BOOLEAN

\* The compose file is one the directory has held, and the latest commit's if
\* nothing changed since.
Compose ==
  /\ loaded # NoVersion => loaded <= tree
  /\ calm => loaded = head /\ head = tree
  /\ command \in {"prepare", "git", "commit", "build"} => loaded # NoVersion

NothingBuilt ==
  /\ tag = NoVersion /\ sent = NoVersion
  /\ \A i \in Images : built[i] = NoVersion

Since(version) == version # NoVersion => version >= tag /\ (settled => version = tag)

BuiltBy(i) == built[i] # NoVersion =>
  /\ section[i] # NoVersion /\ section[i] <= built[i]
  /\ calm => section[i] = tag

CInv ==
  /\ Reads
  /\ command \in {"arguments", "compose", "prepare", "git", "commit"} => NothingBuilt
  /\ tag # NoVersion => tag <= head
  /\ tag = NoVersion => NothingBuilt
  /\ settled => tag = head /\ head = tree
  /\ tag # NoVersion /\ calm => settled
  /\ command = "build" => tag # NoVersion
  /\ Compose
  /\ Since(sent) /\ \A i \in Images : Since(built[i]) /\ BuiltBy(i)

LEMMA InitCInv == CommandInit => CInv
<1> SUFFICES ASSUME CommandInit PROVE CInv
  OBVIOUS
<1>1. 0 \in Versions /\ NoVersion \in Read
  BY CommandConstants DEF Versions, Read
<1>2. ~settled /\ settled \in BOOLEAN /\ ~calm /\ calm \in BOOLEAN
  BY Zenon DEF CommandInit
<1>3. Reads /\ NothingBuilt
  BY <1>1, <1>2 DEF CommandInit, Reads, NothingBuilt, Stages
<1>4. Compose
  BY <1>2 DEF Compose, CommandInit
<1> QED BY <1>2, <1>3, <1>4 DEF CInv, NothingBuilt, Since, BuiltBy, CommandInit

LEMMA NextCInv == CInv /\ [CommandNext]_commandVars => CInv'
<1> SUFFICES ASSUME CInv, [CommandNext]_commandVars PROVE CInv'
  OBVIOUS
<1> USE CommandConstants
<1>1. CASE Arguments
  BY <1>1 DEF Arguments, To, workVars, readVars, CInv, Reads, Compose,
              NothingBuilt, Since, BuiltBy, Stages
<1>2. CASE LoadCompose
  <2>1. UNCHANGED <<tree, head, sha, tag, settled, built, section, sent>> /\ NothingBuilt
    BY <1>2 DEF LoadCompose, To, workVars, CInv
  <2>2. CASE To("compose", "prepare") /\ loaded' = tree /\ calm' = (tree = head)
    <3>1. calm' \in BOOLEAN /\ (calm' => tree = head)
      BY <2>2, Zenon
    <3>2. tree # NoVersion /\ tree <= tree
      BY DEF CInv, Reads, Versions
    <3>3. Reads'
      BY <2>1, <2>2, <3>1 DEF To, CInv, Reads, Read, Stages
    <3>4. Compose'
      BY <2>1, <2>2, <3>1, <3>2 DEF Compose
    <3> QED BY <2>1, <2>2, <3>3, <3>4 DEF To, CInv, NothingBuilt, Since, BuiltBy
  <2>3. CASE To("compose", "ended") /\ UNCHANGED <<loaded, calm>>
    BY <2>1, <2>3 DEF To, CInv, Reads, Compose, NothingBuilt, Since, BuiltBy, Stages
  <2> QED BY <1>2, <2>2, <2>3 DEF LoadCompose
<1>3. CASE PrepareHosts
  BY <1>3 DEF PrepareHosts, To, workVars, readVars, CInv, Reads, Compose,
              NothingBuilt, Since, BuiltBy, Stages
<1>4. CASE NewGitManager
  BY <1>4 DEF NewGitManager, To, workVars, CInv, Reads, Read, Compose,
              NothingBuilt, Since, BuiltBy, Stages
<1>5. CASE GetCurrentCommit
  <2>1. UNCHANGED <<tree, head, loaded, calm, sha, built, section, sent>> /\ NothingBuilt
    BY <1>5 DEF GetCurrentCommit, To, workVars, CInv
  <2>2. CASE To("commit", "build") /\ tag' = head /\ settled' = (tree = head)
    <3>1. settled' \in BOOLEAN /\ (settled' <=> tree = head)
      BY <2>2, Zenon
    <3>2. head # NoVersion /\ loaded # NoVersion
      BY <2>2 DEF CInv, Reads, Versions, Compose, To
    <3>3. Reads'
      BY <2>1, <2>2, <3>1 DEF To, CInv, Reads, Read, Stages
    <3>4. Compose'
      BY <2>1, <2>2, <3>2 DEF Compose, CInv
    <3>5. calm' => settled'
      BY <2>1, <3>1 DEF CInv, Compose
    <3> QED BY <2>1, <2>2, <3>1, <3>2, <3>3, <3>4, <3>5
            DEF To, CInv, Reads, Versions, NothingBuilt, Since, BuiltBy
  <2>3. CASE To("commit", "ended") /\ UNCHANGED <<tag, settled>>
    BY <2>1, <2>3 DEF To, CInv, Reads, Compose, NothingBuilt, Since, BuiltBy, Stages
  <2> QED BY <1>5, <2>2, <2>3 DEF GetCurrentCommit
<1>6. ASSUME NEW i \in Images, BuildImage(i) PROVE CInv'
  <2>1. UNCHANGED <<tree, head, loaded, calm, sha, tag, settled, sent>>
    BY <1>6 DEF BuildImage, workVars
  <2>2. CASE /\ To("build", "build")
             /\ built' = [built EXCEPT ![i] = tree]
             /\ section' = [section EXCEPT ![i] = loaded]
    <3>1. loaded # NoVersion /\ loaded <= tree /\ tag # NoVersion /\ tag <= head
      BY <2>2 DEF CInv, Compose, To
    <3>2. tree >= tag /\ (settled => tree = tag) /\ (calm => loaded = tag)
      BY <3>1 DEF CInv, Compose, Reads, Read, Versions
    <3>3. /\ Reads'
          /\ built'[i] = tree /\ section'[i] = loaded
          /\ \A j \in Images : j # i => built'[j] = built[j] /\ section'[j] = section[j]
      BY <2>1, <2>2 DEF CInv, Reads, Read, To, Stages
    <3>4. \A j \in Images : Since(built[j])' /\ BuiltBy(j)'
      BY <2>1, <3>1, <3>2, <3>3 DEF CInv, Since, BuiltBy
    <3> QED BY <2>1, <2>2, <3>1, <3>3, <3>4 DEF To, CInv, Compose, Since
  <2>3. CASE To("build", "ended") /\ UNCHANGED <<built, section>>
    BY <2>1, <2>3 DEF To, CInv, Reads, Compose, NothingBuilt, Since, BuiltBy, Stages
  <2> QED BY <1>6, <2>2, <2>3 DEF BuildImage
<1>7. CASE SendCompose
  BY <1>7 DEF SendCompose, To, workVars, CInv, Reads, Read, Versions, Compose,
              NothingBuilt, Since, BuiltBy, Stages
<1>8. CASE NextCommand
  BY <1>8 DEF NextCommand, workVars, CInv, Reads, Read, Versions, Compose,
              NothingBuilt, Since, BuiltBy, Stages
<1>9. CASE Edit
  <2>1. /\ UNCHANGED <<command, head, loaded, sha, tag, built, section, sent>>
        /\ tree' = tree + 1 /\ tree < MaxEdits
    BY <1>9 DEF Edit
  <2>2. settled' \in BOOLEAN /\ ~settled' /\ calm' \in BOOLEAN /\ ~calm'
    BY <1>9, Zenon DEF Edit
  <2>3. tree' \in Versions /\ head <= tree' /\ tree <= tree'
    BY <2>1 DEF CInv, Reads, Versions
  <2>4. Reads'
    BY <2>1, <2>2, <2>3 DEF CInv, Reads
  <2>5. Compose'
    BY <2>1, <2>2, <2>3 DEF CInv, Reads, Read, Versions, Compose
  <2> QED BY <2>1, <2>2, <2>4, <2>5 DEF CInv, NothingBuilt, Since, BuiltBy
<1>10. CASE Commit
  BY <1>10 DEF Commit, readVars, CInv, Reads, Read, Versions, Compose,
               NothingBuilt, Since, BuiltBy
<1>11. CASE UNCHANGED commandVars
  BY <1>11 DEF commandVars, workVars, readVars, CInv, Reads, Compose,
               NothingBuilt, Since, BuiltBy
<1> QED BY <1>1, <1>2, <1>3, <1>4, <1>5, <1>6, <1>7, <1>8, <1>9, <1>10, <1>11
        DEF CommandNext

\* CommandOK: the hosts, the installer and the managers keep their types in the
\* command, and so does what it read of the working directory.
THEOREM CommandType == CommandSpec => []CommandOK
<1>1. CInv => Reads
  BY DEF CInv
<1>2. Reads /\ TypeOK => CommandOK
  BY DEF Reads, CommandOK
<1> QED BY <1>1, <1>2, InitCInv, NextCInv, CommandPreparesHosts, HostType, PTL
        DEF CommandSpec

\* ImagesHoldTheirCommit: however often the working directory is changed and
\* committed, the files of an image are never older than the commit that tags it;
\* the section it is built by is never newer than them, and the commit's when
\* nothing changed since the compose file was loaded (cmd/uberbase/deploy.go:99,
\* deploy/deployer.go:98, containers/image.go:12-33).
THEOREM ImagesAreTagged == CommandSpec => []ImagesHoldTheirCommit
<1>1. CInv => ImagesHoldTheirCommit
  BY DEF CInv, Since, BuiltBy, ImagesHoldTheirCommit
<1> QED BY <1>1, InitCInv, NextCInv, PTL DEF CommandSpec

\* ReadyHasRuntime, VerifiedIsUsable and RuntimeKept hold as long as commands
\* follow each other on the same hosts, whatever else the commands do between
\* them, and for every set of hosts and every number of failed calls
\* (core/installer.go:24-110, deploy/deployer.go:27-77).
THEOREM CommandsKeepHosts ==
  CommandSpec => [](ReadyHasRuntime /\ VerifiedIsUsable /\ RuntimeKept)
BY CommandPreparesHosts, PreparedHosts, VerifiedHosts, RuntimesStay, PTL
=============================================================================
