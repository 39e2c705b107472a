---------------------------- MODULE DeployCommand ----------------------------
(***************************************************************************)
(* "uberbase deploy" from its arguments to the images it builds: the       *)
(* command (uberbase/cmd/uberbase/deploy.go) with the SSH key it loads,    *)
(* NewDeployer, of which HostPreparation is the long part, and             *)
(* DeployProject as far as the working directory is read. Deployer takes   *)
(* over from there.                                                        *)
(*                                                                         *)
(* The working directory is read again and again, minutes apart, while its *)
(* owner goes on working in it.                                            *)
(***************************************************************************)
EXTENDS HostPreparation

CONSTANTS
  Images,   \* the services with a "build" section
  MaxEdits, \* how often the working directory is changed
  NoVersion

Versions == 0..MaxEdits

ASSUME CommandConstants == MaxEdits \in Nat /\ NoVersion \notin Versions

VARIABLES
  command,  \* where the command is
  tree,     \* the version in the working directory
  head,     \* the version of the latest commit
  loaded,   \* the version of the compose file the command works with
  calm,     \* whether the latest commit is all there is since it was loaded
  sha,      \* GitManager.sha
  tag,      \* the commit DeployProject uses as its tag
  settled,  \* whether the tag's commit is all there is since the tag was read
  built,    \* the version of the files each image was built from
  section,  \* the version of the build section each image was built by
  sent      \* the version of the compose file sent to the host

workVars == <<tree, head>>
readVars == <<loaded, calm, sha, tag, settled, built, section, sent>>
commandVars == <<vars, command, workVars, readVars>>

Read == Versions \cup {NoVersion}
Stages == {"arguments", "compose", "prepare", "git", "commit", "build", "send",
           "ended"}

CommandOK ==
  /\ TypeOK
  /\ command \in Stages
  /\ tree \in Versions /\ head \in Versions
  /\ loaded \in Read /\ sha \in Read /\ tag \in Read /\ sent \in Read
  /\ built \in [Images -> Read] /\ section \in [Images -> Read]
  /\ calm \in BOOLEAN /\ settled \in BOOLEAN

CommandInit ==
  /\ Init
  /\ command = "arguments"
  /\ tree = 0 /\ head = 0
  /\ loaded = NoVersion /\ sha = NoVersion /\ tag = NoVersion
  /\ built = [i \in Images |-> NoVersion]
  /\ section = [i \in Images |-> NoVersion]
  /\ sent = NoVersion
  /\ calm = FALSE /\ settled = FALSE

To(stage, next) == command = stage /\ command' = next

-----------------------------------------------------------------------------
(* The command.                                                             *)

\* What a key file or a variable holds; "empty": it is not there.
Contents == {"empty", "garbled", "key"}
\* SSH_PRIVATE_KEY, and another variable --ssh-key-env may name.
Variables == {"default", "other"}

Calls == [hosts : 0..1, identity : Contents \cup {"none"},
          keyEnv : Variables, env : [Variables -> Contents]]

\* SSHKey.Load. NewSession calls it again and gets what the first call loaded.
Loaded(c) == IF c.identity = "none" THEN c.env[c.keyEnv] ELSE c.identity

\* Without a key file SSH_PRIVATE_KEY must be set, whatever variable the key
\* is then loaded from.
Accepted(c) ==
  /\ c.hosts > 0
  /\ c.identity # "none" \/ c.env["default"] # "empty"
  /\ Loaded(c) = "key"

Arguments ==
  /\ \E accepted \in {Accepted(c) : c \in Calls} :
       To("arguments", IF accepted THEN "compose" ELSE "ended")
  /\ UNCHANGED <<vars, workVars, readVars>>

\* The compose file is looked for and loaded before any host is, and what was
\* loaded names and builds the images from here on. The file itself is read once
\* more, by SendCompose.
LoadCompose ==
  /\ \/ To("compose", "prepare") /\ loaded' = tree /\ calm' = (tree = head)
     \/ To("compose", "ended") /\ UNCHANGED <<loaded, calm>>
  /\ UNCHANGED <<vars, workVars, sha, tag, settled, built, section, sent>>

\* NewDeployer up to the container managers.
PrepareHosts ==
  /\ VerifyLocal \/ Test \/ Verify \/ NewContainerManagers
  /\ To("prepare", IF step' = "ready" THEN "git"
                   ELSE IF step' \in Ended THEN "ended" ELSE "prepare")
  /\ UNCHANGED <<workVars, readVars>>

\* NewGitManager fails where there is no repository or no origin; after it
\* NewDeployer cannot fail any more.
NewGitManager ==
  /\ \/ To("git", "commit") /\ sha' = head
     \/ To("git", "ended") /\ UNCHANGED sha
  /\ UNCHANGED <<vars, workVars, loaded, calm, tag, settled, built, section, sent>>

-----------------------------------------------------------------------------
(* DeployProject.                                                           *)

\* Mutation of GetCurrentCommit: the commit NewGitManager kept is used.
KeptCommit ==
  /\ To("commit", "build") /\ tag' = sha /\ settled' = (tree = head)
  /\ UNCHANGED <<vars, workVars, loaded, calm, sha, built, section, sent>>

GetCurrentCommit ==
  /\ \/ To("commit", "build") /\ tag' = head /\ settled' = (tree = head)
     \/ To("commit", "ended") /\ UNCHANGED <<tag, settled>>
  /\ UNCHANGED <<vars, workVars, loaded, calm, sha, built, section, sent>>

\* Build goes through a map, so in any order, and stops at the first failure. The
\* Dockerfile and the context are files of now; their paths, the build arguments
\* and the image's name are those of the compose file as it was loaded.
BuildImage(i) ==
  /\ built[i] = NoVersion
  /\ \/ /\ To("build", "build")
        /\ built' = [built EXCEPT ![i] = tree]
        /\ section' = [section EXCEPT ![i] = loaded]
     \/ To("build", "ended") /\ UNCHANGED <<built, section>>
  /\ UNCHANGED <<vars, workVars, loaded, calm, sha, tag, settled, sent>>

\* Push, the state's Load and their failures are in Deployer; then the compose
\* file is sent as it is by now. The override written beside it is of the one
\* that was loaded.
SendCompose ==
  /\ \A i \in Images : built[i] # NoVersion
  /\ \/ To("build", "send") /\ sent' = tree
     \/ To("build", "ended") /\ UNCHANGED sent
  /\ UNCHANGED <<vars, workVars, loaded, calm, sha, tag, settled, built, section>>

\* The next command, on the same host and for the same directory.
NextCommand ==
  /\ command \in {"send", "ended"} /\ command' = "arguments"
  /\ IF step \in Ended THEN Retry ELSE UNCHANGED vars
  /\ loaded' = NoVersion /\ sha' = NoVersion /\ tag' = NoVersion
  /\ built' = [i \in Images |-> NoVersion]
  /\ section' = [i \in Images |-> NoVersion]
  /\ sent' = NoVersion
  /\ calm' = FALSE /\ settled' = FALSE
  /\ UNCHANGED workVars

-----------------------------------------------------------------------------
(* The owner of the working directory.                                      *)

Edit ==
  /\ tree < MaxEdits
  /\ tree' = tree + 1 /\ calm' = FALSE /\ settled' = FALSE
  /\ UNCHANGED <<vars, command, head, loaded, sha, tag, built, section, sent>>

Commit ==
  /\ head # tree /\ head' = tree
  /\ UNCHANGED <<vars, command, tree, readVars>>

CommandNext ==
  \/ Arguments \/ LoadCompose \/ PrepareHosts \/ NewGitManager
  \/ GetCurrentCommit \/ SendCompose \/ NextCommand \/ Edit \/ Commit
  \/ \E i \in Images : BuildImage(i)

CommandSpec == CommandInit /\ [][CommandNext]_commandVars

-----------------------------------------------------------------------------
\* The files of an image are never older than the commit that tags it, and they
\* and the compose file sent with it are that very commit when nobody changed the
\* directory after DeployProject began, however much was edited and committed
\* while NewDeployer prepared the hosts (deploy/deployer.go:98, :114, :131). The
\* section an image is built by may be older than its commit, for it is that of
\* the compose file loaded before NewDeployer (cmd/uberbase/deploy.go:99,
\* containers/image.go:12-33): it is never newer than the files, and it is the
\* commit's when nobody changed the directory since that file was loaded.
ImagesHoldTheirCommit ==
  /\ \A i \in Images : built[i] # NoVersion =>
       /\ built[i] >= tag /\ section[i] <= built[i]
       /\ settled => built[i] = tag
       /\ calm => section[i] = tag
  /\ sent # NoVersion => sent >= tag /\ (settled => sent = tag)
=============================================================================
