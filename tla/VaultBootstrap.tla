--------------------------- MODULE VaultBootstrap ---------------------------
(***************************************************************************)
(* bin/run/vault: the script every start of the platform runs to bring up  *)
(* the vault, and the wrapper through which services read their secrets.   *)
(*                                                                         *)
(* The script checks no exit status: a command that fails is followed by   *)
(* the next one.  Which of its two branches it takes depends on one file,  *)
(* keys.json, that the first of them writes before anything else.          *)
(***************************************************************************)
EXTENDS Naturals

CONSTANTS
  Envs,      \* contents of the environment a start may have
  NoEnv,     \* no secrets
  Speeds,    \* whether the server may be listening after the sleep of 2 s
  MaxKills,  \* how often the script is killed
  MaxStops   \* how often bin/stop runs

ASSUME VaultConstants ==
  /\ NoEnv \notin Envs
  /\ Speeds \subseteq BOOLEAN
  /\ MaxKills \in Nat
  /\ MaxStops \in Nat

VARIABLES
  keysFile,     \* keys.json in the storage directory
  credentials,  \* the ids in the file credentials that are not blank
  stored,       \* whether the file credentials exists
  secretsFile,  \* whether secrets.json is in the configuration directory
  setup,        \* what the vault's own storage holds
  kv,           \* the secrets stored at secret/uberbase/config
  server,       \* the vault container
  loggedIn,     \* whether the container holds the root token
  mounted,      \* whether its /vault/config is the directory of this start
  script,       \* the next command of the script
  first,        \* whether it is in the branch for a missing keys.json
  key,          \* whether UNSEAL_KEY and ROOT_TOKEN are what the vault issued
  ids,          \* which of ROLE_ID and SECRET_ID are not empty
  env,          \* the environment of this start
  service,      \* the secrets the services started with
  fast,         \* whether the sleep of 2 s is enough on this host
  kills,
  stops

idFile == <<credentials, stored>>
disk == <<keysFile, idFile, secretsFile>>
vault == <<setup, kv>>
container == <<server, loggedIn, mounted>>
shell == <<first, key, ids, env>>
budget == <<fast, kills, stops>>
vars == <<disk, vault, container, script, shell, service, budget>>

Ids == {"role_id", "secret_id"}
SetupSteps == {"initialized", "engine", "policy", "approle", "role"}
Resting == {"idle", "done", "serving", "unserved"}
Commands == {"status", "sleep", "check", "init", "redirect", "keys", "unseal",
             "wait", "login", "engine", "policy", "approle", "role", "write",
             "put", "rm", "roleId", "secretId", "store", "append"}

TypeOK ==
  /\ keysFile \in {"absent", "empty", "keys"}
  /\ credentials \subseteq Ids
  /\ stored \in BOOLEAN /\ secretsFile \in BOOLEAN
  /\ setup \subseteq SetupSteps
  /\ kv \in Envs \cup {NoEnv}
  /\ server \in {"down", "starting", "sealed", "unsealed"}
  /\ loggedIn \in BOOLEAN /\ mounted \in BOOLEAN
  /\ script \in Commands \cup Resting
  /\ first \in BOOLEAN /\ key \in BOOLEAN /\ fast \in BOOLEAN
  /\ ids \subseteq Ids
  /\ env \in Envs
  /\ service \in Envs \cup {NoEnv}
  /\ kills \in 0..MaxKills
  /\ stops \in 0..MaxStops

Init ==
  /\ keysFile = "absent" /\ credentials = {} /\ stored = FALSE
  /\ secretsFile = FALSE
  /\ setup = {} /\ kv = NoEnv
  /\ server = "down" /\ loggedIn = FALSE /\ mounted = FALSE
  /\ script = "idle" /\ first = FALSE /\ key = FALSE /\ ids = {}
  /\ env \in Envs
  /\ service = NoEnv
  /\ fast \in Speeds
  /\ kills = 0 /\ stops = 0

Running == script \in Commands
At(s, next) == script = s /\ script' = next
\* A command of the vault client that needs the root token.
Authorized == server = "unsealed" /\ loggedIn

-----------------------------------------------------------------------------
\* bin/start: bin/configure removes the configuration directory and makes a
\* new one, which a container that is already there does not see; the script
\* runs with what the environment now holds.
Start ==
  /\ script \in Resting
  /\ script' = "status"
  /\ secretsFile' = FALSE
  /\ env' \in Envs
  /\ first' = FALSE /\ key' = FALSE /\ ids' = {}
  /\ mounted' = FALSE
  /\ UNCHANGED <<keysFile, idFile, vault, server, loggedIn, service, budget>>

\* vault status succeeds only on an unsealed vault; otherwise the container
\* is replaced by a new one, which starts sealed and knows no token.
Status ==
  /\ At("status", "sleep")
  /\ IF server = "unsealed"
       THEN UNCHANGED container
       ELSE server' = "starting" /\ loggedIn' = FALSE /\ mounted' = TRUE
  /\ UNCHANGED <<disk, vault, shell, service, budget>>

\* The server begins to listen; the script does not wait for that.
Listen ==
  /\ server = "starting"
  /\ server' = "sealed"
  /\ UNCHANGED <<disk, vault, loggedIn, mounted, script, shell, service, budget>>

Sleep ==
  /\ fast => server # "starting"
  /\ At("sleep", "check")
  /\ UNCHANGED <<disk, vault, container, shell, service, budget>>

\* Mutation of CheckKeys: initialise whatever is in the storage directory.
CheckKeysNever ==
  /\ At("check", "init")
  /\ first' = TRUE
  /\ keysFile' = "empty"
  /\ UNCHANGED <<idFile, secretsFile, vault, container, key, ids, env,
                 service, budget>>

\* The test for keys.json.  The redirection of the init command creates the
\* file before the command runs.
CheckKeys ==
  /\ IF keysFile = "absent"
       THEN At("check", "init") /\ first' = TRUE /\ keysFile' = "empty"
       ELSE At("check", "keys") /\ UNCHANGED <<first, keysFile>>
  /\ UNCHANGED <<idFile, secretsFile, vault, container, key, ids, env,
                 service, budget>>

\* vault operator init, on the server; it refuses an initialised vault.
OperatorInit ==
  /\ IF server = "sealed" /\ "initialized" \notin setup
       THEN /\ At("init", "redirect")
            /\ setup' = setup \cup {"initialized"}
       ELSE At("init", "keys") /\ UNCHANGED setup
  /\ UNCHANGED <<disk, kv, container, shell, service, budget>>

\* Its answer reaches keys.json.
Redirect ==
  /\ At("redirect", "keys")
  /\ keysFile' = "keys"
  /\ UNCHANGED <<idFile, secretsFile, vault, container, shell, service,
                 budget>>

ReadKeys ==
  /\ At("keys", "unseal")
  /\ key' = (keysFile = "keys")
  /\ UNCHANGED <<disk, vault, container, first, ids, env, service, budget>>

\* Mutation of Unseal: the key is not passed on.
UnsealWithoutKey ==
  /\ At("unseal", "wait")
  /\ UNCHANGED <<disk, vault, container, shell, service, budget>>

\* One attempt: a server that does not listen yet is not asked again.
Unseal ==
  /\ At("unseal", "wait")
  /\ server' = IF server = "sealed" /\ key /\ "initialized" \in setup
                 THEN "unsealed" ELSE server
  /\ UNCHANGED <<disk, vault, loggedIn, mounted, shell, service, budget>>

\* Mutation of WaitForUnseal: the loop goes on only while it is told "sealed".
WaitWhileSealed ==
  /\ At("wait", IF server = "sealed" THEN "wait" ELSE "login")
  /\ UNCHANGED <<disk, vault, container, shell, service, budget>>

\* wait_for_vault_unseal: a round of its loop, which has no other way out.
WaitForUnseal ==
  /\ At("wait", IF server = "unsealed" THEN "login" ELSE "wait")
  /\ UNCHANGED <<disk, vault, container, shell, service, budget>>

\* vault login; the branch for an existing keys.json goes on to the secrets.
Login ==
  /\ At("login", IF first THEN "engine" ELSE "write")
  /\ loggedIn' = (loggedIn \/ (server = "unsealed" /\ key))
  /\ UNCHANGED <<disk, vault, server, mounted, shell, service, budget>>

\* A command that sets something up where it is able to, or fails unnoticed.
Prepare(step, able, next) ==
  /\ At(step, next)
  /\ setup' = IF Authorized /\ able THEN setup \cup {step} ELSE setup
  /\ UNCHANGED <<disk, kv, container, shell, service, budget>>

\* Mutation of EnableEngine: the secret engine is forgotten.
EnableNoEngine ==
  /\ At("engine", "policy")
  /\ UNCHANGED <<disk, vault, container, shell, service, budget>>

EnableEngine == Prepare("engine", TRUE, "policy")
\* The vault reads the policy, as the secrets below, from its /vault/config.
WritePolicy == Prepare("policy", mounted, "approle")
EnableAppRole == Prepare("approle", TRUE, "role")
WriteRole == Prepare("role", "approle" \in setup, "write")

\* The matching environment variables, in clear text.
WriteSecrets ==
  /\ At("write", "put")
  /\ secretsFile' = TRUE
  /\ UNCHANGED <<keysFile, idFile, vault, container, shell, service,
                 budget>>

\* Mutation of PutSecrets: only the first start stores them.
PutSecretsOnce ==
  /\ At("put", "rm")
  /\ kv' = IF Authorized /\ mounted /\ "engine" \in setup /\ first
             THEN env ELSE kv
  /\ UNCHANGED <<disk, setup, container, shell, service, budget>>

\* A container that was kept from an earlier start does not find the file.
PutSecrets ==
  /\ At("put", "rm")
  /\ kv' = IF Authorized /\ mounted /\ "engine" \in setup THEN env ELSE kv
  /\ UNCHANGED <<disk, setup, container, shell, service, budget>>

\* Mutation of RemoveSecrets: only the first start cleans up.
RemoveSecretsOnce ==
  /\ At("rm", IF first THEN "roleId" ELSE "done")
  /\ secretsFile' = (secretsFile /\ ~first)
  /\ UNCHANGED <<keysFile, idFile, vault, container, shell, service,
                 budget>>

RemoveSecrets ==
  /\ At("rm", IF first THEN "roleId" ELSE "done")
  /\ secretsFile' = FALSE
  /\ UNCHANGED <<keysFile, idFile, vault, container, shell, service,
                 budget>>

\* ROLE_ID and SECRET_ID are what the vault prints, or empty.
ReadId(step, id, next) ==
  /\ At(step, next)
  /\ ids' = IF Authorized /\ "role" \in setup THEN ids \cup {id} ELSE ids
  /\ UNCHANGED <<disk, vault, container, first, key, env, service, budget>>

ReadRoleId == ReadId("roleId", "role_id", "secretId")
ReadSecretId == ReadId("secretId", "secret_id", "store")

\* The file credentials is begun anew with one id ...
StoreRoleId ==
  /\ At("store", "append")
  /\ credentials' = ids \cap {"role_id"} /\ stored' = TRUE
  /\ UNCHANGED <<keysFile, secretsFile, vault, container, shell, service,
                 budget>>

\* Mutation of AppendSecretId: an empty id is written the way jq prints one.
AppendNull ==
  /\ At("append", "done")
  /\ credentials' = credentials \cup
       (IF "secret_id" \in ids THEN {"secret_id"} ELSE {"null"})
  /\ UNCHANGED <<keysFile, stored, secretsFile, vault, container, shell, service,
                 budget>>

\* ... and the other is appended.
AppendSecretId ==
  /\ At("append", "done")
  /\ credentials' = credentials \cup (ids \cap {"secret_id"})
  /\ UNCHANGED <<keysFile, stored, secretsFile, vault, container, shell, service,
                 budget>>

-----------------------------------------------------------------------------
\* bin/start goes on to the services, whose entrypoint exchanges the two ids
\* for a token and exports what the token may read, or nothing.
CanRead ==
  /\ server = "unsealed"
  /\ credentials = Ids
  /\ {"approle", "role", "policy"} \subseteq setup

StartServices ==
  /\ stored
  /\ At("done", "serving")
  /\ service' = IF CanRead THEN kv ELSE NoEnv
  /\ UNCHANGED <<disk, vault, container, shell, budget>>

\* Without the file, podman run refuses its --env-file: no service that reads
\* secrets gets a container, and bin/run/fusionauth waits for Postgres.
ServicesRefused ==
  /\ ~stored
  /\ At("done", "unserved")
  /\ UNCHANGED <<disk, vault, container, shell, service, budget>>

\* The script, and bin/start with it, is interrupted between two commands.
Kill ==
  /\ Running
  /\ kills < MaxKills
  /\ kills' = kills + 1
  /\ script' = "idle"
  /\ UNCHANGED <<disk, vault, container, shell, service, fast, stops>>

\* bin/stop stops and removes the containers, whoever is using them.
Stop ==
  /\ stops < MaxStops
  /\ stops' = stops + 1
  /\ server' = "down"
  /\ loggedIn' = FALSE /\ mounted' = FALSE
  /\ UNCHANGED <<disk, vault, script, shell, service, fast, kills>>

Initialise == CheckKeys \/ OperatorInit \/ Redirect
SetUp == EnableEngine \/ WritePolicy \/ EnableAppRole \/ WriteRole
StoreSecrets == WriteSecrets \/ PutSecrets \/ RemoveSecrets
StoreCredentials ==
  ReadRoleId \/ ReadSecretId \/ StoreRoleId \/ AppendSecretId
Script ==
  \/ Status \/ Sleep \/ Initialise \/ ReadKeys \/ Unseal \/ WaitForUnseal
  \/ Login \/ SetUp \/ StoreSecrets \/ StoreCredentials

Next ==
  \/ Start \/ Script \/ Listen \/ StartServices \/ ServicesRefused
  \/ Kill \/ Stop

Spec == Init /\ [][Next]_vars
\* The shell runs its next command, and a started server listens some day.
\* Nobody needs to start the platform, kill the script or stop anything.
FairSpec == Spec /\ WF_vars(Script) /\ WF_vars(Listen)

-----------------------------------------------------------------------------
\* Whatever was killed or stopped between which commands: two usable ids in
\* the file credentials certify everything that came before them, though no
\* command's failure was noticed (bin/run/vault:63-183).
CredentialsComeLast ==
  credentials = Ids =>
    /\ keysFile = "keys"
    /\ SetupSteps \subseteq setup
    /\ kv # NoEnv

\* With usable credentials and a vault that is up, services started after a
\* start that brought up its own vault container get the secrets of this very
\* start, never those of an earlier one that the script failed to replace.
\* (Where bin/start finds its vault still up, the old ones stay: the container
\* sees the directory that bin/configure removed; bin/run/vault:205-240.)
ServedCurrent ==
  script = "serving" /\ credentials = Ids /\ server = "unsealed" /\ mounted
    => service = env

\* No script that came to its end leaves the secrets in clear text behind, in
\* whichever branch and whatever failed in it (bin/run/vault:168, 243).
NoSecretsLeft ==
  script \in {"done", "serving", "unserved"} => ~secretsFile

\* No start comes to its end without the keys on disk: one that was misled by
\* an empty keys.json, which the redirection makes before init has answered,
\* waits rather than reports success (bin/run/vault:12-25, 63-71).
EndsWithKeys ==
  script \in {"done", "serving", "unserved"} => keysFile = "keys"

\* The only copy of the unseal key survives every later start, the ones after
\* an unfinished first start included (bin/run/vault:63-71).
KeysKept == [][keysFile = "keys" => keysFile' = "keys"]_vars

\* With the keys on disk, on a host where the sleep is long enough, a script
\* ends unless its container is stopped (bin/run/vault:12-25, 60).
BootstrapEnds ==
  (fast /\ keysFile = "keys" /\ Running) ~> (~Running \/ server = "down")

\* docs/architecture.md:27 says that the vault is bootstrapped automatically
\* and every service authenticates with the cached credentials on startup: once
\* the script is through, there are credentials to authenticate with.
ServicesAuthenticate == script \in {"serving", "unserved"} => credentials = Ids
=============================================================================
