------------------------ MODULE VaultBootstrapProofs ------------------------
(***************************************************************************)
(* Proofs about VaultBootstrap, for any number of environments, kills and  *)
(* stops and for hosts of any speed.                                       *)
(***************************************************************************)
EXTENDS VaultBootstrap, TLAPS

\* What usable credentials certify.
Complete ==
  /\ keysFile = "keys"
  /\ SetupSteps \subseteq setup
  /\ kv # NoEnv

\* The commands of the first branch from reading the ids on, from removing
\* secrets.json on, and so forth backwards.
FromRoleId == {"roleId", "secretId", "store", "append"}
FromRm == FromRoleId \cup {"rm"}
FromWrite == FromRm \cup {"write", "put"}
FromRole == FromWrite \cup {"role"}
FromAppRole == FromRole \cup {"approle"}
FromPolicy == FromAppRole \cup {"policy"}

\* Who holds the token got it with the keys of an initialised vault.
KeysInv ==
  /\ script = "redirect" => "initialized" \in setup
  /\ keysFile = "keys" => "initialized" \in setup
  /\ key => keysFile = "keys"
  /\ loggedIn => keysFile = "keys"
  /\ server = "unsealed" => keysFile = "keys"

\* The script that finds no keys.json has brought up its own container.
MountInv ==
  /\ script = "status" => ~first
  /\ script \in Commands \ {"status"} /\ (first \/ keysFile = "absent") =>
       server = "down" \/ mounted

\* A script of the first branch that is still authorized has been so since it
\* logged in: none of the commands since then has failed.
BranchInv ==
  /\ script \in FromRoleId \cup {"engine", "policy", "approle", "role"} => first
  /\ first /\ Authorized =>
       /\ script \in FromPolicy => "engine" \in setup
       /\ script \in FromAppRole => "policy" \in setup
       /\ script \in FromRole => "approle" \in setup
       /\ script \in FromWrite => "role" \in setup
       /\ script \in FromRm => kv # NoEnv

CompleteInv ==
  /\ ids # {} => Complete
  /\ credentials # {} => Complete /\ stored
  /\ script = "append" => stored

IInv == TypeOK /\ KeysInv /\ MountInv /\ BranchInv /\ CompleteInv

-----------------------------------------------------------------------------
(* The invariant is inductive.                                              *)

LEMMA InitIInv == Init => IInv
<1> SUFFICES ASSUME Init PROVE IInv
  OBVIOUS
<1>1. TypeOK
  <2>1. fast \in BOOLEAN /\ kills \in 0..MaxKills /\ stops \in 0..MaxStops
    BY VaultConstants DEF Init
  <2>2. credentials \subseteq Ids /\ setup \subseteq SetupSteps /\ ids \subseteq Ids
    BY DEF Init
  <2>3. /\ secretsFile \in BOOLEAN /\ loggedIn \in BOOLEAN
        /\ stored \in BOOLEAN /\ mounted \in BOOLEAN
        /\ first \in BOOLEAN /\ key \in BOOLEAN
    BY DEF Init
  <2> QED BY <2>1, <2>2, <2>3 DEF Init, TypeOK, Resting
<1>2. KeysInv
  BY DEF Init, KeysInv
<1>3. BranchInv
  BY DEF Init, BranchInv, FromRoleId
<1>4. CompleteInv
  BY DEF Init, CompleteInv
<1>5. MountInv
  BY DEF Init, MountInv, Commands
<1> QED BY <1>1, <1>2, <1>3, <1>4, <1>5 DEF IInv

\* An id that is read certifies the commands before it.
LEMMA ReadComplete ==
  ASSUME IInv, script \in FromRoleId, Authorized, "role" \in setup
  PROVE  Complete
<1>1. first
  BY DEF IInv, BranchInv
<1>2. {"engine", "policy", "approle"} \subseteq setup /\ kv # NoEnv
  BY <1>1 DEF IInv, BranchInv, FromRm, FromWrite, FromRole, FromAppRole, FromPolicy
<1>3. keysFile = "keys" /\ "initialized" \in setup
  BY DEF IInv, KeysInv, Authorized
<1> QED BY <1>2, <1>3 DEF Complete, SetupSteps

\* Every step keeps the variables in their types.
LEMMA NextType ==
  ASSUME IInv, Next
  PROVE  TypeOK'
<1> USE VaultConstants DEF IInv, TypeOK, Ids, SetupSteps, Resting, Commands,
        At, Running, disk, idFile, vault, container, shell, budget
<1>1. CASE Start
  BY <1>1 DEF Start
<1>2. CASE Status
  BY <1>2 DEF Status
<1>3. CASE Listen
  BY <1>3 DEF Listen
<1>4. CASE Sleep
  BY <1>4 DEF Sleep
<1>5. CASE CheckKeys
  <2>1. keysFile' \in {"absent", "empty", "keys"} /\ first' \in BOOLEAN
    BY <1>5 DEF CheckKeys
  <2>2. script' \in Commands
    BY <1>5 DEF CheckKeys
  <2>3. /\ UNCHANGED <<idFile, secretsFile, setup, kv, container, key>>
        /\ UNCHANGED <<ids, env, service, fast, kills, stops>>
    BY <1>5 DEF CheckKeys
  <2> QED BY <2>1, <2>2, <2>3
<1>6. CASE OperatorInit
  <2>1. setup' \subseteq SetupSteps
    BY <1>6 DEF OperatorInit
  <2>2. script' \in Commands
    BY <1>6 DEF OperatorInit
  <2>3. UNCHANGED <<disk, kv, container, shell, service, budget>>
    BY <1>6 DEF OperatorInit
  <2> QED BY <2>1, <2>2, <2>3
<1>7. CASE Redirect
  BY <1>7 DEF Redirect
<1>8. CASE ReadKeys
  BY <1>8 DEF ReadKeys
<1>9. CASE Unseal
  BY <1>9 DEF Unseal
<1>10. CASE WaitForUnseal
  BY <1>10 DEF WaitForUnseal
<1>11. CASE Login
  BY <1>11 DEF Login
<1>12. CASE EnableEngine
  BY <1>12 DEF EnableEngine, Prepare
<1>13. CASE WritePolicy
  BY <1>13 DEF WritePolicy, Prepare
<1>14. CASE EnableAppRole
  BY <1>14 DEF EnableAppRole, Prepare
<1>15. CASE WriteRole
  BY <1>15 DEF WriteRole, Prepare
<1>16. CASE WriteSecrets
  BY <1>16 DEF WriteSecrets
<1>17. CASE PutSecrets
  BY <1>17 DEF PutSecrets
<1>18. CASE RemoveSecrets
  <2>1. secretsFile' = FALSE /\ script' \in {"roleId", "done"}
    BY <1>18 DEF RemoveSecrets
  <2>2. UNCHANGED <<keysFile, credentials, stored, setup, kv, server, loggedIn>>
    BY <1>18 DEF RemoveSecrets
  <2>3. UNCHANGED <<mounted, first, key, ids, env, service, fast, kills, stops>>
    BY <1>18 DEF RemoveSecrets
  <2>4. script' \in Commands \cup Resting
    BY <2>1
  <2>5. /\ keysFile' \in {"absent", "empty", "keys"} /\ secretsFile' \in BOOLEAN
        /\ server' \in {"down", "starting", "sealed", "unsealed"}
    BY <2>1, <2>2
  <2> QED BY <2>2, <2>3, <2>4, <2>5
<1>19. CASE ReadRoleId
  BY <1>19 DEF ReadRoleId, ReadId
<1>20. CASE ReadSecretId
  BY <1>20 DEF ReadSecretId, ReadId
<1>21. CASE StoreRoleId
  BY <1>21 DEF StoreRoleId
<1>22. CASE AppendSecretId
  BY <1>22 DEF AppendSecretId
<1>23. CASE StartServices
  BY <1>23 DEF StartServices
<1>24. CASE Kill
  BY <1>24 DEF Kill
<1>25. CASE Stop
  <2>1. stops' \in 0..MaxStops
    BY <1>25 DEF Stop
  <2>2. server' = "down" /\ loggedIn' \in BOOLEAN /\ mounted' \in BOOLEAN
    BY <1>25 DEF Stop
  <2>3. /\ UNCHANGED <<keysFile, idFile, secretsFile, setup, kv, script>>
        /\ UNCHANGED <<first, key, ids, env, service, fast, kills>>
    BY <1>25 DEF Stop
  <2> QED BY <2>1, <2>2, <2>3
<1>26. CASE ServicesRefused
  BY <1>26 DEF ServicesRefused
<1> QED
  BY <1>1, <1>2, <1>3, <1>4, <1>5, <1>6, <1>7, <1>8, <1>9,
     <1>10, <1>11, <1>12, <1>13, <1>14, <1>15, <1>16, <1>17, <1>18,
     <1>19, <1>20, <1>21, <1>22, <1>23, <1>24, <1>25, <1>26
  DEF Next, Script, Initialise, SetUp, StoreSecrets, StoreCredentials

\* Every step keeps KeysInv.
LEMMA NextKeys ==
  ASSUME IInv, Next
  PROVE  KeysInv'
<1> USE DEF IInv, TypeOK, KeysInv, Resting, Commands,
        At, Running, disk, idFile, vault, container, shell, budget
<1>1. CASE Start
  BY <1>1 DEF Start
<1>2. CASE Status
  BY <1>2 DEF Status
<1>3. CASE Listen
  BY <1>3 DEF Listen
<1>4. CASE Sleep
  BY <1>4 DEF Sleep
<1>5. CASE CheckKeys
  BY <1>5 DEF CheckKeys
<1>6. CASE OperatorInit
  BY <1>6 DEF OperatorInit
<1>7. CASE Redirect
  BY <1>7 DEF Redirect
<1>8. CASE ReadKeys
  BY <1>8 DEF ReadKeys
<1>9. CASE Unseal
  BY <1>9 DEF Unseal
<1>10. CASE WaitForUnseal
  BY <1>10 DEF WaitForUnseal
<1>11. CASE Login
  BY <1>11 DEF Login
<1>12. CASE EnableEngine
  BY <1>12 DEF EnableEngine, Prepare
<1>13. CASE WritePolicy
  BY <1>13 DEF WritePolicy, Prepare
<1>14. CASE EnableAppRole
  BY <1>14 DEF EnableAppRole, Prepare
<1>15. CASE WriteRole
  BY <1>15 DEF WriteRole, Prepare
<1>16. CASE WriteSecrets
  BY <1>16 DEF WriteSecrets
<1>17. CASE PutSecrets
  BY <1>17 DEF PutSecrets
<1>18. CASE RemoveSecrets
  BY <1>18 DEF RemoveSecrets
<1>19. CASE ReadRoleId
  BY <1>19 DEF ReadRoleId, ReadId
<1>20. CASE ReadSecretId
  BY <1>20 DEF ReadSecretId, ReadId
<1>21. CASE StoreRoleId
  BY <1>21 DEF StoreRoleId
<1>22. CASE AppendSecretId
  BY <1>22 DEF AppendSecretId
<1>23. CASE StartServices
  BY <1>23 DEF StartServices
<1>24. CASE Kill
  BY <1>24 DEF Kill
<1>25. CASE Stop
  BY <1>25 DEF Stop
<1>26. CASE ServicesRefused
  BY <1>26 DEF ServicesRefused
<1> QED
  BY <1>1, <1>2, <1>3, <1>4, <1>5, <1>6, <1>7, <1>8, <1>9,
     <1>10, <1>11, <1>12, <1>13, <1>14, <1>15, <1>16, <1>17, <1>18,
     <1>19, <1>20, <1>21, <1>22, <1>23, <1>24, <1>25, <1>26
  DEF Next, Script, Initialise, SetUp, StoreSecrets, StoreCredentials

\* Every step keeps MountInv.
LEMMA NextMount ==
  ASSUME IInv, Next
  PROVE  MountInv'
<1> USE DEF IInv, TypeOK, KeysInv, MountInv, Resting, Commands,
        At, Running, disk, idFile, vault, container, shell, budget
<1>1. CASE Start
  BY <1>1 DEF Start
<1>2. CASE Status
  BY <1>2 DEF Status
<1>3. CASE Listen
  BY <1>3 DEF Listen
<1>4. CASE Sleep
  BY <1>4 DEF Sleep
<1>5. CASE CheckKeys
  BY <1>5 DEF CheckKeys
<1>6. CASE OperatorInit
  BY <1>6 DEF OperatorInit
<1>7. CASE Redirect
  BY <1>7 DEF Redirect
<1>8. CASE ReadKeys
  BY <1>8 DEF ReadKeys
<1>9. CASE Unseal
  BY <1>9 DEF Unseal
<1>10. CASE WaitForUnseal
  BY <1>10 DEF WaitForUnseal
<1>11. CASE Login
  BY <1>11 DEF Login
<1>12. CASE EnableEngine
  BY <1>12 DEF EnableEngine, Prepare
<1>13. CASE WritePolicy
  BY <1>13 DEF WritePolicy, Prepare
<1>14. CASE EnableAppRole
  BY <1>14 DEF EnableAppRole, Prepare
<1>15. CASE WriteRole
  BY <1>15 DEF WriteRole, Prepare
<1>16. CASE WriteSecrets
  BY <1>16 DEF WriteSecrets
<1>17. CASE PutSecrets
  BY <1>17 DEF PutSecrets
<1>18. CASE RemoveSecrets
  BY <1>18 DEF RemoveSecrets
<1>19. CASE ReadRoleId
  BY <1>19 DEF ReadRoleId, ReadId
<1>20. CASE ReadSecretId
  BY <1>20 DEF ReadSecretId, ReadId
<1>21. CASE StoreRoleId
  BY <1>21 DEF StoreRoleId
<1>22. CASE AppendSecretId
  BY <1>22 DEF AppendSecretId
<1>23. CASE StartServices
  BY <1>23 DEF StartServices
<1>24. CASE Kill
  BY <1>24 DEF Kill
<1>25. CASE Stop
  BY <1>25 DEF Stop
<1>26. CASE ServicesRefused
  BY <1>26 DEF ServicesRefused
<1> QED
  BY <1>1, <1>2, <1>3, <1>4, <1>5, <1>6, <1>7, <1>8, <1>9,
     <1>10, <1>11, <1>12, <1>13, <1>14, <1>15, <1>16, <1>17, <1>18,
     <1>19, <1>20, <1>21, <1>22, <1>23, <1>24, <1>25, <1>26
  DEF Next, Script, Initialise, SetUp, StoreSecrets, StoreCredentials

\* Every step keeps BranchInv.
LEMMA NextBranch ==
  ASSUME IInv, Next
  PROVE  BranchInv'
<1> USE VaultConstants DEF IInv, TypeOK, MountInv, BranchInv, Authorized,
        FromPolicy, FromAppRole, FromRole, FromWrite, FromRm, FromRoleId,
        Resting, Commands, At, Running, disk, idFile, vault, container, shell, budget
<1>1. CASE Start
  BY <1>1 DEF Start
<1>2. CASE Status
  BY <1>2 DEF Status
<1>3. CASE Listen
  BY <1>3 DEF Listen
<1>4. CASE Sleep
  BY <1>4 DEF Sleep
<1>5. CASE CheckKeys
  BY <1>5 DEF CheckKeys
<1>6. CASE OperatorInit
  BY <1>6 DEF OperatorInit
<1>7. CASE Redirect
  BY <1>7 DEF Redirect
<1>8. CASE ReadKeys
  BY <1>8 DEF ReadKeys
<1>9. CASE Unseal
  BY <1>9 DEF Unseal
<1>10. CASE WaitForUnseal
  BY <1>10 DEF WaitForUnseal
<1>11. CASE Login
  BY <1>11 DEF Login
<1>12. CASE EnableEngine
  BY <1>12 DEF EnableEngine, Prepare
<1>13. CASE WritePolicy
  BY <1>13 DEF WritePolicy, Prepare
<1>14. CASE EnableAppRole
  BY <1>14 DEF EnableAppRole, Prepare
<1>15. CASE WriteRole
  BY <1>15 DEF WriteRole, Prepare
<1>16. CASE WriteSecrets
  BY <1>16 DEF WriteSecrets
<1>17. CASE PutSecrets
  BY <1>17 DEF PutSecrets
<1>18. CASE RemoveSecrets
  BY <1>18 DEF RemoveSecrets
<1>19. CASE ReadRoleId
  BY <1>19 DEF ReadRoleId, ReadId
<1>20. CASE ReadSecretId
  BY <1>20 DEF ReadSecretId, ReadId
<1>21. CASE StoreRoleId
  BY <1>21 DEF StoreRoleId
<1>22. CASE AppendSecretId
  BY <1>22 DEF AppendSecretId
<1>23. CASE StartServices
  BY <1>23 DEF StartServices
<1>24. CASE Kill
  BY <1>24 DEF Kill
<1>25. CASE Stop
  BY <1>25 DEF Stop
<1>26. CASE ServicesRefused
  BY <1>26 DEF ServicesRefused
<1> QED
  BY <1>1, <1>2, <1>3, <1>4, <1>5, <1>6, <1>7, <1>8, <1>9,
     <1>10, <1>11, <1>12, <1>13, <1>14, <1>15, <1>16, <1>17, <1>18,
     <1>19, <1>20, <1>21, <1>22, <1>23, <1>24, <1>25, <1>26
  DEF Next, Script, Initialise, SetUp, StoreSecrets, StoreCredentials

\* Every step keeps CompleteInv.
LEMMA NextComplete ==
  ASSUME IInv, Next
  PROVE  CompleteInv'
<1> USE VaultConstants DEF IInv, TypeOK, CompleteInv, Complete, Resting, Commands,
        At, Running, disk, idFile, vault, container, shell, budget
<1>1. CASE Start
  BY <1>1 DEF Start
<1>2. CASE Status
  BY <1>2 DEF Status
<1>3. CASE Listen
  BY <1>3 DEF Listen
<1>4. CASE Sleep
  BY <1>4 DEF Sleep
<1>5. CASE CheckKeys
  BY <1>5 DEF CheckKeys
<1>6. CASE OperatorInit
  BY <1>6 DEF OperatorInit
<1>7. CASE Redirect
  BY <1>7 DEF Redirect
<1>8. CASE ReadKeys
  BY <1>8 DEF ReadKeys
<1>9. CASE Unseal
  BY <1>9 DEF Unseal
<1>10. CASE WaitForUnseal
  BY <1>10 DEF WaitForUnseal
<1>11. CASE Login
  BY <1>11 DEF Login
<1>12. CASE EnableEngine
  BY <1>12 DEF EnableEngine, Prepare
<1>13. CASE WritePolicy
  BY <1>13 DEF WritePolicy, Prepare
<1>14. CASE EnableAppRole
  BY <1>14 DEF EnableAppRole, Prepare
<1>15. CASE WriteRole
  BY <1>15 DEF WriteRole, Prepare
<1>16. CASE WriteSecrets
  BY <1>16 DEF WriteSecrets
<1>17. CASE PutSecrets
  BY <1>17 DEF PutSecrets
<1>18. CASE RemoveSecrets
  BY <1>18 DEF RemoveSecrets
<1>19. CASE ReadRoleId
  <2>1. Complete' <=> Complete
    BY <1>19 DEF ReadRoleId, ReadId
  <2>2. /\ script \in FromRoleId /\ script' # "append"
        /\ credentials' = credentials /\ stored' = stored
    BY <1>19 DEF ReadRoleId, ReadId, FromRoleId
  <2>3. ids' = ids \/ (Authorized /\ "role" \in setup)
    BY <1>19 DEF ReadRoleId, ReadId
  <2> QED BY <2>1, <2>2, <2>3, ReadComplete
<1>20. CASE ReadSecretId
  <2>1. Complete' <=> Complete
    BY <1>20 DEF ReadSecretId, ReadId
  <2>2. /\ script \in FromRoleId /\ script' # "append"
        /\ credentials' = credentials /\ stored' = stored
    BY <1>20 DEF ReadSecretId, ReadId, FromRoleId
  <2>3. ids' = ids \/ (Authorized /\ "role" \in setup)
    BY <1>20 DEF ReadSecretId, ReadId
  <2> QED BY <2>1, <2>2, <2>3, ReadComplete
<1>21. CASE StoreRoleId
  BY <1>21 DEF StoreRoleId
<1>22. CASE AppendSecretId
  BY <1>22 DEF AppendSecretId
<1>23. CASE StartServices
  BY <1>23 DEF StartServices
<1>24. CASE Kill
  BY <1>24 DEF Kill
<1>25. CASE Stop
  BY <1>25 DEF Stop
<1>26. CASE ServicesRefused
  BY <1>26 DEF ServicesRefused
<1> QED
  BY <1>1, <1>2, <1>3, <1>4, <1>5, <1>6, <1>7, <1>8, <1>9,
     <1>10, <1>11, <1>12, <1>13, <1>14, <1>15, <1>16, <1>17, <1>18,
     <1>19, <1>20, <1>21, <1>22, <1>23, <1>24, <1>25, <1>26
  DEF Next, Script, Initialise, SetUp, StoreSecrets, StoreCredentials

-----------------------------------------------------------------------------
(* The theorems.                                                            *)

LEMMA StutterIInv == IInv /\ UNCHANGED vars => IInv'
BY DEF IInv, TypeOK, KeysInv, MountInv, BranchInv, CompleteInv, Complete,
       Authorized, vars, disk, idFile, vault, container, shell, budget

\* The invariant holds of every behaviour of the script.
THEOREM VaultInvariant == Spec => []IInv
<1>1. IInv /\ Next => IInv'
  BY NextType, NextKeys, NextMount, NextBranch, NextComplete DEF IInv
<1> QED BY InitIInv, StutterIInv, <1>1, PTL DEF Spec

\* The types of bin/run/vault's files, its vault and its shell variables.
THEOREM VaultType == Spec => []TypeOK
<1>1. IInv => TypeOK
  BY DEF IInv
<1> QED BY VaultInvariant, <1>1, PTL

\* However often the script is killed or its container stopped, two usable ids
\* in the file credentials certify every command before them.
THEOREM CredentialsCertify == Spec => []CredentialsComeLast
<1>1. IInv => CredentialsComeLast
  BY DEF IInv, CompleteInv, Complete, CredentialsComeLast, Ids
<1> QED BY VaultInvariant, <1>1, PTL

\* No start overwrites or empties a keys.json that holds the keys.
THEOREM KeysSurvive == Spec => KeysKept
<1>1. [Next]_vars => [keysFile = "keys" => keysFile' = "keys"]_vars
  <2> SUFFICES ASSUME Next, keysFile = "keys" PROVE keysFile' = "keys"
    BY DEF vars, disk
  <2>1. CASE CheckKeys
    BY <2>1 DEF CheckKeys
  <2>2. CASE Redirect
    BY <2>2 DEF Redirect
  <2>3. CASE ~CheckKeys /\ ~Redirect
    BY <2>3 DEF Next, Script, Initialise, SetUp, StoreSecrets, StoreCredentials,
       Start, Status, Listen, Sleep, OperatorInit, ReadKeys, Unseal, WaitForUnseal,
       Login, EnableEngine, WritePolicy, EnableAppRole, WriteRole, Prepare,
       WriteSecrets, PutSecrets, RemoveSecrets, ReadRoleId, ReadSecretId, ReadId,
       StoreRoleId, AppendSecretId, StartServices, ServicesRefused, Kill, Stop, disk
  <2> QED BY <2>1, <2>2, <2>3
<1> QED BY <1>1, PTL DEF Spec, KeysKept

\* A script that ended left no secrets in clear text behind.
THEOREM SecretsRemoved == Spec => []NoSecretsLeft
<1> DEFINE Removed == script \in FromRoleId \cup {"done", "serving", "unserved"} => ~secretsFile
<1>1. Init => Removed
  BY DEF Init, FromRoleId
<1>2. Removed /\ [Next]_vars => Removed'
  <2> SUFFICES ASSUME Removed, [Next]_vars PROVE Removed'
    OBVIOUS
  <2> USE DEF FromRoleId, At, disk, idFile, vault, container, shell, budget
  <2>1. CASE UNCHANGED vars
    BY <2>1 DEF vars
  <2>2. CASE Start \/ StartServices \/ ServicesRefused \/ Kill \/ Stop \/ Listen
    BY <2>2 DEF Start, StartServices, ServicesRefused, Kill, Stop, Listen
  <2>3. CASE StoreSecrets
    BY <2>3 DEF StoreSecrets, WriteSecrets, PutSecrets, RemoveSecrets
  <2>4. CASE Status \/ Sleep \/ Initialise \/ ReadKeys \/ Unseal
    BY <2>4 DEF Status, Sleep, Initialise, CheckKeys, OperatorInit, Redirect,
       ReadKeys, Unseal
  <2>5. CASE WaitForUnseal \/ Login \/ SetUp
    BY <2>5 DEF WaitForUnseal, Login, SetUp, EnableEngine, WritePolicy,
       EnableAppRole, WriteRole, Prepare
  <2>6. CASE ReadRoleId \/ ReadSecretId \/ StoreRoleId
    BY <2>6 DEF ReadRoleId, ReadSecretId, ReadId, StoreRoleId
  <2>7. CASE AppendSecretId
    BY <2>7 DEF AppendSecretId
  <2> QED BY <2>1, <2>2, <2>3, <2>4, <2>5, <2>6, <2>7
          DEF Next, Script, StoreCredentials
<1>3. Removed => NoSecretsLeft
  BY DEF NoSecretsLeft
<1> QED BY <1>1, <1>2, <1>3, PTL DEF Spec

\* EndsWithKeys: whoever gets past the wait has a vault that was unsealed with
\* the keys on disk, so an empty keys.json never looks like a finished start
\* (bin/run/vault:12-25, 63-71).
THEOREM EndsHaveKeys == Spec => []EndsWithKeys
<1> DEFINE Past == script \notin {"idle", "status", "sleep", "check", "init",
                                 "redirect", "keys", "unseal", "wait"}
           PastInv == Past => keysFile = "keys"
<1>1. Init => PastInv
  BY DEF Init
<1>2. IInv /\ PastInv /\ [Next]_vars => PastInv'
  <2> SUFFICES ASSUME IInv, PastInv, [Next]_vars, Past' PROVE keysFile' = "keys"
    OBVIOUS
  <2> USE DEF At, disk, idFile, vault, container, shell, budget
  <2>1. CASE UNCHANGED vars
    BY <2>1 DEF vars
  <2>2. CASE Start \/ StartServices \/ ServicesRefused \/ Kill \/ Stop \/ Listen
    BY <2>2 DEF Start, StartServices, ServicesRefused, Kill, Stop, Listen
  <2>3. CASE Status \/ Sleep \/ Initialise \/ ReadKeys \/ Unseal
    BY <2>3 DEF Status, Sleep, Initialise, CheckKeys, OperatorInit, Redirect,
       ReadKeys, Unseal
  <2>4. CASE WaitForUnseal
    BY <2>4 DEF WaitForUnseal, IInv, KeysInv
  <2>5. CASE Login \/ SetUp
    BY <2>5 DEF Login, SetUp, EnableEngine, WritePolicy, EnableAppRole, WriteRole,
       Prepare
  <2>6. CASE StoreSecrets
    BY <2>6 DEF StoreSecrets, WriteSecrets, PutSecrets, RemoveSecrets
  <2>7. CASE StoreCredentials
    BY <2>7 DEF StoreCredentials, ReadRoleId, ReadSecretId, ReadId, StoreRoleId,
       AppendSecretId
  <2> QED BY <2>1, <2>2, <2>3, <2>4, <2>5, <2>6, <2>7 DEF Next, Script
<1>3. PastInv => EndsWithKeys
  BY DEF EndsWithKeys
<1> QED BY <1>1, <1>2, <1>3, VaultInvariant, PTL DEF Spec

-----------------------------------------------------------------------------
(* What the services are served.                                            *)

AfterLogin == FromPolicy \cup {"engine", "done", "serving", "unserved"}
AfterUnseal == AfterLogin \cup {"unseal", "wait", "login"}
AfterPut == FromRm \cup {"done", "serving", "unserved"}

\* A server that is unsealed now has been so since the script waited for it,
\* with the key on disk: the script was logged in all the time, and stored
\* the secrets of its own start where an engine took them and the container
\* was its own.
ServedInv ==
  /\ server = "unsealed" /\ script \in AfterUnseal => key
  /\ server = "unsealed" /\ script \in AfterLogin => loggedIn
  /\ server = "unsealed" /\ script \in AfterPut /\ "engine" \in setup /\ mounted
       => kv = env
  /\ ServedCurrent

LEMMA NextServed ==
  ASSUME IInv, ServedInv, Next
  PROVE  ServedInv'
<1> USE DEF ServedInv, ServedCurrent, AfterLogin, AfterUnseal, AfterPut,
        FromPolicy, FromAppRole, FromRole, FromWrite, FromRm, FromRoleId,
        At, disk, idFile, vault, container, shell, budget
<1>1. CASE Start
  BY <1>1 DEF Start
<1>2. CASE Status \/ Sleep \/ Listen \/ Stop
  BY <1>2 DEF Status, Sleep, Listen, Stop
<1>3. CASE CheckKeys \/ Redirect
  BY <1>3 DEF CheckKeys, Redirect
<1>4. CASE OperatorInit
  BY <1>4 DEF OperatorInit
<1>5. CASE ReadKeys
  BY <1>5 DEF ReadKeys, IInv, KeysInv
<1>6. CASE Unseal
  BY <1>6 DEF Unseal, IInv, KeysInv
<1>7. CASE WaitForUnseal
  BY <1>7 DEF WaitForUnseal
<1>8. CASE Login
  BY <1>8 DEF Login
<1>9. CASE SetUp
  BY <1>9 DEF SetUp, EnableEngine, WritePolicy, EnableAppRole, WriteRole, Prepare
<1>10. CASE WriteSecrets
  BY <1>10 DEF WriteSecrets
<1>11. CASE PutSecrets
  BY <1>11 DEF PutSecrets, Authorized
<1>12. CASE RemoveSecrets
  BY <1>12 DEF RemoveSecrets
<1>13. CASE ReadRoleId \/ ReadSecretId
  BY <1>13 DEF ReadRoleId, ReadSecretId, ReadId
<1>14. CASE StoreRoleId
  BY <1>14 DEF StoreRoleId
<1>15. CASE AppendSecretId
  BY <1>15 DEF AppendSecretId
<1>16. CASE StartServices
  <2>1. credentials = Ids => SetupSteps \subseteq setup
    BY DEF IInv, CompleteInv, Complete, Ids
  <2>2. credentials = Ids /\ server = "unsealed" => CanRead /\ (mounted => kv = env)
    BY <1>16, <2>1 DEF StartServices, CanRead, SetupSteps
  <2> QED BY <1>16, <2>2 DEF StartServices
<1>17. CASE Kill
  BY <1>17 DEF Kill
<1>18. CASE ServicesRefused
  BY <1>18 DEF ServicesRefused
<1> QED
  BY <1>1, <1>2, <1>3, <1>4, <1>5, <1>6, <1>7, <1>8, <1>9, <1>10, <1>11, <1>12,
     <1>13, <1>14, <1>15, <1>16, <1>17, <1>18
  DEF Next, Script, Initialise, StoreSecrets, StoreCredentials

\* ServedCurrent: however often the script was killed and its container
\* stopped, a vault that this start brought up serves services with usable
\* credentials the secrets of this start (bin/run/vault:205-240).
THEOREM CurrentSecretsServed == Spec => []ServedCurrent
<1>1. Init => ServedInv
  BY DEF Init, ServedInv, ServedCurrent
<1>2. IInv /\ ServedInv /\ [Next]_vars => ServedInv'
  <2>1. ServedInv /\ UNCHANGED vars => ServedInv'
    BY DEF ServedInv, ServedCurrent, vars, disk, idFile, vault, container, shell
  <2> QED BY <2>1, NextServed
<1>3. ServedInv => ServedCurrent
  BY DEF ServedInv
<1> QED BY <1>1, <1>2, <1>3, VaultInvariant, PTL DEF Spec

-----------------------------------------------------------------------------
(* What no interruption costs.                                              *)

\* Nothing was ever killed or stopped, and the server is up after the sleep.
Undisturbed == fast /\ kills = 0 /\ stops = 0

\* The vault before the first start has initialised it.
Blank == keysFile = "absent" /\ setup = {}

\* The first start under way, up to the wait for the server, ...
Preparing ==
  \/ script \in {"idle", "status"} /\ server = "down" /\ Blank
  \/ script = "sleep" /\ server \in {"starting", "sealed"} /\ Blank
  \/ script = "check" /\ server = "sealed" /\ Blank
  \/ script = "init" /\ first /\ server = "sealed" /\ setup = {}
  \/ script = "redirect" /\ first /\ server = "sealed"
  \/ script = "keys" /\ first /\ server = "sealed" /\ keysFile = "keys"
  \/ script = "unseal" /\ first /\ server = "sealed" /\ key

\* ... and from there on, ...
SettingUp ==
  /\ script \in {"wait", "login", "engine"} \cup FromPolicy
  /\ first /\ server = "unsealed"
  /\ script = "secretId" => "role_id" \in ids
  /\ script \in {"store", "append"} => ids = Ids
  /\ script = "append" => "role_id" \in credentials

\* ... and every start after it.
Settled ==
  /\ credentials = Ids /\ server = "unsealed"
  /\ script \notin {"idle", "init", "redirect", "unserved"}
  /\ first => script \in {"done", "serving"}
  /\ script = "serving" => service # NoEnv

QuietInv == Undisturbed => Preparing \/ SettingUp \/ Settled

LEMMA NextQuiet ==
  ASSUME IInv, ServedInv, QuietInv, Next, Undisturbed'
  PROVE  (Preparing \/ SettingUp \/ Settled)'
<1> USE DEF Preparing, SettingUp, Settled, Blank, FromPolicy, FromAppRole,
        FromRole, FromWrite, FromRm, FromRoleId, Ids, Resting, Commands,
        At, disk, idFile, vault, container, shell, budget
<1>1. CASE Kill \/ Stop
  <2>1. kills \in Nat /\ stops \in Nat
    BY VaultConstants DEF IInv, TypeOK
  <2>2. kills' = kills + 1 \/ stops' = stops + 1
    BY <1>1 DEF Kill, Stop
  <2> QED BY <2>1, <2>2 DEF Undisturbed
<1>2. ASSUME ~Kill, ~Stop PROVE Preparing \/ SettingUp \/ Settled
  <2>1. UNCHANGED <<fast, kills, stops>>
    BY <1>2 DEF Next, Script, Initialise, SetUp, StoreSecrets, StoreCredentials,
       Start, Status, Listen, Sleep, CheckKeys, OperatorInit, Redirect, ReadKeys,
       Unseal, WaitForUnseal, Login, EnableEngine, WritePolicy, EnableAppRole,
       WriteRole, Prepare, WriteSecrets, PutSecrets, RemoveSecrets, ReadRoleId,
       ReadSecretId, ReadId, StoreRoleId, AppendSecretId, StartServices, ServicesRefused
  <2> QED BY <2>1 DEF QuietInv, Undisturbed
<1>3. fast' = fast /\ fast
  BY DEF Undisturbed, Next, Script, Initialise, SetUp, StoreSecrets, StoreCredentials,
     Start, Status, Listen, Sleep, CheckKeys, OperatorInit, Redirect, ReadKeys,
     Unseal, WaitForUnseal, Login, EnableEngine, WritePolicy, EnableAppRole,
     WriteRole, Prepare, WriteSecrets, PutSecrets, RemoveSecrets, ReadRoleId,
     ReadSecretId, ReadId, StoreRoleId, AppendSecretId, StartServices, ServicesRefused, Kill, Stop
<1>4. ASSUME ~Kill, ~Stop, Start PROVE (Preparing \/ SettingUp \/ Settled)'
  BY <1>2, <1>4 DEF Start
<1>5. ASSUME ~Kill, ~Stop, Status PROVE (Preparing \/ SettingUp \/ Settled)'
  BY <1>2, <1>5 DEF Status
<1>6. ASSUME ~Kill, ~Stop, Listen PROVE (Preparing \/ SettingUp \/ Settled)'
  BY <1>2, <1>6 DEF Listen
<1>7. ASSUME ~Kill, ~Stop, Sleep PROVE (Preparing \/ SettingUp \/ Settled)'
  BY <1>2, <1>3, <1>7 DEF Sleep
<1>8. ASSUME ~Kill, ~Stop, CheckKeys PROVE (Preparing \/ SettingUp \/ Settled)'
  <2>1. credentials = Ids => keysFile = "keys"
    BY DEF IInv, CompleteInv, Complete
  <2> QED BY <1>2, <1>8, <2>1 DEF CheckKeys
<1>9. ASSUME ~Kill, ~Stop, OperatorInit PROVE (Preparing \/ SettingUp \/ Settled)'
  BY <1>2, <1>9 DEF OperatorInit
<1>10. ASSUME ~Kill, ~Stop, Redirect PROVE (Preparing \/ SettingUp \/ Settled)'
  BY <1>2, <1>10 DEF Redirect
<1>11. ASSUME ~Kill, ~Stop, ReadKeys PROVE (Preparing \/ SettingUp \/ Settled)'
  BY <1>2, <1>11 DEF ReadKeys
<1>12. ASSUME ~Kill, ~Stop, Unseal PROVE (Preparing \/ SettingUp \/ Settled)'
  <2>1. key => "initialized" \in setup
    BY DEF IInv, KeysInv
  <2> QED BY <1>2, <1>12, <2>1 DEF Unseal
<1>13. ASSUME ~Kill, ~Stop, WaitForUnseal PROVE (Preparing \/ SettingUp \/ Settled)'
  BY <1>2, <1>13 DEF WaitForUnseal
<1>14. ASSUME ~Kill, ~Stop, Login PROVE (Preparing \/ SettingUp \/ Settled)'
  BY <1>2, <1>14 DEF Login
<1>15. ASSUME ~Kill, ~Stop, SetUp PROVE (Preparing \/ SettingUp \/ Settled)'
  BY <1>2, <1>15
  DEF SetUp, EnableEngine, WritePolicy, EnableAppRole, WriteRole, Prepare
<1>16. ASSUME ~Kill, ~Stop, StoreSecrets PROVE (Preparing \/ SettingUp \/ Settled)'
  BY <1>2, <1>16 DEF StoreSecrets, WriteSecrets, PutSecrets, RemoveSecrets
<1>17. ASSUME ~Kill, ~Stop, ReadRoleId \/ ReadSecretId
       PROVE (Preparing \/ SettingUp \/ Settled)'
  <2>1. script \in {"roleId", "secretId"}
    BY <1>17 DEF ReadRoleId, ReadSecretId, ReadId
  <2>2. SettingUp
    BY <1>2, <1>17, <2>1 DEF IInv, BranchInv
  <2>3. loggedIn
    BY <2>1, <2>2 DEF ServedInv, AfterLogin
  <2>4. Authorized /\ "role" \in setup
    BY <2>1, <2>2, <2>3 DEF Authorized, IInv, BranchInv
  <2>5. ids \subseteq Ids
    BY DEF IInv, TypeOK
  <2> QED BY <1>17, <2>2, <2>4, <2>5 DEF ReadRoleId, ReadSecretId, ReadId
<1>18. ASSUME ~Kill, ~Stop, StoreRoleId PROVE (Preparing \/ SettingUp \/ Settled)'
  <2>1. script = "store" /\ first
    BY <1>18 DEF StoreRoleId, IInv, BranchInv
  <2>2. SettingUp
    BY <1>2, <1>18, <2>1
  <2> QED BY <1>18, <2>1, <2>2 DEF StoreRoleId
<1>19. ASSUME ~Kill, ~Stop, AppendSecretId PROVE (Preparing \/ SettingUp \/ Settled)'
  <2>1. credentials \subseteq Ids
    BY DEF IInv, TypeOK
  <2> QED BY <1>2, <1>19, <2>1 DEF AppendSecretId
<1>20. ASSUME ~Kill, ~Stop, StartServices PROVE (Preparing \/ SettingUp \/ Settled)'
  <2>1. Settled
    BY <1>2, <1>20 DEF StartServices
  <2>2. SetupSteps \subseteq setup /\ kv # NoEnv
    BY <2>1 DEF IInv, CompleteInv, Complete
  <2>3. CanRead
    BY <2>1, <2>2 DEF CanRead, SetupSteps
  <2>4. service' # NoEnv
    BY <1>20, <2>2, <2>3 DEF StartServices
  <2> QED BY <1>20, <2>1, <2>4 DEF StartServices
<1>21. ASSUME ~Kill, ~Stop, ServicesRefused PROVE (Preparing \/ SettingUp \/ Settled)'
  BY <1>2, <1>21 DEF ServicesRefused, IInv, CompleteInv
<1> QED
  BY <1>1, <1>4, <1>5, <1>6, <1>7, <1>8, <1>9, <1>10, <1>11, <1>12, <1>13,
     <1>14, <1>15, <1>16, <1>17, <1>18, <1>19, <1>20, <1>21
  DEF Next, Script, Initialise, StoreCredentials

\* What docs/architecture.md:27 promises, and what the services are given: the
\* secrets of this start if it brought up the vault's container, those of an
\* earlier one if it found the vault up.
StartsServe ==
  /\ ServicesAuthenticate
  /\ script # "unserved"
  /\ script = "serving" => service # NoEnv
  /\ script = "serving" /\ mounted => service = env

\* Where the sleep is long enough and nothing is killed or stopped, every
\* start, the first as well as those after it, has credentials for its services
\* and secrets they can read: only an interruption can break what the document
\* says (bin/run/vault:35-248).
THEOREM UndisturbedStartsAuthenticate ==
  Spec => [](Undisturbed => StartsServe)
<1>1. Init => ServedInv /\ QuietInv
  <2>1. Init => ServedInv
    BY DEF Init, ServedInv, ServedCurrent
  <2>2. Init => QuietInv
    BY DEF Init, QuietInv, Preparing, Blank
  <2> QED BY <2>1, <2>2
<1>2. IInv /\ ServedInv /\ [Next]_vars => ServedInv'
  <2>1. ServedInv /\ UNCHANGED vars => ServedInv'
    BY DEF ServedInv, ServedCurrent, vars, disk, idFile, vault, container, shell
  <2> QED BY <2>1, NextServed
<1>3. IInv /\ ServedInv /\ QuietInv /\ [Next]_vars => QuietInv'
  <2>1. QuietInv /\ UNCHANGED vars => QuietInv'
    BY DEF QuietInv, Undisturbed, Preparing, Blank, SettingUp, Settled, vars,
       disk, idFile, vault, container, shell, budget
  <2> QED BY <2>1, NextQuiet DEF QuietInv
<1>4. ServedInv /\ QuietInv => (Undisturbed => StartsServe)
  <2> SUFFICES ASSUME ServedInv, QuietInv, Undisturbed,
                      script \in {"serving", "unserved"}
               PROVE  StartsServe
    BY DEF StartsServe, ServicesAuthenticate
  <2>1. Settled
    BY DEF QuietInv, Preparing, SettingUp, FromPolicy, FromAppRole, FromRole,
       FromWrite, FromRm, FromRoleId
  <2> QED BY <2>1 DEF Settled, ServedInv, ServedCurrent, StartsServe,
          ServicesAuthenticate
<1> QED BY <1>1, <1>2, <1>3, <1>4, VaultInvariant, PTL DEF Spec

-----------------------------------------------------------------------------
(* The safety half of BootstrapEnds: what a script waits for, and how far   *)
(* it still has to go.                                                      *)

\* The script does not look at the server while it starts, and the key it
\* passes on is the one on disk.
WaitInv ==
  /\ fast /\ server = "starting" => script \in {"idle", "status", "sleep"}
  /\ script \in {"unseal", "wait"} => (key <=> keysFile = "keys")
  /\ fast /\ script = "wait" /\ keysFile = "keys" => server # "sealed"

\* Where the sleep is long enough and the keys are on disk, the loop that has
\* no other way out (bin/run/vault:12) waits for a vault that bin/stop removed,
\* or does not wait at all.
WaitsForStoppedOnly ==
  fast /\ keysFile = "keys" /\ script = "wait" => server \in {"unsealed", "down"}

LEMMA NextWait ==
  ASSUME IInv, WaitInv, Next
  PROVE  WaitInv'
<1> USE DEF WaitInv, At, Resting, Commands, Running, disk, idFile, vault,
        container, shell, budget
<1>1. CASE Start \/ Kill \/ Stop
  BY <1>1 DEF Start, Kill, Stop
<1>2. CASE Status \/ Sleep \/ Listen
  BY <1>2 DEF Status, Sleep, Listen
<1>3. CASE CheckKeys \/ OperatorInit \/ Redirect
  BY <1>3 DEF CheckKeys, OperatorInit, Redirect
<1>4. CASE ReadKeys
  BY <1>4 DEF ReadKeys
<1>5. CASE Unseal
  <2>1. keysFile = "keys" => "initialized" \in setup
    BY DEF IInv, KeysInv
  <2> QED BY <1>5, <2>1 DEF Unseal
<1>6. CASE WaitForUnseal
  BY <1>6 DEF WaitForUnseal
<1>7. CASE Login \/ SetUp
  BY <1>7 DEF Login, SetUp, EnableEngine, WritePolicy, EnableAppRole, WriteRole,
     Prepare
<1>8. CASE StoreSecrets
  BY <1>8 DEF StoreSecrets, WriteSecrets, PutSecrets, RemoveSecrets
<1>9. CASE StoreCredentials
  BY <1>9 DEF StoreCredentials, ReadRoleId, ReadSecretId, ReadId, StoreRoleId,
     AppendSecretId
<1>10. CASE StartServices \/ ServicesRefused
  BY <1>10 DEF StartServices, ServicesRefused
<1> QED BY <1>1, <1>2, <1>3, <1>4, <1>5, <1>6, <1>7, <1>8, <1>9, <1>10
        DEF Next, Script, Initialise

\* WaitsForStoppedOnly, through all kills and stops (bin/run/vault:12-25, 60).
THEOREM WaitsEnd == Spec => []WaitsForStoppedOnly
<1>1. Init => WaitInv
  BY DEF Init, WaitInv
<1>2. IInv /\ WaitInv /\ [Next]_vars => WaitInv'
  <2>1. WaitInv /\ UNCHANGED vars => WaitInv'
    BY DEF WaitInv, vars, disk, idFile, vault, container, shell, budget
  <2> QED BY <2>1, NextWait
<1>3. IInv /\ WaitInv => WaitsForStoppedOnly
  BY DEF IInv, TypeOK, WaitInv, WaitsForStoppedOnly
<1> QED BY <1>1, <1>2, <1>3, VaultInvariant, PTL DEF Spec

\* The commands a script may still run, itself included.
Order == [status |-> 20, sleep |-> 19, check |-> 18, init |-> 17,
          redirect |-> 16, keys |-> 15, unseal |-> 14, wait |-> 13,
          login |-> 12, engine |-> 11, policy |-> 10, approle |-> 9,
          role |-> 8, write |-> 7, put |-> 6, rm |-> 5, roleId |-> 4,
          secretId |-> 3, store |-> 2, append |-> 1]
CommandsLeft == IF Running THEN Order[script] ELSE 0

\* A script runs at most twenty commands besides the rounds of its one loop, and
\* what happens around it, kills and stops included, never adds to them.
ScriptRunsDown ==
  [][/\ Script => \/ CommandsLeft' < CommandsLeft
                  \/ script = "wait" /\ script' = "wait"
     /\ ~Start => CommandsLeft' <= CommandsLeft]_vars

LEMMA OrderType ==
  /\ Order["status"] = 20 /\ Order["sleep"] = 19 /\ Order["check"] = 18
  /\ Order["init"] = 17 /\ Order["redirect"] = 16 /\ Order["keys"] = 15
  /\ Order["unseal"] = 14 /\ Order["wait"] = 13 /\ Order["login"] = 12
  /\ Order["engine"] = 11 /\ Order["policy"] = 10 /\ Order["approle"] = 9
  /\ Order["role"] = 8 /\ Order["write"] = 7 /\ Order["put"] = 6
  /\ Order["rm"] = 5 /\ Order["roleId"] = 4 /\ Order["secretId"] = 3
  /\ Order["store"] = 2 /\ Order["append"] = 1
  /\ CommandsLeft \in 0..20
<1>1. \A s \in Commands : Order[s] \in 1..20
  BY DEF Commands, Order
<1>2. CommandsLeft \in 0..20
  BY <1>1 DEF CommandsLeft, Running
<1> QED BY <1>2 DEF Order

\* ScriptRunsDown: with WaitsForStoppedOnly, a script on a fast host with keys
\* on disk comes to its end once its commands are run, or its vault is stopped.
THEOREM ScriptsRunDown == Spec => ScriptRunsDown
<1> DEFINE A == /\ Script => \/ CommandsLeft' < CommandsLeft
                             \/ script = "wait" /\ script' = "wait"
                /\ ~Start => CommandsLeft' <= CommandsLeft
<1>1. [Next]_vars => [A]_vars
  <2> SUFFICES ASSUME Next PROVE A
    OBVIOUS
  <2>1. CommandsLeft \in 0..20
    BY OrderType
  <2>2. CASE Start
    <3>1. Script => script \in Commands
      BY DEF Script, Initialise, StoreSecrets, StoreCredentials, SetUp, Commands,
         Status, Sleep, CheckKeys, OperatorInit, Redirect, ReadKeys, Unseal,
         WaitForUnseal, Login, EnableEngine, WritePolicy, EnableAppRole, WriteRole,
         Prepare, WriteSecrets, PutSecrets, RemoveSecrets, ReadRoleId, ReadSecretId,
         ReadId, StoreRoleId, AppendSecretId, At
    <3>2. script \notin Commands
      BY <2>2 DEF Start, Resting, Commands
    <3> QED BY <2>2, <3>1, <3>2
  <2>3. CASE Script
    <3> USE DEF At, CommandsLeft, Running, Commands, Resting
    <3>1. CASE Status \/ Sleep \/ Initialise \/ ReadKeys
      BY OrderType, <3>1 DEF Status, Sleep, Initialise, CheckKeys, OperatorInit,
         Redirect, ReadKeys
    <3>2. CASE Unseal \/ WaitForUnseal \/ Login
      BY OrderType, <3>2 DEF Unseal, WaitForUnseal, Login
    <3>3. CASE SetUp
      BY OrderType, <3>3 DEF SetUp, EnableEngine, WritePolicy, EnableAppRole,
         WriteRole, Prepare
    <3>4. CASE StoreSecrets
      BY OrderType, <3>4 DEF StoreSecrets, WriteSecrets, PutSecrets, RemoveSecrets
    <3>5. CASE StoreCredentials
      BY OrderType, <3>5 DEF StoreCredentials, ReadRoleId, ReadSecretId, ReadId,
         StoreRoleId, AppendSecretId
    <3> QED BY <2>3, <3>1, <3>2, <3>3, <3>4, <3>5 DEF Script
  <2>4. CASE ~Script /\ ~Start
    <3>1. script' = script \/ script' \notin Commands
      BY <2>4 DEF Next, Listen, StartServices, ServicesRefused, Kill, Stop, At,
         Commands
    <3>2. CommandsLeft' \in {CommandsLeft, 0}
      BY <3>1 DEF CommandsLeft, Running
    <3> QED BY <2>1, <2>4, <3>2
  <2> QED BY <2>2, <2>3, <2>4
<1> QED BY <1>1, PTL DEF Spec, ScriptRunsDown
=============================================================================
