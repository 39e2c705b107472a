CONSTANTS
  e1 = e1
  e2 = e2
  Envs = {e1, e2}
  NoEnv = NoEnv
  Speeds = {TRUE, FALSE}
  MaxKills = 2
  MaxStops = 2
SPECIFICATION FairSpec
INVARIANTS TypeOK CredentialsComeLast ServedCurrent NoSecretsLeft EndsWithKeys
PROPERTIES KeysKept BootstrapEnds
