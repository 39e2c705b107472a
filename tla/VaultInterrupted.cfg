CONSTANTS
  e1 = e1
  e2 = e2
  Envs = {e1}
  NoEnv = NoEnv
  Speeds = {TRUE}
  MaxKills = 1
  MaxStops = 0
SPECIFICATION Spec
INVARIANTS ServicesAuthenticate
