CONSTANTS
  r1 = r1
  Requests = {r1}
  NoId = NoId
  Asked <- Functions
  Services <- Triangle
  MaxStops = 2
  Stubborn <- Resisting
  Switched <- Switches
SPECIFICATION FairSpec
INVARIANTS TypeOK OnlyLateLeft
PROPERTIES FusionAuthFirst GetsToServe SignalEnds
CHECK_DEADLOCK FALSE
