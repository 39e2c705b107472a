CONSTANTS
  k1 = k1
  k2 = k2
  k3 = k3
  Checks = {k1, k2, k3}
SPECIFICATION FairSpec
INVARIANTS TypeOK VerdictOfOneRound
PROPERTY FoundOnceUp
