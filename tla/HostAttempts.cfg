CONSTANTS
  LocalTools <- Machines
  MaxFaults = 2
  Images = {web, api}
  MaxEdits = 1
  NoVersion = NoVersion
SPECIFICATION CommandSpec
INVARIANTS CommandOK ReadyHasRuntime VerifiedIsUsable RuntimeKept ImagesHoldTheirCommit
SYMMETRY AnyImages
