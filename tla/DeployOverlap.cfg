CONSTANTS
  d1 = d1
  d2 = d2
  t1 = t1
  t2 = t2
  Deployers = {d1, d2}
  Tags = {t1, t2}
  NoTag = NoTag
  NoConfig = NoConfig
  TagOf <- DistinctTags
  BaseFiles = {b1}
  BaseForms = {"good", "noBalancer"}
  Overlap = TRUE
  Services = {web, db}
  Built = {web}
  Priors = {NoTag, t1}
  MaxFaults = 1
SPECIFICATION FairSpec
INVARIANTS TypeOK RunningWasPushed
PROPERTIES ServedUntilRouted DeployEnds
