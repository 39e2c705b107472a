CONSTANTS
  d1 = d1
  d2 = d2
  t1 = t1
  t2 = t2
  Deployers = {d1, d2}
  Tags = {t1, t2}
  NoTag = NoTag
  NoConfig = NoConfig
  TagOf <- DistinctTags
  BaseFiles = {b1}
  BaseForms = {"good"}
  Overlap = FALSE
  Services = {web, db}
  Built = {web}
  Priors = {t1}
  MaxFaults = 0
SPECIFICATION Spec
PROPERTIES OldKeptUntilRouted
