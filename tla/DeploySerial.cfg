CONSTANTS
  d1 = d1
  d2 = d2
  t1 = t1
  t2 = t2
  Deployers = {d1, d2}
  Tags = {t1, t2}
  NoTag = NoTag
  NoConfig = NoConfig
  TagOf <- SameTag
  BaseFiles = {b1}
  BaseForms = {"good", "noBalancer"}
  Overlap = FALSE
  Services = {web, api, db}
  Built = {web, api}
  Priors = {NoTag, t1, t2}
  MaxFaults = 2
SPECIFICATION Spec
INVARIANTS OverrideOutlivesUp RoutedOnce
PROPERTIES ReportedRollbackIsClean
