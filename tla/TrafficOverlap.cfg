CONSTANTS
  d1 = d1
  d2 = d2
  t1 = t1
  t2 = t2
  Deployers = {d1, d2}
  Tags = {t1, t2}
  NoTag = NoTag
  NoConfig = NoConfig
  TagOf <- DistinctTags
  BaseFiles = {b1, b2}
  BaseForms = {"good", "noServices", "noBalancer", "badURL", "unparsable"}
  Overlap = TRUE
SPECIFICATION FairSpec
INVARIANTS TypeOK RoutedFromGoodFiles
PROPERTIES RoutesSettle DeployReturns
