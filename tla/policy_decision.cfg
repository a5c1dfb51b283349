SPECIFICATION Spec
CONSTANTS
  Scopes <- OneScope
  Environments <- Both
  Resources <- Hosts
  Written <- AdminRules
  Seeds <- ProfileSeeds
  MaxDelay = 1
  MaxRows = 3
  MaxTime = 2
INVARIANTS
  TypeOK
  PrecedenceDecides
PROPERTIES
  RowOrderIsIrrelevant
  ProhibitionOutlastsSeeding
CHECK_DEADLOCK FALSE
