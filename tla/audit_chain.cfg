SPECIFICATION FairSpec
CONSTANTS
  Appends <- Four
  Payloads <- Contents
  PayloadOf <- Records4
  Events <- Ids
  EventOf <- Refers4
  Decided <- OneId
  Decisions <- DecisionIds
  DecisionOf <- Names4
  Known <- OneDecision
  NULL = NULL
  Numbers <- Places
  Damageable = TRUE
INVARIANTS
  TypeOK
  ChainVerifies
  
PROPERTIES
  ImplementsLog
  EveryAppendEnds
CHECK_DEADLOCK FALSE
