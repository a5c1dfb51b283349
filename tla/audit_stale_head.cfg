SPECIFICATION Spec
CONSTANTS
  Appends <- Two
  Payloads <- Contents
  PayloadOf <- Records2
  Events <- OneId
  EventOf <- Refers2
  Decided <- OneId
  Decisions <- DecisionIds
  DecisionOf <- Names2
  Known <- OneDecision
  NULL = NULL
  Numbers <- Places
  Damageable = FALSE
INVARIANT AppendsAreSerialized
CHECK_DEADLOCK FALSE
