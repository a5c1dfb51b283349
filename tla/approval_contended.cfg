SPECIFICATION FairSpec
CONSTANTS
  Events <- OneEvent
  Requests <- Both
  EventOf <- Event11
  Args <- OneArg
  ArgsOf <- Arg11
  Audits <- First
  AuditEvent <- Event1
  Authorized <- First
  Resumers <- Both
  TokenOf <- To12
  Executors <- First
  CapOf <- To1
  TTL = 1
  MaxTime = 2
  MaxCrashes = 0
PROPERTIES
  EveryCallReturns
  RedeemedByTimelyCall
CHECK_DEADLOCK FALSE
