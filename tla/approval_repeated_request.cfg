SPECIFICATION Spec
CONSTANTS
  Events <- OneEvent
  Requests <- Both
  EventOf <- Event11
  Args <- OneArg
  ArgsOf <- Arg11
  Audits <- First
  AuditEvent <- Event1
  Authorized <- First
  Resumers <- Both
  TokenOf <- To12
  Executors <- Both
  CapOf <- To12
  TTL = 1
  MaxTime = 1
  MaxCrashes = 0
INVARIANT AtMostOneEffect
CHECK_DEADLOCK FALSE
