SPECIFICATION Spec
CONSTANTS
  Events <- OneEvent
  Requests <- First
  EventOf <- Event1
  Args <- OneArg
  ArgsOf <- Arg1
  Audits <- First
  AuditEvent <- Event1
  Authorized <- First
  Resumers <- First
  TokenOf <- To1
  Executors <- Both
  CapOf <- To11
  TTL = 1
  MaxTime = 1
  MaxCrashes = 0
INVARIANT AtMostOneEffect
CHECK_DEADLOCK FALSE
