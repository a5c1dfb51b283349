SPECIFICATION Spec
CONSTANTS
  Events <- OneEvent
  Requests <- First
  EventOf <- Event1
  Args <- OneArg
  ArgsOf <- Arg1
  Audits <- Three
  AuditEvent <- Event111
  Authorized <- Both
  Resumers <- Both
  TokenOf <- To11
  Executors <- Both
  CapOf <- To12
  TTL = 1
  MaxTime = 3
  MaxCrashes = 1
INVARIANTS
  TypeOK
  EffectInv
  AtMostOneEffect
  EffectsAreApproved
  OneCapabilityPerToken
  LiveTokenHasArguments
  CancelledIsNotResumable
  GivenTokenIsDurable
  SuccessIsReal
PROPERTIES
  RestartKeepsToken
  HistoryIsFinal
  ImplementsPromise
CHECK_DEADLOCK FALSE
