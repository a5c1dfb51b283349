SPECIFICATION FairSpec
CONSTANTS
  Guards <- AnalystGuards
  RateLimit = 1
  MaxAttempts = 3
  Lifetimes <- AnInstant
  MaxCalls = 3
  MaxTime = 1
INVARIANTS
  TypeOK
  RateLimitHolds
  EvidenceIsTrue
  EvidenceIsComplete
  NotifiedIsPending
  PendingIsNotified
  RetriesFollowPolicy
  OnlyLastRequestIsLate
PROPERTIES
  EveryCallEnds
CHECK_DEADLOCK FALSE
