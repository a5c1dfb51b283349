SPECIFICATION Spec
CONSTANTS
  c1 = c1
  c2 = c2
  Policies <- SendRule
  Scopes <- SendScope
  Environments <- Local
  Resources <- OneHost
  Calls <- One
  EnvelopeOf <- SendsToHost1
  Seeded <- Seed
  MaxChanges = 0
  TTL = 1
  MaxTime = 2
INVARIANT OnlyReadsOffline
CHECK_DEADLOCK FALSE
