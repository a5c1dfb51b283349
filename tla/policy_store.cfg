SPECIFICATION Spec
CONSTANTS
  c1 = c1
  c2 = c2
  Policies <- Rules
  Scopes <- ReadScope
  Environments <- Local
  Resources <- Hosts
  Calls <- Two
  EnvelopeOf <- BothAskHost1
  Seeded <- Seed
  MaxChanges = 2
  TTL = 1
  MaxTime = 3
SYMMETRY CallSymmetry
INVARIANTS
  TypeOK
  ProhibitionIsObeyed
  PassIsAuthorised
  AnswerIsInForce
CHECK_DEADLOCK FALSE
