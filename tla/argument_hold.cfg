SPECIFICATION Spec
CONSTANTS
  t1 = t1
  t2 = t2
  e1 = e1
  e2 = e2
  small = small
  big = big
  huge = huge
  Threads <- Workers
  Events <- EventIds
  Args <- Payloads
  SizeOf <- Sizes
  None = None
  MaxArgBytes = 2
  MaxTotalBytes = 2
  TTL = 1
  MaxTime = 1
  MaxHolds <- HoldsPerEvent
INVARIANTS
  TypeOK
  BytesAreAccounted
  FoundIsLive
PROPERTIES
  LiveEntryStays
SYMMETRY ThreadSymmetry
