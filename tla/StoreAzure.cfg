SPECIFICATION Spec
CONSTANTS
  c1 = c1  c2 = c2  a1 = a1  a2 = a2
  Callers = {c1, c2}
  Activities = {a1, a2}
  Backend = "azure"
  Resets = "anytime"
  MaxAttempts = 2
  MaxSeen = 2
  MaxRecent = 2
  TTL = 1
  MaxCalls <- ThreeCalls
  MaxTime = 1
CHECK_DEADLOCK FALSE
INVARIANTS ClaimOnce
PROPERTIES DurableReceipt Refines
