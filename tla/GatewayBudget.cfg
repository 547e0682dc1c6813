SPECIFICATION HostSpec
CONSTANTS
  Calls = {g1, g2}
  Budget = 1
  Delegated = 1
  Attempts = 2
  MaxChanges = 2
  People = {p1}
  Tries = 2
  Failures = 2
  Batches = 1
  MaxLost = 1
  Events = {v1, v2, v3}
  v3 = v3  k1 = k1  k2 = k2
  KeyOf <- TheirInstance
  MaxErrors = 2
  CaseCalls = {w1, w2, w3}
  MaxOutages = 2
  Asks = {h1, h2}
  Answers = {x1, x2, x3}
  None = None
  Facts = {f1, f2, f3}
  f3 = f3
  Days <- TwoDays
  DayOf <- TheirDay
  ReadFails = FALSE
  Resets = FALSE
  MaxFaults = 2
CHECK_DEADLOCK FALSE
INVARIANT BudgetKept
