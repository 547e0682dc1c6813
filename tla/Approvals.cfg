SPECIFICATION Spec
CONSTANTS
  r1 = r1  r2 = r2  u1 = u1  u2 = u2  c1 = c1
  j1 = j1  j2 = j2  d1 = d1  d2 = d2  e1 = e1
  None = None
  Requests = {r1, r2}
  Users = {u1, u2}
  Calls = {c1}
  Jobs = {j1, j2}
  Decisions = {d1, d2}
  Endings = {e1}
  JobUser <- Askers
  JobCall <- Asked
  MaxPending = 1
  MaxRecords = 1
  Ttl = 1
  MaxTime = 1
  MaxFaults = 1
CHECK_DEADLOCK FALSE
INVARIANTS ReceiptsTrue OutcomesSettle ClearedNeverRuns
PROPERTIES UncertainKept CallbacksClaimed
SYMMETRY Symmetry
