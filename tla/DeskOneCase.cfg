SPECIFICATION Spec
CONSTANTS
  k1 = k1  k2 = k2  None = None
  a = a  b = b  c = c
  s1 = s1  s2 = s2  s3 = s3
  Keys = {k1}
  Events = {a, b}
  Submits = {s1, s2}
  SubmitEvent <- Carried
  EventKey <- TwoCases
  Revivals = {b}
  MaxConcurrent = 1
  MaxPending = 1
  MaxErrors = 2
  MaxTime = 2
  MaxTools = 1
  Faults = FALSE
  MaxStops = 1
CHECK_DEADLOCK FALSE
INVARIANTS SerialWork CasesAttended ResumedAttended
