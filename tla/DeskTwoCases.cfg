SPECIFICATION LiveSpec
CONSTANTS
  k1 = k1  k2 = k2  None = None
  a = a  b = b  c = c
  s1 = s1  s2 = s2  s3 = s3
  Keys = {k1, k2}
  Events = {a, c}
  Submits = {s1, s2, s3}
  SubmitEvent <- CarriedAgain
  EventKey <- TwoCases
  Revivals = {a}
  MaxConcurrent = 1
  MaxPending = 3
  MaxErrors = 2
  MaxTime = 1
  MaxTools = 0
  Faults = TRUE
  MaxStops = 0
CHECK_DEADLOCK FALSE
PROPERTIES EventsWorked
INVARIANTS WorkedOnce
