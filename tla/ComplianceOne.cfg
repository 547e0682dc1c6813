SPECIFICATION Spec
CONSTANTS
  e1 = e1  e2 = e2  e3 = e3  r1 = r1  r2 = r2  r3 = r3
  k1 = k1  n1 = n1  n2 = n2  a1 = a1
  None = None
  Keys = {k1}
  EmailCalls = {e1}
  ReplyCalls = {r1, r2, r3}
  EmailKey <- OneCase
  Activity <- Distinct
  Truncated = {}
  Interruptible = {e1, r1, r2, r3}
  Verdicts = {"ready", "questions", "blockers", "failed"}
  Intents = {"information", "confirm", "chat"}
  Forms = {"plain", "resolve"}
  Numbers = {n1}
  MaxCases = 1
  MaxTurns = 3
  MaxPending = 1
  MaxReceipts = 2
CHECK_DEADLOCK FALSE
SYMMETRY Symmetry
INVARIANTS EffectsOnce ClosedSettled QueueAttended IndexValid
PROPERTIES WritesClaimed ClosesOnAnswered
