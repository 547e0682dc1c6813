SPECIFICATION Spec
CONSTANTS
  Records = {r1, r2}
  System = "servicenow"
  Limit = 1
  Ties = FALSE
  AgentWrites = FALSE
  UserinfoFails = FALSE
  MaxChanges = 2
  MaxClock = 2
  MaxFaults = 0
CHECK_DEADLOCK FALSE
PROPERTIES Caught
