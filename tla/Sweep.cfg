SPECIFICATION AllSpec
CONSTANTS
  Records = {r1, r2}
  System = "salesforce"
  Limit = 1
  Ties = FALSE
  AgentWrites = TRUE
  UserinfoFails = FALSE
  MaxChanges = 2
  MaxClock = 3
  MaxFaults = 2
CHECK_DEADLOCK FALSE
INVARIANTS MarkHonest
PROPERTIES Caught
