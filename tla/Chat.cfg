SPECIFICATION LiveSpec
CONSTANTS
  c1 = c1  c2 = c2  a1 = a1  a2 = a2  h1 = h1  h2 = h2  h3 = h3  x1 = x1
  None = None
  Chats = {c1}
  Activities = {a1, a2}
  Handlers = {h1, h2}
  Removals = {x1}
  ChatOf <- OneChat
  MaxTasks = 1
  HistoryLimit = 1
  MaxFaults = 1
CHECK_DEADLOCK FALSE
PROPERTIES LateSuppressed EverythingEnds
INVARIANTS ForgottenStays ActivityOnce ResultsSaved TasksTrue Quiet
