SPECIFICATION Spec
CONSTANTS
  Callers = {a, b}
  x = x
  Files <- SomeFiles
  Ignored <- SomeIgnored
  Links <- SomeLinks
  Directories <- SomeDirectories
  Requests <- AllRequests
  Empty = Empty
  None = None
  Exclusive = TRUE
  Faults = {"operation", "restore", "crash"}
  MaxCalls = 1
INVARIANTS NoTempLeft
PROPERTIES  ChangesWhatItNames
CHECK_DEADLOCK FALSE
