SPECIFICATION Spec
CONSTANTS
  Clients = {a, b}
  NoClient = NoClient
  Runs = {r}
  Ops <- WritingOps
  DriverMoves <- ForwardAndFail
  MaxCalls = 2
PROPERTY TerminalStays
CHECK_DEADLOCK FALSE
