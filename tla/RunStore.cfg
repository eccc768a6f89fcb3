SPECIFICATION FairSpec
CONSTANTS
  Clients = {a, b}
  NoClient = NoClient
  Runs = {r, s}
  Ops <- UsedOps
  DriverMoves <- Forward
  MaxCalls = 2
INVARIANTS TypeOK Gapless TruthfulReports CausesPrecede NoEventTwice
PROPERTIES AdvanceIsFresh ImplementsLedger EveryCallEnds
CHECK_DEADLOCK FALSE
