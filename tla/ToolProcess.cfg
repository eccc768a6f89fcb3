SPECIFICATION ProcessSpec
CONSTANTS
  leader = leader
  Procs = {leader, child, daemon}
  Leader = leader
  Stubborn = {leader, child}
  Detached = {daemon}
  Timeout = TRUE
  Stdins = {"none", "fits", "exceeds"}
INVARIANT TerminationReported
PROPERTY CallEnds
CHECK_DEADLOCK FALSE
