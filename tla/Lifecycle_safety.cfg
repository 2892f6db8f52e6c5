CONSTANTS
  c1 = c1
  c2 = c2
  None = None
  Callers <- TwoCallers
  MaxRuns = 3
  MaxEpoch = 1
  EventCapacity = 0
  Listening = FALSE
  Deadlines = TRUE
  DisableReconnect = FALSE
SPECIFICATION Spec
SYMMETRY Symmetry
INVARIANT OneLiveRun
INVARIANT NoRunLeaked
 
INVARIANT SessionHasDriver
INVARIANT MonitorReadsOwnError
