CONSTANTS
  c1 = c1
  c2 = c2
  None = None
  Callers <- OneCaller
  MaxRuns = 1
  MaxEpoch = 1
  EventCapacity = 1
  Deadlines = FALSE
  DisableReconnect = FALSE
  Listening = TRUE
SPECIFICATION FairSpec
 
PROPERTY CloseCompletes
PROPERTY TerminalDelivered
PROPERTY LogoutReturns
