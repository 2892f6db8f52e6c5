CONSTANTS
  MaxTokens = 5
  MaxSessions = 2
SPECIFICATION Spec
PROPERTY UpdateIsUsed
