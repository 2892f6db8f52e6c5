CONSTANTS
  s1 = s1
  s2 = s2
  s3 = s3
  None = None
  Calls <- ThreeCalls
  MessageOf <- Messages
  Follows <- Retry
  MaxUint64 = 2
  FirstCounters <- NearTheEnd
  WriteCapacity = 1
SPECIFICATION Spec
INVARIANT Answerable
INVARIANT PendingExact
INVARIANT SuccessIsReal
