\* Three connections: the first meets every frame, the others keep the budget busy.
CONSTANTS
  p1 = p1  p2 = p2  p3 = p3
  Callers <- ThreeConnections
  Impatient <- OnlyFirst
  FramesOf <- FewFrames
  NativesOf <- SomeNatives
  ProvisionsOf <- SomeProvisions
  Inflate <- InflateByte
  ActionVersion <- Version
  SizeOf <- Sizes
  Limit = 127
  MaxInt = 127
  Amounts <- Weights
  MaxCodecInputBytes = 16
  MaxEnvelopeFields = 3
  MaxVarintLen = 3
  TinyInput = 3  SmallInput = 6  LargeInput = 12
  TinyBytes = 4  SmallBytes = 16  LargeBytes = 32  MaxBytes = 64
  MaxFrameCollectionItems = 2
  MaxSyncMetas = 2
  MaxSyncPayloadBytes = 6
  MaxSyncStringBytes = 8
  MaxSyncDirectedUsers = 3
  MaxSyncRetainedWeight = 104
  MaxJIDComponentBytes = 2
  MaxJIDBytes = 4
  Quantum = 2  Overhead = 1  SafetyFactor = 2  PageSize = 4
SPECIFICATION FairDecodeSpec
INVARIANTS NoLostWakeup FrameExact MemoryCovered LimitsExact
PROPERTY WaiterMovesOn
