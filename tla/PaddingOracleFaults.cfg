CONSTANTS
  BlockSize = 2
  Radix = 4
  QueryCap = 2
  ReplyCap = 4
  Xor <- MCXor
  Ciphertexts <- MCCiphertexts
  Keys <- MCKeys
  Previous <- MCPrevious
  Faults <- AllFaults
SPECIFICATION FairSpec
INVARIANTS RecoveredIsRight NotFoundOnlyOnLoss FramesAgree NeverWaitsForRoom
PROPERTIES BothEnd ImplementsRecovery
