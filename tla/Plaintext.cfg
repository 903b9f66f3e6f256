CONSTANTS
  BlockSize = 3
  Radix = 4
  QueryCap = 2
  ReplyCap = 4
  Xor <- MCXor
  Ciphertexts <- MCCiphertexts
  Keys <- SomeKeys
  Previous <- MCPrevious
  Faults <- AllFaults
  Texts <- MCTexts
SPECIFICATION AttackSpec
INVARIANT ClearIsRight
PROPERTY RecoversText
