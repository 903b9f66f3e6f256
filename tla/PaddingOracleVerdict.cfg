CONSTANTS
  BlockSize = 2
  Radix = 4
  QueryCap = 2
  ReplyCap = 4
  Xor <- MCXor
  Ciphertexts <- MCCiphertexts
  Keys <- MCKeys
  Previous <- MCPrevious
  Faults <- NoFaults
SPECIFICATION Spec
INVARIANT PaddingVerdictIsSound
