CONSTANTS
  BlockSize = 4
  WordSize = 64
  MaxAad = 5
  MaxText = 17
  MaxChunk = 9
  CounterSize = 4
SPECIFICATION Spec
INVARIANTS OutIsCounterMode KeystreamIsFresh TagCoversOut
PROPERTY NothingAfterTag
