CONSTANTS
  Byte = {0, 1}
  Widths <- MCWidths
  Order = "little"
  SizeMod = 8
  Cap = 3
  Faults <- AllFaults
SPECIFICATION FairSpec
INVARIANTS ReceivedIsSent WholeNumbers
PROPERTIES Delivers BothEnd ImplementsStream
