CONSTANTS
  Byte = {0, 1}
  Widths <- MCWidths
  Order = "little"
  SizeMod = 8
  Cap = 3
  Faults <- AllFaults
SPECIFICATION Spec
PROPERTY ReadFailureThrows
