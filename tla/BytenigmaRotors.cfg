CONSTANTS
  ByteSize = 4
  RotorChoices <- AllRotors
  MaxBytes = 17
SPECIFICATION Spec
INVARIANTS DocumentedNeverFails NeverToItself Decrypts Odometer IInv
