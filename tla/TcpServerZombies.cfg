CONSTANTS
  Client = {c1, c2, c3}
  Parent = parent
  None = none
  Addresses <- MCAddresses
  Backlog = 1
  MaxChildren = 2
  Faults <- NoFaults
SPECIFICATION Spec
PROPERTY TurnedAwayOnlyWhenBusy
