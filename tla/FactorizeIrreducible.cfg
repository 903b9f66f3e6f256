CONSTANTS
  Width = 2
  Reduction = {0, 1}
SPECIFICATION Spec
INVARIANT SearchGoesOn
