CONSTANTS
  Width = 2
  Reduction = {0, 1}
  Polynomials <- Cubics
  Texts <- MCTexts
  Keys <- AKey
  Masks <- AMask
  Third <- AThird
  Fourth <- AFourth
SPECIFICATION Spec
INVARIANTS FactorsMultiply ZerosAreRight SomeDrawSplits AbortsOnForgeryOnly TagIsAuthentic
