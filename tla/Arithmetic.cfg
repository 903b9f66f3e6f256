CONSTANTS
  Width = 2
  Reduction = {0, 1}
  Polynomials <- Quadratics
  Blocks <- MCBlocks
  Factors <- MCFactors
  Fractions <- MCFractions
  Lists <- MCLists
  Powers <- MCPowers
  ModPowers <- MCModPowers
SPECIFICATION Spec
INVARIANTS DivisionIsRight GcdIsGreatest ValuesAreRight PowerIsRight BlocksAreRight QuotientsAreRight
PROPERTY RoundsShorten
CHECK_DEADLOCK FALSE
