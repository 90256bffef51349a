\* A patient client; the deck and the bank fail, replies are lost, the table crashes.
CONSTANTS
  g1 = g1
  g2 = g2
  g3 = g3
  g4 = g4
  Goroutines <- FourActions
  Ranks <- AceSixTen
  MinBet = 2
  MaxBet = 4
  StartingChips = 4
  Wagers <- LowWager
  Patient = TRUE
  Faults <- TableFaults
SPECIFICATION Spec
CHECK_DEADLOCK FALSE
SYMMETRY ActionSymmetry
INVARIANTS
  HandIsBacked
  OutcomeFair
PROPERTIES
  PhaseOrder
