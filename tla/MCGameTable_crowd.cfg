\* Goroutines that overlap on the table all end, also without the evaluator.
CONSTANTS
  g1 = g1
  g2 = g2
  g3 = g3
  g4 = g4
  Goroutines <- ThreeActions
  Ranks <- TensOnly
  MinBet = 2
  MaxBet = 4
  StartingChips = 2
  Wagers <- LowWager
  Patient = FALSE
  Faults <- EvaluatorOut
SPECIFICATION FairSpec
CHECK_DEADLOCK FALSE
PROPERTIES
  GoroutinesEnd
