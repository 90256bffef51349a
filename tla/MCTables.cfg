\* A player's table: money and progress; the demo's loop, paused and resumed by
\* two requests: progress, whatever fails.
CONSTANTS
  g1 = g1
  g2 = g2
  g3 = g3
  x1 = x1
  x2 = x2
  Goroutines <- ThreeActions
  Ranks <- AceSixTen
  MinBet = 2
  MaxBet = 4
  StartingChips = 4
  Wagers <- LowWager
  Patient = TRUE
  Faults <- NoFaults
  DemoRanks <- SixAndTen
  DemoChips = 4
  MaxMoney = 8
  DemoFaults <- ServicesFail
  Togglers <- TwoTogglers
  MaxRestarts = 1
SPECIFICATION TablesSpec
CHECK_DEADLOCK FALSE
INVARIANTS
  ChipsAreBalance
  NothingOwed
PROPERTIES
  HandGoesOn
  DemoGoesOn
