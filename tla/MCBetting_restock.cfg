\* A player who has lost everything takes the offer of new chips.
CONSTANTS
  MinBet = 2
  MaxBet = 3
  InitialBet = 2
  QuickAmounts <- TwoChips
  StartingChips = 2
  RestockAmount = 2
  MaxFunds = 5
  Unknown = Unknown
SPECIFICATION BettingSpec
INVARIANTS
  KeepsPlaying
