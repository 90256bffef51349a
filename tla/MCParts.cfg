\* Shoes that are made on demand and run out, hands, mail, documents, and the page.
CONSTANTS
  t1 = t1
  t2 = t2
  c1 = c1
  c2 = c2
  c3 = c3
  c4 = c4
  q1 = q1
  q2 = q2
  q3 = q3
  m1 = m1
  u1 = u1
  own = own
  other = other
  p1 = p1
  k1 = k1
  k2 = k2
  Tables <- TwoTables
  FullShoe <- FourCards
  Requests <- ThreeRequests
  Counts <- SomeCounts
  Capacity = 3
  Ranks <- MCRanks
  MaxCards = 6
  Mails <- OneMail
  Users <- OneUser
  Addresses <- TwoAddresses
  AddressOf <- Home
  NoAddress = NoAddress
  LineCounts <- SomeLines
  NameLines <- SomeNames
  CellCounts <- SomeCells
  RowCounts <- MCRowCounts
  MaxBlocks = 2
  MaxChars = 7
  Players <- OnePlayer
  Demo = Demo
  Nobody = Nobody
  Calls <- TwoCalls
  Refill = 1
  MaxAmount = 1
  MaxMoves = 1
  MaxEvents = 1
  Owners <- ThreeOwners
  MaxRequests = 2
  TableIds <- TwoGames
  NoTable = NoTable
  MaxRounds = 2
  MaxHands = 3
  MaxPending = 2
  MinBet = 2
  MaxBet = 3
  InitialBet = 2
  QuickAmounts <- TwoChips
  StartingChips = 2
  RestockAmount = 2
  MaxFunds = 5
  Unknown = Unknown
SPECIFICATION PartsSpec
CHECK_DEADLOCK FALSE
INVARIANTS
  
  BestTotal
  EvaluatorsAgree
  SentAsTierDemands
  AnswerIsTrue
  TableInPlace
  RowReadBack
  BalanceShown
  OneDeposit
  OfferedChips
  StatementOfOwner
  RoundsOnce
PROPERTIES
  BetAsAsked
