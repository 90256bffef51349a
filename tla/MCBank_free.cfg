\* Callers that do not wait: three requests, every operation, any interleaving.
CONSTANTS
  alice = alice
  demo = demo
  r1 = r1
  r2 = r2
  r3 = r3
  r4 = r4
  Players <- MCPlayers
  Demo = demo
  Reqs <- ThreeReqs
  Amounts <- MCAmounts
  Openings <- InDebt
  Results <- AllResults
  Ops <- AllOps
  StartingBalance = 4
  Serial = FALSE
SPECIFICATION Spec
SYMMETRY ReqSymmetry
INVARIANTS
  NoOverdraft
  StatementCurrent
  RowsAddUp
  OpenBetsUnsettled
  
PROPERTIES
  NoUnrecordedMoney
