\* Callers that wait: one request per account at a time, every operation.
CONSTANTS
  alice = alice
  demo = demo
  r1 = r1
  r2 = r2
  r3 = r3
  r4 = r4
  Players <- MCPlayers
  Demo = demo
  Reqs <- FourReqs
  Amounts <- MCStakes
  Openings <- TwoStakes
  Results <- AllResults
  Ops <- AllOps
  StartingBalance = 4
  Serial = TRUE
SPECIFICATION Spec
SYMMETRY ReqSymmetry
INVARIANT RowsChain
PROPERTIES
  ImplementsAtomicBank
