\* Two settlements of one bet at the same time.
CONSTANTS
  alice = alice
  demo = demo
  r1 = r1
  r2 = r2
  r3 = r3
  r4 = r4
  Players <- MCPlayers
  Demo = demo
  Reqs <- ThreeReqs
  Amounts <- MCStakes
  Openings <- Default
  Results <- TwoResults
  Ops <- BetOps
  StartingBalance = 4
  Serial = FALSE
SPECIFICATION Spec
SYMMETRY ReqSymmetry
INVARIANT SettledOnce
