\* A table is created twice, watched twice and written by two goroutines;
\* dialogs whose requests are answered in any way and any order.
CONSTANTS
  c1 = c1
  c2 = c2
  b1 = b1
  b2 = b2
  g1 = g1
  g2 = g2
  t1 = t1
  t2 = t2
  None = None
  Creators <- TwoCreators
  Watchers <- TwoWatchers
  Writers <- TwoWriters
  Tables <- TwoTables
  Capacity = 1
  MaxWrites = 2
  MaxFetches = 2
SPECIFICATION WaitsSpec
CHECK_DEADLOCK FALSE
INVARIANTS
  OneTable
  NoSendOnClosed
  CaughtUp
  FormFits
PROPERTIES
  BroadcastEnds
  SignInEnds
