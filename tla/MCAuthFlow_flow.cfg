\* From registration to session, with crashes, expiry and a reset.
CONSTANTS
  w1 = w1
  w2 = w2
  i1 = i1
  i2 = i2
  e1 = e1
  e2 = e2
  k1 = k1
  k2 = k2
  c1 = c1
  c2 = c2
  s1 = s1
  s2 = s2
  None = None
  Workers <- TwoWorkers
  Ids <- TwoIds
  Emails <- TwoEmails
  Keys <- TwoKeys
  Challenges <- TwoChallenges
  Sessions <- TwoSessions
  Faults <- AllFaults
SPECIFICATION Spec
SYMMETRY AuthSymmetry
CHECK_DEADLOCK FALSE
INVARIANTS
  OneAccountPerEmail
  ServedOnce
  VerifiedFirst
  SessionOfKeyHolder
PROPERTIES
  KeyStays
