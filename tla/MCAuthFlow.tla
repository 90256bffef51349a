----------------------------- MODULE MCAuthFlow -----------------------------
(* Two requests at a time, two of everything that is drawn. *)
EXTENDS AuthFlow, TLC

CONSTANTS w1, w2, i1, i2, e1, e2, k1, k2, c1, c2, s1, s2

TwoWorkers    == {w1, w2}
TwoIds        == {i1, i2}
TwoEmails     == {e1, e2}
TwoKeys       == {k1, k2}
TwoChallenges == {c1, c2}
TwoSessions   == {s1, s2}
AllFaults     == {"death", "expiry", "reset"}
NoFaults      == {}

AuthSymmetry ==
  Permutations(Workers) \cup Permutations(Ids) \cup Permutations(Emails) \cup
  Permutations(Keys) \cup Permutations(Challenges) \cup Permutations(Sessions)
=============================================================================
