------------------------------- MODULE MCBank -------------------------------
(***************************************************************************)
(* Small instances of Bank for TLC: the demo player and one registered     *)
(* player, stakes for which a second bet is not always covered.            *)
(***************************************************************************)
EXTENDS Bank, TLC

CONSTANTS alice, demo, r1, r2, r3, r4

MCPlayers == {alice, demo}
ThreeReqs == {r1, r2, r3}
FourReqs  == {r1, r2, r3, r4}

\* In mills.  35 is stored as 4 cents and taken as 3; -30 is stored as -3 cents
\* and taken as 3; 50 is more than the starting balance; 0 is refused.
MCAmounts   == {0, 35, 50, -30}
MCStakes    == {30}

\* In mills.  -1020 opens an account in debt: -102 cents, which DollarsToCents
\* reads back as -98.
InDebt      == {-1020}
TwoStakes   == {60}
Default     == {}

AllOps    == {"account", "bet", "payout", "deposit", "withdraw", "reset"}
AllResults == {"BLACKJACK", "WIN", "PUSH", "LOSS", "OTHER"}
TwoResults == {"WIN", "LOSS"}
BetOps     == {"account", "bet", "payout"}

\* Request ids are interchangeable in safety properties.
ReqSymmetry == Permutations(Reqs)
=============================================================================
