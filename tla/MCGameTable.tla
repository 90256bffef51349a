---------------------------- MODULE MCGameTable ----------------------------
(***************************************************************************)
(* Small instances of GameTable for TLC: aces, sixes and tens make         *)
(* naturals, soft and hard 17, 21 with three cards, busts and five cards.  *)
(***************************************************************************)
EXTENDS GameTable, TLC

CONSTANTS g1, g2, g3, g4

ThreeActions == {g1, g2, g3}
FourActions  == {g1, g2, g3, g4}
AceSixTen    == {1, 6, 10}
TensOnly     == {10}
LowWager     == {1}
EvaluatorOut == {"evaluator"}
TableFaults  == {"deck", "lost", "down", "crash"}

\* Goroutines are interchangeable in safety properties.
ActionSymmetry == Permutations(Goroutines)
=============================================================================
