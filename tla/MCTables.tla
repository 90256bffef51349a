------------------------------ MODULE MCTables ------------------------------
(***************************************************************************)
(* The two kinds of table in play: a player's, of a patient client and     *)
(* with services that answer, and the demo's loop, paused and resumed, and *)
(* with services that fail.  The tables have no variable in common, so one *)
(* of them moves while the other stays as it begins, the demo paused       *)
(* before its first hand.                                                  *)
(*                                                                         *)
(* Sixes and tens, and chips for one bet, for the demo.  An evaluator      *)
(* whose answers do not decode is left out: it keeps a dealer drawing for  *)
(* as long as it does.                                                     *)
(***************************************************************************)
EXTENDS GameTable, DemoLoop, TLC

CONSTANTS g1, g2, g3, x1, x2

ThreeActions == {g1, g2, g3}
AceSixTen    == {1, 6, 10}
LowWager     == {1}
NoFaults     == {}
SixAndTen    == {6, 10}
ServicesFail == {"deck", "evaluator", "bank", "lost"}
TwoTogglers  == {x1, x2}

VARIABLE part  \* the one that moves

TablesInit ==
  /\ part \in {"player", "demo"}
  /\ Init
  /\ BeforeTheFirst /\ demoPaused = (part = "player")

TablesNext ==
  /\ UNCHANGED part
  /\ \/ part = "player" /\ Next     /\ UNCHANGED demoVars
     \/ part = "demo"   /\ DemoNext /\ UNCHANGED vars

TablesSpec ==
  /\ TablesInit /\ [][TablesNext]_<<part, vars, demoVars>>
  /\ GoroutinesRun /\ DeckServiceAnswers
  /\ DemoFairness
=============================================================================
