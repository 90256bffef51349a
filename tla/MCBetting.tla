----------------------------- MODULE MCBetting -----------------------------
(* The least bet, and chips for one of them. *)
EXTENDS Betting

TwoChips == {1, 2}
=============================================================================
