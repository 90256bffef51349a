------------------------------- MODULE Cards -------------------------------
(***************************************************************************)
(* Cards and hands as the rules of the game see them: a card is its value, *)
(* an ace 1, and a hand is what the rules ask of it.  Nothing depends on   *)
(* more than five cards or on how far a hand is above 21, so both are      *)
(* capped.  Hands checks that this abstraction is exact.                   *)
(***************************************************************************)
EXTENDS Integers

Hand == [n: 0..5, sum: 0..22, ace: BOOLEAN]
NoHand == [n |-> 0, sum |-> 0, ace |-> FALSE]

Capped(m, cap) == IF m > cap THEN cap ELSE m

Add(h, card) ==
  [n |-> Capped(h.n + 1, 5), sum |-> Capped(h.sum + card, 22), ace |-> h.ace \/ card = 1]

\* An ace counts 11 unless that busts the hand.
Value(h) == IF h.ace /\ h.sum <= 11 THEN h.sum + 10 ELSE h.sum

NoCard == -1
Hidden == 0      \* rank "hidden": worth nothing

=============================================================================
