------------------------------- MODULE Hands -------------------------------
(***************************************************************************)
(* The value of a hand is computed in four places: the hand evaluator      *)
(* (Haskell), the dealer service (Python), the fallback of the game state  *)
(* service (Go) and module Cards of this development.  Here a hand grows   *)
(* card by card, and the computations are compared with each other and     *)
(* with a definition that says what a total is.                            *)
(*                                                                         *)
(* A card is its value: 1 for an ace, 10 also for the court cards, Hidden  *)
(* for the dealer's second card as long as it is face down.                *)
(*                                                                         *)
(* A definition followed by its namesake (AcesUsedOnce before AcesUsed)    *)
(* is a mutation of it, used only to see that a property would notice it.  *)
(***************************************************************************)
EXTENDS Cards, SequencesExt

CONSTANTS Ranks, MaxCards

ASSUME HandsAssumption == Ranks \subseteq 0..10 /\ MaxCards \in Nat

VARIABLE hand

-----------------------------------------------------------------------------
(* hand-evaluator/Main.hs *)

RankValue(card) == IF card = 1 THEN 11 ELSE card

RawTotal(cards) == FoldLeft(LAMBDA sum, card : sum + RankValue(card), 0, cards)

Aces(cards) == Cardinality({i \in DOMAIN cards : cards[i] = 1})

ReduceAcesEager(total, aces) ==
  IF aces > 0 /\ total >= 21 THEN [total |-> total - 10, used |-> 1]
                             ELSE [total |-> total, used |-> 0]

\* reduceAces
ReduceAces(total, aces) ==
  LET reduce[s \in [total : Nat, aces : Nat, used : Nat]] ==
        IF s.aces > 0 /\ s.total > 21
          THEN reduce[[total |-> s.total - 10, aces |-> s.aces - 1, used |-> s.used + 1]]
          ELSE [total |-> s.total, used |-> s.used]
  IN  reduce[[total |-> total, aces |-> aces, used |-> 0]]

EvaluateHand(cards) ==
  LET reduced == ReduceAces(RawTotal(cards), Aces(cards)) IN
  [value       |-> reduced.total,
   isSoft      |-> reduced.used < Aces(cards) /\ reduced.total <= 21,
   isBlackjack |-> reduced.total = 21 /\ Len(cards) = 2,
   isBust      |-> reduced.total > 21]

-----------------------------------------------------------------------------
(* dealer-ai/main.py *)

\* The loop over the cards.
TallyCard(tally, card) ==
  IF card = Hidden THEN tally
  ELSE [total |-> tally.total + RankValue(card), aces |-> tally.aces + (IF card = 1 THEN 1 ELSE 0)]

NoTally == [total |-> 0, aces |-> 0]

Tally(cards) == FoldLeft(TallyCard, NoTally, cards)

AcesUsedOnce(total, aces) == IF total > 21 /\ aces > 0 THEN 1 ELSE 0

\* The while loop of evaluate_hand stops at the first count that suits.
AcesUsed(total, aces) ==
  CHOOSE used \in 0..aces :
    /\ total - 10 * used <= 21 \/ used = aces
    /\ \A fewer \in 0..used-1 : total - 10 * fewer > 21

\* evaluate_hand
DealerTotal(cards) ==
  LET tally == Tally(cards)
      used  == AcesUsed(tally.total, tally.aces) IN
  [total |-> tally.total - 10 * used,
   soft  |-> used < tally.aces /\ tally.total - 10 * used <= 21]

\* dealer_decision
Decision(cards) ==
  LET d == DealerTotal(cards) IN
  CASE d.total > 21                                -> "bust"
    [] d.total < 17 \/ (d.total = 17 /\ d.soft)    -> "hit"
    [] d.total \in 17..21 /\ ~(d.total = 17 /\ d.soft) -> "stand"

-----------------------------------------------------------------------------
(* game-state/main.go *)

\* estimateValue
EstimateValue(cards) ==
  LET estimate[n \in 0..Len(cards)] ==      \* the loop, with n aces left
        [total \in 0..RawTotal(cards) |->
           IF n > 0 /\ total > 21 THEN estimate[n-1][total - 10] ELSE total]
  IN estimate[Aces(cards)][RawTotal(cards)]

\* The condition of the loop in runDealerTurnPlayer.
LoopDraws(cards) == EvaluateHand(cards).value < 17

-----------------------------------------------------------------------------
NoCards == hand = <<>>

Grow ==
  /\ Len(hand) < MaxCards
  /\ \E card \in Ranks : hand' = Append(hand, card)

HandsSpec == NoCards /\ [][Grow]_hand

-----------------------------------------------------------------------------
(* What a total is: each ace counts 1 or 11; the best total is the largest
   that is not bust, or the smallest of all. *)

Low(cards) == FoldLeft(LAMBDA sum, card : sum + card, 0, cards)

Totals(cards) == {Low(cards) + 10 * high : high \in 0..Aces(cards)}

IsBest(total, cards) ==
  /\ total \in Totals(cards)
  /\ IF total <= 21 THEN \A other \in Totals(cards) : other <= total \/ other > 21
                    ELSE \A other \in Totals(cards) : total <= other

\* evaluateHand returns the best total of every hand.
BestTotal == IsBest(EvaluateHand(hand).value, hand)

\* The three services give every hand the same value, hidden cards included,
\* and the two that say so agree on which hands are soft.
ValuesAgree ==
  LET hr == EvaluateHand(hand) IN
  /\ DealerTotal(hand) = [total |-> hr.value, soft |-> hr.isSoft]
  /\ EstimateValue(hand) = hr.value

\* Cards.Value is the value, capped, of the hand that Add has put together.
SummaryExact ==
  LET h == FoldLeft(Add, NoHand, hand)
      hr == EvaluateHand(hand) IN
  /\ Value(h) = Capped(hr.value, 22)
  /\ h.n = Capped(Len(hand), 5)
  /\ hr.isSoft <=> h.ace /\ Value(h) # h.sum

\* The dealer service and the loop that does not listen to it differ on soft
\* 17 only.
DealersDifferOnSoft17 ==
  (Decision(hand) = "hit") # LoopDraws(hand) <=>
    EvaluateHand(hand).value = 17 /\ EvaluateHand(hand).isSoft

\* Whichever service is asked, or computes for itself when another is out of reach,
\* a hand has one value, and the dealer plays it the same way but for soft 17.
EvaluatorsAgree == ValuesAgree /\ SummaryExact /\ DealersDifferOnSoft17

=============================================================================
