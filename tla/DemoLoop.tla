------------------------------ MODULE DemoLoop ------------------------------
(***************************************************************************)
(* The demo table (game-state/main.go: runDemoLoop and its five phases):   *)
(* one goroutine that plays hand after hand for the demo player, and the   *)
(* flag that pauses it.                                                    *)
(*                                                                         *)
(* A step is the code between two calls of a service or two sleeps.        *)
(* Actions of a client on this table are acknowledged and not processed,   *)
(* so that nobody but the loop writes to it.  Cards and hands are those of *)
(* module Cards.  The bank is a service whose operations are atomic, and   *)
(* which has the one open bet the table knows of, if any; money is counted *)
(* in quarters of the hand's bet, and not above MaxMoney.                  *)
(*                                                                         *)
(* A definition followed by its namesake (DemoBetOrSkip before DemoBet) is *)
(* a mutation of it, used only to see that a property would notice it.     *)
(***************************************************************************)
EXTENDS Cards

CONSTANTS
  DemoRanks,    \* values of the cards in the deck
  DemoChips,    \* starting chips, the deposit, and the bank's replenishment: 1000
  MaxMoney,     \* bound of the money counted
  DemoFaults,   \* what may go wrong around the loop
  Togglers,     \* requests to pause or resume that may be in flight together
  MaxRestarts   \* bound of the restarts of the process

HandBet == 4

ASSUME DemoAssumption ==
  /\ DemoRanks \subseteq 1..10
  /\ DemoChips \in Nat /\ MaxMoney \in Nat /\ HandBet <= DemoChips /\ DemoChips <= MaxMoney
  /\ DemoFaults \subseteq {"deck", "evaluator", "garbled", "bank", "lost"}
  /\ MaxRestarts \in Nat

VARIABLES
  loopStep,    \* what the loop does next
  demoPhase,   \* Table.state: phase, player and dealer
  demoPlayer,
  demoDealer,
  dealt,       \* the cards fetched for the deal
  demoFunds,   \* the demo player's balance at the bank
  demoPaused,  \* the flag
  toggles,     \* what each request has found it to be
  restarts     \* so far

demoTable == <<demoPhase, demoPlayer, demoDealer>>
demoVars  == <<loopStep, demoTable, dealt, demoFunds, demoPaused, toggles, restarts>>
outside   == <<demoPaused, toggles, restarts>>

NewDemoPlayer ==
  [hand |-> NoHand, value |-> 0, status |-> "waiting", chips |-> DemoChips, tx |-> FALSE]
NewDemoDealer == [hand |-> NoHand, value |-> 0]
NoDeal        == [own |-> <<>>, up |-> Hidden]

-----------------------------------------------------------------------------
(* The services *)

InCase(fault, values) == IF fault \in DemoFaults THEN values ELSE {}

\* callDeckService: without an answer the loop has a card of its own.
DemoDeck(fallback) == DemoRanks \cup InCase("deck", {fallback})

\* callHandEvaluator: out of reach, the value is estimated and no bust
\* reported; an answer that does not decode is the zero result.
DemoEvaluations(h) ==
  {[value |-> Value(h), bust |-> Value(h) > 21]}
    \cup InCase("evaluator", {[value |-> Value(h), bust |-> FALSE]})
    \cup InCase("garbled", {[value |-> 0, bust |-> FALSE]})

Credited(sum, amount) == Capped(sum + amount, MaxMoney)

\* What becomes of a call of the bank: done and answered, done and the answer
\* lost, or not done.
BankAnswers == {"done"} \cup InCase("lost", {"lost"}) \cup InCase("bank", {"refused", "down"})

-----------------------------------------------------------------------------
(* The phases *)

\* The loop looks at the flag where a phase begins, and nowhere else.
Begins(phase) == loopStep = phase /\ ~ demoPaused

\* phaseBetting: the player's fields are shared with the table, so that they
\* show before the phase does.
PhaseBetting ==
  /\ Begins("betting")
  /\ demoPlayer' = [demoPlayer EXCEPT !.hand = NoHand, !.value = 0, !.status = "betting"]
  /\ loopStep' = IF demoPlayer.chips < HandBet THEN "deposit" ELSE "bet"
  /\ UNCHANGED <<demoPhase, demoDealer, dealt, demoFunds, outside>>

\* callBankDeposit: a refusal reads as a balance of zero.
AutoReplenish ==
  /\ loopStep = "deposit"
  /\ \E answer \in BankAnswers :
       /\ demoFunds' = IF answer \in {"done", "lost"} THEN Credited(demoFunds, DemoChips) ELSE demoFunds
       /\ demoPlayer' =
            [demoPlayer EXCEPT !.chips = CASE answer = "done"    -> demoFunds'
                                           [] answer = "refused" -> 0
                                           [] OTHER              -> @]
  /\ loopStep' = "bet"
  /\ UNCHANGED <<demoPhase, demoDealer, dealt, outside>>

\* A bet that failed begins the next hand.
DemoBetOrSkip ==
  /\ loopStep = "bet"
  /\ \E answer \in BankAnswers :
       LET before == IF demoFunds < HandBet THEN DemoChips ELSE demoFunds
           after  == before - HandBet
       IN  /\ demoFunds' = IF answer \in {"done", "lost"} THEN after ELSE demoFunds
           /\ demoPlayer' = IF answer = "done"
                            THEN [demoPlayer EXCEPT !.tx = TRUE, !.chips = after] ELSE demoPlayer
           /\ loopStep' = IF answer = "done" THEN "dealing" ELSE "betting"
  /\ demoPhase' = "betting" /\ demoDealer' = NewDemoDealer
  /\ UNCHANGED <<dealt, outside>>

\* callBankBet; the bank replenishes the demo player itself.  A bet that
\* failed skips nothing.
DemoBet ==
  /\ loopStep = "bet"
  /\ \E answer \in BankAnswers :
       LET before == IF demoFunds < HandBet THEN DemoChips ELSE demoFunds
           after  == before - HandBet
       IN  /\ demoFunds' = IF answer \in {"done", "lost"} THEN after ELSE demoFunds
           /\ demoPlayer' = IF answer = "done"
                            THEN [demoPlayer EXCEPT !.tx = TRUE, !.chips = after] ELSE demoPlayer
  /\ demoPhase' = "betting" /\ demoDealer' = NewDemoDealer
  /\ loopStep' = "dealing"
  /\ UNCHANGED <<dealt, outside>>

\* phaseDealing: four cards at once; the hole card is drawn again when it is
\* revealed.
PhaseDealing ==
  /\ Begins("dealing")
  /\ \E first, second, up \in DemoRanks : dealt' = [own |-> <<first, second>>, up |-> up]
  /\ demoPhase' = "dealing"
  /\ demoPlayer' = [demoPlayer EXCEPT !.status = "playing", !.hand = NoHand]
  /\ demoDealer' = NewDemoDealer
  /\ loopStep' = "first"
  /\ UNCHANGED <<demoFunds, outside>>

FirstCard ==
  /\ loopStep = "first"
  /\ demoPlayer' = [demoPlayer EXCEPT !.hand = Add(NoHand, dealt.own[1])]
  /\ loopStep' = "up"
  /\ UNCHANGED <<demoPhase, demoDealer, dealt, demoFunds, outside>>

UpCard ==
  /\ loopStep = "up"
  /\ LET h == Add(NoHand, dealt.up) IN demoDealer' = [hand |-> h, value |-> Value(h)]
  /\ loopStep' = "second"
  /\ UNCHANGED <<demoPhase, demoPlayer, dealt, demoFunds, outside>>

SecondCard ==
  /\ loopStep = "second"
  /\ LET h == Add(demoPlayer.hand, dealt.own[2])
     IN  \E result \in DemoEvaluations(h) :
           demoPlayer' = [demoPlayer EXCEPT !.hand = h, !.value = result.value]
  /\ dealt' = NoDeal
  /\ loopStep' = "player_turn"
  /\ UNCHANGED <<demoPhase, demoDealer, demoFunds, outside>>

\* phasePlayerTurn: the player hits once, whatever the hand.
PhasePlayerTurn ==
  /\ Begins("player_turn")
  /\ demoPhase' = "player_turn"
  /\ loopStep' = "hit"
  /\ UNCHANGED <<demoPlayer, demoDealer, dealt, demoFunds, outside>>

HitOnce ==
  /\ loopStep = "hit"
  /\ \E card \in DemoDeck(5) :
       LET h == Add(demoPlayer.hand, card)
       IN  \E result \in DemoEvaluations(h) :
             demoPlayer' = [demoPlayer EXCEPT !.hand = h, !.value = result.value,
                                              !.status = IF result.bust THEN "bust" ELSE "standing"]
  /\ loopStep' = "dealer_turn"
  /\ UNCHANGED <<demoPhase, demoDealer, dealt, demoFunds, outside>>

PhaseDealerTurn ==
  /\ Begins("dealer_turn")
  /\ demoPhase' = "dealer_turn"
  /\ loopStep' = "reveal"
  /\ UNCHANGED <<demoPlayer, demoDealer, dealt, demoFunds, outside>>

Dealt(card) ==
  LET h == Add(demoDealer.hand, card)
  IN  \E result \in DemoEvaluations(h) : demoDealer' = [hand |-> h, value |-> result.value]

RevealHole ==
  /\ loopStep = "reveal"
  /\ \E card \in DemoDeck(7) : Dealt(card)
  /\ loopStep' = "draw"
  /\ UNCHANGED <<demoPhase, demoPlayer, dealt, demoFunds, outside>>

\* dealer-ai is asked, and its answer not used.
DealerHits ==
  /\ loopStep = "draw" /\ demoDealer.value < 17
  /\ \E card \in DemoDeck(3) : Dealt(card)
  /\ UNCHANGED <<loopStep, demoPhase, demoPlayer, dealt, demoFunds, outside>>

DealerStands ==
  /\ loopStep = "draw" /\ demoDealer.value >= 17
  /\ loopStep' = "payout"
  /\ UNCHANGED <<demoTable, dealt, demoFunds, outside>>

\* phasePayout, in the order of its conditions.
DemoOutcome ==
  LET natural(value, h) == value = 21 /\ h.n = 2
      own    == natural(demoPlayer.value, demoPlayer.hand)
      theirs == natural(demoDealer.value, demoDealer.hand)
  IN  CASE demoPlayer.status = "bust"              -> "loss"
        [] demoPlayer.status # "bust" /\ own /\ theirs -> "push"
        [] demoPlayer.status # "bust" /\ own /\ ~ theirs -> "blackjack"
        [] OTHER -> IF demoDealer.value > 21 \/ demoPlayer.value > demoDealer.value THEN "win"
                    ELSE IF demoPlayer.value = demoDealer.value THEN "push" ELSE "loss"

DemoReturn == [win |-> 2 * HandBet, push |-> HandBet, blackjack |-> (5 * HandBet) \div 2, loss |-> 0]
DemoStatus == [win |-> "won", push |-> "push", blackjack |-> "blackjack", loss |-> "lost"]

\* The id is dropped whatever the bank answers.
PhasePayout ==
  /\ Begins("payout")
  /\ \E answer \in IF demoPlayer.tx THEN BankAnswers ELSE {"none"} :
       /\ demoFunds' = IF answer \in {"done", "lost"}
                       THEN Credited(demoFunds, DemoReturn[DemoOutcome]) ELSE demoFunds
       /\ demoPlayer' =
            [demoPlayer EXCEPT !.tx = FALSE, !.status = DemoStatus[DemoOutcome],
                               !.chips = IF answer = "done" THEN demoFunds' ELSE @]
  /\ demoPhase' = "payout"
  /\ loopStep' = "reset"
  /\ UNCHANGED <<demoDealer, dealt, outside>>

ResetToWaiting ==
  /\ loopStep = "reset"
  /\ demoPhase' = "waiting"
  /\ demoPlayer' = [demoPlayer EXCEPT !.status = "waiting"]
  /\ loopStep' = "betting"
  /\ UNCHANGED <<demoDealer, dealt, demoFunds, outside>>

-----------------------------------------------------------------------------
(* POST /demo/pause *)

\* The flag is loaded by one operation ...
LoadFlag(r) ==
  /\ toggles[r] = "none"
  /\ toggles' = [toggles EXCEPT ![r] = IF demoPaused THEN "paused" ELSE "running"]
  /\ UNCHANGED <<loopStep, demoTable, dealt, demoFunds, demoPaused, restarts>>

\* ... and stored by another.
StoreFlag(r) ==
  /\ toggles[r] # "none"
  /\ demoPaused' = (toggles[r] = "running")
  /\ toggles' = [toggles EXCEPT ![r] = "none"]
  /\ UNCHANGED <<loopStep, demoTable, dealt, demoFunds, restarts>>

\* main, once more: NewTable does not understand the balance it asks for.
RestartDemo ==
  /\ restarts < MaxRestarts
  /\ restarts' = restarts + 1
  /\ loopStep' = "betting"
  /\ demoPhase' = "waiting" /\ demoPlayer' = NewDemoPlayer /\ demoDealer' = NewDemoDealer
  /\ dealt' = NoDeal
  /\ demoPaused' = FALSE /\ toggles' = [r \in Togglers |-> "none"]
  /\ UNCHANGED demoFunds

-----------------------------------------------------------------------------
\* The loop before its first hand.
BeforeTheFirst ==
  /\ loopStep = "betting"
  /\ demoPhase = "waiting" /\ demoPlayer = NewDemoPlayer /\ demoDealer = NewDemoDealer
  /\ dealt = NoDeal
  /\ demoFunds = DemoChips
  /\ toggles = [r \in Togglers |-> "none"]
  /\ restarts = 0

DemoInit == BeforeTheFirst /\ demoPaused = FALSE

LoopMoves ==
  \/ PhaseBetting \/ AutoReplenish \/ DemoBet
  \/ PhaseDealing \/ FirstCard \/ UpCard \/ SecondCard
  \/ PhasePlayerTurn \/ HitOnce
  \/ PhaseDealerTurn \/ RevealHole \/ DealerHits \/ DealerStands
  \/ PhasePayout \/ ResetToWaiting

DemoNext ==
  \/ LoopMoves
  \/ \E r \in Togglers : LoadFlag(r) \/ StoreFlag(r)
  \/ RestartDemo

\* The goroutine waits for clients with a timeout and for sleeps only.
DemoFairness == WF_demoVars(LoopMoves)

DemoSpec == DemoInit /\ [][DemoNext]_demoVars /\ DemoFairness

-----------------------------------------------------------------------------
\* Whatever the deck and the bank do, a refused bet included, and wherever in
\* a hand the pause came: once nobody pauses the loop any more, hand after
\* hand is paid out.
DemoGoesOn == <>[](~ demoPaused) => []<>(demoPhase = "payout")
=============================================================================
