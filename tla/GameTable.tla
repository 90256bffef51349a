----------------------------- MODULE GameTable -----------------------------
(***************************************************************************)
(* A player's table (game-state/main.go).                                  *)
(*                                                                         *)
(* The action endpoint answers 202 and starts a goroutine that plays the   *)
(* action to its end: it calls the bank, the deck service and the hand     *)
(* evaluator, and sleeps so that the player can watch.  Several goroutines *)
(* may run on one table.  A step of this model is the code between two     *)
(* such calls or sleeps; pc[g] stands between two steps.                   *)
(*                                                                         *)
(* GetState copies the GameState struct, but the copy's Players slice has  *)
(* the same backing array: what a goroutine assigns to s.Players[0] is     *)
(* seen by all at once (variable player), while Phase and Dealer stay in   *)
(* its copy (local[g].s) until SetState writes them back (variable table), *)
(* over whatever another goroutine wrote there in the meantime.            *)
(*                                                                         *)
(* Cards and hands are those of module Cards.  The bank (modelled in Bank) *)
(* is here a service whose operations are atomic; it counts half dollars,  *)
(* as a blackjack pays 3:2.                                                *)
(*                                                                         *)
(* A definition followed by its namesake (ValidInAny before ValidIn) is a  *)
(* mutation of it, used only to see that a property would notice it.       *)
(***************************************************************************)
EXTENDS Cards

CONSTANTS
  Goroutines,     \* the actions the table ever accepts, each a goroutine
  Ranks,          \* values of the cards in the deck
  MinBet, MaxBet, \* limits of the table
  StartingChips,  \* chips of a new table, and the account's first balance
  Wagers,         \* amounts that the client sends with a bet
  Patient,        \* TRUE: the client acts only when no goroutine runs
  Faults          \* what may go wrong outside of the table

ASSUME GameAssumption ==
  /\ Ranks \subseteq 1..10
  /\ MinBet \in Nat /\ MaxBet \in Nat /\ MinBet <= MaxBet
  /\ StartingChips \in Nat
  /\ Wagers \subseteq Int
  /\ Patient \in BOOLEAN
  /\ Faults \subseteq {"deck", "evaluator", "garbled", "lost", "down", "crash"}

VARIABLES
  table,    \* Table.state: phase and dealer
  player,   \* Table.state.Players[0]
  job,      \* the action each goroutine plays
  local,    \* the variables of each goroutine
  pc,       \* its next step
  balance,  \* the player's balance at the bank, in half dollars
  bets      \* the open bets at the bank: the stake of that with transaction id
            \* g, placed by goroutine g, and 0 where there is none

vars == <<table, player, job, local, pc, balance, bets>>

-----------------------------------------------------------------------------
(* The dealer *)

\* DealerState: Hand[1] apart from the other cards, as Reveal replaces it.
Dealer == [rest: Hand, hole: {NoCard, Hidden} \cup 1..10, value: 0..22]
NoDealer == [rest |-> NoHand, hole |-> NoCard, value |-> 0]

DealerHand(d) == IF d.hole = NoCard THEN d.rest ELSE Add(d.rest, d.hole)

Draw(d, card) ==
  IF d.rest.n > 0 /\ d.hole = NoCard
  THEN [d EXCEPT !.hole = card]
  ELSE [d EXCEPT !.rest = Add(d.rest, card)]

-----------------------------------------------------------------------------
(* The table and its surroundings *)

Phases   == {"waiting", "betting", "dealing", "player_turn", "dealer_turn", "payout"}
Statuses == {"waiting", "betting", "playing", "standing", "bust", "blackjack",
             "won", "lost", "push"}
Outcomes == {"win", "loss", "push", "blackjack"}

NoTx == "none"
NoReply == -1

\* The id of a bet is never empty.
ASSUME TxAssumption == NoTx \notin Goroutines

NewTable  == [phase |-> "waiting", dealer |-> NoDealer]
NewPlayer == [chips |-> StartingChips, bet |-> 0, hand |-> NoHand, value |-> 0,
              status |-> "waiting", tx |-> NoTx, tx2 |-> NoTx]
NoJob     == [action |-> "none", wager |-> 0]
NewLocal  == [s |-> NewTable, amount |-> 0, tx |-> NoTx, reply |-> NoReply,
              value |-> 0, bust |-> FALSE, outcome |-> "none"]

Possible(fault, values) == IF fault \in Faults THEN values ELSE {}

\* callDeckService: without an answer the caller has a card of its own.
Deck(fallback) == Ranks \cup Possible("deck", {fallback})

EvaluationsNoFlag(h) == {[value |-> Value(h), bust |-> FALSE]}

\* callHandEvaluator: out of reach, the table estimates the value but reports
\* no bust; an answer that does not decode gives the zero result.
Evaluations(h) ==
  {[value |-> Value(h), bust |-> Value(h) > 21]}
    \cup Possible("evaluator", {[value |-> Value(h), bust |-> FALSE]})
    \cup Possible("garbled", {[value |-> 0, bust |-> FALSE]})

\* The bank's reply as the table reads it: whole dollars.
Dollars(halves) == halves \div 2

\* What the bank pays back for a stake, in half dollars.
Returned(stake, outcome) ==
  CASE outcome = "win"       -> 4 * stake
    [] outcome = "push"      -> 2 * stake
    [] outcome = "blackjack" -> 5 * stake
    [] OTHER                 -> 0

Running(g) == pc[g] \notin {"idle", "done"}
Quiet == \A g \in Goroutines : ~Running(g)

Goto(g, step) == pc' = [pc EXCEPT ![g] = step]
Snapshot(g, s) == local' = [local EXCEPT ![g].s = s]

\* The goroutine returns, and its variables are gone.
End(g) ==
  /\ Goto(g, "done")
  /\ local' = [local EXCEPT ![g] = NewLocal]
  /\ job' = [job EXCEPT ![g] = NoJob]

-----------------------------------------------------------------------------
(* Actions arrive *)

ValidInAny(phase) == {"bet", "hit", "stand", "double"}

\* The actions that actionHandler and processPlayerAction take in a phase.
ValidIn(phase) ==
  CASE phase = "waiting"     -> {"bet"}
    [] phase = "player_turn" -> {"hit", "stand", "double"}
    [] OTHER                 -> {}

\* actionHandler: 202 and a goroutine.  A refused action (409) changes nothing,
\* and neither does "split", which is accepted and ignored.
Receive(g) ==
  /\ pc[g] = "idle"
  /\ Patient => Quiet
  /\ \E action \in ValidIn(table.phase), wager \in Wagers :
       job' = [job EXCEPT ![g] = [action |-> action, wager |-> wager]]
  /\ Goto(g, "start")
  /\ UNCHANGED <<table, player, local, balance, bets>>

Starts(g, action) ==
  /\ pc[g] = "start"
  /\ job[g].action = action
  /\ action \in ValidIn(table.phase)

\* processPlayerAction looks at the phase once more.
Ignore(g) ==
  /\ pc[g] = "start"
  /\ job[g].action \notin ValidIn(table.phase)
  /\ End(g)
  /\ UNCHANGED <<table, player, balance, bets>>

Stake(wager, chips) ==
  Capped(Capped(IF wager < MinBet THEN MinBet ELSE wager, MaxBet), chips)

\* playerBet, to the call of the bank.
StartBet(g) ==
  /\ Starts(g, "bet")
  /\ LET amount == Stake(job[g].wager, player.chips) IN
       IF amount > 0
       THEN /\ local' = [local EXCEPT ![g].s = table, ![g].amount = amount]
            /\ Goto(g, "bet")
            /\ UNCHANGED job
       ELSE End(g)
  /\ UNCHANGED <<table, player, balance, bets>>

\* playerHit, to the call of the deck service.
BeginHit(g) ==
  IF player.status = "playing"
  THEN /\ Snapshot(g, table)
       /\ Goto(g, "hit")
       /\ UNCHANGED job
  ELSE End(g)

StartHit(g) ==
  /\ Starts(g, "hit")
  /\ BeginHit(g)
  /\ UNCHANGED <<table, player, balance, bets>>

\* playerStand asks neither for the status nor for the dealer.
Stand(g) ==
  /\ Starts(g, "stand")
  /\ player' = [player EXCEPT !.status = "standing"]
  /\ Goto(g, "dealer")
  /\ UNCHANGED <<table, job, local, balance, bets>>

\* playerDouble, to the call of the bank; a player who is short of chips hits.
StartDouble(g) ==
  /\ Starts(g, "double")
  /\ IF player.status = "playing" /\ player.bet <= player.chips
     THEN /\ local' = [local EXCEPT ![g].amount = player.bet]
          /\ Goto(g, "double")
          /\ UNCHANGED job
     ELSE BeginHit(g)
  /\ UNCHANGED <<table, player, balance, bets>>

-----------------------------------------------------------------------------
(* The bank takes a bet *)

Accepts(amount) == balance >= 2 * amount

\* callBankBet.  The reply may be lost (a timeout of 5 seconds) after the bet
\* was placed; a refusal and a bank out of reach look the same.
CallBet(g) ==
  /\ pc[g] \in {"bet", "double"}
  /\ \/ /\ Accepts(local[g].amount)
        /\ balance' = balance - 2 * local[g].amount
        /\ bets' = [bets EXCEPT ![g] = local[g].amount]
        /\ \E tx \in {g} \cup Possible("lost", {NoTx}) :
             local' = [local EXCEPT ![g].tx = tx, ![g].reply = Dollars(balance')]
     \/ /\ ~Accepts(local[g].amount) \/ "down" \in Faults
        /\ local' = [local EXCEPT ![g].tx = NoTx]
        /\ UNCHANGED <<balance, bets>>
  /\ Goto(g, IF pc[g] = "bet" THEN "bet_reply" ELSE "double_reply")
  /\ UNCHANGED <<table, player, job>>

-----------------------------------------------------------------------------
(* playerBet: the deal *)

EnterBetting(g) ==
  /\ pc[g] = "bet_reply"
  /\ IF local[g].tx = NoTx
     THEN /\ End(g)
          /\ UNCHANGED <<table, player>>
     ELSE /\ player' = [player EXCEPT !.tx = local[g].tx, !.bet = local[g].amount,
                                      !.chips = local[g].reply, !.status = "betting",
                                      !.hand = NoHand, !.value = 0]
          /\ table' = [phase |-> "betting", dealer |-> NoDealer]
          /\ Goto(g, "deal")
          /\ UNCHANGED <<job, local>>
  /\ UNCHANGED <<balance, bets>>

\* Four cards have come from the deck service, or been drawn at random: each is
\* chosen below, when it is put on the table.
EnterDealing(g) ==
  /\ pc[g] = "deal"
  /\ table' = [table EXCEPT !.phase = "dealing"]
  /\ Goto(g, "card1")
  /\ UNCHANGED <<player, job, local, balance, bets>>

\* The player's hand becomes hand, and the hand evaluator is called.
Evaluate(g, hand, s) ==
  /\ player' = [player EXCEPT !.hand = hand]
  /\ \E hr \in Evaluations(hand) :
       local' = [local EXCEPT ![g].s = s, ![g].value = hr.value, ![g].bust = hr.bust]

DealPlayer(g) ==
  /\ pc[g] \in {"card1", "card2"}
  /\ \E card \in Ranks :
       Evaluate(g, Add(IF pc[g] = "card1" THEN NoHand ELSE player.hand, card), table)
  /\ Goto(g, IF pc[g] = "card1" THEN "card1_value" ELSE "card2_value")
  /\ UNCHANGED <<table, job, balance, bets>>

ShowPlayer(g) ==
  /\ pc[g] \in {"card1_value", "card2_value"}
  /\ player' = [player EXCEPT !.value = local[g].value]
  /\ table' = local[g].s
  /\ Goto(g, IF pc[g] = "card1_value" THEN "up" ELSE "hole")
  /\ UNCHANGED <<job, local, balance, bets>>

DealUp(g) ==
  /\ pc[g] = "up"
  /\ \E card \in Ranks :
       LET up == Add(NoHand, card) IN
       table' = [table EXCEPT !.dealer = [rest |-> up, hole |-> NoCard, value |-> Value(up)]]
  /\ Goto(g, "card2")
  /\ UNCHANGED <<player, job, local, balance, bets>>

DealHole(g) ==
  /\ pc[g] = "hole"
  /\ table' = [table EXCEPT !.dealer = Draw(table.dealer, Hidden)]
  /\ Goto(g, "naturals")
  /\ UNCHANGED <<player, job, local, balance, bets>>

\* The natural blackjack check, on the evaluation of the second card.
CheckNatural(g) ==
  /\ pc[g] = "naturals"
  /\ table' = [table EXCEPT !.phase = "player_turn"]
  /\ IF local[g].value = 21
     THEN /\ player' = [player EXCEPT !.status = "blackjack"]
          /\ Goto(g, "dealer")
          /\ UNCHANGED <<job, local>>
     ELSE /\ player' = [player EXCEPT !.status = "playing"]
          /\ End(g)
  /\ UNCHANGED <<balance, bets>>

-----------------------------------------------------------------------------
(* playerHit and playerDouble *)

DoubledOneId(g) ==
  [player EXCEPT !.bet = @ + local[g].amount, !.chips = local[g].reply, !.tx = local[g].tx]

Doubled(g) ==
  [player EXCEPT !.bet = @ + local[g].amount, !.chips = local[g].reply, !.tx2 = local[g].tx]

\* playerDouble with the bank's answer: a refused double is a hit.
TakeDouble(g) ==
  /\ pc[g] = "double_reply"
  /\ IF local[g].tx = NoTx
     THEN /\ BeginHit(g)
          /\ UNCHANGED player
     ELSE /\ player' = Doubled(g)
          /\ Snapshot(g, table)
          /\ Goto(g, "double_card")
          /\ UNCHANGED job
  /\ UNCHANGED <<table, balance, bets>>

\* The card that playerHit or playerDouble draws.
DrawPlayer(g) ==
  /\ pc[g] \in {"hit", "double_card"}
  /\ \E card \in Deck(IF pc[g] = "hit" THEN 7 ELSE 4) :
       Evaluate(g, Add(player.hand, card), local[g].s)
  /\ Goto(g, IF pc[g] = "hit" THEN "hit_value" ELSE "double_value")
  /\ UNCHANGED <<table, job, balance, bets>>

\* playerHit: a bust, 21 and five cards (five-card Charlie) end the turn.
ShowHit(g) ==
  /\ pc[g] = "hit_value"
  /\ LET ends == local[g].value = 21 \/ player.hand.n >= 5 IN
     /\ player' = [player EXCEPT !.value  = local[g].value,
                                 !.status = IF local[g].bust THEN "bust"
                                            ELSE IF ends THEN "standing" ELSE @]
     /\ IF local[g].bust \/ ends
        THEN Goto(g, "dealer") /\ UNCHANGED <<job, local>>
        ELSE End(g)
  /\ table' = local[g].s
  /\ UNCHANGED <<balance, bets>>

ShowDouble(g) ==
  /\ pc[g] = "double_value"
  /\ player' = [player EXCEPT !.value  = local[g].value,
                              !.status = IF local[g].bust THEN "bust" ELSE "standing"]
  /\ table' = local[g].s
  /\ Goto(g, "dealer")
  /\ UNCHANGED <<job, local, balance, bets>>

-----------------------------------------------------------------------------
(* runDealerTurnPlayer *)

EnterDealerTurn(g) ==
  /\ pc[g] = "dealer"
  /\ table' = [table EXCEPT !.phase = "dealer_turn"]
  /\ Goto(g, "reveal")
  /\ UNCHANGED <<player, job, local, balance, bets>>

\* The goroutine's copy gets the dealer's cards d, and the evaluator is called.
EvaluateDealer(g, d) ==
  \E hr \in Evaluations(DealerHand(d)) :
    local' = [local EXCEPT ![g].s = [table EXCEPT !.dealer = d], ![g].value = hr.value]

\* The hidden card is drawn only now.
Reveal(g) ==
  /\ pc[g] = "reveal"
  /\ IF table.dealer.hole = NoCard
     THEN EvaluateDealer(g, table.dealer)
     ELSE \E card \in Deck(8) : EvaluateDealer(g, [table.dealer EXCEPT !.hole = card])
  /\ Goto(g, "revealed")
  /\ UNCHANGED <<table, player, job, balance, bets>>

DealerDrawsUntil17(value) == value # 17

\* The decision of the dealer-ai service is asked for and not used.
DealerDraws(value) == value < 17

AfterDealerCardNoBust(value) == IF value \in 17..21 THEN "payout" ELSE "draw"

AfterDealerCard(value) == IF DealerDraws(value) THEN "draw" ELSE "payout"

ShowDealer(g) ==
  /\ pc[g] \in {"revealed", "drawn"}
  /\ table' = [local[g].s EXCEPT !.dealer.value = local[g].value]
  /\ Goto(g, IF pc[g] = "revealed" THEN "bust?" ELSE AfterDealerCard(local[g].value))
  /\ UNCHANGED <<player, job, local, balance, bets>>

\* A dealer whose player is bust draws no card.
CheckBust(g) ==
  /\ pc[g] = "bust?"
  /\ Goto(g, IF player.status = "bust" THEN "payout" ELSE AfterDealerCard(table.dealer.value))
  /\ UNCHANGED <<table, player, job, local, balance, bets>>

DealerDraw(g) ==
  /\ pc[g] = "draw"
  /\ \E card \in Deck(3) : EvaluateDealer(g, Draw(table.dealer, card))
  /\ Goto(g, "drawn")
  /\ UNCHANGED <<table, player, job, balance, bets>>

-----------------------------------------------------------------------------
(* runPayoutPlayer *)

\* The switch on the player's status and the two values.
Outcome(p, d) ==
  LET natural == p.status = "blackjack" /\ p.value = 21 /\ p.hand.n = 2 IN
  CASE p.status = "bust"                                       -> "loss"
    [] natural /\ d.value = 21 /\ DealerHand(d).n = 2          -> "push"
    [] natural /\ ~(d.value = 21 /\ DealerHand(d).n = 2)       -> "blackjack"
    [] OTHER ->
         IF p.hand.n >= 5 \/ d.value > 21 \/ p.value > d.value THEN "win"
         ELSE IF p.value = d.value THEN "push" ELSE "loss"

StatusAfter(outcome) ==
  CASE outcome = "win"  -> "won"
    [] outcome = "loss" -> "lost"
    [] OTHER            -> outcome

\* Phase "payout" stays in the goroutine's copy until the bets are settled.
Decide(g) ==
  /\ pc[g] = "payout"
  /\ LET outcome == Outcome(player, table.dealer)
         paying  == [table EXCEPT !.phase = "payout"] IN
     /\ player' = [player EXCEPT !.status = StatusAfter(outcome)]
     /\ local' = [local EXCEPT ![g].s = paying, ![g].outcome = outcome,
                               ![g].tx = IF player.tx # NoTx THEN player.tx ELSE player.tx2]
     /\ IF player.tx = NoTx /\ player.tx2 = NoTx
        THEN table' = paying /\ Goto(g, "reset")
        ELSE /\ Goto(g, IF player.tx # NoTx THEN "pay1" ELSE "pay2")
             /\ UNCHANGED table
  /\ UNCHANGED <<job, balance, bets>>

\* callBankPayout: a bet that is not open is refused (404).
CallPayout(g) ==
  /\ pc[g] \in {"pay1", "pay2"}
  /\ \/ /\ bets[local[g].tx] > 0
        /\ balance' = balance + Returned(bets[local[g].tx], local[g].outcome)
        /\ bets' = [bets EXCEPT ![local[g].tx] = 0]
        /\ \E reply \in {Dollars(balance')} \cup Possible("lost", {NoReply}) :
             local' = [local EXCEPT ![g].reply = reply]
     \/ /\ bets[local[g].tx] = 0 \/ "down" \in Faults
        /\ local' = [local EXCEPT ![g].reply = NoReply]
        /\ UNCHANGED <<balance, bets>>
  /\ Goto(g, IF pc[g] = "pay1" THEN "paid1" ELSE "paid2")
  /\ UNCHANGED <<table, player, job>>

ChipsAfterFirst(g) ==
  IF pc[g] = "paid1" /\ local[g].reply # NoReply THEN local[g].reply ELSE player.chips

ChipsAfter(g) == IF local[g].reply # NoReply THEN local[g].reply ELSE player.chips

SecondDueNever(g) == FALSE

\* The bet that doubled the stake is still to be paid.
SecondDue(g) == pc[g] = "paid1" /\ player.tx2 # NoTx

\* The transaction id is dropped whatever the bank answered.  Then the bet that
\* doubled the stake is paid, or the result is shown.
Paid(g) ==
  /\ pc[g] \in {"paid1", "paid2"}
  /\ player' = [player EXCEPT
       !.chips = ChipsAfter(g),
       !.tx    = IF pc[g] = "paid1" THEN NoTx ELSE @,
       !.tx2   = IF pc[g] = "paid2" THEN NoTx ELSE @]
  /\ IF SecondDue(g)
     THEN /\ local' = [local EXCEPT ![g].tx = player.tx2]
          /\ Goto(g, "pay2")
          /\ UNCHANGED table
     ELSE /\ table' = local[g].s
          /\ Goto(g, "reset")
          /\ UNCHANGED local
  /\ UNCHANGED <<job, balance, bets>>

NextHand(g) ==
  /\ pc[g] = "reset"
  /\ table' = NewTable
  /\ player' = [player EXCEPT !.status = "waiting", !.bet = 0, !.hand = NoHand, !.value = 0]
  /\ End(g)
  /\ UNCHANGED <<balance, bets>>

-----------------------------------------------------------------------------
\* The process dies with its goroutines, and CreatePlayerTable makes a new
\* table.  It shows the starting chips whatever the balance: callBankBalance
\* looks for a number where the bank sends a string, and returns -1.
Crash ==
  /\ "crash" \in Faults
  /\ table' = NewTable
  /\ player' = NewPlayer
  /\ pc' = [g \in Goroutines |-> IF Running(g) THEN "done" ELSE pc[g]]
  /\ job' = [g \in Goroutines |-> NoJob]
  /\ local' = [g \in Goroutines |-> NewLocal]
  /\ UNCHANGED <<balance, bets>>

Init ==
  /\ table = NewTable
  /\ player = NewPlayer
  /\ job = [g \in Goroutines |-> NoJob]
  /\ local = [g \in Goroutines |-> NewLocal]
  /\ pc = [g \in Goroutines |-> "idle"]
  /\ balance = 2 * StartingChips
  /\ bets = [g \in Goroutines |-> 0]

Run(g) ==
  \/ Ignore(g)          \/ StartBet(g)      \/ StartHit(g)
  \/ Stand(g)           \/ StartDouble(g)
  \/ CallBet(g)         \/ EnterBetting(g)  \/ EnterDealing(g)
  \/ DealPlayer(g)      \/ ShowPlayer(g)
  \/ DealUp(g)          \/ DealHole(g)      \/ CheckNatural(g)
  \/ TakeDouble(g)      \/ DrawPlayer(g)    \/ ShowHit(g)      \/ ShowDouble(g)
  \/ EnterDealerTurn(g) \/ Reveal(g)        \/ ShowDealer(g)
  \/ CheckBust(g)       \/ DealerDraw(g)
  \/ Decide(g)          \/ CallPayout(g)    \/ Paid(g)         \/ NextHand(g)

Next == (\E g \in Goroutines : Receive(g) \/ Run(g)) \/ Crash

Spec == Init /\ [][Next]_vars

\* Every other call returns, for its client has a timeout; every sleep ends,
\* and the Go scheduler runs every goroutine that can run.
GoroutinesRun == \A g \in Goroutines : WF_vars(Run(g) /\ pc[g] # "deal")

\* initShoe posts without a timeout: an assumption on the deck service, which
\* answers or breaks the connection, and not on this code.
DeckServiceAnswers == \A g \in Goroutines : WF_vars(EnterDealing(g))

FairSpec == Spec /\ GoroutinesRun /\ DeckServiceAnswers

-----------------------------------------------------------------------------
(* Type invariant *)

Steps == {"idle", "start", "bet", "bet_reply", "deal", "card1", "card1_value", "up",
          "card2", "card2_value", "hole", "naturals", "hit", "hit_value", "double",
          "double_reply", "double_card", "double_value", "dealer", "reveal", "revealed",
          "bust?", "draw", "drawn", "payout", "pay1", "paid1", "pay2", "paid2",
          "reset", "done"}

Tx == Goroutines \cup {NoTx}
TableState == [phase: Phases, dealer: Dealer]
PlayerState == [chips: Nat, bet: Nat, hand: Hand, value: 0..22, status: Statuses,
                tx: Tx, tx2: Tx]
JobState == [action: {"none", "bet", "hit", "stand", "double"}, wager: Wagers \cup {0}]
LocalState == [s: TableState, amount: Nat, tx: Tx, reply: {NoReply} \cup Nat,
               value: 0..22, bust: BOOLEAN, outcome: Outcomes \cup {"none"}]

TypeOK ==
  /\ table \in TableState
  /\ player \in PlayerState
  /\ job \in [Goroutines -> JobState]
  /\ local \in [Goroutines -> LocalState]
  /\ pc \in [Goroutines -> Steps]
  /\ balance \in Nat
  /\ bets \in [Goroutines -> Nat]

-----------------------------------------------------------------------------
(* Safety with a patient client, whatever goes wrong outside *)

Paying == \E g \in Goroutines : pc[g] \in {"pay1", "paid1", "pay2", "paid2"}

StakeOf(tx) == IF tx = NoTx THEN 0 ELSE bets[tx]

\* The bet shown on the table is covered by open bets at the bank whose ids the
\* table holds, from the first card to the settlement, doubles included.
HandIsBacked ==
  table.phase \notin {"waiting", "payout"} /\ ~Paying =>
    /\ player.tx # NoTx
    /\ player.bet = StakeOf(player.tx) + StakeOf(player.tx2)
    /\ \A tx \in {player.tx, player.tx2} \ {NoTx} : bets[tx] > 0

Natural(h) == h.n = 2 /\ Value(h) = 21

\* The rules of the game on the cards alone.
RulesSay(p, d) ==
  IF Value(p) > 21 THEN "loss"
  ELSE IF Natural(p) THEN (IF Natural(d) THEN "push" ELSE "blackjack")
  ELSE IF p.n = 5 \/ Value(d) > 21 THEN "win"
  ELSE IF Value(p) > Value(d) THEN "win"
  ELSE IF Value(p) = Value(d) THEN "push" ELSE "loss"

\* Bets are settled for what the cards on the table say, although
\* runPayoutPlayer goes by statuses and values stored along the way.
OutcomeFair ==
  \A g \in Goroutines : pc[g] \in {"pay1", "pay2"} =>
    local[g].outcome = RulesSay(player.hand, DealerHand(table.dealer))

\* The dealer comes to the payout with 17 or more, or with two cards because
\* the player is bust (the loop of runDealerTurnPlayer).
DealerFinished ==
  \A g \in Goroutines : pc[g] \in {"pay1", "pay2"} =>
    LET d == DealerHand(table.dealer) IN
    IF Value(player.hand) > 21 THEN d.n = 2 ELSE Value(d) >= 17

Follows ==
  {<<"waiting", "betting">>, <<"betting", "dealing">>, <<"dealing", "player_turn">>,
   <<"player_turn", "dealer_turn">>, <<"dealer_turn", "payout">>, <<"payout", "waiting">>}

\* The client sees the phases of a hand in their order; only a crash breaks off.
PhaseOrder ==
  [][table'.phase # table.phase =>
       \/ <<table.phase, table'.phase>> \in Follows
       \/ table' = NewTable /\ player' = NewPlayer]_vars

-----------------------------------------------------------------------------
(* Safety with a patient client and services that answer *)

\* Between hands the chips shown are the balance at the bank, in whole dollars.
ChipsAreBalance ==
  Quiet /\ table.phase = "waiting" => player.chips = Dollars(balance)

\* Between hands no bet is open at the bank.
NothingOwed ==
  Quiet /\ table.phase = "waiting" => \A g \in Goroutines : bets[g] = 0

\* A hand that was bet on comes to the player's turn, or past it, and a dealer's
\* turn ends in a new hand: the loop of runDealerTurnPlayer terminates.
HandGoesOn ==
  /\ (table.phase = "betting") ~> (table.phase = "player_turn")
  /\ (table.phase = "dealer_turn") ~> (table.phase = "waiting")

\* Every goroutine ends, however many play on the table.
GoroutinesEnd == \A g \in Goroutines : (pc[g] = "start") ~> (pc[g] = "done")

=============================================================================
