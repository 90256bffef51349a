-------------------------- MODULE GameTableProofs --------------------------
(***************************************************************************)
(* Theorems about GameTable for all goroutines, cards, wagers, limits and  *)
(* faults.  The types need one invariant of the control state (Replies);   *)
(* the stake on the table and the order of the phases need, for a patient  *)
(* client, another one (Course).  Built on these, Agreement ties statuses  *)
(* and values to the cards, and Accounts the chips and the ids held to the *)
(* balance and the open bets of the bank.                                  *)
(***************************************************************************)
EXTENDS GameTable, TLAPS

-----------------------------------------------------------------------------
(* Cards *)

\* A hand that gets a card is a hand: both counters are capped (module Cards).
LEMMA AddType ==
  ASSUME NEW h \in Hand, NEW card \in 0..10
  PROVE  Add(h, card) \in Hand
BY DEF Add, Hand, Capped

LEMMA NoHandType == NoHand \in Hand
BY DEF NoHand, Hand

\* The value of a hand, 22 when it is bust (hand-evaluator).
LEMMA ValueType ==
  ASSUME NEW h \in Hand
  PROVE  Value(h) \in 0..22
BY DEF Value, Hand

\* The dealer's cards, with the hole card if there is one.
LEMMA DealerHandType ==
  ASSUME NEW d \in Dealer
  PROVE  DealerHand(d) \in Hand
BY AddType DEF DealerHand, Dealer, NoCard, Hidden

\* The dealer's cards after one more card: the second one is the hole card.
LEMMA DrawType ==
  ASSUME NEW d \in Dealer, NEW card \in 0..10
  PROVE  Draw(d, card) \in Dealer
<1>1. CASE d.rest.n > 0 /\ d.hole = NoCard
  BY <1>1 DEF Draw, Dealer, Hidden
<1>2. CASE ~(d.rest.n > 0 /\ d.hole = NoCard)
  BY <1>2, AddType DEF Draw, Dealer
<1>3. QED
  BY <1>1, <1>2

\* The deck service and its callers' own cards are cards.
LEMMA DeckType ==
  ASSUME NEW fallback \in 1..10
  PROVE  Deck(fallback) \subseteq 1..10
BY GameAssumption DEF Deck, Possible

\* What callHandEvaluator can return.
LEMMA EvaluationType ==
  ASSUME NEW h \in Hand, NEW hr \in Evaluations(h)
  PROVE  hr.value \in 0..22 /\ hr.bust \in BOOLEAN
<1>1. Value(h) \in 0..22
  BY ValueType
<1>2. \A fault, values : Possible(fault, values) \subseteq values
  BY DEF Possible
<1>3. hr \in {[value |-> Value(h), bust |-> Value(h) > 21],
             [value |-> Value(h), bust |-> FALSE], [value |-> 0, bust |-> FALSE]}
  BY <1>2, Zenon DEF Evaluations
<1>4. CASE hr = [value |-> Value(h), bust |-> Value(h) > 21]
  BY <1>1, <1>4
<1>5. CASE hr = [value |-> Value(h), bust |-> FALSE]
  BY <1>1, <1>5
<1>6. CASE hr = [value |-> 0, bust |-> FALSE]
  BY <1>6
<1>7. QED
  BY <1>3, <1>4, <1>5, <1>6

-----------------------------------------------------------------------------
(* Types *)

\* A reply that carries a transaction id carries a balance, and only a bet
\* with an id is paid (callBankBet, runPayoutPlayer).
Replies ==
  \A g \in Goroutines :
    /\ pc[g] \in {"bet_reply", "double_reply"} /\ local[g].tx # NoTx =>
         local[g].reply # NoReply
    /\ pc[g] \in {"pay1", "pay2"} => local[g].tx # NoTx

TypeInv == TypeOK /\ Replies

\* The values that tables, players and goroutines begin and end with.
LEMMA NewTypes ==
  /\ NewTable \in TableState
  /\ NewPlayer \in PlayerState
  /\ NewLocal \in LocalState
  /\ NoJob \in JobState
<1>1. NoDealer \in Dealer
  BY NoHandType DEF NoDealer, Dealer
<1>2. NewTable \in TableState
  BY <1>1 DEF NewTable, TableState, Phases
<1>3. NewPlayer \in PlayerState
  BY NoHandType, GameAssumption DEF NewPlayer, PlayerState, Statuses, Tx
<1>4. NewLocal \in LocalState
  BY <1>2 DEF NewLocal, LocalState, Tx
<1>5. NoJob \in JobState
  BY DEF NoJob, JobState
<1>6. QED
  BY <1>2, <1>3, <1>4, <1>5

LEMMA InitTypes == Init => TypeInv
BY NewTypes, GameAssumption DEF Init, TypeInv, TypeOK, Replies, Steps

\* The goroutine's return (playerHit and all others).
LEMMA EndTypes ==
  ASSUME TypeInv, NEW g \in Goroutines, End(g), UNCHANGED <<balance, bets>>,
         table' \in TableState, player' \in PlayerState
  PROVE  TypeInv'
BY NewTypes DEF TypeInv, TypeOK, Replies, End, Goto, Steps

LEMMA ReceiveTypes ==
  ASSUME TypeInv, NEW g \in Goroutines, Receive(g)
  PROVE  TypeInv'
<1>1. PICK action \in ValidIn(table.phase), wager \in Wagers :
        job' = [job EXCEPT ![g] = [action |-> action, wager |-> wager]]
  BY DEF Receive
<1>2. [action |-> action, wager |-> wager] \in JobState
  BY <1>1 DEF ValidIn, JobState
<1>3. QED
  BY <1>1, <1>2 DEF Receive, TypeInv, TypeOK, Replies, Goto, Steps

LEMMA IgnoreTypes ==
  ASSUME TypeInv, NEW g \in Goroutines, Ignore(g)
  PROVE  TypeInv'
BY EndTypes DEF Ignore, TypeInv, TypeOK

\* Wagers are integers, and so is the zero that stands for none.
LEMMA WagerType ==
  ASSUME NEW wager \in Wagers \cup {0}
  PROVE  wager \in Int
<1>1. CASE wager \in Wagers
  BY <1>1, GameAssumption, Zenon
<1>2. CASE wager = 0
  BY <1>2
<1>3. QED
  BY <1>1, <1>2

\* The stake is the wager, forced between the limits and the chips (playerBet).
LEMMA StakeType ==
  ASSUME NEW wager \in Int, NEW chips \in Nat
  PROVE  Stake(wager, chips) \in Int
<1>1. MinBet \in Int /\ MaxBet \in Int
  BY GameAssumption
<1>2. QED
  BY <1>1 DEF Stake, Capped

LEMMA StartBetTypes ==
  ASSUME TypeInv, NEW g \in Goroutines, StartBet(g)
  PROVE  TypeInv'
<1> DEFINE amount == Stake(job[g].wager, player.chips)
<1>1. CASE amount > 0
  <2>1. amount \in Nat
    <3>1. job[g].wager \in Wagers \cup {0} /\ player.chips \in Nat
      BY DEF TypeInv, TypeOK, JobState, PlayerState
    <3>2. job[g].wager \in Int
      BY <3>1, WagerType
    <3>3. amount \in Int
      BY <3>1, <3>2, StakeType
    <3>4. QED
      BY <1>1, <3>3
  <2>2. [local[g] EXCEPT !.s = table, !.amount = amount] \in LocalState
    BY <2>1 DEF TypeInv, TypeOK, LocalState
  <2>3. local' = [local EXCEPT ![g] = [local[g] EXCEPT !.s = table, !.amount = amount]]
    BY <1>1 DEF StartBet, TypeInv, TypeOK, LocalState
  <2>4. QED
    BY <1>1, <2>2, <2>3 DEF StartBet, TypeInv, TypeOK, Replies, Goto, Steps
<1>2. CASE ~(amount > 0)
  BY <1>2, EndTypes DEF StartBet, TypeInv, TypeOK
<1>3. QED
  BY <1>1, <1>2

LEMMA BeginHitTypes ==
  ASSUME TypeInv, NEW g \in Goroutines, BeginHit(g), UNCHANGED <<table, player, balance, bets>>
  PROVE  TypeInv'
<1>1. CASE player.status = "playing"
  <2>1. [local[g] EXCEPT !.s = table] \in LocalState
    BY DEF TypeInv, TypeOK, LocalState
  <2>2. QED
    BY <1>1, <2>1 DEF BeginHit, TypeInv, TypeOK, Replies, Goto, Snapshot, Steps
<1>2. CASE player.status # "playing"
  BY <1>2, EndTypes DEF BeginHit, TypeInv, TypeOK
<1>3. QED
  BY <1>1, <1>2

LEMMA StandTypes ==
  ASSUME TypeInv, NEW g \in Goroutines, Stand(g)
  PROVE  TypeInv'
BY DEF Stand, TypeInv, TypeOK, Replies, Goto, Steps, PlayerState, Statuses

LEMMA StartDoubleTypes ==
  ASSUME TypeInv, NEW g \in Goroutines, StartDouble(g)
  PROVE  TypeInv'
<1>1. CASE player.status = "playing" /\ player.bet <= player.chips
  <2>1. [local[g] EXCEPT !.amount = player.bet] \in LocalState
    BY DEF TypeInv, TypeOK, LocalState, PlayerState
  <2>2. QED
    BY <1>1, <2>1 DEF StartDouble, TypeInv, TypeOK, Replies, Goto, Steps
<1>2. CASE ~(player.status = "playing" /\ player.bet <= player.chips)
  BY <1>2, BeginHitTypes DEF StartDouble
<1>3. QED
  BY <1>1, <1>2
\* The bank's reply in whole dollars.
LEMMA DollarsType ==
  ASSUME NEW halves \in Nat
  PROVE  Dollars(halves) \in Nat
BY DEF Dollars

\* callBankBet: the balance falls by the stake, which it covered.
LEMMA CallBetTypes ==
  ASSUME TypeInv, NEW g \in Goroutines, CallBet(g)
  PROVE  TypeInv'
<1> DEFINE step == IF pc[g] = "bet" THEN "bet_reply" ELSE "double_reply"
<1>1. /\ pc' = [pc EXCEPT ![g] = step] /\ step \in {"bet_reply", "double_reply"}
      /\ UNCHANGED <<table, player, job>>
  BY DEF CallBet, Goto
<1>2. CASE /\ Accepts(local[g].amount)
           /\ balance' = balance - 2 * local[g].amount
           /\ bets' = [bets EXCEPT ![g] = local[g].amount]
           /\ \E tx \in {g} \cup Possible("lost", {NoTx}) :
                local' = [local EXCEPT ![g].tx = tx, ![g].reply = Dollars(balance')]
  <2>1. local[g].amount \in Nat /\ balance \in Nat
    BY DEF TypeInv, TypeOK, LocalState
  <2>2. balance' \in Nat
    BY <1>2, <2>1 DEF Accepts
  <2>3. Dollars(balance') \in Nat /\ Dollars(balance') # NoReply
    BY <2>2, DollarsType DEF NoReply
  <2>4. PICK tx \in {g} \cup Possible("lost", {NoTx}) :
           local' = [local EXCEPT ![g].tx = tx, ![g].reply = Dollars(balance')]
    BY <1>2
  <2>5. tx \in Tx
    BY <2>4 DEF Possible, Tx
  <2>6. [local[g] EXCEPT !.tx = tx, !.reply = Dollars(balance')] \in LocalState
    BY <2>3, <2>5 DEF TypeInv, TypeOK, LocalState
  <2>7. bets' \in [Goroutines -> Nat]
    BY <1>2, <2>1 DEF TypeInv, TypeOK
  <2>8. local' = [local EXCEPT ![g] = [local[g] EXCEPT !.tx = tx, !.reply = Dollars(balance')]]
    BY <2>4 DEF TypeInv, TypeOK, LocalState
  <2>9. QED
    BY <1>1, <2>2, <2>3, <2>6, <2>7, <2>8 DEF TypeInv, TypeOK, Replies, Steps, LocalState
<1>3. CASE local' = [local EXCEPT ![g].tx = NoTx] /\ UNCHANGED <<balance, bets>>
  <2>1. [local[g] EXCEPT !.tx = NoTx] \in LocalState
    BY DEF TypeInv, TypeOK, LocalState, Tx
  <2>2. QED
    BY <1>1, <1>3, <2>1 DEF TypeInv, TypeOK, Replies, Steps, LocalState
<1>4. QED
  BY <1>2, <1>3 DEF CallBet

LEMMA EnterBettingTypes ==
  ASSUME TypeInv, NEW g \in Goroutines, EnterBetting(g)
  PROVE  TypeInv'
<1>1. CASE local[g].tx = NoTx
  BY <1>1, EndTypes DEF EnterBetting, TypeInv, TypeOK
<1>2. CASE local[g].tx # NoTx
  <2>1. local[g].reply \in Nat /\ local[g].amount \in Nat /\ local[g].tx \in Tx
    BY <1>2 DEF EnterBetting, TypeInv, TypeOK, Replies, LocalState
  <2>2. player' \in PlayerState
    <3>1. player' = [player EXCEPT !.tx = local[g].tx, !.bet = local[g].amount,
                       !.chips = local[g].reply, !.status = "betting",
                       !.hand = NoHand, !.value = 0]
      BY <1>2 DEF EnterBetting
    <3>2. player \in PlayerState /\ "betting" \in Statuses /\ 0 \in 0..22
      BY DEF TypeInv, TypeOK, Statuses
    <3>3. QED
      BY <2>1, <3>1, <3>2, NoHandType DEF PlayerState
  <2>3. table' \in TableState
    BY <1>2, NewTypes DEF EnterBetting, TableState, NewTable, Phases
  <2>4. QED
    BY <1>2, <2>2, <2>3 DEF EnterBetting, TypeInv, TypeOK, Replies, Goto, Steps
<1>3. QED
  BY <1>1, <1>2

LEMMA EnterDealingTypes ==
  ASSUME TypeInv, NEW g \in Goroutines, EnterDealing(g)
  PROVE  TypeInv'
BY DEF EnterDealing, TypeInv, TypeOK, Replies, Goto, Steps, TableState, Phases

\* A hand that is put on the table and evaluated (callHandEvaluator).
LEMMA EvaluateTypes ==
  ASSUME TypeInv, NEW g \in Goroutines, NEW hand \in Hand, NEW s \in TableState,
         Evaluate(g, hand, s), NEW step, Goto(g, step),
         step \in {"card1_value", "card2_value", "hit_value", "double_value"},
         UNCHANGED <<table, job, balance, bets>>
  PROVE  TypeInv'
<1>1. PICK hr \in Evaluations(hand) :
        local' = [local EXCEPT ![g].s = s, ![g].value = hr.value, ![g].bust = hr.bust]
  BY DEF Evaluate
<1>2. hr.value \in 0..22 /\ hr.bust \in BOOLEAN
  BY EvaluationType
<1>3. [local[g] EXCEPT !.s = s, !.value = hr.value, !.bust = hr.bust] \in LocalState
  BY <1>2 DEF TypeInv, TypeOK, LocalState
<1>4. local' = [local EXCEPT ![g] =
                  [local[g] EXCEPT !.s = s, !.value = hr.value, !.bust = hr.bust]]
  BY <1>1 DEF TypeInv, TypeOK, LocalState
<1>5. player' \in PlayerState
  BY DEF Evaluate, TypeInv, TypeOK, PlayerState
<1>6. QED
  BY <1>3, <1>4, <1>5 DEF TypeInv, TypeOK, Replies, Goto, Steps

LEMMA DealPlayerTypes ==
  ASSUME TypeInv, NEW g \in Goroutines, DealPlayer(g)
  PROVE  TypeInv'
<1>1. PICK card \in Ranks :
        Evaluate(g, Add(IF pc[g] = "card1" THEN NoHand ELSE player.hand, card), table)
  BY DEF DealPlayer
<1>2. card \in 0..10 /\ player.hand \in Hand
  BY GameAssumption DEF TypeInv, TypeOK, PlayerState
<1>3. Add(IF pc[g] = "card1" THEN NoHand ELSE player.hand, card) \in Hand
  BY <1>2, AddType, NoHandType
<1>4. table \in TableState
  BY DEF TypeInv, TypeOK
<1>5. QED
  BY <1>1, <1>3, <1>4, EvaluateTypes DEF DealPlayer

\* What a goroutine's copy of the table holds is written back (SetState).
LEMMA ShowPlayerTypes ==
  ASSUME TypeInv, NEW g \in Goroutines, ShowPlayer(g)
  PROVE  TypeInv'
<1>1. local[g].s \in TableState /\ local[g].value \in 0..22
  BY DEF TypeInv, TypeOK, LocalState
<1>2. player' \in PlayerState
  BY <1>1 DEF ShowPlayer, TypeInv, TypeOK, PlayerState
<1>3. QED
  BY <1>1, <1>2 DEF ShowPlayer, TypeInv, TypeOK, Replies, Goto, Steps

LEMMA DealUpTypes ==
  ASSUME TypeInv, NEW g \in Goroutines, DealUp(g)
  PROVE  TypeInv'
<1>1. PICK card \in Ranks :
        table' = [table EXCEPT !.dealer = [rest |-> Add(NoHand, card), hole |-> NoCard,
                                           value |-> Value(Add(NoHand, card))]]
  BY DEF DealUp
<1>2. Add(NoHand, card) \in Hand
  BY AddType, NoHandType, GameAssumption
<1>3. [rest |-> Add(NoHand, card), hole |-> NoCard, value |-> Value(Add(NoHand, card))]
        \in Dealer
  BY <1>2, ValueType DEF Dealer
<1>4. table' \in TableState
  BY <1>1, <1>3 DEF TypeInv, TypeOK, TableState
<1>5. QED
  BY <1>4 DEF DealUp, TypeInv, TypeOK, Replies, Goto, Steps

LEMMA DealHoleTypes ==
  ASSUME TypeInv, NEW g \in Goroutines, DealHole(g)
  PROVE  TypeInv'
<1>1. Draw(table.dealer, Hidden) \in Dealer
  BY DrawType DEF Hidden, TypeInv, TypeOK, TableState
<1>2. table' \in TableState
  BY <1>1 DEF DealHole, TypeInv, TypeOK, TableState
<1>3. QED
  BY <1>2 DEF DealHole, TypeInv, TypeOK, Replies, Goto, Steps

\* The end of the deal, in all but the phase and the status.
LEMMA CheckNaturalTypes ==
  ASSUME TypeInv, NEW g \in Goroutines, CheckNatural(g)
  PROVE  TypeInv'
<1>1. table' \in TableState
  BY DEF CheckNatural, TypeInv, TypeOK, TableState, Phases
<1>2. player' \in PlayerState
  BY DEF CheckNatural, TypeInv, TypeOK, PlayerState, Statuses
<1>3. CASE local[g].value = 21
  BY <1>1, <1>2, <1>3 DEF CheckNatural, TypeInv, TypeOK, Replies, Goto, Steps
<1>4. CASE local[g].value # 21
  BY <1>1, <1>2, <1>4, EndTypes DEF CheckNatural
<1>5. QED
  BY <1>3, <1>4

LEMMA TakeDoubleTypes ==
  ASSUME TypeInv, NEW g \in Goroutines, TakeDouble(g)
  PROVE  TypeInv'
<1>1. CASE local[g].tx = NoTx
  BY <1>1, BeginHitTypes DEF TakeDouble
<1>2. CASE local[g].tx # NoTx
  <2>1. local[g].reply \in Nat /\ local[g].amount \in Nat /\ local[g].tx \in Tx
    BY <1>2 DEF TakeDouble, TypeInv, TypeOK, Replies, LocalState
  <2>2. player' = Doubled(g) /\ player \in PlayerState
    BY <1>2 DEF TakeDouble, TypeInv, TypeOK
  <2>3. player' = [player EXCEPT !.bet = player.bet + local[g].amount,
                                 !.chips = local[g].reply, !.tx2 = local[g].tx]
    BY <2>2 DEF Doubled, PlayerState
  <2>4. player.bet + local[g].amount \in Nat
    BY <2>1, <2>2 DEF PlayerState
  <2>5. player' \in PlayerState
    BY <2>1, <2>2, <2>3, <2>4 DEF PlayerState
  <2>6. [local[g] EXCEPT !.s = table] \in LocalState
    BY DEF TypeInv, TypeOK, LocalState
  <2>7. QED
    BY <1>2, <2>5, <2>6 DEF TakeDouble, TypeInv, TypeOK, Replies, Goto, Snapshot, Steps
<1>3. QED
  BY <1>1, <1>2

LEMMA DrawPlayerTypes ==
  ASSUME TypeInv, NEW g \in Goroutines, DrawPlayer(g)
  PROVE  TypeInv'
<1>1. PICK card \in Deck(IF pc[g] = "hit" THEN 7 ELSE 4) :
        Evaluate(g, Add(player.hand, card), local[g].s)
  BY DEF DrawPlayer
<1>2. card \in 0..10
  BY DeckType
<1>3. Add(player.hand, card) \in Hand
  BY <1>2, AddType DEF TypeInv, TypeOK, PlayerState
<1>4. local[g].s \in TableState
  BY DEF TypeInv, TypeOK, LocalState
<1>5. QED
  BY <1>1, <1>3, <1>4, EvaluateTypes DEF DrawPlayer

LEMMA ShowHitTypes ==
  ASSUME TypeInv, NEW g \in Goroutines, ShowHit(g)
  PROVE  TypeInv'
<1> DEFINE ends == local[g].value = 21 \/ player.hand.n >= 5
<1>1. local[g].s \in TableState /\ local[g].value \in 0..22 /\ player \in PlayerState
  BY DEF TypeInv, TypeOK, LocalState
<1>2. PICK status \in {"bust", "standing", player.status} :
        player' = [player EXCEPT !.value = local[g].value, !.status = status]
  BY DEF ShowHit
<1>3. status \in Statuses
  BY <1>1, <1>2 DEF PlayerState, Statuses
<1>4. player' \in PlayerState
  BY <1>1, <1>2, <1>3 DEF PlayerState
<1>5. CASE local[g].bust \/ ends
  BY <1>1, <1>4, <1>5 DEF ShowHit, TypeInv, TypeOK, Replies, Goto, Steps
<1>6. CASE ~(local[g].bust \/ ends)
  BY <1>1, <1>4, <1>6, EndTypes DEF ShowHit
<1>7. QED
  BY <1>5, <1>6

LEMMA ShowDoubleTypes ==
  ASSUME TypeInv, NEW g \in Goroutines, ShowDouble(g)
  PROVE  TypeInv'
<1>1. local[g].s \in TableState /\ local[g].value \in 0..22 /\ player \in PlayerState
  BY DEF TypeInv, TypeOK, LocalState
<1>2. player' \in PlayerState
  BY <1>1 DEF ShowDouble, PlayerState, Statuses
<1>3. QED
  BY <1>1, <1>2 DEF ShowDouble, TypeInv, TypeOK, Replies, Goto, Steps

LEMMA EnterDealerTurnTypes ==
  ASSUME TypeInv, NEW g \in Goroutines, EnterDealerTurn(g)
  PROVE  TypeInv'
BY DEF EnterDealerTurn, TypeInv, TypeOK, Replies, Goto, Steps, TableState, Phases

\* The dealer's cards in a goroutine's copy, and their evaluation.
LEMMA EvaluateDealerTypes ==
  ASSUME TypeInv, NEW g \in Goroutines, NEW d \in Dealer, EvaluateDealer(g, d),
         NEW step \in {"revealed", "drawn"}, Goto(g, step),
         UNCHANGED <<table, player, job, balance, bets>>
  PROVE  TypeInv'
<1>1. PICK hr \in Evaluations(DealerHand(d)) :
        local' = [local EXCEPT ![g].s = [table EXCEPT !.dealer = d], ![g].value = hr.value]
  BY DEF EvaluateDealer
<1>2. hr.value \in 0..22
  BY EvaluationType, DealerHandType
<1>3. [table EXCEPT !.dealer = d] \in TableState
  BY DEF TypeInv, TypeOK, TableState
<1>4. [local[g] EXCEPT !.s = [table EXCEPT !.dealer = d], !.value = hr.value] \in LocalState
  BY <1>2, <1>3 DEF TypeInv, TypeOK, LocalState
<1>5. local' = [local EXCEPT ![g] =
                  [local[g] EXCEPT !.s = [table EXCEPT !.dealer = d], !.value = hr.value]]
  BY <1>1 DEF TypeInv, TypeOK, LocalState
<1>6. QED
  BY <1>4, <1>5 DEF TypeInv, TypeOK, Replies, Goto, Steps

LEMMA RevealTypes ==
  ASSUME TypeInv, NEW g \in Goroutines, Reveal(g)
  PROVE  TypeInv'
<1>1. table.dealer \in Dealer
  BY DEF TypeInv, TypeOK, TableState
<1>2. CASE table.dealer.hole = NoCard
  BY <1>1, <1>2, EvaluateDealerTypes DEF Reveal
<1>3. CASE table.dealer.hole # NoCard
  <2>1. PICK card \in Deck(8) : EvaluateDealer(g, [table.dealer EXCEPT !.hole = card])
    BY <1>3 DEF Reveal
  <2>2. card \in 1..10
    BY DeckType
  <2>3. [table.dealer EXCEPT !.hole = card] \in Dealer
    BY <1>1, <2>2 DEF Dealer
  <2>4. QED
    BY <2>1, <2>3, EvaluateDealerTypes DEF Reveal
<1>4. QED
  BY <1>2, <1>3

LEMMA ShowDealerTypes ==
  ASSUME TypeInv, NEW g \in Goroutines, ShowDealer(g)
  PROVE  TypeInv'
<1>1. local[g].s \in TableState /\ local[g].value \in 0..22
  BY DEF TypeInv, TypeOK, LocalState
<1>2. table' \in TableState
  BY <1>1 DEF ShowDealer, TableState, Dealer
<1>3. QED
  BY <1>2 DEF ShowDealer, TypeInv, TypeOK, Replies, Goto, Steps, AfterDealerCard

LEMMA CheckBustTypes ==
  ASSUME TypeInv, NEW g \in Goroutines, CheckBust(g)
  PROVE  TypeInv'
BY DEF CheckBust, TypeInv, TypeOK, Replies, Goto, Steps, AfterDealerCard

LEMMA DealerDrawTypes ==
  ASSUME TypeInv, NEW g \in Goroutines, DealerDraw(g)
  PROVE  TypeInv'
<1>1. PICK card \in Deck(3) : EvaluateDealer(g, Draw(table.dealer, card))
  BY DEF DealerDraw
<1>2. card \in 0..10
  BY DeckType
<1>3. Draw(table.dealer, card) \in Dealer
  BY <1>2, DrawType DEF TypeInv, TypeOK, TableState
<1>4. QED
  BY <1>1, <1>3, EvaluateDealerTypes DEF DealerDraw

\* runPayoutPlayer picks one of the four results.
LEMMA OutcomeType ==
  ASSUME NEW p, NEW d
  PROVE  Outcome(p, d) \in Outcomes /\ StatusAfter(Outcome(p, d)) \in Statuses
<1>1. Outcome(p, d) \in Outcomes
  BY DEF Outcome, Outcomes
<1>2. QED
  BY <1>1 DEF StatusAfter, Outcomes, Statuses

LEMMA DecideTypes ==
  ASSUME TypeInv, NEW g \in Goroutines, Decide(g)
  PROVE  TypeInv'
<1> DEFINE outcome == Outcome(player, table.dealer)
           paying  == [table EXCEPT !.phase = "payout"]
           tx      == IF player.tx # NoTx THEN player.tx ELSE player.tx2
<1>1. outcome \in Outcomes /\ StatusAfter(outcome) \in Statuses
  BY OutcomeType
<1>2. player' \in PlayerState
  <2>1. player' = [player EXCEPT !.status = StatusAfter(outcome)]
    BY DEF Decide
  <2>2. QED
    BY <1>1, <2>1 DEF TypeInv, TypeOK, PlayerState
<1>3. paying \in TableState
  BY DEF TypeInv, TypeOK, TableState, Phases
<1>4. [local[g] EXCEPT !.s = paying, !.outcome = outcome, !.tx = tx] \in LocalState
  <2>1. tx \in Tx /\ local[g] \in LocalState
    BY DEF TypeInv, TypeOK, PlayerState
  <2> HIDE DEF tx, outcome, paying
  <2>2. QED
    BY <1>1, <1>3, <2>1 DEF LocalState
<1>5. local' = [local EXCEPT ![g].s = paying, ![g].outcome = outcome, ![g].tx = tx]
  BY DEF Decide
<1>6. local' = [local EXCEPT ![g] =
                  [local[g] EXCEPT !.s = paying, !.outcome = outcome, !.tx = tx]]
  <2> HIDE DEF tx, outcome, paying
  <2>1. QED
    BY <1>5 DEF TypeInv, TypeOK, LocalState
<1>7. local' \in [Goroutines -> LocalState] /\ local'[g].tx = tx
      /\ \A h \in Goroutines \ {g} : local'[h] = local[h]
  <2> HIDE DEF tx, outcome, paying
  <2>1. QED
    BY <1>4, <1>6 DEF TypeInv, TypeOK, LocalState
<1>8. CASE player.tx = NoTx /\ player.tx2 = NoTx
  <2>1. table' = paying /\ pc' = [pc EXCEPT ![g] = "reset"] /\ UNCHANGED <<job, balance, bets>>
    BY <1>8 DEF Decide, Goto
  <2> HIDE DEF tx, outcome, paying
  <2>2. QED
    BY <1>2, <1>3, <1>7, <2>1 DEF TypeInv, TypeOK, Replies, Steps
<1>9. CASE ~(player.tx = NoTx /\ player.tx2 = NoTx)
  <2>1. pc' = [pc EXCEPT ![g] = IF player.tx # NoTx THEN "pay1" ELSE "pay2"]
        /\ UNCHANGED <<table, job, balance, bets>>
    BY <1>9 DEF Decide, Goto
  <2>2. tx # NoTx
    BY <1>9
  <2> HIDE DEF tx, outcome, paying
  <2>3. QED
    BY <1>2, <1>7, <2>1, <2>2 DEF TypeInv, TypeOK, Replies, Steps
<1>10. QED
  BY <1>8, <1>9

\* What the bank returns for a stake (CALC-PAYOUT).
LEMMA ReturnedType ==
  ASSUME NEW stake \in Nat, NEW outcome
  PROVE  Returned(stake, outcome) \in Nat
BY DEF Returned

\* callBankPayout: the balance rises by what the bet returns, or nothing moves.
LEMMA CallPayoutTypes ==
  ASSUME TypeInv, NEW g \in Goroutines, CallPayout(g)
  PROVE  TypeInv'
<1> DEFINE tx == local[g].tx
           step == IF pc[g] = "pay1" THEN "paid1" ELSE "paid2"
<1>1. pc' = [pc EXCEPT ![g] = step] /\ UNCHANGED <<table, player, job>>
  BY DEF CallPayout, Goto
<1>2. tx \in Goroutines /\ local[g] \in LocalState
  BY DEF CallPayout, TypeInv, TypeOK, Replies, LocalState, Tx
<1>3. balance' \in Nat /\ bets' \in [Goroutines -> Nat]
      /\ \E reply \in {NoReply} \cup Nat : local' = [local EXCEPT ![g].reply = reply]
  <2>1. CASE UNCHANGED <<balance, bets>> /\ local' = [local EXCEPT ![g].reply = NoReply]
    BY <2>1 DEF TypeInv, TypeOK
  <2>2. CASE /\ balance' = balance + Returned(bets[tx], local[g].outcome)
             /\ bets' = [bets EXCEPT ![tx] = 0]
             /\ \E reply \in {Dollars(balance')} \cup Possible("lost", {NoReply}) :
                  local' = [local EXCEPT ![g].reply = reply]
    <3>1. bets[tx] \in Nat /\ balance \in Nat
      BY <1>2 DEF TypeInv, TypeOK
    <3>2. Returned(bets[tx], local[g].outcome) \in Nat
      BY <3>1, ReturnedType
    <3>3. balance' \in Nat
      BY <2>2, <3>1, <3>2
    <3>4. {Dollars(balance')} \cup Possible("lost", {NoReply}) \subseteq {NoReply} \cup Nat
      BY <3>3, DollarsType DEF Possible
    <3>5. bets' \in [Goroutines -> Nat]
      BY <2>2 DEF TypeInv, TypeOK
    <3>6. QED
      BY <2>2, <3>3, <3>4, <3>5
  <2>3. QED
    BY <2>1, <2>2 DEF CallPayout
<1>4. PICK reply \in {NoReply} \cup Nat : local' = [local EXCEPT ![g].reply = reply]
  BY <1>3
<1>5. [local[g] EXCEPT !.reply = reply] \in LocalState
  BY <1>2 DEF LocalState
<1>6. QED
  BY <1>1, <1>3, <1>4, <1>5 DEF TypeInv, TypeOK, Replies, Steps

LEMMA PaidTypes ==
  ASSUME TypeInv, NEW g \in Goroutines, Paid(g)
  PROVE  TypeInv'
<1>1. player \in PlayerState /\ local[g] \in LocalState
  BY DEF TypeInv, TypeOK
<1>2. ChipsAfter(g) \in Nat
  BY <1>1 DEF ChipsAfter, PlayerState, LocalState
<1>3. PICK tx \in Tx, tx2 \in Tx :
        player' = [player EXCEPT !.chips = ChipsAfter(g), !.tx = tx, !.tx2 = tx2]
  BY <1>1 DEF Paid, PlayerState, Tx
<1>4. player' \in PlayerState
  BY <1>1, <1>2, <1>3 DEF PlayerState
<1>5. CASE SecondDue(g)
  <2>1. player.tx2 \in Tx /\ player.tx2 # NoTx
    BY <1>1, <1>5 DEF SecondDue, PlayerState
  <2>2. [local[g] EXCEPT !.tx = player.tx2] \in LocalState
    BY <1>1, <2>1 DEF LocalState
  <2>3. local' = [local EXCEPT ![g] = [local[g] EXCEPT !.tx = player.tx2]]
        /\ pc' = [pc EXCEPT ![g] = "pay2"] /\ UNCHANGED <<table, job, balance, bets>>
    BY <1>5 DEF Paid, Goto
  <2>4. QED
    BY <1>4, <2>1, <2>2, <2>3 DEF TypeInv, TypeOK, Replies, Steps, LocalState
<1>6. CASE ~SecondDue(g)
  <2>1. local[g].s \in TableState
    BY <1>1 DEF LocalState
  <2>2. QED
    BY <1>4, <1>6, <2>1 DEF Paid, TypeInv, TypeOK, Replies, Goto, Steps
<1>7. QED
  BY <1>5, <1>6

LEMMA NextHandTypes ==
  ASSUME TypeInv, NEW g \in Goroutines, NextHand(g)
  PROVE  TypeInv'
<1>1. player' = [player EXCEPT !.status = "waiting", !.bet = 0, !.hand = NoHand, !.value = 0]
  BY DEF NextHand
<1>2. player \in PlayerState /\ "waiting" \in Statuses /\ 0 \in Nat /\ 0 \in 0..22
  BY DEF TypeInv, TypeOK, Statuses
<1>3. player' \in PlayerState
  BY <1>1, <1>2, NoHandType DEF PlayerState
<1>4. QED
  BY <1>3, NewTypes, EndTypes DEF NextHand

LEMMA CrashTypes ==
  ASSUME TypeInv, Crash
  PROVE  TypeInv'
<1>1. local' \in [Goroutines -> LocalState] /\ job' \in [Goroutines -> JobState]
      /\ table' \in TableState /\ player' \in PlayerState
  BY NewTypes DEF Crash
<1>2. pc' \in [Goroutines -> Steps] /\ UNCHANGED <<balance, bets>>
  BY DEF Crash, TypeInv, TypeOK, Steps
<1>3. \A g \in Goroutines : pc'[g] \in {"done", "idle"}
  BY DEF Crash, TypeInv, TypeOK, Running
<1>4. QED
  BY <1>1, <1>2, <1>3 DEF TypeInv, TypeOK, Replies

\* The types are kept by every step of every goroutine, and by a crash.
LEMMA NextTypes == TypeInv /\ [Next]_vars => TypeInv'
<1> SUFFICES ASSUME TypeInv, [Next]_vars PROVE TypeInv'
  OBVIOUS
<1>1. CASE UNCHANGED vars
  BY <1>1 DEF vars, TypeInv, TypeOK, Replies
<1>2. CASE Crash
  BY <1>2, CrashTypes
<1>3. ASSUME NEW g \in Goroutines, Receive(g) \/ Run(g)
      PROVE  TypeInv'
  <2>1. CASE Receive(g) \/ Ignore(g) \/ StartBet(g) \/ StartHit(g) \/ Stand(g) \/ StartDouble(g)
    BY <2>1, ReceiveTypes, IgnoreTypes, StartBetTypes, BeginHitTypes, StandTypes,
       StartDoubleTypes DEF StartHit
  <2>2. CASE CallBet(g) \/ EnterBetting(g) \/ EnterDealing(g) \/ DealPlayer(g) \/ ShowPlayer(g)
    BY <2>2, CallBetTypes, EnterBettingTypes, EnterDealingTypes, DealPlayerTypes, ShowPlayerTypes
  <2>3. CASE DealUp(g) \/ DealHole(g) \/ CheckNatural(g) \/ TakeDouble(g) \/ DrawPlayer(g)
             \/ ShowHit(g) \/ ShowDouble(g)
    BY <2>3, DealUpTypes, DealHoleTypes, CheckNaturalTypes, TakeDoubleTypes, DrawPlayerTypes,
       ShowHitTypes, ShowDoubleTypes
  <2>4. CASE EnterDealerTurn(g) \/ Reveal(g) \/ ShowDealer(g) \/ CheckBust(g) \/ DealerDraw(g)
    BY <2>4, EnterDealerTurnTypes, RevealTypes, ShowDealerTypes, CheckBustTypes, DealerDrawTypes
  <2>5. CASE Decide(g) \/ CallPayout(g) \/ Paid(g) \/ NextHand(g)
    BY <2>5, DecideTypes, CallPayoutTypes, PaidTypes, NextHandTypes
  <2>6. QED
    BY <1>3, <2>1, <2>2, <2>3, <2>4, <2>5 DEF Run
<1>4. QED
  BY <1>1, <1>2, <1>3 DEF Next

\* The table, its player and every goroutine keep their types, whatever the
\* client does and whatever fails: no chips are negative, every hand is one of
\* Cards, and only ids that a goroutine got from the bank are held.
THEOREM TypeCorrect == Spec => []TypeOK
<1>1. Init => TypeInv
  BY InitTypes
<1>2. TypeInv /\ [Next]_vars => TypeInv'
  BY NextTypes
<1>3. TypeInv => TypeOK
  BY DEF TypeInv
<1>4. QED
  BY <1>1, <1>2, <1>3, PTL DEF Spec

-----------------------------------------------------------------------------
(* The course of a hand, for a patient client *)

AtWaiting == {"bet", "bet_reply"}
AtDealing == {"card1", "card1_value", "up", "card2", "card2_value", "hole", "naturals"}
AtTurn    == {"hit", "hit_value", "double", "double_reply", "double_card", "double_value",
              "dealer"}
AtPay     == {"pay1", "paid1", "pay2", "paid2"}
AtDealer  == {"reveal", "revealed", "bust?", "draw", "drawn", "payout"} \cup AtPay
WithCopy  == {"card1_value", "card2_value", "hit", "hit_value", "double_card",
              "double_value", "revealed", "drawn"}

\* One goroutine runs at a time.
Alone == \A g, h \in Goroutines : Running(g) /\ Running(h) => g = h

\* The phase of the table is that of the step a goroutine is at.
InPhase(g) ==
  /\ pc[g] = "start" => job[g].action \in ValidIn(table.phase)
  /\ pc[g] \in AtWaiting => table.phase = "waiting"
  /\ pc[g] = "deal"       => table.phase = "betting"
  /\ pc[g] \in AtDealing => table.phase = "dealing"
  /\ pc[g] \in AtTurn    => table.phase = "player_turn"
  /\ pc[g] \in AtDealer  => table.phase = "dealer_turn"
  /\ pc[g] = "reset"      => table.phase = "payout"

\* A goroutine's copy of the table, where it will be written back, has the
\* phase of the table, or "payout" while the bets are settled.
CopyInPhase(g) ==
  /\ pc[g] \in WithCopy => local[g].s.phase = table.phase
  /\ pc[g] \in AtPay    => local[g].s.phase = "payout"

Course ==
  /\ Alone
  /\ Quiet => table.phase \in {"waiting", "player_turn"}
  /\ \A g \in Goroutines : InPhase(g) /\ CopyInPhase(g)

-----------------------------------------------------------------------------
\* A step of goroutine g follows the course: it leaves the phase alone or takes
\* it to the next one, and the goroutine to a step that belongs to the phase.
Follow(g) ==
  /\ \E step \in Steps \ {"idle"} : pc' = [pc EXCEPT ![g] = step]
  /\ InPhase(g)' /\ CopyInPhase(g)'
  /\ pc'[g] = "done" => table'.phase \in {"waiting", "player_turn"}
  /\ table'.phase # table.phase => <<table.phase, table'.phase>> \in Follows

\* While a goroutine runs all others rest.
LEMMA OthersRest ==
  ASSUME TypeInv, Alone, NEW g \in Goroutines, Running(g), NEW h \in Goroutines \ {g}
  PROVE  pc[h] \in {"idle", "done"}
BY DEF Alone, Running

\* A step that follows the course keeps to it.
LEMMA FollowCourse ==
  ASSUME TypeInv, Course, NEW g \in Goroutines, Running(g), Follow(g)
  PROVE  Course'
<1>1. PICK step \in Steps \ {"idle"} : pc' = [pc EXCEPT ![g] = step]
  BY DEF Follow
<1>2. \A h \in Goroutines \ {g} : pc[h] \in {"idle", "done"} /\ pc'[h] = pc[h]
  BY <1>1, OthersRest DEF Course, TypeInv, TypeOK
<1>3. pc'[g] = step
  BY <1>1 DEF TypeInv, TypeOK
<1>4. Alone'
  BY <1>2 DEF Alone, Running
<1>5. (Quiet => table.phase \in {"waiting", "player_turn"})'
  BY <1>3 DEF Follow, Quiet, Running
<1>6. \A h \in Goroutines \ {g} : InPhase(h)' /\ CopyInPhase(h)'
  BY <1>2 DEF InPhase, CopyInPhase, AtWaiting, AtDealing, AtTurn, AtDealer, AtPay, WithCopy
<1>7. QED
  BY <1>4, <1>5, <1>6 DEF Course, Follow

LEMMA InitCourse == Init => Course
BY DEF Init, Course, Alone, Quiet, Running, InPhase, CopyInPhase, NewTable, AtWaiting,
   AtDealing, AtTurn, AtDealer, AtPay, WithCopy

\* A patient client acts when no goroutine runs (actionHandler).
LEMMA ReceiveCourse ==
  ASSUME Patient, TypeInv, Course, NEW g \in Goroutines, Receive(g)
  PROVE  Course' /\ table' = table
<1>1. table' = table /\ local' = local /\ pc' = [pc EXCEPT ![g] = "start"]
  BY DEF Receive, Goto
<1>2. \A h \in Goroutines : pc[h] \in {"idle", "done"}
  BY DEF Receive, Quiet, Running
<1>3. pc'[g] = "start" /\ \A h \in Goroutines \ {g} : pc'[h] \in {"idle", "done"}
  BY <1>1, <1>2 DEF TypeInv, TypeOK
<1>4. job'[g].action \in ValidIn(table'.phase)
  BY <1>1 DEF Receive, TypeInv, TypeOK
<1>5. Alone' /\ ~Quiet'
  BY <1>3 DEF Alone, Quiet, Running
<1>6. \A h \in Goroutines : InPhase(h)' /\ CopyInPhase(h)'
  BY <1>3, <1>4 DEF InPhase, CopyInPhase, AtWaiting, AtDealing, AtTurn, AtDealer, AtPay,
     WithCopy
<1>7. QED
  BY <1>1, <1>5, <1>6 DEF Course

\* A goroutine that returns, where the client may act again.
LEMMA EndFollows ==
  ASSUME TypeInv, NEW g \in Goroutines, End(g),
         table'.phase \in {"waiting", "player_turn"},
         table'.phase # table.phase => <<table.phase, table'.phase>> \in Follows
  PROVE  Follow(g)
<1>1. pc' = [pc EXCEPT ![g] = "done"] /\ pc'[g] = "done" /\ "done" \in Steps \ {"idle"}
  BY DEF End, Goto, TypeInv, TypeOK, Steps
<1>2. InPhase(g)' /\ CopyInPhase(g)'
  BY <1>1 DEF InPhase, CopyInPhase, AtWaiting, AtDealing, AtTurn, AtDealer, AtPay, WithCopy
<1>3. QED
  BY <1>1, <1>2 DEF Follow

LEMMA BeginHitFollows ==
  ASSUME TypeInv, NEW g \in Goroutines, BeginHit(g), table' = table,
         table.phase = "player_turn"
  PROVE  Follow(g)
<1>1. CASE player.status = "playing"
  <2>1. pc' = [pc EXCEPT ![g] = "hit"] /\ local' = [local EXCEPT ![g].s = table]
    BY <1>1 DEF BeginHit, Goto, Snapshot
  <2>2. pc'[g] = "hit" /\ local'[g].s = table
    BY <2>1 DEF TypeInv, TypeOK, LocalState
  <2>3. QED
    BY <2>1, <2>2 DEF Follow, Steps, InPhase, CopyInPhase, AtWaiting, AtDealing, AtTurn,
       AtDealer, AtPay, WithCopy
<1>2. CASE player.status # "playing"
  BY <1>2, EndFollows DEF BeginHit
<1>3. QED
  BY <1>1, <1>2

\* Actions begin in the phase they are valid in (processPlayerAction).
LEMMA StartsFollow ==
  ASSUME TypeInv, Course, NEW g \in Goroutines,
         Ignore(g) \/ StartBet(g) \/ StartHit(g) \/ Stand(g) \/ StartDouble(g)
  PROVE  Follow(g)
<1> USE DEF InPhase, CopyInPhase, AtWaiting, AtDealing, AtTurn, AtDealer, AtPay, WithCopy
<1>1. table' = table
  BY DEF Ignore, StartBet, StartHit, Stand, StartDouble
<1>2. CASE Ignore(g)
  BY <1>2 DEF Ignore, Course
<1>3. CASE StartBet(g)
  <2>1. table.phase = "waiting"
    BY <1>3 DEF StartBet, Starts, ValidIn
  <2>2. CASE End(g)
    BY <1>1, <2>1, <2>2, EndFollows
  <2>3. CASE Goto(g, "bet")
    <3>1. pc' = [pc EXCEPT ![g] = "bet"] /\ pc'[g] = "bet"
      BY <2>3 DEF Goto, TypeInv, TypeOK
    <3>2. QED
      BY <1>1, <2>1, <3>1 DEF Follow, Steps
  <2>4. QED
    BY <1>3, <2>2, <2>3 DEF StartBet
<1>4. CASE StartHit(g)
  <2>1. table.phase = "player_turn"
    BY <1>4 DEF StartHit, Starts, ValidIn
  <2>2. QED
    BY <1>1, <1>4, <2>1, BeginHitFollows DEF StartHit
<1>5. CASE Stand(g)
  <2>1. table.phase = "player_turn"
    BY <1>5 DEF Stand, Starts, ValidIn
  <2>2. pc' = [pc EXCEPT ![g] = "dealer"] /\ pc'[g] = "dealer"
    BY <1>5 DEF Stand, Goto, TypeInv, TypeOK
  <2>3. QED
    BY <1>1, <2>1, <2>2 DEF Follow, Steps
<1>6. CASE StartDouble(g)
  <2>1. table.phase = "player_turn"
    BY <1>6 DEF StartDouble, Starts, ValidIn
  <2>2. CASE BeginHit(g)
    BY <1>1, <2>1, <2>2, BeginHitFollows
  <2>3. CASE Goto(g, "double")
    <3>1. pc' = [pc EXCEPT ![g] = "double"] /\ pc'[g] = "double"
      BY <2>3 DEF Goto, TypeInv, TypeOK
    <3>2. QED
      BY <1>1, <2>1, <3>1 DEF Follow, Steps
  <2>4. QED
    BY <1>6, <2>2, <2>3 DEF StartDouble
<1>7. QED
  BY <1>2, <1>3, <1>4, <1>5, <1>6

\* What an evaluation leaves in the goroutine's copy of the table.
LEMMA EvaluateCopy ==
  ASSUME TypeInv, NEW g \in Goroutines, NEW hand, NEW s, Evaluate(g, hand, s)
  PROVE  local'[g].s = s
<1>1. PICK hr \in Evaluations(hand) :
        local' = [local EXCEPT ![g].s = s, ![g].value = hr.value, ![g].bust = hr.bust]
  BY DEF Evaluate
<1>2. QED
  BY <1>1 DEF TypeInv, TypeOK, LocalState

LEMMA EvaluateDealerCopy ==
  ASSUME TypeInv, NEW g \in Goroutines, NEW d, EvaluateDealer(g, d)
  PROVE  local'[g].s.phase = table.phase
<1>1. PICK hr \in Evaluations(DealerHand(d)) :
        local' = [local EXCEPT ![g].s = [table EXCEPT !.dealer = d], ![g].value = hr.value]
  BY DEF EvaluateDealer
<1>2. local'[g].s = [table EXCEPT !.dealer = d]
  BY <1>1 DEF TypeInv, TypeOK, LocalState
<1>3. QED
  BY <1>2 DEF TypeInv, TypeOK, TableState

\* The deal, from the bank's answer to the player's turn (playerBet).
LEMMA DealFollows ==
  ASSUME TypeInv, Course, NEW g \in Goroutines,
         CallBet(g) \/ EnterBetting(g) \/ EnterDealing(g) \/ DealPlayer(g) \/ ShowPlayer(g)
           \/ DealUp(g) \/ DealHole(g) \/ CheckNatural(g)
  PROVE  Follow(g)
<1> USE DEF InPhase, CopyInPhase, AtWaiting, AtDealing, AtTurn, AtDealer, AtPay, WithCopy
<1>1. InPhase(g) /\ CopyInPhase(g)
  BY DEF Course
<1>2. CASE CallBet(g)
  <2>1. table' = table /\ \E step \in {"bet_reply", "double_reply"} :
          /\ pc' = [pc EXCEPT ![g] = step] /\ pc'[g] = step
          /\ step = "bet_reply" => pc[g] = "bet"
          /\ step = "double_reply" => pc[g] = "double"
    BY <1>2 DEF CallBet, Goto, TypeInv, TypeOK
  <2>2. QED
    BY <1>1, <2>1 DEF Follow, Steps
<1>3. CASE EnterBetting(g)
  <2>1. CASE End(g) /\ table' = table
    BY <1>1, <1>3, <2>1, EndFollows DEF EnterBetting
  <2>2. CASE Goto(g, "deal") /\ table' = [phase |-> "betting", dealer |-> NoDealer]
    <3>1. pc' = [pc EXCEPT ![g] = "deal"] /\ pc'[g] = "deal" /\ table'.phase = "betting"
      BY <2>2 DEF Goto, TypeInv, TypeOK
    <3>2. QED
      BY <1>1, <1>3, <3>1 DEF EnterBetting, Follow, Steps, Follows
  <2>3. QED
    BY <1>3, <2>1, <2>2 DEF EnterBetting
<1>4. CASE EnterDealing(g)
  <2>1. pc' = [pc EXCEPT ![g] = "card1"] /\ pc'[g] = "card1" /\ table'.phase = "dealing"
    BY <1>4 DEF EnterDealing, Goto, TypeInv, TypeOK, TableState
  <2>2. QED
    BY <1>1, <1>4, <2>1 DEF EnterDealing, Follow, Steps, Follows
<1>5. CASE DealPlayer(g)
  <2>1. table' = table /\ local'[g].s = table
    BY <1>5, EvaluateCopy DEF DealPlayer
  <2>2. \E step \in {"card1_value", "card2_value"} :
          pc' = [pc EXCEPT ![g] = step] /\ pc'[g] = step
    BY <1>5 DEF DealPlayer, Goto, TypeInv, TypeOK
  <2>3. QED
    BY <1>1, <1>5, <2>1, <2>2 DEF DealPlayer, Follow, Steps
<1>6. CASE ShowPlayer(g)
  <2>1. table'.phase = table.phase
    BY <1>1, <1>6 DEF ShowPlayer
  <2>2. \E step \in {"up", "hole"} : pc' = [pc EXCEPT ![g] = step] /\ pc'[g] = step
    BY <1>6 DEF ShowPlayer, Goto, TypeInv, TypeOK
  <2>3. QED
    BY <1>1, <1>6, <2>1, <2>2 DEF ShowPlayer, Follow, Steps
<1>7. CASE DealUp(g) \/ DealHole(g)
  <2>1. table'.phase = table.phase
    BY <1>7 DEF DealUp, DealHole, TypeInv, TypeOK, TableState
  <2>2. \E step \in {"card2", "naturals"} : pc' = [pc EXCEPT ![g] = step] /\ pc'[g] = step
    BY <1>7 DEF DealUp, DealHole, Goto, TypeInv, TypeOK
  <2>3. QED
    BY <1>1, <1>7, <2>1, <2>2 DEF DealUp, DealHole, Follow, Steps
<1>8. CASE CheckNatural(g)
  <2>1. table.phase = "dealing" /\ table'.phase = "player_turn"
    BY <1>1, <1>8 DEF CheckNatural, TypeInv, TypeOK, TableState
  <2>2. CASE End(g)
    BY <2>1, <2>2, EndFollows DEF Follows
  <2>3. CASE Goto(g, "dealer")
    <3>1. pc' = [pc EXCEPT ![g] = "dealer"] /\ pc'[g] = "dealer"
      BY <2>3 DEF Goto, TypeInv, TypeOK
    <3>2. QED
      BY <2>1, <3>1 DEF Follow, Steps, Follows
  <2>4. QED
    BY <1>8, <2>2, <2>3 DEF CheckNatural
<1>9. QED
  BY <1>2, <1>3, <1>4, <1>5, <1>6, <1>7, <1>8

\* The player's further cards (playerHit, playerDouble).
LEMMA TurnFollows ==
  ASSUME TypeInv, Course, NEW g \in Goroutines,
         TakeDouble(g) \/ DrawPlayer(g) \/ ShowHit(g) \/ ShowDouble(g)
  PROVE  Follow(g)
<1> USE DEF InPhase, CopyInPhase, AtWaiting, AtDealing, AtTurn, AtDealer, AtPay, WithCopy
<1>1. InPhase(g) /\ CopyInPhase(g) /\ table.phase = "player_turn"
  BY DEF Course, TakeDouble, DrawPlayer, ShowHit, ShowDouble
<1>2. CASE TakeDouble(g)
  <2>1. CASE BeginHit(g)
    BY <1>1, <1>2, <2>1, BeginHitFollows DEF TakeDouble
  <2>2. CASE Snapshot(g, table) /\ Goto(g, "double_card")
    <3>1. pc' = [pc EXCEPT ![g] = "double_card"] /\ pc'[g] = "double_card"
          /\ local'[g].s = table
      BY <2>2 DEF Goto, Snapshot, TypeInv, TypeOK, LocalState
    <3>2. QED
      BY <1>1, <1>2, <3>1 DEF TakeDouble, Follow, Steps
  <2>3. QED
    BY <1>2, <2>1, <2>2 DEF TakeDouble
<1>3. CASE DrawPlayer(g)
  <2>1. table' = table /\ local'[g].s = local[g].s
    BY <1>3, EvaluateCopy DEF DrawPlayer
  <2>2. \E step \in {"hit_value", "double_value"} :
          pc' = [pc EXCEPT ![g] = step] /\ pc'[g] = step
    BY <1>3 DEF DrawPlayer, Goto, TypeInv, TypeOK
  <2>3. pc[g] \in WithCopy
    BY <1>3 DEF DrawPlayer
  <2>4. QED
    BY <1>1, <2>1, <2>2, <2>3 DEF Follow, Steps
<1>4. CASE ShowHit(g) \/ ShowDouble(g)
  <2>1. table'.phase = "player_turn"
    BY <1>1, <1>4 DEF ShowHit, ShowDouble
  <2>2. CASE End(g)
    BY <1>1, <2>1, <2>2, EndFollows
  <2>3. CASE Goto(g, "dealer")
    <3>1. pc' = [pc EXCEPT ![g] = "dealer"] /\ pc'[g] = "dealer"
      BY <2>3 DEF Goto, TypeInv, TypeOK
    <3>2. QED
      BY <1>1, <2>1, <3>1 DEF Follow, Steps
  <2>4. QED
    BY <1>4, <2>2, <2>3 DEF ShowHit, ShowDouble
<1>5. QED
  BY <1>2, <1>3, <1>4

\* runDealerTurnPlayer.
LEMMA DealerFollows ==
  ASSUME TypeInv, Course, NEW g \in Goroutines,
         EnterDealerTurn(g) \/ Reveal(g) \/ ShowDealer(g) \/ CheckBust(g) \/ DealerDraw(g)
  PROVE  Follow(g)
<1> USE DEF InPhase, CopyInPhase, AtWaiting, AtDealing, AtTurn, AtDealer, AtPay, WithCopy
<1>1. InPhase(g) /\ CopyInPhase(g)
  BY DEF Course
<1>2. CASE EnterDealerTurn(g)
  <2>1. pc' = [pc EXCEPT ![g] = "reveal"] /\ pc'[g] = "reveal" /\ table'.phase = "dealer_turn"
    BY <1>2 DEF EnterDealerTurn, Goto, TypeInv, TypeOK, TableState
  <2>2. QED
    BY <1>1, <1>2, <2>1 DEF EnterDealerTurn, Follow, Steps, Follows
<1>3. CASE Reveal(g) \/ DealerDraw(g)
  <2>1. table' = table /\ local'[g].s.phase = table.phase
    BY <1>3, EvaluateDealerCopy DEF Reveal, DealerDraw
  <2>2. \E step \in {"revealed", "drawn"} : pc' = [pc EXCEPT ![g] = step] /\ pc'[g] = step
    BY <1>3 DEF Reveal, DealerDraw, Goto, TypeInv, TypeOK
  <2>3. table.phase = "dealer_turn"
    BY <1>1, <1>3 DEF Reveal, DealerDraw
  <2>4. QED
    BY <2>1, <2>2, <2>3 DEF Follow, Steps
<1>4. CASE ShowDealer(g) \/ CheckBust(g)
  <2>1. table.phase = "dealer_turn" /\ table'.phase = table.phase
    BY <1>1, <1>4 DEF ShowDealer, CheckBust, TypeInv, TypeOK, LocalState, TableState
  <2>2. \E step \in {"bust?", "draw", "payout"} :
          pc' = [pc EXCEPT ![g] = step] /\ pc'[g] = step
    BY <1>4 DEF ShowDealer, CheckBust, AfterDealerCard, Goto, TypeInv, TypeOK
  <2>3. QED
    BY <2>1, <2>2 DEF Follow, Steps
<1>5. QED
  BY <1>2, <1>3, <1>4

\* runPayoutPlayer: the phase "payout" is kept in the copy until the bets are
\* settled, and shown then.
LEMMA PayoutFollows ==
  ASSUME TypeInv, Course, NEW g \in Goroutines,
         Decide(g) \/ CallPayout(g) \/ Paid(g) \/ NextHand(g)
  PROVE  Follow(g)
<1> USE DEF InPhase, CopyInPhase, AtWaiting, AtDealing, AtTurn, AtDealer, AtPay, WithCopy
<1>1. InPhase(g) /\ CopyInPhase(g)
  BY DEF Course
<1>2. CASE Decide(g)
  <2> DEFINE paying == [table EXCEPT !.phase = "payout"]
  <2>1. local'[g].s = paying /\ paying.phase = "payout" /\ table.phase = "dealer_turn"
    BY <1>1, <1>2 DEF Decide, TypeInv, TypeOK, LocalState, TableState
  <2>2. \/ table' = paying /\ pc' = [pc EXCEPT ![g] = "reset"] /\ pc'[g] = "reset"
        \/ table' = table /\ \E step \in {"pay1", "pay2"} :
                               pc' = [pc EXCEPT ![g] = step] /\ pc'[g] = step
    BY <1>2 DEF Decide, Goto, TypeInv, TypeOK
  <2> HIDE DEF paying
  <2>3. QED
    BY <2>1, <2>2 DEF Follow, Steps, Follows
<1>3. CASE CallPayout(g)
  <2>1. table' = table /\ local'[g].s = local[g].s
    BY <1>3 DEF CallPayout, TypeInv, TypeOK, LocalState
  <2>2. \E step \in {"paid1", "paid2"} : pc' = [pc EXCEPT ![g] = step] /\ pc'[g] = step
    BY <1>3 DEF CallPayout, Goto, TypeInv, TypeOK
  <2>3. QED
    BY <1>1, <1>3, <2>1, <2>2 DEF CallPayout, Follow, Steps
<1>4. CASE Paid(g)
  <2>1. local[g].s.phase = "payout" /\ table.phase = "dealer_turn"
    BY <1>1, <1>4 DEF Paid
  <2>2. CASE SecondDue(g)
    <3>1. table' = table /\ pc' = [pc EXCEPT ![g] = "pay2"] /\ pc'[g] = "pay2"
          /\ local'[g].s = local[g].s
      BY <1>4, <2>2 DEF Paid, Goto, TypeInv, TypeOK, LocalState
    <3>2. QED
      BY <2>1, <3>1 DEF Follow, Steps
  <2>3. CASE ~SecondDue(g)
    <3>1. table' = local[g].s /\ pc' = [pc EXCEPT ![g] = "reset"] /\ pc'[g] = "reset"
      BY <1>4, <2>3 DEF Paid, Goto, TypeInv, TypeOK
    <3>2. QED
      BY <2>1, <3>1 DEF Follow, Steps, Follows
  <2>4. QED
    BY <2>2, <2>3
<1>5. CASE NextHand(g)
  BY <1>1, <1>5, EndFollows DEF NextHand, NewTable, Follows
<1>6. QED
  BY <1>2, <1>3, <1>4, <1>5

\* A crash leaves a new table and no goroutine.
LEMMA CrashCourse ==
  ASSUME TypeInv, Crash
  PROVE  Course'
<1>1. table'.phase = "waiting" /\ \A g \in Goroutines : pc'[g] \in {"idle", "done"}
  BY DEF Crash, NewTable, TypeInv, TypeOK, Running
<1>2. QED
  BY <1>1 DEF Course, Alone, Quiet, Running, InPhase, CopyInPhase, AtWaiting, AtDealing,
     AtTurn, AtDealer, AtPay, WithCopy

LEMMA RunFollows ==
  ASSUME TypeInv, Course, NEW g \in Goroutines, Run(g)
  PROVE  Follow(g) /\ Running(g)
<1>1. Follow(g)
  BY StartsFollow, DealFollows, TurnFollows, DealerFollows, PayoutFollows DEF Run
<1>2. pc[g] \notin {"idle", "done"}
  <2>1. CASE Ignore(g) \/ StartBet(g) \/ StartHit(g) \/ Stand(g) \/ StartDouble(g)
             \/ CallBet(g) \/ EnterBetting(g) \/ EnterDealing(g) \/ DealPlayer(g) \/ ShowPlayer(g)
    BY <2>1 DEF Ignore, StartBet, StartHit, Stand, StartDouble, Starts, CallBet, EnterBetting,
       EnterDealing, DealPlayer, ShowPlayer
  <2>2. CASE DealUp(g) \/ DealHole(g) \/ CheckNatural(g) \/ TakeDouble(g) \/ DrawPlayer(g)
             \/ ShowHit(g) \/ ShowDouble(g) \/ EnterDealerTurn(g) \/ Reveal(g) \/ ShowDealer(g)
    BY <2>2 DEF DealUp, DealHole, CheckNatural, TakeDouble, DrawPlayer, ShowHit, ShowDouble,
       EnterDealerTurn, Reveal, ShowDealer
  <2>3. CASE CheckBust(g) \/ DealerDraw(g) \/ Decide(g) \/ CallPayout(g) \/ Paid(g) \/ NextHand(g)
    BY <2>3 DEF CheckBust, DealerDraw, Decide, CallPayout, Paid, NextHand
  <2>4. QED
    BY <2>1, <2>2, <2>3 DEF Run
<1>3. QED
  BY <1>1, <1>2 DEF Running

LEMMA NextCourse == Patient /\ TypeInv /\ Course /\ [Next]_vars => Course'
<1> SUFFICES ASSUME Patient, TypeInv, Course, [Next]_vars PROVE Course'
  OBVIOUS
<1>1. CASE UNCHANGED vars
  BY <1>1 DEF vars, Course, Alone, Quiet, Running, InPhase, CopyInPhase
<1>2. CASE Next
  BY <1>2, ReceiveCourse, RunFollows, FollowCourse, CrashCourse DEF Next
<1>3. QED
  BY <1>1, <1>2

\* With a patient client the table goes through the phases of a hand in their
\* order, whatever fails in the bank, the deck or the evaluator: the copies
\* that SetState writes back are never outdated.
THEOREM PhasesInOrder == Patient => (Spec => PhaseOrder)
<1> SUFFICES ASSUME Patient PROVE Spec => PhaseOrder
  OBVIOUS
<1>1. Init => TypeInv /\ Course
  BY InitTypes, InitCourse
<1>2. TypeInv /\ Course /\ [Next]_vars => TypeInv' /\ Course'
  BY NextTypes, NextCourse
<1>3. TypeInv /\ Course /\ [Next]_vars =>
        [table'.phase # table.phase =>
           \/ <<table.phase, table'.phase>> \in Follows
           \/ table' = NewTable /\ player' = NewPlayer]_vars
  <2> SUFFICES ASSUME TypeInv, Course, Next, table'.phase # table.phase
               PROVE  \/ <<table.phase, table'.phase>> \in Follows
                      \/ table' = NewTable /\ player' = NewPlayer
    OBVIOUS
  <2>1. CASE Crash
    BY <2>1 DEF Crash
  <2>2. ASSUME NEW g \in Goroutines, Receive(g) \/ Run(g)
        PROVE  <<table.phase, table'.phase>> \in Follows
    BY <2>2, ReceiveCourse, RunFollows DEF Follow
  <2>3. QED
    BY <2>1, <2>2 DEF Next
<1>4. QED
  BY <1>1, <1>2, <1>3, PTL DEF Spec, PhaseOrder

-----------------------------------------------------------------------------
(* The stake of a hand, for a patient client *)

Doubling == {"double_card", "double_value", "dealer"} \cup AtDealer

\* A goroutine that has not placed its bet is not the one whose bet the table
\* holds; one that has, knows its stake.
BetKnown(g) ==
  /\ pc[g] \in {"idle", "start", "bet", "double"} =>
       \A tx \in {player.tx, player.tx2} \ {NoTx} : tx # g
  /\ pc[g] \in {"bet", "double", "bet_reply", "double_reply"} => local[g].amount > 0
  /\ pc[g] \in {"bet_reply", "double_reply"} /\ local[g].tx # NoTx =>
       local[g].tx = g /\ bets[g] = local[g].amount

Stakes ==
  /\ \A g \in Goroutines : BetKnown(g)
  /\ table.phase \in {"waiting", "payout"} => player.tx = NoTx /\ player.tx2 = NoTx
  /\ (\A g \in Goroutines : pc[g] \notin Doubling) => player.tx2 = NoTx
  /\ \A g \in Goroutines : pc[g] \in {"pay2", "paid2"} => player.tx = NoTx
  /\ HandIsBacked


\* The bets b at the bank cover what player p has bet (HandIsBacked).
Backed(p, b) ==
  /\ p.tx # NoTx
  /\ p.bet = (IF p.tx = NoTx THEN 0 ELSE b[p.tx]) + (IF p.tx2 = NoTx THEN 0 ELSE b[p.tx2])
  /\ \A tx \in {p.tx, p.tx2} \ {NoTx} : b[tx] > 0

LEMMA BackedIsHeld ==
  /\ HandIsBacked <=>
       (table.phase \notin {"waiting", "payout"} /\ ~Paying => Backed(player, bets))
  /\ HandIsBacked' <=>
       (table'.phase \notin {"waiting", "payout"} /\ ~Paying' => Backed(player', bets'))
BY DEF HandIsBacked, Backed, StakeOf

LEMMA InitStakes == Init => Stakes
<1> SUFFICES ASSUME Init PROVE Stakes
  OBVIOUS
<1>1. player.tx = NoTx /\ player.tx2 = NoTx /\ table.phase = "waiting"
      /\ \A g \in Goroutines : pc[g] = "idle"
  BY DEF Init, NewPlayer, NewTable
<1>2. QED
  BY <1>1 DEF Stakes, BetKnown, HandIsBacked

\* What a step of g must do so that the other goroutines keep what they know.
LEMMA OthersKnow ==
  ASSUME TypeInv, Course, Stakes, NEW g \in Goroutines, Running(g),
         NEW step, pc' = [pc EXCEPT ![g] = step],
         {player'.tx, player'.tx2} \subseteq {player.tx, player.tx2, NoTx, g}
  PROVE  \A h \in Goroutines \ {g} :
           pc[h] \in {"idle", "done"} /\ pc'[h] = pc[h] /\ BetKnown(h)'
<1> TAKE h \in Goroutines \ {g}
<1>1. pc[h] \in {"idle", "done"} /\ pc'[h] = pc[h]
  BY OthersRest DEF Course, TypeInv, TypeOK
<1>2. pc[h] = "idle" => \A tx \in {player.tx, player.tx2} \ {NoTx} : tx # h
  BY DEF Stakes, BetKnown
<1>3. QED
  BY <1>1, <1>2 DEF BetKnown

\* A step that leaves bets and ids alone keeps the stakes.
LEMMA UnmovedStakes ==
  ASSUME TypeInv, Course, Stakes, NEW g \in Goroutines, Running(g),
         NEW step, pc' = [pc EXCEPT ![g] = step], BetKnown(g)',
         bets' = bets, player'.tx = player.tx, player'.tx2 = player.tx2,
         player'.bet = player.bet,
         \/ table'.phase = table.phase
         \/ {table.phase, table'.phase} \cap {"waiting", "payout"} = {}
         \/ player.tx = NoTx /\ player.tx2 = NoTx /\ table'.phase = "payout",
         pc[g] \in Doubling => step \in Doubling \/ player.tx2 = NoTx,
         step \in {"pay2", "paid2"} => player.tx = NoTx,
         pc[g] \in AtPay => step \in AtPay
  PROVE  Stakes'
<1>1. pc'[g] = step
  BY DEF TypeInv, TypeOK
<1>2. \A h \in Goroutines \ {g} :
        pc[h] \in {"idle", "done"} /\ pc'[h] = pc[h] /\ BetKnown(h)'
  BY OthersKnow
<1>3. \A h \in Goroutines : BetKnown(h)'
  BY <1>2
<1>4. table'.phase \in {"waiting", "payout"} => player'.tx = NoTx /\ player'.tx2 = NoTx
  BY DEF Stakes
<1>5. (\A h \in Goroutines : pc'[h] \notin Doubling) => player'.tx2 = NoTx
  BY <1>1, <1>2 DEF Stakes, Doubling, AtDealer, AtPay
<1>6. \A h \in Goroutines : pc'[h] \in {"pay2", "paid2"} => player'.tx = NoTx
  BY <1>1, <1>2
<1>7. HandIsBacked'
  <2> SUFFICES ASSUME table'.phase \notin {"waiting", "payout"}, ~Paying'
               PROVE  Backed(player', bets')
    BY BackedIsHeld
  <2>1. table.phase \notin {"waiting", "payout"}
    OBVIOUS
  <2>2. ~Paying
    BY <1>1, <1>2 DEF Paying, AtPay
  <2>3. Backed(player, bets)
    BY <2>1, <2>2, BackedIsHeld DEF Stakes
  <2>4. QED
    BY <2>3 DEF Backed
<1>8. QED
  BY <1>3, <1>4, <1>5, <1>6, <1>7 DEF Stakes

\* While g is not settling bets, nobody is.
LEMMA NotPaying ==
  ASSUME TypeInv, Course, NEW g \in Goroutines, Running(g), pc[g] \notin AtPay
  PROVE  ~Paying
<1>1. \A h \in Goroutines \ {g} : pc[h] \in {"idle", "done"}
  BY OthersRest DEF Course
<1>2. QED
  BY <1>1 DEF Paying, AtPay

\* The actions begin (processPlayerAction): a stake is positive.
LEMMA StartsStakes ==
  ASSUME TypeInv, Course, Stakes, NEW g \in Goroutines,
         Ignore(g) \/ StartBet(g) \/ StartHit(g) \/ Stand(g) \/ StartDouble(g)
  PROVE  Stakes'
<1>1. pc[g] = "start" /\ Running(g)
  BY DEF Ignore, StartBet, StartHit, Stand, StartDouble, Starts, Running
<1>2. /\ table' = table /\ bets' = bets /\ player'.tx = player.tx
      /\ player'.tx2 = player.tx2 /\ player'.bet = player.bet
  BY DEF Ignore, StartBet, StartHit, Stand, StartDouble, TypeInv, TypeOK, PlayerState
<1>3. \A tx \in {player'.tx, player'.tx2} \ {NoTx} : tx # g
  BY <1>1, <1>2 DEF Stakes, BetKnown
<1>4. ASSUME NEW step \in {"done", "hit", "dealer"}, pc' = [pc EXCEPT ![g] = step]
      PROVE  Stakes'
  <2>1. pc'[g] = step
    BY <1>4 DEF TypeInv, TypeOK
  <2>2. BetKnown(g)'
    BY <2>1 DEF BetKnown
  <2>3. QED
    BY <1>1, <1>2, <1>4, <2>2, UnmovedStakes DEF Doubling, AtDealer, AtPay
<1>5. ASSUME NEW step \in {"bet", "double"}, pc' = [pc EXCEPT ![g] = step],
             local'[g].amount > 0
      PROVE  Stakes'
  <2>1. pc'[g] = step
    BY <1>5 DEF TypeInv, TypeOK
  <2>2. BetKnown(g)'
    BY <1>3, <1>5, <2>1 DEF BetKnown
  <2>3. QED
    BY <1>1, <1>2, <1>5, <2>2, UnmovedStakes DEF Doubling, AtDealer, AtPay
<1>6. CASE Ignore(g)
  BY <1>4, <1>6 DEF Ignore, End, Goto
<1>7. CASE StartBet(g)
  <2>1. CASE End(g)
    BY <1>4, <2>1 DEF End, Goto
  <2>2. CASE ~End(g)
    <3> DEFINE amount == Stake(job[g].wager, player.chips)
    <3>1. amount > 0 /\ local' = [local EXCEPT ![g].s = table, ![g].amount = amount]
          /\ pc' = [pc EXCEPT ![g] = "bet"]
      BY <1>7, <2>2 DEF StartBet, Goto
    <3>2. local'[g].amount > 0
      <4> HIDE DEF amount
      <4>1. QED
        BY <3>1 DEF TypeInv, TypeOK, LocalState
    <3>3. QED
      BY <1>5, <3>1, <3>2
  <2>3. QED
    BY <2>1, <2>2
<1>8. CASE Stand(g)
  BY <1>4, <1>8 DEF Stand, Goto
<1>9. CASE BeginHit(g)
  BY <1>4, <1>9 DEF BeginHit, End, Goto
<1>10. CASE StartDouble(g) /\ ~BeginHit(g)
  <2>1. pc' = [pc EXCEPT ![g] = "double"] /\ local' = [local EXCEPT ![g].amount = player.bet]
        /\ table.phase = "player_turn"
    BY <1>10 DEF StartDouble, Goto, Starts, ValidIn
  <2>2. ~Paying
    BY <1>1, NotPaying DEF AtPay
  <2>3. Backed(player, bets)
    BY <2>1, <2>2, BackedIsHeld DEF Stakes
  <2>4. /\ player.tx \in Goroutines /\ bets[player.tx] \in Nat /\ bets[player.tx] > 0
        /\ player.tx2 # NoTx => bets[player.tx2] \in Nat
    BY <2>3 DEF Backed, TypeInv, TypeOK, PlayerState, Tx
  <2>5. player.bet > 0
    BY <2>3, <2>4 DEF Backed
  <2>6. local'[g].amount > 0
    BY <2>1, <2>5 DEF TypeInv, TypeOK, LocalState
  <2>7. QED
    BY <1>5, <2>1, <2>6
<1>11. QED
  BY <1>6, <1>7, <1>8, <1>9, <1>10 DEF StartHit

\* callBankBet: the new bet is none that the table holds.
LEMMA CallBetStakes ==
  ASSUME TypeInv, Course, Stakes, NEW g \in Goroutines, CallBet(g)
  PROVE  Stakes'
<1> DEFINE step == IF pc[g] = "bet" THEN "bet_reply" ELSE "double_reply"
<1>1. pc' = [pc EXCEPT ![g] = step] /\ pc'[g] = step /\ table' = table /\ player' = player
      /\ pc[g] \in {"bet", "double"} /\ Running(g)
  BY DEF CallBet, Goto, Running, TypeInv, TypeOK
<1>2. step \in {"bet_reply", "double_reply"}
  OBVIOUS
<1> HIDE DEF step
<1>3. \A tx \in {player.tx, player.tx2} \ {NoTx} : tx # g /\ tx \in Goroutines
  BY <1>1 DEF Stakes, BetKnown, TypeInv, TypeOK, PlayerState, Tx
<1>4. local[g].amount > 0
  BY <1>1 DEF Stakes, BetKnown
<1>5. /\ bets' = bets \/ bets' = [bets EXCEPT ![g] = local[g].amount]
      /\ local'[g].amount = local[g].amount
      /\ local'[g].tx # NoTx => local'[g].tx = g /\ bets'[g] = local[g].amount
  <2>1. CASE local' = [local EXCEPT ![g].tx = NoTx] /\ bets' = bets
    BY <2>1 DEF TypeInv, TypeOK, LocalState
  <2>2. CASE /\ bets' = [bets EXCEPT ![g] = local[g].amount]
             /\ \E tx \in {g} \cup Possible("lost", {NoTx}) :
                  local' = [local EXCEPT ![g].tx = tx, ![g].reply = Dollars(balance')]
    <3>1. PICK tx \in {g, NoTx} :
            local' = [local EXCEPT ![g].tx = tx, ![g].reply = Dollars(balance')]
      BY <2>2 DEF Possible
    <3>2. local'[g].tx = tx /\ local'[g].amount = local[g].amount
      BY <3>1 DEF TypeInv, TypeOK, LocalState
    <3>3. bets'[g] = local[g].amount
      BY <2>2 DEF TypeInv, TypeOK
    <3>4. QED
      BY <2>2, <3>2, <3>3
  <2>3. QED
    BY <2>1, <2>2 DEF CallBet
<1>6. BetKnown(g)'
  BY <1>1, <1>2, <1>4, <1>5 DEF BetKnown
<1>7. \A h \in Goroutines \ {g} :
        pc[h] \in {"idle", "done"} /\ pc'[h] = pc[h] /\ BetKnown(h)'
  BY <1>1, OthersKnow
<1>8. HandIsBacked'
  <2> SUFFICES ASSUME table'.phase \notin {"waiting", "payout"}, ~Paying'
               PROVE  Backed(player', bets')
    BY BackedIsHeld
  <2>1. ~Paying
    BY <1>1, NotPaying DEF AtPay
  <2>2. Backed(player, bets)
    BY <1>1, <2>1, BackedIsHeld DEF Stakes
  <2>3. \A tx \in {player.tx, player.tx2} \ {NoTx} : bets'[tx] = bets[tx]
    BY <1>3, <1>5 DEF TypeInv, TypeOK
  <2>4. QED
    BY <1>1, <2>2, <2>3 DEF Backed
<1>9. player.tx2 = NoTx
  BY <1>1, <1>7 DEF Stakes, Doubling, AtDealer, AtPay
<1>10. QED
  BY <1>1, <1>2, <1>6, <1>7, <1>8, <1>9 DEF Stakes

\* playerBet: the id and the stake come to the table together.
LEMMA EnterBettingStakes ==
  ASSUME TypeInv, Course, Stakes, NEW g \in Goroutines, EnterBetting(g)
  PROVE  Stakes'
<1>1. pc[g] = "bet_reply" /\ Running(g) /\ table.phase = "waiting" /\ bets' = bets
  BY DEF EnterBetting, Running, Course, InPhase, AtWaiting
<1>2. player.tx = NoTx /\ player.tx2 = NoTx
  BY <1>1 DEF Stakes
<1>3. CASE local[g].tx = NoTx
  <2>1. pc' = [pc EXCEPT ![g] = "done"] /\ pc'[g] = "done" /\ player' = player /\ table' = table
    BY <1>3 DEF EnterBetting, End, Goto, TypeInv, TypeOK
  <2>2. BetKnown(g)'
    BY <2>1 DEF BetKnown
  <2>3. QED
    BY <1>1, <2>1, <2>2, UnmovedStakes DEF Doubling, AtDealer, AtPay
<1>4. CASE local[g].tx # NoTx
  <2>1. pc' = [pc EXCEPT ![g] = "deal"] /\ pc'[g] = "deal" /\ table'.phase = "betting"
    BY <1>4 DEF EnterBetting, Goto, TypeInv, TypeOK
  <2>2. player'.tx = local[g].tx /\ player'.tx2 = NoTx /\ player'.bet = local[g].amount
    BY <1>2, <1>4 DEF EnterBetting, TypeInv, TypeOK, PlayerState
  <2>3. local[g].tx = g /\ bets[g] = local[g].amount /\ local[g].amount > 0
        /\ local[g].amount \in Nat
    BY <1>1, <1>4 DEF Stakes, BetKnown, TypeInv, TypeOK, LocalState
  <2>4. \A h \in Goroutines \ {g} :
          pc[h] \in {"idle", "done"} /\ pc'[h] = pc[h] /\ BetKnown(h)'
    BY <1>1, <2>1, <2>2, <2>3, OthersKnow
  <2>5. BetKnown(g)'
    BY <2>1 DEF BetKnown
  <2>6. Backed(player', bets')
    BY <1>1, <1>4, <2>2, <2>3 DEF Backed
  <2>7. QED
    BY <2>1, <2>2, <2>4, <2>5, <2>6, BackedIsHeld DEF Stakes
<1>5. QED
  BY <1>3, <1>4

PlayingSteps == {"deal"} \cup AtDealing \cup AtTurn \cup
                {"reveal", "revealed", "bust?", "draw", "drawn"}

\* A step in the middle of a hand that leaves the bets and the ids alone.
PlaysOn(g) ==
  /\ pc[g] \in PlayingSteps
  /\ \E step \in (PlayingSteps \ {"double", "double_reply"}) \cup {"payout", "done"} :
       /\ pc' = [pc EXCEPT ![g] = step]
       /\ pc[g] \in Doubling => step \in Doubling
  /\ bets' = bets
  /\ player'.tx = player.tx /\ player'.tx2 = player.tx2 /\ player'.bet = player.bet

LEMMA PlayingStakes ==
  ASSUME TypeInv, Course, Stakes, NEW g \in Goroutines, Follow(g), PlaysOn(g)
  PROVE  Stakes'
<1> USE DEF PlayingSteps, AtDealing, AtTurn, AtDealer, AtPay
<1>1. PICK step \in (PlayingSteps \ {"double", "double_reply"}) \cup {"payout", "done"} :
        pc' = [pc EXCEPT ![g] = step] /\ (pc[g] \in Doubling => step \in Doubling)
  BY DEF PlaysOn
<1>2. pc'[g] = step /\ Running(g)
  BY <1>1 DEF PlaysOn, Running, TypeInv, TypeOK
<1>3. table.phase \notin {"waiting", "payout"}
  BY DEF PlaysOn, Course, InPhase
<1>4. table'.phase \notin {"waiting", "payout"}
  <2>1. CASE step = "done"
    BY <1>2, <1>3, <2>1 DEF Follow, Follows
  <2>2. CASE step # "done"
    BY <1>2, <2>2 DEF Follow, InPhase
  <2>3. QED
    BY <2>1, <2>2
<1>5. BetKnown(g)'
  BY <1>2 DEF BetKnown
<1>6. {table.phase, table'.phase} \cap {"waiting", "payout"} = {}
  BY <1>3, <1>4
<1>7. step \notin {"pay2", "paid2"} /\ pc[g] \notin {"pay1", "paid1", "pay2", "paid2"}
  BY <1>1 DEF PlaysOn
<1>8. /\ bets' = bets /\ player'.tx = player.tx /\ player'.tx2 = player.tx2
      /\ player'.bet = player.bet
  BY DEF PlaysOn
<1>9. QED
  <2> HIDE DEF PlayingSteps, AtDealing, AtTurn, AtDealer
  <2>1. QED
    BY <1>1, <1>2, <1>5, <1>6, <1>7, <1>8, UnmovedStakes

LEMMA DealPlaysOn ==
  ASSUME TypeInv, NEW g \in Goroutines,
         EnterDealing(g) \/ DealPlayer(g) \/ ShowPlayer(g) \/ DealUp(g) \/ DealHole(g)
           \/ CheckNatural(g)
  PROVE  PlaysOn(g)
<1> USE DEF PlayingSteps, AtDealing, AtTurn, AtDealer, AtPay, Doubling, Goto, TypeInv, TypeOK,
            PlayerState
<1>1. CASE EnterDealing(g) \/ DealUp(g) \/ DealHole(g)
  BY <1>1 DEF EnterDealing, DealUp, DealHole, PlaysOn
<1>2. CASE DealPlayer(g)
  BY <1>2 DEF DealPlayer, Evaluate, PlaysOn
<1>3. CASE ShowPlayer(g)
  BY <1>3 DEF ShowPlayer, PlaysOn
<1>4. CASE CheckNatural(g)
  BY <1>4 DEF CheckNatural, End, PlaysOn
<1>5. QED
  BY <1>1, <1>2, <1>3, <1>4

LEMMA TurnPlaysOn ==
  ASSUME TypeInv, NEW g \in Goroutines,
         (TakeDouble(g) /\ local[g].tx = NoTx) \/ DrawPlayer(g) \/ ShowHit(g) \/ ShowDouble(g)
  PROVE  PlaysOn(g)
<1> USE DEF PlayingSteps, AtDealing, AtTurn, AtDealer, AtPay, Doubling, Goto, TypeInv, TypeOK,
            PlayerState
<1>1. CASE TakeDouble(g) /\ local[g].tx = NoTx
  BY <1>1 DEF TakeDouble, BeginHit, End, PlaysOn
<1>2. CASE DrawPlayer(g)
  BY <1>2 DEF DrawPlayer, Evaluate, PlaysOn
<1>3. CASE ShowHit(g)
  BY <1>3 DEF ShowHit, End, PlaysOn
<1>4. CASE ShowDouble(g)
  BY <1>4 DEF ShowDouble, PlaysOn
<1>5. QED
  BY <1>1, <1>2, <1>3, <1>4

LEMMA DealerPlaysOn ==
  ASSUME TypeInv, NEW g \in Goroutines,
         EnterDealerTurn(g) \/ Reveal(g) \/ ShowDealer(g) \/ CheckBust(g) \/ DealerDraw(g)
  PROVE  PlaysOn(g)
BY DEF EnterDealerTurn, Reveal, ShowDealer, CheckBust, DealerDraw, AfterDealerCard, PlaysOn,
   PlayingSteps, AtDealing, AtTurn, AtDealer, AtPay, Doubling, Goto

\* playerDouble: the second id comes with the second half of the stake.
LEMMA TakeDoubleStakes ==
  ASSUME TypeInv, Course, Stakes, NEW g \in Goroutines, TakeDouble(g), local[g].tx # NoTx
  PROVE  Stakes'
<1>1. pc[g] = "double_reply" /\ Running(g) /\ table.phase = "player_turn" /\ table' = table
      /\ bets' = bets
  BY DEF TakeDouble, Running, Course, InPhase, AtTurn
<1>2. pc' = [pc EXCEPT ![g] = "double_card"] /\ pc'[g] = "double_card"
  BY DEF TakeDouble, Goto, TypeInv, TypeOK
<1>3. /\ player'.tx = player.tx /\ player'.tx2 = local[g].tx
      /\ player'.bet = player.bet + local[g].amount
  BY DEF TakeDouble, Doubled, TypeInv, TypeOK, PlayerState
<1>4. local[g].tx = g /\ bets[g] = local[g].amount /\ local[g].amount > 0
  BY <1>1 DEF Stakes, BetKnown
<1>5. \A h \in Goroutines \ {g} :
        pc[h] \in {"idle", "done"} /\ pc'[h] = pc[h] /\ BetKnown(h)'
  BY <1>1, <1>2, <1>3, <1>4, OthersKnow
<1>6. player.tx2 = NoTx
  BY <1>1, <1>5 DEF Stakes, Doubling, AtDealer, AtPay
<1>7. Backed(player, bets)
  BY <1>1, NotPaying, BackedIsHeld DEF Stakes, AtPay
<1>8. Backed(player', bets')
  <2>1. bets[player.tx] \in Nat /\ player.bet \in Nat /\ local[g].amount \in Nat
    BY <1>7 DEF Backed, TypeInv, TypeOK, PlayerState, LocalState, Tx
  <2>2. QED
    BY <1>1, <1>3, <1>4, <1>6, <1>7, <2>1 DEF Backed
<1>9. BetKnown(g)'
  BY <1>2 DEF BetKnown
<1>10. QED
  BY <1>1, <1>2, <1>5, <1>8, <1>9, BackedIsHeld DEF Stakes, Doubling

\* runPayoutPlayer: both ids are dropped, in their order, before the next hand.
LEMMA DecideStakes ==
  ASSUME TypeInv, Course, Stakes, NEW g \in Goroutines, Decide(g)
  PROVE  Stakes'
<1>1. pc[g] = "payout" /\ Running(g) /\ bets' = bets
  BY DEF Decide, Running
<1>2. player'.tx = player.tx /\ player'.tx2 = player.tx2 /\ player'.bet = player.bet
  BY DEF Decide, TypeInv, TypeOK, PlayerState
<1>3. CASE player.tx = NoTx /\ player.tx2 = NoTx
  <2>1. pc' = [pc EXCEPT ![g] = "reset"] /\ pc'[g] = "reset" /\ table'.phase = "payout"
    BY <1>3 DEF Decide, Goto, TypeInv, TypeOK, TableState
  <2>2. BetKnown(g)'
    BY <2>1 DEF BetKnown
  <2>3. QED
    BY <1>1, <1>2, <1>3, <2>1, <2>2, UnmovedStakes DEF AtPay
<1>4. CASE ~(player.tx = NoTx /\ player.tx2 = NoTx)
  <2>1. table' = table /\ \E step \in {"pay1", "pay2"} :
          /\ pc' = [pc EXCEPT ![g] = step] /\ pc'[g] = step
          /\ step = "pay2" => player.tx = NoTx
    BY <1>4 DEF Decide, Goto, TypeInv, TypeOK
  <2>2. BetKnown(g)'
    BY <2>1 DEF BetKnown
  <2>3. QED
    BY <1>1, <1>2, <2>1, <2>2, UnmovedStakes DEF AtPay, AtDealer, Doubling
<1>5. QED
  BY <1>3, <1>4

LEMMA CallPayoutStakes ==
  ASSUME TypeInv, Course, Stakes, NEW g \in Goroutines, CallPayout(g)
  PROVE  Stakes'
<1>1. Running(g) /\ table' = table /\ player' = player
  BY DEF CallPayout, Running
<1>2. PICK step \in {"paid1", "paid2"} :
        /\ pc' = [pc EXCEPT ![g] = step] /\ pc'[g] = step
        /\ step = "paid2" => pc[g] = "pay2"
  BY DEF CallPayout, Goto, TypeInv, TypeOK
<1>3. \A h \in Goroutines \ {g} :
        pc[h] \in {"idle", "done"} /\ pc'[h] = pc[h] /\ BetKnown(h)'
  BY <1>1, <1>2, OthersKnow
<1>4. BetKnown(g)'
  BY <1>2 DEF BetKnown
<1>5. Paying'
  BY <1>2 DEF Paying
<1>6. QED
  BY <1>1, <1>2, <1>3, <1>4, <1>5, BackedIsHeld DEF Stakes, Doubling, AtDealer, AtPay

LEMMA PaidStakes ==
  ASSUME TypeInv, Course, Stakes, NEW g \in Goroutines, Paid(g)
  PROVE  Stakes'
<1>1. Running(g) /\ bets' = bets /\ pc[g] \in {"paid1", "paid2"}
      /\ local[g].s.phase = "payout"
  BY DEF Paid, Running, Course, CopyInPhase, AtPay
<1>2. /\ pc[g] = "paid1" => player'.tx = NoTx /\ player'.tx2 = player.tx2
      /\ pc[g] = "paid2" => player'.tx = NoTx /\ player'.tx2 = NoTx
  BY <1>1 DEF Paid, Stakes, TypeInv, TypeOK, PlayerState
<1>3. CASE SecondDue(g)
  <2>1. pc' = [pc EXCEPT ![g] = "pay2"] /\ pc'[g] = "pay2" /\ table' = table
    BY <1>3 DEF Paid, Goto, TypeInv, TypeOK
  <2>2. \A h \in Goroutines \ {g} :
          pc[h] \in {"idle", "done"} /\ pc'[h] = pc[h] /\ BetKnown(h)'
    BY <1>1, <1>2, <2>1, OthersKnow
  <2>3. BetKnown(g)' /\ Paying'
    BY <2>1 DEF BetKnown, Paying
  <2>4. QED
    BY <1>1, <1>2, <2>1, <2>2, <2>3, BackedIsHeld DEF Stakes, Doubling, AtDealer, AtPay
<1>4. CASE ~SecondDue(g)
  <2>1. pc' = [pc EXCEPT ![g] = "reset"] /\ pc'[g] = "reset" /\ table'.phase = "payout"
    BY <1>1, <1>4 DEF Paid, Goto, TypeInv, TypeOK
  <2>2. player'.tx = NoTx /\ player'.tx2 = NoTx
    BY <1>1, <1>2, <1>4 DEF SecondDue
  <2>3. \A h \in Goroutines \ {g} :
          pc[h] \in {"idle", "done"} /\ pc'[h] = pc[h] /\ BetKnown(h)'
    BY <1>1, <2>1, <2>2, OthersKnow
  <2>4. BetKnown(g)'
    BY <2>1 DEF BetKnown
  <2>5. QED
    BY <2>1, <2>2, <2>3, <2>4, BackedIsHeld DEF Stakes
<1>5. QED
  BY <1>3, <1>4

LEMMA NextHandStakes ==
  ASSUME TypeInv, Course, Stakes, NEW g \in Goroutines, NextHand(g)
  PROVE  Stakes'
<1>1. pc[g] = "reset" /\ Running(g) /\ table.phase = "payout"
  BY DEF NextHand, Running, Course, InPhase
<1>2. pc' = [pc EXCEPT ![g] = "done"] /\ pc'[g] = "done" /\ table'.phase = "waiting"
  BY DEF NextHand, End, Goto, NewTable, TypeInv, TypeOK
<1>3. player'.tx = NoTx /\ player'.tx2 = NoTx
  BY <1>1 DEF NextHand, Stakes, TypeInv, TypeOK, PlayerState
<1>4. \A h \in Goroutines \ {g} :
        pc[h] \in {"idle", "done"} /\ pc'[h] = pc[h] /\ BetKnown(h)'
  BY <1>1, <1>2, <1>3, OthersKnow
<1>5. BetKnown(g)'
  BY <1>2 DEF BetKnown
<1>6. QED
  BY <1>2, <1>3, <1>4, <1>5, BackedIsHeld DEF Stakes

LEMMA ReceiveStakes ==
  ASSUME Patient, TypeInv, Course, Stakes, NEW g \in Goroutines, Receive(g)
  PROVE  Stakes'
<1>1. \A h \in Goroutines : pc[h] \in {"idle", "done"}
  BY DEF Receive, Quiet, Running
<1>2. pc[g] = "idle" /\ pc' = [pc EXCEPT ![g] = "start"]
      /\ UNCHANGED <<table, player, local, bets>>
  BY DEF Receive, Goto
<1>3. pc'[g] = "start" /\ \A h \in Goroutines \ {g} : pc'[h] = pc[h]
  BY <1>2 DEF TypeInv, TypeOK
<1>4. \A h \in Goroutines : BetKnown(h)'
  BY <1>1, <1>2, <1>3 DEF Stakes, BetKnown
<1>5. ~Paying
  BY <1>1 DEF Paying
<1>6. HandIsBacked'
  BY <1>2, <1>5, BackedIsHeld DEF Stakes, Backed
<1>7. player.tx2 = NoTx
  BY <1>1 DEF Stakes, Doubling, AtDealer, AtPay
<1>8. QED
  BY <1>1, <1>2, <1>3, <1>4, <1>6, <1>7 DEF Stakes

LEMMA CrashStakes ==
  ASSUME TypeInv, Crash
  PROVE  Stakes'
<1>1. table'.phase = "waiting" /\ player'.tx = NoTx /\ player'.tx2 = NoTx
  BY DEF Crash, NewTable, NewPlayer
<1>2. \A g \in Goroutines : pc'[g] \in {"idle", "done"}
  BY DEF Crash, TypeInv, TypeOK, Running
<1>3. QED
  BY <1>1, <1>2, BackedIsHeld DEF Stakes, BetKnown

LEMMA RunStakes ==
  ASSUME TypeInv, Course, Stakes, NEW g \in Goroutines, Run(g)
  PROVE  Stakes'
<1>1. Follow(g)
  BY RunFollows
<1>2. CASE Ignore(g) \/ StartBet(g) \/ StartHit(g) \/ Stand(g) \/ StartDouble(g)
  BY <1>2, StartsStakes
<1>3. CASE CallBet(g) \/ EnterBetting(g)
  BY <1>3, CallBetStakes, EnterBettingStakes
<1>4. CASE EnterDealing(g) \/ DealPlayer(g) \/ ShowPlayer(g) \/ DealUp(g) \/ DealHole(g)
           \/ CheckNatural(g)
  BY <1>1, <1>4, DealPlaysOn, PlayingStakes
<1>5. CASE TakeDouble(g) \/ DrawPlayer(g) \/ ShowHit(g) \/ ShowDouble(g)
  <2>1. CASE TakeDouble(g) /\ local[g].tx # NoTx
    BY <2>1, TakeDoubleStakes
  <2>2. CASE ~(TakeDouble(g) /\ local[g].tx # NoTx)
    BY <1>1, <1>5, <2>2, TurnPlaysOn, PlayingStakes
  <2>3. QED
    BY <2>1, <2>2
<1>6. CASE EnterDealerTurn(g) \/ Reveal(g) \/ ShowDealer(g) \/ CheckBust(g) \/ DealerDraw(g)
  BY <1>1, <1>6, DealerPlaysOn, PlayingStakes
<1>7. CASE Decide(g) \/ CallPayout(g) \/ Paid(g) \/ NextHand(g)
  BY <1>7, DecideStakes, CallPayoutStakes, PaidStakes, NextHandStakes
<1>8. QED
  BY <1>2, <1>3, <1>4, <1>5, <1>6, <1>7 DEF Run

LEMMA NextStakes ==
  Patient /\ TypeInv /\ Course /\ Stakes /\ [Next]_vars => Stakes'
<1> SUFFICES ASSUME Patient, TypeInv, Course, Stakes, [Next]_vars PROVE Stakes'
  OBVIOUS
<1>1. CASE UNCHANGED vars
  <2>1. HandIsBacked'
    BY <1>1 DEF vars, Stakes, HandIsBacked, StakeOf, Paying
  <2>2. QED
    BY <1>1, <2>1 DEF vars, Stakes, BetKnown
<1>2. CASE Next
  BY <1>2, ReceiveStakes, RunStakes, CrashStakes DEF Next
<1>3. QED
  BY <1>1, <1>2

\* With a patient client the bet shown on the table is what is open at the bank
\* under the ids the table holds, from the first card to the settlement, with
\* doubles, refusals, lost replies and crashes (playerBet, playerDouble).
THEOREM HandsAreBacked == Patient => (Spec => []HandIsBacked)
<1> SUFFICES ASSUME Patient PROVE Spec => []HandIsBacked
  OBVIOUS
<1>1. Init => TypeInv /\ Course /\ Stakes
  BY InitTypes, InitCourse, InitStakes
<1>2. TypeInv /\ Course /\ Stakes /\ [Next]_vars => TypeInv' /\ Course' /\ Stakes'
  BY NextTypes, NextCourse, NextStakes
<1>3. Stakes => HandIsBacked
  BY DEF Stakes
<1>4. QED
  BY <1>1, <1>2, <1>3, PTL DEF Spec

-----------------------------------------------------------------------------
(* The outcome of a hand, for a patient client and an evaluator that answers *)

\* The player may still draw: fewer than five cards, worth less than 21.
PlayOpen(p) ==
  /\ p.status = "playing"
  /\ p.hand.n \in 2..4
  /\ Value(p.hand) < 21 /\ p.value = Value(p.hand)

\* The player may not: the status is what the cards say.
PlayOver(p) ==
  /\ p.status \in {"standing", "bust", "blackjack"}
  /\ p.status = "bust" <=> Value(p.hand) > 21
  /\ p.status = "blackjack" <=> Natural(p.hand)
  /\ p.value = Value(p.hand)

FaceDown(d) == d.rest.n = 1 /\ d.hole = Hidden
FaceUp(d)   == d.rest.n > 0 /\ d.hole \in 1..10

\* What the dealer comes to the payout with (DealerFinished).
DealerDone(hand, d) ==
  IF Value(hand) > 21 THEN DealerHand(d).n = 2 ELSE Value(DealerHand(d)) >= 17

\* Where the goroutine's copy of the table is the table.
SameCopy == WithCopy \ {"revealed", "drawn"}

\* What the player's hand, value and status are at the steps of goroutine g.
PlayerAgrees(g) ==
  /\ pc[g] \in {"card1_value", "up", "card2"} =>
       player.hand.n = 1 /\ player.hand.sum <= 10
  /\ pc[g] \in {"card2_value", "hole", "naturals"} =>
       player.hand.n = 2 /\ player.hand.sum <= 20
  /\ pc[g] \in {"card1_value", "card2_value", "hole", "naturals", "hit_value", "double_value"} =>
       /\ local[g].value = Value(player.hand)
       /\ local[g].bust <=> Value(player.hand) > 21
  /\ pc[g] \in {"hole", "naturals"} => player.value = Value(player.hand)
  /\ \/ pc[g] \in {"hit", "double", "double_reply", "double_card"}
     \/ pc[g] = "start" /\ table.phase = "player_turn"
     => PlayOpen(player)
  /\ pc[g] \in {"hit_value", "double_value"} =>
       player.status = "playing" /\ player.hand.n \in 3..5
  /\ pc[g] \in {"dealer", "reveal", "revealed", "bust?", "draw", "drawn", "payout"} =>
       PlayOver(player)

\* What the dealer's cards are, on the table or in the goroutine's copy of it.
DealerAgrees(g) ==
  /\ pc[g] \in SameCopy => local[g].s = table
  /\ pc[g] \in {"card2", "card2_value", "hole"} =>
       table.dealer.rest.n = 1 /\ table.dealer.hole = NoCard
  /\ \/ pc[g] \in {"naturals", "reveal"} \cup AtTurn
     \/ pc[g] = "start" /\ table.phase = "player_turn"
     => FaceDown(table.dealer)
  /\ pc[g] = "revealed" => local[g].s.dealer.rest.n = 1
  /\ pc[g] \in {"revealed", "drawn"} =>
       /\ FaceUp(local[g].s.dealer)
       /\ local[g].value = Value(DealerHand(local[g].s.dealer))
  /\ pc[g] = "bust?" => table.dealer.rest.n = 1
  /\ pc[g] \in {"bust?", "draw", "payout"} =>
       /\ FaceUp(table.dealer)
       /\ table.dealer.value = Value(DealerHand(table.dealer))
  /\ pc[g] \in {"draw", "drawn"} => player.status # "bust"
  /\ pc[g] \in {"payout"} \cup AtPay => DealerDone(player.hand, table.dealer)
  /\ pc[g] \in AtPay =>
       local[g].outcome = RulesSay(player.hand, DealerHand(table.dealer))

Agreement ==
  /\ Quiet /\ table.phase = "player_turn" => PlayOpen(player) /\ FaceDown(table.dealer)
  /\ \A g \in Goroutines : PlayerAgrees(g) /\ DealerAgrees(g)

LEMMA InitAgreement == Init => Agreement
BY DEF Init, NewTable, Agreement, PlayerAgrees, DealerAgrees, SameCopy, WithCopy, AtTurn, AtPay

\* A step of g keeps the agreement when g's own part of it holds again.
LEMMA StepAgrees ==
  ASSUME TypeInv, Course, NEW g \in Goroutines, Running(g),
         NEW step \in Steps \ {"idle"}, pc' = [pc EXCEPT ![g] = step],
         PlayerAgrees(g)', DealerAgrees(g)',
         step = "done" /\ table'.phase = "player_turn" =>
           PlayOpen(player') /\ FaceDown(table'.dealer)
  PROVE  Agreement'
<1>1. pc'[g] = step /\ \A h \in Goroutines \ {g} : pc'[h] \in {"idle", "done"}
  BY OthersRest DEF Course, TypeInv, TypeOK
<1>2. \A h \in Goroutines \ {g} : PlayerAgrees(h)' /\ DealerAgrees(h)'
  BY <1>1 DEF PlayerAgrees, DealerAgrees, SameCopy, WithCopy, AtTurn, AtPay
<1>3. Quiet' => step = "done"
  BY <1>1 DEF Quiet, Running
<1>4. QED
  BY <1>2, <1>3 DEF Agreement

\* A goroutine that returns leaves no step to agree with.
LEMMA EndAgrees ==
  ASSUME TypeInv, Course, NEW g \in Goroutines, Running(g), End(g),
         table'.phase = "player_turn" => PlayOpen(player') /\ FaceDown(table'.dealer)
  PROVE  Agreement'
<1>1. pc' = [pc EXCEPT ![g] = "done"] /\ pc'[g] = "done" /\ "done" \in Steps \ {"idle"}
  BY DEF End, Goto, TypeInv, TypeOK, Steps
<1>2. PlayerAgrees(g)' /\ DealerAgrees(g)'
  BY <1>1 DEF PlayerAgrees, DealerAgrees, SameCopy, WithCopy, AtTurn, AtPay
<1>3. QED
  BY <1>1, <1>2, StepAgrees

\* An evaluator that answers gives the value and the bust flag of the hand.
Exact == Faults \cap {"evaluator", "garbled"} = {}

LEMMA ExactEvaluation ==
  ASSUME Exact, NEW h
  PROVE  Evaluations(h) = {[value |-> Value(h), bust |-> Value(h) > 21]}
BY DEF Exact, Evaluations, Possible

\* What Evaluate leaves behind.
LEMMA EvaluateAgrees ==
  ASSUME Exact, TypeInv, NEW g \in Goroutines, NEW hand \in Hand, NEW s, Evaluate(g, hand, s)
  PROVE  /\ player' = [player EXCEPT !.hand = hand] /\ player'.hand = hand
         /\ player'.status = player.status
         /\ local'[g].s = s /\ local'[g].value = Value(hand)
         /\ local'[g].bust <=> Value(hand) > 21
<1>1. PICK hr \in Evaluations(hand) :
        /\ player' = [player EXCEPT !.hand = hand]
        /\ local' = [local EXCEPT ![g].s = s, ![g].value = hr.value, ![g].bust = hr.bust]
  BY DEF Evaluate
<1>2. hr.value = Value(hand) /\ (hr.bust <=> Value(hand) > 21)
  <2>1. hr = [value |-> Value(hand), bust |-> Value(hand) > 21]
    BY ExactEvaluation
  <2>2. QED
    BY <2>1, Zenon
<1>3. local'[g].s = s /\ local'[g].value = hr.value /\ local'[g].bust = hr.bust
  BY <1>1 DEF TypeInv, TypeOK, LocalState
<1>4. QED
  BY <1>1, <1>2, <1>3 DEF TypeInv, TypeOK, PlayerState

LEMMA EvaluateDealerAgrees ==
  ASSUME Exact, TypeInv, NEW g \in Goroutines, NEW d, EvaluateDealer(g, d)
  PROVE  /\ local'[g].s = [table EXCEPT !.dealer = d] /\ local'[g].s.dealer = d
         /\ local'[g].value = Value(DealerHand(d))
<1>1. PICK hr \in Evaluations(DealerHand(d)) :
        local' = [local EXCEPT ![g].s = [table EXCEPT !.dealer = d], ![g].value = hr.value]
  BY DEF EvaluateDealer
<1>2. hr.value = Value(DealerHand(d))
  BY ExactEvaluation
<1>3. local'[g].s = [table EXCEPT !.dealer = d] /\ local'[g].value = hr.value
  BY <1>1 DEF TypeInv, TypeOK, LocalState
<1>4. QED
  BY <1>2, <1>3 DEF TypeInv, TypeOK, TableState

\* playerHit begins where the turn is open, so it draws a card.
LEMMA BeginHitAgrees ==
  ASSUME TypeInv, Course, NEW g \in Goroutines, Running(g), BeginHit(g),
         table' = table, player' = player, PlayOpen(player), FaceDown(table.dealer)
  PROVE  Agreement'
<1>1. pc' = [pc EXCEPT ![g] = "hit"] /\ pc'[g] = "hit" /\ local'[g].s = table
  BY DEF BeginHit, PlayOpen, Goto, Snapshot, TypeInv, TypeOK, LocalState
<1>2. PlayerAgrees(g)' /\ DealerAgrees(g)'
  BY <1>1 DEF PlayerAgrees, DealerAgrees, SameCopy, WithCopy, AtTurn, AtPay
<1>3. QED
  BY <1>1, <1>2, StepAgrees DEF Steps

\* The actions begin: in the player's turn they find the turn open.
LEMMA StartsAgree ==
  ASSUME TypeInv, Course, Agreement, NEW g \in Goroutines,
         Ignore(g) \/ StartBet(g) \/ StartHit(g) \/ Stand(g) \/ StartDouble(g)
  PROVE  Agreement'
<1> USE DEF SameCopy, WithCopy, AtTurn, AtPay
<1>1. pc[g] = "start" /\ Running(g) /\ table' = table
  BY DEF Ignore, StartBet, StartHit, Stand, StartDouble, Starts, Running
<1>2. table.phase = "player_turn" => PlayOpen(player) /\ FaceDown(table.dealer)
  BY <1>1 DEF Agreement, PlayerAgrees, DealerAgrees
<1>3. CASE Ignore(g)
  BY <1>1, <1>2, <1>3, EndAgrees DEF Ignore
<1>4. CASE StartBet(g)
  <2>1. CASE End(g)
    BY <1>1, <1>2, <1>4, <2>1, EndAgrees DEF StartBet
  <2>2. CASE Goto(g, "bet")
    <3>1. pc' = [pc EXCEPT ![g] = "bet"] /\ pc'[g] = "bet"
      BY <2>2 DEF Goto, TypeInv, TypeOK
    <3>2. PlayerAgrees(g)' /\ DealerAgrees(g)'
      BY <3>1 DEF PlayerAgrees, DealerAgrees
    <3>3. QED
      BY <1>1, <3>1, <3>2, StepAgrees DEF Steps
  <2>3. QED
    BY <1>4, <2>1, <2>2 DEF StartBet
<1>5. CASE StartHit(g) \/ Stand(g) \/ StartDouble(g)
  <2>1. PlayOpen(player) /\ FaceDown(table.dealer) /\ table.phase = "player_turn"
    BY <1>2, <1>5 DEF StartHit, Stand, StartDouble, Starts, ValidIn
  <2>2. CASE BeginHit(g) /\ player' = player
    BY <1>1, <2>1, <2>2, BeginHitAgrees
  <2>3. CASE Stand(g)
    <3>1. /\ pc' = [pc EXCEPT ![g] = "dealer"] /\ pc'[g] = "dealer"
          /\ player' = [player EXCEPT !.status = "standing"]
      BY <2>3 DEF Stand, Goto, TypeInv, TypeOK
    <3>2. PlayOver(player')
      BY <2>1, <3>1, ValueType DEF PlayOpen, PlayOver, Natural, TypeInv, TypeOK, PlayerState
    <3>3. PlayerAgrees(g)' /\ DealerAgrees(g)'
      BY <1>1, <2>1, <3>1, <3>2 DEF PlayerAgrees, DealerAgrees
    <3>4. QED
      BY <1>1, <3>1, <3>3, StepAgrees DEF Steps
  <2>4. CASE Goto(g, "double") /\ player' = player
    <3>1. pc' = [pc EXCEPT ![g] = "double"] /\ pc'[g] = "double"
      BY <2>4 DEF Goto, TypeInv, TypeOK
    <3>2. PlayerAgrees(g)' /\ DealerAgrees(g)'
      BY <1>1, <2>1, <2>4, <3>1 DEF PlayerAgrees, DealerAgrees
    <3>3. QED
      BY <1>1, <3>1, <3>2, StepAgrees DEF Steps
  <2>5. QED
    BY <1>5, <2>2, <2>3, <2>4 DEF StartHit, StartDouble
<1>6. QED
  BY <1>3, <1>4, <1>5

\* The bank's answers and the phases before the first card leave the cards alone.
LEMMA BetAgrees ==
  ASSUME TypeInv, Course, Agreement, NEW g \in Goroutines,
         CallBet(g) \/ EnterBetting(g) \/ EnterDealing(g)
  PROVE  Agreement'
<1> USE DEF SameCopy, WithCopy, AtTurn, AtPay
<1>1. Running(g)
  BY DEF CallBet, EnterBetting, EnterDealing, Running
<1>2. CASE CallBet(g)
  <2>1. table' = table /\ player' = player /\ \E step \in {"bet_reply", "double_reply"} :
          /\ pc' = [pc EXCEPT ![g] = step] /\ pc'[g] = step
          /\ step = "double_reply" => pc[g] = "double"
    BY <1>2 DEF CallBet, Goto, TypeInv, TypeOK
  <2>2. pc[g] = "double" => PlayOpen(player) /\ FaceDown(table.dealer)
    BY DEF Agreement, PlayerAgrees, DealerAgrees
  <2>3. PlayerAgrees(g)' /\ DealerAgrees(g)'
    BY <2>1, <2>2 DEF PlayerAgrees, DealerAgrees
  <2>4. QED
    BY <1>1, <2>1, <2>3, StepAgrees DEF Steps
<1>3. CASE EnterBetting(g) /\ End(g)
  BY <1>1, <1>3, EndAgrees DEF EnterBetting, Course, InPhase, AtWaiting
<1>4. CASE (EnterBetting(g) /\ Goto(g, "deal")) \/ EnterDealing(g)
  <2>1. \E step \in {"deal", "card1"} : pc' = [pc EXCEPT ![g] = step] /\ pc'[g] = step
    BY <1>4 DEF EnterDealing, Goto, TypeInv, TypeOK
  <2>2. PlayerAgrees(g)' /\ DealerAgrees(g)'
    BY <2>1 DEF PlayerAgrees, DealerAgrees
  <2>3. QED
    BY <1>1, <2>1, <2>2, StepAgrees DEF Steps
<1>5. QED
  BY <1>2, <1>3, <1>4 DEF EnterBetting

\* The four cards (playerBet): two cards are worth 21 at most.
LEMMA DealAgrees ==
  ASSUME Exact, TypeInv, Course, Agreement, NEW g \in Goroutines,
         DealPlayer(g) \/ ShowPlayer(g) \/ DealUp(g) \/ DealHole(g) \/ CheckNatural(g)
  PROVE  Agreement'
<1> USE DEF SameCopy, WithCopy, AtTurn, AtPay
<1>1. Running(g) /\ PlayerAgrees(g) /\ DealerAgrees(g)
  BY DEF DealPlayer, ShowPlayer, DealUp, DealHole, CheckNatural, Running, Agreement
<1>2. player \in PlayerState /\ player.hand \in Hand /\ table \in TableState
      /\ table.dealer \in Dealer
  BY DEF TypeInv, TypeOK, PlayerState, TableState
<1>3. CASE DealPlayer(g)
  <2> DEFINE held == IF pc[g] = "card1" THEN NoHand ELSE player.hand
             step == IF pc[g] = "card1" THEN "card1_value" ELSE "card2_value"
  <2>1. PICK card \in Ranks : Evaluate(g, Add(held, card), table)
    BY <1>3 DEF DealPlayer
  <2>2. card \in 1..10 /\ held \in Hand
    BY <1>2, NoHandType, GameAssumption
  <2>3. Add(held, card) \in Hand
    BY <2>2, AddType
  <2>4. /\ player'.hand = Add(held, card) /\ local'[g].s = table
        /\ local'[g].value = Value(player'.hand)
        /\ local'[g].bust <=> Value(player'.hand) > 21
    BY <2>1, <2>3, EvaluateAgrees
  <2>5. pc' = [pc EXCEPT ![g] = step] /\ pc'[g] = step /\ table' = table
    BY <1>3 DEF DealPlayer, Goto, TypeInv, TypeOK
  <2>6. CASE pc[g] = "card1"
    <3>1. player'.hand.n = 1 /\ player'.hand.sum <= 10
      BY <2>2, <2>4, <2>6 DEF Add, NoHand, Capped
    <3>2. PlayerAgrees(g)' /\ DealerAgrees(g)'
      BY <2>4, <2>5, <2>6, <3>1 DEF PlayerAgrees, DealerAgrees
    <3>3. QED
      BY <1>1, <2>5, <2>6, <3>2, StepAgrees DEF Steps
  <2>7. CASE pc[g] = "card2"
    <3>1. player.hand.n = 1 /\ player.hand.sum <= 10
      BY <1>1, <2>7 DEF PlayerAgrees
    <3>2. player'.hand.n = 2 /\ player'.hand.sum <= 20
      BY <1>2, <2>2, <2>4, <2>7, <3>1 DEF Add, Capped, Hand
    <3>3. PlayerAgrees(g)' /\ DealerAgrees(g)'
      BY <1>1, <2>4, <2>5, <2>7, <3>2 DEF PlayerAgrees, DealerAgrees
    <3>4. QED
      BY <1>1, <2>5, <2>7, <3>3, StepAgrees DEF Steps
  <2>8. QED
    BY <1>3, <2>6, <2>7 DEF DealPlayer
<1>4. CASE ShowPlayer(g)
  <2>1. table' = table
    BY <1>1, <1>4 DEF ShowPlayer, DealerAgrees
  <2>2. player' = [player EXCEPT !.value = local[g].value] /\ local' = local
    BY <1>4 DEF ShowPlayer
  <2>3. player'.hand = player.hand /\ player'.value = local[g].value
    BY <1>2, <2>2 DEF PlayerState
  <2>4. \E step \in {"up", "hole"} :
          /\ pc' = [pc EXCEPT ![g] = step] /\ pc'[g] = step
          /\ step = "up" <=> pc[g] = "card1_value"
          /\ step = "hole" <=> pc[g] = "card2_value"
    BY <1>4 DEF ShowPlayer, Goto, TypeInv, TypeOK
  <2>5. PlayerAgrees(g)' /\ DealerAgrees(g)'
    BY <1>1, <2>1, <2>2, <2>3, <2>4 DEF PlayerAgrees, DealerAgrees
  <2>6. QED
    BY <1>1, <2>4, <2>5, StepAgrees DEF Steps
<1>5. CASE DealUp(g)
  <2>1. pc' = [pc EXCEPT ![g] = "card2"] /\ pc'[g] = "card2" /\ UNCHANGED <<player, local>>
    BY <1>5 DEF DealUp, Goto, TypeInv, TypeOK
  <2>2. table'.dealer.rest.n = 1 /\ table'.dealer.hole = NoCard
    BY <1>2, <1>5 DEF DealUp, TableState, Add, NoHand, Capped
  <2>3. PlayerAgrees(g)' /\ DealerAgrees(g)'
    BY <1>1, <1>5, <2>1, <2>2 DEF DealUp, PlayerAgrees, DealerAgrees
  <2>4. QED
    BY <1>1, <2>1, <2>3, StepAgrees DEF Steps
<1>6. CASE DealHole(g)
  <2>1. pc' = [pc EXCEPT ![g] = "naturals"] /\ pc'[g] = "naturals"
        /\ UNCHANGED <<player, local>>
    BY <1>6 DEF DealHole, Goto, TypeInv, TypeOK
  <2>2. table.dealer.rest.n = 1 /\ table.dealer.hole = NoCard
    BY <1>1, <1>6 DEF DealHole, DealerAgrees
  <2>3. table'.dealer = [table.dealer EXCEPT !.hole = Hidden]
    BY <1>2, <1>6, <2>2 DEF DealHole, Draw, TableState
  <2>4. FaceDown(table'.dealer)
    BY <1>2, <2>2, <2>3 DEF FaceDown, Dealer
  <2>5. PlayerAgrees(g)' /\ DealerAgrees(g)'
    BY <1>1, <1>6, <2>1, <2>4 DEF DealHole, PlayerAgrees, DealerAgrees
  <2>6. QED
    BY <1>1, <2>1, <2>5, StepAgrees DEF Steps
<1>7. CASE CheckNatural(g)
  <2>1. /\ player.hand.n = 2 /\ player.hand.sum <= 20 /\ FaceDown(table.dealer)
        /\ local[g].value = Value(player.hand) /\ player.value = Value(player.hand)
    BY <1>1, <1>7 DEF CheckNatural, PlayerAgrees, DealerAgrees
  <2>2. Value(player.hand) \in 0..21
    BY <1>2, <2>1 DEF Value, Hand
  <2>3. table'.dealer = table.dealer
    BY <1>2, <1>7 DEF CheckNatural, TableState
  <2>4. CASE local[g].value = 21
    <3>1. /\ pc' = [pc EXCEPT ![g] = "dealer"] /\ pc'[g] = "dealer"
          /\ player' = [player EXCEPT !.status = "blackjack"]
      BY <1>7, <2>4 DEF CheckNatural, Goto, TypeInv, TypeOK
    <3>2. /\ player'.hand = player.hand /\ player'.value = player.value
          /\ player'.status = "blackjack"
      BY <1>2, <3>1 DEF PlayerState
    <3>3. PlayOver(player')
      <4>1. Value(player'.hand) = 21 /\ player'.hand.n = 2 /\ player'.value = 21
        BY <2>1, <2>4, <3>2
      <4>2. QED
        BY <3>2, <4>1 DEF PlayOver, Natural
    <3>4. PlayerAgrees(g)' /\ DealerAgrees(g)'
      BY <2>1, <2>3, <3>1, <3>3 DEF PlayerAgrees, DealerAgrees, FaceDown
    <3>5. QED
      BY <1>1, <3>1, <3>4, StepAgrees DEF Steps
  <2>5. CASE local[g].value # 21
    <3>1. End(g) /\ player' = [player EXCEPT !.status = "playing"]
      BY <1>7, <2>5 DEF CheckNatural
    <3>2. PlayOpen(player')
      BY <1>2, <2>1, <2>2, <2>5, <3>1 DEF PlayOpen, PlayerState
    <3>3. QED
      BY <1>1, <2>1, <2>3, <3>1, <3>2, EndAgrees DEF FaceDown
  <2>6. QED
    BY <2>4, <2>5
<1>8. QED
  BY <1>3, <1>4, <1>5, <1>6, <1>7

\* playerHit and playerDouble: what ends the turn, and how.
LEMMA TurnAgrees ==
  ASSUME Exact, TypeInv, Course, Agreement, NEW g \in Goroutines,
         TakeDouble(g) \/ DrawPlayer(g) \/ ShowHit(g) \/ ShowDouble(g)
  PROVE  Agreement'
<1> USE DEF SameCopy, WithCopy, AtTurn, AtPay
<1>1. Running(g) /\ PlayerAgrees(g) /\ DealerAgrees(g) /\ FaceDown(table.dealer)
  BY DEF TakeDouble, DrawPlayer, ShowHit, ShowDouble, Running, Agreement, DealerAgrees
<1>2. player \in PlayerState /\ player.hand \in Hand
  BY DEF TypeInv, TypeOK, PlayerState
<1>3. CASE TakeDouble(g)
  <2>1. PlayOpen(player) /\ table' = table
    BY <1>1, <1>3 DEF TakeDouble, PlayerAgrees
  <2>2. CASE local[g].tx = NoTx
    BY <1>1, <1>3, <2>1, <2>2, BeginHitAgrees DEF TakeDouble
  <2>3. CASE local[g].tx # NoTx
    <3>1. /\ player'.status = player.status /\ player'.hand = player.hand
          /\ player'.value = player.value
      BY <1>2, <1>3, <2>3 DEF TakeDouble, Doubled, PlayerState
    <3>2. pc' = [pc EXCEPT ![g] = "double_card"] /\ pc'[g] = "double_card"
          /\ local'[g].s = table
      BY <1>3, <2>3 DEF TakeDouble, Goto, Snapshot, TypeInv, TypeOK, LocalState
    <3>3. PlayerAgrees(g)' /\ DealerAgrees(g)'
      BY <1>1, <2>1, <3>1, <3>2 DEF PlayerAgrees, DealerAgrees, PlayOpen
    <3>4. QED
      BY <1>1, <3>2, <3>3, StepAgrees DEF Steps
  <2>4. QED
    BY <2>2, <2>3
<1>4. CASE DrawPlayer(g)
  <2> DEFINE step == IF pc[g] = "hit" THEN "hit_value" ELSE "double_value"
  <2>1. PlayOpen(player) /\ local[g].s = table /\ table' = table
    BY <1>1, <1>4 DEF DrawPlayer, PlayerAgrees, DealerAgrees
  <2>2. PICK card \in Deck(IF pc[g] = "hit" THEN 7 ELSE 4) :
          Evaluate(g, Add(player.hand, card), table)
    BY <1>4, <2>1 DEF DrawPlayer
  <2>3. card \in 1..10
    BY DeckType
  <2>4. Add(player.hand, card) \in Hand
    BY <1>2, <2>3, AddType
  <2>5. /\ player'.hand = Add(player.hand, card) /\ player'.status = player.status
        /\ local'[g].s = table /\ local'[g].value = Value(player'.hand)
        /\ local'[g].bust <=> Value(player'.hand) > 21
    BY <2>2, <2>4, EvaluateAgrees
  <2>6. player'.status = "playing" /\ player'.hand.n \in 3..5
    BY <2>1, <2>5 DEF PlayOpen, Add, Capped
  <2>7. pc' = [pc EXCEPT ![g] = step] /\ pc'[g] = step
    BY <1>4 DEF DrawPlayer, Goto, TypeInv, TypeOK
  <2>8. PlayerAgrees(g)' /\ DealerAgrees(g)'
    BY <1>1, <2>1, <2>5, <2>6, <2>7 DEF PlayerAgrees, DealerAgrees
  <2>9. QED
    BY <1>1, <2>7, <2>8, StepAgrees DEF Steps
<1>5. CASE ShowHit(g) \/ ShowDouble(g)
  <2>1. /\ player.status = "playing" /\ player.hand.n \in 3..5 /\ table' = table
        /\ local[g].value = Value(player.hand)
        /\ local[g].bust <=> Value(player.hand) > 21
    BY <1>1, <1>5 DEF ShowHit, ShowDouble, PlayerAgrees, DealerAgrees
  <2>2. Value(player.hand) \in 0..22
    BY <1>2, ValueType
  <2>3. PICK status \in Statuses :
          /\ player' = [player EXCEPT !.value = local[g].value, !.status = status]
          /\ local[g].bust => status = "bust"
          /\ ~local[g].bust =>
               status \in {"standing"} \cup (IF End(g) THEN {"playing"} ELSE {})
    BY <1>5, <2>1 DEF ShowHit, ShowDouble, Statuses
  <2>4. /\ player'.value = Value(player.hand) /\ player'.status = status
        /\ player'.hand = player.hand
    BY <1>2, <2>1, <2>3 DEF PlayerState
  <2>5. CASE Goto(g, "dealer")
    <3>1. pc' = [pc EXCEPT ![g] = "dealer"] /\ pc'[g] = "dealer" /\ ~End(g)
      BY <2>5 DEF Goto, End, TypeInv, TypeOK
    <3>2. PlayOver(player')
      BY <2>1, <2>2, <2>3, <2>4, <3>1 DEF PlayOver, Natural
    <3>3. PlayerAgrees(g)' /\ DealerAgrees(g)'
      BY <1>1, <2>1, <3>1, <3>2 DEF PlayerAgrees, DealerAgrees
    <3>4. QED
      BY <1>1, <3>1, <3>3, StepAgrees DEF Steps
  <2>6. CASE ShowHit(g) /\ End(g)
    <3>1. ~local[g].bust /\ local[g].value # 21 /\ player.hand.n < 5
          /\ player'.status = "playing"
      BY <1>2, <2>1, <2>6, <2>4 DEF ShowHit, End, Goto, TypeInv, TypeOK, PlayerState
    <3>2. PlayOpen(player')
      BY <2>1, <2>2, <2>4, <3>1 DEF PlayOpen
    <3>3. QED
      BY <1>1, <2>1, <2>6, <3>2, EndAgrees
  <2>7. QED
    BY <1>5, <2>5, <2>6 DEF ShowHit, ShowDouble
<1>6. QED
  BY <1>3, <1>4, <1>5

\* A card on a dealer's hand that shows two cards or more leaves it so.
LEMMA DrawFaceUp ==
  ASSUME NEW d \in Dealer, FaceUp(d), NEW card \in 1..10
  PROVE  FaceUp(Draw(d, card))
<1>1. d.hole # NoCard
  BY DEF FaceUp, NoCard
<1>2. Draw(d, card) = [d EXCEPT !.rest = Add(d.rest, card)]
  BY <1>1 DEF Draw
<1>3. Add(d.rest, card).n > 0
  BY DEF Add, Capped, FaceUp, Dealer, Hand
<1>4. QED
  BY <1>2, <1>3 DEF FaceUp, Dealer

\* The value shown with the dealer's cards is not one of them.
LEMMA DealerHandOfCards ==
  ASSUME NEW d \in Dealer, NEW value \in 0..22, NEW e, e = [d EXCEPT !.value = value]
  PROVE  /\ e \in Dealer /\ e.value = value /\ e.rest = d.rest
         /\ DealerHand(e) = DealerHand(d)
         /\ FaceUp(e) <=> FaceUp(d)
BY DEF DealerHand, FaceUp, Dealer

\* The dealer stops at 17, or with two cards when the player is bust.
LEMMA DealerStops ==
  ASSUME NEW p \in PlayerState, NEW d \in Dealer, PlayOver(p), FaceUp(d),
         d.value = Value(DealerHand(d)),
         IF p.status = "bust" THEN d.rest.n = 1 ELSE ~DealerDraws(d.value)
  PROVE  DealerDone(p.hand, d)
<1>1. CASE p.status = "bust"
  BY <1>1 DEF DealerDone, PlayOver, FaceUp, DealerHand, Add, Capped, NoCard
<1>2. CASE p.status # "bust"
  BY <1>2, ValueType, DealerHandType DEF DealerDone, PlayOver, DealerDraws
<1>3. QED
  BY <1>1, <1>2

\* runDealerTurnPlayer: the dealer's value is that of the dealer's cards.
LEMMA DealerAgree ==
  ASSUME Exact, TypeInv, Course, Agreement, NEW g \in Goroutines,
         EnterDealerTurn(g) \/ Reveal(g) \/ ShowDealer(g) \/ CheckBust(g) \/ DealerDraw(g)
  PROVE  Agreement'
<1> USE DEF SameCopy, WithCopy, AtTurn, AtPay
<1>1. Running(g) /\ PlayerAgrees(g) /\ DealerAgrees(g) /\ player' = player
  BY DEF EnterDealerTurn, Reveal, ShowDealer, CheckBust, DealerDraw, Running, Agreement
<1>2. PlayOver(player)
  BY <1>1 DEF EnterDealerTurn, Reveal, ShowDealer, CheckBust, DealerDraw, PlayerAgrees
<1>3. player \in PlayerState /\ table \in TableState /\ table.dealer \in Dealer
      /\ local[g] \in LocalState /\ local[g].s \in TableState /\ local[g].s.dealer \in Dealer
  BY DEF TypeInv, TypeOK, TableState, LocalState
<1>4. CASE EnterDealerTurn(g)
  <2>1. pc' = [pc EXCEPT ![g] = "reveal"] /\ pc'[g] = "reveal" /\ table'.dealer = table.dealer
    BY <1>3, <1>4 DEF EnterDealerTurn, Goto, TypeInv, TypeOK, TableState
  <2>2. FaceDown(table.dealer)
    BY <1>1, <1>4 DEF EnterDealerTurn, DealerAgrees
  <2>3. PlayerAgrees(g)' /\ DealerAgrees(g)'
    BY <1>1, <1>2, <2>1, <2>2 DEF PlayerAgrees, DealerAgrees
  <2>4. QED
    BY <1>1, <2>1, <2>3, StepAgrees DEF Steps
<1>5. CASE Reveal(g)
  <2>1. FaceDown(table.dealer) /\ table.dealer.hole # NoCard
    BY <1>1, <1>5 DEF Reveal, DealerAgrees, FaceDown, NoCard, Hidden
  <2>2. PICK card \in Deck(8) : EvaluateDealer(g, [table.dealer EXCEPT !.hole = card])
    BY <1>5, <2>1 DEF Reveal
  <2>3. card \in 1..10
    BY DeckType
  <2> DEFINE d == [table.dealer EXCEPT !.hole = card]
  <2>4. d.rest.n = 1 /\ FaceUp(d)
    BY <1>3, <2>1, <2>3 DEF FaceDown, FaceUp, Dealer
  <2>5. local'[g].s.dealer = d /\ local'[g].value = Value(DealerHand(d))
    BY <2>2, EvaluateDealerAgrees
  <2>6. pc' = [pc EXCEPT ![g] = "revealed"] /\ pc'[g] = "revealed"
    BY <1>5 DEF Reveal, Goto, TypeInv, TypeOK
  <2> HIDE DEF d
  <2>7. PlayerAgrees(g)' /\ DealerAgrees(g)'
    BY <1>1, <1>2, <2>4, <2>5, <2>6 DEF PlayerAgrees, DealerAgrees
  <2>8. QED
    BY <1>1, <2>6, <2>7, StepAgrees DEF Steps
<1>6. CASE DealerDraw(g)
  <2>1. FaceUp(table.dealer) /\ player.status # "bust"
    BY <1>1, <1>6 DEF DealerDraw, DealerAgrees
  <2>2. PICK card \in Deck(3) : EvaluateDealer(g, Draw(table.dealer, card))
    BY <1>6 DEF DealerDraw
  <2>3. card \in 1..10
    BY DeckType
  <2>4. FaceUp(Draw(table.dealer, card))
    BY <1>3, <2>1, <2>3, DrawFaceUp
  <2>5. /\ local'[g].s.dealer = Draw(table.dealer, card)
        /\ local'[g].value = Value(DealerHand(Draw(table.dealer, card)))
    BY <2>2, EvaluateDealerAgrees
  <2>6. pc' = [pc EXCEPT ![g] = "drawn"] /\ pc'[g] = "drawn"
    BY <1>6 DEF DealerDraw, Goto, TypeInv, TypeOK
  <2>7. PlayerAgrees(g)' /\ DealerAgrees(g)'
    BY <1>1, <1>2, <2>1, <2>4, <2>5, <2>6 DEF PlayerAgrees, DealerAgrees
  <2>8. QED
    BY <1>1, <2>6, <2>7, StepAgrees DEF Steps
<1>7. CASE ShowDealer(g)
  <2> DEFINE d == local[g].s.dealer
             step == IF pc[g] = "revealed" THEN "bust?" ELSE AfterDealerCard(local[g].value)
  <2>1. /\ FaceUp(d) /\ local[g].value = Value(DealerHand(d)) /\ local[g].value \in 0..22
        /\ pc[g] = "revealed" => d.rest.n = 1
        /\ pc[g] = "drawn" => player.status # "bust"
    BY <1>1, <1>3, <1>7 DEF ShowDealer, DealerAgrees, LocalState
  <2>2. table'.dealer = [d EXCEPT !.value = local[g].value]
    BY <1>3, <1>7 DEF ShowDealer, TableState
  <2>3. /\ FaceUp(table'.dealer) /\ table'.dealer.value = Value(DealerHand(table'.dealer))
        /\ table'.dealer.value = local[g].value /\ table'.dealer.rest = d.rest
        /\ table'.dealer \in Dealer
    BY <1>3, <2>1, <2>2, DealerHandOfCards
  <2>4. pc' = [pc EXCEPT ![g] = step] /\ pc'[g] = step /\ step \in {"bust?", "draw", "payout"}
    BY <1>7 DEF ShowDealer, Goto, AfterDealerCard, TypeInv, TypeOK
  <2>5. /\ step = "bust?" => table'.dealer.rest.n = 1
        /\ step # "bust?" => player.status # "bust"
        /\ step = "payout" => ~DealerDraws(table'.dealer.value)
    BY <1>7, <2>1, <2>3 DEF ShowDealer, AfterDealerCard
  <2> HIDE DEF d, step
  <2>6. step = "payout" => DealerDone(player.hand, table'.dealer)
    BY <1>2, <1>3, <2>3, <2>5, DealerStops
  <2>7. PlayerAgrees(g)' /\ DealerAgrees(g)'
    BY <1>1, <1>2, <2>3, <2>4, <2>5, <2>6 DEF PlayerAgrees, DealerAgrees
  <2>8. QED
    BY <1>1, <2>4, <2>7, StepAgrees DEF Steps
<1>8. CASE CheckBust(g)
  <2> DEFINE step == IF player.status = "bust" THEN "payout"
                     ELSE AfterDealerCard(table.dealer.value)
  <2>1. /\ FaceUp(table.dealer) /\ table.dealer.value = Value(DealerHand(table.dealer))
        /\ table.dealer.rest.n = 1 /\ table' = table
    BY <1>1, <1>8 DEF CheckBust, DealerAgrees
  <2>2. pc' = [pc EXCEPT ![g] = step] /\ pc'[g] = step /\ step \in {"draw", "payout"}
    BY <1>8 DEF CheckBust, Goto, AfterDealerCard, TypeInv, TypeOK
  <2>3. /\ step = "draw" => player.status # "bust"
        /\ step = "payout" /\ player.status # "bust" => ~DealerDraws(table.dealer.value)
    BY DEF AfterDealerCard
  <2> HIDE DEF step
  <2>4. step = "payout" => DealerDone(player.hand, table.dealer)
    BY <1>2, <1>3, <2>1, <2>3, DealerStops
  <2>5. PlayerAgrees(g)' /\ DealerAgrees(g)'
    BY <1>1, <1>2, <2>1, <2>2, <2>3, <2>4 DEF PlayerAgrees, DealerAgrees
  <2>6. QED
    BY <1>1, <2>2, <2>5, StepAgrees DEF Steps
<1>9. QED
  BY <1>4, <1>5, <1>6, <1>7, <1>8

\* The switch of runPayoutPlayer, on statuses and stored values, is the rules of
\* the game when these agree with the cards.
LEMMA OutcomeOfCards ==
  ASSUME NEW p \in PlayerState, NEW d \in Dealer, PlayOver(p),
         d.value = Value(DealerHand(d))
  PROVE  Outcome(p, d) = RulesSay(p.hand, DealerHand(d))
<1>1. Value(p.hand) \in 0..22 /\ Value(DealerHand(d)) \in 0..22 /\ p.hand.n \in 0..5
  BY ValueType, DealerHandType DEF PlayerState, Hand
<1>2. CASE p.status = "bust"
  BY <1>2 DEF Outcome, RulesSay, PlayOver
<1>3. CASE p.status = "blackjack"
  BY <1>3 DEF Outcome, RulesSay, PlayOver, Natural
<1>4. CASE p.status = "standing"
  BY <1>1, <1>4 DEF Outcome, RulesSay, PlayOver, Natural
<1>5. QED
  BY <1>2, <1>3, <1>4 DEF PlayOver

\* The settlement decides on the cards and leaves them alone until the next hand.
LEMMA PayoutAgrees ==
  ASSUME TypeInv, Course, Agreement, NEW g \in Goroutines,
         Decide(g) \/ CallPayout(g) \/ Paid(g) \/ NextHand(g)
  PROVE  Agreement'
<1> USE DEF SameCopy, WithCopy, AtTurn, AtPay
<1>1. Running(g) /\ PlayerAgrees(g) /\ DealerAgrees(g)
  BY DEF Decide, CallPayout, Paid, NextHand, Running, Agreement
<1>2. player \in PlayerState /\ table \in TableState /\ table.dealer \in Dealer
      /\ local[g] \in LocalState
  BY DEF TypeInv, TypeOK, TableState
<1>3. CASE Decide(g)
  <2> DEFINE outcome == Outcome(player, table.dealer)
             paying  == [table EXCEPT !.phase = "payout"]
             tx      == IF player.tx # NoTx THEN player.tx ELSE player.tx2
  <2>1. /\ PlayOver(player) /\ DealerDone(player.hand, table.dealer)
        /\ table.dealer.value = Value(DealerHand(table.dealer))
    BY <1>1, <1>3 DEF Decide, PlayerAgrees, DealerAgrees
  <2>2. outcome = RulesSay(player.hand, DealerHand(table.dealer))
    BY <1>2, <2>1, OutcomeOfCards
  <2>3. /\ local' = [local EXCEPT ![g].s = paying, ![g].outcome = outcome, ![g].tx = tx]
        /\ player' = [player EXCEPT !.status = StatusAfter(outcome)]
        /\ table' \in {paying, table}
    BY <1>3 DEF Decide
  <2> HIDE DEF outcome
  <2>4. player'.hand = player.hand /\ table'.dealer = table.dealer
    BY <1>2, <2>3 DEF PlayerState, TableState
  <2>5. \E step \in {"pay1", "pay2", "reset"} : pc' = [pc EXCEPT ![g] = step] /\ pc'[g] = step
    BY <1>3 DEF Decide, Goto, TypeInv, TypeOK
  <2>6. local'[g].outcome = outcome
    <3> HIDE DEF paying, tx
    <3>1. QED
      BY <1>2, <2>3 DEF LocalState, TypeInv, TypeOK
  <2>7. PlayerAgrees(g)' /\ DealerAgrees(g)'
    BY <2>1, <2>2, <2>4, <2>5, <2>6 DEF PlayerAgrees, DealerAgrees
  <2>8. QED
    BY <1>1, <2>5, <2>7, StepAgrees DEF Steps
<1>4. CASE CallPayout(g)
  <2>1. player' = player /\ table' = table /\ local'[g].outcome = local[g].outcome
    BY <1>2, <1>4 DEF CallPayout, LocalState, TypeInv, TypeOK
  <2>2. pc[g] \in AtPay /\ \E step \in {"paid1", "paid2"} :
          pc' = [pc EXCEPT ![g] = step] /\ pc'[g] = step
    BY <1>4 DEF CallPayout, Goto, TypeInv, TypeOK
  <2>3. PlayerAgrees(g)' /\ DealerAgrees(g)'
    BY <1>1, <2>1, <2>2 DEF PlayerAgrees, DealerAgrees
  <2>4. QED
    BY <1>1, <2>2, <2>3, StepAgrees DEF Steps
<1>5. CASE Paid(g)
  <2>1. player'.hand = player.hand /\ pc[g] \in AtPay
    BY <1>2, <1>5 DEF Paid, PlayerState
  <2>2. \/ /\ pc' = [pc EXCEPT ![g] = "pay2"] /\ pc'[g] = "pay2"
           /\ table' = table /\ local'[g].outcome = local[g].outcome
        \/ pc' = [pc EXCEPT ![g] = "reset"] /\ pc'[g] = "reset"
    BY <1>2, <1>5 DEF Paid, Goto, LocalState, TypeInv, TypeOK
  <2>3. PlayerAgrees(g)' /\ DealerAgrees(g)'
    BY <1>1, <2>1, <2>2 DEF PlayerAgrees, DealerAgrees
  <2>4. QED
    BY <1>1, <2>2, <2>3, StepAgrees DEF Steps
<1>6. CASE NextHand(g)
  BY <1>1, <1>6, EndAgrees DEF NextHand, NewTable
<1>7. QED
  BY <1>3, <1>4, <1>5, <1>6

\* A patient client acts between the steps of a hand, when its turn is open.
LEMMA ReceiveAgrees ==
  ASSUME Patient, TypeInv, Agreement, NEW g \in Goroutines, Receive(g)
  PROVE  Agreement'
<1>1. pc' = [pc EXCEPT ![g] = "start"] /\ pc'[g] = "start"
      /\ UNCHANGED <<table, player, local>>
  BY DEF Receive, Goto, TypeInv, TypeOK
<1>2. Quiet /\ \A h \in Goroutines \ {g} : pc'[h] \in {"idle", "done"}
  BY <1>1 DEF Receive, Quiet, Running, TypeInv, TypeOK
<1>3. table.phase = "player_turn" => PlayOpen(player) /\ FaceDown(table.dealer)
  BY <1>2 DEF Agreement
<1>4. \A h \in Goroutines : PlayerAgrees(h)' /\ DealerAgrees(h)'
  BY <1>1, <1>2, <1>3 DEF PlayerAgrees, DealerAgrees, SameCopy, WithCopy, AtTurn, AtPay
<1>5. ~Quiet'
  BY <1>1 DEF Quiet, Running
<1>6. QED
  BY <1>4, <1>5 DEF Agreement

LEMMA CrashAgrees ==
  ASSUME TypeInv, Crash
  PROVE  Agreement'
<1>1. table'.phase = "waiting" /\ \A g \in Goroutines : pc'[g] \in {"idle", "done"}
  BY DEF Crash, NewTable, TypeInv, TypeOK, Running
<1>2. QED
  BY <1>1 DEF Agreement, PlayerAgrees, DealerAgrees, SameCopy, WithCopy, AtTurn, AtPay

LEMMA NextAgreement ==
  Patient /\ Exact /\ TypeInv /\ Course /\ Agreement /\ [Next]_vars => Agreement'
<1> SUFFICES ASSUME Patient, Exact, TypeInv, Course, Agreement, [Next]_vars PROVE Agreement'
  OBVIOUS
<1>1. CASE UNCHANGED vars
  BY <1>1 DEF vars, Agreement, Quiet, Running, PlayerAgrees, DealerAgrees
<1>2. ASSUME NEW g \in Goroutines, Run(g)
      PROVE  Agreement'
  BY <1>2, StartsAgree, BetAgrees, DealAgrees, TurnAgrees, DealerAgree, PayoutAgrees DEF Run
<1>3. CASE Next
  BY <1>2, <1>3, ReceiveAgrees, CrashAgrees DEF Next
<1>4. QED
  BY <1>1, <1>3

LEMMA AlwaysAgree == Patient /\ Exact => (Spec => []Agreement)
<1> SUFFICES ASSUME Patient, Exact PROVE Spec => []Agreement
  OBVIOUS
<1>1. Init => TypeInv /\ Course /\ Agreement
  BY InitTypes, InitCourse, InitAgreement
<1>2. TypeInv /\ Course /\ Agreement /\ [Next]_vars => TypeInv' /\ Course' /\ Agreement'
  BY NextTypes, NextCourse, NextAgreement
<1>3. QED
  BY <1>1, <1>2, PTL DEF Spec

\* With a patient client and an evaluator that answers, bets are settled for
\* what the cards on the table say, whatever fails in the bank or the deck and
\* however often the table crashes (runPayoutPlayer).
THEOREM OutcomesAreFair == Patient /\ Exact => (Spec => []OutcomeFair)
<1>1. Agreement => OutcomeFair
  BY DEF Agreement, DealerAgrees, AtPay, OutcomeFair
<1>2. QED
  BY <1>1, AlwaysAgree, PTL

\* Then the dealer has drawn to 17, or has two cards because the player is bust
\* (runDealerTurnPlayer).
THEOREM DealersFinish == Patient /\ Exact => (Spec => []DealerFinished)
<1>1. Agreement => DealerFinished
  BY DEF Agreement, DealerAgrees, AtPay, DealerDone, DealerFinished
<1>2. QED
  BY <1>1, AlwaysAgree, PTL

-----------------------------------------------------------------------------
(* Chips and debts, for a patient client and a bank that answers *)

\* A bet at the bank is one of the table's, or its id is on the way to it.
Held(h) ==
  \/ h \in {player.tx, player.tx2}
  \/ \E g \in Goroutines : pc[g] \in {"bet_reply", "double_reply"} /\ local[g].tx = h

\* The goroutine has heard of a balance that the table does not show yet.
Heard(g) ==
  \/ pc[g] \in {"bet_reply", "double_reply"} /\ local[g].tx # NoTx
  \/ pc[g] \in {"paid1", "paid2"} /\ local[g].reply # NoReply

\* A bet is paid under the id that is dropped next.
PaysHeld(g) ==
  /\ pc[g] = "pay1" => local[g].tx = player.tx
  /\ pc[g] = "pay2" => local[g].tx = player.tx2
  /\ pc[g] = "paid1" => player.tx # NoTx /\ bets[player.tx] = 0
  /\ pc[g] = "paid2" => player.tx2 # NoTx /\ bets[player.tx2] = 0

Accounts ==
  /\ \A h \in Goroutines : bets[h] # 0 => Held(h)
  /\ \A g \in Goroutines : PaysHeld(g)
  /\ \A g \in Goroutines : Heard(g) => local[g].reply = Dollars(balance)
  /\ (\A g \in Goroutines : ~Heard(g)) => player.chips = Dollars(balance)

LEMMA InitAccounts == Init => Accounts
<1> SUFFICES ASSUME Init PROVE Accounts
  OBVIOUS
<1>1. player.chips = StartingChips /\ balance = 2 * StartingChips /\ StartingChips \in Nat
      /\ (\A g \in Goroutines : pc[g] = "idle" /\ bets[g] = 0)
  BY GameAssumption DEF Init, NewPlayer
<1>2. player.chips = Dollars(balance)
  BY <1>1 DEF Dollars
<1>3. QED
  BY <1>1, <1>2 DEF Accounts, PaysHeld, Heard

\* Where money moves or waits to be shown.
AtBank == {"bet_reply", "double_reply"} \cup AtPay

\* A bank that answers, and a process that stays up.
Answered == Faults \cap {"lost", "down", "crash"} = {}

\* The other goroutines neither wait for the bank nor have heard from it.
LEMMA OthersIdle ==
  ASSUME TypeInv, Course, NEW g \in Goroutines, Running(g), NEW step,
         pc' = [pc EXCEPT ![g] = step]
  PROVE  /\ pc'[g] = step
         /\ \A h \in Goroutines \ {g} :
              /\ pc[h] \notin AtBank /\ pc'[h] \notin AtBank
              /\ ~Heard(h) /\ ~Heard(h)' /\ PaysHeld(h)'
<1>1. pc'[g] = step /\ \A h \in Goroutines \ {g} : pc[h] \in {"idle", "done"} /\ pc'[h] = pc[h]
  BY OthersRest DEF Course, TypeInv, TypeOK
<1>2. QED
  BY <1>1 DEF AtBank, AtPay, Heard, PaysHeld

\* A step away from the bank that leaves chips and ids alone.
LEMMA StillAccounts ==
  ASSUME TypeInv, Course, Accounts, NEW g \in Goroutines, Running(g), NEW step,
         pc' = [pc EXCEPT ![g] = step], step \notin AtBank, ~Heard(g),
         pc[g] \notin {"bet_reply", "double_reply"} \/ local[g].tx = NoTx,
         UNCHANGED <<balance, bets>>,
         player'.chips = player.chips, player'.tx = player.tx, player'.tx2 = player.tx2
  PROVE  Accounts'
<1>1. /\ pc'[g] = step
      /\ \A h \in Goroutines \ {g} :
           /\ pc[h] \notin AtBank /\ pc'[h] \notin AtBank
           /\ ~Heard(h) /\ ~Heard(h)' /\ PaysHeld(h)'
  BY OthersIdle
<1>2. ~Heard(g)' /\ PaysHeld(g)'
  BY <1>1 DEF Heard, PaysHeld, AtBank, AtPay
<1>3. player.chips = Dollars(balance)
  BY <1>1 DEF Accounts
<1>4. ASSUME NEW h \in Goroutines, bets'[h] # 0
      PROVE  Held(h)'
  <2>1. h # NoTx /\ Held(h)
    BY <1>4, TxAssumption DEF Accounts
  <2>2. QED
    BY <1>1, <2>1 DEF Held, AtBank
<1>5. QED
  BY <1>1, <1>2, <1>3, <1>4 DEF Accounts

\* callBankBet: a bet that is placed is on its way to the table, with the
\* balance that is left.
LEMMA CallBetAccounts ==
  ASSUME Answered, TypeInv, Course, Accounts, NEW g \in Goroutines, CallBet(g)
  PROVE  Accounts'
<1> DEFINE step == IF pc[g] = "bet" THEN "bet_reply" ELSE "double_reply"
<1>1. pc' = [pc EXCEPT ![g] = step] /\ pc[g] \in {"bet", "double"} /\ Running(g)
      /\ UNCHANGED <<table, player>>
  BY DEF CallBet, Goto, Running
<1>2. step \in {"bet_reply", "double_reply"}
  OBVIOUS
<1> HIDE DEF step
<1>3. /\ pc'[g] = step
      /\ \A h \in Goroutines \ {g} :
           /\ pc[h] \notin AtBank /\ pc'[h] \notin AtBank
           /\ ~Heard(h) /\ ~Heard(h)' /\ PaysHeld(h)'
  BY <1>1, OthersIdle
<1>4. PaysHeld(g)' /\ ~Heard(g) /\ player.chips = Dollars(balance)
  BY <1>1, <1>2, <1>3 DEF PaysHeld, Heard, Accounts
<1>5. \A h \in Goroutines : bets[h] # 0 => h \in {player.tx, player.tx2}
  BY <1>1, <1>3 DEF Accounts, Held, AtBank
<1>6. CASE local' = [local EXCEPT ![g].tx = NoTx] /\ UNCHANGED <<balance, bets>>
  <2>1. local'[g].tx = NoTx
    BY <1>6 DEF TypeInv, TypeOK, LocalState
  <2>2. ~Heard(g)'
    BY <1>2, <1>3, <2>1 DEF Heard
  <2>3. QED
    BY <1>1, <1>3, <1>4, <1>5, <1>6, <2>2 DEF Accounts, Held
<1>7. CASE /\ bets' = [bets EXCEPT ![g] = local[g].amount]
           /\ local' = [local EXCEPT ![g].tx = g, ![g].reply = Dollars(balance')]
  <2>1. local'[g].tx = g /\ local'[g].reply = Dollars(balance') /\ g # NoTx
    BY <1>7, TxAssumption DEF TypeInv, TypeOK, LocalState
  <2>2. Heard(g)'
    BY <1>2, <1>3, <2>1 DEF Heard
  <2>3. ASSUME NEW h \in Goroutines, bets'[h] # 0
        PROVE  Held(h)'
    BY <1>1, <1>2, <1>3, <1>5, <1>7, <2>1, <2>3 DEF Held, TypeInv, TypeOK
  <2>4. QED
    BY <1>3, <1>4, <2>1, <2>2, <2>3 DEF Accounts
<1>8. {g} \cup Possible("lost", {NoTx}) = {g} /\ "down" \notin Faults
  BY DEF Answered, Possible
<1>9. QED
  BY <1>6, <1>7, <1>8 DEF CallBet

\* The id and the balance that the bank sent come to the table together
\* (playerBet, playerDouble).
LEMMA ShownAccounts ==
  ASSUME TypeInv, Course, Stakes, Accounts, NEW g \in Goroutines,
         (EnterBetting(g) \/ TakeDouble(g)) /\ local[g].tx # NoTx
  PROVE  Accounts'
<1>1. /\ pc[g] \in {"bet_reply", "double_reply"} /\ Running(g)
      /\ UNCHANGED <<balance, bets>>
  BY DEF EnterBetting, TakeDouble, Running
<1>2. PICK step \in {"deal", "double_card"} : pc' = [pc EXCEPT ![g] = step]
  BY DEF EnterBetting, TakeDouble, Goto
<1>3. /\ pc'[g] = step
      /\ \A h \in Goroutines \ {g} :
           /\ pc[h] \notin AtBank /\ pc'[h] \notin AtBank
           /\ ~Heard(h) /\ ~Heard(h)' /\ PaysHeld(h)'
  BY <1>1, <1>2, OthersIdle
<1>4. Heard(g) /\ local[g].reply = Dollars(balance)
  BY <1>1 DEF Heard, Accounts
<1>5. ~Heard(g)' /\ PaysHeld(g)'
  BY <1>3 DEF Heard, PaysHeld
<1>6. player'.chips = Dollars(balance) /\ {player.tx, player.tx2, local[g].tx} \ {NoTx}
                                            \subseteq {player'.tx, player'.tx2}
  <2>1. CASE EnterBetting(g)
    <3>1. player.tx = NoTx /\ player.tx2 = NoTx
      BY <2>1 DEF EnterBetting, Stakes, Course, InPhase, AtWaiting
    <3>2. player'.tx = local[g].tx /\ player'.chips = local[g].reply
      BY <2>1 DEF EnterBetting, TypeInv, TypeOK, PlayerState
    <3>3. QED
      BY <1>4, <3>1, <3>2
  <2>2. CASE TakeDouble(g)
    <3>1. pc[g] = "double_reply" /\ \A h \in Goroutines \ {g} : pc[h] \in {"idle", "done"}
      BY <1>1, <2>2, OthersRest DEF TakeDouble, Course
    <3>2. player.tx2 = NoTx
      BY <3>1 DEF Stakes, Doubling, AtDealer, AtPay
    <3>3. player'.tx = player.tx /\ player'.tx2 = local[g].tx /\ player'.chips = local[g].reply
      BY <2>2 DEF TakeDouble, Doubled, TypeInv, TypeOK, PlayerState
    <3>4. QED
      BY <1>4, <3>2, <3>3
  <2>3. QED
    BY <2>1, <2>2
<1>7. ASSUME NEW h \in Goroutines, bets'[h] # 0
      PROVE  Held(h)'
  <2>1. h # NoTx /\ (h \in {player.tx, player.tx2} \/ h = local[g].tx)
    BY <1>1, <1>3, <1>7, TxAssumption DEF Accounts, Held, AtBank
  <2>2. QED
    BY <1>6, <2>1 DEF Held
<1>8. QED
  BY <1>1, <1>3, <1>5, <1>6, <1>7 DEF Accounts

\* The settlement pays under the ids that the table holds (runPayoutPlayer).
LEMMA DecideAccounts ==
  ASSUME TypeInv, Course, Accounts, NEW g \in Goroutines, Decide(g)
  PROVE  Accounts'
<1> DEFINE tx == IF player.tx # NoTx THEN player.tx ELSE player.tx2
<1>1. pc[g] = "payout" /\ Running(g) /\ UNCHANGED <<balance, bets>>
  BY DEF Decide, Running
<1>2. player'.chips = player.chips /\ player'.tx = player.tx /\ player'.tx2 = player.tx2
  BY DEF Decide, TypeInv, TypeOK, PlayerState
<1>3. local'[g].tx = tx
  <2> DEFINE outcome == Outcome(player, table.dealer)
             paying  == [table EXCEPT !.phase = "payout"]
  <2>1. local' = [local EXCEPT ![g].s = paying, ![g].outcome = outcome, ![g].tx = tx]
    BY DEF Decide
  <2> HIDE DEF outcome, paying, tx
  <2>2. QED
    BY <2>1 DEF TypeInv, TypeOK, LocalState
<1>4. PICK step \in {"reset", "pay1", "pay2"} :
        /\ pc' = [pc EXCEPT ![g] = step]
        /\ step = "pay1" => tx = player.tx
        /\ step = "pay2" => tx = player.tx2
  BY DEF Decide, Goto
<1> HIDE DEF tx
<1>5. /\ pc'[g] = step
      /\ \A h \in Goroutines \ {g} :
           /\ pc[h] \notin AtBank /\ pc'[h] \notin AtBank
           /\ ~Heard(h) /\ ~Heard(h)' /\ PaysHeld(h)'
  BY <1>1, <1>4, OthersIdle
<1>6. ~Heard(g) /\ ~Heard(g)' /\ PaysHeld(g)'
  BY <1>1, <1>2, <1>3, <1>4, <1>5 DEF Heard, PaysHeld
<1>7. player.chips = Dollars(balance)
  BY <1>5, <1>6 DEF Accounts
<1>8. \A h \in Goroutines : bets[h] # 0 => h \in {player.tx, player.tx2}
  BY <1>1, <1>5 DEF Accounts, Held, AtBank
<1>9. QED
  BY <1>1, <1>2, <1>5, <1>6, <1>7, <1>8 DEF Accounts, Held

\* callBankPayout: the bet is settled, and the balance is heard of.
LEMMA CallPayoutAccounts ==
  ASSUME Answered, TypeInv, Course, Accounts, NEW g \in Goroutines, CallPayout(g)
  PROVE  Accounts'
<1> DEFINE step == IF pc[g] = "pay1" THEN "paid1" ELSE "paid2"
           tx   == local[g].tx
<1>1. pc' = [pc EXCEPT ![g] = step] /\ pc[g] \in {"pay1", "pay2"} /\ Running(g)
      /\ UNCHANGED <<table, player>>
  BY DEF CallPayout, Goto, Running
<1>2. /\ step \in {"paid1", "paid2"}
      /\ step = "paid1" => tx = player.tx
      /\ step = "paid2" => tx = player.tx2
  BY <1>1 DEF Accounts, PaysHeld
<1>3. tx \in Goroutines /\ tx # NoTx
  BY <1>1, TxAssumption DEF TypeInv, TypeOK, Replies, LocalState, Tx
<1> HIDE DEF step
<1>4. /\ pc'[g] = step
      /\ \A h \in Goroutines \ {g} :
           /\ pc[h] \notin AtBank /\ pc'[h] \notin AtBank
           /\ ~Heard(h) /\ ~Heard(h)' /\ PaysHeld(h)'
  BY <1>1, OthersIdle
<1>5. ~Heard(g) /\ player.chips = Dollars(balance)
  BY <1>1, <1>4 DEF Heard, Accounts
<1>6. \A h \in Goroutines : bets[h] # 0 => h \in {player.tx, player.tx2}
  BY <1>1, <1>4 DEF Accounts, Held, AtBank
<1>7. /\ bets'[tx] = 0 /\ \A h \in Goroutines : bets'[h] # 0 => bets[h] # 0
      /\ \/ local'[g].reply = Dollars(balance')
         \/ local'[g].reply = NoReply /\ balance' = balance
  <2>1. CASE /\ bets' = [bets EXCEPT ![tx] = 0]
             /\ local' = [local EXCEPT ![g].reply = Dollars(balance')]
    BY <1>3, <2>1 DEF TypeInv, TypeOK, LocalState
  <2>2. CASE bets[tx] = 0 /\ local' = [local EXCEPT ![g].reply = NoReply]
             /\ UNCHANGED <<balance, bets>>
    BY <1>3, <2>2 DEF TypeInv, TypeOK, LocalState
  <2>3. {Dollars(balance')} \cup Possible("lost", {NoReply}) = {Dollars(balance')}
        /\ "down" \notin Faults
    BY DEF Answered, Possible
  <2>4. QED
    BY <2>1, <2>2, <2>3 DEF CallPayout
<1>8. PaysHeld(g)'
  BY <1>1, <1>2, <1>3, <1>4, <1>7 DEF PaysHeld
<1>9. Heard(g)' <=> local'[g].reply # NoReply
  BY <1>2, <1>4 DEF Heard
<1>10. Dollars(balance') # NoReply
  BY CallPayoutTypes, DollarsType DEF TypeInv, TypeOK, NoReply
<1>11. \A h \in Goroutines : Heard(h)' => local'[h].reply = Dollars(balance')
  BY <1>4, <1>7, <1>9
<1>12. (\A h \in Goroutines : ~Heard(h)') => player'.chips = Dollars(balance')
  BY <1>1, <1>5, <1>7, <1>9, <1>10
<1>13. \A h \in Goroutines : bets'[h] # 0 => Held(h)'
  BY <1>1, <1>6, <1>7 DEF Held
<1>14. QED
  BY <1>4, <1>8, <1>11, <1>12, <1>13 DEF Accounts

\* The id that is dropped is that of a bet that is no longer open.
LEMMA PaidAccounts ==
  ASSUME TypeInv, Course, Accounts, NEW g \in Goroutines, Paid(g)
  PROVE  Accounts'
<1>1. pc[g] \in {"paid1", "paid2"} /\ Running(g) /\ UNCHANGED <<balance, bets>>
  BY DEF Paid, Running
<1>2. /\ player'.chips = ChipsAfter(g)
      /\ player'.tx  = (IF pc[g] = "paid1" THEN NoTx ELSE player.tx)
      /\ player'.tx2 = (IF pc[g] = "paid2" THEN NoTx ELSE player.tx2)
  BY DEF Paid, TypeInv, TypeOK, PlayerState
<1>3. PICK step \in {"pay2", "reset"} :
        /\ pc' = [pc EXCEPT ![g] = step]
        /\ step = "pay2" => pc[g] = "paid1" /\ local' = [local EXCEPT ![g].tx = player.tx2]
  BY DEF Paid, SecondDue, Goto
<1>4. /\ pc'[g] = step
      /\ \A h \in Goroutines \ {g} :
           /\ pc[h] \notin AtBank /\ pc'[h] \notin AtBank
           /\ ~Heard(h) /\ ~Heard(h)' /\ PaysHeld(h)'
  BY <1>1, <1>3, OthersIdle
<1>5. step = "pay2" => local'[g].tx = player'.tx2
  BY <1>2, <1>3 DEF TypeInv, TypeOK, LocalState
<1>6. ~Heard(g)' /\ PaysHeld(g)'
  BY <1>4, <1>5 DEF Heard, PaysHeld
<1>7. player'.chips = Dollars(balance)
  BY <1>1, <1>2, <1>4 DEF ChipsAfter, Heard, Accounts
<1>8. ASSUME NEW h \in Goroutines, bets'[h] # 0
      PROVE  Held(h)'
  <2>1. h \in {player.tx, player.tx2}
    BY <1>1, <1>4, <1>8 DEF Accounts, Held, AtBank
  <2>2. /\ pc[g] = "paid1" => bets[player.tx] = 0
        /\ pc[g] = "paid2" => bets[player.tx2] = 0
    BY DEF Accounts, PaysHeld
  <2>3. QED
    BY <1>1, <1>2, <1>8, <2>1, <2>2 DEF Held
<1>9. QED
  BY <1>1, <1>4, <1>6, <1>7, <1>8 DEF Accounts

\* The steps that do not speak with the bank: cards, phases and the next hand.
LEMMA CardStepsAccounts ==
  ASSUME TypeInv, Course, Accounts, NEW g \in Goroutines, Follow(g), PlaysOn(g),
         pc[g] \notin AtBank \/ (local[g].tx = NoTx /\ pc[g] \notin AtPay),
         balance' = balance, player'.chips = player.chips
  PROVE  Accounts'
<1> USE DEF PlayingSteps, AtDealing, AtTurn
<1>1. PICK step \in (PlayingSteps \ {"double", "double_reply"}) \cup {"payout", "done"} :
        pc' = [pc EXCEPT ![g] = step]
  BY DEF PlaysOn
<1>2. step \notin AtBank
  BY <1>1 DEF AtBank, AtPay
<1>3. /\ Running(g) /\ ~Heard(g)
      /\ pc[g] \notin {"bet_reply", "double_reply"} \/ local[g].tx = NoTx
  BY DEF PlaysOn, Running, Heard, AtBank, AtPay
<1>4. /\ UNCHANGED <<balance, bets>> /\ player'.tx = player.tx /\ player'.tx2 = player.tx2
      /\ player'.chips = player.chips
  BY DEF PlaysOn
<1>5. QED
  BY <1>1, <1>2, <1>3, <1>4, StillAccounts

\* No card changes the chips.
LEMMA CardStepsKeepChips ==
  ASSUME TypeInv, NEW g \in Goroutines,
         \/ EnterDealing(g) \/ DealPlayer(g) \/ ShowPlayer(g) \/ DealUp(g) \/ DealHole(g)
         \/ CheckNatural(g) \/ DrawPlayer(g) \/ ShowHit(g) \/ ShowDouble(g)
         \/ EnterDealerTurn(g) \/ Reveal(g) \/ ShowDealer(g) \/ CheckBust(g) \/ DealerDraw(g)
  PROVE  balance' = balance /\ player'.chips = player.chips /\ pc[g] \notin AtBank
<1>1. player \in PlayerState
  BY DEF TypeInv, TypeOK
<1>2. CASE EnterDealing(g) \/ DealPlayer(g) \/ ShowPlayer(g) \/ DealUp(g) \/ DealHole(g)
           \/ CheckNatural(g)
  BY <1>1, <1>2 DEF EnterDealing, DealPlayer, Evaluate, ShowPlayer, DealUp, DealHole,
     CheckNatural, AtBank, AtPay, PlayerState
<1>3. CASE DrawPlayer(g) \/ ShowHit(g) \/ ShowDouble(g)
  BY <1>1, <1>3 DEF DrawPlayer, Evaluate, ShowHit, ShowDouble, AtBank, AtPay, PlayerState
<1>4. CASE EnterDealerTurn(g) \/ Reveal(g) \/ ShowDealer(g) \/ CheckBust(g) \/ DealerDraw(g)
  BY <1>4 DEF EnterDealerTurn, Reveal, ShowDealer, CheckBust, DealerDraw, AtBank, AtPay
<1>5. QED
  BY <1>2, <1>3, <1>4

\* The actions begin, refused bets and doubles end, and the next hand begins.
LEMMA EndsAccounts ==
  ASSUME TypeInv, Course, Accounts, NEW g \in Goroutines,
         \/ Ignore(g) \/ StartBet(g) \/ StartHit(g) \/ Stand(g) \/ StartDouble(g)
         \/ (EnterBetting(g) \/ TakeDouble(g)) /\ local[g].tx = NoTx
         \/ NextHand(g)
  PROVE  Accounts'
<1>1. /\ UNCHANGED <<balance, bets>> /\ player'.chips = player.chips
      /\ player'.tx = player.tx /\ player'.tx2 = player.tx2
  BY DEF Ignore, StartBet, StartHit, Stand, StartDouble, EnterBetting, TakeDouble, NextHand,
     TypeInv, TypeOK, PlayerState
<1>2. /\ \/ pc[g] \in {"start", "reset"}
         \/ pc[g] \in {"bet_reply", "double_reply"} /\ local[g].tx = NoTx
      /\ \E step \in {"done", "bet", "hit", "dealer", "double"} : pc' = [pc EXCEPT ![g] = step]
  BY DEF Ignore, StartBet, StartHit, Stand, StartDouble, EnterBetting, TakeDouble, NextHand,
     Starts, BeginHit, End, Goto
<1>3. /\ Running(g) /\ ~Heard(g)
      /\ pc[g] \notin {"bet_reply", "double_reply"} \/ local[g].tx = NoTx
  BY <1>2 DEF Running, Heard
<1>4. QED
  BY <1>1, <1>2, <1>3, StillAccounts DEF AtBank, AtPay

LEMMA ReceiveAccounts ==
  ASSUME Patient, TypeInv, Accounts, NEW g \in Goroutines, Receive(g)
  PROVE  Accounts'
<1>1. pc' = [pc EXCEPT ![g] = "start"] /\ pc'[g] = "start"
      /\ UNCHANGED <<player, local, balance, bets>>
  BY DEF Receive, Goto, TypeInv, TypeOK
<1>2. \A h \in Goroutines : pc[h] \in {"idle", "done"} /\ pc'[h] \in {"idle", "done", "start"}
  BY <1>1 DEF Receive, Quiet, Running, TypeInv, TypeOK
<1>3. \A h \in Goroutines : ~Heard(h) /\ ~Heard(h)' /\ PaysHeld(h)'
  BY <1>2 DEF Heard, PaysHeld
<1>4. \A h \in Goroutines : bets[h] # 0 => h \in {player.tx, player.tx2}
  BY <1>2 DEF Accounts, Held
<1>5. QED
  BY <1>1, <1>3, <1>4 DEF Accounts, Held

LEMMA NextAccounts ==
  Patient /\ Answered /\ TypeInv /\ Course /\ Stakes /\ Accounts /\ [Next]_vars => Accounts'
<1> SUFFICES ASSUME Patient, Answered, TypeInv, Course, Stakes, Accounts, [Next]_vars
             PROVE  Accounts'
  OBVIOUS
<1>1. CASE UNCHANGED vars
  BY <1>1 DEF vars, Accounts, Held, Heard, PaysHeld
<1>2. ASSUME NEW g \in Goroutines, Run(g)
      PROVE  Accounts'
  <2>1. CASE \/ EnterDealing(g) \/ DealPlayer(g) \/ ShowPlayer(g) \/ DealUp(g) \/ DealHole(g)
             \/ CheckNatural(g) \/ DrawPlayer(g) \/ ShowHit(g) \/ ShowDouble(g)
             \/ EnterDealerTurn(g) \/ Reveal(g) \/ ShowDealer(g) \/ CheckBust(g) \/ DealerDraw(g)
    BY <1>2, <2>1, RunFollows, DealPlaysOn, TurnPlaysOn, DealerPlaysOn, CardStepsKeepChips,
       CardStepsAccounts
  <2>2. CASE CallBet(g) \/ Decide(g) \/ CallPayout(g) \/ Paid(g)
    BY <2>2, CallBetAccounts, DecideAccounts, CallPayoutAccounts, PaidAccounts
  <2>3. CASE \/ Ignore(g) \/ StartBet(g) \/ StartHit(g) \/ Stand(g) \/ StartDouble(g)
             \/ EnterBetting(g) \/ TakeDouble(g) \/ NextHand(g)
    BY <2>3, EndsAccounts, ShownAccounts
  <2>4. QED
    BY <1>2, <2>1, <2>2, <2>3 DEF Run
<1>3. ~Crash
  BY DEF Crash, Answered
<1>4. CASE Next
  BY <1>2, <1>3, <1>4, ReceiveAccounts DEF Next
<1>5. QED
  BY <1>1, <1>4

LEMMA AlwaysAccounted == Patient /\ Answered => (Spec => [](Stakes /\ Accounts))
<1> SUFFICES ASSUME Patient, Answered PROVE Spec => [](Stakes /\ Accounts)
  OBVIOUS
<1>1. Init => TypeInv /\ Course /\ Stakes /\ Accounts
  BY InitTypes, InitCourse, InitStakes, InitAccounts
<1>2. TypeInv /\ Course /\ Stakes /\ Accounts /\ [Next]_vars =>
        TypeInv' /\ Course' /\ Stakes' /\ Accounts'
  BY NextTypes, NextCourse, NextStakes, NextAccounts
<1>3. QED
  BY <1>1, <1>2, PTL DEF Spec

\* Between hands no goroutine has anything to tell the table, or on its way to it.
LEMMA SettledBetweenHands ==
  ASSUME Stakes, Accounts, Quiet, table.phase = "waiting"
  PROVE  player.chips = Dollars(balance) /\ \A h \in Goroutines : bets[h] = 0
<1>1. \A g \in Goroutines : pc[g] \in {"idle", "done"}
  BY DEF Quiet, Running
<1>2. player.tx = NoTx /\ player.tx2 = NoTx
  BY DEF Stakes
<1>3. \A g \in Goroutines : ~Heard(g) /\ ~Held(g)
  BY <1>1, <1>2, TxAssumption DEF Heard, Held
<1>4. QED
  BY <1>3 DEF Accounts

\* With a patient client, a bank that answers and a process that stays up, the
\* chips shown between hands are the balance at the bank, through refused bets,
\* doubles and the truncation of half dollars (playerBet, playerDouble,
\* runPayoutPlayer).
THEOREM ChipsShowBalance == Patient /\ Answered => (Spec => []ChipsAreBalance)
<1>1. Stakes /\ Accounts => ChipsAreBalance
  BY SettledBetweenHands DEF ChipsAreBalance
<1>2. QED
  BY <1>1, AlwaysAccounted, PTL

\* Then no bet is left open between hands: every id that the bank gave out comes
\* to the table and is paid under that id (runPayoutPlayer).
THEOREM NothingIsOwed == Patient /\ Answered => (Spec => []NothingOwed)
<1>1. Stakes /\ Accounts => NothingOwed
  BY SettledBetweenHands DEF NothingOwed
<1>2. QED
  BY <1>1, AlwaysAccounted, PTL

=============================================================================
