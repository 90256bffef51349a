------------------------------ MODULE Betting ------------------------------
(***************************************************************************)
(* A bet, from the panel on the page to the player's table and the bank    *)
(* (ui/src/components/GameTable.tsx: BetPanel; useGameState.ts: sendAction;*)
(* game-state/main.go: actionHandler, playerBet, runPayoutPlayer), and the *)
(* offer of new chips (ui/src/App.tsx).                                    *)
(*                                                                         *)
(* Three numbers are meant to be one: the bank's balance, the chips of the *)
(* table and the balance the page shows.  The page hears of the bank and   *)
(* of the table on ways of their own, late or not at all.  A hand is       *)
(* reduced to its stake and what it pays; of bets that overlap, and of the *)
(* hand itself, GameTable has the details.                                 *)
(*                                                                         *)
(* A definition followed by its namesake (CanBetAnything before CanBet) is *)
(* a mutation of it, used only to see that a property would notice it.     *)
(***************************************************************************)
EXTENDS Naturals

CONSTANTS
  MinBet, MaxBet,
  InitialBet,    \* 25 in the code
  QuickAmounts,  \* the chips to click on
  StartingChips, \* of a new table, and of a new account
  RestockAmount, \* 1000 in the code
  MaxFunds,      \* bound of the bank's balance
  Unknown        \* the page has no balance yet

ASSUME BettingAssumption ==
  /\ MinBet \in Nat \ {0} /\ MaxBet \in Nat /\ MinBet <= MaxBet
  /\ InitialBet \in Nat /\ QuickAmounts \subseteq Nat
  /\ StartingChips \in Nat /\ RestockAmount \in Nat \ {0}
  /\ MaxFunds \in Nat /\ Unknown \notin Nat

VARIABLES
  seat,      \* the player's table: its phase and the player's chips
  funds,     \* the balance at the bank
  onTable,   \* what the player has bet
  seen,      \* the table as the page has it
  shownBalance, \* the balance as the page has it
  betAmount, \* of the bet panel; 0 while there is none
  wager,     \* the bet on its way: its amount, and the balance shown for it
  outcome,   \* what became of the last bet, since any restock
  restocked  \* the offer of new chips was taken, with no bet on its way

bettingVars == <<seat, funds, onTable, seen, shownBalance, betAmount, wager, outcome, restocked>>
onPage      == <<seen, shownBalance, betAmount>>

AtMost(bound, n) == IF n > bound THEN bound ELSE n
AtLeast(bound, n) == IF n < bound THEN bound ELSE n

NoWager == [amount |-> 0, shown |-> 0]

-----------------------------------------------------------------------------
(* BetPanel *)

PanelShown == seen.phase = "waiting"

\* authoritativeBalance, or the chips of the table.
PanelChips == IF shownBalance = Unknown THEN seen.chips ELSE shownBalance

Quick   == {amount \in QuickAmounts : amount >= MinBet /\ amount <= PanelChips}
AllIn   == IF PanelChips > 0 THEN {AtMost(MaxBet, PanelChips)} ELSE {}
Custom  == 0..(MaxBet + 1)

ChooseBet ==
  /\ PanelShown
  /\ betAmount' \in Quick \cup AllIn \cup Custom
  /\ UNCHANGED <<seat, funds, onTable, seen, shownBalance, wager, outcome, restocked>>

CanBetAnything == betAmount > 0

CanBet == betAmount >= MinBet /\ betAmount <= AtMost(MaxBet, PanelChips)

\* The panel stays until the table is seen to go on.
PressDeal ==
  /\ PanelShown /\ CanBet
  /\ wager = NoWager
  /\ wager' = [amount |-> betAmount, shown |-> PanelChips]
  /\ UNCHANGED <<seat, funds, onTable, onPage, outcome, restocked>>

\* The table's state arrives; the panel starts anew when it appears.
SeatSeen ==
  /\ seen' = seat
  /\ betAmount' = IF seat.phase # "waiting" THEN 0
                  ELSE IF PanelShown THEN betAmount ELSE AtMost(MaxBet, InitialBet)
  /\ UNCHANGED <<seat, funds, onTable, shownBalance, wager, outcome, restocked>>

\* By an answer of the bank, or the balance stream.
BalanceSeen ==
  /\ shownBalance' = funds
  /\ UNCHANGED <<seat, funds, onTable, seen, betAmount, wager, outcome, restocked>>

\* handleRestock, of the offer that is made at the bank's balance zero; the
\* page takes the amount for the balance.  No table hears of it.
Restock ==
  /\ PanelShown /\ shownBalance = 0
  /\ funds + RestockAmount <= MaxFunds
  /\ funds' = funds + RestockAmount
  /\ shownBalance' = RestockAmount
  /\ restocked' = (wager = NoWager) /\ outcome' = "none"
  /\ UNCHANGED <<seat, onTable, seen, betAmount, wager>>

-----------------------------------------------------------------------------
(* The table and the bank *)

\* The amount that playerBet makes of the one asked for.
Stake(amount, chips) == AtMost(chips, AtMost(MaxBet, AtLeast(MinBet, amount)))

\* actionHandler refuses a bet after the waiting phase.  playerBet ignores
\* one that comes to nothing, and the bank rejects one it has no money for;
\* "accepted" was answered before.
PlayerBet ==
  /\ wager # NoWager
  /\ wager' = NoWager
  /\ LET amount == Stake(wager.amount, seat.chips)
     IN  IF seat.phase # "waiting"
           THEN outcome' = "refused" /\ UNCHANGED <<seat, funds, onTable>>
         ELSE IF amount = 0
           THEN outcome' = "ignored" /\ UNCHANGED <<seat, funds, onTable>>
         ELSE IF amount > funds
           THEN outcome' = "rejected" /\ UNCHANGED <<seat, funds, onTable>>
         ELSE /\ outcome' = "staked"
              /\ funds' = funds - amount
              /\ onTable' = amount
              /\ seat' = [phase |-> "playing", chips |-> funds - amount]
  /\ UNCHANGED <<onPage, restocked>>

\* runPayoutPlayer: a loss, a push or a win.
PayOutHand ==
  /\ seat.phase = "playing"
  /\ \E times \in 0..2 :
       /\ funds + times * onTable <= MaxFunds
       /\ funds' = funds + times * onTable
       /\ seat' = [phase |-> "payout", chips |-> funds + times * onTable]
  /\ onTable' = 0
  /\ UNCHANGED <<onPage, wager, outcome, restocked>>

ClearTable ==
  /\ seat.phase = "payout"
  /\ seat' = [seat EXCEPT !.phase = "waiting"]
  /\ UNCHANGED <<funds, onTable, onPage, wager, outcome, restocked>>

\* game-state restarts, and CreatePlayerTable makes the table anew: the bank
\* is asked for the balance, but its answer is not understood.
RestartSeat ==
  /\ seat' = [phase |-> "waiting", chips |-> StartingChips]
  /\ onTable' = 0
  /\ UNCHANGED <<funds, onPage, wager, outcome, restocked>>

-----------------------------------------------------------------------------
BettingInit ==
  /\ seat = [phase |-> "waiting", chips |-> StartingChips]
  /\ funds = StartingChips /\ onTable = 0
  /\ seen = [phase |-> "none", chips |-> 0]
  /\ shownBalance = Unknown
  /\ betAmount = 0
  /\ wager = NoWager /\ outcome = "none"
  /\ restocked = FALSE

BettingNext ==
  \/ ChooseBet \/ PressDeal \/ SeatSeen \/ BalanceSeen \/ Restock
  \/ PlayerBet \/ PayOutHand \/ ClearTable \/ RestartSeat

BettingSpec == BettingInit /\ [][BettingNext]_bettingVars

-----------------------------------------------------------------------------
BettingTypeOK ==
  /\ seat \in [phase : {"waiting", "playing", "payout"}, chips : Nat]
  /\ funds \in Nat /\ onTable \in Nat
  /\ seen \in [phase : {"none", "waiting", "playing", "payout"}, chips : Nat]
  /\ shownBalance \in Nat \cup {Unknown}
  /\ betAmount \in Nat
  /\ wager \in [amount : Nat, shown : Nat]
  /\ outcome \in {"none", "staked", "refused", "ignored", "rejected"}
  /\ restocked \in BOOLEAN

\* Whatever the page has not heard of, no hand is played for more than its
\* player asked for, and it is played for exactly that if the balance shown was
\* the table's and the bank's: nobody gets the bet that playerBet makes of a wrong one.
BetAsAsked ==
  [][PlayerBet /\ seat.phase = "waiting" =>
       /\ onTable' <= wager.amount
       /\ wager.shown = seat.chips /\ seat.chips = funds => onTable' = wager.amount]_bettingVars

\* What the offer promises, "Get $1,000 in chips to keep playing": a bet that
\* the panel lets a player make after it is not ignored.
KeepsPlaying == restocked => outcome # "ignored"
=============================================================================
