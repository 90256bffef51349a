------------------------------ MODULE History ------------------------------
(***************************************************************************)
(* What the page keeps of the table it watches (ui/src/hooks/              *)
(* useGameState.ts) and shows in its history (ui/src/components/           *)
(* SessionHistoryDrawer.tsx).                                              *)
(*                                                                         *)
(* The tables are reduced to what is told apart here: a hand is dealt,     *)
(* played in some states, paid out and cleared.  An event stream starts    *)
(* with the present state, may lose states, and breaks; the browser        *)
(* connects again by itself.                                               *)
(*                                                                         *)
(* A definition followed by its namesake (RecordedAlways before Recorded)  *)
(* is a mutation of it, used only to see that a property would notice it.  *)
(***************************************************************************)
EXTENDS Naturals, Sequences

CONSTANTS
  TableIds,
  NoTable,    \* the table of no state
  MaxRounds,  \* 20 in the code
  MaxHands,   \* bound of the hands of a table
  MaxPending  \* bound of the events on the way

ASSUME HistoryAssumption ==
  /\ NoTable \notin TableIds
  /\ MaxRounds \in Nat \ {0} /\ MaxHands \in Nat /\ MaxPending \in Nat \ {0}

VARIABLES
  hands,      \* of each table, its state: whose it is, its phase, the number of the hand
  tableId,    \* the table that is watched
  connected,  \* the event stream is open
  pending,    \* states on the stream
  gameState,  \* the last state received
  lastPhase,  \* lastPhaseRef
  rounds,     \* the rounds kept, the last one first
  opened      \* the drawer is open

historyVars == <<hands, tableId, connected, pending, gameState, lastPhase, rounds, opened>>
received    == <<gameState, lastPhase, rounds>>

NoState == [id |-> NoTable, phase |-> "none", hand |-> 0]

-----------------------------------------------------------------------------
(* useGameState *)

\* The effect of another tableId: everything anew.
WatchTable(t) ==
  /\ t # tableId
  /\ tableId' = t
  /\ connected' = FALSE /\ pending' = <<>>
  /\ gameState' = NoState /\ lastPhase' = "none" /\ rounds' = <<>>
  /\ UNCHANGED <<hands, opened>>

\* The first event is the present state.
OnOpen ==
  /\ ~ connected
  /\ connected' = TRUE
  /\ pending' = <<hands[tableId]>>
  /\ UNCHANGED <<hands, tableId, received, opened>>

\* What has been received stays; lastPhaseRef too.
OnError ==
  /\ connected
  /\ connected' = FALSE /\ pending' = <<>>
  /\ UNCHANGED <<hands, tableId, received, opened>>

RecordedAlways(event) == event.phase = "payout"

Recorded(event) == event.phase = "payout" /\ lastPhase # "payout"

Kept(round, before) ==
  LET all == <<round>> \o before
  IN  IF Len(all) > MaxRounds THEN SubSeq(all, 1, MaxRounds) ELSE all

OnGameState ==
  /\ pending # <<>>
  /\ LET event == Head(pending)
     IN  /\ gameState' = event
         /\ rounds' = IF Recorded(event) THEN Kept(event, rounds) ELSE rounds
         /\ lastPhase' = event.phase
  /\ pending' = Tail(pending)
  /\ UNCHANGED <<hands, tableId, connected, opened>>

-----------------------------------------------------------------------------
(* SessionHistoryDrawer *)

\* By the tab, the button or the backdrop; the drawer outlives every table.
ToggleDrawer ==
  /\ opened' = ~ opened
  /\ UNCHANGED <<hands, tableId, connected, pending, received>>

\* "Round n" is the n-th of those that are kept.
RoundNumber(i) == Len(rounds) - i + 1

-----------------------------------------------------------------------------
(* The tables *)

\* SetState: to the stream, or past it if its channel is full.
Put(t, state) ==
  /\ hands' = [hands EXCEPT ![t] = state]
  /\ \/ /\ t = tableId /\ connected /\ Len(pending) < MaxPending
        /\ pending' = Append(pending, state)
     \/ UNCHANGED pending
  /\ UNCHANGED <<tableId, connected, received, opened>>

DealHand(t) ==
  /\ hands[t].phase = "waiting" /\ hands[t].hand < MaxHands
  /\ Put(t, [hands[t] EXCEPT !.phase = "playing", !.hand = @ + 1])

PlayOn(t) == hands[t].phase = "playing" /\ Put(t, hands[t])

PayOut(t) == hands[t].phase = "playing" /\ Put(t, [hands[t] EXCEPT !.phase = "payout"])

NextHand(t) == hands[t].phase = "payout" /\ Put(t, [hands[t] EXCEPT !.phase = "waiting"])

\* game-state restarts; its streams break.
RestartTables ==
  /\ hands' = [t \in TableIds |-> [hands[t] EXCEPT !.phase = "waiting"]]
  /\ connected' = FALSE /\ pending' = <<>>
  /\ UNCHANGED <<tableId, received, opened>>

-----------------------------------------------------------------------------
HistoryInit ==
  /\ hands = [t \in TableIds |-> [id |-> t, phase |-> "waiting", hand |-> 0]]
  /\ tableId \in TableIds
  /\ connected = FALSE /\ pending = <<>>
  /\ gameState = NoState /\ lastPhase = "none" /\ rounds = <<>>
  /\ opened = FALSE

HistoryNext ==
  \/ \E t \in TableIds : WatchTable(t) \/ DealHand(t) \/ PlayOn(t) \/ PayOut(t) \/ NextHand(t)
  \/ OnOpen \/ OnError \/ OnGameState \/ ToggleDrawer
  \/ RestartTables

HistorySpec == HistoryInit /\ [][HistoryNext]_historyVars

-----------------------------------------------------------------------------
\* However often the stream breaks, and at whatever phase it starts again, the
\* history has no hand twice, none of another table, only hands paid out, and
\* numbers them in the order in which they were played.
RoundsOnce ==
  /\ Len(rounds) <= MaxRounds
  /\ \A i \in DOMAIN rounds :
       /\ rounds[i].id = tableId /\ rounds[i].phase = "payout"
       /\ rounds[i].hand <= hands[tableId].hand
  /\ \A i, j \in DOMAIN rounds : RoundNumber(i) < RoundNumber(j) => rounds[i].hand < rounds[j].hand
=============================================================================
