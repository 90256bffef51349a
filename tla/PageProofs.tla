----------------------------- MODULE PageProofs -----------------------------
(***************************************************************************)
(* Theorems about the parts of the page that need nothing of each other:   *)
(* the history of a table, the statement of account, the bet panel and the *)
(* sign-in dialog, for every number of players, tables, hands and requests.*)
(*                                                                         *)
(* No property here is inductive.  A table goes from hand to hand, but a   *)
(* restart of game-state takes its phase back, so that no rank of states   *)
(* grows with every step: Before holds of any two states of a table in the *)
(* order in which it was in them, and all that is on the stream is in that *)
(* order.  A statement may show another player's transactions while the    *)
(* right ones are on the way: OnTheWay.  The bet on its way is one that    *)
(* the panel let pass: BettingInv.  A form that cannot be read is not on   *)
(* the screen: FormInv.                                                    *)
(***************************************************************************)
EXTENDS History, Statement, Betting, Dialogs, SequenceTheorems, TLAPS

-----------------------------------------------------------------------------
(* History *)

Phases == {"waiting", "playing", "payout"}
TableState  == [id : TableIds, phase : Phases, hand : Nat]

\* A hand that waits is over, and one that is paid out is not played again.
Before(s, t) ==
  \/ s.hand < t.hand
  \/ /\ s.hand = t.hand
     /\ t.phase = "payout" => s.phase # "waiting"
     /\ t.phase = "playing" => s.phase = "playing"

Table == hands[tableId]

HistoryTypes ==
  /\ hands \in [TableIds -> TableState]
  /\ \A t \in TableIds : hands[t].id = t
  /\ tableId \in TableIds
  /\ pending \in Seq(TableState) /\ rounds \in Seq(TableState)
  /\ lastPhase \in Phases \cup {"none"}
  /\ lastPhase # "none" => gameState \in TableState /\ gameState.phase = lastPhase

\* The stream is in order, between what was received last and the table.
InOrder ==
  /\ \A i \in DOMAIN pending :
       /\ pending[i].id = tableId /\ Before(pending[i], Table)
       /\ \A j \in DOMAIN pending : i < j => Before(pending[i], pending[j])
  /\ lastPhase # "none" =>
       Before(gameState, Table) /\ \A i \in DOMAIN pending : Before(gameState, pending[i])

\* What is kept was paid out before the last state received.
KeptInOrder ==
  /\ Len(rounds) <= MaxRounds
  /\ lastPhase = "none" => rounds = <<>>
  /\ \A i \in DOMAIN rounds :
       /\ rounds[i].id = tableId /\ rounds[i].phase = "payout"
       /\ rounds[i].hand <= gameState.hand
       /\ rounds[i].hand = gameState.hand => lastPhase \in {"payout", "waiting"}
       /\ \A j \in DOMAIN rounds : i < j => rounds[j].hand < rounds[i].hand

HistoryInv == HistoryTypes /\ InOrder /\ KeptInOrder

-----------------------------------------------------------------------------
\* Nothing is received yet.
LEMMA HistoryInvInit == HistoryInit => HistoryInv
  <1> SUFFICES ASSUME HistoryInit PROVE HistoryInv
    OBVIOUS
  <1>1. HistoryTypes
    BY DEF HistoryInit, HistoryTypes, TableState, Phases
  <1>2. InOrder
    BY DEF HistoryInit, InOrder
  <1>3. KeptInOrder
    BY HistoryAssumption DEF HistoryAssumption, HistoryInit, KeptInOrder
  <1> QED
    BY <1>1, <1>2, <1>3 DEF HistoryInv

\* Another table, or a stream that begins again with the present state.
LEMMA StreamKeeps ==
  ASSUME HistoryInv, (\E t \in TableIds : WatchTable(t)) \/ OnOpen \/ OnError \/ ToggleDrawer
  PROVE  HistoryInv'
  <1> USE DEF HistoryInv, received
  <1>1. CASE \E t \in TableIds : WatchTable(t)
    <2>1. HistoryTypes'
      BY <1>1 DEF WatchTable, HistoryTypes
    <2>2. InOrder'
      BY <1>1 DEF WatchTable, InOrder
    <2>3. KeptInOrder'
      BY <1>1, HistoryAssumption DEF HistoryAssumption, WatchTable, KeptInOrder
    <2> QED
      BY <2>1, <2>2, <2>3
  <1>2. CASE OnOpen
    <2>1. Table \in TableState /\ Table.id = tableId
      BY DEF HistoryTypes, Table
    <2>2. /\ pending' = <<Table>> /\ Table' = Table
          /\ UNCHANGED <<hands, tableId, gameState, lastPhase, rounds>>
      BY <1>2 DEF OnOpen, Table
    <2>3. pending' \in Seq(TableState) /\ DOMAIN pending' = {1} /\ pending'[1] = Table
      BY <2>1, <2>2
    <2>4. HistoryTypes'
      BY <2>2, <2>3 DEF HistoryTypes
    <2>5. Before(Table, Table)
      BY <2>1 DEF Before, TableState, Phases
    <2>6. InOrder'
      <3>1. \A s : Before(s, Table)' <=> Before(s, Table)
        BY <2>2 DEF Before
      <3>2. \A i \in DOMAIN pending' : i = 1 /\ pending'[i] = Table
        BY <2>3
      <3>3. lastPhase # "none" => Before(gameState, Table)
        BY DEF InOrder
      <3> QED
        BY <2>1, <2>2, <2>5, <3>2, <3>3 DEF InOrder
    <2>7. KeptInOrder'
      BY <2>2 DEF KeptInOrder
    <2> QED
      BY <2>4, <2>6, <2>7
  <1>3. CASE OnError
    <2>1. pending' = <<>> /\ UNCHANGED <<hands, tableId, gameState, lastPhase, rounds>>
      BY <1>3 DEF OnError
    <2>2. HistoryTypes' /\ KeptInOrder'
      BY <2>1 DEF HistoryTypes, KeptInOrder
    <2>3. InOrder'
      BY <2>1 DEF InOrder, Table, Before
    <2> QED
      BY <2>2, <2>3
  <1>4. CASE ToggleDrawer
    BY <1>4 DEF ToggleDrawer, HistoryTypes, InOrder, KeptInOrder, Table, Before
  <1> QED
    BY <1>1, <1>2, <1>3, <1>4

\* Whatever was before a table's state is before its next.
LEMMA TableGoesOn ==
  ASSUME HistoryInv, NEW s \in TableState, s.hand \in Nat, Before(s, Table), NEW next \in TableState,
         \/ Table.phase = "waiting" /\ next.phase = "playing" /\ next.hand = Table.hand + 1
         \/ next.phase = Table.phase /\ next.hand = Table.hand
         \/ Table.phase = "playing" /\ next.phase = "payout" /\ next.hand = Table.hand
         \/ next.phase = "waiting" /\ next.hand = Table.hand
  PROVE  Before(s, next)
  <1>1. Table.hand \in Nat
    BY DEF HistoryInv, HistoryTypes, Table, TableState
  <1> QED
    BY <1>1 DEF Before, TableState

\* A table's next state goes to the stream, or past it.
LEMMA PutKeeps ==
  ASSUME HistoryInv, NEW t \in TableIds, NEW next \in TableState, next.id = t, Put(t, next),
         t = tableId => \A s \in TableState : Before(s, Table) => Before(s, next)
  PROVE  HistoryInv'
  <1> USE DEF HistoryInv, received
  <1>1. /\ hands' = [hands EXCEPT ![t] = next]
        /\ UNCHANGED <<tableId, gameState, lastPhase, rounds>>
        /\ \/ t = tableId /\ pending' = Append(pending, next)
           \/ pending' = pending
    BY DEF Put
  <1>2. hands' \in [TableIds -> TableState] /\ \A u \in TableIds : hands'[u].id = u
    BY <1>1 DEF HistoryTypes
  <1>3. Table' = IF t = tableId THEN next ELSE Table
    BY <1>1 DEF HistoryTypes, Table
  <1>4. pending \in Seq(TableState) /\ \A i \in DOMAIN pending : pending[i] \in TableState
    BY ElementOfSeq DEF HistoryTypes
  <1>5. pending' \in Seq(TableState)
    BY <1>1, <1>4
  <1>6. HistoryTypes'
    BY <1>1, <1>2, <1>5 DEF HistoryTypes
  <1>7. KeptInOrder'
    BY <1>1 DEF KeptInOrder
  <1>8. \A s \in TableState : Before(s, Table) => Before(s, Table')
    BY <1>3
  <1>9. lastPhase # "none" => gameState \in TableState
    BY DEF HistoryTypes
  <1>10. CASE pending' = pending
    <2>1. \A i \in DOMAIN pending : Before(pending[i], Table')
      BY <1>4, <1>8 DEF InOrder
    <2>2. lastPhase # "none" => Before(gameState, Table')
      BY <1>8, <1>9 DEF InOrder
    <2>3. InOrder'
      BY <1>1, <1>10, <2>1, <2>2 DEF InOrder
    <2> QED
      BY <1>6, <1>7, <2>3
  <1>11. CASE t = tableId /\ pending' = Append(pending, next)
    <2> DEFINE n == Len(pending)
    <2>1. /\ n \in Nat /\ DOMAIN pending = 1..n /\ DOMAIN pending' = 1..(n + 1)
          /\ \A i \in 1..n : pending'[i] = pending[i]
          /\ pending'[n + 1] = next
      BY <1>4, <1>11
    <2> HIDE DEF n
    <2>2. Table' = next /\ Before(next, next)
      BY <1>3, <1>11 DEF Before, TableState, Phases
    <2>3. \A i \in 1..n : Before(pending[i], next)
      BY <1>4, <1>8, <2>1, <2>2 DEF InOrder
    <2>4. lastPhase # "none" => Before(gameState, next)
      BY <1>8, <1>9, <2>2 DEF InOrder
    <2>5. \A i \in 1..(n + 1) : i \in 1..n \/ i = n + 1
      BY <2>1
    <2>6. \A i \in 1..(n + 1) : pending'[i].id = tableId /\ Before(pending'[i], next)
      BY <1>11, <2>1, <2>2, <2>3, <2>5 DEF InOrder
    <2>7. \A i, j \in 1..(n + 1) : i < j => Before(pending'[i], pending'[j])
      <3> SUFFICES ASSUME NEW i \in 1..(n + 1), NEW j \in 1..(n + 1), i < j
                   PROVE  Before(pending'[i], pending'[j])
        OBVIOUS
      <3>1. i \in 1..n
        BY <2>1
      <3>2. CASE j \in 1..n
        BY <2>1, <3>1, <3>2 DEF InOrder
      <3>3. CASE j = n + 1
        BY <2>1, <2>3, <3>1, <3>3
      <3> QED
        BY <2>5, <3>2, <3>3
    <2>8. lastPhase # "none" => \A i \in 1..(n + 1) : Before(gameState, pending'[i])
      <3> SUFFICES ASSUME lastPhase # "none", NEW i \in 1..(n + 1) PROVE Before(gameState, pending'[i])
        OBVIOUS
      <3>1. CASE i \in 1..n
        BY <2>1, <3>1 DEF InOrder
      <3>2. CASE i = n + 1
        BY <2>1, <2>4, <3>2
      <3> QED
        BY <2>5, <3>1, <3>2
    <2>9. InOrder'
      BY <1>1, <2>1, <2>2, <2>4, <2>6, <2>7, <2>8 DEF InOrder
    <2> QED
      BY <1>6, <1>7, <2>9
  <1> QED
    BY <1>1, <1>10, <1>11

\* The tables deal, play and pay out their hands.
LEMMA TablesKeep ==
  ASSUME HistoryInv, NEW t \in TableIds, DealHand(t) \/ PlayOn(t) \/ PayOut(t) \/ NextHand(t)
  PROVE  HistoryInv'
  <1> DEFINE s == hands[t]
  <1>1. s \in TableState /\ s.id = t /\ s.hand \in Nat
    BY DEF HistoryInv, HistoryTypes, TableState
  <1>2. t = tableId => s = Table
    BY DEF Table
  <1>3. ASSUME NEW next \in TableState, next.id = t, Put(t, next),
               \/ s.phase = "waiting" /\ next.phase = "playing" /\ next.hand = s.hand + 1
               \/ next.phase = s.phase /\ next.hand = s.hand
               \/ s.phase = "playing" /\ next.phase = "payout" /\ next.hand = s.hand
               \/ next.phase = "waiting" /\ next.hand = s.hand
        PROVE  HistoryInv'
    <2>1. t = tableId => \A e \in TableState : Before(e, Table) => Before(e, next)
      BY <1>2, <1>3, TableGoesOn DEF TableState
    <2> QED
      BY <1>3, <2>1, PutKeeps
  <1>4. CASE DealHand(t)
    <2> DEFINE next == [s EXCEPT !.phase = "playing", !.hand = @ + 1]
    <2> HIDE DEF s
    <2>1. /\ next \in TableState /\ next.id = t /\ next.phase = "playing" /\ next.hand = s.hand + 1
      <3>1. \A r \in TableState : \A k \in Nat :
              /\ [r EXCEPT !.phase = "playing", !.hand = k] \in TableState
              /\ [r EXCEPT !.phase = "playing", !.hand = k].id = r.id
              /\ [r EXCEPT !.phase = "playing", !.hand = k].phase = "playing"
              /\ [r EXCEPT !.phase = "playing", !.hand = k].hand = k
        BY DEF TableState, Phases
      <3>2. s.hand + 1 \in Nat
        BY <1>1
      <3> QED
        BY <1>1, <3>1, <3>2
    <2>2. Put(t, next) /\ s.phase = "waiting"
      BY <1>4 DEF DealHand, s
    <2> HIDE DEF next
    <2> QED
      BY <1>3, <2>1, <2>2
  <1>5. CASE PlayOn(t)
    BY <1>1, <1>3, <1>5 DEF PlayOn
  <1>6. CASE PayOut(t)
    <2> DEFINE next == [s EXCEPT !.phase = "payout"]
    <2>1. /\ next \in TableState /\ next.id = t
          /\ s.phase = "playing" /\ next.phase = "payout" /\ next.hand = s.hand
      BY <1>1, <1>6 DEF PayOut, TableState, Phases
    <2>2. Put(t, next)
      BY <1>6 DEF PayOut
    <2> HIDE DEF next
    <2> QED
      BY <1>3, <2>1, <2>2
  <1>7. CASE NextHand(t)
    <2> DEFINE next == [s EXCEPT !.phase = "waiting"]
    <2>1. next \in TableState /\ next.id = t /\ next.phase = "waiting" /\ next.hand = s.hand
      BY <1>1, <1>7 DEF NextHand, TableState, Phases
    <2>2. Put(t, next)
      BY <1>7 DEF NextHand
    <2> HIDE DEF next
    <2> QED
      BY <1>3, <2>1, <2>2
  <1> QED
    BY <1>4, <1>5, <1>6, <1>7

\* A restart of game-state ends the hands it had.
LEMMA RestartKeeps ==
  ASSUME HistoryInv, RestartTables
  PROVE  HistoryInv'
  <1> USE DEF HistoryInv, received
  <1>1. /\ \A t \in TableIds : hands'[t] = [hands[t] EXCEPT !.phase = "waiting"]
        /\ hands' = [t \in TableIds |-> [hands[t] EXCEPT !.phase = "waiting"]]
        /\ pending' = <<>> /\ UNCHANGED <<tableId, gameState, lastPhase, rounds>>
    BY DEF RestartTables
  <1>2. \A t \in TableIds : hands'[t] \in TableState /\ hands'[t].id = t
    <2> SUFFICES ASSUME NEW t \in TableIds PROVE hands'[t] \in TableState /\ hands'[t].id = t
      OBVIOUS
    <2>1. hands[t] \in TableState /\ hands[t].id = t /\ hands'[t] = [hands[t] EXCEPT !.phase = "waiting"]
      BY <1>1 DEF HistoryTypes
    <2> QED
      BY <2>1 DEF TableState, Phases
  <1>3. HistoryTypes'
    BY <1>1, <1>2 DEF HistoryTypes
  <1>4. Table' \in TableState /\ Table'.phase = "waiting" /\ Table'.hand = Table.hand
    BY <1>1 DEF HistoryTypes, Table, TableState, Phases
  <1>5. lastPhase # "none" => Before(gameState, Table')
    BY <1>4, TableGoesOn DEF InOrder, HistoryTypes, TableState
  <1>6. InOrder'
    BY <1>1, <1>5 DEF InOrder
  <1>7. KeptInOrder'
    BY <1>1 DEF KeptInOrder
  <1> QED
    BY <1>3, <1>6, <1>7

\* A round that is recorded is of a later hand than all that are kept.
LEMMA OnGameStateKeeps ==
  ASSUME HistoryInv, OnGameState
  PROVE  HistoryInv'
  <1> USE DEF HistoryInv
  <1> DEFINE event == Head(pending)
             n     == Len(pending)
  <1>1. pending \in Seq(TableState) /\ pending # <<>> /\ UNCHANGED <<hands, tableId>>
    BY DEF OnGameState, HistoryTypes
  <1>2. /\ gameState' = event /\ lastPhase' = event.phase /\ pending' = Tail(pending)
        /\ rounds' = IF Recorded(event) THEN Kept(event, rounds) ELSE rounds
    BY DEF OnGameState
  <1>3. /\ n \in Nat \ {0} /\ DOMAIN pending = 1..n /\ DOMAIN pending' = 1..(n - 1)
        /\ \A i \in 1..(n - 1) : pending'[i] = pending[i + 1]
        /\ event = pending[1] /\ event \in TableState
    BY <1>1, <1>2
  <1>4. Tail(pending) \in Seq(TableState)
    BY <1>1
  <1> HIDE DEF event, n
  <1>5. event.id = tableId /\ event.hand \in Nat /\ event.phase \in Phases
    BY <1>3 DEF InOrder, TableState
  <1>6. \A i \in 1..(n - 1) : i + 1 \in 1..n /\ 1 \in 1..n /\ 1 < i + 1
    BY <1>3
  <1>7. InOrder'
    <2>1. Table' = Table
      BY <1>1 DEF Table
    <2>2. \A i \in 1..(n - 1) : pending'[i].id = tableId /\ Before(pending'[i], Table)
      BY <1>3, <1>6 DEF InOrder
    <2>3. \A i, j \in 1..(n - 1) : i < j => Before(pending'[i], pending'[j])
      <3> SUFFICES ASSUME NEW i \in 1..(n - 1), NEW j \in 1..(n - 1), i < j
                   PROVE  Before(pending'[i], pending'[j])
        OBVIOUS
      <3>1. i + 1 < j + 1
        OBVIOUS
      <3> QED
        BY <3>1, <1>3, <1>6 DEF InOrder
    <2>4. Before(event, Table) /\ \A i \in 1..(n - 1) : Before(event, pending'[i])
      BY <1>3, <1>6 DEF InOrder
    <2> QED
      BY <2>1, <2>2, <2>3, <2>4, <1>1, <1>2, <1>3 DEF InOrder
  <1>8. lastPhase # "none" => Before(gameState, event) /\ gameState \in TableState /\ gameState.phase = lastPhase
    BY <1>3 DEF InOrder, HistoryTypes
  <1>9. \A i \in DOMAIN rounds :
          /\ rounds[i].id = tableId /\ rounds[i].phase = "payout"
          /\ rounds[i].hand \in Nat /\ rounds[i].hand <= event.hand
          /\ rounds[i].hand = event.hand => event.phase \in {"payout", "waiting"}
          /\ Recorded(event) => rounds[i].hand < event.hand
    <2> SUFFICES ASSUME NEW i \in DOMAIN rounds
                 PROVE  /\ rounds[i].id = tableId /\ rounds[i].phase = "payout"
                        /\ rounds[i].hand \in Nat /\ rounds[i].hand <= event.hand
                        /\ rounds[i].hand = event.hand => event.phase \in {"payout", "waiting"}
                        /\ Recorded(event) => rounds[i].hand < event.hand
      OBVIOUS
    <2>1. rounds # <<>> /\ rounds[i] \in TableState
      BY ElementOfSeq DEF HistoryTypes
    <2>2. lastPhase # "none"
      BY <2>1 DEF KeptInOrder
    <2>3. /\ rounds[i].id = tableId /\ rounds[i].phase = "payout" /\ rounds[i].hand <= gameState.hand
          /\ rounds[i].hand = gameState.hand => lastPhase \in {"payout", "waiting"}
      BY DEF KeptInOrder
    <2>4. rounds[i].hand \in Nat /\ gameState.hand \in Nat
      BY <2>1, <2>2, <1>8 DEF TableState
    <2> QED
      BY <2>2, <2>3, <2>4, <1>5, <1>8 DEF Before, Recorded, Phases
  <1>10. rounds \in Seq(TableState) /\ Len(rounds) \in Nat /\ DOMAIN rounds = 1..Len(rounds)
    BY DEF HistoryTypes
  <1>11. CASE ~ Recorded(event)
    <2>1. rounds' = rounds
      BY <1>2, <1>11
    <2>2. HistoryTypes'
      BY <1>1, <1>2, <1>3, <1>4, <1>5, <2>1 DEF HistoryTypes
    <2>3. KeptInOrder'
      BY <1>1, <1>2, <1>5, <1>9, <2>1 DEF KeptInOrder, Phases
    <2> QED
      BY <1>7, <2>2, <2>3
  <1>12. CASE Recorded(event)
    <2> DEFINE all == <<event>> \o rounds
               m   == Len(rounds)
    <2>1. /\ all \in Seq(TableState) /\ Len(all) = m + 1 /\ all[1] = event
          /\ \A i \in 1..m : all[i + 1] = rounds[i]
      BY <1>3, <1>10
    <2>2. PICK k \in 0..(m + 1) : /\ k <= MaxRounds
                                  /\ rounds' \in Seq(TableState) /\ Len(rounds') = k
                                  /\ \A i \in 1..k : rounds'[i] = all[i]
      <3>1. MaxRounds \in Nat
        BY HistoryAssumption DEF HistoryAssumption
      <3>2. rounds' = IF m + 1 > MaxRounds THEN SubSeq(all, 1, MaxRounds) ELSE all
        BY <1>2, <1>12, <2>1 DEF Kept
      <3>3. CASE m + 1 > MaxRounds
        <4>1. rounds' = SubSeq(all, 1, MaxRounds) /\ MaxRounds \in 0..(m + 1)
          BY <3>1, <3>2, <3>3, <1>10
        <4>2. /\ SubSeq(all, 1, MaxRounds) \in Seq(TableState) /\ Len(SubSeq(all, 1, MaxRounds)) = MaxRounds
              /\ \A i \in 1..MaxRounds : SubSeq(all, 1, MaxRounds)[i] = all[i]
          BY <2>1, <3>1, <3>3, <1>10
        <4> QED
          BY <3>1, <4>1, <4>2
      <3>4. CASE ~ (m + 1 > MaxRounds)
        BY <2>1, <3>1, <3>2, <3>4, <1>10
      <3> QED
        BY <3>3, <3>4
    <2> HIDE DEF all, m
    <2>3. m \in Nat /\ DOMAIN rounds = 1..m /\ DOMAIN rounds' = 1..k
      BY <1>10, <2>2 DEF m
    <2>4. \A i \in 1..k : \/ i = 1 /\ rounds'[i] = event
                          \/ i > 1 /\ i - 1 \in 1..m /\ rounds'[i] = rounds[i - 1]
      <3> SUFFICES ASSUME NEW i \in 1..k, i # 1 PROVE i - 1 \in 1..m /\ rounds'[i] = rounds[i - 1]
        BY <2>1, <2>2
      <3>1. i - 1 \in 1..m /\ (i - 1) + 1 = i
        BY <2>3
      <3> QED
        BY <2>1, <2>2, <3>1
    <2>5. HistoryTypes'
      BY <1>1, <1>2, <1>3, <1>4, <1>5, <2>2 DEF HistoryTypes
    <2>6. event.phase = "payout"
      BY <1>12 DEF Recorded
    <2>7. \A i \in 1..k :
            /\ rounds'[i].id = tableId /\ rounds'[i].phase = "payout" /\ rounds'[i].hand <= event.hand
            /\ \A j \in 1..k : i < j => rounds'[j].hand < rounds'[i].hand
      <3> SUFFICES ASSUME NEW i \in 1..k
                   PROVE  /\ rounds'[i].id = tableId /\ rounds'[i].phase = "payout"
                          /\ rounds'[i].hand <= event.hand
                          /\ \A j \in 1..k : i < j => rounds'[j].hand < rounds'[i].hand
        OBVIOUS
      <3>1. CASE i = 1
        BY <1>5, <1>9, <1>12, <2>3, <2>4, <2>6, <3>1
      <3>2. CASE i > 1
        <4>1. i - 1 \in 1..m /\ rounds'[i] = rounds[i - 1]
          BY <2>4, <3>2
        <4>2. ASSUME NEW j \in 1..k, i < j PROVE rounds'[j].hand < rounds'[i].hand
          <5>1. j - 1 \in 1..m /\ rounds'[j] = rounds[j - 1] /\ i - 1 < j - 1
            BY <2>4, <3>2, <4>2
          <5> QED
            BY <4>1, <5>1, <2>3 DEF KeptInOrder
        <4> QED
          BY <1>9, <2>3, <4>1, <4>2
      <3> QED
        BY <3>1, <3>2
    <2>8. KeptInOrder'
      BY <1>1, <1>2, <2>2, <2>3, <2>6, <2>7 DEF KeptInOrder
    <2> QED
      BY <1>7, <2>5, <2>8
  <1> QED
    BY <1>11, <1>12

\* Every step keeps the invariant.
LEMMA HistoryInvNext == HistoryInv /\ [HistoryNext]_historyVars => HistoryInv'
  <1> SUFFICES ASSUME HistoryInv, [HistoryNext]_historyVars PROVE HistoryInv'
    OBVIOUS
  <1>1. CASE UNCHANGED historyVars
    BY <1>1 DEF historyVars, HistoryInv, HistoryTypes, InOrder, KeptInOrder, Table, Before
  <1>2. CASE HistoryNext
    BY <1>2, StreamKeeps, TablesKeep, RestartKeeps, OnGameStateKeeps DEF HistoryNext
  <1> QED
    BY <1>1, <1>2

\* The invariant, for any number of tables, hands and rounds kept.
THEOREM HistoryInvariant == HistorySpec => []HistoryInv
  BY HistoryInvInit, HistoryInvNext, PTL DEF HistorySpec

\* Wherever the stream breaks and begins again, and whatever it drops, the
\* history has no hand twice, none of another table and none out of order.
THEOREM NoHandTwice == HistorySpec => []RoundsOnce
  <1>1. HistoryInv => RoundsOnce
    <2> SUFFICES ASSUME HistoryInv PROVE RoundsOnce
      OBVIOUS
    <2> USE DEF HistoryInv
    <2>1. \A i \in DOMAIN rounds : rounds[i] \in TableState /\ rounds[i].hand \in Nat
      <3>1. \A i \in DOMAIN rounds : rounds[i] \in TableState
        BY ElementOfSeq DEF HistoryTypes
      <3> QED
        BY <3>1 DEF TableState
    <2>2. \A i \in DOMAIN rounds : rounds[i].hand <= Table.hand
      <3> SUFFICES ASSUME NEW i \in DOMAIN rounds PROVE rounds[i].hand <= Table.hand
        OBVIOUS
      <3>1. lastPhase # "none"
        BY DEF KeptInOrder, HistoryTypes
      <3>2. gameState.hand <= Table.hand /\ gameState.hand \in Nat /\ Table.hand \in Nat
        BY <3>1 DEF InOrder, Before, HistoryTypes, TableState, Table
      <3> QED
        BY <2>1, <3>2 DEF KeptInOrder
    <2>3. \A i, j \in DOMAIN rounds : RoundNumber(i) < RoundNumber(j) => rounds[i].hand < rounds[j].hand
      <3> SUFFICES ASSUME NEW i \in DOMAIN rounds, NEW j \in DOMAIN rounds, RoundNumber(i) < RoundNumber(j)
                   PROVE  rounds[i].hand < rounds[j].hand
        OBVIOUS
      <3>1. j < i
        BY DEF HistoryTypes, RoundNumber
      <3> QED
        BY <3>1 DEF KeptInOrder
    <2> QED
      BY <2>2, <2>3 DEF RoundsOnce, KeptInOrder, Table
  <1> QED
    BY <1>1, HistoryInvariant, PTL

-----------------------------------------------------------------------------
(* Statement *)

\* Of a dialog that turned to another player the transactions are on the way,
\* if they are not there; a closed one has none and waits for none.
StatementTypes ==
  /\ owner \in Owners
  /\ requests \in [Owners -> Nat]
  /\ transactions \in Owners \cup {"nobody"}
  /\ shown \in BOOLEAN /\ error \in BOOLEAN /\ mixed \in BOOLEAN

Closed == transactions = "nobody" /\ requests = NoRequests

OnTheWay == transactions \in {"nobody", owner} \/ error \/ mixed \/ requests[owner] > 0

StatementInv == StatementTypes /\ (shown \/ Closed) /\ OnTheWay

LEMMA StatementInvInit == StatementInit => StatementInv
  <1> SUFFICES ASSUME StatementInit PROVE StatementInv
    OBVIOUS
  <1>1. StatementTypes
    BY DEF StatementInit, StatementTypes, NoRequests
  <1>2. Closed
    BY DEF StatementInit, Closed
  <1>3. QED
    BY <1>1, <1>2 DEF StatementInv, Closed, OnTheWay

\* Opening and closing start from nothing.
LEMMA AnewKeeps ==
  ASSUME StatementInv, OpenStatement \/ CloseStatement
  PROVE  StatementInv'
  <1>1. /\ owner' = owner /\ transactions' = "nobody" /\ error' = FALSE /\ mixed' = FALSE
        /\ owner \in Owners
    BY DEF OpenStatement, CloseStatement, StatementInv, StatementTypes
  <1>2. CASE OpenStatement
    <2>1. shown' = TRUE /\ requests' \in [Owners -> Nat]
      BY <1>1, <1>2 DEF OpenStatement, NoRequests
    <2>2. QED
      BY <1>1, <2>1 DEF StatementInv, StatementTypes, OnTheWay
  <1>3. CASE CloseStatement
    <2>1. shown' = FALSE /\ requests' = NoRequests /\ requests' \in [Owners -> Nat]
      BY <1>1, <1>3 DEF CloseStatement, NoRequests
    <2>2. QED
      BY <1>1, <2>1 DEF StatementInv, StatementTypes, Closed, OnTheWay
  <1>4. QED
    BY <1>2, <1>3

LEMMA OwnerChangesKeeps ==
  ASSUME StatementInv, NEW player \in Owners, OwnerChanges(player)
  PROVE  StatementInv'
  <1>1. owner' = player /\ UNCHANGED <<shown, transactions, error>> /\ StatementTypes
    BY DEF OwnerChanges, StatementInv
  <1>2. CASE shown
    <2>1. requests' = [requests EXCEPT ![player] = @ + 1] /\ mixed' = FALSE
      BY <1>2 DEF OwnerChanges, Refetched
    <2>2. requests' \in [Owners -> Nat] /\ requests'[player] > 0
      BY <1>1, <2>1 DEF StatementTypes
    <2>3. QED
      BY <1>1, <1>2, <2>1, <2>2 DEF StatementInv, StatementTypes, OnTheWay
  <1>3. CASE ~ shown
    <2>1. UNCHANGED <<requests, mixed>> /\ Closed
      BY <1>3 DEF OwnerChanges, StatementInv
    <2>2. QED
      BY <1>1, <2>1 DEF StatementInv, StatementTypes, Closed, OnTheWay
  <1>4. QED
    BY <1>2, <1>3

LEMMA AnsweredKeeps ==
  ASSUME StatementInv, NEW player \in Owners, TransactionsAnswered(player)
  PROVE  StatementInv'
  <1>1. /\ requests' = [requests EXCEPT ![player] = @ - 1] /\ requests[player] > 0
        /\ mixed' = (mixed \/ player # owner)
        /\ owner' = owner /\ shown' = shown
        /\ \/ transactions' \in {player, "nobody"} /\ error' = error
           \/ error' = TRUE /\ transactions' = transactions
        /\ StatementTypes
    BY DEF TransactionsAnswered, StatementInv
  <1>2. shown
    <2>1. ~ Closed
      BY <1>1 DEF Closed, NoRequests
    <2>2. QED
      BY <2>1 DEF StatementInv
  <1>3. requests' \in [Owners -> Nat]
    BY <1>1 DEF StatementTypes
  <1>4. StatementTypes'
    BY <1>1, <1>3 DEF StatementTypes
  <1>5. OnTheWay'
    <2>1. CASE player = owner /\ transactions' \in {player, "nobody"}
      BY <1>1, <2>1 DEF OnTheWay
    <2>2. CASE player # owner
      BY <1>1, <2>2 DEF OnTheWay
    <2>3. CASE error'
      BY <2>3 DEF OnTheWay
    <2>4. QED
      BY <1>1, <2>1, <2>2, <2>3
  <1>6. QED
    BY <1>1, <1>2, <1>4, <1>5 DEF StatementInv

LEMMA StatementInvNext == StatementInv /\ [StatementNext]_statementVars => StatementInv'
  <1> SUFFICES ASSUME StatementInv, [StatementNext]_statementVars PROVE StatementInv'
    OBVIOUS
  <1>1. ASSUME UNCHANGED <<owner, shown, transactions, requests, mixed>>, error' \in {error, TRUE}
        PROVE  StatementInv'
    <2>1. StatementTypes'
      BY <1>1 DEF StatementInv, StatementTypes
    <2>2. (shown \/ Closed)' /\ OnTheWay'
      BY <1>1 DEF StatementInv, Closed, OnTheWay
    <2>3. QED
      BY <2>1, <2>2 DEF StatementInv
  <1>2. CASE HandleDownload \/ DownloadAnswered \/ UNCHANGED statementVars
    BY <1>1, <1>2 DEF HandleDownload, DownloadAnswered, statementVars
  <1>3. QED
    BY <1>2, AnewKeeps, OwnerChangesKeeps, AnsweredKeeps DEF StatementNext

\* When all answers are there, the transactions on the screen are those of the
\* player the page is about, or the dialog shows an error, or an answer for
\* another player came after the turn (TransactionModal).
THEOREM StatementIsOwners == StatementSpec => []StatementOfOwner
  <1>1. StatementInv => StatementOfOwner
    BY DEF StatementInv, StatementTypes, OnTheWay, StatementOfOwner, NoRequests
  <1>2. QED
    BY <1>1, StatementInvInit, StatementInvNext, PTL DEF StatementSpec

-----------------------------------------------------------------------------
(* Betting *)

\* The bet on its way is one that the panel let pass, and nothing is on the
\* table but while a hand is played.
BettingInv ==
  /\ BettingTypeOK
  /\ wager # NoWager => wager.amount >= MinBet /\ wager.amount <= AtMost(MaxBet, wager.shown)
  /\ seat.phase # "playing" => onTable = 0

\* A bound that is a number makes a number of a number.
LEMMA Bounded ==
  ASSUME NEW bound \in Nat, NEW n \in Nat
  PROVE  /\ AtMost(bound, n) \in Nat /\ AtMost(bound, n) <= bound /\ AtMost(bound, n) <= n
         /\ n <= bound => AtMost(bound, n) = n
         /\ AtLeast(bound, n) \in Nat /\ AtLeast(bound, n) >= bound
         /\ n >= bound => AtLeast(bound, n) = n
BY DEF AtMost, AtLeast

LEMMA BettingInvInit == BettingInit => BettingInv
  <1> SUFFICES ASSUME BettingInit PROVE BettingInv
    OBVIOUS
  <1>1. BettingTypeOK
    BY BettingAssumption DEF BettingInit, BettingTypeOK, NoWager
  <1>2. wager = NoWager /\ onTable = 0
    BY DEF BettingInit
  <1>3. QED
    BY <1>1, <1>2 DEF BettingInv

\* What playerBet does with the bet it is asked for.
LEMMA PlayerBetKeeps == ASSUME BettingInv, PlayerBet PROVE BettingInv'
  <1> DEFINE amount == Stake(wager.amount, seat.chips)
  <1>1. /\ BettingTypeOK /\ wager' = NoWager
        /\ UNCHANGED <<seen, shownBalance, betAmount, restocked>>
        /\ seat.phase # "playing" => onTable = 0
    BY DEF BettingInv, PlayerBet, onPage
  <1>2. amount \in Nat
    <2>1. wager.amount \in Nat /\ seat.chips \in Nat /\ MinBet \in Nat /\ MaxBet \in Nat
      BY <1>1, BettingAssumption DEF BettingTypeOK
    <2>2. QED
      BY <2>1 DEF Stake, AtMost, AtLeast
  <1>3. CASE UNCHANGED <<seat, funds, onTable>> /\ outcome' \in {"refused", "ignored", "rejected"}
    BY <1>1, <1>3 DEF BettingInv, BettingTypeOK, NoWager
  <1>4. CASE /\ outcome' = "staked" /\ funds' = funds - amount /\ onTable' = amount
             /\ seat' = [phase |-> "playing", chips |-> funds - amount]
             /\ ~ amount > funds
    <2>1. funds - amount \in Nat
      BY <1>1, <1>2, <1>4 DEF BettingTypeOK
    <2>2. QED
      BY <1>1, <1>2, <1>4, <2>1 DEF BettingInv, BettingTypeOK, NoWager
  <1>5. QED
    BY <1>3, <1>4 DEF PlayerBet

LEMMA PayOutHandKeeps == ASSUME BettingInv, PayOutHand PROVE BettingInv'
  <1>1. PICK times \in 0..2 :
          /\ funds' = funds + times * onTable
          /\ seat' = [phase |-> "payout", chips |-> funds + times * onTable]
    BY DEF PayOutHand
  <1>2. funds + times * onTable \in Nat
    <2>1. funds \in Nat /\ onTable \in Nat
      BY DEF BettingInv, BettingTypeOK
    <2>2. times = 0 \/ times = 1 \/ times = 2
      OBVIOUS
    <2>3. QED
      BY <2>1, <2>2
  <1>3. onTable' = 0 /\ UNCHANGED <<seen, shownBalance, betAmount, wager, outcome, restocked>>
    BY DEF PayOutHand, onPage
  <1>4. QED
    BY <1>1, <1>2, <1>3 DEF BettingInv, BettingTypeOK

LEMMA BettingInvNext == BettingInv /\ [BettingNext]_bettingVars => BettingInv'
  <1> SUFFICES ASSUME BettingInv, [BettingNext]_bettingVars PROVE BettingInv'
    OBVIOUS
  <1> USE BettingAssumption
  <1>1. BettingTypeOK /\ PanelChips \in (IF PanelShown THEN Nat ELSE {PanelChips})
    BY DEF BettingInv, BettingTypeOK, PanelChips
  <1>2. CASE ChooseBet
    <2>1. PanelChips \in Nat
      BY <1>1 DEF BettingTypeOK, PanelChips
    <2>2. betAmount' \in Nat
      BY <1>2, <2>1, Bounded DEF ChooseBet, Quick, AllIn, Custom
    <2>3. QED
      BY <1>2, <2>2 DEF ChooseBet, BettingInv, BettingTypeOK
  <1>3. CASE PressDeal
    <2>1. PanelChips \in Nat /\ betAmount \in Nat
      BY <1>1 DEF BettingTypeOK, PanelChips
    <2>2. /\ wager' = [amount |-> betAmount, shown |-> PanelChips] /\ CanBet
          /\ UNCHANGED <<seat, funds, onTable, seen, shownBalance, betAmount, outcome, restocked>>
      BY <1>3 DEF PressDeal, onPage
    <2>3. QED
      BY <2>1, <2>2 DEF BettingInv, BettingTypeOK, CanBet
  <1>4. CASE SeatSeen
    BY <1>4, Bounded DEF SeatSeen, BettingInv, BettingTypeOK
  <1>5. CASE BalanceSeen
    BY <1>5 DEF BalanceSeen, BettingInv, BettingTypeOK
  <1>6. CASE Restock
    BY <1>6 DEF Restock, BettingInv, BettingTypeOK
  <1>7. CASE ClearTable
    BY <1>7 DEF ClearTable, onPage, BettingInv, BettingTypeOK
  <1>8. CASE RestartSeat
    BY <1>8 DEF RestartSeat, onPage, BettingInv, BettingTypeOK
  <1>9. CASE UNCHANGED bettingVars
    BY <1>9 DEF bettingVars, BettingInv, BettingTypeOK
  <1>10. QED
    BY <1>2, <1>3, <1>4, <1>5, <1>6, <1>7, <1>8, <1>9, PlayerBetKeeps, PayOutHandKeeps
       DEF BettingNext

\* Nobody plays for more than was asked for, and for exactly that if the page
\* showed what the table and the bank have (BetPanel, playerBet).
THEOREM BetIsAsAsked == BettingSpec => BetAsAsked
  <1>1. ASSUME BettingInv, PlayerBet, seat.phase = "waiting"
        PROVE  /\ onTable' <= wager.amount
               /\ wager.shown = seat.chips /\ seat.chips = funds => onTable' = wager.amount
    <2> DEFINE amount == Stake(wager.amount, seat.chips)
    <2>1. /\ wager.amount \in Nat /\ wager.shown \in Nat /\ seat.chips \in Nat /\ funds \in Nat
          /\ wager.amount >= MinBet /\ wager.amount <= AtMost(MaxBet, wager.shown)
          /\ onTable = 0
      BY <1>1 DEF BettingInv, BettingTypeOK, PlayerBet
    <2>2. MinBet \in Nat \ {0} /\ MaxBet \in Nat
      BY BettingAssumption
    <2>3. wager.amount <= MaxBet /\ wager.amount <= wager.shown
      BY <2>1, <2>2 DEF AtMost
    <2>4. amount = AtMost(seat.chips, wager.amount)
      BY <2>1, <2>2, <2>3 DEF Stake, AtMost, AtLeast
    <2>5. amount \in Nat /\ amount <= wager.amount
      BY <2>1, <2>4 DEF AtMost
    <2>6. onTable' = onTable \/ onTable' = amount
      BY <1>1 DEF PlayerBet
    <2>7. onTable' <= wager.amount
      BY <2>1, <2>5, <2>6
    <2>8. ASSUME wager.shown = seat.chips, seat.chips = funds PROVE onTable' = wager.amount
      <3>1. amount = wager.amount
        BY <2>1, <2>3, <2>4, <2>8 DEF AtMost
      <3>2. amount # 0 /\ ~ amount > funds
        BY <2>1, <2>2, <2>3, <2>8, <3>1
      <3>3. QED
        BY <1>1, <3>1, <3>2 DEF PlayerBet
    <2>9. QED
      BY <2>7, <2>8
  <1>2. BettingInv /\ [BettingNext]_bettingVars =>
          [PlayerBet /\ seat.phase = "waiting" =>
             /\ onTable' <= wager.amount
             /\ wager.shown = seat.chips /\ seat.chips = funds => onTable' = wager.amount]_bettingVars
    BY <1>1
  <1>3. QED
    BY <1>2, BettingInvInit, BettingInvNext, PTL DEF BettingSpec, BetAsAsked

-----------------------------------------------------------------------------
(* Dialogs *)

AuthStates == {"form", "passkey-pending", "check-email"}

AuthType ==
  [shown : BOOLEAN, action : Actions, state : AuthStates,
   fields : Actions \cup {"none", "unreadable"}, filled : BOOLEAN, fieldErrors : BOOLEAN,
   submitError : BOOLEAN, loading : BOOLEAN,
   flow : {"none", "submit", "begin", "prompt", "complete"}]

\* A form on the screen can be read, and is that of the open tab unless another
\* form's definition came since the tab was opened.
FormInv ==
  /\ auth \in AuthType
  /\ crossed \in BOOLEAN
  /\ auth.fields = "unreadable" => auth.state # "form"
  /\ auth.fields \in Actions => auth.fields = auth.action \/ crossed

LEMMA NoAuthFits == NoAuth \in AuthType /\ NoAuth.fields = "none"
BY DEF NoAuth, AuthType, AuthStates, Actions

\* A form that is fetched anew has no fields.
LEMMA FormedFits ==
  ASSUME FormInv, NEW form \in AuthType, Formed(form)
  PROVE  FormInv'
  <1>1. CASE form.fields = "unreadable"
    BY <1>1, NoAuthFits DEF Formed, Blank, FormInv, Actions
  <1>2. CASE form.fields # "unreadable"
    <2> DEFINE next == [form EXCEPT !.state = "form", !.fields = "none", !.filled = FALSE,
                                    !.fieldErrors = FALSE, !.submitError = FALSE]
    <2>1. auth' = next /\ crossed' = FALSE
      BY <1>2 DEF Formed
    <2>2. next \in AuthType /\ next.fields = "none"
      BY DEF AuthType, AuthStates
    <2>3. QED
      BY <2>1, <2>2 DEF FormInv, Actions
  <1>3. QED
    BY <1>1, <1>2

LEMMA FormInvNext == FormInv /\ [DialogsNext]_dialogVars => FormInv'
  <1> SUFFICES ASSUME FormInv, [DialogsNext]_dialogVars PROVE FormInv'
    OBVIOUS
  <1>1. auth \in AuthType /\ crossed \in BOOLEAN
    BY DEF FormInv
  <1>2. CASE UNCHANGED <<auth, crossed>>
    BY <1>2 DEF FormInv
  <1>3. ASSUME auth' = NoAuth, crossed' \in BOOLEAN PROVE FormInv'
    BY <1>3, NoAuthFits DEF FormInv, Actions
  \* The form keeps its fields, and what changes of its state is not back to a form.
  <1> DEFINE Same == /\ auth' \in AuthType /\ crossed' = crossed
                     /\ auth'.fields = auth.fields /\ auth'.action = auth.action
                     /\ auth'.state \in {auth.state, "passkey-pending", "check-email"}
  <1>4. ASSUME Same PROVE FormInv'
    BY <1>4 DEF FormInv
  <1>5. CASE OpenModal
    <2>1. [NoAuth EXCEPT !.shown = TRUE] \in AuthType
      BY DEF NoAuth, AuthType, AuthStates, Actions
    <2>2. QED
      BY <1>5, <2>1, FormedFits DEF OpenModal
  <1>6. CASE CloseModal \/ PasskeyVerified \/ Reload
    BY <1>1, <1>3, <1>6 DEF CloseModal, PasskeyVerified, Reload
  <1>7. ASSUME NEW action \in Actions, FieldsAnswered(action) PROVE FormInv'
    <2>1. /\ auth' = [auth EXCEPT !.fields = action, !.filled = FALSE]
          /\ crossed' = (crossed \/ action # auth.action)
      BY <1>7 DEF FieldsAnswered
    <2>2. auth' \in AuthType /\ auth'.fields = action /\ auth'.action = auth.action
      BY <1>1, <2>1 DEF AuthType
    <2>3. QED
      BY <1>1, <2>1, <2>2 DEF FormInv, Actions
  <1>8. ASSUME NEW action \in Actions, FieldsFailed(action) PROVE FormInv'
    <2>1. auth' = [auth EXCEPT !.submitError = TRUE] /\ UNCHANGED crossed
      BY <1>8 DEF FieldsFailed
    <2>2. Same
      BY <1>1, <2>1 DEF AuthType
    <2>3. QED
      BY <1>4, <2>2
  <1>9. ASSUME NEW action \in Actions, FieldsUnreadable(action) PROVE FormInv'
    <2>1. CASE auth.state = "form"
      BY <1>1, <1>3, <1>9, <2>1 DEF FieldsUnreadable, Blank
    <2>2. CASE auth.state # "form"
      <3>1. auth' = [auth EXCEPT !.fields = "unreadable", !.submitError = TRUE] /\ UNCHANGED crossed
        BY <1>9, <2>2 DEF FieldsUnreadable
      <3>2. auth' \in AuthType /\ auth'.fields = "unreadable" /\ auth'.state = auth.state
        BY <1>1, <3>1 DEF AuthType
      <3>3. QED
        BY <1>1, <2>2, <3>1, <3>2 DEF FormInv, Actions
    <2>3. QED
      BY <2>1, <2>2
  <1>10. CASE Typing
    <2>1. auth' = [auth EXCEPT !.filled = ~ @] /\ UNCHANGED crossed
      BY <1>10 DEF Typing
    <2>2. Same
      BY <1>1, <2>1 DEF AuthType
    <2>3. QED
      BY <1>4, <2>2
  <1>11. ASSUME NEW action \in Actions, SwitchAction(action) PROVE FormInv'
    <2>1. CASE auth.state = "form" /\ auth.action = action
      <3>1. auth' = [auth EXCEPT !.submitError = FALSE] /\ UNCHANGED crossed
        BY <1>11, <2>1 DEF SwitchAction, Switched
      <3>2. Same
        BY <1>1, <3>1 DEF AuthType
      <3>3. QED
        BY <1>4, <3>2
    <2>2. CASE ~ (auth.state = "form" /\ auth.action = action)
      <3>1. Formed([auth EXCEPT !.action = action])
        BY <1>11, <2>2 DEF SwitchAction, Switched
      <3>2. [auth EXCEPT !.action = action] \in AuthType
        BY <1>1 DEF AuthType
      <3>3. QED
        BY <3>1, <3>2, FormedFits
    <2>3. QED
      BY <2>1, <2>2
  <1>12. CASE HandleSubmit
    <2>1. UNCHANGED crossed
      BY <1>12 DEF HandleSubmit
    <2>2. CASE auth.action = "register"
      <3>1. auth' = [auth EXCEPT !.submitError = FALSE, !.fieldErrors = FALSE, !.loading = TRUE,
                                 !.flow = "submit"]
        BY <1>12, <2>2 DEF HandleSubmit
      <3>2. Same
        BY <1>1, <2>1, <3>1 DEF AuthType
      <3>3. QED
        BY <1>4, <3>2
    <2>3. CASE auth.action # "register" /\ auth.filled
      <3>1. auth' = [auth EXCEPT !.submitError = FALSE, !.loading = TRUE, !.flow = "begin",
                                 !.state = "passkey-pending"]
        BY <1>12, <2>3 DEF HandleSubmit
      <3>2. Same
        BY <1>1, <2>1, <3>1 DEF AuthType, AuthStates
      <3>3. QED
        BY <1>4, <3>2
    <2>4. CASE auth.action # "register" /\ ~ auth.filled
      <3>1. auth' = [auth EXCEPT !.fieldErrors = TRUE]
        BY <1>12, <2>4 DEF HandleSubmit
      <3>2. Same
        BY <1>1, <2>1, <3>1 DEF AuthType
      <3>3. QED
        BY <1>4, <3>2
    <2>5. QED
      BY <2>2, <2>3, <2>4
  <1>13. CASE PasskeyAccepted
    <2>1. auth.flow \in {"begin", "prompt"} /\ UNCHANGED crossed
          /\ auth' = [auth EXCEPT !.flow = After[auth.flow]]
      BY <1>13 DEF PasskeyAccepted, After
    <2>2. After[auth.flow] \in {"prompt", "complete"}
      BY <2>1 DEF After
    <2>3. Same
      BY <1>1, <2>1, <2>2 DEF AuthType
    <2>4. QED
      BY <1>4, <2>3
  <1>14. CASE PasskeyRefused
    <2>1. Formed([auth EXCEPT !.loading = FALSE, !.flow = "none"])
      BY <1>14 DEF PasskeyRefused, BackToForm
    <2>2. [auth EXCEPT !.loading = FALSE, !.flow = "none"] \in AuthType
      BY <1>1 DEF AuthType
    <2>3. QED
      BY <2>1, <2>2, FormedFits
  <1>15. CASE RegisterAnswered
    <2> DEFINE done == [auth EXCEPT !.loading = FALSE, !.flow = "none"]
    <2>1. /\ UNCHANGED crossed
          /\ auth' \in {[done EXCEPT !.state = "check-email"], [done EXCEPT !.fieldErrors = TRUE],
                        [done EXCEPT !.submitError = TRUE]}
      BY <1>15 DEF RegisterAnswered
    <2>2. /\ done \in AuthType /\ done.fields = auth.fields /\ done.action = auth.action
          /\ done.state = auth.state
      BY <1>1 DEF AuthType
    <2> HIDE DEF done
    <2>3. /\ auth' \in AuthType /\ auth'.fields = auth.fields /\ auth'.action = auth.action
          /\ auth'.state \in {auth.state, "check-email"}
      BY <2>1, <2>2 DEF AuthType, AuthStates
    <2>4. Same
      BY <2>1, <2>3
    <2>5. QED
      BY <1>4, <2>4
  <1>16. CASE \/ ExchangeAnswered \/ HandleEnroll \/ EnrollAccepted \/ EnrollRefused
              \/ EnrollVerified \/ EnrollDone \/ SessionEnds \/ EnrollmentReset
    BY <1>2, <1>16 DEF ExchangeAnswered, HandleEnroll, EnrollAccepted, EnrollRefused,
       EnrollVerified, EnrollDone, SessionEnds, EnrollmentReset, signIn
  <1>17. CASE UNCHANGED dialogVars
    BY <1>2, <1>17 DEF dialogVars
  <1>18. QED
    BY <1>5, <1>6, <1>7, <1>8, <1>9, <1>10, <1>11, <1>12, <1>13, <1>14, <1>15, <1>16, <1>17
       DEF DialogsNext, PasskeyStep, RegisterStep, EnrollStep

\* However fast the tabs are switched and in whatever order the definitions
\* come, the form on the screen is that of the open tab, unless the other's
\* came after the switch (AuthModal).
THEOREM FormAlwaysFits == DialogsSpec => []FormFits
  <1>1. DialogsInit => FormInv
    BY NoAuthFits DEF DialogsInit, FormInv, Actions
  <1>2. FormInv => FormFits
    BY DEF FormInv, FormFits, AuthType
  <1>3. QED
    BY <1>1, <1>2, FormInvNext, PTL DEF DialogsSpec
=============================================================================
