----------------------------- MODULE AppProofs -----------------------------
(***************************************************************************)
(* Theorems about App, for every number of players and of requests in      *)
(* flight: what loading the page again finds, one deposit at a time, the   *)
(* offer of chips, and whose balance is shown.                             *)
(*                                                                         *)
(* The last is not inductive: a balance on the screen may be nobody's      *)
(* while the right one is on its way.  Shows says that it is on its way if *)
(* it is not there: a request for it, or an event of which the last one is *)
(* the bank's balance.                                                     *)
(***************************************************************************)
EXTENDS App, SequenceTheorems, TLAPS

CallType  == [kind : Kinds, who : Accounts \cup {Nobody}, value : Nat]
EventType == [who : Accounts, amount : Nat, lost : BOOLEAN]
FeedType  == [who : Accounts \cup {Nobody}, open : BOOLEAN, events : Seq(EventType)]

\* AppTypeOK, with its sets named.
AppTypes ==
  /\ session \in Players \cup {Nobody} /\ stored \in Players \cup {Nobody} /\ live \in BOOLEAN
  /\ demoToken \in BOOLEAN
  /\ playerTable \in Players \cup {Nobody} /\ phase \in {"none", "waiting", "playing"}
  /\ balance \in Nat \cup {Nobody}
  /\ showRestock \in BOOLEAN /\ restocking \in BOOLEAN /\ dismissed \in BOOLEAN
  /\ call \in [Calls -> CallType] /\ feed \in FeedType
  /\ bank \in [Accounts -> Nat] /\ moves \in Nat /\ doubt \in BOOLEAN

-----------------------------------------------------------------------------
(* Types *)

\* A request is a request, and takes the place of none.
LEMMA AskTypes ==
  ASSUME NEW calls \in [Calls -> CallType]
  PROVE  /\ \A r \in CallType : Ask(calls, r) \in [Calls -> CallType]
         /\ \A kind \in Kinds, who \in Accounts \cup {Nobody} : Request(kind, who) \in CallType
         /\ \A account \in Accounts \cup {Nobody} : Fetched(calls, account) \in [Calls -> CallType]
  <1>1. \A kind \in Kinds, who \in Accounts \cup {Nobody} : Request(kind, who) \in CallType
    BY DEF Request, CallType
  <1>2. \A r \in CallType : \A d : [calls EXCEPT ![d] = r] \in [Calls -> CallType]
    OBVIOUS
  <1>3. \A r \in CallType : Ask(calls, r) \in [Calls -> CallType]
    BY <1>2 DEF Ask
  <1>4. "balance" \in Kinds
    BY DEF Kinds
  <1> QED
    BY <1>1, <1>3, <1>4 DEF Fetched

\* An answer is taken away.
LEMMA WithoutTypes ==
  ASSUME AppTypes, NEW c \in Calls
  PROVE  Without(c) \in [Calls -> CallType]
  <1>1. NoCall \in CallType
    BY DEF NoCall, Request, CallType, Kinds
  <1> QED
    BY <1>1 DEF Without, AppTypes, CallType

\* What the page forgets.
LEMMA LeaveTypes ==
  ASSUME AppTypes, NEW c \in Calls, Leave(c)
  PROVE  call' \in [Calls -> CallType]
  <1>1. [call[c] EXCEPT !.kind = "adrift"] \in CallType
    BY DEF AppTypes, CallType, Kinds
  <1> QED
    BY <1>1, WithoutTypes DEF Leave, AppTypes

\* What a page leaves behind is deposits.
LEMMA AbandonedTypes ==
  ASSUME AppTypes
  PROVE  /\ Abandoned \in [Calls -> CallType]
         /\ \A c \in Calls : \/ Abandoned[c] = NoCall
                             \/ /\ Abandoned[c].kind = "adrift" /\ Abandoned[c].who = call[c].who
                                /\ call[c].kind \in {"deposit", "adrift"}
  <1>1. NoCall \in CallType
    BY DEF NoCall, Request, CallType, Kinds
  <1>2. \A c \in Calls : call[c] \in CallType
    BY DEF AppTypes
  <1>3. \A c \in Calls : /\ [call[c] EXCEPT !.kind = "adrift"] \in CallType
                         /\ [call[c] EXCEPT !.kind = "adrift"].kind = "adrift"
                         /\ [call[c] EXCEPT !.kind = "adrift"].who = call[c].who
    BY <1>2 DEF CallType, Kinds
  <1> QED
    BY <1>1, <1>3 DEF Abandoned

\* The effects of a change of session or table.
LEMMA WatchTypes ==
  ASSUME AppTypes, NEW calls \in [Calls -> CallType], NEW player \in Players \cup {Nobody},
         NEW tab, Watch(calls, player, tab)
  PROVE  call' \in [Calls -> CallType] /\ feed' \in FeedType /\ doubt' \in BOOLEAN
  <1>1. Account(player, tab) \in Accounts \cup {Nobody}
    BY DEF Account, Accounts
  <1>2. <<>> \in Seq(EventType)
    OBVIOUS
  <1> QED
    BY <1>1, <1>2, AskTypes DEF Watch, AppTypes, FeedType

\* The bank changes a balance.
LEMMA ChangedTypes ==
  ASSUME AppTypes, NEW calls \in [Calls -> CallType], NEW account \in Accounts, NEW amount \in Nat,
         Changed(calls, account, amount)
  PROVE  call' \in [Calls -> CallType] /\ feed' \in FeedType /\ bank' \in [Accounts -> Nat]
  <1>1. \A c \in Calls : [calls[c] EXCEPT !.kind = "old"] \in CallType
    BY DEF CallType, Kinds
  <1>2. call' \in [Calls -> CallType]
    BY <1>1 DEF Changed
  <1>3. PICK lost \in {~ feed.open, TRUE} :
          feed' = [feed EXCEPT !.events = Append(@, [who |-> account, amount |-> amount, lost |-> lost])]
    BY DEF Changed
  <1>4. feed \in FeedType
    BY DEF AppTypes
  <1>5. [who |-> account, amount |-> amount, lost |-> lost] \in EventType
    BY <1>4 DEF FeedType, EventType
  <1>6. Append(feed.events, [who |-> account, amount |-> amount, lost |-> lost]) \in Seq(EventType)
    BY <1>4, <1>5 DEF FeedType
  <1>7. feed' \in FeedType
    BY <1>3, <1>4, <1>6 DEF FeedType
  <1>8. bank' \in [Accounts -> Nat]
    BY DEF Changed, AppTypes
  <1> QED
    BY <1>2, <1>7, <1>8

\* The page as it is loaded the first time.
LEMMA TypesInit == AppInit => AppTypes
  <1> SUFFICES ASSUME AppInit PROVE AppTypes
    OBVIOUS
  <1>1. [c \in Calls |-> NoCall] \in [Calls -> CallType]
    BY DEF NoCall, Request, CallType, Kinds
  <1>2. Request("balance", Demo) \in CallType
    BY DEF Request, CallType, Kinds, Accounts
  <1>3. call \in [Calls -> CallType]
    BY <1>1, <1>2, AskTypes DEF AppInit
  <1>4. <<>> \in Seq(EventType)
    OBVIOUS
  <1>5. feed \in FeedType
    BY <1>4 DEF AppInit, FeedType, Accounts
  <1>6. bank \in [Accounts -> Nat]
    BY AppAssumption DEF AppAssumption, AppInit
  <1> QED
    BY <1>3, <1>5, <1>6 DEF AppInit, AppTypes

\* Who is signed in.
LEMMA SessionTypes ==
  ASSUME AppTypes,
         \/ Load \/ DemoTokenComes \/ \E player \in Players : HandleAuthSuccess(player)
         \/ Expire \/ TimeOut \/ HandleSignOut \/ HandleDevReset
         \/ \E c \in Calls : DevResetAnswered(c)
  PROVE  AppTypes'
  <1> USE DEF AppTypes, identity, offer, ledger
  <1>1. \A kind \in Kinds, who \in Accounts \cup {Nobody} : Request(kind, who) \in CallType
    BY AskTypes
  <1>2. Players \subseteq Accounts /\ Demo \in Accounts
    BY DEF Accounts
  <1>3. {"balance", "reset"} \subseteq Kinds
    BY DEF Kinds
  <1>4. CASE Load
    <2>1. Abandoned \in [Calls -> CallType]
      BY AbandonedTypes
    <2>2. call' \in [Calls -> CallType]
      BY <1>1, <1>2, <1>3, <1>4, <2>1, AskTypes DEF Load
    <2>3. <<>> \in Seq(EventType)
      OBVIOUS
    <2>4. feed' \in FeedType
      BY <1>2, <1>4, <2>3 DEF Load, FeedType
    <2>5. session' \in Players \cup {Nobody} /\ stored' \in Players \cup {Nobody}
      BY <1>4 DEF Load, Loaded
    <2> QED
      BY <1>4, <2>2, <2>4, <2>5 DEF Load
  <1>5. CASE DemoTokenComes
    <2>1. call' \in [Calls -> CallType]
      BY <1>2, <1>5, AskTypes DEF DemoTokenComes
    <2> QED
      BY <1>5, <2>1 DEF DemoTokenComes
  <1>6. CASE \E player \in Players : HandleAuthSuccess(player)
    <2>1. PICK player \in Players : HandleAuthSuccess(player)
      BY <1>6
    <2>2. call' \in [Calls -> CallType] /\ feed' \in FeedType /\ doubt' \in BOOLEAN
      BY <2>1, WatchTypes DEF HandleAuthSuccess
    <2> QED
      BY <2>1, <2>2 DEF HandleAuthSuccess, Save
  <1>7. CASE Expire
    BY <1>7 DEF Expire
  <1>8. CASE TimeOut
    <2>1. call' \in [Calls -> CallType] /\ feed' \in FeedType /\ doubt' \in BOOLEAN
      BY <1>8, WatchTypes DEF TimeOut
    <2> QED
      BY <1>8, <2>1 DEF TimeOut
  <1>9. CASE HandleSignOut
    <2>1. call' \in [Calls -> CallType] /\ feed' \in FeedType /\ doubt' \in BOOLEAN
      BY <1>9, WatchTypes DEF HandleSignOut
    <2> QED
      BY <1>9, <2>1 DEF HandleSignOut
  <1>10. CASE HandleDevReset
    <2>1. call' \in [Calls -> CallType]
      BY <1>1, <1>3, <1>10, AskTypes DEF HandleDevReset
    <2> QED
      BY <1>10, <2>1 DEF HandleDevReset
  <1>11. CASE \E c \in Calls : DevResetAnswered(c)
    <2>1. PICK c \in Calls : DevResetAnswered(c)
      BY <1>11
    <2>2. Without(c) \in [Calls -> CallType]
      BY WithoutTypes
    <2>3. CASE /\ session' = Nobody /\ stored' = Nobody /\ playerTable' = Nobody
               /\ phase' = IF playerTable = Nobody THEN phase ELSE "none"
               /\ Watch(Without(c), Nobody, Nobody)
      <3>1. call' \in [Calls -> CallType] /\ feed' \in FeedType /\ doubt' \in BOOLEAN
        BY <2>2, <2>3, WatchTypes
      <3> QED
        BY <2>1, <2>3, <3>1 DEF DevResetAnswered
    <2>4. CASE /\ call' = Without(c)
               /\ UNCHANGED <<session, stored, playerTable, phase, feed, doubt>>
      BY <2>1, <2>2, <2>4 DEF DevResetAnswered
    <2> QED
      BY <2>1, <2>3, <2>4 DEF DevResetAnswered
  <1> QED
    BY <1>4, <1>5, <1>6, <1>7, <1>8, <1>9, <1>10, <1>11

\* Whose table is on the screen, and the offer.
LEMMA TableTypes ==
  ASSUME AppTypes,
         \/ HandleStartGame \/ HandleBackToDemo
         \/ \E seen \in {"waiting", "playing"} : GameState(seen)
         \/ HandleRestock \/ NotNow
         \/ \E c \in Calls : StartGameAnswered(c) /\ call[c].who \in Players
         \/ \E c \in Calls : RestockAnswered(c) \/ RestockFailed(c)
  PROVE  AppTypes'
  <1> USE DEF AppTypes, identity, offer, ledger
  <1>1. \A kind \in Kinds, who \in Accounts \cup {Nobody} : Request(kind, who) \in CallType
    BY AskTypes
  <1>2. Players \subseteq Accounts /\ Demo \in Accounts /\ session \in Accounts \cup {Nobody}
    BY DEF Accounts
  <1>3. {"create", "deposit"} \subseteq Kinds
    BY DEF Kinds
  <1>4. CASE HandleStartGame
    <2>1. call' \in [Calls -> CallType]
      BY <1>1, <1>2, <1>3, <1>4, AskTypes DEF HandleStartGame
    <2> QED
      BY <1>4, <2>1 DEF HandleStartGame
  <1>5. CASE HandleBackToDemo
    <2>1. call' \in [Calls -> CallType] /\ feed' \in FeedType /\ doubt' \in BOOLEAN
      BY <1>5, WatchTypes DEF HandleBackToDemo
    <2> QED
      BY <1>5, <2>1 DEF HandleBackToDemo
  <1>6. CASE \E seen \in {"waiting", "playing"} : GameState(seen)
    BY <1>6 DEF GameState, CheckOffer
  <1>7. CASE HandleRestock
    <2>1. call' \in [Calls -> CallType]
      BY <1>1, <1>2, <1>3, <1>7, AskTypes DEF HandleRestock
    <2> QED
      BY <1>7, <2>1 DEF HandleRestock
  <1>8. CASE NotNow
    BY <1>8 DEF NotNow
  <1>9. CASE \E c \in Calls : StartGameAnswered(c) /\ call[c].who \in Players
    <2>1. PICK c \in Calls : StartGameAnswered(c) /\ call[c].who \in Players
      BY <1>9
    <2>2. Without(c) \in [Calls -> CallType] /\ Fetched(Without(c), session) \in [Calls -> CallType]
      BY <1>2, WithoutTypes, AskTypes
    <2>3. CASE /\ playerTable' = call[c].who /\ playerTable = call[c].who
               /\ call' = Without(c) /\ showRestock' = FALSE /\ dismissed' = TRUE
               /\ UNCHANGED <<phase, feed, doubt>>
      BY <2>1, <2>2, <2>3 DEF StartGameAnswered
    <2>4. CASE /\ playerTable' = call[c].who
               /\ IF playerTable = Nobody
                    THEN Watch(Without(c), session, call[c].who)
                    ELSE call' = Fetched(Without(c), session) /\ UNCHANGED <<feed, doubt>>
               /\ CheckOffer(FALSE, call[c].who, phase, balance)
               /\ dismissed' = FALSE /\ phase' = "none"
      <3>1. call' \in [Calls -> CallType] /\ feed' \in FeedType /\ doubt' \in BOOLEAN
        BY <2>2, <2>4, WatchTypes
      <3>2. showRestock' \in BOOLEAN
        BY <2>4 DEF CheckOffer
      <3> QED
        BY <2>1, <2>4, <3>1, <3>2 DEF StartGameAnswered
    <2>5. CASE /\ call' = Without(c)
               /\ UNCHANGED <<playerTable, phase, showRestock, dismissed, feed, doubt>>
      BY <2>1, <2>2, <2>5 DEF StartGameAnswered
    <2> QED
      BY <2>1, <2>3, <2>4, <2>5 DEF StartGameAnswered
  <1>10. CASE \E c \in Calls : RestockAnswered(c) \/ RestockFailed(c)
    <2>1. PICK c \in Calls : RestockAnswered(c) \/ RestockFailed(c)
      BY <1>10
    <2>2. call' \in [Calls -> CallType]
      BY <2>1, LeaveTypes DEF RestockAnswered, RestockFailed
    <2> QED
      BY <2>1, <2>2, AppAssumption DEF AppAssumption, RestockAnswered, RestockFailed
  <1> QED
    BY <1>4, <1>5, <1>6, <1>7, <1>8, <1>9, <1>10

\* What the bank does, and what is heard of it.
LEMMA BankTypes ==
  ASSUME AppTypes,
         \/ \E account \in Accounts : BankMoves(account)
         \/ StreamOpens \/ StreamDrops \/ BalanceUpdate
         \/ \E c \in Calls : \/ BalanceAnswered(c) \/ BalanceFailed(c)
                             \/ BalanceRead(c) /\ call[c].who \in Accounts
         \/ \E c \in Calls : (Deposit(c) \/ LateDeposit(c)) /\ call[c].who \in Accounts
  PROVE  AppTypes'
  <1> USE DEF AppTypes, identity, offer, ledger
  <1>1. CASE \E account \in Accounts : BankMoves(account)
    <2>1. PICK account \in Accounts, amount \in 0..MaxAmount :
            Changed(call, account, amount) /\ BankMoves(account)
      BY <1>1 DEF BankMoves
    <2>2. amount \in Nat
      BY AppAssumption DEF AppAssumption
    <2>3. call' \in [Calls -> CallType] /\ feed' \in FeedType /\ bank' \in [Accounts -> Nat]
      BY <2>1, <2>2, ChangedTypes
    <2> QED
      BY <2>1, <2>3 DEF BankMoves
  <1>2. CASE StreamOpens
    <2>1. feed' = [feed EXCEPT !.open = TRUE]
      BY <1>2 DEF StreamOpens
    <2>2. feed' \in FeedType
      BY <2>1 DEF FeedType
    <2> QED
      BY <1>2, <2>2 DEF StreamOpens
  <1>3. CASE StreamDrops
    <2> DEFINE events == [i \in DOMAIN feed.events |-> [feed.events[i] EXCEPT !.lost = TRUE]]
    <2>1. feed.events \in Seq(EventType)
      BY DEF FeedType
    <2>2. DOMAIN feed.events = 1..Len(feed.events) /\ Len(feed.events) \in Nat
      BY <2>1
    <2>3. \A i \in 1..Len(feed.events) : [feed.events[i] EXCEPT !.lost = TRUE] \in EventType
      <3>1. \A i \in 1..Len(feed.events) : feed.events[i] \in EventType
        BY <2>1, ElementOfSeq
      <3> QED
        BY <3>1 DEF EventType
    <2>4. events \in [1..Len(feed.events) -> EventType]
      BY <2>2, <2>3
    <2>5. events \in Seq(EventType)
      BY <2>2, <2>4, SeqDef
    <2>6. feed' = [feed EXCEPT !.open = FALSE, !.events = events]
      BY <1>3 DEF StreamDrops
    <2>7. feed' \in FeedType
      BY <2>5, <2>6 DEF FeedType
    <2> QED
      BY <1>3, <2>7 DEF StreamDrops
  <1>4. CASE BalanceUpdate
    <2>1. Head(feed.events) \in EventType /\ Tail(feed.events) \in Seq(EventType)
      BY <1>4 DEF BalanceUpdate, FeedType
    <2>2. feed' \in FeedType
      BY <1>4, <2>1 DEF BalanceUpdate, FeedType
    <2>3. CASE Taken(Head(feed.events))
      BY <1>4, <2>1, <2>2, <2>3 DEF BalanceUpdate, Shown, CheckOffer, EventType
    <2>4. CASE ~ Taken(Head(feed.events))
      <3>1. /\ doubt' = (doubt \/ (Head(feed.events).lost /\ Head(feed.events).who = feed.who))
            /\ UNCHANGED <<balance, showRestock, dismissed>>
        BY <1>4, <2>4 DEF BalanceUpdate
      <3>2. doubt' \in BOOLEAN
        BY <3>1
      <3> QED
        BY <1>4, <2>2, <3>1, <3>2 DEF BalanceUpdate
    <2> QED
      BY <2>3, <2>4
  <1>5. CASE \E c \in Calls : \/ BalanceAnswered(c) \/ BalanceFailed(c)
                              \/ BalanceRead(c) /\ call[c].who \in Accounts
    <2>1. PICK c \in Calls : \/ BalanceAnswered(c) \/ BalanceFailed(c)
                             \/ BalanceRead(c) /\ call[c].who \in Accounts
      BY <1>5
    <2>2. Without(c) \in [Calls -> CallType]
      BY WithoutTypes
    <2>3. CASE BalanceRead(c) /\ call[c].who \in Accounts
      <3>1. [call[c] EXCEPT !.kind = "read", !.value = bank[call[c].who]] \in CallType
        BY <2>3 DEF CallType, Kinds
      <3>2. call' \in [Calls -> CallType]
        BY <2>3, <3>1 DEF BalanceRead
      <3> QED
        BY <2>3, <3>2 DEF BalanceRead
    <2>4. CASE BalanceAnswered(c)
      <3>1. call[c].value \in Nat
        BY DEF CallType
      <3> QED
        BY <2>2, <2>4, <3>1 DEF BalanceAnswered, Shown, CheckOffer
    <2>5. CASE BalanceFailed(c)
      <3>1. doubt' \in BOOLEAN
        BY <2>5 DEF BalanceFailed
      <3> QED
        BY <2>2, <2>5, <3>1 DEF BalanceFailed
    <2> QED
      BY <2>1, <2>3, <2>4, <2>5
  <1>6. CASE \E c \in Calls : Deposit(c) /\ call[c].who \in Accounts
    <2>1. PICK c \in Calls : Deposit(c) /\ call[c].who \in Accounts
      BY <1>6
    <2> DEFINE sum == bank[call[c].who] + Refill
               calls == [call EXCEPT ![c] = [@ EXCEPT !.kind = "deposited", !.value = sum]]
    <2>2. sum \in Nat
      BY <2>1, AppAssumption DEF AppAssumption
    <2>3. calls \in [Calls -> CallType]
      BY <2>2 DEF CallType, Kinds
    <2>4. Changed(calls, call[c].who, sum)
      BY <2>1 DEF Deposit
    <2>5. call' \in [Calls -> CallType] /\ feed' \in FeedType /\ bank' \in [Accounts -> Nat]
      BY <2>1, <2>2, <2>3, <2>4, ChangedTypes
    <2>6. UNCHANGED <<session, live, stored, demoToken, playerTable, phase, balance, showRestock,
                      restocking, dismissed, moves, doubt>>
      BY <2>1 DEF Deposit
    <2> HIDE DEF sum, calls
    <2> QED
      BY <2>5, <2>6
  <1>7. CASE \E c \in Calls : LateDeposit(c) /\ call[c].who \in Accounts
    <2>1. PICK c \in Calls : LateDeposit(c) /\ call[c].who \in Accounts
      BY <1>7
    <2>2. Without(c) \in [Calls -> CallType]
      BY WithoutTypes
    <2>3. bank[call[c].who] + Refill \in Nat
      BY <2>1, AppAssumption DEF AppAssumption
    <2>4. \/ Changed(Without(c), call[c].who, bank[call[c].who] + Refill)
          \/ call' = Without(c) /\ UNCHANGED <<bank, feed>>
      BY <2>1 DEF LateDeposit
    <2>5. call' \in [Calls -> CallType] /\ feed' \in FeedType /\ bank' \in [Accounts -> Nat]
      <3>1. CASE Changed(Without(c), call[c].who, bank[call[c].who] + Refill)
        BY <2>1, <2>2, <2>3, <3>1, ChangedTypes
      <3>2. CASE call' = Without(c) /\ UNCHANGED <<bank, feed>>
        BY <2>2, <3>2
      <3> QED
        BY <2>4, <3>1, <3>2
    <2>6. UNCHANGED <<session, live, stored, demoToken, playerTable, phase, balance, showRestock,
                      restocking, dismissed, moves, doubt>>
      BY <2>1 DEF LateDeposit
    <2> QED
      BY <2>5, <2>6
  <1> QED
    BY <1>1, <1>2, <1>3, <1>4, <1>5, <1>6, <1>7

-----------------------------------------------------------------------------
(* What is asked, and what is followed *)

\* Requests are about accounts, and what the bank has read for a request is
\* its balance until it changes.
Known ==
  \A c \in Calls :
    /\ call[c].kind \in {"balance", "read", "old", "deposit", "deposited", "adrift"} =>
         call[c].who \in Accounts
    /\ call[c].kind = "create" => call[c].who \in Players
    /\ call[c].kind = "read" => call[c].value = bank[call[c].who]

\* The balance stream follows the player the page is about.
Followed == feed.who = Account(session, playerTable)

Own(event) == event.who = feed.who

\* The last event of this player has the balance of the bank.
LastEvent ==
  \A i \in DOMAIN feed.events :
    Own(feed.events[i]) /\ (\A j \in DOMAIN feed.events : j > i => ~ Own(feed.events[j])) =>
      feed.events[i].amount = bank[feed.who]

\* A balance of this player is on its way to the page.
Expected ==
  \/ \E c \in Calls : call[c].kind \in {"balance", "read", "old"} /\ call[c].who = feed.who
  \/ \E i \in DOMAIN feed.events : Own(feed.events[i])

Shows == feed.who # Nobody /\ ~ doubt => balance = bank[feed.who] \/ Expected

AppInv == AppTypes /\ Known /\ Followed /\ LastEvent /\ Shows

\* A new request finds room.
LEMMA AskIs ==
  ASSUME NEW calls \in [Calls -> CallType], HasRoom(calls), NEW r
  PROVE  \E d \in Calls : calls[d] = NoCall /\ Ask(calls, r) = [calls EXCEPT ![d] = r]
  <1>1. (CHOOSE d \in Calls : calls[d] = NoCall) \in Calls
    BY DEF HasRoom
  <1>2. calls[CHOOSE d \in Calls : calls[d] = NoCall] = NoCall
    BY DEF HasRoom
  <1> QED
    BY <1>1, <1>2 DEF Ask

\* What is left of Known when calls are added or taken away and no balance
\* changes.
LEMMA KnownKept ==
  ASSUME Known, UNCHANGED bank,
         \A c \in Calls : \/ call'[c] = call[c] \/ call'[c].kind \in {"none", "reset"}
                          \/ /\ call[c].kind \in {"deposit", "adrift"} /\ call'[c].kind = "adrift"
                             /\ call'[c].who = call[c].who
                          \/ call'[c].kind \in {"balance", "deposit"} /\ call'[c].who \in Accounts
                          \/ call'[c].kind = "create" /\ call'[c].who \in Players
  PROVE  Known'
  BY DEF Known

\* A change of player or table closes the stream, opens another, and asks for
\* the balance of whom it is about.
LEMMA WatchFollows ==
  ASSUME NEW calls \in [Calls -> CallType], NEW player \in Players \cup {Nobody},
         NEW tab, Watch(calls, player, tab)
  PROVE  /\ feed'.who = Account(player, tab)
         /\ feed'.events = <<>>
         /\ Account(player, tab) # Nobody => Expected'
         /\ \A c \in Calls : \/ call'[c] = calls[c]
                             \/ call'[c].kind = "balance" /\ call'[c].who \in Accounts
  <1> DEFINE account == Account(player, tab)
  <1>1. feed' = [who |-> account, open |-> FALSE, events |-> <<>>] /\ call' = Fetched(calls, account)
    BY DEF Watch
  <1>2. CASE account = Nobody
    BY <1>1, <1>2 DEF Fetched
  <1>3. CASE account # Nobody
    <2>1. account \in Accounts /\ HasRoom(calls)
      BY <1>3 DEF Account, Accounts, Watch
    <2>2. PICK d \in Calls : call' = [calls EXCEPT ![d] = Request("balance", account)]
      BY <1>1, <1>3, <2>1, AskIs DEF Fetched
    <2>3. call'[d].kind = "balance" /\ call'[d].who = account
      BY <2>2 DEF Request
    <2> QED
      BY <1>1, <2>1, <2>2, <2>3 DEF Expected
  <1> QED
    BY <1>1, <1>2, <1>3

\* With a stream that was just opened, nothing is left of the one before.
LEMMA FollowsAnew ==
  ASSUME NEW player \in Players \cup {Nobody}, NEW tab, NEW calls \in [Calls -> CallType],
         Watch(calls, player, tab), session' = player, playerTable' = tab
  PROVE  Followed' /\ LastEvent' /\ Shows'
  BY WatchFollows DEF Followed, LastEvent, Shows

\* What keeps the balance shown, the stream and its player right.
LEMMA ShowsKept ==
  ASSUME Followed, LastEvent, Shows, UNCHANGED <<feed, bank, balance, doubt>>,
         Account(session', playerTable') = Account(session, playerTable),
         \A c \in Calls : call[c].kind \in {"balance", "read", "old"} =>
           call'[c].kind \in {"balance", "read", "old"} /\ call'[c].who = call[c].who
  PROVE  Followed' /\ LastEvent' /\ Shows'
  <1>1. Expected => Expected'
    BY DEF Expected, Own
  <1> QED
    BY <1>1 DEF Followed, LastEvent, Shows, Own, Account

\* The page as it is loaded asks for the balance of the demo.
LEMMA AppInvInit == AppInit => AppInv
  <1> SUFFICES ASSUME AppInit PROVE AppInv
    OBVIOUS
  <1>1. AppTypes
    BY TypesInit
  <1> DEFINE none == [c \in Calls |-> NoCall]
  <1>2. none \in [Calls -> CallType] /\ HasRoom(none)
    BY AppAssumption DEF AppAssumption, NoCall, Request, CallType, Kinds, HasRoom
  <1>3. PICK d \in Calls : call = [none EXCEPT ![d] = Request("balance", Demo)]
    BY <1>2, AskIs DEF AppInit
  <1>4. \A c \in Calls : IF c = d THEN call[c] = Request("balance", Demo) ELSE call[c] = NoCall
    BY <1>3
  <1>5. Known
    BY <1>4 DEF Known, NoCall, Request, Accounts
  <1>6. Followed /\ LastEvent
    BY DEF AppInit, Followed, Account, LastEvent
  <1>7. Shows
    BY <1>4 DEF AppInit, Shows, Expected, Request
  <1> QED
    BY <1>1, <1>5, <1>6, <1>7 DEF AppInv

\* Another session, and another stream.
LEMMA SessionKeeps ==
  ASSUME AppInv,
         \/ Load \/ DemoTokenComes \/ \E player \in Players : HandleAuthSuccess(player)
         \/ Expire \/ TimeOut \/ HandleSignOut \/ HandleDevReset
         \/ \E c \in Calls : DevResetAnswered(c)
  PROVE  AppInv'
  <1> USE DEF AppInv, identity, offer, ledger
  <1>1. AppTypes'
    BY SessionTypes
  <1>2. call \in [Calls -> CallType] /\ session \in Players \cup {Nobody}
    BY DEF AppTypes
  <1>3. CASE Load
    <2>1. /\ Abandoned \in [Calls -> CallType] /\ HasRoom(Abandoned)
          /\ \A c \in Calls : \/ Abandoned[c] = NoCall
                              \/ /\ Abandoned[c].kind = "adrift" /\ Abandoned[c].who = call[c].who
                                 /\ call[c].kind \in {"deposit", "adrift"}
      BY <1>3, AbandonedTypes DEF Load
    <2>2. PICK d \in Calls : call' = [Abandoned EXCEPT ![d] = Request("balance", Demo)]
      BY <1>3, <2>1, AskIs DEF Load
    <2>3. \A c \in Calls : IF c = d THEN call'[c] = Request("balance", Demo) ELSE call'[c] = Abandoned[c]
      BY <2>1, <2>2
    <2>4. Known'
      BY <1>3, <2>1, <2>3, KnownKept DEF Load, NoCall, Request, Accounts
    <2>5. Followed' /\ LastEvent'
      BY <1>3 DEF Load, Followed, Account, LastEvent
    <2>6. Expected'
      BY <1>3, <2>3 DEF Load, Expected, Request
    <2> QED
      BY <1>1, <2>4, <2>5, <2>6 DEF Shows
  <1>4. CASE DemoTokenComes
    <2>1. CASE playerTable = Nobody
      <3>1. PICK d \in Calls : call[d] = NoCall /\ call' = [call EXCEPT ![d] = Request("balance", Demo)]
        <4>1. HasRoom(call) /\ call' = Fetched(call, Demo)
          BY <1>4, <2>1 DEF DemoTokenComes
        <4>2. Demo # Nobody
          BY AppAssumption DEF AppAssumption
        <4> QED
          BY <4>1, <4>2, <1>2, AskIs DEF Fetched
      <3>2. \A c \in Calls : IF c = d THEN call'[c] = Request("balance", Demo) ELSE call'[c] = call[c]
        BY <3>1, <1>2
      <3>3. Known'
        BY <1>4, <3>2, KnownKept DEF DemoTokenComes, Request, Accounts
      <3>4. Followed' /\ LastEvent' /\ Shows'
        BY <1>4, <3>1, <3>2, ShowsKept DEF DemoTokenComes, Request, NoCall
      <3> QED
        BY <1>1, <3>3, <3>4
    <2>2. CASE playerTable # Nobody
      <3>1. UNCHANGED call
        BY <1>4, <2>2 DEF DemoTokenComes
      <3> QED
        BY <1>1, <1>4, <3>1, KnownKept, ShowsKept DEF DemoTokenComes
    <2> QED
      BY <2>1, <2>2
  <1>5. CASE \E player \in Players : HandleAuthSuccess(player)
    <2>1. PICK player \in Players :
            /\ Watch(call, player, playerTable) /\ session' = player
            /\ UNCHANGED <<playerTable, bank>>
      BY <1>5 DEF HandleAuthSuccess, Save
    <2>2. Known'
      BY <1>2, <2>1, WatchFollows, KnownKept
    <2> QED
      BY <1>1, <1>2, <2>1, <2>2, FollowsAnew
  <1>6. CASE Expire
    BY <1>1, <1>6, KnownKept, ShowsKept DEF Expire
  <1>7. CASE TimeOut
    <2>1. Watch(call, Nobody, playerTable) /\ session' = Nobody /\ UNCHANGED <<playerTable, bank>>
      BY <1>7 DEF TimeOut
    <2>2. Known'
      BY <1>2, <2>1, WatchFollows, KnownKept
    <2> QED
      BY <1>1, <1>2, <2>1, <2>2, FollowsAnew
  <1>8. CASE HandleSignOut
    <2>1. Watch(call, Nobody, Nobody) /\ session' = Nobody /\ playerTable' = Nobody /\ UNCHANGED bank
      BY <1>8 DEF HandleSignOut
    <2>2. Known'
      BY <1>2, <2>1, WatchFollows, KnownKept
    <2> QED
      BY <1>1, <1>2, <2>1, <2>2, FollowsAnew
  <1>9. CASE HandleDevReset
    <2>1. PICK d \in Calls : call[d] = NoCall /\ call' = [call EXCEPT ![d] = Request("reset", Nobody)]
      BY <1>2, <1>9, AskIs DEF HandleDevReset
    <2>2. \A c \in Calls : IF c = d THEN call'[c] = Request("reset", Nobody) ELSE call'[c] = call[c]
      BY <1>2, <2>1
    <2>3. Known'
      BY <1>9, <2>2, KnownKept DEF HandleDevReset, Request
    <2>4. Followed' /\ LastEvent' /\ Shows'
      BY <1>9, <2>1, <2>2, ShowsKept DEF HandleDevReset, NoCall, Request
    <2> QED
      BY <1>1, <2>3, <2>4
  <1>10. CASE \E c \in Calls : DevResetAnswered(c)
    <2>1. PICK c \in Calls : DevResetAnswered(c)
      BY <1>10
    <2>2. /\ call[c].kind = "reset" /\ Without(c) \in [Calls -> CallType] /\ UNCHANGED <<bank, balance>>
          /\ \A d \in Calls : IF d = c THEN Without(c)[d] = NoCall ELSE Without(c)[d] = call[d]
      BY <1>2, <2>1, WithoutTypes DEF DevResetAnswered, Without
    <2>3. CASE session' = Nobody /\ playerTable' = Nobody /\ Watch(Without(c), Nobody, Nobody)
      <3>1. \A d \in Calls : \/ call'[d] = Without(c)[d]
                             \/ call'[d].kind = "balance" /\ call'[d].who \in Accounts
        BY <2>2, <2>3, WatchFollows
      <3>2. Known'
        BY <2>2, <3>1, KnownKept DEF NoCall, Request
      <3> QED
        BY <1>1, <2>2, <2>3, <3>2, FollowsAnew
    <2>4. CASE call' = Without(c) /\ UNCHANGED <<session, playerTable, feed, doubt>>
      <3>1. Known'
        BY <2>2, <2>4, KnownKept DEF NoCall, Request
      <3>2. Followed' /\ LastEvent' /\ Shows'
        BY <2>2, <2>4, ShowsKept DEF NoCall, Request
      <3> QED
        BY <1>1, <3>1, <3>2
    <2> QED
      BY <2>1, <2>3, <2>4 DEF DevResetAnswered
  <1> QED
    BY <1>3, <1>4, <1>5, <1>6, <1>7, <1>8, <1>9, <1>10

\* Another table, and the deposit; the balance shown after it is checked.
LEMMA TableKeeps ==
  ASSUME AppInv,
         \/ HandleStartGame \/ HandleBackToDemo
         \/ \E seen \in {"waiting", "playing"} : GameState(seen)
         \/ HandleRestock \/ NotNow
         \/ \E c \in Calls : StartGameAnswered(c)
         \/ \E c \in Calls : RestockAnswered(c) \/ RestockFailed(c)
  PROVE  AppInv'
  <1> USE DEF AppInv, identity, offer, ledger
  <1>1. AppTypes'
    BY TableTypes DEF Known, StartGameAnswered
  <1>2. call \in [Calls -> CallType] /\ session \in Players \cup {Nobody}
    BY DEF AppTypes
  <1>3. \A kind \in {"create", "deposit"}, who \in Players :
          call' = Ask(call, Request(kind, who)) /\ HasRoom(call)
            /\ UNCHANGED <<session, playerTable, feed, bank, balance, doubt>>
          => Known' /\ Followed' /\ LastEvent' /\ Shows'
    <2> TAKE kind \in {"create", "deposit"}, who \in Players
    <2> HAVE call' = Ask(call, Request(kind, who)) /\ HasRoom(call)
               /\ UNCHANGED <<session, playerTable, feed, bank, balance, doubt>>
    <2>1. PICK d \in Calls : call[d] = NoCall /\ call' = [call EXCEPT ![d] = Request(kind, who)]
      BY <1>2, AskIs
    <2>2. \A c \in Calls : IF c = d THEN call'[c] = Request(kind, who) ELSE call'[c] = call[c]
      BY <1>2, <2>1
    <2>3. Known'
      BY <2>2, KnownKept DEF Request, Accounts
    <2>4. Followed' /\ LastEvent' /\ Shows'
      BY <2>1, <2>2, ShowsKept DEF NoCall, Request
    <2> QED
      BY <2>3, <2>4
  <1>4. CASE HandleStartGame
    <2>1. session \in Players
      BY <1>2, <1>4 DEF HandleStartGame
    <2> QED
      BY <1>1, <1>3, <1>4, <2>1 DEF HandleStartGame
  <1>5. CASE HandleBackToDemo
    <2>1. Watch(call, session, Nobody) /\ playerTable' = Nobody /\ UNCHANGED <<session, bank>>
      BY <1>5 DEF HandleBackToDemo
    <2>2. Known'
      BY <1>2, <2>1, WatchFollows, KnownKept
    <2> QED
      BY <1>1, <1>2, <2>1, <2>2, FollowsAnew
  <1>6. CASE (\E seen \in {"waiting", "playing"} : GameState(seen)) \/ NotNow
    <2>1. UNCHANGED <<session, playerTable, feed, bank, balance, doubt, call>>
      BY <1>6 DEF GameState, NotNow
    <2> QED
      BY <1>1, <2>1, KnownKept, ShowsKept
  <1>7. CASE HandleRestock
    <2>1. session \in Players
      BY <1>2, <1>7 DEF HandleRestock, RestockEnabled
    <2> QED
      BY <1>1, <1>3, <1>7, <2>1 DEF HandleRestock
  <1>8. ASSUME NEW c \in Calls
        PROVE  /\ Without(c) \in [Calls -> CallType]
               /\ \A d \in Calls : IF d = c THEN Without(c)[d] = NoCall ELSE Without(c)[d] = call[d]
    BY <1>2, WithoutTypes DEF Without
  <1>9. CASE \E c \in Calls : StartGameAnswered(c)
    <2>1. PICK c \in Calls : StartGameAnswered(c)
      BY <1>9
    <2>2. /\ call[c].kind = "create" /\ call[c].who \in Players /\ call[c].who # Nobody
          /\ UNCHANGED <<session, bank, balance>>
      BY <2>1, AppAssumption DEF AppAssumption, StartGameAnswered, Known
    <2>3. CASE call' = Without(c) /\ UNCHANGED <<playerTable, feed, doubt>>
      <3>1. Known'
        BY <1>8, <2>2, <2>3, KnownKept DEF NoCall, Request
      <3>2. Followed' /\ LastEvent' /\ Shows'
        BY <1>8, <2>2, <2>3, ShowsKept DEF NoCall, Request
      <3> QED
        BY <1>1, <3>1, <3>2
    <2>4. CASE playerTable' = call[c].who /\ Watch(Without(c), session, call[c].who)
      <3>1. \A d \in Calls : \/ call'[d] = Without(c)[d]
                             \/ call'[d].kind = "balance" /\ call'[d].who \in Accounts
        BY <1>2, <1>8, <2>4, WatchFollows
      <3>2. Known'
        BY <1>8, <2>2, <3>1, KnownKept DEF NoCall, Request
      <3> QED
        BY <1>1, <1>2, <1>8, <2>2, <2>4, <3>2, FollowsAnew
    <2>5. CASE /\ playerTable' = call[c].who /\ playerTable # Nobody
               /\ call' = Fetched(Without(c), session) /\ UNCHANGED <<feed, doubt>>
      <3>1. Account(session', playerTable') = Account(session, playerTable)
        BY <2>2, <2>5 DEF Account
      <3>2. \A d \in Calls :
              \/ call'[d] = Without(c)[d]
              \/ Without(c)[d] = NoCall /\ call'[d].kind = "balance" /\ call'[d].who \in Accounts
        <4>1. CASE session = Nobody
          BY <2>5, <4>1 DEF Fetched
        <4>2. CASE session # Nobody
          <5>1. HasRoom(Without(c)) /\ call' = Ask(Without(c), Request("balance", session))
            BY <1>8, <2>5, <4>2 DEF HasRoom, Fetched
          <5>2. PICK d \in Calls : /\ Without(c)[d] = NoCall
                                   /\ call' = [Without(c) EXCEPT ![d] = Request("balance", session)]
            BY <1>8, <5>1, AskIs
          <5> QED
            BY <1>2, <1>8, <4>2, <5>2 DEF Request, Accounts
        <4> QED
          BY <4>1, <4>2
      <3>3. Known'
        BY <1>8, <2>2, <3>2, KnownKept DEF NoCall, Request
      <3>4. Followed' /\ LastEvent' /\ Shows'
        BY <1>8, <2>2, <2>5, <3>1, <3>2, ShowsKept DEF NoCall, Request
      <3> QED
        BY <1>1, <3>3, <3>4
    <2>6. \/ call' = Without(c) /\ UNCHANGED <<playerTable, feed, doubt>>
          \/ playerTable' = call[c].who /\ Watch(Without(c), session, call[c].who)
          \/ /\ playerTable' = call[c].who /\ playerTable # Nobody
             /\ call' = Fetched(Without(c), session) /\ UNCHANGED <<feed, doubt>>
      BY <2>1 DEF StartGameAnswered
    <2> QED
      BY <2>3, <2>4, <2>5, <2>6
  <1>10. CASE \E c \in Calls : RestockAnswered(c) \/ RestockFailed(c)
    <2>1. PICK c \in Calls : RestockAnswered(c) \/ RestockFailed(c)
      BY <1>10
    <2>2. /\ call[c].kind \in {"deposit", "deposited"} /\ Leave(c)
          /\ UNCHANGED <<session, playerTable, feed, bank>>
      BY <2>1 DEF RestockAnswered, RestockFailed
    <2>3. \A d \in Calls :
            \/ d # c /\ call'[d] = call[d]
            \/ d = c /\ call'[d] = NoCall
            \/ /\ d = c /\ call[d].kind = "deposit" /\ call'[d].kind = "adrift"
               /\ call'[d].who = call[d].who
      BY <1>2, <1>8, <2>2 DEF Leave, CallType
    <2>4. Known'
      BY <2>2, <2>3, KnownKept DEF NoCall, Request
    <2>6. CASE RestockFailed(c)
      <3>1. Followed' /\ LastEvent' /\ Shows'
        BY <2>2, <2>3, <2>6, ShowsKept DEF RestockFailed
      <3> QED
        BY <1>1, <2>4, <3>1
    <2>5. CASE RestockAnswered(c)
      <3>1. Followed' /\ LastEvent'
        BY <2>2 DEF Followed, Account, LastEvent, Own
      <3>2. Shows'
        BY <2>2, <2>5 DEF RestockAnswered, Shows
      <3> QED
        BY <1>1, <2>4, <3>1, <3>2
    <2> QED
      BY <2>1, <2>5, <2>6
  <1> QED
    BY <1>4, <1>5, <1>6, <1>7, <1>9, <1>10

\* A change of a balance makes what was read of it old, and an event of it the last.
LEMMA ChangedKeeps ==
  ASSUME AppInv, NEW account \in Accounts, NEW amount \in Nat, NEW calls \in [Calls -> CallType],
         Changed(calls, account, amount), UNCHANGED <<session, playerTable, balance, doubt>>,
         \A c \in Calls :
           \/ calls[c] = call[c]
           \/ call[c].kind = "deposit" /\ calls[c].kind = "deposited" /\ calls[c].who = call[c].who
           \/ call[c].kind = "adrift" /\ calls[c].kind = "none"
  PROVE  Known' /\ Followed' /\ LastEvent' /\ Shows'
  <1> USE DEF AppInv
  <1>1. feed.events \in Seq(EventType) /\ bank \in [Accounts -> Nat]
    BY DEF AppTypes, FeedType
  <1>2. PICK event :
          /\ event.who = account /\ event.amount = amount
          /\ feed' = [feed EXCEPT !.events = Append(@, event)]
    BY DEF Changed
  <1>3. bank'[account] = amount /\ \A other \in Accounts \ {account} : bank'[other] = bank[other]
    BY <1>1 DEF Changed
  <1>4. \A c \in Calls :
          IF calls[c].kind = "read" /\ calls[c].who = account
            THEN call'[c].kind = "old" /\ call'[c].who = account ELSE call'[c] = calls[c]
    BY DEF Changed, CallType
  <1>5. feed'.who = feed.who /\ feed'.events = Append(feed.events, event)
    BY <1>2 DEF AppTypes, FeedType
  <1> DEFINE n == Len(feed.events)
  <1>6. /\ n \in Nat /\ DOMAIN feed.events = 1..n /\ DOMAIN feed'.events = 1..(n + 1)
        /\ \A i \in 1..n : feed'.events[i] = feed.events[i]
        /\ feed'.events[n + 1] = event
    BY <1>1, <1>5
  <1>7. Known'
    BY <1>3, <1>4 DEF Known
  <1>8. Followed'
    BY <1>5 DEF Followed, Account
  <1> HIDE DEF n
  <1>9. n + 1 \in DOMAIN feed'.events /\ n + 1 > n
    BY <1>6
  <1>10. CASE account = feed.who
    <2>1. Expected'
      BY <1>2, <1>5, <1>6, <1>9, <1>10 DEF Expected, Own
    <2>2. ASSUME NEW i \in DOMAIN feed'.events, \A j \in DOMAIN feed'.events : j > i => ~ Own(feed.events[j])'
          PROVE  i = n + 1
      BY <2>2, <1>2, <1>5, <1>6, <1>9, <1>10 DEF Own
    <2>3. LastEvent'
      BY <2>2, <1>2, <1>3, <1>5, <1>6, <1>10 DEF LastEvent, Own
    <2> QED
      BY <2>1, <2>3, <1>7, <1>8 DEF Shows
  <1>11. CASE account # feed.who
    <2>1. ~ Own(event)' /\ \A i \in 1..n : Own(feed.events[i])' <=> Own(feed.events[i])
      BY <1>2, <1>5, <1>6, <1>11 DEF Own
    <2>2. feed.who \in Accounts => bank'[feed.who] = bank[feed.who]
      BY <1>3, <1>11
    <2>3. LastEvent'
      <3> SUFFICES ASSUME NEW i \in DOMAIN feed'.events, Own(feed.events[i])',
                          \A j \in DOMAIN feed'.events : j > i => ~ Own(feed.events[j])'
                   PROVE  feed'.events[i].amount = bank'[feed'.who]
        BY DEF LastEvent
      <3>1. i \in 1..n
        BY <2>1, <1>6, <1>5 DEF Own
      <3>2. \A j \in 1..n : j > i => ~ Own(feed.events[j])
        BY <2>1, <1>6
      <3>3. Own(feed.events[i])
        BY <2>1, <3>1
      <3>4. feed.events[i].who \in Accounts
        <4>1. feed.events[i] \in EventType
          BY <3>1, <1>1, ElementOfSeq DEF n
        <4> QED
          BY <4>1 DEF EventType
      <3> QED
        BY <3>1, <3>2, <3>3, <3>4, <2>2, <1>5, <1>6 DEF LastEvent, Own
    <2>4. Expected => Expected'
      <3>1. CASE \E c \in Calls : call[c].kind \in {"balance", "read", "old"} /\ call[c].who = feed.who
        BY <3>1, <1>4, <1>5, <1>11 DEF Expected
      <3>2. CASE \E i \in DOMAIN feed.events : Own(feed.events[i])
        BY <3>2, <1>5, <1>6 DEF Expected, Own
      <3> QED
        BY <3>1, <3>2 DEF Expected
    <2>5. feed.who \in Accounts \cup {Nobody}
      BY DEF AppTypes, FeedType
    <2> QED
      BY <2>2, <2>3, <2>4, <2>5, <1>5, <1>7, <1>8 DEF Shows
  <1> QED
    BY <1>10, <1>11

\* The event that is taken, or passed over, is the first; the last one stays.
LEMMA BalanceUpdateKeeps ==
  ASSUME AppInv, BalanceUpdate
  PROVE  Known' /\ Followed' /\ LastEvent' /\ Shows'
  <1> USE DEF AppInv
  <1> DEFINE event == Head(feed.events)
             n     == Len(feed.events)
  <1>1. feed.events \in Seq(EventType) /\ feed.events # <<>>
    BY DEF AppTypes, FeedType, BalanceUpdate
  <1>2. /\ feed'.who = feed.who /\ feed'.events = Tail(feed.events)
        /\ UNCHANGED <<session, playerTable, call, bank>>
    BY DEF BalanceUpdate, AppTypes, FeedType, identity, ledger
  <1>3. /\ n \in Nat \ {0} /\ DOMAIN feed.events = 1..n /\ DOMAIN feed'.events = 1..(n - 1)
        /\ \A i \in 1..(n - 1) : feed'.events[i] = feed.events[i + 1]
        /\ event = feed.events[1]
    BY <1>1, <1>2
  <1> HIDE DEF n, event
  <1>4. Known'
    BY <1>2 DEF Known
  <1>5. Followed'
    BY <1>2 DEF Followed, Account
  <1>6. LastEvent'
    <2> SUFFICES ASSUME NEW i \in 1..(n - 1), Own(feed.events[i])',
                        \A j \in 1..(n - 1) : j > i => ~ Own(feed.events[j])'
                 PROVE  feed'.events[i].amount = bank'[feed'.who]
      BY <1>3 DEF LastEvent
    <2>1. i + 1 \in 1..n /\ Own(feed.events[i + 1])
      BY <1>2, <1>3 DEF Own
    <2>2. \A j \in 1..n : j > i + 1 => ~ Own(feed.events[j])
      <3> SUFFICES ASSUME NEW j \in 1..n, j > i + 1 PROVE ~ Own(feed.events[j])
        OBVIOUS
      <3>1. j - 1 \in 1..(n - 1) /\ j - 1 > i /\ (j - 1) + 1 = j
        BY <1>3
      <3> QED
        BY <3>1, <1>2, <1>3 DEF Own
    <2> QED
      BY <2>1, <2>2, <1>2, <1>3 DEF LastEvent
  <1>7. Shows'
    <2> SUFFICES ASSUME feed'.who # Nobody, ~ doubt', ~ Expected' PROVE balance' = bank'[feed'.who]
      BY DEF Shows
    <2>1. \A i \in 1..n : i > 1 => ~ Own(feed.events[i])
      <3> SUFFICES ASSUME NEW i \in 1..n, i > 1 PROVE ~ Own(feed.events[i])
        OBVIOUS
      <3>1. i - 1 \in 1..(n - 1) /\ (i - 1) + 1 = i
        BY <1>3
      <3> QED
        BY <3>1, <1>2, <1>3 DEF Expected, Own
    <2>2. CASE Taken(event)
      <3>1. balance' = event.amount /\ Own(feed.events[1])
        BY <2>2, <1>3 DEF BalanceUpdate, Shown, Taken, Own, event
      <3> QED
        BY <3>1, <2>1, <1>2, <1>3 DEF LastEvent
    <2>3. CASE ~ Taken(event)
      <3>1. doubt' = (doubt \/ (event.lost /\ event.who = feed.who)) /\ balance' = balance
        BY <2>3 DEF BalanceUpdate, event
      <3>2. ~ Own(feed.events[1])
        BY <2>3, <3>1, <1>3 DEF Taken, Own
      <3>3. ~ Expected
        BY <2>1, <3>2, <1>2, <1>3 DEF Expected, Own
      <3> QED
        BY <3>1, <3>3, <1>2 DEF Shows
    <2> QED
      BY <2>2, <2>3
  <1> QED
    BY <1>4, <1>5, <1>6, <1>7

\* What the bank does, and what is heard of it.
LEMMA BankKeeps ==
  ASSUME AppInv,
         \/ \E account \in Accounts : BankMoves(account)
         \/ StreamOpens \/ StreamDrops \/ BalanceUpdate
         \/ \E c \in Calls : BalanceRead(c) \/ BalanceAnswered(c) \/ BalanceFailed(c) \/ Deposit(c)
                             \/ LateDeposit(c)
  PROVE  AppInv'
  <1> USE DEF AppInv, identity, offer, ledger
  <1>1. AppTypes'
    BY BankTypes DEF Known, BalanceRead, Deposit, LateDeposit
  <1>2. call \in [Calls -> CallType] /\ bank \in [Accounts -> Nat]
    BY DEF AppTypes
  <1>3. CASE \E account \in Accounts : BankMoves(account)
    <2>1. PICK account \in Accounts, amount \in 0..MaxAmount :
            Changed(call, account, amount) /\ UNCHANGED <<session, playerTable, balance, doubt>>
      BY <1>3 DEF BankMoves
    <2>2. amount \in Nat
      BY AppAssumption DEF AppAssumption
    <2> QED
      BY <1>1, <1>2, <2>1, <2>2, ChangedKeeps
  <1>4. CASE StreamOpens
    <2>1. /\ feed'.who = feed.who /\ feed'.events = feed.events
          /\ UNCHANGED <<session, playerTable, call, balance, bank, doubt>>
      BY <1>4 DEF StreamOpens, AppTypes, FeedType
    <2> QED
      BY <1>1, <2>1 DEF Known, Followed, Account, LastEvent, Shows, Expected, Own
  <1>5. CASE StreamDrops
    <2>1. /\ feed'.who = feed.who
          /\ feed'.events = [i \in DOMAIN feed.events |-> [feed.events[i] EXCEPT !.lost = TRUE]]
          /\ UNCHANGED <<session, playerTable, call, balance, bank, doubt>>
      BY <1>5 DEF StreamDrops, AppTypes, FeedType
    <2>2. \A i \in DOMAIN feed.events : feed.events[i] \in EventType
      BY ElementOfSeq DEF AppTypes, FeedType
    <2>3. /\ DOMAIN feed'.events = DOMAIN feed.events
          /\ \A i \in DOMAIN feed.events : /\ feed'.events[i].who = feed.events[i].who
                                           /\ feed'.events[i].amount = feed.events[i].amount
      BY <2>1, <2>2 DEF EventType
    <2>4. Known' /\ Followed'
      BY <2>1 DEF Known, Followed, Account
    <2>5. LastEvent'
      <3>1. \A i \in DOMAIN feed.events : Own(feed.events[i])' <=> Own(feed.events[i])
        BY <2>1, <2>3 DEF Own
      <3>2. UNCHANGED bank /\ feed'.who = feed.who
        BY <2>1
      <3> QED
        BY <2>3, <3>1, <3>2 DEF LastEvent
    <2>6. Shows'
      BY <2>1, <2>3 DEF Shows, Expected, Own
    <2> QED
      BY <1>1, <2>4, <2>5, <2>6
  <1>6. CASE BalanceUpdate
    BY <1>1, <1>6, BalanceUpdateKeeps
  <1>7. ASSUME NEW c \in Calls
        PROVE  \A d \in Calls : IF d = c THEN Without(c)[d] = NoCall ELSE Without(c)[d] = call[d]
    BY <1>2, WithoutTypes DEF Without
  <1>8. CASE \E c \in Calls : BalanceRead(c)
    <2>1. PICK c \in Calls : BalanceRead(c)
      BY <1>8
    <2>2. /\ call[c].kind = "balance" /\ call'[c].kind = "read" /\ call'[c].who = call[c].who
          /\ call'[c].value = bank[call[c].who]
          /\ \A d \in Calls : d # c => call'[d] = call[d]
          /\ UNCHANGED <<session, playerTable, feed, balance, bank, doubt>>
      BY <1>2, <2>1 DEF BalanceRead, CallType
    <2>3. Known'
      BY <2>2 DEF Known
    <2>4. Followed' /\ LastEvent' /\ Shows'
      BY <2>2, ShowsKept
    <2> QED
      BY <1>1, <2>3, <2>4
  <1>9. CASE \E c \in Calls : BalanceAnswered(c)
    <2>1. PICK c \in Calls : BalanceAnswered(c)
      BY <1>9
    <2>2. /\ call' = Without(c) /\ balance' = call[c].value
          /\ doubt' = ~ (call[c].kind = "read" /\ call[c].who = feed.who)
          /\ UNCHANGED <<session, playerTable, feed, bank>>
      BY <2>1 DEF BalanceAnswered, Shown
    <2>3. Known'
      BY <1>7, <2>2, KnownKept DEF NoCall, Request
    <2>4. Followed' /\ LastEvent'
      BY <2>2 DEF Followed, Account, LastEvent, Own
    <2>5. Shows'
      BY <2>2 DEF Known, Shows
    <2> QED
      BY <1>1, <2>3, <2>4, <2>5
  <1>10. CASE \E c \in Calls : BalanceFailed(c)
    <2>1. PICK c \in Calls : BalanceFailed(c)
      BY <1>10
    <2>2. /\ call' = Without(c) /\ doubt' = (doubt \/ call[c].who = feed.who)
          /\ UNCHANGED <<session, playerTable, feed, balance, bank>>
      BY <2>1 DEF BalanceFailed
    <2>3. Known'
      BY <1>7, <2>2, KnownKept DEF NoCall, Request
    <2>4. Followed' /\ LastEvent'
      BY <2>2 DEF Followed, Account, LastEvent, Own
    <2>5. Shows'
      BY <1>7, <2>2 DEF Shows, Expected, Own
    <2> QED
      BY <1>1, <2>3, <2>4, <2>5
  <1>11. CASE \E c \in Calls : Deposit(c)
    <2>1. PICK c \in Calls : Deposit(c)
      BY <1>11
    <2> DEFINE sum   == bank[call[c].who] + Refill
               calls == [call EXCEPT ![c] = [@ EXCEPT !.kind = "deposited", !.value = sum]]
    <2>2. call[c].kind = "deposit" /\ call[c].who \in Accounts
      BY <2>1 DEF Deposit, Known
    <2>3. sum \in Nat
      BY <1>2, <2>2, AppAssumption DEF AppAssumption
    <2>4. calls \in [Calls -> CallType]
      BY <1>2, <2>3 DEF CallType, Kinds
    <2>5. calls[c].kind = "deposited" /\ calls[c].who = call[c].who
      BY <1>2 DEF CallType
    <2>6. \A d \in Calls : d # c => calls[d] = call[d]
      BY <1>2
    <2>7. Changed(calls, call[c].who, sum) /\ UNCHANGED <<session, playerTable, balance, doubt>>
      BY <2>1 DEF Deposit
    <2> HIDE DEF calls, sum
    <2>8. Known' /\ Followed' /\ LastEvent' /\ Shows'
      BY <2>2, <2>3, <2>4, <2>5, <2>6, <2>7, ChangedKeeps
    <2> QED
      BY <1>1, <2>8
  <1>12. CASE \E c \in Calls : LateDeposit(c)
    <2>1. PICK c \in Calls : LateDeposit(c)
      BY <1>12
    <2> DEFINE sum == bank[call[c].who] + Refill
    <2>2. /\ call[c].kind = "adrift" /\ call[c].who \in Accounts
          /\ UNCHANGED <<session, playerTable, balance, doubt>>
      BY <2>1 DEF LateDeposit, Known
    <2>3. sum \in Nat
      BY <1>2, <2>2, AppAssumption DEF AppAssumption
    <2>4. /\ Without(c) \in [Calls -> CallType] /\ Without(c)[c].kind = "none"
          /\ \A d \in Calls : d # c => Without(c)[d] = call[d]
      BY <1>2, <1>7, WithoutTypes DEF NoCall, Request
    <2>5. CASE Changed(Without(c), call[c].who, sum)
      <3> HIDE DEF sum
      <3>1. Known' /\ Followed' /\ LastEvent' /\ Shows'
        BY <2>2, <2>3, <2>4, <2>5, ChangedKeeps
      <3> QED
        BY <1>1, <3>1
    <2>6. CASE call' = Without(c) /\ UNCHANGED <<bank, feed>>
      <3>1. Known'
        BY <2>4, <2>6, KnownKept
      <3>2. Followed' /\ LastEvent' /\ Shows'
        BY <2>2, <2>4, <2>6, ShowsKept
      <3> QED
        BY <1>1, <3>1, <3>2
    <2> QED
      BY <2>1, <2>5, <2>6 DEF LateDeposit
  <1> QED
    BY <1>3, <1>4, <1>5, <1>6, <1>8, <1>9, <1>10, <1>11, <1>12

\* Every step keeps the invariant.
LEMMA AppInvNext == AppInv /\ [AppNext]_appVars => AppInv'
  <1> SUFFICES ASSUME AppInv, [AppNext]_appVars PROVE AppInv'
    OBVIOUS
  <1>1. CASE UNCHANGED appVars
    BY <1>1 DEF appVars, identity, offer, ledger, AppInv, AppTypes, Known, Followed, Account,
                LastEvent, Shows, Expected, Own
  <1>2. CASE AppNext
    BY <1>2, SessionKeeps, TableKeeps, BankKeeps DEF AppNext
  <1> QED
    BY <1>1, <1>2

\* The invariant, for any number of players and of requests in flight.
THEOREM AppInvariant == AppSpec => []AppInv
  BY AppInvInit, AppInvNext, PTL DEF AppSpec

\* Whatever order requests are answered in and events come, the balance that
\* is shown at the end is the bank's, of the player the page is about.
THEOREM RightBalanceShown == AppSpec => []BalanceShown
  <1>1. AppInv => BalanceShown
    <2> SUFFICES ASSUME AppInv, feed.who # Nobody, feed.events = <<>>, ~ doubt,
                        \A kind \in {"balance", "read", "old"} : ~ UnderWay(kind)
                 PROVE  balance = bank[feed.who]
      BY DEF AppInv, BalanceShown, Followed
    <2>1. ~ Expected
      BY DEF Expected, UnderWay
    <2> QED
      BY <2>1 DEF AppInv, Shows
  <1> QED
    BY <1>1, AppInvariant, PTL

-----------------------------------------------------------------------------
(* The session, the offer and the deposit *)

\* Loading the page again changes nobody's identity: every step that changes
\* the session in the page changes localStorage with it, but for the timer.
THEOREM ReloadHarmless == AppSpec => []ReloadKeepsSession
  <1>1. AppInit => ReloadKeepsSession
    BY DEF AppInit, ReloadKeepsSession, Loaded
  <1>2. ASSUME ReloadKeepsSession, [AppNext]_appVars
        PROVE  ReloadKeepsSession'
    <2> USE DEF ReloadKeepsSession, Loaded, identity
    <2>1. CASE UNCHANGED identity
      BY <1>2, <2>1
    <2>2. CASE Load
      BY <1>2, <2>2 DEF Load
    <2>3. CASE \E player \in Players : HandleAuthSuccess(player)
      BY <1>2, <2>3 DEF HandleAuthSuccess, Save
    <2>4. CASE Expire \/ TimeOut
      BY <1>2, <2>4 DEF Expire, TimeOut
    <2>5. CASE HandleSignOut \/ \E c \in Calls : DevResetAnswered(c)
      BY <1>2, <2>5 DEF HandleSignOut, DevResetAnswered
    <2> QED
      BY <1>2, <2>1, <2>2, <2>3, <2>4, <2>5
      DEF AppNext, appVars, DemoTokenComes, HandleDevReset, HandleStartGame, StartGameAnswered,
          HandleBackToDemo, GameState, BankMoves, StreamOpens, StreamDrops, BalanceUpdate,
          BalanceRead, BalanceAnswered, BalanceFailed, HandleRestock, Deposit, LateDeposit,
          RestockAnswered, RestockFailed, NotNow
  <1> QED
    BY <1>1, <1>2, PTL DEF AppSpec

\* A player who waits at a table without chips is offered some: the check
\* misses no change of the phase, the balance or the table.
THEOREM ChipsOffered == AppSpec => []OfferedChips
  <1>1. AppInit => OfferedChips
    BY AppAssumption DEF AppAssumption, AppInit, OfferedChips
  <1>2. ASSUME AppInv, OfferedChips, [AppNext]_appVars
        PROVE  OfferedChips'
    <2> USE DEF OfferedChips, offer
    <2>1. CASE UNCHANGED <<playerTable, phase, balance, offer>>
      BY <1>2, <2>1
    <2>2. CASE playerTable' = Nobody
      BY <2>2
    <2>3. CASE \E seen \in {"waiting", "playing"} : GameState(seen)
      BY <1>2, <2>3 DEF GameState, CheckOffer
    <2>4. CASE BalanceUpdate
      <3>1. CASE Taken(Head(feed.events))
        BY <1>2, <2>4, <3>1 DEF BalanceUpdate, Shown, CheckOffer
      <3>2. CASE ~ Taken(Head(feed.events))
        BY <1>2, <2>4, <3>2 DEF BalanceUpdate
      <3> QED
        BY <3>1, <3>2
    <2>5. CASE \E c \in Calls : BalanceAnswered(c)
      BY <1>2, <2>5 DEF BalanceAnswered, Shown, CheckOffer
    <2>6. CASE \E c \in Calls : StartGameAnswered(c)
      BY <1>2, <2>6 DEF StartGameAnswered
    <2>7. CASE NotNow
      BY <2>7 DEF NotNow
    <2>8. CASE \E c \in Calls : RestockAnswered(c) \/ RestockFailed(c)
      BY <1>2, <2>8, AppAssumption DEF AppAssumption, RestockAnswered, RestockFailed
    <2>9. CASE \E c \in Calls : DevResetAnswered(c)
      BY <1>2, <2>9 DEF DevResetAnswered
    <2> QED
      BY <1>2, <2>1, <2>2, <2>3, <2>4, <2>5, <2>6, <2>7, <2>8, <2>9
      DEF AppNext, appVars, Load, DemoTokenComes, HandleAuthSuccess, Expire, TimeOut, HandleSignOut,
          HandleDevReset, HandleStartGame, HandleBackToDemo, BankMoves, StreamOpens, StreamDrops,
          BalanceRead, BalanceFailed, HandleRestock, Deposit, LateDeposit
  <1> QED
    BY <1>1, <1>2, AppInvariant, PTL DEF AppSpec

InDeposit(c) == call[c].kind \in {"deposit", "deposited"}

\* While a deposit is asked for, the button is off.
Deposits == OneDeposit /\ \A c \in Calls : InDeposit(c) => restocking

\* A new request that is no deposit changes nothing for those that are.
LEMMA DepositsKept ==
  ASSUME Deposits, UNCHANGED restocking, \A c \in Calls : InDeposit(c)' => InDeposit(c)
  PROVE  Deposits'
  BY DEF Deposits, OneDeposit, InDeposit

\* Whatever else is asked, it is no deposit.
LEMMA NoDeposit ==
  ASSUME NEW calls \in [Calls -> CallType], NEW r, r.kind \notin {"deposit", "deposited"}, NEW c \in Calls,
         NEW account, NEW player, NEW tab
  PROVE  /\ call' = Ask(calls, r) /\ InDeposit(c)' => calls[c].kind \in {"deposit", "deposited"}
         /\ call' = Fetched(calls, account) /\ InDeposit(c)' => calls[c].kind \in {"deposit", "deposited"}
         /\ Watch(calls, player, tab) /\ InDeposit(c)' => calls[c].kind \in {"deposit", "deposited"}
  <1>1. ASSUME NEW q, q.kind \notin {"deposit", "deposited"}, call' = Ask(calls, q), InDeposit(c)'
        PROVE  calls[c].kind \in {"deposit", "deposited"}
    <2>1. \A d : [calls EXCEPT ![d] = q][c] \in {calls[c], q}
      OBVIOUS
    <2>2. call'[c] \in {calls[c], q}
      BY <1>1, <2>1 DEF Ask
    <2> QED
      BY <1>1, <2>2 DEF InDeposit
  <1>2. /\ Request("balance", account).kind = "balance"
        /\ Request("balance", Account(player, tab)).kind = "balance"
    BY DEF Request
  <1>3. \A who : call' = Fetched(calls, who) => call' = calls \/ call' = Ask(calls, Request("balance", who))
    BY DEF Fetched
  <1>4. Watch(calls, player, tab) => call' = Fetched(calls, Account(player, tab))
    BY DEF Watch
  <1> QED
    BY <1>1, <1>2, <1>3, <1>4 DEF InDeposit

\* The button is off from the click to the answer, though the player may sign
\* out and the offer be raised once more: no page awaits two deposits.  One
\* that was left behind by the page before is not awaited.
THEOREM OneDepositAtATime == AppSpec => []OneDeposit
  <1>1. AppInit => Deposits
    <2> SUFFICES ASSUME AppInit PROVE Deposits
      OBVIOUS
    <2>1. \A d : [[c \in Calls |-> NoCall] EXCEPT ![d] = Request("balance", Demo)] \in
                   [Calls -> {NoCall, Request("balance", Demo)}]
      OBVIOUS
    <2>2. \A c \in Calls : call[c] \in {NoCall, Request("balance", Demo)}
      BY <2>1 DEF AppInit, Ask
    <2> QED
      BY <2>2 DEF Deposits, OneDeposit, InDeposit, NoCall, Request
  <1>2. ASSUME AppInv, Deposits, [AppNext]_appVars
        PROVE  Deposits'
    <2>1. call \in [Calls -> CallType]
      BY <1>2 DEF AppInv, AppTypes
    <2>2. ASSUME NEW c \in Calls
          PROVE  /\ Without(c) \in [Calls -> CallType]
                 /\ \A d \in Calls : Without(c)[d].kind \in {"deposit", "deposited"} => InDeposit(d) /\ d # c
      BY <2>1, <1>2, WithoutTypes DEF AppInv, Without, InDeposit, NoCall, Request
    <2>3. CASE Load
      <3>1. /\ Abandoned \in [Calls -> CallType]
            /\ \A c \in Calls : Abandoned[c] = NoCall \/ Abandoned[c].kind = "adrift"
        BY <1>2, AbandonedTypes DEF AppInv
      <3>2. Request("balance", Demo).kind \notin {"deposit", "deposited"}
        BY DEF Request
      <3>3. call' = Ask(Abandoned, Request("balance", Demo))
        BY <2>3 DEF Load
      <3>4. \A c \in Calls : InDeposit(c)' => Abandoned[c].kind \in {"deposit", "deposited"}
        BY <3>1, <3>2, <3>3, NoDeposit
      <3>5. \A c \in Calls : ~ InDeposit(c)'
        BY <3>1, <3>4 DEF NoCall, Request
      <3> QED
        BY <3>5 DEF Deposits, OneDeposit, InDeposit
    <2>4. CASE \/ DemoTokenComes \/ \E player \in Players : HandleAuthSuccess(player)
               \/ TimeOut \/ HandleSignOut \/ HandleDevReset \/ HandleStartGame \/ HandleBackToDemo
      <3>1. UNCHANGED restocking
        BY <2>4 DEF DemoTokenComes, HandleAuthSuccess, TimeOut, HandleSignOut, HandleDevReset,
                    HandleStartGame, HandleBackToDemo, offer
      <3>2. \/ call' = call \/ call' = Fetched(call, Demo)
            \/ \E player, tab : Watch(call, player, tab)
            \/ call' = Ask(call, Request("reset", Nobody)) \/ call' = Ask(call, Request("create", session))
        BY <2>4 DEF DemoTokenComes, HandleAuthSuccess, TimeOut, HandleSignOut, HandleDevReset,
                    HandleStartGame, HandleBackToDemo
      <3>3. /\ Request("reset", Nobody).kind \notin {"deposit", "deposited"}
            /\ Request("create", session).kind \notin {"deposit", "deposited"}
        BY DEF Request
      <3>4. \A c \in Calls : InDeposit(c)' => InDeposit(c)
        BY <2>1, <3>2, <3>3, NoDeposit DEF InDeposit
      <3> QED
        BY <1>2, <3>1, <3>4, DepositsKept
    <2>5. CASE \E c \in Calls : DevResetAnswered(c) \/ StartGameAnswered(c)
      <3>1. PICK c \in Calls : DevResetAnswered(c) \/ StartGameAnswered(c)
        BY <2>5
      <3>2. UNCHANGED restocking
        BY <3>1 DEF DevResetAnswered, StartGameAnswered, offer
      <3>3. \/ call' = Without(c) \/ call' = Fetched(Without(c), session)
            \/ \E player, tab : Watch(Without(c), player, tab)
        BY <3>1 DEF DevResetAnswered, StartGameAnswered
      <3>4. Request("reset", Nobody).kind \notin {"deposit", "deposited"}
        BY DEF Request
      <3>5. \A d \in Calls : InDeposit(d)' => Without(c)[d].kind \in {"deposit", "deposited"}
        BY <2>2, <3>3, <3>4, NoDeposit DEF InDeposit
      <3> QED
        BY <1>2, <2>2, <3>2, <3>5, DepositsKept
    <2>6. CASE \E c \in Calls : BalanceRead(c) \/ BalanceAnswered(c) \/ BalanceFailed(c)
      <3>1. PICK c \in Calls : BalanceRead(c) \/ BalanceAnswered(c) \/ BalanceFailed(c)
        BY <2>6
      <3>2. UNCHANGED restocking
        BY <3>1 DEF BalanceRead, BalanceAnswered, BalanceFailed, offer
      <3>3. \A d \in Calls : InDeposit(d)' => InDeposit(d)
        <4>1. CASE BalanceRead(c)
          BY <2>1, <4>1 DEF BalanceRead, InDeposit, CallType
        <4>2. CASE BalanceAnswered(c) \/ BalanceFailed(c)
          BY <2>2, <4>2 DEF BalanceAnswered, BalanceFailed, InDeposit
        <4> QED
          BY <3>1, <4>1, <4>2
      <3> QED
        BY <1>2, <3>2, <3>3, DepositsKept
    <2>7. CASE \E account \in Accounts : BankMoves(account)
      <3>1. PICK account \in Accounts, amount \in 0..MaxAmount : Changed(call, account, amount)
        BY <2>7 DEF BankMoves
      <3>2. UNCHANGED restocking
        BY <2>7 DEF BankMoves, offer
      <3>3. \A c \in Calls : InDeposit(c)' => InDeposit(c)
        BY <2>1, <3>1 DEF Changed, InDeposit, CallType
      <3> QED
        BY <1>2, <3>2, <3>3, DepositsKept
    <2>8. CASE \E c \in Calls : Deposit(c)
      <3>1. PICK c \in Calls : Deposit(c)
        BY <2>8
      <3> DEFINE sum   == bank[call[c].who] + Refill
                 calls == [call EXCEPT ![c] = [@ EXCEPT !.kind = "deposited", !.value = sum]]
      <3>2. /\ InDeposit(c) /\ Changed(calls, call[c].who, sum) /\ UNCHANGED restocking
            /\ \A d \in Calls : d # c => calls[d] = call[d]
        BY <2>1, <3>1 DEF Deposit, InDeposit, offer
      <3> HIDE DEF calls, sum
      <3>3. \A d \in Calls : call'[d] = calls[d] \/ call'[d].kind = [calls[d] EXCEPT !.kind = "old"].kind
        BY <3>2 DEF Changed
      <3>4. \A d \in Calls : d # c /\ InDeposit(d)' => InDeposit(d)
        BY <2>1, <3>2, <3>3 DEF InDeposit, CallType
      <3> QED
        BY <1>2, <3>2, <3>4, DepositsKept
    <2>9. CASE HandleRestock
      <3>1. ~ restocking /\ restocking' = TRUE
        BY <2>9 DEF HandleRestock, RestockEnabled
      <3>2. \A c \in Calls : ~ InDeposit(c)
        BY <1>2, <3>1 DEF Deposits
      <3>3. PICK d \in Calls : call' = [call EXCEPT ![d] = Request("deposit", session)]
        BY <2>1, <2>9, AskIs DEF HandleRestock
      <3>4. \A c \in Calls : c # d => ~ InDeposit(c)'
        BY <2>1, <3>2, <3>3 DEF InDeposit
      <3> QED
        BY <3>1, <3>4 DEF Deposits, OneDeposit, InDeposit
    <2>10. CASE \E c \in Calls : RestockAnswered(c) \/ RestockFailed(c)
      <3>1. PICK c \in Calls : RestockAnswered(c) \/ RestockFailed(c)
        BY <2>10
      <3>2. Leave(c) /\ InDeposit(c)
        BY <3>1 DEF RestockAnswered, RestockFailed, InDeposit
      <3>3. \A d \in Calls : InDeposit(d)' => InDeposit(d) /\ d # c
        <4>1. CASE call' = Without(c)
          BY <2>2, <4>1 DEF InDeposit
        <4>2. CASE call' = [call EXCEPT ![c] = [@ EXCEPT !.kind = "adrift"]]
          BY <2>1, <4>2 DEF InDeposit, CallType
        <4> QED
          BY <3>2, <4>1, <4>2 DEF Leave
      <3>5. \A d \in Calls : ~ InDeposit(d)'
        BY <1>2, <3>2, <3>3 DEF Deposits, OneDeposit, InDeposit
      <3> QED
        BY <3>5 DEF Deposits, OneDeposit, InDeposit
    <2>11. CASE UNCHANGED <<call, restocking>>
      BY <1>2, <2>11, DepositsKept DEF InDeposit
    <2>12. CASE \E c \in Calls : LateDeposit(c)
      <3>1. PICK c \in Calls : LateDeposit(c)
        BY <2>12
      <3> DEFINE sum == bank[call[c].who] + Refill
      <3>2. /\ Changed(Without(c), call[c].who, sum) \/ call' = Without(c)
            /\ UNCHANGED restocking
        BY <3>1 DEF LateDeposit, offer
      <3> HIDE DEF sum
      <3>3. Without(c) \in [Calls -> CallType]
        BY <2>2
      <3>4. \A d \in Calls : InDeposit(d)' => Without(c)[d].kind \in {"deposit", "deposited"}
        <4>1. CASE call' = Without(c)
          BY <4>1 DEF InDeposit
        <4>2. CASE Changed(Without(c), call[c].who, sum)
          BY <3>3, <4>2 DEF Changed, InDeposit, CallType
        <4> QED
          BY <3>2, <4>1, <4>2
      <3> QED
        BY <1>2, <2>2, <3>2, <3>4, DepositsKept
    <2> QED
      BY <1>2, <2>3, <2>4, <2>5, <2>6, <2>7, <2>8, <2>9, <2>10, <2>11, <2>12
      DEF AppNext, appVars, offer, Expire, GameState, StreamOpens, StreamDrops, BalanceUpdate, NotNow
  <1>3. Deposits => OneDeposit
    BY DEF Deposits
  <1> QED
    BY <1>1, <1>2, <1>3, AppInvariant, PTL DEF AppSpec
=============================================================================
