-------------------------------- MODULE App --------------------------------
(***************************************************************************)
(* The page (ui/src/App.tsx): who is signed in, whose table and balance    *)
(* are on the screen, and the offer of new chips.                          *)
(*                                                                         *)
(* A step is a handler or a callback, with the render after it and the     *)
(* effects of that render.  Requests are answered in any order, each       *)
(* balance as of the instant when the bank reads it; the balance stream    *)
(* is reopened whenever the session or the mode changes.  Players also     *)
(* play elsewhere, and hands end when nobody watches: the bank moves by    *)
(* itself.  No dialog keeps the keyboard from the controls behind it.  A   *)
(* deposit the page forgets, when it is loaded again or gives up waiting,  *)
(* may still reach the bank.                                               *)
(*                                                                         *)
(* A definition followed by its namesake (OfferOnPhase before CheckOffer)  *)
(* is a mutation of it, used only to see that a property would notice it.  *)
(***************************************************************************)
EXTENDS Naturals, Sequences

CONSTANTS
  Players,    \* players who may sign in
  Demo,       \* DEMO_PLAYER_ID
  Nobody,     \* null
  Calls,      \* requests that may be in flight together, the forgotten ones too
  Refill,     \* the deposit, 1000 in the code
  MaxAmount,  \* bound of a balance
  MaxMoves,   \* bound of the changes of balances by others
  MaxEvents   \* bound of the events on the way to the page

ASSUME AppAssumption ==
  /\ Nobody \notin Players \cup {Demo}
  /\ Demo \notin Players
  /\ Calls # {} /\ Refill \in Nat \ {0} /\ MaxAmount \in Nat /\ MaxMoves \in Nat /\ MaxEvents \in Nat

VARIABLES
  session,      \* the player signed in
  live,         \* the last session saved has not expired
  stored,       \* localStorage
  demoToken,    \* the token of the demo has come
  playerTable,  \* playerTableId: the player whose table is watched, Nobody's is the demo's
  phase,        \* of the table on the screen
  balance,      \* the balance on the screen
  showRestock,  \* the offer of chips
  restocking,   \* the deposit is under way
  call,         \* requests in flight, and answers
  feed,         \* the balance stream, and the events on it
  bank,         \* the balances at the bank
  moves,        \* how often they were changed
  doubt,        \* the balance shown came late, or a later one was lost
  dismissed     \* the offer was taken down

identity == <<session, live, stored>>
offer    == <<showRestock, restocking, dismissed>>
ledger   == <<bank, moves>>
appVars  == <<identity, demoToken, playerTable, phase, balance, offer, call, feed,
              ledger, doubt>>

Accounts == Players \cup {Demo}
Kinds == {"none", "balance", "read", "old", "create", "deposit", "deposited",
          "adrift", "reset"}

-----------------------------------------------------------------------------
(* Requests *)

Request(kind, who) == [kind |-> kind, who |-> who, value |-> 0]
NoCall == Request("none", Nobody)

HasRoom(calls) == \E c \in Calls : calls[c] = NoCall
Ask(calls, request) == [calls EXCEPT ![CHOOSE c \in Calls : calls[c] = NoCall] = request]
Without(c) == [call EXCEPT ![c] = NoCall]

\* The page takes no more notice of the request; the bank may.
Leave(c) ==
  \/ call' = Without(c)
  \/ call[c].kind = "deposit" /\ call' = [call EXCEPT ![c] = [@ EXCEPT !.kind = "adrift"]]

\* What is left of the requests when the page goes: the deposits.
Abandoned ==
  [c \in Calls |-> IF call[c].kind \in {"deposit", "adrift"}
                     THEN [call[c] EXCEPT !.kind = "adrift"] ELSE NoCall]

UnderWay(kind) == \E c \in Calls : call[c].kind = kind

-----------------------------------------------------------------------------
(* Effects *)

\* activePlayerId, but for the demo player an expired session falls back to.
Account(player, table) == IF table = Nobody THEN Demo ELSE player

\* fetchBalance returns early without a player.
Fetched(calls, account) ==
  IF account = Nobody THEN calls ELSE Ask(calls, Request("balance", account))

WatchNoMore(calls, player, table) == call' = calls /\ UNCHANGED <<feed, doubt>>

\* The effects after a change of session or table: fetchBalance, and the
\* stream closed and opened for the player it is about.
Watch(calls, player, table) ==
  /\ Account(player, table) # Nobody => HasRoom(calls)
  /\ call' = Fetched(calls, Account(player, table))
  /\ feed' = [who |-> Account(player, table), open |-> FALSE, events |-> <<>>]
  /\ UNCHANGED doubt

OfferOnPhase(before, table, seen, amount) ==
  showRestock' = (before \/ (table # Nobody /\ seen = "waiting" /\ amount = 0 /\ seen # phase))

\* The restock check, when something it depends on has changed.
CheckOffer(before, table, seen, amount) ==
  showRestock' = (before \/ /\ table # Nobody /\ seen = "waiting" /\ amount = 0
                            /\ <<table = Nobody, seen, amount>> # <<playerTable = Nobody, phase, balance>>)

-----------------------------------------------------------------------------
(* Sessions *)

\* What loadSession finds.
Loaded == IF live THEN stored ELSE Nobody

\* setSession(saveSession(...))
Save(player) == session' = player /\ live' = TRUE /\ stored' = player

\* The page is loaded, the first time or again.
Load ==
  /\ session' = Loaded
  /\ stored' = Loaded
  /\ demoToken' = FALSE
  /\ playerTable' = Nobody /\ phase' = "none"
  /\ balance' = Nobody
  /\ showRestock' = FALSE /\ restocking' = FALSE /\ dismissed' = FALSE
  /\ HasRoom(Abandoned) /\ call' = Ask(Abandoned, Request("balance", Demo))
  /\ feed' = [who |-> Demo, open |-> FALSE, events |-> <<>>]
  /\ doubt' = FALSE
  /\ UNCHANGED <<live, ledger>>

\* Another token, another fetch; the stream has none.
DemoTokenComes ==
  /\ ~ demoToken
  /\ demoToken' = TRUE
  /\ IF playerTable = Nobody THEN HasRoom(call) /\ call' = Fetched(call, Demo) ELSE UNCHANGED call
  /\ UNCHANGED <<identity, playerTable, phase, balance, offer, feed, ledger, doubt>>

\* A session comes: from the sign-in dialog, the enrollment or the exchange of
\* a link's code.  The table on the screen stays, whoever it belongs to.
HandleAuthSuccess(player) ==
  /\ Save(player)
  /\ Watch(call, player, playerTable)
  /\ UNCHANGED <<demoToken, playerTable, phase, balance, offer, ledger>>

\* The session, in the page and in localStorage, passes its expiresAt ...
Expire ==
  /\ live /\ stored # Nobody
  /\ live' = FALSE
  /\ UNCHANGED <<session, stored, demoToken, playerTable, phase, balance, offer, call,
                 feed, ledger, doubt>>

\* ... and its timer fires.
TimeOut ==
  /\ session # Nobody /\ ~ live
  /\ session' = Nobody
  /\ Watch(call, Nobody, playerTable)
  /\ UNCHANGED <<live, stored, demoToken, playerTable, phase, balance, offer, ledger>>

HandleSignOut ==
  /\ session # Nobody
  /\ session' = Nobody /\ stored' = Nobody /\ playerTable' = Nobody
  /\ phase' = IF playerTable = Nobody THEN phase ELSE "none"
  /\ Watch(call, Nobody, Nobody)
  /\ UNCHANGED <<live, demoToken, balance, offer, ledger>>

HandleDevReset ==
  /\ HasRoom(call) /\ call' = Ask(call, Request("reset", Nobody))
  /\ UNCHANGED <<identity, demoToken, playerTable, phase, balance, offer, feed, ledger,
                 doubt>>

\* Whatever the answer says was reset; unless there is none.
DevResetAnswered(c) ==
  /\ call[c].kind = "reset"
  /\ \/ /\ session' = Nobody /\ stored' = Nobody /\ playerTable' = Nobody
        /\ phase' = IF playerTable = Nobody THEN phase ELSE "none"
        /\ Watch(Without(c), Nobody, Nobody)
     \/ /\ call' = Without(c)
        /\ UNCHANGED <<session, stored, playerTable, phase, feed, doubt>>
  /\ UNCHANGED <<live, demoToken, balance, offer, ledger>>

-----------------------------------------------------------------------------
(* Tables *)

HandleStartGame ==
  /\ session # Nobody /\ playerTable = Nobody
  /\ HasRoom(call) /\ call' = Ask(call, Request("create", session))
  /\ UNCHANGED <<identity, demoToken, playerTable, phase, balance, offer, feed, ledger,
                 doubt>>

\* The check of this render still sees the phase of the table that was left;
\* only a table after the demo's reopens the balance stream.
StartGameAnswered(c) ==
  /\ call[c].kind = "create"
  /\ \/ /\ playerTable' = call[c].who
        /\ IF playerTable = call[c].who
             THEN /\ call' = Without(c) /\ showRestock' = FALSE /\ dismissed' = TRUE
                  /\ UNCHANGED <<phase, feed, doubt>>
             ELSE /\ IF playerTable = Nobody
                       THEN Watch(Without(c), session, call[c].who)
                       ELSE call' = Fetched(Without(c), session) /\ UNCHANGED <<feed, doubt>>
                  /\ CheckOffer(FALSE, call[c].who, phase, balance)
                  /\ dismissed' = FALSE /\ phase' = "none"
     \/ /\ call' = Without(c)
        /\ UNCHANGED <<playerTable, phase, showRestock, dismissed, feed, doubt>>
  /\ UNCHANGED <<identity, demoToken, balance, restocking, ledger>>

HandleBackToDemo ==
  /\ session # Nobody /\ playerTable # Nobody
  /\ playerTable' = Nobody /\ phase' = "none" /\ showRestock' = FALSE /\ dismissed' = FALSE
  /\ Watch(call, session, Nobody)
  /\ UNCHANGED <<identity, demoToken, balance, restocking, ledger>>

\* The table on the screen reports its phase.
GameState(seen) ==
  /\ seen # phase
  /\ phase' = seen
  /\ CheckOffer(showRestock, playerTable, seen, balance)
  /\ dismissed' = FALSE
  /\ UNCHANGED <<identity, demoToken, playerTable, balance, restocking, call, feed, ledger,
                 doubt>>

-----------------------------------------------------------------------------
(* Balances *)

Shown(amount) ==
  /\ balance' = amount
  /\ CheckOffer(showRestock, playerTable, phase, amount)
  /\ dismissed' = (dismissed /\ amount = balance)

\* The bank changes a balance: answers read before are old, and an event is
\* on its way, or lost.
Changed(calls, account, amount) ==
  /\ bank' = [bank EXCEPT ![account] = amount]
  /\ call' = [c \in Calls |->
                IF calls[c].kind = "read" /\ calls[c].who = account
                  THEN [calls[c] EXCEPT !.kind = "old"] ELSE calls[c]]
  /\ Len(feed.events) < MaxEvents
  /\ \E lost \in {~ feed.open, TRUE} :
       feed' = [feed EXCEPT !.events = Append(@, [who |-> account, amount |-> amount, lost |-> lost])]

BankMoves(account) ==
  /\ moves < MaxMoves
  /\ moves' = moves + 1
  /\ \E amount \in 0..MaxAmount \ {bank[account]} : Changed(call, account, amount)
  /\ UNCHANGED <<identity, demoToken, playerTable, phase, balance, offer, doubt>>

StreamOpens ==
  /\ feed.who # Nobody /\ ~ feed.open
  /\ feed' = [feed EXCEPT !.open = TRUE]
  /\ UNCHANGED <<identity, demoToken, playerTable, phase, balance, offer, call, ledger,
                 doubt>>

\* The browser connects again, but nothing is fetched again.
StreamDrops ==
  /\ feed.open
  /\ feed' = [feed EXCEPT !.open = FALSE,
                          !.events = [i \in DOMAIN @ |-> [@[i] EXCEPT !.lost = TRUE]]]
  /\ UNCHANGED <<identity, demoToken, playerTable, phase, balance, offer, call, ledger,
                 doubt>>

\* The filter of the stream's handler.
Taken(event) == ~ event.lost /\ event.who = feed.who

BalanceUpdate ==
  /\ feed.events # <<>>
  /\ feed' = [feed EXCEPT !.events = Tail(@)]
  /\ LET event == Head(feed.events)
     IN  IF Taken(event)
           THEN Shown(event.amount) /\ doubt' = FALSE
           ELSE /\ doubt' = (doubt \/ (event.lost /\ event.who = feed.who))
                /\ UNCHANGED <<balance, showRestock, dismissed>>
  /\ UNCHANGED <<identity, demoToken, playerTable, phase, restocking, call, ledger>>

\* The bank reads the balance for the answer.
BalanceRead(c) ==
  /\ call[c].kind = "balance"
  /\ call' = [call EXCEPT ![c] = [@ EXCEPT !.kind = "read", !.value = bank[call[c].who]]]
  /\ UNCHANGED <<identity, demoToken, playerTable, phase, balance, offer, feed, ledger,
                 doubt>>

\* Whoever the page is about by now.
BalanceAnswered(c) ==
  /\ call[c].kind \in {"read", "old"}
  /\ Shown(call[c].value)
  /\ call' = Without(c)
  /\ doubt' = ~ (call[c].kind = "read" /\ call[c].who = feed.who)
  /\ UNCHANGED <<identity, demoToken, playerTable, phase, restocking, feed, ledger>>

BalanceFailed(c) ==
  /\ call[c].kind = "balance"
  /\ call' = Without(c)
  /\ doubt' = (doubt \/ call[c].who = feed.who)
  /\ UNCHANGED <<identity, demoToken, playerTable, phase, balance, offer, feed, ledger>>

-----------------------------------------------------------------------------
(* New chips *)

RestockEnabledAlways == showRestock /\ session # Nobody

\* The button of the offer.
RestockEnabled == showRestock /\ session # Nobody /\ ~ restocking

HandleRestock ==
  /\ RestockEnabled
  /\ restocking' = TRUE
  /\ HasRoom(call) /\ call' = Ask(call, Request("deposit", session))
  /\ UNCHANGED <<identity, demoToken, playerTable, phase, balance, showRestock, dismissed,
                 feed, ledger, doubt>>

Deposit(c) ==
  /\ call[c].kind = "deposit"
  /\ bank[call[c].who] + Refill <= MaxAmount
  /\ LET who == call[c].who
         sum == bank[who] + Refill
     IN  Changed([call EXCEPT ![c] = [@ EXCEPT !.kind = "deposited", !.value = sum]], who, sum)
  /\ UNCHANGED <<identity, demoToken, playerTable, phase, balance, offer, moves, doubt>>

\* A deposit the page has forgotten is done, or gets lost.
LateDeposit(c) ==
  /\ call[c].kind = "adrift"
  /\ \/ /\ bank[call[c].who] + Refill <= MaxAmount
        /\ Changed(Without(c), call[c].who, bank[call[c].who] + Refill)
     \/ call' = Without(c) /\ UNCHANGED <<bank, feed>>
  /\ UNCHANGED <<identity, demoToken, playerTable, phase, balance, offer, moves, doubt>>

\* Refused or done, Refill is taken to be the balance.
RestockAnswered(c) ==
  /\ call[c].kind \in {"deposit", "deposited"}
  /\ restocking' = FALSE
  /\ Leave(c)
  /\ balance' = Refill
  /\ showRestock' = FALSE /\ dismissed' = FALSE
  /\ doubt' = (bank[call[c].who] # Refill \/ call[c].who # feed.who)
  /\ UNCHANGED <<identity, demoToken, playerTable, phase, feed, ledger>>

RestockFailed(c) ==
  /\ call[c].kind \in {"deposit", "deposited"}
  /\ restocking' = FALSE
  /\ Leave(c)
  /\ UNCHANGED <<identity, demoToken, playerTable, phase, balance, showRestock, dismissed,
                 feed, ledger, doubt>>

NotNow ==
  /\ showRestock /\ session # Nobody
  /\ showRestock' = FALSE /\ dismissed' = TRUE
  /\ UNCHANGED <<identity, demoToken, playerTable, phase, balance, restocking, call, feed,
                 ledger, doubt>>

-----------------------------------------------------------------------------
AppInit ==
  /\ session = Nobody /\ live = FALSE /\ stored = Nobody
  /\ demoToken = FALSE
  /\ playerTable = Nobody /\ phase = "none"
  /\ balance = Nobody
  /\ showRestock = FALSE /\ restocking = FALSE /\ dismissed = FALSE
  /\ call = Ask([c \in Calls |-> NoCall], Request("balance", Demo))
  /\ feed = [who |-> Demo, open |-> FALSE, events |-> <<>>]
  /\ bank = [account \in Accounts |-> Refill]
  /\ moves = 0
  /\ doubt = FALSE

AppNext ==
  \/ Load \/ DemoTokenComes
  \/ \E player \in Players : HandleAuthSuccess(player)
  \/ Expire \/ TimeOut \/ HandleSignOut \/ HandleDevReset
  \/ HandleStartGame \/ HandleBackToDemo
  \/ \E seen \in {"waiting", "playing"} : GameState(seen)
  \/ \E account \in Accounts : BankMoves(account)
  \/ StreamOpens \/ StreamDrops \/ BalanceUpdate
  \/ HandleRestock \/ NotNow
  \/ \E c \in Calls :
       \/ DevResetAnswered(c) \/ StartGameAnswered(c)
       \/ BalanceRead(c) \/ BalanceAnswered(c) \/ BalanceFailed(c)
       \/ Deposit(c) \/ LateDeposit(c) \/ RestockAnswered(c) \/ RestockFailed(c)

AppSpec == AppInit /\ [][AppNext]_appVars

-----------------------------------------------------------------------------
AppTypeOK ==
  /\ session \in Players \cup {Nobody} /\ stored \in Players \cup {Nobody} /\ live \in BOOLEAN
  /\ demoToken \in BOOLEAN
  /\ playerTable \in Players \cup {Nobody} /\ phase \in {"none", "waiting", "playing"}
  /\ balance \in Nat \cup {Nobody}
  /\ showRestock \in BOOLEAN /\ restocking \in BOOLEAN /\ dismissed \in BOOLEAN
  /\ call \in [Calls -> [kind : Kinds, who : Accounts \cup {Nobody}, value : Nat]]
  /\ feed \in [who : Accounts \cup {Nobody}, open : BOOLEAN,
               events : Seq([who : Accounts, amount : Nat, lost : BOOLEAN])]
  /\ bank \in [Accounts -> Nat]
  /\ moves \in Nat
  /\ doubt \in BOOLEAN

\* Loading the page again changes nobody's identity: localStorage has the
\* session on the screen, and none after a sign-out or a reset, unless the
\* timer of an expired session has yet to fire.
ReloadKeepsSession == Loaded = session \/ (~ live /\ stored = session)

\* With nothing under way, the balance shown is the bank's of the player the page is about,
\* unless it came after a newer one, or a newer one was lost.
BalanceShown ==
  LET account == Account(session, playerTable)
  IN  /\ account # Nobody /\ feed.events = <<>> /\ ~ doubt
      /\ \A kind \in {"balance", "read", "old"} : ~ UnderWay(kind)
      => balance = bank[account]

\* However often the offer is raised, the page awaits one deposit at a time.
\* It does not count what a page before it has left behind.
OneDeposit ==
  \A c, d \in Calls :
    call[c].kind \in {"deposit", "deposited"} /\ call[d].kind \in {"deposit", "deposited"} => c = d

\* A player who waits at a table without chips is offered some, unless the offer was taken down.
OfferedChips ==
  playerTable # Nobody /\ phase = "waiting" /\ balance = 0 => showRestock \/ dismissed
=============================================================================
