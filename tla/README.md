# Blackjack: specifications of the services

TLA+ models of the services in `src/`, the TLC configurations that check them
and the TLAPS proofs about them.  Paths below are relative to the repository.

## 1. The system

One browser talks to a gateway; behind it each service is a process of its own,
in a language of its own, with its own state.  Calls are HTTP over mTLS, events
go over Redis and Server-Sent Events.

| Component | State | Operations | Talks to | What is hard | What makes it correct |
|---|---|---|---|---|---|
| **bank-service** (`bank-service/go`, `cobol`) | PostgreSQL: accounts, ledger of transactions, open bets | account, bet, payout, deposit, withdraw, development reset, start-up seed, demo replenishment | COBOL programs (one process per computation), Redis (balance feed) | a handler reads a balance, computes, and writes an absolute balance back in a later transaction; restart between two statements; a lost commit acknowledgement; decimal strings that COBOL and PostgreSQL read differently | no bet or withdrawal overdraws; ledger, balance and open bets change together; rows add up and follow each other; a bet is settled once, for its stake and its result |
| **game-state** (`game-state/main.go`): player table | phase, dealer, one player, bank transaction ids | bet, hit, stand, double; the dealer's turn; the payout; registry of tables | deck, evaluator, bank, dealer-ai; SSE clients | an action runs in a goroutine of its own that sleeps; the table is copied, changed and written back over several calls; replies are lost; a restart loses the ids | stake on the table = bets at the bank; outcome follows from the cards; the dealer plays by the rules; phases in order; hands end |
| game-state: demo loop | the demo table, a pause flag | five phases in a loop, a deposit when chips run low | the same services | pause in the middle of a hand; a refused bet does not stop the hand | the hand goes on; chips do not run out |
| game-state: registry, SSE | map of tables, channels of clients | GetOrCreate, CreatePlayerTable, Subscribe, Unsubscribe, Broadcast | the UI | a full channel drops a state; broadcasts overtake each other | one table per id; no send to a closed channel; the last state seen |
| **hand-evaluator** (Haskell), **dealer-ai** (Python) | none | value of a hand; hit or stand | called by game-state | aces, one by one | best total not above 21; all implementations agree |
| **deck-service** (Go) | a shoe per table, in memory | deal, on demand from a new shoe | called by game-state | racing first requests; the shoe runs out; a count that makes the handler panic with the lock held; restart | each card of a shoe is dealt once |
| **gateway** (Go) | two event buses with bounded clients, an event store in memory | proxying with scope checks, SSE, health, development reset | all services, Redis | slow clients drop events; the reset fans out and may fail in part | what a session scope allows; after a reset both services are empty |
| **auth-service** (TypeScript) | PostgreSQL: players, passkeys, challenges; Redis: links, codes, sessions | register, verify, exchange, passkey registration and login, reset | email-service, bank-service | one-use tokens that expire; a failure after the token is consumed; a passkey enrolled again by another | each link and code serves once; a session needs a passkey; a passkey stays its owner's |
| **auth-ui-service** (Go) | none | pages, forwards to auth-service | auth-service | | |
| **observability-service** (Go) | three counters | validate and publish events | Redis | asynchronous publication | counters add up |
| **chat-service** (Elixir) | messages per table in a GenServer | post, list | | the bound of 100 | the last 100 in order |
| **email-service** (Python) | none | a pipeline of nine steps | called by auth-service, which it asks for addresses; an SMTP relay | each step may refuse; lookups and deliveries fail in between; callers do not read the answer | what leaves is what its tier demands; the answer is true; callers and pipeline agree |
| **document-service** (TypeScript) | a counter | validates blocks, lays them out on pages, reads CSV rows, draws a table over several pages | called by bank-service for a statement | a position kept by hand against the one of PDFKit; quotes and commas in a row; blocks at the end of a page | a row has its fields; rows lie in order, under a header, inside their border, above the footer |
| **ui: the page** (`App.tsx`) | session, localStorage, table watched, balance, offer of chips | sign-in, sign-out, expiry, start of a game, back to the demo, deposit, development reset, balance stream | gateway | answers and events of different requests in any order, about different players; effects after effects | the balance shown is the player's; a reload changes nobody; one deposit at a time; the offer comes |
| **ui: dialogs** (`AuthModal`, `EnrollmentModal`, `TransactionModal`) | a form and its definition, a passkey ceremony; a list of transactions | fetch, submit, ceremony, close; export | gateway, the browser's passkey prompt | answers after a switch of tab or player; a dialog that cannot be closed while it waits | the form is the tab's; nobody waits for ever; the transactions are the player's |
| **ui: table and history** (`useGameState`, `GameTable`, `SessionHistoryDrawer`) | the table last seen, the rounds kept, the bet panel | receive, record, bet, hit, stand, double | gateway | the stream breaks and starts again in any phase; the page, the table and the bank each have a balance | no round twice; a hand is played for what was asked |
| infrastructure | certificates, containers | | | | |

`PROJECT.json` lists these with their status, and under `hazards` every place in
the code that is hard to test.

## 2. The modules

| Module | Models | Extends or instantiates |
|---|---|---|
| `Bank` | `bank-service/go/{handlers,db,cobol,main}.go`, `cobol/*.cob` | `AtomicBank` (as its abstract specification) |
| `AtomicBank` | what the bank promises: each operation happens at one instant | |
| `Cards` | hands of cards by their total and aces | |
| `GameTable` | the action endpoint and the player state machine of `game-state/main.go` | `Cards` |
| `DemoLoop` | the demo loop of `game-state/main.go` and its pause | `Cards` |
| `Hands` | the computations of the value of a hand in `hand-evaluator/Main.hs`, `dealer-ai/main.py` and `game-state/main.go:estimateValue`; the decision of dealer-ai and of the game's own loop | `Cards` |
| `DeckService` | `deck-service/main.go` | |
| `TableStream` | the registry and the event streams of `game-state/main.go` | |
| `AuthFlow` | `auth-service/index.ts`, `auth-db/init.sql` | |
| `MailService` | `email-service/*.py` and the requests to it in `auth-service/index.ts` | |
| `DocumentService` | validation, layout and answer of `document-service/index.ts` | |
| `Csv` | `parseCSVRow` of `document-service/index.ts`, and the rows that its callers write | |
| `App` | `ui/src/App.tsx` | |
| `Dialogs` | `ui/src/components/{AuthModal,EnrollmentModal}.tsx`, and what opens and closes them in `App.tsx` | |
| `Statement` | `ui/src/components/TransactionModal.tsx` | |
| `History` | `ui/src/hooks/useGameState.ts`, `ui/src/components/SessionHistoryDrawer.tsx` | |
| `Betting` | a bet from `GameTable.tsx:BetPanel` over `useGameState.ts:sendAction` to `playerBet` and the bank, and the offer of chips of `App.tsx` | |
| `BankProofs`, `GameTableProofs`, `MailProofs`, `StreamProofs`, `AuthProofs`, `AppProofs` | theorems about `Bank`, `GameTable`, `MailService`, `TableStream`, `AuthFlow`, `App` | that module, `TLAPS` |
| `ServiceProofs` | theorems about `DeckService`, `DocumentService`, `Csv` and `Hands` | all four, `SequenceTheorems`, `FiniteSetTheorems`, `WellFoundedInduction`, `TLAPS` |
| `PageProofs` | theorems about `History`, `Statement`, `Betting` and `Dialogs` | all four, `SequenceTheorems`, `TLAPS` |
| `MCParts` | nine parts side by side, for TLC | `DeckService`, `Hands`, `MailService`, `DocumentService`, `Csv`, `App`, `Statement`, `History`, `Betting` |
| `MCWaits` | what somebody waits for, side by side, for TLC | `TableStream`, `Dialogs` |
| `MCTables` | a player's table and the demo's side by side, for TLC | `GameTable`, `DemoLoop` |
| `MCBank`, `MCGameTable`, `MCAuthFlow`, `MCMailService`, `MCBetting` | values of the constants for TLC, and symmetry | the module of the same name |

In each module an operator whose name extends that of the definition below it
(`CoversOffByOne`, then `Covers`) is a mutation: with it in place of the
original, the property named for it in `PROJECT.json` must fail.  No
specification uses a mutation.

### Bank

The tables of PostgreSQL are `accounts`, `balance`, `openBets`, `ledger`.  A
request `r` is a handler in flight: `pc[r]` is its next SQL statement (or its
answer), `req[r]` its body, `seen[r]` the balance it has read and the one it has
computed.  One step is one statement, or one transaction of `db.go`, which the
row lock of its `UPDATE` makes atomic:

| Action | Code |
|---|---|
| `Receive` | the handler up to its first statement, with its 400s |
| `CheckExists`, `CreateAccount` | `accountHandler` |
| `FindOpenBet` | `payoutHandler`: `GetOpenBet`, `CALC-PAYOUT` |
| `ReadBalance` | `GetBalance`, then `VALIDATE-DEBIT` or `CALC-CREDIT` |
| `Replenish` | `betHandler` for the demo player |
| `Commit` | `PlaceBet`, `SettlePayout`, `ApplyBalanceChange` |
| `Publish` | `publishBalance` |
| `Wipe`, `SeedDemoPlayer` | `DevReset`, in its transaction and after it |
| `Fail` | any statement or COBOL run that fails |
| `Restart` | the process dies and `main` runs `Migrate`, `SeedDemoPlayer` |

Amounts are the callers' decimal strings, and two programs read them.
`DollarsToCents` cuts the fraction after two digits and adds it to the whole
dollars whatever their sign (`Cents`: "0.035" is 3 cents, "-0.50" is 50); a
`NUMERIC(15,2)` column rounds it and keeps the sign (`Stored`: 4 and -50).  So
amounts are counted in mills, the tables in cents, and each use goes through the
conversion that the code has there; `Parsed` is a column read back by
`DollarsToCents`.  `/account` takes any starting balance and looks at none
(`handlers.go:95`), so that an account may be opened in debt (`Openings`).  The
transaction id of a bet (a fresh UUID) is the request that placed it, so that ids
are unique by construction, as they are in the code.  `Serial` states what callers do: `TRUE` when they await the answer
about an account before the next request about it, which the game does for a
patient player, `FALSE` otherwise.

Not modelled: the read-only handlers; strings that are not numbers, which either
reader refuses with an answer that changes nothing (`Fail`); amounts from 10^15
cents on, which do not fit the COBOL fields (`PIC S9(15)`) nor the columns.

### GameTable

`table` is `Table.state` but for its player, `player` is `Players[0]`.  Each
goroutine `g` plays one action, `job[g]`; `local[g]` holds the variables of its
call chain and `pc[g]` its next step.  A step is the code between two calls of a
service or two sleeps.  `GetState` copies the struct, not the array behind the
`Players` slice; so phase and dealer are copied to `local[g].s` and written back
by `SetState`, and assignments to the player are visible at once.  This is why
two goroutines can undo each other's phase.

| Action | Code |
|---|---|
| `Receive`, `Ignore` | `actionHandler`, `processPlayerAction` |
| `StartBet`, `CallBet`, `EnterBetting`, `EnterDealing`, `DealPlayer`, `ShowPlayer`, `DealUp`, `DealHole`, `CheckNatural` | `playerBet` with `callBankBet` |
| `StartHit`, `DrawPlayer`, `ShowHit` | `playerHit` |
| `Stand` | `playerStand` |
| `StartDouble`, `CallBet`, `TakeDouble`, `DrawPlayer`, `ShowDouble` | `playerDouble` |
| `EnterDealerTurn`, `Reveal`, `ShowDealer`, `CheckBust`, `DealerDraw` | `runDealerTurnPlayer` |
| `Decide`, `CallPayout`, `Paid`, `NextHand` | `runPayoutPlayer` with `callBankPayout` |
| `Crash` | the process dies; `CreatePlayerTable` makes a new table |

The bank appears as two variables, `balance` and `bets`, whose operations are
atomic: `bank_serial` (below) is what justifies this for a client with one
request in flight.  `Faults` says what may go wrong outside of the table: the
deck or the evaluator out of reach, an answer that does not decode, a lost reply
of the bank, a bank that is down, a crash.

Left out: the fields that are display only (`ActivePlayerID`, `IsRevealed`,
`IsSoft`, time stamps), suits, the `split` action and refused actions, which
change nothing, and what `initShoe` is answered, which is not used: that it is answered at
all is an assumption of its own (section 3, Fairness).  Two dealer turns that
run at once share the array behind the dealer's hand until one of them grows
it; the model gives each its own.  Reads and writes of `Players[0]` by several
goroutines without a lock are taken to be as atomic as a step.  The four cards
of a deal are chosen one at a time as they are put on the table; nobody sees
them before.  A crash and the creation of the next table are one step, as
nothing can happen to a table that does not exist.

### TableStream

`registered` is the registry's entry for one table id, `state[t]` the number of
the last state stored in a `Table` object, `clients[t]` its map of channels,
`queue[w]` what the channel of stream `w` holds, `view[w]` what its browser was
sent last.  `at[a]` is the next step of a request or goroutine, `table[a]` the
object it works on.  `Table.mu` is held over several steps only by a broadcast,
for reading, so that `Lockable` is all there is of it.

| Action | Code |
|---|---|
| `Look`, `Insert` | `CreatePlayerTable`, under the read lock and under the write lock |
| `Connect`, `Subscribe`, `Snapshot`, `Receive`, `Leave` | `sseHandler` |
| `Unsubscribe`, `Close` | `Unsubscribe`, under the lock and after it |
| `Start`, `Store` | the goroutine that calls `SetState`; its assignment |
| `Broadcast`, `Send`, `Finish` | `Broadcast` |

`missed` and `overlapped` record when the code cannot keep a browser current: its
channel was full when the last state was sent, or that state's writer began
while another was not done.  Between two snapshots a stream may also show a state
older than the first, as its channel may hold it already.  A restart is left
out: it empties everything.

### Cards, Hands

`Cards` keeps a hand as its number of cards, its total with aces counted one, and
the presence of an ace: `Value` needs no more.  `Hands` computes with whole
sequences of ranks the way the four implementations do, for a hand that grows
card by card; run `parts` shows that they agree with each other, that they
compute the best total, and that the summary of `Cards` loses nothing.

### DeckService

A request that finds no shoe makes one under the map's lock
(`getOrCreateShoe`), then deals under the shoe's lock: two steps, so that first
requests race.  The count is whatever the caller sent: at one that is negative
or too large `make` panics between `Lock` and `Unlock`, which nobody defers; `Panic`
leaves the lock held (`held`), and from then on no request gets on until a restart,
which empties the map.  No shoe is ever shuffled anew (section 5).

### AuthFlow

`row`, `owner` and `challenge` are the tables of PostgreSQL; `link`, `code` and
`session` the keys of Redis; `mailed`, `given`, `boot` and `jwt` what clients
hold; `req[w]` a handler before its next statement.  Any client may present
anything that was given out, in any order and any number of times, and any key:
a key is the credential id that a browser sends, which may be in the table
already.  `saveCredential` has `ON CONFLICT (credential_id) DO UPDATE SET counter`, so
that such a key stays its owner's (`OwnersAfter`), while the handler goes on, to a
session if it came with a bootstrap token.  `asked` and `saved` keep what challenges
were drawn for and who has enrolled which keys: tables forget both.

| Action | Code |
|---|---|
| `Register`, `InsertPlayer`, `StoreLink`, `SendMail` | `/register`, `createPlayer`, `sendVerificationEmail` |
| `VerifyToken`, `VerifyFind`, `MarkPlayerVerified`, `IssueCode` | `/verify-token` |
| `Exchange`, `ExchangeFind` | `/exchange` |
| `RegisterBegin`, `LoginBegin`, `StoreChallenge` | `/passkey/register/begin`, `/passkey/login/begin` |
| `RegisterComplete`, `ConsumeRegistration`, `SaveCredential`, `MarkPasskeyEnrolled`, `CreateSession` | `/passkey/register/complete` |
| `LoginComplete`, `LoginCredential`, `LoginFind`, `CreateSession` | `/passkey/login/complete` |
| `Refuse` | a failure inside the `try` of the two |
| `Reset`, `WipeCredentials`, `WipePlayers`, `Flush` | `/dev/reset` |
| `Expire`, `Crash` | times to live; the process dies and Docker restarts it |

`requestHandler` is asynchronous and nobody awaits it, so that an exception that
it does not catch is an unhandled rejection, at which Node exits: `Die`.  Two
statements throw because of what the tables hold: `InsertPlayer` (the unique
address) and `StoreChallenge` (the foreign key).  A statement that fails, or a body
that parses to `null` or lacks the client data (`index.ts:436`, `572`, `668`, `762`),
throws at any time (`Crash`).  `threw` records that a registration has ended the
process.  Bank account creation has no effect on this
state and its failure is ignored by the code; it is part of the step to
`StoreLink`.  Reads that are followed by nothing but an answer are left out
(`/validate`, `/users/{id}/email`, `/health`), as are receipts, the demo token,
the counter and the attributes of a key, the demo player of `init.sql`, requests
that are refused without a change, and the expiry of tokens that clients hold,
which only makes such refusals more frequent.  A command that Redis executes but
whose answer is lost is left out too.

### MailService

`origin[r]` and `request[r]` are who made a request to send and its body, `at[r]` the
next step of `process` for it, or the answer, `address[r]` the address found for
its recipient, `sent[r]` the messages that went out for it, to the relay or to the
log, `relay` whether `SMTP_HOST` names a relay, `registered` the players that
auth-service knows.  A step is the code between two calls of another process.

| Action | Code |
|---|---|
| `SendVerificationEmail`, `NotifyTransaction` | `sendVerificationEmail`; `/notify/transaction` with `sendTransactionReceipt` |
| `Send` | `POST /send`, by anybody, with any combination of caller, tier, type, recipient, payload and waiver |
| `Check` | steps 1 to 3, `auth.check` |
| `Resolve`, `Confirm` | step 4: `resolve_recipient_address`, and again for the restricted tier |
| `Compose` | steps 5 to 8: `templates.validate` and `render`, the waiver, `encryption.encrypt` |
| `Deliver` | step 9: `transport.deliver` |
| `Wipe` | the reset of auth-service |

The service keeps nothing between two requests, so that one request at a time
shows all there is; what may change during it is who is registered.  Without
`SMTP_HOST` the service prints a message to its log and answers that it is queued
(`transport.py:79`); `AnswerIsTrue` says so, and that the log never stands in for a
relay that failed.  `encryption.py` is a stub that returns the plaintext and finds a
key for every player, as its comments say: what a tier decides is that a message is
marked (`X-TCA-Encrypted`) and loses its HTML part (`Marked`).  Nothing here is a
claim about who can read a mail.  A player's address never changes
(`AddressOf`).  A payload is complete, lacks a field, or has one that a renderer
cannot convert, which raises an exception that only Flask catches.  Left out: a
request that is not JSON, `/health`, `/message-types` and the wording of messages.

### DemoLoop

`loopStep` is what the one goroutine does next, `demoPhase`, `demoPlayer` and
`demoDealer` are its table, `demoFunds` the demo player's balance at the bank.  Each
service has the fallback that the code gives it: a card of the loop's own, an
estimated value, a bet that is not placed.  Money is counted in quarters of the
hand's bet (for 3:2) and capped at `MaxMoney`, as the demo may win for ever.

| Action | Code |
|---|---|
| `PhaseBetting`, `AutoReplenish`, `DemoBet` | `phaseBetting`, `callBankDeposit`, `callBankBet` |
| `PhaseDealing`, `FirstCard`, `UpCard`, `SecondCard` | `phaseDealing` |
| `PhasePlayerTurn`, `HitOnce` | `phasePlayerTurn` |
| `PhaseDealerTurn`, `RevealHole`, `DealerHits`, `DealerStands` | `phaseDealerTurn` |
| `PhasePayout`, `ResetToWaiting` | `phasePayout` |
| `LoadFlag`, `StoreFlag` | `POST /demo/pause` |
| `RestartDemo` | the process dies; `NewTable` and the loop start again |

The loop looks at the flag where a phase begins.  Toggling it is a load and then
a store, so that two requests at once may both pause.

### DocumentService, Csv

A request goes through `stage`: validated, its title drawn, its blocks rendered
one by one, the footer, the answer.  `page` and `y` are where PDFKit would draw
next (`doc.y`; `currentY` within a table), in the points of the code;
`segments` are the pieces of a table that get a border each, `placed` where its
rows were drawn.

| Action | Code |
|---|---|
| `ValidateRequest` | the handler up to `renderPDF`, with its 400s |
| `RenderTitle`, `RenderText`, `CollectFooter`, `RenderFooter` | `renderPDF` |
| `BeginTable`, `RenderRow`, `EndTable` | `renderTable`: header, a row with the page break before it, the borders |
| `Answer`, `RenderFailed` | the response and the counter; the 500 |

Of PDFKit only the rule is modelled that the service relies on: a line that does
not fit begins a new page, so that a long text takes several (`TextEnd`).  The name
of a table is a text of its own and may be missing (`HeaderPlace`).  Cells are drawn
with `lineBreak: false` and take one line each; there are as many as the table has
headers, and a header too low on the page takes a page for each.

`Csv` has `parseCSVRow` character by character of four kinds (a quote, a comma, a blank, another), as a fold over the row, and rows
that a caller writes by RFC 4180.  Fonts, colours and wording are left out.

### App

One step is a handler or a callback of the page with the render after it and the
effects of that render.  `call` are the requests in flight and their answers, of
which a balance is read by the bank at an instant of its own; `feed` is the
balance stream with the events on it; `bank` is moved by others as well.

| Action | Code |
|---|---|
| `Load`, `DemoTokenComes` | the initial state, `loadSession`, the first effects |
| `HandleAuthSuccess`, `HandleSignOut`, `Expire`, `TimeOut` | `saveSession`, `clearSession`, the timer of `expiresAt` |
| `HandleStartGame`, `StartGameAnswered`, `HandleBackToDemo`, `GameState` | the handlers of the same names; a state of the table |
| `StreamOpens`, `StreamDrops`, `BalanceUpdate` | the `EventSource` of the balance |
| `BalanceRead`, `BalanceAnswered`, `BalanceFailed` | `fetchBalance` |
| `HandleRestock`, `Deposit`, `RestockAnswered`, `RestockFailed`, `NotNow` | `handleRestock` and the offer |
| `LateDeposit` | a deposit that the page has forgotten, by a reload or a lost answer, is done after all, or lost (external) |
| `HandleDevReset`, `DevResetAnswered` | `handleDevReset` |
| `BankMoves` | players who play elsewhere, hands that end unwatched (external) |

`doubt` records that the balance shown came late or that a later one was lost,
`dismissed` that the offer was taken down.  A deposit in flight when the page goes
is `adrift`: `Load` keeps it, and `OneDeposit`, which is about the deposits that one
page awaits, does not count it.  Not modelled: `handleToggleDemo`,
whose flag nothing else on the page depends on.

### Dialogs

`auth` is the sign-in dialog with its form (`fields`: whose definition it has)
and the request or prompt that `handleSubmit` waits for (`flow`), `enroll` the
enrollment, `fetching` the requests for a definition, which come back in any
order.  `standing` is false once a render has thrown, as there is nothing to
catch it.

| Action | Code |
|---|---|
| `OpenModal`, `CloseModal`, `SwitchAction`, `Typing` | the dialog's controls, with the effect on `[action, modalState]` |
| `FieldsAnswered`, `FieldsFailed`, `FieldsUnreadable` | the answer of `/fields` |
| `HandleSubmit`, `RegisterAnswered`, `PasskeyAccepted`, `PasskeyRefused`, `PasskeyVerified` | `handleSubmit`, `handlePasskeyLogin` |
| `ExchangeAnswered`, `HandleEnroll`, `EnrollAccepted`, `EnrollRefused`, `EnrollVerified`, `EnrollDone` | the exchange of a link's code; `EnrollmentModal` |
| `SessionEnds`, `EnrollmentReset`, `Reload` | the page around them |

### Statement

`OpenStatement`, `CloseStatement`, `TransactionsAnswered`, `HandleDownload` and
`DownloadAnswered` are `TransactionModal`; `OwnerChanges` is the page turning to
another player while the dialog is open.  What the bank answers is reduced to
whose transactions they are.

### History

`WatchTable`, `OnOpen`, `OnError` and `OnGameState` are the effect of
`useGameState` and its three callbacks, `ToggleDrawer` the drawer.  `DealHand`,
`PlayOn`, `PayOut`, `NextHand` and `RestartTables` are the tables, reduced to
their phase and the number of their hand; a state may miss the stream, as
`TableStream` has it.

### Betting

Three numbers are meant to be one: the bank's balance (`funds`), the chips of the
table (`seat`) and the balance the page shows (`shownBalance`).  `ChooseBet` and
`PressDeal` are the panel, `PlayerBet` is `actionHandler` with `playerBet` and the
bank's answer, `PayOutHand`, `ClearTable` and `RestartSeat` are the table, `SeatSeen`
and `BalanceSeen` what reaches the page, `Restock` the offer.

## 3. The runs

| Run | Bounds | Shows |
|---|---|---|
| `bank_free` | two players, three requests, any operation, amounts of 0, 35, 50 and -30 mills, an account opened with -1.02 or the default, `Serial = FALSE` | what the bank guarantees whatever its callers do, with a failure or a restart at every statement: no overdraft but where an account was opened in debt, statements that end with the balance, rows that add up, no open bet that was paid, payouts that match their bets and results, no unrecorded money |
| `bank_serial` | two players, four requests, amounts of 3 cents, an account opened with 6 or the default, `Serial = TRUE` | that for callers who wait `Bank` implements `AtomicBank`: every operation happens at one instant; and that statements are chains, with no update lost |
| `bank_double` | three requests, `Serial = FALSE` | that without waiting a bet can be settled twice (finding) |
| `table_hand` | four actions, cards A, 6 and 10, all faults but those of the evaluator, a patient client | stake, outcome and phases, with lost replies, a bank that refuses, and restarts |
| `table_crowd` | three actions at once, cards of ten, the evaluator in reach or not, fairness | overlapping goroutines all end |
| `table_loops` | three actions of a patient client, no faults; the demo with sixes and tens, chips for one bet, two requests to pause or resume, a restart, and services that fail; fairness | chips agree with the bank, nothing is owed between hands, a hand goes on; the demo plays hand after hand once nobody pauses it |
| `auth_flow` | two requests at a time; two players, addresses, keys, challenges, sessions; expiry, crashes and resets, as many as there may be | one account per address; links, codes and challenges serve once; the address is verified first; a session is its key holder's; a key stays its owner's |
| `auth_twice` | the same without faults | that the process can die (finding) |
| `waits` | two creating requests, two streams with channels for one state, two writers of one state each; the dialogs, with two fetches of each form in flight; fairness | one table per id; no send on a closed channel; a browser that keeps up is current; a form is its tab's; nobody waits for a slow browser, nor for ever to sign in |
| `parts` | see below | deck, hands, mail, documents, rows; balance, deposit and offer on the page; transactions; history; bets |
| `restock` | the betting of `parts` | that a player with new chips cannot play (finding) |
| `mail_receipt` | the mail of `parts` | that receipts are refused (finding) |

`parts`, `waits` and `table_loops` hold components that share no variable.  A
variable `part` says which of them moves, and the others stay as they begin (the
demo paused); the run explores each of them in
full, and no more.  In `parts`: two tables with a shoe of four cards
and three requests for one, three or minus one; every hand of up to six cards of five ranks
and the hidden card; one mail of any kind from anybody, with lookups and
deliveries that fail, a relay or none, and a reset; documents of up to two blocks,
texts of 1, 58 and 120 lines (58 leave no room for a header below, 120 take two or
three pages) and tables of 0, 1, 40 and 75 rows and one or five columns, with and
without a name; rows of up to seven characters; a page with one player and the demo, two requests
and one event in flight; transactions of three owners with two requests each;
two tables of three hands, of which two are kept; bets of two to three with up
to five.

Why the bounds are enough.  Two requests suffice for each interleaving of two
handlers, a third makes the bet that the two settle, or the deposit between
them, and a fourth lets the serial runs chain two operations on each of two
accounts.  The second account is there for operations that must not touch it.
Amounts are chosen around the balance and around the conversions: covered, not
covered, odd (for 3:2), finer than a cent, negative, zero.  A
hand needs a bet and an action, and its payout follows on its own; three actions
bet, double or hit, and stand or begin the next hand; a fourth adds a hit, or
settles a second hand.  With A, 6 and 10 there are naturals, soft hands, soft 17,
busts, pushes and hands of five cards (by A and 6).  Four chips let the player
double once and run short.  In `auth_flow` one player can act on what belongs to
the other, and a link, a code or a challenge can be presented again while the
first presentation is in flight, and either can send the other's key; a third of
anything would repeat this.
The mail enumerates every caller, tier and type of the code's tables.  On the page
two requests can be answered in the wrong order, and the demo is already
another player.  Tables of 40 and 75 rows take two and three pages.  Seven
characters hold two quoted fields.  Three hands, with two kept, make the first
one fall out.

Deadlock is not checked where requests, actions and cards are finite: there the
system stops when all have been served, and the liveness properties say that it
does not stop earlier.

### Fairness

`GameTable`'s `FairSpec` asks weak fairness of each goroutine's steps
(`GoroutinesRun`).  A goroutine waits for HTTP clients with a timeout of five seconds
and for `time.Sleep`, holds the table's lock only to copy, and the Go scheduler is
preemptive: an enabled step is not postponed for ever.  One call is different:
`initShoe` (`game-state/main.go:946`) uses `http.Post`, whose client has no timeout, and
a deck service that accepts the request and never answers holds the deal up for ever,
as it does once its lock stays held.  That it does answer or refuse is an assumption
of its own, `DeckServiceAnswers`, on which `HandGoesOn` and `GoroutinesEnd` rest.  Nothing is assumed of the client (`Receive`) or
of crashes.  In `TableStream` weak fairness is asked of writers only; browsers may
stop reading for ever.  `DialogsFairness` asks that a request is answered or fails
(`fetch` rejects when the connection breaks, and the gateway's client has a
timeout), that the browser ends its passkey prompt by an answer or its own
timeout, and that the timer after an enrollment fires; nothing is assumed of the
player, nor of the requests for a form.  `DemoFairness` asks that the demo's
goroutine moves, which waits as those of the players do; nothing is assumed of
who pauses it, and a flag that is set and cleared for ever may hold it up each
time it looks, so that `DemoGoesOn` is about a demo that is some day left running.
The answers that do not decode are left out of `table_loops`: with nothing else
from the evaluator a dealer draws for ever.  All other properties are safety and need
no fairness.

## 4. What is proved

`BankProofs` proves for every set of players, requests, amounts and results,
and any balances that accounts are opened with, under `BankAssumption` (the demo player is
a player, amounts and opening balances are integers, in mills, the default balance is
a natural number), for callers that send what they like when they like:

* `TypeCorrect`: `Spec => []TypeOK`
* `NeverOverdrawn`: `Spec => []NoOverdraft`; a balance is below zero only where a
  request to open the account asked for that
* `RowsAlwaysAddUp`: `Spec => []RowsAddUp`; to the cent for payouts, and for what
  callers write up to the sign and the last cent, which the two readers of an amount
  treat differently
* `OpenBetsAreUnsettled`: `Spec => []OpenBetsUnsettled`
* `MoneyAlwaysRecorded`: `Spec => NoUnrecordedMoney`
* `StatementsAreCurrent`: `Spec => []StatementCurrent`
* `PayoutsMatchTheirBets`: `Spec => []PayoutMatchesBet`

and for callers that await the answer of a request before they send the next for
the same account:

* `HandlersAreAtomic`: `Serial /\ PlainAmounts => (Spec => ImplementsAtomicBank)`, the
  refinement; `PlainAmounts` says that amounts and opening balances are whole cents
  and not negative, as with others a bet may take one amount and record another (section 5)
* `StatementsChain`: `Serial => (Spec => []RowsChain)`; without `Serial` updates are lost
* `BetsSettledOnce`: `Serial => (Spec => []SettledOnce)`; without `Serial` it is
  false, which is what the run `bank_double` shows

The argument is one inductive invariant, `IInv` (theorem `Invariance`):

* `NoOverdraft` alone is not inductive: `Commit` writes `seen[r].after`, whatever
  the balance is by then.  `HeldBalances` adds that a handler on its way to
  `commit` holds a pair that its own check has covered: the value written is not
  negative unless the account was opened in debt, although it may be outdated.  This
  is why overlapping handlers can lose a debit but never overdraw.
* `RowsAddUp` follows from the same part, as `RowOf` records the held pair.
* `OpenBetsUnsettled` needs that rows of a payout name a bet that was
  placed (`PayoutsNameBets`), as a new bet's id must not be that of an old payout.
* `StakesPositive` keeps the sum that a payout returns non-negative.

Two more invariants rest on it:

* `Statements` adds to `StatementCurrent` that a row's player has an account, as an
  account that is made must not find rows of its name.
* `Settlements` adds to `PayoutMatchesBet` that an open bet is the one its request
  asked for (`BetsKnown`), and that a payout past its look at the bet has taken
  over its player and its stake (`PayoutsRead`), although others may settle the
  bet meanwhile.

The three theorems under `Serial` rest on a fourth, `Undisturbed`: requests in flight
share no account (`Apart`), a handler is where its request sends it (`AsRequested`),
and what it has read still holds when it writes: the account exists with the
balance it read, the bet it settles is open (`ReadsStand`).  `StepUndisturbed` is the
reason in one lemma: a step that leaves alone the accounts that its own request
does not touch leaves the others' reads alone.  With that each statement of a
handler maps to an operation of `AtomicBank` or to a stutter (`StepIsAtomic`): the
operation happens at the transaction (`CommitIsAtomic`), at the insertion of an
account, at a replenishment, or at a statement of the reset.

Each action has a lemma that it preserves `IInv`.  `IInv` was checked with TLC
on the bounds of `bank_free` before it was proved, `Undisturbed` on those of
`bank_serial`.

`GameTableProofs` proves for every set of goroutines, cards, wagers, limits, chips
and faults, under `GameAssumption` (cards are 1 to 10, the limits are
natural numbers in their order, wagers are integers, faults are among those
named) and `TxAssumption` (the bank's id of a bet is not empty):

* `TypeCorrect`: `Spec => []TypeOK`, for any client
* `PhasesInOrder`: `Patient => (Spec => PhaseOrder)`
* `HandsAreBacked`: `Patient => (Spec => []HandIsBacked)`
* `OutcomesAreFair`: `Patient /\ Exact => (Spec => []OutcomeFair)`
* `DealersFinish`: `Patient /\ Exact => (Spec => []DealerFinished)`
* `ChipsShowBalance`: `Patient /\ Answered => (Spec => []ChipsAreBalance)`
* `NothingIsOwed`: `Patient /\ Answered => (Spec => []NothingOwed)`

`Exact` excludes the two faults of the evaluator, `Answered` a lost reply, a bank that
is down and a crash; each leaves the others in.  The runs check the same: the
values that a failed evaluator leaves on the table are not those of the cards,
and a lost reply is money that the table has not heard of (section 5).

The argument is in layers, each an invariant that the next ones use:

* `TypeInv` adds to the types that a reply with a transaction id carries a
  balance, and that only a bet with an id is settled (`Replies`).
* `Course`: a patient client leaves at most one goroutine running (`Alone`);
  the phase of the table is the one that belongs to its next step (`InPhase`),
  and a copy that will be written back has that phase too (`CopyInPhase`).  This
  is where the copy-and-write-back of `GetState` and `SetState` is shown to be
  harmless without overlap; what overlap does is in `table_crowd`.  Each step is
  shown to `Follow` the course; `PhaseOrder` is read off.
* `Stakes`: a goroutine that has not placed a bet is not the one whose bet the
  table holds, and one that has knows its stake (`BetKnown`); the ids are gone
  when a hand is over; the second id exists only between a double and its
  settlement.  `HandIsBacked` alone is not inductive: without these a new bet
  could fall on the id of an old one, or a double overwrite an open id.

* `Agreement`, for an evaluator that answers: the statuses and values that the code
  stores along the way are what the cards say, for the player (`PlayerAgrees`) and
  for the dealer, on the table or in the goroutine's copy of it (`DealerAgrees`).
  `runPayoutPlayer` decides by these, so that its outcome is the one of the rules.
* `Accounts`, for a bank that answers: every open bet is held under an id of the
  table, or its id is on the way to it (`Held`), and the chips are the balance
  unless a goroutine has heard of one that it has yet to store (`Heard`).

`TypeInv`, `Course` and `Stakes` were checked with TLC on the bounds of
`table_hand`, with a failing evaluator added, before they were proved; `Agreement` on
those of `table_hand` and `Accounts` on those of `table_loops`.

`ServiceProofs`, under `DeckAssumption` (counts are integers, the longest slice is a
natural number, a shoe is finite): `CardsDealtOnce` is `Spec => []EachCardOnce`.  The invariant `DeckInv` adds that a
request at work has found its shoe (`Served`), that no two were dealt one card
since the last restart (`Apart`), and that a card of a shoe is either in it or
was dealt (`Accounted`), without which a first deal could begin with any cards.
Under `DocumentAssumption` (lines, rows and columns are natural numbers, and a table
has a column): `RowsAreInPlace` is `DocumentSpec => []TableInPlace`, for texts and
tables of any length; `TextEnds` is what it needs of a text over several pages.  `TableInPlace` says nothing of the row to come; `Drawing` adds
that while a table is drawn the position that the code keeps by hand is the end of
the last segment, on the page of that segment and of no other, below every row.

The theorems about `Hands` and `Csv` are for hands and rows of any length, so that they
need induction on a number.  The induction theorems of the library take a predicate
as a parameter, which the provers cannot instantiate; `Induction` states the same of a
set of numbers and follows from `<` being well-founded on them.  The folds of the
community modules recur on sets of positions; `FoldExists`, `FoldAppend` and `FoldRuns`
say what one does item by item.

* Under `HandsAssumption` (cards are values from 0 to 10): `EveryTotalIsBest` is
  `HandsSpec => []BestTotal` and `AllEvaluatorsAgree` is `HandsSpec => []EvaluatorsAgree`.
  Neither property says anything of the hand before the last card.  The invariant
  `HandInv` is that every service's sum of the cards is the same one, with 10 more for
  each ace (`SumsAgree`), also the capped one of `Cards`.  `UsedIs`, `ReduceIs` and
  `EstimateIs` say where the loops over the aces stop: a `while`, a recursion and a
  `for`, they all stop at the first count that suits.
* Without any assumption, `EveryRowReadBack` is `CsvSpec => []RowReadBack`.
  Along the row, at the end of each field the parser has the fields before it, trimmed,
  and this one as it was before it was written (`Readable`, `ReadAs`); inside quotes, after
  the characters written for the first `k` of a field it has read these `k` (`QuotedRead`).
  The end needs a look ahead: a quote followed by another is one, and the quote that
  closes a field is followed by a comma or by nothing (`Ends`).

`MailProofs`, under `MailAssumption` (players are no addresses, each has an address
of its own): `MailIsAsItsTierDemands` and `MailAnswerIsTrue`.  What `Deliver` sends was
decided by the steps before it, with wipes in between; `Passed`, `Resolved` and
`Composed` say what a request has been found to be by the step it is at, `Routed` that
what went out took the only way there was, the relay or the log.

`StreamProofs`, under `StreamAssumption` (requests, streams and goroutines are
distinct, a channel holds at least one state): `EverybodyOnOneTable`,
`NothingSentOnClosed` and `BrowsersCatchUp`.  `Held` relates the channels that a table
knows to the streams that are subscribed to it, and the ones a broadcast has yet
to serve to the table's.  `CaughtUp` is not inductive: a stream whose snapshot is
to come, or whose channel is yet to be served, is behind; `Current` says when it is
not and which writer makes up for it, and `Alone` that there is at most one such
writer unless the last one overlapped another.

`AuthProofs`, under `AuthAssumption` (`None` is nobody's, faults are among those
named): `OneAccount`, `NothingReplayed`, `OnlyTheVerified`, `SessionForKeyHolder` and
`KeysStay`, for any number of requests in flight and any number of faults.  Ids,
challenges and sessions are drawn afresh, and what was not drawn is nowhere
(`NewIds`, `NewChallenges`, `NewSessions`); keys are not, anybody may send any.  A link
that was taken is with one request until it becomes a code (`Links`), a code until it
becomes a bootstrap token (`Codes`), a challenge until it becomes a session (`Spent`):
this is what a one-use token means between the statement that consumes it and the
one that answers.  `Vouch` says that a request past its check has a verified player,
`Stored` that a challenge in the table is as it was drawn and the owner of a key one
who enrolled it, `Held` that a request carries on with the player its challenge was
drawn for, and, at a login, with a key that this player has enrolled.

`AppProofs`, under `AppAssumption` (the demo is no player, a deposit is positive,
there is room for a request): `ReloadHarmless`, `ChipsOffered`, `OneDepositAtATime` and
`RightBalanceShown`.  The last needs `Shows`: if the right balance is not on the screen
and there is no doubt, a request for it is in flight, or an event whose last is
the bank's balance (`LastEvent`).

`PageProofs` is about four parts of the page that share no state.

* Under `HistoryAssumption` (`NoTable` is no table, there is room for an event and a
  round): `NoHandTwice` is `HistorySpec => []RoundsOnce`.  A restart takes a table's
  phase back, so that no rank of states grows with every step; `Before` is the order
  of any two states of a table that survives it, and `InOrder` and `KeptInOrder` say
  that the stream and the history follow it.
* Under `StatementAssumption` (there is a player, and room for a request):
  `StatementIsOwners` is `StatementSpec => []StatementOfOwner`.  It is not inductive: of a
  dialog that has turned to another player, `OnTheWay` says that the transactions
  are there, or on the way, or that an error or a late answer took their place;
  `Closed` that a dialog which is opened starts from nothing.
* Under `BettingAssumption` (limits, amounts and balances are natural numbers, the
  limits in their order): `BetIsAsAsked` is `BettingSpec => BetAsAsked`, an action
  property.  It needs that a bet on its way is one that the panel let pass, within
  the limits and the balance it showed, and that nothing is on the table unless
  a hand is played.
* Under `DialogsAssumption` (there is room for a request): `FormAlwaysFits` is
  `DialogsSpec => []FormFits`.  A form may only be one that can be read while it is on
  the screen, and one that was fetched for a tab which is still open or the late one
  of another (`FormInv`).

Every inductive invariant was checked with TLC before it was proved.

Only model-checked, as the prover cannot reach it: liveness under fairness, that is
`HandGoesOn`, `GoroutinesEnd`, `BroadcastEnds`, `SignInEnds` and `DemoGoesOn`.  Every safety
property that a passing run checks is stated by a theorem.  `DealersFinish` and
`ReloadHarmless` are proved without a run of their own.

## 5. Where the code departs from what is said of it

Four departures are runs that end in a counterexample (`findings` in
`PROJECT.json`):

* `bank_double`: two settlements of one bet at the same time both pay.
* `auth_twice`: the second of two overlapping registrations of an address ends
  the process instead of being refused.
* `mail_receipt`: auth-service sends receipts on a tier that email-service does
  not allow it, after it has answered that they are queued.
* `restock`: a player who has lost everything, takes the offer of $1,000 "to keep
  playing" (`ui/src/App.tsx:435`) and bets is ignored: the table still has no
  chips for the player (`game-state/main.go:607`), as nobody tells it of the deposit.

Others were noticed while modelling and are in the model as the code has them:

* Without `Serial`, a bet that overlaps another operation on the account need not
  lower the balance by its stake: `PlaceBet`
  (`bank-service/go/db.go:172`) writes a balance that was computed before.
* A stand is served while the phase is `player_turn`, also in the pause after a
  bust or a blackjack (`game-state/main.go:753`), and its status hides the one or
  loses the other; `contracts/openapi/game-state.yaml:197` says that an action is
  validated against phase and player state.
* The table drops the id of a bet whose payout failed (`game-state/main.go:911`),
  although line 1114 says that it is held until the payout.  The bet stays open at
  the bank for ever.
* When two goroutines store states at the same time, their broadcasts may come
  in the other order (`game-state/main.go:172`), and browsers show the older state
  until the next change.  A browser whose channel is full shows an older one too.
* Without the evaluator (`game-state/main.go:1073`) a hand above 21 can win with
  five cards.
* The reset of auth-service says that it wipes all sessions
  (`auth-service/index.ts:791`); a session that a request in flight creates after
  the flush stays, for a player who is gone.  A challenge that is stored after
  the players are gone violates the foreign key, and ends the process.
* An account whose link was never mailed, has lapsed, or was consumed when the process
  died, or whose exchange code or bootstrap token lapsed, has no way on: the address
  stays taken.  No property claims otherwise.
* A key that is enrolled again with the bootstrap token of another player stays its
  owner's, but the handler marks the other as enrolled and gives a session
  (`auth-service/index.ts:213`, `605`), for a player who then has no key to log in with.
* Challenges are in PostgreSQL (`auth-service/index.ts:228`);
  `contracts/openapi/auth-service.yaml:26` says Redis.
* The restricted tier of email-service requires `user_id` and uses the recipient
  that the caller names (`email-service/pipeline.py:107`, `126`); the comment at line 124
  says that it is ignored.
* `docker-compose.yml:227` lets auth-service reach email-service by `http`, as
  email-service does auth-service (`email-service/encryption.py:24`), while both
  serve TLS where certificates are configured; the model treats whether a call
  arrives as a fault.
* `betHandler` (`bank-service/go/handlers.go:190`) does not publish the new
  balance; `contracts/openapi/bank-service.yaml:188` says it does.
* `CALC-PAYOUT.cob:50` computes `(X / 100) * 100` in one statement, which rounds
  nothing: a blackjack on 50 cents earns 75.  The comment at line 45 says "Profit
  rounded DOWN to nearest dollar"; `contracts/openapi/bank-service.yaml:224` promises
  2.5 times the bet, which is what the code pays and what `PayoutMatchesBet` says.
* A stake finer than a cent is taken cut (`bank-service/go/cobol.go:80`) and stored
  rounded (`db.go:196`): a bet of "0.035" takes 3 cents and its push returns 4, where
  `bank-service.yaml:225` promises no gain and no loss.
* A deposit of "-0.50" is done as fifty cents (`cobol.go:71`), and its row says -0.50;
  `bank-service.yaml:515` asks for a positive amount.
* An account may be opened with any balance, also a negative one
  (`bank-service/go/handlers.go:95`), and a balance of less than a dollar below zero is
  then read back as positive (`cobol.go:71`).
* `contracts/openapi/bank-service.yaml:116` promises 409 for an account that exists; the
  second of two requests at the same time gets 500 (`handlers.go:109`).
* The dealer's loop (`game-state/main.go:842`) stands on every 17 and does not
  use the answer of dealer-ai, which hits a soft 17 (`dealer-ai/main.py:55`).
  `EvaluatorsAgree` shows that they differ in nothing else.
* `callBankBalance` (`game-state/main.go:1208`) expects a number where the bank
  sends a string, and returns -1 always; a table made after a restart shows the
  starting chips.
* No shoe is shuffled at a penetration of 75%
  (`contracts/openapi/deck-service.yaml:126`; `README.md:262` names the threshold
  too): the code looks at none (`deck-service/main.go:85`), a shoe is dealt to its
  end, and the deals there get fewer cards, or none.  `EachCardOnce` is about the
  code's shoe, which lasts until a restart.
* A POST to `/shoe/{tableId}/shuffle` deals a card (`deck-service/main.go:72`;
  `contracts/openapi/deck-service.yaml:151` says it shuffles).
* A count that is negative or huge panics while the deck service holds its only lock
  (`deck-service/main.go:84`), and no request for cards is answered any more.
* A message that is marked as encrypted is sent as plaintext
  (`email-service/encryption.py:53`), which `email-service/contracts.md:286` lists as a stub;
  line 164 of it says that the mark tells whether the message was encrypted.

In the demo:

* A bet that failed is logged as "skipping hand" (`game-state/main.go:334`), and the
  hand is played without a stake.
* A deposit that the bank refuses has an answer without `newBalance`, which reads
  as zero chips (`game-state/main.go:1173`).
* The player hits once whatever the hand, so that the hand of two cards for which
  `phasePayout` pays a blackjack (`game-state/main.go:506`) does not come.  Without
  the evaluator a hand above 21 is `standing`.
* An answer of the evaluator that does not decode is the value 0, and a dealer,
  also a player's, draws for as long as such answers come.
* Two requests to toggle the pause at the same time may both pause
  (`game-state/main.go:1325`); a restarted process forgets the flag.
* A stream of a table that is not known makes one (`GetOrCreate`), which no loop
  plays.

On the page:

* An expired session keeps the player's table on the screen, and the page then
  asks for the demo player's balance without a token.  A table that is created
  after the sign-out is shown without a session.
* Signing in does not reset the table that is shown, whoever's it is.  An answer
  for another own table fetches the balance again but keeps the old stream.
* `handleRestock` does not look at the status of the answer: a refused deposit is
  shown as $1,000.
* The balance of an answer is shown whoever the page is about by then, and may
  raise the offer.  The offer stays over a sign-out; a second answer to "start
  game" takes it down.  The check after the start of a game still sees the phase of
  the demo's table.  A balance below the least bet leaves neither a bet nor the
  offer.
* A balance stream that reconnects fetches nothing, so that a change in between is
  not shown.
* The development reset signs the browser out only after its answer, and a sign-out
  leaves the session at the server.
* `GameTable.tsx:218` takes the first player of a table for the one who looks.
* A round is recorded at the payout, while `ui/src/types/index.ts:55` speaks of a phase
  `complete`.  A payout that follows a payout, with all states between lost, is not
  recorded.  "Round n" is renumbered once more than 20 have been played.
* When the page turns to another player, `TransactionModal` keeps the old rows, its
  error, and does not say that it is loading.
* A late answer of `/fields` shows the form of the other tab and empties what was
  typed.  The error of a failed passkey login is cleared at once by the effect of
  `AuthModal.tsx:52`.  A rejected `/fields` leaves "Loading..." for ever; the message set
  at line 67 is never visible.  An answer of the gateway for a service that is down
  (`gateway/main.go:334`) is JSON without fields: the render throws and the page is blank.

In documents:

* The footer (y 730) and the time stamp (y 740) are below the last line that fits,
  and each takes a page of its own; `contracts/openapi/document-service.yaml` says
  that the footer is rendered at the bottom of the last page.
* The first header of a table is drawn without a look at the space that is left;
  each of its cells may take a page.
* A `null` among the blocks throws outside of the `try`, which ends the process.
* `parseCSVRow` trims blanks inside quotes, although its comment names RFC 4180.
* The bank's export passes an error of document-service on with its status and the
  content type of a PDF.

## 6. Not modelled

* **The gateway**: it forwards requests after a check of their scope and keeps two
  buses of events; a bus with bounded channels that drops is `TableStream`'s, and
  what the development reset does in each service is in `AuthFlow` and `Bank`.  It may
  reach one and not the other (`gateway/main.go:594`), and never reaches game-state.
* **auth-ui-service** serves pages and forwards; **observability-service** validates
  and publishes events and keeps three counters; **chat-service** keeps the last
  hundred messages of a table in one process that handles one message at a time.
* In bank-service the read-only handlers and strings that are no numbers; in
  auth-service the read-only endpoints, the demo token, the counter of a key and the
  start-up migration; in the page the pause of the demo, the buttons of hit, stand
  and double, which send what `GameTable` receives, and all that only draws.
* **Infrastructure**: certificates, databases and containers are configuration.
