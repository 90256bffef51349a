-------------------------------- MODULE Bank --------------------------------
(***************************************************************************)
(* The bank service (bank-service/go with its COBOL programs).             *)
(*                                                                         *)
(* Every HTTP handler is a goroutine that issues SEPARATE statements to    *)
(* PostgreSQL: it reads a balance, computes with COBOL, and only then      *)
(* writes the computed balance back as an absolute value.  A request of    *)
(* this model is therefore a small program whose counter pc[r] stands      *)
(* between two statements.  One PostgreSQL transaction (tx.Begin ..        *)
(* tx.Commit) is one step: its row lock on the account makes it so.        *)
(*                                                                         *)
(* A request is handled once; the finite set Reqs bounds the history.      *)
(* A bet's transaction id, a fresh UUID in the code, is the request that   *)
(* placed the bet.                                                         *)
(*                                                                         *)
(* A definition followed by its namesake (CoversOffByOne before Covers) is *)
(* a mutation of it, used only to see that a property would notice it.     *)
(***************************************************************************)
EXTENDS Integers, Sequences

CONSTANTS
  Players,          \* player ids
  Demo,             \* DemoPlayerID
  Reqs,             \* the HTTP requests the service ever receives
  Amounts,          \* amounts that callers send, in mills (1/10 cent): a decimal
                    \* string may be finer than cents, or negative
  Openings,         \* starting balances that callers of /account send, in mills
  Results,          \* results that callers send to /payout
  Ops,              \* operations the callers use
  StartingBalance,  \* StartingBalance, in cents
  Serial            \* TRUE: callers await an answer before the next request
                    \* about the same account

ASSUME BankAssumption ==
  /\ Demo \in Players
  /\ Amounts \subseteq Int /\ Openings \subseteq Int
  /\ StartingBalance \in Nat
  /\ Serial \in BOOLEAN
  /\ Ops \subseteq {"account", "bet", "payout", "deposit", "withdraw", "reset"}

VARIABLES
  accounts,   \* rows of table accounts
  balance,    \* their balance column (0 where there is no row)
  openBets,   \* rows of table open_bets
  ledger,     \* rows of table transactions, in commit order
  req,        \* the body of each request, and what its handler has read of it
  seen,       \* the balance a handler has read (balanceStr) and the one it
              \* has computed from it (newBalStr)
  pc,         \* the handler's next statement, or its answer
  feed        \* the last balance published on tca:balance, per player

vars == <<accounts, balance, openBets, ledger, req, seen, pc, feed>>

-----------------------------------------------------------------------------
(* Values *)

Steps   == {"exists", "create", "balance", "replenish", "commit",
            "openbet", "wipe", "seed", "publish"}
Answers == {"ok", "conflict", "notfound", "insufficient", "invalid", "error"}

NoRef     == "none"
NoRes     == "none"
Unheard   == -1                       \* nothing published for this player yet
Debits    == {"bet", "withdraw"}
Monetary  == Debits \cup {"deposit"}

Payouts == {"payout_win", "payout_push", "payout_loss"}

\* The amounts of a request are in mills, those of the database in cents.
Request == [op: Ops, who: Players, amt: Int, ref: Reqs \cup {NoRef},
            res: Results \cup {NoRes}]
OpenBet == [id: Reqs, who: Players, amt: Int]
Row     == [type: {"bet", "withdrawal", "deposit"} \cup Payouts, who: Players,
            amt: Int, before: Int, after: Int, ref: Reqs \cup {NoRef}]

Unsent == [op |-> "none"]
Unread == [before |-> 0, after |-> 0]

(* The conversions between decimal strings, the database and COBOL. *)

Unsigned(n) == IF n < 0 THEN -n ELSE n

\* DollarsToCents cuts the fraction after two digits, and adds it to the whole
\* dollars whatever their sign: "-0.50" is 50 cents, "-5.50" is -450.
Cents(mills) ==
  IF mills >= 0 THEN mills \div 10
  ELSE ((-mills) % 1000) \div 10 - 100 * ((-mills) \div 1000)

\* A NUMERIC(15,2) column rounds the same string, half away from zero.
Stored(mills) ==
  IF mills >= 0 THEN (mills + 5) \div 10 ELSE -((5 - mills) \div 10)

\* The text of a column, parsed by DollarsToCents.
Parsed(cents) == Cents(10 * cents)

(* The arithmetic of the COBOL programs, on integer cents. *)

CoversOffByOne(bal, debit) == bal + 1 >= debit

\* VALIDATE-DEBIT: STATUS is OK when the balance covers the debit.
Covers(bal, debit) == bal >= debit

Known(result) == result \in {"BLACKJACK", "WIN", "PUSH", "LOSS"}

CalcPayoutTriple(bet, result) == IF result = "LOSS" THEN 0 ELSE bet * 3

CalcPayoutLossPushed(bet, result) ==
  CASE result = "BLACKJACK" -> bet + (bet * 3) \div 2
    [] result = "WIN"       -> bet * 2
    [] OTHER                -> bet

\* CALC-PAYOUT, RETURNED_CENTS.  The rounding statement (X / 100) * 100 keeps
\* its fraction between the two operations and so returns X.
CalcPayout(bet, result) ==
  CASE result = "BLACKJACK" -> bet + (bet * 3) \div 2
    [] result = "WIN"       -> bet * 2
    [] result = "PUSH"      -> bet
    [] OTHER                -> 0

\* CALC-PAYOUT, PAYOUT_TYPE
PayoutType(result) ==
  CASE result \in {"BLACKJACK", "WIN"} -> "payout_win"
    [] result = "PUSH"                 -> "payout_push"
    [] OTHER                           -> "payout_loss"

\* The cents a request moves: its amount, or what CALC-PAYOUT, which takes its
\* bet without a sign, returns for the stake.
Moved(q) ==
  IF q.op = "payout" THEN CalcPayout(Unsigned(Cents(q.amt)), q.res) ELSE Cents(q.amt)

\* The amount in the row: what CALC-PAYOUT returned, or the caller's string.
Recorded(q) == IF q.op = "payout" THEN Moved(q) ELSE Stored(q.amt)

RowType(q) ==
  CASE q.op = "payout"   -> PayoutType(q.res)
    [] q.op = "withdraw" -> "withdrawal"
    [] OTHER             -> q.op

\* The absolute balance that a handler will write, from the one it has read.
NewBalance(q, bal) ==
  IF q.op \in Debits THEN Parsed(bal) - Moved(q) ELSE Parsed(bal) + Moved(q)

Computed(q, bal) == [before |-> bal, after |-> NewBalance(q, bal)]

-----------------------------------------------------------------------------
(* Callers *)

InFlight == {r \in Reqs : pc[r] \in Steps}

Touches(q) == IF q.op = "reset" THEN Players ELSE {q.who}

CallerMaySend(q) ==
  Serial => \A r \in InFlight : Touches(req[r]) \cap Touches(q) = {}

\* Callers settle only the ids that /bet has handed out.  /account takes any
\* starting balance, and the default where there is none.
Sendable ==
       [op: Ops \cap Monetary, who: Players, amt: Amounts, ref: {NoRef}, res: {NoRes}]
  \cup [op: Ops \cap {"account"}, who: Players, amt: Openings \cup {10 * StartingBalance},
        ref: {NoRef}, res: {NoRes}]
  \cup [op: Ops \cap {"reset"}, who: {Demo}, amt: {0}, ref: {NoRef}, res: {NoRes}]
  \cup {[op |-> "payout", who |-> req[b].who, amt |-> 0, ref |-> b, res |-> result] :
          b \in {r \in Reqs : "payout" \in Ops /\ req[r].op = "bet" /\ pc[r] = "ok"},
          result \in Results}

FirstStep(q) ==
  CASE q.op = "account"                    -> "exists"
    [] q.op = "payout"                     -> "openbet"
    [] q.op = "reset"                      -> "wipe"
    [] q.op \in Monetary /\ Cents(q.amt) <= 0 -> "invalid"
    [] OTHER                               -> "balance"

\* A request arrives; an amount of no positive number of cents is answered 400
\* at once.
Receive(r) ==
  /\ pc[r] = "unsent"
  /\ \E q \in Sendable :
       /\ CallerMaySend(q)
       /\ req' = [req EXCEPT ![r] = q]
       /\ pc'  = [pc EXCEPT ![r] = FirstStep(q)]
  /\ UNCHANGED <<accounts, balance, openBets, ledger, seen, feed>>

-----------------------------------------------------------------------------
(* Handlers, one action per statement *)

Goto(r, step) == pc' = [pc EXCEPT ![r] = step]

\* accountHandler: SELECT EXISTS
CheckExists(r) ==
  /\ pc[r] = "exists"
  /\ Goto(r, IF req[r].who \in accounts THEN "conflict" ELSE "create")
  /\ UNCHANGED <<accounts, balance, openBets, ledger, req, seen, feed>>

CreateAccountUpsert(r) ==
  /\ pc[r] = "create"
  /\ accounts' = accounts \cup {req[r].who}
  /\ balance'  = [balance EXCEPT ![req[r].who] = Stored(req[r].amt)]
  /\ Goto(r, "ok")
  /\ UNCHANGED <<openBets, ledger, req, seen, feed>>

\* accountHandler: INSERT of the starting balance the caller gave, which nothing
\* has looked at.  A row that appeared since CheckExists is a primary key
\* violation, answered 500.
CreateAccount(r) ==
  /\ pc[r] = "create"
  /\ IF req[r].who \in accounts
     THEN /\ Goto(r, "error")
          /\ UNCHANGED <<accounts, balance>>
     ELSE /\ accounts' = accounts \cup {req[r].who}
          /\ balance'  = [balance EXCEPT ![req[r].who] = Stored(req[r].amt)]
          /\ pc' \in {[pc EXCEPT ![r] = "ok"], [pc EXCEPT ![r] = "error"]}
  /\ UNCHANGED <<openBets, ledger, req, seen, feed>>

\* payoutHandler: GetOpenBet, then CALC-PAYOUT (400 for an unknown result).
FindOpenBet(r) ==
  /\ pc[r] = "openbet"
  /\ \/ /\ \A bet \in openBets : bet.id # req[r].ref
        /\ Goto(r, "notfound")
        /\ UNCHANGED req
     \/ \E bet \in openBets :
          /\ bet.id = req[r].ref
          /\ Goto(r, IF Known(req[r].res) THEN "balance" ELSE "invalid")
          /\ req' = [req EXCEPT ![r].who = bet.who, ![r].amt = 10 * bet.amt]
  /\ UNCHANGED <<accounts, balance, openBets, ledger, seen, feed>>

\* Where a handler goes once it has read the balance bal of an account: a debit
\* that is not covered is refused, but for the demo player's bet.
AfterBalance(q, bal) ==
  IF q.op \in Debits /\ ~Covers(Parsed(bal), Moved(q))
  THEN IF q.op = "bet" /\ q.who = Demo THEN "replenish" ELSE "insufficient"
  ELSE "commit"

\* GetBalance, and VALIDATE-DEBIT or CALC-CREDIT on what it returned.  A missing account is
\* answered 404, or 500 by payoutHandler.
ReadBalance(r) ==
  /\ pc[r] = "balance"
  /\ LET q == req[r] IN
       IF q.who \in accounts
       THEN /\ seen' = [seen EXCEPT ![r] = Computed(q, balance[q.who])]
            /\ Goto(r, AfterBalance(q, balance[q.who]))
       ELSE /\ Goto(r, IF q.op = "payout" THEN "error" ELSE "notfound")
            /\ UNCHANGED seen
  /\ UNCHANGED <<accounts, balance, openBets, ledger, req, feed>>

ReplenishKeepsRead(r) ==
  /\ pc[r] = "replenish"
  /\ balance' = IF Demo \in accounts
                THEN [balance EXCEPT ![Demo] = StartingBalance] ELSE balance
  /\ seen' = [seen EXCEPT ![r].after = NewBalance(req[r], StartingBalance)]
  /\ Goto(r, IF Covers(StartingBalance, Moved(req[r])) THEN "commit" ELSE "insufficient")
  /\ UNCHANGED <<accounts, openBets, ledger, req, feed>>

\* betHandler, demo player: ReplenishDemoPlayer, then VALIDATE-DEBIT again.  The
\* UPDATE touches no row when the account is gone; the handler goes on all the
\* same with the starting balance.
Replenish(r) ==
  /\ pc[r] = "replenish"
  /\ balance' = IF Demo \in accounts
                THEN [balance EXCEPT ![Demo] = StartingBalance] ELSE balance
  /\ seen' = [seen EXCEPT ![r] = Computed(req[r], StartingBalance)]
  /\ Goto(r, IF Covers(StartingBalance, Moved(req[r])) THEN "commit" ELSE "insufficient")
  /\ UNCHANGED <<accounts, openBets, ledger, req, feed>>

BetRow(r) == [id |-> r, who |-> req[r].who, amt |-> Stored(req[r].amt)]

BetsAfterNoDelete(r) ==
  IF req[r].op = "bet" THEN openBets \cup {BetRow(r)} ELSE openBets

\* The rows of open_bets after the transaction of request r.
BetsAfter(r) ==
  CASE req[r].op = "bet"    -> openBets \cup {BetRow(r)}
    [] req[r].op = "payout" -> {bet \in openBets : bet.id # req[r].ref}
    [] OTHER                -> openBets

RowOfFresh(r) ==
  LET bal == balance[req[r].who] IN
  [type |-> RowType(req[r]), who |-> req[r].who, amt |-> Recorded(req[r]),
   before |-> bal, after |-> NewBalance(req[r], bal), ref |-> req[r].ref]

\* The row of table transactions that request r inserts.
RowOf(r) ==
  LET q == req[r] IN
  [type |-> RowType(q), who |-> q.who, amt |-> Recorded(q), before |-> seen[r].before,
   after |-> seen[r].after, ref |-> q.ref]

CommitInParts(r) ==
  /\ pc[r] = "commit"
  /\ balance' = [balance EXCEPT ![req[r].who] = seen[r].after]
  /\ \/ /\ ledger'   = Append(ledger, RowOf(r))
        /\ openBets' = BetsAfter(r)
        /\ Goto(r, IF req[r].op = "bet" THEN "ok" ELSE "publish")
     \/ /\ UNCHANGED <<ledger, openBets>>
        /\ Goto(r, "error")
  /\ UNCHANGED <<accounts, req, seen, feed>>

\* PlaceBet, SettlePayout and ApplyBalanceChange: one transaction that writes
\* the computed balance, the ledger row and the open-bet table.  Without the
\* account the INSERT breaks its foreign key and all is rolled back.  A commit
\* whose acknowledgement is lost is answered 500 although it took effect.
Commit(r) ==
  /\ pc[r] = "commit"
  /\ IF req[r].who \in accounts
     THEN /\ balance'  = [balance EXCEPT ![req[r].who] = seen[r].after]
          /\ ledger'   = Append(ledger, RowOf(r))
          /\ openBets' = BetsAfter(r)
          /\ \/ Goto(r, IF req[r].op = "bet" THEN "ok" ELSE "publish")
             \/ Goto(r, "error")
     ELSE /\ Goto(r, "error")
          /\ UNCHANGED <<balance, ledger, openBets>>
  /\ UNCHANGED <<accounts, req, seen, feed>>

\* publishBalance: fire and forget, so the message may be lost.
Publish(r) ==
  /\ pc[r] = "publish"
  /\ feed' \in {feed, [feed EXCEPT ![req[r].who] = seen[r].after]}
  /\ Goto(r, "ok")
  /\ UNCHANGED <<accounts, balance, openBets, ledger, req, seen>>

\* SeedDemoPlayer: INSERT ... ON CONFLICT DO NOTHING
Seeded(accs, bal) ==
  IF Demo \in accs THEN bal ELSE [bal EXCEPT ![Demo] = StartingBalance]

\* DevReset, the transaction: all three tables are emptied.
Wipe(r) ==
  /\ pc[r] = "wipe"
  /\ accounts' = {}
  /\ balance'  = [p \in Players |-> 0]
  /\ openBets' = {}
  /\ ledger'   = <<>>
  /\ Goto(r, "seed")
  /\ UNCHANGED <<req, seen, feed>>

\* DevReset, the separate statement that follows the transaction.
SeedDemoPlayer(r) ==
  /\ pc[r] = "seed"
  /\ accounts' = accounts \cup {Demo}
  /\ balance'  = Seeded(accounts, balance)
  /\ Goto(r, "ok")
  /\ UNCHANGED <<openBets, ledger, req, seen, feed>>

\* A statement or a COBOL run fails: the handler answers and writes nothing.
\* depositHandler and withdrawHandler answer 404 when the read fails.
Fail(r) ==
  /\ pc[r] \in Steps \ {"publish"}
  /\ Goto(r, IF pc[r] = "balance" /\ req[r].op \in {"deposit", "withdraw"}
             THEN "notfound" ELSE "error")
  /\ UNCHANGED <<accounts, balance, openBets, ledger, req, seen, feed>>

\* The process dies and starts again: main runs Migrate, which finds its
\* tables, and SeedDemoPlayer.
Restart ==
  /\ pc' = [r \in Reqs |-> IF r \in InFlight THEN "error" ELSE pc[r]]
  /\ accounts' = accounts \cup {Demo}
  /\ balance'  = Seeded(accounts, balance)
  /\ UNCHANGED <<openBets, ledger, req, seen, feed>>

-----------------------------------------------------------------------------
Init ==
  /\ accounts = {Demo}
  /\ balance  = [p \in Players |-> IF p = Demo THEN StartingBalance ELSE 0]
  /\ openBets = {}
  /\ ledger   = <<>>
  /\ req      = [r \in Reqs |-> Unsent]
  /\ seen     = [r \in Reqs |-> Unread]
  /\ pc       = [r \in Reqs |-> "unsent"]
  /\ feed     = [p \in Players |-> Unheard]

Handle(r) ==
  \/ CheckExists(r)   \/ CreateAccount(r)
  \/ FindOpenBet(r)   \/ ReadBalance(r)    \/ Replenish(r)
  \/ Commit(r)        \/ Publish(r)
  \/ Wipe(r)          \/ SeedDemoPlayer(r)

Next ==
  \/ \E r \in Reqs : Receive(r) \/ Handle(r) \/ Fail(r)
  \/ Restart

Spec == Init /\ [][Next]_vars

-----------------------------------------------------------------------------
(* Type invariant *)

TypeOK ==
  /\ accounts \subseteq Players
  /\ balance \in [Players -> Int]
  /\ openBets \subseteq OpenBet
  /\ ledger \in Seq(Row)
  /\ req \in [Reqs -> Request \cup {Unsent}]
  /\ seen \in [Reqs -> [before: Int, after: Int]]
  /\ pc \in [Reqs -> {"unsent"} \cup Steps \cup Answers]
  /\ feed \in [Players -> Int]
  /\ \A r \in Reqs : pc[r] # "unsent" => req[r] \in Request

-----------------------------------------------------------------------------
(* Safety that holds whatever the callers do *)

\* The balances that the answered requests to open an account of p gave.
OpenedWith(p) ==
  {Stored(req[r].amt) : r \in {s \in Reqs : /\ pc[s] \in {"ok", "error"}
                                         /\ req[s].op = "account" /\ req[s].who = p}}

OpenedInDebt(p) == \E bal \in OpenedWith(p) : bal < 0

\* No bet or withdrawal overdraws an account, although every handler writes back
\* a balance computed from an earlier read (betHandler, withdrawHandler): an
\* account is below zero only where its opener asked for that (accountHandler
\* looks at no starting balance).
NoOverdraft == \A p \in Players : balance[p] < 0 => OpenedInDebt(p)

IsLastRow(i, p) ==
  ledger[i].who = p /\ \A j \in DOMAIN ledger : j > i => ledger[j].who # p

\* The account statement of a player ends with the player's balance: each
\* transaction of db.go writes the balance and the ledger row together.  Without
\* a row the balance is one the account was opened with.  (The demo player is
\* excepted: ReplenishDemoPlayer writes no row.)
StatementCurrent ==
  \A p \in accounts \ {Demo} :
    /\ (\A i \in DOMAIN ledger : ledger[i].who # p) => balance[p] \in OpenedWith(p)
    /\ \A i \in DOMAIN ledger : IsLastRow(i, p) => balance[p] = ledger[i].after

\* What the balances of a row say was taken from or given to the account.
Shift(row) == IF row.type \in {"bet", "withdrawal"} THEN row.before - row.after
                                                     ELSE row.after - row.before

\* Within each row of the statement that starts from no debt, the balances
\* before and after and the amount agree, also after a replenishment in the
\* middle of a bet: exactly for a payout, and else but for the sign and the
\* last cent, which DollarsToCents and the column treat differently.
RowsAddUp ==
  \A i \in DOMAIN ledger :
    LET row == ledger[i] IN
    row.before >= 0 =>
      IF row.type \in Payouts THEN row.amt = Shift(row)
      ELSE Unsigned(row.amt) \in {Shift(row), Shift(row) + 1}

PayoutRows(b) == {i \in DOMAIN ledger : ledger[i].type \in Payouts /\ ledger[i].ref = b}

\* A bet that has been paid out is no longer open, and one that is open has
\* not been paid out (SettlePayout deletes and records in one transaction).
OpenBetsUnsettled == \A bet \in openBets : PayoutRows(bet.id) = {}

\* The rules: a win doubles the stake, a blackjack pays 3 to 2.
Due(stake, result) ==
  CASE result = "WIN"       -> stake * 2
    [] result = "BLACKJACK" -> (stake * 5) \div 2
    [] result = "PUSH"      -> stake
    [] result = "LOSS"      -> 0

Settles(r, b) == pc[r] # "unsent" /\ req[r].op = "payout" /\ req[r].ref = b

\* Every payout in the statement goes to the player who placed the bet, and pays
\* the stored stake of that bet what the rules give for a result that some
\* caller has reported of it, under the type of that result.
PayoutMatchesBet ==
  \A i \in DOMAIN ledger : ledger[i].type \in Payouts =>
    LET row == ledger[i]
        bet == req[row.ref]
    IN  /\ bet.op = "bet"
        /\ row.who = bet.who
        /\ \E r \in Reqs :
             /\ Settles(r, row.ref) /\ Known(req[r].res)
             /\ row.type = PayoutType(req[r].res)
             /\ row.amt = Due(Unsigned(Stored(bet.amt)), req[r].res)

MoneyRecorded ==
  \A p \in (accounts \cap accounts') \ {Demo} :
    balance'[p] # balance[p] =>
      /\ Len(ledger') = Len(ledger) + 1
      /\ ledger'[Len(ledger')].who = p
      /\ ledger'[Len(ledger')].after = balance'[p]

\* Money of an existing account other than the demo player's moves only in a
\* step that adds the row that accounts for it.
NoUnrecordedMoney == [][MoneyRecorded]_vars

-----------------------------------------------------------------------------
(* Safety that needs callers who await their answers (Serial) *)

\* No bet is paid out twice.
SettledOnce ==
  \A i, j \in DOMAIN ledger :
    /\ ledger[i].type \in Payouts /\ ledger[j].type \in Payouts
    /\ ledger[i].ref = ledger[j].ref
    => i = j

IsRowBefore(j, i) ==
  /\ j < i /\ ledger[j].who = ledger[i].who
  /\ \A k \in DOMAIN ledger : j < k /\ k < i => ledger[k].who # ledger[i].who

\* The statement of a player is a chain: each row starts from the balance at
\* which the one before it ended, and the first from one the account was opened
\* with.  No update is lost, not even by a transaction that is refused or cut
\* off half-way.  (The demo player is excepted as before.)
RowsChain ==
  \A i \in DOMAIN ledger : ledger[i].who # Demo =>
    /\ \A j \in DOMAIN ledger : IsRowBefore(j, i) => ledger[i].before = ledger[j].after
    /\ (\A j \in DOMAIN ledger : j < i => ledger[j].who # ledger[i].who) =>
         ledger[i].before \in OpenedWith(ledger[i].who)

-----------------------------------------------------------------------------
(* What the service promises: AtomicBank.  The accounts, balances and open
   bets are the database tables themselves. *)

Atomic == INSTANCE AtomicBank
            WITH BetIds   <- Reqs,
                 Amounts  <- {Cents(mills) : mills \in Amounts},
                 Openings <- {Stored(mills) : mills \in Openings}

\* With callers who await their answers and send whole cents, the statements of
\* the handlers add up to atomic operations, across crashes, failures and
\* development resets.
ImplementsAtomicBank == Atomic!Spec

=============================================================================
