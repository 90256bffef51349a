----------------------------- MODULE BankProofs -----------------------------
(***************************************************************************)
(* Theorems about Bank for all players, requests and amounts.              *)
(*                                                                         *)
(* Most hold for callers that send whatever they like whenever they like,  *)
(* by the inductive invariant IInv, with Statements for the statements of  *)
(* account and Settlements for the payouts.  The last three assume callers *)
(* who await their answers (Serial): Undisturbed then says that what a     *)
(* handler has read still holds when it writes, and every step of every    *)
(* handler that is sent whole cents is a step of AtomicBank or leaves the  *)
(* tables alone.                                                           *)
(***************************************************************************)
EXTENDS Bank, TLAPS

-----------------------------------------------------------------------------
(* The inductive invariant *)

Writing == {"balance", "commit", "publish"}

\* Past its first checks a handler has cents to move; between its read and its
\* write it holds a new balance computed from the one it read, below zero only
\* in an account opened in debt.
HeldBalances ==
  \A r \in Reqs :
    /\ pc[r] \in Writing \cup {"replenish"} => req[r].op \in Monetary \cup {"payout"}
    /\ pc[r] \in Writing \cup {"replenish"} /\ req[r].op \in Monetary => Cents(req[r].amt) > 0
    /\ pc[r] = "replenish" => req[r].op = "bet" /\ req[r].who = Demo
    /\ pc[r] = "openbet" => req[r].op = "payout"
    /\ pc[r] \in {"exists", "create"} => req[r].op = "account"
    /\ pc[r] = "commit" =>
         /\ seen[r].after = NewBalance(req[r], seen[r].before)
         /\ seen[r].after < 0 => OpenedInDebt(req[r].who)

\* A payout, in flight or recorded, names a bet whose handler has answered.
PayoutsNameBets ==
  /\ \A r \in Reqs : pc[r] # "unsent" /\ req[r].op = "payout" =>
       req[r].ref \in Reqs /\ pc[req[r].ref] \in Answers
  /\ \A i \in DOMAIN ledger : ledger[i].type \in Payouts =>
       ledger[i].ref \in Reqs /\ pc[ledger[i].ref] \in Answers

IInv ==
  /\ TypeOK
  /\ NoOverdraft
  /\ HeldBalances
  /\ RowsAddUp
  /\ PayoutsNameBets
  /\ OpenBetsUnsettled

-----------------------------------------------------------------------------
(* The arithmetic *)

\* The conversions give integers, and a balance that is no debt reads back as
\* it was stored (CentsToDollars, DollarsToCents).
LEMMA Conversions ==
  ASSUME NEW n \in Int
  PROVE  /\ Cents(n) \in Int /\ Stored(n) \in Int /\ Parsed(n) \in Int
         /\ Unsigned(n) \in Int /\ Unsigned(n) >= 0
         /\ n >= 0 => Parsed(n) = n
BY DEF Cents, Stored, Parsed, Unsigned

\* An accepted amount is stored as the cents it moves, but for the sign and a
\* cent of rounding.
LEMMA StoredNearCents ==
  ASSUME NEW mills \in Int, Cents(mills) > 0
  PROVE  Unsigned(Stored(mills)) \in {Cents(mills), Cents(mills) + 1}
BY DEF Cents, Stored, Unsigned

\* A stored stake reads back as its own size, whatever its sign.
LEMMA StakeReadBack ==
  ASSUME NEW mills \in Int, Cents(mills) > 0
  PROVE  Unsigned(Cents(10 * Stored(mills))) = Unsigned(Stored(mills))
BY DEF Cents, Stored, Unsigned

\* What a bet returns is never negative (CALC-PAYOUT).
LEMMA PayoutNotNegative ==
  ASSUME NEW bet \in Int, bet >= 0, NEW result
  PROVE  CalcPayout(bet, result) \in Int /\ CalcPayout(bet, result) >= 0
<1>1. (bet * 3) \div 2 \in Int /\ (bet * 3) \div 2 >= 0
  OBVIOUS
<1>2. QED
  BY <1>1 DEF CalcPayout

\* What a request moves is never negative.
LEMMA MovedNotNegative ==
  ASSUME NEW q \in Request, q.op \in Monetary \cup {"payout"},
         q.op \in Monetary => Cents(q.amt) > 0
  PROVE  Moved(q) \in Int /\ Moved(q) >= 0
<1>1. q.amt \in Int /\ Cents(q.amt) \in Int
  BY Conversions DEF Request
<1>2. Unsigned(Cents(q.amt)) \in Int /\ Unsigned(Cents(q.amt)) >= 0
  BY <1>1, Conversions
<1>3. QED
  BY <1>1, <1>2, PayoutNotNegative DEF Moved

\* A covered debit, and every credit, leaves a balance that is not negative.
LEMMA NewBalanceNotNegative ==
  ASSUME NEW q \in Request, q.op \in Monetary \cup {"payout"},
         q.op \in Monetary => Cents(q.amt) > 0, NEW bal \in Int
  PROVE  /\ NewBalance(q, bal) \in Int
         /\ bal >= 0 /\ (q.op \in Debits => Covers(Parsed(bal), Moved(q)))
              => NewBalance(q, bal) >= 0
<1>1. Moved(q) \in Int /\ Moved(q) >= 0
  BY MovedNotNegative
<1>2. Parsed(bal) \in Int /\ (bal >= 0 => Parsed(bal) = bal)
  BY Conversions
<1>3. QED
  BY <1>1, <1>2 DEF NewBalance, Covers

\* A request that has been answered stays as it is.
LEMMA OpenersKept ==
  ASSUME \A s \in Reqs : pc[s] \in {"ok", "error"} =>
           pc'[s] = pc[s] /\ req'[s] = req[s]
  PROVE  \A p : OpenedWith(p) \subseteq OpenedWith(p)' /\ (OpenedInDebt(p) => OpenedInDebt(p)')
<1>1. ASSUME NEW p PROVE OpenedWith(p) \subseteq OpenedWith(p)'
  BY DEF OpenedWith
<1>2. QED
  BY <1>1 DEF OpenedInDebt

\* NoOverdraft stays when only answered requests open accounts, and a balance
\* that changes is no debt or that of an account opened in debt.
LEMMA OverdraftKept ==
  ASSUME NoOverdraft,
         \A s \in Reqs : pc[s] \in {"ok", "error"} => pc'[s] = pc[s] /\ req'[s] = req[s],
         \A p \in Players : balance'[p] = balance[p] \/ (balance'[p] < 0 => OpenedInDebt(p)')
  PROVE  NoOverdraft'
BY OpenersKept DEF NoOverdraft

-----------------------------------------------------------------------------
(* The initial state *)

LEMMA InitInvariant == Init => IInv
<1> SUFFICES ASSUME Init PROVE IInv
  OBVIOUS
<1> USE BankAssumption DEF Init
<1>1. TypeOK
  BY DEF TypeOK, Unsent, Unread, Unheard, OpenBet, Row
<1>2. NoOverdraft
  <2> SUFFICES ASSUME NEW p \in Players PROVE balance[p] >= 0
    BY DEF NoOverdraft
  <2>1. balance[p] = StartingBalance \/ balance[p] = 0
    OBVIOUS
  <2>2. StartingBalance >= 0
    OBVIOUS
  <2>3. QED
    BY <2>1, <2>2
<1>3. HeldBalances
  BY DEF HeldBalances, Writing
<1>4. RowsAddUp /\ PayoutsNameBets /\ OpenBetsUnsettled
  BY DEF RowsAddUp, PayoutsNameBets, OpenBetsUnsettled
<1>5. QED
  BY <1>1, <1>2, <1>3, <1>4 DEF IInv
-----------------------------------------------------------------------------
(* The steps *)

\* Whatever a caller can send is a well-formed request.
LEMMA SentIsRequest ==
  ASSUME TypeOK, NEW q \in Sendable
  PROVE  /\ q \in Request
         /\ q.op = "payout" => q.ref \in Reqs /\ pc[q.ref] = "ok"
<1> USE BankAssumption
<1>0. Openings \cup {10 * StartingBalance} \subseteq Int
  OBVIOUS
<1>1. CASE q \in [op: Ops \cap Monetary, who: Players, amt: Amounts,
                  ref: {NoRef}, res: {NoRes}]
  BY <1>1 DEF Request, Monetary, Debits
<1>2. CASE q \in [op: Ops \cap {"account"}, who: Players,
                  amt: Openings \cup {10 * StartingBalance}, ref: {NoRef}, res: {NoRes}]
  BY <1>0, <1>2 DEF Request
<1>3. CASE q \in [op: Ops \cap {"reset"}, who: {Demo}, amt: {0},
                  ref: {NoRef}, res: {NoRes}]
  BY <1>3 DEF Request
<1>4. CASE \E b \in Reqs, result \in Results :
             /\ "payout" \in Ops /\ req[b].op = "bet" /\ pc[b] = "ok"
             /\ q = [op |-> "payout", who |-> req[b].who, amt |-> 0, ref |-> b,
                     res |-> result]
  <2>1. PICK b \in Reqs, result \in Results :
             /\ "payout" \in Ops /\ req[b].op = "bet" /\ pc[b] = "ok"
             /\ q = [op |-> "payout", who |-> req[b].who, amt |-> 0, ref |-> b,
                     res |-> result]
    BY <1>4
  <2>2. req[b].who \in Players
    BY <2>1 DEF TypeOK, Request
  <2>3. QED
    BY <2>1, <2>2 DEF Request
<1>5. QED
  BY <1>1, <1>2, <1>3, <1>4 DEF Sendable

LEMMA ReceiveInvariant ==
  ASSUME IInv, NEW r \in Reqs, Receive(r)
  PROVE  IInv'
<1> USE DEF IInv
<1>1. PICK q \in Sendable : /\ req' = [req EXCEPT ![r] = q]
                            /\ pc' = [pc EXCEPT ![r] = FirstStep(q)]
  BY DEF Receive
<1>2. /\ pc[r] = "unsent"
      /\ UNCHANGED <<accounts, balance, openBets, ledger, seen, feed>>
  BY DEF Receive
<1>3. q \in Request /\ (q.op = "payout" => q.ref \in Reqs /\ pc[q.ref] = "ok")
  BY SentIsRequest
<1>4. /\ FirstStep(q) \in {"exists", "openbet", "wipe", "invalid", "balance"}
      /\ FirstStep(q) = "openbet" => q.op = "payout"
      /\ FirstStep(q) = "exists" => q.op = "account"
      /\ FirstStep(q) = "balance" => q.op \in Monetary /\ Cents(q.amt) > 0
  BY <1>3, Conversions, BankAssumption DEF FirstStep, Request, Monetary, Debits
<1>5. TypeOK'
  BY <1>1, <1>2, <1>3, <1>4 DEF TypeOK, Steps, Answers
<1>6. /\ pc'[r] = FirstStep(q) /\ req'[r] = q
      /\ \A s \in Reqs : s # r => pc'[s] = pc[s] /\ req'[s] = req[s]
  BY <1>1, <1>2 DEF TypeOK
<1>7. NoOverdraft' /\ \A p : OpenedInDebt(p) => OpenedInDebt(p)'
  <2>1. \A s \in Reqs : pc[s] \in {"ok", "error"} => pc'[s] = pc[s] /\ req'[s] = req[s]
    BY <1>2, <1>6
  <2>2. QED
    BY <1>2, <2>1, OpenersKept, OverdraftKept
<1>8. RowsAddUp' /\ OpenBetsUnsettled'
  BY <1>2 DEF RowsAddUp, OpenBetsUnsettled, PayoutRows
<1>9. HeldBalances'
  BY <1>2, <1>4, <1>6, <1>7 DEF HeldBalances, Writing
<1>10. PayoutsNameBets'
  BY <1>1, <1>2, <1>3, <1>4 DEF PayoutsNameBets, TypeOK, Answers
<1>11. QED
  BY <1>5, <1>7, <1>8, <1>9, <1>10

\* A step of request r, before its transaction, that opens no account, or answers.
LEMMA QuietInvariant ==
  ASSUME IInv, TypeOK', NEW r \in Reqs, pc[r] \in Steps,
         NEW step \in Steps \cup Answers, pc' = [pc EXCEPT ![r] = step],
         req' = req, \A s \in Reqs : s # r => seen'[s] = seen[s],
         \A p \in Players : balance'[p] = balance[p] \/ balance'[p] >= 0
                                                   \/ OpenedInDebt(p)',
         ledger' = ledger \/ ledger' = <<>>, openBets' \subseteq openBets,
         step \in Writing \cup {"replenish"} => pc[r] \in Writing \cup {"replenish"},
         step = "replenish" => req[r].op = "bet" /\ req[r].who = Demo,
         step # "openbet",
         step \in {"exists", "create"} => req[r].op = "account",
         step = "commit" => /\ seen'[r].after = NewBalance(req[r], seen'[r].before)
                            /\ seen'[r].after < 0 => OpenedInDebt(req[r].who)
  PROVE  IInv'
<1> USE DEF IInv
<1>1. /\ pc'[r] = step /\ \A s \in Reqs : s # r => pc'[s] = pc[s]
      /\ pc[r] \notin Answers \cup {"unsent"}
  BY DEF TypeOK, Steps, Answers
<1>2. \A s \in Reqs : pc[s] \in {"ok", "error"} => pc'[s] = pc[s] /\ req'[s] = req[s]
  BY <1>1 DEF Answers
<1>3. \A p : OpenedInDebt(p) => OpenedInDebt(p)'
  BY <1>2, OpenersKept
<1>4. NoOverdraft'
  <2>1. \A p \in Players : balance'[p] \in Int
    BY DEF TypeOK
  <2>2. QED
    BY <1>2, <2>1, OverdraftKept
<1>5. HeldBalances'
  BY <1>1, <1>3 DEF HeldBalances
<1>6. RowsAddUp' /\ OpenBetsUnsettled'
  BY DEF RowsAddUp, OpenBetsUnsettled, PayoutRows
<1>7. PayoutsNameBets'
  <2>1. \A s \in Reqs : /\ pc[s] \in Answers => pc'[s] \in Answers
                        /\ pc'[s] # "unsent" => pc[s] # "unsent"
    BY <1>1
  <2>2. QED
    BY <2>1 DEF PayoutsNameBets
<1>8. QED
  BY <1>4, <1>5, <1>6, <1>7

LEMMA CheckExistsInvariant ==
  ASSUME IInv, NEW r \in Reqs, CheckExists(r)
  PROVE  IInv'
<1>1. PICK step \in {"conflict", "create"} : pc' = [pc EXCEPT ![r] = step]
  BY DEF CheckExists, Goto
<1>2. /\ pc[r] = "exists" /\ req[r].op = "account"
      /\ UNCHANGED <<accounts, balance, openBets, ledger, req, seen, feed>>
  BY DEF CheckExists, IInv, HeldBalances
<1>3. pc[r] \in Steps /\ step \in Steps \cup Answers /\ step \notin Writing
  BY <1>2 DEF Steps, Answers, Writing
<1>4. TypeOK'
  BY <1>1, <1>2, <1>3 DEF IInv, TypeOK, Steps, Answers
<1>5. QED
  BY <1>1, <1>2, <1>3, <1>4, QuietInvariant DEF Writing

\* The new account's balance is the one that its request, now answered, gave.
LEMMA CreateAccountInvariant ==
  ASSUME IInv, NEW r \in Reqs, CreateAccount(r)
  PROVE  IInv'
<1> DEFINE new == Stored(req[r].amt)
<1>1. PICK answer \in {"ok", "error"} : pc' = [pc EXCEPT ![r] = answer]
  BY DEF CreateAccount, Goto
<1>2. /\ pc[r] = "create" /\ req[r] \in Request
      /\ UNCHANGED <<openBets, ledger, req, seen, feed>>
      /\ accounts' \subseteq Players
      /\ balance' = balance \/ (req[r].op = "account" /\ balance' = [balance EXCEPT ![req[r].who] = new])
  BY DEF CreateAccount, IInv, TypeOK, Request, HeldBalances
<1>3. new \in Int
  BY <1>2, Conversions DEF Request
<1>4. pc[r] \in Steps /\ answer \in Steps \cup Answers /\ answer \notin Writing
  BY <1>2 DEF Steps, Answers, Writing
<1>5. TypeOK'
  <2>1. balance' \in [Players -> Int]
    BY <1>2, <1>3 DEF IInv, TypeOK
  <2>2. QED
    BY <1>1, <1>2, <2>1 DEF IInv, TypeOK, Answers
<1>6. \A p \in Players : balance'[p] = balance[p] \/ balance'[p] >= 0 \/ OpenedInDebt(p)'
  <2> SUFFICES ASSUME NEW p \in Players, balance'[p] # balance[p], ~(balance'[p] >= 0)
               PROVE  OpenedInDebt(p)'
    OBVIOUS
  <2>1. p = req[r].who /\ balance'[p] = new /\ req[r].op = "account"
    BY <1>2 DEF IInv, TypeOK
  <2>2. pc'[r] = answer /\ req'[r] = req[r]
    BY <1>1, <1>2 DEF IInv, TypeOK
  <2>3. new \in OpenedWith(p)'
    BY <2>1, <2>2 DEF OpenedWith
  <2> HIDE DEF new
  <2>4. QED
    BY <1>3, <2>1, <2>3 DEF OpenedInDebt
<1>7. QED
  BY <1>1, <1>2, <1>4, <1>5, <1>6, QuietInvariant DEF Writing

LEMMA FindOpenBetInvariant ==
  ASSUME IInv, NEW r \in Reqs, FindOpenBet(r)
  PROVE  IInv'
<1> USE DEF IInv
<1>1. /\ pc[r] = "openbet" /\ req[r] \in Request /\ req[r].op = "payout"
      /\ UNCHANGED <<accounts, balance, openBets, ledger, seen, feed>>
  BY DEF FindOpenBet, TypeOK, HeldBalances
\* The handler's own copy of the request changes; who placed the bet and how
\* much was staked come from the row of open_bets.
<1>2. PICK q \in Request, step \in {"balance", "invalid", "notfound"} :
        /\ req' = [req EXCEPT ![r] = q]
        /\ pc' = [pc EXCEPT ![r] = step]
        /\ q.op = "payout" /\ q.ref = req[r].ref
  <2>1. CASE \A bet \in openBets : bet.id # req[r].ref
    <3>1. pc' = [pc EXCEPT ![r] = "notfound"] /\ req' = [req EXCEPT ![r] = req[r]]
      BY <2>1 DEF FindOpenBet, Goto, TypeOK
    <3>2. QED
      BY <1>1, <3>1
  <2>2. CASE \E bet \in openBets : bet.id = req[r].ref
    <3>1. PICK bet \in openBets :
            /\ Goto(r, IF Known(req[r].res) THEN "balance" ELSE "invalid")
            /\ req' = [req EXCEPT ![r].who = bet.who, ![r].amt = 10 * bet.amt]
      BY <2>2 DEF FindOpenBet
    <3> DEFINE q == [req[r] EXCEPT !.who = bet.who, !.amt = 10 * bet.amt]
    <3>2. bet.who \in Players /\ 10 * bet.amt \in Int
      BY DEF TypeOK, OpenBet
    <3>3. q \in Request /\ q.op = "payout" /\ q.ref = req[r].ref
      BY <1>1, <3>2 DEF Request
    <3>4. req' = [req EXCEPT ![r] = q]
      BY <1>1, <3>1 DEF TypeOK
    <3>5. QED
      BY <3>1, <3>3, <3>4 DEF Goto
  <2>3. QED
    BY <2>1, <2>2
<1>3. TypeOK'
  BY <1>1, <1>2 DEF TypeOK, Steps, Answers
<1>4. /\ \A s \in Reqs : s # r => pc'[s] = pc[s] /\ req'[s] = req[s]
      /\ pc'[r] = step /\ req'[r].op = "payout"
  BY <1>1, <1>2 DEF TypeOK
<1>5. NoOverdraft' /\ \A p : OpenedInDebt(p) => OpenedInDebt(p)'
  BY <1>1, <1>4, OpenersKept, OverdraftKept
<1>6. HeldBalances'
  BY <1>1, <1>4, <1>5 DEF HeldBalances, Monetary, Debits
<1>7. RowsAddUp' /\ OpenBetsUnsettled'
  BY <1>1 DEF RowsAddUp, OpenBetsUnsettled, PayoutRows
<1>8. PayoutsNameBets'
  BY <1>1, <1>2 DEF PayoutsNameBets, TypeOK, Answers
<1>9. QED
  BY <1>3, <1>5, <1>6, <1>7, <1>8

LEMMA ReadBalanceInvariant ==
  ASSUME IInv, NEW r \in Reqs, ReadBalance(r)
  PROVE  IInv'
<1> DEFINE q == req[r]
           bal == balance[q.who]
<1>1. /\ pc[r] = "balance"
      /\ q \in Request /\ q.op \in Monetary \cup {"payout"}
      /\ q.op \in Monetary => Cents(q.amt) > 0
      /\ UNCHANGED <<accounts, balance, openBets, ledger, req, feed>>
  BY DEF ReadBalance, IInv, TypeOK, HeldBalances, Writing
<1>2. pc[r] \in Steps /\ pc[r] \in Writing
  BY <1>1 DEF Steps, Writing
<1>3. CASE q.who \in accounts
  <2>1. /\ bal \in Int /\ (bal < 0 => OpenedInDebt(q.who))
        /\ seen' = [seen EXCEPT ![r] = Computed(q, bal)]
        /\ pc' = [pc EXCEPT ![r] = AfterBalance(q, bal)]
    BY <1>1, <1>3 DEF ReadBalance, IInv, TypeOK, NoOverdraft, Goto, Request
  <2>2. NewBalance(q, bal) \in Int
    BY <1>1, <2>1, NewBalanceNotNegative
  <2>3. /\ AfterBalance(q, bal) \in {"replenish", "insufficient", "commit"}
        /\ AfterBalance(q, bal) = "replenish" => q.op = "bet" /\ q.who = Demo
        /\ AfterBalance(q, bal) = "commit" => bal < 0 \/ NewBalance(q, bal) >= 0
    BY <1>1, <2>1, NewBalanceNotNegative DEF AfterBalance
  <2>4. PICK step \in {"replenish", "insufficient", "commit"} : step = AfterBalance(q, bal)
    BY <2>3
  <2>5. Computed(q, bal) \in [before: Int, after: Int]
    BY <2>1, <2>2 DEF Computed
  <2>6. step \in Steps \cup Answers /\ step # "openbet"
    BY DEF Steps, Answers
  <2> HIDE DEF q, bal
  <2>7. TypeOK'
    BY <1>1, <2>1, <2>4, <2>5, <2>6 DEF IInv, TypeOK
  <2>8. /\ seen'[r].before = bal /\ seen'[r].after = NewBalance(q, bal)
        /\ \A s \in Reqs : s # r => seen'[s] = seen[s]
    BY <2>1 DEF Computed, IInv, TypeOK
  <2>9. step = "commit" => (NewBalance(q, bal) < 0 => OpenedInDebt(q.who))
    BY <2>1, <2>2, <2>3, <2>4
  <2>10. QED
    BY <1>1, <1>2, <2>1, <2>3, <2>4, <2>6, <2>7, <2>8, <2>9, QuietInvariant DEF q
<1>4. CASE q.who \notin accounts
  <2>1. PICK answer \in {"error", "notfound"} :
          pc' = [pc EXCEPT ![r] = answer] /\ UNCHANGED seen
    BY <1>4 DEF ReadBalance, Goto
  <2>2. answer \in Steps \cup Answers /\ answer \notin Writing
    BY DEF Answers, Writing
  <2>3. TypeOK'
    BY <1>1, <2>1, <2>2 DEF IInv, TypeOK
  <2>4. QED
    BY <1>1, <1>2, <2>1, <2>2, <2>3, QuietInvariant
<1>5. QED
  BY <1>3, <1>4

LEMMA ReplenishInvariant ==
  ASSUME IInv, NEW r \in Reqs, Replenish(r)
  PROVE  IInv'
<1> DEFINE q == req[r]
<1>1. /\ pc[r] = "replenish" /\ pc[r] \in Steps
      /\ q \in Request /\ q.op = "bet" /\ q.who = Demo /\ Cents(q.amt) > 0
      /\ q.op \in Monetary
      /\ UNCHANGED <<accounts, openBets, ledger, req, feed>>
      /\ seen' = [seen EXCEPT ![r] = Computed(q, StartingBalance)]
      /\ StartingBalance \in Int /\ StartingBalance >= 0
  BY BankAssumption DEF Replenish, IInv, TypeOK, HeldBalances, Steps, Monetary, Debits
<1>2. PICK step \in {"commit", "insufficient"} :
        /\ pc' = [pc EXCEPT ![r] = step]
        /\ step = "commit" => Covers(StartingBalance, Moved(q))
  BY DEF Replenish, Goto
<1>3. /\ NewBalance(q, StartingBalance) \in Int
      /\ step = "commit" => NewBalance(q, StartingBalance) >= 0
  <2>1. Parsed(StartingBalance) = StartingBalance
    BY <1>1, Conversions
  <2>2. QED
    BY <1>1, <1>2, <2>1, NewBalanceNotNegative
<1> HIDE DEF q
<1>4. Computed(q, StartingBalance) \in [before: Int, after: Int]
  BY <1>1, <1>3 DEF Computed
<1>5. balance' \in [Players -> Int] /\ \A p \in Players : balance'[p] = balance[p] \/ balance'[p] >= 0
  BY <1>1 DEF Replenish, IInv, TypeOK
<1>6. step \in Steps \cup Answers
  BY DEF Steps, Answers
<1>7. TypeOK'
  BY <1>1, <1>2, <1>4, <1>5, <1>6 DEF IInv, TypeOK
<1>8. /\ seen'[r].before = StartingBalance /\ seen'[r].after = NewBalance(q, StartingBalance)
      /\ \A s \in Reqs : s # r => seen'[s] = seen[s]
  BY <1>1 DEF Computed, IInv, TypeOK
<1>9. step = "commit" => ~(NewBalance(q, StartingBalance) < 0)
  BY <1>3
<1>10. QED
  BY <1>1, <1>2, <1>5, <1>6, <1>7, <1>8, <1>9, QuietInvariant DEF q

\* The row that a request adds is well-formed and adds up.
LEMMA RowOfAddsUp ==
  ASSUME IInv, NEW r \in Reqs, pc[r] = "commit"
  PROVE  LET row == RowOf(r) IN
         /\ row \in Row
         /\ row.type \in Payouts <=> req[r].op = "payout"
         /\ row.who = req[r].who /\ row.ref = req[r].ref /\ row.amt = Recorded(req[r])
         /\ row.before = seen[r].before /\ row.after = seen[r].after
         /\ row.before >= 0 =>
              IF row.type \in Payouts THEN row.amt = Shift(row)
              ELSE Unsigned(row.amt) \in {Shift(row), Shift(row) + 1}
<1> DEFINE q == req[r]
<1>1. /\ q \in Request /\ q.op \in Monetary \cup {"payout"}
      /\ q.op \in Monetary => Cents(q.amt) > 0
      /\ seen[r] \in [before: Int, after: Int]
      /\ seen[r].after = NewBalance(q, seen[r].before)
  BY DEF IInv, TypeOK, HeldBalances, Writing
<1>2. Moved(q) \in Int /\ Stored(q.amt) \in Int
  BY <1>1, MovedNotNegative, Conversions DEF Request
<1>3. RowOf(r) = [type |-> RowType(q), who |-> q.who, amt |-> Recorded(q),
                  before |-> seen[r].before, after |-> seen[r].after, ref |-> q.ref]
  BY DEF RowOf
<1>4. /\ q.op = "payout" => RowType(q) \in Payouts
      /\ q.op = "bet" => RowType(q) = "bet"
      /\ q.op = "withdraw" => RowType(q) = "withdrawal"
      /\ q.op = "deposit" => RowType(q) = "deposit"
  BY DEF RowType, PayoutType, Payouts
<1> HIDE DEF q
<1>5. RowOf(r) \in Row /\ (RowType(q) \in Payouts <=> q.op = "payout")
  BY <1>1, <1>2, <1>3, <1>4 DEF Row, Request, Monetary, Debits, Recorded, Payouts
<1>6. seen[r].before >= 0 => NewBalance(q, seen[r].before) =
        IF q.op \in Debits THEN seen[r].before - Moved(q) ELSE seen[r].before + Moved(q)
  BY <1>1, Conversions DEF NewBalance
<1>7. seen[r].before >= 0 => Shift(RowOf(r)) = Moved(q)
  BY <1>1, <1>2, <1>3, <1>4, <1>6 DEF Shift, Monetary, Debits, Payouts
<1>8. q.op \in Monetary => Unsigned(Recorded(q)) \in {Moved(q), Moved(q) + 1}
  BY <1>1, StoredNearCents DEF Recorded, Moved, Request, Monetary, Debits
<1>9. q.op = "payout" => Recorded(q) = Moved(q)
  BY DEF Recorded
<1>10. QED
  BY <1>1, <1>3, <1>5, <1>7, <1>8, <1>9 DEF q, Monetary, Debits

LEMMA CommitInvariant ==
  ASSUME IInv, NEW r \in Reqs, Commit(r)
  PROVE  IInv'
<1> DEFINE q == req[r]
           row == RowOf(r)
<1>1. /\ pc[r] = "commit" /\ pc[r] \in Steps /\ pc[r] \in Writing
      /\ q \in Request /\ q.op \in Monetary \cup {"payout"}
      /\ seen[r] \in [before: Int, after: Int]
      /\ seen[r].after < 0 => OpenedInDebt(q.who)
      /\ UNCHANGED <<accounts, req, seen, feed>>
  BY DEF Commit, IInv, TypeOK, HeldBalances, Writing, Steps
<1>2. PICK step \in {"ok", "publish", "error"} : pc' = [pc EXCEPT ![r] = step]
  BY DEF Commit, Goto
<1>3. step \in Steps \cup Answers /\ step \notin {"commit", "replenish", "openbet", "exists", "create"}
  BY DEF Steps, Answers
<1>4. CASE q.who \notin accounts
  <2>1. UNCHANGED <<balance, ledger, openBets>>
    BY <1>4 DEF Commit
  <2>2. TypeOK'
    BY <1>1, <1>2, <1>3, <2>1 DEF IInv, TypeOK
  <2>3. QED
    BY <1>1, <1>2, <1>3, <2>1, <2>2, QuietInvariant
<1>5. CASE q.who \in accounts
  <2>1. /\ balance' = [balance EXCEPT ![q.who] = seen[r].after]
        /\ ledger' = Append(ledger, row)
        /\ openBets' = BetsAfter(r)
    BY <1>5 DEF Commit
  <2>2. /\ row \in Row /\ row.ref = q.ref
        /\ row.type \in Payouts <=> q.op = "payout"
        /\ row.before >= 0 =>
             IF row.type \in Payouts THEN row.amt = Shift(row)
             ELSE Unsigned(row.amt) \in {Shift(row), Shift(row) + 1}
    BY <1>1, RowOfAddsUp
  <2>3. /\ pc'[r] = step /\ \A s \in Reqs : s # r => pc'[s] = pc[s]
        /\ \A s \in Reqs : pc[s] \in {"ok", "error"} => pc'[s] = pc[s] /\ req'[s] = req[s]
    BY <1>1, <1>2 DEF IInv, TypeOK
  <2>4. \A p : OpenedInDebt(p) => OpenedInDebt(p)'
    BY <2>3, OpenersKept
  <2>5. balance' \in [Players -> Int] /\ NoOverdraft'
    <3>1. \A p \in Players : balance'[p] = balance[p] \/ (p = q.who /\ balance'[p] = seen[r].after)
      BY <2>1 DEF IInv, TypeOK
    <3>2. \A p \in Players : balance'[p] = balance[p] \/ (balance'[p] < 0 => OpenedInDebt(p)')
      BY <1>1, <2>4, <3>1
    <3>3. NoOverdraft'
      BY <2>3, <3>2, OverdraftKept DEF IInv
    <3>4. QED
      BY <1>1, <2>1, <3>3 DEF IInv, TypeOK
  <2>6. /\ q.op = "bet" => openBets' = openBets \cup {BetRow(r)}
        /\ q.op = "payout" => openBets' = {bet \in openBets : bet.id # q.ref}
        /\ q.op \notin {"bet", "payout"} => openBets' = openBets
    BY <2>1 DEF BetsAfter
  <2>7. BetRow(r) \in OpenBet /\ BetRow(r).id = r
    BY <1>1, Conversions DEF BetRow, OpenBet, Request
  <2> HIDE DEF q, row
  <2>8. openBets' \subseteq OpenBet
    BY <1>1, <2>6, <2>7 DEF IInv, TypeOK
  <2>9. /\ ledger \in Seq(Row) /\ ledger' \in Seq(Row)
        /\ \A i \in DOMAIN ledger' :
             ledger'[i] = row \/ (i \in DOMAIN ledger /\ ledger'[i] = ledger[i])
    <3>1. ledger \in Seq(Row)
      BY DEF IInv, TypeOK
    <3>2. /\ Append(ledger, row) \in Seq(Row)
          /\ Len(Append(ledger, row)) = Len(ledger) + 1
          /\ \A i \in 1 .. Len(ledger) : Append(ledger, row)[i] = ledger[i]
          /\ Append(ledger, row)[Len(ledger) + 1] = row
          /\ Len(ledger) \in Nat
      BY <2>2, <3>1
    <3>3. DOMAIN ledger = 1 .. Len(ledger) /\ DOMAIN ledger' = 1 .. Len(ledger) + 1
      BY <2>1, <3>1, <3>2
    <3>4. \A i \in DOMAIN ledger' : i \in DOMAIN ledger \/ i = Len(ledger) + 1
      BY <3>2, <3>3
    <3>5. QED
      BY <2>1, <3>1, <3>2, <3>3, <3>4
  <2>10. TypeOK'
    BY <1>1, <1>2, <1>3, <2>5, <2>8, <2>9 DEF IInv, TypeOK
  <2>11. HeldBalances'
    BY <1>1, <1>3, <2>3, <2>4 DEF IInv, HeldBalances, q
  <2>12. RowsAddUp'
    BY <2>2, <2>9 DEF IInv, RowsAddUp
  \* A payout of bet b was sent when b had been answered; b has left "commit".
  <2>13. q.op = "payout" => q.ref \in Reqs /\ q.ref # r /\ pc[q.ref] \in Answers
    BY <1>1 DEF IInv, PayoutsNameBets, Answers, q
  <2>14. PayoutsNameBets'
    BY <1>1, <1>2, <2>2, <2>9, <2>13
       DEF IInv, PayoutsNameBets, TypeOK, Answers, q
  \* No payout names r, whose bet is only now placed.
  <2>15. \A i \in DOMAIN ledger : ledger[i].type \in Payouts => ledger[i].ref # r
    BY <1>1 DEF IInv, PayoutsNameBets, Answers
  <2>16. OpenBetsUnsettled'
    <3> SUFFICES ASSUME NEW bet \in openBets', NEW i \in DOMAIN ledger',
                        ledger'[i].type \in Payouts, ledger'[i].ref = bet.id
                 PROVE  FALSE
      BY DEF OpenBetsUnsettled, PayoutRows
    <3>1. CASE bet \in openBets
      BY <2>2, <2>6, <2>9, <3>1 DEF IInv, OpenBetsUnsettled, PayoutRows
    <3>2. CASE bet \notin openBets
      BY <2>2, <2>6, <2>7, <2>9, <2>15, <3>2
    <3>3. QED
      BY <3>1, <3>2
  <2>17. QED
    BY <2>5, <2>10, <2>11, <2>12, <2>14, <2>16 DEF IInv
<1>6. QED
  BY <1>4, <1>5

\* The steps after the transaction, the steps of a reset, and failures.
LEMMA OtherInvariant ==
  ASSUME IInv, NEW r \in Reqs, Publish(r) \/ Wipe(r) \/ SeedDemoPlayer(r) \/ Fail(r)
  PROVE  IInv'
<1>1. PICK step \in {"ok", "seed", "error", "notfound"} : pc' = [pc EXCEPT ![r] = step]
  BY DEF Publish, Wipe, SeedDemoPlayer, Fail, Goto
<1>2. /\ pc[r] \in Steps /\ step \in Steps \cup Answers
      /\ step \notin Writing \cup {"replenish", "openbet", "exists", "create", "commit"}
  BY DEF Publish, Wipe, SeedDemoPlayer, Fail, Steps, Answers, Writing
<1>3. UNCHANGED <<req, seen>> /\ (ledger' = ledger \/ ledger' = <<>>) /\ openBets' \subseteq openBets
  BY DEF Publish, Wipe, SeedDemoPlayer, Fail
<1>4. /\ balance' \in [Players -> Int]
      /\ \A p \in Players : balance'[p] = balance[p] \/ balance'[p] >= 0
  BY BankAssumption DEF Publish, Wipe, SeedDemoPlayer, Fail, Seeded, IInv, TypeOK
<1>5. accounts' \subseteq Players /\ feed' \in [Players -> Int]
  BY BankAssumption DEF Publish, Wipe, SeedDemoPlayer, Fail, IInv, TypeOK
<1>6. TypeOK'
  <2>1. ledger' \in Seq(Row) /\ openBets' \subseteq OpenBet
    <3>1. <<>> \in Seq(Row)
      OBVIOUS
    <3>2. ledger \in Seq(Row) /\ openBets \subseteq OpenBet
      BY DEF IInv, TypeOK
    <3>3. QED
      BY <1>3, <3>1, <3>2
  <2>2. /\ pc' \in [Reqs -> {"unsent"} \cup Steps \cup Answers]
        /\ \A s \in Reqs : pc'[s] # "unsent" => pc[s] # "unsent"
    BY <1>1, <1>2 DEF IInv, TypeOK, Steps
  <2>3. QED
    BY <1>3, <1>4, <1>5, <2>1, <2>2 DEF IInv, TypeOK
<1>7. QED
  BY <1>1, <1>2, <1>3, <1>4, <1>6, QuietInvariant

LEMMA RestartInvariant ==
  ASSUME IInv, Restart
  PROVE  IInv'
<1> USE BankAssumption DEF IInv, Restart
<1>1. \A s \in Reqs : /\ pc'[s] = pc[s] \/ (pc[s] \in Steps /\ pc'[s] = "error")
                     /\ pc'[s] \notin Steps
  BY DEF InFlight, Steps
<1>2. \A s \in Reqs : pc[s] \in {"ok", "error"} => pc'[s] = pc[s] /\ req'[s] = req[s]
  BY <1>1 DEF Steps
<1>3. balance' \in [Players -> Int] /\ \A p \in Players : balance'[p] = balance[p] \/ balance'[p] >= 0
  BY DEF Seeded, TypeOK
<1>4. TypeOK'
  <2>1. /\ pc' \in [Reqs -> {"unsent"} \cup Steps \cup Answers]
        /\ \A s \in Reqs : pc'[s] # "unsent" => pc[s] # "unsent"
    BY <1>1 DEF TypeOK, InFlight, Answers, Steps
  <2>2. QED
    BY <1>3, <2>1 DEF TypeOK
<1>5. NoOverdraft'
  <2>1. \A p \in Players : balance'[p] = balance[p] \/ (balance'[p] < 0 => OpenedInDebt(p)')
    BY <1>3
  <2>2. QED
    BY <1>2, <2>1, OverdraftKept
<1>6. HeldBalances'
  BY <1>1 DEF HeldBalances, Steps, Writing
<1>7. RowsAddUp' /\ OpenBetsUnsettled'
  BY DEF RowsAddUp, OpenBetsUnsettled, PayoutRows
<1>8. PayoutsNameBets'
  BY <1>1 DEF PayoutsNameBets, Steps, Answers
<1>9. QED
  BY <1>4, <1>5, <1>6, <1>7, <1>8

\* A step that changes nothing.
LEMMA StutterInvariant ==
  ASSUME IInv, UNCHANGED vars
  PROVE  IInv'
BY DEF IInv, vars, TypeOK, NoOverdraft, OpenedInDebt, OpenedWith, HeldBalances, RowsAddUp,
       PayoutsNameBets, OpenBetsUnsettled, PayoutRows

LEMMA NextInvariant == IInv /\ [Next]_vars => IInv'
<1> SUFFICES ASSUME IInv, [Next]_vars PROVE IInv'
  OBVIOUS
<1>1. ASSUME NEW r \in Reqs, Receive(r) PROVE IInv'
  BY <1>1, ReceiveInvariant
<1>2. ASSUME NEW r \in Reqs, Handle(r) PROVE IInv'
  BY <1>2, CheckExistsInvariant, CreateAccountInvariant, FindOpenBetInvariant,
     ReadBalanceInvariant, ReplenishInvariant, CommitInvariant, OtherInvariant DEF Handle
<1>3. ASSUME NEW r \in Reqs, Fail(r) PROVE IInv'
  BY <1>3, OtherInvariant
<1>4. CASE Restart
  BY <1>4, RestartInvariant
<1>5. CASE UNCHANGED vars
  BY <1>5, StutterInvariant
<1>6. QED
  BY <1>1, <1>2, <1>3, <1>4, <1>5 DEF Next

-----------------------------------------------------------------------------
(* The theorems *)

\* IInv holds throughout, for every interleaving, failure and restart.
THEOREM Invariance == Spec => []IInv
BY InitInvariant, NextInvariant, PTL DEF Spec

\* The tables and the handlers' variables keep their types.
THEOREM TypeCorrect == Spec => []TypeOK
<1>1. IInv => TypeOK
  BY DEF IInv
<1>2. QED
  BY <1>1, Invariance, PTL

\* No interleaving of bets, payouts, deposits, withdrawals, resets, failures and
\* restarts drives a balance below zero, but in an account that was opened in
\* debt (betHandler, withdrawHandler, accountHandler).
THEOREM NeverOverdrawn == Spec => []NoOverdraft
<1>1. IInv => NoOverdraft
  BY DEF IInv
<1>2. QED
  BY <1>1, Invariance, PTL

\* In every row of the account statement that starts from no debt, before,
\* amount and after agree: exactly for a payout, for a bet, a deposit or a
\* withdrawal but for the sign and a cent of rounding, which the row takes from
\* the caller's string (PlaceBet, SettlePayout, ApplyBalanceChange).
THEOREM RowsAlwaysAddUp == Spec => []RowsAddUp
<1>1. IInv => RowsAddUp
  BY DEF IInv
<1>2. QED
  BY <1>1, Invariance, PTL

\* An open bet has never been paid out, even where two settlements race
\* (SettlePayout).
THEOREM OpenBetsAreUnsettled == Spec => []OpenBetsUnsettled
<1>1. IInv => OpenBetsUnsettled
  BY DEF IInv
<1>2. QED
  BY <1>1, Invariance, PTL
-----------------------------------------------------------------------------
(* The action property *)

LEMMA CommitRecordsMoney ==
  ASSUME IInv, NEW r \in Reqs, Commit(r)
  PROVE  MoneyRecorded
<1> DEFINE q == req[r]
           row == RowOf(r)
<1>1. CASE q.who \notin accounts
  BY <1>1 DEF Commit, MoneyRecorded
<1>2. CASE q.who \in accounts
  <2>1. /\ balance' = [balance EXCEPT ![q.who] = seen[r].after]
        /\ ledger' = Append(ledger, row)
        /\ row \in Row /\ row.who = q.who /\ row.after = seen[r].after
    BY <1>2, RowOfAddsUp DEF Commit
  <2>2. balance \in [Players -> Int] /\ accounts \subseteq Players /\ ledger \in Seq(Row)
    BY DEF IInv, TypeOK
  <2> HIDE DEF q, row
  <2>3. /\ Len(ledger') = Len(ledger) + 1
        /\ ledger'[Len(ledger) + 1] = row
    BY <2>1, <2>2
  <2>4. ASSUME NEW p \in (accounts \cap accounts') \ {Demo}, balance'[p] # balance[p]
        PROVE  p = q.who /\ balance'[p] = seen[r].after
    BY <2>1, <2>2, <2>4
  <2>5. QED
    BY <2>1, <2>3, <2>4 DEF MoneyRecorded
<1>3. QED
  BY <1>1, <1>2

\* Outside of the demo account, money never moves without the ledger row that
\* says so: no handler updates a balance outside its transaction.
THEOREM MoneyAlwaysRecorded == Spec => NoUnrecordedMoney
<1>1. IInv /\ [Next]_vars => [MoneyRecorded]_vars
  <2> SUFFICES ASSUME IInv, Next PROVE MoneyRecorded
    OBVIOUS
  <2> USE BankAssumption DEF MoneyRecorded
  <2>1. ASSUME NEW r \in Reqs, Receive(r) PROVE MoneyRecorded
    BY <2>1 DEF Receive
  <2>2. ASSUME NEW r \in Reqs, CheckExists(r) \/ FindOpenBet(r) \/ ReadBalance(r)
                              \/ Publish(r) \/ Fail(r)
        PROVE  MoneyRecorded
    BY <2>2 DEF CheckExists, FindOpenBet, ReadBalance, Publish, Fail
  <2>3. ASSUME NEW r \in Reqs, CreateAccount(r) PROVE MoneyRecorded
    BY <2>3 DEF CreateAccount, IInv, TypeOK
  <2>4. ASSUME NEW r \in Reqs, Replenish(r) PROVE MoneyRecorded
    BY <2>4 DEF Replenish, IInv, TypeOK
  <2>5. ASSUME NEW r \in Reqs, Commit(r) PROVE MoneyRecorded
    BY <2>5, CommitRecordsMoney
  <2>6. ASSUME NEW r \in Reqs, Wipe(r) PROVE MoneyRecorded
    BY <2>6 DEF Wipe
  <2>7. ASSUME NEW r \in Reqs, SeedDemoPlayer(r) PROVE MoneyRecorded
    BY <2>7 DEF SeedDemoPlayer, Seeded, IInv, TypeOK
  <2>8. CASE Restart
    BY <2>8 DEF Restart, Seeded, IInv, TypeOK
  <2>9. QED
    BY <2>1, <2>2, <2>3, <2>4, <2>5, <2>6, <2>7, <2>8 DEF Next, Handle
<1>2. QED
  BY <1>1, Invariance, PTL DEF Spec, NoUnrecordedMoney

-----------------------------------------------------------------------------
(* The statement and the balance *)

\* A row is never older than its account: accounts go with all rows.
RowsHaveAccounts == \A i \in DOMAIN ledger : ledger[i].who \in accounts

\* StatementCurrent alone is not inductive: an account made anew must not find
\* rows of its name.
Statements == StatementCurrent /\ RowsHaveAccounts

\* Rows in order, by Append.
LEMMA Appended ==
  ASSUME IInv, NEW row \in Row, ledger' = Append(ledger, row)
  PROVE  /\ DOMAIN ledger = 1 .. Len(ledger) /\ DOMAIN ledger' = 1 .. Len(ledger) + 1
         /\ Len(ledger) \in Nat
         /\ \A i \in DOMAIN ledger : ledger'[i] = ledger[i]
         /\ ledger'[Len(ledger) + 1] = row
<1>1. ledger \in Seq(Row)
  BY DEF IInv, TypeOK
<1>2. QED
  BY <1>1

\* No account other than the demo player's, nor its rows or its balance, are touched.
LEMMA StatementsApart ==
  ASSUME Statements, ledger' = ledger,
         \A p : OpenedWith(p) \subseteq OpenedWith(p)',
         accounts \subseteq accounts', accounts' \subseteq accounts \cup {Demo},
         \A p \in accounts \ {Demo} : balance'[p] = balance[p]
  PROVE  Statements'
<1>1. RowsHaveAccounts'
  BY DEF Statements, RowsHaveAccounts
<1>2. StatementCurrent'
  <2> SUFFICES ASSUME NEW p \in accounts' \ {Demo}
               PROVE  /\ (\A i \in DOMAIN ledger : ledger[i].who # p) => balance'[p] \in OpenedWith(p)'
                      /\ \A i \in DOMAIN ledger : IsLastRow(i, p) => balance'[p] = ledger[i].after
    BY DEF StatementCurrent, IsLastRow
  <2>1. p \in accounts \ {Demo} /\ balance'[p] = balance[p]
    OBVIOUS
  <2>2. QED
    BY <2>1 DEF Statements, StatementCurrent
<1>3. QED
  BY <1>1, <1>2 DEF Statements

\* Every step but a bet's, a payout's look at its bet, and a new request, leaves
\* the requests alone; those do not touch an answered one.
LEMMA AnsweredKept ==
  ASSUME IInv, [Next]_vars
  PROVE  \A s \in Reqs : pc[s] \in {"ok", "error"} => pc'[s] = pc[s] /\ req'[s] = req[s]
<1>1. /\ pc \in [Reqs -> {"unsent"} \cup Steps \cup Answers]
      /\ req \in [Reqs -> Request \cup {Unsent}]
  BY DEF IInv, TypeOK
<1>2. ASSUME NEW r \in Reqs, NEW step, pc' = [pc EXCEPT ![r] = step], pc[r] \notin {"ok", "error"},
             \A s \in Reqs : s # r => req'[s] = req[s]
      PROVE  \A s \in Reqs : pc[s] \in {"ok", "error"} => pc'[s] = pc[s] /\ req'[s] = req[s]
  BY <1>1, <1>2
<1>3. ASSUME NEW r \in Reqs, Receive(r) PROVE \A s \in Reqs : pc[s] \in {"ok", "error"} => pc'[s] = pc[s] /\ req'[s] = req[s]
  BY <1>1, <1>2, <1>3 DEF Receive
<1>4. ASSUME NEW r \in Reqs, FindOpenBet(r) PROVE \A s \in Reqs : pc[s] \in {"ok", "error"} => pc'[s] = pc[s] /\ req'[s] = req[s]
  BY <1>1, <1>2, <1>4 DEF FindOpenBet, Goto
<1>5. ASSUME NEW r \in Reqs,
             \/ CheckExists(r) \/ CreateAccount(r) \/ ReadBalance(r) \/ Replenish(r) \/ Commit(r)
             \/ Publish(r) \/ Wipe(r) \/ SeedDemoPlayer(r) \/ Fail(r)
      PROVE  \A s \in Reqs : pc[s] \in {"ok", "error"} => pc'[s] = pc[s] /\ req'[s] = req[s]
  <2>1. \E step : pc' = [pc EXCEPT ![r] = step]
    BY <1>5 DEF CheckExists, CreateAccount, ReadBalance, Replenish, Commit, Publish, Wipe,
                SeedDemoPlayer, Fail, Goto
  <2>2. req' = req /\ pc[r] \notin {"ok", "error"}
    BY <1>5 DEF CheckExists, CreateAccount, ReadBalance, Replenish, Commit, Publish, Wipe,
                SeedDemoPlayer, Fail, Steps
  <2>3. QED
    BY <1>2, <2>1, <2>2
<1>6. CASE Restart
  BY <1>6 DEF Restart, InFlight, Steps
<1>7. CASE UNCHANGED vars
  BY <1>7 DEF vars
<1>8. QED
  BY <1>3, <1>4, <1>5, <1>6, <1>7 DEF Next, Handle

LEMMA CreateAccountStatements ==
  ASSUME IInv, Statements, \A p : OpenedWith(p) \subseteq OpenedWith(p)',
         NEW r \in Reqs, CreateAccount(r)
  PROVE  Statements'
<1> DEFINE opening == Stored(req[r].amt)
<1>0. PICK new \in Players : new = req[r].who
  BY DEF CreateAccount, IInv, TypeOK, Request
<1>1. CASE new \in accounts
  <2>1. UNCHANGED <<accounts, balance, ledger>>
    BY <1>0, <1>1 DEF CreateAccount
  <2>2. QED
    BY <2>1, StatementsApart
<1>2. CASE new \notin accounts
  <2>1. /\ accounts' = accounts \cup {new} /\ ledger' = ledger
        /\ balance' = [balance EXCEPT ![new] = opening]
    BY <1>0, <1>2 DEF CreateAccount
  <2>2. /\ pc[r] = "create" /\ req[r].op = "account" /\ req' = req
        /\ balance \in [Players -> Int] /\ accounts \subseteq Players
        /\ pc' \in {[pc EXCEPT ![r] = "ok"], [pc EXCEPT ![r] = "error"]}
        /\ pc \in [Reqs -> {"unsent"} \cup Steps \cup Answers]
    BY <1>0, <1>2 DEF CreateAccount, IInv, TypeOK, HeldBalances, Request
  <2>3. opening \in OpenedWith(new)'
    BY <1>0, <2>2 DEF OpenedWith
  <2> HIDE DEF opening
  <2>4. balance'[new] \in OpenedWith(new)' /\ \A p \in accounts : balance'[p] = balance[p]
    BY <1>2, <2>1, <2>2, <2>3
  <2>5. \A i \in DOMAIN ledger : ledger[i].who # new
    BY <1>2 DEF Statements, RowsHaveAccounts
  <2>6. RowsHaveAccounts'
    BY <2>1 DEF Statements, RowsHaveAccounts
  <2>7. StatementCurrent'
    <3> SUFFICES ASSUME NEW p \in accounts' \ {Demo}
                 PROVE  /\ (\A i \in DOMAIN ledger : ledger[i].who # p) => balance'[p] \in OpenedWith(p)'
                        /\ \A i \in DOMAIN ledger : IsLastRow(i, p) => balance'[p] = ledger[i].after
      BY <2>1 DEF StatementCurrent, IsLastRow
    <3>1. CASE p = new
      BY <2>4, <2>5, <3>1 DEF IsLastRow
    <3>2. CASE p # new
      BY <2>1, <2>4, <3>2 DEF Statements, StatementCurrent
    <3>3. QED
      BY <3>1, <3>2
  <2>8. QED
    BY <2>6, <2>7 DEF Statements
<1>3. QED
  BY <1>1, <1>2

\* The balance and the last row are written together.
LEMMA CommitStatements ==
  ASSUME IInv, Statements, \A p : OpenedWith(p) \subseteq OpenedWith(p)', NEW r \in Reqs, Commit(r)
  PROVE  Statements'
<1> DEFINE who == req[r].who
           row == RowOf(r)
           last == Len(ledger) + 1
<1>1. CASE who \notin accounts
  <2>1. UNCHANGED <<accounts, balance, ledger>>
    BY <1>1 DEF Commit
  <2>2. QED
    BY <2>1, StatementsApart
<1>2. CASE who \in accounts
  <2>1. /\ accounts' = accounts
        /\ balance' = [balance EXCEPT ![who] = seen[r].after]
        /\ ledger' = Append(ledger, row)
    BY <1>2 DEF Commit
  <2>2. row \in Row /\ row.who = who /\ row.after = seen[r].after
    BY RowOfAddsUp DEF Commit
  <2>3. /\ DOMAIN ledger = 1 .. Len(ledger) /\ DOMAIN ledger' = 1 .. Len(ledger) + 1
        /\ Len(ledger) \in Nat
        /\ \A i \in DOMAIN ledger : ledger'[i] = ledger[i]
        /\ ledger'[last] = row
    BY <2>1, <2>2, Appended
  <2>4. balance \in [Players -> Int] /\ accounts \subseteq Players
    BY DEF IInv, TypeOK
  <2>5. balance'[who] = row.after /\ \A p \in accounts \ {who} : balance'[p] = balance[p]
    BY <1>2, <2>1, <2>2, <2>4
  <2>6. \A i \in DOMAIN ledger' : i \in DOMAIN ledger \/ i = last
    BY <2>3
  <2>7. last \in DOMAIN ledger' /\ \A i \in DOMAIN ledger : i < last /\ i \in DOMAIN ledger'
    BY <2>3
  <2> HIDE DEF who, row, last
  <2>8. RowsHaveAccounts'
    BY <1>2, <2>1, <2>2, <2>3, <2>6 DEF Statements, RowsHaveAccounts
  <2>9. StatementCurrent'
    <3> SUFFICES ASSUME NEW p \in accounts \ {Demo}
                 PROVE  /\ (\A i \in DOMAIN ledger' : ledger'[i].who # p) => balance'[p] \in OpenedWith(p)'
                        /\ \A i \in DOMAIN ledger' : IsLastRow(i, p)' => balance'[p] = ledger'[i].after
      BY <2>1 DEF StatementCurrent
    <3>1. CASE p = who
      <4>1. ledger'[last].who = p
        BY <2>2, <2>3, <3>1
      <4>2. ASSUME NEW i \in DOMAIN ledger', IsLastRow(i, p)' PROVE i = last
        BY <2>6, <2>7, <4>1, <4>2 DEF IsLastRow
      <4>3. QED
        BY <2>3, <2>5, <2>7, <3>1, <4>1, <4>2
    <3>2. CASE p # who
      <4>1. ledger'[last].who # p
        BY <2>2, <2>3, <3>2
      <4>2. ASSUME NEW i \in DOMAIN ledger', IsLastRow(i, p)'
            PROVE  i \in DOMAIN ledger /\ IsLastRow(i, p)
        <5>1. i \in DOMAIN ledger
          BY <2>6, <4>1, <4>2 DEF IsLastRow
        <5>2. QED
          BY <2>3, <2>7, <4>2, <5>1 DEF IsLastRow
      <4>3. (\A i \in DOMAIN ledger' : ledger'[i].who # p) => \A i \in DOMAIN ledger : ledger[i].who # p
        BY <2>3, <2>7
      <4>4. balance'[p] = balance[p]
        BY <2>5, <3>2
      <4>5. QED
        BY <2>3, <4>2, <4>3, <4>4 DEF Statements, StatementCurrent
    <3>3. QED
      BY <3>1, <3>2
  <2>10. QED
    BY <2>8, <2>9 DEF Statements
<1>3. QED
  BY <1>1, <1>2

LEMMA StatementsNext == IInv /\ Statements /\ [Next]_vars => Statements'
<1> SUFFICES ASSUME IInv, Statements, [Next]_vars PROVE Statements'
  OBVIOUS
<1>0. \A p : OpenedWith(p) \subseteq OpenedWith(p)'
  BY AnsweredKept, OpenersKept
<1>1. ASSUME UNCHANGED <<accounts, balance, ledger>> PROVE Statements'
  BY <1>0, <1>1, StatementsApart
<1>2. ASSUME NEW r \in Reqs, Receive(r) \/ CheckExists(r) \/ FindOpenBet(r) \/ ReadBalance(r)
                             \/ Publish(r) \/ Fail(r)
      PROVE  Statements'
  BY <1>1, <1>2 DEF Receive, CheckExists, FindOpenBet, ReadBalance, Publish, Fail
<1>3. ASSUME NEW r \in Reqs, CreateAccount(r) PROVE Statements'
  BY <1>0, <1>3, CreateAccountStatements
<1>4. ASSUME NEW r \in Reqs, Commit(r) PROVE Statements'
  BY <1>0, <1>4, CommitStatements
<1>5. balance \in [Players -> Int] /\ accounts \subseteq Players
  BY DEF IInv, TypeOK
<1>6. ASSUME NEW r \in Reqs, Replenish(r) PROVE Statements'
  <2>1. /\ accounts' = accounts /\ ledger' = ledger
        /\ \A p \in accounts \ {Demo} : balance'[p] = balance[p]
    BY <1>5, <1>6 DEF Replenish
  <2>2. QED
    BY <1>0, <2>1, StatementsApart
<1>7. ASSUME NEW r \in Reqs, Wipe(r) PROVE Statements'
  BY <1>7 DEF Wipe, Statements, StatementCurrent, RowsHaveAccounts
<1>8. ASSUME accounts' = accounts \cup {Demo}, balance' = Seeded(accounts, balance), ledger' = ledger
      PROVE  Statements'
  <2>1. \A p \in accounts \ {Demo} : balance'[p] = balance[p]
    BY <1>5, <1>8 DEF Seeded
  <2>2. QED
    BY <1>0, <1>8, <2>1, StatementsApart
<1>9. QED
  BY <1>1, <1>2, <1>3, <1>4, <1>6, <1>7, <1>8 DEF Next, Handle, SeedDemoPlayer, Restart, vars

LEMMA StatementsInvariance == Spec => [](IInv /\ Statements)
<1>1. Init => Statements
  <2> SUFFICES ASSUME Init PROVE Statements
    OBVIOUS
  <2>1. accounts \ {Demo} = {} /\ DOMAIN ledger = {}
    BY DEF Init
  <2>2. StatementCurrent
    BY <2>1 DEF StatementCurrent
  <2>3. RowsHaveAccounts
    BY <2>1 DEF RowsHaveAccounts
  <2>4. QED
    BY <2>2, <2>3 DEF Statements
<1>2. IInv /\ Statements /\ [Next]_vars => Statements'
  BY StatementsNext
<1>3. QED
  BY <1>1, <1>2, Invariance, PTL DEF Spec

\* Every account but the demo's shows the balance that its last row says, or
\* one that it was opened with, however its handlers overlap, fail and restart.
THEOREM StatementsAreCurrent == Spec => []StatementCurrent
<1>1. Statements => StatementCurrent
  BY DEF Statements
<1>2. QED
  BY <1>1, StatementsInvariance, PTL

-----------------------------------------------------------------------------
(* Payouts and the bets they settle *)

\* An open bet is the one its request asked for.
BetsKnown ==
  \A bet \in openBets :
    /\ pc[bet.id] # "unsent"
    /\ req[bet.id].op = "bet" /\ req[bet.id].who = bet.who
    /\ Stored(req[bet.id].amt) = bet.amt /\ Cents(req[bet.id].amt) > 0

\* A payout names a bet, and past its look at the open bet it has taken over
\* the player and the stored stake of it, and has a known result.
PayoutsRead ==
  \A r \in Reqs : pc[r] # "unsent" /\ req[r].op = "payout" =>
    LET bet == req[req[r].ref]
    IN  /\ bet.op = "bet"
        /\ pc[r] \in Writing => /\ req[r].who = bet.who /\ req[r].amt = 10 * Stored(bet.amt)
                               /\ Cents(bet.amt) > 0 /\ Known(req[r].res)

Settlements == BetsKnown /\ PayoutsRead /\ PayoutMatchesBet

\* CALC-PAYOUT returns what the rules give for a stake.
LEMMA PayoutIsDue ==
  ASSUME NEW bet \in Int, NEW result, Known(result)
  PROVE  CalcPayout(bet, result) = Due(bet, result)
<1>1. bet + (bet * 3) \div 2 = (bet * 5) \div 2
  OBVIOUS
<1>2. QED
  BY <1>1 DEF CalcPayout, Due, Known

\* Only a payout's handler changes its copy of its request, and bets stay as
\* they were sent.
LEMMA SettlementsKept ==
  ASSUME IInv, Settlements, openBets' \subseteq openBets, ledger' = ledger \/ ledger' = <<>>,
         req' = req,
         \A r \in Reqs : pc'[r] # "unsent" => pc[r] # "unsent",
         \A r \in Reqs : pc[r] # "unsent" => pc'[r] # "unsent",
         \A r \in Reqs : pc'[r] \in Writing => pc[r] \in Writing
  PROVE  Settlements'
<1>1. BetsKnown'
  BY DEF Settlements, BetsKnown, IInv, TypeOK, OpenBet
<1>2. PayoutsRead'
  BY DEF Settlements, PayoutsRead
<1>3. PayoutMatchesBet'
  BY DEF Settlements, PayoutMatchesBet, Settles
<1>4. QED
  BY <1>1, <1>2, <1>3 DEF Settlements

LEMMA ReceiveSettlements ==
  ASSUME IInv, Settlements, NEW r \in Reqs, Receive(r)
  PROVE  Settlements'
<1>1. PICK q \in Sendable : req' = [req EXCEPT ![r] = q] /\ pc' = [pc EXCEPT ![r] = FirstStep(q)]
  BY DEF Receive
<1>2. /\ pc[r] = "unsent" /\ UNCHANGED <<openBets, ledger>>
      /\ pc \in [Reqs -> {"unsent"} \cup Steps \cup Answers]
      /\ req \in [Reqs -> Request \cup {Unsent}]
      /\ openBets \subseteq OpenBet
  BY DEF Receive, IInv, TypeOK
<1>3. q.op = "payout" => q.ref \in Reqs /\ pc[q.ref] = "ok" /\ req[q.ref].op = "bet" /\ FirstStep(q) = "openbet"
  BY DEF Sendable, Monetary, Debits, FirstStep
<1>4. FirstStep(q) # "unsent"
  BY DEF FirstStep
<1>5. BetsKnown'
  BY <1>1, <1>2 DEF Settlements, BetsKnown, OpenBet, FirstStep
<1>6. PayoutsRead'
  <2> SUFFICES ASSUME NEW s \in Reqs, pc'[s] # "unsent", req'[s].op = "payout"
               PROVE  /\ req'[req'[s].ref].op = "bet"
                      /\ pc'[s] \in Writing =>
                           /\ req'[s].who = req'[req'[s].ref].who
                           /\ req'[s].amt = 10 * Stored(req'[req'[s].ref].amt)
                           /\ Cents(req'[req'[s].ref].amt) > 0 /\ Known(req'[s].res)
    BY DEF PayoutsRead
  <2>1. CASE s = r
    <3>1. req'[s] = q /\ pc'[s] = "openbet" /\ q.ref # r
      BY <1>1, <1>2, <1>3, <2>1
    <3>2. req'[q.ref] = req[q.ref]
      BY <1>1, <1>2, <3>1
    <3>3. QED
      BY <1>1, <1>2, <1>3, <3>1, <3>2 DEF Writing
  <2>2. CASE s # r
    <3>1. req'[s] = req[s] /\ pc'[s] = pc[s]
      BY <1>1, <1>2, <2>2
    <3>2. req[s].ref \in Reqs /\ req[s].ref # r
      BY <1>2, <3>1 DEF IInv, PayoutsNameBets, Answers
    <3>3. req'[req[s].ref] = req[req[s].ref]
      BY <1>1, <1>2, <3>2
    <3>4. QED
      BY <3>1, <3>3 DEF Settlements, PayoutsRead
  <2>3. QED
    BY <2>1, <2>2
<1>7. PayoutMatchesBet'
  <2>1. \A i \in DOMAIN ledger : ledger[i].type \in Payouts =>
          ledger[i].ref \in Reqs /\ ledger[i].ref # r
    BY <1>2 DEF IInv, PayoutsNameBets, Answers
  <2>2. \A s \in Reqs : s # r => req'[s] = req[s] /\ pc'[s] = pc[s]
    BY <1>1, <1>2
  <2>3. \A s \in Reqs : \A b : Settles(s, b) => s # r
    BY <1>2 DEF Settles
  <2>4. QED
    BY <1>2, <2>1, <2>2, <2>3 DEF Settlements, PayoutMatchesBet, Settles
<1>8. QED
  BY <1>5, <1>6, <1>7 DEF Settlements

\* The player and the stake are those of the open bet.
LEMMA FindOpenBetSettlements ==
  ASSUME IInv, Settlements, NEW r \in Reqs, FindOpenBet(r)
  PROVE  Settlements'
<1>1. /\ pc[r] = "openbet" /\ req[r] \in Request /\ req[r].op = "payout"
      /\ UNCHANGED <<openBets, ledger>>
      /\ pc \in [Reqs -> {"unsent"} \cup Steps \cup Answers]
      /\ req \in [Reqs -> Request \cup {Unsent}]
      /\ openBets \subseteq OpenBet
  BY DEF FindOpenBet, IInv, TypeOK, HeldBalances
<1>2. CASE \A bet \in openBets : bet.id # req[r].ref
  <2>1. pc' = [pc EXCEPT ![r] = "notfound"] /\ req' = req
    BY <1>2 DEF FindOpenBet, Goto
  <2>2. QED
    BY <1>1, <2>1, SettlementsKept DEF Writing
<1>3. CASE \E bet \in openBets : bet.id = req[r].ref
  <2>1. PICK bet \in openBets :
          /\ bet.id = req[r].ref
          /\ Goto(r, IF Known(req[r].res) THEN "balance" ELSE "invalid")
          /\ req' = [req EXCEPT ![r].who = bet.who, ![r].amt = 10 * bet.amt]
    BY <1>3 DEF FindOpenBet
  <2>2. /\ \A s \in Reqs : s # r => req'[s] = req[s] /\ pc'[s] = pc[s]
        /\ req'[r].op = "payout" /\ req'[r].ref = req[r].ref
        /\ req'[r].who = bet.who /\ req'[r].amt = 10 * bet.amt /\ req'[r].res = req[r].res
        /\ pc'[r] # "unsent" /\ (pc'[r] \in Writing => Known(req[r].res))
    BY <1>1, <2>1 DEF Goto, Request, Writing
  <2>3. \A s \in Reqs : pc[s] # "unsent" /\ req[s].op = "payout" => req[s].ref \in Reqs /\ req[s].ref # r
    BY <1>1 DEF IInv, PayoutsNameBets, Answers
  <2>4. BetsKnown'
    <3>1. \A b \in openBets : b.id \in Reqs /\ b.id # r
      BY <1>1 DEF Settlements, BetsKnown, OpenBet
    <3>2. QED
      BY <1>1, <2>2, <3>1 DEF Settlements, BetsKnown
  <2>5. PayoutsRead'
    <3> SUFFICES ASSUME NEW s \in Reqs, pc'[s] # "unsent", req'[s].op = "payout"
                 PROVE  /\ req'[req'[s].ref].op = "bet"
                        /\ pc'[s] \in Writing =>
                             /\ req'[s].who = req'[req'[s].ref].who
                             /\ req'[s].amt = 10 * Stored(req'[req'[s].ref].amt)
                             /\ Cents(req'[req'[s].ref].amt) > 0 /\ Known(req'[s].res)
      BY DEF PayoutsRead
    <3>1. CASE s = r
      <4>1. req'[s].ref = bet.id /\ bet.id \in Reqs /\ bet.id # r
        BY <1>1, <2>1, <2>2, <2>3, <3>1
      <4>2. req'[bet.id] = req[bet.id]
        BY <2>2, <4>1
      <4>3. QED
        BY <2>2, <3>1, <4>1, <4>2 DEF Settlements, BetsKnown
    <3>2. CASE s # r
      <4>1. req'[s] = req[s] /\ pc'[s] = pc[s]
        BY <2>2, <3>2
      <4>2. req'[req[s].ref] = req[req[s].ref]
        BY <2>2, <2>3, <4>1
      <4>3. QED
        BY <4>1, <4>2 DEF Settlements, PayoutsRead
    <3>3. QED
      BY <3>1, <3>2
  <2>6. PayoutMatchesBet'
    <3>1. \A i \in DOMAIN ledger : ledger[i].type \in Payouts =>
            ledger[i].ref \in Reqs /\ ledger[i].ref # r
      BY <1>1 DEF IInv, PayoutsNameBets, Answers
    <3>2. \A s \in Reqs : \A b : Settles(s, b) => Settles(s, b)' /\ req'[s].res = req[s].res
      BY <1>1, <2>2 DEF Settles
    <3>3. QED
      BY <1>1, <2>2, <3>1, <3>2 DEF Settlements, PayoutMatchesBet
  <2>7. QED
    BY <2>4, <2>5, <2>6 DEF Settlements
<1>4. QED
  BY <1>2, <1>3

LEMMA CommitSettlements ==
  ASSUME IInv, Settlements, NEW r \in Reqs, Commit(r)
  PROVE  Settlements'
<1> DEFINE q == req[r]
           row == RowOf(r)
<1>1. /\ pc[r] = "commit" /\ q \in Request /\ req' = req
      /\ pc \in [Reqs -> {"unsent"} \cup Steps \cup Answers]
      /\ openBets \subseteq OpenBet
  BY DEF Commit, IInv, TypeOK
<1>2. PICK step \in {"ok", "publish", "error"} : pc' = [pc EXCEPT ![r] = step]
  BY DEF Commit, Goto
<1>3. /\ \A s \in Reqs : pc'[s] # "unsent" => pc[s] # "unsent"
      /\ \A s \in Reqs : pc[s] # "unsent" => pc'[s] # "unsent"
      /\ \A s \in Reqs : pc'[s] \in Writing => pc[s] \in Writing
  BY <1>1, <1>2 DEF Writing
<1>4. CASE q.who \notin accounts
  <2>1. UNCHANGED <<ledger, openBets>>
    BY <1>4 DEF Commit
  <2>2. QED
    BY <1>1, <1>3, <2>1, SettlementsKept
<1>5. CASE q.who \in accounts
  <2>1. ledger' = Append(ledger, row) /\ openBets' = BetsAfter(r)
    BY <1>5 DEF Commit
  <2>2. /\ row \in Row /\ row.who = q.who /\ row.ref = q.ref /\ row.amt = Recorded(q)
        /\ row.type \in Payouts <=> q.op = "payout"
        /\ row.type = RowType(q)
    BY <1>1, RowOfAddsUp DEF RowOf
  <2>3. /\ DOMAIN ledger = 1 .. Len(ledger) /\ DOMAIN ledger' = 1 .. Len(ledger) + 1
        /\ Len(ledger) \in Nat
        /\ \A i \in DOMAIN ledger : ledger'[i] = ledger[i]
        /\ ledger'[Len(ledger) + 1] = row
    BY <2>1, <2>2, Appended
  <2>4. \A bet \in openBets' :
          bet \in openBets \/ (q.op = "bet" /\ bet = [id |-> r, who |-> q.who, amt |-> Stored(q.amt)])
    BY <2>1 DEF BetsAfter, BetRow
  <2>5. BetsKnown'
    <3>1. q.op = "bet" => Cents(q.amt) > 0
      BY <1>1 DEF IInv, HeldBalances, Writing, Monetary, Debits
    <3>2. QED
      BY <1>1, <1>3, <2>4, <3>1 DEF Settlements, BetsKnown, OpenBet
  <2>6. PayoutsRead'
    BY <1>1, <1>3 DEF Settlements, PayoutsRead
  <2>7. row.type \in Payouts =>
          LET bet == req[row.ref]
          IN  /\ bet.op = "bet" /\ row.who = bet.who
              /\ Settles(r, row.ref) /\ Known(q.res) /\ row.type = PayoutType(q.res)
              /\ row.amt = Due(Unsigned(Stored(bet.amt)), q.res)
    <3> SUFFICES ASSUME q.op = "payout"
                 PROVE  LET bet == req[row.ref]
                        IN  /\ bet.op = "bet" /\ row.who = bet.who
                            /\ Settles(r, row.ref) /\ Known(q.res) /\ row.type = PayoutType(q.res)
                            /\ row.amt = Due(Unsigned(Stored(bet.amt)), q.res)
      BY <2>2
    <3> DEFINE bet == req[q.ref]
    <3>1. /\ bet.op = "bet" /\ q.who = bet.who /\ q.amt = 10 * Stored(bet.amt)
          /\ Cents(bet.amt) > 0 /\ Known(q.res)
      BY <1>1 DEF Settlements, PayoutsRead, Writing
    <3>2. bet.amt \in Int
      <4>1. q.ref \in Reqs /\ pc[q.ref] # "unsent"
        BY <1>1 DEF IInv, PayoutsNameBets, Answers
      <4>2. QED
        BY <4>1 DEF IInv, TypeOK, Request
    <3>3. row.amt = CalcPayout(Unsigned(Cents(q.amt)), q.res)
      BY <2>2 DEF Recorded, Moved
    <3>4. Unsigned(Cents(q.amt)) = Unsigned(Stored(bet.amt)) /\ Unsigned(Stored(bet.amt)) \in Int
      BY <3>1, <3>2, StakeReadBack, Conversions
    <3>5. row.amt = Due(Unsigned(Stored(bet.amt)), q.res)
      BY <3>1, <3>3, <3>4, PayoutIsDue
    <3>6. Settles(r, row.ref) /\ row.type = PayoutType(q.res)
      BY <1>1, <2>2 DEF Settles, RowType
    <3>7. QED
      BY <2>2, <3>1, <3>5, <3>6
  <2> HIDE DEF q, row
  <2>8. PayoutMatchesBet'
    <3>0. \A s \in Reqs : \A b : Settles(s, b) => pc'[s] # "unsent" /\ req[s].op = "payout" /\ req[s].ref = b
      BY <1>3 DEF Settles
    <3> SUFFICES ASSUME NEW i \in DOMAIN ledger', ledger'[i].type \in Payouts
                 PROVE  LET bet == req[ledger'[i].ref]
                        IN  /\ bet.op = "bet" /\ ledger'[i].who = bet.who
                            /\ \E s \in Reqs :
                                 /\ pc'[s] # "unsent" /\ req[s].op = "payout"
                                 /\ req[s].ref = ledger'[i].ref /\ Known(req[s].res)
                                 /\ ledger'[i].type = PayoutType(req[s].res)
                                 /\ ledger'[i].amt = Due(Unsigned(Stored(bet.amt)), req[s].res)
      BY <1>1 DEF PayoutMatchesBet, Settles
    <3>1. i \in DOMAIN ledger \/ ledger'[i] = row
      BY <2>3
    <3>2. CASE i \in DOMAIN ledger
      BY <2>3, <3>0, <3>2 DEF Settlements, PayoutMatchesBet
    <3>3. CASE ledger'[i] = row
      BY <2>7, <3>0, <3>3 DEF q
    <3>4. QED
      BY <3>1, <3>2, <3>3
  <2>9. QED
    BY <2>5, <2>6, <2>8 DEF Settlements
<1>6. QED
  BY <1>4, <1>5

LEMMA SettlementsNext == IInv /\ Settlements /\ [Next]_vars => Settlements'
<1> SUFFICES ASSUME IInv, Settlements, [Next]_vars PROVE Settlements'
  OBVIOUS
<1>1. pc \in [Reqs -> {"unsent"} \cup Steps \cup Answers]
  BY DEF IInv, TypeOK
<1>2. ASSUME NEW r \in Reqs, Receive(r) PROVE Settlements'
  BY <1>2, ReceiveSettlements
<1>3. ASSUME NEW r \in Reqs, FindOpenBet(r) PROVE Settlements'
  BY <1>3, FindOpenBetSettlements
<1>4. ASSUME NEW r \in Reqs, Commit(r) PROVE Settlements'
  BY <1>4, CommitSettlements
<1>5. ASSUME NEW r \in Reqs, NEW step \in Steps \cup Answers, pc' = [pc EXCEPT ![r] = step],
             pc[r] # "unsent", step \in Writing => pc[r] \in Writing \cup {"replenish"},
             req' = req, openBets' \subseteq openBets, ledger' = ledger \/ ledger' = <<>>,
             pc[r] = "replenish" => req[r].op = "bet"
      PROVE  Settlements'
  <2>1. /\ \A s \in Reqs : pc'[s] # "unsent" <=> pc[s] # "unsent"
        /\ \A s \in Reqs : s # r => pc'[s] = pc[s]
        /\ pc'[r] \in Writing => pc[r] \in Writing \/ req[r].op = "bet"
    BY <1>1, <1>5 DEF Steps, Answers
  <2>2. BetsKnown'
    BY <1>5, <2>1 DEF Settlements, BetsKnown, IInv, TypeOK, OpenBet
  <2>3. PayoutMatchesBet'
    <3>1. \A s \in Reqs : \A b : Settles(s, b) => Settles(s, b)'
      BY <1>5, <2>1 DEF Settles
    <3>2. QED
      BY <1>5, <3>1 DEF Settlements, PayoutMatchesBet
  <2>4. PayoutsRead'
    BY <1>5, <2>1 DEF Settlements, PayoutsRead
  <2>5. QED
    BY <2>2, <2>3, <2>4 DEF Settlements
<1>6. ASSUME NEW r \in Reqs, CheckExists(r) \/ CreateAccount(r) PROVE Settlements'
  <2>1. PICK step \in {"conflict", "create", "error", "ok"} : pc' = [pc EXCEPT ![r] = step]
    BY <1>6 DEF CheckExists, CreateAccount, Goto
  <2>2. pc[r] \in {"exists", "create"} /\ UNCHANGED <<req, openBets, ledger>>
    BY <1>6 DEF CheckExists, CreateAccount
  <2>3. step \in Steps \cup Answers /\ step \notin Writing
    BY DEF Steps, Answers, Writing
  <2>4. QED
    BY <1>5, <2>1, <2>2, <2>3
<1>7. ASSUME NEW r \in Reqs, ReadBalance(r) \/ Replenish(r) PROVE Settlements'
  <2>1. PICK step \in {"replenish", "insufficient", "commit", "error", "notfound"} :
          pc' = [pc EXCEPT ![r] = step]
    BY <1>7 DEF ReadBalance, Replenish, AfterBalance, Goto
  <2>2. pc[r] \in {"balance", "replenish"} /\ UNCHANGED <<req, openBets, ledger>>
    BY <1>7 DEF ReadBalance, Replenish
  <2>3. step \in Steps \cup Answers /\ (pc[r] = "replenish" => req[r].op = "bet")
    BY DEF Steps, Answers, IInv, HeldBalances
  <2>4. pc[r] \in Writing \cup {"replenish"}
    BY <2>2 DEF Writing
  <2>5. QED
    BY <1>5, <2>1, <2>2, <2>3, <2>4
<1>8. ASSUME NEW r \in Reqs, Publish(r) \/ Wipe(r) \/ SeedDemoPlayer(r) \/ Fail(r) PROVE Settlements'
  <2>1. PICK step \in {"ok", "seed", "notfound", "error"} : pc' = [pc EXCEPT ![r] = step]
    BY <1>8 DEF Publish, Wipe, SeedDemoPlayer, Fail, Goto
  <2>2. /\ pc[r] # "unsent" /\ req' = req
        /\ openBets' \subseteq openBets /\ (ledger' = ledger \/ ledger' = <<>>)
    BY <1>8 DEF Publish, Wipe, SeedDemoPlayer, Fail, Steps
  <2>3. /\ step \in Steps \cup Answers /\ step \notin Writing
        /\ pc[r] = "replenish" => req[r].op = "bet"
    BY DEF Steps, Answers, Writing, IInv, HeldBalances
  <2>4. QED
    BY <1>5, <2>1, <2>2, <2>3
<1>9. CASE Restart
  <2>1. UNCHANGED <<req, openBets, ledger>>
    BY <1>9 DEF Restart
  <2>2. \A s \in Reqs : pc'[s] = pc[s] \/ (pc[s] \in Steps /\ pc'[s] = "error")
    BY <1>9 DEF Restart, InFlight
  <2>3. /\ \A s \in Reqs : pc'[s] # "unsent" <=> pc[s] # "unsent"
        /\ \A s \in Reqs : pc'[s] \in Writing => pc[s] \in Writing
    BY <2>2 DEF Steps, Writing
  <2>4. QED
    BY <2>1, <2>3, SettlementsKept
<1>10. CASE UNCHANGED vars
  BY <1>10, SettlementsKept DEF vars
<1>11. QED
  BY <1>2, <1>3, <1>4, <1>6, <1>7, <1>8, <1>9, <1>10 DEF Next, Handle

\* Whatever overlaps, fails or restarts: a payout goes to the player who placed
\* the bet, and returns what the rules give for its stored stake and a result
\* that some caller reported (payoutHandler, CALC-PAYOUT).
THEOREM PayoutsMatchTheirBets == Spec => []PayoutMatchesBet
<1>1. Init => Settlements
  BY DEF Init, Settlements, BetsKnown, PayoutsRead, PayoutMatchesBet
<1>2. IInv /\ Settlements /\ [Next]_vars => Settlements'
  BY SettlementsNext
<1>3. Settlements => PayoutMatchesBet
  BY DEF Settlements
<1>4. QED
  BY <1>1, <1>2, <1>3, Invariance, PTL DEF Spec
-----------------------------------------------------------------------------
(* The atomic operations, for callers who await their answers (Serial) *)

\* No two requests in flight are about the same account.
Apart ==
  \A r, s \in InFlight : r # s => Touches(req[r]) \cap Touches(req[s]) = {}

\* A handler is where its request sends it, and a request holds what its
\* caller sent.
AsRequested ==
  \A r \in Reqs :
    /\ pc[r] \in {"wipe", "seed"} => req[r].op = "reset"
    /\ pc[r] # "unsent" /\ req[r].op \in Monetary => req[r].amt \in Amounts
    /\ pc[r] # "unsent" /\ req[r].op = "account" => req[r].amt \in Openings \cup {10 * StartingBalance}
    /\ pc[r] # "unsent" /\ req[r].op = "payout" => req[r].who = req[req[r].ref].who

\* What a handler has read still holds when it writes: its account exists and
\* has the balance it read, and the bet it settles is still open.
ReadsStand ==
  \A r \in Reqs :
    /\ pc[r] \in {"replenish", "commit"} => req[r].who \in accounts
    /\ pc[r] = "commit" => seen[r].before = balance[req[r].who]
    /\ pc[r] \in {"balance", "commit"} /\ req[r].op = "payout" =>
         \E bet \in openBets : bet.id = req[r].ref

OpenBetsAnswered == \A bet \in openBets : pc[bet.id] \notin Steps

Undisturbed == Apart /\ AsRequested /\ ReadsStand /\ OpenBetsAnswered

\* The open bet that a request names is the player's of the request.
LEMMA OpenBetOf ==
  ASSUME IInv, Settlements, Undisturbed, NEW r \in Reqs, NEW bet \in openBets,
         pc[r] # "unsent", req[r].op = "payout", bet.id = req[r].ref
  PROVE  bet \in OpenBet /\ bet.who = req[r].who
<1>1. bet \in OpenBet
  BY DEF IInv, TypeOK
<1>2. req[r].who = req[bet.id].who
  BY DEF Undisturbed, AsRequested
<1>3. bet.who = req[bet.id].who
  BY DEF Settlements, BetsKnown
<1>4. QED
  BY <1>1, <1>2, <1>3

\* A step of request r leaves the others undisturbed when it leaves alone every
\* account that r does not touch, and the open bets of those accounts.
LEMMA StepUndisturbed ==
  ASSUME IInv, Settlements, Undisturbed,
         NEW r \in Reqs, NEW step \in Steps \cup Answers,
         pc[r] \in Steps, pc' = [pc EXCEPT ![r] = step],
         \A s \in Reqs : s # r => req'[s] = req[s] /\ seen'[s] = seen[s],
         req'[r].op = req[r].op, req'[r].who = req[r].who, req'[r].ref = req[r].ref,
         req[r].op # "payout" => req'[r] = req[r],
         step \in {"wipe", "seed"} => req[r].op = "reset",
         \A p \in Players \ Touches(req[r]) :
           (p \in accounts => p \in accounts') /\ balance'[p] = balance[p],
         \A bet \in openBets : bet.who \notin Touches(req[r]) => bet \in openBets',
         \A bet \in openBets' : bet \in openBets \/ (bet.id = r /\ step \in Answers),
         step \in {"replenish", "commit"} => req[r].who \in accounts',
         step = "commit" => seen'[r].before = balance'[req[r].who],
         step \in {"balance", "commit"} /\ req[r].op = "payout" =>
           \E bet \in openBets' : bet.id = req[r].ref
  PROVE  Undisturbed'
<1>1. /\ pc \in [Reqs -> {"unsent"} \cup Steps \cup Answers]
      /\ pc'[r] = step
      /\ \A s \in Reqs : s # r => pc'[s] = pc[s]
      /\ Steps \cap Answers = {}
  BY DEF IInv, TypeOK, Steps, Answers
<1>2. InFlight' \subseteq InFlight /\ r \in InFlight
  BY <1>1 DEF InFlight
<1>3. \A s \in Reqs : Touches(req[s])' = Touches(req[s])
  BY DEF Touches
<1>4. Apart'
  BY <1>2, <1>3 DEF Undisturbed, Apart, InFlight
<1>5. AsRequested'
  <2> SUFFICES ASSUME NEW s \in Reqs
               PROVE  /\ pc'[s] \in {"wipe", "seed"} => req'[s].op = "reset"
                      /\ pc'[s] # "unsent" /\ req'[s].op \in Monetary => req'[s].amt \in Amounts
                      /\ pc'[s] # "unsent" /\ req'[s].op = "account" =>
                           req'[s].amt \in Openings \cup {10 * StartingBalance}
                      /\ pc'[s] # "unsent" /\ req'[s].op = "payout" =>
                           req'[s].who = req'[req'[s].ref].who
    BY DEF AsRequested
  <2>1. /\ req'[s].op = req[s].op /\ req'[s].who = req[s].who /\ req'[s].ref = req[s].ref
        /\ req[s].op # "payout" => req'[s] = req[s]
        /\ pc'[s] # "unsent" => pc[s] # "unsent"
    BY <1>1 DEF Steps
  <2>2. pc'[s] \in {"wipe", "seed"} => req'[s].op = "reset"
    BY <1>1, <2>1 DEF Undisturbed, AsRequested
  <2>3. /\ pc'[s] # "unsent" /\ req'[s].op \in Monetary => req'[s].amt \in Amounts
        /\ pc'[s] # "unsent" /\ req'[s].op = "account" =>
             req'[s].amt \in Openings \cup {10 * StartingBalance}
    BY <2>1 DEF Undisturbed, AsRequested, Monetary, Debits
  <2>4. ASSUME pc'[s] # "unsent", req'[s].op = "payout" PROVE req'[s].who = req'[req'[s].ref].who
    <3>1. req[s].ref \in Reqs /\ req[s].who = req[req[s].ref].who
      BY <2>1, <2>4 DEF IInv, PayoutsNameBets, Undisturbed, AsRequested
    <3>2. \A t \in Reqs : req'[t].who = req[t].who
      OBVIOUS
    <3>3. QED
      BY <2>1, <3>1, <3>2
  <2>5. QED
    BY <2>2, <2>3, <2>4
<1>6. ASSUME NEW s \in Reqs, s # r, pc[s] \in Steps
      PROVE  req[s].who \in Players /\ req[s].who \notin Touches(req[r])
  <2>1. s \in InFlight /\ req[s].who \in Players
    BY <1>6 DEF InFlight, IInv, TypeOK, Request, Steps
  <2>2. req[s].who \in Touches(req[s])
    BY <2>1 DEF Touches
  <2>3. QED
    BY <1>2, <1>6, <2>1, <2>2 DEF Undisturbed, Apart
<1>7. ReadsStand'
  <2> SUFFICES ASSUME NEW s \in Reqs
               PROVE  /\ pc'[s] \in {"replenish", "commit"} => req'[s].who \in accounts'
                      /\ pc'[s] = "commit" => seen'[s].before = balance'[req'[s].who]
                      /\ pc'[s] \in {"balance", "commit"} /\ req'[s].op = "payout" =>
                           \E bet \in openBets' : bet.id = req'[s].ref
    BY DEF ReadsStand
  <2>1. CASE s = r
    BY <1>1, <2>1
  <2>2. CASE s # r /\ pc[s] \in Steps
    <3>1. req'[s] = req[s] /\ seen'[s] = seen[s] /\ pc'[s] = pc[s]
      BY <1>1, <2>2
    <3>2. /\ req[s].who \in accounts => req[s].who \in accounts'
          /\ balance'[req[s].who] = balance[req[s].who]
      BY <1>6, <2>2
    <3>3. ASSUME pc[s] \in {"balance", "commit"}, req[s].op = "payout"
          PROVE  \E bet \in openBets' : bet.id = req[s].ref
      <4>1. PICK bet \in openBets : bet.id = req[s].ref
        BY <3>3 DEF Undisturbed, ReadsStand
      <4>2. bet.who \notin Touches(req[r])
        BY <1>6, <2>2, <3>3, <4>1, OpenBetOf
      <4>3. QED
        BY <4>1, <4>2
    <3>4. QED
      BY <3>1, <3>2, <3>3 DEF Undisturbed, ReadsStand
  <2>3. CASE s # r /\ pc[s] \notin Steps
    BY <1>1, <2>3 DEF Steps
  <2>4. QED
    BY <2>1, <2>2, <2>3
<1>8. OpenBetsAnswered'
  <2> SUFFICES ASSUME NEW bet \in openBets' PROVE pc'[bet.id] \notin Steps
    BY DEF OpenBetsAnswered
  <2>1. CASE bet \in openBets
    <3>1. pc[bet.id] \notin Steps /\ bet.id \in Reqs
      BY <2>1 DEF Undisturbed, OpenBetsAnswered, IInv, TypeOK, OpenBet
    <3>2. QED
      BY <1>1, <3>1
  <2>2. CASE bet.id = r /\ step \in Answers
    BY <1>1, <2>2
  <2>3. QED
    BY <2>1, <2>2
<1>9. QED
  BY <1>4, <1>5, <1>7, <1>8 DEF Undisturbed

\* The caller sends nothing about an account of which a request is in flight.
LEMMA ReceiveUndisturbed ==
  ASSUME Serial, IInv, Settlements, Undisturbed, NEW r \in Reqs, Receive(r)
  PROVE  Undisturbed'
<1>1. PICK q \in Sendable : /\ CallerMaySend(q)
                            /\ req' = [req EXCEPT ![r] = q]
                            /\ pc' = [pc EXCEPT ![r] = FirstStep(q)]
  BY DEF Receive
<1>2. /\ pc[r] = "unsent" /\ UNCHANGED <<accounts, balance, openBets, seen>>
      /\ pc \in [Reqs -> {"unsent"} \cup Steps \cup Answers]
      /\ req \in [Reqs -> Request \cup {Unsent}]
  BY DEF Receive, IInv, TypeOK
<1>3. /\ q \in Request /\ (q.op = "payout" => q.ref \in Reqs /\ pc[q.ref] = "ok")
      /\ q.op = "payout" => q.who = req[q.ref].who
      /\ q.op \in Monetary => q.amt \in Amounts
      /\ q.op = "account" => q.amt \in Openings \cup {10 * StartingBalance}
  BY SentIsRequest DEF IInv, Sendable, Monetary, Debits
<1>4. /\ FirstStep(q) \in {"exists", "openbet", "wipe", "invalid", "balance"}
      /\ FirstStep(q) = "wipe" => q.op = "reset"
      /\ FirstStep(q) = "balance" => q.op \in Monetary
  BY <1>3, BankAssumption DEF FirstStep, Request, Monetary, Debits
<1>5. /\ pc'[r] = FirstStep(q) /\ req'[r] = q
      /\ \A s \in Reqs : s # r => pc'[s] = pc[s] /\ req'[s] = req[s]
  BY <1>1, <1>2
<1>6. Apart'
  <2>1. \A s \in InFlight : Touches(req[s]) \cap Touches(q) = {}
    BY <1>1 DEF CallerMaySend
  <2>2. \A s \in InFlight' : s # r => s \in InFlight
    BY <1>5 DEF InFlight
  <2>3. SUFFICES ASSUME NEW s \in InFlight', NEW t \in InFlight', s # t
                 PROVE  Touches(req'[s]) \cap Touches(req'[t]) = {}
    BY DEF Apart, Touches
  <2>4. CASE s # r /\ t # r
    <3>1. s \in InFlight /\ t \in InFlight /\ req'[s] = req[s] /\ req'[t] = req[t]
      BY <1>5, <2>2, <2>4 DEF InFlight
    <3>2. QED
      BY <2>3, <3>1 DEF Undisturbed, Apart
  <2>5. CASE s = r
    <3>1. t \in InFlight /\ req'[t] = req[t] /\ req'[s] = q
      BY <1>5, <2>2, <2>3, <2>5 DEF InFlight
    <3>2. QED
      BY <2>1, <3>1
  <2>6. CASE t = r
    <3>1. s \in InFlight /\ req'[s] = req[s] /\ req'[t] = q
      BY <1>5, <2>2, <2>3, <2>6 DEF InFlight
    <3>2. QED
      BY <2>1, <3>1
  <2>7. QED
    BY <2>4, <2>5, <2>6
<1>7. AsRequested'
  <2> SUFFICES ASSUME NEW s \in Reqs
               PROVE  /\ pc'[s] \in {"wipe", "seed"} => req'[s].op = "reset"
                      /\ pc'[s] # "unsent" /\ req'[s].op \in Monetary => req'[s].amt \in Amounts
                      /\ pc'[s] # "unsent" /\ req'[s].op = "account" =>
                           req'[s].amt \in Openings \cup {10 * StartingBalance}
                      /\ pc'[s] # "unsent" /\ req'[s].op = "payout" =>
                           req'[s].who = req'[req'[s].ref].who
    BY DEF AsRequested
  <2>1. CASE s = r
    <3>1. q.op = "payout" => q.ref \in Reqs /\ q.ref # r
      BY <1>2, <1>3
    <3>2. QED
      BY <1>3, <1>4, <1>5, <2>1, <3>1
  <2>2. CASE s # r
    <3>1. pc[s] # "unsent" /\ req[s].op = "payout" => req[s].ref \in Reqs /\ req[s].ref # r
      BY <1>2 DEF IInv, PayoutsNameBets, Answers
    <3>2. QED
      BY <1>5, <2>2, <3>1 DEF Undisturbed, AsRequested
  <2>3. QED
    BY <2>1, <2>2
<1>8. ReadsStand'
  BY <1>2, <1>4, <1>5 DEF Undisturbed, ReadsStand, Monetary, Debits
<1>9. OpenBetsAnswered'
  <2> SUFFICES ASSUME NEW bet \in openBets PROVE pc'[bet.id] \notin Steps
    BY <1>2 DEF OpenBetsAnswered
  <2>1. bet.id \in Reqs /\ bet.id # r
    BY <1>2 DEF IInv, TypeOK, OpenBet, Settlements, BetsKnown
  <2>2. QED
    BY <1>5, <2>1 DEF Undisturbed, OpenBetsAnswered
<1>10. QED
  BY <1>6, <1>7, <1>8, <1>9 DEF Undisturbed

LEMMA FindOpenBetUndisturbed ==
  ASSUME IInv, Settlements, Undisturbed, NEW r \in Reqs, FindOpenBet(r)
  PROVE  Undisturbed'
<1>1. /\ pc[r] = "openbet" /\ req[r] \in Request /\ req[r].op = "payout"
      /\ UNCHANGED <<accounts, balance, openBets, seen>>
      /\ req \in [Reqs -> Request \cup {Unsent}]
  BY DEF FindOpenBet, IInv, TypeOK, HeldBalances
<1>2. pc[r] \in Steps /\ {"balance", "invalid", "notfound"} \subseteq Steps \cup Answers
  BY <1>1 DEF Steps, Answers
<1>3. CASE \A bet \in openBets : bet.id # req[r].ref
  <2>1. pc' = [pc EXCEPT ![r] = "notfound"] /\ req' = req
    BY <1>3 DEF FindOpenBet, Goto
  <2>2. QED
    BY <1>1, <1>2, <2>1, StepUndisturbed
<1>4. CASE \E bet \in openBets : bet.id = req[r].ref
  <2>1. PICK bet \in openBets :
          /\ bet.id = req[r].ref
          /\ Goto(r, IF Known(req[r].res) THEN "balance" ELSE "invalid")
          /\ req' = [req EXCEPT ![r].who = bet.who, ![r].amt = 10 * bet.amt]
    BY <1>4 DEF FindOpenBet
  <2>2. bet.who = req[r].who
    BY <1>1, <2>1, OpenBetOf
  <2>3. /\ \A s \in Reqs : s # r => req'[s] = req[s]
        /\ req'[r].op = req[r].op /\ req'[r].who = req[r].who /\ req'[r].ref = req[r].ref
    BY <1>1, <2>1, <2>2 DEF Request
  <2>4. PICK step \in {"balance", "invalid"} : pc' = [pc EXCEPT ![r] = step]
    BY <2>1 DEF Goto
  <2>5. QED
    BY <1>1, <1>2, <2>1, <2>3, <2>4, StepUndisturbed
<1>5. QED
  BY <1>3, <1>4

LEMMA ReadBalanceUndisturbed ==
  ASSUME IInv, Settlements, Undisturbed, NEW r \in Reqs, ReadBalance(r)
  PROVE  Undisturbed'
<1> DEFINE q == req[r]
<1>1. /\ pc[r] = "balance" /\ pc[r] \in Steps
      /\ UNCHANGED <<accounts, balance, openBets, req>>
      /\ seen \in [Reqs -> [before: Int, after: Int]]
  BY DEF ReadBalance, Steps, IInv, TypeOK
<1>2. q.op = "payout" => \E bet \in openBets : bet.id = q.ref
  BY <1>1 DEF Undisturbed, ReadsStand
<1>3. CASE q.who \in accounts
  <2>1. /\ seen' = [seen EXCEPT ![r] = Computed(q, balance[q.who])]
        /\ pc' = [pc EXCEPT ![r] = AfterBalance(q, balance[q.who])]
    BY <1>3 DEF ReadBalance, Goto
  <2>2. AfterBalance(q, balance[q.who]) \in {"replenish", "insufficient", "commit"}
    BY DEF AfterBalance
  <2>3. seen'[r].before = balance[q.who] /\ \A s \in Reqs : s # r => seen'[s] = seen[s]
    BY <1>1, <2>1 DEF Computed
  <2>4. PICK step \in {"replenish", "insufficient", "commit"} : pc' = [pc EXCEPT ![r] = step]
    BY <2>1, <2>2
  <2>5. step \in Steps \cup Answers
    BY DEF Steps, Answers
  <2>6. QED
    BY <1>1, <1>2, <1>3, <2>3, <2>4, <2>5, StepUndisturbed
<1>4. CASE q.who \notin accounts
  <2>1. PICK step \in {"error", "notfound"} : pc' = [pc EXCEPT ![r] = step] /\ UNCHANGED seen
    BY <1>4 DEF ReadBalance, Goto
  <2>2. step \in Steps \cup Answers
    BY DEF Answers
  <2>3. QED
    BY <1>1, <2>1, <2>2, StepUndisturbed
<1>5. QED
  BY <1>3, <1>4

LEMMA ReplenishUndisturbed ==
  ASSUME IInv, Settlements, Undisturbed, NEW r \in Reqs, Replenish(r)
  PROVE  Undisturbed'
<1> DEFINE q == req[r]
<1>1. /\ pc[r] = "replenish" /\ pc[r] \in Steps
      /\ q.op = "bet" /\ q.who = Demo /\ Demo \in accounts
      /\ UNCHANGED <<accounts, openBets, req>>
      /\ seen \in [Reqs -> [before: Int, after: Int]]
      /\ balance \in [Players -> Int] /\ Demo \in Players
  BY BankAssumption DEF Replenish, Steps, IInv, TypeOK, HeldBalances, Undisturbed, ReadsStand
<1>2. /\ balance' = [balance EXCEPT ![Demo] = StartingBalance]
      /\ seen' = [seen EXCEPT ![r] = Computed(q, StartingBalance)]
  BY <1>1 DEF Replenish
<1>3. PICK step \in {"commit", "insufficient"} : pc' = [pc EXCEPT ![r] = step]
  BY DEF Replenish, Goto
<1>4. /\ seen'[r].before = balance'[Demo] /\ \A s \in Reqs : s # r => seen'[s] = seen[s]
      /\ \A p \in Players \ Touches(q) : balance'[p] = balance[p]
  BY <1>1, <1>2 DEF Computed, Touches
<1>5. step \in Steps \cup Answers
  BY DEF Steps, Answers
<1>6. QED
  BY <1>1, <1>3, <1>4, <1>5, StepUndisturbed

LEMMA CommitUndisturbed ==
  ASSUME IInv, Settlements, Undisturbed, NEW r \in Reqs, Commit(r)
  PROVE  Undisturbed'
<1> DEFINE q == req[r]
<1>1. /\ pc[r] = "commit" /\ pc[r] \in Steps
      /\ q \in Request /\ q.who \in accounts /\ q.op # "reset" /\ BetRow(r).id = r
      /\ UNCHANGED <<accounts, req, seen>>
      /\ balance \in [Players -> Int]
  BY DEF Commit, Steps, IInv, TypeOK, HeldBalances, Writing, Monetary, Debits, Undisturbed, ReadsStand,
          BetRow
<1>2. /\ balance' = [balance EXCEPT ![q.who] = seen[r].after]
      /\ openBets' = BetsAfter(r)
  BY <1>1 DEF Commit
<1>3. PICK step \in {"ok", "publish", "error"} :
        pc' = [pc EXCEPT ![r] = step] /\ (q.op = "bet" => step # "publish")
  BY <1>1 DEF Commit, Goto
<1>4. \A p \in Players \ Touches(q) : balance'[p] = balance[p]
  BY <1>1, <1>2 DEF Touches
<1>5. \A bet \in openBets : bet.who \notin Touches(q) => bet \in openBets'
  <2> SUFFICES ASSUME NEW bet \in openBets, bet.who \notin Touches(q) PROVE bet \in openBets'
    OBVIOUS
  <2>1. q.op = "payout" => bet.id # q.ref
    BY <1>1, OpenBetOf DEF Touches
  <2>2. QED
    BY <1>2, <2>1 DEF BetsAfter
<1>6. step \in Steps \cup Answers /\ (q.op = "bet" => step \in Answers)
  BY <1>3 DEF Steps, Answers
<1>7. \A bet \in openBets' : bet \in openBets \/ (bet.id = r /\ step \in Answers)
  BY <1>2, <1>6 DEF BetsAfter, BetRow
<1> HIDE DEF q
<1>8. QED
  BY <1>1, <1>3, <1>4, <1>5, <1>6, <1>7, StepUndisturbed DEF q

\* A step that opens an account, empties the tables or only answers.
LEMMA OtherUndisturbed ==
  ASSUME IInv, Settlements, Undisturbed, NEW r \in Reqs,
         \/ CheckExists(r) \/ CreateAccount(r) \/ Publish(r) \/ Fail(r)
         \/ Wipe(r) \/ SeedDemoPlayer(r)
  PROVE  Undisturbed'
<1>1. PICK step \in {"conflict", "create", "ok", "error", "notfound", "seed"} :
        /\ pc' = [pc EXCEPT ![r] = step]
        /\ step = "seed" => pc[r] = "wipe"
  BY DEF CheckExists, CreateAccount, Publish, Fail, Wipe, SeedDemoPlayer, Goto
<1>2. /\ pc[r] \in Steps /\ UNCHANGED <<req, seen>>
      /\ balance \in [Players -> Int] /\ req[r] \in Request
      /\ step = "seed" => req[r].op = "reset"
      /\ pc[r] = "seed" => req[r].op = "reset"
      /\ openBets \subseteq OpenBet
  BY <1>1 DEF CheckExists, CreateAccount, Publish, Fail, Wipe, SeedDemoPlayer, Steps,
              IInv, TypeOK, Undisturbed, AsRequested
<1>3. \A p \in Players \ Touches(req[r]) :
        (p \in accounts => p \in accounts') /\ balance'[p] = balance[p]
  <2>1. CASE CheckExists(r) \/ Publish(r) \/ Fail(r)
    BY <2>1 DEF CheckExists, Publish, Fail
  <2>2. CASE CreateAccount(r)
    BY <1>2, <2>2 DEF CreateAccount, Touches, Request
  <2>3. CASE Wipe(r) \/ SeedDemoPlayer(r)
    <3>1. Touches(req[r]) = Players
      BY <2>3 DEF Wipe, SeedDemoPlayer, Undisturbed, AsRequested, Touches
    <3>2. QED
      BY <3>1
  <2>4. QED
    BY <2>1, <2>2, <2>3
<1>4. /\ openBets' \subseteq openBets
      /\ \A bet \in openBets : bet.who \notin Touches(req[r]) => bet \in openBets'
  <2>1. CASE Wipe(r)
    BY <1>2, <2>1 DEF Wipe, Undisturbed, AsRequested, Touches, OpenBet
  <2>2. CASE ~Wipe(r)
    BY <2>2 DEF CheckExists, CreateAccount, Publish, Fail, SeedDemoPlayer
  <2>3. QED
    BY <2>1, <2>2
<1>5. step \in Steps \cup Answers
  BY DEF Steps, Answers
<1>6. QED
  BY <1>1, <1>2, <1>3, <1>4, <1>5, StepUndisturbed

\* After a restart nothing is in flight.
LEMMA RestartUndisturbed ==
  ASSUME IInv, Settlements, Undisturbed, Restart
  PROVE  Undisturbed'
<1>1. /\ pc' = [r \in Reqs |-> IF r \in InFlight THEN "error" ELSE pc[r]]
      /\ UNCHANGED <<openBets, req, seen>>
      /\ openBets \subseteq OpenBet
  BY DEF Restart, IInv, TypeOK
<1>2. \A r \in Reqs : pc'[r] \notin Steps /\ (pc'[r] # "unsent" => pc[r] # "unsent")
  BY <1>1 DEF InFlight, Steps
<1>3. Apart'
  BY <1>2 DEF Apart, InFlight
<1>4. AsRequested'
  BY <1>1, <1>2 DEF Undisturbed, AsRequested, Steps
<1>5. ReadsStand'
  BY <1>2 DEF ReadsStand, Steps
<1>6. OpenBetsAnswered'
  BY <1>1, <1>2 DEF OpenBetsAnswered, OpenBet
<1>7. QED
  BY <1>3, <1>4, <1>5, <1>6 DEF Undisturbed

LEMMA UndisturbedNext ==
  ASSUME Serial PROVE IInv /\ Settlements /\ Undisturbed /\ [Next]_vars => Undisturbed'
<1> SUFFICES ASSUME IInv, Settlements, Undisturbed, [Next]_vars PROVE Undisturbed'
  OBVIOUS
<1>1. ASSUME NEW r \in Reqs, Receive(r) PROVE Undisturbed'
  BY <1>1, ReceiveUndisturbed
<1>2. ASSUME NEW r \in Reqs, FindOpenBet(r) PROVE Undisturbed'
  BY <1>2, FindOpenBetUndisturbed
<1>3. ASSUME NEW r \in Reqs, ReadBalance(r) PROVE Undisturbed'
  BY <1>3, ReadBalanceUndisturbed
<1>4. ASSUME NEW r \in Reqs, Replenish(r) PROVE Undisturbed'
  BY <1>4, ReplenishUndisturbed
<1>5. ASSUME NEW r \in Reqs, Commit(r) PROVE Undisturbed'
  BY <1>5, CommitUndisturbed
<1>6. ASSUME NEW r \in Reqs,
             \/ CheckExists(r) \/ CreateAccount(r) \/ Publish(r) \/ Fail(r)
             \/ Wipe(r) \/ SeedDemoPlayer(r)
      PROVE  Undisturbed'
  BY <1>6, OtherUndisturbed
<1>7. CASE Restart
  BY <1>7, RestartUndisturbed
<1>8. CASE UNCHANGED vars
  BY <1>8 DEF vars, Undisturbed, Apart, AsRequested, ReadsStand, OpenBetsAnswered, InFlight, Touches
<1>9. QED
  BY <1>1, <1>2, <1>3, <1>4, <1>5, <1>6, <1>7, <1>8 DEF Next, Handle

LEMMA SerialInvariance ==
  Serial => (Spec => [](IInv /\ Settlements /\ Undisturbed))
<1> SUFFICES ASSUME Serial PROVE Spec => [](IInv /\ Settlements /\ Undisturbed)
  OBVIOUS
<1>1. Init => Settlements
  BY DEF Init, Settlements, BetsKnown, PayoutsRead, PayoutMatchesBet
<1>2. Init => Undisturbed
  BY DEF Init, Undisturbed, Apart, AsRequested, ReadsStand, OpenBetsAnswered, InFlight, Steps
<1>3. IInv /\ Settlements /\ [Next]_vars => Settlements'
  BY SettlementsNext
<1>4. IInv /\ Settlements /\ Undisturbed /\ [Next]_vars => Undisturbed'
  BY UndisturbedNext
<1>5. QED
  BY <1>1, <1>2, <1>3, <1>4, Invariance, PTL DEF Spec

-----------------------------------------------------------------------------
(* Each step of a handler is an atomic operation or none *)

\* Whole cents, and no debts: what auth-service, game-state and the page send.
PlainAmounts == \A mills \in Amounts \cup Openings : mills >= 0 /\ mills % 10 = 0

\* A plain amount is stored as the cents it moves.
LEMMA PlainIsStored ==
  ASSUME NEW mills \in Int, mills >= 0, mills % 10 = 0
  PROVE  Stored(mills) = Cents(mills) /\ Cents(mills) >= 0
BY DEF Stored, Cents

\* Plain openings leave no account in debt.
LEMMA PlainBalances ==
  ASSUME PlainAmounts, IInv, Undisturbed
  PROVE  \A p \in Players : balance[p] >= 0 /\ ~OpenedInDebt(p)
<1>1. 10 * StartingBalance \in Int /\ 10 * StartingBalance >= 0 /\ (10 * StartingBalance) % 10 = 0
  BY BankAssumption
<1>2. ASSUME NEW r \in Reqs, pc[r] \in {"ok", "error"}, req[r].op = "account"
      PROVE  Stored(req[r].amt) >= 0
  <2>1. req[r].amt \in Openings \cup {10 * StartingBalance}
    BY <1>2 DEF Undisturbed, AsRequested
  <2>2. req[r].amt \in Int /\ req[r].amt >= 0 /\ req[r].amt % 10 = 0
    BY <1>1, <2>1, BankAssumption DEF PlainAmounts
  <2>3. Stored(req[r].amt) = Cents(req[r].amt) /\ Cents(req[r].amt) >= 0 /\ Stored(req[r].amt) \in Int
    BY <2>2, PlainIsStored, Conversions
  <2>4. QED
    BY <2>3
<1>3. ASSUME NEW p \in Players PROVE ~OpenedInDebt(p)
  <2>1. \A bal \in OpenedWith(p) : bal \in Int /\ bal >= 0
    <3>1. \A r \in Reqs : pc[r] \in {"ok", "error"} /\ req[r].op = "account" => Stored(req[r].amt) \in Int
      BY Conversions DEF IInv, TypeOK, Request
    <3>2. QED
      BY <1>2, <3>1 DEF OpenedWith
  <2>2. QED
    BY <2>1 DEF OpenedInDebt
<1>4. NoOverdraft /\ \A p \in Players : balance[p] \in Int
  BY DEF IInv, TypeOK
<1>5. ASSUME NEW p \in Players PROVE balance[p] >= 0
  <2>1. ~(balance[p] < 0) /\ balance[p] \in Int
    BY <1>3, <1>4 DEF NoOverdraft
  <2>2. QED
    BY <2>1
<1>6. QED
  BY <1>3, <1>5

\* The transaction of a bet, a deposit, a withdrawal or a payout, on the
\* balance the account has at that moment.
LEMMA CommitIsAtomic ==
  ASSUME PlainAmounts, IInv, Settlements, Undisturbed, NEW r \in Reqs, Commit(r)
  PROVE  Atomic!Next
<1> DEFINE q == req[r]
           bal == balance[q.who]
           sum == Cents(q.amt)
<1>1. /\ pc[r] = "commit" /\ q \in Request /\ q.amt \in Int
      /\ q.op \in Monetary \cup {"payout"} /\ (q.op \in Monetary => sum > 0)
      /\ q.who \in accounts /\ q.who \in Players
      /\ balance \in [Players -> Int] /\ UNCHANGED accounts
      /\ q.op \in Monetary => q.amt \in Amounts
  BY DEF Commit, IInv, TypeOK, HeldBalances, Writing, Undisturbed, ReadsStand, AsRequested,
         Request
<1>2. /\ bal \in Int /\ bal >= 0 /\ Parsed(bal) = bal
      /\ seen[r].after = NewBalance(q, bal)
  BY <1>1, PlainBalances, Conversions DEF IInv, HeldBalances, Undisturbed, ReadsStand
<1>3. /\ balance' = [balance EXCEPT ![q.who] = NewBalance(q, bal)]
      /\ openBets' = BetsAfter(r)
      /\ sum \in Int
  BY <1>1, <1>2, Conversions DEF Commit
<1>4. q.op \in Monetary => Stored(q.amt) = sum /\ sum \in Atomic!Positive
  BY <1>1, PlainIsStored DEF PlainAmounts, Atomic!Positive
\* No account is in debt, and so a covered debit leaves none.
<1>5. q.op \in Debits => NewBalance(q, bal) = bal - sum /\ sum <= bal
  <2>1. q.op \in Debits => NewBalance(q, bal) = bal - sum
    BY <1>2 DEF NewBalance, Moved, Debits
  <2>2. NewBalance(q, bal) \in Int /\ (NewBalance(q, bal) < 0 => OpenedInDebt(q.who))
    BY <1>1, <1>2, NewBalanceNotNegative DEF IInv, HeldBalances
  <2>3. ~OpenedInDebt(q.who)
    BY <1>1, PlainBalances
  <2> HIDE DEF bal, sum
  <2>4. QED
    BY <1>2, <1>3, <2>1, <2>2, <2>3
<1>6. CASE q.op = "bet"
  <2>1. \A bet \in openBets : bet.id # r
    BY <1>1 DEF Undisturbed, OpenBetsAnswered, Steps
  <2>2. NewBalance(q, bal) = bal - sum /\ sum <= bal
    BY <1>2, <1>3, <1>5, <1>6 DEF Debits
  <2>3. openBets' = openBets \cup {[id |-> r, who |-> q.who, amt |-> sum]}
    BY <1>3, <1>4, <1>6 DEF BetsAfter, BetRow, Monetary, Debits
  <2>4. Atomic!PlaceBet(q.who, sum, r)
    BY <1>1, <1>3, <2>1, <2>2, <2>3 DEF Atomic!PlaceBet
  <2>5. QED
    BY <1>1, <1>4, <1>6, <2>4 DEF Atomic!Next, Monetary, Debits
<1>7. CASE q.op = "withdraw"
  <2>1. NewBalance(q, bal) = bal - sum /\ sum <= bal
    BY <1>2, <1>3, <1>5, <1>7 DEF Debits
  <2>2. Atomic!Withdraw(q.who, sum)
    BY <1>1, <1>3, <1>7, <2>1 DEF Atomic!Withdraw, BetsAfter
  <2>3. QED
    BY <1>1, <1>4, <1>7, <2>2 DEF Atomic!Next, Monetary, Debits
<1>8. CASE q.op = "deposit"
  <2>1. NewBalance(q, bal) = bal + sum
    BY <1>2, <1>8 DEF NewBalance, Moved, Debits
  <2>2. Atomic!Deposit(q.who, sum)
    BY <1>1, <1>3, <1>8, <2>1 DEF Atomic!Deposit, BetsAfter
  <2>3. QED
    BY <1>1, <1>4, <1>8, <2>2 DEF Atomic!Next, Monetary
<1>9. CASE q.op = "payout"
  <2>1. PICK bet \in openBets : bet.id = q.ref
    BY <1>1, <1>9 DEF Undisturbed, ReadsStand
  <2>2. /\ bet \in OpenBet /\ bet.who = q.who /\ bet.amt = Stored(req[bet.id].amt)
        /\ q.amt = 10 * bet.amt
    BY <1>1, <1>9, <2>1, OpenBetOf DEF Settlements, BetsKnown, PayoutsRead, Writing
  <2>3. bet.amt >= 0
    <3>1. bet.id \in Reqs /\ pc[bet.id] # "unsent" /\ req[bet.id].op = "bet"
      BY <2>2 DEF OpenBet, Settlements, BetsKnown
    <3>2. PICK mills \in Amounts : mills = req[bet.id].amt
      BY <3>1 DEF Undisturbed, AsRequested, Monetary, Debits
    <3>3. mills \in Int /\ mills >= 0 /\ mills % 10 = 0
      BY BankAssumption DEF PlainAmounts
    <3>4. Stored(mills) >= 0
      BY <3>3, PlainIsStored
    <3>5. QED
      BY <2>2, <3>2, <3>4
  <2>4. Unsigned(sum) = bet.amt
    <3>1. sum = bet.amt
      BY <2>2, <2>3, Conversions DEF Parsed, OpenBet
    <3>2. QED
      BY <2>2, <2>3, <3>1 DEF Unsigned, OpenBet
  \* A bet's id tells it from every other.
  <2>5. \A other \in openBets : other.id = bet.id => other = bet
    <3>1. \A other \in openBets : /\ other = [id |-> other.id, who |-> other.who, amt |-> other.amt]
                                  /\ other.who = req[other.id].who /\ other.amt = Stored(req[other.id].amt)
      BY DEF IInv, TypeOK, OpenBet, Settlements, BetsKnown
    <3>2. QED
      BY <3>1
  <2>6. openBets' = openBets \ {bet}
    BY <1>3, <1>9, <2>1, <2>5 DEF BetsAfter
  <2>7. CalcPayout(bet.amt, q.res) \in Atomic!Returns(bet.amt)
    BY DEF CalcPayout, Atomic!Returns
  <2>8. NewBalance(q, bal) = bal + CalcPayout(bet.amt, q.res)
    BY <1>2, <1>9, <2>4 DEF NewBalance, Moved, Debits
  <2>9. balance' = [balance EXCEPT ![bet.who] = @ + CalcPayout(bet.amt, q.res)]
    BY <1>3, <2>2, <2>8
  <2>10. Atomic!Settle(bet)
    BY <1>1, <2>2, <2>6, <2>7, <2>9 DEF Atomic!Settle
  <2>11. QED
    BY <2>10 DEF Atomic!Next
<1>10. QED
  BY <1>1, <1>6, <1>7, <1>8, <1>9 DEF Monetary, Debits

LEMMA StepIsAtomic ==
  ASSUME PlainAmounts, IInv, Settlements, Undisturbed, [Next]_vars
  PROVE  [Atomic!Next]_(Atomic!vars)
<1> USE BankAssumption
<1>1. ASSUME NEW r \in Reqs, Receive(r) \/ CheckExists(r) \/ FindOpenBet(r) \/ ReadBalance(r)
                             \/ Publish(r) \/ Fail(r)
      PROVE  UNCHANGED Atomic!vars
  BY <1>1 DEF Receive, CheckExists, FindOpenBet, ReadBalance, Publish, Fail, Atomic!vars
<1>2. ASSUME NEW r \in Reqs, CreateAccount(r) PROVE Atomic!Next \/ UNCHANGED Atomic!vars
  <2>1. req[r].who \in Players /\ req[r].amt \in Openings \cup {10 * StartingBalance}
    BY <1>2 DEF CreateAccount, IInv, TypeOK, Request, HeldBalances, Undisturbed, AsRequested
  <2>2. CASE req[r].who \in accounts
    BY <1>2, <2>2 DEF CreateAccount, Atomic!vars
  <2>3. CASE req[r].who \notin accounts
    <3>1. Stored(10 * StartingBalance) = StartingBalance
      BY DEF Stored
    <3>2. Stored(req[r].amt) \in {Stored(mills) : mills \in Openings} \cup {StartingBalance}
      BY <2>1, <3>1
    <3>3. Atomic!OpenAccount(req[r].who, Stored(req[r].amt))
      BY <1>2, <2>3 DEF CreateAccount, Atomic!OpenAccount
    <3>4. QED
      BY <2>1, <3>2, <3>3 DEF Atomic!Next
  <2>4. QED
    BY <2>2, <2>3
<1>3. ASSUME NEW r \in Reqs, Replenish(r) PROVE Atomic!Next
  <2>1. Demo \in accounts
    BY <1>3 DEF Replenish, IInv, HeldBalances, Undisturbed, ReadsStand
  <2>2. QED
    BY <1>3, <2>1 DEF Replenish, Atomic!Next, Atomic!Replenish
<1>4. ASSUME NEW r \in Reqs, Commit(r) PROVE Atomic!Next
  BY <1>4, CommitIsAtomic
<1>5. ASSUME NEW r \in Reqs, Wipe(r) PROVE Atomic!Next
  BY <1>5 DEF Wipe, Atomic!Next, Atomic!Reset
<1>6. ASSUME accounts' = accounts \cup {Demo}, balance' = Seeded(accounts, balance), UNCHANGED openBets
      PROVE  Atomic!Next \/ UNCHANGED Atomic!vars
  <2>1. CASE Demo \in accounts
    BY <1>6, <2>1 DEF Seeded, Atomic!vars
  <2>2. CASE Demo \notin accounts
    BY <1>6, <2>2 DEF Seeded, Atomic!Next, Atomic!OpenAccount
  <2>3. QED
    BY <2>1, <2>2
<1>7. ASSUME NEW r \in Reqs, SeedDemoPlayer(r) PROVE Atomic!Next \/ UNCHANGED Atomic!vars
  BY <1>6, <1>7 DEF SeedDemoPlayer
<1>8. CASE Restart
  BY <1>6, <1>8 DEF Restart
<1>9. CASE UNCHANGED vars
  BY <1>9 DEF vars, Atomic!vars
<1>10. QED
  BY <1>1, <1>2, <1>3, <1>4, <1>5, <1>7, <1>8, <1>9 DEF Next, Handle

\* For callers who await their answers and send whole cents, the statements that
\* the handlers send one by one add up to the atomic operations of AtomicBank,
\* across failures, lost acknowledgements, restarts and development resets.
THEOREM HandlersAreAtomic == Serial /\ PlainAmounts => (Spec => ImplementsAtomicBank)
<1> SUFFICES ASSUME Serial, PlainAmounts PROVE Spec => ImplementsAtomicBank
  OBVIOUS
<1>1. Init => Atomic!Init
  BY DEF Init, Atomic!Init
<1>2. IInv /\ Settlements /\ Undisturbed /\ [Next]_vars => [Atomic!Next]_(Atomic!vars)
  BY StepIsAtomic
<1>3. QED
  BY <1>1, <1>2, SerialInvariance, PTL DEF Spec, ImplementsAtomicBank, Atomic!Spec

\* For callers who await their answers no bet is paid out twice: the bet that a payout found
\* open is still open when it commits (SettlePayout).
THEOREM BetsSettledOnce == Serial => (Spec => []SettledOnce)
<1> SUFFICES ASSUME Serial PROVE Spec => []SettledOnce
  OBVIOUS
<1>1. Init => SettledOnce
  BY DEF Init, SettledOnce
<1>2. ASSUME IInv, Settlements, Undisturbed, SettledOnce, [Next]_vars PROVE SettledOnce'
  <2>1. CASE ledger' = ledger
    BY <1>2, <2>1 DEF SettledOnce
  <2>2. CASE ledger' = <<>>
    BY <2>2 DEF SettledOnce
  <2>3. ASSUME NEW r \in Reqs, Commit(r) PROVE SettledOnce'
    <3> DEFINE row == RowOf(r)
    <3>1. pc[r] = "commit" /\ (ledger' = ledger \/ ledger' = Append(ledger, row))
      BY <2>3 DEF Commit
    <3>2. row \in Row /\ row.ref = req[r].ref /\ (row.type \in Payouts <=> req[r].op = "payout")
      BY <1>2, <3>1, RowOfAddsUp
    <3>3. row.type \in Payouts => PayoutRows(row.ref) = {}
      BY <1>2, <3>1, <3>2 DEF Undisturbed, ReadsStand, IInv, OpenBetsUnsettled
    <3>4. CASE ledger' = Append(ledger, row)
      <4> HIDE DEF row
      <4>1. /\ DOMAIN ledger = 1 .. Len(ledger) /\ DOMAIN ledger' = 1 .. Len(ledger) + 1
            /\ Len(ledger) \in Nat
            /\ \A i \in DOMAIN ledger : ledger'[i] = ledger[i]
            /\ ledger'[Len(ledger) + 1] = row
        BY <1>2, <3>2, <3>4, Appended
      <4>2. \A i \in DOMAIN ledger' : i \in DOMAIN ledger \/ (i = Len(ledger) + 1 /\ ledger'[i] = row)
        BY <4>1
      <4>3. SUFFICES ASSUME NEW i \in DOMAIN ledger', NEW j \in DOMAIN ledger',
                            ledger'[i].type \in Payouts, ledger'[j].type \in Payouts,
                            ledger'[i].ref = ledger'[j].ref
                     PROVE  i = j
        BY DEF SettledOnce
      <4>4. CASE i \in DOMAIN ledger /\ j \in DOMAIN ledger
        BY <1>2, <4>1, <4>3, <4>4 DEF SettledOnce
      <4>5. CASE i \in DOMAIN ledger /\ ledger'[j] = row
        BY <3>3, <4>1, <4>3, <4>5 DEF PayoutRows
      <4>6. CASE j \in DOMAIN ledger /\ ledger'[i] = row
        BY <3>3, <4>1, <4>3, <4>6 DEF PayoutRows
      <4>7. QED
        BY <4>2, <4>4, <4>5, <4>6
    <3>5. QED
      BY <2>1, <3>1, <3>4
  <2>4. QED
    BY <1>2, <2>1, <2>2, <2>3 DEF Next, Handle, Receive, CheckExists, CreateAccount, FindOpenBet,
       ReadBalance, Replenish, Publish, Wipe, SeedDemoPlayer, Fail, Restart, vars
<1>3. QED
  BY <1>1, <1>2, SerialInvariance, PTL DEF Spec

\* For the same callers every statement is a chain: no update is lost between
\* the read of a balance and its write (betHandler, payoutHandler,
\* depositHandler, withdrawHandler).
THEOREM StatementsChain == Serial => (Spec => []RowsChain)
<1> SUFFICES ASSUME Serial PROVE Spec => []RowsChain
  OBVIOUS
<1>1. Init => RowsChain
  BY DEF Init, RowsChain
<1>2. ASSUME IInv, Undisturbed, Statements, RowsChain, [Next]_vars PROVE RowsChain'
  <2>0. \A p : OpenedWith(p) \subseteq OpenedWith(p)'
    BY <1>2, AnsweredKept, OpenersKept
  <2>1. CASE ledger' = ledger
    BY <1>2, <2>0, <2>1 DEF RowsChain, IsRowBefore
  <2>2. CASE ledger' = <<>>
    BY <2>2 DEF RowsChain
  <2>3. ASSUME NEW r \in Reqs, Commit(r), ledger' # ledger PROVE RowsChain'
    <3>1. PICK row \in Row, who \in Players : row = RowOf(r) /\ who = req[r].who
      <4>1. pc[r] = "commit" /\ req[r].who \in Players
        BY <1>2, <2>3 DEF Commit, IInv, TypeOK, Request
      <4>2. QED
        BY <1>2, <4>1, RowOfAddsUp
    <3> DEFINE last == Len(ledger) + 1
    <3>2. /\ who \in accounts /\ ledger' = Append(ledger, row)
          /\ row.who = who /\ row.before = balance[who]
      BY <1>2, <2>3, <3>1 DEF Commit, RowOf, Undisturbed, ReadsStand
    <3>3. /\ DOMAIN ledger = 1 .. Len(ledger) /\ DOMAIN ledger' = 1 .. last
          /\ Len(ledger) \in Nat
          /\ \A i \in DOMAIN ledger : ledger'[i] = ledger[i]
          /\ ledger'[last] = row
      BY <1>2, <3>2, Appended
    <3>4. /\ \A i \in DOMAIN ledger' : i \in DOMAIN ledger \/ i = last
          /\ \A i \in DOMAIN ledger : i < last /\ i \in DOMAIN ledger'
      BY <3>3
    <3> HIDE DEF last
    <3>5. ASSUME NEW i \in DOMAIN ledger, NEW j \in DOMAIN ledger
          PROVE  IsRowBefore(j, i)' <=> IsRowBefore(j, i)
      <4>1. i \in Nat /\ j \in Nat /\ last \in Nat /\ i < last
        BY <3>3, <3>4 DEF last
      <4>2. ~(last < i)
        BY <4>1
      <4>3. QED
        BY <3>3, <3>4, <4>2 DEF IsRowBefore
    <3>6. ASSUME NEW i \in DOMAIN ledger', NEW p, p = ledger'[i].who, p # Demo
          PROVE  /\ \A j \in DOMAIN ledger' : IsRowBefore(j, i)' => ledger'[i].before = ledger'[j].after
                 /\ (\A j \in DOMAIN ledger' : j < i => ledger'[j].who # ledger'[i].who)
                      => ledger'[i].before \in OpenedWith(p)'
      <4>1. CASE i \in DOMAIN ledger
        <5>1. ~(last < i)
          BY <3>3, <3>4, <4>1 DEF last
        <5>2. ASSUME NEW j \in DOMAIN ledger', IsRowBefore(j, i)'
              PROVE  ledger'[i].before = ledger'[j].after
          <6>1. j \in DOMAIN ledger
            BY <3>4, <5>1, <5>2 DEF IsRowBefore
          <6>2. IsRowBefore(j, i)
            BY <3>5, <4>1, <5>2, <6>1
          <6>3. QED
            BY <1>2, <3>3, <3>6, <4>1, <6>1, <6>2 DEF RowsChain
        <5>3. ASSUME \A j \in DOMAIN ledger' : j < i => ledger'[j].who # ledger'[i].who
              PROVE  ledger'[i].before \in OpenedWith(p)'
          <6>1. \A j \in DOMAIN ledger : j < i => ledger[j].who # ledger[i].who
            BY <3>3, <3>4, <4>1, <5>3
          <6>2. ledger[i].before \in OpenedWith(p)
            BY <1>2, <3>3, <3>6, <4>1, <6>1 DEF RowsChain
          <6>3. QED
            BY <2>0, <3>3, <4>1, <6>2
        <5>4. QED
          BY <5>2, <5>3
      <4>2. CASE i = last
        <5>1. ledger'[i] = row /\ who \in accounts \ {Demo} /\ p = who
          BY <3>2, <3>3, <3>6, <4>2
        <5>2. ASSUME NEW j \in DOMAIN ledger', IsRowBefore(j, i)'
              PROVE  ledger'[i].before = ledger'[j].after
          <6>1. j < last /\ j \in DOMAIN ledger' /\ j \in Int
            BY <3>3, <4>2, <5>2 DEF IsRowBefore, last
          <6>2. j \in DOMAIN ledger
            BY <3>3, <6>1 DEF last
          <6>3. IsLastRow(j, who)
            <7>1. /\ ledger'[j].who = ledger'[i].who
                  /\ \A k \in DOMAIN ledger' : j < k /\ k < i => ledger'[k].who # ledger'[i].who
              BY <5>2 DEF IsRowBefore
            <7>2. \A k \in DOMAIN ledger : k > j <=> j < k
              BY <3>3, <6>1
            <7>3. QED
              BY <3>2, <3>3, <3>4, <4>2, <5>1, <6>2, <7>1, <7>2 DEF IsLastRow
          <6>4. balance[who] = ledger[j].after
            BY <1>2, <5>1, <6>2, <6>3 DEF Statements, StatementCurrent
          <6>5. QED
            BY <3>2, <3>3, <5>1, <6>2, <6>4
        <5>3. ASSUME \A j \in DOMAIN ledger' : j < i => ledger'[j].who # ledger'[i].who
              PROVE  ledger'[i].before \in OpenedWith(p)'
          <6>1. \A j \in DOMAIN ledger : ledger[j].who # who
            BY <3>2, <3>3, <3>4, <4>2, <5>1, <5>3
          <6>2. balance[p] \in OpenedWith(p)
            BY <1>2, <5>1, <6>1 DEF Statements, StatementCurrent
          <6>3. balance[p] \in OpenedWith(p)'
            BY <2>0, <6>2
          <6>4. QED
            BY <3>2, <5>1, <6>3
        <5>4. QED
          BY <5>2, <5>3
      <4>3. QED
        BY <3>4, <4>1, <4>2
    <3>7. QED
      BY <3>6 DEF RowsChain, OpenedWith
  <2>4. QED
    BY <1>2, <2>1, <2>2, <2>3 DEF Next, Handle, Receive, CheckExists, CreateAccount, FindOpenBet,
       ReadBalance, Replenish, Publish, Wipe, SeedDemoPlayer, Fail, Restart, vars
<1>3. QED
  BY <1>1, <1>2, SerialInvariance, StatementsInvariance, PTL DEF Spec
=============================================================================
