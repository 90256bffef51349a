----------------------------- MODULE AtomicBank -----------------------------
(***************************************************************************)
(* What the bank service promises its callers (contracts/openapi/          *)
(* bank-service.yaml): each operation on an account happens at one moment, *)
(* on the balance the account has at that moment, and an open bet is       *)
(* settled once.  Bank implements it for callers that wait for their       *)
(* answers.                                                                *)
(***************************************************************************)
EXTENDS Integers

CONSTANTS Players, Demo, BetIds, Amounts, Openings, StartingBalance

VARIABLES accounts, balance, openBets

vars == <<accounts, balance, openBets>>

\* What a settled bet returns: 5/2, 2, 1 or 0 times the stake.
Returns(bet) == {bet + (bet * 3) \div 2, bet * 2, bet, 0}

Init ==
  /\ accounts = {Demo}
  /\ balance  = [p \in Players |-> IF p = Demo THEN StartingBalance ELSE 0]
  /\ openBets = {}

OpenAccount(p, opening) ==
  /\ p \notin accounts
  /\ accounts' = accounts \cup {p}
  /\ balance'  = [balance EXCEPT ![p] = opening]
  /\ UNCHANGED openBets

Positive == {a \in Amounts : a > 0}

Deposit(p, a) ==
  /\ p \in accounts
  /\ balance' = [balance EXCEPT ![p] = @ + a]
  /\ UNCHANGED <<accounts, openBets>>

Withdraw(p, a) ==
  /\ p \in accounts /\ a <= balance[p]
  /\ balance' = [balance EXCEPT ![p] = @ - a]
  /\ UNCHANGED <<accounts, openBets>>

PlaceBet(p, a, id) ==
  /\ p \in accounts /\ a <= balance[p]
  /\ \A bet \in openBets : bet.id # id
  /\ balance'  = [balance EXCEPT ![p] = @ - a]
  /\ openBets' = openBets \cup {[id |-> id, who |-> p, amt |-> a]}
  /\ UNCHANGED accounts

Settle(bet) ==
  /\ bet \in openBets /\ bet.who \in accounts
  /\ \E returned \in Returns(bet.amt) :
       balance' = [balance EXCEPT ![bet.who] = @ + returned]
  /\ openBets' = openBets \ {bet}
  /\ UNCHANGED accounts

\* The demo player never runs dry.
Replenish ==
  /\ Demo \in accounts
  /\ balance' = [balance EXCEPT ![Demo] = StartingBalance]
  /\ UNCHANGED <<accounts, openBets>>

\* The development reset: everything goes; the demo account comes back.
Reset ==
  /\ accounts' = {}
  /\ balance'  = [p \in Players |-> 0]
  /\ openBets' = {}

Next ==
  \/ \E p \in Players, b \in Openings \cup {StartingBalance} : OpenAccount(p, b)
  \/ \E p \in Players, a \in Positive : Deposit(p, a) \/ Withdraw(p, a)
  \/ \E p \in Players, a \in Positive, id \in BetIds : PlaceBet(p, a, id)
  \/ \E bet \in openBets : Settle(bet)
  \/ Replenish
  \/ Reset

Spec == Init /\ [][Next]_vars
=============================================================================
