----------------------------- MODULE Statement -----------------------------
(***************************************************************************)
(* The transactions of a player on the page and their export               *)
(* (ui/src/components/TransactionModal.tsx).                               *)
(*                                                                         *)
(* The page may turn to another player while the dialog is open, when a    *)
(* table is created late or the session ends at one; each turn fetches     *)
(* again, and answers come in any order.  What the bank answers is         *)
(* abstracted to whose transactions they are.                              *)
(*                                                                         *)
(* A definition followed by its namesake (RefetchedNever before Refetched) *)
(* is a mutation of it, used only to see that a property would notice it.  *)
(***************************************************************************)
EXTENDS Naturals

CONSTANTS
  Owners,     \* the players the dialog may be about
  MaxRequests \* bound of the requests for one of them in flight

ASSUME StatementAssumption == Owners # {} /\ MaxRequests \in Nat \ {0} /\ "nobody" \notin Owners

VARIABLES
  owner,        \* playerId
  shown,        \* the dialog is open
  transactions, \* whose are on the screen, or nobody's if there are none
  loading, error, downloading,
  requests,     \* fetches in flight
  mixed         \* an answer for another player came

statementVars == <<owner, shown, transactions, loading, error, downloading, requests, mixed>>

RefetchedNever(player, before) == requests' = before /\ UNCHANGED mixed

\* The effect of a new playerId: nothing else starts again, not even loading.
Refetched(player, before) ==
  /\ before[player] < MaxRequests
  /\ requests' = [before EXCEPT ![player] = @ + 1]
  /\ mixed' = FALSE

NoRequests == [player \in Owners |-> 0]

OpenStatement ==
  /\ ~ shown
  /\ shown' = TRUE
  /\ transactions' = "nobody" /\ loading' = TRUE /\ error' = FALSE /\ downloading' = FALSE
  /\ requests' = [NoRequests EXCEPT ![owner] = 1] /\ mixed' = FALSE
  /\ UNCHANGED owner

\* Answers to a dialog that is closed are lost.
CloseStatement ==
  /\ shown
  /\ shown' = FALSE
  /\ transactions' = "nobody" /\ loading' = FALSE /\ error' = FALSE /\ downloading' = FALSE
  /\ requests' = NoRequests /\ mixed' = FALSE
  /\ UNCHANGED owner

OwnerChanges(player) ==
  /\ player # owner
  /\ owner' = player
  /\ IF shown THEN Refetched(player, requests) ELSE UNCHANGED <<requests, mixed>>
  /\ UNCHANGED <<shown, transactions, loading, error, downloading>>

TransactionsAnswered(player) ==
  /\ requests[player] > 0
  /\ requests' = [requests EXCEPT ![player] = @ - 1]
  /\ loading' = FALSE
  /\ mixed' = (mixed \/ player # owner)
  /\ \/ transactions' \in {player, "nobody"} /\ UNCHANGED error
     \/ error' = TRUE /\ UNCHANGED transactions
  /\ UNCHANGED <<owner, shown, downloading>>

DownloadEnabled == shown /\ ~ downloading /\ transactions # "nobody"

HandleDownload ==
  /\ DownloadEnabled
  /\ downloading' = TRUE
  /\ UNCHANGED <<owner, shown, transactions, loading, error, requests, mixed>>

\* finally
DownloadAnswered ==
  /\ downloading
  /\ downloading' = FALSE
  /\ error' \in {error, TRUE}
  /\ UNCHANGED <<owner, shown, transactions, loading, requests, mixed>>

StatementInit ==
  /\ owner \in Owners
  /\ shown = FALSE
  /\ transactions = "nobody" /\ loading = FALSE /\ error = FALSE /\ downloading = FALSE
  /\ requests = NoRequests /\ mixed = FALSE

StatementNext ==
  \/ OpenStatement \/ CloseStatement \/ HandleDownload \/ DownloadAnswered
  \/ \E player \in Owners : OwnerChanges(player) \/ TransactionsAnswered(player)

StatementSpec == StatementInit /\ [][StatementNext]_statementVars

-----------------------------------------------------------------------------
\* When all answers are there, the transactions on the screen are those of the
\* player the page is about, unless the dialog shows an error or an answer for
\* another player came after the turn.
StatementOfOwner ==
  requests = NoRequests /\ transactions # "nobody" => transactions = owner \/ error \/ mixed
=============================================================================
