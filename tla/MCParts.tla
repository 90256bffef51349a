------------------------------ MODULE MCParts ------------------------------
(***************************************************************************)
(* The parts that need nothing of each other, safety only: the services    *)
(* behind the game and what the page keeps.  They have no variable in      *)
(* common, so one of them moves at a time and the others stay as they      *)
(* begin: the run explores each in full.                                   *)
(*                                                                         *)
(* Ranks 1, 5, 6, 9, 10 and the hidden card reach every total from 16 to   *)
(* 22, soft and hard, with several aces.  Tables of 40 and 75 rows take    *)
(* two and three pages, a text of 120 lines takes two or three, and one of *)
(* 58 leaves no room for a header below it.                                *)
(***************************************************************************)
EXTENDS DeckService, Hands, MailService, DocumentService, Csv,
        App, Statement, History, Betting, TLC

CONSTANTS t1, t2, c1, c2, c3, c4, q1, q2, q3,  \* shoes
          m1, u1, own, other,                  \* mail
          p1, k1, k2                           \* the page

TwoTables     == {t1, t2}
FourCards     == {c1, c2, c3, c4}
ThreeRequests == {q1, q2, q3}
SomeCounts    == {-1, 1, 3}
MCRanks       == {0, 1, 5, 6, 9, 10}
OneMail       == {m1}
OneUser       == {u1}
TwoAddresses  == {own, other}
Home          == u1 :> own
SomeLines     == {1, 58, 120}
SomeNames     == {0, 1}
SomeCells     == {1, 5}
MCRowCounts   == {0, 1, 40, 75}
OnePlayer     == {p1}
TwoCalls      == {k1, k2}
ThreeOwners   == {"demo", "own", "none"}
TwoGames      == {"demo", "own"}
TwoChips      == {1, 2}

VARIABLE part  \* the one that moves

services == <<vars, hand, mailVars, documentVars, fields>>
browser  == <<appVars, statementVars, historyVars, bettingVars>>

\* Who does not move need not begin in more than one way.
PartsInit ==
  /\ part \in {"deck", "hands", "mail", "document", "csv", "app", "statement", "history", "betting"}
  /\ Init /\ NoCards /\ DocumentInit /\ CsvInit /\ AppInit /\ BettingInit
  /\ MailInit      /\ (part # "mail" => registered = {} /\ relay)
  /\ StatementInit /\ (part # "statement" => owner = "none")
  /\ HistoryInit   /\ (part # "history" => tableId = "demo")

ServiceMoves ==
  \/ part = "deck"     /\ Next         /\ UNCHANGED <<hand, mailVars, documentVars, fields>>
  \/ part = "hands"    /\ Grow         /\ UNCHANGED <<vars, mailVars, documentVars, fields>>
  \/ part = "mail"     /\ MailNext     /\ UNCHANGED <<vars, hand, documentVars, fields>>
  \/ part = "document" /\ DocumentNext /\ UNCHANGED <<vars, hand, mailVars, fields>>
  \/ part = "csv"      /\ CsvGrow      /\ UNCHANGED <<vars, hand, mailVars, documentVars>>

PageMoves ==
  \/ part = "app"       /\ AppNext       /\ UNCHANGED <<statementVars, historyVars, bettingVars>>
  \/ part = "statement" /\ StatementNext /\ UNCHANGED <<appVars, historyVars, bettingVars>>
  \/ part = "history"   /\ HistoryNext   /\ UNCHANGED <<appVars, statementVars, bettingVars>>
  \/ part = "betting"   /\ BettingNext   /\ UNCHANGED <<appVars, statementVars, historyVars>>

PartsNext ==
  /\ UNCHANGED part
  /\ \/ ServiceMoves /\ UNCHANGED browser
     \/ PageMoves /\ UNCHANGED services

PartsSpec == PartsInit /\ [][PartsNext]_<<part, services, browser>>
=============================================================================
