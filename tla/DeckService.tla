---------------------------- MODULE DeckService ----------------------------
(***************************************************************************)
(* The deck service (deck-service/main.go): one shoe per table, made when  *)
(* the first request for the table comes in.                               *)
(*                                                                         *)
(* A request takes the lock twice: getOrCreateShoe looks the shoe up or    *)
(* makes it, and the deal takes cards from its front.  Between the two     *)
(* other requests run.  The shuffled order is abstracted: a shoe is the    *)
(* set of the cards left in it, and any of them may be in front.           *)
(*                                                                         *)
(* The count of a request is whatever the caller sent.  make() panics at   *)
(* one that is negative or too large, between Lock and Unlock and without  *)
(* a defer: net/http ends the request and the lock stays held.             *)
(*                                                                         *)
(* A definition followed by its namesake (ShoeAnew before Shoe)            *)
(* is a mutation of it, used only to see that a property would notice it.  *)
(***************************************************************************)
EXTENDS Integers, FiniteSets

CONSTANTS
  Tables,     \* table ids
  FullShoe,   \* the cards of a full shoe, each a card of its own
  Requests,   \* the POST requests the service ever receives
  Counts,     \* numbers of cards asked for
  Capacity    \* the longest slice of cards that can be made

ASSUME DeckAssumption ==
  /\ Counts \subseteq Int
  /\ Capacity \in Nat
  /\ IsFiniteSet(FullShoe)

VARIABLES
  shoes,   \* for each table, whether it has a shoe and the cards left in it
  req,     \* the table and the count of each request
  got,     \* the cards each request was dealt
  pc,      \* the handler's next step
  held     \* whether a handler that panicked left shoesMu locked

vars == <<shoes, req, got, pc, held>>

NoShoe == [made |-> FALSE, left |-> {}]

-----------------------------------------------------------------------------
\* Any POST below /shoe/{tableId}, whatever follows the table id in the path.
Receive(r) ==
  /\ pc[r] = "unsent"
  /\ \E t \in Tables, count \in Counts :
       req' = [req EXCEPT ![r] = [table |-> t, count |-> count]]
  /\ pc' = [pc EXCEPT ![r] = "shoe"]
  /\ UNCHANGED <<shoes, got, held>>

ShoeAnew(t) == [made |-> TRUE, left |-> FullShoe]

\* getOrCreateShoe: the shoe that is there, or a full one.
Shoe(t) == IF shoes[t].made THEN shoes[t] ELSE [made |-> TRUE, left |-> FullShoe]

GetOrCreateShoe(r) ==
  /\ pc[r] = "shoe"
  /\ ~held
  /\ shoes' = [shoes EXCEPT ![req[r].table] = Shoe(req[r].table)]
  /\ pc' = [pc EXCEPT ![r] = "deal"]
  /\ UNCHANGED <<req, got, held>>

\* The loop that takes cards from the front: as many as asked for, or all.
Dealable(count, left) ==
  {cards \in SUBSET left : Cardinality(cards) = count \/ (count > Cardinality(left) /\ cards = left)}

Deal(r) ==
  /\ pc[r] = "deal"
  /\ ~held
  /\ req[r].count \in 0..Capacity
  /\ LET t == req[r].table IN
     \E cards \in Dealable(req[r].count, shoes[t].left) :
       /\ got' = [got EXCEPT ![r] = cards]
       /\ shoes' = [shoes EXCEPT ![t].left = @ \ cards]
  /\ pc' = [pc EXCEPT ![r] = "answered"]
  /\ UNCHANGED <<req, held>>

\* make([]Card, 0, req.Count) panics: no Unlock, no answer.
Panic(r) ==
  /\ pc[r] = "deal"
  /\ ~held
  /\ req[r].count \notin 0..Capacity
  /\ held' = TRUE
  /\ pc' = [pc EXCEPT ![r] = "gone"]
  /\ UNCHANGED <<shoes, req, got>>

\* The shoes and the lock are in memory only; who waits for an answer gets none.
Restart ==
  /\ held' = FALSE
  /\ shoes' = [t \in Tables |-> NoShoe]
  /\ pc' = [r \in Requests |-> IF pc[r] = "unsent" THEN "unsent" ELSE "gone"]
  /\ UNCHANGED <<req, got>>

Init ==
  /\ shoes = [t \in Tables |-> NoShoe]
  /\ req = [r \in Requests |-> [table |-> "none", count |-> 0]]
  /\ got = [r \in Requests |-> {}]
  /\ pc = [r \in Requests |-> "unsent"]
  /\ held = FALSE

Next ==
  \/ \E r \in Requests : Receive(r) \/ GetOrCreateShoe(r) \/ Deal(r) \/ Panic(r)
  \/ Restart

Spec == Init /\ [][Next]_vars

-----------------------------------------------------------------------------
Answered(t) == {r \in Requests : pc[r] = "answered" /\ req[r].table = t}

\* Since the last restart no card of a table's shoe has gone out twice, and
\* none is lost: concurrent first requests do not make two shoes, and no shoe is
\* ever shuffled anew.  The latter is what the code does and not what is said of
\* it: contracts/openapi/deck-service.yaml:126 promises a new shoe at a penetration
\* of 75%, at which cards would go out again.
EachCardOnce ==
  \A t \in Tables :
    /\ \A r, q \in Answered(t) : r # q => got[r] \cap got[q] = {}
    /\ Answered(t) # {} => shoes[t].left = FullShoe \ UNION {got[r] : r \in Answered(t)}

=============================================================================
