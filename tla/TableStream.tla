---------------------------- MODULE TableStream ----------------------------
(***************************************************************************)
(* A player's table in the registry of game-state, and the streams of its  *)
(* states to browsers (game-state/main.go: Registry, Subscribe,            *)
(* Unsubscribe, Broadcast, SetState, sseHandler).                          *)
(*                                                                         *)
(* CreatePlayerTable looks the table up and inserts it under two locks,    *)
(* with calls of the bank in between.  SetState stores a state under the   *)
(* lock of the table and broadcasts it under a read lock taken anew; an    *)
(* event stream is subscribed, sent the present state, and then what its   *)
(* buffered channel holds.  A state is abstracted to its number.           *)
(*                                                                         *)
(* A definition followed by its namesake (InsertedAnyway before Inserted)  *)
(* is a mutation of it, used only to see that a property would notice it.  *)
(***************************************************************************)
EXTENDS Naturals, Sequences, FiniteSets

CONSTANTS
  Creators,   \* requests that create the table
  Watchers,   \* event streams
  Writers,    \* goroutines that change the table
  Tables,     \* Table objects that may be allocated
  Capacity,   \* of a channel, 16 in the code
  MaxWrites,  \* how many states are stored in all
  None        \* no table

ASSUME StreamAssumption ==
  /\ None \notin Tables
  /\ Creators \cap Watchers = {} /\ Creators \cap Writers = {} /\ Watchers \cap Writers = {}
  /\ Capacity \in Nat \ {0}
  /\ MaxWrites \in Nat

VARIABLES
  registered,  \* registry.tables[id], or None
  state,       \* of each table, the number of the last state stored
  clients,     \* of each table, the streams whose channels it holds
  queue,       \* the channel of each stream
  view,        \* the state each browser was sent last
  at,          \* the next step of each request and goroutine
  table,       \* the table each of them works on
  todo,        \* channels a broadcast has still to serve
  writing,     \* the state a writer stores and broadcasts
  writes,      \* states stored so far
  missed,      \* streams whose channel was full when a state was last sent
  overlapped   \* the last writer to start did so before another had finished

vars == <<registered, state, clients, queue, view, at, table, todo, writing,
          writes, missed, overlapped>>
stream == <<queue, view, missed>>
writer == <<todo, writing, writes, overlapped>>

Busy == {p \in Writers : at[p] # "idle"}

\* Table.mu: a broadcast holds it for reading while it serves the channels.
Lockable(t) == \A p \in Writers : ~ (at[p] = "sending" /\ table[p] = t)

Goto(a, step) == at' = [at EXCEPT ![a] = step]

-----------------------------------------------------------------------------
(* CreatePlayerTable *)

\* Under the read lock.  The balance of a table that is there is refreshed
\* only if the bank's answer is a number, which it never is.
Look(c) ==
  /\ at[c] = "look"
  /\ table' = [table EXCEPT ![c] = registered]
  /\ Goto(c, IF registered = None THEN "insert" ELSE "created")
  /\ UNCHANGED <<registered, state, clients, stream, writer>>

InsertedAnyway(new) == new

\* The double check under the write lock.
Inserted(new) == IF registered = None THEN new ELSE registered

\* After the calls of the bank, NewPlayerTable and the insertion.
Insert(c) ==
  /\ at[c] = "insert"
  /\ \E new \in Tables \ {table[a] : a \in DOMAIN table} :
       /\ registered' = Inserted(new)
       /\ table' = [table EXCEPT ![c] = Inserted(new)]
  /\ Goto(c, "created")
  /\ UNCHANGED <<state, clients, stream, writer>>

-----------------------------------------------------------------------------
(* sseHandler *)

HandlerSnapshotFirst == <<"connect", "snapshot", "subscribe", "stream">>

\* The order of the handler: subscribed before the present state is read.
Handler == <<"connect", "subscribe", "snapshot", "stream">>

Following(step) == Handler[1 + CHOOSE i \in 1..3 : Handler[i] = step]

\* GetOrCreate makes no player's table: without one the answer is 404.
Connect(w) ==
  /\ at[w] = "connect"
  /\ registered # None
  /\ table' = [table EXCEPT ![w] = registered]
  /\ Goto(w, Following("connect"))
  /\ UNCHANGED <<registered, state, clients, stream, writer>>

Subscribe(w) ==
  /\ at[w] = "subscribe"
  /\ Lockable(table[w])
  /\ clients' = [clients EXCEPT ![table[w]] = @ \cup {w}]
  /\ Goto(w, Following("subscribe"))
  /\ UNCHANGED <<registered, state, stream, table, writer>>

Snapshot(w) ==
  /\ at[w] = "snapshot"
  /\ view' = [view EXCEPT ![w] = state[table[w]]]
  /\ Goto(w, Following("snapshot"))
  /\ UNCHANGED <<registered, state, clients, queue, missed, table, writer>>

Receive(w) ==
  /\ at[w] = "stream"
  /\ queue[w] # <<>>
  /\ view' = [view EXCEPT ![w] = Head(queue[w])]
  /\ queue' = [queue EXCEPT ![w] = Tail(@)]
  /\ UNCHANGED <<registered, state, clients, missed, at, table, writer>>

\* The browser is gone; the deferred Unsubscribe.
Leave(w) ==
  /\ at[w] = "stream"
  /\ Goto(w, "unsubscribe")
  /\ UNCHANGED <<registered, state, clients, stream, table, writer>>

UnsubscribeAfterClose(w) ==
  /\ at[w] = "unsubscribe"
  /\ Goto(w, "closed")
  /\ UNCHANGED <<registered, state, clients, stream, table, writer>>

\* The channel leaves the map under the lock, and is closed after it.
Unsubscribe(w) ==
  /\ at[w] = "unsubscribe"
  /\ Lockable(table[w])
  /\ clients' = [clients EXCEPT ![table[w]] = @ \ {w}]
  /\ Goto(w, "close")
  /\ UNCHANGED <<registered, state, stream, table, writer>>

\* What the channel still held goes with it.
Close(w) ==
  /\ at[w] = "close"
  /\ queue' = [queue EXCEPT ![w] = <<>>]
  /\ view' = [view EXCEPT ![w] = 0]
  /\ missed' = missed \ {w}
  /\ Goto(w, "closed")
  /\ UNCHANGED <<registered, state, clients, table, writer>>

-----------------------------------------------------------------------------
(* SetState and Broadcast *)

\* A goroutine of the table that registry.Get found has a new state.
Start(p) ==
  /\ at[p] = "idle"
  /\ registered # None
  /\ writes < MaxWrites
  /\ table' = [table EXCEPT ![p] = registered]
  /\ writing' = [writing EXCEPT ![p] = writes + 1]
  /\ writes' = writes + 1
  /\ overlapped' = (Busy # {})
  /\ Goto(p, "store")
  /\ UNCHANGED <<registered, state, clients, stream, todo>>

Store(p) ==
  /\ at[p] = "store"
  /\ Lockable(table[p])
  /\ state' = [state EXCEPT ![table[p]] = writing[p]]
  /\ Goto(p, "broadcast")
  /\ UNCHANGED <<registered, clients, stream, table, writer>>

Broadcast(p) ==
  /\ at[p] = "broadcast"
  /\ todo' = [todo EXCEPT ![p] = clients[table[p]]]
  /\ Goto(p, "sending")
  /\ UNCHANGED <<registered, state, clients, stream, table, writing, writes, overlapped>>

SentWaiting(w, s) ==
  /\ Len(queue[w]) < Capacity
  /\ queue' = [queue EXCEPT ![w] = Append(@, s)]
  /\ missed' = missed \ {w}

\* select with a default: a full channel is passed over.
Sent(w, s) ==
  IF Len(queue[w]) < Capacity
    THEN queue' = [queue EXCEPT ![w] = Append(@, s)] /\ missed' = missed \ {w}
    ELSE missed' = missed \cup {w} /\ UNCHANGED queue

Send(p) ==
  /\ at[p] = "sending"
  /\ \E w \in todo[p] :
       /\ Sent(w, writing[p])
       /\ todo' = [todo EXCEPT ![p] = @ \ {w}]
  /\ UNCHANGED <<registered, state, clients, view, at, table, writing, writes, overlapped>>

Finish(p) ==
  /\ at[p] = "sending"
  /\ todo[p] = {}
  /\ writing' = [writing EXCEPT ![p] = 0]
  /\ table' = [table EXCEPT ![p] = None]
  /\ Goto(p, "idle")
  /\ UNCHANGED <<registered, state, clients, stream, todo, writes, overlapped>>

-----------------------------------------------------------------------------
Init ==
  /\ registered = None
  /\ state = [t \in Tables |-> 0]
  /\ clients = [t \in Tables |-> {}]
  /\ queue = [w \in Watchers |-> <<>>]
  /\ view = [w \in Watchers |-> 0]
  /\ at = [a \in Creators \cup Watchers \cup Writers |->
             IF a \in Creators THEN "look" ELSE IF a \in Watchers THEN "connect" ELSE "idle"]
  /\ table = [a \in Creators \cup Watchers \cup Writers |-> None]
  /\ todo = [p \in Writers |-> {}]
  /\ writing = [p \in Writers |-> 0]
  /\ writes = 0
  /\ missed = {}
  /\ overlapped = FALSE

Write(p) == Store(p) \/ Broadcast(p) \/ Send(p) \/ Finish(p)

Next ==
  \/ \E c \in Creators : Look(c) \/ Insert(c)
  \/ \E w \in Watchers :
       \/ Connect(w) \/ Subscribe(w) \/ Snapshot(w) \/ Receive(w)
       \/ Leave(w) \/ Unsubscribe(w) \/ Close(w)
  \/ \E p \in Writers : Start(p) \/ Write(p)

Spec == Init /\ [][Next]_vars

\* A goroutine that has a state to store goes on; browsers need not read.
FairSpec == Spec /\ \A p \in Writers : WF_vars(Write(p))

-----------------------------------------------------------------------------
TypeOK ==
  /\ registered \in Tables \cup {None}
  /\ state \in [Tables -> 0..MaxWrites]
  /\ clients \in [Tables -> SUBSET Watchers]
  /\ queue \in [Watchers -> Seq(1..MaxWrites)]
  /\ \A w \in Watchers : Len(queue[w]) <= Capacity
  /\ view \in [Watchers -> 0..MaxWrites]
  /\ at \in [Creators \cup Watchers \cup Writers ->
               {"look", "insert", "created", "connect", "subscribe", "snapshot", "stream",
                "unsubscribe", "close", "closed", "idle", "store", "broadcast", "sending"}]
  /\ table \in [Creators \cup Watchers \cup Writers -> Tables \cup {None}]
  /\ todo \in [Writers -> SUBSET Watchers]
  /\ writing \in [Writers -> 0..MaxWrites]
  /\ writes \in 0..MaxWrites
  /\ missed \subseteq Watchers
  /\ overlapped \in BOOLEAN

\* However requests to create it race, everybody works on one table, the one
\* the registry has.
OneTable == \A a \in DOMAIN table : table[a] \in {None, registered}

\* A broadcast never finds a closed channel, which would end the process.
NoSendOnClosed ==
  \A w \in Watchers : at[w] = "closed" =>
    /\ \A t \in Tables : w \notin clients[t]
    /\ \A p \in Writers : w \notin todo[p]

\* When nothing is under way, a browser that has read all it was sent shows
\* the present state, unless its channel was full, or the writers overlapped,
\* when the last state was sent: no state falls between the snapshot and the subscription.
CaughtUp ==
  \A w \in Watchers :
    at[w] = "stream" /\ queue[w] = <<>> /\ Busy = {} /\ w \notin missed /\ ~ overlapped =>
      view[w] = state[table[w]]

\* A broadcast ends even if no browser ever reads: players are not kept
\* waiting by the slowest of those who watch.
BroadcastEnds == \A p \in Writers : at[p] # "idle" ~> at[p] = "idle"

=============================================================================
