---------------------------- MODULE StreamProofs ----------------------------
(***************************************************************************)
(* Theorems about TableStream, for every number of requests, streams and   *)
(* goroutines: everybody works on one table, no broadcast finds a closed   *)
(* channel, and a browser that has read all it was sent is up to date.     *)
(*                                                                         *)
(* The last of these is not inductive: a stream whose snapshot is to come, *)
(* or whose channel is yet to be served, is behind.  Fresh says when it is *)
(* not, Pending which writer makes up for it; one writer at most is at     *)
(* work unless the last to start overlapped another.                       *)
(***************************************************************************)
EXTENDS TableStream, TLAPS

Actors == Creators \cup Watchers \cup Writers

\* What tells an actor's steps apart.
Steps ==
  /\ \A c \in Creators : at[c] \in {"look", "insert", "created"}
  /\ \A w \in Watchers :
       at[w] \in {"connect", "subscribe", "snapshot", "stream", "unsubscribe", "close", "closed"}
  /\ \A p \in Writers : at[p] \in {"idle", "store", "broadcast", "sending"}

\* Who is at work has a table, and a writer a state.
Working ==
  /\ \A w \in Watchers : at[w] # "connect" => table[w] \in Tables
  /\ \A p \in Writers : at[p] # "idle" => table[p] \in Tables /\ writing[p] \in 1..MaxWrites

\* A table holds the channels of streams that are subscribed to it, and a
\* broadcast serves channels of its table.
Held ==
  /\ \A t \in Tables : \A w \in clients[t] :
       at[w] \in {"snapshot", "stream", "unsubscribe"} /\ table[w] = t
  /\ \A w \in Watchers :
       at[w] \in {"snapshot", "stream"} => w \in clients[table[w]]
  /\ \A p \in Writers : todo[p] # {} => at[p] = "sending" /\ todo[p] \subseteq clients[table[p]]
  /\ \A w \in Watchers : at[w] \in {"connect", "subscribe"} => queue[w] = <<>>

StreamInv == TypeOK /\ Steps /\ Working /\ OneTable /\ Held

-----------------------------------------------------------------------------
\* A path through the handler has four steps.
LEMMA HandlerSteps ==
  /\ Following("connect") = "subscribe"
  /\ Following("subscribe") = "snapshot"
  /\ Following("snapshot") = "stream"
  <1>1. \A step : \A i \in 1..3 :
          (\A j \in 1..3 : Handler[j] = step <=> j = i) => Following(step) = Handler[1 + i]
    <2> TAKE step
    <2> TAKE i \in 1..3
    <2> HAVE \A j \in 1..3 : Handler[j] = step <=> j = i
    <2>1. (CHOOSE j \in 1..3 : Handler[j] = step) = i
      OBVIOUS
    <2> QED
      BY <2>1 DEF Following
  <1>2. /\ \A j \in 1..3 : Handler[j] = "connect" <=> j = 1
        /\ \A j \in 1..3 : Handler[j] = "subscribe" <=> j = 2
        /\ \A j \in 1..3 : Handler[j] = "snapshot" <=> j = 3
    <2>1. \A j \in 1..3 : j = 1 \/ j = 2 \/ j = 3
      OBVIOUS
    <2> QED
      BY <2>1 DEF Handler
  <1>3. Handler[1 + 1] = "subscribe" /\ Handler[1 + 2] = "snapshot" /\ Handler[1 + 3] = "stream"
    BY DEF Handler
  <1> QED
    BY <1>1, <1>2, <1>3

\* Before the first request there is no table and no stream.
LEMMA StreamInvInit == Init => StreamInv
  <1> SUFFICES ASSUME Init PROVE StreamInv
    OBVIOUS
  <1> USE StreamAssumption DEF StreamAssumption, Init
  <1>1. TypeOK
    <2>1. \A w \in Watchers : queue[w] = <<>> /\ queue[w] \in Seq(1..MaxWrites) /\ Len(queue[w]) = 0
      OBVIOUS
    <2>2. queue \in [Watchers -> Seq(1..MaxWrites)]
      BY <2>1
    <2>3. at \in [Creators \cup Watchers \cup Writers -> {"look", "connect", "idle"}]
      OBVIOUS
    <2>4. /\ state \in [Tables -> 0..MaxWrites] /\ view \in [Watchers -> 0..MaxWrites]
          /\ writing \in [Writers -> 0..MaxWrites] /\ writes \in 0..MaxWrites
      OBVIOUS
    <2>5. /\ clients \in [Tables -> SUBSET Watchers] /\ todo \in [Writers -> SUBSET Watchers]
          /\ table \in [Creators \cup Watchers \cup Writers -> Tables \cup {None}]
      OBVIOUS
    <2>6. registered \in Tables \cup {None} /\ missed \subseteq Watchers /\ overlapped \in BOOLEAN
      OBVIOUS
    <2>7. \A w \in Watchers : Len(queue[w]) <= Capacity
      BY <2>1
    <2>8. at \in [Creators \cup Watchers \cup Writers ->
                  {"look", "insert", "created", "connect", "subscribe", "snapshot", "stream",
                   "unsubscribe", "close", "closed", "idle", "store", "broadcast", "sending"}]
      BY <2>3
    <2> QED
      BY <2>2, <2>4, <2>5, <2>6, <2>7, <2>8 DEF TypeOK
  <1>2. Steps /\ Working
    BY DEF Steps, Working
  <1>3. OneTable /\ Held
    BY DEF OneTable, Held
  <1> QED
    BY <1>1, <1>2, <1>3 DEF StreamInv

\* Requests that create the table leave the streams alone.
LEMMA CreatorsKeep ==
  ASSUME StreamInv, NEW c \in Creators, Look(c) \/ Insert(c)
  PROVE  StreamInv'
  <1> USE StreamAssumption DEF StreamAssumption, StreamInv, stream, writer
  <1>1. CASE Look(c)
    <2> USE <1>1 DEF Look, Goto
    <2>1. TypeOK'
      BY DEF TypeOK
    <2>2. Steps' /\ Working'
      BY DEF TypeOK, Steps, Working
    <2>3. OneTable' /\ Held'
      BY DEF TypeOK, OneTable, Held
    <2> QED
      BY <2>1, <2>2, <2>3
  <1>2. CASE Insert(c)
    <2> USE DEF Insert, Goto
    <2>1. PICK new \in Tables : /\ registered' = Inserted(new)
                                /\ table' = [table EXCEPT ![c] = Inserted(new)]
      BY <1>2
    <2>2. Inserted(new) \in Tables /\ (registered # None => Inserted(new) = registered)
      BY DEF Inserted, TypeOK
    <2>3. TypeOK'
      BY <1>2, <2>1, <2>2 DEF TypeOK
    <2>4. Steps' /\ Working'
      BY <1>2, <2>1, <2>2 DEF TypeOK, Steps, Working
    <2>5. OneTable'
      BY <1>2, <2>1, <2>2 DEF TypeOK, OneTable
    <2>6. Held'
      BY <1>2, <2>1 DEF TypeOK, Held
    <2> QED
      BY <2>3, <2>4, <2>5, <2>6
  <1> QED
    BY <1>1, <1>2

\* A stream is subscribed once it has a table, and keeps it.
LEMMA WatchersKeep ==
  ASSUME StreamInv, NEW w \in Watchers,
         \/ Connect(w) \/ Subscribe(w) \/ Snapshot(w) \/ Receive(w) \/ Leave(w) \/ Close(w)
  PROVE  StreamInv'
  <1> USE StreamAssumption, HandlerSteps DEF StreamAssumption, StreamInv, stream, writer, Goto
  <1>1. CASE Connect(w)
    <2> USE <1>1 DEF Connect
    <2>1. registered \in Tables
      BY DEF TypeOK
    <2>2. TypeOK'
      BY <2>1 DEF TypeOK
    <2>3. Steps' /\ Working'
      BY <2>1 DEF TypeOK, Steps, Working
    <2>4. OneTable'
      BY <2>1 DEF TypeOK, OneTable
    <2>5. \A t \in Tables : w \notin clients[t]
      BY DEF Held
    <2>6. Held'
      BY <2>5 DEF TypeOK, Held
    <2> QED
      BY <2>2, <2>3, <2>4, <2>6
  <1>2. CASE Subscribe(w)
    <2> USE <1>2 DEF Subscribe
    <2>1. table[w] \in Tables
      BY DEF Working
    <2>2. TypeOK'
      BY <2>1 DEF TypeOK
    <2>3. Steps' /\ Working' /\ OneTable'
      BY DEF TypeOK, Steps, Working, OneTable
    <2>4. \A t \in Tables : w \notin clients[t]
      BY DEF Held
    <2>5. clients'[table[w]] = clients[table[w]] \cup {w}
      BY <2>1 DEF TypeOK
    <2>6. \A t \in Tables : t # table[w] => clients'[t] = clients[t]
      BY <2>1 DEF TypeOK
    <2>7. at'[w] = "snapshot" /\ \A a \in Actors : a # w => at'[a] = at[a]
      BY DEF TypeOK, Actors
    <2>8. \A t \in Tables : \A v \in clients'[t] :
            at'[v] \in {"snapshot", "stream", "unsubscribe"} /\ table'[v] = t
      BY <2>4, <2>5, <2>6, <2>7 DEF Held, TypeOK, Actors
    <2>9. \A v \in Watchers : at'[v] \in {"snapshot", "stream"} => v \in clients'[table'[v]]
      BY <2>5, <2>6, <2>7 DEF Held, TypeOK, Actors, Working
    <2>10. \A p \in Writers :
             todo'[p] # {} => at'[p] = "sending" /\ todo'[p] \subseteq clients'[table'[p]]
      BY <2>5, <2>6, <2>7 DEF Held, TypeOK, Actors, Working
    <2>11. \A v \in Watchers : at'[v] \in {"connect", "subscribe"} => queue'[v] = <<>>
      BY <2>7 DEF Held, Actors
    <2> QED
      BY <2>2, <2>3, <2>8, <2>9, <2>10, <2>11 DEF Held
  <1>3. CASE Snapshot(w)
    <2> USE <1>3 DEF Snapshot
    <2>1. table[w] \in Tables
      BY DEF Working
    <2>2. TypeOK'
      BY <2>1 DEF TypeOK
    <2>3. Steps' /\ Working' /\ OneTable'
      BY DEF TypeOK, Steps, Working, OneTable
    <2>4. Held'
      BY DEF TypeOK, Held
    <2> QED
      BY <2>2, <2>3, <2>4
  <1>4. CASE Receive(w)
    <2> USE <1>4 DEF Receive
    <2>1. /\ Head(queue[w]) \in 1..MaxWrites /\ Tail(queue[w]) \in Seq(1..MaxWrites)
          /\ Len(Tail(queue[w])) <= Capacity
      BY DEF TypeOK
    <2>2. TypeOK'
      BY <2>1 DEF TypeOK
    <2>3. Steps' /\ Working' /\ OneTable'
      BY DEF TypeOK, Steps, Working, OneTable
    <2>4. Held'
      BY DEF TypeOK, Held
    <2> QED
      BY <2>2, <2>3, <2>4
  <1>5. CASE Leave(w)
    <2> USE <1>5 DEF Leave
    <2>1. TypeOK'
      BY DEF TypeOK
    <2>2. Steps' /\ Working' /\ OneTable'
      BY DEF TypeOK, Steps, Working, OneTable
    <2>3. Held'
      BY DEF TypeOK, Held
    <2> QED
      BY <2>1, <2>2, <2>3
  <1>6. CASE Close(w)
    <2> USE <1>6 DEF Close
    <2>1. <<>> \in Seq(1..MaxWrites) /\ Len(<<>>) = 0
      OBVIOUS
    <2>2. TypeOK'
      BY <2>1 DEF TypeOK
    <2>3. Steps' /\ Working' /\ OneTable'
      BY DEF TypeOK, Steps, Working, OneTable
    <2>4. Held'
      BY DEF TypeOK, Held
    <2> QED
      BY <2>2, <2>3, <2>4
  <1> QED
    BY <1>1, <1>2, <1>3, <1>4, <1>5, <1>6

\* The lock of the table keeps a stream's channel from leaving it in the
\* middle of a broadcast.
LEMMA UnsubscribeKeeps ==
  ASSUME StreamInv, NEW w \in Watchers, Unsubscribe(w)
  PROVE  StreamInv'
  <1> USE StreamAssumption DEF StreamAssumption, StreamInv, stream, writer, Goto, Unsubscribe
  <1>1. table[w] \in Tables
    BY DEF Working
  <1>2. TypeOK'
    BY <1>1 DEF TypeOK
  <1>3. Steps' /\ Working' /\ OneTable'
    BY DEF TypeOK, Steps, Working, OneTable
  <1>4. clients'[table[w]] = clients[table[w]] \ {w}
    BY <1>1 DEF TypeOK
  <1>5. \A t \in Tables : t # table[w] => clients'[t] = clients[t]
    BY <1>1 DEF TypeOK
  <1>6. at'[w] = "close" /\ \A a \in Actors : a # w => at'[a] = at[a]
    BY DEF TypeOK, Actors
  <1>7. \A t \in Tables : \A v \in clients'[t] :
          at'[v] \in {"snapshot", "stream", "unsubscribe"} /\ table'[v] = t
    BY <1>4, <1>5, <1>6 DEF Held, TypeOK, Actors
  <1>8. \A v \in Watchers : at'[v] \in {"snapshot", "stream"} => v \in clients'[table'[v]]
    BY <1>4, <1>5, <1>6 DEF Held, TypeOK, Actors, Working
  <1>9. \A p \in Writers :
          todo'[p] # {} => at'[p] = "sending" /\ todo'[p] \subseteq clients'[table'[p]]
    <2> SUFFICES ASSUME NEW p \in Writers, todo[p] # {}
                 PROVE  at'[p] = "sending" /\ todo[p] \subseteq clients'[table[p]]
      OBVIOUS
    <2>1. at[p] = "sending" /\ todo[p] \subseteq clients[table[p]] /\ table[p] \in Tables
      BY DEF Held, Working
    <2>2. table[p] # table[w]
      BY <2>1 DEF Lockable
    <2> QED
      BY <2>1, <2>2, <1>5, <1>6 DEF Actors
  <1>10. \A v \in Watchers : at'[v] \in {"connect", "subscribe"} => queue'[v] = <<>>
    BY <1>6 DEF Held, Actors
  <1> QED
    BY <1>2, <1>3, <1>7, <1>8, <1>9, <1>10 DEF Held

\* A writer works on the registered table and serves its channels.
LEMMA WritersKeep ==
  ASSUME StreamInv, NEW p \in Writers, Start(p) \/ Store(p) \/ Broadcast(p) \/ Finish(p)
  PROVE  StreamInv'
  <1> USE StreamAssumption DEF StreamAssumption, StreamInv, stream, writer, Goto
  <1>1. CASE Start(p)
    <2> USE <1>1 DEF Start
    <2>1. registered \in Tables /\ todo[p] = {}
      BY DEF TypeOK, Held
    <2>2. writes \in 0..MaxWrites /\ writes < MaxWrites
      BY DEF TypeOK
    <2>3. writes + 1 \in 1..MaxWrites
      BY <2>2
    <2>4. TypeOK'
      BY <2>1, <2>3 DEF TypeOK, Busy
    <2>5. Steps' /\ Working' /\ OneTable'
      BY <2>1, <2>3 DEF TypeOK, Steps, Working, OneTable
    <2>6. Held'
      BY <2>1 DEF TypeOK, Held
    <2> QED
      BY <2>4, <2>5, <2>6
  <1>2. CASE Store(p)
    <2> USE <1>2 DEF Store
    <2>1. table[p] \in Tables /\ writing[p] \in 1..MaxWrites
      BY DEF Working
    <2>2. TypeOK'
      BY <2>1 DEF TypeOK
    <2>3. Steps' /\ Working' /\ OneTable'
      BY DEF TypeOK, Steps, Working, OneTable
    <2>4. Held'
      BY DEF TypeOK, Held
    <2> QED
      BY <2>2, <2>3, <2>4
  <1>3. CASE Broadcast(p)
    <2> USE <1>3 DEF Broadcast
    <2>1. table[p] \in Tables
      BY DEF Working
    <2>2. TypeOK'
      BY <2>1 DEF TypeOK
    <2>3. Steps' /\ Working' /\ OneTable'
      BY DEF TypeOK, Steps, Working, OneTable
    <2>4. Held'
      BY <2>1 DEF TypeOK, Held
    <2> QED
      BY <2>2, <2>3, <2>4
  <1>4. CASE Finish(p)
    <2> USE <1>4 DEF Finish
    <2>1. TypeOK'
      BY DEF TypeOK
    <2>2. Steps' /\ Working' /\ OneTable'
      BY DEF TypeOK, Steps, Working, OneTable
    <2>3. Held'
      BY DEF TypeOK, Held
    <2> QED
      BY <2>1, <2>2, <2>3
  <1> QED
    BY <1>1, <1>2, <1>3, <1>4

\* A channel is served only if it is held, and it takes no more than it can.
LEMMA SendKeeps ==
  ASSUME StreamInv, NEW p \in Writers, Send(p)
  PROVE  StreamInv'
  <1> USE StreamAssumption DEF StreamAssumption, StreamInv, Send
  <1>1. PICK w \in todo[p] : Sent(w, writing[p]) /\ todo' = [todo EXCEPT ![p] = @ \ {w}]
    OBVIOUS
  <1>2. /\ table[p] \in Tables /\ writing[p] \in 1..MaxWrites /\ w \in Watchers
        /\ w \in clients[table[p]]
    BY DEF Working, Held, TypeOK
  <1>3. queue[w] \in Seq(1..MaxWrites)
    BY <1>2 DEF TypeOK
  <1>4. Append(queue[w], writing[p]) \in Seq(1..MaxWrites)
    BY <1>2, <1>3
  <1>5. Len(Append(queue[w], writing[p])) = Len(queue[w]) + 1 /\ Len(queue[w]) \in Nat
    BY <1>2, <1>3
  <1>6. \/ /\ Len(queue[w]) < Capacity /\ missed' = missed \ {w}
           /\ queue' = [queue EXCEPT ![w] = Append(@, writing[p])]
        \/ queue' = queue /\ missed' = missed \cup {w}
    BY <1>1 DEF Sent
  <1>7. queue' \in [Watchers -> Seq(1..MaxWrites)] /\ missed' \subseteq Watchers
    <2>1. queue \in [Watchers -> Seq(1..MaxWrites)] /\ missed \subseteq Watchers
      BY DEF TypeOK
    <2>2. CASE queue' = queue /\ missed' = missed \cup {w}
      BY <2>1, <2>2, <1>2
    <2>3. CASE queue' = [queue EXCEPT ![w] = Append(@, writing[p])] /\ missed' = missed \ {w}
      <3>1. \A v \in Watchers : queue'[v] \in Seq(1..MaxWrites)
        BY <2>1, <2>3, <1>2, <1>4
      <3>2. queue' \in [Watchers -> Seq(1..MaxWrites)]
        BY <2>1, <2>3, <3>1
      <3> QED
        BY <2>1, <2>3, <3>2
    <2> QED
      BY <1>6, <2>2, <2>3
  <1>8. \A v \in Watchers : Len(queue'[v]) <= Capacity
    <2> TAKE v \in Watchers
    <2>1. CASE v = w /\ queue'[w] = Append(queue[w], writing[p]) /\ Len(queue[w]) < Capacity
      BY <2>1, <1>5
    <2>2. CASE queue'[v] = queue[v]
      BY <2>2 DEF TypeOK
    <2> QED
      BY <2>1, <2>2, <1>6, <1>2 DEF TypeOK
  <1>9. TypeOK'
    BY <1>1, <1>7, <1>8 DEF TypeOK
  <1>10. Steps' /\ Working' /\ OneTable'
    BY DEF Steps, Working, OneTable
  <1>11. at[w] \in {"snapshot", "stream", "unsubscribe"}
    BY <1>2 DEF Held
  <1>12. \A v \in Watchers : v # w => queue'[v] = queue[v]
    BY <1>6 DEF TypeOK
  <1>13. Held'
    BY <1>1, <1>11, <1>12 DEF Held, TypeOK
  <1> QED
    BY <1>9, <1>10, <1>13

\* Every step keeps the invariant.
LEMMA StreamInvNext == StreamInv /\ [Next]_vars => StreamInv'
  <1> SUFFICES ASSUME StreamInv, [Next]_vars PROVE StreamInv'
    OBVIOUS
  <1>1. CASE UNCHANGED vars
    BY <1>1 DEF vars, stream, writer, StreamInv, TypeOK, Steps, Working, OneTable, Held
  <1>2. CASE Next
    <2>1. CASE \E c \in Creators : Look(c) \/ Insert(c)
      BY <2>1, CreatorsKeep
    <2>2. CASE \E w \in Watchers :
                 Connect(w) \/ Subscribe(w) \/ Snapshot(w) \/ Receive(w) \/ Leave(w) \/ Close(w)
      BY <2>2, WatchersKeep
    <2>3. CASE \E w \in Watchers : Unsubscribe(w)
      BY <2>3, UnsubscribeKeeps
    <2>4. CASE \E p \in Writers : Start(p) \/ Store(p) \/ Broadcast(p) \/ Finish(p)
      BY <2>4, WritersKeep
    <2>5. CASE \E p \in Writers : Send(p)
      BY <2>5, SendKeeps
    <2> QED
      BY <1>2, <2>1, <2>2, <2>3, <2>4, <2>5 DEF Next, Write
  <1> QED
    BY <1>1, <1>2

\* The invariant, for any number of requests, streams and goroutines.
THEOREM StreamInvariant == Spec => []StreamInv
  BY StreamInvInit, StreamInvNext, PTL DEF Spec

\* However requests to create it race, everybody works on one table: the
\* double check of CreatePlayerTable is enough.
THEOREM EverybodyOnOneTable == Spec => []OneTable
  <1>1. StreamInv => OneTable
    BY DEF StreamInv
  <1> QED
    BY <1>1, StreamInvariant, PTL

\* A channel is closed after it has left the table under the lock that a
\* broadcast holds: nothing is sent on a closed channel.
THEOREM NothingSentOnClosed == Spec => []NoSendOnClosed
  <1>1. StreamInv => NoSendOnClosed
    BY DEF StreamInv, NoSendOnClosed, Held, TypeOK, Working
  <1> QED
    BY <1>1, StreamInvariant, PTL

-----------------------------------------------------------------------------
\* A writer has yet to send what it stores to this stream.
Pending(w) ==
  \E p \in Writers : at[p] \in {"store", "broadcast"} \/ (at[p] = "sending" /\ w \in todo[p])

Newest(w) == queue[w][Len(queue[w])]

\* The last thing this stream is sent, or has been, is the present state.
Fresh(w) ==
  /\ queue[w] # <<>> => Newest(w) = state[table[w]]
  /\ at[w] = "stream" /\ queue[w] = <<>> => view[w] = state[table[w]]

\* Unless the last writer to start overlapped another, it is the only one at
\* work, and what it has stored is the present state.
Alone == ~ overlapped => \A p, q \in Busy : p = q

Stored ==
  ~ overlapped => \A p \in Writers : at[p] \in {"broadcast", "sending"} => state[table[p]] = writing[p]

Current ==
  ~ overlapped =>
    \A w \in Watchers : at[w] \in {"snapshot", "stream"} /\ w \notin missed => Fresh(w) \/ Pending(w)

CurrentInv == StreamInv /\ Alone /\ Stored /\ Current

\* Nobody watches yet.
LEMMA CurrentInvInit == Init => CurrentInv
  <1> SUFFICES ASSUME Init PROVE CurrentInv
    OBVIOUS
  <1>1. StreamInv
    BY StreamInvInit
  <1>2. Busy = {}
    BY <1>1 DEF Init, Busy, StreamInv, Steps
  <1>3. \A w \in Watchers : at[w] = "connect"
    BY StreamAssumption DEF Init, StreamAssumption
  <1> QED
    BY <1>1, <1>2, <1>3 DEF CurrentInv, Alone, Stored, Current, Busy

\* What is sent last comes out last.
LEMMA NewestLeft ==
  ASSUME NEW q \in Seq(1..MaxWrites), q # <<>>
  PROVE  /\ Tail(q) = <<>> => q[Len(q)] = Head(q)
         /\ Tail(q) # <<>> => Tail(q)[Len(Tail(q))] = q[Len(q)]
  <1>1. Len(q) \in Nat /\ Len(q) # 0
    OBVIOUS
  <1>2. Len(Tail(q)) = Len(q) - 1
    BY <1>1
  <1>3. Tail(q) = <<>> => Len(q) = 1
    BY <1>1, <1>2
  <1>4. Tail(q) # <<>> => Len(q) - 1 \in 1..(Len(q) - 1)
    BY <1>1, <1>2
  <1> QED
    BY <1>1, <1>2, <1>3, <1>4

\* What no request does to a stream, or a stream to a writer.
LEMMA CurrentCreators ==
  ASSUME CurrentInv, NEW c \in Creators, Look(c) \/ Insert(c), StreamInv'
  PROVE  CurrentInv'
  <1> USE StreamAssumption DEF StreamAssumption, CurrentInv, StreamInv, stream, writer, Goto
  <1>1. /\ \A a \in Watchers \cup Writers : at'[a] = at[a] /\ table'[a] = table[a]
        /\ UNCHANGED <<state, stream, writer>>
    <2>1. CASE Look(c)
      BY <2>1 DEF Look, TypeOK
    <2>2. CASE Insert(c)
      BY <2>2 DEF Insert, TypeOK
    <2> QED
      BY <2>1, <2>2
  <1>2. Alone'
    BY <1>1 DEF Alone, Busy
  <1>3. Stored'
    BY <1>1 DEF Stored
  <1>4. \A w \in Watchers : (Fresh(w) => Fresh(w)') /\ (Pending(w) => Pending(w)')
    BY <1>1 DEF Fresh, Newest, Pending
  <1>5. Current'
    BY <1>1, <1>4 DEF Current
  <1> QED
    BY <1>2, <1>3, <1>5

\* A stream that is subscribed has been sent nothing; its snapshot is the
\* present state, and does not go back behind what its channel holds.
LEMMA CurrentWatchers ==
  ASSUME CurrentInv, StreamInv', NEW w \in Watchers,
         \/ Connect(w) \/ Subscribe(w) \/ Snapshot(w) \/ Receive(w) \/ Leave(w)
         \/ Unsubscribe(w) \/ Close(w)
  PROVE  CurrentInv'
  <1> USE StreamAssumption, HandlerSteps DEF StreamAssumption, CurrentInv, StreamInv, stream, writer, Goto
  <1>1. /\ \A a \in Actors : a # w => at'[a] = at[a] /\ table'[a] = table[a]
        /\ UNCHANGED <<state, writer>>
        /\ \A v \in Watchers : v # w => queue'[v] = queue[v] /\ view'[v] = view[v]
        /\ \A v \in Watchers : v # w /\ v \notin missed' => v \notin missed
    <2>1. CASE Connect(w)
      BY <2>1 DEF Connect, TypeOK, Actors
    <2>2. CASE Subscribe(w)
      BY <2>2 DEF Subscribe, TypeOK, Actors
    <2>3. CASE Snapshot(w)
      BY <2>3 DEF Snapshot, TypeOK, Actors
    <2>4. CASE Receive(w)
      BY <2>4 DEF Receive, TypeOK, Actors
    <2>5. CASE Leave(w) \/ Unsubscribe(w)
      BY <2>5 DEF Leave, Unsubscribe, TypeOK, Actors
    <2>6. CASE Close(w)
      BY <2>6 DEF Close, TypeOK, Actors
    <2> QED
      BY <2>1, <2>2, <2>3, <2>4, <2>5, <2>6
  <1>2. Alone'
    BY <1>1 DEF Alone, Busy, Actors
  <1>3. Stored'
    BY <1>1 DEF Stored, Actors
  <1>4. \A v \in Watchers : Pending(v) => Pending(v)'
    BY <1>1 DEF Pending, Actors
  <1>5. \A v \in Watchers : v # w /\ Fresh(v) => Fresh(v)'
    BY <1>1 DEF Fresh, Newest, Actors
  <1>6. at'[w] \in {"snapshot", "stream"} /\ w \notin missed' /\ ~ overlapped =>
          Fresh(w)' \/ Pending(w)'
    <2> SUFFICES ASSUME at'[w] \in {"snapshot", "stream"}, w \notin missed', ~ overlapped,
                        ~ Pending(w)'
                 PROVE  Fresh(w)'
      OBVIOUS
    <2>1. CASE Subscribe(w)
      BY <2>1 DEF Subscribe, Held, Fresh, TypeOK
    <2>2. CASE Snapshot(w)
      <3>1. at[w] = "snapshot" /\ at'[w] = "stream" /\ view'[w] = state[table[w]]
        BY <2>2 DEF Snapshot, TypeOK
      <3>2. Fresh(w)
        BY <2>2, <3>1, <1>4 DEF Snapshot, Current
      <3> QED
        BY <2>2, <3>1, <3>2 DEF Snapshot, Fresh, Newest
    <2>3. CASE Receive(w)
      <3>1. /\ queue[w] \in Seq(1..MaxWrites) /\ queue[w] # <<>>
            /\ view'[w] = Head(queue[w]) /\ queue'[w] = Tail(queue[w])
            /\ UNCHANGED <<state, table, missed, at>>
        BY <2>3 DEF Receive, TypeOK
      <3>2. Newest(w) = state[table[w]]
        BY <2>3, <3>1, <1>4 DEF Receive, Current, Fresh
      <3> QED
        BY <3>1, <3>2, NewestLeft DEF Fresh, Newest
    <2>4. CASE Connect(w) \/ Leave(w) \/ Unsubscribe(w) \/ Close(w)
      BY <2>4 DEF Connect, Leave, Unsubscribe, Close, TypeOK
    <2> QED
      BY <2>1, <2>2, <2>3, <2>4
  <1>7. Current'
    BY <1>1, <1>4, <1>5, <1>6 DEF Current, Actors
  <1> QED
    BY <1>2, <1>3, <1>7

\* A writer that starts alone makes every stream pending, and serves each.
LEMMA CurrentWriters ==
  ASSUME CurrentInv, StreamInv', NEW p \in Writers, Start(p) \/ Store(p) \/ Broadcast(p) \/ Finish(p)
  PROVE  CurrentInv'
  <1> USE StreamAssumption DEF StreamAssumption, CurrentInv, StreamInv, stream, writer, Goto
  <1>1. /\ \A a \in Actors : a # p => at'[a] = at[a] /\ table'[a] = table[a]
        /\ UNCHANGED <<stream>>
        /\ \A q \in Writers : q # p => todo'[q] = todo[q] /\ writing'[q] = writing[q]
    <2>1. CASE Start(p)
      BY <2>1 DEF Start, TypeOK, Actors
    <2>2. CASE Store(p)
      BY <2>2 DEF Store, TypeOK, Actors
    <2>3. CASE Broadcast(p)
      BY <2>3 DEF Broadcast, TypeOK, Actors
    <2>4. CASE Finish(p)
      BY <2>4 DEF Finish, TypeOK, Actors
    <2> QED
      BY <2>1, <2>2, <2>3, <2>4
  <1>2. CASE Start(p)
    <2>1. at[p] = "idle" /\ at'[p] = "store"
      BY <1>2 DEF Start, TypeOK
    <2>2. overlapped' = (Busy # {})
      BY <1>2 DEF Start
    <2>3. ~ overlapped' => \A q \in Writers : q # p => at'[q] = "idle"
      BY <2>2, <1>1 DEF Busy, Actors
    <2>4. Alone'
      BY <2>1, <2>3 DEF Alone, Busy
    <2>5. Stored'
      BY <2>1, <2>3 DEF Stored
    <2>6. \A w \in Watchers : Pending(w)'
      BY <2>1 DEF Pending
    <2>7. Current'
      BY <2>6 DEF Current
    <2> QED
      BY <2>4, <2>5, <2>7
  <1>3. CASE Store(p)
    <2>1. at[p] = "store" /\ at'[p] = "broadcast" /\ UNCHANGED <<table, writer>>
      BY <1>3 DEF Store, TypeOK
    <2>2. state'[table[p]] = writing[p]
      BY <1>3, <2>1 DEF Store, TypeOK, Working
    <2>3. ~ overlapped => \A q \in Writers : q # p => at[q] = "idle"
      BY <2>1 DEF Alone, Busy
    <2>4. Alone'
      BY <2>1, <2>3, <1>1 DEF Alone, Busy, Actors
    <2>5. Stored'
      BY <2>1, <2>2, <2>3, <1>1 DEF Stored, Actors
    <2>6. \A w \in Watchers : Pending(w)'
      BY <2>1 DEF Pending
    <2>7. Current'
      BY <2>6 DEF Current
    <2> QED
      BY <2>4, <2>5, <2>7
  <1>4. CASE Broadcast(p)
    <2>1. /\ at[p] = "broadcast" /\ at'[p] = "sending" /\ todo'[p] = clients[table[p]]
          /\ UNCHANGED <<state, table, writing, overlapped>>
      BY <1>4 DEF Broadcast, TypeOK
    <2>2. Alone'
      BY <2>1, <1>1 DEF Alone, Busy, Actors
    <2>3. Stored'
      BY <2>1, <1>1 DEF Stored, Actors
    <2>4. \A w \in Watchers : at[w] \in {"snapshot", "stream"} => Pending(w)'
      <3> SUFFICES ASSUME NEW w \in Watchers, at[w] \in {"snapshot", "stream"}
                   PROVE  w \in clients[table[p]]
        BY <2>1 DEF Pending
      <3>1. table[w] \in Tables /\ table[p] \in Tables
        BY <2>1 DEF Working
      <3>2. table[w] = table[p]
        BY <3>1 DEF OneTable, TypeOK
      <3> QED
        BY <3>2 DEF Held
    <2>5. Current'
      BY <2>4, <1>1 DEF Current, Actors
    <2> QED
      BY <2>2, <2>3, <2>5
  <1>5. CASE Finish(p)
    <2>1. /\ at[p] = "sending" /\ todo[p] = {} /\ at'[p] = "idle"
          /\ UNCHANGED <<state, todo, overlapped>>
      BY <1>5 DEF Finish, TypeOK
    <2>2. Alone'
      BY <2>1, <1>1 DEF Alone, Busy, Actors
    <2>3. Stored'
      BY <2>1, <1>1 DEF Stored, Actors
    <2>4. \A w \in Watchers : (Fresh(w) => Fresh(w)') /\ (Pending(w) => Pending(w)')
      BY <2>1, <1>1 DEF Fresh, Newest, Pending, Actors
    <2>5. Current'
      BY <2>1, <2>4, <1>1 DEF Current, Actors
    <2> QED
      BY <2>2, <2>3, <2>5
  <1> QED
    BY <1>2, <1>3, <1>4, <1>5

\* A stream that is served has the present state in its channel, or missed it.
LEMMA CurrentSend ==
  ASSUME CurrentInv, StreamInv', NEW p \in Writers, Send(p)
  PROVE  CurrentInv'
  <1> USE StreamAssumption DEF StreamAssumption, CurrentInv, StreamInv
  <1>1. PICK w \in todo[p] : Sent(w, writing[p]) /\ todo' = [todo EXCEPT ![p] = @ \ {w}]
    BY DEF Send
  <1>2. /\ at[p] = "sending" /\ UNCHANGED <<state, view, at, table, writing, overlapped>>
        /\ w \in Watchers /\ w \in clients[table[p]] /\ table[p] \in Tables
        /\ writing[p] \in 1..MaxWrites
    BY DEF Send, Held, Working, TypeOK
  <1>3. \A v \in Watchers : v # w => queue'[v] = queue[v] /\ (v \in missed' <=> v \in missed)
    BY <1>1, <1>2 DEF Sent, TypeOK
  <1>4. Alone' /\ Stored'
    BY <1>2 DEF Alone, Stored, Busy
  <1>5. \A v \in Watchers : v # w /\ Pending(v) => Pending(v)'
    BY <1>1, <1>2 DEF Pending, TypeOK
  <1>6. \A v \in Watchers : v # w /\ Fresh(v) => Fresh(v)'
    BY <1>2, <1>3 DEF Fresh, Newest
  <1>7. ~ overlapped /\ w \notin missed' => Fresh(w)'
    <2> SUFFICES ASSUME ~ overlapped, w \notin missed' PROVE Fresh(w)'
      OBVIOUS
    <2>1. queue[w] \in Seq(1..MaxWrites)
      BY <1>2 DEF TypeOK
    <2>2. queue'[w] = Append(queue[w], writing[p])
      BY <1>1, <1>2 DEF Sent, TypeOK
    <2>3. queue'[w] # <<>> /\ Newest(w)' = writing[p]
      <3>1. \A q \in Seq(1..MaxWrites), s \in 1..MaxWrites :
              Append(q, s) # <<>> /\ Append(q, s)[Len(Append(q, s))] = s
        OBVIOUS
      <3>2. queue'[w] # <<>> /\ queue'[w][Len(queue'[w])] = writing[p]
        BY <2>1, <2>2, <3>1, <1>2
      <3> QED
        BY <3>2 DEF Newest
    <2>4. state[table[p]] = writing[p] /\ table[w] = table[p]
      BY <1>2 DEF Stored, Held
    <2> QED
      BY <2>3, <2>4, <1>2 DEF Fresh
  <1>8. Current'
    BY <1>2, <1>3, <1>5, <1>6, <1>7 DEF Current
  <1> QED
    BY <1>4, <1>8

\* Every step keeps the streams current, or leaves a writer to see to it.
LEMMA CurrentInvNext == CurrentInv /\ [Next]_vars => CurrentInv'
  <1> SUFFICES ASSUME CurrentInv, [Next]_vars PROVE CurrentInv'
    OBVIOUS
  <1>1. StreamInv'
    BY StreamInvNext DEF CurrentInv
  <1>2. CASE UNCHANGED vars
    BY <1>1, <1>2 DEF vars, stream, writer, CurrentInv, Alone, Stored, Current, Busy, Fresh, Newest, Pending
  <1>3. CASE Next
    <2>1. CASE \E c \in Creators : Look(c) \/ Insert(c)
      BY <2>1, <1>1, CurrentCreators
    <2>2. CASE \E w \in Watchers :
                 \/ Connect(w) \/ Subscribe(w) \/ Snapshot(w) \/ Receive(w) \/ Leave(w)
                 \/ Unsubscribe(w) \/ Close(w)
      BY <2>2, <1>1, CurrentWatchers
    <2>3. CASE \E p \in Writers : Start(p) \/ Store(p) \/ Broadcast(p) \/ Finish(p)
      BY <2>3, <1>1, CurrentWriters
    <2>4. CASE \E p \in Writers : Send(p)
      BY <2>4, <1>1, CurrentSend
    <2> QED
      BY <1>3, <2>1, <2>2, <2>3, <2>4 DEF Next, Write
  <1> QED
    BY <1>2, <1>3

\* Subscribing before the present state is read, a browser that has read all
\* it was sent shows the present state, for any number of streams and any
\* capacity of their channels.
THEOREM BrowsersCatchUp == Spec => []CaughtUp
  <1>1. CurrentInv => CaughtUp
    BY DEF CurrentInv, CaughtUp, Current, Fresh, Pending, Busy
  <1> QED
    BY <1>1, CurrentInvInit, CurrentInvNext, PTL DEF Spec

=============================================================================
