---------------------------- MODULE ServiceProofs ----------------------------
(***************************************************************************)
(* Theorems about the services behind the game: DeckService, for every     *)
(* number of tables, cards and requests, DocumentService, for every        *)
(* sequence of blocks, whatever their heights and however many their rows, *)
(* Csv, for every row, and Hands, for every hand, however many its cards.  *)
(*                                                                         *)
(* EachCardOnce says nothing of a shoe that nobody was dealt from, so that *)
(* the first deal could start from any cards.  Accounted closes this: a    *)
(* shoe that is made lacks what was dealt from it and nothing else, and    *)
(* nobody has cards of a shoe that is not made.                            *)
(*                                                                         *)
(* TableInPlace says nothing of where the next row goes.  Drawing does: at *)
(* the end of the last segment, which is on the page and alone on it.      *)
(*                                                                         *)
(* BestTotal and EvaluatorsAgree say nothing of the hand one card shorter. *)
(* SumsAgree does: every service's sum of it is the sum of its cards, and  *)
(* each ace that is counted 11 adds 10.  A fold recurs on sets of          *)
(* positions, so what it makes of one card more is proved by induction on  *)
(* the number of cards, as is where the loops over the aces stop.          *)
(*                                                                         *)
(* RowReadBack is about the parser's state after the last character.       *)
(* Readable and ReadAs say what it is at the end of each field; within one *)
(* a doubled quote is two characters that are read as one.                 *)
(***************************************************************************)
EXTENDS DeckService, DocumentService, Csv, Hands, SequenceTheorems, FiniteSetTheorems,
        WellFoundedInduction, TLAPS

-----------------------------------------------------------------------------
(* DeckService *)

Stages == {"unsent", "shoe", "deal", "answered", "gone"}

ShoeTypes ==
  /\ shoes \in [Tables -> [made : BOOLEAN, left : SUBSET FullShoe]]
  /\ req \in [Requests -> [table : Tables \cup {"none"}, count : Int]]
  /\ got \in [Requests -> SUBSET FullShoe]
  /\ pc \in [Requests -> Stages]
  /\ held \in BOOLEAN

\* A request at work has a table, and one that was dealt or is about to be found its shoe.
Served ==
  /\ \A r \in Requests : pc[r] \in {"shoe", "deal", "answered"} => req[r].table \in Tables
  /\ \A r \in Requests : pc[r] \in {"deal", "answered"} => shoes[req[r].table].made

\* What was dealt since the last restart was dealt to one request.
Apart ==
  \A r, q \in Requests :
    /\ pc[r] = "answered" /\ pc[q] = "answered" /\ req[r].table = req[q].table /\ r # q
    => got[r] \cap got[q] = {}

\* A card of a shoe that is made is in it or was dealt, and not both.
Accounted ==
  \A t \in Tables : shoes[t].made =>
    \A card \in FullShoe :
      card \in shoes[t].left <=>
        ~ \E r \in Requests : pc[r] = "answered" /\ req[r].table = t /\ card \in got[r]

DeckInv == ShoeTypes /\ Served /\ Apart /\ Accounted

-----------------------------------------------------------------------------
\* Before the first request nothing is made and nothing dealt.
LEMMA DeckInvInit == Init => DeckInv
  <1> SUFFICES ASSUME Init PROVE DeckInv
    OBVIOUS
  <1>1. ShoeTypes
    <2>1. req \in [Requests -> [table : Tables \cup {"none"}, count : Int]]
      BY DEF Init
    <2>2. shoes \in [Tables -> [made : BOOLEAN, left : SUBSET FullShoe]]
      BY DEF Init, NoShoe
    <2> QED
      BY <2>1, <2>2 DEF Init, ShoeTypes, Stages
  <1>2. Served /\ Apart /\ Accounted
    BY DEF Init, Served, Apart, Accounted, NoShoe
  <1> QED
    BY <1>1, <1>2 DEF DeckInv

\* A request that comes in has nothing yet.
LEMMA ReceiveKeeps ==
  ASSUME DeckInv, NEW r \in Requests, Receive(r)
  PROVE  DeckInv'
  <1> USE DeckAssumption DEF DeckInv
  <1>1. PICK t \in Tables, count \in Counts :
          req' = [req EXCEPT ![r] = [table |-> t, count |-> count]]
    BY DEF Receive
  <1>2. count \in Int
    BY DEF DeckAssumption
  <1>3. ShoeTypes'
    BY <1>1, <1>2 DEF Receive, ShoeTypes, Stages
  <1>4. \A q \in Requests : pc'[q] = "answered" <=> pc[q] = "answered"
    BY DEF Receive, ShoeTypes
  <1>5. \A q \in Requests : q # r => req'[q] = req[q] /\ pc'[q] = pc[q]
    BY <1>1 DEF Receive, ShoeTypes
  <1>6. req'[r].table = t /\ pc'[r] = "shoe" /\ pc[r] = "unsent"
    BY <1>1 DEF Receive, ShoeTypes
  <1>7. UNCHANGED <<shoes, got>>
    BY DEF Receive
  <1>8. Served'
    BY <1>5, <1>6, <1>7 DEF Served
  <1>9. Apart'
    BY <1>4, <1>5, <1>6, <1>7 DEF Apart
  <1>10. Accounted'
    BY <1>4, <1>5, <1>6, <1>7 DEF Accounted
  <1> QED
    BY <1>3, <1>8, <1>9, <1>10

\* A shoe is made once; a new one is full, and nobody has cards of it.
LEMMA GetOrCreateShoeKeeps ==
  ASSUME DeckInv, NEW r \in Requests, GetOrCreateShoe(r)
  PROVE  DeckInv'
  <1> USE DEF DeckInv
  <1> DEFINE t == req[r].table
  <1>1. t \in Tables /\ pc[r] = "shoe" /\ pc'[r] = "deal"
    BY DEF GetOrCreateShoe, Served, ShoeTypes
  <1>2. \A q \in Requests : q # r => pc'[q] = pc[q]
    BY DEF GetOrCreateShoe, ShoeTypes
  <1>3. \A q \in Requests : pc'[q] = "answered" <=> pc[q] = "answered"
    BY <1>1, <1>2
  <1>4. UNCHANGED <<req, got>>
    BY DEF GetOrCreateShoe
  <1>5. shoes'[t] = IF shoes[t].made THEN shoes[t] ELSE [made |-> TRUE, left |-> FullShoe]
    BY <1>1 DEF GetOrCreateShoe, Shoe, ShoeTypes
  <1>6. \A u \in Tables : u # t => shoes'[u] = shoes[u]
    BY <1>1 DEF GetOrCreateShoe, ShoeTypes
  <1>7. ShoeTypes'
    BY <1>1, <1>4 DEF GetOrCreateShoe, Shoe, ShoeTypes, Stages
  <1>8. Served'
    <2>1. \A u \in Tables : shoes[u].made => shoes'[u].made
      BY <1>5, <1>6
    <2>2. shoes'[t].made
      BY <1>5
    <2> QED
      BY <2>1, <2>2, <1>1, <1>2, <1>4 DEF Served
  <1>9. Apart'
    BY <1>3, <1>4 DEF Apart
  <1>10. Accounted'
    <2> SUFFICES ASSUME NEW u \in Tables, shoes'[u].made, NEW card \in FullShoe
                 PROVE  card \in shoes'[u].left <=>
                          ~ \E q \in Requests : pc[q] = "answered" /\ req[q].table = u /\ card \in got[q]
      BY <1>3, <1>4 DEF Accounted
    <2>1. CASE shoes[u].made
      BY <2>1, <1>5, <1>6 DEF Accounted
    <2>2. CASE ~ shoes[u].made
      <3>1. u = t /\ shoes'[u].left = FullShoe
        BY <2>2, <1>5, <1>6
      <3>2. \A q \in Requests : ~ (pc[q] = "answered" /\ req[q].table = u)
        BY <2>2 DEF Served
      <3> QED
        BY <3>1, <3>2
    <2> QED
      BY <2>1, <2>2
  <1> QED
    BY <1>7, <1>8, <1>9, <1>10

\* What is dealt was in the shoe, so nobody had it, and then it is not in it.
LEMMA DealKeeps ==
  ASSUME DeckInv, NEW r \in Requests, Deal(r)
  PROVE  DeckInv'
  <1> USE DEF DeckInv
  <1> DEFINE t == req[r].table
  <1>1. t \in Tables /\ pc[r] = "deal" /\ pc'[r] = "answered" /\ shoes[t].made
    BY DEF Deal, Served, ShoeTypes
  <1>2. PICK cards \in Dealable(req[r].count, shoes[t].left) :
          got' = [got EXCEPT ![r] = cards] /\ shoes' = [shoes EXCEPT ![t].left = @ \ cards]
    BY DEF Deal
  <1>3. cards \subseteq shoes[t].left /\ cards \subseteq FullShoe
    BY <1>1, <1>2 DEF Dealable, ShoeTypes
  <1>4. UNCHANGED <<req, held>> /\ pc' = [pc EXCEPT ![r] = "answered"]
    BY DEF Deal
  <1>5. \A q \in Requests : q # r => pc'[q] = pc[q] /\ got'[q] = got[q]
    BY <1>2, <1>4 DEF ShoeTypes
  <1>6. got'[r] = cards
    BY <1>2 DEF ShoeTypes
  <1>7. /\ shoes'[t].left = shoes[t].left \ cards
        /\ \A u \in Tables : shoes'[u].made = shoes[u].made
        /\ \A u \in Tables : u # t => shoes'[u] = shoes[u]
    BY <1>1, <1>2 DEF ShoeTypes
  <1>8. ShoeTypes'
    BY <1>1, <1>2, <1>3, <1>4 DEF ShoeTypes, Stages
  <1>9. Served'
    BY <1>1, <1>4, <1>5, <1>7 DEF Served
  <1>10. \A q \in Requests : pc[q] = "answered" /\ req[q].table = t => cards \cap got[q] = {}
    BY <1>1, <1>3 DEF Accounted
  <1>11. Apart'
    BY <1>1, <1>4, <1>5, <1>6, <1>10 DEF Apart
  <1>12. Accounted'
    <2> SUFFICES ASSUME NEW u \in Tables, shoes'[u].made, NEW card \in FullShoe
                 PROVE  card \in shoes'[u].left <=>
                          ~ \E q \in Requests : pc'[q] = "answered" /\ req[q].table = u /\ card \in got'[q]
      BY <1>4 DEF Accounted
    <2>1. card \in shoes[u].left <=>
            ~ \E q \in Requests : pc[q] = "answered" /\ req[q].table = u /\ card \in got[q]
      BY <1>7 DEF Accounted
    <2>2. (\E q \in Requests : pc'[q] = "answered" /\ req[q].table = u /\ card \in got'[q])
          <=> \/ \E q \in Requests : pc[q] = "answered" /\ req[q].table = u /\ card \in got[q]
              \/ u = t /\ card \in cards
      BY <1>1, <1>5, <1>6
    <2> QED
      BY <2>1, <2>2, <1>7
  <1> QED
    BY <1>8, <1>9, <1>11, <1>12

\* A request that panics was dealt nothing.
LEMMA PanicKeeps ==
  ASSUME DeckInv, NEW r \in Requests, Panic(r)
  PROVE  DeckInv'
  <1> USE DEF DeckInv
  <1>1. ShoeTypes'
    BY DEF Panic, ShoeTypes, Stages
  <1>2. /\ \A q \in Requests : q # r => pc'[q] = pc[q]
        /\ pc[r] = "deal" /\ pc'[r] = "gone"
        /\ UNCHANGED <<shoes, req, got>>
    BY DEF Panic, ShoeTypes
  <1>3. Served' /\ Apart'
    BY <1>2 DEF Served, Apart
  <1>4. Accounted'
    BY <1>2 DEF Accounted
  <1> QED
    BY <1>1, <1>3, <1>4

\* A restart forgets the shoes and everybody who was dealt from them.
LEMMA RestartKeeps == ASSUME DeckInv, Restart PROVE DeckInv'
  <1> USE DEF DeckInv
  <1>1. ShoeTypes'
    BY DEF Restart, ShoeTypes, Stages, NoShoe
  <1>2. \A r \in Requests : pc'[r] \in {"unsent", "gone"}
    BY DEF Restart
  <1>3. \A t \in Tables : ~ shoes'[t].made
    BY DEF Restart, NoShoe
  <1> QED
    BY <1>1, <1>2, <1>3 DEF Served, Apart, Accounted

\* DeckInv holds in every reachable state.
THEOREM DeckInvariant == Spec => []DeckInv
  <1>1. DeckInv /\ [Next]_vars => DeckInv'
    <2> SUFFICES ASSUME DeckInv, [Next]_vars PROVE DeckInv'
      OBVIOUS
    <2>1. CASE UNCHANGED vars
      BY <2>1 DEF vars, DeckInv, ShoeTypes, Served, Apart, Accounted
    <2> QED
      BY <2>1, ReceiveKeeps, GetOrCreateShoeKeeps, DealKeeps, PanicKeeps,
         RestartKeeps DEF Next
  <1> QED
    BY <1>1, DeckInvInit, PTL DEF Spec

\* However many requests race for shoes, since the last restart no card of a
\* table's shoe has gone out twice and none is lost.
THEOREM CardsDealtOnce == Spec => []EachCardOnce
  <1>1. DeckInv => EachCardOnce
    <2> SUFFICES ASSUME DeckInv, NEW t \in Tables
                 PROVE  /\ \A r, q \in Answered(t) : r # q => got[r] \cap got[q] = {}
                        /\ Answered(t) # {} =>
                             shoes[t].left = FullShoe \ UNION {got[r] : r \in Answered(t)}
      BY DEF EachCardOnce
    <2>1. \A r, q \in Answered(t) : r # q => got[r] \cap got[q] = {}
      BY DEF Answered, DeckInv, Apart
    <2>2. ASSUME Answered(t) # {}
          PROVE  shoes[t].left = FullShoe \ UNION {got[r] : r \in Answered(t)}
      <3>1. shoes[t].made
        BY <2>2 DEF Answered, DeckInv, Served
      <3>2. shoes[t].left \subseteq FullShoe
        BY DEF DeckInv, ShoeTypes
      <3>3. \A card \in FullShoe : card \in shoes[t].left <=> card \notin UNION {got[r] : r \in Answered(t)}
        BY <3>1 DEF Answered, DeckInv, Accounted
      <3> QED
        BY <3>2, <3>3
    <2> QED
      BY <2>1, <2>2
  <1> QED
    BY <1>1, DeckInvariant, PTL

-----------------------------------------------------------------------------
(* DocumentService *)

SegmentType == [page : Nat, startY : Nat, rowCount : Nat]
PlaceType   == [page : Nat, y : Nat]

LayoutTypes ==
  /\ todo \in Seq(Blocks)
  /\ page \in Nat /\ y \in Nat /\ rowsLeft \in Nat
  /\ segments \in Seq(SegmentType)
  /\ placed \in Seq(PlaceType)

\* Where a segment ends, with the rows counted so far.
EndOf(segment) == segment.startY + HeaderHeight + segment.rowCount * RowHeight

\* The place lies in the segment, if they are on the same page.
Within(place, segment) ==
  place.page = segment.page =>
    /\ place.y >= segment.startY + HeaderHeight
    /\ place.y + RowHeight <= EndOf(segment)
    /\ place.y + RowHeight <= PageBottom

Follows(place, next) ==
  \/ place.page < next.page
  \/ place.page = next.page /\ place.y + RowHeight <= next.y

\* TableInPlace, with its parts named.
RowsInSegments == \A s \in DOMAIN segments : \A i \in DOMAIN placed : Within(placed[i], segments[s])

EachRowInOne ==
  \A i \in DOMAIN placed : \E s \in DOMAIN segments : placed[i].page = segments[s].page

RowsInOrder == \A i \in 2..Len(placed) : Follows(placed[i - 1], placed[i])

\* While a table is drawn the next row is to follow all that are placed, where
\* the last segment ends, on the page of that segment and of no other.
Drawing ==
  stage = "rows" =>
    LET last == segments[Len(segments)]
    IN  /\ todo # <<>> /\ Len(segments) > 0
        /\ last.page = page /\ y = EndOf(last)
        /\ \A s \in DOMAIN segments : s # Len(segments) => segments[s].page < page
        /\ \A i \in DOMAIN placed : Follows(placed[i], [page |-> page, y |-> y])

LayoutInv == LayoutTypes /\ RowsInSegments /\ EachRowInOne /\ RowsInOrder /\ Drawing

\* What the first block of a request that has any says of its size.
LEMMA FirstBlock ==
  ASSUME LayoutTypes, todo # <<>>
  PROVE  /\ Head(todo).size \in Nat /\ Head(todo).name \in Nat /\ Head(todo).cells \in Nat
         /\ Tail(todo) \in Seq(Blocks)
  <1>1. Head(todo) \in Blocks /\ Tail(todo) \in Seq(Blocks)
    BY HeadTailProperties DEF LayoutTypes
  <1>2. /\ LineCounts \subseteq Nat /\ NameLines \subseteq Nat
        /\ CellCounts \subseteq Nat /\ RowCounts \subseteq Nat
    BY DocumentAssumption DEF DocumentAssumption
  <1>3. ASSUME NEW block \in Blocks
        PROVE  block.size \in Nat /\ block.name \in Nat /\ block.cells \in Nat
    <2>1. CASE block \in [kind : {"text"}, size : LineCounts, name : {0}, cells : {0}]
      <3>1. block.size \in LineCounts /\ block.name = 0 /\ block.cells = 0
        BY <2>1
      <3>2. block.size \in Nat
        BY <1>2, <3>1
      <3> QED
        BY <3>1, <3>2
    <2>2. CASE block \in [kind : {"table"}, size : RowCounts, name : NameLines, cells : CellCounts]
      BY <1>2, <2>2
    <2>3. CASE block \in [kind : {"footer", "odd", "null"}, size : {0}, name : {0}, cells : {0}]
      BY <2>3
    <2> QED
      BY <2>1, <2>2, <2>3 DEF Blocks
  <1> QED
    BY <1>1, <1>3

\* A text ends on a page, at a height.
LEMMA TextEnds ==
  ASSUME NEW from \in Nat, NEW at \in Nat, NEW lines \in Nat
  PROVE  TextEnd(from, at, lines) \in PlaceType
  <1> DEFINE first == IF Wraps(at) THEN from + 1 ELSE from
             start == IF Wraps(at) THEN Top ELSE at
             over  == lines - Room(start)
  <1>1. first \in Nat /\ start \in Nat
    BY DEF Top
  <1>2. over \in Int /\ Room(Top) = 62
    BY <1>1 DEF Room, MaxY, Top, LineHeight
  <1>3. TextEnd(from, at, lines) =
          IF over <= 0
            THEN [page |-> first, y |-> start + lines * LineHeight]
            ELSE [page |-> first + 1 + ((over - 1) \div Room(Top)),
                  y    |-> Top + (1 + ((over - 1) % Room(Top))) * LineHeight]
    BY DEF TextEnd
  <1> HIDE DEF first, start, over
  <1>4. CASE over <= 0
    BY <1>1, <1>3, <1>4 DEF PlaceType, LineHeight
  <1>5. CASE ~ (over <= 0)
    <2>1. over - 1 \in Nat
      BY <1>2, <1>5
    <2>2. \A k \in Nat : k \div 62 \in Nat /\ k % 62 \in Nat
      OBVIOUS
    <2>3. /\ first + 1 + ((over - 1) \div Room(Top)) \in Nat
          /\ Top + (1 + ((over - 1) % Room(Top))) * LineHeight \in Nat
      BY <1>1, <1>2, <2>1, <2>2 DEF Top, LineHeight
    <2> QED
      BY <1>3, <1>5, <2>3 DEF PlaceType
  <1> QED
    BY <1>4, <1>5

\* A step that leaves the table alone, and draws no row of it.
LEMMA TableKept ==
  ASSUME LayoutInv, todo' \in Seq(Blocks), page' \in Nat, y' \in Nat, UNCHANGED tableVars,
         stage' # "rows"
  PROVE  LayoutInv'
BY DEF LayoutInv, LayoutTypes, RowsInSegments, EachRowInOne, RowsInOrder, Drawing, tableVars

LEMMA BeginTableKeeps == ASSUME LayoutInv, BeginTable PROVE LayoutInv'
  <1> DEFINE top    == HeaderPlace(Head(todo))
             start  == top.y
             pageOf == IF Wraps(start + 5) THEN top.page + Head(todo).cells ELSE top.page
             first  == [page |-> pageOf, startY |-> start, rowCount |-> 0]
  <1>1. LayoutTypes /\ Head(todo).size \in Nat /\ Head(todo).name \in Nat /\ Head(todo).cells \in Nat
    BY FirstBlock DEF LayoutInv, BeginTable
  <1>2. pageOf \in Nat /\ start \in Nat
    <2>1. TextEnd(page, y, Head(todo).name) \in PlaceType
      BY <1>1, TextEnds DEF LayoutTypes
    <2>2. top.page \in Nat /\ top.y \in Nat
      BY <1>1, <2>1 DEF HeaderPlace, PlaceType, LayoutTypes, AfterName
    <2> HIDE DEF top
    <2> QED
      BY <1>1, <2>2
  <1>3. /\ page' = pageOf /\ segments' = <<first>> /\ y' = start + HeaderHeight
        /\ rowsLeft' = Head(todo).size /\ placed' = <<>> /\ todo' = todo
    BY DEF BeginTable
  <1> HIDE DEF top, start, pageOf
  <1>4. first \in SegmentType /\ EndOf(first) = start + HeaderHeight
    BY <1>2 DEF SegmentType, EndOf, RowHeight, HeaderHeight
  <1>5. LayoutTypes'
    BY <1>1, <1>2, <1>3, <1>4 DEF LayoutTypes, HeaderHeight
  <1>6. RowsInSegments' /\ EachRowInOne' /\ RowsInOrder'
    BY <1>3 DEF RowsInSegments, EachRowInOne, RowsInOrder
  <1>7. Drawing'
    <2>1. todo' # <<>>
      BY <1>3 DEF BeginTable
    <2>2. Len(segments') = 1 /\ DOMAIN segments' = 1..1 /\ segments'[1] = first /\ DOMAIN placed' = {}
      BY <1>3
    <2>3. first.page = page' /\ y' = EndOf(first)
      BY <1>3, <1>4
    <2> QED
      BY <2>1, <2>2, <2>3 DEF Drawing, EndOf
  <1> QED
    BY <1>5, <1>6, <1>7 DEF LayoutInv

\* A segment with one row more ends a row lower.
LEMMA Grown ==
  ASSUME NEW segment \in SegmentType
  PROVE  LET grown == [segment EXCEPT !.rowCount = @ + 1]
         IN  /\ grown \in SegmentType
             /\ grown.page = segment.page /\ grown.startY = segment.startY
             /\ EndOf(segment) \in Nat
             /\ EndOf(segment) >= segment.startY + HeaderHeight
             /\ EndOf(grown) = EndOf(segment) + RowHeight
  <1> DEFINE grown == [segment EXCEPT !.rowCount = @ + 1]
  <1>1. /\ segment.rowCount \in Nat /\ segment.startY \in Nat
        /\ grown \in SegmentType
        /\ grown.page = segment.page /\ grown.startY = segment.startY
        /\ grown.rowCount = segment.rowCount + 1
    BY DEF SegmentType
  <1> HIDE DEF grown
  <1>2. \A k \in Nat : k * 18 \in Nat /\ (k + 1) * 18 = k * 18 + 18
    OBVIOUS
  <1>3. /\ EndOf(segment) = segment.startY + 20 + segment.rowCount * 18
        /\ EndOf(grown) = segment.startY + 20 + (segment.rowCount + 1) * 18
    BY <1>1 DEF EndOf, HeaderHeight, RowHeight
  <1>4. /\ EndOf(segment) \in Nat /\ EndOf(segment) >= segment.startY + 20
        /\ EndOf(grown) = EndOf(segment) + 18
    BY <1>1, <1>2, <1>3
  <1> QED
    BY <1>1, <1>4 DEF grown, HeaderHeight, RowHeight

\* A row in the last of the segments parts, at the end of it.
LEMMA RowKeeps ==
  ASSUME LayoutInv, NEW parts \in Seq(SegmentType), NEW n \in Nat, n = Len(parts), n > 0,
         NEW last \in SegmentType, last = parts[n],
         NEW row \in PlaceType, row.page = last.page, row.y = EndOf(last),
         row.y + RowHeight <= PageBottom,
         \A s \in 1..n : s # n => parts[s].page < last.page,
         \A i \in DOMAIN placed : Follows(placed[i], row),
         \A s \in 1..n : \A i \in DOMAIN placed : Within(placed[i], parts[s]),
         \A i \in DOMAIN placed : \E s \in 1..n : placed[i].page = parts[s].page,
         stage = "rows", rowsLeft > 0, rowsLeft' = rowsLeft - 1, todo' = todo,
         page' = row.page, y' = row.y + RowHeight, segments' = Counted(parts),
         placed' = Append(placed, row)
  PROVE  LayoutInv'
  <1> DEFINE grown == [last EXCEPT !.rowCount = @ + 1]
             m     == Len(placed)
  <1>1. /\ DOMAIN parts = 1..n /\ n \in 1..n /\ \A s \in 1..n : parts[s] \in SegmentType
        /\ m \in Nat /\ DOMAIN placed = 1..m /\ placed \in Seq(PlaceType)
        /\ \A i \in 1..m : placed[i] \in PlaceType
        /\ row.page \in Nat /\ row.y \in Nat
    <2>1. DOMAIN parts = 1..n /\ n \in 1..n /\ \A s \in 1..n : parts[s] \in SegmentType
      OBVIOUS
    <2>2. placed \in Seq(PlaceType)
      BY DEF LayoutInv, LayoutTypes
    <2>3. m \in Nat /\ DOMAIN placed = 1..m /\ \A i \in 1..m : placed[i] \in PlaceType
      BY <2>2
    <2> QED
      BY <2>1, <2>2, <2>3 DEF PlaceType
  <1>2. /\ grown \in SegmentType /\ grown.page = last.page /\ grown.startY = last.startY
        /\ EndOf(grown) = EndOf(last) + RowHeight
        /\ EndOf(last) >= last.startY + HeaderHeight
    BY Grown
  <1>3. segments' = [parts EXCEPT ![n] = grown]
    <2> DEFINE More(segment) == [segment EXCEPT !.rowCount = @ + 1]
    <2>1. segments' = [parts EXCEPT ![Len(parts)] = More(parts[Len(parts)])]
      BY DEF Counted
    <2>2. grown = More(last)
      OBVIOUS
    <2> HIDE DEF More, grown
    <2> QED
      BY <2>1, <2>2
  <1> HIDE DEF grown, m
  <1>4. /\ segments' \in Seq(SegmentType) /\ Len(segments') = n /\ DOMAIN segments' = 1..n
        /\ segments'[n] = grown /\ \A s \in 1..n : s # n => segments'[s] = parts[s]
    BY <1>1, <1>2, <1>3
  <1>5. /\ placed' \in Seq(PlaceType) /\ Len(placed') = m + 1 /\ DOMAIN placed' = 1..(m + 1)
        /\ placed'[m + 1] = row /\ \A i \in 1..m : placed'[i] = placed[i]
    BY <1>1 DEF m
  <1>6. LayoutTypes'
    <2>1. row.y + RowHeight \in Nat /\ rowsLeft - 1 \in Nat /\ todo \in Seq(Blocks)
      BY <1>1 DEF LayoutInv, LayoutTypes, RowHeight
    <2> QED
      BY <1>1, <1>4, <1>5, <2>1 DEF LayoutTypes
  <1>7. \A s \in 1..n : \A i \in 1..(m + 1) : Within(placed'[i], segments'[s])
    <2> SUFFICES ASSUME NEW s \in 1..n, NEW i \in 1..(m + 1) PROVE Within(placed'[i], segments'[s])
      OBVIOUS
    <2>1. CASE i = m + 1 /\ s = n
      <3>1. Within(row, grown)
        BY <1>1, <1>2 DEF Within
      <3> QED
        BY <1>4, <1>5, <2>1, <3>1
    <2>2. CASE i = m + 1 /\ s # n
      <3>1. parts[s].page < row.page /\ parts[s].page \in Nat
        BY <1>1, <2>2 DEF SegmentType
      <3>2. Within(row, parts[s])
        BY <1>1, <3>1 DEF Within
      <3> QED
        BY <1>4, <1>5, <2>2, <3>2
    <2>3. CASE i # m + 1 /\ s = n
      <3>1. i \in 1..m /\ Within(placed[i], last) /\ placed[i].y \in Nat
        BY <1>1, <2>3 DEF PlaceType
      <3>2. last.startY \in Nat /\ RowHeight \in Nat /\ HeaderHeight \in Nat /\ EndOf(last) \in Nat
        BY Grown DEF SegmentType, RowHeight, HeaderHeight
      <3>3. Within(placed[i], grown)
        BY <1>2, <3>1, <3>2 DEF Within
      <3> QED
        BY <1>4, <1>5, <2>3, <3>1, <3>3
    <2>4. CASE i # m + 1 /\ s # n
      <3>1. i \in 1..m
        BY <1>1, <2>4
      <3> QED
        BY <1>1, <1>4, <1>5, <2>4, <3>1
    <2> QED
      BY <2>1, <2>2, <2>3, <2>4
  <1>8. \A i \in 1..(m + 1) : \E s \in 1..n : placed'[i].page = segments'[s].page
    <2> SUFFICES ASSUME NEW i \in 1..(m + 1) PROVE \E s \in 1..n : placed'[i].page = segments'[s].page
      OBVIOUS
    <2>1. \A s \in 1..n : segments'[s].page = parts[s].page
      BY <1>2, <1>4
    <2>2. CASE i = m + 1
      BY <1>1, <1>2, <1>4, <1>5, <2>2
    <2>3. CASE i # m + 1
      <3>1. i \in 1..m /\ i \in DOMAIN placed
        BY <1>1, <2>3
      <3>2. PICK s \in 1..n : placed[i].page = parts[s].page
        BY <3>1
      <3>3. placed'[i].page = segments'[s].page
        BY <1>5, <2>1, <3>1, <3>2
      <3> QED
        BY <3>3
    <2> QED
      BY <2>2, <2>3
  <1>9. \A i \in 2..(m + 1) : Follows(placed'[i - 1], placed'[i])
    <2> SUFFICES ASSUME NEW i \in 2..(m + 1) PROVE Follows(placed'[i - 1], placed'[i])
      OBVIOUS
    <2>1. i - 1 \in 1..m /\ placed'[i - 1] = placed[i - 1]
      BY <1>1, <1>5
    <2>2. CASE i = m + 1
      BY <1>1, <1>5, <2>1, <2>2
    <2>3. CASE i # m + 1
      <3>1. i \in 2..m
        BY <1>1, <2>3
      <3>2. Follows(placed[i - 1], placed[i])
        BY <3>1 DEF LayoutInv, RowsInOrder, m
      <3> QED
        BY <1>5, <2>1, <3>1, <3>2
    <2> QED
      BY <2>2, <2>3
  <1>10. \A i \in 1..(m + 1) : Follows(placed'[i], [page |-> page', y |-> y'])
    <2> SUFFICES ASSUME NEW i \in 1..(m + 1)
                 PROVE  Follows(placed'[i], [page |-> row.page, y |-> row.y + RowHeight])
      OBVIOUS
    <2>1. CASE i = m + 1
      BY <1>1, <1>5, <2>1 DEF Follows
    <2>2. CASE i # m + 1
      <3>1. i \in 1..m
        BY <1>1, <2>2
      <3>2. Follows(placed[i], row) /\ placed[i].y \in Nat /\ placed'[i] = placed[i]
        BY <1>1, <1>5, <3>1 DEF PlaceType
      <3> QED
        BY <1>1, <3>2 DEF Follows, RowHeight
    <2> QED
      BY <2>1, <2>2
  <1>11. RowsInSegments' /\ EachRowInOne' /\ RowsInOrder'
    <2>1. RowsInSegments'
      BY <1>4, <1>5, <1>7 DEF RowsInSegments, Within, EndOf
    <2>2. EachRowInOne'
      <3>1. \A i \in DOMAIN placed' : \E s \in DOMAIN segments' : placed'[i].page = segments'[s].page
        <4> TAKE i \in DOMAIN placed'
        <4>1. i \in 1..(m + 1)
          BY <1>5
        <4>2. PICK s \in 1..n : placed'[i].page = segments'[s].page
          BY <1>8, <4>1
        <4>3. s \in DOMAIN segments'
          BY <1>4
        <4> QED
          BY <4>2, <4>3
      <3> QED
        BY <3>1, Zenon DEF EachRowInOne
    <2>3. RowsInOrder'
      BY <1>5, <1>9 DEF RowsInOrder, Follows
    <2> QED
      BY <2>1, <2>2, <2>3
  <1>12. Drawing'
    <2>1. todo # <<>>
      BY DEF LayoutInv, Drawing
    <2>2. /\ segments'[n].page = page' /\ y' = EndOf(segments'[n])
          /\ \A s \in 1..n : s # n => segments'[s].page < page'
      BY <1>2, <1>4
    <2>3. Drawing' <=>
            (stage' = "rows" =>
               /\ todo' # <<>> /\ Len(segments') > 0
               /\ segments'[Len(segments')].page = page' /\ y' = EndOf(segments'[Len(segments')])
               /\ \A s \in DOMAIN segments' : s # Len(segments') => segments'[s].page < page'
               /\ \A i \in DOMAIN placed' : Follows(placed'[i], [page |-> page', y |-> y']))
      BY DEF Drawing, EndOf, Follows
    <2> QED
      BY <1>4, <1>5, <1>10, <2>1, <2>2, <2>3
  <1> QED
    BY <1>6, <1>11, <1>12 DEF LayoutInv

LEMMA RenderRowKeeps == ASSUME LayoutInv, RenderRow PROVE LayoutInv'
  <1> DEFINE n == Len(segments)
  <1>1. /\ stage = "rows" /\ rowsLeft > 0 /\ rowsLeft' = rowsLeft - 1 /\ todo' = todo
        /\ segments \in Seq(SegmentType) /\ page \in Nat /\ y \in Nat
        /\ n \in Nat /\ DOMAIN segments = 1..n /\ \A s \in 1..n : segments[s] \in SegmentType
        /\ \A i \in DOMAIN placed : placed[i] \in PlaceType
    BY DEF RenderRow, LayoutInv, LayoutTypes
  <1>2. /\ n > 0 /\ segments[n].page = page /\ y = EndOf(segments[n])
        /\ \A s \in 1..n : s # n => segments[s].page < page
        /\ \A i \in DOMAIN placed : Follows(placed[i], [page |-> page, y |-> y])
    BY <1>1 DEF LayoutInv, Drawing
  <1>3. /\ \A s \in 1..n : \A i \in DOMAIN placed : Within(placed[i], segments[s])
        /\ \A i \in DOMAIN placed : \E s \in 1..n : placed[i].page = segments[s].page
    BY <1>1 DEF LayoutInv, RowsInSegments, EachRowInOne
  <1>4. CASE Fits(y)
    <2> DEFINE row == [page |-> page, y |-> y]
    <2>1. /\ page' = page /\ y' = y + RowHeight /\ segments' = Counted(segments)
          /\ placed' = Append(placed, row)
      BY <1>4 DEF RenderRow
    <2>2. /\ row \in PlaceType /\ row.page = page /\ row.y = y /\ y + RowHeight <= PageBottom
      BY <1>1, <1>4 DEF Fits, PlaceType
    <2>3. segments[n] \in SegmentType
      <3>1. \A k \in Nat : k > 0 => k \in 1..k
        OBVIOUS
      <3>2. n \in 1..n
        BY <1>1, <1>2, <3>1
      <3> QED
        BY <1>1, <3>2
    <2>4. \A i \in DOMAIN placed : Follows(placed[i], row)
      BY <1>2
    <2> HIDE DEF row
    <2> QED
      BY <1>1, <1>2, <1>3, <2>1, <2>2, <2>3, <2>4, RowKeeps
  <1>5. CASE ~ Fits(y)
    <2> DEFINE fresh == [page |-> page + 1, startY |-> Top, rowCount |-> 0]
               parts == Append(segments, fresh)
               row   == [page |-> page + 1, y |-> AfterBreak]
    <2>1. /\ page' = page + 1 /\ y' = AfterBreak + RowHeight /\ segments' = Counted(parts)
          /\ placed' = Append(placed, row)
      BY <1>5 DEF RenderRow
    <2>2. /\ fresh \in SegmentType /\ fresh.page = page + 1 /\ EndOf(fresh) = AfterBreak
          /\ AfterBreak \in Nat /\ AfterBreak + RowHeight <= PageBottom
      BY <1>1 DEF SegmentType, EndOf, AfterBreak, Top, HeaderHeight, RowHeight, PageBottom
    <2>3. row \in PlaceType /\ row.page = page + 1 /\ row.y = AfterBreak
      BY <1>1, <2>2 DEF PlaceType
    <2> HIDE DEF fresh, row, n
    <2>4. /\ parts \in Seq(SegmentType) /\ Len(parts) = n + 1 /\ n + 1 \in Nat
          /\ parts[n + 1] = fresh /\ \A s \in 1..n : parts[s] = segments[s]
      BY <1>1, <2>2 DEF n
    <2> HIDE DEF parts
    <2>5. \A s \in 1..n : segments[s].page \in Nat /\ segments[s].page <= page
      BY <1>1, <1>2 DEF SegmentType
    <2>6. \A s \in 1..(n + 1) : s # n + 1 => s \in 1..n
      BY <1>1
    <2>7. \A s \in 1..(n + 1) : s # n + 1 => parts[s].page < fresh.page
      BY <1>1, <2>2, <2>4, <2>5, <2>6
    <2>8. \A i \in DOMAIN placed : placed[i].page \in Nat /\ placed[i].page <= page
      BY <1>1, <1>2 DEF Follows, PlaceType
    <2>9. \A i \in DOMAIN placed : Follows(placed[i], row)
      BY <1>1, <2>3, <2>8 DEF Follows
    <2>10. \A s \in 1..(n + 1) : \A i \in DOMAIN placed : Within(placed[i], parts[s])
      <3> SUFFICES ASSUME NEW s \in 1..(n + 1), NEW i \in DOMAIN placed PROVE Within(placed[i], parts[s])
        OBVIOUS
      <3>1. CASE s = n + 1
        BY <1>1, <2>2, <2>4, <2>8, <3>1 DEF Within
      <3>2. CASE s # n + 1
        BY <1>3, <2>4, <2>6, <3>2
      <3> QED
        BY <3>1, <3>2
    <2>11. \A i \in DOMAIN placed : \E s \in 1..(n + 1) : placed[i].page = parts[s].page
      <3> SUFFICES ASSUME NEW i \in DOMAIN placed PROVE \E s \in 1..(n + 1) : placed[i].page = parts[s].page
        OBVIOUS
      <3>1. PICK s \in 1..n : placed[i].page = segments[s].page
        BY <1>3
      <3>2. s \in 1..(n + 1) /\ parts[s] = segments[s]
        BY <1>1, <2>4
      <3> QED
        BY <3>1, <3>2
    <2>12. n + 1 > 0 /\ row.page = fresh.page /\ row.y = EndOf(fresh) /\ row.y + RowHeight <= PageBottom
      BY <1>1, <2>2, <2>3
    <2> QED
      BY <1>1, <2>1, <2>2, <2>3, <2>4, <2>7, <2>9, <2>10, <2>11, <2>12, RowKeeps
  <1> QED
    BY <1>4, <1>5

LEMMA LayoutInvNext == LayoutInv /\ [DocumentNext]_documentVars => LayoutInv'
  <1> SUFFICES ASSUME LayoutInv, [DocumentNext]_documentVars PROVE LayoutInv'
    OBVIOUS
  <1>1. LayoutTypes
    BY DEF LayoutInv
  <1>2. ASSUME NEW known \in BOOLEAN, NEW n \in 0..MaxBlocks, NEW blocks \in [1..n -> Blocks],
               ValidateRequest(known, blocks)
        PROVE  LayoutInv'
    <2>1. blocks \in Seq(Blocks) /\ <<>> \in Seq(Blocks)
      <3>1. n \in Nat
        BY DocumentAssumption
      <3>2. blocks \in UNION {[1..k -> Blocks] : k \in Nat}
        BY <3>1
      <3> QED
        BY <3>2, SeqDef
    <2>2. stage' # "rows" /\ todo' \in Seq(Blocks) /\ UNCHANGED <<page, y, tableVars>>
      BY <1>2, <2>1 DEF ValidateRequest, Verdict
    <2> QED
      BY <1>1, <2>2, TableKept DEF LayoutTypes
  <1>3. CASE RenderTitle
    BY <1>1, <1>3, TableKept DEF RenderTitle, LayoutTypes, Top
  <1>4. CASE RenderText
    <2>1. Head(todo).size \in Nat /\ Tail(todo) \in Seq(Blocks)
      BY <1>1, <1>4, FirstBlock DEF RenderText
    <2>2. TextEnd(page, y, Head(todo).size) \in PlaceType
      BY <1>1, <2>1, TextEnds DEF LayoutTypes
    <2>3. page' \in Nat /\ y' \in Nat
      BY <1>4, <2>2 DEF RenderText, PlaceType, AfterText
    <2> QED
      BY <1>4, <2>1, <2>3, TableKept DEF RenderText
  <1>5. CASE CollectFooter
    <2>1. Tail(todo) \in Seq(Blocks)
      BY <1>1, <1>5, FirstBlock DEF CollectFooter
    <2> QED
      BY <1>1, <1>5, <2>1, TableKept DEF CollectFooter, LayoutTypes
  <1>6. CASE EndTable
    <2>1. todo # <<>>
      BY <1>6 DEF EndTable, LayoutInv, Drawing
    <2>2. Tail(todo) \in Seq(Blocks)
      BY <1>1, <2>1, FirstBlock
    <2> QED
      BY <1>1, <1>6, <2>2, TableKept DEF EndTable, LayoutTypes, AfterTable
  <1>7. CASE RenderFooter
    <2>1. page' \in Nat
      BY <1>1, <1>7 DEF RenderFooter, LayoutTypes
    <2> QED
      BY <1>1, <1>7, <2>1, TableKept DEF RenderFooter, LayoutTypes
  <1>8. CASE Answer \/ RenderFailed
    <2>1. /\ UNCHANGED <<page, y, tableVars>> /\ stage' # "rows"
          /\ todo' = todo \/ todo' = <<>>
      BY <1>8 DEF Answer, RenderFailed
    <2>2. todo' \in Seq(Blocks)
      <3>1. todo \in Seq(Blocks) /\ <<>> \in Seq(Blocks)
        BY <1>1 DEF LayoutTypes
      <3> QED
        BY <2>1, <3>1
    <2> QED
      BY <1>1, <2>1, <2>2, TableKept DEF LayoutTypes
  <1>9. CASE UNCHANGED documentVars
    BY <1>9 DEF documentVars, tableVars, LayoutInv, LayoutTypes, RowsInSegments, EachRowInOne,
                RowsInOrder, Drawing
  <1> QED
    BY <1>2, <1>3, <1>4, <1>5, <1>6, <1>7, <1>8, <1>9, BeginTableKeeps, RenderRowKeeps
       DEF DocumentNext

\* However many pages a table takes, wherever it begins: its rows are in their
\* order, on every page below a header drawn on that page, within the border
\* and above the footer, and none lies on another (renderTable).
THEOREM RowsAreInPlace == DocumentSpec => []TableInPlace
  <1>1. DocumentInit => LayoutInv
    BY DEF DocumentInit, LayoutInv, LayoutTypes, RowsInSegments, EachRowInOne, RowsInOrder, Drawing
  <1>2. LayoutInv => TableInPlace
    BY DEF LayoutInv, RowsInSegments, EachRowInOne, RowsInOrder, TableInPlace, OnPage, Within,
           EndOf, Follows
  <1>3. QED
    BY <1>1, <1>2, LayoutInvNext, PTL DEF DocumentSpec

-----------------------------------------------------------------------------
(* Induction on numbers, and folds *)

Below == {pair \in Nat \X Nat : pair[1] < pair[2]}

\* A set of numbers with zero and with each number's successor has all of them.
LEMMA Induction ==
  ASSUME NEW T \in SUBSET Nat, 0 \in T, \A n \in T : n + 1 \in T
  PROVE  T = Nat
  <1> SUFFICES ASSUME Nat \ T # {} PROVE FALSE
    OBVIOUS
  <1> HIDE DEF Below
  <1>1. IsWellFoundedOn(Below, Nat)
    BY NatLessThanWellFounded DEF OpToRel, Below
  <1>2. \E m \in Nat \ T : \A k \in Nat \ T : ~ (<<k, m>> \in Below)
    BY <1>1, WFMin, Zenon
  <1>3. PICK m \in Nat \ T : \A k \in Nat \ T : ~ (<<k, m>> \in Below)
    BY <1>2
  <1>4. \A k \in Nat \ T : ~ (k < m)
    BY <1>3 DEF Below
  <1>5. m - 1 \in T
    BY <1>4
  <1> QED
    BY <1>5

\* The maximum of a set of positions.
LEMMA MaxOfPositions ==
  ASSUME NEW n \in Nat, NEW s \in SUBSET (1..n), s # {}
  PROVE  Max(s) \in s /\ Max(s) \in 1..n /\ \A i \in s : i <= Max(s)
  <1> DEFINE Has(t) == \E x \in t : \A i \in t : x >= i
             T == {m \in Nat : \A t \in SUBSET (1..m) : t # {} => Has(t)}
  <1>1. 0 \in T
    <2>1. 1..0 = {}
      OBVIOUS
    <2> QED
      BY <2>1
  <1>2. ASSUME NEW m \in T PROVE m + 1 \in T
    <2> SUFFICES ASSUME NEW t \in SUBSET (1..(m + 1)), t # {} PROVE Has(t)
      OBVIOUS
    <2>1. CASE m + 1 \in t
      BY <2>1
    <2>2. CASE m + 1 \notin t
      <3>1. t \in SUBSET (1..m)
        BY <2>2
      <3> QED
        BY <3>1
    <2> QED
      BY <2>1, <2>2
  <1> HIDE DEF T
  <1>3. T \in SUBSET Nat
    BY DEF T
  <1>4. n \in T
    BY <1>1, <1>2, <1>3, Induction
  <1>5. \E x \in s : \A i \in s : x >= i
    BY <1>4 DEF T
  <1>6. Max(s) \in s /\ \A i \in s : Max(s) >= i
    BY <1>5 DEF Max
  <1> QED
    BY <1>6

LEMMA MaxOfPrefix ==
  ASSUME NEW k \in Nat, k > 0
  PROVE  Max(1..k) = k /\ (1..k) \ {Max(1..k)} = 1..(k - 1)
  <1>1. Max(1..k) \in 1..k /\ \A i \in 1..k : i <= Max(1..k)
    BY MaxOfPositions
  <1>2. Max(1..k) = k
    BY <1>1
  <1> QED
    BY <1>2

\* FoldLeft recurs on the sets of positions; g does so with op, from base.
IsFold(g, X, base, op, items) ==
  /\ g[{}] = base
  /\ \A s \in SUBSET DOMAIN items :
       s # {} /\ g[s \ {Max(s)}] \in X => g[s] = op[<<g[s \ {Max(s)}], items[Max(s)]>>]

\* There is such a function, with values in X.
LEMMA FoldExists ==
  ASSUME NEW X, NEW Y, NEW base \in X, NEW op \in [X \X Y -> X], NEW items \in Seq(Y)
  PROVE  \E f \in [SUBSET DOMAIN items -> X] : IsFold(f, X, base, op, items)
  <1> DEFINE Fold(f, n) ==
               /\ f[{}] = base
               /\ \A s \in SUBSET (1..n) : s # {} => f[s] = op[<<f[s \ {Max(s)}], items[Max(s)]>>]
             Foldable(n) == \E f \in [SUBSET (1..n) -> X] : Fold(f, n)
             T == {n \in Nat : n <= Len(items) => Foldable(n)}
  <1> HIDE DEF Fold, Foldable
  <1>1. Len(items) \in Nat /\ DOMAIN items = 1..Len(items) /\ \A i \in 1..Len(items) : items[i] \in Y
    OBVIOUS
  <1>2. 0 \in T
    <2>1. SUBSET (1..0) = {{}}
      OBVIOUS
    <2>2. [s \in {{}} |-> base] \in [SUBSET (1..0) -> X] /\ Fold([s \in {{}} |-> base], 0)
      BY <2>1 DEF Fold
    <2> QED
      BY <2>2 DEF Foldable
  <1>3. ASSUME NEW n \in T PROVE n + 1 \in T
    <2> SUFFICES ASSUME n + 1 <= Len(items) PROVE Foldable(n + 1)
      OBVIOUS
    <2>1. n \in Nat /\ Foldable(n)
      BY <1>1
    <2>2. PICK f \in [SUBSET (1..n) -> X] : Fold(f, n)
      BY <2>1 DEF Foldable
    <2> DEFINE f2 == [s \in SUBSET (1..(n + 1)) |->
                        IF n + 1 \in s THEN op[<<f[s \ {n + 1}], items[n + 1]>>] ELSE f[s]]
    <2>3. ASSUME NEW s \in SUBSET (1..(n + 1))
          PROVE  s \ {n + 1} \in SUBSET (1..n) /\ (n + 1 \notin s => s \in SUBSET (1..n))
      BY <2>1
    <2>4. items[n + 1] \in Y
      BY <1>1, <2>1
    <2>5. f2 \in [SUBSET (1..(n + 1)) -> X]
      <3> SUFFICES ASSUME NEW s \in SUBSET (1..(n + 1))
                   PROVE  (IF n + 1 \in s THEN op[<<f[s \ {n + 1}], items[n + 1]>>] ELSE f[s]) \in X
        OBVIOUS
      <3>1. CASE n + 1 \in s
        <4>1. f[s \ {n + 1}] \in X
          BY <2>2, <2>3
        <4> QED
          BY <2>4, <3>1, <4>1
      <3>2. CASE n + 1 \notin s
        BY <2>2, <2>3, <3>2
      <3> QED
        BY <3>1, <3>2
    <2>6. f2[{}] = base
      BY <2>1, <2>2 DEF Fold
    <2>7. ASSUME NEW s \in SUBSET (1..(n + 1)), s # {}
          PROVE  f2[s] = op[<<f2[s \ {Max(s)}], items[Max(s)]>>]
      <3>1. Max(s) \in s /\ Max(s) \in 1..(n + 1) /\ \A i \in s : i <= Max(s)
        BY <2>1, <2>7, MaxOfPositions
      <3>2. CASE n + 1 \in s
        <4>1. Max(s) = n + 1
          BY <2>1, <3>1, <3>2
        <4>2. f2[s \ {n + 1}] = f[s \ {n + 1}]
          BY <2>3
        <4>3. f2[s] = op[<<f[s \ {n + 1}], items[n + 1]>>]
          BY <3>2
        <4> HIDE DEF f2
        <4> QED
          BY <4>1, <4>2, <4>3
      <3>3. CASE n + 1 \notin s
        <4>1. s \in SUBSET (1..n) /\ s \ {Max(s)} \in SUBSET (1..(n + 1)) /\ n + 1 \notin s \ {Max(s)}
          BY <2>3, <3>3
        <4>2. f[s] = op[<<f[s \ {Max(s)}], items[Max(s)]>>]
          BY <2>2, <2>7, <4>1 DEF Fold
        <4>3. f2[s] = f[s] /\ f2[s \ {Max(s)}] = f[s \ {Max(s)}]
          BY <4>1, <3>3
        <4> HIDE DEF f2
        <4> QED
          BY <4>2, <4>3
      <3> QED
        BY <3>2, <3>3
    <2> HIDE DEF f2
    <2> QED
      BY <2>5, <2>6, <2>7 DEF Fold, Foldable
  <1>4. Len(items) \in T
    <2> HIDE DEF T
    <2>1. T \in SUBSET Nat
      BY DEF T
    <2> QED
      BY <1>1, <1>2, <1>3, <2>1, Induction
  <1>5. PICK f \in [SUBSET (1..Len(items)) -> X] : Fold(f, Len(items))
    <2>1. Foldable(Len(items))
      BY <1>1, <1>4
    <2> QED
      BY <2>1 DEF Foldable
  <1> QED
    BY <1>1, <1>5 DEF Fold, IsFold

\* Two folds with op, h of one item more than g.
OneMore(g, h, X, Y, base, op, items, item, more) ==
  /\ base \in X /\ op \in [X \X Y -> X]
  /\ items \in Seq(Y) /\ item \in Y /\ more = Append(items, item)
  /\ IsFold(g, X, base, op, items) /\ IsFold(h, X, base, op, more)

OneStep(g, h, X, op, items, item, more) ==
  g[DOMAIN items] \in X /\ h[DOMAIN more] = op[<<g[DOMAIN items], item>>]

\* The fold of one item more takes one step more.
LEMMA FoldAppend ==
  ASSUME NEW X, NEW Y, NEW base, NEW op, NEW items, NEW item, NEW more, NEW g, NEW h,
         OneMore(g, h, X, Y, base, op, items, item, more)
  PROVE  OneStep(g, h, X, op, items, item, more)
  <1> DEFINE n == Len(items)
             T == {k \in Nat : k <= n => g[1..k] \in X /\ h[1..k] = g[1..k]}
  <1> USE DEF OneMore, OneStep
  <1>1. /\ n \in Nat /\ DOMAIN items = 1..n /\ DOMAIN more = 1..(n + 1)
        /\ more[n + 1] = item /\ \A i \in 1..n : items[i] \in Y /\ more[i] = items[i]
    OBVIOUS
  <1>2. 0 \in T
    <2>1. 1..0 = {}
      OBVIOUS
    <2> QED
      BY <2>1 DEF IsFold
  <1>3. ASSUME NEW k \in T PROVE k + 1 \in T
    <2> SUFFICES ASSUME k + 1 <= n PROVE g[1..(k + 1)] \in X /\ h[1..(k + 1)] = g[1..(k + 1)]
      OBVIOUS
    <2>1. k \in Nat /\ g[1..k] \in X /\ h[1..k] = g[1..k]
      BY <1>1
    <2>2. Max(1..(k + 1)) = k + 1 /\ (1..(k + 1)) \ {Max(1..(k + 1))} = 1..k
      BY <2>1, MaxOfPrefix
    <2>3. 1..(k + 1) \in SUBSET DOMAIN items /\ 1..(k + 1) \in SUBSET DOMAIN more /\ 1..(k + 1) # {}
      <3>1. k + 1 \in 1..(k + 1) /\ \A i \in 1..(k + 1) : i \in 1..n /\ i \in 1..(n + 1)
        BY <1>1, <2>1
      <3> QED
        BY <1>1, <3>1
    <2>4. items[k + 1] \in Y /\ more[k + 1] = items[k + 1]
      BY <1>1, <2>1
    <2>5. g[1..(k + 1)] = op[<<g[1..k], items[k + 1]>>]
      BY <2>1, <2>2, <2>3 DEF IsFold
    <2>6. h[1..(k + 1)] = op[<<h[1..k], more[k + 1]>>]
      BY <2>1, <2>2, <2>3 DEF IsFold
    <2> QED
      BY <2>1, <2>4, <2>5, <2>6
  <1>4. n \in T
    <2> HIDE DEF T
    <2>1. T \in SUBSET Nat
      BY DEF T
    <2> QED
      BY <1>1, <1>2, <1>3, <2>1, Induction
  <1>5. g[1..n] \in X /\ h[1..n] = g[1..n]
    BY <1>1, <1>4
  <1>6. Max(1..(n + 1)) = n + 1 /\ (1..(n + 1)) \ {Max(1..(n + 1))} = 1..n
    BY <1>1, MaxOfPrefix
  <1>7. 1..(n + 1) \in SUBSET DOMAIN more /\ 1..(n + 1) # {}
    <2>1. n + 1 \in 1..(n + 1)
      BY <1>1
    <2> QED
      BY <1>1, <2>1
  <1>8. h[1..(n + 1)] = op[<<h[1..n], more[n + 1]>>]
    BY <1>5, <1>6, <1>7 DEF IsFold
  <1> QED
    BY <1>1, <1>5, <1>8

\* What a fold does at a set of positions.
LEMMA LastPosition ==
  ASSUME NEW Y, NEW items \in Seq(Y), NEW s \in SUBSET DOMAIN items, s # {}
  PROVE  items[Max(s)] \in Y /\ s \ {Max(s)} \in SUBSET DOMAIN items
  <1>1. Len(items) \in Nat /\ DOMAIN items = 1..Len(items)
    OBVIOUS
  <1>2. Max(s) \in 1..Len(items)
    BY <1>1, MaxOfPositions
  <1> QED
    BY <1>1, <1>2

-----------------------------------------------------------------------------
(* Hands: what the loops over the cards compute *)

Card == 0..10

TallyType == [total : Nat, aces : Nat]

Plus     == [p \in Nat \X Card |-> p[1] + p[2]]
PlusRank == [p \in Nat \X Card |-> p[1] + RankValue(p[2])]
Tallied  == [p \in TallyType \X Card |-> TallyCard(p[1], p[2])]
Added    == [p \in Hand \X Card |-> Add(p[1], p[2])]

LEMMA CardSteps ==
  /\ Plus \in [Nat \X Card -> Nat] /\ \A n \in Nat, card \in Card : Plus[<<n, card>>] = n + card
  /\ PlusRank \in [Nat \X Card -> Nat]
  /\ \A n \in Nat, card \in Card : PlusRank[<<n, card>>] = n + RankValue(card)
  /\ Tallied \in [TallyType \X Card -> TallyType]
  /\ \A tally \in TallyType, card \in Card : Tallied[<<tally, card>>] = TallyCard(tally, card)
  /\ Added \in [Hand \X Card -> Hand]
  /\ \A h \in Hand, card \in Card : Added[<<h, card>>] = Add(h, card)
  <1>1. \A n \in Nat, card \in Card : n + card \in Nat /\ n + RankValue(card) \in Nat
    BY DEF Card, RankValue
  <1>2. \A tally \in TallyType, card \in Card : TallyCard(tally, card) \in TallyType
    BY DEF Card, RankValue, TallyCard, TallyType
  <1>3. \A h \in Hand, card \in Card : Add(h, card) \in Hand
    BY DEF Card, Add, Hand, Capped
  <1>4. Plus \in [Nat \X Card -> Nat] /\ \A n \in Nat, card \in Card : Plus[<<n, card>>] = n + card
    BY <1>1 DEF Plus
  <1>5. /\ PlusRank \in [Nat \X Card -> Nat]
        /\ \A n \in Nat, card \in Card : PlusRank[<<n, card>>] = n + RankValue(card)
    BY <1>1 DEF PlusRank
  <1>6. /\ Tallied \in [TallyType \X Card -> TallyType]
        /\ \A tally \in TallyType, card \in Card : Tallied[<<tally, card>>] = TallyCard(tally, card)
    BY <1>2 DEF Tallied
  <1>7. /\ Added \in [Hand \X Card -> Hand]
        /\ \A h \in Hand, card \in Card : Added[<<h, card>>] = Add(h, card)
    BY <1>3 DEF Added
  <1> QED
    BY <1>4, <1>5, <1>6, <1>7

LEMMA NoTallyIsTally == NoTally \in TallyType
BY DEF NoTally, TallyType

LEMMA NoHandIsHand == NoHand \in Hand
BY DEF NoHand, Hand

LEMMA LowFolds ==
  ASSUME NEW cards \in Seq(Card)
  PROVE  \E g : IsFold(g, Nat, 0, Plus, cards) /\ Low(cards) = g[DOMAIN cards]
  <1> DEFINE Recurs(g) == g = [s \in SUBSET DOMAIN cards |->
                                 IF s = {} THEN 0 ELSE g[s \ {Max(s)}] + cards[Max(s)]]
             fold == CHOOSE g : Recurs(g)
  <1>1. PICK f \in [SUBSET DOMAIN cards -> Nat] : IsFold(f, Nat, 0, Plus, cards)
    BY CardSteps, FoldExists
  <1>2. Recurs(f)
    <2>1. f[{}] = 0
      BY <1>1 DEF IsFold
    <2>2. ASSUME NEW s \in SUBSET DOMAIN cards, s # {}
          PROVE  f[s] = f[s \ {Max(s)}] + cards[Max(s)]
      <3>1. cards[Max(s)] \in Card /\ s \ {Max(s)} \in SUBSET DOMAIN cards
        BY <2>2, LastPosition
      <3>2. f[s] = Plus[<<f[s \ {Max(s)}], cards[Max(s)]>>]
        BY <1>1, <2>2, <3>1 DEF IsFold
      <3> QED
        BY <3>1, <3>2, CardSteps
    <2> QED
      BY <2>1, <2>2
  <1>3. Recurs(fold)
    <2> HIDE DEF Recurs
    <2> QED
      BY <1>2
  <1>4. IsFold(fold, Nat, 0, Plus, cards)
    <2> HIDE DEF fold
    <2>1. fold[{}] = 0
      BY <1>3
    <2>2. ASSUME NEW s \in SUBSET DOMAIN cards, s # {}, fold[s \ {Max(s)}] \in Nat
          PROVE  fold[s] = Plus[<<fold[s \ {Max(s)}], cards[Max(s)]>>]
      <3>1. cards[Max(s)] \in Card
        BY <2>2, LastPosition
      <3>2. fold[s] = fold[s \ {Max(s)}] + cards[Max(s)]
        BY <1>3, <2>2
      <3> QED
        BY <2>2, <3>1, <3>2, CardSteps
    <2> QED
      BY <2>1, <2>2 DEF IsFold
  <1>5. Low(cards) = fold[DOMAIN cards]
    BY DEF Low, FoldLeft, MapThenFoldSet
  <1> QED
    BY <1>4, <1>5

LEMMA RawFolds ==
  ASSUME NEW cards \in Seq(Card)
  PROVE  \E g : IsFold(g, Nat, 0, PlusRank, cards) /\ RawTotal(cards) = g[DOMAIN cards]
  <1> DEFINE Recurs(g) == g = [s \in SUBSET DOMAIN cards |->
                                 IF s = {} THEN 0 ELSE g[s \ {Max(s)}] + RankValue(cards[Max(s)])]
             fold == CHOOSE g : Recurs(g)
  <1>1. PICK f \in [SUBSET DOMAIN cards -> Nat] : IsFold(f, Nat, 0, PlusRank, cards)
    BY CardSteps, FoldExists
  <1>2. Recurs(f)
    <2>1. f[{}] = 0
      BY <1>1 DEF IsFold
    <2>2. ASSUME NEW s \in SUBSET DOMAIN cards, s # {}
          PROVE  f[s] = f[s \ {Max(s)}] + RankValue(cards[Max(s)])
      <3>1. cards[Max(s)] \in Card /\ s \ {Max(s)} \in SUBSET DOMAIN cards
        BY <2>2, LastPosition
      <3>2. f[s] = PlusRank[<<f[s \ {Max(s)}], cards[Max(s)]>>]
        BY <1>1, <2>2, <3>1 DEF IsFold
      <3> QED
        BY <3>1, <3>2, CardSteps
    <2> QED
      BY <2>1, <2>2
  <1>3. Recurs(fold)
    <2> HIDE DEF Recurs
    <2> QED
      BY <1>2
  <1>4. IsFold(fold, Nat, 0, PlusRank, cards)
    <2> HIDE DEF fold
    <2>1. fold[{}] = 0
      BY <1>3
    <2>2. ASSUME NEW s \in SUBSET DOMAIN cards, s # {}, fold[s \ {Max(s)}] \in Nat
          PROVE  fold[s] = PlusRank[<<fold[s \ {Max(s)}], cards[Max(s)]>>]
      <3>1. cards[Max(s)] \in Card
        BY <2>2, LastPosition
      <3>2. fold[s] = fold[s \ {Max(s)}] + RankValue(cards[Max(s)])
        BY <1>3, <2>2
      <3> QED
        BY <2>2, <3>1, <3>2, CardSteps
    <2> QED
      BY <2>1, <2>2 DEF IsFold
  <1>5. RawTotal(cards) = fold[DOMAIN cards]
    BY DEF RawTotal, FoldLeft, MapThenFoldSet
  <1> QED
    BY <1>4, <1>5

LEMMA TallyFolds ==
  ASSUME NEW cards \in Seq(Card)
  PROVE  \E g : IsFold(g, TallyType, NoTally, Tallied, cards) /\ Tally(cards) = g[DOMAIN cards]
  <1> DEFINE Recurs(g) == g = [s \in SUBSET DOMAIN cards |->
                                 IF s = {} THEN NoTally ELSE TallyCard(g[s \ {Max(s)}], cards[Max(s)])]
             fold == CHOOSE g : Recurs(g)
  <1>1. PICK f \in [SUBSET DOMAIN cards -> TallyType] : IsFold(f, TallyType, NoTally, Tallied, cards)
    BY NoTallyIsTally, CardSteps, FoldExists
  <1>2. Recurs(f)
    <2>1. f[{}] = NoTally
      BY <1>1 DEF IsFold
    <2>2. ASSUME NEW s \in SUBSET DOMAIN cards, s # {}
          PROVE  f[s] = TallyCard(f[s \ {Max(s)}], cards[Max(s)])
      <3>1. cards[Max(s)] \in Card /\ s \ {Max(s)} \in SUBSET DOMAIN cards
        BY <2>2, LastPosition
      <3>2. f[s] = Tallied[<<f[s \ {Max(s)}], cards[Max(s)]>>]
        BY <1>1, <2>2, <3>1 DEF IsFold
      <3> QED
        BY <3>1, <3>2, CardSteps
    <2> QED
      BY <2>1, <2>2
  <1>3. Recurs(fold)
    <2> HIDE DEF Recurs
    <2> QED
      BY <1>2
  <1>4. IsFold(fold, TallyType, NoTally, Tallied, cards)
    <2> HIDE DEF fold
    <2>1. fold[{}] = NoTally
      BY <1>3
    <2>2. ASSUME NEW s \in SUBSET DOMAIN cards, s # {}, fold[s \ {Max(s)}] \in TallyType
          PROVE  fold[s] = Tallied[<<fold[s \ {Max(s)}], cards[Max(s)]>>]
      <3>1. cards[Max(s)] \in Card
        BY <2>2, LastPosition
      <3>2. fold[s] = TallyCard(fold[s \ {Max(s)}], cards[Max(s)])
        BY <1>3, <2>2
      <3> QED
        BY <2>2, <3>1, <3>2, CardSteps
    <2> QED
      BY <2>1, <2>2 DEF IsFold
  <1>5. Tally(cards) = fold[DOMAIN cards]
    BY DEF Tally, FoldLeft, MapThenFoldSet
  <1> QED
    BY <1>4, <1>5

Summary(cards) == FoldLeft(Add, NoHand, cards)

LEMMA HandFolds ==
  ASSUME NEW cards \in Seq(Card)
  PROVE  \E g : IsFold(g, Hand, NoHand, Added, cards) /\ Summary(cards) = g[DOMAIN cards]
  <1> DEFINE Recurs(g) == g = [s \in SUBSET DOMAIN cards |->
                                 IF s = {} THEN NoHand ELSE Add(g[s \ {Max(s)}], cards[Max(s)])]
             fold == CHOOSE g : Recurs(g)
  <1>1. PICK f \in [SUBSET DOMAIN cards -> Hand] : IsFold(f, Hand, NoHand, Added, cards)
    BY NoHandIsHand, CardSteps, FoldExists
  <1>2. Recurs(f)
    <2>1. f[{}] = NoHand
      BY <1>1 DEF IsFold
    <2>2. ASSUME NEW s \in SUBSET DOMAIN cards, s # {}
          PROVE  f[s] = Add(f[s \ {Max(s)}], cards[Max(s)])
      <3>1. cards[Max(s)] \in Card /\ s \ {Max(s)} \in SUBSET DOMAIN cards
        BY <2>2, LastPosition
      <3>2. f[s] = Added[<<f[s \ {Max(s)}], cards[Max(s)]>>]
        BY <1>1, <2>2, <3>1 DEF IsFold
      <3> QED
        BY <3>1, <3>2, CardSteps
    <2> QED
      BY <2>1, <2>2
  <1>3. Recurs(fold)
    <2> HIDE DEF Recurs
    <2> QED
      BY <1>2
  <1>4. IsFold(fold, Hand, NoHand, Added, cards)
    <2> HIDE DEF fold
    <2>1. fold[{}] = NoHand
      BY <1>3
    <2>2. ASSUME NEW s \in SUBSET DOMAIN cards, s # {}, fold[s \ {Max(s)}] \in Hand
          PROVE  fold[s] = Added[<<fold[s \ {Max(s)}], cards[Max(s)]>>]
      <3>1. cards[Max(s)] \in Card
        BY <2>2, LastPosition
      <3>2. fold[s] = Add(fold[s \ {Max(s)}], cards[Max(s)])
        BY <1>3, <2>2
      <3> QED
        BY <2>2, <3>1, <3>2, CardSteps
    <2> QED
      BY <2>1, <2>2 DEF IsFold
  <1>5. Summary(cards) = fold[DOMAIN cards]
    BY DEF Summary, FoldLeft, MapThenFoldSet
  <1> QED
    BY <1>4, <1>5

LEMMA LowAppend ==
  /\ Low(<<>>) = 0
  /\ \A cards \in Seq(Card), card \in Card :
       Low(cards) \in Nat /\ Low(Append(cards, card)) = Low(cards) + card
  <1>1. Low(<<>>) = 0
    <2>1. <<>> \in Seq(Card) /\ DOMAIN <<>> = {}
      OBVIOUS
    <2> QED
      BY <2>1, LowFolds DEF IsFold
  <1>2. ASSUME NEW cards \in Seq(Card), NEW card \in Card
        PROVE  Low(cards) \in Nat /\ Low(Append(cards, card)) = Low(cards) + card
    <2>1. Append(cards, card) \in Seq(Card)
      OBVIOUS
    <2>2. PICK g : IsFold(g, Nat, 0, Plus, cards) /\ Low(cards) = g[DOMAIN cards]
      BY LowFolds
    <2>3. PICK h : /\ IsFold(h, Nat, 0, Plus, Append(cards, card))
                   /\ Low(Append(cards, card)) = h[DOMAIN Append(cards, card)]
      BY <2>1, LowFolds
    <2>4. /\ g[DOMAIN cards] \in Nat
          /\ h[DOMAIN Append(cards, card)] = Plus[<<g[DOMAIN cards], card>>]
      <3>1. OneMore(g, h, Nat, Card, 0, Plus, cards, card, Append(cards, card))
        BY <2>2, <2>3, CardSteps DEF OneMore
      <3>2. OneStep(g, h, Nat, Plus, cards, card, Append(cards, card))
        BY <3>1, FoldAppend
      <3> QED
        BY <3>2 DEF OneStep
    <2> QED
      BY <2>2, <2>3, <2>4, CardSteps
  <1> QED
    BY <1>1, <1>2

LEMMA RawAppend ==
  /\ RawTotal(<<>>) = 0
  /\ \A cards \in Seq(Card), card \in Card :
       RawTotal(cards) \in Nat /\ RawTotal(Append(cards, card)) = RawTotal(cards) + RankValue(card)
  <1>1. RawTotal(<<>>) = 0
    <2>1. <<>> \in Seq(Card) /\ DOMAIN <<>> = {}
      OBVIOUS
    <2> QED
      BY <2>1, RawFolds DEF IsFold
  <1>2. ASSUME NEW cards \in Seq(Card), NEW card \in Card
        PROVE  /\ RawTotal(cards) \in Nat
               /\ RawTotal(Append(cards, card)) = RawTotal(cards) + RankValue(card)
    <2>1. Append(cards, card) \in Seq(Card)
      OBVIOUS
    <2>2. PICK g : IsFold(g, Nat, 0, PlusRank, cards) /\ RawTotal(cards) = g[DOMAIN cards]
      BY RawFolds
    <2>3. PICK h : /\ IsFold(h, Nat, 0, PlusRank, Append(cards, card))
                   /\ RawTotal(Append(cards, card)) = h[DOMAIN Append(cards, card)]
      BY <2>1, RawFolds
    <2>4. /\ g[DOMAIN cards] \in Nat
          /\ h[DOMAIN Append(cards, card)] = PlusRank[<<g[DOMAIN cards], card>>]
      <3>1. OneMore(g, h, Nat, Card, 0, PlusRank, cards, card, Append(cards, card))
        BY <2>2, <2>3, CardSteps DEF OneMore
      <3>2. OneStep(g, h, Nat, PlusRank, cards, card, Append(cards, card))
        BY <3>1, FoldAppend
      <3> QED
        BY <3>2 DEF OneStep
    <2> QED
      BY <2>2, <2>3, <2>4, CardSteps
  <1> QED
    BY <1>1, <1>2

LEMMA TallyAppend ==
  /\ Tally(<<>>) = NoTally
  /\ \A cards \in Seq(Card), card \in Card :
       Tally(cards) \in TallyType /\ Tally(Append(cards, card)) = TallyCard(Tally(cards), card)
  <1>1. Tally(<<>>) = NoTally
    <2>1. <<>> \in Seq(Card) /\ DOMAIN <<>> = {}
      OBVIOUS
    <2> QED
      BY <2>1, TallyFolds DEF IsFold
  <1>2. ASSUME NEW cards \in Seq(Card), NEW card \in Card
        PROVE  Tally(cards) \in TallyType /\ Tally(Append(cards, card)) = TallyCard(Tally(cards), card)
    <2>1. Append(cards, card) \in Seq(Card)
      OBVIOUS
    <2>2. PICK g : IsFold(g, TallyType, NoTally, Tallied, cards) /\ Tally(cards) = g[DOMAIN cards]
      BY TallyFolds
    <2>3. PICK h : /\ IsFold(h, TallyType, NoTally, Tallied, Append(cards, card))
                   /\ Tally(Append(cards, card)) = h[DOMAIN Append(cards, card)]
      BY <2>1, TallyFolds
    <2>4. /\ g[DOMAIN cards] \in TallyType
          /\ h[DOMAIN Append(cards, card)] = Tallied[<<g[DOMAIN cards], card>>]
      <3>1. OneMore(g, h, TallyType, Card, NoTally, Tallied, cards, card, Append(cards, card))
        BY <2>2, <2>3, NoTallyIsTally, CardSteps DEF OneMore
      <3>2. OneStep(g, h, TallyType, Tallied, cards, card, Append(cards, card))
        BY <3>1, FoldAppend
      <3> QED
        BY <3>2 DEF OneStep
    <2> QED
      BY <2>2, <2>3, <2>4, CardSteps
  <1> QED
    BY <1>1, <1>2

LEMMA HandAppend ==
  /\ Summary(<<>>) = NoHand
  /\ \A cards \in Seq(Card), card \in Card :
       Summary(cards) \in Hand /\ Summary(Append(cards, card)) = Add(Summary(cards), card)
  <1>1. Summary(<<>>) = NoHand
    <2>1. <<>> \in Seq(Card) /\ DOMAIN <<>> = {}
      OBVIOUS
    <2> QED
      BY <2>1, HandFolds DEF IsFold
  <1>2. ASSUME NEW cards \in Seq(Card), NEW card \in Card
        PROVE  Summary(cards) \in Hand /\ Summary(Append(cards, card)) = Add(Summary(cards), card)
    <2>1. Append(cards, card) \in Seq(Card)
      OBVIOUS
    <2>2. PICK g : IsFold(g, Hand, NoHand, Added, cards) /\ Summary(cards) = g[DOMAIN cards]
      BY HandFolds
    <2>3. PICK h : /\ IsFold(h, Hand, NoHand, Added, Append(cards, card))
                   /\ Summary(Append(cards, card)) = h[DOMAIN Append(cards, card)]
      BY <2>1, HandFolds
    <2>4. /\ g[DOMAIN cards] \in Hand
          /\ h[DOMAIN Append(cards, card)] = Added[<<g[DOMAIN cards], card>>]
      <3>1. OneMore(g, h, Hand, Card, NoHand, Added, cards, card, Append(cards, card))
        BY <2>2, <2>3, NoHandIsHand, CardSteps DEF OneMore
      <3>2. OneStep(g, h, Hand, Added, cards, card, Append(cards, card))
        BY <3>1, FoldAppend
      <3> QED
        BY <3>2 DEF OneStep
    <2> QED
      BY <2>2, <2>3, <2>4, CardSteps
  <1> QED
    BY <1>1, <1>2

\* The aces are those there were, and the new card if it is one.
LEMMA AcesAppend ==
  /\ Aces(<<>>) = 0
  /\ \A cards \in Seq(Card), card \in Card :
       /\ Aces(cards) \in Nat
       /\ Aces(Append(cards, card)) = Aces(cards) + (IF card = 1 THEN 1 ELSE 0)
  <1>1. Aces(<<>>) = 0
    <2>1. {i \in DOMAIN <<>> : <<>>[i] = 1} = {}
      OBVIOUS
    <2> QED
      BY <2>1, FS_EmptySet DEF Aces
  <1>2. ASSUME NEW cards \in Seq(Card), NEW card \in Card
        PROVE  /\ Aces(cards) \in Nat
               /\ Aces(Append(cards, card)) = Aces(cards) + (IF card = 1 THEN 1 ELSE 0)
    <2> DEFINE n    == Len(cards)
               more == Append(cards, card)
               aces == {i \in DOMAIN cards : cards[i] = 1}
    <2>1. /\ n \in Nat /\ DOMAIN cards = 1..n /\ DOMAIN more = 1..(n + 1)
          /\ more[n + 1] = card /\ \A i \in 1..n : more[i] = cards[i]
      OBVIOUS
    <2>2. IsFiniteSet(aces) /\ n + 1 \notin aces
      <3>1. IsFiniteSet(1..n)
        BY <2>1, FS_Interval
      <3> QED
        BY <2>1, <3>1, FS_Subset
    <2>3. {i \in DOMAIN more : more[i] = 1} = IF card = 1 THEN aces \cup {n + 1} ELSE aces
      BY <2>1
    <2>4. Cardinality(aces) \in Nat /\ Cardinality(aces \cup {n + 1}) = Cardinality(aces) + 1
      BY <2>2, FS_CardinalityType, FS_AddElement
    <2> HIDE DEF aces, more
    <2>5. Aces(cards) = Cardinality(aces)
      BY DEF Aces, aces
    <2>6. Aces(more) = Cardinality(IF card = 1 THEN aces \cup {n + 1} ELSE aces)
      BY <2>3 DEF Aces
    <2>7. Aces(more) = Aces(cards) + (IF card = 1 THEN 1 ELSE 0)
      BY <2>4, <2>5, <2>6
    <2> QED
      BY <2>4, <2>5, <2>7 DEF more
  <1> QED
    BY <1>1, <1>2

\* The aces that have to count 1: as few as will do, or all of them.
IsUsed(total, aces, used) ==
  /\ used \in 0..aces
  /\ total - 10 * used <= 21 \/ used = aces
  /\ \A fewer \in 0..used-1 : total - 10 * fewer > 21

LEMMA UsedIs ==
  ASSUME NEW total \in Nat, NEW aces \in Nat
  PROVE  /\ IsUsed(total, aces, AcesUsed(total, aces))
         /\ \A used : IsUsed(total, aces, used) => used = AcesUsed(total, aces)
  <1> DEFINE need == IF total <= 21 THEN 0 ELSE (total - 12) \div 10
             used == IF need <= aces THEN need ELSE aces
  <1>1. need \in Nat /\ total - 10 * need <= 21
    OBVIOUS
  <1>2. \A fewer \in Nat : fewer < need => total - 10 * fewer > 21
    OBVIOUS
  <1> HIDE DEF need
  <1>3. IsUsed(total, aces, used)
    BY <1>1, <1>2 DEF IsUsed
  <1> HIDE DEF used
  <1>4. \A a, b : IsUsed(total, aces, a) /\ IsUsed(total, aces, b) => a = b
    <2> SUFFICES ASSUME NEW a, NEW b, IsUsed(total, aces, a), IsUsed(total, aces, b), a < b
                 PROVE  FALSE
      BY DEF IsUsed
    <2> QED
      BY DEF IsUsed
  <1>5. AcesUsed(total, aces) = CHOOSE k \in 0..aces : IsUsed(total, aces, k)
    BY DEF AcesUsed, IsUsed
  <1>6. \E k \in 0..aces : IsUsed(total, aces, k)
    BY <1>3 DEF IsUsed
  <1>7. IsUsed(total, aces, AcesUsed(total, aces))
    BY <1>5, <1>6
  <1> QED
    BY <1>4, <1>7

\* One ace after the other, as the loops do.
LEMMA UsedStep ==
  ASSUME NEW total \in Nat, NEW aces \in Nat
  PROVE  /\ AcesUsed(total, aces) \in 0..aces
         /\ AcesUsed(total, aces) = IF aces > 0 /\ total > 21
                                      THEN AcesUsed(total - 10, aces - 1) + 1 ELSE 0
  <1>1. AcesUsed(total, aces) \in 0..aces
    BY UsedIs DEF IsUsed
  <1>2. CASE aces > 0 /\ total > 21
    <2> DEFINE k == AcesUsed(total - 10, aces - 1)
    <2>1. IsUsed(total - 10, aces - 1, k)
      BY <1>2, UsedIs
    <2> HIDE DEF k
    <2>2. k \in 0..(aces - 1) /\ (total - 10 - 10 * k <= 21 \/ k = aces - 1)
      BY <2>1 DEF IsUsed
    <2>3. ASSUME NEW fewer \in 0..k PROVE total - 10 * fewer > 21
      <3>1. CASE fewer = 0
        BY <1>2, <3>1
      <3>2. CASE fewer # 0
        <4>1. fewer - 1 \in 0..(k - 1)
          BY <2>2, <3>2
        <4>2. total - 10 - 10 * (fewer - 1) > 21
          BY <2>1, <4>1 DEF IsUsed
        <4> QED
          BY <2>2, <4>2
      <3> QED
        BY <3>1, <3>2
    <2>4. IsUsed(total, aces, k + 1)
      BY <2>2, <2>3 DEF IsUsed
    <2>5. AcesUsed(total, aces) = k + 1
      BY <2>4, UsedIs
    <2> QED
      BY <1>1, <1>2, <2>5 DEF k
  <1>3. CASE ~ (aces > 0 /\ total > 21)
    <2>1. IsUsed(total, aces, 0)
      BY <1>3 DEF IsUsed
    <2> QED
      BY <1>3, <2>1, UsedIs
  <1> QED
    BY <1>1, <1>2, <1>3

\* What reduceAces answers.
Reduced(s) ==
  LET used == AcesUsed(s.total, s.aces)
  IN  [total |-> s.total - 10 * used, used |-> s.used + used]

LEMMA ReduceIs ==
  ASSUME NEW total \in Nat, NEW aces \in Nat
  PROVE  ReduceAces(total, aces) = [total |-> total - 10 * AcesUsed(total, aces),
                                    used  |-> AcesUsed(total, aces)]
  <1> DEFINE State == [total : Nat, aces : Nat, used : Nat]
             Next1(s) == [total |-> s.total - 10, aces |-> s.aces - 1, used |-> s.used + 1]
             More(s) == s.aces > 0 /\ s.total > 21
             Recurs(r) == r = [s \in State |-> IF More(s) THEN r[Next1(s)]
                                               ELSE [total |-> s.total, used |-> s.used]]
             reduce == CHOOSE r : Recurs(r)
             T == {n \in Nat : \A s \in State : s.aces = n => reduce[s] = Reduced(s)}
  <1>1. ASSUME NEW s \in State, More(s)
        PROVE  Next1(s) \in State /\ Next1(s).aces = s.aces - 1 /\ Reduced(s) = Reduced(Next1(s))
    <2>1. Next1(s) \in State
      BY <1>1
    <2>2. AcesUsed(s.total, s.aces) = AcesUsed(s.total - 10, s.aces - 1) + 1
      BY <1>1, UsedStep
    <2>3. AcesUsed(s.total - 10, s.aces - 1) \in Nat
      <3>1. s.total - 10 \in Nat /\ s.aces - 1 \in Nat
        BY <1>1
      <3> QED
        BY <3>1, UsedStep
    <2>4. Reduced(s) = Reduced(Next1(s))
      BY <2>2, <2>3 DEF Reduced
    <2> QED
      BY <2>1, <2>4
  <1>2. ASSUME NEW s \in State, ~ More(s)
        PROVE  Reduced(s) = [total |-> s.total, used |-> s.used]
    <2>1. AcesUsed(s.total, s.aces) = 0
      BY <1>2, UsedStep
    <2> QED
      BY <2>1 DEF Reduced
  <1> HIDE DEF Next1, More
  <1>3. Recurs([s \in State |-> Reduced(s)])
    BY <1>1, <1>2
  <1>4. Recurs(reduce)
    <2> HIDE DEF Recurs
    <2> QED
      BY <1>3
  <1> HIDE DEF reduce
  <1>5. 0 \in T
    <2> SUFFICES ASSUME NEW s \in State, s.aces = 0 PROVE reduce[s] = Reduced(s)
      OBVIOUS
    <2>1. ~ More(s)
      BY DEF More
    <2> QED
      BY <1>2, <1>4, <2>1
  <1>6. ASSUME NEW n \in T PROVE n + 1 \in T
    <2> SUFFICES ASSUME NEW s \in State, s.aces = n + 1 PROVE reduce[s] = Reduced(s)
      OBVIOUS
    <2>1. CASE More(s)
      <3>1. Next1(s) \in State /\ Next1(s).aces = n /\ Reduced(s) = Reduced(Next1(s))
        BY <1>1, <2>1
      <3>2. reduce[Next1(s)] = Reduced(Next1(s))
        BY <3>1
      <3>3. reduce[s] = reduce[Next1(s)]
        BY <1>4, <2>1
      <3> QED
        BY <3>1, <3>2, <3>3
    <2>2. CASE ~ More(s)
      BY <1>2, <1>4, <2>2
    <2> QED
      BY <2>1, <2>2
  <1>7. aces \in T
    <2> HIDE DEF T
    <2>1. T \in SUBSET Nat
      BY DEF T
    <2> QED
      BY <1>5, <1>6, <2>1, Induction
  <1> DEFINE start == [total |-> total, aces |-> aces, used |-> 0]
  <1>8. reduce[start] = Reduced(start)
    <2>1. start \in State /\ start.aces = aces
      OBVIOUS
    <2> QED
      BY <1>7, <2>1
  <1>9. AcesUsed(total, aces) \in Nat
    BY UsedStep
  <1>10. ReduceAces(total, aces) = reduce[start]
    BY DEF ReduceAces, reduce, Next1, More
  <1> QED
    BY <1>8, <1>9, <1>10 DEF Reduced

\* The loop of the table's own estimate does the same.
LEMMA EstimateIs ==
  ASSUME NEW cards, Len(cards) \in Nat, RawTotal(cards) \in Nat, Aces(cards) \in 0..Len(cards)
  PROVE  EstimateValue(cards) = RawTotal(cards) - 10 * AcesUsed(RawTotal(cards), Aces(cards))
  <1> DEFINE raw == RawTotal(cards)
             Left(n, total) == total - 10 * AcesUsed(total, n)
             Recurs(e) == e = [n \in 0..Len(cards) |->
                                 [total \in 0..raw |->
                                    IF n > 0 /\ total > 21 THEN e[n-1][total - 10] ELSE total]]
             estimate == CHOOSE e : Recurs(e)
             T == {n \in Nat : n <= Len(cards) =>
                                 \A total \in 0..raw : estimate[n][total] = Left(n, total)}
  <1>1. ASSUME NEW n \in Nat, NEW total \in Nat
        PROVE  Left(n, total) = IF n > 0 /\ total > 21 THEN Left(n - 1, total - 10) ELSE total
    <2>1. CASE n > 0 /\ total > 21
      <3>1. AcesUsed(total, n) = AcesUsed(total - 10, n - 1) + 1
        BY <2>1, UsedStep
      <3>2. AcesUsed(total - 10, n - 1) \in Nat
        <4>1. total - 10 \in Nat /\ n - 1 \in Nat
          BY <2>1
        <4>2. AcesUsed(total - 10, n - 1) \in 0..(n - 1)
          BY <4>1, UsedStep
        <4> QED
          BY <4>1, <4>2
      <3> QED
        BY <2>1, <3>1, <3>2
    <2>2. CASE ~ (n > 0 /\ total > 21)
      <3>1. AcesUsed(total, n) = 0
        BY <2>2, UsedStep
      <3> QED
        BY <2>2, <3>1
    <2> QED
      BY <2>1, <2>2
  <1> HIDE DEF Left
  <1>2. Recurs([n \in 0..Len(cards) |-> [total \in 0..raw |-> Left(n, total)]])
    <2> DEFINE e == [n \in 0..Len(cards) |-> [total \in 0..raw |-> Left(n, total)]]
    <2>1. ASSUME NEW n \in 0..Len(cards), NEW total \in 0..raw
          PROVE  Left(n, total) = IF n > 0 /\ total > 21 THEN e[n-1][total - 10] ELSE total
      <3>1. CASE n > 0 /\ total > 21
        <4>1. n - 1 \in 0..Len(cards) /\ total - 10 \in 0..raw
          BY <3>1
        <4>2. e[n-1][total - 10] = Left(n - 1, total - 10)
          BY <4>1
        <4>3. Left(n, total) = Left(n - 1, total - 10)
          BY <1>1, <3>1
        <4> HIDE DEF e
        <4> QED
          BY <3>1, <4>2, <4>3
      <3>2. CASE ~ (n > 0 /\ total > 21)
        BY <1>1, <3>2
      <3> QED
        BY <3>1, <3>2
    <2>2. e = [n \in 0..Len(cards) |-> [total \in 0..raw |->
                 IF n > 0 /\ total > 21 THEN e[n-1][total - 10] ELSE total]]
      BY <2>1
    <2> QED
      BY <2>2
  <1>3. Recurs(estimate)
    <2> HIDE DEF Recurs
    <2> QED
      BY <1>2
  <1> HIDE DEF estimate
  <1>4. 0 \in T
    BY <1>1, <1>3
  <1>5. ASSUME NEW n \in T PROVE n + 1 \in T
    <2> SUFFICES ASSUME n + 1 <= Len(cards), NEW total \in 0..raw
                 PROVE  estimate[n + 1][total] = Left(n + 1, total)
      OBVIOUS
    <2>1. n + 1 \in 0..Len(cards) /\ n \in Nat /\ n <= Len(cards) /\ n + 1 - 1 = n
      OBVIOUS
    <2>2. estimate[n + 1][total] = IF total > 21 THEN estimate[n][total - 10] ELSE total
      BY <1>3, <2>1
    <2>3. Left(n + 1, total) = IF total > 21 THEN Left(n, total - 10) ELSE total
      BY <1>1, <2>1
    <2> QED
      BY <2>1, <2>2, <2>3
  <1>6. Aces(cards) \in T
    <2> HIDE DEF T
    <2>1. T \in SUBSET Nat
      BY DEF T
    <2> QED
      BY <1>4, <1>5, <2>1, Induction
  <1>7. EstimateValue(cards) = estimate[Aces(cards)][raw]
    BY DEF EstimateValue, estimate
  <1> QED
    BY <1>6, <1>7 DEF Left

\* The sums of a hand: those with aces at 11, those with aces at 1, those of the
\* dealer's service and those of Cards.
SumsAgree(cards) ==
  LET low == Low(cards)  aces == Aces(cards)
  IN  /\ low \in Nat /\ aces \in 0..Len(cards) /\ aces <= low
      /\ RawTotal(cards) = low + 10 * aces
      /\ Tally(cards) = [total |-> low + 10 * aces, aces |-> aces]
      /\ Summary(cards) = [n |-> Capped(Len(cards), 5), sum |-> Capped(low, 22), ace |-> aces > 0]

HandInv == hand \in Seq(Card) /\ SumsAgree(hand)

LEMMA HandInvInit == NoCards => HandInv
  <1> SUFFICES ASSUME NoCards PROVE HandInv
    OBVIOUS
  <1>1. hand = <<>> /\ Len(<<>>) = 0 /\ <<>> \in Seq(Card)
    BY DEF NoCards
  <1>2. Low(<<>>) = 0 /\ RawTotal(<<>>) = 0 /\ Aces(<<>>) = 0
    BY LowAppend, RawAppend, AcesAppend
  <1>3. Tally(<<>>) = NoTally /\ Summary(<<>>) = NoHand
    BY TallyAppend, HandAppend
  <1>4. NoTally = [total |-> 0, aces |-> 0]
    BY DEF NoTally
  <1>5. NoHand = [n |-> Capped(0, 5), sum |-> Capped(0, 22), ace |-> 0 > 0]
    <2>1. Capped(0, 5) = 0 /\ Capped(0, 22) = 0 /\ (0 > 0) = FALSE
      BY DEF Capped
    <2> QED
      BY <2>1 DEF NoHand
  <1>6. SumsAgree(<<>>)
    <2>1. 0 \in Nat /\ 0 \in 0..0 /\ 0 <= 0 /\ 0 + 10 * 0 = 0
      OBVIOUS
    <2> QED
      BY <1>1, <1>2, <1>3, <1>4, <1>5, <2>1 DEF SumsAgree
  <1> QED
    BY <1>1, <1>6 DEF HandInv

LEMMA GrowKeeps == HandInv /\ Grow => HandInv'
  <1> SUFFICES ASSUME HandInv, Grow PROVE HandInv'
    OBVIOUS
  <1>1. PICK card \in Card : hand' = Append(hand, card)
    BY HandsAssumption DEF Grow, Card
  <1>2. /\ hand \in Seq(Card) /\ hand' \in Seq(Card)
        /\ Len(hand) \in Nat /\ Len(hand') = Len(hand) + 1
    BY <1>1 DEF HandInv
  <1> DEFINE low == Low(hand)
             aces == Aces(hand)
             more == aces + (IF card = 1 THEN 1 ELSE 0)
  <1>3. /\ low \in Nat /\ aces \in 0..Len(hand) /\ aces <= low
        /\ RawTotal(hand) = low + 10 * aces
        /\ Tally(hand) = [total |-> low + 10 * aces, aces |-> aces]
        /\ Summary(hand) = [n |-> Capped(Len(hand), 5), sum |-> Capped(low, 22), ace |-> aces > 0]
    BY DEF HandInv, SumsAgree
  <1>4. Low(hand') = low + card /\ Aces(hand') = more
    BY <1>1, <1>2, LowAppend, AcesAppend
  <1>5. RawTotal(hand') = low + card + 10 * more
    <2>1. RawTotal(hand') = RawTotal(hand) + RankValue(card)
      BY <1>1, <1>2, RawAppend
    <2> QED
      BY <1>3, <2>1 DEF RankValue, Card
  <1>6. Tally(hand') = [total |-> low + card + 10 * more, aces |-> more]
    <2>1. Tally(hand') = TallyCard(Tally(hand), card)
      BY <1>1, <1>2, TallyAppend
    <2>2. low + 10 * aces + RankValue(card) = low + card + 10 * more
      BY <1>3 DEF RankValue, Card
    <2>3. CASE card = Hidden
      <3>1. more = aces /\ low + card + 10 * more = low + 10 * aces
        BY <1>3, <2>3 DEF Hidden
      <3> HIDE DEF more
      <3> QED
        BY <1>3, <2>1, <2>3, <3>1 DEF TallyCard
    <2>4. CASE card # Hidden
      BY <1>3, <2>1, <2>2, <2>4 DEF TallyCard
    <2> QED
      BY <2>3, <2>4
  <1>7. Summary(hand') = [n |-> Capped(Len(hand'), 5), sum |-> Capped(low + card, 22), ace |-> more > 0]
    <2>1. Summary(hand') = Add(Summary(hand), card)
      BY <1>1, <1>2, HandAppend
    <2>2. Capped(Capped(Len(hand), 5) + 1, 5) = Capped(Len(hand'), 5)
      BY <1>2 DEF Capped
    <2>3. Capped(Capped(low, 22) + card, 22) = Capped(low + card, 22)
      BY <1>3 DEF Capped, Card
    <2>4. (aces > 0 \/ card = 1) = (more > 0)
      BY <1>3
    <2> HIDE DEF low, aces, more
    <2>5. Add(Summary(hand), card) = [n   |-> Capped(Capped(Len(hand), 5) + 1, 5),
                                      sum |-> Capped(Capped(low, 22) + card, 22),
                                      ace |-> aces > 0 \/ card = 1]
      <3>1. /\ Summary(hand).n = Capped(Len(hand), 5) /\ Summary(hand).sum = Capped(low, 22)
            /\ Summary(hand).ace = (aces > 0)
        BY <1>3
      <3> QED
        BY <3>1 DEF Add
    <2> QED
      BY <2>1, <2>2, <2>3, <2>4, <2>5
  <1>8. low + card \in Nat /\ more \in 0..Len(hand') /\ more <= low + card
    BY <1>2, <1>3 DEF Card
  <1> HIDE DEF low, more
  <1> QED
    BY <1>2, <1>4, <1>5, <1>6, <1>7, <1>8 DEF HandInv, SumsAgree

\* However many cards a hand has, the services' sums of it are those of the rules.
THEOREM HandsInvariant == HandsSpec => []HandInv
  <1>1. HandInv /\ [Grow]_hand => HandInv'
    <2>1. HandInv /\ UNCHANGED hand => HandInv'
      BY DEF HandInv, SumsAgree, Summary
    <2> QED
      BY <2>1, GrowKeeps
  <1> QED
    BY <1>1, HandInvInit, PTL DEF HandsSpec

\* Of the aces at most one counts 11, and one does unless it busts the hand.
LEMMA OneAceHigh ==
  ASSUME NEW low \in Nat, NEW aces \in Nat, NEW used, IsUsed(low + 10 * aces, aces, used)
  PROVE  /\ used \in 0..aces
         /\ low + 10 * aces - 10 * used = low + 10 * (aces - used)
         /\ low + 10 * (aces - used) \in Nat
         /\ low + 10 * (aces - used) <= 21 \/ used = aces
         /\ aces <= low /\ used < aces => aces - used = 1 /\ low <= 11
         /\ used = aces /\ aces > 0 => low > 11
  <1>1. /\ used \in 0..aces
        /\ low + 10 * aces - 10 * used <= 21 \/ used = aces
        /\ \A fewer \in 0..used-1 : low + 10 * aces - 10 * fewer > 21
    BY DEF IsUsed
  <1>2. used = aces /\ aces > 0 => low > 11
    <2> SUFFICES ASSUME used = aces, aces > 0 PROVE low > 11
      OBVIOUS
    <2>1. aces - 1 \in 0..used-1
      OBVIOUS
    <2>2. low + 10 * aces - 10 * (aces - 1) > 21
      BY <1>1, <2>1
    <2> QED
      BY <2>2
  <1>3. aces <= low /\ used < aces => aces - used = 1 /\ low <= 11
    BY <1>1
  <1>4. /\ low + 10 * aces - 10 * used = low + 10 * (aces - used)
        /\ low + 10 * (aces - used) \in Nat
    BY <1>1
  <1> QED
    BY <1>1, <1>2, <1>3, <1>4

\* What evaluateHand makes of the sums.
Evaluated(low, aces, used) ==
  LET value == low + 10 * (aces - used) IN
  /\ low \in Nat /\ aces \in Nat /\ aces <= low /\ Low(hand) = low /\ Aces(hand) = aces
  /\ IsUsed(low + 10 * aces, aces, used)
  /\ AcesUsed(low + 10 * aces, aces) = used
  /\ EvaluateHand(hand).value = value
  /\ EvaluateHand(hand).isSoft = (used < aces /\ value <= 21)

LEMMA EvaluationOf == HandInv => \E low, aces, used : Evaluated(low, aces, used)
  <1> SUFFICES ASSUME HandInv PROVE \E low, aces, used : Evaluated(low, aces, used)
    OBVIOUS
  <1> DEFINE low == Low(hand)
             aces == Aces(hand)
             raw == low + 10 * aces
             used == AcesUsed(raw, aces)
             value == low + 10 * (aces - used)
  <1>1. /\ low \in Nat /\ aces \in Nat /\ aces <= low /\ RawTotal(hand) = raw
        /\ Low(hand) = low /\ Aces(hand) = aces
    BY DEF HandInv, SumsAgree
  <1> HIDE DEF low, aces
  <1>2. raw \in Nat
    BY <1>1
  <1> HIDE DEF raw
  <1>3. IsUsed(raw, aces, used)
    BY <1>1, <1>2, UsedIs
  <1>4. ReduceAces(raw, aces) = [total |-> raw - 10 * used, used |-> used]
    BY <1>1, <1>2, ReduceIs
  <1>5. AcesUsed(raw, aces) = used
    OBVIOUS
  <1> HIDE DEF used
  <1>6. raw - 10 * used = value
    BY <1>1, <1>3, OneAceHigh DEF raw
  <1> HIDE DEF value
  <1>7. EvaluateHand(hand).value = value /\ EvaluateHand(hand).isSoft = (used < aces /\ value <= 21)
    BY <1>1, <1>4, <1>6 DEF EvaluateHand
  <1>8. Evaluated(low, aces, used)
    BY <1>1, <1>3, <1>5, <1>7 DEF Evaluated, raw, value
  <1> QED
    BY <1>8

\* evaluateHand returns the best total of every hand, however long: the loop of
\* reduceAces stops neither too early nor too late.
THEOREM EveryTotalIsBest == HandsSpec => []BestTotal
  <1>1. HandInv => BestTotal
    <2> SUFFICES ASSUME HandInv PROVE BestTotal
      OBVIOUS
    <2>1. PICK low, aces, used : Evaluated(low, aces, used)
      BY EvaluationOf
    <2> DEFINE value == low + 10 * (aces - used)
    <2>2. /\ low \in Nat /\ aces \in Nat /\ Low(hand) = low /\ Aces(hand) = aces
          /\ IsUsed(low + 10 * aces, aces, used) /\ EvaluateHand(hand).value = value
      BY <2>1 DEF Evaluated
    <2>3. used \in 0..aces /\ value \in Nat /\ (value <= 21 \/ used = aces)
      BY <2>2, OneAceHigh
    <2>4. value \in {low + 10 * high : high \in 0..aces}
      <3>1. aces - used \in 0..aces
        BY <2>2, <2>3
      <3> QED
        BY <3>1
    <2>5. ASSUME NEW high \in 0..aces
          PROVE  low + 10 * high <= value \/ low + 10 * high > 21
      <3>1. CASE high <= aces - used
        BY <2>2, <2>3, <3>1
      <3>2. CASE high > aces - used
        <4>1. aces - high \in 0..used-1
          BY <2>2, <2>3, <3>2
        <4>2. low + 10 * aces - 10 * (aces - high) > 21
          BY <2>2, <4>1 DEF IsUsed
        <4> QED
          BY <2>2, <4>2
      <3> QED
        BY <2>2, <2>3, <3>1, <3>2
    <2>6. ASSUME NEW high \in 0..aces, value > 21
          PROVE  value <= low + 10 * high
      <3>1. used = aces
        BY <2>3, <2>6
      <3> QED
        BY <2>2, <3>1
    <2>7. Totals(hand) = {low + 10 * high : high \in 0..aces}
      BY <2>2 DEF Totals
    <2> HIDE DEF value
    <2>8. value \in Totals(hand)
      BY <2>4, <2>7
    <2>9. \A other \in Totals(hand) : other <= value \/ other > 21
      BY <2>5, <2>7
    <2>10. value > 21 => \A other \in Totals(hand) : value <= other
      BY <2>6, <2>7
    <2>11. IsBest(value, hand)
      BY <2>3, <2>8, <2>9, <2>10 DEF IsBest
    <2> QED
      BY <2>2, <2>11 DEF BestTotal
  <1> QED
    BY <1>1, HandsInvariant, PTL

\* The three services and the rules' own summary give every hand one value, and
\* the dealer plays it the same way wherever it is computed but for soft 17.
THEOREM AllEvaluatorsAgree == HandsSpec => []EvaluatorsAgree
  <1>1. ASSUME HandInv PROVE EvaluatorsAgree
    <2>1. PICK low, aces, used : Evaluated(low, aces, used)
      BY <1>1, EvaluationOf
    <2> DEFINE value == low + 10 * (aces - used)
               soft == used < aces /\ value <= 21
    <2>2. /\ low \in Nat /\ aces \in Nat /\ aces <= low /\ Low(hand) = low /\ Aces(hand) = aces
          /\ IsUsed(low + 10 * aces, aces, used) /\ AcesUsed(low + 10 * aces, aces) = used
          /\ EvaluateHand(hand).value = value /\ EvaluateHand(hand).isSoft = soft
      BY <2>1 DEF Evaluated
    <2>3. /\ Len(hand) \in Nat /\ aces \in 0..Len(hand) /\ RawTotal(hand) = low + 10 * aces
          /\ Tally(hand) = [total |-> low + 10 * aces, aces |-> aces]
          /\ Summary(hand) = [n |-> Capped(Len(hand), 5), sum |-> Capped(low, 22), ace |-> aces > 0]
      BY <1>1, <2>2 DEF HandInv, SumsAgree
    <2>4. /\ used \in 0..aces /\ low + 10 * aces - 10 * used = value
          /\ value \in Nat /\ (value <= 21 \/ used = aces)
          /\ used < aces => aces - used = 1 /\ low <= 11
          /\ used = aces /\ aces > 0 => low > 11
      BY <2>2, OneAceHigh
    <2>5. soft \in BOOLEAN
      OBVIOUS
    <2>6. DealerTotal(hand) = [total |-> value, soft |-> soft]
      <3>1. /\ Tally(hand).total = low + 10 * aces /\ Tally(hand).aces = aces
            /\ AcesUsed(Tally(hand).total, Tally(hand).aces) = used
        BY <2>2, <2>3
      <3>2. Tally(hand).total - 10 * used = value
        BY <2>2, <2>4, <3>1
      <3> HIDE DEF value
      <3> QED
        BY <3>1, <3>2 DEF DealerTotal
    <2>7. ValuesAgree
      <3>1. low + 10 * aces \in Nat
        BY <2>2
      <3>2. EstimateValue(hand) = RawTotal(hand) - 10 * AcesUsed(RawTotal(hand), Aces(hand))
        BY <2>2, <2>3, <3>1, EstimateIs
      <3>3. EstimateValue(hand) = value
        BY <2>2, <2>3, <2>4, <3>2
      <3> HIDE DEF value, soft
      <3> QED
        BY <2>2, <2>6, <3>3 DEF ValuesAgree
    <2>8. SummaryExact
      <3>0. Summary(hand).sum = Capped(low, 22) /\ Summary(hand).ace = (aces > 0)
        BY <2>3
      <3>1. CASE used < aces
        <4>1. value = low + 10 /\ low <= 11 /\ aces > 0 /\ value <= 21
          BY <2>2, <2>4, <3>1
        <4>2. Capped(low, 22) = low /\ Capped(value, 22) = value /\ soft
          BY <2>2, <3>1, <4>1 DEF Capped
        <4>3. Value(Summary(hand)) = value /\ Value(Summary(hand)) # Summary(hand).sum
          <5>1. Value(Summary(hand)) = low + 10
            BY <3>0, <4>1, <4>2 DEF Value
          <5> QED
            BY <2>2, <3>0, <4>1, <4>2, <5>1
        <4> QED
          BY <2>2, <2>3, <4>1, <4>2, <4>3 DEF SummaryExact, Summary
      <3>2. CASE used = aces
        <4>1. value = low /\ (aces > 0 => low > 11) /\ ~ soft
          BY <2>2, <2>4, <3>2
        <4>2. aces > 0 => Capped(low, 22) > 11
          BY <2>2, <4>1 DEF Capped
        <4>3. Value(Summary(hand)) = Capped(low, 22) /\ Summary(hand).sum = Capped(low, 22)
          <5>1. CASE aces > 0
            <6>1. ~ (Capped(low, 22) <= 11)
              BY <2>2, <4>2, <5>1 DEF Capped
            <6> QED
              BY <3>0, <5>1, <6>1 DEF Value
          <5>2. CASE ~ (aces > 0)
            BY <3>0, <5>2 DEF Value
          <5> QED
            BY <5>1, <5>2
        <4> HIDE DEF value, soft
        <4> QED
          BY <2>2, <2>3, <4>1, <4>3 DEF SummaryExact, Summary
      <3> QED
        BY <2>2, <2>4, <3>1, <3>2
    <2>9. DealersDifferOnSoft17
      <3> HIDE DEF value, soft
      <3>1. (Decision(hand) = "hit") <=> value < 17 \/ (value = 17 /\ soft)
        <4>1. DealerTotal(hand).total = value /\ DealerTotal(hand).soft = soft
          BY <2>6
        <4>2. CASE value > 21
          BY <2>4, <4>1, <4>2 DEF Decision
        <4>3. CASE value < 17 \/ (value = 17 /\ soft)
          BY <2>4, <4>1, <4>3 DEF Decision
        <4>4. CASE value \in 17..21 /\ ~ (value = 17 /\ soft)
          BY <2>4, <4>1, <4>4 DEF Decision
        <4> QED
          BY <2>4, <4>2, <4>3, <4>4
      <3>2. LoopDraws(hand) <=> value < 17
        BY <2>2 DEF LoopDraws
      <3> QED
        <4>1. (Decision(hand) = "hit") # LoopDraws(hand) <=> value = 17 /\ soft
          <5>1. LoopDraws(hand) \in BOOLEAN
            BY DEF LoopDraws
          <5>2. CASE value < 17
            BY <2>4, <3>1, <3>2, <5>1, <5>2
          <5>3. CASE ~ (value < 17)
            BY <2>4, <3>1, <3>2, <5>1, <5>3
          <5> QED
            BY <5>2, <5>3
        <4> QED
          BY <2>2, <4>1 DEF DealersDifferOnSoft17
    <2> QED
      BY <2>7, <2>8, <2>9 DEF EvaluatorsAgree
  <1> QED
    BY <1>1, HandsInvariant, PTL

-----------------------------------------------------------------------------
(* Csv: what the loop over the characters of a row reads *)

\* P is what a fold has computed after each item.
Runs(P, X, base, op, items) ==
  /\ P \in [0..Len(items) -> X] /\ P[0] = base
  /\ \A i \in 1..Len(items) : P[i] = op[<<P[i - 1], items[i]>>]

Folding(g, X, Y, base, op, items) ==
  base \in X /\ op \in [X \X Y -> X] /\ items \in Seq(Y) /\ IsFold(g, X, base, op, items)

\* A fold takes its items in their order.
LEMMA FoldRuns ==
  ASSUME NEW X, NEW Y, NEW base, NEW op, NEW items, NEW g, Folding(g, X, Y, base, op, items)
  PROVE  \E P : Runs(P, X, base, op, items) /\ P[Len(items)] = g[DOMAIN items]
  <1> DEFINE n == Len(items)
             T == {k \in Nat : k <= n => g[1..k] \in X}
             P == [k \in 0..n |-> g[1..k]]
  <1> USE DEF Folding
  <1>1. n \in Nat /\ DOMAIN items = 1..n /\ \A i \in 1..n : items[i] \in Y
    OBVIOUS
  <1>2. ASSUME NEW k \in 0..(n - 1), g[1..k] \in X
        PROVE  g[1..(k + 1)] = op[<<g[1..k], items[k + 1]>>]
    <2>1. Max(1..(k + 1)) = k + 1 /\ (1..(k + 1)) \ {Max(1..(k + 1))} = 1..k
      BY <1>1, MaxOfPrefix
    <2>2. 1..(k + 1) \in SUBSET DOMAIN items /\ 1..(k + 1) # {}
      <3>1. k + 1 \in 1..(k + 1) /\ \A i \in 1..(k + 1) : i \in 1..n
        BY <1>1
      <3> QED
        BY <1>1, <3>1
    <2> QED
      BY <1>2, <2>1, <2>2 DEF IsFold
  <1>3. 0 \in T
    <2>1. 1..0 = {}
      OBVIOUS
    <2> QED
      BY <2>1 DEF IsFold
  <1>4. ASSUME NEW k \in T PROVE k + 1 \in T
    <2> SUFFICES ASSUME k + 1 <= n PROVE g[1..(k + 1)] \in X
      OBVIOUS
    <2>1. k \in 0..(n - 1) /\ g[1..k] \in X /\ items[k + 1] \in Y
      BY <1>1
    <2> QED
      BY <1>2, <2>1
  <1>5. T = Nat
    <2> HIDE DEF T
    <2>1. T \in SUBSET Nat
      BY DEF T
    <2> QED
      BY <1>3, <1>4, <2>1, Induction
  <1>6. P \in [0..n -> X]
    BY <1>1, <1>5
  <1>7. P[0] = base
    <2>1. 1..0 = {}
      OBVIOUS
    <2> QED
      BY <1>1, <2>1 DEF IsFold
  <1>8. ASSUME NEW i \in 1..n PROVE P[i] = op[<<P[i - 1], items[i]>>]
    <2>1. i - 1 \in 0..(n - 1) /\ i - 1 + 1 = i /\ i \in 0..n /\ i - 1 \in 0..n
      BY <1>1
    <2>2. g[1..(i - 1)] \in X
      BY <1>1, <1>5, <2>1
    <2>3. g[1..i] = op[<<g[1..(i - 1)], items[i]>>]
      BY <1>2, <2>1, <2>2
    <2> QED
      BY <2>1, <2>3
  <1>9. P[n] = g[DOMAIN items]
    BY <1>1
  <1> HIDE DEF P
  <1>10. Runs(P, X, base, op, items)
    BY <1>6, <1>7, <1>8 DEF Runs
  <1> QED
    BY <1>9, <1>10

\* The pieces that FlattenSeq has put together.
Joined(J, A, seqs) ==
  /\ J \in [0..Len(seqs) -> Seq(A)] /\ J[0] = <<>>
  /\ \A i \in 1..Len(seqs) : J[i] = J[i - 1] \o seqs[i]

LEMMA JoinedExists ==
  ASSUME NEW A, NEW seqs \in Seq(Seq(A))
  PROVE  \E J : Joined(J, A, seqs)
  <1> DEFINE joint == [p \in Seq(A) \X Seq(A) |-> p[1] \o p[2]]
  <1>1. /\ joint \in [Seq(A) \X Seq(A) -> Seq(A)] /\ <<>> \in Seq(A)
        /\ \A s, t \in Seq(A) : joint[<<s, t>>] = s \o t
    <2>1. \A s, t \in Seq(A) : s \o t \in Seq(A)
      BY ConcatProperties
    <2>2. \A p \in Seq(A) \X Seq(A) : p[1] \o p[2] \in Seq(A)
      BY <2>1
    <2>3. joint \in [Seq(A) \X Seq(A) -> Seq(A)]
      BY <2>2, Zenon
    <2>4. ASSUME NEW s \in Seq(A), NEW t \in Seq(A) PROVE joint[<<s, t>>] = s \o t
      <3>1. <<s, t>> \in Seq(A) \X Seq(A)
        OBVIOUS
      <3>2. joint[<<s, t>>] = <<s, t>>[1] \o <<s, t>>[2]
        BY <3>1, Zenon
      <3> QED
        BY <3>2
    <2>5. <<>> \in Seq(A)
      OBVIOUS
    <2> HIDE DEF joint
    <2> QED
      BY <2>3, <2>4, <2>5
  <1> HIDE DEF joint
  <1>2. PICK g : IsFold(g, Seq(A), <<>>, joint, seqs)
    BY <1>1, FoldExists
  <1>3. Folding(g, Seq(A), Seq(A), <<>>, joint, seqs)
    BY <1>1, <1>2 DEF Folding
  <1>4. PICK J : Runs(J, Seq(A), <<>>, joint, seqs)
    BY <1>3, FoldRuns
  <1>5. ASSUME NEW i \in 1..Len(seqs)
        PROVE  J[i - 1] \in Seq(A) /\ seqs[i] \in Seq(A) /\ J[i] = joint[<<J[i - 1], seqs[i]>>]
    <2>1. i - 1 \in 0..Len(seqs) /\ seqs[i] \in Seq(A)
      OBVIOUS
    <2>2. J \in [0..Len(seqs) -> Seq(A)] /\ J[i] = joint[<<J[i - 1], seqs[i]>>]
      BY <1>4 DEF Runs
    <2>3. J[i - 1] \in Seq(A)
      BY <2>1, <2>2, Zenon
    <2> QED
      BY <2>1, <2>2, <2>3
  <1>6. \A i \in 1..Len(seqs) : J[i] = J[i - 1] \o seqs[i]
    BY <1>1, <1>5
  <1>7. J \in [0..Len(seqs) -> Seq(A)] /\ J[0] = <<>>
    BY <1>4 DEF Runs
  <1> QED
    BY <1>6, <1>7 DEF Joined

LEMMA Flattened ==
  ASSUME NEW A, NEW seqs \in Seq(Seq(A))
  PROVE  \E J : Joined(J, A, seqs) /\ FlattenSeq(seqs) = J[Len(seqs)]
  <1> DEFINE n == Len(seqs)
             Recurs(f) == f = [i \in 1..n |-> IF i = 1 THEN seqs[i] ELSE f[i-1] \o seqs[i]]
             flatten == CHOOSE f : Recurs(f)
  <1>1. n \in Nat /\ \A i \in 1..n : seqs[i] \in Seq(A)
    OBVIOUS
  <1>2. PICK J : Joined(J, A, seqs)
    BY JoinedExists
  <1>3. CASE n = 0
    <2>1. seqs = <<>> /\ FlattenSeq(seqs) = seqs
      BY <1>3 DEF FlattenSeq
    <2> QED
      BY <1>2, <1>3, <2>1 DEF Joined
  <1>4. CASE n # 0
    <2>1. ASSUME NEW i \in 1..n
          PROVE  J[i] = IF i = 1 THEN seqs[i] ELSE J[i - 1] \o seqs[i]
      <3>1. J[i] = J[i - 1] \o seqs[i] /\ seqs[i] \in Seq(A)
        BY <1>1, <1>2 DEF Joined
      <3>2. i = 1 => J[i - 1] = <<>>
        BY <1>2 DEF Joined
      <3>3. <<>> \o seqs[i] = seqs[i]
        BY <3>1, ConcatEmptySeq
      <3> QED
        BY <3>1, <3>2, <3>3
    <2>2. Recurs([i \in 1..n |-> J[i]])
      <3> DEFINE f == [i \in 1..n |-> J[i]]
      <3>1. ASSUME NEW i \in 1..n
            PROVE  J[i] = IF i = 1 THEN seqs[i] ELSE f[i - 1] \o seqs[i]
        <4>1. i # 1 => i - 1 \in 1..n /\ f[i - 1] = J[i - 1]
          BY <1>1
        <4> HIDE DEF f
        <4> QED
          BY <2>1, <4>1
      <3>2. f = [i \in 1..n |-> IF i = 1 THEN seqs[i] ELSE f[i - 1] \o seqs[i]]
        BY <3>1
      <3> QED
        BY <3>2
    <2>3. Recurs(flatten)
      <3> HIDE DEF Recurs
      <3> QED
        BY <2>2
    <2>4. FlattenSeq(seqs) = flatten[n]
      BY <1>4 DEF FlattenSeq
    <2> HIDE DEF flatten
    <2> DEFINE T == {k \in Nat : 1 <= k /\ k <= n => flatten[k] = J[k]}
    <2>5. 0 \in T
      OBVIOUS
    <2>6. ASSUME NEW k \in T PROVE k + 1 \in T
      <3> SUFFICES ASSUME k + 1 <= n PROVE flatten[k + 1] = J[k + 1]
        OBVIOUS
      <3>1. k + 1 \in 1..n /\ k \in Nat /\ k + 1 - 1 = k
        BY <1>1
      <3>2. flatten[k + 1] = IF k + 1 = 1 THEN seqs[k + 1] ELSE flatten[k] \o seqs[k + 1]
        <4> HIDE DEF T, n
        <4>1. \A i \in 1..n : flatten[i] = IF i = 1 THEN seqs[i] ELSE flatten[i - 1] \o seqs[i]
          BY <2>3
        <4> QED
          BY <3>1, <4>1
      <3>3. J[k + 1] = IF k + 1 = 1 THEN seqs[k + 1] ELSE J[k] \o seqs[k + 1]
        BY <2>1, <3>1
      <3>4. k + 1 # 1 => flatten[k] = J[k]
        BY <1>1, <3>1
      <3> HIDE DEF T
      <3> QED
        BY <3>2, <3>3, <3>4
    <2>7. n \in T
      <3> HIDE DEF T
      <3>1. T \in SUBSET Nat
        BY DEF T
      <3> QED
        BY <1>1, <2>5, <2>6, <3>1, Induction
    <2> QED
      BY <1>1, <1>2, <1>4, <2>4, <2>7
  <1> QED
    BY <1>3, <1>4

\* A piece keeps the place where it was put.
InPlace(whole, p, piece) ==
  /\ p \in Nat /\ p + Len(piece) <= Len(whole)
  /\ \A j \in 1..Len(piece) : whole[p + j] = piece[j]

Joint(A, front, piece, whole) ==
  /\ front \in Seq(A) /\ piece \in Seq(A) /\ whole \in Seq(A)
  /\ Len(front) \in Nat /\ Len(piece) \in Nat /\ Len(whole) = Len(front) + Len(piece)
  /\ \A j \in 1..Len(front) : whole[j] = front[j]
  /\ \A j \in 1..Len(piece) : whole[Len(front) + j] = piece[j]

LEMMA ConcatIsJoint ==
  ASSUME NEW A, NEW front \in Seq(A), NEW piece \in Seq(A)
  PROVE  Joint(A, front, piece, front \o piece)
  <1>1. /\ Len(front) \in Nat /\ Len(piece) \in Nat /\ Len(front \o piece) = Len(front) + Len(piece)
        /\ front \o piece \in Seq(A)
        /\ \A j \in 1..Len(front) + Len(piece) :
             (front \o piece)[j] = IF j <= Len(front) THEN front[j] ELSE piece[j - Len(front)]
    BY ConcatProperties, LenProperties
  <1>2. \A j \in 1..Len(front) : (front \o piece)[j] = front[j]
    BY <1>1
  <1>3. \A j \in 1..Len(piece) : (front \o piece)[Len(front) + j] = piece[j]
    <2> SUFFICES ASSUME NEW j \in 1..Len(piece)
                 PROVE  (front \o piece)[Len(front) + j] = piece[j]
      OBVIOUS
    <2>1. /\ Len(front) + j \in 1..Len(front) + Len(piece) /\ ~ (Len(front) + j <= Len(front))
          /\ Len(front) + j - Len(front) = j
      BY <1>1
    <2> QED
      BY <1>1, <2>1
  <1> QED
    BY <1>1, <1>2, <1>3 DEF Joint

LEMMA JointIs ==
  ASSUME NEW A, NEW seqs \in Seq(Seq(A)), NEW J, Joined(J, A, seqs), NEW i \in 1..Len(seqs)
  PROVE  Joint(A, J[i - 1], seqs[i], J[i])
  <1>1. i - 1 \in 0..Len(seqs) /\ seqs[i] \in Seq(A)
    OBVIOUS
  <1>2. J \in [0..Len(seqs) -> Seq(A)] /\ J[i] = J[i - 1] \o seqs[i]
    BY DEF Joined
  <1>3. J[i - 1] \in Seq(A)
    BY <1>1, <1>2, Zenon
  <1> QED
    BY <1>1, <1>2, <1>3, ConcatIsJoint

LEMMA PieceInPlace ==
  ASSUME NEW A, NEW seqs \in Seq(Seq(A)), NEW J, Joined(J, A, seqs), NEW i \in 1..Len(seqs)
  PROVE  InPlace(J[Len(seqs)], Len(J[i - 1]), seqs[i])
  <1> DEFINE n == Len(seqs)
             p == Len(J[i - 1])
             piece == seqs[i]
             T == {k \in Nat : i <= k /\ k <= n => InPlace(J[k], p, piece)}
  <1>1. n \in Nat /\ p \in Nat /\ Len(piece) \in Nat /\ InPlace(J[i], p, piece)
    <2>1. Joint(A, J[i - 1], seqs[i], J[i])
      BY JointIs
    <2> QED
      BY <2>1 DEF Joint, InPlace
  <1> HIDE DEF p, piece
  <1>2. 0 \in T
    OBVIOUS
  <1>3. ASSUME NEW k \in T PROVE k + 1 \in T
    <2> SUFFICES ASSUME i <= k + 1, k + 1 <= n PROVE InPlace(J[k + 1], p, piece)
      OBVIOUS
    <2>1. CASE i = k + 1
      BY <1>1, <2>1
    <2>2. CASE i # k + 1
      <3>1. k \in Nat /\ InPlace(J[k], p, piece) /\ k + 1 \in 1..n /\ k + 1 - 1 = k
        BY <1>1, <2>2
      <3> HIDE DEF T
      <3>2. Joint(A, J[k + 1 - 1], seqs[k + 1], J[k + 1])
        BY <3>1, JointIs
      <3> DEFINE before == J[k]  after == J[k + 1]  next == seqs[k + 1]
      <3> HIDE DEF before, after, next
      <3>6. Joint(A, before, next, after) /\ InPlace(before, p, piece)
        BY <3>1, <3>2 DEF before, after, next
      <3>3. /\ Len(before) \in Nat /\ Len(before) <= Len(after) /\ Len(after) \in Nat
            /\ \A j \in 1..Len(before) : after[j] = before[j]
        BY <3>6 DEF Joint
      <3>4. \A j \in 1..Len(piece) : p + j \in 1..Len(before) /\ before[p + j] = piece[j]
        BY <1>1, <3>6, <3>3 DEF InPlace
      <3>5. \A j \in 1..Len(piece) : after[p + j] = piece[j]
        BY <3>3, <3>4
      <3>7. InPlace(after, p, piece)
        BY <1>1, <3>6, <3>3, <3>5 DEF InPlace
      <3> QED
        BY <3>7 DEF after
    <2> QED
      BY <2>1, <2>2
  <1>4. n \in T
    <2> HIDE DEF T
    <2>1. T \in SUBSET Nat
      BY DEF T
    <2> QED
      BY <1>1, <1>2, <1>3, <2>1, Induction
  <1> QED
    BY <1>1, <1>4 DEF p, piece

-----------------------------------------------------------------------------
Text == Seq(Characters)

\* RowPieces as the parser keeps them.
Column == {Trim(text) : text \in Text}

Reader == [cols : Seq(Column), current : Text, inQuotes : BOOLEAN, skip : BOOLEAN]

At(cols, current, inQuotes) ==
  [cols |-> cols, current |-> current, inQuotes |-> inQuotes, skip |-> FALSE]

\* P is what the loop has read after each character of the row.
Reading(P, row) ==
  /\ P \in [0..Len(row) -> Reader] /\ P[0] = At(<<>>, <<>>, FALSE)
  /\ \A i \in 1..Len(row) : P[i] = ParseChar(row, P[i - 1], i)

LEMMA AtIsReader ==
  ASSUME NEW cols \in Seq(Column), NEW current \in Text, NEW inQuotes \in BOOLEAN
  PROVE  At(cols, current, inQuotes) \in Reader
BY DEF At, Reader

LEMMA ParseCharReads ==
  ASSUME NEW row \in Text, NEW i \in 1..Len(row), NEW state \in Reader
  PROVE  ParseChar(row, state, i) \in Reader
  <1>1. row[i] \in Characters /\ "quote" \in Characters
    BY DEF Text, Characters
  <1>2. /\ state.cols \in Seq(Column) /\ state.current \in Text
        /\ state.inQuotes \in BOOLEAN /\ state.skip \in BOOLEAN
    BY DEF Reader
  <1>3. Append(state.cols, Trim(state.current)) \in Seq(Column)
    <2>1. Trim(state.current) \in Column
      BY <1>2 DEF Column
    <2> QED
      BY <1>2, <2>1
  <1>4. /\ Append(state.current, "quote") \in Text /\ Append(state.current, row[i]) \in Text
        /\ <<>> \in Text
    BY <1>1, <1>2 DEF Text
  <1> QED
    BY <1>2, <1>3, <1>4 DEF ParseChar, Reader

LEMMA RowIsRead ==
  ASSUME NEW row \in Text
  PROVE  \E P : /\ Reading(P, row)
                /\ ParseCSVRow(row) = Append(P[Len(row)].cols, Trim(P[Len(row)].current))
  <1> DEFINE n == Len(row)
             items == [i \in DOMAIN row |-> i]
             start == At(<<>>, <<>>, FALSE)
             op == [p \in Reader \X (1..n) |-> ParseChar(row, p[1], p[2])]
             Recurs(g) == g = [s \in SUBSET DOMAIN items |->
                                 IF s = {} THEN start
                                 ELSE ParseChar(row, g[s \ {Max(s)}], items[Max(s)])]
             fold == CHOOSE g : Recurs(g)
  <1>1. n \in Nat /\ DOMAIN row = 1..n /\ items \in Seq(1..n) /\ Len(items) = n
    BY DEF Text
  <1>2. start \in Reader
    <2>1. <<>> \in Seq(Column) /\ <<>> \in Text
      BY DEF Text
    <2> QED
      BY <2>1, AtIsReader
  <1>3. ASSUME NEW state \in Reader, NEW i \in 1..n
        PROVE  op[<<state, i>>] = ParseChar(row, state, i)
    OBVIOUS
  <1>4. op \in [Reader \X (1..n) -> Reader]
    <2>1. ASSUME NEW p \in Reader \X (1..n) PROVE ParseChar(row, p[1], p[2]) \in Reader
      <3>1. p[1] \in Reader /\ p[2] \in 1..Len(row)
        OBVIOUS
      <3> QED
        BY <3>1, ParseCharReads
    <2> QED
      BY <2>1, Zenon
  <1>5. DOMAIN items = 1..n /\ \A i \in 1..n : items[i] = i
    BY <1>1
  <1> HIDE DEF op, start, items
  <1>6. PICK f \in [SUBSET DOMAIN items -> Reader] : IsFold(f, Reader, start, op, items)
    BY <1>1, <1>2, <1>4, FoldExists
  <1>7. ASSUME NEW s \in SUBSET DOMAIN items, s # {}
        PROVE  items[Max(s)] \in 1..n /\ s \ {Max(s)} \in SUBSET DOMAIN items
    BY <1>1, <1>7, LastPosition
  <1>8. Recurs(f)
    <2>1. f[{}] = start
      BY <1>6 DEF IsFold
    <2>2. ASSUME NEW s \in SUBSET DOMAIN items, s # {}
          PROVE  f[s] = ParseChar(row, f[s \ {Max(s)}], items[Max(s)])
      <3>1. f[s] = op[<<f[s \ {Max(s)}], items[Max(s)]>>] /\ f[s \ {Max(s)}] \in Reader
        BY <1>6, <1>7, <2>2 DEF IsFold
      <3> QED
        BY <1>3, <1>7, <2>2, <3>1
    <2> QED
      BY <2>1, <2>2
  <1>9. Recurs(fold)
    <2> HIDE DEF Recurs
    <2> QED
      BY <1>8
  <1>10. ParseCSVRow(row) = Append(fold[DOMAIN items].cols, Trim(fold[DOMAIN items].current))
    BY DEF ParseCSVRow, FoldLeft, MapThenFoldSet, items, start, At
  <1>11. IsFold(fold, Reader, start, op, items)
    <2> HIDE DEF fold
    <2>1. fold[{}] = start
      BY <1>9
    <2>2. ASSUME NEW s \in SUBSET DOMAIN items, s # {}, fold[s \ {Max(s)}] \in Reader
          PROVE  fold[s] = op[<<fold[s \ {Max(s)}], items[Max(s)]>>]
      <3>1. fold[s] = ParseChar(row, fold[s \ {Max(s)}], items[Max(s)])
        BY <1>9, <2>2
      <3> QED
        BY <1>3, <1>7, <2>2, <3>1
    <2> QED
      BY <2>1, <2>2 DEF IsFold
  <1>12. PICK P : Runs(P, Reader, start, op, items) /\ P[Len(items)] = fold[DOMAIN items]
    <2> HIDE DEF fold
    <2>1. Folding(fold, Reader, 1..n, start, op, items)
      BY <1>1, <1>2, <1>4, <1>11 DEF Folding
    <2> QED
      BY <2>1, FoldRuns
  <1> HIDE DEF fold
  <1>13. P \in [0..n -> Reader] /\ P[0] = start
    BY <1>1, <1>12 DEF Runs
  <1>14. ASSUME NEW i \in 1..n PROVE P[i] = ParseChar(row, P[i - 1], i)
    <2>1. P[i] = op[<<P[i - 1], items[i]>>]
      BY <1>1, <1>12 DEF Runs
    <2>2. i - 1 \in 0..n
      BY <1>1
    <2>3. P[i - 1] \in Reader
      BY <1>13, <2>2
    <2> QED
      BY <1>3, <1>5, <2>1, <2>3
  <1>15. Reading(P, row)
    BY <1>13, <1>14 DEF Reading, start
  <1> QED
    BY <1>1, <1>10, <1>12, <1>15

Kept(cols, current, inQuotes, skip) ==
  [cols |-> cols, current |-> current, inQuotes |-> inQuotes, skip |-> skip]

\* What the loop's body changes.
LEMMA ReaderChanges ==
  ASSUME NEW s \in Reader, NEW cols \in Seq(Column), NEW current \in Text, NEW inQuotes \in BOOLEAN
  PROVE  /\ [s EXCEPT !.current = current, !.skip = TRUE] = Kept(s.cols, current, s.inQuotes, TRUE)
         /\ [s EXCEPT !.cols = cols, !.current = current] = Kept(cols, current, s.inQuotes, s.skip)
         /\ [s EXCEPT !.inQuotes = inQuotes] = Kept(s.cols, s.current, inQuotes, s.skip)
         /\ [s EXCEPT !.current = current] = Kept(s.cols, current, s.inQuotes, s.skip)
         /\ [s EXCEPT !.skip = FALSE] = Kept(s.cols, s.current, s.inQuotes, FALSE)
  <1>1. \A t \in Reader : t = Kept(t.cols, t.current, t.inQuotes, t.skip)
    BY DEF Reader, Kept
  <1>2. [s EXCEPT !.current = current, !.skip = TRUE] = Kept(s.cols, current, s.inQuotes, TRUE)
    <2> DEFINE t == [s EXCEPT !.current = current, !.skip = TRUE]
    <2>1. /\ t \in Reader /\ t.cols = s.cols /\ t.current = current
          /\ t.inQuotes = s.inQuotes /\ t.skip = TRUE
      BY DEF Reader
    <2> HIDE DEF t
    <2>2. t = Kept(s.cols, current, s.inQuotes, TRUE)
      BY <1>1, <2>1
    <2> QED
      BY <2>2 DEF t
  <1>3. [s EXCEPT !.cols = cols, !.current = current] = Kept(cols, current, s.inQuotes, s.skip)
    <2> DEFINE t == [s EXCEPT !.cols = cols, !.current = current]
    <2>1. /\ t \in Reader /\ t.cols = cols /\ t.current = current
          /\ t.inQuotes = s.inQuotes /\ t.skip = s.skip
      BY DEF Reader
    <2> HIDE DEF t
    <2>2. t = Kept(cols, current, s.inQuotes, s.skip)
      BY <1>1, <2>1
    <2> QED
      BY <2>2 DEF t
  <1>4. [s EXCEPT !.inQuotes = inQuotes] = Kept(s.cols, s.current, inQuotes, s.skip)
    BY DEF Reader, Kept
  <1>5. [s EXCEPT !.current = current] = Kept(s.cols, current, s.inQuotes, s.skip)
    BY DEF Reader, Kept
  <1>6. [s EXCEPT !.skip = FALSE] = Kept(s.cols, s.current, s.inQuotes, FALSE)
    <2> DEFINE t == [s EXCEPT !.skip = FALSE]
    <2>1. /\ t \in Reader /\ t.cols = s.cols /\ t.current = s.current
          /\ t.inQuotes = s.inQuotes /\ t.skip = FALSE
      BY DEF Reader
    <2> HIDE DEF t
    <2>2. t = Kept(s.cols, s.current, s.inQuotes, FALSE)
      BY <1>1, <2>1
    <2> QED
      BY <2>2 DEF t
  <1> QED
    BY <1>2, <1>3, <1>4, <1>5, <1>6

\* One character more.
ReadNext(P, row, p, cols, current, inQuotes) ==
  LET c == row[p + 1] IN
  /\ c # "quote" /\ ~ (c = "comma" /\ ~ inQuotes)
       => P[p + 1] = At(cols, Append(current, c), inQuotes)
  /\ c = "comma" /\ ~ inQuotes
       => P[p + 1] = At(Append(cols, Trim(current)), <<>>, inQuotes)
  /\ c = "quote" /\ ~ DoubledQuote(row, p + 1, inQuotes)
       => P[p + 1] = At(cols, current, ~ inQuotes)
  /\ c = "quote" /\ DoubledQuote(row, p + 1, inQuotes)
       => P[p + 2] = At(cols, Append(current, "quote"), inQuotes)

LEMMA CharRead ==
  ASSUME NEW row \in Text, NEW P, Reading(P, row), NEW p \in Nat, p + 1 <= Len(row),
         NEW cols, NEW current, NEW inQuotes \in BOOLEAN, P[p] = At(cols, current, inQuotes)
  PROVE  ReadNext(P, row, p, cols, current, inQuotes)
  <1> DEFINE s == P[p]
             c == row[p + 1]
             doubled == DoubledQuote(row, p + 1, inQuotes)
             marked == Kept(cols, Append(current, "quote"), inQuotes, TRUE)
  <1>1. /\ Len(row) \in Nat /\ p \in 0..Len(row) /\ p + 1 \in 1..Len(row) /\ p + 1 - 1 = p
        /\ c \in Characters /\ "quote" \in Characters
    BY DEF Text, Characters
  <1>2. s \in Reader /\ P[p + 1] = ParseChar(row, s, p + 1)
    BY <1>1 DEF Reading
  <1>3. s.cols = cols /\ s.current = current /\ s.inQuotes = inQuotes /\ s.skip = FALSE
    BY DEF At
  <1> HIDE DEF s, doubled
  <1>4. cols \in Seq(Column) /\ current \in Text
    BY <1>2, <1>3 DEF Reader
  <1>5. /\ Append(current, "quote") \in Text /\ Append(current, c) \in Text /\ <<>> \in Text
        /\ Append(cols, Trim(current)) \in Seq(Column)
    <2>1. Trim(current) \in Column
      BY <1>4 DEF Column
    <2> QED
      BY <1>1, <1>4, <2>1 DEF Text
  <1>6. /\ [s EXCEPT !.current = Append(current, "quote"), !.skip = TRUE] = marked
        /\ [s EXCEPT !.cols = Append(cols, Trim(current)), !.current = <<>>]
             = At(Append(cols, Trim(current)), <<>>, inQuotes)
        /\ [s EXCEPT !.inQuotes = ~ inQuotes] = At(cols, current, ~ inQuotes)
        /\ [s EXCEPT !.current = Append(current, c)] = At(cols, Append(current, c), inQuotes)
    <2>1. (~ inQuotes) \in BOOLEAN
      OBVIOUS
    <2>2. \A a, b, d : At(a, b, d) = Kept(a, b, d, FALSE)
      BY DEF At, Kept
    <2>3. [s EXCEPT !.current = Append(current, "quote"), !.skip = TRUE] = marked
      BY <1>2, <1>3, <1>4, <1>5, ReaderChanges
    <2>4. [s EXCEPT !.cols = Append(cols, Trim(current)), !.current = <<>>]
            = Kept(Append(cols, Trim(current)), <<>>, inQuotes, FALSE)
      <3> DEFINE longer == Append(cols, Trim(current))  none == <<>>
      <3>1. longer \in Seq(Column) /\ none \in Text
        BY <1>5
      <3> HIDE DEF longer, none
      <3>2. [s EXCEPT !.cols = longer, !.current = none] = Kept(longer, none, s.inQuotes, s.skip)
        BY <1>2, <3>1, ReaderChanges
      <3> QED
        BY <1>3, <3>2 DEF longer, none
    <2>5. [s EXCEPT !.inQuotes = ~ inQuotes] = Kept(cols, current, ~ inQuotes, FALSE)
      BY <1>2, <1>3, <1>4, <2>1, ReaderChanges
    <2>6. [s EXCEPT !.current = Append(current, c)] = Kept(cols, Append(current, c), inQuotes, FALSE)
      <3> DEFINE longer == Append(current, c)
      <3>1. longer \in Text
        BY <1>5
      <3> HIDE DEF longer
      <3>2. [s EXCEPT !.current = longer] = Kept(s.cols, longer, s.inQuotes, s.skip)
        BY <1>2, <1>4, <3>1, ReaderChanges
      <3> QED
        BY <1>3, <3>2 DEF longer
    <2> HIDE DEF marked
    <2> QED
      BY <2>2, <2>3, <2>4, <2>5, <2>6
  <1>7. P[p + 1] = IF c = "quote"
                     THEN IF doubled THEN marked ELSE At(cols, current, ~ inQuotes)
                   ELSE IF c = "comma" /\ ~ inQuotes THEN At(Append(cols, Trim(current)), <<>>, inQuotes)
                   ELSE At(cols, Append(current, c), inQuotes)
    BY <1>2, <1>3, <1>6 DEF ParseChar, doubled
  <1>8. ASSUME c = "quote", doubled
        PROVE  P[p + 2] = At(cols, Append(current, "quote"), inQuotes)
    <2>1. p + 2 \in 1..Len(row) /\ p + 2 - 1 = p + 1 /\ p + 1 \in 0..Len(row)
      BY <1>1, <1>8 DEF DoubledQuote, doubled
    <2>2. P[p + 2] = ParseChar(row, P[p + 1], p + 2)
      BY <2>1 DEF Reading
    <2>3. P[p + 1] = marked
      BY <1>7, <1>8
    <2>4. marked \in Reader
      BY <1>4, <1>5 DEF Reader, Kept
    <2>5. /\ marked.skip = TRUE /\ marked.cols = cols /\ marked.inQuotes = inQuotes
          /\ marked.current = Append(current, "quote")
      BY DEF Kept
    <2> HIDE DEF marked
    <2>6. [marked EXCEPT !.skip = FALSE] = At(cols, Append(current, "quote"), inQuotes)
      BY <1>4, <1>5, <2>4, <2>5, ReaderChanges DEF Kept, At
    <2> QED
      BY <2>2, <2>3, <2>5, <2>6 DEF ParseChar
  <1> HIDE DEF marked
  <1> QED
    BY <1>7, <1>8 DEF ReadNext, doubled

LEMMA InPlaceWithin ==
  ASSUME NEW whole, NEW p, NEW mid, NEW q, NEW piece,
         Len(whole) \in Nat, Len(mid) \in Nat, Len(piece) \in Nat,
         InPlace(whole, p, mid), InPlace(mid, q, piece)
  PROVE  InPlace(whole, p + q, piece)
  <1>1. p \in Nat /\ q \in Nat /\ p + q \in Nat /\ p + q + Len(piece) <= Len(whole)
    BY DEF InPlace
  <1>2. ASSUME NEW j \in 1..Len(piece) PROVE whole[p + q + j] = piece[j]
    <2>1. q + j \in 1..Len(mid) /\ mid[q + j] = piece[j] /\ p + (q + j) = p + q + j
      BY <1>1 DEF InPlace
    <2>2. whole[p + (q + j)] = mid[q + j]
      BY <2>1 DEF InPlace
    <2> QED
      BY <2>1, <2>2
  <1> QED
    BY <1>1, <1>2 DEF InPlace

LEMMA LongerSubSeq ==
  ASSUME NEW text \in Text, NEW j \in Nat, j + 1 <= Len(text)
  PROVE  /\ SubSeq(text, 1, j + 1) = Append(SubSeq(text, 1, j), text[j + 1])
         /\ SubSeq(text, 1, 0) = <<>> /\ SubSeq(text, 1, Len(text)) = text
         /\ text[j + 1] \in Characters
  <1>1. text \in Seq(Characters) /\ Len(text) \in Nat
    BY DEF Text
  <1>2. 1 \in 1..Len(text) + 1 /\ j + 1 \in 1 - 1..Len(text) /\ j + 1 \in 1..Len(text) /\ j + 1 - 1 = j
    BY <1>1
  <1> QED
    BY <1>1, <1>2 DEF Text

\* The place where a field ends: at the end of the row or at a comma.
Ends(row, q) == q = Len(row) \/ row[q + 1] = "comma"

\* What is written after p, up to the end of a field, and what it is read as.
Readable(row, P, p, written, cols) ==
  /\ Reading(P, row) /\ InPlace(row, p, written) /\ Ends(row, p + Len(written))
  /\ P[p] = At(cols, <<>>, FALSE)

ReadAs(P, p, written, cols, field) == P[p + Len(written)] = At(cols, field, FALSE)

\* A field without quotes and commas is read as it is written.
LEMMA PlainRead ==
  ASSUME NEW row \in Text, NEW P, NEW p, NEW field \in Text, NEW cols, ~ Special(field),
         Readable(row, P, p, field, cols)
  PROVE  ReadAs(P, p, field, cols, field)
  <1> DEFINE n == Len(field)
             Read(j) == P[p + j] = At(cols, SubSeq(field, 1, j), FALSE)
             T == {j \in Nat : j <= n => Read(j)}
  <1>1. n \in Nat /\ Len(row) \in Nat /\ p \in Nat /\ p + n <= Len(row)
        /\ Reading(P, row) /\ InPlace(row, p, field) /\ P[p] = At(cols, <<>>, FALSE)
    BY DEF Readable, Text, InPlace
  <1>2. SubSeq(field, 1, 0) = <<>> /\ SubSeq(field, 1, n) = field
    BY DEF Text
  <1>3. Read(0) /\ (Read(n) => P[p + n] = At(cols, field, FALSE))
    <2>1. p + 0 = p
      BY <1>1
    <2> QED
      BY <1>1, <1>2, <2>1
  <1>4. ASSUME NEW j \in Nat, j + 1 <= n, Read(j) PROVE Read(j + 1)
    <2> DEFINE q == p + j
    <2>1. q \in Nat /\ q + 1 <= Len(row) /\ q + 1 = p + (j + 1) /\ j + 1 \in 1..n
      BY <1>1, <1>4
    <2>2. row[q + 1] = field[j + 1]
      BY <1>1, <2>1 DEF InPlace
    <2>3. field[j + 1] # "quote" /\ field[j + 1] # "comma"
      BY <2>1 DEF Special, Text
    <2>4. P[q] = At(cols, SubSeq(field, 1, j), FALSE)
      BY <1>4
    <2> HIDE DEF q
    <2>5. ReadNext(P, row, q, cols, SubSeq(field, 1, j), FALSE)
      BY <1>1, <2>1, <2>4, CharRead
    <2>6. P[q + 1] = At(cols, Append(SubSeq(field, 1, j), field[j + 1]), FALSE)
      BY <2>2, <2>3, <2>5 DEF ReadNext
    <2>7. SubSeq(field, 1, j + 1) = Append(SubSeq(field, 1, j), field[j + 1])
      BY <1>4, LongerSubSeq
    <2> QED
      BY <2>1, <2>6, <2>7
  <1> HIDE DEF Read
  <1>5. 0 \in T /\ \A j \in T : j + 1 \in T
    BY <1>1, <1>3, <1>4
  <1>6. n \in T
    <2> HIDE DEF T
    <2>1. T \in SUBSET Nat
      BY DEF T
    <2> QED
      BY <1>1, <1>5, <2>1, Induction
  <1>7. n <= n
    BY <1>1
  <1>8. Read(n)
    BY <1>6, <1>7
  <1> HIDE DEF T
  <1> QED
    BY <1>3, <1>8 DEF ReadAs

\* The characters at and after a quote of a field that is written by RFC 4180.
Pieces(field) ==
  [i \in DOMAIN field |-> IF field[i] = "quote" THEN <<"quote", "quote">> ELSE <<field[i]>>]

LEMMA PiecesAre ==
  ASSUME NEW field \in Text
  PROVE  /\ Pieces(field) \in Seq(Text) /\ Len(Pieces(field)) = Len(field)
         /\ \A i \in 1..Len(field) :
              Pieces(field)[i] = IF field[i] = "quote" THEN <<"quote", "quote">> ELSE <<field[i]>>
  <1>1. Len(field) \in Nat /\ DOMAIN field = 1..Len(field)
    BY DEF Text
  <1>2. ASSUME NEW i \in 1..Len(field)
        PROVE  (IF field[i] = "quote" THEN <<"quote", "quote">> ELSE <<field[i]>>) \in Text
    <2>1. field[i] \in Characters /\ "quote" \in Characters
      BY DEF Text, Characters
    <2>2. <<"quote", "quote">> \in Seq(Characters) /\ <<field[i]>> \in Seq(Characters)
      BY <2>1
    <2> QED
      BY <2>2 DEF Text
  <1> DEFINE piece(i) == IF field[i] = "quote" THEN <<"quote", "quote">> ELSE <<field[i]>>
  <1>3. \A i \in 1..Len(field) : piece(i) \in Text
    BY <1>2
  <1>4. Pieces(field) = [i \in 1..Len(field) |-> piece(i)]
    BY <1>1 DEF Pieces
  <1> HIDE DEF piece
  <1>5. /\ [i \in 1..Len(field) |-> piece(i)] \in Seq(Text)
        /\ Len([i \in 1..Len(field) |-> piece(i)]) = Len(field)
    BY <1>1, <1>3
  <1>6. \A i \in 1..Len(field) : [k \in 1..Len(field) |-> piece(k)][i] = piece(i)
    OBVIOUS
  <1> QED
    BY <1>4, <1>5, <1>6 DEF piece

Quoted(field) == <<"quote">> \o Doubled(field) \o <<"quote">>

LEMMA QuotedIs ==
  ASSUME NEW field \in Text
  PROVE  /\ Doubled(field) \in Text /\ Quoted(field) \in Text
         /\ Len(Quoted(field)) = Len(Doubled(field)) + 2
         /\ Quoted(field)[1] = "quote" /\ Quoted(field)[Len(Doubled(field)) + 2] = "quote"
         /\ InPlace(Quoted(field), 1, Doubled(field))
  <1>1. Doubled(field) = FlattenSeq(Pieces(field))
    BY DEF Doubled, Pieces
  <1>2. Doubled(field) \in Seq(Characters)
    <2>1. PICK J : /\ Joined(J, Characters, Pieces(field))
                   /\ FlattenSeq(Pieces(field)) = J[Len(Pieces(field))]
      BY PiecesAre, Flattened DEF Text
    <2>2. Len(Pieces(field)) \in 0..Len(Pieces(field))
      BY PiecesAre DEF Text
    <2>3. J \in [0..Len(Pieces(field)) -> Seq(Characters)]
      BY <2>1 DEF Joined
    <2> QED
      BY <1>1, <2>1, <2>2, <2>3
  <1> DEFINE text == Doubled(field)
             mark == <<"quote">>
             front == mark \o text
  <1>3. mark \in Seq(Characters) /\ Len(mark) = 1 /\ mark[1] = "quote"
    BY DEF Characters
  <1> HIDE DEF text, mark
  <1>4. text \in Seq(Characters)
    BY <1>2 DEF text
  <1>5. Joint(Characters, mark, text, front)
    BY <1>3, <1>4, ConcatIsJoint
  <1> HIDE DEF front
  <1> DEFINE all == front \o mark
  <1>6. Joint(Characters, front, mark, all)
    <2>1. front \in Seq(Characters)
      BY <1>5 DEF Joint
    <2> QED
      BY <1>3, <2>1, ConcatIsJoint
  <1>7. all = Quoted(field)
    BY DEF Quoted, front, mark, text
  <1> HIDE DEF all
  <1>8. /\ Len(text) \in Nat /\ Len(front) = 1 + Len(text) /\ Len(all) = Len(text) + 2
        /\ all \in Seq(Characters) /\ \A j \in 1..1 + Len(text) : all[j] = front[j]
    BY <1>3, <1>5, <1>6 DEF Joint
  <1>9. all[1] = "quote" /\ all[Len(text) + 2] = "quote"
    <2>1. front[1] = "quote" /\ 1 \in 1..1 + Len(text) /\ all[Len(front) + 1] = "quote"
      BY <1>3, <1>5, <1>6, <1>8 DEF Joint
    <2>2. Len(front) + 1 = Len(text) + 2
      BY <1>8
    <2> QED
      BY <1>8, <2>1, <2>2
  <1>10. InPlace(all, 1, text)
    <2>1. ASSUME NEW j \in 1..Len(text) PROVE all[1 + j] = text[j]
      <3>1. 1 + j \in 1..1 + Len(text) /\ front[1 + j] = text[j]
        BY <1>3, <1>5, <1>8 DEF Joint
      <3> QED
        BY <1>8, <3>1
    <2> QED
      BY <1>8, <2>1 DEF InPlace
  <1>11. text \in Text /\ all \in Text
    BY <1>4, <1>8 DEF Text
  <1> QED
    BY <1>7, <1>8, <1>9, <1>10, <1>11 DEF text

\* A field in quotes is read as it was before its quotes were doubled.
LEMMA QuotedRead ==
  ASSUME NEW row \in Text, NEW P, NEW p, NEW field \in Text, NEW cols,
         Readable(row, P, p, Quoted(field), cols)
  PROVE  ReadAs(P, p, Quoted(field), cols, field)
  <1> DEFINE n == Len(field)
             text == Doubled(field)
             seqs == Pieces(field)
  <1>0. /\ Reading(P, row) /\ InPlace(row, p, Quoted(field))
        /\ Ends(row, p + Len(Quoted(field))) /\ P[p] = At(cols, <<>>, FALSE)
    BY DEF Readable
  <1>1. /\ n \in Nat /\ Len(row) \in Nat /\ p \in Nat /\ Len(text) \in Nat
        /\ Len(Quoted(field)) = Len(text) + 2 /\ p + (Len(text) + 2) <= Len(row)
    BY <1>0, QuotedIs DEF Text, InPlace
  <1>2. row[p + 1] = "quote" /\ row[p + 1 + Len(text) + 1] = "quote"
    <2>1. /\ 1 \in 1..Len(Quoted(field)) /\ Len(text) + 2 \in 1..Len(Quoted(field))
          /\ p + (Len(text) + 2) = p + 1 + Len(text) + 1
      BY <1>1
    <2>2. row[p + 1] = Quoted(field)[1] /\ row[p + (Len(text) + 2)] = Quoted(field)[Len(text) + 2]
      BY <1>0, <1>1, <2>1 DEF InPlace
    <2> QED
      BY <2>1, <2>2, QuotedIs
  <1>3. PICK J : Joined(J, Characters, seqs) /\ text = J[n]
    <2>1. text = FlattenSeq(seqs) /\ seqs \in Seq(Seq(Characters)) /\ Len(seqs) = n
      BY PiecesAre DEF Doubled, Pieces, Text
    <2> HIDE DEF seqs, text
    <2> QED
      BY <2>1, Flattened
  <1>4. /\ Len(seqs) = n /\ seqs \in Seq(Seq(Characters))
        /\ \A i \in 1..n : seqs[i] = IF field[i] = "quote" THEN <<"quote", "quote">> ELSE <<field[i]>>
    BY PiecesAre DEF Text
  <1>5. InPlace(row, p + 1, text)
    <2>1. InPlace(Quoted(field), 1, text) /\ Len(Quoted(field)) \in Nat
      BY <1>1, QuotedIs
    <2> HIDE DEF text
    <2> QED
      BY <1>0, <1>1, <2>1, InPlaceWithin
  <1> HIDE DEF text, seqs
  <1> DEFINE Read(k) == /\ Len(J[k]) \in Nat
                        /\ P[p + 1 + Len(J[k])] = At(cols, SubSeq(field, 1, k), TRUE)
             T == {k \in Nat : k <= n => Read(k)}
  <1>6. SubSeq(field, 1, 0) = <<>> /\ SubSeq(field, 1, n) = field
    BY DEF Text
  <1>7. Read(0)
    <2>1. Len(J[0]) = 0 /\ p + 1 + 0 = p + 1
      BY <1>1, <1>3 DEF Joined
    <2>2. p + 1 <= Len(row)
      BY <1>1
    <2>3. ReadNext(P, row, p, cols, <<>>, FALSE)
      BY <1>0, <1>1, <2>2, CharRead
    <2>4. P[p + 1] = At(cols, <<>>, TRUE)
      BY <1>2, <2>3 DEF ReadNext, DoubledQuote
    <2>5. P[p + 1 + Len(J[0])] = At(cols, SubSeq(field, 1, 0), TRUE)
      BY <1>6, <2>1, <2>4
    <2> QED
      BY <2>1, <2>5
  <1>8. ASSUME NEW k \in Nat, k + 1 <= n, Read(k) PROVE Read(k + 1)
    <2> DEFINE q == p + 1 + Len(J[k])
               piece == seqs[k + 1]
               sofar == SubSeq(field, 1, k)
               c == field[k + 1]
    <2>1. k + 1 \in 1..n /\ k + 1 - 1 = k
      BY <1>1, <1>8
    <2>2. Joint(Characters, J[k + 1 - 1], piece, J[k + 1]) /\ InPlace(J[n], Len(J[k + 1 - 1]), piece)
      BY <1>3, <1>4, <2>1, JointIs, PieceInPlace
    <2>3. /\ Joint(Characters, J[k], piece, J[k + 1]) /\ InPlace(text, Len(J[k]), piece)
          /\ Len(piece) \in Nat /\ Len(J[k + 1]) = Len(J[k]) + Len(piece) /\ Len(J[k]) \in Nat
      BY <1>3, <2>1, <2>2 DEF Joint
    <2>4. InPlace(row, q, piece)
      BY <1>1, <1>5, <2>3, InPlaceWithin
    <2>5. SubSeq(field, 1, k + 1) = Append(sofar, c)
      BY <1>8, LongerSubSeq
    <2>6. /\ q \in Nat /\ P[q] = At(cols, sofar, TRUE)
          /\ Len(J[k + 1]) \in Nat /\ p + 1 + Len(J[k + 1]) = q + Len(piece)
      <3>1. P[q] = At(cols, sofar, TRUE)
        BY <1>8
      <3> HIDE DEF piece, sofar
      <3>2. Len(J[k + 1]) \in Nat /\ q \in Nat /\ p + 1 + Len(J[k + 1]) = q + Len(piece)
        <4> DEFINE before == Len(J[k])  after == Len(J[k + 1])  size == Len(piece)
        <4>1. before \in Nat /\ size \in Nat /\ after = before + size /\ p \in Nat
          BY <1>1, <2>3
        <4> HIDE DEF before, after, size
        <4>2. after \in Nat /\ p + 1 + before \in Nat /\ p + 1 + after = p + 1 + before + size
          BY <4>1
        <4> QED
          BY <4>2 DEF before, after, size
      <3> HIDE DEF q
      <3> QED
        BY <3>1, <3>2
    <2>7. piece = IF c = "quote" THEN <<"quote", "quote">> ELSE <<c>>
      BY <1>4, <2>1
    <2> HIDE DEF q, piece, sofar, c
    <2>8. CASE c = "quote"
      <3>1. piece = <<"quote", "quote">>
        BY <2>7, <2>8
      <3>2. Len(piece) = 2 /\ piece[1] = "quote" /\ piece[2] = "quote"
        BY <3>1
      <3>3. q + 1 <= Len(row) /\ q + 2 <= Len(row) /\ row[q + 1] = "quote" /\ row[q + 2] = "quote"
        BY <1>1, <2>4, <3>2 DEF InPlace
      <3>4. ReadNext(P, row, q, cols, sofar, TRUE)
        BY <1>0, <1>1, <2>6, <3>3, CharRead
      <3>5. DoubledQuote(row, q + 1, TRUE)
        BY <1>1, <2>6, <3>3 DEF DoubledQuote
      <3>6. P[q + 2] = At(cols, Append(sofar, "quote"), TRUE)
        BY <3>3, <3>4, <3>5 DEF ReadNext
      <3> QED
        BY <2>5, <2>6, <2>8, <3>2, <3>6
    <2>9. CASE c # "quote"
      <3>1. piece = <<c>>
        BY <2>7, <2>9
      <3>2. Len(piece) = 1 /\ piece[1] = c
        BY <3>1
      <3>3. q + 1 <= Len(row) /\ row[q + 1] = c
        BY <2>4, <3>2 DEF InPlace
      <3>4. ReadNext(P, row, q, cols, sofar, TRUE)
        BY <1>0, <1>1, <2>6, <3>3, CharRead
      <3>5. P[q + 1] = At(cols, Append(sofar, c), TRUE)
        BY <2>9, <3>3, <3>4 DEF ReadNext
      <3> QED
        BY <2>5, <2>6, <3>2, <3>5
    <2> QED
      BY <2>8, <2>9
  <1> HIDE DEF Read
  <1>9. Read(n)
    <2>1. 0 \in T /\ \A k \in T : k + 1 \in T
      BY <1>1, <1>7, <1>8
    <2>2. n \in T
      <3> HIDE DEF T
      <3>1. T \in SUBSET Nat
        BY DEF T
      <3> QED
        BY <1>1, <2>1, <3>1, Induction
    <2>3. n <= n
      BY <1>1
    <2> QED
      BY <2>2, <2>3
  <1> DEFINE q == p + 1 + Len(text)
  <1>10. P[q] = At(cols, field, TRUE)
    BY <1>3, <1>6, <1>9 DEF Read
  <1>11. /\ q \in Nat /\ q + 1 <= Len(row) /\ row[q + 1] = "quote"
         /\ q + 1 = p + Len(Quoted(field))
    BY <1>1, <1>2
  <1> HIDE DEF q
  <1>12. ~ DoubledQuote(row, q + 1, TRUE)
    BY <1>0, <1>11 DEF Ends, DoubledQuote
  <1>13. ReadNext(P, row, q, cols, field, TRUE)
    BY <1>0, <1>10, <1>11, CharRead
  <1>14. P[q + 1] = At(cols, field, ~ TRUE)
    BY <1>11, <1>12, <1>13 DEF ReadNext
  <1> QED
    BY <1>11, <1>14 DEF ReadAs

LEMMA WrittenRead ==
  ASSUME NEW row \in Text, NEW P, NEW p, NEW field \in Text, NEW cols,
         Readable(row, P, p, Written(field), cols)
  PROVE  ReadAs(P, p, Written(field), cols, field)
  <1>1. CASE Special(field)
    <2>1. Written(field) = Quoted(field)
      BY <1>1 DEF Written, Quoted
    <2> QED
      BY <2>1, QuotedRead
  <1>2. CASE ~ Special(field)
    <2>1. Written(field) = field
      BY <1>2 DEF Written
    <2> QED
      BY <1>2, <2>1, PlainRead
  <1> QED
    BY <1>1, <1>2

LEMMA WrittenIsText ==
  ASSUME NEW field \in Text
  PROVE  Written(field) \in Text
BY QuotedIs DEF Written, Quoted

\* The fields of a row as they are written, with the comma before each but the first.
RowPieces ==
  [i \in DOMAIN fields |->
     IF i = 1 THEN Written(fields[i]) ELSE <<"comma">> \o Written(fields[i])]

CsvInv == fields \in Seq(Text) /\ fields # <<>>

LEMMA RowPiecesAre ==
  ASSUME CsvInv
  PROVE  /\ RowPieces \in Seq(Text) /\ Len(RowPieces) = Len(fields) /\ Len(fields) \in Nat
         /\ \A i \in 1..Len(fields) : fields[i] \in Text
         /\ RowPieces[1] = Written(fields[1])
         /\ \A i \in 2..Len(fields) :
              Joint(Characters, <<"comma">>, Written(fields[i]), RowPieces[i])
  <1> DEFINE column(i) == IF i = 1 THEN Written(fields[i]) ELSE <<"comma">> \o Written(fields[i])
  <1>1. /\ Len(fields) \in Nat /\ 1 \in 1..Len(fields) /\ DOMAIN fields = 1..Len(fields)
        /\ \A i \in 1..Len(fields) : fields[i] \in Text
    BY DEF CsvInv
  <1>2. <<"comma">> \in Seq(Characters)
    BY DEF Characters
  <1>3. ASSUME NEW i \in 1..Len(fields)
        PROVE  /\ Written(fields[i]) \in Seq(Characters)
               /\ Joint(Characters, <<"comma">>, Written(fields[i]), <<"comma">> \o Written(fields[i]))
    <2>1. Written(fields[i]) \in Seq(Characters)
      BY <1>1, WrittenIsText DEF Text
    <2> QED
      BY <1>2, <2>1, ConcatIsJoint
  <1>4. \A i \in 1..Len(fields) : column(i) \in Text
    BY <1>3 DEF Joint, Text
  <1>5. RowPieces = [i \in 1..Len(fields) |-> column(i)]
    BY <1>1 DEF RowPieces
  <1>6. column(1) = Written(fields[1])
    OBVIOUS
  <1>7. \A i \in 2..Len(fields) : Joint(Characters, <<"comma">>, Written(fields[i]), column(i))
    BY <1>1, <1>3
  <1> HIDE DEF column
  <1>8. /\ [i \in 1..Len(fields) |-> column(i)] \in Seq(Text)
        /\ Len([i \in 1..Len(fields) |-> column(i)]) = Len(fields)
    BY <1>1, <1>4
  <1>9. \A i \in 1..Len(fields) : RowPieces[i] = column(i)
    BY <1>5
  <1>10. \A i \in 2..Len(fields) : Joint(Characters, <<"comma">>, Written(fields[i]), RowPieces[i])
    BY <1>1, <1>7, <1>9
  <1> QED
    BY <1>1, <1>5, <1>6, <1>8, <1>9, <1>10

\* A row is read field by field, and after the last one nothing is left.
LEMMA RowRead ==
  ASSUME CsvInv
  PROVE  RowReadBack
  <1> DEFINE n == Len(fields)
             row == Row
             Taken(k) == [i \in 1..k |-> Trim(fields[i])]
  <1>1. /\ n \in Nat /\ n > 0 /\ Len(RowPieces) = n /\ RowPieces \in Seq(Seq(Characters))
        /\ \A i \in 1..n : fields[i] \in Text
    BY RowPiecesAre DEF CsvInv, Text
  <1>2. PICK J : Joined(J, Characters, RowPieces) /\ row = J[n]
    <2>1. row = FlattenSeq(RowPieces)
      BY DEF Row, RowPieces
    <2> HIDE DEF row
    <2> QED
      BY <1>1, <2>1, Flattened
  <1> HIDE DEF row
  <1>3. row \in Text /\ Len(row) \in Nat
    <2>1. J \in [0..n -> Seq(Characters)] /\ n \in 0..n
      BY <1>1, <1>2 DEF Joined
    <2> QED
      BY <1>2, <2>1 DEF Text
  <1>4. PICK P : /\ Reading(P, row)
                 /\ ParseCSVRow(row) = Append(P[Len(row)].cols, Trim(P[Len(row)].current))
    BY <1>3, RowIsRead
  <1> DEFINE Placed(k) == /\ InPlace(row, Len(J[k]), RowPieces[k + 1]) /\ Len(RowPieces[k + 1]) \in Nat
                          /\ Len(J[k + 1]) = Len(J[k]) + Len(RowPieces[k + 1]) /\ Len(J[k]) \in Nat
             Parted(k) == /\ row[Len(J[k]) + 1] = "comma" /\ Len(J[k]) + 1 <= Len(row)
                          /\ InPlace(row, Len(J[k]) + 1, Written(fields[k + 1]))
                          /\ Len(J[k + 1]) = Len(J[k]) + 1 + Len(Written(fields[k + 1]))
  <1>5. ASSUME NEW k \in 0..(n - 1) PROVE Placed(k)
    <2>1. k + 1 \in 1..Len(RowPieces) /\ k + 1 - 1 = k
      BY <1>1
    <2>2. /\ Joint(Characters, J[k + 1 - 1], RowPieces[k + 1], J[k + 1])
          /\ InPlace(J[n], Len(J[k + 1 - 1]), RowPieces[k + 1])
      BY <1>1, <1>2, <2>1, JointIs, PieceInPlace
    <2>3. /\ Joint(Characters, J[k], RowPieces[k + 1], J[k + 1])
          /\ InPlace(row, Len(J[k]), RowPieces[k + 1])
      BY <1>2, <2>1, <2>2
    <2> QED
      BY <2>3 DEF Joint
  <1>6. ASSUME NEW k \in 1..(n - 1) PROVE Parted(k)
    <2> DEFINE column == RowPieces[k + 1]  written == Written(fields[k + 1])  p == Len(J[k])
    <2>1. k \in 0..(n - 1) /\ k + 1 \in 2..n
      BY <1>1
    <2>2. InPlace(row, p, column) /\ p \in Nat /\ Len(J[k + 1]) = p + Len(column)
      BY <1>5, <2>1
    <2>3. Joint(Characters, <<"comma">>, written, column)
      BY <2>1, RowPiecesAre
    <2> HIDE DEF column, written, p
    <2>4. /\ Len(written) \in Nat /\ Len(column) = 1 + Len(written) /\ column[1] = "comma"
          /\ InPlace(column, 1, written)
      BY <2>3 DEF Joint, InPlace
    <2>5. row[p + 1] = "comma" /\ p + 1 <= Len(row)
      BY <1>3, <2>2, <2>4 DEF InPlace
    <2>6. InPlace(row, p + 1, written)
      BY <1>3, <2>2, <2>4, InPlaceWithin
    <2>7. Len(J[k + 1]) = p + 1 + Len(written)
      BY <2>2, <2>4
    <2> QED
      BY <2>5, <2>6, <2>7 DEF written, p
  <1> HIDE DEF Placed, Parted
  <1>7. ASSUME NEW k \in 1..n PROVE Ends(row, Len(J[k]))
    <2>1. CASE k = n
      BY <1>2, <2>1 DEF Ends
    <2>2. CASE k # n
      <3>1. k \in 1..(n - 1)
        BY <1>1, <2>2
      <3>2. Parted(k)
        BY <1>6, <3>1
      <3> QED
        BY <3>2 DEF Ends, Parted
    <2> QED
      BY <2>1, <2>2
  <1> DEFINE Read(k) == P[Len(J[k])] = At(Taken(k - 1), fields[k], FALSE)
             T == {k \in Nat : 1 <= k /\ k <= n => Read(k)}
  <1>8. ASSUME NEW k \in Nat, k + 1 <= n, k = 0 \/ Read(k) PROVE Read(k + 1)
    <2> DEFINE field == fields[k + 1]
    <2>1. k + 1 \in 1..n /\ k + 1 - 1 = k /\ field \in Text /\ Ends(row, Len(J[k + 1]))
      BY <1>1, <1>7, <1>8
    <2> HIDE DEF field
    <2>2. CASE k = 0
      <3>1. Len(J[0]) = 0 /\ P[0] = At(<<>>, <<>>, FALSE)
        BY <1>2, <1>4 DEF Joined, Reading
      <3>2. /\ InPlace(row, 0, Written(field)) /\ Len(J[1]) = 0 + Len(Written(field))
            /\ Len(Written(field)) \in Nat
        <4>1. 0 \in 0..(n - 1) /\ RowPieces[1] = Written(field) /\ 0 + 1 = 1
          BY <1>1, <2>2, RowPiecesAre DEF field
        <4>2. Placed(0)
          BY <1>5, <4>1
        <4> QED
          BY <3>1, <4>1, <4>2 DEF Placed
      <3>3. Readable(row, P, 0, Written(field), <<>>)
        BY <1>4, <2>1, <2>2, <3>1, <3>2 DEF Readable
      <3>4. ReadAs(P, 0, Written(field), <<>>, field)
        BY <1>3, <2>1, <3>3, WrittenRead
      <3>5. Taken(0) = <<>>
        BY DEF Taken
      <3> QED
        <4>1. k + 1 = 1 /\ k + 1 - 1 = 0
          BY <2>2
        <4>2. P[Len(J[1])] = At(Taken(0), field, FALSE)
          BY <3>2, <3>4, <3>5 DEF ReadAs
        <4> HIDE DEF Taken
        <4>3. J[k + 1] = J[1] /\ Taken(k + 1 - 1) = Taken(0)
          BY <4>1
        <4>4. P[Len(J[k + 1])] = At(Taken(k + 1 - 1), field, FALSE)
          BY <4>2, <4>3
        <4> QED
          BY <4>4 DEF field
    <2>3. CASE k # 0
      <3> DEFINE p == Len(J[k])
      <3>1. P[p] = At(Taken(k - 1), fields[k], FALSE) /\ p \in Nat
        <4>1. k \in 0..(n - 1)
          BY <1>1, <1>8
        <4>2. Placed(k)
          BY <1>5, <4>1
        <4> QED
          BY <1>8, <2>3, <4>2 DEF Placed
      <3>2. /\ row[p + 1] = "comma" /\ p + 1 <= Len(row)
            /\ InPlace(row, p + 1, Written(field)) /\ Len(J[k + 1]) = p + 1 + Len(Written(field))
        <4>1. k \in 1..(n - 1)
          BY <1>1, <1>8, <2>3
        <4>2. Parted(k)
          BY <1>6, <4>1
        <4> QED
          BY <4>2 DEF Parted, field
      <3> HIDE DEF p, Taken
      <3>3. ReadNext(P, row, p, Taken(k - 1), fields[k], FALSE)
        BY <1>3, <1>4, <3>1, <3>2, CharRead
      <3>4. P[p + 1] = At(Append(Taken(k - 1), Trim(fields[k])), <<>>, FALSE)
        BY <3>2, <3>3 DEF ReadNext
      <3>5. Append(Taken(k - 1), Trim(fields[k])) = Taken(k)
        BY <2>3 DEF Taken
      <3>6. P[p + 1] = At(Taken(k), <<>>, FALSE) /\ Ends(row, p + 1 + Len(Written(field)))
        BY <2>1, <3>2, <3>4, <3>5
      <3>7. Readable(row, P, p + 1, Written(field), Taken(k))
        BY <1>4, <3>2, <3>6 DEF Readable
      <3>8. ReadAs(P, p + 1, Written(field), Taken(k), field)
        BY <1>3, <2>1, <3>7, WrittenRead
      <3>9. P[Len(J[k + 1])] = At(Taken(k), field, FALSE)
        BY <3>2, <3>8 DEF ReadAs
      <3> QED
        BY <2>1, <3>9 DEF field
    <2> QED
      BY <2>2, <2>3
  <1> HIDE DEF Read
  <1>9. Read(n)
    <2>1. 0 \in T /\ \A k \in T : k + 1 \in T
      BY <1>1, <1>8
    <2>2. n \in T
      <3> HIDE DEF T
      <3>1. T \in SUBSET Nat
        BY DEF T
      <3> QED
        BY <1>1, <2>1, <3>1, Induction
    <2>3. n <= n /\ 1 <= n
      BY <1>1
    <2> QED
      BY <2>2, <2>3
  <1>10. ParseCSVRow(row) = Append(Taken(n - 1), Trim(fields[n]))
    <2>1. P[Len(row)] = At(Taken(n - 1), fields[n], FALSE)
      BY <1>2, <1>9 DEF Read
    <2> HIDE DEF Taken
    <2>2. P[Len(row)].cols = Taken(n - 1) /\ P[Len(row)].current = fields[n]
      BY <2>1 DEF At
    <2> QED
      BY <1>4, <2>2
  <1>11. Append(Taken(n - 1), Trim(fields[n])) = Taken(n)
    BY <1>1
  <1>12. Taken(n) = [i \in DOMAIN fields |-> Trim(fields[i])]
    BY DEF CsvInv
  <1> QED
    BY <1>10, <1>11, <1>12 DEF RowReadBack, row

LEMMA CsvInvariant == CsvSpec => []CsvInv
  <1>1. CsvInit => CsvInv
    BY DEF CsvInit, CsvInv, Text
  <1>2. CsvInv /\ [CsvGrow]_fields => CsvInv'
    <2> SUFFICES ASSUME CsvInv, [CsvGrow]_fields PROVE CsvInv'
      OBVIOUS
    <2>1. fields \in Seq(Text) /\ Len(fields) \in 1..Len(fields) /\ fields[Len(fields)] \in Text
      BY DEF CsvInv
    <2>2. ASSUME NEW c \in Characters, fields' = [fields EXCEPT ![Len(fields)] = Append(@, c)]
          PROVE  CsvInv'
      <3>1. Append(fields[Len(fields)], c) \in Text
        BY <2>1 DEF Text
      <3> QED
        BY <2>1, <2>2, <3>1 DEF CsvInv
    <2>3. CASE fields' = Append(fields, <<>>)
      BY <2>1, <2>3 DEF CsvInv, Text
    <2>4. CASE UNCHANGED fields
      BY <2>4 DEF CsvInv
    <2> QED
      BY <2>2, <2>3, <2>4 DEF CsvGrow
  <1> QED
    BY <1>1, <1>2, PTL DEF CsvSpec

\* What a caller writes by RFC 4180 parseCSVRow reads as it was, for rows of any
\* number of fields of any length, with quotes and commas anywhere.
THEOREM EveryRowReadBack == CsvSpec => []RowReadBack
BY CsvInvariant, RowRead, PTL

=============================================================================
