-------------------------- MODULE DocumentService --------------------------
(***************************************************************************)
(* The document service (document-service/index.ts): a request is          *)
(* validated, its blocks are laid out on pages, and the PDF is counted and *)
(* answered.                                                               *)
(*                                                                         *)
(* Heights are those of the code, in whole points.  What PDFKit does is    *)
(* modelled by the rule the service relies on: a line of a text that would *)
(* end below the margin starts a new page.  The words are left out; of a   *)
(* text only its lines matter, of a table those of its name and how many   *)
(* rows and columns it has.  A cell is drawn with lineBreak: false, so it  *)
(* is one line.  How a row is read is in Csv.                              *)
(*                                                                         *)
(* A definition followed by its namesake (FitsAlmost before Fits) is a     *)
(* mutation of it, used only to see that a property would notice it.       *)
(***************************************************************************)
EXTENDS Integers, Sequences

CONSTANTS
  LineCounts,  \* numbers of lines of a text
  NameLines,   \* of the name of a table: 0 is a table without a name
  CellCounts,  \* numbers of columns of a table
  RowCounts,   \* numbers of rows of a table
  MaxBlocks    \* bound of the blocks of a request

ASSUME DocumentAssumption ==
  /\ LineCounts \subseteq Nat /\ NameLines \subseteq Nat
  /\ CellCounts \subseteq Nat \ {0} /\ RowCounts \subseteq Nat
  /\ MaxBlocks \in Nat

\* A page, and the lines of a table.
Top          == 50
MaxY         == 732
PageBottom   == 722
RowHeight    == 18
HeaderHeight == 20
LineHeight   == 11
AfterName    == 4
AfterText    == 7
AfterTable   == 12

VARIABLES
  stage,     \* of the request
  todo,      \* blocks still to be rendered
  page, y,   \* where the next block begins: doc.y
  rowsLeft,  \* rows of the table still to be drawn
  segments,  \* of the table: page, startY and rowCount
  placed,    \* where the rows of the table are
  footer,    \* the last footer collected
  generated  \* documentsGenerated

documentVars == <<stage, todo, page, y, rowsLeft, segments, placed, footer, generated>>
tableVars    == <<rowsLeft, segments, placed>>

-----------------------------------------------------------------------------
(* Validation *)

\* size: the lines of a text, the rows of a table.  Odd: not exactly one key
\* that is known, a value of another type, a table without headers, or a row
\* whose columns are not as many as the headers.
Blocks ==
  [kind : {"text"}, size : LineCounts, name : {0}, cells : {0}]
    \cup [kind : {"table"}, size : RowCounts, name : NameLines, cells : CellCounts]
    \cup [kind : {"footer", "odd", "null"}, size : {0}, name : {0}, cells : {0}]

\* The blocks are gone through in order; a null among them throws.
Verdict(blocks) ==
  LET bad == {i \in DOMAIN blocks : blocks[i].kind \in {"odd", "null"}}
  IN  IF blocks = <<>> THEN "refused"
      ELSE IF bad = {} THEN "header"
      ELSE LET first == CHOOSE i \in bad : \A j \in bad : i <= j
           IN  IF blocks[first].kind = "null" THEN "thrown" ELSE "refused"

\* known: the body is JSON, its caller may ask, and it has a title.
ValidateRequest(known, blocks) ==
  /\ stage = "idle"
  /\ stage' = IF known THEN Verdict(blocks) ELSE "refused"
  /\ todo' = IF stage' = "header" THEN blocks ELSE <<>>
  /\ UNCHANGED <<page, y, tableVars, footer, generated>>

-----------------------------------------------------------------------------
(* renderPDF *)

\* Title, heading and sub-heading, and the line below them.
RenderTitle ==
  /\ stage = "header"
  /\ page' = 1
  /\ y' \in {Top + 40, Top + 80}
  /\ stage' = "blocks"
  /\ UNCHANGED <<todo, tableVars, footer, generated>>

\* PDFKit: a line goes to a new page if it does not fit.
Wraps(at) == at + LineHeight > MaxY

\* The lines that fit below.
Room(at) == (MaxY - at) \div LineHeight

\* PDFKit: where a text of so many lines ends, however many pages it takes.
TextEnd(from, at, lines) ==
  LET first == IF Wraps(at) THEN from + 1 ELSE from
      start == IF Wraps(at) THEN Top ELSE at
      over  == lines - Room(start)
  IN  IF over <= 0
        THEN [page |-> first, y |-> start + lines * LineHeight]
        ELSE [page |-> first + 1 + ((over - 1) \div Room(Top)),
              y    |-> Top + (1 + ((over - 1) % Room(Top))) * LineHeight]

RenderText ==
  /\ stage = "blocks" /\ todo # <<>> /\ Head(todo).kind = "text"
  /\ LET end == TextEnd(page, y, Head(todo).size)
     IN  page' = end.page /\ y' = end.y + AfterText
  /\ todo' = Tail(todo)
  /\ UNCHANGED <<stage, tableVars, footer, generated>>

CollectFooter ==
  /\ stage = "blocks" /\ todo # <<>> /\ Head(todo).kind = "footer"
  /\ footer' = TRUE
  /\ todo' = Tail(todo)
  /\ UNCHANGED <<stage, page, y, tableVars, generated>>

\* Where the header of a table is drawn: below its name, if it has one.
HeaderPlace(table) ==
  IF table.name = 0 THEN [page |-> page, y |-> y]
  ELSE LET end == TextEnd(page, y, table.name)
       IN  [end EXCEPT !.y = @ + AfterName]

\* The header begins wherever the block before it, or the name, has ended: one
\* whose text does not fit takes a page for each cell.
BeginTable ==
  /\ stage = "blocks" /\ todo # <<>> /\ Head(todo).kind = "table"
  /\ LET top    == HeaderPlace(Head(todo))
         pageOf == IF Wraps(top.y + 5) THEN top.page + Head(todo).cells ELSE top.page
     IN  /\ page' = pageOf
         /\ segments' = <<[page |-> pageOf, startY |-> top.y, rowCount |-> 0]>>
         /\ y' = top.y + HeaderHeight
  /\ rowsLeft' = Head(todo).size
  /\ placed' = <<>>
  /\ stage' = "rows"
  /\ UNCHANGED <<todo, footer, generated>>

FitsAlmost(at) == at <= PageBottom

\* The row does not need a new page.
Fits(at) == at + RowHeight <= PageBottom

\* Where the rows go on a new page, below the header drawn again.
AfterBreak == Top + HeaderHeight

\* The segment with one row more.
Counted(counted) ==
  [counted EXCEPT ![Len(counted)].rowCount = @ + 1]

\* y is currentY while a table is drawn.
RenderRow ==
  /\ stage = "rows" /\ rowsLeft > 0
  /\ LET onPage == IF Fits(y) THEN page ELSE page + 1
         at     == IF Fits(y) THEN y ELSE AfterBreak
         parts  == IF Fits(y) THEN segments
                   ELSE Append(segments, [page |-> onPage, startY |-> Top, rowCount |-> 0])
     IN  /\ page' = onPage
         /\ placed' = Append(placed, [page |-> onPage, y |-> at])
         /\ segments' = Counted(parts)
         /\ y' = at + RowHeight
  /\ rowsLeft' = rowsLeft - 1
  /\ UNCHANGED <<stage, todo, footer, generated>>

EndTable ==
  /\ stage = "rows" /\ rowsLeft = 0
  /\ y' = y + AfterTable
  /\ stage' = "blocks" /\ todo' = Tail(todo)
  /\ UNCHANGED <<page, tableVars, footer, generated>>

\* Both texts begin below the last line that fits: each takes a page of its own.
RenderFooter ==
  /\ stage = "blocks" /\ todo = <<>>
  /\ page' = page + (IF footer THEN 1 ELSE 0) + 1
  /\ stage' = "rendered"
  /\ UNCHANGED <<todo, y, tableVars, footer, generated>>

-----------------------------------------------------------------------------
(* The server *)

Answer ==
  /\ stage = "rendered"
  /\ generated' = generated + 1
  /\ stage' = "answered"
  /\ UNCHANGED <<todo, page, y, tableVars, footer>>

\* 500: PDFKit has thrown.
RenderFailed ==
  /\ stage \in {"blocks", "rows"}
  /\ stage' = "failed"
  /\ todo' = <<>>
  /\ UNCHANGED <<page, y, tableVars, footer, generated>>

DocumentInit ==
  /\ stage = "idle" /\ todo = <<>>
  /\ page = 0 /\ y = 0
  /\ rowsLeft = 0 /\ segments = <<>> /\ placed = <<>>
  /\ footer = FALSE /\ generated = 0

DocumentNext ==
  \/ \E known \in BOOLEAN : \E n \in 0..MaxBlocks : \E blocks \in [1..n -> Blocks] :
       ValidateRequest(known, blocks)
  \/ RenderTitle \/ RenderText \/ CollectFooter \/ BeginTable \/ RenderRow \/ EndTable
  \/ RenderFooter \/ Answer \/ RenderFailed

DocumentSpec == DocumentInit /\ [][DocumentNext]_documentVars

-----------------------------------------------------------------------------
OnPage(s) == {i \in DOMAIN placed : placed[i].page = segments[s].page}

\* However many pages a table takes: the rows of it that are drawn are in
\* their order; on every page they are below a header drawn on that page,
\* within the border drawn around them, and above the footer; none lies on another.
TableInPlace ==
  /\ \A s \in DOMAIN segments : \A i \in OnPage(s) :
       /\ placed[i].y >= segments[s].startY + HeaderHeight
       /\ placed[i].y + RowHeight <=
            segments[s].startY + HeaderHeight + segments[s].rowCount * RowHeight
       /\ placed[i].y + RowHeight <= PageBottom
  /\ \A i \in DOMAIN placed : \E s \in DOMAIN segments : i \in OnPage(s)
  /\ \A i \in 2..Len(placed) :
       \/ placed[i - 1].page < placed[i].page
       \/ placed[i - 1].page = placed[i].page /\ placed[i - 1].y + RowHeight <= placed[i].y
=============================================================================
