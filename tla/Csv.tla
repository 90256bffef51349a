-------------------------------- MODULE Csv --------------------------------
(***************************************************************************)
(* How the document service reads a row of a table                         *)
(* (document-service/index.ts: parseCSVRow), and the rows its callers      *)
(* write.  A character is a quote, a comma, a blank or any other.          *)
(*                                                                         *)
(* A definition followed by its namesake (QuoteTogglesOnly before          *)
(* DoubledQuote) is a mutation of it, used only to see that a property     *)
(* would notice it.                                                        *)
(***************************************************************************)
EXTENDS Naturals, SequencesExt

CONSTANT MaxChars  \* bound of the characters of all fields of a row

ASSUME CsvAssumption == MaxChars \in Nat

VARIABLE fields  \* of the row, as its writer has them

Characters == {"quote", "comma", "blank", "other"}

-----------------------------------------------------------------------------
(* parseCSVRow *)

\* trim()
Trim(field) ==
  LET shown == {i \in DOMAIN field : field[i] # "blank"}
  IN  IF shown = {} THEN <<>>
      ELSE SubSeq(field, CHOOSE i \in shown : \A j \in shown : i <= j,
                         CHOOSE i \in shown : \A j \in shown : i >= j)

QuoteTogglesOnly(row, i, inQuotes) == FALSE

DoubledQuote(row, i, inQuotes) == inQuotes /\ i < Len(row) /\ row[i + 1] = "quote"

\* The loop's body, for the character at i.
ParseChar(row, state, i) ==
  IF state.skip THEN [state EXCEPT !.skip = FALSE]
  ELSE IF row[i] = "quote"
    THEN IF DoubledQuote(row, i, state.inQuotes)
           THEN [state EXCEPT !.current = Append(@, "quote"), !.skip = TRUE]
           ELSE [state EXCEPT !.inQuotes = ~ @]
  ELSE IF row[i] = "comma" /\ ~ state.inQuotes
    THEN [state EXCEPT !.cols = Append(@, Trim(state.current)), !.current = <<>>]
  ELSE [state EXCEPT !.current = Append(@, row[i])]

ParseCSVRow(row) ==
  LET start == [cols |-> <<>>, current |-> <<>>, inQuotes |-> FALSE, skip |-> FALSE]
      end   == FoldLeft(LAMBDA state, i : ParseChar(row, state, i), start,
                        [i \in DOMAIN row |-> i])
  IN  Append(end.cols, Trim(end.current))

-----------------------------------------------------------------------------
(* RFC 4180 *)

Special(field) == \E i \in DOMAIN field : field[i] \in {"quote", "comma"}

Doubled(field) == FlattenSeq([i \in DOMAIN field |->
                                IF field[i] = "quote" THEN <<"quote", "quote">> ELSE <<field[i]>>])

Written(field) == IF Special(field) THEN <<"quote">> \o Doubled(field) \o <<"quote">> ELSE field

Row == FlattenSeq([i \in DOMAIN fields |->
                     IF i = 1 THEN Written(fields[i]) ELSE <<"comma">> \o Written(fields[i])])

-----------------------------------------------------------------------------
CsvInit == fields = <<<<>>>>

Size == Len(Row)

\* One character more, or one field more.
CsvGrow ==
  /\ Size < MaxChars
  /\ \/ \E c \in Characters : fields' = [fields EXCEPT ![Len(fields)] = Append(@, c)]
     \/ fields' = Append(fields, <<>>)

CsvSpec == CsvInit /\ [][CsvGrow]_fields

-----------------------------------------------------------------------------
\* What a caller writes by RFC 4180 is read as its fields, as many and with
\* all their commas and quotes, but for the blanks around them; the row is
\* refused for its number of columns only if it has another number.
RowReadBack == ParseCSVRow(Row) = [i \in DOMAIN fields |-> Trim(fields[i])]
=============================================================================
