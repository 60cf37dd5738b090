---------------------------------- MODULE Csv ----------------------------------
(***************************************************************************)
(* csv.h: a splitter that takes one character at a time, parse_line, which *)
(* collects the columns of one line with it, parse_document, which reads   *)
(* line after line to the end of the input, and the document's rows, which *)
(* are found by number and by the label in the header row.                 *)
(*                                                                         *)
(* `store' is parse_document between two lines, `contents' the rows that   *)
(* were written.                                                           *)
(***************************************************************************)
EXTENDS Naturals, SequencesExt

CONSTANTS
    Letters,        \* the characters that mean nothing to the parser
    Quote, Delim, Newline,
    MaxColumns,     \* bound: columns of a row
    MaxLength,      \* bound: characters of a column
    Careful         \* rows are only written as the parser reads them back: see Readable

\* of the constants
CsvAssumption ==
    MaxColumns \in Nat \ {0} /\ MaxLength \in Nat /\ Careful \in BOOLEAN

VARIABLES store, contents
vars == <<store, contents>>

----------------------------------------------------------------------------
(* What is parsed: rows of columns, written plainly or between quotes,     *)
(* where a quote is doubled.                                               *)

Column(text, quoted) == [text |-> text, quoted |-> quoted]
Texts(chars) == SeqOf(chars, MaxLength)
Columns == {Column(text, FALSE) : text \in Texts(Letters)}
             \cup {Column(text, TRUE) : text \in Texts(Letters \cup {Quote, Delim})}
Rows == SeqOf(Columns, MaxColumns) \ {<<>>}

Doubled(text) == FlattenSeq([i \in DOMAIN text |->
                    IF text[i] = Quote THEN <<Quote, Quote>> ELSE <<text[i]>>])
Written(column) ==
    IF column.quoted THEN <<Quote>> \o Doubled(column.text) \o <<Quote>> ELSE column.text
Joined(parts, between) ==
    FlattenSeq([i \in DOMAIN parts |-> IF i = 1 THEN parts[i] ELSE <<between>> \o parts[i]])
Line(row) == Joined([i \in DOMAIN row |-> Written(row[i])], Delim)

\* The splitter keeps the quotes of the first column (it goes from `begin' to `quote_data'
\* and adds the quote), takes a delimiter that follows another for data, and parse_line
\* drops a last column without characters.
Readable(row) ==
    /\ ~row[1].quoted
    /\ \A i \in 2..Len(row) : row[i].quoted \/ row[i].text # <<>>
    /\ Last(row).text # <<>>

\* the header row: one letter each, the same label for every column after the second
Labels(a, b) == [i \in 1..MaxColumns |-> IF i = 1 THEN a ELSE b]
Header == Labels(<<CHOOSE a \in Letters : TRUE>>,
                 <<CHOOSE b \in Letters : b # CHOOSE a \in Letters : TRUE>>)

----------------------------------------------------------------------------
To(state, status) == [state |-> state, status |-> status]

\* splitter::push
push(s, ch) ==
    CASE s = "end_quote" /\ ch = Quote                       -> To("quote_data", "add")
      [] s \in {"begin_quote", "quote_data"} /\ ch = Quote   -> To("end_quote", "more_data")
      [] s \in {"begin_quote", "quote_data"} /\ ch # Quote   -> To("quote_data", "add")
      [] s = "delimiter" /\ ch = Quote                       -> To("begin_quote", "more_data")
      [] s = "begin" /\ ch = Quote                           -> To("quote_data", "add")
      [] s \in {"begin", "data", "end_quote"} /\ ch = Delim  -> To("delimiter", "delimiter")
      [] OTHER                                               -> To("data", "add")

\* mutant: buf.str("") is forgotten
kept(buf) == buf
emptied(buf) == <<>>

\* a line in progress: the splitter's state, the column begun, the columns before it
Begun == [sp |-> "begin", buf |-> <<>>, row |-> <<>>]
Pushed(line, ch) ==
    LET next == push(line.sp, ch)
    IN  [sp  |-> next.state,
         buf |-> CASE next.status = "add"       -> Append(line.buf, ch)
                   [] next.status = "delimiter" -> emptied(line.buf)
                   [] OTHER                     -> line.buf,
         row |-> IF next.status = "delimiter" THEN Append(line.row, line.buf) ELSE line.row]

\* copy_until: the characters before the newline, and how many were read with it
Until(text) == SelectInSeq(text, LAMBDA ch : ch = Newline)
Before(text) == IF Until(text) = 0 THEN text ELSE SubSeq(text, 1, Until(text) - 1)
NumRead(text) == IF Until(text) = 0 THEN Len(text) ELSE Until(text)

\* parse_line: the last column is the one that no delimiter ends
parse_line(text) ==
    LET line == FoldLeft(Pushed, Begun, Before(text))
    IN  IF line.buf = <<>> THEN line.row ELSE Append(line.row, line.buf)

\* string_view_splitter::next, until it answers `empty': what follows the last delimiter
\* is a column if there is anything left of the string
split(str) ==
    LET line == FoldLeft(Pushed, Begun, str)
    IN  IF line.sp \in {"begin", "delimiter"} THEN line.row ELSE Append(line.row, line.buf)

----------------------------------------------------------------------------
Init == \E row \in Rows, ended \in BOOLEAN :
    LET rows == <<[i \in 1..MaxColumns |-> Column(Header[i], FALSE)], row>>
    IN  /\ Careful => Readable(row)
        /\ store = [src |-> Joined([i \in DOMAIN rows |-> Line(rows[i])], Newline)
                              \o (IF ended THEN <<Newline>> ELSE <<>>),
                    lines |-> <<>>, rows |-> <<>>, bytes_read |-> 0, at |-> "parsing"]
        /\ contents = [rows |-> [i \in DOMAIN rows |-> [j \in DOMAIN rows[i] |-> rows[i][j].text]],
                       bytes |-> Len(store.src)]

ParseRow ==
    /\ store.at = "parsing" /\ NumRead(store.src) # 0
    /\ store' = [store EXCEPT !.src = SubSeq(@, NumRead(@) + 1, Len(@)),
                              !.lines = Append(@, Before(store.src)),
                              !.rows = Append(@, parse_line(store.src)),
                              !.bytes_read = @ + NumRead(store.src)]
    /\ UNCHANGED contents

ParseEnd ==
    /\ store.at = "parsing" /\ NumRead(store.src) = 0
    /\ store' = [store EXCEPT !.at = "parsed"]
    /\ UNCHANGED contents

Next == ParseRow \/ ParseEnd

Spec == Init /\ [][Next]_vars

----------------------------------------------------------------------------
NotFound == "out-of-bounds"

\* document with a header, and row_view: data row `index' is one further down, and the
\* column is the first with that label, if the row reaches so far
find_label(header, key) == SelectInSeq(header, LAMBDA label : label = key)
lookup(rows, index, key) ==
    LET row == rows[index + 1]
        idx == find_label(rows[1], key)
    IN  IF idx \in DOMAIN row THEN row[idx] ELSE NotFound

\* A document that was written is read back column by column, whatever quotes and
\* delimiters its columns hold and whether or not a newline ends it; the splitter of
\* strings makes the same columns of each line, and the first data row answers to the
\* labels of the header (csv.h:99-168, 249-283, 402-425).
DocumentReadBack ==
    store.at = "parsed" =>
        /\ store.rows = contents.rows /\ store.bytes_read = contents.bytes
        /\ \A i \in DOMAIN store.lines : split(store.lines[i]) = store.rows[i]
        /\ \A j \in DOMAIN contents.rows[2] :
            lookup(store.rows, 1, Header[j]) = contents.rows[2][IF j = 1 THEN 1 ELSE 2]
=============================================================================
