--------------------------------- MODULE Csv ---------------------------------
(***************************************************************************)
(* The CSV serialiser of the dashboard (utils/csv.ts) and, as a reference, *)
(* a reader of RFC 4180.  A text is a sequence of symbols; the ones that   *)
(* matter are quote, comma, line end, a formula sign and the apostrophe.   *)
(***************************************************************************)
EXTENDS Vectors, SequencesExt

Symbol == {"quote", "comma", "crlf", "formula", "apostrophe", "letter"}
Text == Seq(Symbol)

\* Wrong on purpose: quotes inside a quoted field are left single.
Quoted_Single(s) == <<"quote">> \o s \o <<"quote">>

Doubling == [p \in Text \X Symbol |-> p[1] \o IF p[2] = "quote" THEN <<p[2], p[2]>> ELSE <<p[2]>>]
Quoted(s) == <<"quote">> \o Folded(Doubling, <<>>, s) \o <<"quote">>

Neutralized(s) == IF s # <<>> /\ s[1] = "formula" THEN <<"apostrophe">> \o s ELSE s

escapeCsvField(s) ==
    LET str == Neutralized(s)
    IN  IF \E i \in DOMAIN str : str[i] \in {"quote", "comma", "crlf"} THEN Quoted(str) ELSE str

Joining(sep) == [p \in Text \X Text |-> p[1] \o sep \o p[2]]
Joined(parts, sep) == IF parts = <<>> THEN <<>> ELSE Folded(Joining(sep), parts[1], Tail(parts))

\* Lines of fields, the header among them.
Line(row) == Joined([j \in DOMAIN row |-> escapeCsvField(row[j])], <<"comma">>)
toCsv(rows) == Joined([i \in DOMAIN rows |-> Line(rows[i])], <<"crlf">>) \o <<"crlf">>

-----------------------------------------------------------------------------
(* The reference: one symbol at a time; `closed` tells a closing quote from *)
(* the first half of an escaped one.                                        *)

Start == [rows |-> <<>>, row |-> <<>>, field |-> <<>>, open |-> FALSE, closed |-> FALSE]

Read(st, c) ==
    IF st.open
    THEN IF c = "quote" THEN [st EXCEPT !.open = FALSE, !.closed = TRUE]
                        ELSE [st EXCEPT !.field = Append(@, c)]
    ELSE IF c = "quote"
    THEN [st EXCEPT !.open = TRUE, !.closed = FALSE,
                    !.field = IF st.closed THEN Append(@, "quote") ELSE @]
    ELSE IF c = "comma"
    THEN [st EXCEPT !.row = Append(@, st.field), !.field = <<>>, !.closed = FALSE]
    ELSE IF c = "crlf"
    THEN [Start EXCEPT !.rows = Append(st.rows, Append(st.row, st.field))]
    ELSE [st EXCEPT !.field = Append(@, c)]

ReaderState ==
    [rows : Seq(Seq(Text)), row : Seq(Text), field : Text, open : BOOLEAN, closed : BOOLEAN]
Reading == [p \in ReaderState \X Symbol |-> Read(p[1], p[2])]

Parsed(text) == Folded(Reading, Start, text).rows

-----------------------------------------------------------------------------
(* Properties *)

\* "RFC 4180 compliant": a reader gets back every field, but for the
\* apostrophe in front of a formula, whatever quotes, commas and line ends are
\* inside the fields.
ReadsBack(rows) ==
    Parsed(toCsv(rows)) = [i \in DOMAIN rows |-> [j \in DOMAIN rows[i] |-> Neutralized(rows[i][j])]]

\* It does for tables of two rows with two short fields.
ShortTablesReadBack ==
    \A a, b \in BoundedSeq(Symbol, 2) : ReadsBack(<<<<a, b>>, <<b, a>>>>)

=============================================================================
