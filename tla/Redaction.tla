----------------------------- MODULE Redaction ------------------------------
(***************************************************************************)
(* What a session does to the output of a source: rows and text are put    *)
(* through the column rules and the pipeline of their profile and cut at   *)
(* the caps, and every cut is reported.                                    *)
(*                                                                         *)
(* A cell is [column, shape, class, size, raw] with shape text (a string), *)
(* json (a nested document), typed (a number, a date, bytes) or corrupt (a *)
(* decimal that does not decode); class is the kind of personal data in    *)
(* it, or "none"; raw says that its text is as the source returned it.     *)
(* A text is a sequence of spans [class, size, raw].                       *)
(*                                                                         *)
(* The pipeline is the library gaze: where two rules apply it takes one,   *)
(* and here either, by a choice g for each pipeline: g.kept are the        *)
(* classes it preserves, g.columns whether a rule that preserves a column  *)
(* wins.                                                                   *)
(***************************************************************************)
EXTENDS Profiles

CONSTANTS RowCap, ByteCap, CellCap, TokenSize

Classes == {"email", "name", "strip"}
Textual == {"text", "json"}

IsCell(v) ==
    /\ DOMAIN v = {"column", "shape", "class", "size", "raw"}
    /\ v.size \in Nat /\ v.raw \in BOOLEAN
IsSpan(v) == DOMAIN v = {"class", "size", "raw"} /\ v.size \in Nat /\ v.raw \in BOOLEAN

GazeChoices(policy) ==
    [kept : {k \in SUBSET Classes : \A c \in Classes :
                /\ c \in k => "preserve" \in ClassActions(policy, c)
                /\ ClassActions(policy, c) = {"preserve"} => c \in k},
     columns : BOOLEAN]

Hidden(v) == [v EXCEPT !.raw = FALSE, !.size = TokenSize]

\* Pipeline::redact on text.
RedactText(v, policy, g) ==
    IF v.raw /\ v.class \in Detected(policy) \ g.kept THEN Hidden(v) ELSE v

\* apply_column_action: strings, and the strings of a document.
ApplyColumnAction(cell, policy) ==
    IF cell.shape \in Textual /\ ActionFor(policy, cell.column) \in Hiding
    THEN Hidden(cell) ELSE cell

\* One cell of redact_rows: the column rule, then the pipeline on the strings
\* of a document or on the cell as a field of the row.  Typed values pass.
RedactCell(cell, policy, g) ==
    LET acted == ApplyColumnAction(cell, policy)
        keeps == g.columns /\ ActionFor(policy, cell.column) = "preserve"
    IN  CASE cell.shape = "json" -> RedactText(acted, policy, g)
          [] cell.shape = "text" -> IF keeps THEN acted ELSE RedactText(acted, policy, g)
          [] OTHER -> acted

Marker(column) == [column |-> column, shape |-> "marker", class |-> "none",
                   size |-> TokenSize, raw |-> FALSE]

\* insert_capped_cell.
CapCell(cell) == IF cell.size > CellCap THEN Marker(cell.column) ELSE cell

Size(row) ==
    LET sum[j \in 0 .. Len(row)] == IF j = 0 THEN 0 ELSE sum[j - 1] + row[j].size
    IN  sum[Len(row)]

CleanRow(row, policy, g) == [j \in DOMAIN row |-> CapCell(RedactCell(row[j], policy, g))]

\* One turn of the loop over the rows.
RedactRow(acc, row, policy, g) ==
    LET clean == CleanRow(row, policy, g)
        cut == \E j \in DOMAIN row : clean[j].shape = "marker"
        flags == acc.flags \cup (IF cut THEN {"cell_bytes"} ELSE {})
    IN  IF acc.stop \/ acc.failed THEN acc
        ELSE IF \E j \in DOMAIN row : row[j].shape = "corrupt" THEN [acc EXCEPT !.failed = TRUE]
        ELSE IF acc.bytes + Size(clean) > ByteCap
        THEN [acc EXCEPT !.flags = flags \cup {"bytes"}, !.stop = TRUE]
        ELSE [acc EXCEPT !.flags = flags, !.bytes = @ + Size(clean), !.out = Append(@, clean)]

\* redact_rows.
RedactRows(rows, policy, g) ==
    LET n == IF Len(rows) > RowCap THEN RowCap ELSE Len(rows)
        none == [out |-> <<>>, bytes |-> 0, stop |-> FALSE, failed |-> FALSE,
                 flags |-> IF Len(rows) > RowCap THEN {"rows"} ELSE {}]
        acc[i \in 0 .. n] == IF i = 0 THEN none ELSE RedactRow(acc[i - 1], rows[i], policy, g)
    IN  acc[n]

\* cap_string: a span across the cap is torn, and nobody can tell what it was.
CapText(text) ==
    LET end(i) == Size(SubSeq(text, 1, i))
        torn == {i \in DOMAIN text : end(i - 1) < ByteCap /\ ByteCap < end(i)}
        part(i) == [text[i] EXCEPT !.class = "none", !.size = ByteCap - end(i - 1)]
        kept == {i \in DOMAIN text : end(i - 1) < ByteCap}
    IN  [i \in kept |-> IF i \in torn THEN part(i) ELSE text[i]]

\* redact_text_output: cut first, then redact; the source's own flags stay.
RedactTextOutput(text, flags, policy, g) ==
    LET capped == CapText(text)
    IN  [out |-> [i \in DOMAIN capped |-> RedactText(capped[i], policy, g)],
         flags |-> flags \cup (IF Size(text) > ByteCap THEN {"bytes"} ELSE {})]

-----------------------------------------------------------------------------
(* The canned query.                                                       *)

\* Mutant: exactly the cap is asked for.
LimitUnprobed(limit) == IF limit = None THEN RowCap ELSE limit

\* compile_to_sql: one row more than the cap tells whether there are more; a
\* lower limit is what the caller wants.
Limit(limit) == IF limit \in {None, RowCap} THEN RowCap + 1 ELSE limit

\* validate_column and LimitExceedsCap.  The sources allow every column.
Compiles(query, columns, keywords) ==
    /\ \A c \in (IF query.columns = {} THEN columns ELSE query.columns) :
          c \in columns \ keywords
    /\ query.limit # None => query.limit <= RowCap

\* The selected columns of a row, all if none is named.
SelectColumns(row, columns) ==
    Pick(row, {j \in DOMAIN row : columns = {} \/ row[j].column \in columns})

\* The rows the database returns for the query.
Fetch(table, query) ==
    LET n == IF Len(table) > Limit(query.limit) THEN Limit(query.limit) ELSE Len(table)
    IN  [i \in 1 .. n |-> SelectColumns(table[i], query.columns)]
=============================================================================
