------------------------------ MODULE Results -------------------------------
(***************************************************************************)
(* A result set is read off the driver, row by row and up to a cap         *)
(* (core/dbcore/query.go, readRows), and every value becomes a cell: NULL, *)
(* or a text and the kind to show it by (core/dbcore/values.go).           *)
(*                                                                         *)
(* A driver's value is its Go sort and a content: the class of a float or  *)
(* of the bytes, any name for the rest.  A database type is the sequence   *)
(* of the parts of its name that the code looks for, <<"BIG", "INT">>.     *)
(* A column's name is a base and the numbers behind it: <<"a">> is spelled *)
(* a, and <<"a", 2>> is a (2).                                             *)
(***************************************************************************)
EXTENDS Integers, Sequences, SequencesExt, FiniteSetsExt

CONSTANTS
  Headings,        \* the columns of the results: sequences of [name, type]
  Sent(_),         \* of each type: the values drivers send for it
  Limits,          \* what QueryOptions.MaxRows may be
  DefaultMaxRows,  \* the cap when it is not given
  RowsSent         \* bound: rows the server sends

ASSUME CapAssumption == DefaultMaxRows \in Nat /\ Limits \subseteq Int /\ RowsSent \in Nat

IsSequence(s) == Len(s) \in Nat /\ s = [k \in 1..Len(s) |-> s[k]]

ASSUME HeadingsAssumption ==
  \A h \in Headings : IsSequence(h) /\ \A i \in DOMAIN h : IsSequence(h[i].name)

VARIABLES
  options,    \* MaxRows as the request gave it
  heading,    \* what the driver says of the columns
  pulled,     \* the rows taken off the driver
  columns,    \* cols: names and kinds
  rows,       \* out
  truncated,
  reading     \* reading, read or failed

resultVars == <<options, heading, pulled, columns, rows, truncated, reading>>

-----------------------------------------------------------------------------
(* values.go                                                               *)

\* Whole names first; then the first family one of whose parts is in the
\* name, which makes an INTERVAL a number.
KindForDatabaseType(type) ==
  LET Has(parts) == ToSet(type) \cap parts # {}
  IN  IF type \in {<<"BOOL">>, <<"BOOLEAN">>, <<"BIT">>} THEN "bool"
      ELSE IF type \in {<<"UUID">>, <<"UNIQUEIDENTIFIER">>} THEN "uuid"
      ELSE IF type \in {<<"JSON">>, <<"JSONB">>} THEN "json"
      ELSE IF type = <<"DATE">> THEN "date"
      ELSE IF type \in {<<"TIME">>, <<"TIMETZ">>} THEN "time"
      ELSE IF Has({"TIMESTAMP", "DATETIME"}) THEN "datetime"
      ELSE IF Has({"INT", "DECIMAL", "NUMERIC", "MONEY", "FLOAT", "DOUBLE", "REAL",
                   "NUMBER", "SERIAL"}) THEN "number"
      ELSE IF Has({"BLOB", "BINARY", "BYTEA", "IMAGE"}) THEN "bytes"
      ELSE IF type = <<>> THEN "unknown"
      ELSE "string"

Null          == [form |-> "null", of |-> "null"]
Cell(form, v) == [form |-> form, of |-> v.content]

\* A date shows no midnight and a time no day.
FormatTime(declared) == IF declared \in {"date", "time"} THEN declared ELSE "datetime"

FormatFloat(v) ==
  CASE v.content \in {"NaN", "Infinity", "-Infinity"} -> "named"
    [] v.content \in {"zero", "plain"} -> "decimal"
    [] OTHER -> "scientific"

\* Mistake: bytes of any declared type are shown as text if they look like it.
ConvertBytesLooking(v, declared) ==
  IF declared # "bytes" /\ v.content \in {"text", "empty"} THEN <<Cell("text", v), declared>>
  ELSE <<Cell("base64", v), "bytes">>

ConvertBytes(v, declared) ==
  CASE declared = "bytes" -> <<Cell("base64", v), "bytes">>
    [] declared \in {"number", "string", "json", "uuid", "date", "time", "datetime"} ->
         <<Cell("text", v), declared>>
    [] OTHER -> IF v.content \in {"text", "empty"}
                THEN <<Cell("text", v), "string">>
                ELSE <<Cell("base64", v), "bytes">>

ConvertValue(v, declared) ==
  CASE v.sort = "nil"   -> <<Null, declared>>
    [] v.sort = "bool"  -> <<Cell("text", v), "bool">>
    [] v.sort = "bytes" -> ConvertBytes(v, declared)
    [] v.sort = "time"  -> <<Cell(FormatTime(declared), v), declared>>
    [] v.sort = "int"   -> <<Cell("digits", v), "number">>
    [] v.sort = "float" -> <<Cell(FormatFloat(v), v), "number">>
    [] OTHER            -> <<Cell("text", v), declared>>

-----------------------------------------------------------------------------
(* query.go                                                                *)

MaxRows(limit) == IF limit = 0 THEN DefaultMaxRows ELSE limit

\* Mistake: every column after the first of its name is called the second.
DeduplicateSecond(names) ==
  [i \in DOMAIN names |->
     IF \E j \in 1..(i - 1) : names[j] = names[i] THEN Append(names[i], 2) ELSE names[i]]

DeduplicateNames(names) ==
  LET own == [i \in DOMAIN names |->
                IF names[i] = <<"">> THEN <<"column" \o ToString(i)>> ELSE names[i]]
      before(i) == Cardinality({j \in 1..(i - 1) : own[j] = own[i]})
  IN  [i \in DOMAIN names |->
         IF before(i) = 0 THEN own[i] ELSE Append(own[i], before(i) + 1)]

ResultInit ==
  /\ options \in Limits
  /\ heading \in Headings
  /\ pulled = <<>>
  /\ LET names == DeduplicateNames([i \in DOMAIN heading |-> heading[i].name])
     IN  columns = [i \in DOMAIN heading |->
                      [name |-> names[i], kind |-> KindForDatabaseType(heading[i].type)]]
  /\ rows = <<>>
  /\ truncated = FALSE
  /\ reading = "reading"

\* rows.Next answered, and the cap is full: the cursor is closed.
CapReached(row) ==
  /\ reading = "reading"
  /\ MaxRows(options) >= 0 /\ Len(rows) >= MaxRows(options)
  /\ pulled' = Append(pulled, row)
  /\ truncated' = TRUE
  /\ reading' = "read"
  /\ UNCHANGED <<options, heading, columns, rows>>

\* rows.Next answered, and the row is scanned and converted; a column with no
\* type of its own takes the kind of its first value that is not NULL.
Keep(row) ==
  LET got == [i \in DOMAIN row |-> ConvertValue(row[i], columns[i].kind)]
  IN  /\ rows' = Append(rows, [i \in DOMAIN row |-> got[i][1]])
      /\ columns' = [i \in DOMAIN columns |->
                       IF columns[i].kind = "unknown" /\ got[i][1] # Null
                       THEN [columns[i] EXCEPT !.kind = got[i][2]] ELSE columns[i]]
      /\ pulled' = Append(pulled, row)
      /\ UNCHANGED <<options, heading, truncated, reading>>

\* Mistake: the row that tells there are more is kept.
RowReadPastCap(row) ==
  /\ reading = "reading"
  /\ MaxRows(options) < 0 \/ Len(rows) <= MaxRows(options)
  /\ Keep(row)

RowRead(row) ==
  /\ reading = "reading"
  /\ MaxRows(options) < 0 \/ Len(rows) < MaxRows(options)
  /\ Keep(row)

\* rows.Next says there is no more: rows.Err tells the end from a failure.
\* What was read before a failure is kept beside the error.
RowsEnd ==
  /\ reading = "reading"
  /\ reading' \in {"read", "failed"}
  /\ UNCHANGED <<options, heading, pulled, columns, rows, truncated>>

\* rows.Scan fails on a row that came: the row is lost, the earlier ones kept.
ScanFails(row) ==
  /\ reading = "reading"
  /\ MaxRows(options) < 0 \/ Len(rows) < MaxRows(options)
  /\ reading' = "failed"
  /\ UNCHANGED <<options, heading, pulled, columns, rows, truncated>>

ServerRows == {row \in [DOMAIN heading -> UNION {Sent(heading[i].type) : i \in DOMAIN heading}] :
                 \A i \in DOMAIN heading : row[i] \in Sent(heading[i].type)}

ResultNext ==
  \/ /\ Len(pulled) < RowsSent
     /\ \E row \in ServerRows : RowRead(row) \/ CapReached(row) \/ ScanFails(row)
  \/ RowsEnd

-----------------------------------------------------------------------------
\* The cap: one row past it is looked at and none past that, the rows kept
\* are the first that came, and truncated says exactly that more were there.
CapKept ==
  LET cap == MaxRows(options)
  IN  /\ cap >= 0 => Len(rows) <= cap /\ Len(pulled) <= cap + 1
      /\ truncated <=> Len(pulled) > Len(rows)
      /\ truncated => Len(rows) = cap

\* A grid that reads a column by its kind reads each of its cells right:
\* what is in base64 stands in a column of bytes and nowhere else, whichever
\* row told the kind of the column, but for the booleans that come as bytes.
BinaryStandsInBytes ==
  \A n \in DOMAIN rows : \A i \in DOMAIN heading :
     (rows[n][i].form = "base64") => (columns[i].kind \in {"bytes", "bool"})

\* convertBytes, of what it tells by looking: "Unknown type name: fall back to
\* inspecting the bytes."  A BIT of MySQL is a boolean by its name and comes
\* as bytes; what is written of it as base64 the app's export reads as false.
OnlyUnknownIsInspected ==
  \A n \in DOMAIN rows : \A i \in DOMAIN heading :
     (rows[n][i].form = "base64") => (columns[i].kind = "bytes")

\* Columns that share a name are told apart, unless the server itself uses
\* the names they would be given.
NamesTellColumnsApart ==
  (\A i \in DOMAIN heading : Len(heading[i].name) = 1) =>
    \A i, j \in DOMAIN columns : i # j => columns[i].name # columns[j].name

\* Why: while rows are read, every row that was taken off the driver is kept;
\* a cell is of a value that was sent; and a column that is not yet known has
\* nothing in base64.
Kinds == {"string", "number", "bool", "datetime", "date", "time", "bytes", "json", "uuid",
          "unknown"}
Forms == {"null", "text", "base64", "digits", "date", "time", "datetime", "named", "decimal",
          "scientific"}
Contents == {"null"} \cup {v.content : v \in UNION {Sent(heading[i].type) : i \in DOMAIN heading}}

ResultTypeOK ==
  /\ options \in Int
  /\ pulled \in Seq(ServerRows)
  /\ rows \in Seq([DOMAIN heading -> [form : Forms, of : Contents]])
  /\ DOMAIN columns = DOMAIN heading
  /\ \A i \in DOMAIN columns : DOMAIN columns[i] = {"name", "kind"} /\ columns[i].kind \in Kinds
  /\ truncated \in BOOLEAN
  /\ reading \in {"reading", "read", "failed"}

ReadingOn == reading = "reading" => Len(pulled) = Len(rows) /\ ~truncated

\* What is inductive of a result set.
ResultInv ==
  ResultTypeOK /\ ReadingOn /\ CapKept /\ BinaryStandsInBytes /\ NamesTellColumnsApart
=============================================================================
