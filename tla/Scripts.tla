------------------------------ MODULE Scripts -------------------------------
(***************************************************************************)
(* A script is typed, and a reader follows it as the server does: symbol   *)
(* by symbol, knowing at each whether it is code, literal or comment.      *)
(* What SqlText makes of the script is measured against that reader.       *)
(*                                                                         *)
(* The reader keeps each engine's own rules, which are not always those of *)
(* the code, and remembers where they part: that is the field odd.  Of     *)
(* MySQL, its comments with a version are left out.                        *)
(***************************************************************************)
EXTENDS SqlText

CONSTANTS
  Phrases,    \* of each engine: what is typed at a stroke
  Openings,   \* what the script may start from
  MaxStrokes  \* bound: strokes typed after the opening

ASSUME StrokesAssumption == MaxStrokes \in Nat
ASSUME PhrasesAssumption ==
  /\ \A t \in Openings : t \in Seq(ToSet(t))
  /\ \A e \in DOMAIN Phrases : \A p \in Phrases[e] : p \in Seq(ToSet(p))

VARIABLES
  engine,   \* the engine of the session
  text,     \* the script
  strokes,  \* how many strokes it took
  reader    \* what the reader knows at its end

scriptVars == <<engine, text, strokes, reader>>

-----------------------------------------------------------------------------
(* The reader.  mode is code, line, block, dollar, dashes, or the symbol   *)
(* that opened the literal; kinds says of every symbol what it turned out  *)
(* to be.  odd is what it met that the code reads otherwise.               *)

Blank == [mode |-> "code", escapes |-> FALSE, nest |-> 0, tag |-> 0, body |-> 0,
          last |-> " ", odd |-> {}, kinds |-> <<>>]

\* What opens a literal or a quoted name, and what closes it.
Opens(e) ==
  {"'", "\""} \cup CASE e = "mysql"     -> {"backtick"}
                     [] e = "sqlserver" -> {"["}
                     [] e = "sqlite"    -> {"[", "backtick"}
                     [] OTHER           -> {}
Closes(q) == IF q = "[" THEN "]" ELSE q

\* Those SplitStatements does not know.
Odd(e, q) ==
  IF e = "mysql" /\ q = "\"" THEN {"string"}
  ELSE IF e = "sqlite" /\ q \in {"[", "backtick"} THEN {"name"} ELSE {}

\* A backslash escapes in the strings of MySQL, and in PostgreSQL's E'...'.
Escapes(e, r, t, i) ==
  \/ e = "mysql" /\ t[i] # "backtick"
  \/ /\ e = "postgres" /\ t[i] = "'"
     /\ \/ r.last = "'" /\ r.escapes
        \/ r.last = "E" /\ (i < 3 \/ ~IsIdent(t[i - 2]))
Nests(e) == e \in {"postgres", "sqlserver"}

\* Symbol i is read, and with it every symbol since from is of a kind.
Enter(r, i, mode, from, kind) ==
  [r EXCEPT !.mode = mode, !.last = " ", !.tag = 0, !.nest = 1, !.body = i + 1,
            !.kinds = [j \in 1..i |-> IF j >= from THEN kind ELSE @[j]]]

\* A dollar in PostgreSQL: part of a name, the end of a tag, or maybe the start.
ReadDollar(r, t, i) ==
  LET next == [r EXCEPT !.kinds = Append(@, "code"), !.last = "$", !.tag = i]
      tag  == SubSeq(t, r.tag, i)
  IN  CASE IsIdent(r.last) /\ r.tag = 0 ->
             [next EXCEPT !.last = "name", !.tag = 0, !.odd = @ \cup {"dollar"}]
        [] r.tag # 0 /\ tag[2] \in Digits -> [next EXCEPT !.odd = @ \cup {"dollar"}]
        [] r.tag # 0 -> [Enter(r, i, "dollar", r.tag, "literal") EXCEPT !.tag = tag]
        [] OTHER -> next

ReadCode(e, r, t, i) ==
  LET c == t[i]
  IN  CASE c \in Opens(e) ->
             [Enter(r, i, c, i, "literal") EXCEPT !.escapes = Escapes(e, r, t, i),
                                                  !.odd = @ \cup Odd(e, c)]
        [] c = "]" /\ r.last = "[" /\ e = "sqlserver" ->
             [Enter(r, i, "[", i, "literal") EXCEPT !.odd = @ \cup {"bracket"}]
        [] c = "#" /\ e = "mysql" -> Enter(r, i, "line", i, "comment")
        [] c = "-" /\ r.last = "-" ->
             Enter(r, i, IF e = "mysql" THEN "dashes" ELSE "line", i - 1, "comment")
        [] c = "*" /\ r.last = "/" -> Enter(r, i, "block", i - 1, "comment")
        [] c = "$" /\ e = "postgres" -> ReadDollar(r, t, i)
        [] OTHER -> [r EXCEPT !.last = c, !.kinds = Append(@, "code"),
                              !.tag = IF IsIdent(c) THEN @ ELSE 0]

ReadLiteral(r, t, i) ==
  LET c    == t[i]
      more == [r EXCEPT !.kinds = Append(@, "literal"), !.last = " "]
      out  == [Enter(r, i, "code", i, "literal") EXCEPT !.nest = 0, !.last = r.mode]
      from == i - Len(r.tag) + 1
  IN  CASE r.mode = "dollar" -> IF from >= r.body /\ At(t, from, r.tag) THEN out ELSE more
        [] r.last = "escape" -> more
        [] r.last # "escape" /\ c = "\\" /\ r.escapes -> [more EXCEPT !.last = "escape"]
        [] r.last # "escape" /\ c = Closes(r.mode) ->
             [out EXCEPT !.odd = @ \cup (IF t[i - 1] = "\\" /\ ~r.escapes /\ c # "]"
                                         THEN {"backslash"} ELSE {})]
        [] OTHER -> more

ReadComment(e, r, t, i) ==
  LET c     == t[i]
      more  == [r EXCEPT !.kinds = Append(@, "comment"), !.last = c]
      inner == c = "*" /\ r.last = "/"
      deep  == IF c = "/" /\ r.last = "*" THEN -1 ELSE IF inner /\ Nests(e) THEN 1 ELSE 0
  IN  CASE r.mode = "line" -> IF c = "\n" THEN Enter(r, i, "code", i, "code") ELSE more
        [] r.mode = "block" /\ r.nest + deep = 0 -> Enter(r, i, "code", i, "comment")
        [] OTHER -> [more EXCEPT !.nest = @ + deep, !.last = IF deep = 0 THEN c ELSE " ",
                                 !.odd = IF inner /\ ~Nests(e) THEN @ \cup {"nested"} ELSE @]

\* Behind two dashes: to MySQL they start a comment if a blank comes next.
ReadDashes(e, r, t, i) ==
  IF t[i] \in Space THEN ReadComment(e, [r EXCEPT !.mode = "line"], t, i)
  ELSE ReadCode(e, [r EXCEPT !.mode = "code", !.last = "-", !.odd = @ \cup {"dashes"},
                             !.kinds = [j \in DOMAIN @ |-> IF j < i - 2 THEN @[j] ELSE "code"]],
                t, i)

Read(e, r, t, i) ==
  CASE r.mode = "code" -> ReadCode(e, r, t, i)
    [] r.mode = "dashes" -> ReadDashes(e, r, t, i)
    [] r.mode \in {"line", "block"} -> ReadComment(e, r, t, i)
    [] OTHER -> ReadLiteral(r, t, i)

ReadOn(e, r, t, from) ==
  FoldLeft(LAMBDA sofar, i : Read(e, sofar, t, i), r, [k \in 1..(Len(t) - from) |-> from + k])

-----------------------------------------------------------------------------
ScriptInit ==
  /\ engine \in DOMAIN Phrases
  /\ text \in Openings
  /\ strokes = 0
  /\ reader = ReadOn(engine, Blank, text, 0)

Type(phrase) ==
  /\ strokes < MaxStrokes
  /\ strokes' = strokes + 1
  /\ text' = text \o phrase
  /\ reader' = ReadOn(engine, reader, text', Len(text))
  /\ UNCHANGED engine

ScriptNext == \E phrase \in Phrases[engine] : Type(phrase)

ScriptSpec == ScriptInit /\ [][ScriptNext]_scriptVars

-----------------------------------------------------------------------------
Statements == SplitStatements(engine, text)
Is(kind)   == {i \in 1..Len(text) : reader.kinds[i] = kind}

Separators == {i \in Is("code") : text[i] = ";"}
Within(st) == (st.start + 1)..st.end

\* The word stands alone in the code of a statement.
Says(t, kinds, word) ==
  \E i \in 1..Len(t) :
     /\ t[i] = word /\ kinds[i] = "code"
     /\ i = 1 \/ ~IsIdent(t[i - 1])
     /\ i = Len(t) \/ ~IsIdent(t[i + 1])

\* A line that opens inside a literal or a comment: what the splitting of
\* SQL Server's batches does not look at.
LinesInCode == \A i \in 1..Len(text) : text[i] = "\n" => reader.kinds[i] = "code"

\* A statement starts after a semicolon of the code and ends with one, and
\* has none inside: those of literals and comments separate nothing, and
\* those of the code always do (SplitStatements).
CutsAtSeparators ==
  \A st \in ToSet(Statements) :
     /\ st.start \in Separators \cup {0}
     /\ st.end \in Separators \cup {Len(text)}
     /\ Within(st) \cap Separators \subseteq {st.end}

\* What is typed is run: every symbol of code or literal lies in a statement,
\* but for the opening parentheses and the GO that only a batch line holds.
NothingLost ==
  \A i \in 1..Len(text) :
     reader.kinds[i] # "comment" /\ text[i] \notin Space \cup {"(", "GO"}
       => \E st \in ToSet(Statements) : i \in Within(st)

\* Together: the statements are the script, cut where the server would cut it.
\* But for scripts with what the scan of the code takes for something else: a
\* quote behind a backslash where a backslash escapes nothing (skipQuoted), "..."
\* in MySQL, [...] and backticks in SQLite, ]] in SQL Server, two dashes before
\* what is not blank in MySQL, a dollar in a name or a tag of digits in
\* PostgreSQL, a comment inside one in MySQL and SQLite.
SplitsAtSeparators == reader.odd = {} => CutsAtSeparators /\ NothingLost

\* A statement taken out of a script is one statement, the same one: the app
\* may run what it highlighted and nothing is split or dropped on the way.
\* Three things are outside it, all of SQL Server: a line GO inside a literal
\* or a comment, what the scan takes for such a literal, and a batch of comments
\* only, which is kept.
SplitIsStable ==
  (engine = "sqlserver" => LinesInCode /\ reader.odd = {}) =>
    \A st \in ToSet(Statements) :
       LET again == SplitStatements(engine, st.text)
       IN  \/ Len(again) = 1 /\ again[1].text = st.text
           \/ engine = "sqlserver" /\ IsOnlyComments(st.text)

\* What scanKeywords, which knows no engine, takes for the start of a literal:
\* a dollar outside PostgreSQL, a bracket and a backtick where they quote no name.
\* Nor does it know # comments; the strings and names SplitStatements does not
\* know it does.
ScannedAsRead(t, r) ==
  LET foreign == {"$", "[", "backtick"} \ (Opens(engine) \cup (IF engine = "postgres" THEN {"$"} ELSE {}))
  IN  /\ r.odd \subseteq {"string", "name"}
      /\ \A i \in 1..Len(t) : /\ t[i] \in foreign => r.kinds[i] # "code"
                              /\ t[i] = "#" => r.kinds[i] # "comment"


\* IsReadOnly: "anything not positively recognised as a read is refused".  The
\* code does not keep it, of EXPLAIN ANALYZE nor behind a backslash.
ReadsWriteNothing ==
  \A st \in ToSet(Statements) :
     IsReadOnly(st.text) => ~Says(st.text, ReadOn(engine, Blank, st.text, 0).kinds, "DELETE")

IsOneRead(sql) ==
  LET cut == SplitStatements(engine, sql)
  IN  /\ Len(cut) = 1 /\ cut[1].text = sql
      /\ IsReadOnly(sql) /\ RunsAsQuery(sql)

\* QuoteIdentifier: "The closing delimiter is doubled inside the name, which is
\* the escape every one of these dialects uses".  So the statements the core
\* writes to preview a table and to count it are, to the core that runs them,
\* one statement each, a read and a query.
PreviewOfAnyName ==
  text # <<>> =>
    \A sql \in {PreviewSQL(engine, <<"S">>, text), CountSQL(engine, <<"S">>, text)} :
       (engine = "sqlserver" => GoLines(sql) = {}) => IsOneRead(sql)

\* They are, whatever the table is called, but for what the scan does not know
\* of a name: that a bracket in it is doubled, a backslash stands for itself,
\* and a line GO in it ends no batch.
PreviewIsOneRead ==
  /\ engine = "sqlserver" => "]" \notin ToSet(text)
  /\ engine # "sqlserver" => "\\" \notin ToSet(text)
  => PreviewOfAnyName

\* SplitStatements: "A semicolon inside a string literal, a comment, a
\* PostgreSQL dollar-quoted body, or a bracketed identifier is not a
\* separator".
LiteralsStayWhole ==
  reader.mode = "code" =>
    \A st \in ToSet(Statements) : st.end = Len(text) \/ reader.kinds[st.end] = "code"
=============================================================================
