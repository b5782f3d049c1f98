------------------------------ MODULE SqlText -------------------------------
(***************************************************************************)
(* Reading SQL text without parsing it (core/dbcore/sqltext.go): where one *)
(* statement ends and the next begins, and what a statement is going to    *)
(* do; and the few statements the core writes itself (engine.go,           *)
(* introspect.go).                                                         *)
(*                                                                         *)
(* A text is a sequence of symbols.  A mark is the character it looks      *)
(* like (only the backtick is spelled), and so is a digit; any other       *)
(* symbol is a word of letters, in capitals, that stands for itself: words *)
(* that touch are one longer word.  Positions count from 1 and the end of  *)
(* a text is one past its last symbol; the offsets of a statement are the  *)
(* code's, from 0.                                                         *)
(***************************************************************************)
EXTENDS Integers, Sequences, SequencesExt, FiniteSetsExt

Space  == {" ", "\n"}
Digits == {"0", "1"}
Marks  == Space \cup {"'", "\"", "backtick", "[", "]", "-", "#", "/", "*", "$", ";",
                      "(", ")", "\\", "=", ".", ",", "+"}

IsIdent(c)  == c \notin Marks
IsLetter(c) == IsIdent(c) /\ c \notin Digits

Position == Nat \ {0}

\* The symbols s stand in t at position i.
At(t, i, s) == i + Len(s) - 1 <= Len(t) /\ SubSeq(t, i, i + Len(s) - 1) = s

\* The first position from i on that holds a symbol of S, or the end.
From(t, i, S) == Min({j \in i..Len(t) : t[j] \in S} \cup {Len(t) + 1})

\* The end of the identifier at i.
WordEnd(t, i) == Min({j \in i..Len(t) : ~IsIdent(t[j])} \cup {Len(t) + 1})

TrimSpace(t) ==
  LET ink == {i \in 1..Len(t) : t[i] \notin Space}
  IN  IF ink = {} THEN <<>> ELSE SubSeq(t, Min(ink), Max(ink))

-----------------------------------------------------------------------------
(* What a scan steps over whole.  Each answers the position after it.      *)

SkipQuoted(t, i, quote) ==
  LET end[j \in Position] ==
        IF j > Len(t) THEN j
        ELSE IF At(t, j, <<quote, quote>>) \/ (t[j] = "\\" /\ j < Len(t))
             THEN end[j + 2]
        ELSE IF t[j] = quote THEN j + 1
        ELSE end[j + 1]
  IN  end[i + 1]

SkipUntil(t, i, c)    == Min({From(t, i, {c}), Len(t)}) + 1
SkipLineComment(t, i) == From(t, i, {"\n"})

SkipBlockComment(t, i) ==
  LET end[j \in Position] == [depth \in Nat |->
        IF depth = 0 \/ j > Len(t) THEN j
        ELSE IF At(t, j, <<"/", "*">>) THEN end[j + 2][depth + 1]
        ELSE IF At(t, j, <<"*", "/">>) THEN end[j + 2][depth - 1]
        ELSE end[j + 1][depth]]
  IN  end[i + 2][1]

\* $tag$ ... $tag$; a dollar that opens no tag is stepped over alone.
SkipDollarQuoted(t, i) ==
  LET j == WordEnd(t, i + 1)
      tag == SubSeq(t, i, j)
      closes == {k \in (j + 1)..Len(t) : At(t, k, tag)}
  IN  IF j > Len(t) \/ t[j] # "$" THEN i + 1
      ELSE IF closes = {} THEN Len(t) + 1
      ELSE Min(closes) + Len(tag)

\* Mistake: the semicolons of a dollar-quoted body separate statements.
SplittingBodies(engine) ==
  [quotes   |-> {"'", IF engine = "mysql" THEN "backtick" ELSE "\""},
   brackets |-> engine = "sqlserver",
   dollars  |-> FALSE,
   hashes   |-> engine = "mysql"]

\* What the scans of the code step over: the quotes they know, [names],
\* dollar quotes and # comments.
Splitting(engine) ==
  [quotes   |-> {"'", IF engine = "mysql" THEN "backtick" ELSE "\""},
   brackets |-> engine = "sqlserver",
   dollars  |-> engine = "postgres",
   hashes   |-> engine = "mysql"]

AnyEngine  == [quotes |-> {"'", "\"", "backtick"}, brackets |-> TRUE,
               dollars |-> TRUE, hashes |-> FALSE]
OnlyQuotes == [quotes |-> {"'"}, brackets |-> FALSE,
               dollars |-> FALSE, hashes |-> FALSE]

Jump(t, i, rules) ==
  CASE t[i] \in rules.quotes -> SkipQuoted(t, i, t[i])
    [] t[i] = "[" /\ rules.brackets -> SkipUntil(t, i + 1, "]")
    [] At(t, i, <<"-", "-">>) \/ (t[i] = "#" /\ rules.hashes) -> SkipLineComment(t, i)
    [] At(t, i, <<"/", "*">>) -> SkipBlockComment(t, i)
    [] t[i] = "$" /\ rules.dollars -> SkipDollarQuoted(t, i)
    [] OTHER -> i + 1

\* The positions a scan stops at: what is code and not literal or comment.
Stops(t, rules) ==
  LET from[i \in Position] == IF i > Len(t) THEN {} ELSE {i} \cup from[Jump(t, i, rules)]
  IN  from[1]

-----------------------------------------------------------------------------
(* The first keyword, behind blanks, comments and opening parentheses.     *)

StripLeading(t) ==
  LET start[i \in Position] ==
        IF i > Len(t) THEN i
        ELSE IF t[i] \in Space \cup {"("} THEN start[i + 1]
        ELSE IF At(t, i, <<"-", "-">>) THEN start[SkipLineComment(t, i)]
        ELSE IF At(t, i, <<"/", "*">>) THEN start[SkipBlockComment(t, i)]
        ELSE i
  IN  SubSeq(t, start[1], Len(t))

IsOnlyComments(t) == StripLeading(t) = <<>>

\* The word a sequence of symbols is, if it is a single one.
Word(s) == IF Len(s) = 1 THEN s[1] ELSE "longer"

FirstKeyword(t) ==
  LET s == StripLeading(t)
      rest == {j \in 1..Len(s) : ~IsLetter(s[j])} \cup {Len(s) + 1}
  IN  Word(SubSeq(s, 1, Min(rest) - 1))

-----------------------------------------------------------------------------
(* SplitStatements.                                                        *)

\* The text cut where the pieces start, each up to its end.
Piece(t, from, to) == TrimSpace(SubSeq(t, from, to))
Cut(t, end) ==
  LET starts == DOMAIN end
  IN  [k \in 1..Cardinality(starts) |->
         LET from == CHOOSE i \in starts : Cardinality({j \in starts : j <= i}) = k
         IN  [text |-> Piece(t, from, end[from]), start |-> from - 1, end |-> end[from]]]

Fields(t) ==
  LET starts == {i \in 1..Len(t) : /\ t[i] \notin Space
                                   /\ i = 1 \/ t[i - 1] \in Space}
      pieces == Cut(t, [i \in starts |-> From(t, i, Space) - 1])
  IN  [k \in DOMAIN pieces |-> pieces[k].text]

\* What Atoi takes: digits, behind a sign or none.
IsCount(s) ==
  LET digits == IF s[1] \in {"-", "+"} THEN Tail(s) ELSE s
  IN  digits # <<>> /\ ToSet(digits) \subseteq Digits

IsGoSeparator(line) ==
  LET f == Fields(line)
  IN  /\ Len(f) \in {1, 2}
      /\ f[1] = <<"GO">>
      /\ Len(f) = 2 => IsCount(f[2])

LineStarts(t) == {1} \cup {i + 1 : i \in {j \in 1..Len(t) : t[j] = "\n"}}

\* Mistake: only the first GO line separates batches.
FirstGoLine(t) ==
  LET gos == {i \in LineStarts(t) : IsGoSeparator(SubSeq(t, i, SkipLineComment(t, i) - 1))}
  IN  {g \in gos : g = Min(gos)}

GoLines(t) ==
  {i \in LineStarts(t) : IsGoSeparator(SubSeq(t, i, SkipLineComment(t, i) - 1))}

SplitOnGoBatches(statements) ==
  LET batches(st) ==
        LET t      == st.text
            End(i) == Min({g \in GoLines(t) : g >= i} \cup {Len(t) + 1}) - 1
            starts == {1} \cup {SkipLineComment(t, i) + 1 : i \in GoLines(t)}
            kept   == {i \in starts : Piece(t, i, End(i)) # <<>>}
            parts  == Cut(t, [i \in kept |-> End(i)])
        IN  [k \in DOMAIN parts |-> [st EXCEPT !.text = parts[k].text]]
  IN  FlattenSeq([k \in DOMAIN statements |-> batches(statements[k])])

SplitStatements(engine, t) ==
  LET ends   == {i \in Stops(t, Splitting(engine)) : t[i] = ";"} \cup {Len(t)}
      End(i) == Min({e \in ends : e >= i})
      starts == {1} \cup {i + 1 : i \in ends \ {Len(t)}}
      kept   == {i \in starts : ~IsOnlyComments(Piece(t, i, End(i)))}
      cut    == Cut(t, [i \in kept |-> End(i)])
  IN  IF t = <<>> THEN <<>>
      ELSE IF engine = "sqlserver" THEN SplitOnGoBatches(cut) ELSE cut

-----------------------------------------------------------------------------
(* What a statement will do.                                               *)

ContainsWord(t, word) ==
  \E j \in 1..Len(t) : /\ t[j] = word
                       /\ j = 1 \/ ~IsIdent(t[j - 1])
                       /\ j = Len(t) \/ ~IsIdent(t[j + 1])

ScanKeywords(t) ==
  LET words[i \in Position] ==
        IF i > Len(t) THEN <<>>
        ELSE IF IsLetter(t[i])
             THEN <<Word(SubSeq(t, i, WordEnd(t, i) - 1))>> \o words[WordEnd(t, i)]
        ELSE words[Jump(t, i, AnyEngine)]
  IN  words[1]


ClassifyCTE(t) ==
  IF ToSet(ScanKeywords(t)) \cap {"INSERT", "UPDATE", "DELETE", "MERGE"} # {}
  THEN "dml" ELSE "select"

Classify(t) ==
  LET first == FirstKeyword(t)
  IN  CASE first \in {"SELECT", "TABLE", "VALUES"} -> "select"
        [] first = "WITH" -> ClassifyCTE(t)
        [] first \in {"INSERT", "UPDATE", "DELETE", "MERGE", "REPLACE", "UPSERT",
                      "COPY", "LOAD", "CALL", "EXEC", "EXECUTE"} -> "dml"
        [] first \in {"CREATE", "ALTER", "DROP", "TRUNCATE", "RENAME", "COMMENT",
                      "GRANT", "REVOKE", "VACUUM", "REINDEX", "ANALYZE", "CLUSTER"} -> "ddl"
        [] first \in {"BEGIN", "START", "COMMIT", "ROLLBACK", "SAVEPOINT",
                      "RELEASE", "END"} -> "tx"
        [] first \in {"SET", "USE", "SHOW", "EXPLAIN", "DESCRIBE", "DESC", "PRAGMA",
                      "RESET", "DECLARE", "PRINT", "CHECKPOINT"} -> "utility"
        [] OTHER -> "other"

IsReadOnly(t) ==
  \/ Classify(t) = "select"
  \/ FirstKeyword(t) \in {"SHOW", "EXPLAIN", "DESCRIBE", "DESC", "PRINT"}
  \/ FirstKeyword(t) = "PRAGMA" /\ ~Contains(t, "=")

\* query.go: the statements that are read with Query and not run with Exec.
ReturnsRows(t) ==
  LET returning == ContainsWord(t, "RETURNING") \/ ContainsWord(t, "OUTPUT")
      first     == FirstKeyword(t)
  IN  \/ first \in {"INSERT", "UPDATE", "DELETE", "MERGE"} /\ returning
      \/ first = "WITH" /\ (Classify(t) = "select" \/ returning)
      \/ first \in {"SHOW", "EXPLAIN", "DESCRIBE", "DESC", "PRAGMA",
                    "CALL", "EXEC", "EXECUTE"}

RunsAsQuery(t) == Classify(t) = "select" \/ ReturnsRows(t)

-----------------------------------------------------------------------------
(* What the core writes: the name of a table, and the statement that reads *)
(* it.  A number is one symbol.                                            *)

Doubling(name, c) ==
  FlattenSeq([i \in DOMAIN name |-> IF name[i] = c THEN <<c, c>> ELSE <<name[i]>>])

\* Mistake: a quote inside a name is not doubled.
QuoteUnescaped(engine, name) == <<"\"">> \o name \o <<"\"">>

QuoteIdentifier(engine, name) ==
  CASE engine = "sqlserver" -> <<"[">> \o Doubling(name, "]") \o <<"]">>
    [] engine = "mysql" -> <<"backtick">> \o Doubling(name, "backtick") \o <<"backtick">>
    [] OTHER -> <<"\"">> \o Doubling(name, "\"") \o <<"\"">>

Qualify(engine, schema, table) ==
  IF schema = <<>> THEN QuoteIdentifier(engine, table)
  ELSE QuoteIdentifier(engine, schema) \o <<".">> \o QuoteIdentifier(engine, table)

PreviewSQL(engine, schema, table) ==
  IF engine = "sqlserver"
  THEN <<"SELECT", " ", "TOP", " ", "1", " ", "*", " ", "FROM", " ">>
       \o Qualify(engine, schema, table)
  ELSE <<"SELECT", " ", "*", " ", "FROM", " ">> \o Qualify(engine, schema, table)
       \o <<" ", "LIMIT", " ", "1">>

CountSQL(engine, schema, table) ==
  <<"SELECT", " ", "COUNT", "(", "*", ")", " ", "AS", " ", "ROWCOUNT", " ", "FROM", " ">>
  \o Qualify(engine, schema, table)
=============================================================================
