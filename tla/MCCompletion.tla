---------------------------- MODULE MCCompletion -----------------------------
(***************************************************************************)
(* The servers the runs of Completion ask: two schemas that both have a    *)
(* table ORDERS, before and after it is altered.                           *)
(***************************************************************************)
EXTENDS Completion

Engines == {"sqlserver", "postgres", "mysql", "sqlite"}

Orders == <<"OR", "DERS">>
Total  == <<"TO", "TAL">>
Id     == <<"ID">>
Tax    == <<"TAX">>
Sales  == <<"SALES">>

\* In PostgreSQL a table beside ORDERS whose name differs in case.
Mixed     == <<"Or", "DERS">>
MCLowered == "Or" :> "OR"

MCAlphabet ==
  <<" ", "BY", "DBO", "DERS", "EXPRESSION", "FROM", "GROUP", "ID", "MAIN", "NET", "O",
    "OR", "Or", "PAY", "PRIMARY", "PUBLIC", "SALES", "SELECT", "SHOP", "SQLITE", "TAL", "TAX", "TO", "UX">>
MCKeywords == <<<<"SELECT">>, <<"FROM">>, <<"GROUP", " ", "BY">>, <<"OR">>>>

Home1(e) == CASE e = "sqlserver" -> <<"DBO">>
              [] e = "postgres"  -> <<"PUBLIC">>
              [] e = "mysql"     -> <<"SHOP">>
              [] e = "sqlite"    -> NoName

Type(e, sqlServer) == IF e = "sqlserver" THEN sqlServer ELSE Typed("integer", 0)

Col(where, table, name, n, type) ==
  [schema |-> where, table |-> table, name |-> name, at |-> n, type |-> type,
   nullable |-> FALSE, default |-> "", key |-> FALSE, auto |-> FALSE, dropped |-> FALSE]
Ix(where, table, name, n, keys) ==
  [schema |-> where, table |-> table, name |-> name, at |-> n, keys |-> keys,
   included |-> <<>>, unique |-> TRUE, primary |-> FALSE]
Tab(where, name, granted) ==
  [schema |-> where, name |-> name, type |-> "table", estimate |-> 7, granted |-> granted]

\* Later adds a column to ORDERS and takes an index away.
Catalog(e, later) ==
  LET home   == Home1(e)
      schemas == {home} \cup (IF e = "sqlite" THEN {} ELSE {Sales})
      cols == {[Col(home, Orders, Id, 1, Type(e, Typed("decimal", 9))) EXCEPT !.key = TRUE],
               [Col(home, Orders, <<"NET">>, 2, Typed("money", 0)) EXCEPT !.dropped = TRUE],
               [Col(home, Orders, Total, 3, Type(e, Typed("nvarchar", 20))) EXCEPT !.key = TRUE],
               Col(Sales, Orders, Total, 1, Type(e, Typed("nvarchar", -1))),
               [Col(Sales, Orders, <<"TO">>, 2, Type(e, Typed("datetime2", 0)))
                  EXCEPT !.nullable = TRUE],
               Col(home, <<"PAY">>, Id, 1, Type(e, Typed("varchar", 5))),
               Col(home, <<"PAY", " ", "UX">>, Tax, 1, Type(e, Typed("float", 0)))}
              \cup (IF e = "postgres" THEN {Col(home, Mixed, Tax, 1, Typed("integer", 0))} ELSE {})
              \cup IF later THEN {Col(home, Orders, Tax, 4, Type(e, Typed("float", 0)))} ELSE {}
  IN  [schemas   |-> {[name |-> s, hidden |-> FALSE] : s \in schemas}
                      \cup {[name |-> <<"NET">>, hidden |-> TRUE]},
       databases |-> {[name |-> IF n = 1 THEN home ELSE <<"NET">>, at |-> n, open |-> TRUE,
                       system |-> n = 2, granted |-> n = 1 \/ e = "postgres"] : n \in 1..2},
       current   |-> IF e = "postgres" THEN <<"NET">> ELSE home,
       tables    |-> {t \in {Tab(home, Orders, TRUE), Tab(home, <<"PAY">>, TRUE),
                             Tab(home, <<"PAY", " ", "UX">>, TRUE),
                             Tab(home, <<"NET">>, FALSE), Tab(Sales, Orders, TRUE)}
                             \cup (IF e = "postgres" THEN {Tab(home, Mixed, TRUE)} ELSE {})
                             \cup (IF e = "sqlite" THEN {Tab(home, <<"SQLITE", "TAX">>, TRUE)}
                                   ELSE {}) :
                        t.schema \in schemas},
       columns   |-> {c \in cols : c.schema \in schemas
                                   /\ (c.dropped => e = "postgres")},
       indexes   |-> {i \in {[Ix(home, Orders, <<"PRIMARY">>, 1, <<Total, Id>>)
                                EXCEPT !.primary = TRUE],
                             Ix(Sales, Orders, <<"UX">>, 1, <<Total>>)}
                             \cup (IF later THEN {} ELSE {Ix(home, Orders, <<"UX">>, 2, <<Id, Total>>)})
                             \cup {Ix(home, <<"PAY">>, <<"UX">>, 1, <<Expression, Id>>)} :
                        i.schema \in schemas},
       keys      |-> {[schema |-> IF e = "sqlite" THEN home ELSE Sales, table |-> Orders,
                       name |-> <<"O">>, at |-> 0, columns |-> <<Total, <<"TO">>>>,
                       refSchema |-> home, refTable |-> Orders,
                       refColumns |-> IF e = "sqlite" THEN <<>> ELSE <<Total, Id>>,
                       onDelete |-> "CASCADE", onUpdate |-> "NO ACTION"]},
       routines  |-> IF e = "sqlite" THEN {}
                     ELSE {[schema |-> home, name |-> <<"OR">>, type |-> "function",
                            at |-> 1, source |-> "text"],
                           [schema |-> Sales, name |-> <<"TAX">>, type |-> "procedure",
                            at |-> 2, source |-> ""]}]

MCCatalogs == [e \in Engines |-> [n \in 1..2 |-> Catalog(e, n = 2)]]

Of(where, name, alias, as) ==
  [schema |-> where, name |-> name, alias |-> alias, as |-> as, comma |-> FALSE]
Then(where, name, alias) == [Of(where, name, alias, FALSE) EXCEPT !.comma = TRUE]
Query(before, ofs, n, prefix, quoted) ==
  [before |-> before, tables |-> ofs, of |-> n, prefix |-> prefix, quoted |-> quoted]

Before == <<"DELETE", " ", "FROM", " ", "PAY", " ", "O", ";">>
Queried(e) ==
  {Query(<<>>, <<Of(NoName, Orders, NoName, FALSE)>>, 1, <<>>, FALSE),
   Query(Before, <<Of(NoName, Orders, <<"O">>, TRUE), Of(NoName, <<"PAY">>, NoName, FALSE)>>,
         1, <<"TO">>, TRUE),
   Query(<<>>, <<Of(NoName, <<"PAY">>, <<"UX">>, FALSE), Then(NoName, Orders, NoName)>>,
         2, <<>>, FALSE)}
  \cup (IF e = "postgres" THEN {Query(<<>>, <<Of(NoName, Mixed, <<"O">>, FALSE)>>, 1, <<>>, TRUE)}
        ELSE {})
  \cup IF e = "sqlite" THEN {}
       ELSE {Query(<<>>, <<Of(Sales, Orders, <<"O">>, FALSE), Of(Home1(e), <<"PAY">>, <<"UX">>, TRUE)>>,
                   1, <<"TAL">>, TRUE),
             Query(<<"-", "-", "O", "\n">>,
                   <<Of(NoName, <<"PAY">>, <<"UX">>, FALSE), Of(Sales, Orders, <<"O">>, TRUE)>>,
                   2, <<>>, FALSE)}
FromText == <<"SELECT", " ", "*", " ", "FROM", " ", "OR">>
BareText == <<"SELECT", " ", "TO", " ", "FROM", " ">> \o Orders

Completions(e) ==
  {Written(e, q) : q \in Queried(e)}
  \cup {[op |-> "complete", text |-> FromText, cursor |-> Len(FromText), from |-> <<"OR">>]}

Others(e) ==
  {[op |-> "complete", text |-> BareText, cursor |-> 3],
   [op |-> "table", schema |-> Home1(e), name |-> Orders],
   [op |-> "table", schema |-> IF e = "sqlite" THEN NoName ELSE Sales, name |-> Orders],
   [op |-> "tables", schema |-> NoName],
   [op |-> "databases", file |-> NoName],
   [op |-> "schemas"],
   [op |-> "routineDefinition", schema |-> Home1(e), name |-> <<"OR">>]}

\* For OffersOnlyItsColumns: a name with a blank, a table behind a comma, and in
\* PostgreSQL two names of one key.
Awkward(e) ==
  {Written(e, q) :
     q \in {Query(<<>>, <<Of(NoName, <<"PAY", " ", "UX">>, <<"O">>, FALSE)>>, 1, <<>>, TRUE),
            Query(<<>>, <<Of(NoName, <<"PAY">>, NoName, FALSE), Then(NoName, Orders, NoName)>>,
                  2, <<>>, FALSE)}}
MCAwkward ==
  [e \in Engines |-> [n \in 1..2 |-> Awkward(e) \cup Completions(e)]]

\* The first call asks anything, the others what shares the caches with it.
MCRequests ==
  [e \in Engines |-> [n \in 1..2 |-> Completions(e) \cup IF n = 1 THEN Others(e) ELSE {}]]
=============================================================================
