---------------------------- MODULE MCWorkbench -----------------------------
(***************************************************************************)
(* The inputs of the runs of Workbench.                                    *)
(***************************************************************************)
EXTENDS Workbench

\* Scripts: what every engine has, and the literals and comments of each, those
\* among them that the code does not know.  A name or comment typed whole has a
\* semicolon in it.
Everywhere == {<<";">>, <<"'">>, <<"\\", "'">>, <<"-", "-">>, <<"\n">>, <<"DELETE">>}
Whole(open, close) == open \o <<";">> \o close

MCPhrases ==
  [e \in Engines |->
     Everywhere \cup
     CASE e = "postgres"  -> {<<"\"">>, <<"$">>, <<"x", "$">>, <<"E", "'">>, <<"/", "*">>, <<"*", "/">>}
       [] e = "sqlserver" -> {<<"[">>, <<"]">>, <<"]", "]">>, <<"\n", "GO", "\n">>, <<"/", "*">>, <<"*", "/">>}
       [] e = "mysql"     -> {<<"\"">>, Whole(<<"backtick">>, <<"backtick">>),
                              <<"#">>, Whole(<<"/", "*", "/", "*">>, <<"*", "/">>),
                              <<"$", "$">>, <<" ", "RETURNING">>}
       [] e = "sqlite"    -> {<<"\"">>, Whole(<<"/", "*">>, <<"*", "/">>), Whole(<<"[">>, <<"]">>),
                              <<"(">>, <<" ", "RETURNING">>}]
MCOpenings == {<<>>, <<"WITH", " ">>, <<"DELETE", " ">>}

\* For LiteralsStayWhole: a string as MySQL writes it.
MySQLPhrases == [e \in {"mysql"} |-> {<<"\"">>, <<"'">>, <<";">>, <<"SELECT">>, <<"\n">>}]

EmptyScript == {<<>>}

\* For ReadsWriteNothing: what PostgreSQL runs when it is told to explain.
ReadOpenings == {<<"WITH", " ">>, <<"EXPLAIN", " ", "ANALYZE", " ">>}

\* For PreviewOfAnyName: the name of a PostgreSQL table.
PostgresNames == [e \in {"postgres"} |-> {<<"\"">>, <<";">>, <<"\\">>}]

\* Results: three columns whose names meet, or two of the types that differ
\* in how their values come and are told.
VarChar == <<"VAR", "CHAR">>
Named   == {<<"a">>, <<"">>, <<"a", 2>>, <<"column2">>}
Typed   == {<<>>, <<"BYTEA">>, <<"DECIMAL">>, VarChar, <<"DATE">>, <<"BIT">>}
MCHeadings ==
  {[i \in 1..3 |-> [name |-> n[i], type |-> <<"DATE">>]] : n \in [1..3 -> Named]}
  \cup {<<[name |-> <<"a">>, type |-> t], [name |-> <<"b">>, type |-> u]>> :
          t \in Typed, u \in Typed}

MCLimits == {-1, 0, 1}

Value(sort, content) == [sort |-> sort, content |-> content]
MCSent(type) ==
  {Value("nil", "none")} \cup
  CASE type = <<>>         -> {Value("bytes", "text"), Value("bytes", "binary"),
                               Value("float", "huge"), Value("string", "empty")}
    [] type = <<"BYTEA">>  -> {Value("bytes", "text"), Value("bytes", "binary")}
    [] type = VarChar      -> {Value("string", "empty"), Value("bytes", "text"),
                               Value("bytes", "binary")}
    [] type = <<"DECIMAL">> -> {Value("bytes", "text"), Value("float", "plain")}
    [] type = <<"DATE">>   -> {Value("time", "noon")}
    [] type = <<"BIT">>    -> {Value("bool", "true"), Value("bytes", "binary")}

\* Forms: one entry of every way a field can be right or wrong.
MCEntries ==
  [host |-> {"h", " "}, port |-> {0, 5432, 65536, Junk}, database |-> {"", "d"},
   user |-> {"u", "DOMAIN\\user", ""}, file |-> {"f", ""}, auth |-> {"sql", "windows"},
   tls |-> {"disable", "prefer", "require", "verify"}, readOnly |-> {TRUE}]
MCExisting ==
  {[NewForm EXCEPT !.engine = e, !.host = "h", !.user = "u", !.params = p, !.rawDsn = r] :
     e \in {"postgres", "mysql"},
     p \in {<<>>, "sslmode" :> "disable"}, r \in {"", "dsn"}}
=============================================================================
