----------------------------- MODULE Completion ------------------------------
(***************************************************************************)
(* The calls that read a session's catalog (the catalog operations of      *)
(* protocol.go): completion with its caches (core/dbcore/complete.go), the *)
(* description of a table, the listings of the explorer (introspect.go,    *)
(* routines.go).  Each call runs on a goroutine of its own; a query of the *)
(* server answers, is refused, or panics in the driver, and the catalog is *)
(* altered by others meanwhile.                                            *)
(*                                                                         *)
(* A name is spelled as the server keeps it; of a symbol in the other case *)
(* Lowered says what lower case makes of it.  The cursor is the number of  *)
(* symbols before it.                                                      *)
(***************************************************************************)
EXTENDS Introspection, TLC

CONSTANTS
  NumCalls,        \* bound: the calls of a behaviour
  Requests,        \* of each engine: what the n-th call may ask
  Catalogs,        \* of each engine: the catalogs it goes through
  Lowered,         \* strings.ToLower, of the symbols it changes
  Keywords,        \* sqlKeywords
  MaxSuggestions   \* 40 in the code

ASSUME CallsAssumption == NumCalls \in Nat \ {0}

Calls    == 1..NumCalls
None     == 0     \* no call
Finished == -1    \* schemaOnce is done
Refused  == 0     \* what a refused query was answered from

VARIABLES
  engine,      \* the engine of the session
  at,          \* which of its catalogs the server holds
  once,        \* schemaOnce: None, the call inside it, or Finished
  schema,      \* cachedSchema
  mu,          \* catalog.mu: the call that holds it across queries, or None
  fetched,     \* catalog.fetched
  tables,      \* catalog.tables
  columns,     \* catalog.columns
  call         \* the calls

vars   == <<engine, at, once, schema, mu, fetched, tables, columns, call>>
caches == <<once, schema, mu, fetched, tables, columns>>

Seen(n) == Catalogs[engine][n]
db      == Seen(at)

Lower(name) == [i \in DOMAIN name |-> IF name[i] \in DOMAIN Lowered THEN Lowered[name[i]]
                                       ELSE name[i]]

-----------------------------------------------------------------------------
(* What the text says about the cursor.                                    *)

WordBefore(t, cursor) ==
  LET gaps  == {i \in 1..cursor : ~IsIdent(t[i])} \cup {0}
  IN  [prefix |-> SubSeq(t, Max(gaps) + 1, cursor), start |-> Max(gaps)]

QualifierBefore(t, start) ==
  IF start = 0 \/ t[start] # "." THEN NoName ELSE WordBefore(t, start - 1).prefix

LastWords(t, n) ==
  LET all == ScanKeywords(t)
  IN  Reverse(SubSeq(all, Max({1, Len(all) - n + 1}), Len(all)))

BeforeTables  == {"FROM", "JOIN", "INTO", "UPDATE", "TABLE", "DESCRIBE", "DESC"}
BeforeColumns == {"SELECT", "WHERE", "AND", "OR", "ON", "BY", "HAVING", "SET", "VALUES"}

ContextBefore(t, start) ==
  LET telling == SelectSeq(LastWords(SubSeq(t, 1, start), 3),
                           LAMBDA w : w \in BeforeTables \cup BeforeColumns)
  IN  IF telling = <<>> THEN "anything"
      ELSE IF Head(telling) \in BeforeTables THEN "table" ELSE "column"

StatementAround(e, t, cursor) ==
  LET around == SelectSeq(SplitStatements(e, t),
                          LAMBDA st : cursor \in st.start..st.end)
  IN  IF around = <<>> THEN t ELSE Head(around).text

IdentifierSequence(t) ==
  LET quoting == {"\"", "[", "]", "backtick"}
      end(i)  == Min({j \in i..Len(t) : ~IsIdent(t[j]) /\ t[j] \notin quoting \cup {"."}}
                     \cup {Len(t) + 1})
      names[i \in Nat] ==
        IF i > Len(t) THEN <<>>
        ELSE IF IsLetter(t[i]) \/ t[i] \in quoting \ {"]"}
             THEN <<SelectSeq(SubSeq(t, i, end(i) - 1), LAMBDA c : c \notin quoting)>>
                  \o names[end(i)]
        ELSE names[Jump(t, i, OnlyQuotes)]
  IN  names[1]

IsReservedFollower(name) ==
  Word(name) \in {"WHERE", "JOIN", "INNER", "LEFT", "RIGHT", "FULL", "CROSS", "ON",
                  "GROUP", "ORDER", "HAVING", "LIMIT", "UNION", "SET", "VALUES",
                  "SELECT", "OFFSET", "FETCH", "USING", "WITH", "RETURNING", "OUTPUT"}

\* A name cut at its first dot.
Ref(name) ==
  LET dots == {i \in DOMAIN name : name[i] = "."}
  IN  IF dots = {} THEN [schema |-> NoName, name |-> name]
      ELSE [schema |-> SubSeq(name, 1, Min(dots) - 1),
            name   |-> SubSeq(name, Min(dots) + 1, Len(name))]

\* The tables a statement names, each under its name and under its alias, in
\* the order in which they are found: the last to take a name keeps it.
ReferencesAmong(names) ==
  LET alias(i) == IF i > Len(names) THEN NoName
                  ELSE IF names[i] = <<"AS">> /\ i < Len(names) THEN names[i + 1]
                  ELSE names[i]
      aliases(i) == alias(i) # NoName /\ ~Contains(alias(i), ".")
                    /\ ~IsReservedFollower(alias(i))
      found(i) ==
        LET ref == Ref(names[i + 1])
        IN  IF \/ Word(names[i]) \notin {"FROM", "JOIN", "UPDATE", "INTO"}
               \/ IsReservedFollower(names[i + 1])
               \/ ref.name = NoName
            THEN <<>>
            ELSE <<[called |-> Lower(ref.name), ref |-> ref]>>
                 \o (IF aliases(i + 2) THEN <<[called |-> Lower(alias(i + 2)), ref |-> ref]>>
                     ELSE <<>>)
  IN  FlattenSeq([i \in 1..(Len(names) - 1) |-> found(i)])

TableReferences(statement) == ReferencesAmong(IdentifierSequence(statement))

\* The map of them: what a name stands for, if anything.
Standing(refs, name) == SelectSeq(refs, LAMBDA r : r.called = Lower(name))

\* The schema and the name of a table in one, in lower case.
KeyOf(table) == Lower(table[1] \o <<".">> \o table[2])

\* Two of one name come in either order in the code, and of two that differ in
\* case only either is left, which decides nothing but the detail shown with a
\* column that both have, or which of two tables with one entry is asked for.
UniqueRefs(refs) ==
  LET kept == {i \in DOMAIN refs : \A j \in (i + 1)..Len(refs) : refs[j].called # refs[i].called}
      key(i) == KeyOf(<<refs[i].ref.schema, refs[i].ref.name>>)
  IN  Sorted({refs[i].ref : i \in {k \in kept : \A j \in kept : key(j) = key(k) => j <= k}},
             LAMBDA a, b : \/ NameBefore(a.name, b.name)
                           \/ a.name = b.name /\ NameBefore(a.schema, b.schema))

ColumnsOf(ref)  == [kind |-> "columns", ref |-> ref]
TheTables       == [kind |-> "tables"]
TheKeywords     == [kind |-> "keywords"]

ColumnsOfName(refs, name) ==
  IF Standing(refs, name) # <<>> THEN ColumnsOf(Last(Standing(refs, name)).ref)
  ELSE ColumnsOf([schema |-> NoName, name |-> name])

ColumnsOfAll(refs) == [k \in DOMAIN refs |-> ColumnsOf(refs[k])]

\* What Complete puts together, in its order.
PlanFrom(refs, qualifier, context) ==
  CASE qualifier # NoName   -> <<ColumnsOfName(refs, qualifier)>>
    [] context = "table"    -> <<TheTables>>
    [] context = "column"   -> ColumnsOfAll(UniqueRefs(refs)) \o <<TheTables, TheKeywords>>
    [] context = "anything" -> <<TheKeywords, TheTables>>

Plan(e, t, cursor) ==
  LET word == WordBefore(t, cursor)
  IN  PlanFrom(TableReferences(StatementAround(e, t, cursor)),
               QualifierBefore(t, word.start), ContextBefore(t, word.start))

\* The plan of every request there is: a text and a cursor decide it alone.
Plans ==
  [e \in DOMAIN Catalogs |->
     [req \in {r \in UNION ToSet(Requests[e]) : r.op = "complete"} |->
        Plan(e, req.text, req.cursor)]]

-----------------------------------------------------------------------------
(* What is offered.                                                        *)

ColumnSuggestions(cols) ==
  [k \in DOMAIN cols |-> [text |-> cols[k].name, kind |-> "column", detail |-> cols[k].type.name]]

TableSuggestions(rows) ==
  [k \in DOMAIN rows |->
     [text |-> rows[k].name, kind |-> rows[k].type,
      detail |-> IF rows[k].schema # NoName THEN rows[k].schema ELSE <<rows[k].type>>]]

KeywordSuggestions ==
  [k \in DOMAIN Keywords |-> [text |-> Keywords[k], kind |-> "keyword", detail |-> NoName]]

Matches(prefix, text) == \E i \in DOMAIN text : At(Lower(text), i, Lower(prefix))

Score(prefix, s) ==
  (IF prefix = NoName THEN 1 ELSE IF At(Lower(s.text), 1, Lower(prefix)) THEN 0 ELSE 2)
  + (IF s.kind = "keyword" THEN 3 ELSE 0)

Rank(prefix, offered) ==
  LET same(i, j) == /\ offered[i].kind = offered[j].kind
                    /\ Lower(offered[i].text) = Lower(offered[j].text)
      kept  == {i \in DOMAIN offered :
                  /\ prefix = NoName \/ Matches(prefix, offered[i].text)
                  /\ \A j \in 1..(i - 1) : ~same(i, j)}
      order == Sorted(kept, LAMBDA i, j :
                 LET a == Score(prefix, offered[i])
                     b == Score(prefix, offered[j])
                 IN  \/ a < b
                     \/ a = b /\ NameBefore(Lower(offered[i].text), Lower(offered[j].text))
                     \/ a = b /\ Lower(offered[i].text) = Lower(offered[j].text) /\ i < j)
  IN  [k \in 1..Min({Len(order), MaxSuggestions}) |-> offered[order[k]]]

\* "public" or "dbo" where there is one, and else the first.
DefaultSchema(names) ==
  LET preferred == IF engine = "sqlserver" THEN <<"DBO">> ELSE <<"PUBLIC">>
  IN  IF Contains(names, preferred) THEN preferred
      ELSE IF names # <<>> THEN names[1] ELSE NoName

-----------------------------------------------------------------------------
(* What a call has read so far: of each query, the catalog it was answered *)
(* from.  The rows follow from that, and so do the answers.                *)

\* The tables of a schema and the routines, each as it was.
NoListing == [asked |-> NoName, from |-> Refused, routines |-> Refused]

Objects(listing) ==
  IF listing.from = Refused THEN <<>>
  ELSE SortTables(Tables(engine, Seen(listing.from), listing.asked)
                  \o IF listing.routines = Refused THEN <<>>
                     ELSE Routines(engine, Seen(listing.routines), listing.asked))

FoundColumns(table, n) == [kind |-> "columns", asked |-> table, from |-> n]
FoundTables(listing) == [kind |-> "tables", listing |-> listing]

Suggested(found) ==
  CASE found.kind = "keywords" -> KeywordSuggestions
    [] found.kind = "tables"   -> TableSuggestions(Objects(found.listing))
    [] found.kind = "columns"  ->
         IF found.from = Refused THEN <<>>
         ELSE ColumnSuggestions(Columns(engine, Seen(found.from), found.asked[1], found.asked[2]))

Complete(c) ==
  LET read   == call[c].read
      prefix == WordBefore(call[c].req.text, call[c].req.cursor).prefix
  IN  [prefix      |-> prefix,
       suggestions |-> Rank(prefix, FlattenSeq([k \in DOMAIN read |-> Suggested(read[k])]))]

Table(c) ==
  LET req    == call[c].req
      from   == call[c].read
      Of(k, Rows(_, _, _, _)) ==
        IF from[k] = Refused THEN <<>> ELSE Rows(engine, Seen(from[k]), req.schema, req.name)
      detail == [columns     |-> Of(1, Columns),
                 indexes     |-> Of(2, Indexes),
                 foreignKeys |-> Of(3, ForeignKeys)]
  IN  [detail |-> detail, ddl |-> RenderDDL(detail)]

Whereabouts(c) ==
  LET from == call[c].read
  IN  [databases |-> Databases(engine, Seen(from[1])),
       current   |-> IF from[2] = Refused THEN NoName
                     ELSE CurrentDatabase(engine, Seen(from[2]), call[c].req.file)]

-----------------------------------------------------------------------------
(* The calls.                                                              *)

Idle == [pc |-> "idle", req |-> [op |-> "none"], todo |-> <<>>, read |-> <<>>, since |-> 0]

Init ==
  /\ engine \in DOMAIN Catalogs
  /\ at = 1
  /\ once = None /\ schema = NoName
  /\ mu = None /\ fetched = FALSE /\ tables = NoListing /\ columns = <<>>
  /\ call = [c \in Calls |-> Idle]

\* What a call asks the server, one after the other.
Queries(req) ==
  CASE req.op = "complete"  -> Plans[engine][req]
    [] req.op = "table"     -> <<[kind |-> "detail"], [kind |-> "indexes"], [kind |-> "keys"]>>
    [] req.op = "tables"    -> <<[kind |-> "objects"]>>
    [] req.op = "databases" -> <<[kind |-> "databases"], [kind |-> "current"]>>
    [] req.op = "schemas"   -> <<[kind |-> "schemas"]>>
    [] req.op = "routineDefinition" -> <<[kind |-> "definition"]>>

\* What is asked is of these kinds, and completing asks something.
Operations == {"complete", "table", "tables", "databases", "schemas", "routineDefinition"}
ASSUME RequestsAssumption ==
  \A e \in DOMAIN Catalogs : \A c \in Calls : \A req \in Requests[e][c] :
     /\ req.op \in Operations
     /\ req.op = "complete" => LET plan == Plans[e][req]
                               IN  plan \in Seq(ToSet(plan)) \ {<<>>}

\* Calls are numbered in the order in which they arrive.
Arrive(c) ==
  /\ call[c].pc = "idle"
  /\ \A d \in 1..(c - 1) : call[d].pc # "idle"
  /\ \E req \in Requests[engine][c] :
       call' = [call EXCEPT ![c] = [@ EXCEPT !.pc = "going", !.req = req,
                                             !.todo = Queries(req), !.since = at]]
  /\ UNCHANGED <<engine, at, caches>>

\* How a query of the server ends, and the catalog it is then answered from.
Ends        == {"answer", "refuse", "panic"}
Source(end) == IF end = "answer" THEN at ELSE Refused

Kind(c) == Head(call[c].todo).kind

\* Call c is at a query of these kinds.
AtQuery(c, kinds) == call[c].pc = "going" /\ Kind(c) \in kinds

Set(c, state) == call' = [call EXCEPT ![c] = state]
Done(c, end)  == [call[c] EXCEPT !.pc = end]

\* Call c has read something more and goes on to what it asks next, if any.
Proceeding(c, found) ==
  [call[c] EXCEPT !.pc   = IF Len(call[c].todo) = 1 THEN "ok" ELSE "going",
                  !.todo = Tail(@),
                  !.read = Append(@, found)]

\* Mistake: the lock is not released when the loading panics.
ReleaseNever(c) == mu' = mu

\* A panic unwinds through the deferred Unlock and through Once.
Release(c) == mu' = IF mu = c THEN None ELSE mu

-----------------------------------------------------------------------------
(* complete.go                                                             *)

\* The schema is asked for: the statement names none.
NeedsSchema(c) ==
  \/ AtQuery(c, {"columns"}) /\ Head(call[c].todo).ref.schema = NoName
  \/ AtQuery(c, {"tables"}) /\ mu = c

SchemaSettled  == SupportsSchemas(engine) => once = Finished
SchemaKnown(c) == NeedsSchema(c) => SchemaSettled

\* schemaOnce.Do: the first in asks, the others wait until it is done.
EnterOnce(c) ==
  /\ NeedsSchema(c) /\ SupportsSchemas(engine)
  /\ once = None
  /\ once' = c
  /\ UNCHANGED <<engine, at, schema, mu, fetched, tables, columns, call>>

SchemaAnswered(c, end) ==
  /\ once = c
  /\ once' = Finished
  /\ schema' = IF end = "answer" THEN DefaultSchema(Schemas(engine, db)) ELSE schema
  /\ IF end = "panic" THEN Release(c) /\ Set(c, Done(c, "internal"))
     ELSE UNCHANGED <<mu, call>>
  /\ UNCHANGED <<engine, at, fetched, tables, columns>>

\* The table a reference stands for, as far as the session can tell.
TableOf(ref) == <<IF ref.schema # NoName THEN ref.schema ELSE schema, ref.name>>
Asked(c)     == TableOf(Head(call[c].todo).ref)

\* Mistake: columns are kept under the table's name alone.
KeyWithoutSchema(c) == Lower(Asked(c)[2])

Key(c) == KeyOf(Asked(c))

\* columnsFor: a look into the cache, the query without the lock, the store.
LookUpColumns(c) ==
  /\ AtQuery(c, {"columns"}) /\ SchemaKnown(c)
  /\ mu = None
  /\ Set(c, IF Key(c) \in DOMAIN columns THEN Proceeding(c, columns[Key(c)])
            ELSE Done(c, "ask"))
  /\ UNCHANGED <<engine, at, caches>>

ColumnsAnswered(c, end) ==
  /\ call[c].pc = "ask"
  /\ Set(c, IF end = "panic" THEN Done(c, "internal")
            ELSE [call[c] EXCEPT !.pc = "keep",
                                 !.read = Append(@, FoundColumns(Asked(c), Source(end)))])
  /\ UNCHANGED <<engine, at, caches>>

KeepColumns(c) ==
  /\ call[c].pc = "keep"
  /\ mu = None
  /\ columns' = [key \in {Key(c)} \cup DOMAIN columns |->
                   IF key = Key(c) THEN Last(call[c].read) ELSE columns[key]]
  /\ Set(c, [call[c] EXCEPT !.pc   = IF Len(call[c].todo) = 1 THEN "ok" ELSE "going",
                            !.todo = Tail(@)])
  /\ UNCHANGED <<engine, at, once, schema, mu, fetched, tables>>

\* tableList: the lock is held over the queries, until the deferred Unlock.
LockTables(c) ==
  /\ AtQuery(c, {"tables"})
  /\ mu = None
  /\ IF fetched THEN Set(c, Proceeding(c, FoundTables(tables))) /\ UNCHANGED mu
     ELSE mu' = c /\ UNCHANGED call
  /\ UNCHANGED <<engine, at, once, schema, fetched, tables, columns>>

OfferKeywords(c) ==
  /\ AtQuery(c, {"keywords"})
  /\ Set(c, Proceeding(c, [kind |-> "keywords"]))
  /\ UNCHANGED <<engine, at, caches>>

-----------------------------------------------------------------------------
(* Objects: the tables, then the routines, whose failure costs only them.  *)

\* What tableList keeps, and hands to the call that loaded it.
Fetch(c, listing) ==
  /\ fetched' = TRUE /\ tables' = listing
  /\ mu' = None
  /\ Set(c, Proceeding(c, FoundTables(listing)))

ObjectsOf(c) ==
  \/ AtQuery(c, {"tables"}) /\ mu = c /\ SchemaKnown(c)
  \/ AtQuery(c, {"objects"})

AskedOf(c) == IF Kind(c) = "tables" THEN schema ELSE call[c].req.schema

TablesAnswered(c, end) ==
  /\ ObjectsOf(c)
  /\ \/ /\ end = "answer"
        /\ Set(c, [call[c] EXCEPT !.pc = "routines",
                                  !.read = Append(@, FoundTables([asked    |-> AskedOf(c),
                                                                  from     |-> at,
                                                                  routines |-> Refused]))])
        /\ UNCHANGED <<mu, fetched, tables>>
     \/ end = "refuse" /\ Kind(c) = "tables" /\ Fetch(c, tables)
     \/ /\ end = "refuse" /\ Kind(c) = "objects"
        /\ Set(c, Done(c, "query"))
        /\ UNCHANGED <<mu, fetched, tables>>
     \/ end = "panic" /\ Release(c) /\ Set(c, Done(c, "internal")) /\ UNCHANGED <<fetched, tables>>
  /\ UNCHANGED <<engine, at, once, schema, columns>>

RoutinesAnswered(c, end) ==
  /\ call[c].pc = "routines"
  /\ LET listing == [Last(call[c].read).listing EXCEPT !.routines = Source(end)]
         whole   == [call[c] EXCEPT !.read = Append(Front(@), FoundTables(listing)),
                                    !.todo = Tail(@),
                                    !.pc   = IF Len(call[c].todo) = 1 THEN "ok" ELSE "going"]
     IN  \/ /\ end # "panic" /\ Kind(c) = "tables"
            /\ fetched' = TRUE /\ tables' = listing /\ mu' = None
            /\ Set(c, whole)
         \/ end # "panic" /\ Kind(c) = "objects" /\ Set(c, whole) /\ UNCHANGED <<mu, fetched, tables>>
         \/ end = "panic" /\ Release(c) /\ Set(c, Done(c, "internal"))
            /\ UNCHANGED <<fetched, tables>>
  /\ UNCHANGED <<engine, at, once, schema, columns>>

-----------------------------------------------------------------------------
(* The other calls keep nothing for the next.                              *)

\* Table: the columns are what it is for; the rest may be refused.
DetailAnswered(c, end) ==
  /\ AtQuery(c, {"detail", "indexes", "keys"})
  /\ LET req     == call[c].req
         missing == \/ end = "refuse"
                    \/ \A x \in OfTable(engine, db, req.schema, req.name, db.columns) : x.dropped
     IN  Set(c, CASE end = "panic" -> Done(c, "internal")
                  [] end # "panic" /\ Kind(c) = "detail" /\ missing -> Done(c, "query")
                  [] OTHER -> Proceeding(c, Source(end)))
  /\ UNCHANGED <<engine, at, caches>>

\* The databases, and with them the one the session is in, if it can be told.
DatabasesAnswered(c, end) ==
  /\ AtQuery(c, {"databases", "current"})
  /\ Set(c, CASE end = "panic" -> Done(c, "internal")
              [] end = "refuse" /\ Kind(c) = "databases" -> Done(c, "query")
              [] OTHER -> Proceeding(c, Source(end)))
  /\ UNCHANGED <<engine, at, caches>>

SchemasAnswered(c, end) ==
  /\ AtQuery(c, {"schemas"})
  /\ Set(c, CASE end = "answer" -> Proceeding(c, at)
              [] end = "refuse" -> Done(c, "query")
              [] end = "panic"  -> Done(c, "internal"))
  /\ UNCHANGED <<engine, at, caches>>

DefinitionAnswered(c, end) ==
  /\ AtQuery(c, {"definition"})
  /\ LET req   == call[c].req
         texts == IF engine = "sqlite" THEN {}
                  ELSE RoutineDefinitions(engine, db, req.schema, req.name)
     IN  \/ end = "panic" /\ Set(c, Done(c, "internal"))
         \/ end = "refuse" /\ Set(c, Done(c, "query"))
         \/ end = "answer" /\ texts \subseteq {""} /\ Set(c, Done(c, "query"))
         \/ end = "answer" /\ \E text \in texts \ {""} : Set(c, Proceeding(c, text))
  /\ UNCHANGED <<engine, at, caches>>

\* External: another client alters the catalog.
Alter ==
  /\ at < Len(Catalogs[engine])
  /\ at' = at + 1
  /\ UNCHANGED <<engine, caches, call>>

Served(c) ==
  \/ LookUpColumns(c) \/ KeepColumns(c) \/ LockTables(c) \/ OfferKeywords(c) \/ EnterOnce(c)
  \/ \E end \in Ends :
       \/ SchemaAnswered(c, end) \/ ColumnsAnswered(c, end)
       \/ TablesAnswered(c, end) \/ RoutinesAnswered(c, end)
       \/ DetailAnswered(c, end) \/ DatabasesAnswered(c, end)
       \/ SchemasAnswered(c, end) \/ DefinitionAnswered(c, end)

Next == Alter \/ \E c \in Calls : Arrive(c) \/ Served(c)

\* A goroutine that can run does, and the server answers in the end.
Spec == Init /\ [][Next]_vars /\ \A c \in Calls : WF_vars(Served(c))

-----------------------------------------------------------------------------
(* What is asked of the locks and the caches.                              *)

Ended       == {"ok", "query", "internal"}
UnderWay(c) == call[c].pc \notin {"idle"} \cup Ended

\* A call waits for the lock, which the one that holds it does not ask for
\* again, or for the one inside schemaOnce.
WaitsForLock(c) ==
  \/ call[c].pc = "keep" /\ mu # None
  \/ AtQuery(c, {"columns"}) /\ SchemaKnown(c) /\ mu # None
  \/ AtQuery(c, {"tables"}) /\ mu \notin {None, c}
WaitsForSchema(c) ==
  NeedsSchema(c) /\ SupportsSchemas(engine) /\ once \notin {None, c, Finished}
Waits(c) == WaitsForLock(c) \/ WaitsForSchema(c)

\* As long as a call waits there is one that does not, and goes on: nobody
\* ends, fails or panics with the lock of tableList or inside schemaOnce, and
\* the two are never waited for in a circle, though tableList asks for the
\* schema under its lock (complete.go: columnsFor, tableList, defaultSchema).
NoStandstill ==
  \A c \in Calls : Waits(c) => \E d \in Calls : UnderWay(d) /\ ~Waits(d)

\* The lock is held by a call that loads the listing, and by it alone, until
\* the listing is there, and schemaOnce is entered by one that needs it.
HoldersLoad ==
  /\ mu # None => /\ mu \in Calls /\ ~fetched
                  /\ call[mu].pc \in {"going", "routines"} /\ Kind(mu) = "tables"
  /\ once \notin {None, Finished} => /\ once \in Calls /\ NeedsSchema(once)
                                     /\ SupportsSchemas(engine)
  /\ \A c \in Calls : call[c].pc = "routines" /\ Kind(c) = "tables" => mu = c

IsCall(r) ==
  r \in [pc : {r.pc}, req : {r.req}, todo : {r.todo}, read : {r.read}, since : {r.since}]
CallsAreRecords == call = [c \in Calls |-> call[c]] /\ \A c \in Calls : IsCall(call[c])

\* The inductive invariant.
IInv == CallsAreRecords /\ HoldersLoad

\* What was loaded for the session stays: two calls that complete at once do
\* not each load the listing and replace the other's, and all are served the
\* same one under the same schema (complete.go: tableList, schemaOnce).
LoadsOnce ==
  [][ /\ fetched => UNCHANGED <<fetched, tables>>
      /\ once = Finished => UNCHANGED <<once, schema>> ]_vars

-----------------------------------------------------------------------------
(* What a call is answered.                                                *)

\* Columns under a key: those of a table of that key, as they were once.
Keeps(key, found) ==
  /\ found = FoundColumns(found.asked, found.from)
  /\ KeyOf(found.asked) = key
  /\ found.from \in (1..at) \cup {Refused}

\* found answers the query of call r.  Columns are kept by the table that was
\* meant, up to case, and may be older than the call, and so may the listing of
\* the session's schema that all are served; all else was so during the call.
During(r)       == r.since..at
UnlessRefused(S) == S \cup {Refused}
SourcesAt(n, req) == RoutineDefinitions(engine, Seen(n), req.schema, req.name) \ {""}

Answers(r, query, found) ==
  LET kind == query.kind
  IN  /\ kind = "columns" =>
           /\ Keeps(KeyOf(TableOf(query.ref)), found)
           /\ query.ref.schema = NoName => SchemaSettled
      /\ kind = "tables" => fetched /\ found = FoundTables(tables)
      /\ kind = "keywords" => found = [kind |-> "keywords"]
      /\ kind = "objects" =>
           \E from \in During(r), routines \in UnlessRefused(During(r)) :
              found = FoundTables([asked |-> r.req.schema, from |-> from, routines |-> routines])
      /\ kind \in {"detail", "databases", "schemas"} => found \in During(r)
      /\ kind \in {"indexes", "keys", "current"} => found \in UnlessRefused(During(r))
      /\ kind = "definition" =>
           \E n \in During(r) : found \in SourcesAt(n, r.req)

\* A call that ends well has an answer to everything it asked, in order, and
\* each is to that query and no other: whoever filled the caches, what is
\* read of them is the table meant (up to case) and the schema of the session, and what is
\* not kept is as it was at some time between the call and its end
\* (complete.go: columnsFor, tableList; introspect.go: Table, Objects).
AnsweredAsAsked ==
  /\ \A c \in Calls : call[c].pc = "ok" =>
       \A plan \in {Queries(call[c].req)} :
          /\ Len(call[c].read) = Len(plan)
          /\ \A k \in DOMAIN plan : Answers(call[c], plan[k], call[c].read[k])
  /\ fetched /\ tables.from # Refused => tables.asked = schema /\ SchemaSettled

\* How far a call is: it has the answers to the first n queries of its plan,
\* and before it may go on perhaps one more, whole or half.
IsSeq(s) == s \in Seq(ToSet(s))
AsksForColumns(query) ==
  query.kind = "columns" /\ (query.ref.schema = NoName => SchemaSettled)
HalfAnswers(r, query, found) ==
  /\ query.kind \in {"tables", "objects"}
  /\ query.kind = "tables" => SchemaSettled
  /\ \E from \in During(r) :
       found = FoundTables([asked    |-> IF query.kind = "tables" THEN schema ELSE r.req.schema,
                            from     |-> from,
                            routines |-> Refused])
Stands(r, n) ==
  LET plan == Queries(r.req)
  IN  /\ r.todo = SubSeq(plan, n + 1, Len(plan))
      /\ IsSeq(r.read)
      /\ Len(r.read) = IF r.pc \in {"keep", "routines"} THEN n + 1 ELSE n
      /\ r.pc = "ok" <=> n = Len(plan)
      /\ \A k \in 1..n : Answers(r, plan[k], r.read[k])
      /\ r.pc \in {"ask", "keep"} => AsksForColumns(plan[n + 1])
      /\ r.pc = "keep" => Answers(r, plan[n + 1], r.read[n + 1])
      /\ r.pc = "routines" => HalfAnswers(r, plan[n + 1], r.read[n + 1])

Progress(c) ==
  /\ call[c].pc = "idle" => call[c].read = <<>>
  /\ call[c].pc \notin {"idle", "query", "internal"} =>
       /\ call[c].req \in Requests[engine][c]
       /\ call[c].since \in 1..at
       /\ \E n \in 0..Len(Queries(call[c].req)) : Stands(call[c], n)

\* What the caches hold.
CachesInv ==
  /\ engine \in DOMAIN Catalogs
  /\ at \in Nat \ {0}
  /\ IF fetched THEN tables.from # Refused => tables.asked = schema /\ SchemaSettled
     ELSE tables = NoListing
  /\ columns = [key \in DOMAIN columns |-> columns[key]]
  /\ \A key \in DOMAIN columns : Keeps(key, columns[key])

AnswerInv == CachesInv /\ \A c \in Calls : Progress(c)

-----------------------------------------------------------------------------
(* What is asked of the answers.                                           *)

\* Where a table is that is named without a schema: where the session takes it
\* to be.  A server that keeps to another by default is not asked (defaultSchema).
Home(named) == CASE named # NoName -> named
                 [] SupportsSchemas(engine) -> schema
                 [] OTHER -> db.current
HomeKnown(named) == Home(named) # NoName \/ ~SupportsSchemas(engine)

Live(n, where, table) ==
  {c \in Seen(n).columns : c.schema = where /\ c.table = table /\ ~c.dropped}

\* A query of the user's about some tables, with the cursor behind a name of
\* one of them, a dot and the start of a column.
Written(e, q) ==
  LET quoted(name) == IF q.quoted THEN QuoteIdentifier(e, name) ELSE name
      source(k) ==
        (CASE k = 1 -> <<" ", "FROM", " ">>
           [] k > 1 /\ q.tables[k].comma -> <<",", " ">>
           [] k > 1 /\ ~q.tables[k].comma -> <<" ", "JOIN", " ">>)
        \o (IF q.tables[k].schema = NoName THEN <<>> ELSE quoted(q.tables[k].schema) \o <<".">>)
        \o quoted(q.tables[k].name)
        \o (IF q.tables[k].as THEN <<" ", "AS">> ELSE <<>>)
        \o (IF q.tables[k].alias = NoName THEN <<>> ELSE <<" ">> \o q.tables[k].alias)
      called == IF q.tables[q.of].alias = NoName THEN q.tables[q.of].name
                ELSE q.tables[q.of].alias
      start  == q.before \o <<"SELECT", " ">> \o called \o <<".">> \o q.prefix
  IN  [op |-> "complete", about |-> q, cursor |-> Len(start),
       text |-> start \o FlattenSeq([k \in DOMAIN q.tables |-> source(k)])]

\* What tableReferences, a scanner and not a parser, makes out: names without
\* blanks and dots that are no keyword, spelled as the server keeps them; and
\* behind a comma a table's own name, if the one before it has an alias.
MadeOut(q) ==
  /\ \A k \in DOMAIN q.tables :
        LET name == q.tables[k].name
        IN  /\ \A i \in DOMAIN name : IsIdent(name[i])
            /\ ~IsReservedFollower(name)
            /\ q.quoted \/ Lower(name) = name
  /\ q.of > 1 /\ q.tables[q.of].comma =>
        /\ q.tables[q.of].alias = NoName /\ q.tables[q.of].schema = NoName
        /\ q.tables[q.of - 1].alias # NoName

\* The answer to a query of the user's has the columns of one of these tables
\* that match what was typed, each once and up to the limit, as the table is or
\* once was.
OffersOneOf(c, names) ==
  LET q       == call[c].req.about
      where   == Home(q.tables[q.of].schema)
      live(name, n) == {x.name : x \in Live(n, where, name)}
      fits(name, n) == {x \in live(name, n) : q.prefix = NoName \/ Matches(q.prefix, x)}
      limit(name, n) == Min({Cardinality(fits(name, n)), MaxSuggestions})
  IN  \A said \in {Complete(c)} :
        LET texts == {s.text : s \in ToSet(said.suggestions)}
        IN  /\ said.prefix = q.prefix
            /\ Cardinality(texts) = Len(said.suggestions)
            /\ call[c].read[1].from # Refused /\ HomeKnown(q.tables[q.of].schema) =>
                 \E name \in names, n \in 1..at :
                    texts \subseteq fits(name, n) /\ Cardinality(texts) = limit(name, n)

\* The tables the server has under a name, up to case.
Spellings(name) ==
  {name} \cup {t.name : t \in {x \in db.tables : Lower(x.name) = Lower(name)}}


\* complete.go:110: "after a table alias and a dot you want only that table's
\* columns".  Not kept for what MadeOut leaves out, nor for two names of one key.
OffersOnlyItsColumns ==
  \A c \in Calls :
     call[c].pc = "ok" /\ "about" \in DOMAIN call[c].req =>
       OffersOneOf(c, {call[c].req.about.tables[call[c].req.about.of].name})

\* What a listing of a schema, or of all, must have.
Readable(asked, routines) ==
  {x \in {t \in db.tables : t.granted /\ (engine = "sqlite" => ~LooksInternal(t.name))}
         \cup (IF routines /\ engine # "sqlite" THEN db.routines ELSE {}) :
     Reads(engine, db, asked, x.schema)}

\* A listing has every table one may read and every routine once, in the
\* order of their schemas and names, and a refusal of the routines costs no
\* table.  After FROM, those of the session's schema are offered that match; of
\* two whose names differ in case only, one (rank, complete.go:390).
\* The database a session is in is one of those listed to choose from, unless it
\* is one the server keeps for itself.  Outside are listings the catalog changed
\* under, and in SQLite the tables whose name begins as its own do, which are
\* not listed (sqliteTables).
ListingIsComplete ==
  \A c \in Calls :
     call[c].pc = "ok" /\ at = 1 =>
       /\ call[c].req.op = "tables" =>
            LET listing == call[c].read[1].listing
                mine    == Readable(call[c].req.schema, listing.routines # Refused)
            IN  \A rows \in {Objects(listing)} :
                /\ Len(rows) = Cardinality(mine)
                /\ \A t \in mine :
                     \E k \in DOMAIN rows :
                        <<rows[k].schema, rows[k].name, rows[k].type>> = <<t.schema, t.name, t.type>>
                /\ \A k \in 1..(Len(rows) - 1) :
                     \/ NameBefore(rows[k].schema, rows[k + 1].schema)
                     \/ /\ rows[k].schema = rows[k + 1].schema
                        /\ ~NameBefore(rows[k + 1].name, rows[k].name)
       /\ call[c].req.op = "databases" /\ engine # "sqlite" =>
            Whereabouts(c).current \in
              ToSet(Whereabouts(c).databases) \cup {NoName}
              \cup {d.name : d \in {x \in db.databases : x.system}}
       /\ "from" \in DOMAIN call[c].req /\ HomeKnown(NoName) =>
            LET listing == call[c].read[1].listing
                mine    == Readable(schema, listing.routines # Refused)
            IN  listing.from # Refused =>
                  {Lower(s.text) : s \in ToSet(Complete(c).suggestions)} =
                    {Lower(t.name) : t \in {x \in mine : Matches(call[c].req.from, x.name)}}

\* The description of a table is that table's: its columns in order, its key,
\* its indexes and foreign keys with their columns in their own order, each
\* column paired with the one it refers to, in the types they were declared
\* with.  It is asked for by its schema, as the app does, and the catalog is
\* left alone meanwhile.  What the metadata does not say is outside: indexes
\* over expressions or, in PostgreSQL, with included columns, and the key
\* that SQLite's "to" leaves open.
DetailIsTheTables ==
  \A c \in Calls :
     call[c].pc = "ok" /\ call[c].req.op = "table" /\ at = call[c].since =>
       LET where  == call[c].req.schema
           name   == call[c].req.name
           live   == Live(at, where, name)
           own(S) == {x \in S : x.schema = where /\ x.table = name}
           plain  == \A i \in own(db.indexes) :
                       /\ ~Contains(i.keys, Expression)
                       /\ engine = "postgres" => i.included = <<>>
           promoted == engine = "mysql" /\ \A i \in own(db.indexes) : ~i.primary
       IN  \A said \in {Table(c).detail} :
           /\ Len(said.columns) = Cardinality(live)
           /\ \A x \in live :
                LET it == said.columns[Cardinality({y \in live : y.at <= x.at})]
                IN  /\ <<it.name, it.type, it.nullable>> = <<x.name, x.type, x.nullable>>
                    /\ it.key = x.key \/ promoted
           /\ plain /\ call[c].read[2] # Refused =>
                /\ Len(said.indexes) = Cardinality(own(db.indexes))
                /\ ToSet(said.indexes) =
                     {[name |-> i.name, unique |-> i.unique, primary |-> i.primary,
                       columns |-> i.keys] : i \in own(db.indexes)}
           /\ call[c].read[3] # Refused =>
                /\ Len(said.foreignKeys) = Cardinality(own(db.keys))
                /\ \A f \in own(db.keys) :
                     \E it \in ToSet(said.foreignKeys) :
                        /\ it.columns = f.columns /\ it.refTable = f.refTable
                        /\ IF it.refSchema = NoName THEN f.refSchema = where
                           ELSE it.refSchema = f.refSchema
                        /\ f.refColumns # <<>> => it.refColumns = f.refColumns

\* Every call on the catalog is answered, if only with an error: no call that
\* fails or panics leaves the lock or schemaOnce behind for the others to
\* wait on.
CompletionsEnd ==
  \A c \in Calls : call[c].pc # "idle" ~> call[c].pc \in Ended
=============================================================================
