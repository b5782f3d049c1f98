---------------------------- MODULE Introspection ----------------------------
(***************************************************************************)
(* What the core reads of a server's catalog (core/dbcore/introspect.go,   *)
(* introspect_*.go, routines.go): the queries of every engine and what is  *)
(* made of their rows.  What a query answers is a matter of the catalog;   *)
(* when it is asked, and what happens when it fails, is Completion.tla's.  *)
(*                                                                         *)
(* A catalog is what the server holds: sets of schemas, databases, tables, *)
(* columns, indexes, keys and routines, and the database MySQL is in.  A   *)
(* name is a sequence of symbols, as in SqlText; an empty one is no name.  *)
(* A column says itself whether it is in the primary key, and there is an  *)
(* index of the key besides, but for SQLite's rowid.                       *)
(***************************************************************************)
EXTENDS SqlText

CONSTANT Alphabet   \* the symbols of names, in the order of the server

ASSUME AlphabetAssumption == IsInjective(Alphabet)

NoName     == <<>>
Expression == <<"expression">>   \* an index entry that is not a column

Place(symbol) == CHOOSE i \in DOMAIN Alphabet : Alphabet[i] = symbol

NameBefore(a, b) ==
  \E k \in 1..Len(b) :
     /\ SubSeq(b, 1, k - 1) = SubSeq(a, 1, Min({k - 1, Len(a)}))
     /\ Len(a) >= k => Place(a[k]) < Place(b[k])

\* The members of S in an order that tells all of them apart.
Sorted(S, Before(_, _)) ==
  [k \in 1..Cardinality(S) |->
     CHOOSE x \in S : Cardinality({y \in S : Before(y, x)}) = k - 1]

ByName(S) ==
  Sorted(S, LAMBDA a, b : \/ NameBefore(a.schema, b.schema)
                          \/ a.schema = b.schema /\ NameBefore(a.name, b.name))
ByPosition(S) ==
  Sorted(S, LAMBDA a, b : a.at < b.at \/ (a.at = b.at /\ NameBefore(a.schema, b.schema)))
InOrder(S) == Sorted(S, NameBefore)

\* The condition each query puts on the schema it reads, given the one asked
\* for: none asked is any schema to SQL Server and PostgreSQL and the current
\* database to MySQL.  SQLite has none.
Reads(engine, db, asked, schema) ==
  CASE engine = "mysql"  -> schema = (IF asked = NoName THEN db.current ELSE asked)
    [] engine = "sqlite" -> TRUE
    [] OTHER -> asked \in {NoName, schema}

OfTable(engine, db, asked, table, S) ==
  {x \in S : x.table = table /\ Reads(engine, db, asked, x.schema)}

-----------------------------------------------------------------------------
(* Databases, schemas, tables.                                             *)

Databases(engine, db) ==
  LET named(S) == InOrder({d.name : d \in S})
  IN  CASE engine = "sqlserver" -> named({d \in db.databases : d.open /\ d.granted})
        [] engine = "postgres" ->
             named({d \in db.databases : d.open /\ d.granted /\ ~d.system})
        [] engine = "mysql" -> named({d \in db.databases : d.granted /\ ~d.system})
        [] OTHER -> [k \in 1..Cardinality(db.databases) |->
                       (CHOOSE d \in db.databases : d.at = k).name]

\* file is the database of the profile: the only answer SQLite needs.
CurrentDatabase(engine, db, file) ==
  IF engine = "sqlite" THEN IF file # NoName THEN file ELSE <<"MAIN">>
  ELSE db.current

SupportsSchemas(engine) == engine \in {"sqlserver", "postgres"}

Schemas(engine, db) ==
  IF SupportsSchemas(engine)
  THEN InOrder({s.name : s \in {x \in db.schemas : ~x.hidden}})
  ELSE <<>>

Listed(t, type, estimate) ==
  [schema |-> t.schema, name |-> t.name, type |-> type, estimate |-> estimate]

\* Only PostgreSQL's query says that the tables are those one may read; the
\* others hide the rest themselves.  An estimate of -1 is none.
TablesRead(engine, db, asked, types) ==
  {t \in db.tables : /\ t.granted
                     /\ t.type \in types
                     /\ Reads(engine, db, asked, t.schema)}

SqlServerTables(db, asked) ==
  ByName({Listed(t, t.type, t.estimate) :
            t \in TablesRead("sqlserver", db, asked, {"table", "view"})})

PostgresTables(db, asked) ==
  ByName({Listed(t, t.type, t.estimate) :
            t \in TablesRead("postgres", db, asked,
                             {"table", "view", "materialized view", "foreign table"})})

MysqlTables(db, asked) ==
  ByName({LET type == IF t.type = "view" THEN "view" ELSE "table"
          IN  Listed(t, type, IF type = "table" THEN t.estimate ELSE -1) :
            t \in TablesRead("mysql", db, asked, {"table", "view"})})

\* LIKE 'sqlite_%': the underscore stands for any character, so that SQLite's own
\* tables are left out and with them every other whose name begins that way.
LooksInternal(name) == Len(name) > 1 /\ name[1] = "SQLITE"

SqliteTables(db) ==
  ByName({Listed(t, t.type, -1) :
            t \in {x \in TablesRead("sqlite", db, NoName, {"table", "view"}) :
                     ~LooksInternal(x.name)}})

Tables(engine, db, asked) ==
  CASE engine = "sqlserver" -> SqlServerTables(db, asked)
    [] engine = "postgres"  -> PostgresTables(db, asked)
    [] engine = "mysql"     -> MysqlTables(db, asked)
    [] OTHER                -> SqliteTables(db)

RoutinesRead(engine, db, asked) ==
  {r \in db.routines : Reads(engine, db, asked, r.schema)}

\* Overloads of a routine are listed one by one.
Routines(engine, db, asked) ==
  IF engine = "sqlite" THEN <<>>
  ELSE LET found == Sorted(RoutinesRead(engine, db, asked),
                           LAMBDA a, b : a.at < b.at)
       IN  [k \in DOMAIN found |-> Listed(found[k], found[k].type, -1)]

\* Mistake: the listing is sorted by name alone.
SortTablesByName(rows) ==
  LET at == Sorted(DOMAIN rows, LAMBDA i, j :
              \/ NameBefore(rows[i].name, rows[j].name)
              \/ rows[i].name = rows[j].name /\ i < j)
  IN  [k \in DOMAIN rows |-> rows[at[k]]]

\* The order of sortTables, which does not tell a table from a routine of
\* the same name: their order is not the code's to choose.
SortTables(rows) ==
  LET at == Sorted(DOMAIN rows, LAMBDA i, j :
              \/ NameBefore(rows[i].schema, rows[j].schema)
              \/ /\ rows[i].schema = rows[j].schema
                 /\ \/ NameBefore(rows[i].name, rows[j].name)
                    \/ rows[i].name = rows[j].name /\ i < j)
  IN  [k \in DOMAIN rows |-> rows[at[k]]]

\* What a definition can be: of an overloaded routine, of any of them.
\* "" is a routine the server does not show: an error.
RoutineDefinitions(engine, db, asked, name) ==
  {r.source : r \in {x \in RoutinesRead(engine, db, asked) : x.name = name}}

-----------------------------------------------------------------------------
(* Columns.                                                                *)

\* External: how SQL Server keeps a declared type.  A size of -1 is MAX.
Stored(type) ==
  [name |-> type.name,
   length |-> CASE type.name \in {"nvarchar", "nchar"} ->
                     IF type.size = -1 THEN -1 ELSE 2 * type.size
                [] OTHER -> type.size,
   precision |-> IF type.name = "float" /\ type.size = 0 THEN 53 ELSE type.size,
   scale |-> IF type.name \in {"datetime2", "time"} /\ type.size = 0 THEN 7 ELSE type.size]

Typed(name, size) == [name |-> name, size |-> size]

\* Mistake: lengths are shown as sys.columns keeps them, in bytes.
SqlServerTypeNameInBytes(s) == Typed(s.name, s.length)

SqlServerTypeName(s) ==
  CASE s.name \in {"nvarchar", "nchar"} ->
         Typed(s.name, IF s.length = -1 THEN -1 ELSE s.length \div 2)
    [] s.name \in {"varchar", "char", "varbinary", "binary"} -> Typed(s.name, s.length)
    [] s.name \in {"decimal", "numeric"} -> Typed(s.name, s.precision)
    [] s.name \in {"datetime2", "datetimeoffset", "time"} ->
         Typed(s.name, IF s.scale # 7 THEN s.scale ELSE 0)
    [] s.name = "float" -> Typed(s.name, IF s.precision # 53 THEN s.precision ELSE 0)
    [] OTHER -> Typed(s.name, 0)

\* The indexes of the table of a column.
IndexesBeside(db, c) == {i \in db.indexes : i.table = c.table /\ i.schema = c.schema}
InPrimary(db, c) == \E i \in IndexesBeside(db, c) : i.primary /\ Contains(i.keys, c.name)

\* External: column_key of MySQL is PRI for a unique index too, where the
\* table has no primary key and the column is not nullable.
ColumnKeyIsPri(db, c) ==
  \/ c.key
  \/ /\ ~c.nullable
     /\ \A i \in IndexesBeside(db, c) : ~i.primary
     /\ \E i \in IndexesBeside(db, c) : i.unique /\ i.keys = <<c.name>>

Column(c, type, key, auto) ==
  [name |-> c.name, type |-> type, nullable |-> c.nullable, default |-> c.default,
   key |-> key, auto |-> auto, position |-> c.at]

ColumnsRead(engine, db, asked, table) ==
  ByPosition(OfTable(engine, db, asked, table, db.columns))

SqlServerColumns(db, asked, table) ==
  LET read == ColumnsRead("sqlserver", db, asked, table)
  IN  [k \in DOMAIN read |->
         Column(read[k], SqlServerTypeName(Stored(read[k].type)),
                InPrimary(db, read[k]), read[k].auto)]

PostgresColumns(db, asked, table) ==
  LET read == SelectSeq(ColumnsRead("postgres", db, asked, table), LAMBDA c : ~c.dropped)
  IN  [k \in DOMAIN read |->
         Column(read[k], read[k].type, InPrimary(db, read[k]),
                read[k].auto \/ read[k].default = "nextval")]

MysqlColumns(db, asked, table) ==
  LET read == ColumnsRead("mysql", db, asked, table)
  IN  [k \in DOMAIN read |->
         Column(read[k], read[k].type, ColumnKeyIsPri(db, read[k]), read[k].auto)]

SqliteColumns(db, table) ==
  LET read == ColumnsRead("sqlite", db, NoName, table)
      keys == {k \in DOMAIN read : read[k].key}
  IN  [k \in DOMAIN read |->
         Column(read[k], read[k].type, k \in keys,
                keys = {k} /\ read[k].type.name = "integer")]

Columns(engine, db, asked, table) ==
  CASE engine = "sqlserver" -> SqlServerColumns(db, asked, table)
    [] engine = "postgres"  -> PostgresColumns(db, asked, table)
    [] engine = "mysql"     -> MysqlColumns(db, asked, table)
    [] OTHER                -> SqliteColumns(db, table)

-----------------------------------------------------------------------------
(* Indexes and foreign keys come one row a column and are folded.          *)

\* The rows of each name, the names in the order in which they first appear.
Groups(rows) ==
  LET firsts == {k \in DOMAIN rows : \A j \in 1..(k - 1) : rows[j].name # rows[k].name}
      first  == Sorted(firsts, <)
  IN  [g \in DOMAIN first |-> SelectSeq(rows, LAMBDA r : r.name = rows[first[g]].name)]

GroupIndexRows(rows) ==
  LET groups == Groups(rows)
      named(g) == SelectSeq(g, LAMBDA r : r.column # NoName)
  IN  [k \in DOMAIN groups |->
         [name |-> groups[k][1].name, unique |-> groups[k][1].unique,
          primary |-> groups[k][1].primary,
          columns |-> [i \in DOMAIN named(groups[k]) |-> named(groups[k])[i].column]]]

\* The rows of indexes that are read in an order: one for each entry.
IndexRows(indexes, Entries(_), primary(_)) ==
  FlattenSeq([k \in DOMAIN indexes |->
    [e \in DOMAIN Entries(indexes[k]) |->
       [name |-> indexes[k].name, column |-> Entries(indexes[k])[e],
        unique |-> indexes[k].unique, primary |-> primary(indexes[k])]]])

Flagged(i) == i.primary

SqlServerIndexes(db, asked, table) ==
  GroupIndexRows(IndexRows(ByName(OfTable("sqlserver", db, asked, table, db.indexes)),
                           LAMBDA i : i.keys, Flagged))

\* indkey holds what an index includes behind its keys, and an expression is
\* no attribute.
PostgresIndexes(db, asked, table) ==
  GroupIndexRows(IndexRows(ByName(OfTable("postgres", db, asked, table, db.indexes)),
                           LAMBDA i : SelectSeq(i.keys \o i.included,
                                                LAMBDA e : e # Expression),
                           Flagged))

\* An expression has no column name, which the scan of the rows cannot take:
\* the listing fails.
MysqlIndexes(db, asked, table) ==
  LET read == ByName(OfTable("mysql", db, asked, table, db.indexes))
  IN  IF \E k \in DOMAIN read : Contains(read[k].keys, Expression) THEN <<>>
      ELSE GroupIndexRows(IndexRows(read, LAMBDA i : i.keys,
                                    LAMBDA i : i.name = <<"PRIMARY">>))

SqliteIndexes(db, table) ==
  GroupIndexRows(IndexRows(ByPosition(OfTable("sqlite", db, NoName, table, db.indexes)),
                           LAMBDA i : [e \in DOMAIN i.keys |->
                                         IF i.keys[e] = Expression THEN NoName ELSE i.keys[e]],
                           Flagged))

Indexes(engine, db, asked, table) ==
  CASE engine = "sqlserver" -> SqlServerIndexes(db, asked, table)
    [] engine = "postgres"  -> PostgresIndexes(db, asked, table)
    [] engine = "mysql"     -> MysqlIndexes(db, asked, table)
    [] OTHER                -> SqliteIndexes(db, table)

GroupForeignKeyRows(rows) ==
  LET groups == Groups(rows)
  IN  [k \in DOMAIN groups |->
         LET g == groups[k]
         IN  [name |-> g[1].name, refSchema |-> g[1].refSchema, refTable |-> g[1].refTable,
              onDelete |-> g[1].onDelete, onUpdate |-> g[1].onUpdate,
              columns    |-> [i \in DOMAIN g |-> g[i].column],
              refColumns |-> [i \in DOMAIN g |-> g[i].refColumn]]]

KeyRows(keys, Name(_), refSchema(_), refColumn(_, _)) ==
  FlattenSeq([k \in DOMAIN keys |->
    [i \in DOMAIN keys[k].columns |->
       [name |-> Name(keys[k]), column |-> keys[k].columns[i],
        refSchema |-> refSchema(keys[k]), refTable |-> keys[k].refTable,
        refColumn |-> refColumn(keys[k], i),
        onDelete |-> keys[k].onDelete, onUpdate |-> keys[k].onUpdate]]])

Named(k)        == k.name
Elsewhere(k)    == k.refSchema
Referring(k, i) == k.refColumns[i]

SqlServerForeignKeys(db, asked, table) ==
  GroupForeignKeyRows(KeyRows(ByName(OfTable("sqlserver", db, asked, table, db.keys)),
                              Named, Elsewhere, Referring))

PostgresForeignKeys(db, asked, table) ==
  GroupForeignKeyRows(KeyRows(ByName(OfTable("postgres", db, asked, table, db.keys)),
                              Named, Elsewhere, Referring))

MysqlForeignKeys(db, asked, table) ==
  GroupForeignKeyRows(KeyRows(ByName(OfTable("mysql", db, asked, table, db.keys)),
                              Named,
                              LAMBDA k : IF k.refSchema = asked THEN NoName ELSE k.refSchema,
                              Referring))

SqliteForeignKeys(db, table) ==
  GroupForeignKeyRows(KeyRows(ByPosition(OfTable("sqlite", db, NoName, table, db.keys)),
                              LAMBDA k : [of |-> table, at |-> k.at],
                              LAMBDA k : NoName,
                              LAMBDA k, i : IF k.refColumns = <<>> THEN <<"ROWID">>
                                            ELSE k.refColumns[i]))

ForeignKeys(engine, db, asked, table) ==
  CASE engine = "sqlserver" -> SqlServerForeignKeys(db, asked, table)
    [] engine = "postgres"  -> PostgresForeignKeys(db, asked, table)
    [] engine = "mysql"     -> MysqlForeignKeys(db, asked, table)
    [] OTHER                -> SqliteForeignKeys(db, table)

-----------------------------------------------------------------------------
\* The statements that would make the table, as far as they are rendered.
RenderDDL(detail) ==
  LET keys == SelectSeq(detail.columns, LAMBDA c : c.key)
  IN  [columns    |-> detail.columns,
       primaryKey |-> [k \in DOMAIN keys |-> keys[k].name],
       references |-> detail.foreignKeys,
       indexes    |-> SelectSeq(detail.indexes, LAMBDA i : ~i.primary)]
=============================================================================
