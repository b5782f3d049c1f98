------------------------------ MODULE Explorer -------------------------------
(***************************************************************************)
(* What the explorer and the header say of a connection                    *)
(* (app/lib/state/app_state.dart, 308-410): the databases, the schemas and *)
(* the tables of one of them, each asked of the core and answered later,   *)
(* while the user picks another schema, refreshes, switches database or    *)
(* disconnects.                                                            *)
(*                                                                         *)
(* The core answers in the order of the calls (module CoreClient); an      *)
(* answer and the continuation that awaited it are one step, because what  *)
(* is answered does not depend on the app.  Connecting is in Workspace.    *)
(***************************************************************************)
EXTENDS Integers, Sequences

CONSTANTS
  NumConns,    \* bound: how many connections are opened
  NumSchemas,  \* how many schemas a server may list
  Preferred,   \* dbo or public: the schema to begin with, None for other engines
  MaxQueue     \* bound: requests under way when the user asks for more

ASSUME ExplorerAssumption ==
  NumConns \in Nat \ {0} /\ NumSchemas \in Nat /\ MaxQueue \in Nat

None    == 0
Conns   == 1..NumConns
Schemas == 1..NumSchemas

\* The tables of a schema, as a session listed them; and the empty list.
Listing(c, s) == [conn |-> c, schema |-> s]
Nothing       == Listing(None, None)

VARIABLES
  active,    \* _active
  created,   \* how many connections were opened
  saving,    \* the connects that have opened theirs and not listed anything yet
  current,   \* of a connection: the session its databases were listed by
  schemas,   \* ... its schemas
  selected,  \* ... selectedSchema, None for null
  tables,    \* ... its tables
  loading,   \* ... tablesLoading
  failed,    \* ... whether it has a tablesError
  queue,     \* requests on their way to the core
  closed     \* the sessions closed in the core

shown == <<current, schemas, selected, tables, loading, failed>>
vars  == <<active, created, saving, shown, queue, closed>>

Init ==
  /\ active = None /\ created = 0 /\ saving = {}
  /\ current = [c \in Conns |-> None]
  /\ schemas = [c \in Conns |-> {}]
  /\ selected = [c \in Conns |-> None]
  /\ tables = [c \in Conns |-> Nothing]
  /\ loading = [c \in Conns |-> FALSE]
  /\ failed = [c \in Conns |-> FALSE]
  /\ queue = <<>> /\ closed = {}

-----------------------------------------------------------------------------
Request(op, c, s) == [op |-> op, conn |-> c, schema |-> s]

\* A method that lists something starts from whatever _active is by then, and
\* does nothing without one.
Ask(q, op) ==
  queue' = IF active = None THEN q ELSE Append(q, Request(op, active, None))

\* refreshTables, up to its await; sel is what is selected by then.
RefreshTables(q, sel) ==
  IF active = None
    THEN queue' = q /\ UNCHANGED <<loading, failed>>
    ELSE /\ queue' = Append(q, Request("tables", active, sel[active]))
         /\ loading' = [loading EXCEPT ![active] = TRUE]
         /\ failed' = [failed EXCEPT ![active] = FALSE]

\* _defaultSchema; which schema comes first is up to the server.
DefaultSchema(list) ==
  IF list = {} THEN None ELSE IF Preferred \in list THEN Preferred ELSE CHOOSE s \in list : TRUE

-----------------------------------------------------------------------------
(* connect and disconnect. *)

\* A connection has been opened; the connection file is being written.
Opened ==
  /\ created < NumConns
  /\ created' = created + 1 /\ active' = created + 1
  /\ saving' = saving \cup {created + 1}
  /\ UNCHANGED <<shown, queue, closed>>

\* disconnect, by itself or because another connection is to be opened.
Disconnect ==
  /\ active # None
  /\ active' = None
  /\ queue' = Append(queue, Request("close", active, None))
  /\ UNCHANGED <<created, saving, shown, closed>>

\* connect goes on to refreshDatabases.
Saved ==
  /\ \E j \in saving : saving' = saving \ {j}
  /\ Ask(queue, "databases")
  /\ UNCHANGED <<active, created, shown, closed>>

-----------------------------------------------------------------------------
(* What the core answers. *)

\* Of a session that is closed it can only say so.
MayAnswer(c) == c \notin closed

\* Mistake: the answer is put with whatever connection is open by then.
DatabasesWithActive ==
  /\ queue # <<>> /\ Head(queue).op = "databases"
  /\ LET c == Head(queue).conn IN
       \/ MayAnswer(c) /\ active # None /\ current' = [current EXCEPT ![active] = c]
       \/ UNCHANGED current
  /\ Ask(Tail(queue), "schemas")
  /\ UNCHANGED <<active, created, saving, schemas, selected, tables, loading, failed, closed>>

\* refreshDatabases swallows its failure; connect goes on to refreshSchemas.
DatabasesAnswered ==
  /\ queue # <<>> /\ Head(queue).op = "databases"
  /\ LET c == Head(queue).conn IN
       \/ MayAnswer(c) /\ current' = [current EXCEPT ![c] = c]
       \/ UNCHANGED current
  /\ Ask(Tail(queue), "schemas")
  /\ UNCHANGED <<active, created, saving, schemas, selected, tables, loading, failed, closed>>

\* The first schema to show is selected, and its tables are asked for.
SchemasAnswered ==
  /\ queue # <<>> /\ Head(queue).op = "schemas"
  /\ LET c == Head(queue).conn IN
       \/ \E list \in SUBSET Schemas :
            /\ MayAnswer(c)
            /\ schemas' = [schemas EXCEPT ![c] = list]
            /\ selected' = [selected EXCEPT ![c] = DefaultSchema(list)]
            /\ RefreshTables(Tail(queue), selected')
       \/ /\ failed' = [failed EXCEPT ![c] = TRUE]
          /\ queue' = Tail(queue)
          /\ UNCHANGED <<schemas, selected, loading>>
  /\ UNCHANGED <<active, created, saving, current, tables, closed>>

\* Mistake: the error path returns.
TablesAnsweredSpinning ==
  /\ queue # <<>> /\ Head(queue).op = "tables"
  /\ LET c == Head(queue).conn IN
       \/ /\ MayAnswer(c)
          /\ tables' = [tables EXCEPT ![c] = Listing(c, Head(queue).schema)]
          /\ loading' = [loading EXCEPT ![c] = FALSE]
          /\ UNCHANGED failed
       \/ /\ tables' = [tables EXCEPT ![c] = Nothing]
          /\ failed' = [failed EXCEPT ![c] = TRUE]
          /\ UNCHANGED loading
  /\ queue' = Tail(queue)
  /\ UNCHANGED <<active, created, saving, current, schemas, selected, closed>>

TablesAnswered ==
  /\ queue # <<>> /\ Head(queue).op = "tables"
  /\ LET c == Head(queue).conn IN
       /\ \/ /\ MayAnswer(c)
             /\ tables' = [tables EXCEPT ![c] = Listing(c, Head(queue).schema)]
             /\ UNCHANGED failed
          \/ /\ tables' = [tables EXCEPT ![c] = Nothing]
             /\ failed' = [failed EXCEPT ![c] = TRUE]
       /\ loading' = [loading EXCEPT ![c] = FALSE]
  /\ queue' = Tail(queue)
  /\ UNCHANGED <<active, created, saving, current, schemas, selected, closed>>

Closed ==
  /\ queue # <<>> /\ Head(queue).op = "close"
  /\ closed' = closed \cup {Head(queue).conn}
  /\ queue' = Tail(queue)
  /\ UNCHANGED <<active, created, saving, shown>>

-----------------------------------------------------------------------------
(* The user. *)

\* Mistake: tables that are loading already are not asked for again.
SelectUnlessLoading ==
  /\ active # None /\ Len(queue) < MaxQueue
  /\ \E s \in schemas[active] : selected' = [selected EXCEPT ![active] = s]
  /\ IF loading[active] THEN UNCHANGED <<queue, loading, failed>>
                        ELSE RefreshTables(queue, selected')
  /\ UNCHANGED <<active, created, saving, current, schemas, tables, closed>>

\* One of the schemas that were listed is chosen.
SelectSchema ==
  /\ active # None /\ Len(queue) < MaxQueue
  /\ \E s \in schemas[active] : selected' = [selected EXCEPT ![active] = s]
  /\ RefreshTables(queue, selected')
  /\ UNCHANGED <<active, created, saving, current, schemas, tables, closed>>

\* Pulled down, the button in the header, or "Try again".
Refresh ==
  /\ active # None /\ Len(queue) < MaxQueue
  /\ RefreshTables(queue, selected)
  /\ UNCHANGED <<active, created, saving, current, schemas, selected, tables, closed>>

CoreAnswers == DatabasesAnswered \/ SchemasAnswered \/ TablesAnswered \/ Closed

Next == Opened \/ Disconnect \/ Saved \/ CoreAnswers \/ SelectSchema \/ Refresh

\* The core answers each request and the connection file is written.
FairSpec == Init /\ [][Next]_vars /\ WF_vars(CoreAnswers) /\ WF_vars(Saved)

-----------------------------------------------------------------------------
(* Properties. *)

UnderWay(c) == {i \in DOMAIN queue : queue[i].op = "tables" /\ queue[i].conn = c}

\* Once no answer is due the explorer lists the schema that is selected, or
\* nothing, however many refreshes and choices overlapped (selectSchema,
\* refreshSchemas, refreshTables).
ListingSettles ==
  active # None /\ UnderWay(active) = {} =>
    tables[active] \in {Nothing, Listing(active, selected[active])}

\* What is shown of a connection was read from its own session, also when the
\* answer comes after another one has been opened.
DescribesItsSession ==
  \A c \in Conns : current[c] \in {None, c} /\ tables[c].conn \in {None, c}

\* The explorer does not spin for ever, whatever the core answers.
SpinnerEnds == \A c \in Conns : loading[c] ~> ~loading[c]

\* Among the requests under way, the youngest for the tables of the connection
\* that is open is for the schema that is selected.
YoungestIsSelected ==
  active # None =>
    \A i \in UnderWay(active) :
      (\A k \in UnderWay(active) : k <= i) => queue[i].schema = selected[active]

TypeOK ==
  /\ active \in 0..created /\ created \in 0..NumConns
  /\ saving \subseteq Conns /\ closed \subseteq Conns
  /\ current \in [Conns -> 0..NumConns]
  /\ schemas \in [Conns -> SUBSET Schemas]
  /\ selected \in [Conns -> 0..NumSchemas]
  /\ tables \in [Conns -> [conn : 0..NumConns, schema : 0..NumSchemas]]
  /\ loading \in [Conns -> BOOLEAN] /\ failed \in [Conns -> BOOLEAN]
  /\ queue \in Seq([op : {"databases", "schemas", "tables", "close"},
                    conn : 1..created, schema : 0..NumSchemas])

\* The inductive invariant; of a connection to come nothing is known.
IInv ==
  /\ TypeOK
  /\ ListingSettles /\ YoungestIsSelected /\ DescribesItsSession
  /\ \A c \in Conns : c > created => tables[c] = Nothing

\* An error belongs to the listing: where tables are listed there is none.
ErrorIsOfTheListing ==
  active # None /\ UnderWay(active) = {} /\ tables[active] # Nothing => ~failed[active]
=============================================================================
