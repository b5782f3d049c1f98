---------------------------- MODULE ScreensProofs ----------------------------
(***************************************************************************)
(* Theorems about what the app shows beside the editor: Explorer, for any  *)
(* number of connections, schemas and requests under way, and TableDetail, *)
(* for any number of tabs, screens and requests under way.                 *)
(***************************************************************************)
EXTENDS Explorer, TableDetail, SequenceTheorems, TLAPS

(* The explorer. *)

USE ExplorerAssumption DEF Conns, Schemas, None

Ops         == {"databases", "schemas", "tables", "close"}
Requests(n) == [op : Ops, conn : 1..n, schema : 0..NumSchemas]

\* Of a queue q: the requests for the tables of c, and that the youngest of
\* them is for the schema s.
Mine(q, c)        == {i \in DOMAIN q : q[i].op = "tables" /\ q[i].conn = c}
Youngest(q, c, s) ==
  \A i \in Mine(q, c) : (\A k \in Mine(q, c) : k <= i) => q[i].schema = s

\* What is listed of c is of the schema s, or an answer that will be is due.
Consistent(q, c, s, listing) ==
  Youngest(q, c, s) /\ (Mine(q, c) = {} => listing \in {Nothing, Listing(c, s)})

-----------------------------------------------------------------------------
(* Queues. *)

LEMMA AppendMine ==
  ASSUME NEW S, NEW q \in Seq(S), NEW r \in S, NEW c, r.op = "tables", r.conn = c
  PROVE  \A listing : Consistent(Append(q, r), c, r.schema, listing)
<1> DEFINE p == Append(q, r)
<1>1. /\ DOMAIN p = 1..(Len(q) + 1) /\ Len(q) \in Nat
      /\ p[Len(q) + 1] = r
  OBVIOUS
<1> HIDE DEF p
<1>2. Len(q) + 1 \in Mine(p, c)
  BY <1>1 DEF Mine
<1>3. ASSUME NEW i \in Mine(p, c), \A k \in Mine(p, c) : k <= i PROVE p[i].schema = r.schema
  <2>1. i \in 1..(Len(q) + 1) /\ Len(q) + 1 <= i
    BY <1>1, <1>2, <1>3 DEF Mine
  <2>2. i = Len(q) + 1
    BY <1>1, <2>1
  <2> QED BY <1>1, <2>2
<1>4. Youngest(p, c, r.schema)
  BY <1>3 DEF Youngest
<1> QED BY <1>2, <1>4 DEF Consistent, p

LEMMA AppendOther ==
  ASSUME NEW S, NEW q \in Seq(S), NEW r \in S, NEW c, ~(r.op = "tables" /\ r.conn = c),
         NEW s, NEW listing, Consistent(q, c, s, listing)
  PROVE  Consistent(Append(q, r), c, s, listing)
<1> DEFINE p == Append(q, r)
<1>1. /\ DOMAIN p = 1..(Len(q) + 1) /\ Len(q) \in Nat /\ DOMAIN q = 1..Len(q)
      /\ p[Len(q) + 1] = r
      /\ \A i \in 1..Len(q) : p[i] = q[i]
  OBVIOUS
<1> HIDE DEF p
<1>2. Mine(p, c) = Mine(q, c)
  BY <1>1 DEF Mine
<1>3. \A i \in Mine(q, c) : p[i] = q[i]
  BY <1>1 DEF Mine
<1> QED BY <1>2, <1>3 DEF Consistent, Youngest, p

\* The requests that are left, p, are those of q one place further up, but for
\* the first of q.
Shifted(p, q, c) ==
  /\ \A i \in Mine(p, c) : i + 1 \in Mine(q, c) /\ p[i] = q[i + 1]
  /\ \A i \in Mine(q, c) : i = 1 \/ i - 1 \in Mine(p, c)
  /\ Mine(q, c) \subseteq Nat /\ Mine(p, c) \subseteq Nat
  /\ 1 \in Mine(q, c) <=> (Head(q).op = "tables" /\ Head(q).conn = c)
  /\ Head(q) = q[1]

LEMMA TailMine ==
  ASSUME NEW S, NEW q \in Seq(S), q # <<>>, NEW c
  PROVE  Shifted(Tail(q), q, c)
<1> DEFINE p == Tail(q)
<1>1. /\ p \in Seq(S) /\ DOMAIN q = 1..Len(q) /\ Len(q) \in Nat \ {0}
      /\ DOMAIN p = 1..(Len(q) - 1) /\ Head(q) = q[1]
      /\ \A i \in 1..(Len(q) - 1) : p[i] = q[i + 1]
  OBVIOUS
<1> HIDE DEF p
<1>2. \A i \in Mine(p, c) : i + 1 \in Mine(q, c) /\ p[i] = q[i + 1]
  BY <1>1 DEF Mine
<1>3. ASSUME NEW i \in Mine(q, c), i # 1 PROVE i - 1 \in Mine(p, c)
  <2>1. i - 1 \in 1..(Len(q) - 1) /\ (i - 1) + 1 = i
    BY <1>1, <1>3 DEF Mine
  <2>2. p[i - 1] = q[i]
    BY <1>1, <2>1
  <2> QED BY <1>1, <1>3, <2>1, <2>2 DEF Mine
<1>4. Mine(q, c) \subseteq Nat /\ Mine(p, c) \subseteq Nat
  BY <1>1 DEF Mine
<1>5. 1 \in Mine(q, c) <=> (Head(q).op = "tables" /\ Head(q).conn = c)
  BY <1>1 DEF Mine
<1> QED BY <1>1, <1>2, <1>3, <1>4, <1>5 DEF p, Shifted

LEMMA TailYoungest ==
  ASSUME NEW S, NEW q \in Seq(S), q # <<>>, NEW c, NEW s, Youngest(q, c, s)
  PROVE  /\ Youngest(Tail(q), c, s)
         /\ Mine(Tail(q), c) = {} /\ 1 \in Mine(q, c) => Head(q).schema = s
<1> DEFINE p == Tail(q)
<1>0. Shifted(p, q, c)
  BY TailMine
<1> HIDE DEF p
<1>1. /\ \A i \in Mine(p, c) : i + 1 \in Mine(q, c) /\ p[i] = q[i + 1]
      /\ \A i \in Mine(q, c) : i = 1 \/ i - 1 \in Mine(p, c)
      /\ Mine(q, c) \subseteq Nat /\ Mine(p, c) \subseteq Nat
      /\ Head(q) = q[1]
  BY <1>0 DEF Shifted
<1>2. ASSUME NEW i \in Mine(p, c), \A k \in Mine(p, c) : k <= i PROVE p[i].schema = s
  <2>1. i + 1 \in Mine(q, c) /\ p[i] = q[i + 1] /\ i \in Nat
    BY <1>1
  <2>2. ASSUME NEW k \in Mine(q, c) PROVE k <= i + 1
    <3>1. CASE k = 1
      BY <2>1, <3>1
    <3>2. CASE k - 1 \in Mine(p, c)
      <4>1. k - 1 <= i /\ k \in Nat
        BY <1>1, <1>2, <3>2
      <4> QED BY <2>1, <4>1
    <3> QED BY <1>1, <3>1, <3>2
  <2> QED BY <2>1, <2>2 DEF Youngest
<1>3. ASSUME Mine(p, c) = {}, 1 \in Mine(q, c) PROVE Head(q).schema = s
  <2>1. \A k \in Mine(q, c) : k <= 1
    BY <1>1, <1>3
  <2> QED BY <1>1, <1>3, <2>1 DEF Youngest
<1>4. Youngest(p, c, s)
  BY <1>2 DEF Youngest
<1> QED BY <1>3, <1>4 DEF p

\* The answer to something else leaves what is due to the listing as it was.
LEMMA TailOther ==
  ASSUME NEW S, NEW q \in Seq(S), q # <<>>, NEW c, NEW s, NEW listing,
         Consistent(q, c, s, listing), ~(Head(q).op = "tables" /\ Head(q).conn = c)
  PROVE  Consistent(Tail(q), c, s, listing)
<1>1. Youngest(Tail(q), c, s)
  BY TailYoungest DEF Consistent
<1>0. Shifted(Tail(q), q, c)
  BY TailMine
<1>2. ASSUME Mine(Tail(q), c) = {} PROVE Mine(q, c) = {}
  BY <1>0, <1>2 DEF Shifted
<1> QED BY <1>1, <1>2 DEF Consistent

\* The tables that were asked for last are those of the schema s.
LEMMA TailAnswered ==
  ASSUME NEW S, NEW q \in Seq(S), q # <<>>, NEW c, NEW s, NEW old, NEW listing,
         Consistent(q, c, s, old), Head(q).op = "tables", Head(q).conn = c,
         listing \in {Nothing, Listing(c, Head(q).schema)}
  PROVE  Consistent(Tail(q), c, s, listing)
<1>1. Youngest(Tail(q), c, s)
  BY TailYoungest DEF Consistent
<1>2. ASSUME Mine(Tail(q), c) = {} PROVE Head(q).schema = s
  <2>0. Shifted(Tail(q), q, c)
    BY TailMine
  <2>1. 1 \in Mine(q, c)
    BY <2>0 DEF Shifted
  <2> QED BY <1>2, <2>1, TailYoungest DEF Consistent
<1> QED BY <1>1, <1>2 DEF Consistent

-----------------------------------------------------------------------------
(* The steps. *)

Fresh == \A c \in Conns : c > created => tables[c] = Nothing

\* What is due to the connection that is open.
Due == active # None => Consistent(queue, active, selected[active], tables[active])

LEMMA Parts == IInv <=> TypeOK /\ Due /\ DescribesItsSession /\ Fresh
<1>1. \A c : UnderWay(c) = Mine(queue, c)
  BY DEF UnderWay, Mine
<1>2. YoungestIsSelected /\ ListingSettles <=> Due
  BY <1>1 DEF YoungestIsSelected, ListingSettles, Due, Consistent, Youngest
<1> QED BY <1>2 DEF IInv, Fresh

LEMMA Types ==
  ASSUME TypeOK
  PROVE  /\ queue \in Seq(Requests(created)) /\ created \in 0..NumConns
         /\ active # None => active \in 1..created /\ active \in Conns
         /\ 1..created \subseteq Conns
  BY DEF TypeOK, Requests, Ops

\* A step that leaves _active and what is listed alone, and asks for something
\* that is not tables, after the head of the queue or at its end.
LEMMA AskKeeps ==
  ASSUME NEW q \in Seq(Requests(created)), NEW op \in Ops \ {"tables"}, TypeOK,
         active # None => Consistent(q, active, selected[active], tables[active]),
         Ask(q, op), UNCHANGED <<active, selected, tables>>
  PROVE  Due' /\ queue' \in Seq(Requests(created))
<1> DEFINE r == Request(op, active, None)
<1>1. CASE active = None
  BY <1>1 DEF Ask, Due
<1>2. CASE active # None
  <2>1. r \in Requests(created) /\ r.op # "tables"
    BY <1>2, Types DEF Request, Requests, Ops
  <2>2. queue' = Append(q, r)
    BY <1>2 DEF Ask
  <2> HIDE DEF r
  <2>3. Consistent(Append(q, r), active, selected[active], tables[active])
    BY <1>2, <2>1, AppendOther
  <2> QED BY <2>1, <2>2, <2>3 DEF Due
<1> QED BY <1>1, <1>2

\* Asking for the tables of what is selected is as good as having them.
LEMMA RefreshKeeps ==
  ASSUME NEW q \in Seq(Requests(created)), TypeOK, RefreshTables(q, selected'),
         selected' \in [Conns -> 0..NumSchemas],
         active' = active
  PROVE  /\ Due' /\ queue' \in Seq(Requests(created))
         /\ loading' \in [Conns -> BOOLEAN] /\ failed' \in [Conns -> BOOLEAN]
<1>0. loading \in [Conns -> BOOLEAN] /\ failed \in [Conns -> BOOLEAN]
  BY DEF TypeOK
<1>1. CASE active = None
  BY <1>0, <1>1 DEF RefreshTables, Due
<1>2. CASE active # None
  <2> DEFINE r == Request("tables", active, selected'[active])
  <2>1. /\ r \in Requests(created) /\ r.op = "tables"
        /\ r.conn = active /\ r.schema = selected'[active]
    BY <1>2, Types DEF Request, Requests, Ops
  <2>2. /\ queue' = Append(q, r)
        /\ loading' \in [Conns -> BOOLEAN] /\ failed' \in [Conns -> BOOLEAN]
    BY <1>0, <1>2 DEF RefreshTables
  <2> HIDE DEF r
  <2>3. Consistent(Append(q, r), active, r.schema, tables'[active])
    BY <2>1, AppendMine
  <2> QED BY <2>1, <2>2, <2>3 DEF Due
<1> QED BY <1>1, <1>2

\* The request that is answered, and the queue it leaves.
LEMMA Answering ==
  ASSUME TypeOK, queue # <<>>
  PROVE  /\ Tail(queue) \in Seq(Requests(created)) /\ Head(queue) \in Requests(created)
         /\ Head(queue).conn \in Conns /\ Head(queue).schema \in 0..NumSchemas
<1>1. queue \in Seq(Requests(created)) /\ 1..created \subseteq Conns
  BY Types
<1>2. Tail(queue) \in Seq(Requests(created)) /\ Head(queue) \in Requests(created)
  BY <1>1
<1> QED BY <1>1, <1>2 DEF Requests

\* Where the answer is not one with tables of the connection that is open.
LEMMA OtherAnswered ==
  ASSUME TypeOK, Due, queue # <<>>,
         ~(Head(queue).op = "tables" /\ Head(queue).conn = active)
  PROVE  active # None => Consistent(Tail(queue), active, selected[active], tables[active])
  BY Types, TailOther DEF Due

LEMMA InitCorrect == Init => IInv
<1> SUFFICES ASSUME Init PROVE IInv
  OBVIOUS
<1>1. TypeOK
  <2>1. queue \in Seq([op : Ops, conn : 1..created, schema : 0..NumSchemas])
    BY DEF Init
  <2> QED BY <2>1 DEF Init, TypeOK, Nothing, Listing, Ops
<1>2. DescribesItsSession /\ Fresh /\ Due
  BY DEF Init, DescribesItsSession, Fresh, Due, Nothing, Listing
<1> QED BY <1>1, <1>2, Parts

LEMMA OpenedKeeps ==
  ASSUME IInv, Opened PROVE IInv'
<1>0. TypeOK /\ DescribesItsSession /\ Fresh
  BY Parts
<1>1. queue' \in Seq(Requests(created'))
  <2>1. Requests(created) \subseteq Requests(created + 1)
    BY <1>0, Types DEF Requests
  <2> QED BY <1>0, <2>1, Types, SeqMonotonic DEF Opened
<1>2. TypeOK'
  <2>1. created' \in 0..NumConns /\ active' \in 0..created' /\ saving' \subseteq Conns
    BY <1>0 DEF TypeOK, Opened
  <2> QED BY <1>0, <1>1, <2>1 DEF TypeOK, Opened, shown, Requests, Ops
<1>3. Due'
  <2>1. \A i \in DOMAIN queue : queue[i].conn \in 1..created
    <3>1. queue \in Seq(Requests(created))
      BY <1>0, Types
    <3>2. \A r \in Requests(created) : r.conn \in 1..created
      BY DEF Requests
    <3> HIDE DEF Requests
    <3>3. \A i \in DOMAIN queue : queue[i] \in Requests(created)
      BY <3>1
    <3> QED BY <3>2, <3>3
  <2>2. Mine(queue, created + 1) = {}
    BY <1>0, <2>1, Types DEF Mine
  <2>3. tables[created + 1] = Nothing
    BY <1>0, Types DEF Fresh, Opened
  <2> QED BY <2>2, <2>3 DEF Due, Consistent, Youngest, Opened, shown
<1>4. DescribesItsSession' /\ Fresh'
  BY <1>0, Types DEF DescribesItsSession, Fresh, Opened, shown
<1> QED
  <2>1. (TypeOK /\ Due /\ DescribesItsSession /\ Fresh)' => IInv'
    BY Parts, PTL
  <2> QED BY <1>2, <1>3, <1>4, <2>1

LEMMA DisconnectKeeps ==
  ASSUME IInv, Disconnect PROVE IInv'
<1>0. TypeOK /\ DescribesItsSession /\ Fresh
  BY Parts
<1>1. queue' \in Seq(Requests(created))
  <2>1. Request("close", active, None) \in Requests(created)
    BY <1>0, Types DEF Request, Requests, Ops, Disconnect
  <2> QED BY <1>0, <2>1, Types DEF Disconnect
<1>2. TypeOK'
  <2>1. active' \in 0..created
    BY <1>0 DEF TypeOK, Disconnect
  <2>2. UNCHANGED <<created, saving, current, schemas, selected, tables, loading, failed, closed>>
    BY DEF Disconnect, shown
  <2> QED BY <1>0, <1>1, <2>1, <2>2 DEF TypeOK, Requests, Ops
<1>3. Due' /\ DescribesItsSession' /\ Fresh'
  BY <1>0 DEF Due, DescribesItsSession, Fresh, Disconnect, shown
<1>4. (TypeOK /\ Due /\ DescribesItsSession /\ Fresh)' => IInv'
  BY Parts, PTL
<1> QED BY <1>2, <1>3, <1>4

LEMMA SavedKeeps ==
  ASSUME IInv, Saved PROVE IInv'
<1>0. TypeOK /\ Due /\ DescribesItsSession /\ Fresh
  BY Parts
<1>1. Due' /\ queue' \in Seq(Requests(created))
  <2>1. "databases" \in Ops \ {"tables"}
    BY DEF Ops
  <2> QED BY <1>0, <2>1, Types, AskKeeps DEF Saved, Due, shown
<1>2. TypeOK'
  BY <1>0, <1>1 DEF TypeOK, Saved, shown, Requests, Ops
<1>3. DescribesItsSession' /\ Fresh'
  BY <1>0 DEF DescribesItsSession, Fresh, Saved, shown
<1>4. (TypeOK /\ Due /\ DescribesItsSession /\ Fresh)' => IInv'
  BY Parts, PTL
<1> QED BY <1>1, <1>2, <1>3, <1>4

LEMMA DatabasesKeep ==
  ASSUME IInv, DatabasesAnswered PROVE IInv'
<1>0. TypeOK /\ Due /\ DescribesItsSession /\ Fresh /\ queue # <<>>
  BY Parts DEF DatabasesAnswered
<1>1. active # None => Consistent(Tail(queue), active, selected[active], tables[active])
  BY <1>0, OtherAnswered DEF DatabasesAnswered
<1>2. Due' /\ queue' \in Seq(Requests(created))
  <2>1. "schemas" \in Ops \ {"tables"}
    BY DEF Ops
  <2> QED BY <1>0, <1>1, <2>1, Answering, AskKeeps DEF DatabasesAnswered
<1>3. current' \in [Conns -> 0..NumConns] /\ \A c \in Conns : current'[c] \in {None, c}
  <2> DEFINE c == Head(queue).conn
  <2>1. c \in Conns /\ c \in 0..NumConns
    BY <1>0, Answering
  <2>2. current' = [current EXCEPT ![c] = c] \/ current' = current
    BY DEF DatabasesAnswered
  <2> HIDE DEF c
  <2>3. current \in [Conns -> 0..NumConns] /\ \A d \in Conns : current[d] \in {None, d}
    BY <1>0 DEF TypeOK, DescribesItsSession
  <2> QED BY <2>1, <2>2, <2>3
<1>4. TypeOK'
  BY <1>0, <1>2, <1>3 DEF TypeOK, DatabasesAnswered, Requests, Ops
<1>5. DescribesItsSession' /\ Fresh'
  BY <1>0, <1>3 DEF DescribesItsSession, Fresh, DatabasesAnswered
<1>6. (TypeOK /\ Due /\ DescribesItsSession /\ Fresh)' => IInv'
  BY Parts, PTL
<1> QED BY <1>2, <1>4, <1>5, <1>6

LEMMA SchemasKeep ==
  ASSUME IInv, SchemasAnswered PROVE IInv'
<1>0. TypeOK /\ Due /\ DescribesItsSession /\ Fresh /\ queue # <<>>
  BY Parts DEF SchemasAnswered
<1>1. active # None => Consistent(Tail(queue), active, selected[active], tables[active])
  BY <1>0, OtherAnswered DEF SchemasAnswered
<1>2. /\ Due' /\ queue' \in Seq(Requests(created))
      /\ loading' \in [Conns -> BOOLEAN] /\ failed' \in [Conns -> BOOLEAN]
      /\ schemas' \in [Conns -> SUBSET Schemas] /\ selected' \in [Conns -> 0..NumSchemas]
  <2> DEFINE c == Head(queue).conn
  <2>1. CASE \E list \in SUBSET Schemas :
               /\ schemas' = [schemas EXCEPT ![c] = list]
               /\ selected' = [selected EXCEPT ![c] = DefaultSchema(list)]
               /\ RefreshTables(Tail(queue), selected')
    <3>1. PICK list \in SUBSET Schemas :
            /\ schemas' = [schemas EXCEPT ![c] = list]
            /\ selected' = [selected EXCEPT ![c] = DefaultSchema(list)]
            /\ RefreshTables(Tail(queue), selected')
      BY <2>1
    <3>2. DefaultSchema(list) \in 0..NumSchemas
      <4>1. list # {} => (CHOOSE t \in list : TRUE) \in list
        OBVIOUS
      <4>2. DefaultSchema(list) = None \/ DefaultSchema(list) \in list
        BY <4>1 DEF DefaultSchema
      <4>3. list \subseteq 0..NumSchemas /\ None \in 0..NumSchemas
        OBVIOUS
      <4> QED BY <4>2, <4>3
    <3>3. selected' \in [Conns -> 0..NumSchemas] /\ schemas' \in [Conns -> SUBSET Schemas]
      BY <1>0, <3>1, <3>2 DEF TypeOK
    <3> QED BY <1>0, <3>1, <3>3, Answering, RefreshKeeps DEF SchemasAnswered
  <2>2. CASE /\ failed' = [failed EXCEPT ![c] = TRUE]
             /\ queue' = Tail(queue)
             /\ UNCHANGED <<schemas, selected, loading>>
    <3>1. Due'
      BY <1>1, <2>2 DEF Due, SchemasAnswered
    <3> QED BY <1>0, <2>2, <3>1, Answering DEF TypeOK
  <2> QED BY <2>1, <2>2 DEF SchemasAnswered
<1>3. TypeOK'
  BY <1>0, <1>2 DEF TypeOK, SchemasAnswered, Requests, Ops
<1>4. DescribesItsSession' /\ Fresh'
  BY <1>0 DEF DescribesItsSession, Fresh, SchemasAnswered
<1>5. (TypeOK /\ Due /\ DescribesItsSession /\ Fresh)' => IInv'
  BY Parts, PTL
<1> QED BY <1>2, <1>3, <1>4, <1>5

LEMMA TablesKeep ==
  ASSUME IInv, TablesAnswered PROVE IInv'
<1> DEFINE c == Head(queue).conn
           s == Head(queue).schema
<1>0. TypeOK /\ Due /\ DescribesItsSession /\ Fresh /\ queue # <<>>
  BY Parts DEF TablesAnswered
<1>1. PICK listing \in {Nothing, Listing(c, s)} : tables' = [tables EXCEPT ![c] = listing]
  BY DEF TablesAnswered
<1>2. /\ Tail(queue) \in Seq(Requests(created)) /\ c \in 1..created /\ c \in Conns
      /\ s \in 0..NumSchemas /\ created \in 0..NumConns
  BY <1>0, Types, Answering DEF Requests
<1>3. /\ queue' = Tail(queue) /\ UNCHANGED <<active, created, selected>>
      /\ Head(queue).op = "tables"
  BY DEF TablesAnswered
<1>4. Due'
  <2>1. CASE c = active /\ active # None
    <3>1. tables'[active] = listing /\ active # None
      BY <1>0, <1>1, <1>2, <2>1 DEF TypeOK
    <3>2. Consistent(queue, active, selected[active], tables[active])
      BY <1>0, <3>1 DEF Due
    <3>3. queue \in Seq(Requests(created))
      BY <1>0, Types
    <3>4. Consistent(Tail(queue), active, selected[active], listing)
      BY <1>0, <1>1, <1>3, <2>1, <3>2, <3>3, TailAnswered
    <3> QED BY <1>3, <3>1, <3>4 DEF Due
  <2>2. CASE c # active /\ active # None
    <3>1. tables'[active] = tables[active]
      BY <1>0, <1>1, <2>2, Types DEF TypeOK
    <3>2. Consistent(Tail(queue), active, selected[active], tables[active])
      BY <1>0, <2>2, OtherAnswered
    <3> QED BY <1>3, <3>1, <3>2 DEF Due
  <2> QED BY <1>3, <2>1, <2>2 DEF Due
<1>5. /\ tables' \in [Conns -> [conn : 0..NumConns, schema : 0..NumSchemas]]
      /\ \A d \in Conns : tables'[d].conn \in {None, d}
  <2>1. listing \in [conn : 0..NumConns, schema : 0..NumSchemas] /\ listing.conn \in {None, c}
    BY <1>1, <1>2 DEF Nothing, Listing
  <2> QED BY <1>0, <1>1, <2>1 DEF TypeOK, DescribesItsSession
<1>6. TypeOK'
  <2>1. loading' \in [Conns -> BOOLEAN] /\ failed' \in [Conns -> BOOLEAN]
    BY <1>0 DEF TypeOK, TablesAnswered
  <2> QED BY <1>0, <1>2, <1>3, <1>5, <2>1 DEF TypeOK, TablesAnswered, Requests, Ops
<1>7. DescribesItsSession'
  BY <1>0, <1>5 DEF DescribesItsSession, TablesAnswered
<1>8. Fresh'
  <2>1. ASSUME NEW d \in Conns, d > created' PROVE tables'[d] = Nothing
    <3>1. d # c /\ d > created
      BY <1>2, <1>3, <2>1
    <3>2. tables'[d] = tables[d]
      BY <1>0, <1>1, <3>1 DEF TypeOK
    <3> QED BY <1>0, <3>1, <3>2 DEF Fresh
  <2> QED BY <2>1 DEF Fresh
<1>9. (TypeOK /\ Due /\ DescribesItsSession /\ Fresh)' => IInv'
  BY Parts, PTL
<1> QED BY <1>4, <1>6, <1>7, <1>8, <1>9

LEMMA ClosedKeeps ==
  ASSUME IInv, Closed PROVE IInv'
<1>0. TypeOK /\ Due /\ DescribesItsSession /\ Fresh /\ queue # <<>>
  BY Parts DEF Closed
<1>1. Due'
  BY <1>0, OtherAnswered DEF Closed, Due, shown
<1>2. TypeOK'
  BY <1>0, Answering DEF TypeOK, Closed, shown, Requests, Ops
<1>3. DescribesItsSession' /\ Fresh'
  BY <1>0 DEF DescribesItsSession, Fresh, Closed, shown
<1>4. (TypeOK /\ Due /\ DescribesItsSession /\ Fresh)' => IInv'
  BY Parts, PTL
<1> QED BY <1>1, <1>2, <1>3, <1>4

LEMMA UserKeeps ==
  ASSUME IInv, SelectSchema \/ Refresh PROVE IInv'
<1>0. TypeOK /\ DescribesItsSession /\ Fresh
  BY Parts
<1>1. /\ RefreshTables(queue, selected') /\ active # None
      /\ UNCHANGED <<active, created, saving, current, schemas, tables, closed>>
  BY DEF SelectSchema, Refresh, RefreshTables
<1>2. selected' \in [Conns -> 0..NumSchemas]
  <2>1. CASE Refresh
    BY <1>0, <2>1 DEF Refresh, TypeOK
  <2>2. CASE SelectSchema
    <3>1. PICK s \in schemas[active] : selected' = [selected EXCEPT ![active] = s]
      BY <2>2 DEF SelectSchema
    <3>2. s \in Schemas
      BY <1>0, <1>1, <3>1, Types DEF TypeOK
    <3>3. s \in 0..NumSchemas /\ selected \in [Conns -> 0..NumSchemas]
      BY <1>0, <3>2 DEF TypeOK
    <3> QED BY <3>1, <3>3
  <2> QED BY <2>1, <2>2
<1>3. /\ Due' /\ queue' \in Seq(Requests(created))
      /\ loading' \in [Conns -> BOOLEAN] /\ failed' \in [Conns -> BOOLEAN]
  BY <1>0, <1>1, <1>2, Types, RefreshKeeps
<1>4. TypeOK'
  BY <1>0, <1>1, <1>2, <1>3 DEF TypeOK, Requests, Ops
<1>5. DescribesItsSession' /\ Fresh'
  BY <1>0, <1>1 DEF DescribesItsSession, Fresh
<1>6. (TypeOK /\ Due /\ DescribesItsSession /\ Fresh)' => IInv'
  BY Parts, PTL
<1> QED BY <1>3, <1>4, <1>5, <1>6

LEMMA StutterKeeps ==
  ASSUME IInv, UNCHANGED vars PROVE IInv'
<1>1. TypeOK /\ Due /\ DescribesItsSession /\ Fresh
  BY Parts
<1>2. (TypeOK /\ Due /\ DescribesItsSession /\ Fresh)'
  BY <1>1 DEF vars, shown, TypeOK, Due, DescribesItsSession, Fresh
<1>3. (TypeOK /\ Due /\ DescribesItsSession /\ Fresh)' => IInv'
  BY Parts, PTL
<1> QED BY <1>2, <1>3

\* The inductive invariant of the explorer.
THEOREM ListingInv == FairSpec => []IInv
<1>1. IInv /\ [Next]_vars => IInv'
  BY OpenedKeeps, DisconnectKeeps, SavedKeeps, DatabasesKeep, SchemasKeep, TablesKeep,
     ClosedKeeps, UserKeeps, StutterKeeps
  DEF Next, CoreAnswers
<1> QED BY <1>1, InitCorrect, PTL DEF FairSpec

\* Once no answer is due, the tables in the explorer are those of the schema
\* that is selected (selectSchema, refreshSchemas, refreshTables).
THEOREM ListingIsRight == FairSpec => []ListingSettles
<1>1. IInv => ListingSettles
  BY DEF IInv
<1> QED BY <1>1, ListingInv, PTL

\* What is shown of a connection was read from its own session: each method
\* keeps to the connection it captured before its await.
THEOREM NothingIsMixedUp == FairSpec => []DescribesItsSession
<1>1. IInv => DescribesItsSession
  BY DEF IInv
<1> QED BY <1>1, ListingInv, PTL

-----------------------------------------------------------------------------
(* The screen of one table. *)

USE TableDetailAssumption DEF Tabs, Screens, User, Nobody

Asked(n) == [op : {"preview", "execute"}, by : 0..n, tab : Tabs]

LEMMA DetailTypes ==
  ASSUME DetailTypeOK
  PROVE  /\ asked \in Seq(Asked(opened)) /\ opened \in 0..NumScreens /\ front \in Tabs
         /\ screen # Nobody => screen \in 1..opened
         /\ \A t \in Tabs : results[t] \in {Nobody, User} \cup Screens
  BY DEF DetailTypeOK, Asked

\* What follows the head of a asked, and what is asked at its end.
LEMMA TailElements ==
  ASSUME NEW S, NEW q \in Seq(S), q # <<>>
  PROVE  /\ Tail(q) \in Seq(S) /\ Head(q) = q[1] /\ 1 \in DOMAIN q /\ Head(q) \in S
         /\ Len(Tail(q)) = Len(q) - 1 /\ Len(q) \in Nat \ {0}
         /\ DOMAIN q = 1..Len(q) /\ DOMAIN Tail(q) = 1..(Len(q) - 1)
         /\ \A i \in 1..(Len(q) - 1) : Tail(q)[i] = q[i + 1]
  OBVIOUS

LEMMA AppendElements ==
  ASSUME NEW S, NEW q \in Seq(S), NEW r \in S
  PROVE  /\ Append(q, r) \in Seq(S) /\ Len(q) \in Nat
         /\ Len(Append(q, r)) = Len(q) + 1
         /\ DOMAIN Append(q, r) = 1..(Len(q) + 1) /\ DOMAIN q = 1..Len(q)
         /\ Append(q, r)[Len(q) + 1] = r
         /\ \A i \in 1..Len(q) : Append(q, r)[i] = q[i]
  OBVIOUS

\* A step in which no screen is left mounted.
LEMMA Alone ==
  ASSUME screen' = Nobody, DetailTypeOK' PROVE DetailInv'
  BY DEF DetailInv, InTurn, AnswerInFront, CountIsOwn

LEMMA DetailInitCorrect == DetailInit => DetailInv
<1> SUFFICES ASSUME DetailInit PROVE DetailInv
  OBVIOUS
<1>1. DetailTypeOK
  <2>1. asked \in Seq([op : {"preview", "execute"}, by : 0..opened, tab : Tabs])
    BY DEF DetailInit
  <2>2. 1 \in Tabs
    OBVIOUS
  <2> QED BY <2>1, <2>2 DEF DetailInit, DetailTypeOK
<1> QED BY <1>1 DEF DetailInit, DetailInv, InTurn, AnswerInFront, CountIsOwn

LEMMA WorkspaceKeeps ==
  ASSUME DetailInv, RunStatement \/ SelectTab \/ Connects \/ Back PROVE DetailInv'
<1>0. DetailTypeOK
  BY DEF DetailInv
<1>1. CASE RunStatement
  <2>1. CountRequest("execute", User) \in Asked(opened)
    BY <1>0, DetailTypes DEF CountRequest, Asked
  <2>2. asked' \in Seq(Asked(opened))
    BY <1>0, <1>1, <2>1, DetailTypes DEF RunStatement, Run
  <2>3. DetailTypeOK'
    BY <1>0, <1>1, <2>2 DEF DetailTypeOK, RunStatement, Run, screenVars, Asked
  <2> QED BY <1>1, <2>3, Alone DEF RunStatement
<1>2. CASE SelectTab \/ Connects \/ Back
  <2>1. DetailTypeOK'
    BY <1>0, <1>2 DEF DetailTypeOK, SelectTab, Connects, Back, screenVars, appVars
  <2> QED BY <1>2, <2>1, Alone DEF SelectTab, Connects, Back
<1> QED BY <1>1, <1>2

LEMMA OpenKeeps ==
  ASSUME DetailInv, OpenDetail PROVE DetailInv'
<1>0. DetailTypeOK
  BY DEF DetailInv
<1>1. asked' = asked /\ opened' = opened + 1 /\ screen' = opened + 1 /\ opened < NumScreens
  BY DEF OpenDetail
<1>2. asked' \in Seq(Asked(opened'))
  <2>1. Asked(opened) \subseteq Asked(opened + 1)
    BY <1>0, DetailTypes DEF Asked
  <2> QED BY <1>0, <1>1, <2>1, DetailTypes, SeqMonotonic
<1>3. DetailTypeOK'
  <2>1. opened' \in 0..NumScreens /\ screen' \in {Nobody} \cup 1..opened'
    BY <1>0, <1>1, DetailTypes
  <2> QED BY <1>0, <1>2, <2>1 DEF DetailTypeOK, OpenDetail, appVars, Asked
<1>4. \A i \in DOMAIN asked : asked[i].by # opened + 1
  <2>1. asked \in Seq(Asked(opened)) /\ opened \in Nat
    BY <1>0, DetailTypes
  <2>2. \A r \in Asked(opened) : r.by # opened + 1
    BY <2>1 DEF Asked
  <2> HIDE DEF Asked
  <2> QED BY <2>1, <2>2
<1> QED BY <1>1, <1>3, <1>4 DEF OpenDetail, DetailInv, InTurn, AnswerInFront, CountIsOwn

LEMMA CountKeeps ==
  ASSUME DetailInv, Count PROVE DetailInv'
<1>0. DetailTypeOK /\ InTurn /\ screen # Nobody /\ counting = "no" /\ exact = Nobody
  BY DEF DetailInv, Count
<1> DEFINE r == CountRequest("preview", screen)
<1>1. r \in Asked(opened) /\ r.op = "preview" /\ r.by = screen
  BY <1>0, DetailTypes DEF CountRequest, Asked
<1>2. asked' = Append(asked, r) /\ counting' = "preview" /\ UNCHANGED <<screen, opened, exact>>
  BY DEF Count
<1> HIDE DEF r
<1>3. /\ asked' \in Seq(Asked(opened)) /\ Len(asked) \in Nat
      /\ Len(asked') = Len(asked) + 1
      /\ DOMAIN asked' = 1..(Len(asked) + 1) /\ DOMAIN asked = 1..Len(asked)
      /\ asked'[Len(asked) + 1] = r
      /\ \A i \in 1..Len(asked) : asked'[i] = asked[i]
  BY <1>0, <1>1, <1>2, DetailTypes, AppendElements
<1>4. DetailTypeOK'
  BY <1>0, <1>3 DEF DetailTypeOK, Count, appVars, Asked
<1>5. \A i \in DOMAIN asked : asked[i].by # screen
  BY <1>0 DEF InTurn
<1>6. InTurn'
  <2>1. ASSUME NEW i \in DOMAIN asked', asked'[i].by = screen PROVE i = Len(asked')
    BY <1>3, <1>5, <2>1
  <2>2. ASSUME NEW i \in DOMAIN asked', asked'[i].by = screen
        PROVE asked'[i].op = "preview" /\ \A k \in (i + 1)..Len(asked') : asked'[k].op # "preview"
    BY <1>1, <1>3, <2>1, <2>2
  <2> QED BY <1>0, <1>2, <2>2 DEF InTurn
<1>7. AnswerInFront' /\ CountIsOwn'
  BY <1>0, <1>2 DEF AnswerInFront, CountIsOwn
<1> QED BY <1>4, <1>6, <1>7 DEF DetailInv

LEMMA CountedKeeps ==
  ASSUME DetailInv, Counted PROVE DetailInv'
<1>0. DetailTypeOK /\ InTurn /\ AnswerInFront /\ screen # Nobody /\ counting = "history"
  BY DEF DetailInv, Counted
<1>1. asked = <<>> /\ asked' = asked /\ counting' = "no" /\ exact' = results[front]
  BY <1>0 DEF InTurn, Counted
<1>2. DetailTypeOK'
  BY <1>0, <1>1, DetailTypes DEF DetailTypeOK, Counted, appVars
<1>3. InTurn' /\ AnswerInFront'
  <2>1. DOMAIN asked' = {}
    BY <1>1
  <2> QED BY <1>1, <2>1 DEF InTurn, AnswerInFront
<1>4. CountIsOwn'
  BY <1>0, <1>1 DEF CountIsOwn, AnswerInFront, Counted
<1> QED BY <1>2, <1>3, <1>4 DEF DetailInv

\* The statement of a preview follows everything else, and no preview of the
\* screen is left when its own was answered.
LEMMA PreviewKeeps ==
  ASSUME DetailInv, PreviewAnswered PROVE DetailInv'
<1> DEFINE by == Head(asked).by
           rest == Tail(asked)
           r == CountRequest("execute", by)
<1>0. DetailTypeOK /\ InTurn /\ CountIsOwn /\ AnswerInFront /\ asked # <<>> /\ Head(asked).op = "preview"
  BY DEF DetailInv, PreviewAnswered
<1>1. UNCHANGED <<connected, front, opened, screen, reply, exact>>
  BY DEF PreviewAnswered
<1>2. /\ rest \in Seq(Asked(opened)) /\ Head(asked) = asked[1] /\ 1 \in DOMAIN asked
      /\ Len(rest) = Len(asked) - 1 /\ Len(asked) \in Nat \ {0}
      /\ DOMAIN asked = 1..Len(asked) /\ DOMAIN rest = 1..(Len(asked) - 1)
      /\ \A i \in 1..(Len(asked) - 1) : rest[i] = asked[i + 1]
      /\ Head(asked) \in Asked(opened)
  BY <1>0, DetailTypes, TailElements
<1>3. by \in 0..opened /\ r \in Asked(opened) /\ r.op = "execute" /\ r.by = by /\ r.tab = front
  BY <1>0, <1>2, DetailTypes DEF Asked, CountRequest
<1> HIDE DEF by, rest, r
<1>4. \/ /\ results' = [results EXCEPT ![front] = Nobody] /\ asked' = Append(rest, r)
         /\ counting' = IF by = screen THEN "run" ELSE counting
      \/ /\ results' = results /\ asked' = rest
         /\ counting' = IF by = screen THEN "no" ELSE counting
  BY DEF PreviewAnswered, Run, Mounted, by, rest, r
<1>5. /\ Append(rest, r) \in Seq(Asked(opened))
      /\ Len(Append(rest, r)) = Len(asked)
      /\ DOMAIN Append(rest, r) = 1..Len(asked)
      /\ Append(rest, r)[Len(asked)] = r
      /\ \A i \in 1..(Len(asked) - 1) : Append(rest, r)[i] = asked[i + 1]
  BY <1>2, <1>3, AppendElements
<1>6. DetailTypeOK'
  <2>1. counting' \in {"no", "preview", "run", "history"}
    BY <1>0, <1>4 DEF DetailTypeOK
  <2>2. asked' \in Seq(Asked(opened))
    BY <1>2, <1>4, <1>5
  <2>3. results' \in [Tabs -> {Nobody, User} \cup Screens]
    BY <1>0, <1>4 DEF DetailTypeOK
  <2> QED BY <1>0, <1>1, <2>1, <2>2, <2>3 DEF DetailTypeOK, Asked
<1>7. CountIsOwn'
  BY <1>0, <1>1 DEF CountIsOwn
<1>8. ASSUME screen # Nobody PROVE counting \notin {"run", "history"} \/ by = screen
  BY <1>0, <1>2, <1>8 DEF InTurn, by
\* The screen asked for nothing but its preview, and the answer is to it or not.
<1>9. CASE screen # Nobody /\ by = screen
  <2>1. counting = "preview" /\ \A k \in 2..Len(asked) : asked[k].op # "preview"
    BY <1>0, <1>2, <1>9 DEF InTurn, by
  <2>2. \A i \in 2..Len(asked) : asked[i].by # screen
    BY <1>0, <1>2, <1>9, <2>1 DEF InTurn
  <2>3. \A i \in 1..(Len(asked) - 1) : rest[i].by # screen /\ rest[i].op # "preview"
    <3>1. \A i \in 1..(Len(asked) - 1) : i + 1 \in 2..Len(asked)
      BY <1>2
    <3> QED BY <1>2, <2>1, <2>2, <3>1
  <2>4. ASSUME asked' = rest, counting' = "no" PROVE InTurn'
    BY <1>1, <1>2, <2>3, <2>4 DEF InTurn
  <2>5. ASSUME asked' = Append(rest, r), counting' = "run" PROVE InTurn'
    <3>1. \A i \in 1..(Len(asked) - 1) : asked'[i].by # screen /\ asked'[i].op # "preview"
      BY <1>2, <1>5, <2>3, <2>5
    <3>2. ASSUME NEW i \in DOMAIN asked'
          PROVE  /\ asked'[i].op # "preview"
                 /\ asked'[i].by = screen => i = Len(asked') /\ asked'[i] = r
      <4>1. i \in 1..(Len(asked) - 1) \/ i = Len(asked)
        BY <1>2, <1>5, <2>5, <3>2
      <4> QED BY <1>3, <1>5, <2>5, <3>1, <4>1
    <3>3. exact' = Nobody
      BY <1>0, <1>1, <1>9, <2>1 DEF InTurn
    <3> QED BY <1>1, <1>3, <2>5, <3>2, <3>3 DEF InTurn
  <2>6. InTurn' /\ counting' # "history"
    BY <1>4, <1>9, <2>4, <2>5
  <2> QED BY <1>6, <1>7, <2>6 DEF DetailInv, AnswerInFront
<1>10. CASE screen # Nobody /\ by # screen
  <2>1. counting \in {"no", "preview"} /\ counting' = counting
    BY <1>0, <1>4, <1>8, <1>10 DEF DetailTypeOK
  <2>2. ASSUME NEW i \in 1..(Len(asked) - 1), asked[i + 1].by = screen
        PROVE  /\ counting = "preview" /\ asked[i + 1].op = "preview"
               /\ \A k \in (i + 1)..(Len(asked) - 1) : asked[k + 1].op # "preview"
    <3>1. i + 1 \in DOMAIN asked /\ counting # "run"
      BY <1>2, <2>1
    <3>2. /\ counting = "preview" /\ asked[i + 1].op = "preview"
          /\ \A k \in (i + 2)..Len(asked) : asked[k].op # "preview"
      <4>1. (i + 1) + 1 = i + 2
        BY <1>2
      <4> QED BY <1>0, <1>10, <2>2, <3>1, <4>1 DEF InTurn
    <3>3. \A k \in (i + 1)..(Len(asked) - 1) : k + 1 \in (i + 2)..Len(asked)
      BY <1>2
    <3> QED BY <3>2, <3>3
  <2>3. ASSUME asked' = rest PROVE InTurn'
    <3>1. ASSUME NEW i \in DOMAIN asked', asked'[i].by = screen
          PROVE  /\ counting = "preview" /\ asked'[i].op = "preview"
                 /\ \A k \in (i + 1)..Len(asked') : asked'[k].op # "preview"
      <4>1. /\ i \in 1..(Len(asked) - 1) /\ asked[i + 1].by = screen
            /\ Len(asked') = Len(asked) - 1
            /\ \A k \in (i + 1)..Len(asked') : k \in 1..(Len(asked) - 1)
        BY <1>2, <2>3, <3>1
      <4> QED BY <1>2, <2>2, <2>3, <4>1
    <3> QED BY <1>0, <1>1, <1>10, <2>1, <3>1 DEF InTurn
  <2>4. ASSUME asked' = Append(rest, r) PROVE InTurn'
    <3>1. ASSUME NEW i \in DOMAIN asked', asked'[i].by = screen
          PROVE  /\ counting = "preview" /\ asked'[i].op = "preview"
                 /\ \A k \in (i + 1)..Len(asked') : asked'[k].op # "preview"
      <4>1. i # Len(asked)
        BY <1>3, <1>5, <1>10, <2>4, <3>1
      <4>2. /\ i \in 1..(Len(asked) - 1) /\ asked[i + 1].by = screen
            /\ asked'[i] = asked[i + 1]
        BY <1>2, <1>5, <2>4, <3>1, <4>1
      <4>3. ASSUME NEW k \in (i + 1)..Len(asked') PROVE asked'[k].op # "preview"
        <5>1. CASE k = Len(asked)
          BY <1>3, <1>5, <2>4, <5>1
        <5>2. CASE k # Len(asked)
          <6>1. k \in (i + 1)..(Len(asked) - 1) /\ k \in 1..(Len(asked) - 1)
            BY <1>2, <1>5, <2>4, <4>2, <4>3, <5>2
          <6> QED BY <1>5, <2>2, <2>4, <4>2, <6>1
        <5> QED BY <5>1, <5>2
      <4> QED BY <2>2, <4>2, <4>3
    <3> QED BY <1>0, <1>1, <1>10, <2>1, <3>1 DEF InTurn
  <2>5. InTurn'
    BY <1>4, <2>3, <2>4
  <2> QED BY <1>6, <1>7, <2>1, <2>5 DEF DetailInv, AnswerInFront
<1>11. CASE screen = Nobody
  BY <1>1, <1>6, <1>11, Alone
<1> QED BY <1>9, <1>10, <1>11

\* The run of a screen is the last thing under way.
LEMMA RunKeeps ==
  ASSUME DetailInv, RunAnswered PROVE DetailInv'
<1> DEFINE h == Head(asked)
           rest == Tail(asked)
<1>0. DetailTypeOK /\ InTurn /\ CountIsOwn /\ AnswerInFront /\ asked # <<>> /\ h.op = "execute"
  BY DEF DetailInv, RunAnswered
<1>1. UNCHANGED <<connected, front, opened, screen, exact>> /\ asked' = rest
  BY DEF RunAnswered
<1>2. /\ rest \in Seq(Asked(opened)) /\ h = asked[1] /\ 1 \in DOMAIN asked
      /\ Len(rest) = Len(asked) - 1 /\ Len(asked) \in Nat \ {0}
      /\ DOMAIN asked = 1..Len(asked) /\ DOMAIN rest = 1..(Len(asked) - 1)
      /\ \A i \in 1..(Len(asked) - 1) : rest[i] = asked[i + 1]
      /\ h \in Asked(opened)
  BY <1>0, DetailTypes, TailElements
<1>3. h.by \in 0..opened /\ h.tab \in Tabs
  BY <1>2 DEF Asked
<1>4. PICK answer \in {"rows", "error", "failed"} :
        /\ results' = CASE answer = "rows"   -> [results EXCEPT ![h.tab] = h.by]
                        [] answer = "error"  -> [results EXCEPT ![h.tab] = Nobody]
                        [] answer = "failed" -> results
        /\ IF h.by = screen THEN counting' = "history" /\ reply' = answer
                            ELSE UNCHANGED <<counting, reply>>
  BY DEF RunAnswered, Mounted
<1> HIDE DEF h, rest
<1>5. \/ answer = "rows" /\ results' = [results EXCEPT ![h.tab] = h.by]
      \/ answer = "error" /\ results' = [results EXCEPT ![h.tab] = Nobody]
      \/ answer = "failed" /\ results' = results
  BY <1>4
<1>6. DetailTypeOK'
  <2>1. h.by \in {Nobody, User} \cup Screens
    BY <1>0, <1>3, DetailTypes
  <2>2. results' \in [Tabs -> {Nobody, User} \cup Screens]
    BY <1>0, <1>3, <1>5, <2>1 DEF DetailTypeOK
  <2>3. counting' \in {"no", "preview", "run", "history"} /\ reply' \in {"none", "rows", "error", "failed"}
    BY <1>0, <1>4 DEF DetailTypeOK
  <2> QED BY <1>0, <1>1, <1>2, <2>2, <2>3 DEF DetailTypeOK, Asked
<1>7. CASE screen # Nobody /\ h.by = screen
  <2>1. counting = "run" /\ Len(asked) = 1 /\ h.tab = front
    BY <1>0, <1>2, <1>7 DEF InTurn
  <2>2. asked' = <<>> /\ counting' = "history" /\ reply' = answer
    <3>1. Len(rest) = 0
      BY <1>2, <2>1
    <3>2. rest = <<>>
      BY <1>2, <3>1, EmptySeq
    <3> QED BY <1>1, <1>4, <1>7, <3>2
  <2>3. AnswerInFront'
    BY <1>0, <1>1, <1>5, <1>7, <2>1, <2>2 DEF AnswerInFront, DetailTypeOK
  <2>4. InTurn'
    <3>1. DOMAIN asked' = {}
      BY <2>2
    <3> QED BY <1>0, <1>1, <1>7, <2>1, <2>2, <3>1 DEF InTurn
  <2>5. CountIsOwn'
    BY <1>0, <1>1, <1>7, <2>1 DEF CountIsOwn, InTurn
  <2> QED BY <1>6, <2>3, <2>4, <2>5 DEF DetailInv
<1>8. CASE screen # Nobody /\ h.by # screen
  <2>1. UNCHANGED <<counting, reply>>
    BY <1>4, <1>8
  <2>2. counting # "history"
    BY <1>0, <1>8 DEF InTurn
  <2>3. ASSUME NEW i \in DOMAIN asked'
        PROVE  /\ asked'[i] = asked[i + 1] /\ i + 1 \in DOMAIN asked
               /\ Len(asked') = Len(asked) - 1
               /\ \A k \in (i + 1)..Len(asked') : k + 1 \in (i + 2)..Len(asked) /\ asked'[k] = asked[k + 1]
    BY <1>1, <1>2, <2>3
  <2>4. ASSUME NEW i \in DOMAIN asked', asked'[i].by = screen
        PROVE  \/ /\ counting = "preview" /\ asked'[i].op = "preview"
                  /\ \A k \in (i + 1)..Len(asked') : asked'[k].op # "preview"
               \/ /\ counting = "run" /\ asked'[i].op = "execute"
                  /\ i = Len(asked') /\ asked'[i].tab = front
    <3>1. i + 1 \in DOMAIN asked /\ asked[i + 1].by = screen
      BY <2>3, <2>4
    <3>2. CASE /\ counting = "preview" /\ asked[i + 1].op = "preview"
               /\ \A k \in ((i + 1) + 1)..Len(asked) : asked[k].op # "preview"
      <4>1. (i + 1) + 1 = i + 2
        BY <1>1, <1>2
      <4> QED BY <2>3, <3>2, <4>1
    <3>3. CASE /\ counting = "run" /\ asked[i + 1].op = "execute"
               /\ i + 1 = Len(asked) /\ asked[i + 1].tab = front
      BY <1>1, <1>2, <2>3, <3>3
    <3> QED BY <1>0, <1>8, <3>1, <3>2, <3>3 DEF InTurn
  <2>5. counting = "run" => \A i \in DOMAIN asked' : asked'[i].op # "preview"
    BY <1>0, <1>8, <2>3 DEF InTurn
  <2>6. InTurn'
    BY <1>0, <1>1, <1>8, <2>1, <2>2, <2>4, <2>5 DEF InTurn
  <2>7. AnswerInFront' /\ CountIsOwn'
    BY <1>0, <1>1, <2>1, <2>2 DEF AnswerInFront, CountIsOwn
  <2> QED BY <1>6, <2>6, <2>7 DEF DetailInv
<1>9. CASE screen = Nobody
  BY <1>1, <1>6, <1>9, Alone
<1> QED BY <1>7, <1>8, <1>9

LEMMA DetailStutters ==
  ASSUME DetailInv, UNCHANGED detailVars PROVE DetailInv'
  BY DEF DetailInv, DetailTypeOK, InTurn, AnswerInFront, CountIsOwn, detailVars, appVars, screenVars

\* The inductive invariant of counting.
THEOREM CountingInv == DetailSpec => []DetailInv
<1>1. DetailInv /\ [DetailNext]_detailVars => DetailInv'
  BY WorkspaceKeeps, OpenKeeps, CountKeeps, CountedKeeps, PreviewKeeps, RunKeeps, DetailStutters
  DEF DetailNext, DetailAnswers
<1> QED BY <1>1, DetailInitCorrect, PTL DEF DetailSpec

\* A count that is shown was read from the answer to the screen's own statement,
\* unless that failed, whatever the user began and left before (_countExactly).
THEOREM CountedOwn == DetailSpec => []CountIsOwn
<1>1. DetailInv => CountIsOwn
  BY DEF DetailInv
<1> QED BY <1>1, CountingInv, PTL
=============================================================================
