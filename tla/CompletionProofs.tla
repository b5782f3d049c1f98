-------------------------- MODULE CompletionProofs ---------------------------
(***************************************************************************)
(* Theorems about Completion, for any number of calls, any requests,       *)
(* whatever their texts plan, and any catalogs.                            *)
(***************************************************************************)
EXTENDS Completion, SequenceTheorems, TLAPS

USE CallsAssumption DEF Calls, None, Finished

-----------------------------------------------------------------------------
(* What becomes of a call. *)

Ending(r, pc)                == [r EXCEPT !.pc = pc]
Reading(r, pc, read)         == [r EXCEPT !.pc = pc, !.read = read]
Planning(r, pc, todo)        == [r EXCEPT !.pc = pc, !.todo = todo]
GoingOn(r, pc, todo, read)   == [r EXCEPT !.pc = pc, !.todo = todo, !.read = read]
GoneOn(r, pc, todo, read)    == [r EXCEPT !.read = read, !.todo = todo, !.pc = pc]

LEMMA Replacing ==
  ASSUME NEW r, IsCall(r), NEW pc, NEW todo, NEW read
  PROVE  /\ IsCall(Ending(r, pc)) /\ Ending(r, pc).pc = pc /\ Ending(r, pc).todo = r.todo
         /\ IsCall(Reading(r, pc, read)) /\ Reading(r, pc, read).pc = pc
         /\ Reading(r, pc, read).todo = r.todo
         /\ IsCall(Planning(r, pc, todo)) /\ Planning(r, pc, todo).pc = pc
         /\ IsCall(GoingOn(r, pc, todo, read)) /\ GoingOn(r, pc, todo, read).pc = pc
         /\ IsCall(GoneOn(r, pc, todo, read)) /\ GoneOn(r, pc, todo, read).pc = pc
<1>1. IsCall(Ending(r, pc)) /\ Ending(r, pc).pc = pc /\ Ending(r, pc).todo = r.todo
  BY DEF IsCall, Ending
<1>2. /\ IsCall(Reading(r, pc, read)) /\ Reading(r, pc, read).pc = pc
      /\ Reading(r, pc, read).todo = r.todo
  BY DEF IsCall, Reading
<1>3. IsCall(Planning(r, pc, todo)) /\ Planning(r, pc, todo).pc = pc
  BY DEF IsCall, Planning
<1>4. IsCall(GoingOn(r, pc, todo, read)) /\ GoingOn(r, pc, todo, read).pc = pc
  BY DEF IsCall, GoingOn
<1>5. IsCall(GoneOn(r, pc, todo, read)) /\ GoneOn(r, pc, todo, read).pc = pc
  BY DEF IsCall, GoneOn
<1> QED BY <1>1, <1>2, <1>3, <1>4, <1>5

\* Whatever call c becomes, the others stay what they are.
LEMMA Setting ==
  ASSUME CallsAreRecords, NEW c \in Calls, NEW r, IsCall(r), Set(c, r)
  PROVE  /\ CallsAreRecords'
         /\ call'[c] = r
         /\ \A d \in Calls \ {c} : call'[d] = call[d]
<1>1. call' = [d \in Calls |-> IF d = c THEN r ELSE call[d]]
  BY DEF Set, CallsAreRecords
<1>2. call'[c] = r /\ \A d \in Calls \ {c} : call'[d] = call[d]
  BY <1>1
<1>3. \A d \in Calls : IsCall(call'[d])
  BY <1>2 DEF CallsAreRecords
<1>4. call' = [d \in Calls |-> call'[d]]
  BY <1>1
<1> QED BY <1>2, <1>3, <1>4 DEF CallsAreRecords

LEMMA Becoming ==
  ASSUME CallsAreRecords, NEW c \in Calls
  PROVE  /\ \A end : /\ IsCall(Done(c, end)) /\ Done(c, end).pc = end
                     /\ Done(c, end).todo = call[c].todo
         /\ \A found : /\ IsCall(Proceeding(c, found))
                       /\ Proceeding(c, found).pc \in {"ok", "going"}
<1>1. IsCall(call[c])
  BY DEF CallsAreRecords
<1>2. ASSUME NEW end
      PROVE  /\ IsCall(Done(c, end)) /\ Done(c, end).pc = end
             /\ Done(c, end).todo = call[c].todo
  BY <1>1, Replacing DEF Done, Ending
<1>3. ASSUME NEW found
      PROVE  IsCall(Proceeding(c, found)) /\ Proceeding(c, found).pc \in {"ok", "going"}
  <2>1. PICK pc \in {"ok", "going"} : pc = IF Len(call[c].todo) = 1 THEN "ok" ELSE "going"
    OBVIOUS
  <2>2. PICK todo, read : todo = Tail(call[c].todo) /\ read = Append(call[c].read, found)
    OBVIOUS
  <2>3. Proceeding(c, found) = GoingOn(call[c], pc, todo, read)
    BY <2>1, <2>2 DEF Proceeding, GoingOn
  <2> QED BY <1>1, <2>1, <2>3, Replacing
<1> QED BY <1>2, <1>3

-----------------------------------------------------------------------------
(* The locks. *)

\* A call that neither holds the lock nor is inside schemaOnce goes on, and
\* does not go on to the routines of a listing that others are to see.
LEMMA Bystander ==
  ASSUME IInv, NEW c \in Calls, NEW r, IsCall(r), Set(c, r),
         c # mu, c # once, UNCHANGED <<engine, mu, once, fetched>>,
         r.pc = "routines" => Head(r.todo).kind # "tables"
  PROVE  IInv'
<1>1. /\ CallsAreRecords' /\ call'[c] = r
      /\ \A d \in Calls \ {c} : call'[d] = call[d]
  BY Setting DEF IInv
<1>2. mu # None => /\ mu \in Calls /\ ~fetched /\ call[mu].pc \in {"going", "routines"}
                   /\ Kind(mu) = "tables" /\ call'[mu] = call[mu]
  BY <1>1 DEF IInv, HoldersLoad
<1>3. once \notin {None, Finished} =>
        /\ once \in Calls /\ NeedsSchema(once) /\ SupportsSchemas(engine) /\ call'[once] = call[once]
  BY <1>1 DEF IInv, HoldersLoad
<1>4. (mu # None => /\ mu \in Calls /\ ~fetched /\ call[mu].pc \in {"going", "routines"}
                    /\ Kind(mu) = "tables")'
  BY <1>2 DEF Kind
<1>5. (once \notin {None, Finished} =>
        /\ once \in Calls /\ NeedsSchema(once) /\ SupportsSchemas(engine))'
  BY <1>3 DEF NeedsSchema, AtQuery, Kind, SupportsSchemas
<1>6. ASSUME NEW d \in Calls, (call[d].pc = "routines" /\ Kind(d) = "tables")' PROVE (mu = d)'
  <2>1. d # c
    BY <1>1, <1>6 DEF Kind
  <2>2. call[d].pc = "routines" /\ Kind(d) = "tables"
    BY <1>1, <1>6, <2>1 DEF Kind
  <2> QED BY <2>2 DEF IInv, HoldersLoad
<1> QED BY <1>1, <1>4, <1>5, <1>6 DEF IInv, HoldersLoad

\* Who holds the lock or is inside schemaOnce asks for the tables, or for the
\* columns of a table that is named without a schema.
LEMMA Holding ==
  ASSUME IInv, NEW c \in Calls
  PROVE  /\ c = mu => call[c].pc \in {"going", "routines"} /\ Kind(c) = "tables" /\ ~fetched
         /\ c = once => /\ call[c].pc = "going" /\ Kind(c) \in {"columns", "tables"}
                        /\ NeedsSchema(c) /\ SupportsSchemas(engine)
                        /\ Kind(c) = "tables" => mu = c
         /\ c # None /\ c # Finished
<1>1. c # None /\ c # Finished
  OBVIOUS
<1> QED BY <1>1 DEF IInv, HoldersLoad, NeedsSchema, AtQuery

LEMMA InitHolds == Init => IInv
<1> SUFFICES ASSUME Init PROVE IInv
  OBVIOUS
<1>1. \A c \in Calls : call[c] = Idle
  BY DEF Init
<1>2. IsCall(Idle) /\ Idle.pc = "idle"
  BY DEF IsCall, Idle
<1>3. CallsAreRecords
  BY <1>1, <1>2 DEF CallsAreRecords, Init
<1> QED BY <1>1, <1>2, <1>3 DEF Init, IInv, HoldersLoad

LEMMA ArriveKeeps ==
  ASSUME IInv, NEW c \in Calls, Arrive(c) PROVE IInv'
<1>1. PICK req : call' = [call EXCEPT ![c] = [@ EXCEPT !.pc = "going", !.req = req,
                                                !.todo = Queries(req), !.since = at]]
  BY DEF Arrive
<1>2. PICK todo : todo = Queries(req)
  OBVIOUS
<1> DEFINE r == [call[c] EXCEPT !.pc = "going", !.req = req, !.todo = todo, !.since = at]
<1>3. IsCall(call[c])
  BY DEF IInv, CallsAreRecords
<1>4. IsCall(r) /\ r.pc = "going"
  BY <1>3 DEF IsCall
<1>5. Set(c, r)
  BY <1>1, <1>2 DEF Set
<1>6. c # mu /\ c # once
  BY Holding DEF Arrive
<1>7. UNCHANGED <<engine, mu, once, fetched>>
  BY DEF Arrive, caches
<1> HIDE DEF r
<1> QED BY <1>4, <1>5, <1>6, <1>7, Bystander

LEMMA LookUpKeeps ==
  ASSUME IInv, NEW c \in Calls, LookUpColumns(c) PROVE IInv'
<1>1. PICK found : Set(c, Proceeding(c, found)) \/ Set(c, Done(c, "ask"))
  BY DEF LookUpColumns
<1>2. c # mu /\ c # once
  BY Holding DEF LookUpColumns, SchemaKnown, SchemaSettled, AtQuery
<1>3. UNCHANGED <<engine, mu, once, fetched>>
  BY DEF LookUpColumns, caches
<1>4. /\ IsCall(Proceeding(c, found)) /\ Proceeding(c, found).pc # "routines"
      /\ IsCall(Done(c, "ask")) /\ Done(c, "ask").pc # "routines"
  BY Becoming DEF IInv
<1> QED BY <1>1, <1>2, <1>3, <1>4, Bystander

LEMMA ColumnsKeep ==
  ASSUME IInv, NEW c \in Calls, NEW end \in Ends, ColumnsAnswered(c, end) PROVE IInv'
<1>1. PICK read : \/ Set(c, Done(c, "internal"))
                  \/ Set(c, Reading(call[c], "keep", read))
  BY DEF ColumnsAnswered, Reading
<1>2. c # mu /\ c # once
  BY Holding DEF ColumnsAnswered
<1>3. UNCHANGED <<engine, mu, once, fetched>>
  BY DEF ColumnsAnswered, caches
<1>4. IsCall(Done(c, "internal")) /\ Done(c, "internal").pc # "routines"
  BY Becoming DEF IInv
<1>5. IsCall(Reading(call[c], "keep", read)) /\ Reading(call[c], "keep", read).pc # "routines"
  BY Replacing DEF IInv, CallsAreRecords
<1> QED BY <1>1, <1>2, <1>3, <1>4, <1>5, Bystander

LEMMA KeepKeeps ==
  ASSUME IInv, NEW c \in Calls, KeepColumns(c) PROVE IInv'
<1> DEFINE now  == IF Len(call[c].todo) = 1 THEN "ok" ELSE "going"
           rest == Tail(call[c].todo)
<1>0. Set(c, Planning(call[c], now, rest))
  BY DEF KeepColumns, Planning
<1>1. PICK pc, todo : pc \in {"ok", "going"} /\ Set(c, Planning(call[c], pc, todo))
  <2>1. now \in {"ok", "going"}
    OBVIOUS
  <2> HIDE DEF now, rest
  <2> QED BY <1>0, <2>1
<1>2. c # mu /\ c # once
  BY Holding DEF KeepColumns
<1>3. UNCHANGED <<engine, mu, once, fetched>>
  BY DEF KeepColumns
<1>4. IsCall(Planning(call[c], pc, todo)) /\ Planning(call[c], pc, todo).pc # "routines"
  BY <1>1, Replacing DEF IInv, CallsAreRecords
<1> QED BY <1>1, <1>2, <1>3, <1>4, Bystander

LEMMA KeywordsKeep ==
  ASSUME IInv, NEW c \in Calls, OfferKeywords(c) PROVE IInv'
<1>1. PICK found : Set(c, Proceeding(c, found))
  BY DEF OfferKeywords
<1>2. c # mu /\ c # once
  BY Holding DEF OfferKeywords, AtQuery
<1>3. UNCHANGED <<engine, mu, once, fetched>>
  BY DEF OfferKeywords, caches
<1>4. IsCall(Proceeding(c, found)) /\ Proceeding(c, found).pc # "routines"
  BY Becoming DEF IInv
<1> QED BY <1>1, <1>2, <1>3, <1>4, Bystander

\* The calls that keep nothing.
LEMMA OthersKeep ==
  ASSUME IInv, NEW c \in Calls, NEW end \in Ends,
         \/ DetailAnswered(c, end) \/ DatabasesAnswered(c, end)
         \/ SchemasAnswered(c, end) \/ DefinitionAnswered(c, end)
  PROVE  IInv'
<1>1. \E found : \/ Set(c, Proceeding(c, found)) \/ Set(c, Done(c, "internal"))
                 \/ Set(c, Done(c, "query"))
  <2>1. CASE DetailAnswered(c, end)
    <3>1. \/ Set(c, Proceeding(c, Source(end))) \/ Set(c, Done(c, "internal"))
          \/ Set(c, Done(c, "query"))
      BY <2>1, Zenon DEF DetailAnswered
    <3> QED BY <3>1
  <2>2. CASE DatabasesAnswered(c, end)
    BY <2>2 DEF DatabasesAnswered
  <2>3. CASE SchemasAnswered(c, end)
    BY <2>3 DEF SchemasAnswered, Ends
  <2>4. CASE DefinitionAnswered(c, end)
    BY <2>4 DEF DefinitionAnswered
  <2> QED BY <2>1, <2>2, <2>3, <2>4
<1>2. c # mu /\ c # once
  BY Holding DEF DetailAnswered, DatabasesAnswered, SchemasAnswered, DefinitionAnswered, AtQuery
<1>3. UNCHANGED <<engine, mu, once, fetched>>
  BY DEF DetailAnswered, DatabasesAnswered, SchemasAnswered, DefinitionAnswered, caches
<1>4. /\ \A found : IsCall(Proceeding(c, found)) /\ Proceeding(c, found).pc # "routines"
      /\ \A how \in {"internal", "query"} :
           IsCall(Done(c, how)) /\ Done(c, how).pc # "routines"
  BY Becoming DEF IInv
<1> QED BY <1>1, <1>2, <1>3, <1>4, Bystander

LEMMA LockKeeps ==
  ASSUME IInv, NEW c \in Calls, LockTables(c) PROVE IInv'
<1>1. c # mu /\ c # once
  <2>1. mu = None /\ AtQuery(c, {"tables"})
    BY DEF LockTables
  <2> QED BY <2>1, Holding DEF AtQuery
<1>2. CASE fetched
  <2>1. PICK found : Set(c, Proceeding(c, found))
    BY <1>2 DEF LockTables
  <2>2. UNCHANGED <<engine, mu, once, fetched>>
    BY <1>2 DEF LockTables
  <2>3. IsCall(Proceeding(c, found)) /\ Proceeding(c, found).pc # "routines"
    BY Becoming DEF IInv
  <2> QED BY <1>1, <2>1, <2>2, <2>3, Bystander
<1>3. CASE ~fetched
  <2>1. mu' = c /\ UNCHANGED <<engine, once, fetched, call>> /\ mu = None
    BY <1>3 DEF LockTables
  <2>2. call[c].pc = "going" /\ Kind(c) = "tables"
    BY DEF LockTables, AtQuery
  <2>3. CallsAreRecords'
    BY <2>1 DEF IInv, CallsAreRecords
  <2>4. \A d \in Calls : ~(call[d].pc = "routines" /\ Kind(d) = "tables")
    BY <2>1 DEF IInv, HoldersLoad
  <2>5. once \notin {None, Finished} =>
          AtQuery(once, {"columns"}) /\ Head(call[once].todo).ref.schema = NoName
    BY <2>1 DEF IInv, HoldersLoad, NeedsSchema
  <2>6. (once \notin {None, Finished} =>
          once \in Calls /\ NeedsSchema(once) /\ SupportsSchemas(engine))'
    BY <2>1, <2>5 DEF IInv, HoldersLoad, NeedsSchema, AtQuery, Kind, SupportsSchemas
  <2> QED BY <1>3, <2>1, <2>2, <2>3, <2>4, <2>6 DEF IInv, HoldersLoad, Kind
<1> QED BY <1>2, <1>3

LEMMA EnterKeeps ==
  ASSUME IInv, NEW c \in Calls, EnterOnce(c) PROVE IInv'
<1>1. once' = c /\ UNCHANGED <<engine, mu, fetched, call>>
  BY DEF EnterOnce
<1>2. CallsAreRecords'
  BY <1>1 DEF IInv, CallsAreRecords
<1>3. NeedsSchema(c)' /\ SupportsSchemas(engine)'
  BY <1>1 DEF EnterOnce, NeedsSchema, AtQuery, Kind, SupportsSchemas
<1> QED BY <1>1, <1>2, <1>3 DEF IInv, HoldersLoad, Kind

\* A call ends in a panic: the lock it held is let go.
LEMMA PanicKeeps ==
  ASSUME IInv, NEW c \in Calls, Set(c, Done(c, "internal")), Release(c),
         once' = IF once = c THEN Finished ELSE once, UNCHANGED <<engine, fetched>>
  PROVE  IInv'
<1>1. IsCall(Done(c, "internal")) /\ Done(c, "internal").pc = "internal"
  BY Becoming DEF IInv
<1>2. /\ CallsAreRecords' /\ call'[c].pc = "internal"
      /\ \A d \in Calls \ {c} : call'[d] = call[d]
  BY <1>1, Setting DEF IInv
<1>3. mu' # None => mu' = mu /\ mu # c
  BY DEF Release
<1>4. (mu # None => /\ mu \in Calls /\ ~fetched /\ call[mu].pc \in {"going", "routines"}
                    /\ Kind(mu) = "tables")'
  BY <1>2, <1>3 DEF IInv, HoldersLoad, Kind
<1>5. (once \notin {None, Finished} =>
        once \in Calls /\ NeedsSchema(once) /\ SupportsSchemas(engine))'
  <2> SUFFICES ASSUME once' \notin {None, Finished}
               PROVE  once' \in Calls /\ NeedsSchema(once)' /\ SupportsSchemas(engine)'
    OBVIOUS
  <2>1. once' = once /\ once # c /\ once \in Calls /\ NeedsSchema(once) /\ SupportsSchemas(engine)
    BY DEF IInv, HoldersLoad
  <2>2. call'[once] = call[once]
    BY <1>2, <2>1
  <2>3. mu = once => mu' = mu
    BY <2>1 DEF Release
  <2> QED BY <2>1, <2>2, <2>3 DEF NeedsSchema, AtQuery, Kind, SupportsSchemas
<1>6. ASSUME NEW d \in Calls, (call[d].pc = "routines" /\ Kind(d) = "tables")' PROVE (mu = d)'
  <2>1. d # c
    BY <1>2, <1>6
  <2>2. mu = d
    BY <1>2, <1>6, <2>1 DEF IInv, HoldersLoad, Kind
  <2> QED BY <2>1, <2>2 DEF Release
<1> QED BY <1>2, <1>4, <1>5, <1>6 DEF IInv, HoldersLoad

LEMMA SchemaKeeps ==
  ASSUME IInv, NEW c \in Calls, NEW end \in Ends, SchemaAnswered(c, end) PROVE IInv'
<1>1. once = c /\ once' = Finished /\ UNCHANGED <<engine, fetched>>
  BY DEF SchemaAnswered
<1>2. CASE end = "panic"
  BY <1>1, <1>2, PanicKeeps DEF SchemaAnswered
<1>3. CASE end # "panic"
  <2>1. UNCHANGED <<mu, call>>
    BY <1>3 DEF SchemaAnswered
  <2>2. CallsAreRecords'
    BY <2>1 DEF IInv, CallsAreRecords
  <2> QED BY <1>1, <2>1, <2>2 DEF IInv, HoldersLoad, Kind
<1> QED BY <1>2, <1>3

\* The holder has the listing, or is told that there is none.
LEMMA FetchedKeeps ==
  ASSUME IInv, NEW c \in Calls, NEW r, IsCall(r), r.pc # "routines", Set(c, r),
         c = mu, c # once, mu' = None, UNCHANGED <<engine, once>>
  PROVE  IInv'
<1>1. /\ CallsAreRecords' /\ call'[c].pc # "routines"
      /\ \A d \in Calls \ {c} : call'[d] = call[d]
  BY Setting DEF IInv
<1>2. (once \notin {None, Finished} =>
        once \in Calls /\ NeedsSchema(once) /\ SupportsSchemas(engine))'
  <2> SUFFICES ASSUME once' \notin {None, Finished}
               PROVE  once' \in Calls /\ NeedsSchema(once)' /\ SupportsSchemas(engine)'
    OBVIOUS
  <2>1. once' = once /\ once # c /\ once \in Calls /\ NeedsSchema(once) /\ SupportsSchemas(engine)
    BY DEF IInv, HoldersLoad
  <2>2. call'[once] = call[once] /\ mu # once
    BY <1>1, <2>1
  <2> QED BY <2>1, <2>2 DEF NeedsSchema, AtQuery, Kind, SupportsSchemas
<1>3. ASSUME NEW d \in Calls, (call[d].pc = "routines" /\ Kind(d) = "tables")' PROVE FALSE
  <2>1. d # c
    BY <1>1, <1>3
  <2> QED BY <1>1, <1>3, <2>1 DEF IInv, HoldersLoad, Kind
<1> QED BY <1>1, <1>2, <1>3 DEF IInv, HoldersLoad

\* The holder has the tables and goes on to the routines.
LEMMA HolderGoesOn ==
  ASSUME IInv, NEW c \in Calls, NEW r, IsCall(r), Set(c, r),
         r.pc = "routines", r.todo = call[c].todo,
         c = mu, c # once, UNCHANGED <<engine, mu, once, fetched>>
  PROVE  IInv'
<1>1. /\ CallsAreRecords' /\ call'[c].pc = "routines" /\ call'[c].todo = call[c].todo
      /\ \A d \in Calls \ {c} : call'[d] = call[d]
  BY Setting DEF IInv
<1>2. (mu # None => /\ mu \in Calls /\ ~fetched /\ call[mu].pc \in {"going", "routines"}
                    /\ Kind(mu) = "tables")'
  BY <1>1 DEF IInv, HoldersLoad, Kind
<1>3. (once \notin {None, Finished} =>
        once \in Calls /\ NeedsSchema(once) /\ SupportsSchemas(engine))'
  <2> SUFFICES ASSUME once' \notin {None, Finished}
               PROVE  once' \in Calls /\ NeedsSchema(once)' /\ SupportsSchemas(engine)'
    OBVIOUS
  <2>1. once' = once /\ once # c /\ once \in Calls /\ NeedsSchema(once) /\ SupportsSchemas(engine)
    BY DEF IInv, HoldersLoad
  <2>2. call'[once] = call[once]
    BY <1>1, <2>1
  <2> QED BY <2>1, <2>2 DEF NeedsSchema, AtQuery, Kind, SupportsSchemas
<1>4. ASSUME NEW d \in Calls, (call[d].pc = "routines" /\ Kind(d) = "tables")' PROVE (mu = d)'
  <2>1. CASE d # c
    BY <1>1, <1>4, <2>1 DEF IInv, HoldersLoad, Kind
  <2> QED BY <2>1
<1> QED BY <1>1, <1>2, <1>3, <1>4 DEF IInv, HoldersLoad

LEMMA TablesKeep ==
  ASSUME IInv, NEW c \in Calls, NEW end \in Ends, TablesAnswered(c, end) PROVE IInv'
<1>1. /\ call[c].pc = "going" /\ c # once /\ UNCHANGED <<engine, once>>
      /\ \/ Kind(c) = "tables" /\ mu = c
         \/ Kind(c) = "objects" /\ mu # c
  BY Holding DEF TablesAnswered, ObjectsOf, AtQuery, SchemaKnown, SchemaSettled, NeedsSchema
<1>2. CASE end = "answer"
  <2>1. PICK read : Set(c, Reading(call[c], "routines", read)) /\ UNCHANGED <<mu, fetched>>
    BY <1>2 DEF TablesAnswered, Reading
  <2> DEFINE r == Reading(call[c], "routines", read)
  <2>2. IsCall(r) /\ r.pc = "routines" /\ r.todo = call[c].todo
    BY Replacing DEF IInv, CallsAreRecords
  <2>3. Kind(c) = "objects" => Head(r.todo).kind # "tables"
    BY <2>2 DEF Kind
  <2> HIDE DEF r
  <2>4. CASE mu = c
    BY <1>1, <2>1, <2>2, <2>4, HolderGoesOn DEF r
  <2>5. CASE mu # c
    BY <1>1, <2>1, <2>2, <2>3, <2>5, Bystander DEF r
  <2> QED BY <2>4, <2>5
<1>3. CASE end = "refuse"
  <2>1. /\ IsCall(Done(c, "query")) /\ Done(c, "query").pc # "routines"
        /\ \A found : IsCall(Proceeding(c, found)) /\ Proceeding(c, found).pc # "routines"
    BY Becoming DEF IInv
  <2>2. CASE Kind(c) = "tables"
    <3>1. PICK found : Set(c, Proceeding(c, found)) /\ mu' = None
      BY <1>3, <2>2 DEF TablesAnswered, Fetch
    <3> QED BY <1>1, <2>1, <2>2, <3>1, FetchedKeeps
  <2>3. CASE Kind(c) = "objects"
    <3>1. Set(c, Done(c, "query")) /\ UNCHANGED <<mu, fetched>>
      BY <1>3, <2>3 DEF TablesAnswered
    <3> QED BY <1>1, <2>1, <2>3, <3>1, Bystander
  <2> QED BY <1>1, <2>2, <2>3
<1>4. CASE end = "panic"
  BY <1>1, <1>4, PanicKeeps DEF TablesAnswered
<1> QED BY <1>2, <1>3, <1>4 DEF Ends

LEMMA RoutinesKeep ==
  ASSUME IInv, NEW c \in Calls, NEW end \in Ends, RoutinesAnswered(c, end) PROVE IInv'
<1>1. call[c].pc = "routines" /\ c # once /\ UNCHANGED <<engine, once>>
  BY Holding DEF RoutinesAnswered
<1>2. CASE end = "panic"
  BY <1>1, <1>2, PanicKeeps DEF RoutinesAnswered
<1>3. CASE end # "panic"
  <2>0. PICK pc \in {"ok", "going"} : pc = IF Len(call[c].todo) = 1 THEN "ok" ELSE "going"
    OBVIOUS
  <2>1. PICK read, todo :
          /\ Set(c, GoneOn(call[c], pc, todo, read))
          /\ \/ Kind(c) = "tables" /\ mu' = None
             \/ Kind(c) = "objects" /\ UNCHANGED <<mu, fetched>>
    BY <1>3, <2>0 DEF RoutinesAnswered, GoneOn
  <2> DEFINE r == GoneOn(call[c], pc, todo, read)
  <2>2. IsCall(r) /\ r.pc # "routines"
    BY Replacing DEF IInv, CallsAreRecords
  <2> HIDE DEF r
  <2>3. CASE Kind(c) = "tables"
    <3>1. mu = c
      BY <1>1, <2>3 DEF IInv, HoldersLoad
    <3> QED BY <1>1, <2>1, <2>2, <2>3, <3>1, FetchedKeeps DEF r
  <2>4. CASE Kind(c) = "objects"
    <3>1. mu # c
      BY <2>4, Holding
    <3> QED BY <1>1, <2>1, <2>2, <2>4, <3>1, Bystander DEF r
  <2> QED BY <2>1, <2>3, <2>4
<1> QED BY <1>2, <1>3

LEMMA IdleKeeps ==
  ASSUME IInv, Alter \/ UNCHANGED vars PROVE IInv'
<1>1. UNCHANGED <<engine, mu, once, fetched, call>>
  BY DEF Alter, vars, caches
<1> QED BY <1>1 DEF IInv, CallsAreRecords, HoldersLoad, NeedsSchema, AtQuery, Kind, SupportsSchemas

LEMMA StepKeeps == ASSUME IInv, [Next]_vars PROVE IInv'
<1>1. ASSUME NEW c \in Calls, Arrive(c) PROVE IInv'
  BY <1>1, ArriveKeeps
<1>2. ASSUME NEW c \in Calls, Served(c) PROVE IInv'
  BY <1>2, LookUpKeeps, ColumnsKeep, KeepKeeps, KeywordsKeep, OthersKeep, LockKeeps, EnterKeeps,
     SchemaKeeps, TablesKeep, RoutinesKeep DEF Served
<1> QED BY <1>1, <1>2, IdleKeeps DEF Next

\* HoldersLoad and what it needs hold throughout (complete.go: tableList,
\* defaultSchema).
THEOREM Inv == Spec => []IInv
<1>1. IInv /\ [Next]_vars => IInv'
  BY StepKeeps
<1> QED BY <1>1, InitHolds, PTL DEF Spec

-----------------------------------------------------------------------------
(* What follows from that. *)

\* Whoever is inside schemaOnce does not wait.
LEMMA InsideGoesOn ==
  ASSUME IInv, NEW e \in Calls, e = once, mu # e
  PROVE  UnderWay(e) /\ ~Waits(e)
<1>1. /\ call[e].pc = "going" /\ Kind(e) = "columns" /\ NeedsSchema(e) /\ SupportsSchemas(engine)
      /\ once # Finished
  BY Holding
<1>2. UnderWay(e) /\ ~SchemaKnown(e)
  BY <1>1 DEF UnderWay, Ended, SchemaKnown, SchemaSettled
<1> QED BY <1>1, <1>2 DEF Waits, WaitsForLock, WaitsForSchema, AtQuery

\* As long as a call waits, another goes on: the lock of tableList and
\* schemaOnce are given back however a call ends, and never waited for in a
\* circle.
THEOREM NobodyStandsStill == Spec => []NoStandstill
<1>1. ASSUME IInv PROVE NoStandstill
  <2> SUFFICES ASSUME NEW c \in Calls, Waits(c) PROVE \E d \in Calls : UnderWay(d) /\ ~Waits(d)
    BY DEF NoStandstill
  <2>1. CASE once \notin {None, Finished} /\ mu # once
    BY <1>1, <2>1, InsideGoesOn DEF IInv, HoldersLoad
  <2>2. CASE mu # None /\ ~(once \notin {None, Finished} /\ mu # once)
    <3>1. mu \in Calls /\ call[mu].pc \in {"going", "routines"} /\ Kind(mu) = "tables"
      BY <1>1, <2>2 DEF IInv, HoldersLoad
    <3>2. UnderWay(mu) /\ ~Waits(mu)
      BY <2>2, <3>1 DEF UnderWay, Ended, Waits, WaitsForLock, WaitsForSchema, AtQuery
    <3> QED BY <3>1, <3>2
  <2>3. CASE mu = None /\ once \in {None, Finished}
    BY <2>3 DEF Waits, WaitsForLock, WaitsForSchema
  <2> QED BY <2>1, <2>2, <2>3
<1> QED BY <1>1, Inv, PTL

\* The listing that is there is not loaded again.
LEMMA FetchedOnce ==
  ASSUME IInv, fetched, NEW c \in Calls, Arrive(c) \/ Served(c)
  PROVE  UNCHANGED <<fetched, tables>>
<1>1. ASSUME NEW end \in Ends, TablesAnswered(c, end) \/ RoutinesAnswered(c, end)
      PROVE  UNCHANGED <<fetched, tables>>
  <2>1. ~(Kind(c) = "tables" /\ call[c].pc \in {"going", "routines"} /\ mu = c)
    BY <1>1, Holding
  <2>2. CASE TablesAnswered(c, end)
    BY <2>1, <2>2 DEF TablesAnswered, ObjectsOf, AtQuery, Fetch
  <2>3. CASE RoutinesAnswered(c, end)
    BY <2>1, <2>3 DEF RoutinesAnswered, IInv, HoldersLoad
  <2> QED BY <1>1, <2>2, <2>3
<1> QED BY <1>1 DEF Arrive, Served, LookUpColumns, KeepColumns, LockTables, OfferKeywords,
                    EnterOnce, SchemaAnswered, ColumnsAnswered, DetailAnswered,
                    DatabasesAnswered, SchemasAnswered, DefinitionAnswered, caches

LEMMA SchemaApart ==
  ASSUME NEW c \in Calls, Arrive(c) \/ Served(c),
         ~EnterOnce(c), \A end : ~SchemaAnswered(c, end)
  PROVE  UNCHANGED <<once, schema>>
BY DEF Arrive, Served, LookUpColumns, KeepColumns, LockTables, OfferKeywords,
       ColumnsAnswered, DetailAnswered, TablesAnswered, RoutinesAnswered,
       DatabasesAnswered, SchemasAnswered, DefinitionAnswered, caches

\* The listing and the schema of a session are loaded once, whatever calls
\* complete at the same time, fail or panic.
THEOREM LoadedOnce == Spec => LoadsOnce
<1>1. ASSUME IInv, [Next]_vars
      PROVE  /\ fetched => UNCHANGED <<fetched, tables>>
             /\ once = Finished => UNCHANGED <<once, schema>>
  <2>1. CASE Alter \/ UNCHANGED vars
    BY <2>1 DEF Alter, vars, caches
  <2>2. ASSUME NEW c \in Calls, Arrive(c) \/ Served(c)
        PROVE  fetched => UNCHANGED <<fetched, tables>>
    BY <1>1, <2>2, FetchedOnce
  <2>3. ASSUME NEW c \in Calls, Arrive(c) \/ Served(c), once = Finished
        PROVE  UNCHANGED <<once, schema>>
    <3>1. ~EnterOnce(c) /\ \A end : ~SchemaAnswered(c, end)
      BY <2>3 DEF EnterOnce, SchemaAnswered
    <3> QED BY <2>3, <3>1, SchemaApart
  <2> QED BY <1>1, <2>1, <2>2, <2>3 DEF Next
<1> QED BY <1>1, Inv, PTL DEF Spec, LoadsOnce

-----------------------------------------------------------------------------
(* Sequences. *)

LEMMA SeqIsSeq == ASSUME NEW S, NEW s \in Seq(S) PROVE IsSeq(s)
<1>1. \A i \in 1..Len(s) : s[i] \in ToSet(s)
  BY DEF ToSet
<1> QED BY <1>1 DEF IsSeq

LEMMA Appended ==
  ASSUME NEW s, IsSeq(s), NEW e
  PROVE  /\ IsSeq(Append(s, e)) /\ Len(Append(s, e)) = Len(s) + 1
         /\ Append(s, e)[Len(s) + 1] = e
         /\ \A k \in 1..Len(s) : Append(s, e)[k] = s[k]
<1> DEFINE S == ToSet(s) \cup {e}
<1>1. s \in Seq(S) /\ e \in S
  BY SeqMonotonic DEF IsSeq
<1> HIDE DEF S
<1>2. /\ Append(s, e) \in Seq(S) /\ Len(Append(s, e)) = Len(s) + 1
      /\ \A k \in 1..Len(s) : Append(s, e)[k] = s[k]
      /\ Append(s, e)[Len(s) + 1] = e
  BY <1>1, AppendProperties
<1> QED BY <1>2, SeqIsSeq

LEMMA LastOf ==
  ASSUME NEW s, IsSeq(s), Len(s) > 0
  PROVE  /\ Last(s) = s[Len(s)]
         /\ IsSeq(Front(s)) /\ Len(Front(s)) = Len(s) - 1
         /\ \A k \in 1..(Len(s) - 1) : Front(s)[k] = s[k]
<1> DEFINE S == ToSet(s)
<1>1. s \in Seq(S)
  BY DEF IsSeq
<1> HIDE DEF S
<1>2. PICK n : n = Len(s)
  OBVIOUS
<1>3. n \in Nat /\ n > 0 /\ n - 1 \in Int /\ \A k \in 1..(n - 1) : s[k] \in S
  BY <1>1, <1>2
<1>4. PICK u : u = SubSeq(s, 1, n - 1)
  OBVIOUS
<1>5. u \in Seq(S) /\ Len(u) = IF 1 <= n - 1 THEN (n - 1) - 1 + 1 ELSE 0
  BY <1>3, <1>4, SubSeqProperties
<1>6. \A k \in 1..(n - 1) : u[k] = s[k]
  <2>1. \A k \in 1..(n - 1) - 1 + 1 : u[k] = s[1 + k - 1]
    BY <1>3, <1>4, SubSeqProperties
  <2> HIDE <1>4
  <2> QED BY <1>3, <2>1
<1>7. Len(u) = n - 1
  <2> HIDE <1>4
  <2> QED BY <1>3, <1>5
<1>8. Front(s) = u /\ Last(s) = s[n]
  BY <1>2, <1>4 DEF Front, Last
<1> QED BY <1>2, <1>5, <1>6, <1>7, <1>8, SeqIsSeq

\* What is left of a plan of which n queries are answered.
LEMMA RestOfPlan ==
  ASSUME NEW plan, IsSeq(plan), NEW n \in 0..(Len(plan) - 1), NEW todo,
         todo = SubSeq(plan, n + 1, Len(plan))
  PROVE  /\ Head(todo) = plan[n + 1]
         /\ Tail(todo) = SubSeq(plan, (n + 1) + 1, Len(plan))
         /\ Len(todo) = Len(plan) - n
<1> DEFINE S == ToSet(plan)
<1>1. plan \in Seq(S)
  BY DEF IsSeq
<1> HIDE DEF S
<1>2. n + 1 \in 1..Len(plan) /\ Len(plan) \in (n + 1)..Len(plan)
  BY <1>1
<1>3. Len(todo) = Len(plan) - n
  BY <1>1
<1> QED BY <1>1, <1>2, <1>3, HeadTailOfSubSeq

LEMMA PlanIsSeq ==
  ASSUME engine \in DOMAIN Catalogs, NEW c \in Calls, NEW req \in Requests[engine][c]
  PROVE  IsSeq(Queries(req)) /\ Len(Queries(req)) > 0
<1>1. req.op \in Operations
  BY RequestsAssumption
<1>2. CASE req.op = "complete"
  <2>1. PICK plan : plan = Plans[engine][req]
    OBVIOUS
  <2>2. IsSeq(plan) /\ plan # <<>>
    BY <1>2, <2>1, RequestsAssumption DEF IsSeq
  <2>3. Queries(req) = plan
    BY <1>2, <2>1 DEF Queries
  <2>4. Len(plan) \in Nat \ {0}
    BY <2>2, EmptySeq DEF IsSeq
  <2>5. IsSeq(plan) /\ Len(plan) > 0
    BY <2>2, <2>4
  <2> HIDE <2>4
  <2> QED BY <2>3, <2>5
<1>3. ASSUME NEW a, NEW b, NEW d
      PROVE  /\ IsSeq(<<a>>) /\ Len(<<a>>) > 0
             /\ IsSeq(<<a, b>>) /\ Len(<<a, b>>) > 0
             /\ IsSeq(<<a, b, d>>) /\ Len(<<a, b, d>>) > 0
  <2>1. <<a>> \in Seq({a}) /\ <<a, b>> \in Seq({a, b}) /\ <<a, b, d>> \in Seq({a, b, d})
    OBVIOUS
  <2>2. Len(<<a>>) > 0 /\ Len(<<a, b>>) > 0 /\ Len(<<a, b, d>>) > 0
    OBVIOUS
  <2>3. IsSeq(<<a>>) /\ IsSeq(<<a, b>>) /\ IsSeq(<<a, b, d>>)
    BY <2>1, SeqIsSeq, Zenon
  <2> QED BY <2>2, <2>3, Zenon
<1>4. CASE req.op = "table"
  BY <1>3, <1>4 DEF Queries
<1>5. CASE req.op \in {"tables", "schemas", "routineDefinition"}
  BY <1>3, <1>5 DEF Queries
<1>6. CASE req.op = "databases"
  BY <1>3, <1>6 DEF Queries
<1> QED BY <1>1, <1>2, <1>4, <1>5, <1>6 DEF Operations

-----------------------------------------------------------------------------
(* What a step leaves as it was. *)

Grows ==
  /\ engine' = engine
  /\ at \in Nat /\ at' \in Nat /\ at <= at'
  /\ fetched => fetched' /\ tables' = tables
  /\ SchemaSettled => SchemaSettled' /\ schema' = schema

LEMMA Growing == ASSUME IInv, CachesInv, [Next]_vars PROVE Grows
<1>1. at \in Nat
  BY DEF CachesInv
<1>2. CASE UNCHANGED vars
  BY <1>1, <1>2 DEF vars, Grows, SchemaSettled, SupportsSchemas
<1>3. CASE Alter
  BY <1>1, <1>3 DEF Alter, caches, Grows, SchemaSettled, SupportsSchemas
<1>4. ASSUME NEW c \in Calls, Arrive(c) \/ Served(c) PROVE Grows
  <2>1. UNCHANGED <<engine, at>>
    BY <1>4, Zenon DEF Arrive, Served, LookUpColumns, KeepColumns, LockTables, OfferKeywords,
                EnterOnce, SchemaAnswered, ColumnsAnswered, TablesAnswered, RoutinesAnswered,
                DetailAnswered, DatabasesAnswered, SchemasAnswered, DefinitionAnswered
  <2>2. fetched => UNCHANGED <<fetched, tables>>
    BY <1>4, FetchedOnce
  <2>3. ASSUME SchemaSettled PROVE UNCHANGED <<once, schema>>
    <3>1. ~EnterOnce(c)
      BY <2>3 DEF EnterOnce, SchemaSettled
    <3>2. ASSUME NEW end PROVE ~SchemaAnswered(c, end)
      BY <2>3 DEF SchemaAnswered, SchemaSettled, IInv, HoldersLoad
    <3> QED BY <1>4, <3>1, <3>2, SchemaApart
  <2> QED BY <1>1, <2>1, <2>2, <2>3 DEF Grows, SchemaSettled, SupportsSchemas
<1> QED BY <1>2, <1>3, <1>4 DEF Next

LEMMA KeptStays ==
  ASSUME Grows, NEW key, NEW found, Keeps(key, found)
  PROVE  Keeps(key, found)'
BY DEF Grows, Keeps, FoundColumns

\* What was an answer stays one.
LEMMA AnswersStay ==
  ASSUME Grows, NEW r, r.since \in Nat, NEW query, NEW found, Answers(r, query, found)
  PROVE  Answers(r, query, found)'
<1>1. \A n : n \in During(r) => (n \in During(r))'
  BY DEF Grows, During
<1>2. \A n : n \in UnlessRefused(During(r)) => (n \in UnlessRefused(During(r)))'
  BY <1>1 DEF UnlessRefused
<1>3. \A key : Keeps(key, found) => Keeps(key, found)'
  BY KeptStays
<1>4. query.ref.schema # NoName \/ SchemaSettled => TableOf(query.ref)' = TableOf(query.ref)
  BY DEF Grows, TableOf
<1>5. SchemaSettled => SchemaSettled'
  BY DEF Grows
<1>6. (query.kind = "columns" =>
           /\ Keeps(KeyOf(TableOf(query.ref)), found)
           /\ query.ref.schema = NoName => SchemaSettled)'
  <2>1. PICK table, key : table = TableOf(query.ref) /\ key = KeyOf(table)
    OBVIOUS
  <2>2. query.kind = "columns" =>
          /\ Keeps(key, found)'
          /\ query.ref.schema # NoName \/ SchemaSettled
    BY <1>3, <2>1 DEF Answers
  <2>3. query.kind = "columns" => TableOf(query.ref)' = table
    BY <1>4, <2>1, <2>2
  <2>4. query.kind = "columns" => Keeps(KeyOf(TableOf(query.ref)), found)'
    <3> SUFFICES ASSUME query.kind = "columns" PROVE Keeps(KeyOf(TableOf(query.ref)), found)'
      OBVIOUS
    <3>1. Keeps(KeyOf(table), found)'
      BY <2>1, <2>2 DEF Keeps
    <3> QED BY <2>3, <3>1 DEF Keeps
  <2> QED BY <1>5, <2>2, <2>4
<1>7. (query.kind = "tables" => fetched /\ found = FoundTables(tables))'
  BY DEF Answers, Grows, FoundTables
<1>8. (query.kind = "objects" =>
           \E from \in During(r), routines \in UnlessRefused(During(r)) :
              found = FoundTables([asked |-> r.req.schema, from |-> from, routines |-> routines]))'
  BY <1>1, <1>2 DEF Answers, FoundTables
<1>9. (/\ query.kind \in {"detail", "databases", "schemas"} => found \in During(r)
       /\ query.kind \in {"indexes", "keys", "current"} => found \in UnlessRefused(During(r)))'
  BY <1>1, <1>2 DEF Answers
<1>10. (query.kind = "definition" => \E n \in During(r) : found \in SourcesAt(n, r.req))'
  <2>1. \A n : SourcesAt(n, r.req)' = SourcesAt(n, r.req)
    BY Zenon DEF Grows, SourcesAt, Seen, RoutineDefinitions, RoutinesRead, Reads
  <2> QED BY <1>1, <2>1 DEF Answers
<1>11. (query.kind = "keywords" => found = [kind |-> "keywords"])'
  BY DEF Answers
<1> QED BY <1>6, <1>7, <1>8, <1>9, <1>10, <1>11 DEF Answers

\* It answers the call, wherever that is.
LEMMA OneCall ==
  ASSUME NEW r, NEW s, s.req = r.req, s.since = r.since, NEW query, NEW found,
         Answers(r, query, found)'
  PROVE  Answers(s, query, found)'
BY DEF Answers, During

LEMMA StandsStay ==
  ASSUME Grows, NEW r, r.since \in Nat, NEW n \in Nat, Stands(r, n)
  PROVE  Stands(r, n)' /\ Queries(r.req)' = Queries(r.req)
<1> DEFINE plan == Queries(r.req)
<1>1. Queries(r.req)' = plan
  BY DEF Grows, Queries
<1>2. PICK p : p = plan
  OBVIOUS
<1> HIDE DEF plan
<1>3. \A k \in 1..n : Answers(r, p[k], r.read[k])'
  BY <1>2, AnswersStay DEF Stands, plan
<1>4. r.pc = "keep" => Answers(r, p[n + 1], r.read[n + 1])'
  BY <1>2, AnswersStay DEF Stands, plan
<1>5. r.pc \in {"ask", "keep"} => AsksForColumns(p[n + 1])'
  BY <1>2 DEF Stands, plan, AsksForColumns, Grows
<1>6. r.pc = "routines" => HalfAnswers(r, p[n + 1], r.read[n + 1])'
  <2>1. r.pc = "routines" => HalfAnswers(r, p[n + 1], r.read[n + 1])
    BY <1>2 DEF Stands, plan
  <2> QED BY <2>1 DEF HalfAnswers, During, FoundTables, Grows
<1> QED BY <1>1, <1>2, <1>3, <1>4, <1>5, <1>6 DEF Stands, plan

-----------------------------------------------------------------------------
(* How a call goes through its plan. *)

\* The fields of the forms a call takes.
LEMMA FormFields ==
  ASSUME NEW r, IsCall(r), NEW pc, NEW todo, NEW read
  PROVE  /\ Ending(r, pc).req = r.req /\ Ending(r, pc).since = r.since
         /\ Ending(r, pc).pc = pc /\ Ending(r, pc).todo = r.todo /\ Ending(r, pc).read = r.read
         /\ Reading(r, pc, read).req = r.req /\ Reading(r, pc, read).since = r.since
         /\ Reading(r, pc, read).pc = pc /\ Reading(r, pc, read).todo = r.todo
         /\ Reading(r, pc, read).read = read
         /\ Planning(r, pc, todo).req = r.req /\ Planning(r, pc, todo).since = r.since
         /\ Planning(r, pc, todo).pc = pc /\ Planning(r, pc, todo).todo = todo
         /\ Planning(r, pc, todo).read = r.read
         /\ GoingOn(r, pc, todo, read).req = r.req /\ GoingOn(r, pc, todo, read).since = r.since
         /\ GoingOn(r, pc, todo, read).pc = pc /\ GoingOn(r, pc, todo, read).todo = todo
         /\ GoingOn(r, pc, todo, read).read = read
         /\ GoneOn(r, pc, todo, read).req = r.req /\ GoneOn(r, pc, todo, read).since = r.since
         /\ GoneOn(r, pc, todo, read).pc = pc /\ GoneOn(r, pc, todo, read).todo = todo
         /\ GoneOn(r, pc, todo, read).read = read
<1>1. /\ Ending(r, pc).req = r.req /\ Ending(r, pc).since = r.since
      /\ Ending(r, pc).pc = pc /\ Ending(r, pc).todo = r.todo /\ Ending(r, pc).read = r.read
  BY DEF IsCall, Ending
<1>2. /\ Reading(r, pc, read).req = r.req /\ Reading(r, pc, read).since = r.since
      /\ Reading(r, pc, read).pc = pc /\ Reading(r, pc, read).todo = r.todo
      /\ Reading(r, pc, read).read = read
  BY DEF IsCall, Reading
<1>3. /\ Planning(r, pc, todo).req = r.req /\ Planning(r, pc, todo).since = r.since
      /\ Planning(r, pc, todo).pc = pc /\ Planning(r, pc, todo).todo = todo
      /\ Planning(r, pc, todo).read = r.read
  BY DEF IsCall, Planning
<1>4. /\ GoingOn(r, pc, todo, read).req = r.req /\ GoingOn(r, pc, todo, read).since = r.since
      /\ GoingOn(r, pc, todo, read).pc = pc /\ GoingOn(r, pc, todo, read).todo = todo
      /\ GoingOn(r, pc, todo, read).read = read
  BY DEF IsCall, GoingOn
<1>5. /\ GoneOn(r, pc, todo, read).req = r.req /\ GoneOn(r, pc, todo, read).since = r.since
      /\ GoneOn(r, pc, todo, read).pc = pc /\ GoneOn(r, pc, todo, read).todo = todo
      /\ GoneOn(r, pc, todo, read).read = read
  BY DEF IsCall, GoneOn
<1> QED BY <1>1, <1>2, <1>3, <1>4, <1>5, Zenon

\* Call c as it is before a step, r, has n answers to its plan, before and
\* after.
AtPlace(c, r, n, plan) ==
  /\ r = call[c] /\ IsCall(r)
  /\ plan = Queries(r.req) /\ Queries(r.req)' = plan
  /\ IsSeq(plan) /\ n \in 0..Len(plan)
  /\ Stands(r, n) /\ Stands(r, n)'
  /\ r.req \in Requests[engine'][c]
  /\ r.since \in 1..at /\ r.since \in 1..at'
  /\ r.pc # "ok" => n \in 0..(Len(plan) - 1) /\ Head(r.todo) = plan[n + 1]

UnderWayOrOk(c) == call[c].pc \notin {"idle", "query", "internal"}

LEMMA Placed ==
  ASSUME IInv, AnswerInv, Grows, NEW c \in Calls, UnderWayOrOk(c)
  PROVE  \E r, n, plan : AtPlace(c, r, n, plan)
<1>1. PICK r : r = call[c]
  OBVIOUS
<1>2. PICK plan : plan = Queries(r.req)
  OBVIOUS
<1>3. PICK n \in 0..Len(plan) : Stands(r, n)
  BY <1>1, <1>2 DEF AnswerInv, Progress, UnderWayOrOk
<1>4. r.req \in Requests[engine][c] /\ r.since \in 1..at
  BY <1>1 DEF AnswerInv, Progress, UnderWayOrOk
<1>5. r.req \in Requests[engine'][c] /\ r.since \in 1..at' /\ r.since \in Nat
  BY <1>4 DEF Grows
<1>6. IsSeq(plan) /\ Len(plan) > 0
  BY <1>2, <1>4, PlanIsSeq DEF AnswerInv, CachesInv
<1>7. Len(plan) \in Nat /\ n \in Nat
  BY <1>6 DEF IsSeq
<1>8. Stands(r, n)' /\ Queries(r.req)' = plan
  BY <1>2, <1>3, <1>5, <1>7, StandsStay
<1>9. r.pc # "ok" => n \in 0..(Len(plan) - 1) /\ Head(r.todo) = plan[n + 1]
  <2>1. r.pc # "ok" => n # Len(plan)
    BY <1>2, <1>3 DEF Stands
  <2>2. r.pc # "ok" => n \in 0..(Len(plan) - 1)
    BY <1>7, <2>1
  <2>3. r.todo = SubSeq(plan, n + 1, Len(plan))
    BY <1>2, <1>3 DEF Stands
  <2> QED BY <1>6, <2>2, <2>3, RestOfPlan
<1>10. IsCall(r)
  BY <1>1 DEF IInv, CallsAreRecords
<1>11. AtPlace(c, r, n, plan)
  BY <1>1, <1>2, <1>3, <1>4, <1>5, <1>6, <1>8, <1>9, <1>10 DEF AtPlace
<1> QED BY <1>11

\* Where a call stands after a step.
LEMMA Moved ==
  ASSUME NEW c \in Calls, NEW s, call'[c] = s, NEW n, NEW plan, Queries(s.req)' = plan,
         n \in 0..Len(plan), Stands(s, n)',
         s.req \in Requests[engine'][c], s.since \in 1..at', s.pc # "idle"
  PROVE  Progress(c)'
BY DEF Progress

\* The next answer is there.
Follows(s, r, n) ==
  /\ r.pc # "ok"
  /\ s.req = r.req /\ s.since = r.since
  /\ s.pc = (IF Len(r.todo) = 1 THEN "ok" ELSE "going") /\ s.todo = Tail(r.todo)
  /\ IsSeq(s.read) /\ Len(s.read) = n + 1 /\ \A k \in 1..n : s.read[k] = r.read[k]

LEMMA Advance ==
  ASSUME NEW c \in Calls, NEW r, NEW n, NEW plan, AtPlace(c, r, n, plan),
         NEW s, call'[c] = s, Follows(s, r, n), Answers(r, plan[n + 1], s.read[n + 1])'
  PROVE  Progress(c)'
<1> USE DEF Follows
<1>1. n \in 0..(Len(plan) - 1) /\ Queries(s.req)' = plan /\ IsSeq(plan)
  BY DEF AtPlace
<1>2. Len(plan) \in Nat /\ n \in Nat /\ n + 1 \in 0..Len(plan)
  BY <1>1 DEF IsSeq
<1>3. r.todo = SubSeq(plan, n + 1, Len(plan))
  BY DEF AtPlace, Stands
<1>4. /\ s.todo = SubSeq(plan, (n + 1) + 1, Len(plan))
      /\ Len(r.todo) = Len(plan) - n
  BY <1>1, <1>3, RestOfPlan
<1>5. s.pc \in {"ok", "going"} /\ (s.pc = "ok" <=> n + 1 = Len(plan))
  BY <1>2, <1>4
<1>6. ASSUME NEW k \in 1..(n + 1) PROVE Answers(s, plan[k], s.read[k])'
  <2>1. CASE k = n + 1
    BY <2>1, OneCall
  <2>2. CASE k \in 1..n
    <3>1. Answers(r, plan[k], r.read[k])'
      BY <2>2 DEF AtPlace, Stands
    <3> QED BY <2>2, <3>1, OneCall
  <2> QED BY <1>2, <2>1, <2>2
<1>7. Stands(s, n + 1)'
  BY <1>1, <1>4, <1>5, <1>6 DEF Stands
<1> QED BY <1>1, <1>2, <1>5, <1>7, Moved DEF AtPlace

\* The call goes on with what it found.
LEMMA ProceedingGoesOn ==
  ASSUME IInv, NEW c \in Calls, NEW r, NEW n, NEW plan, AtPlace(c, r, n, plan), r.pc = "going",
         NEW found, Set(c, Proceeding(c, found)), Answers(r, plan[n + 1], found)'
  PROVE  Progress(c)'
<1>1. PICK pc : pc = IF Len(r.todo) = 1 THEN "ok" ELSE "going"
  OBVIOUS
<1>2. PICK todo, read : todo = Tail(r.todo) /\ read = Append(r.read, found)
  OBVIOUS
<1>3. PICK s : s = GoingOn(r, pc, todo, read)
  OBVIOUS
<1>4. Proceeding(c, found) = s
  BY <1>1, <1>2, <1>3 DEF Proceeding, GoingOn, AtPlace
<1>5. IsCall(s)
  BY <1>3, Replacing DEF AtPlace
<1>6. call'[c] = s
  BY <1>4, <1>5, Setting DEF IInv
<1>7. s.req = r.req /\ s.since = r.since /\ s.pc = pc /\ s.todo = todo /\ s.read = read
  BY <1>3, FormFields DEF AtPlace
<1>8. IsSeq(r.read) /\ Len(r.read) = n
  BY DEF AtPlace, Stands
<1>9. /\ IsSeq(read) /\ Len(read) = n + 1 /\ read[n + 1] = found
      /\ \A k \in 1..n : read[k] = r.read[k]
  BY <1>2, <1>8, Appended
<1>10. Answers(r, plan[n + 1], s.read[n + 1])'
  BY <1>7, <1>9
<1>11. Follows(s, r, n)
  BY <1>1, <1>2, <1>7, <1>9 DEF Follows
<1> QED BY <1>6, <1>10, <1>11, Advance

\* It fails.
LEMMA Failing ==
  ASSUME IInv, NEW c \in Calls, NEW end \in {"query", "internal"}, Set(c, Done(c, end))
  PROVE  Progress(c)'
<1>1. IsCall(Done(c, end)) /\ Done(c, end).pc = end
  BY Becoming DEF IInv
<1>2. call'[c].pc = end
  BY <1>1, Setting DEF IInv
<1> QED BY <1>2 DEF Progress

\* It has not been asked anything, or stays where it is.
LEMMA Staying ==
  ASSUME IInv, AnswerInv, Grows, NEW c \in Calls, call'[c] = call[c]
  PROVE  Progress(c)'
<1>1. CASE ~UnderWayOrOk(c)
  BY <1>1 DEF UnderWayOrOk, AnswerInv, Progress
<1>2. CASE UnderWayOrOk(c)
  <2>1. PICK r, n, plan : AtPlace(c, r, n, plan)
    BY <1>2, Placed
  <2> QED BY <1>2, <2>1, Moved DEF AtPlace, UnderWayOrOk
<1> QED BY <1>1, <1>2

-----------------------------------------------------------------------------
(* Each step gives the call an answer to what it asked. *)

Begun(r, req, todo, since) == [r EXCEPT !.pc = "going", !.req = req, !.todo = todo, !.since = since]

LEMMA ArriveStands ==
  ASSUME IInv, AnswerInv, Grows, NEW c \in Calls, Arrive(c) PROVE Progress(c)'
<1>1. PICK req \in Requests[engine][c] :
        call' = [call EXCEPT ![c] = Begun(call[c], req, Queries(req), at)]
  BY Zenon DEF Arrive, Begun
<1>2. PICK r, plan, now : r = call[c] /\ plan = Queries(req) /\ now = at
  OBVIOUS
<1>3. PICK s : s = Begun(r, req, plan, now)
  OBVIOUS
<1>4. IsCall(r) /\ r.read = <<>>
  BY <1>2 DEF IInv, CallsAreRecords, AnswerInv, Progress, Arrive
<1>5. /\ s.pc = "going" /\ s.req = req /\ s.todo = plan /\ s.since = now /\ s.read = <<>>
  BY <1>3, <1>4 DEF IsCall, Begun
<1>6. call'[c] = s
  BY <1>1, <1>2, <1>3 DEF IInv, CallsAreRecords
<1>7. IsSeq(plan) /\ Len(plan) > 0
  BY <1>2, PlanIsSeq DEF AnswerInv, CachesInv
<1>8. Queries(s.req)' = plan
  BY <1>2, <1>5, Zenon DEF Grows, Queries
<1>9. s.todo = SubSeq(plan, 0 + 1, Len(plan)) /\ Len(plan) \in Nat
  BY <1>5, <1>7, SubSeqFull DEF IsSeq
<1>10. IsSeq(s.read) /\ Len(s.read) = 0
  BY <1>5, EmptySeq, SeqIsSeq
<1>11. Stands(s, 0)'
  BY <1>5, <1>7, <1>8, <1>9, <1>10 DEF Stands
<1>12. s.req \in Requests[engine'][c] /\ s.since \in 1..at'
  BY <1>2, <1>5 DEF Grows, AnswerInv, CachesInv
<1>13. 0 \in 0..Len(plan)
  BY <1>9
<1>14. s.pc # "idle"
  BY <1>5
<1> QED BY <1>6, <1>8, <1>11, <1>12, <1>13, <1>14, Moved, Zenon

\* What it asks for is what the step answers.
LEMMA AskedNow ==
  ASSUME NEW c \in Calls, NEW r, NEW n, NEW plan, AtPlace(c, r, n, plan), call[c].pc # "ok"
  PROVE  /\ r = call[c] /\ IsCall(r) /\ Kind(c) = plan[n + 1].kind /\ Head(r.todo) = plan[n + 1]
         /\ n \in Nat /\ n \in 0..(Len(plan) - 1) /\ IsSeq(r.read)
         /\ Len(r.read) = IF r.pc \in {"keep", "routines"} THEN n + 1 ELSE n
         /\ r.since \in Nat /\ During(r)' = r.since..at'
<1>1. r = call[c] /\ IsCall(r) /\ Head(r.todo) = plan[n + 1] /\ n \in 0..(Len(plan) - 1)
  BY DEF AtPlace
<1>2. Len(plan) \in Nat
  BY DEF AtPlace, IsSeq
<1>3. n \in Nat
  BY <1>1, <1>2
<1>4. IsSeq(r.read) /\ Len(r.read) = IF r.pc \in {"keep", "routines"} THEN n + 1 ELSE n
  BY DEF AtPlace, Stands
<1>5. r.since \in Nat /\ During(r)' = r.since..at'
  BY DEF AtPlace, During
<1> QED BY <1>1, <1>3, <1>4, <1>5 DEF Kind

LEMMA ColumnsAreAnswers ==
  ASSUME Grows, NEW r, r.since \in Nat, NEW query, AsksForColumns(query),
         NEW found, Keeps(KeyOf(TableOf(query.ref)), found)
  PROVE  Answers(r, query, found)'
<1>1. Answers(r, query, found)
  BY DEF Answers, AsksForColumns
<1> QED BY <1>1, AnswersStay

\* A call that has something more, but not all of an answer or not yet kept.
LEMMA OneMore ==
  ASSUME NEW c \in Calls, NEW r, NEW n, NEW plan, AtPlace(c, r, n, plan),
         r.pc \in {"going", "ask"}, IInv,
         NEW pc \in {"keep", "routines"}, NEW found, NEW read, read = Append(r.read, found),
         NEW s, s = Reading(r, pc, read), Set(c, s),
         pc = "keep" => AsksForColumns(plan[n + 1])' /\ Answers(r, plan[n + 1], found)',
         pc = "routines" => HalfAnswers(r, plan[n + 1], found)'
  PROVE  Progress(c)'
<1>0. IsCall(r)
  BY DEF AtPlace
<1>1. s.req = r.req /\ s.since = r.since /\ s.pc = pc /\ s.todo = r.todo /\ s.read = read
  BY <1>0 DEF IsCall, Reading
<1>2. call'[c] = s
  <2>1. IsCall(s)
    BY <1>0, Replacing
  <2> QED BY <2>1, Setting DEF IInv
<1>3. IsSeq(r.read) /\ Len(r.read) = n /\ n \in 0..(Len(plan) - 1) /\ n \in 0..Len(plan)
  BY DEF AtPlace, Stands
<1>4. /\ IsSeq(read) /\ Len(read) = n + 1 /\ read[n + 1] = found
      /\ \A k \in 1..n : read[k] = r.read[k]
  BY <1>3, Appended
<1>5. /\ Queries(s.req)' = plan /\ s.todo = SubSeq(plan, n + 1, Len(plan)) /\ n # Len(plan)
      /\ \A k \in 1..n : Answers(r, plan[k], r.read[k])'
  <2>1. Queries(s.req)' = plan /\ s.todo = SubSeq(plan, n + 1, Len(plan))
    BY <1>1 DEF AtPlace, Stands
  <2>2. \A k \in 1..n : Answers(r, plan[k], r.read[k])'
    BY DEF AtPlace, Stands
  <2>3. n # Len(plan)
    BY <1>3 DEF AtPlace, Stands
  <2> QED BY <2>1, <2>2, <2>3
<1>6. \A k \in 1..n : Answers(s, plan[k], s.read[k])'
  <2> SUFFICES ASSUME NEW k \in 1..n PROVE Answers(s, plan[k], s.read[k])'
    OBVIOUS
  <2>1. Answers(r, plan[k], s.read[k])'
    BY <1>1, <1>4, <1>5
  <2> QED BY <1>1, <2>1, OneCall
<1>7. s.pc = "keep" => AsksForColumns(plan[n + 1])' /\ Answers(s, plan[n + 1], s.read[n + 1])'
  <2>1. s.pc = "keep" => AsksForColumns(plan[n + 1])' /\ Answers(r, plan[n + 1], s.read[n + 1])'
    BY <1>1, <1>4
  <2> QED BY <1>1, <2>1, OneCall
<1>8. s.pc = "routines" => HalfAnswers(s, plan[n + 1], s.read[n + 1])'
  <2>1. s.pc = "routines" => HalfAnswers(r, plan[n + 1], s.read[n + 1])'
    BY <1>1, <1>4
  <2> QED BY <1>1, <2>1 DEF HalfAnswers, During
<1>9. Stands(s, n)'
  BY <1>1, <1>4, <1>5, <1>6, <1>7, <1>8 DEF Stands
<1> QED BY <1>1, <1>2, <1>3, <1>5, <1>9, Moved DEF AtPlace

LEMMA LookUpStands ==
  ASSUME IInv, AnswerInv, Grows, NEW c \in Calls, LookUpColumns(c) PROVE Progress(c)'
<1>1. call[c].pc = "going" /\ Kind(c) = "columns" /\ SchemaKnown(c)
  BY DEF LookUpColumns, AtQuery
<1>2. PICK r, n, plan : AtPlace(c, r, n, plan)
  BY <1>1, Placed DEF UnderWayOrOk
<1>3. PICK query : query = plan[n + 1]
  OBVIOUS
<1>4. /\ r = call[c] /\ r.pc = "going" /\ query.kind = "columns" /\ Head(r.todo) = query
      /\ r.since \in Nat
  BY <1>1, <1>2, <1>3, AskedNow
<1>5. AsksForColumns(query) /\ Key(c) = KeyOf(TableOf(query.ref))
  BY <1>1, <1>4 DEF AsksForColumns, Key, Asked, SchemaKnown, NeedsSchema, AtQuery
<1>6. CASE Key(c) \in DOMAIN columns
  <2>1. PICK found : found = columns[Key(c)]
    OBVIOUS
  <2>2. Keeps(KeyOf(TableOf(query.ref)), found)
    BY <1>5, <1>6, <2>1 DEF AnswerInv, CachesInv
  <2>3. Answers(r, query, found)'
    BY <1>4, <1>5, <2>2, ColumnsAreAnswers
  <2>4. Set(c, Proceeding(c, found))
    BY <1>6, <2>1 DEF LookUpColumns
  <2> QED BY <1>2, <1>3, <1>4, <2>3, <2>4, ProceedingGoesOn
<1>7. CASE Key(c) \notin DOMAIN columns
  <2>1. PICK s : s = Ending(r, "ask")
    OBVIOUS
  <2>2. IsCall(r)
    BY <1>2 DEF AtPlace
  <2>3. /\ IsCall(s) /\ s.req = r.req /\ s.since = r.since /\ s.pc = "ask" /\ s.todo = r.todo
        /\ s.read = r.read
    BY <2>1, <2>2 DEF IsCall, Ending
  <2>4. call'[c] = s
    <3>1. Set(c, s)
      BY <1>4, <1>7, <2>1 DEF LookUpColumns, Done, Ending
    <3> QED BY <2>3, <3>1, Setting DEF IInv
  <2>5. AsksForColumns(query)'
    BY <1>5 DEF AsksForColumns, Grows
  <2>6. \A k \in 1..n : Answers(s, plan[k], s.read[k])'
    <3> SUFFICES ASSUME NEW k \in 1..n PROVE Answers(s, plan[k], s.read[k])'
      OBVIOUS
    <3>1. Answers(r, plan[k], s.read[k])'
      BY <1>2, <2>3 DEF AtPlace, Stands
    <3> QED BY <2>3, <3>1, OneCall
  <2>7. Queries(s.req)' = plan
    BY <1>2, <2>3 DEF AtPlace
  <2>8. /\ s.todo = SubSeq(plan, n + 1, Len(plan)) /\ IsSeq(s.read) /\ Len(s.read) = n
        /\ n # Len(plan)
    BY <1>2, <1>4, <2>3 DEF AtPlace, Stands
  <2>9. Stands(s, n)'
    BY <1>3, <2>3, <2>5, <2>6, <2>7, <2>8 DEF Stands
  <2>10. n \in 0..Len(plan) /\ s.req \in Requests[engine'][c] /\ s.since \in 1..at'
    BY <1>2, <2>3 DEF AtPlace
  <2> QED BY <2>3, <2>4, <2>7, <2>9, <2>10, Moved
<1> QED BY <1>6, <1>7

LEMMA ColumnsStand ==
  ASSUME IInv, AnswerInv, Grows, NEW c \in Calls, NEW end \in Ends, ColumnsAnswered(c, end)
  PROVE  Progress(c)'
<1>1. call[c].pc = "ask"
  BY DEF ColumnsAnswered
<1>2. PICK r, n, plan : AtPlace(c, r, n, plan)
  BY <1>1, Placed DEF UnderWayOrOk
<1>3. PICK query : query = plan[n + 1]
  OBVIOUS
<1>4. r = call[c] /\ r.pc = "ask" /\ Head(r.todo) = query /\ r.since \in Nat
  BY <1>1, <1>2, <1>3, AskedNow
<1>5. AsksForColumns(query) /\ AsksForColumns(query)'
  BY <1>2, <1>3, <1>4 DEF AtPlace, Stands
<1>6. Asked(c) = TableOf(query.ref)
  BY <1>4 DEF Asked
<1>7. CASE end = "panic"
  BY <1>7, Failing DEF ColumnsAnswered
<1>8. CASE end # "panic"
  <2>1. PICK table, v, found, read :
          /\ table = Asked(c) /\ v = Source(end)
          /\ found = FoundColumns(table, v) /\ read = Append(r.read, found)
    OBVIOUS
  <2>2. Keeps(KeyOf(TableOf(query.ref)), found)
    <3>1. v \in (1..at) \cup {Refused}
      BY <2>1 DEF Source, AnswerInv, CachesInv
    <3>2. found.asked = table /\ found.from = v
      BY <2>1 DEF FoundColumns
    <3> QED BY <1>6, <2>1, <3>1, <3>2 DEF Keeps
  <2>3. Answers(r, query, found)'
    BY <1>4, <1>5, <2>2, ColumnsAreAnswers
  <2>4. Set(c, Reading(r, "keep", read))
    BY <1>4, <1>8, <2>1 DEF ColumnsAnswered, Reading
  <2> QED BY <1>2, <1>3, <1>4, <1>5, <2>1, <2>3, <2>4, OneMore
<1> QED BY <1>7, <1>8

LEMMA KeepStands ==
  ASSUME IInv, AnswerInv, Grows, NEW c \in Calls, KeepColumns(c) PROVE Progress(c)'
<1>1. call[c].pc = "keep"
  BY DEF KeepColumns
<1>2. PICK r, n, plan : AtPlace(c, r, n, plan)
  BY <1>1, Placed DEF UnderWayOrOk
<1>3. r = call[c] /\ r.pc = "keep" /\ IsCall(r) /\ IsSeq(r.read) /\ Len(r.read) = n + 1
  BY <1>1, <1>2, AskedNow
<1>4. PICK pc, todo : todo = Tail(r.todo) /\ pc = IF Len(r.todo) = 1 THEN "ok" ELSE "going"
  OBVIOUS
<1>5. PICK s : s = Planning(r, pc, todo)
  OBVIOUS
<1>6. /\ IsCall(s) /\ s.req = r.req /\ s.since = r.since /\ s.pc = pc /\ s.todo = todo
      /\ s.read = r.read
  BY <1>3, <1>5 DEF IsCall, Planning
<1>7. call'[c] = s
  <2>1. Set(c, s)
    BY <1>3, <1>4, <1>5 DEF KeepColumns, Planning
  <2> QED BY <1>6, <2>1, Setting DEF IInv
<1>8. Answers(r, plan[n + 1], s.read[n + 1])'
  BY <1>2, <1>3, <1>6 DEF AtPlace, Stands
<1>9. Follows(s, r, n)
  BY <1>3, <1>4, <1>6 DEF Follows
<1> QED BY <1>2, <1>7, <1>8, <1>9, Advance

LEMMA KeywordsStand ==
  ASSUME IInv, AnswerInv, Grows, NEW c \in Calls, OfferKeywords(c) PROVE Progress(c)'
<1>1. call[c].pc = "going" /\ Kind(c) = "keywords"
  BY DEF OfferKeywords, AtQuery
<1>2. PICK r, n, plan : AtPlace(c, r, n, plan)
  BY <1>1, Placed DEF UnderWayOrOk
<1>3. r = call[c] /\ r.pc = "going" /\ plan[n + 1].kind = "keywords"
  BY <1>1, <1>2, AskedNow
<1>4. PICK found : found = [kind |-> "keywords"]
  OBVIOUS
<1>5. Answers(r, plan[n + 1], found)'
  BY <1>3, <1>4 DEF Answers
<1>6. Set(c, Proceeding(c, found))
  BY <1>4 DEF OfferKeywords
<1> QED BY <1>2, <1>3, <1>5, <1>6, ProceedingGoesOn

LEMMA LockStands ==
  ASSUME IInv, AnswerInv, Grows, NEW c \in Calls, LockTables(c) PROVE Progress(c)'
<1>1. call[c].pc = "going" /\ Kind(c) = "tables"
  BY DEF LockTables, AtQuery
<1>2. CASE ~fetched
  BY <1>2, Staying DEF LockTables
<1>3. CASE fetched
  <2>1. PICK r, n, plan : AtPlace(c, r, n, plan)
    BY <1>1, Placed DEF UnderWayOrOk
  <2>2. r = call[c] /\ r.pc = "going" /\ plan[n + 1].kind = "tables"
    BY <1>1, <2>1, AskedNow
  <2>3. PICK found : found = FoundTables(tables)
    OBVIOUS
  <2>4. Answers(r, plan[n + 1], found)'
    BY <1>3, <2>2, <2>3 DEF Answers, FoundTables, Grows
  <2>5. Set(c, Proceeding(c, found))
    BY <1>3, <2>3 DEF LockTables
  <2> QED BY <2>1, <2>2, <2>4, <2>5, ProceedingGoesOn
<1> QED BY <1>2, <1>3

\* A call that loads the listing of the session does so under its schema.
LEMMA TablesStand ==
  ASSUME IInv, AnswerInv, Grows, NEW c \in Calls, NEW end \in Ends, TablesAnswered(c, end)
  PROVE  Progress(c)'
<1>1. /\ call[c].pc = "going" /\ Kind(c) \in {"tables", "objects"}
      /\ Kind(c) = "tables" => SchemaSettled
  BY DEF TablesAnswered, ObjectsOf, AtQuery, SchemaKnown, NeedsSchema
<1>2. PICK r, n, plan : AtPlace(c, r, n, plan)
  BY <1>1, Placed DEF UnderWayOrOk
<1>3. PICK query : query = plan[n + 1]
  OBVIOUS
<1>4. r = call[c] /\ r.pc = "going" /\ query.kind = Kind(c) /\ r.since \in 1..at
  <2>1. r = call[c] /\ query.kind = Kind(c)
    BY <1>1, <1>2, <1>3, AskedNow
  <2> QED BY <1>1, <1>2, <2>1 DEF AtPlace
<1>5. CASE end = "answer"
  <2>1. PICK found, read :
          /\ found = FoundTables([asked |-> AskedOf(c), from |-> at, routines |-> Refused])
          /\ read = Append(r.read, found)
    OBVIOUS
  <2>2. PICK s : s = Reading(r, "routines", read)
    OBVIOUS
  <2>3. Set(c, s)
    BY <1>4, <1>5, <2>1, <2>2 DEF TablesAnswered, Reading
  <2>4. HalfAnswers(r, query, found)
    BY <1>1, <1>4, <2>1 DEF HalfAnswers, During, AskedOf, AnswerInv, CachesInv
  <2>5. HalfAnswers(r, query, found)'
    BY <2>4 DEF HalfAnswers, During, FoundTables, Grows
  <2> QED BY <1>2, <1>3, <1>4, <2>1, <2>2, <2>3, <2>5, OneMore
<1>6. CASE end = "refuse" /\ Kind(c) = "tables"
  <2>1. PICK found : found = FoundTables(tables)
    OBVIOUS
  <2>2. fetched' = TRUE /\ tables' = tables /\ Set(c, Proceeding(c, found))
    BY <1>6, <2>1 DEF TablesAnswered, Fetch
  <2>3. Answers(r, query, found)'
    BY <1>4, <1>6, <2>1, <2>2 DEF Answers, FoundTables
  <2> QED BY <1>2, <1>3, <1>4, <2>2, <2>3, ProceedingGoesOn
<1>7. CASE end = "refuse" /\ Kind(c) = "objects"
  BY <1>7, Failing DEF TablesAnswered
<1>8. CASE end = "panic"
  BY <1>8, Failing DEF TablesAnswered
<1> QED BY <1>1, <1>5, <1>6, <1>7, <1>8 DEF Ends

\* The listing of call c so far, and with the routines.
LEMMA HalfListing ==
  ASSUME AnswerInv, NEW c \in Calls, NEW r, NEW n, NEW plan, AtPlace(c, r, n, plan),
         call[c].pc = "routines"
  PROVE  /\ Kind(c) \in {"tables", "objects"}
         /\ Kind(c) = "tables" => SchemaSettled
         /\ \E from \in During(r) :
              Last(r.read) = FoundTables([asked |-> IF Kind(c) = "tables" THEN schema
                                                    ELSE r.req.schema,
                                          from |-> from, routines |-> Refused])
<1>1. /\ r = call[c] /\ plan[n + 1].kind = Kind(c) /\ IsSeq(r.read) /\ Len(r.read) = n + 1
      /\ n \in Nat
  BY AskedNow
<1>2. HalfAnswers(r, plan[n + 1], r.read[n + 1])
  BY <1>1 DEF AtPlace, Stands
<1>3. Last(r.read) = r.read[n + 1]
  BY <1>1 DEF Last
<1> QED BY <1>1, <1>2, <1>3 DEF HalfAnswers

LEMMA RoutinesStand ==
  ASSUME IInv, AnswerInv, Grows, NEW c \in Calls, NEW end \in Ends, RoutinesAnswered(c, end)
  PROVE  Progress(c)'
<1>1. call[c].pc = "routines"
  BY DEF RoutinesAnswered
<1>2. PICK r, n, plan : AtPlace(c, r, n, plan)
  BY <1>1, Placed DEF UnderWayOrOk
<1>3. /\ r = call[c] /\ r.pc = "routines" /\ IsCall(r) /\ IsSeq(r.read) /\ Len(r.read) = n + 1
      /\ plan[n + 1].kind = Kind(c) /\ n \in Nat /\ r.since \in 1..at
  <2>1. /\ r = call[c] /\ IsCall(r) /\ IsSeq(r.read) /\ plan[n + 1].kind = Kind(c) /\ n \in Nat
        /\ Len(r.read) = IF r.pc \in {"keep", "routines"} THEN n + 1 ELSE n
    BY <1>1, <1>2, AskedNow
  <2>2. r.since \in 1..at
    BY <1>2 DEF AtPlace
  <2> QED BY <1>1, <2>1, <2>2
<1>4. CASE end = "panic"
  BY <1>4, Failing DEF RoutinesAnswered
<1>5. CASE end # "panic"
  <2>1. PICK from \in During(r) :
          Last(r.read) = FoundTables([asked |-> IF Kind(c) = "tables" THEN schema
                                                ELSE r.req.schema,
                                      from |-> from, routines |-> Refused])
    BY <1>1, <1>2, HalfListing
  <2>2. PICK v, listing :
          /\ v = Source(end)
          /\ listing = [asked |-> IF Kind(c) = "tables" THEN schema ELSE r.req.schema,
                        from |-> from, routines |-> v]
    OBVIOUS
  <2>3. [Last(r.read).listing EXCEPT !.routines = Source(end)] = listing
    BY <2>1, <2>2 DEF FoundTables
  <2>4. PICK found, read, todo, pc :
          /\ found = FoundTables(listing) /\ read = Append(Front(r.read), found)
          /\ todo = Tail(r.todo) /\ pc = IF Len(r.todo) = 1 THEN "ok" ELSE "going"
    OBVIOUS
  <2>5. PICK s : s = GoneOn(r, pc, todo, read)
    OBVIOUS
  <2>6. /\ IsCall(s) /\ s.req = r.req /\ s.since = r.since /\ s.pc = pc /\ s.todo = todo
        /\ s.read = read
    BY <1>3, <2>5 DEF IsCall, GoneOn
  <2>7. /\ Set(c, s) /\ Kind(c) \in {"tables", "objects"}
        /\ Kind(c) = "tables" => fetched' = TRUE /\ tables' = listing
    BY <1>3, <1>5, <2>3, <2>4, <2>5 DEF RoutinesAnswered, GoneOn
  <2>8. call'[c] = s
    BY <2>6, <2>7, Setting DEF IInv
  <2>9. /\ IsSeq(read) /\ Len(read) = n + 1 /\ read[n + 1] = found
        /\ \A k \in 1..n : read[k] = r.read[k]
    <3>1. /\ IsSeq(Front(r.read)) /\ Len(Front(r.read)) = n
          /\ \A k \in 1..n : Front(r.read)[k] = r.read[k]
      <4>1. Len(r.read) > 0 /\ n = Len(r.read) - 1
        BY <1>3
      <4> QED BY <1>3, <4>1, LastOf
    <3>2. PICK front : front = Front(r.read)
      OBVIOUS
    <3>3. /\ IsSeq(front) /\ Len(front) = n /\ \A k \in 1..n : front[k] = r.read[k]
          /\ read = Append(front, found)
      BY <2>4, <3>1, <3>2
    <3> QED BY <3>3, Appended
  <2>10. Answers(r, plan[n + 1], found)'
    <3>1. CASE Kind(c) = "tables"
      BY <1>3, <2>4, <2>7, <3>1 DEF Answers, FoundTables
    <3>2. CASE Kind(c) = "objects"
      <4>1. from \in During(r)' /\ v \in UnlessRefused(During(r))'
        BY <1>3, <2>1, <2>2 DEF During, UnlessRefused, Source, Grows
      <4>2. listing = [asked |-> r.req.schema, from |-> from, routines |-> v]
        BY <2>2, <3>2
      <4> QED BY <1>3, <2>4, <3>2, <4>1, <4>2 DEF Answers, FoundTables
    <3> QED BY <2>7, <3>1, <3>2
  <2>11. Answers(r, plan[n + 1], s.read[n + 1])'
    BY <2>6, <2>9, <2>10
  <2>12. Follows(s, r, n)
    BY <1>3, <2>4, <2>6, <2>9 DEF Follows
  <2> QED BY <1>2, <2>8, <2>11, <2>12, Advance
<1> QED BY <1>4, <1>5

\* The calls that keep nothing are answered from the catalog as it is.
LEMMA OthersStand ==
  ASSUME IInv, AnswerInv, Grows, NEW c \in Calls, NEW end \in Ends,
         \/ DetailAnswered(c, end) \/ DatabasesAnswered(c, end)
         \/ SchemasAnswered(c, end) \/ DefinitionAnswered(c, end)
  PROVE  Progress(c)'
<1>1. call[c].pc = "going" /\ at' = at /\ engine' = engine
  BY Zenon DEF DetailAnswered, DatabasesAnswered, SchemasAnswered, DefinitionAnswered, AtQuery
<1>2. PICK r, n, plan : AtPlace(c, r, n, plan)
  BY <1>1, Placed DEF UnderWayOrOk
<1>3. PICK query : query = plan[n + 1]
  OBVIOUS
<1>4. r = call[c] /\ r.pc = "going" /\ query.kind = Kind(c) /\ r.since \in 1..at /\ at \in Nat
  <2>1. r = call[c] /\ query.kind = Kind(c)
    BY <1>1, <1>2, <1>3, AskedNow
  <2> QED BY <1>1, <1>2, <2>1 DEF AtPlace, AnswerInv, CachesInv
<1>5. at \in During(r)' /\ Source(end) \in UnlessRefused(During(r))'
  BY <1>1, <1>4 DEF During, UnlessRefused, Source
<1>6. \/ Set(c, Done(c, "internal")) \/ Set(c, Done(c, "query"))
      \/ \E found : Set(c, Proceeding(c, found)) /\ Answers(r, query, found)'
  <2>1. CASE DetailAnswered(c, end)
    <3>1. Kind(c) \in {"detail", "indexes", "keys"}
      BY <2>1 DEF DetailAnswered, AtQuery
    <3>2. \/ Set(c, Done(c, "internal")) \/ Set(c, Done(c, "query"))
          \/ /\ Set(c, Proceeding(c, Source(end)))
             /\ Kind(c) = "detail" => end # "panic" /\ end # "refuse"
      BY <2>1, Zenon DEF DetailAnswered
    <3>3. PICK v : v = Source(end)
      OBVIOUS
    <3>4. /\ v \in UnlessRefused(During(r))'
          /\ end # "panic" /\ end # "refuse" => v \in During(r)'
      BY <1>5, <3>3 DEF Source, Ends
    <3>5. (Kind(c) = "detail" => end # "panic" /\ end # "refuse") => Answers(r, query, v)'
      BY <1>4, <3>1, <3>4 DEF Answers
    <3> QED BY <3>2, <3>3, <3>5
  <2>2. CASE DatabasesAnswered(c, end)
    <3>1. Kind(c) \in {"databases", "current"}
      BY <2>2 DEF DatabasesAnswered, AtQuery
    <3>2. \/ Set(c, Done(c, "internal")) \/ Set(c, Done(c, "query"))
          \/ /\ Set(c, Proceeding(c, Source(end)))
             /\ Kind(c) = "databases" => end = "answer"
      BY <2>2 DEF DatabasesAnswered, Ends
    <3>3. PICK v : v = Source(end)
      OBVIOUS
    <3>4. v \in UnlessRefused(During(r))' /\ (end = "answer" => v \in During(r)')
      BY <1>5, <3>3 DEF Source
    <3>5. (Kind(c) = "databases" => end = "answer") => Answers(r, query, v)'
      BY <1>4, <3>1, <3>4 DEF Answers
    <3> QED BY <3>2, <3>3, <3>5
  <2>3. CASE SchemasAnswered(c, end)
    <3>1. Kind(c) = "schemas"
      BY <2>3 DEF SchemasAnswered, AtQuery
    <3>2. PICK v : v = at
      OBVIOUS
    <3>3. Answers(r, query, v)'
      BY <1>4, <1>5, <3>1, <3>2 DEF Answers
    <3> QED BY <2>3, <3>2, <3>3 DEF SchemasAnswered, Ends
  <2>4. CASE DefinitionAnswered(c, end)
    <3>1. Kind(c) = "definition"
      BY <2>4, Zenon DEF DefinitionAnswered, AtQuery
    <3>2. PICK now : now = at
      OBVIOUS
    <3>3. \/ Set(c, Done(c, "internal")) \/ Set(c, Done(c, "query"))
          \/ \E text \in SourcesAt(now, r.req) : Set(c, Proceeding(c, text))
      BY <1>4, <2>4, <3>2, Zenon DEF DefinitionAnswered, SourcesAt, db
    <3>4. SourcesAt(now, r.req)' = SourcesAt(now, r.req)
      BY <1>1, Zenon DEF SourcesAt, Seen, RoutineDefinitions, RoutinesRead, Reads
    <3>5. ASSUME NEW text \in SourcesAt(now, r.req) PROVE Answers(r, query, text)'
      BY <1>4, <1>5, <3>1, <3>2, <3>4 DEF Answers
    <3> QED BY <3>3, <3>5
  <2> QED BY <2>1, <2>2, <2>3, <2>4
<1> QED BY <1>2, <1>3, <1>4, <1>6, ProceedingGoesOn, Failing

-----------------------------------------------------------------------------
(* What the caches are given. *)

CachedColumns ==
  /\ columns = [key \in DOMAIN columns |-> columns[key]]
  /\ \A key \in DOMAIN columns : Keeps(key, columns[key])
CachedTables ==
  IF fetched THEN tables.from # Refused => tables.asked = schema /\ SchemaSettled
  ELSE tables = NoListing

LEMMA KeepCaches ==
  ASSUME IInv, AnswerInv, Grows, NEW c \in Calls, KeepColumns(c) PROVE CachedColumns'
<1>1. call[c].pc = "keep"
  BY DEF KeepColumns
<1>2. PICK r, n, plan : AtPlace(c, r, n, plan)
  BY <1>1, Placed DEF UnderWayOrOk
<1>3. r = call[c] /\ r.pc = "keep" /\ IsSeq(r.read) /\ Len(r.read) = n + 1
  BY <1>1, <1>2, AskedNow
<1>4. PICK found : found = Last(r.read)
  OBVIOUS
<1>5. found = r.read[n + 1]
  BY <1>3, <1>4 DEF Last
<1>6. AsksForColumns(plan[n + 1]) /\ Answers(r, plan[n + 1], found)
  BY <1>2, <1>3, <1>5 DEF AtPlace, Stands
<1>7. PICK key : key = Key(c)
  OBVIOUS
<1>8. key = KeyOf(TableOf(plan[n + 1].ref))
  <2>1. Head(call[c].todo) = plan[n + 1]
    BY <1>1, <1>2, AskedNow
  <2> QED BY <1>7, <2>1 DEF Key, Asked
<1>9. Keeps(key, found)
  BY <1>6, <1>8 DEF Answers, AsksForColumns
<1>10. columns' = [k \in {key} \cup DOMAIN columns |-> IF k = key THEN found ELSE columns[k]]
  BY <1>3, <1>4, <1>7 DEF KeepColumns
<1>11. DOMAIN columns' = {key} \cup DOMAIN columns
  BY <1>10
<1>12. columns' = [k \in DOMAIN columns' |-> columns'[k]]
  BY <1>10, <1>11
<1>13. ASSUME NEW k \in DOMAIN columns' PROVE Keeps(k, columns'[k])
  <2>1. CASE k = key
    BY <1>9, <1>10, <2>1
  <2>2. CASE k # key
    <3>1. k \in DOMAIN columns /\ columns'[k] = columns[k]
      BY <1>10, <1>11, <2>2
    <3> QED BY <3>1 DEF AnswerInv, CachesInv
  <2> QED BY <2>1, <2>2
<1>14. ASSUME NEW k \in DOMAIN columns' PROVE Keeps(k, columns[k])'
  <2>1. PICK kept : kept = columns'[k]
    OBVIOUS
  <2>2. Keeps(k, kept)'
    BY <1>13, <2>1, KeptStays
  <2> QED BY <2>1, <2>2 DEF Keeps
<1> QED BY <1>12, <1>14 DEF CachedColumns

LEMMA RoutinesCached ==
  ASSUME IInv, AnswerInv, Grows, NEW c \in Calls, NEW end \in Ends, RoutinesAnswered(c, end)
  PROVE  CachedTables'
<1>1. call[c].pc = "routines"
  BY DEF RoutinesAnswered
<1>2. PICK r, n, plan : AtPlace(c, r, n, plan)
  BY <1>1, Placed DEF UnderWayOrOk
<1>3. r = call[c]
  BY <1>2 DEF AtPlace
<1>4. CASE end # "panic" /\ Kind(c) = "tables"
  <2>1. /\ SchemaSettled
        /\ \E from \in During(r) :
             Last(r.read) = FoundTables([asked |-> schema, from |-> from, routines |-> Refused])
    BY <1>1, <1>2, <1>4, HalfListing
  <2>2. PICK from \in During(r) :
          Last(r.read) = FoundTables([asked |-> schema, from |-> from, routines |-> Refused])
    BY <2>1
  <2>3. fetched' = TRUE /\ tables' = [Last(r.read).listing EXCEPT !.routines = Source(end)]
    BY <1>3, <1>4 DEF RoutinesAnswered
  <2>4. tables' = [asked |-> schema, from |-> from, routines |-> Source(end)]
    BY <2>2, <2>3 DEF FoundTables
  <2>5. tables'.asked = schema
    BY <2>4
  <2>6. schema' = schema /\ SchemaSettled'
    BY <2>1 DEF Grows
  <2> QED BY <2>3, <2>5, <2>6 DEF CachedTables
<1>5. CASE ~(end # "panic" /\ Kind(c) = "tables")
  <2>1. UNCHANGED <<fetched, tables>>
    BY <1>5 DEF RoutinesAnswered
  <2> QED BY <2>1 DEF AnswerInv, CachesInv, CachedTables, Grows
<1> QED BY <1>4, <1>5

LEMMA CachesKeep ==
  ASSUME IInv, AnswerInv, Grows, [Next]_vars PROVE CachesInv'
<1>1. engine' \in DOMAIN Catalogs /\ at' \in Nat \ {0}
  BY DEF Grows, AnswerInv, CachesInv
<1>2. CachedTables'
  <2>1. ASSUME UNCHANGED tables, fetched' # fetched => tables.from = Refused
        PROVE  CachedTables'
    BY <2>1 DEF AnswerInv, CachesInv, CachedTables, Grows
  <2>2. ~fetched => tables.from = Refused
    BY DEF AnswerInv, CachesInv, NoListing
  <2>3. CASE Alter \/ UNCHANGED vars
    BY <2>1, <2>3 DEF Alter, vars, caches
  <2>4. ASSUME NEW c \in Calls, Arrive(c) \/ Served(c),
               \A end \in Ends : ~TablesAnswered(c, end) /\ ~RoutinesAnswered(c, end)
        PROVE  UNCHANGED <<fetched, tables>>
    BY <2>4, Zenon DEF Arrive, Served, LookUpColumns, KeepColumns, LockTables, OfferKeywords,
         EnterOnce, SchemaAnswered, ColumnsAnswered, DetailAnswered,
         DatabasesAnswered, SchemasAnswered, DefinitionAnswered, caches
  <2>5. ASSUME NEW c \in Calls, NEW end \in Ends, TablesAnswered(c, end) PROVE CachedTables'
    <3>1. UNCHANGED <<fetched, tables>> \/ (fetched' = TRUE /\ UNCHANGED tables)
      BY <2>5, Zenon DEF TablesAnswered, Fetch
    <3>2. fetched => fetched'
      BY DEF Grows
    <3> QED BY <2>1, <2>2, <3>1, <3>2
  <2>6. ASSUME NEW c \in Calls, NEW end \in Ends, RoutinesAnswered(c, end) PROVE CachedTables'
    BY <2>6, RoutinesCached
  <2> QED BY <2>1, <2>3, <2>4, <2>5, <2>6 DEF Next
<1>3. CachedColumns'
  <2>1. ASSUME UNCHANGED columns PROVE CachedColumns'
    <3>1. ASSUME NEW key \in DOMAIN columns PROVE Keeps(key, columns[key])'
      <4>1. PICK kept : kept = columns[key]
        OBVIOUS
      <4>2. Keeps(key, kept)'
        BY <4>1, KeptStays DEF AnswerInv, CachesInv
      <4> QED BY <2>1, <4>1, <4>2 DEF Keeps
    <3> QED BY <2>1, <3>1 DEF AnswerInv, CachesInv, CachedColumns
  <2>2. CASE Alter \/ UNCHANGED vars
    BY <2>1, <2>2 DEF Alter, vars, caches
  <2>3. ASSUME NEW c \in Calls, Arrive(c) \/ Served(c), ~KeepColumns(c) PROVE UNCHANGED columns
    BY <2>3, Zenon DEF Arrive, Served, LookUpColumns, LockTables, OfferKeywords, EnterOnce,
         SchemaAnswered, ColumnsAnswered, TablesAnswered, RoutinesAnswered, DetailAnswered,
         DatabasesAnswered, SchemasAnswered, DefinitionAnswered, caches
  <2>4. ASSUME NEW c \in Calls, KeepColumns(c) PROVE CachedColumns'
    BY <2>4, KeepCaches
  <2> QED BY <2>1, <2>2, <2>3, <2>4 DEF Next
<1> QED BY <1>1, <1>2, <1>3 DEF CachesInv, CachedTables, CachedColumns

LEMMA ServedStands ==
  ASSUME IInv, AnswerInv, Grows, NEW c \in Calls, Served(c) PROVE Progress(c)'
<1>1. CASE EnterOnce(c)
  BY <1>1, Staying DEF EnterOnce
<1>2. ASSUME NEW end \in Ends, SchemaAnswered(c, end) PROVE Progress(c)'
  <2>1. CASE end = "panic"
    BY <1>2, <2>1, Failing DEF SchemaAnswered
  <2>2. CASE end # "panic"
    BY <1>2, <2>2, Staying DEF SchemaAnswered
  <2> QED BY <2>1, <2>2
<1> QED BY <1>1, <1>2, LookUpStands, ColumnsStand, KeepStands, KeywordsStand, LockStands,
           TablesStand, RoutinesStand, OthersStand DEF Served

\* A step of one call leaves the others where they are.
LEMMA ServedLeaves ==
  ASSUME IInv, NEW c \in Calls, Arrive(c) \/ Served(c), NEW d \in Calls, d # c
  PROVE  call'[d] = call[d]
<1>1. UNCHANGED call \/ \E s : call' = [call EXCEPT ![c] = s]
  <2>1. CASE Arrive(c)
    BY <2>1 DEF Arrive
  <2>2. ASSUME LookUpColumns(c) \/ KeepColumns(c) \/ OfferKeywords(c) \/ LockTables(c) \/ EnterOnce(c)
        PROVE  UNCHANGED call \/ \E s : call' = [call EXCEPT ![c] = s]
    BY <2>2 DEF LookUpColumns, KeepColumns, OfferKeywords, LockTables, EnterOnce, Set
  <2>3. ASSUME NEW end \in Ends,
               \/ SchemaAnswered(c, end) \/ ColumnsAnswered(c, end)
               \/ TablesAnswered(c, end) \/ RoutinesAnswered(c, end)
        PROVE  UNCHANGED call \/ \E s : call' = [call EXCEPT ![c] = s]
    BY <2>3, Zenon DEF SchemaAnswered, ColumnsAnswered, TablesAnswered, RoutinesAnswered, Fetch, Set
  <2>4. ASSUME NEW end \in Ends,
               \/ DetailAnswered(c, end) \/ DatabasesAnswered(c, end)
               \/ SchemasAnswered(c, end) \/ DefinitionAnswered(c, end)
        PROVE  UNCHANGED call \/ \E s : call' = [call EXCEPT ![c] = s]
    BY <2>4, Zenon DEF DetailAnswered, DatabasesAnswered, SchemasAnswered, DefinitionAnswered, Set
  <2> QED BY <2>1, <2>2, <2>3, <2>4 DEF Served
<1> QED BY <1>1 DEF IInv, CallsAreRecords

LEMMA AnswerStep ==
  ASSUME IInv, AnswerInv, [Next]_vars PROVE AnswerInv'
<1>1. Grows
  BY Growing DEF AnswerInv
<1>2. CachesInv'
  BY <1>1, CachesKeep
<1>3. ASSUME NEW d \in Calls PROVE Progress(d)'
  <2>1. CASE Alter \/ UNCHANGED vars
    <3>1. UNCHANGED call
      BY <2>1 DEF Alter, vars
    <3> QED BY <1>1, <3>1, Staying
  <2>2. ASSUME NEW c \in Calls, Arrive(c) \/ Served(c) PROVE Progress(d)'
    <3>1. CASE d # c
      BY <1>1, <2>2, <3>1, ServedLeaves, Staying
    <3>2. CASE d = c
      BY <1>1, <2>2, <3>2, ArriveStands, ServedStands
    <3> QED BY <3>1, <3>2
  <2> QED BY <2>1, <2>2 DEF Next
<1> QED BY <1>2, <1>3 DEF AnswerInv

LEMMA AnswerInit == Init => AnswerInv
<1> SUFFICES ASSUME Init PROVE AnswerInv
  OBVIOUS
<1>1. \A c \in Calls : call[c].pc = "idle" /\ call[c].read = <<>>
  BY DEF Init, Idle
<1>2. CachesInv
  BY DEF Init, CachesInv
<1> QED BY <1>1, <1>2 DEF AnswerInv, Progress

\* How far every call is and what the caches hold, in every state (complete.go:
\* columnsFor, tableList).
THEOREM AnswersInv == Spec => []AnswerInv
<1>1. IInv /\ AnswerInv /\ [Next]_vars => AnswerInv'
  BY AnswerStep
<1> QED BY <1>1, Inv, AnswerInit, PTL DEF Spec

\* Whatever calls share the caches, every call that ends well was answered
\* what it asked, query by query, by what was meant and was so at the time
\* (complete.go: columnsFor, tableList; introspect.go, routines.go).
THEOREM AnsweredAsAskedHolds == Spec => []AnsweredAsAsked
<1>1. AnswerInv => AnsweredAsAsked
  <2> SUFFICES ASSUME AnswerInv PROVE AnsweredAsAsked
    OBVIOUS
  <2>1. ASSUME NEW c \in Calls, call[c].pc = "ok", NEW plan \in {Queries(call[c].req)}
        PROVE  /\ Len(call[c].read) = Len(plan)
               /\ \A k \in DOMAIN plan : Answers(call[c], plan[k], call[c].read[k])
    <3>1. plan = Queries(call[c].req)
      OBVIOUS
    <3>2. PICK n \in 0..Len(plan) : Stands(call[c], n)
      BY <2>1, <3>1 DEF AnswerInv, Progress
    <3>3. IsSeq(plan)
      BY <2>1, <3>1, PlanIsSeq DEF AnswerInv, Progress, CachesInv
    <3>4. n = Len(plan) /\ Len(call[c].read) = n
      BY <2>1, <3>1, <3>2 DEF Stands
    <3>5. \A k \in 1..n : Answers(call[c], plan[k], call[c].read[k])
      BY <3>1, <3>2 DEF Stands
    <3>6. DOMAIN plan = 1..n
      BY <3>3, <3>4 DEF IsSeq
    <3> QED BY <3>1, <3>4, <3>5, <3>6
  <2>2. fetched /\ tables.from # Refused => tables.asked = schema /\ SchemaSettled
    BY DEF AnswerInv, CachesInv
  <2> QED BY <2>1, <2>2 DEF AnsweredAsAsked
<1> QED BY <1>1, AnswersInv, PTL
=============================================================================
