---------------------------- MODULE CoreSessions ----------------------------
(***************************************************************************)
(* The Go core's session manager (core/dbcore/session.go), the execution   *)
(* of a batch (query.go) and the dispatcher (protocol.go), called by many  *)
(* goroutines at once.                                                     *)
(*                                                                         *)
(* A call is one invocation of Manager.Handle: it arrives once, takes its  *)
(* steps and returns.  Calls are numbered in the order in which they       *)
(* arrive.  The code between two points at which another goroutine can     *)
(* interfere (a lock taken or released, an atomic, a round trip) is one    *)
(* action.  A session is named twice: by the call that opened it (its      *)
(* handle, the *Session pointer) and by the id nextID gave it (its key in  *)
(* Manager.sessions).  A context.CancelFunc is named by its call.          *)
(***************************************************************************)
EXTENDS Integers, Sequences, FiniteSets

CONSTANTS
  NumCalls,   \* bound: how many calls arrive in a behaviour
  OpIds,      \* the non-empty operation ids
  NoOp,       \* the empty operation id
  Asked,      \* what the clients ask: the requests the n-th call can be
  MaxConns    \* db.SetMaxOpenConns: 4 in the code

None  == 0                    \* a nil pointer, an absent map entry
Calls == 1..NumCalls
Ids   == 1..NumCalls          \* at most one session id per call

ProbeKinds == {"testConnection", "databasesFor"}
OpenKinds  == {"openConnection"} \cup ProbeKinds
CloseKinds == {"closeConnection", "closeAll"}

\* An SQL text, split into statements, and whether it comes with arguments.
Texts == [stmts : Seq({"read", "write"}), args : BOOLEAN]

\* "catalog" stands for databases, schemas, tables, table, complete and
\* routineDefinition.
OpenRequests     == [kind : OpenKinds, readOnly : BOOLEAN]
IdRequests       == [kind : {"closeConnection", "catalog"}, id : Ids \cup {None}]
CloseAllRequests == [kind : {"closeAll"}]
CancelRequests   == [kind : {"cancel"}, id : Ids \cup {None}, op : OpIds]
ExecuteRequests  == [kind : {"execute"}, id : Ids \cup {None},
                     op : OpIds \cup {NoOp}, text : Texts,
                     stopOnError : BOOLEAN]

Requests == OpenRequests \cup IdRequests \cup CloseAllRequests
            \cup CancelRequests \cup ExecuteRequests

ASSUME CallsAssumption == NumCalls \in Nat \ {0}
ASSUME OpIdsAssumption == NoOp \notin OpIds
ASSUME AskedAssumption == DOMAIN Asked = Calls /\ \A c \in Calls : Asked[c] \subseteq Requests
ASSUME ConnsAssumption == MaxConns \in Nat \ {0}

NoRequest == [kind |-> "none"]

VARIABLES
  pc,         \* where each call is
  req,        \* its request
  outcome,    \* what it answered
  seq,        \* Manager.seq
  sid,        \* Session.ID of the session each call opened, or None
  db,         \* the *sql.DB each call opened: "none", "open", "closed"
  sessions,   \* Manager.sessions: id -> handle, or None
  running,    \* Session.running of each handle: op id -> call, or None
  ctx,        \* the execution context of each call
  sess,       \* the session each call holds a pointer to
  target,     \* the CancelFunc a cancel found
  todo,       \* the sessions a closeAll took out of the map, not yet closed
  results     \* the results of an execute so far

vars == <<pc, req, outcome, seq, sid, db, sessions, running, ctx, sess,
          target, todo, results>>

PCs == {"idle", "open", "ping", "register", "probe", "get", "lookup", "fire",
        "check", "track", "loop", "server", "untrack", "release", "remove",
        "cancelAll", "closeDb", "done"}

\* The contexts of context.WithTimeout: "released" is the deferred cancel().
CtxStates == {"none", "live", "cancelled", "expired", "released"}

Labels == {"ok", "error", "cancelled", "timed out"}

Outcomes == {"none", "ok", "invalid", "connect", "no_session", "read_only",
             "query", "internal", "hit", "miss"}

TypeOK ==
  /\ pc \in [Calls -> PCs]
  /\ req \in [Calls -> Requests \cup {NoRequest}]
  /\ outcome \in [Calls -> Outcomes]
  /\ seq \in 0..NumCalls
  /\ sid \in [Calls -> Ids \cup {None}]
  /\ db \in [Calls -> {"none", "open", "closed"}]
  /\ sessions \in [Ids -> Calls \cup {None}]
  /\ running \in [Calls -> [OpIds -> Calls \cup {None}]]
  /\ ctx \in [Calls -> CtxStates]
  /\ sess \in [Calls -> Calls \cup {None}]
  /\ target \in [Calls -> Calls \cup {None}]
  /\ todo \in [Calls -> SUBSET Calls]
  /\ results \in [Calls -> Seq(Labels)]

Init ==
  /\ pc = [c \in Calls |-> "idle"]
  /\ req = [c \in Calls |-> NoRequest]
  /\ outcome = [c \in Calls |-> "none"]
  /\ seq = 0
  /\ sid = [c \in Calls |-> None]
  /\ db = [c \in Calls |-> "none"]
  /\ sessions = [i \in Ids |-> None]
  /\ running = [h \in Calls |-> [o \in OpIds |-> None]]
  /\ ctx = [c \in Calls |-> "none"]
  /\ sess = [c \in Calls |-> None]
  /\ target = [c \in Calls |-> None]
  /\ todo = [c \in Calls |-> {}]
  /\ results = [c \in Calls |-> <<>>]

-----------------------------------------------------------------------------
Goto(c, label) == pc' = [pc EXCEPT ![c] = label]

Return(c, code) ==
  /\ pc' = [pc EXCEPT ![c] = "done"]
  /\ outcome' = [outcome EXCEPT ![c] = code]

\* The ids a client can have learnt: from an open's answer, or, for a probe
\* too, from listConnections while the session is registered.
KnownIds ==
  {sid[c] : c \in {d \in Calls : sid[d] # None /\ pc[d] # "register"}} \cap Ids

FirstStep(kind) ==
  CASE kind \in OpenKinds         -> "open"
    [] kind = "closeConnection"   -> "remove"
    [] kind = "closeAll"          -> "remove"
    [] OTHER                      -> "get"

\* Handle decodes the request and dispatch switches on its operation.
Arrive(c) ==
  /\ pc[c] = "idle"
  /\ \A d \in 1..(c - 1) : pc[d] # "idle"
  /\ \E r \in Asked[c] :
       /\ "id" \in DOMAIN r => r.id \in KnownIds \cup {None}
       /\ req' = [req EXCEPT ![c] = r]
       /\ Goto(c, FirstStep(r.kind))
  /\ UNCHANGED <<outcome, seq, sid, db, sessions, running, ctx, sess, target,
                 todo, results>>

-----------------------------------------------------------------------------
(* Manager.Open, and the probes built on it. *)

\* No DSN can be built from the configuration: nothing was opened.
RejectConfig(c) ==
  /\ pc[c] = "open"
  /\ Return(c, "invalid")
  /\ UNCHANGED <<req, seq, sid, db, sessions, running, ctx, sess, target, todo,
                 results>>

\* A SQLite connection is a file: databasesFor has nothing to list.
NothingToList(c) ==
  /\ pc[c] = "open" /\ req[c].kind = "databasesFor"
  /\ Return(c, "ok")
  /\ UNCHANGED <<req, seq, sid, db, sessions, running, ctx, sess, target, todo,
                 results>>

\* sql.Open allocates the pool; nothing is dialled yet.
OpenHandle(c) ==
  /\ pc[c] = "open"
  /\ db' = [db EXCEPT ![c] = "open"]
  /\ Goto(c, "ping")
  /\ UNCHANGED <<req, outcome, seq, sid, sessions, running, ctx, sess, target,
                 todo, results>>

\* Mistake: the pool is not closed when the ping fails.
PingFailsLeavingPool(c) ==
  /\ pc[c] = "ping"
  /\ Return(c, "connect")
  /\ UNCHANGED <<req, seq, sid, db, sessions, running, ctx, sess, target, todo,
                 results>>

\* The ping was refused or ran into its timeout.
PingFails(c) ==
  /\ pc[c] = "ping"
  /\ db' = [db EXCEPT ![c] = "closed"]
  /\ Return(c, "connect")
  /\ UNCHANGED <<req, seq, sid, sessions, running, ctx, sess, target, todo,
                 results>>

\* Mistake: the id is the number of sessions, plus one.
PingSucceedsCounting(c) ==
  /\ pc[c] = "ping"
  /\ seq' = Cardinality({i \in Ids : sessions[i] # None}) + 1
  /\ sid' = [sid EXCEPT ![c] = seq']
  /\ Goto(c, "register")
  /\ UNCHANGED <<req, outcome, db, sessions, running, ctx, sess, target, todo,
                 results>>

\* The server answered: the Session is built, with the next id.
PingSucceeds(c) ==
  /\ pc[c] = "ping"
  /\ seq' = seq + 1
  /\ sid' = [sid EXCEPT ![c] = seq + 1]
  /\ Goto(c, "register")
  /\ UNCHANGED <<req, outcome, db, sessions, running, ctx, sess, target, todo,
                 results>>

\* The driver panicked in the ping: dispatch recovers, and db.Close is skipped.
PingPanics(c) ==
  /\ pc[c] = "ping"
  /\ Return(c, "internal")
  /\ UNCHANGED <<req, seq, sid, db, sessions, running, ctx, sess, target, todo,
                 results>>

\* Under Manager.mu.  An openConnection answers; a probe goes on to ask.
Register(c) ==
  /\ pc[c] = "register"
  /\ sessions' = [sessions EXCEPT ![sid[c]] = c]
  /\ IF req[c].kind \in ProbeKinds
       THEN Goto(c, "probe") /\ UNCHANGED outcome
       ELSE Return(c, "ok")
  /\ UNCHANGED <<req, seq, sid, db, running, ctx, sess, target, todo, results>>

\* Mistake: an error of the probe's query returns before the probe is closed.
ProbeAnswersEarly(c) ==
  /\ pc[c] = "probe"
  /\ \/ Goto(c, "remove") /\ UNCHANGED outcome
     \/ Return(c, "query")
  /\ UNCHANGED <<req, seq, sid, db, sessions, running, ctx, sess, target, todo,
                 results>>

\* serverVersion or Databases returned, with an answer or with an error, and
\* the probe goes on to Manager.Close.
ProbeAnswers(c) ==
  /\ pc[c] = "probe"
  /\ Goto(c, "remove")
  /\ UNCHANGED <<req, outcome, seq, sid, db, sessions, running, ctx, sess,
                 target, todo, results>>

\* The driver panicked in it: dispatch recovers, and Manager.Close is skipped.
ProbePanics(c) ==
  /\ pc[c] = "probe"
  /\ Return(c, "internal")
  /\ UNCHANGED <<req, seq, sid, db, sessions, running, ctx, sess, target, todo,
                 results>>

-----------------------------------------------------------------------------
(* Manager.Close and Manager.CloseAll. *)

CloseId(c) == IF req[c].kind \in ProbeKinds THEN sid[c] ELSE req[c].id

\* Close, under Manager.mu: look the session up and delete its entry.
RemoveSession(c) ==
  /\ pc[c] = "remove" /\ req[c].kind # "closeAll"
  /\ LET h == IF CloseId(c) \in Ids THEN sessions[CloseId(c)] ELSE None IN
       IF h = None
         THEN Return(c, "ok") /\ UNCHANGED <<sessions, sess>>
         ELSE /\ sessions' = [sessions EXCEPT ![CloseId(c)] = None]
              /\ sess' = [sess EXCEPT ![c] = h]
              /\ Goto(c, "cancelAll")
              /\ UNCHANGED outcome
  /\ UNCHANGED <<req, seq, sid, db, running, ctx, target, todo, results>>

\* CloseAll, under Manager.mu: copy the sessions and replace the map.
SwapSessions(c) ==
  /\ pc[c] = "remove" /\ req[c].kind = "closeAll"
  /\ todo' = [todo EXCEPT ![c] = {sessions[i] : i \in Ids} \ {None}]
  /\ sessions' = [i \in Ids |-> None]
  /\ Goto(c, "cancelAll")
  /\ UNCHANGED <<req, outcome, seq, sid, db, running, ctx, sess, target,
                 results>>

\* The calls whose CancelFunc is in the running map of h.
Tracked(h) == {running[h][o] : o \in OpIds} \ {None}

\* cancelAll, under Session.mu: fire every CancelFunc and replace the map.
CancelAll(c, h) ==
  /\ ctx' = [d \in Calls |-> IF d \in Tracked(h) /\ ctx[d] = "live"
                               THEN "cancelled" ELSE ctx[d]]
  /\ running' = [running EXCEPT ![h] = [o \in OpIds |-> None]]
  /\ Goto(c, "closeDb")

CancelSession(c) ==
  /\ pc[c] = "cancelAll" /\ req[c].kind # "closeAll"
  /\ CancelAll(c, sess[c])
  /\ UNCHANGED <<req, outcome, seq, sid, db, sessions, sess, target, todo,
                 results>>

\* CloseAll takes the next session, in any order.
CancelNext(c) ==
  /\ pc[c] = "cancelAll" /\ req[c].kind = "closeAll"
  /\ \E h \in todo[c] :
       /\ CancelAll(c, h)
       /\ sess' = [sess EXCEPT ![c] = h]
       /\ todo' = [todo EXCEPT ![c] = @ \ {h}]
  /\ UNCHANGED <<req, outcome, seq, sid, db, sessions, target, results>>

AllClosed(c) ==
  /\ pc[c] = "cancelAll" /\ req[c].kind = "closeAll" /\ todo[c] = {}
  /\ Return(c, "ok")
  /\ UNCHANGED <<req, seq, sid, db, sessions, running, ctx, sess, target, todo,
                 results>>

\* db.Close: no statement can start on the pool from here on; one that is on
\* the server already is not interrupted.
CloseDb(c) ==
  /\ pc[c] = "closeDb"
  /\ db' = [db EXCEPT ![sess[c]] = "closed"]
  /\ IF req[c].kind = "closeAll"
       THEN Goto(c, "cancelAll") /\ UNCHANGED outcome
       ELSE Return(c, "ok")
  /\ UNCHANGED <<req, seq, sid, sessions, running, ctx, sess, target, todo,
                 results>>

-----------------------------------------------------------------------------
(* Manager.Get, and Session.Cancel. *)

\* Under Manager.mu, for reading.
Get(c) ==
  /\ pc[c] = "get"
  /\ LET h == IF req[c].id \in Ids THEN sessions[req[c].id] ELSE None IN
       IF h = None
         THEN Return(c, "no_session") /\ UNCHANGED sess
         ELSE /\ sess' = [sess EXCEPT ![c] = h]
              /\ Goto(c, CASE req[c].kind = "cancel"  -> "lookup"
                           [] req[c].kind = "execute" -> "check"
                           [] OTHER                   -> "loop")
              /\ UNCHANGED outcome
  /\ UNCHANGED <<req, seq, sid, db, sessions, running, ctx, target, todo,
                 results>>

\* Cancel, under Session.mu: look the CancelFunc up.
LookUp(c) ==
  /\ pc[c] = "lookup"
  /\ target' = [target EXCEPT ![c] = running[sess[c]][req[c].op]]
  /\ IF target'[c] = None
       THEN Return(c, "miss")
       ELSE Goto(c, "fire") /\ UNCHANGED outcome
  /\ UNCHANGED <<req, seq, sid, db, sessions, running, ctx, sess, todo, results>>

\* Mistake: everything that runs on the session is cancelled.
FireAtAll(c) ==
  /\ pc[c] = "fire"
  /\ ctx' = [d \in Calls |-> IF d \in Tracked(sess[c]) /\ ctx[d] = "live"
                               THEN "cancelled" ELSE ctx[d]]
  /\ Return(c, "hit")
  /\ UNCHANGED <<req, seq, sid, db, sessions, running, sess, target, todo,
                 results>>

\* Mistake: the entry is dropped and its CancelFunc never called.
FireNothing(c) ==
  /\ pc[c] = "fire"
  /\ running' = [running EXCEPT ![sess[c]][req[c].op] = None]
  /\ Return(c, "hit")
  /\ UNCHANGED <<req, seq, sid, db, sessions, ctx, sess, target, todo, results>>

\* Cancel, with Session.mu released: call it.  On a dead context it does nothing.
Fire(c) ==
  /\ pc[c] = "fire"
  /\ ctx' = [ctx EXCEPT ![target[c]] = IF @ = "live" THEN "cancelled" ELSE @]
  /\ Return(c, "hit")
  /\ UNCHANGED <<req, seq, sid, db, sessions, running, sess, target, todo,
                 results>>

-----------------------------------------------------------------------------
(* Session.Execute. *)

Stmts(c) == req[c].text.stmts

\* There is nothing to run, or one argument list for several statements.
Unrunnable(c) == \/ Stmts(c) = <<>>
                 \/ req[c].text.args /\ Len(Stmts(c)) > 1

\* Mistake: the guard looks at the first statement alone.
GuardedFirst(c) == req[sess[c]].readOnly /\ Stmts(c)[1] = "write"

\* guard, applied to every statement before any of them runs.
Guarded(c) == /\ req[sess[c]].readOnly
              /\ \E i \in 1..Len(Stmts(c)) : Stmts(c)[i] = "write"

\* Either refuse the batch, or make its context.
Check(c) ==
  /\ pc[c] = "check"
  /\ IF Unrunnable(c) \/ Guarded(c)
       THEN /\ Return(c, IF Unrunnable(c) THEN "query" ELSE "read_only")
            /\ UNCHANGED ctx
       ELSE /\ ctx' = [ctx EXCEPT ![c] = "live"]
            /\ Goto(c, IF req[c].op = NoOp THEN "loop" ELSE "track")
            /\ UNCHANGED outcome
  /\ UNCHANGED <<req, seq, sid, db, sessions, running, sess, target, todo,
                 results>>

\* track, under Session.mu: an entry with the same op id is overwritten.
Track(c) ==
  /\ pc[c] = "track"
  /\ running' = [running EXCEPT ![sess[c]][req[c].op] = c]
  /\ Goto(c, "loop")
  /\ UNCHANGED <<req, outcome, seq, sid, db, sessions, ctx, sess, target, todo,
                 results>>

\* The deadline of the context passes: a timer of the Go runtime.
Expire(c) ==
  /\ ctx[c] = "live"
  /\ ctx' = [ctx EXCEPT ![c] = "expired"]
  /\ UNCHANGED <<pc, req, outcome, seq, sid, db, sessions, running, sess,
                 target, todo, results>>

\* describeError: the state of the context decides what an error is called.
ErrorLabel(c) ==
  CASE ctx[c] = "cancelled" -> "cancelled"
    [] ctx[c] = "expired"   -> "timed out"
    [] OTHER                -> "error"

IsExecute(c) == req[c].kind = "execute"

\* A catalog operation runs under context.Background, which never dies.
ContextDead(c) == ctx[c] \in {"cancelled", "expired"}

\* The calls that hold a connection of the pool of h.
InUse(h) == {d \in Calls : \/ pc[d] = "server" /\ sess[d] = h
                           \/ pc[d] = "probe" /\ d = h}

\* QueryContext or ExecContext, once the pool has a connection to spare.
StartStatement(c) ==
  /\ pc[c] = "loop"
  /\ ~ContextDead(c) /\ db[sess[c]] = "open"
  /\ Cardinality(InUse(sess[c])) < MaxConns
  /\ Goto(c, "server")
  /\ UNCHANGED <<req, outcome, seq, sid, db, sessions, running, ctx, sess,
                 target, todo, results>>

\* The loop of Execute: runOne's result is appended, then comes the next
\* statement, or the deferred calls when none is left or the batch stops here.
EndStatement(c, label) ==
  /\ results' = [results EXCEPT ![c] = Append(@, label)]
  /\ LET last  == Len(results[c]) + 1 >= Len(Stmts(c))
         stops == label # "ok" /\ req[c].stopOnError
     IN  Goto(c, CASE ~last /\ ~stops    -> "loop"
                   [] req[c].op = NoOp   -> "release"
                   [] OTHER              -> "untrack")
  /\ UNCHANGED <<req, outcome, seq, sid, db, sessions, running, ctx, sess,
                 target, todo>>

\* Mistake: waiting for a connection does not watch the context.
StatementRefusedLate(c) ==
  /\ pc[c] = "loop" /\ IsExecute(c)
  /\ db[sess[c]] = "closed"
  /\ EndStatement(c, ErrorLabel(c))

\* The context is dead, or the pool is closed, before or while the statement
\* waits for a connection.
StatementRefused(c) ==
  /\ pc[c] = "loop" /\ IsExecute(c)
  /\ ContextDead(c) \/ db[sess[c]] = "closed"
  /\ EndStatement(c, ErrorLabel(c))

\* The server answers.  Its answer can overtake a cancellation.
StatementEnds(c) ==
  /\ pc[c] = "server" /\ IsExecute(c)
  /\ \/ EndStatement(c, "ok")
     \/ ~ContextDead(c) /\ EndStatement(c, "error")

\* The driver gives the statement up because its context is dead.
StatementAborts(c) ==
  /\ pc[c] = "server" /\ IsExecute(c) /\ ContextDead(c)
  /\ EndStatement(c, ErrorLabel(c))

\* The driver panics: the deferred calls run, then dispatch answers.
StatementPanics(c) ==
  /\ pc[c] = "server" /\ IsExecute(c)
  /\ outcome' = [outcome EXCEPT ![c] = "internal"]
  /\ Goto(c, IF req[c].op = NoOp THEN "release" ELSE "untrack")
  /\ UNCHANGED <<req, seq, sid, db, sessions, running, ctx, sess, target, todo,
                 results>>

\* Mistake: the whole running map is emptied.
UntrackAll(c) ==
  /\ pc[c] = "untrack"
  /\ running' = [running EXCEPT ![sess[c]] = [o \in OpIds |-> None]]
  /\ Goto(c, "release")
  /\ UNCHANGED <<req, outcome, seq, sid, db, sessions, ctx, sess, target, todo,
                 results>>

\* The deferred untrack, under Session.mu: it deletes the entry of the op id,
\* whichever call owns it by now.
Untrack(c) ==
  /\ pc[c] = "untrack"
  /\ running' = [running EXCEPT ![sess[c]][req[c].op] = None]
  /\ Goto(c, "release")
  /\ UNCHANGED <<req, outcome, seq, sid, db, sessions, ctx, sess, target, todo,
                 results>>

\* The deferred cancel(); then the call answers.
Release(c) ==
  /\ pc[c] = "release"
  /\ ctx' = [ctx EXCEPT ![c] = IF @ = "live" THEN "released" ELSE @]
  /\ Return(c, IF outcome[c] = "internal" THEN "internal" ELSE "ok")
  /\ UNCHANGED <<req, seq, sid, db, sessions, running, sess, target, todo,
                 results>>

-----------------------------------------------------------------------------
(* The catalog operations (databases, schemas, tables, table, complete,     *)
(* routineDefinition): their queries, taken as one, are neither tracked nor *)
(* under a deadline.                                                        *)

CatalogRefused(c) ==
  /\ pc[c] = "loop" /\ ~IsExecute(c)
  /\ db[sess[c]] = "closed"
  /\ Return(c, "query")
  /\ UNCHANGED <<req, seq, sid, db, sessions, running, ctx, sess, target, todo,
                 results>>

CatalogEnds(c) ==
  /\ pc[c] = "server" /\ ~IsExecute(c)
  /\ \E code \in {"ok", "query", "internal"} : Return(c, code)
  /\ UNCHANGED <<req, seq, sid, db, sessions, running, ctx, sess, target, todo,
                 results>>

-----------------------------------------------------------------------------
\* Every call has returned.
Idle == (\A c \in Calls : pc[c] = "done") /\ UNCHANGED vars

\* The steps the core takes by itself.
CoreStep(c) ==
  \/ RejectConfig(c) \/ NothingToList(c) \/ OpenHandle(c) \/ Register(c)
  \/ RemoveSession(c) \/ SwapSessions(c) \/ CancelSession(c) \/ CancelNext(c)
  \/ AllClosed(c) \/ CloseDb(c)
  \/ Get(c) \/ LookUp(c) \/ Fire(c)
  \/ Check(c) \/ Track(c) \/ StatementRefused(c) \/ StatementAborts(c)
  \/ Untrack(c) \/ Release(c)
  \/ CatalogRefused(c)

\* The steps that need a timer of the runtime, and those that need the server.
TimerStep(c)  == PingFails(c) \/ Expire(c)
ServerStep(c) == \/ PingSucceeds(c) \/ PingPanics(c) \/ ProbeAnswers(c)
                 \/ ProbePanics(c) \/ StartStatement(c) \/ StatementEnds(c) \/ StatementPanics(c)
                 \/ CatalogEnds(c)

Step(c) == Arrive(c) \/ CoreStep(c) \/ TimerStep(c) \/ ServerStep(c)

Next == (\E c \in Calls : Step(c)) \/ Idle

Spec == Init /\ [][Next]_vars

\* The Go scheduler runs every goroutine that can take a step.  Nothing says
\* that the server ever answers, or when a deadline passes.
FairSpec == Spec /\ \A c \in Calls : WF_vars(CoreStep(c))

-----------------------------------------------------------------------------
(* Properties. *)

Registered(h) == \E i \in Ids : sessions[i] = h

\* Call c took h out of the map and has not closed its pool yet.
Closing(c, h) == \/ pc[c] \in {"cancelAll", "closeDb"} /\ h \in todo[c]
                 \/ pc[c] = "closeDb" /\ sess[c] = h
                 \/ /\ pc[c] = "cancelAll" /\ req[c].kind # "closeAll"
                    /\ sess[c] = h

\* The driver panicked while h was dialled.
Leaked(h) == pc[h] = "done" /\ outcome[h] = "internal" /\ sid[h] = None

\* No pool is ever lost, but to a panic in the ping: one that is open is in the
\* map, where a close or a closeAll finds it, or the call that dials it or the
\* one that closes it still holds it (Open, Close and CloseAll hand it over with
\* no lock held across).
OpenPoolsOwned ==
  \A h \in Calls :
    db[h] = "open" => \/ pc[h] \in {"ping", "register"}
                      \/ Registered(h)
                      \/ Leaked(h)
                      \/ \E c \in Calls : Closing(c, h)

\* What the position of a call says of its request and of what it holds.
Position(c) ==
  /\ pc[c] = "idle" <=> req[c] = NoRequest
  /\ pc[c] \in {"open", "ping", "register"} => req[c].kind \in OpenKinds
  /\ pc[c] = "probe" => req[c].kind \in ProbeKinds
  /\ pc[c] = "get" => req[c].kind \in {"cancel", "execute", "catalog"}
  /\ pc[c] \in {"lookup", "fire"} => req[c].kind = "cancel"
  /\ pc[c] \in {"check", "track", "untrack", "release"} => req[c].kind = "execute"
  /\ pc[c] \in {"loop", "server"} => req[c].kind \in {"execute", "catalog"}
  /\ pc[c] \in {"remove", "cancelAll", "closeDb"} =>
       req[c].kind \in CloseKinds \cup ProbeKinds
  /\ pc[c] \in {"track", "untrack"} => req[c].op # NoOp
  /\ pc[c] \in {"lookup", "fire", "check", "track", "loop", "server", "untrack",
                "release", "closeDb"} => sess[c] # None
  /\ pc[c] = "cancelAll" /\ req[c].kind # "closeAll" => sess[c] # None
  /\ pc[c] = "fire" => target[c] # None
  /\ req[c].kind # "closeAll" => todo[c] = {}

Positions == \A c \in Calls : Position(c)

\* nextID gives every session an id of its own, and the map agrees with it.
IdsAgree ==
  /\ Cardinality({c \in Calls : sid[c] # None}) = seq
  /\ \A c \in Calls : sid[c] <= seq
  /\ \A c \in Calls : pc[c] \in {"idle", "open", "ping"} => sid[c] = None
  /\ \A c \in Calls : pc[c] = "register" => sid[c] # None
  /\ \A c, d \in Calls : sid[c] = sid[d] /\ sid[c] # None => c = d
  /\ \A i \in Ids : sessions[i] # None => sid[sessions[i]] = i

\* The inductive invariant behind the theorems of CoreSessionsProofs: it is
\* OpenPoolsOwned with what Open, Close and CloseAll rely on to keep it.
IInv == TypeOK /\ Positions /\ IdsAgree /\ OpenPoolsOwned

\* A session id that was closed never leads to a session again, and an id
\* never passes from one session to another: a tab of the app that still holds
\* an old id cannot reach a newer connection (nextID, Close, CloseAll).
ClosedIdsStayClosed ==
  [][\A i \in Ids : LET was == sessions[i] IN
       /\ was # None => sessions'[i] \in {was, None}
       /\ was = None /\ i \in KnownIds => sessions'[i] = None]_vars

\* An execution is told "cancelled" only if somebody asked for it: a cancel
\* that named its session and its operation, or a close of its session.  What
\* ran into its deadline, or what the server refused, is never called so
\* (Cancel, cancelAll, describeError).
CancelledOnlyOnRequest ==
  \A c \in Calls :
    ctx[c] = "cancelled" \/ (\E n \in DOMAIN results[c] : results[c][n] = "cancelled")
    => \/ db[sess[c]] = "closed"
       \/ \E d \in Calls : Closing(d, sess[c])
       \/ \E d \in Calls : /\ req[d].kind = "cancel" /\ outcome[d] = "hit"
                          /\ sess[d] = sess[c] /\ req[d].op = req[c].op

\* Manager.Get finds h under its id: a cancel that names it reaches it.
Found(h) == sid[h] # None /\ sessions[sid[h]] = h

\* Call d took h out of the map and has yet to cancel what runs on it.
Sweeping(d, h) == \/ pc[d] \in {"cancelAll", "closeDb"} /\ h \in todo[d]
                  \/ pc[d] = "cancelAll" /\ req[d].kind # "closeAll" /\ sess[d] = h

CanCancel(h) == Found(h) \/ \E d \in Calls : Sweeping(d, h)

\* A cancel that names the session and the operation of c would fire c, or the
\* close that came first is about to.
Cancellable(c) == CanCancel(sess[c]) /\ running[sess[c]][req[c].op] = c

\* c runs, with an operation id that no other execution of its session carries.
RunsAlone(c) ==
  /\ IsExecute(c) /\ pc[c] \in {"loop", "server"}
  /\ req[c].op # NoOp /\ ctx[c] = "live"
  /\ \A d \in Calls \ {c} : ~( /\ IsExecute(d) /\ sess[d] = sess[c]
                              /\ req[d].op = req[c].op)

\* An execution with an operation id of its own can be cancelled until it ends:
\* the session is found under its id and the CancelFunc under the operation's,
\* or a close is about to fire it; and no step of another call takes that away
\* (Get, track, untrack, Close, cancelAll; query.go: "OpID lets the app cancel
\* this execution while it is running").  Not so where Close has gone by when
\* the execution is tracked: see CloseCancelsEverything.
StaysCancellable ==
  [][\A c \in Calls :
       /\ RunsAlone(c)'
       /\ IF pc[c] = "track" THEN CanCancel(sess[c]) ELSE Cancellable(c)
       => Cancellable(c)']_vars

\* What runs alone is in the running map, even of a session that was closed.
RunsTracked == \A c \in Calls : RunsAlone(c) => running[sess[c]][req[c].op] = c

\* Nothing of a batch with a write in it reaches the server of a read-only
\* session, not even the reads in front of the write (Execute guards every
\* statement before it runs the first).
ReadOnlyBatchRefused ==
  \A c \in Calls :
    /\ IsExecute(c) /\ sess[c] # None
    /\ pc[c] = "server" \/ results[c] # <<>>
    /\ req[sess[c]].readOnly
    => \A i \in 1..Len(Stmts(c)) : Stmts(c)[i] = "read"

\* Why these hold.  A call holds a pointer only to sessions that got their id,
\* none before its look-up, and a cancel that answered true has returned.
Held ==
  \A c \in Calls : /\ sess[c] # None => sid[sess[c]] # None
                   /\ \A h \in todo[c] : sid[h] # None
                   /\ pc[c] \in {"idle", "get"} => sess[c] = None
                   /\ outcome[c] = "hit" => pc[c] = "done"

\* An execution has a context from where it passed the guard.
Passed(c) ==
  /\ ctx[c] # "none" => /\ IsExecute(c) /\ pc[c] \notin {"idle", "get", "check"}
                        /\ sess[c] # None /\ ~Guarded(c)
  /\ IsExecute(c) /\ pc[c] \in {"track", "loop", "server", "untrack", "release"} =>
       ctx[c] # "none"
  /\ results[c] # <<>> => ctx[c] # "none"
  /\ \A n \in DOMAIN results[c] : results[c][n] = "cancelled" => ctx[c] = "cancelled"

\* What is tracked under an operation id of a session carries it there.
Carries(c, h, o) == ctx[c] # "none" /\ sess[c] = h /\ req[c].op = o

Tracking ==
  /\ \A h \in Calls, o \in OpIds :
       running[h][o] # None => Carries(running[h][o], h, o)
  /\ \A d \in Calls : pc[d] = "fire" => Carries(target[d], sess[d], req[d].op)

\* The inductive invariant of the executions, beside IInv.
ExecInv ==
  /\ Held /\ (\A c \in Calls : Passed(c)) /\ Tracking
  /\ CancelledOnlyOnRequest /\ RunsTracked

\* A probe whose call has answered is not in the map, unless the driver
\* panicked under it (testConnection, databasesFor).
ProbesForgotten ==
  \A c \in Calls :
    pc[c] = "done" /\ req[c].kind \in ProbeKinds /\ outcome[c] # "internal"
    => ~Registered(c)

\* A cancel that answers true ends the execution, with no help from a timeout
\* and whether or not the server ever answers (Cancel, runOne).
CancelEndsExecution ==
  \A d, c \in Calls :
    (outcome[d] = "hit" /\ target[d] = c) ~> pc[c] = "done"

\* An execution whose deadline has passed ends, whether or not the server ever
\* answers, even while it waits for a connection of an exhausted pool: one
\* deadline covers the whole batch (Execute, runOne).
DeadlineEndsExecution ==
  \A c \in Calls : ctx[c] = "expired" ~> pc[c] = "done"

\* session.go:176, "Close cancels everything running on a session": once a
\* close has answered, no execution that carries an operation id is on the
\* server of that session with a live context.
CloseCancelsEverything ==
  \A d, c \in Calls :
    /\ req[d].kind = "closeConnection" /\ pc[d] = "done" /\ sess[d] # None
    /\ IsExecute(c) /\ sess[c] = sess[d] /\ req[c].op # NoOp
    => ~(pc[c] = "server" /\ ctx[c] = "live")
=============================================================================
