------------------------- MODULE CoreSessionsProofs -------------------------
(***************************************************************************)
(* Theorems about CoreSessions, for any number of calls, any requests, any *)
(* pool size, deadlines at any time and cancels that race what they name:  *)
(* no session is lost or comes back, and, of the executions, only what was *)
(* named is cancelled, what runs can be, and nothing of a batch with a     *)
(* write runs on a read-only session.                                      *)
(***************************************************************************)
EXTENDS CoreSessions, FiniteSetTheorems, TLAPS

USE CallsAssumption DEF None, Calls, Ids

\* Which fields a request has follows from its kind.
LEMMA RequestShapes ==
  ASSUME NEW r \in Requests
  PROVE  /\ r.kind \in OpenKinds \cup CloseKinds \cup {"catalog", "cancel", "execute"}
         /\ r # NoRequest
         /\ r.kind = "execute" => r \in ExecuteRequests
         /\ r.kind = "cancel" => r \in CancelRequests
  BY DEF Requests, OpenRequests, IdRequests, CloseAllRequests, CancelRequests,
         ExecuteRequests, NoRequest, OpenKinds, ProbeKinds, CloseKinds

\* There are finitely many calls, so the set of those that opened a session is
\* finite and no larger than NumCalls.
LEMMA NamedCallsFinite ==
  ASSUME NEW S \in SUBSET Calls
  PROVE  IsFiniteSet(S) /\ Cardinality(S) \in Nat /\ Cardinality(S) <= NumCalls
<1>1. IsFiniteSet(Calls) /\ Cardinality(Calls) = NumCalls
  BY FS_Interval
<1> QED BY <1>1, FS_Subset, FS_CardinalityType

\* The invariant holds at the start: nothing has arrived and nothing is open.
LEMMA InitInv == Init => IInv
<1> SUFFICES ASSUME Init PROVE IInv
  OBVIOUS
<1>1. TypeOK
  BY DEF Init, TypeOK, PCs, Outcomes, CtxStates, Labels, NoRequest
<1>2. Positions
  BY DEF Init, Positions, Position, NoRequest
<1>3. IdsAgree
  <2>1. {c \in Calls : sid[c] # None} = {}
    BY DEF Init
  <2>2. Cardinality({c \in Calls : sid[c] # None}) = seq
    BY <2>1, FS_EmptySet DEF Init
  <2> QED BY <2>2 DEF Init, IdsAgree
<1>4. OpenPoolsOwned
  BY DEF Init, OpenPoolsOwned
<1> QED BY <1>1, <1>2, <1>3, <1>4 DEF IInv

-----------------------------------------------------------------------------

\* An id is left for a session that is not named yet: every id given out so
\* far belongs to another call.
LEMMA IdLeft ==
  ASSUME TypeOK, IdsAgree, NEW c \in Calls, sid[c] = None
  PROVE  seq + 1 \in Ids
<1> DEFINE S == {d \in Calls : sid[d] # None}
<1>1. S \in SUBSET Calls /\ S \cup {c} \in SUBSET Calls /\ c \notin S
  OBVIOUS
<1>2. Cardinality(S \cup {c}) = Cardinality(S) + 1
  BY <1>1, NamedCallsFinite, FS_AddElement
<1>3. Cardinality(S) = seq
  BY DEF IdsAgree
<1>4. Cardinality(S \cup {c}) <= NumCalls
  BY <1>1, NamedCallsFinite
<1> HIDE DEF S
<1> QED BY <1>2, <1>3, <1>4 DEF TypeOK

\* A result is appended only to an execute, and an execute that deletes its
\* entry carries an operation id.
LEMMA EndStatementTypes ==
  ASSUME TypeOK, Positions, NEW c \in Calls, NEW label \in Labels,
         pc[c] \in {"loop", "server"}, IsExecute(c), EndStatement(c, label)
  PROVE  TypeOK' /\ Positions'
<1>1. PICK l \in {"loop", "release", "untrack"} :
        pc' = [pc EXCEPT ![c] = l] /\ (l = "untrack" => req[c].op # NoOp)
  <2>1. CASE req[c].op = NoOp
    BY <2>1 DEF EndStatement, Goto
  <2>2. CASE req[c].op # NoOp
    BY <2>2 DEF EndStatement, Goto
  <2> QED BY <2>1, <2>2
<1>2. results' = [results EXCEPT ![c] = Append(@, label)]
  BY DEF EndStatement
<1>3. results' \in [Calls -> Seq(Labels)]
  BY <1>2 DEF TypeOK
<1>4. UNCHANGED <<req, outcome, seq, sid, db, sessions, running, ctx, sess,
                  target, todo>>
  BY DEF EndStatement
<1>5. TypeOK'
  BY <1>1, <1>3, <1>4 DEF TypeOK, PCs
<1>6. Positions'
  BY <1>1, <1>4 DEF Positions, Position, TypeOK, IsExecute
<1> QED BY <1>5, <1>6

\* A step of one call keeps every call where its request belongs when it leaves
\* that call there.
LEMMA PositionsKept ==
  ASSUME TypeOK, Positions, NEW c \in Calls, Position(c)',
         \A d \in Calls \ {c} : /\ pc'[d] = pc[d] /\ req'[d] = req[d]
                                /\ sess'[d] = sess[d] /\ target'[d] = target[d]
                                /\ todo'[d] = todo[d]
  PROVE  Positions'
<1>1. \A d \in Calls \ {c} : Position(d)'
  BY DEF Positions, Position
<1> QED BY <1>1 DEF Positions

\* A call that returns ends where every request may end.
LEMMA Returned ==
  ASSUME TypeOK, Positions, NEW c \in Calls, NEW code \in Outcomes, Return(c, code),
         pc[c] # "idle", UNCHANGED <<req, sess, target, todo>>
  PROVE  pc' \in [Calls -> PCs] /\ outcome' \in [Calls -> Outcomes] /\ Positions'
<1>1. pc' \in [Calls -> PCs] /\ outcome' \in [Calls -> Outcomes]
  BY DEF Return, TypeOK, PCs
<1>2. pc'[c] = "done" /\ \A d \in Calls \ {c} : pc'[d] = pc[d]
  BY DEF Return, TypeOK
<1>3. Position(c)'
  BY <1>2 DEF Positions, Position
<1> QED BY <1>1, <1>2, <1>3, PositionsKept

\* No step of a call breaks a type, or leaves the call where its request does not
\* belong.
LEMMA StepTypes ==
  ASSUME TypeOK, Positions, IdsAgree, NEW c \in Calls, Step(c)
  PROVE  TypeOK' /\ Positions'
<1> USE DEF Goto
<1>1. CASE Arrive(c)
  <2>1. PICK r \in Asked[c] :
          req' = [req EXCEPT ![c] = r] /\ Goto(c, FirstStep(r.kind))
    BY <1>1 DEF Arrive
  <2>2. r \in Requests
    BY <2>1, AskedAssumption
  <2>3. pc[c] = "idle" /\ UNCHANGED <<outcome, seq, sid, db, sessions, running,
                                      ctx, sess, target, todo, results>>
    BY <1>1 DEF Arrive
  <2>4. \/ FirstStep(r.kind) = "open" /\ r.kind \in OpenKinds
        \/ FirstStep(r.kind) = "remove" /\ r.kind \in CloseKinds
        \/ FirstStep(r.kind) = "get" /\ r.kind \in {"cancel", "execute", "catalog"}
    BY <2>2, RequestShapes DEF FirstStep, OpenKinds, ProbeKinds, CloseKinds
  <2>5. r # NoRequest
    BY <2>2, RequestShapes
  <2>6. TypeOK'
    BY <2>1, <2>2, <2>3, <2>4 DEF TypeOK, PCs
  <2>7. Positions'
    <3> SUFFICES ASSUME NEW d \in Calls PROVE Position(d)'
      BY DEF Positions
    <3>1. CASE d = c
      <4>1. pc'[c] = FirstStep(r.kind) /\ req'[c] = r
        BY <2>1 DEF TypeOK
      <4>2. todo'[c] = {}
        BY <2>3 DEF Positions, Position, NoRequest
      <4> QED BY <2>4, <2>5, <3>1, <4>1, <4>2 DEF Position
    <3>2. CASE d # c
      BY <2>1, <2>3, <3>2 DEF TypeOK, Positions, Position
    <3> QED BY <3>1, <3>2
  <2> QED BY <2>6, <2>7
<1>2. CASE RejectConfig(c)
  <2>1. /\ pc[c] # "idle" /\ Return(c, "invalid")
        /\ UNCHANGED <<req, seq, sid, db, sessions, running, ctx, sess, target, todo, results>>
    BY <1>2 DEF RejectConfig
  <2>2. pc' \in [Calls -> PCs] /\ outcome' \in [Calls -> Outcomes] /\ Positions'
    BY <2>1, Returned DEF Outcomes
  <2> QED BY <2>1, <2>2 DEF TypeOK
<1>3. CASE NothingToList(c)
  <2>1. /\ pc[c] # "idle" /\ Return(c, "ok")
        /\ UNCHANGED <<req, seq, sid, db, sessions, running, ctx, sess, target, todo, results>>
    BY <1>3 DEF NothingToList
  <2>2. pc' \in [Calls -> PCs] /\ outcome' \in [Calls -> Outcomes] /\ Positions'
    BY <2>1, Returned DEF Outcomes
  <2> QED BY <2>1, <2>2 DEF TypeOK
<1>4. CASE OpenHandle(c)
  <2>1. TypeOK'
    BY <1>4 DEF OpenHandle, TypeOK, PCs
  <2>2. Positions'
    BY <1>4 DEF OpenHandle, TypeOK, Positions, Position, PCs
  <2> QED BY <2>1, <2>2
<1>5. CASE PingFails(c)
  <2>1. /\ pc[c] # "idle" /\ Return(c, "connect") /\ db' = [db EXCEPT ![c] = "closed"]
        /\ UNCHANGED <<req, seq, sid, sessions, running, ctx, sess, target, todo, results>>
    BY <1>5 DEF PingFails
  <2>2. pc' \in [Calls -> PCs] /\ outcome' \in [Calls -> Outcomes] /\ Positions'
    BY <2>1, Returned DEF Outcomes
  <2>3. db' \in [Calls -> {"none", "open", "closed"}]
    BY <2>1 DEF TypeOK
  <2> QED BY <2>1, <2>2, <2>3 DEF TypeOK
<1>6. CASE PingSucceeds(c)
  <2>1. seq + 1 \in Ids
    BY <1>6, IdLeft DEF PingSucceeds, IdsAgree
  <2>2. /\ pc[c] = "ping" /\ seq' = seq + 1 /\ sid' = [sid EXCEPT ![c] = seq + 1]
        /\ pc' = [pc EXCEPT ![c] = "register"]
        /\ UNCHANGED <<req, outcome, db, sessions, running, ctx, sess, target, todo, results>>
    BY <1>6 DEF PingSucceeds
  <2>3. /\ pc' \in [Calls -> PCs] /\ sid' \in [Calls -> Ids \cup {None}]
        /\ seq' \in 0..NumCalls
    BY <2>1, <2>2 DEF TypeOK, PCs, Ids
  <2>4. TypeOK'
    BY <2>2, <2>3 DEF TypeOK
  <2>5. pc'[c] = "register" /\ \A d \in Calls \ {c} : pc'[d] = pc[d]
    BY <2>2 DEF TypeOK
  <2>6. Position(c)'
    BY <2>2, <2>5 DEF Positions, Position
  <2> QED BY <2>2, <2>4, <2>5, <2>6, PositionsKept
<1>7. CASE Register(c)
  <2>1. TypeOK'
    BY <1>7 DEF Register, Return, TypeOK, PCs, Outcomes
  <2>2. Positions'
    <3>1. CASE req[c].kind \in ProbeKinds
      BY <1>7, <3>1 DEF Register, TypeOK, Positions, Position
    <3>2. CASE req[c].kind \notin ProbeKinds
      BY <1>7, <3>2 DEF Register, Return, TypeOK, Positions, Position
    <3> QED BY <3>1, <3>2
  <2> QED BY <2>1, <2>2
<1>8. CASE ProbeAnswers(c)
  <2>1. TypeOK'
    BY <1>8 DEF ProbeAnswers, TypeOK, PCs
  <2>2. Positions'
    BY <1>8 DEF ProbeAnswers, TypeOK, Positions, Position, PCs
  <2> QED BY <2>1, <2>2
<1>31. CASE PingPanics(c)
  <2>1. /\ pc[c] # "idle" /\ Return(c, "internal")
        /\ UNCHANGED <<req, seq, sid, db, sessions, running, ctx, sess, target, todo, results>>
    BY <1>31 DEF PingPanics
  <2>2. pc' \in [Calls -> PCs] /\ outcome' \in [Calls -> Outcomes] /\ Positions'
    BY <2>1, Returned DEF Outcomes
  <2> QED BY <2>1, <2>2 DEF TypeOK
<1>9. CASE ProbePanics(c)
  <2>1. /\ pc[c] # "idle" /\ Return(c, "internal")
        /\ UNCHANGED <<req, seq, sid, db, sessions, running, ctx, sess, target, todo, results>>
    BY <1>9 DEF ProbePanics
  <2>2. pc' \in [Calls -> PCs] /\ outcome' \in [Calls -> Outcomes] /\ Positions'
    BY <2>1, Returned DEF Outcomes
  <2> QED BY <2>1, <2>2 DEF TypeOK
<1>10. CASE RemoveSession(c)
  <2>1. TypeOK'
    BY <1>10 DEF RemoveSession, Return, TypeOK, PCs, Outcomes
  <2>2. \/ pc' = [pc EXCEPT ![c] = "done"] /\ UNCHANGED sess
        \/ \E h \in Calls : /\ sess' = [sess EXCEPT ![c] = h]
                            /\ pc' = [pc EXCEPT ![c] = "cancelAll"]
    BY <1>10 DEF RemoveSession, Return, TypeOK
  <2>3. UNCHANGED <<req, target, todo>> /\ pc[c] = "remove"
    BY <1>10 DEF RemoveSession
  <2>4. \A d \in Calls : pc[d] = pc'[d] /\ sess[d] = sess'[d] => Position(d)'
    BY <2>3 DEF Positions, Position
  <2>5. \A d \in Calls \ {c} : pc[d] = pc'[d] /\ sess[d] = sess'[d]
    BY <2>2 DEF TypeOK
  <2>6. Position(c)'
    <3>1. Position(c) /\ pc'[c] \in {"done", "cancelAll"}
      BY <2>2 DEF Positions, TypeOK
    <3>2. pc'[c] = "cancelAll" => sess'[c] # None
      BY <2>2 DEF TypeOK
    <3> QED BY <2>3, <3>1, <3>2 DEF Position
  <2>7. Positions'
    BY <2>4, <2>5, <2>6 DEF Positions
  <2> QED BY <2>1, <2>7
<1>11. CASE SwapSessions(c)
  <2>1. TypeOK'
    BY <1>11 DEF SwapSessions, TypeOK, PCs
  <2>2. Positions'
    BY <1>11 DEF SwapSessions, TypeOK, Positions, Position, PCs
  <2> QED BY <2>1, <2>2
<1>12. CASE CancelSession(c)
  <2>1. TypeOK'
    BY <1>12 DEF CancelSession, CancelAll, TypeOK, PCs, CtxStates
  <2>2. Positions'
    BY <1>12 DEF CancelSession, CancelAll, TypeOK, Positions, Position, PCs
  <2> QED BY <2>1, <2>2
<1>13. CASE CancelNext(c)
  <2>1. PICK h \in todo[c] : /\ CancelAll(c, h)
                            /\ sess' = [sess EXCEPT ![c] = h]
                            /\ todo' = [todo EXCEPT ![c] = @ \ {h}]
    BY <1>13 DEF CancelNext
  <2>2. /\ req[c].kind = "closeAll"
        /\ UNCHANGED <<req, outcome, seq, sid, db, sessions, target, results>>
    BY <1>13 DEF CancelNext
  <2>3. h \in Calls /\ pc[c] = "cancelAll"
    BY <1>13, <2>1 DEF CancelNext, TypeOK
  <2>4. /\ ctx' \in [Calls -> CtxStates]
        /\ running' \in [Calls -> [OpIds -> Calls \cup {None}]]
    BY <2>1, <2>3 DEF CancelAll, TypeOK, CtxStates
  <2>5. pc' = [pc EXCEPT ![c] = "closeDb"]
    BY <2>1 DEF CancelAll
  <2>6. TypeOK'
    BY <2>1, <2>2, <2>3, <2>4, <2>5 DEF TypeOK, PCs
  <2>7. Position(c)'
    BY <2>1, <2>2, <2>3, <2>5 DEF TypeOK, Positions, Position
  <2>8. \A d \in Calls \ {c} : pc'[d] = pc[d] /\ sess'[d] = sess[d] /\ todo'[d] = todo[d]
    BY <2>1, <2>5 DEF TypeOK
  <2> QED BY <2>2, <2>6, <2>7, <2>8, PositionsKept
<1>14. CASE AllClosed(c)
  <2>1. /\ pc[c] # "idle" /\ Return(c, "ok")
        /\ UNCHANGED <<req, seq, sid, db, sessions, running, ctx, sess, target, todo, results>>
    BY <1>14 DEF AllClosed
  <2>2. pc' \in [Calls -> PCs] /\ outcome' \in [Calls -> Outcomes] /\ Positions'
    BY <2>1, Returned DEF Outcomes
  <2> QED BY <2>1, <2>2 DEF TypeOK
<1>15. CASE CloseDb(c)
  <2>1. TypeOK'
    BY <1>15 DEF CloseDb, Return, TypeOK, PCs, Outcomes
  <2>2. Positions'
    <3>1. pc[c] = "closeDb" /\ UNCHANGED <<req, sess, target, todo>>
      BY <1>15 DEF CloseDb
    <3>2. \E l \in {"cancelAll", "done"} : pc' = [pc EXCEPT ![c] = l]
      BY <1>15 DEF CloseDb, Return
    <3>3. Position(c)'
      BY <3>1, <3>2 DEF TypeOK, Positions, Position
    <3>4. \A d \in Calls \ {c} : pc'[d] = pc[d]
      BY <3>2 DEF TypeOK
    <3> QED BY <3>1, <3>3, <3>4, PositionsKept
  <2> QED BY <2>1, <2>2
<1>16. CASE Get(c)
  <2> DEFINE h == IF req[c].id \in Ids THEN sessions[req[c].id] ELSE None
             l == CASE req[c].kind = "cancel"  -> "lookup"
                    [] req[c].kind = "execute" -> "check"
                    [] OTHER                   -> "loop"
  <2>1. /\ pc[c] = "get"
        /\ UNCHANGED <<req, seq, sid, db, sessions, running, ctx, target, todo, results>>
    BY <1>16 DEF Get
  <2>2. h \in Calls \cup {None}
    BY DEF TypeOK
  <2>3. CASE h = None
    <3>1. Return(c, "no_session") /\ UNCHANGED sess
      BY <1>16, <2>3 DEF Get
    <3>2. pc' \in [Calls -> PCs] /\ outcome' \in [Calls -> Outcomes] /\ Positions'
      BY <2>1, <3>1, Returned DEF Outcomes
    <3> QED BY <2>1, <3>1, <3>2 DEF TypeOK
  <2>4. CASE h # None
    <3>1. sess' = [sess EXCEPT ![c] = h] /\ pc' = [pc EXCEPT ![c] = l] /\ UNCHANGED outcome
      BY <1>16, <2>4 DEF Get
    <3>2. /\ l \in {"lookup", "check", "loop"}
          /\ l = "lookup" => req[c].kind = "cancel"
          /\ l = "check" => req[c].kind = "execute"
          /\ l = "loop" => req[c].kind \notin {"cancel", "execute"}
      OBVIOUS
    <3> HIDE DEF h, l
    <3>3. sess' \in [Calls -> Calls \cup {None}] /\ pc' \in [Calls -> PCs]
      BY <2>2, <3>1, <3>2 DEF TypeOK, PCs
    <3>4. TypeOK'
      BY <2>1, <3>1, <3>3 DEF TypeOK
    <3>5. pc'[c] = l /\ sess'[c] = h
      BY <3>1 DEF TypeOK
    <3>6. Position(c)'
      BY <2>1, <2>4, <3>2, <3>5 DEF Positions, Position
    <3>7. \A d \in Calls \ {c} : pc'[d] = pc[d] /\ sess'[d] = sess[d]
      BY <3>1 DEF TypeOK
    <3> QED BY <2>1, <3>4, <3>6, <3>7, PositionsKept
  <2> QED BY <2>3, <2>4
<1>17. CASE LookUp(c)
  <2>1. req[c].op \in OpIds /\ sess[c] \in Calls
    BY <1>17, RequestShapes DEF LookUp, TypeOK, Positions, Position, CancelRequests, NoRequest
  <2>2. running[sess[c]][req[c].op] \in Calls \cup {None}
    BY <2>1 DEF TypeOK
  <2>3. TypeOK'
    BY <1>17, <2>2 DEF LookUp, Return, TypeOK, PCs, Outcomes
  <2>4. Positions'
    <3>1. pc[c] = "lookup" /\ UNCHANGED <<req, sess, todo>>
      BY <1>17 DEF LookUp
    <3>2. \/ pc' = [pc EXCEPT ![c] = "done"]
          \/ pc' = [pc EXCEPT ![c] = "fire"] /\ target'[c] # None
      BY <1>17 DEF LookUp, Return
    <3>3. Position(c)'
      BY <3>1, <3>2 DEF TypeOK, Positions, Position
    <3>4. \A d \in Calls \ {c} : pc'[d] = pc[d] /\ target'[d] = target[d]
      BY <1>17, <3>2 DEF LookUp, TypeOK
    <3> QED BY <3>1, <3>3, <3>4, PositionsKept
  <2> QED BY <2>3, <2>4
<1>18. CASE Fire(c)
  <2>1. TypeOK'
    BY <1>18 DEF Fire, Return, TypeOK, PCs, Outcomes, CtxStates
  <2>2. Positions'
    BY <1>18, Returned DEF Fire, Outcomes
  <2> QED BY <2>1, <2>2
<1>19. CASE Check(c)
  <2>1. /\ pc[c] = "check"
        /\ UNCHANGED <<req, seq, sid, db, sessions, running, sess, target, todo, results>>
    BY <1>19 DEF Check
  <2>2. CASE Unrunnable(c) \/ Guarded(c)
    <3>1. UNCHANGED ctx /\ \E code \in {"query", "read_only"} : Return(c, code)
      BY <1>19, <2>2 DEF Check
    <3>2. pc' \in [Calls -> PCs] /\ outcome' \in [Calls -> Outcomes] /\ Positions'
      BY <2>1, <3>1, Returned DEF Outcomes
    <3> QED BY <2>1, <3>1, <3>2 DEF TypeOK
  <2>3. CASE ~(Unrunnable(c) \/ Guarded(c))
    <3>1. ctx' = [ctx EXCEPT ![c] = "live"] /\ UNCHANGED outcome
      BY <1>19, <2>3 DEF Check
    <3>2. PICK l \in {"loop", "track"} :
            pc' = [pc EXCEPT ![c] = l] /\ (l = "track" => req[c].op # NoOp)
      BY <1>19, <2>3 DEF Check
    <3>3. TypeOK'
      BY <2>1, <3>1, <3>2 DEF TypeOK, PCs, CtxStates
    <3>4. Position(c)'
      BY <2>1, <3>2 DEF TypeOK, Positions, Position
    <3>5. \A d \in Calls \ {c} : pc'[d] = pc[d]
      BY <3>2 DEF TypeOK
    <3> QED BY <2>1, <3>3, <3>4, <3>5, PositionsKept
  <2> QED BY <2>2, <2>3
<1>20. CASE Track(c)
  <2>1. TypeOK'
    BY <1>20 DEF Track, TypeOK, PCs
  <2>2. Positions'
    BY <1>20 DEF Track, TypeOK, Positions, Position, PCs
  <2> QED BY <2>1, <2>2
<1>21. CASE Expire(c)
  <2>1. TypeOK'
    BY <1>21 DEF Expire, TypeOK, PCs, CtxStates
  <2>2. Positions'
    BY <1>21 DEF Expire, TypeOK, Positions, Position, PCs
  <2> QED BY <2>1, <2>2
<1>22. CASE StartStatement(c)
  <2>1. TypeOK'
    BY <1>22 DEF StartStatement, TypeOK, PCs
  <2>2. Positions'
    BY <1>22 DEF StartStatement, TypeOK, Positions, Position, PCs
  <2> QED BY <2>1, <2>2
<1>23. CASE StatementRefused(c)
  BY <1>23, EndStatementTypes DEF StatementRefused, ErrorLabel, Labels
<1>24. CASE StatementEnds(c)
  BY <1>24, EndStatementTypes DEF StatementEnds, Labels
<1>25. CASE StatementAborts(c)
  BY <1>25, EndStatementTypes DEF StatementAborts, ErrorLabel, Labels
<1>26. CASE StatementPanics(c)
  <2>1. TypeOK'
    BY <1>26 DEF StatementPanics, TypeOK, PCs, Outcomes
  <2>2. Positions'
    BY <1>26 DEF StatementPanics, TypeOK, Positions, Position, PCs, IsExecute
  <2> QED BY <2>1, <2>2
<1>27. CASE Untrack(c)
  <2>1. TypeOK'
    BY <1>27 DEF Untrack, TypeOK, PCs
  <2>2. Positions'
    BY <1>27 DEF Untrack, TypeOK, Positions, Position, PCs
  <2> QED BY <2>1, <2>2
<1>28. CASE Release(c)
  <2>1. TypeOK'
    BY <1>28 DEF Release, Return, TypeOK, PCs, Outcomes, CtxStates
  <2>2. Positions'
    BY <1>28 DEF Release, Return, TypeOK, Positions, Position, PCs
  <2> QED BY <2>1, <2>2
<1>29. CASE CatalogRefused(c)
  <2>1. TypeOK'
    BY <1>29 DEF CatalogRefused, Return, TypeOK, PCs, Outcomes
  <2>2. Positions'
    BY <1>29 DEF CatalogRefused, Return, TypeOK, Positions, Position, PCs
  <2> QED BY <2>1, <2>2
<1>30. CASE CatalogEnds(c)
  <2>1. TypeOK'
    BY <1>30 DEF CatalogEnds, Return, TypeOK, PCs, Outcomes
  <2>2. Positions'
    BY <1>30 DEF CatalogEnds, Return, TypeOK, Positions, Position, PCs
  <2> QED BY <2>1, <2>2
<1> QED BY <1>1, <1>2, <1>3, <1>4, <1>5, <1>6, <1>7, <1>8, <1>9, <1>10,
       <1>11, <1>12, <1>13, <1>14, <1>15, <1>16, <1>17, <1>18, <1>19, <1>20,
       <1>21, <1>22, <1>23, <1>24, <1>25, <1>26, <1>27, <1>28, <1>29, <1>30,
       <1>31
  DEF Step, CoreStep, TimerStep, ServerStep

\* The ids stay as they are in every step that neither names a session nor
\* touches the map.
LEMMA IdsKept ==
  ASSUME IdsAgree, UNCHANGED <<seq, sid, sessions>>,
         \A d \in Calls : pc'[d] \in {"idle", "open", "ping"} => pc[d] \in {"idle", "open", "ping"},
         \A d \in Calls : pc'[d] = "register" => pc[d] = "register"
  PROVE  IdsAgree'
<1>1. {d \in Calls : sid'[d] # None} = {d \in Calls : sid[d] # None}
  OBVIOUS
<1>2. Cardinality({d \in Calls : sid'[d] # None}) = seq'
  BY <1>1 DEF IdsAgree
<1> QED BY <1>2 DEF IdsAgree

\* nextID stays a counter of the sessions, and the map agrees with their ids.
LEMMA StepIds ==
  ASSUME TypeOK, Positions, IdsAgree, NEW c \in Calls, Step(c)
  PROVE  IdsAgree'
<1> USE DEF Goto
<1>1. CASE Arrive(c)
  <2>1. UNCHANGED <<seq, sid, sessions>> /\ pc[c] = "idle"
    BY <1>1 DEF Arrive
  <2>2. \E l \in {"open", "remove", "get"} : pc' = [pc EXCEPT ![c] = l]
    BY <1>1 DEF Arrive, FirstStep
  <2> QED BY <2>1, <2>2, IdsKept DEF TypeOK
<1>2. CASE RejectConfig(c)
  BY <1>2, IdsKept DEF RejectConfig, Return, TypeOK
<1>3. CASE NothingToList(c)
  BY <1>3, IdsKept DEF NothingToList, Return, TypeOK
<1>4. CASE OpenHandle(c)
  BY <1>4, IdsKept DEF OpenHandle, Return, TypeOK
<1>5. CASE PingFails(c)
  BY <1>5, IdsKept DEF PingFails, Return, TypeOK
<1>6. CASE PingSucceeds(c)
  <2> DEFINE S == {d \in Calls : sid[d] # None}
  <2>1. seq + 1 \in Ids /\ sid[c] = None
    BY <1>6, IdLeft DEF PingSucceeds, IdsAgree
  <2>2. /\ seq' = seq + 1
        /\ sid' = [sid EXCEPT ![c] = seq + 1]
        /\ pc' = [pc EXCEPT ![c] = "register"]
        /\ sessions' = sessions
    BY <1>6 DEF PingSucceeds
  <2>3. Cardinality({d \in Calls : sid'[d] # None}) = seq'
    <3>1. {d \in Calls : sid'[d] # None} = S \cup {c}
      BY <2>1, <2>2 DEF TypeOK
    <3>2. S \in SUBSET Calls /\ c \notin S
      BY <2>1
    <3>3. Cardinality(S \cup {c}) = Cardinality(S) + 1
      BY <3>2, NamedCallsFinite, FS_AddElement
    <3>4. Cardinality(S) = seq
      BY DEF IdsAgree
    <3> QED BY <2>2, <3>1, <3>3, <3>4
  <2>4. \A d \in Calls : sid'[d] <= seq'
    <3>1. \A d \in Calls : sid[d] \in Int /\ seq \in Int /\ sid[d] <= seq
      BY DEF TypeOK, IdsAgree
    <3>2. \A d \in Calls : sid'[d] = sid[d] \/ sid'[d] = seq + 1
      BY <2>2 DEF TypeOK
    <3> QED BY <2>2, <3>1, <3>2
  <2>5. \A d \in Calls : pc'[d] \in {"idle", "open", "ping"} => sid'[d] = None
    BY <2>2 DEF TypeOK, IdsAgree
  <2>6. \A d \in Calls : pc'[d] = "register" => sid'[d] # None
    BY <2>1, <2>2 DEF TypeOK, IdsAgree
  <2>7. \A d, e \in Calls : sid'[d] = sid'[e] /\ sid'[d] # None => d = e
    BY <2>2 DEF TypeOK, IdsAgree
  <2>8. \A i \in Ids : sessions'[i] # None => sid'[sessions'[i]] = i
    BY <2>1, <2>2 DEF TypeOK, IdsAgree
  <2> QED BY <2>3, <2>4, <2>5, <2>6, <2>7, <2>8 DEF IdsAgree
<1>7. CASE Register(c)
  <2>1. UNCHANGED <<seq, sid>>
    BY <1>7 DEF Register
  <2>2. {d \in Calls : sid'[d] # None} = {d \in Calls : sid[d] # None}
    BY <2>1
  <2>3. Cardinality({d \in Calls : sid'[d] # None}) = seq'
    BY <2>1, <2>2 DEF IdsAgree
  <2>4. \A d \in Calls : pc'[d] \in {"idle", "open", "ping", "register"} => pc'[d] = pc[d]
    BY <1>7 DEF Register, Return, TypeOK
  <2>5. \A i \in Ids : sessions'[i] # None => sid[sessions'[i]] = i
    BY <1>7 DEF Register, TypeOK, IdsAgree
  <2> QED BY <2>1, <2>3, <2>4, <2>5 DEF IdsAgree
<1>8. CASE ProbeAnswers(c)
  BY <1>8, IdsKept DEF ProbeAnswers, Return, TypeOK
<1>31. CASE PingPanics(c)
  BY <1>31, IdsKept DEF PingPanics, Return, TypeOK
<1>9. CASE ProbePanics(c)
  BY <1>9, IdsKept DEF ProbePanics, Return, TypeOK
<1>10. CASE RemoveSession(c)
  <2>1. UNCHANGED <<seq, sid>>
    BY <1>10 DEF RemoveSession
  <2>2. {d \in Calls : sid'[d] # None} = {d \in Calls : sid[d] # None}
    BY <2>1
  <2>3. Cardinality({d \in Calls : sid'[d] # None}) = seq'
    BY <2>1, <2>2 DEF IdsAgree
  <2>4. \A d \in Calls : pc'[d] \in {"idle", "open", "ping", "register"} => pc'[d] = pc[d]
    BY <1>10 DEF RemoveSession, Return, TypeOK
  <2>5. \A i \in Ids : sessions'[i] # None => sid[sessions'[i]] = i
    <3>1. \/ sessions' = sessions
          \/ sessions' = [sessions EXCEPT ![CloseId(c)] = None]
      BY <1>10 DEF RemoveSession
    <3> QED BY <3>1 DEF TypeOK, IdsAgree
  <2> QED BY <2>1, <2>3, <2>4, <2>5 DEF IdsAgree
<1>11. CASE SwapSessions(c)
  <2>1. UNCHANGED <<seq, sid>>
    BY <1>11 DEF SwapSessions
  <2>2. {d \in Calls : sid'[d] # None} = {d \in Calls : sid[d] # None}
    BY <2>1
  <2>3. Cardinality({d \in Calls : sid'[d] # None}) = seq'
    BY <2>1, <2>2 DEF IdsAgree
  <2>4. \A d \in Calls : pc'[d] \in {"idle", "open", "ping", "register"} => pc'[d] = pc[d]
    BY <1>11 DEF SwapSessions, Return, TypeOK
  <2>5. \A i \in Ids : sessions'[i] # None => sid[sessions'[i]] = i
    BY <1>11 DEF SwapSessions, TypeOK, IdsAgree
  <2> QED BY <2>1, <2>3, <2>4, <2>5 DEF IdsAgree
<1>12. CASE CancelSession(c)
  BY <1>12, IdsKept DEF CancelSession, CancelAll, TypeOK
<1>13. CASE CancelNext(c)
  BY <1>13, IdsKept DEF CancelNext, CancelAll, TypeOK
<1>14. CASE AllClosed(c)
  BY <1>14, IdsKept DEF AllClosed, Return, TypeOK
<1>15. CASE CloseDb(c)
  BY <1>15, IdsKept DEF CloseDb, Return, TypeOK
<1>16. CASE Get(c)
  BY <1>16, IdsKept DEF Get, Return, TypeOK
<1>17. CASE LookUp(c)
  BY <1>17, IdsKept DEF LookUp, Return, TypeOK
<1>18. CASE Fire(c)
  BY <1>18, IdsKept DEF Fire, Return, TypeOK
<1>19. CASE Check(c)
  BY <1>19, IdsKept DEF Check, Return, TypeOK
<1>20. CASE Track(c)
  BY <1>20, IdsKept DEF Track, Return, TypeOK
<1>21. CASE Expire(c)
  BY <1>21, IdsKept DEF Expire, Return, TypeOK
<1>22. CASE StartStatement(c)
  BY <1>22, IdsKept DEF StartStatement, Return, TypeOK
<1>23. CASE StatementRefused(c)
  BY <1>23, IdsKept DEF StatementRefused, EndStatement, TypeOK
<1>24. CASE StatementEnds(c)
  BY <1>24, IdsKept DEF StatementEnds, EndStatement, TypeOK
<1>25. CASE StatementAborts(c)
  BY <1>25, IdsKept DEF StatementAborts, EndStatement, TypeOK
<1>26. CASE StatementPanics(c)
  BY <1>26, IdsKept DEF StatementPanics, Return, TypeOK
<1>27. CASE Untrack(c)
  BY <1>27, IdsKept DEF Untrack, Return, TypeOK
<1>28. CASE Release(c)
  BY <1>28, IdsKept DEF Release, Return, TypeOK
<1>29. CASE CatalogRefused(c)
  BY <1>29, IdsKept DEF CatalogRefused, Return, TypeOK
<1>30. CASE CatalogEnds(c)
  BY <1>30, IdsKept DEF CatalogEnds, Return, TypeOK
<1> QED BY <1>1, <1>2, <1>3, <1>4, <1>5, <1>6, <1>7, <1>8, <1>9, <1>10,
       <1>11, <1>12, <1>13, <1>14, <1>15, <1>16, <1>17, <1>18, <1>19, <1>20,
       <1>21, <1>22, <1>23, <1>24, <1>25, <1>26, <1>27, <1>28, <1>29, <1>30,
       <1>31
  DEF Step, CoreStep, TimerStep, ServerStep

\* A call that has returned takes no step, so a leak stays what it is.
LEMMA LeaksStay ==
  ASSUME TypeOK, NEW c \in Calls, Step(c), NEW h \in Calls, Leaked(h)
  PROVE  Leaked(h)'
<1>1. CASE Expire(c)
  BY <1>1 DEF Expire, Leaked
<1>2. CASE Arrive(c)
  BY <1>2 DEF Arrive, Goto, Leaked, TypeOK
<1>3. CASE StatementRefused(c) \/ StatementEnds(c) \/ StatementAborts(c)
  <2>1. pc[c] # "done" /\ UNCHANGED <<outcome, sid>>
    BY <1>3 DEF StatementRefused, StatementEnds, StatementAborts, EndStatement
  <2>2. \E l \in PCs : pc' = [pc EXCEPT ![c] = l]
    BY <1>3 DEF StatementRefused, StatementEnds, StatementAborts, EndStatement, Goto, PCs
  <2> QED BY <2>1, <2>2 DEF Leaked, TypeOK
<1>4. CASE PingSucceeds(c)
  BY <1>4 DEF PingSucceeds, Goto, Leaked, TypeOK
<1>5. CASE UNCHANGED sid /\ pc[c] # "done"
           /\ (\A d \in Calls \ {c} : pc'[d] = pc[d] /\ outcome'[d] = outcome[d])
  BY <1>5 DEF Leaked
<1>6. CASE RejectConfig(c) \/ NothingToList(c) \/ OpenHandle(c) \/ PingFails(c)
           \/ PingPanics(c) \/ Register(c) \/ ProbeAnswers(c) \/ ProbePanics(c)
  BY <1>5, <1>6 DEF RejectConfig, NothingToList, OpenHandle, PingFails, PingPanics,
     Register, ProbeAnswers, ProbePanics, Return, Goto, TypeOK
<1>7. CASE RemoveSession(c) \/ SwapSessions(c) \/ CancelSession(c) \/ CancelNext(c)
           \/ AllClosed(c) \/ CloseDb(c)
  BY <1>5, <1>7 DEF RemoveSession, SwapSessions, CancelSession, CancelNext,
     CancelAll, AllClosed, CloseDb, Return, Goto, TypeOK
<1>8. CASE Get(c) \/ LookUp(c) \/ Fire(c) \/ Check(c) \/ Track(c)
           \/ StartStatement(c)
  BY <1>5, <1>8 DEF Get, LookUp, Fire, Check, Track, StartStatement, Return, Goto, TypeOK
<1>9. CASE StatementPanics(c) \/ Untrack(c) \/ Release(c) \/ CatalogRefused(c)
           \/ CatalogEnds(c)
  BY <1>5, <1>9 DEF StatementPanics, Untrack, Release, CatalogRefused, CatalogEnds,
     Return, Goto, TypeOK
<1> QED BY <1>1, <1>2, <1>3, <1>4, <1>6, <1>7, <1>8, <1>9
  DEF Step, CoreStep, TimerStep, ServerStep

\* A pool keeps its owner in every step that opens or closes none, leaves the
\* map alone, and moves only a call that owns no pool.
LEMMA OwnersKept ==
  ASSUME TypeOK, OpenPoolsOwned, UNCHANGED <<db, sessions, todo>>,
         NEW c \in Calls,
         \A d \in Calls \ {c} : /\ pc'[d] = pc[d] /\ req'[d] = req[d]
                                /\ sess'[d] = sess[d],
         pc[c] \notin {"cancelAll", "closeDb"},
         pc[c] \in {"ping", "register"} => pc'[c] \in {"ping", "register"},
         \A h \in Calls : Leaked(h) => Leaked(h)'
  PROVE  OpenPoolsOwned'
<1>1. \A h \in Calls : Registered(h)' <=> Registered(h)
  BY DEF Registered
<1>2. \A d, h \in Calls : Closing(d, h) => Closing(d, h)'
  BY DEF Closing
<1> QED BY <1>1, <1>2 DEF OpenPoolsOwned

\* A step of an open that keeps the map and what is closed moves no pool but its
\* own.
LEMMA OneOwner ==
  ASSUME TypeOK, OpenPoolsOwned, UNCHANGED <<sessions, todo, sess, req>>,
         NEW c \in Calls, pc[c] \notin {"cancelAll", "closeDb"},
         \A h \in Calls \ {c} : pc'[h] = pc[h] /\ db'[h] = db[h],
         \A h \in Calls : Leaked(h) => Leaked(h)',
         db'[c] # "open" \/ pc'[c] \in {"ping", "register"} \/ Leaked(c)'
  PROVE  OpenPoolsOwned'
<1>1. \A h \in Calls : Registered(h) => Registered(h)'
  BY DEF Registered
<1>2. \A d, h \in Calls : Closing(d, h) => Closing(d, h)'
  BY DEF Closing
<1> QED BY <1>1, <1>2 DEF OpenPoolsOwned

\* The entry of an id is empty or leads to the session that has the id.
LEMMA IdHolder ==
  ASSUME TypeOK, IdsAgree, NEW c \in Calls, sid[c] \in Ids
  PROVE  sessions[sid[c]] \in {None, c}
<1> DEFINE h == sessions[sid[c]]
<1>1. h \in Calls \cup {None}
  BY DEF TypeOK
<1>2. h # None => sid[h] = sid[c]
  BY DEF IdsAgree
<1>3. h # None => h = c
  BY <1>1, <1>2 DEF IdsAgree
<1> QED BY <1>3

\* Every step hands an open pool from one owner to the next.
LEMMA StepOwners ==
  ASSUME TypeOK, Positions, IdsAgree, OpenPoolsOwned, NEW c \in Calls, Step(c)
  PROVE  OpenPoolsOwned'
<1> USE DEF Goto
<1>0. \A h \in Calls : Leaked(h) => Leaked(h)'
  BY LeaksStay
<1>1. CASE Arrive(c)
  <2>1. UNCHANGED <<db, sessions, todo, sess>> /\ pc[c] = "idle"
    BY <1>1 DEF Arrive
  <2>2. \A d \in Calls \ {c} : pc'[d] = pc[d] /\ req'[d] = req[d]
    BY <1>1 DEF Arrive, TypeOK
  <2> QED BY <2>1, <2>2, <1>0, OwnersKept
<1>2. CASE RejectConfig(c)
  BY <1>2, <1>0, OwnersKept DEF RejectConfig, Return, TypeOK
<1>3. CASE NothingToList(c)
  BY <1>3, <1>0, OwnersKept DEF NothingToList, Return, TypeOK
<1>4. CASE OpenHandle(c)
  <2>1. /\ UNCHANGED <<sessions, todo, sess, req>> /\ pc[c] = "open"
        /\ db' = [db EXCEPT ![c] = "open"] /\ pc' = [pc EXCEPT ![c] = "ping"]
    BY <1>4 DEF OpenHandle
  <2>2. pc'[c] = "ping" /\ \A h \in Calls \ {c} : pc'[h] = pc[h] /\ db'[h] = db[h]
    BY <2>1 DEF TypeOK
  <2> QED BY <1>0, <2>1, <2>2, OneOwner
<1>5. CASE PingFails(c)
  <2>1. /\ UNCHANGED <<sessions, todo, sess, req>> /\ pc[c] = "ping"
        /\ db' = [db EXCEPT ![c] = "closed"] /\ pc' = [pc EXCEPT ![c] = "done"]
    BY <1>5 DEF PingFails, Return
  <2>2. db'[c] = "closed" /\ \A h \in Calls \ {c} : pc'[h] = pc[h] /\ db'[h] = db[h]
    BY <2>1 DEF TypeOK
  <2> QED BY <1>0, <2>1, <2>2, OneOwner
<1>6. CASE PingSucceeds(c)
  BY <1>6, <1>0, OwnersKept DEF PingSucceeds, Return, TypeOK
<1>7. CASE Register(c)
  <2>1. /\ UNCHANGED <<db, todo, sess, req>> /\ pc[c] = "register"
        /\ sessions' = [sessions EXCEPT ![sid[c]] = c]
        /\ \E l \in {"probe", "done"} : pc' = [pc EXCEPT ![c] = l]
    BY <1>7 DEF Register, Return
  <2>2. sid[c] \in Ids
    BY <2>1 DEF TypeOK, IdsAgree
  <2>3. Registered(c)'
    BY <2>1, <2>2 DEF Registered, TypeOK
  <2>4. sessions[sid[c]] \in {None, c}
    BY <2>2, IdHolder DEF TypeOK
  <2>5. \A h \in Calls \ {c} : Registered(h) => Registered(h)'
    BY <2>1, <2>4 DEF Registered, TypeOK
  <2>6. \A d, h \in Calls : Closing(d, h) => Closing(d, h)'
    BY <2>1 DEF Closing, TypeOK
  <2>7. \A h \in Calls \ {c} : pc'[h] = pc[h]
    BY <2>1 DEF TypeOK
  <2> QED BY <1>0, <2>1, <2>3, <2>5, <2>6, <2>7 DEF OpenPoolsOwned
<1>8. CASE ProbeAnswers(c)
  BY <1>8, <1>0, OwnersKept DEF ProbeAnswers, Return, TypeOK
<1>31. CASE PingPanics(c)
  <2>1. UNCHANGED <<db, sessions, todo, sess, req>> /\ pc[c] = "ping"
    BY <1>31 DEF PingPanics
  <2>2. pc' = [pc EXCEPT ![c] = "done"]
    BY <1>31 DEF PingPanics, Return
  <2>3. Leaked(c)'
    BY <1>31, <2>1, <2>2 DEF PingPanics, Return, Leaked, TypeOK, IdsAgree
  <2>4. \A h \in Calls \ {c} : pc'[h] = pc[h] /\ db'[h] = db[h]
    BY <2>1, <2>2 DEF TypeOK
  <2> QED BY <1>0, <2>1, <2>3, <2>4, OneOwner
<1>9. CASE ProbePanics(c)
  BY <1>9, <1>0, OwnersKept DEF ProbePanics, Return, TypeOK
<1>10. CASE RemoveSession(c)
  <2>1. UNCHANGED <<db, todo, req>> /\ pc[c] = "remove" /\ req[c].kind # "closeAll"
    BY <1>10 DEF RemoveSession
  <2>2. CASE UNCHANGED <<sessions, sess>> /\ pc' = [pc EXCEPT ![c] = "done"]
    BY <2>1, <2>2, <1>0, OwnersKept DEF TypeOK
  <2>3. ASSUME NEW i \in Ids, NEW g \in Calls, sessions[i] = g,
               sessions' = [sessions EXCEPT ![i] = None],
               sess' = [sess EXCEPT ![c] = g],
               pc' = [pc EXCEPT ![c] = "cancelAll"]
        PROVE  OpenPoolsOwned'
    <3>1. pc'[c] = "cancelAll" /\ sess'[c] = g /\ req'[c] = req[c]
      BY <2>1, <2>3 DEF TypeOK
    <3>2. Closing(c, g)'
      BY <2>1, <3>1 DEF Closing
    <3>3. \A h \in Calls : Registered(h) => Registered(h)' \/ h = g
      BY <2>3 DEF Registered, TypeOK
    <3>4. \A d, h \in Calls : Closing(d, h) => Closing(d, h)'
      BY <2>1, <2>3 DEF Closing, TypeOK
    <3>5. \A h \in Calls : pc[h] \in {"ping", "register"} => pc'[h] = pc[h]
      BY <2>1, <2>3 DEF TypeOK
    <3> QED BY <1>0, <2>1, <3>2, <3>3, <3>4, <3>5 DEF OpenPoolsOwned
  <2>4. \/ UNCHANGED <<sessions, sess>> /\ pc' = [pc EXCEPT ![c] = "done"]
        \/ \E i \in Ids, g \in Calls :
             /\ sessions[i] = g
             /\ sessions' = [sessions EXCEPT ![i] = None]
             /\ sess' = [sess EXCEPT ![c] = g]
             /\ pc' = [pc EXCEPT ![c] = "cancelAll"]
    BY <1>10 DEF RemoveSession, Return, TypeOK
  <2> QED BY <2>2, <2>3, <2>4
<1>11. CASE SwapSessions(c)
  <2>1. /\ UNCHANGED <<db, req, sess>> /\ pc[c] = "remove"
        /\ pc' = [pc EXCEPT ![c] = "cancelAll"]
        /\ todo' = [todo EXCEPT ![c] = {sessions[i] : i \in Ids} \ {None}]
    BY <1>11 DEF SwapSessions
  <2>2. \A h \in Calls : Registered(h) => Closing(c, h)'
    BY <2>1 DEF Registered, Closing, TypeOK
  <2>3. \A d, h \in Calls : Closing(d, h) => Closing(d, h)'
    BY <2>1 DEF Closing, TypeOK
  <2>4. \A h \in Calls : pc[h] \in {"ping", "register"} => pc'[h] = pc[h]
    BY <2>1 DEF TypeOK
  <2> QED BY <1>0, <2>1, <2>2, <2>3, <2>4 DEF OpenPoolsOwned
<1>12. CASE CancelSession(c)
  <2>1. /\ UNCHANGED <<db, req, sess, sessions, todo>> /\ pc[c] = "cancelAll"
        /\ req[c].kind # "closeAll" /\ pc' = [pc EXCEPT ![c] = "closeDb"]
    BY <1>12 DEF CancelSession, CancelAll
  <2>2. \A d, h \in Calls : Closing(d, h) => Closing(d, h)'
    BY <2>1 DEF Closing, TypeOK
  <2>3. \A h \in Calls : pc[h] \in {"ping", "register"} => pc'[h] = pc[h]
    BY <2>1 DEF TypeOK
  <2> QED BY <1>0, <2>1, <2>2, <2>3 DEF OpenPoolsOwned, Registered
<1>13. CASE CancelNext(c)
  <2>1. PICK g \in todo[c] : /\ sess' = [sess EXCEPT ![c] = g]
                            /\ todo' = [todo EXCEPT ![c] = @ \ {g}]
                            /\ pc' = [pc EXCEPT ![c] = "closeDb"]
    BY <1>13 DEF CancelNext, CancelAll
  <2>2. UNCHANGED <<db, req, sessions>> /\ pc[c] = "cancelAll" /\ req[c].kind = "closeAll"
    BY <1>13 DEF CancelNext
  <2>3. \A d, h \in Calls : Closing(d, h) => Closing(d, h)'
    BY <2>1, <2>2 DEF Closing, TypeOK
  <2>4. \A h \in Calls : pc[h] \in {"ping", "register"} => pc'[h] = pc[h]
    BY <2>1, <2>2 DEF TypeOK
  <2> QED BY <1>0, <2>2, <2>3, <2>4 DEF OpenPoolsOwned, Registered
<1>14. CASE AllClosed(c)
  <2>1. /\ UNCHANGED <<db, req, sess, sessions, todo>> /\ pc[c] = "cancelAll"
        /\ req[c].kind = "closeAll" /\ todo[c] = {}
        /\ pc' = [pc EXCEPT ![c] = "done"]
    BY <1>14 DEF AllClosed, Return
  <2>2. \A d, h \in Calls : Closing(d, h) => Closing(d, h)'
    BY <2>1 DEF Closing, TypeOK
  <2>3. \A h \in Calls : pc[h] \in {"ping", "register"} => pc'[h] = pc[h]
    BY <2>1 DEF TypeOK
  <2> QED BY <1>0, <2>1, <2>2, <2>3 DEF OpenPoolsOwned, Registered
<1>15. CASE CloseDb(c)
  <2>1. /\ UNCHANGED <<req, sess, sessions, todo>> /\ pc[c] = "closeDb"
        /\ db' = [db EXCEPT ![sess[c]] = "closed"]
    BY <1>15 DEF CloseDb
  <2>2. \/ pc' = [pc EXCEPT ![c] = "done"] /\ req[c].kind # "closeAll"
        \/ pc' = [pc EXCEPT ![c] = "cancelAll"] /\ req[c].kind = "closeAll"
    BY <1>15 DEF CloseDb, Return
  <2>3. req[c].kind # "closeAll" => todo[c] = {}
    BY DEF Positions, Position
  <2>4. sess[c] \in Calls
    BY <2>1 DEF Positions, Position, TypeOK
  <2>5. \A h \in Calls : db'[h] = "open" => db[h] = "open" /\ h # sess[c]
    BY <2>1, <2>4 DEF TypeOK
  <2>6. \A d, h \in Calls : Closing(d, h) /\ h # sess[c] => Closing(d, h)'
    BY <2>1, <2>2, <2>3 DEF Closing, TypeOK
  <2>7. \A h \in Calls : pc[h] \in {"ping", "register"} => pc'[h] = pc[h]
    BY <2>1, <2>2 DEF TypeOK
  <2> QED BY <1>0, <2>1, <2>5, <2>6, <2>7 DEF OpenPoolsOwned, Registered
<1>16. CASE Get(c)
  <2>1. pc[c] = "get" /\ UNCHANGED <<db, sessions, todo, req>>
    BY <1>16 DEF Get
  <2>2. /\ \E l \in PCs : pc' = [pc EXCEPT ![c] = l]
        /\ sess' = sess \/ \E h : sess' = [sess EXCEPT ![c] = h]
    BY <1>16 DEF Get, Return, PCs
  <2>3. \A d \in Calls \ {c} : pc'[d] = pc[d] /\ sess'[d] = sess[d]
    BY <2>2 DEF TypeOK
  <2> QED BY <1>0, <2>1, <2>3, OwnersKept
<1>17. CASE LookUp(c)
  BY <1>17, <1>0, OwnersKept DEF LookUp, Return, TypeOK
<1>18. CASE Fire(c)
  BY <1>18, <1>0, OwnersKept DEF Fire, Return, TypeOK
<1>19. CASE Check(c)
  BY <1>19, <1>0, OwnersKept DEF Check, Return, TypeOK
<1>20. CASE Track(c)
  BY <1>20, <1>0, OwnersKept DEF Track, Return, TypeOK
<1>21. CASE Expire(c)
  BY <1>0, <1>21 DEF Expire, OpenPoolsOwned, Registered, Closing
<1>22. CASE StartStatement(c)
  BY <1>22, <1>0, OwnersKept DEF StartStatement, Return, TypeOK
<1>23. CASE StatementRefused(c)
  BY <1>23, <1>0, OwnersKept DEF StatementRefused, EndStatement, TypeOK
<1>24. CASE StatementEnds(c)
  BY <1>24, <1>0, OwnersKept DEF StatementEnds, EndStatement, TypeOK
<1>25. CASE StatementAborts(c)
  BY <1>25, <1>0, OwnersKept DEF StatementAborts, EndStatement, TypeOK
<1>26. CASE StatementPanics(c)
  BY <1>26, <1>0, OwnersKept DEF StatementPanics, Return, TypeOK
<1>27. CASE Untrack(c)
  BY <1>27, <1>0, OwnersKept DEF Untrack, Return, TypeOK
<1>28. CASE Release(c)
  BY <1>28, <1>0, OwnersKept DEF Release, Return, TypeOK
<1>29. CASE CatalogRefused(c)
  BY <1>29, <1>0, OwnersKept DEF CatalogRefused, Return, TypeOK
<1>30. CASE CatalogEnds(c)
  BY <1>30, <1>0, OwnersKept DEF CatalogEnds, Return, TypeOK
<1> QED BY <1>1, <1>2, <1>3, <1>4, <1>5, <1>6, <1>7, <1>8, <1>9, <1>10,
       <1>11, <1>12, <1>13, <1>14, <1>15, <1>16, <1>17, <1>18, <1>19, <1>20,
       <1>21, <1>22, <1>23, <1>24, <1>25, <1>26, <1>27, <1>28, <1>29, <1>30,
       <1>31
  DEF Step, CoreStep, TimerStep, ServerStep

-----------------------------------------------------------------------------
\* The invariant speaks of the state alone.
LEMMA StutterInv == IInv /\ UNCHANGED vars => IInv'
<1> SUFFICES ASSUME IInv, UNCHANGED vars PROVE IInv'
  OBVIOUS
<1>1. TypeOK'
  BY DEF IInv, vars, TypeOK
<1>2. Positions'
  BY DEF IInv, vars, Positions, Position
<1>3. IdsAgree'
  BY IdsKept DEF IInv, vars
<1>4. OpenPoolsOwned'
  BY DEF IInv, vars, OpenPoolsOwned, Registered, Closing, Leaked
<1> QED BY <1>1, <1>2, <1>3, <1>4 DEF IInv

\* The invariant is inductive.
LEMMA NextInv == IInv /\ [Next]_vars => IInv'
<1> SUFFICES ASSUME IInv, [Next]_vars PROVE IInv'
  OBVIOUS
<1>1. ASSUME NEW c \in Calls, Step(c) PROVE IInv'
  BY <1>1, StepTypes, StepIds, StepOwners DEF IInv
<1>2. CASE Idle \/ UNCHANGED vars
  BY <1>2, StutterInv DEF Idle
<1> QED BY <1>1, <1>2 DEF Next

\* The inductive invariant holds in every behaviour.
THEOREM Inv == Spec => []IInv
<1> QED BY InitInv, NextInv, PTL DEF Spec

\* Every variable keeps its type: in particular the ids never run out, because
\* nextID gives out at most one per call.
THEOREM Typing == Spec => []TypeOK
<1>1. IInv => TypeOK
  BY DEF IInv
<1> QED BY <1>1, Inv, PTL

\* However opens, closes, a closeAll, probes and panics interleave, an open
\* pool has an owner that can still close it.
THEOREM NoPoolLost == Spec => []OpenPoolsOwned
<1>1. IInv => OpenPoolsOwned
  BY DEF IInv
<1> QED BY <1>1, Inv, PTL

\* No step lets a closed id lead to a session again, nor an id pass from one
\* session to another.
LEMMA StepIdsStay ==
  ASSUME IInv, NEW c \in Calls, Step(c), NEW i \in Ids
  PROVE  /\ sessions[i] # None => sessions'[i] \in {sessions[i], None}
         /\ sessions[i] = None /\ i \in KnownIds => sessions'[i] = None
<1>1. CASE Register(c)
  <2>1. pc[c] = "register" /\ sessions' = [sessions EXCEPT ![sid[c]] = c]
    BY <1>1 DEF Register
  <2>2. sid[c] \in Ids
    BY <2>1 DEF IInv, TypeOK, IdsAgree
  <2>3. CASE i = sid[c]
    <3>1. i \notin KnownIds
      BY <2>1, <2>2, <2>3 DEF KnownIds, IInv, IdsAgree
    <3>2. sessions[i] \in {None, c}
      BY <2>2, <2>3, IdHolder DEF IInv, TypeOK
    <3> QED BY <2>1, <2>3, <3>1, <3>2 DEF IInv, TypeOK
  <2>4. CASE i # sid[c]
    BY <2>1, <2>4 DEF IInv, TypeOK
  <2> QED BY <2>3, <2>4
<1>2. CASE RemoveSession(c)
  <2>1. \/ sessions' = sessions
        \/ sessions' = [sessions EXCEPT ![CloseId(c)] = None]
    BY <1>2 DEF RemoveSession
  <2> QED BY <2>1 DEF IInv, TypeOK
<1>3. CASE SwapSessions(c)
  BY <1>3 DEF SwapSessions, IInv, TypeOK
<1>4. CASE UNCHANGED sessions
  BY <1>4
<1>5. \/ Register(c) \/ RemoveSession(c) \/ SwapSessions(c)
      \/ UNCHANGED sessions
  BY DEF Step, CoreStep, TimerStep, ServerStep, Arrive, RejectConfig,
         NothingToList, OpenHandle, PingFails, PingSucceeds, ProbeAnswers,
         PingPanics, ProbePanics, CancelSession, CancelNext, AllClosed, CloseDb, Get,
         LookUp, Fire, Check, Track, Expire, StartStatement, StatementRefused,
         StatementEnds, EndStatement, StatementAborts, StatementPanics, Untrack,
         Release, CatalogRefused, CatalogEnds
<1> QED BY <1>1, <1>2, <1>3, <1>4, <1>5

\* A session id means one session for ever: a client that holds the id of a
\* closed session is refused, and never served by another session.
THEOREM IdsStayClosed == Spec => ClosedIdsStayClosed
<1> DEFINE Stay ==
      \A i \in Ids : LET was == sessions[i] IN
        /\ was # None => sessions'[i] \in {was, None}
        /\ was = None /\ i \in KnownIds => sessions'[i] = None
<1>1. IInv /\ [Next]_vars => [Stay]_vars
  <2> SUFFICES ASSUME IInv, Next PROVE Stay \/ UNCHANGED vars
    OBVIOUS
  <2>1. ASSUME NEW c \in Calls, Step(c) PROVE Stay
    BY <2>1, StepIdsStay
  <2> QED BY <2>1 DEF Next, Idle
<1> QED BY <1>1, Inv, PTL DEF Spec, ClosedIdsStayClosed

-----------------------------------------------------------------------------
\* From where its Manager.Close took it out of the map, a probe stays out.
Forgotten(c) ==
  /\ req[c].kind \in ProbeKinds
  /\ pc[c] \in {"cancelAll", "closeDb"} \/ (pc[c] = "done" /\ outcome[c] # "internal")
  => ~Registered(c)

\* Only Register puts a session into the map: its own.
LEMMA StepRegisters ==
  ASSUME IInv, NEW c \in Calls, Step(c), NEW d \in Calls, Registered(d)'
  PROVE  Registered(d) \/ (d = c /\ Register(c))
<1>0. TypeOK
  BY DEF IInv
<1>1. PICK i \in Ids : sessions'[i] = d
  BY DEF Registered
<1>2. CASE Register(c)
  <2>1. sessions' = [sessions EXCEPT ![sid[c]] = c]
    BY <1>2 DEF Register
  <2>2. sessions'[i] = sessions[i] \/ sessions'[i] = c
    BY <2>1, <1>0 DEF TypeOK
  <2> QED BY <1>1, <1>2, <2>2 DEF Registered
<1>3. CASE RemoveSession(c) \/ SwapSessions(c)
  <2>1. sessions'[i] \in {sessions[i], None}
    BY <1>3, <1>0 DEF RemoveSession, SwapSessions, TypeOK
  <2> QED BY <1>1, <2>1 DEF Registered
<1>4. CASE UNCHANGED sessions
  BY <1>4, <1>1 DEF Registered
<1>5. \/ Register(c) \/ RemoveSession(c) \/ SwapSessions(c)
      \/ UNCHANGED sessions
  BY DEF Step, CoreStep, TimerStep, ServerStep, Arrive, RejectConfig,
         NothingToList, OpenHandle, PingFails, PingSucceeds, ProbeAnswers,
         PingPanics, ProbePanics, CancelSession, CancelNext, AllClosed, CloseDb, Get,
         LookUp, Fire, Check, Track, Expire, StartStatement, StatementRefused,
         StatementEnds, EndStatement, StatementAborts, StatementPanics, Untrack,
         Release, CatalogRefused, CatalogEnds
<1> QED BY <1>2, <1>3, <1>4, <1>5

\* A probe that leaves the map unregistered stays so, whatever step is taken.
LEMMA StepForgets ==
  ASSUME IInv, NEW c \in Calls, Step(c), NEW d \in Calls, Forgotten(d)
  PROVE  Forgotten(d)'
<1>0. TypeOK /\ Positions /\ IdsAgree /\ IdsAgree'
  BY StepIds DEF IInv
<1> SUFFICES ASSUME req'[d].kind \in ProbeKinds, Registered(d)',
                    \/ pc'[d] \in {"cancelAll", "closeDb"}
                    \/ pc'[d] = "done" /\ outcome'[d] # "internal"
             PROVE  FALSE
  BY DEF Forgotten
<1> USE DEF Goto, Return
<1>1. Registered(d) \/ (d = c /\ Register(c))
  BY StepRegisters
<1>2. CASE RemoveSession(c) /\ d = c
  <2>1. sid'[d] = sid[c] /\ req[c].kind \in ProbeKinds
    BY <1>2 DEF RemoveSession
  <2>2. \/ sessions'[sid[c]] = None
        \/ sessions[sid[c]] = None /\ sessions' = sessions
        \/ sid[c] \notin Ids
    BY <1>2, <2>1, <1>0 DEF RemoveSession, CloseId, TypeOK
  <2>3. PICK i \in Ids : sessions'[i] = d
    BY DEF Registered
  <2>4. sid'[d] = i
    BY <2>3, <1>0 DEF IdsAgree
  <2> QED BY <2>1, <2>2, <2>3, <2>4
<1>3. CASE RejectConfig(c) \/ NothingToList(c) \/ PingFails(c)
  <2>1. d # c => pc'[d] = pc[d] /\ req'[d] = req[d] /\ outcome'[d] = outcome[d]
    BY <1>3, <1>0 DEF RejectConfig, NothingToList, PingFails, TypeOK
  <2>2. pc[c] \in {"open", "ping"} /\ sessions' = sessions /\ sid' = sid
    BY <1>3 DEF RejectConfig, NothingToList, PingFails
  <2>3. d # c
    <3>1. PICK i \in Ids : sessions[i] = d
      BY <2>2 DEF Registered
    <3>2. sid[d] = i
      BY <3>1, <1>0 DEF IdsAgree
    <3> QED BY <3>2, <2>2, <1>0 DEF IdsAgree
  <2>4. Registered(d)
    BY <2>2 DEF Registered
  <2> QED BY <2>1, <2>3, <2>4 DEF Forgotten
<1>4. CASE ~(RemoveSession(c) /\ d = c) /\ ~RejectConfig(c) /\ ~NothingToList(c)
           /\ ~PingFails(c)
  <2>1. /\ req[d].kind \in ProbeKinds
        /\ \/ pc[d] \in {"cancelAll", "closeDb"}
           \/ pc[d] = "done" /\ outcome[d] # "internal"
    <3>1. CASE d # c
      <4>1. CASE Arrive(c) \/ OpenHandle(c) \/ PingSucceeds(c) \/ PingPanics(c)
                 \/ Register(c) \/ ProbeAnswers(c) \/ ProbePanics(c)
        BY <3>1, <4>1, <1>0 DEF Arrive, OpenHandle, PingSucceeds, PingPanics,
           Register, ProbeAnswers, ProbePanics, TypeOK
      <4>2. CASE RemoveSession(c) \/ SwapSessions(c) \/ CancelSession(c) \/ CancelNext(c)
                 \/ AllClosed(c) \/ CloseDb(c)
        BY <3>1, <4>2, <1>0 DEF RemoveSession, SwapSessions, CancelSession, CancelNext,
           CancelAll, AllClosed, CloseDb, TypeOK
      <4>3. CASE Get(c) \/ LookUp(c) \/ Fire(c) \/ Check(c) \/ Track(c) \/ Expire(c)
        BY <3>1, <4>3, <1>0 DEF Get, LookUp, Fire, Check, Track, Expire, TypeOK
      <4>4. CASE StartStatement(c) \/ StatementRefused(c) \/ StatementEnds(c)
                 \/ StatementAborts(c) \/ StatementPanics(c)
        BY <3>1, <4>4, <1>0 DEF StartStatement, StatementRefused, StatementEnds,
           EndStatement, StatementAborts, StatementPanics, TypeOK
      <4>5. CASE Untrack(c) \/ Release(c) \/ CatalogRefused(c) \/ CatalogEnds(c)
        BY <3>1, <4>5, <1>0 DEF Untrack, Release, CatalogRefused, CatalogEnds, TypeOK
      <4> QED BY <1>4, <4>1, <4>2, <4>3, <4>4, <4>5
        DEF Step, CoreStep, TimerStep, ServerStep
    <3>2. CASE d = c
      <4>1. CASE Arrive(c) \/ OpenHandle(c) \/ PingSucceeds(c) \/ PingPanics(c)
                 \/ Register(c) \/ ProbeAnswers(c) \/ ProbePanics(c)
        BY <3>2, <4>1, <1>0 DEF Arrive, FirstStep, OpenHandle, PingSucceeds, PingPanics,
           Register, ProbeAnswers, ProbePanics, TypeOK
      <4>2. CASE SwapSessions(c) \/ CancelSession(c) \/ CancelNext(c)
                 \/ AllClosed(c) \/ CloseDb(c)
        BY <3>2, <4>2, <1>0 DEF SwapSessions, CancelSession, CancelNext, ProbeKinds,
           CancelAll, AllClosed, CloseDb, TypeOK
      <4>3. CASE Expire(c)
        BY <3>2, <4>3, <1>0 DEF Expire, TypeOK
      <4>4. req[c].kind \in ProbeKinds \/ pc[c] = "idle"
        BY <3>2, <1>0 DEF Step, CoreStep, TimerStep, ServerStep, RejectConfig,
           NothingToList, OpenHandle, PingFails,
           PingSucceeds, ProbeAnswers, PingPanics, ProbePanics, Register,
           RemoveSession, SwapSessions, CancelSession, CancelNext, AllClosed, CloseDb,
           Get, LookUp, Fire, Check, Track, Expire, StartStatement, StatementRefused,
           StatementEnds, EndStatement, StatementAborts, StatementPanics, Untrack,
           Release, CatalogRefused, CatalogEnds, Arrive
      <4>5. pc[c] \in {"idle", "open", "ping", "register", "probe", "remove",
                       "cancelAll", "closeDb", "done"}
        BY <4>4, <1>0 DEF Positions, Position, TypeOK, PCs, ProbeKinds
      <4> QED BY <1>4, <3>2, <4>1, <4>2, <4>3, <4>5 DEF Step, CoreStep, TimerStep,
         ServerStep, Get, LookUp, Fire, Check, Track, StartStatement,
         StatementRefused, StatementEnds, StatementAborts, StatementPanics,
         Untrack, Release, CatalogRefused, CatalogEnds
    <3> QED BY <3>1, <3>2
  <2>2. ~Register(c) \/ d # c
    BY <2>1 DEF Register
  <2> QED BY <1>1, <2>1, <2>2 DEF Forgotten
<1> QED BY <1>2, <1>3, <1>4

\* The session of a probe is gone when the probe has answered, whatever closes
\* and closeAlls ran beside it, unless the driver panicked under it.
THEOREM ProbesGone == Spec => []ProbesForgotten
<1> DEFINE Forgetting == \A c \in Calls : Forgotten(c)
<1>1. Init => Forgetting
  BY DEF Init, Forgotten
<1>2. IInv /\ Forgetting /\ [Next]_vars => Forgetting'
  <2> SUFFICES ASSUME IInv, Forgetting, [Next]_vars PROVE Forgetting'
    OBVIOUS
  <2>1. ASSUME NEW c \in Calls, Step(c) PROVE Forgetting'
    BY <2>1, StepForgets
  <2>2. CASE UNCHANGED vars
    BY <2>2 DEF vars, Forgotten, Registered
  <2> QED BY <2>1, <2>2 DEF Next, Idle
<1>3. Forgetting => ProbesForgotten
  BY DEF Forgotten, ProbesForgotten
<1> QED BY <1>1, <1>2, <1>3, Inv, PTL DEF Spec

-----------------------------------------------------------------------------
(* The executions.                                                         *)

HIDE CallsAssumption DEF None, Calls, Ids

\* Every action is of a call, and changes what it says: which actions change
\* which variable.
LEMMA WhoChanges ==
  ASSUME NEW c \in Calls, Step(c)
  PROVE  /\ \/ CancelSession(c) \/ CancelNext(c) \/ Fire(c) \/ Check(c)
            \/ Expire(c) \/ Release(c) \/ UNCHANGED ctx
         /\ \/ CancelSession(c) \/ CancelNext(c) \/ Track(c) \/ Untrack(c)
            \/ UNCHANGED running
         /\ RemoveSession(c) \/ CancelNext(c) \/ Get(c) \/ UNCHANGED sess
         /\ LookUp(c) \/ UNCHANGED target
         /\ Arrive(c) \/ UNCHANGED req
         /\ PingSucceeds(c) \/ UNCHANGED sid
         /\ OpenHandle(c) \/ PingFails(c) \/ CloseDb(c) \/ UNCHANGED db
         /\ SwapSessions(c) \/ CancelNext(c) \/ UNCHANGED todo
<1> USE DEF Step, CoreStep, TimerStep, ServerStep, Arrive, RejectConfig,
         NothingToList, OpenHandle, PingFails, PingSucceeds, ProbeAnswers,
         PingPanics, ProbePanics, Register, RemoveSession, SwapSessions,
         CancelSession, CancelNext, AllClosed, CloseDb, Get, LookUp, Fire, Check,
         Track, Expire, StartStatement, StatementRefused, StatementEnds,
         EndStatement, StatementAborts, StatementPanics, Untrack, Release,
         CatalogRefused, CatalogEnds
<1>1. \/ CancelSession(c) \/ CancelNext(c) \/ Fire(c) \/ Check(c)
      \/ Expire(c) \/ Release(c) \/ UNCHANGED ctx
  OBVIOUS
<1>2. \/ CancelSession(c) \/ CancelNext(c) \/ Track(c) \/ Untrack(c)
      \/ UNCHANGED running
  OBVIOUS
<1>3. RemoveSession(c) \/ CancelNext(c) \/ Get(c) \/ UNCHANGED sess
  OBVIOUS
<1>4. LookUp(c) \/ UNCHANGED target
  OBVIOUS
<1>5. Arrive(c) \/ UNCHANGED req
  OBVIOUS
<1>6. PingSucceeds(c) \/ UNCHANGED sid
  OBVIOUS
<1>7. OpenHandle(c) \/ PingFails(c) \/ CloseDb(c) \/ UNCHANGED db
  OBVIOUS
<1>8. SwapSessions(c) \/ CancelNext(c) \/ UNCHANGED todo
  OBVIOUS
<1> QED BY <1>1, <1>2, <1>3, <1>4, <1>5, <1>6, <1>7, <1>8

\* A statement ends as what its context says.
LEMMA ResultsGrow ==
  ASSUME NEW c \in Calls, Step(c)
  PROVE  \/ UNCHANGED results
         \/ \E label \in Labels :
              /\ EndStatement(c, label)
              /\ pc[c] \in {"loop", "server"} /\ IsExecute(c)
              /\ label = "cancelled" => ctx[c] = "cancelled"
<1>1. CASE StatementRefused(c) \/ StatementAborts(c)
  BY <1>1 DEF StatementRefused, StatementAborts, ErrorLabel, Labels
<1>2. CASE StatementEnds(c)
  BY <1>2 DEF StatementEnds, Labels
<1>3. \/ StatementRefused(c) \/ StatementAborts(c) \/ StatementEnds(c)
      \/ UNCHANGED results
  BY DEF Step, CoreStep, TimerStep, ServerStep, Arrive, RejectConfig,
         NothingToList, OpenHandle, PingFails, PingSucceeds, ProbeAnswers,
         PingPanics, ProbePanics, Register, RemoveSession, SwapSessions,
         CancelSession, CancelNext, AllClosed, CloseDb, Get, LookUp, Fire, Check,
         Track, Expire, StartStatement, StatementPanics, Untrack, Release,
         CatalogRefused, CatalogEnds
<1> QED BY <1>1, <1>2, <1>3

\* Where a step takes the call that makes it.
LEMMA Moves ==
  ASSUME TypeOK, Positions, NEW c \in Calls, Step(c)
  PROVE  /\ \A d \in Calls \ {c} : pc'[d] = pc[d] /\ outcome'[d] = outcome[d]
         /\ pc'[c] \in {"idle", "get", "check"} => pc[c] \in {"idle", "get"} \/ pc'[c] = pc[c]
         /\ pc[c] # "idle" => pc'[c] # "idle"
         /\ pc'[c] \in {"track", "loop", "server", "untrack", "release"} =>
              \/ pc[c] \in {"track", "loop", "server", "untrack", "release"}
              \/ Check(c) \/ (Get(c) /\ ~IsExecute(c))
         /\ pc'[c] = "fire" => pc'[c] = pc[c] \/ LookUp(c)
         /\ outcome[c] = "hit" => outcome'[c] = "hit" \/ pc[c] # "done"
         /\ outcome'[c] = "hit" =>
              pc'[c] = "done" \/ (outcome[c] = "hit" /\ pc[c] # "done")
         /\ pc'[c] \in {"loop", "server"} =>
              \/ pc[c] \in {"loop", "server"}
              \/ Track(c)
              \/ Check(c) /\ req[c].op = NoOp
              \/ Get(c) /\ ~IsExecute(c)
<1> USE DEF Goto, Return, TypeOK
<1>1. CASE Arrive(c)
  BY <1>1 DEF Arrive, FirstStep
<1>2. CASE RejectConfig(c) \/ NothingToList(c) \/ OpenHandle(c) \/ PingFails(c)
           \/ PingPanics(c) \/ Register(c) \/ ProbeAnswers(c) \/ ProbePanics(c)
           \/ PingSucceeds(c)
  BY <1>2 DEF RejectConfig, NothingToList, OpenHandle, PingFails, PingPanics,
     Register, ProbeAnswers, ProbePanics, PingSucceeds
<1>3. CASE RemoveSession(c) \/ SwapSessions(c) \/ CancelSession(c) \/ CancelNext(c)
           \/ AllClosed(c) \/ CloseDb(c)
  BY <1>3 DEF RemoveSession, SwapSessions, CancelSession, CancelNext,
     CancelAll, AllClosed, CloseDb
<1>4. CASE Get(c)
  BY <1>4 DEF Get, IsExecute
<1>5. CASE LookUp(c) \/ Fire(c) \/ Track(c) \/ StartStatement(c)
  BY <1>5 DEF LookUp, Fire, Track, StartStatement
<1>6. CASE Check(c)
  <2>1. \/ pc' = [pc EXCEPT ![c] = "done"]
        \/ pc' = [pc EXCEPT ![c] = "loop"] /\ req[c].op = NoOp
        \/ pc' = [pc EXCEPT ![c] = "track"]
    BY <1>6 DEF Check
  <2>2. /\ pc[c] = "check" /\ UNCHANGED req
        /\ \A d \in Calls \ {c} : outcome'[d] = outcome[d]
    BY <1>6 DEF Check
  <2>3. /\ \A d \in Calls \ {c} : pc'[d] = pc[d]
        /\ pc'[c] \in {"done", "loop", "track"}
        /\ pc'[c] = "loop" => req[c].op = NoOp
    <3>1. pc \in [Calls -> PCs]
      OBVIOUS
    <3>2. CASE pc' = [pc EXCEPT ![c] = "done"]
      BY <3>1, <3>2
    <3>3. CASE pc' = [pc EXCEPT ![c] = "loop"] /\ req[c].op = NoOp
      BY <3>1, <3>3
    <3>4. CASE pc' = [pc EXCEPT ![c] = "track"]
      BY <3>1, <3>4
    <3> QED BY <2>1, <3>2, <3>3, <3>4
  <2>4. /\ \A d \in Calls \ {c} : pc'[d] = pc[d] /\ outcome'[d] = outcome[d]
        /\ pc[c] # "idle" /\ pc'[c] # "idle"
        /\ outcome[c] = "hit" => pc[c] # "done"
        /\ outcome'[c] = "hit" => pc'[c] = "done" \/ outcome[c] = "hit"
    <3>1. UNCHANGED outcome \/ outcome'[c] # "hit"
      BY <1>6 DEF Check
    <3> QED BY <2>2, <2>3, <3>1
  <2>5. /\ pc'[c] \notin {"idle", "get", "check", "fire", "server"}
        /\ pc'[c] = "loop" => Check(c) /\ req[c].op = NoOp
    BY <1>6, <2>3
  <2>6. /\ pc'[c] \in {"idle", "get", "check"} => pc[c] \in {"idle", "get"} \/ pc'[c] = pc[c]
        /\ pc[c] # "idle" => pc'[c] # "idle"
        /\ pc'[c] = "fire" => pc'[c] = pc[c] \/ LookUp(c)
        /\ outcome[c] = "hit" => outcome'[c] = "hit" \/ pc[c] # "done"
        /\ outcome'[c] = "hit" =>
              pc'[c] = "done" \/ (outcome[c] = "hit" /\ pc[c] # "done")
    BY <2>4, <2>5
  <2>7. pc'[c] \in {"loop", "server"} => Check(c) /\ req[c].op = NoOp
    BY <2>5
  <2>8. \A d \in Calls \ {c} : pc'[d] = pc[d] /\ outcome'[d] = outcome[d]
    BY <2>4
  <2> QED BY ONLY <1>6, <2>6, <2>7, <2>8
<1>7. CASE StatementRefused(c) \/ StatementEnds(c) \/ StatementAborts(c)
  BY <1>7 DEF StatementRefused, StatementEnds, StatementAborts, EndStatement
<1>8. CASE StatementPanics(c) \/ Untrack(c) \/ Release(c) \/ CatalogRefused(c)
           \/ CatalogEnds(c) \/ Expire(c)
  BY <1>8 DEF StatementPanics, Untrack, Release, CatalogRefused, CatalogEnds, Expire
<1> QED BY <1>1, <1>2, <1>3, <1>4, <1>5, <1>6, <1>7, <1>8
  DEF Step, CoreStep, TimerStep, ServerStep

\* What a call that has its context carries, it carries for good; a context
\* that was cancelled stays so, and a session keeps its id.
LEMMA CarriedOn ==
  ASSUME IInv, ExecInv, NEW c \in Calls, Step(c)
  PROVE  /\ \A d \in Calls : ctx[d] # "none" =>
              /\ ctx'[d] # "none" /\ sess'[d] = sess[d] /\ req'[d] = req[d]
              /\ ctx[d] = "cancelled" => ctx'[d] = "cancelled"
              /\ ctx'[d] \in {ctx[d], "cancelled", "expired", "released"}
         /\ \A h \in Calls : sid[h] # None =>
              sid'[h] # None /\ req'[h] = req[h] /\ pc[h] \notin {"idle", "open", "ping"}
         /\ \A d \in Calls : pc[d] # "idle" => req'[d] = req[d]
<1>0. TypeOK /\ Positions /\ IdsAgree
  BY DEF IInv
<1>1. \A d \in Calls : ctx[d] # "none" =>
        IsExecute(d) /\ pc[d] \notin {"idle", "get", "check"}
  BY DEF ExecInv, Passed
<1>2. \A d \in Calls : pc[d] # "idle" => req'[d] = req[d]
  <2>1. CASE Arrive(c)
    BY <2>1, <1>0 DEF Arrive, TypeOK
  <2> QED BY <2>1, WhoChanges
<1>3. \A d \in Calls : ctx[d] # "none" => sess'[d] = sess[d]
  <2>1. CASE RemoveSession(c) \/ CancelNext(c)
    <3>1. ~IsExecute(c)
      BY <2>1, <1>0 DEF RemoveSession, CancelNext, Positions, Position, IsExecute,
         CloseKinds, ProbeKinds
    <3>2. \A d \in Calls \ {c} : sess'[d] = sess[d]
      BY <2>1, <1>0 DEF RemoveSession, CancelNext, TypeOK
    <3> QED BY <3>1, <3>2, <1>1
  <2>2. CASE Get(c)
    <3>1. pc[c] = "get" /\ \A d \in Calls \ {c} : sess'[d] = sess[d]
      BY <2>2, <1>0 DEF Get, TypeOK
    <3> QED BY <3>1, <1>1
  <2> QED BY <2>1, <2>2, WhoChanges
<1>4. \A d \in Calls : ctx[d] # "none" =>
        /\ ctx'[d] # "none"
        /\ ctx[d] = "cancelled" => ctx'[d] = "cancelled"
        /\ ctx'[d] \in {ctx[d], "cancelled", "expired", "released"}
  <2>1. CASE CancelSession(c) \/ CancelNext(c)
    BY <2>1, <1>0 DEF CancelSession, CancelNext, CancelAll, TypeOK
  <2>2. CASE Fire(c) \/ Expire(c) \/ Release(c)
    BY <2>2, <1>0 DEF Fire, Expire, Release, TypeOK
  <2>3. CASE Check(c)
    <3>1. pc[c] = "check" /\ \A d \in Calls \ {c} : ctx'[d] = ctx[d]
      BY <2>3, <1>0 DEF Check, TypeOK
    <3> QED BY <3>1, <1>1
  <2> QED BY <2>1, <2>2, <2>3, WhoChanges
<1>5. \A h \in Calls : sid[h] # None => pc[h] \notin {"idle", "open", "ping"}
  BY <1>0 DEF IdsAgree
<1>6. \A h \in Calls : sid[h] # None => sid'[h] # None
  <2>1. CASE PingSucceeds(c)
    BY <2>1, <1>0, <1>5 DEF PingSucceeds, TypeOK
  <2> QED BY <2>1, WhoChanges
<1> QED BY <1>1, <1>2, <1>3, <1>4, <1>5, <1>6

LEMMA StepHeld == ASSUME IInv, ExecInv, NEW c \in Calls, Step(c) PROVE Held'
<1>0. TypeOK /\ Positions /\ IdsAgree /\ Held
  BY DEF IInv, ExecInv
<1>1. \A h \in Calls : sid[h] # None => sid'[h] # None
  BY CarriedOn
<1>2. \A i \in Ids : sessions[i] # None => sessions[i] \in Calls /\ sid[sessions[i]] # None
  <2>1. \A i \in Ids : sessions[i] \in Calls \cup {None}
    BY <1>0 DEF TypeOK
  <2>2. \A i \in Ids : sessions[i] # None => sid[sessions[i]] = i
    BY <1>0 DEF IdsAgree
  <2>3. \A i \in Ids : i # None
    BY DEF Ids, None
  <2> QED BY <2>1, <2>2, <2>3
<1>3. \A d \in Calls : sess'[d] # None => sess'[d] \in Calls /\ sid[sess'[d]] # None
  <2>1. CASE RemoveSession(c)
    <3>1. sess' = sess \/ \E i \in Ids : sessions[i] # None /\ sess' = [sess EXCEPT ![c] = sessions[i]]
      BY <2>1 DEF RemoveSession
    <3> QED BY <3>1, <1>0, <1>2 DEF TypeOK, Held
  <2>2. CASE CancelNext(c)
    <3>1. \E h \in todo[c] : sess' = [sess EXCEPT ![c] = h]
      BY <2>2 DEF CancelNext
    <3> QED BY <3>1, <1>0 DEF TypeOK, Held
  <2>3. CASE Get(c)
    <3>1. sess' = sess \/ \E i \in Ids : sessions[i] # None /\ sess' = [sess EXCEPT ![c] = sessions[i]]
      BY <2>3 DEF Get
    <3> QED BY <3>1, <1>0, <1>2 DEF TypeOK, Held
  <2>4. CASE UNCHANGED sess
    BY <2>4, <1>0 DEF TypeOK, Held
  <2> QED BY <2>1, <2>2, <2>3, <2>4, WhoChanges
<1>4. \A d \in Calls : \A h \in todo'[d] : h \in Calls /\ sid[h] # None
  <2>1. CASE SwapSessions(c)
    BY <2>1, <1>0, <1>2 DEF SwapSessions, TypeOK, Held
  <2>2. CASE CancelNext(c)
    BY <2>2, <1>0 DEF CancelNext, TypeOK, Held
  <2>3. CASE UNCHANGED todo
    BY <2>3, <1>0 DEF TypeOK, Held
  <2> QED BY <2>1, <2>2, <2>3, WhoChanges
<1>5. \A d \in Calls : pc'[d] \in {"idle", "get"} => sess'[d] = None
  <2>1. \A d \in Calls : pc'[d] \in {"idle", "get"} => pc[d] \in {"idle", "get"} /\ sess[d] = None
    BY <1>0, Moves DEF Held
  <2>2. \A d \in Calls : pc'[d] \in {"idle", "get"} => sess'[d] = sess[d]
    <3>1. CASE RemoveSession(c)
      BY <3>1, <1>0, <2>1 DEF RemoveSession, TypeOK
    <3>2. CASE CancelNext(c)
      BY <3>2, <1>0, <2>1 DEF CancelNext, TypeOK
    <3>3. CASE Get(c)
      BY <3>3, <1>0, <2>1 DEF Get, Goto, Return, TypeOK
    <3> QED BY <3>1, <3>2, <3>3, WhoChanges
  <2> QED BY <2>1, <2>2
<1>6. \A d \in Calls : outcome'[d] = "hit" => pc'[d] = "done"
  BY <1>0, Moves DEF Held
<1> QED BY <1>1, <1>3, <1>4, <1>5, <1>6 DEF Held

\* Whether the guard refuses a batch is settled once its session is found.
LEMMA GuardStays ==
  ASSUME IInv, ExecInv, NEW c \in Calls, Step(c),
         NEW d \in Calls, sess[d] # None, pc[d] # "idle", sess'[d] = sess[d]
  PROVE  Guarded(d)' <=> Guarded(d)
<1>1. sess[d] \in Calls /\ sid[sess[d]] # None
  BY DEF IInv, TypeOK, ExecInv, Held
<1>2. req'[d] = req[d] /\ req'[sess[d]] = req[sess[d]]
  BY <1>1, CarriedOn
<1> QED BY <1>2 DEF Guarded, Stmts

LEMMA StepPassed ==
  ASSUME IInv, ExecInv, NEW c \in Calls, Step(c), NEW d \in Calls PROVE Passed(d)'
<1>0. TypeOK /\ Positions /\ TypeOK'
  BY StepTypes DEF IInv
<1>1. Passed(d)
  BY DEF ExecInv
<1>2. ctx'[d] # "none" => /\ IsExecute(d)' /\ pc'[d] \notin {"idle", "get", "check"}
                          /\ sess'[d] # None /\ ~Guarded(d)'
  <2>1. CASE ctx[d] # "none"
    <3>1. /\ IsExecute(d) /\ pc[d] \notin {"idle", "get", "check"} /\ sess[d] # None
          /\ ~Guarded(d)
      BY <2>1, <1>1 DEF Passed
    <3>2. sess'[d] = sess[d] /\ req'[d] = req[d]
      BY <2>1, CarriedOn
    <3>3. pc'[d] \notin {"idle", "get", "check"}
      BY <1>0, <3>1, Moves
    <3>4. ~Guarded(d)'
      BY <3>1, <3>2, GuardStays
    <3> QED BY <3>1, <3>2, <3>3, <3>4 DEF IsExecute
  <2>2. CASE ctx[d] = "none" /\ ctx'[d] # "none"
    <3>1. CASE Check(c)
      <4>1. d = c /\ ~Guarded(c) /\ pc[c] = "check" /\ UNCHANGED <<req, sess>>
            /\ pc'[c] \in {"loop", "track"}
        BY <3>1, <2>2, <1>0 DEF Check, Goto, Return, TypeOK
      <4>2. IsExecute(c) /\ sess[c] # None
        BY <4>1, <1>0 DEF Positions, Position, IsExecute
      <4> QED BY <4>1, <4>2 DEF IsExecute, Guarded, Stmts
    <3>2. CASE CancelSession(c) \/ CancelNext(c)
      BY <3>2, <2>2, <1>0 DEF CancelSession, CancelNext, CancelAll, TypeOK
    <3>3. CASE Fire(c) \/ Expire(c) \/ Release(c)
      BY <3>3, <2>2, <1>0 DEF Fire, Expire, Release, TypeOK
    <3> QED BY <2>2, <3>1, <3>2, <3>3, WhoChanges
  <2> QED BY <2>1, <2>2
<1>3. ASSUME IsExecute(d)', pc'[d] \in {"track", "loop", "server", "untrack", "release"}
      PROVE  ctx'[d] # "none"
  <2>1. CASE pc[d] \in {"track", "loop", "server", "untrack", "release"}
    <3>1. IsExecute(d)
      BY <2>1, <1>3, CarriedOn DEF IsExecute
    <3> QED BY <2>1, <3>1, <1>1, CarriedOn DEF Passed
  <2>2. CASE pc[d] \notin {"track", "loop", "server", "untrack", "release"}
    <3>1. d = c /\ (Check(c) \/ (Get(c) /\ ~IsExecute(c)))
      BY <2>2, <1>3, <1>0, Moves
    <3>2. CASE Check(c)
      BY <3>1, <3>2, <1>3, <1>0 DEF Check, Goto, Return, TypeOK
    <3>3. CASE Get(c) /\ ~IsExecute(c)
      BY <3>1, <3>3, <1>3 DEF Get, IsExecute
    <3> QED BY <3>1, <3>2, <3>3
  <2> QED BY <2>1, <2>2
<1>4. /\ results'[d] # <<>> => ctx'[d] # "none"
      /\ \A n \in DOMAIN results'[d] : results'[d][n] = "cancelled" => ctx'[d] = "cancelled"
  <2>1. CASE results'[d] = results[d]
    <3>1. results[d] # <<>> => ctx[d] # "none"
      BY <1>1 DEF Passed
    <3>2. \A n \in DOMAIN results[d] : results[d][n] = "cancelled" => ctx[d] = "cancelled"
      BY <1>1 DEF Passed
    <3> QED BY <2>1, <3>1, <3>2, CarriedOn
  <2>2. CASE results'[d] # results[d]
    <3>1. PICK label \in Labels : /\ EndStatement(c, label)
                                  /\ pc[c] \in {"loop", "server"} /\ IsExecute(c)
                                  /\ label = "cancelled" => ctx[c] = "cancelled"
      BY <2>2, ResultsGrow
    <3>2. d = c /\ results'[c] = Append(results[c], label) /\ UNCHANGED ctx
      BY <3>1, <2>2, <1>0 DEF EndStatement, TypeOK
    <3>3. results[c] \in Seq(Labels)
      BY <1>0 DEF TypeOK
    <3>4. \A n \in DOMAIN results'[c] : \/ n \in DOMAIN results[c] /\ results'[c][n] = results[c][n]
                                        \/ results'[c][n] = label
      BY <3>2, <3>3
    <3> QED BY <3>1, <3>2, <3>4, <1>1 DEF Passed
  <2> QED BY <2>1, <2>2
<1> QED BY <1>2, <1>3, <1>4 DEF Passed

LEMMA StepTracking == ASSUME IInv, ExecInv, NEW c \in Calls, Step(c) PROVE Tracking'
<1>0. TypeOK /\ Positions /\ Tracking
  BY DEF IInv, ExecInv
<1>1. \A d \in Calls : \A h, o : Carries(d, h, o) => Carries(d, h, o)'
  BY CarriedOn DEF Carries
<1>2. \A h \in Calls, o \in OpIds : running[h][o] \in Calls \cup {None}
  BY <1>0 DEF TypeOK
<1>3. ASSUME NEW h \in Calls, NEW o \in OpIds, NEW d \in Calls, running'[h][o] = d
      PROVE  Carries(d, h, o)'
  <2>0. d # None
    BY DEF Calls, None
  <2>1. CASE running[h][o] = d
    <3>1. Carries(running[h][o], h, o)
      BY <2>0, <2>1, <1>0 DEF Tracking
    <3> QED BY <3>1, <2>1, <1>1
  <2>2. CASE running[h][o] # d
    <3>1. CASE Track(c)
      <4>1. /\ pc[c] = "track" /\ UNCHANGED <<ctx, sess, req>>
            /\ running' = [running EXCEPT ![sess[c]][req[c].op] = c]
        BY <3>1 DEF Track
      <4>2. sess[c] = h /\ req[c].op = o /\ d = c
        BY <4>1, <2>2, <1>3, <1>0 DEF TypeOK
      <4>3. IsExecute(c)
        BY <4>1, <1>0 DEF Positions, Position, IsExecute
      <4>4. ctx[c] # "none"
        BY <4>1, <4>3 DEF ExecInv, Passed
      <4> QED BY <4>1, <4>2, <4>4 DEF Carries
    <3>2. CASE CancelSession(c) \/ CancelNext(c)
      <4>1. \E g \in Calls : running' = [running EXCEPT ![g] = [p \in OpIds |-> None]]
        BY <3>2, <1>0 DEF CancelSession, CancelNext, CancelAll, TypeOK, Positions, Position
      <4>2. running'[h][o] \in {running[h][o], None}
        BY <4>1, <1>0 DEF TypeOK
      <4> QED BY <4>2, <2>0, <2>2, <1>3
    <3>3. CASE Untrack(c)
      <4>1. running' = [running EXCEPT ![sess[c]][req[c].op] = None]
        BY <3>3 DEF Untrack
      <4>2. running'[h][o] \in {running[h][o], None}
        BY <4>1, <1>0 DEF TypeOK
      <4> QED BY <4>2, <2>0, <2>2, <1>3
    <3> QED BY <2>2, <1>3, <3>1, <3>2, <3>3, WhoChanges
  <2> QED BY <2>1, <2>2
<1>4. ASSUME NEW d \in Calls, pc'[d] = "fire"
      PROVE  Carries(target[d], sess[d], req[d].op)'
  <2>1. CASE LookUp(c) /\ d = c
    <3>1. /\ pc[c] = "lookup" /\ UNCHANGED <<sess, req, ctx>>
          /\ target' = [target EXCEPT ![c] = running[sess[c]][req[c].op]]
          /\ target'[c] # None
      BY <2>1, <1>4, <1>0 DEF LookUp, Goto, Return, TypeOK
    <3>2. req[c].kind = "cancel" /\ sess[c] \in Calls
      BY <3>1, <1>0 DEF Positions, Position, TypeOK
    <3>3. req[c] \in Requests
      BY <3>1, <1>0 DEF TypeOK, Positions, Position
    <3>4. req[c].op \in OpIds
      BY <3>2, <3>3, RequestShapes DEF CancelRequests
    <3>5. target'[c] = running[sess[c]][req[c].op]
      BY <3>1, <1>0 DEF TypeOK
    <3>6. Carries(running[sess[c]][req[c].op], sess[c], req[c].op)
      BY <3>1, <3>2, <3>4, <3>5, <1>0 DEF Tracking
    <3> QED BY <2>1, <3>1, <3>5, <3>6 DEF Carries
  <2>2. CASE ~(LookUp(c) /\ d = c)
    <3>1. pc[d] = "fire"
      BY <2>2, <1>4, <1>0, Moves
    <3>2. target'[d] = target[d]
      <4>1. CASE LookUp(c)
        BY <4>1, <2>2, <1>0 DEF LookUp, TypeOK
      <4> QED BY <4>1, WhoChanges
    <3>3. sess'[d] = sess[d]
      <4>1. CASE RemoveSession(c) \/ CancelNext(c) \/ Get(c)
        BY <4>1, <3>1, <1>0 DEF RemoveSession, CancelNext, Get, TypeOK
      <4> QED BY <4>1, WhoChanges
    <3>4. req'[d] = req[d]
      BY <3>1, CarriedOn
    <3>5. target[d] \in Calls
      BY <3>1, <1>0 DEF Positions, Position, TypeOK
    <3>6. Carries(target[d], sess[d], req[d].op)
      BY <3>1, <1>0 DEF Tracking
    <3>7. Carries(target[d], sess[d], req[d].op) =>
            /\ ctx'[target[d]] # "none" /\ sess'[target[d]] = sess[d]
            /\ req'[target[d]].op = req[d].op
      BY <3>5, CarriedOn DEF Carries
    <3> QED BY <3>2, <3>3, <3>4, <3>6, <3>7 DEF Carries
  <2> QED BY <2>1, <2>2
<1>5. \A h \in Calls, o \in OpIds : running'[h][o] \in Calls \cup {None}
  BY <1>0, StepTypes DEF TypeOK, IInv
<1>6. ASSUME NEW h \in Calls, NEW o \in OpIds, running'[h][o] # None
      PROVE  Carries(running[h][o], h, o)'
  <2>1. PICK d \in Calls : running'[h][o] = d
    BY <1>5, <1>6
  <2>2. Carries(d, h, o)'
    BY <2>1, <1>3
  <2> QED BY <2>1, <2>2 DEF Carries
<1> QED BY <1>4, <1>6 DEF Tracking

-----------------------------------------------------------------------------

\* What excuses a cancelled execution of session h under operation id o.
Excused(h, o) ==
  \/ db[h] = "closed"
  \/ \E d \in Calls : Closing(d, h)
  \/ \E d \in Calls : /\ req[d].kind = "cancel" /\ outcome[d] = "hit"
                     /\ sess[d] = h /\ req[d].op = o

\* A session that was closed stays closed, and one that is being closed is
\* being closed until its pool is.
LEMMA ClosingStays ==
  ASSUME IInv, ExecInv, NEW c \in Calls, Step(c), NEW h \in Calls, sid[h] # None,
         db[h] = "closed" \/ \E d \in Calls : Closing(d, h)
  PROVE  db'[h] = "closed" \/ \E d \in Calls : Closing(d, h)'
<1>0. TypeOK /\ Positions
  BY DEF IInv
<1>1. CASE db[h] = "closed"
  <2>1. CASE OpenHandle(c)
    <3>1. pc[c] = "open" /\ \A d \in Calls \ {c} : db'[d] = db[d]
      BY <2>1, <1>0 DEF OpenHandle, TypeOK
    <3> QED BY <3>1, <1>1, CarriedOn
  <2>2. CASE PingFails(c) \/ CloseDb(c)
    BY <2>2, <1>1, <1>0 DEF PingFails, CloseDb, TypeOK
  <2> QED BY <2>1, <2>2, <1>1, WhoChanges
<1>2. ASSUME NEW d \in Calls, Closing(d, h)
      PROVE  db'[h] = "closed" \/ Closing(d, h)'
  <2>1. CASE d = c
    <3>1. pc[c] \in {"cancelAll", "closeDb"}
      BY <1>2, <2>1 DEF Closing
    <3>2. CASE CancelSession(c)
      BY <3>2, <2>1, <1>2, <1>0 DEF CancelSession, CancelAll, Goto, Closing, TypeOK
    <3>3. CASE CancelNext(c)
      <4>1. PICK g \in todo[c] : /\ sess' = [sess EXCEPT ![c] = g]
                                 /\ todo' = [todo EXCEPT ![c] = todo[c] \ {g}]
        BY <3>3 DEF CancelNext
      <4>2. pc[c] = "cancelAll" /\ pc'[c] = "closeDb" /\ req[c].kind = "closeAll"
        BY <3>3, <1>0 DEF CancelNext, CancelAll, Goto, TypeOK
      <4>3. h \in todo[c]
        BY <4>2, <2>1, <1>2 DEF Closing
      <4>4. sess'[c] = g /\ todo'[c] = todo[c] \ {g}
        BY <4>1, <1>0 DEF TypeOK
      <4> QED BY <4>2, <4>3, <4>4, <2>1 DEF Closing
    <3>4. CASE AllClosed(c)
      BY <3>4, <2>1, <1>2 DEF AllClosed, Closing
    <3>5. CASE CloseDb(c)
      <4>1. sess[c] \in Calls /\ pc[c] = "closeDb" /\ UNCHANGED <<req, todo, sess>>
            /\ db'[sess[c]] = "closed"
        BY <3>5, <1>0 DEF CloseDb, Positions, Position, TypeOK
      <4>2. req[c].kind = "closeAll" => pc'[c] = "cancelAll"
        BY <3>5, <1>0 DEF CloseDb, Goto, TypeOK
      <4>3. h \in todo[c] => req[c].kind = "closeAll"
        BY <1>0 DEF Positions, Position
      <4>4. h \in todo[c] \/ h = sess[c]
        BY <4>1, <1>2, <2>1 DEF Closing
      <4> QED BY <4>1, <4>2, <4>3, <4>4, <2>1 DEF Closing
    <3>6. CASE Expire(c)
      BY <3>6, <1>2, <2>1 DEF Expire, Closing
    <3> QED BY <3>1, <3>2, <3>3, <3>4, <3>5, <3>6 DEF Step, CoreStep, TimerStep,
         ServerStep, Arrive, RejectConfig, NothingToList, OpenHandle, PingFails,
         PingSucceeds, ProbeAnswers, PingPanics, ProbePanics, Register,
         RemoveSession, SwapSessions, Get, LookUp, Fire, Check, Track,
         StartStatement, StatementRefused, StatementEnds, StatementAborts,
         StatementPanics, Untrack, Release, CatalogRefused, CatalogEnds
  <2>2. CASE d # c
    <3>1. pc'[d] = pc[d] /\ pc[d] # "idle"
      BY <2>2, <1>0, <1>2, Moves DEF Closing
    <3>2. req'[d] = req[d]
      BY <3>1, CarriedOn
    <3>3. sess'[d] = sess[d]
      <4>1. CASE RemoveSession(c) \/ CancelNext(c) \/ Get(c)
        BY <4>1, <2>2, <1>0 DEF RemoveSession, CancelNext, Get, TypeOK
      <4> QED BY <4>1, WhoChanges
    <3>4. todo'[d] = todo[d]
      BY <2>2, <1>0, WhoChanges DEF SwapSessions, CancelNext, TypeOK
    <3> QED BY <1>2, <3>1, <3>2, <3>3, <3>4 DEF Closing
  <2> QED BY <2>1, <2>2
<1> QED BY <1>1, <1>2

\* A cancel that answered true keeps its answer and what it named.
LEMMA HitsStay ==
  ASSUME IInv, ExecInv, NEW c \in Calls, Step(c), NEW d \in Calls,
         outcome[d] = "hit"
  PROVE  outcome'[d] = "hit" /\ req'[d] = req[d] /\ sess'[d] = sess[d]
<1>0. TypeOK /\ Positions
  BY DEF IInv
<1>1. pc[d] = "done"
  BY DEF ExecInv, Held
<1>2. outcome'[d] = "hit"
  <2>1. CASE d # c
    BY <2>1, <1>0, Moves
  <2>2. CASE d = c
    <3>1. Expire(c)
      BY <1>1, <2>2 DEF Step, CoreStep, TimerStep, ServerStep, Arrive, RejectConfig,
         NothingToList, OpenHandle, PingFails, PingSucceeds, ProbeAnswers,
         PingPanics, ProbePanics, Register, RemoveSession, SwapSessions,
         CancelSession, CancelNext, AllClosed, CloseDb, Get, LookUp, Fire, Check,
         Track, StartStatement, StatementRefused, StatementEnds, StatementAborts,
         StatementPanics, Untrack, Release, CatalogRefused, CatalogEnds
    <3> QED BY <3>1 DEF Expire
  <2> QED BY <2>1, <2>2
<1>3. req'[d] = req[d]
  BY <1>1, CarriedOn
<1>4. sess'[d] = sess[d]
  BY <1>1, <1>0, WhoChanges DEF RemoveSession, CancelNext, Get, TypeOK
<1> QED BY <1>2, <1>3, <1>4

\* Who cancels a context excuses it.
LEMMA CancelsExcused ==
  ASSUME IInv, ExecInv, NEW c \in Calls, Step(c), NEW x \in Calls,
         ctx'[x] = "cancelled", ctx[x] # "cancelled"
  PROVE  Excused(sess[x], req[x].op)'
<1>0. TypeOK /\ Positions /\ Tracking
  BY DEF IInv, ExecInv
<1>1. \A h \in Calls : x \in Tracked(h) => Carries(x, h, req[x].op)
  <2>1. ASSUME NEW h \in Calls, NEW o \in OpIds, running[h][o] = x
        PROVE  Carries(x, h, o)
    <3>1. x # None
      BY DEF Calls, None
    <3>2. Carries(running[h][o], h, o)
      BY <2>1, <3>1, <1>0 DEF Tracking
    <3> QED BY <2>1, <3>2
  <2>2. ASSUME NEW h \in Calls, x \in Tracked(h) PROVE Carries(x, h, req[x].op)
    <3>1. PICK o \in OpIds : running[h][o] = x
      BY <2>2 DEF Tracked
    <3>2. Carries(x, h, o)
      BY <2>1, <3>1
    <3> QED BY <3>2 DEF Carries
  <2> QED BY <2>2
<1>2. ASSUME NEW h \in Calls, CancelAll(c, h), sess'[c] = h, UNCHANGED req
      PROVE  Excused(sess[x], req[x].op)'
  <2>1. x \in Tracked(h) /\ ctx[x] = "live"
    BY <1>2, <1>0 DEF CancelAll, TypeOK
  <2>2. sess[x] = h /\ sess'[x] = sess[x]
    BY <2>1, <1>1, CarriedOn DEF Carries
  <2>3. pc'[c] = "closeDb"
    BY <1>2, <1>0 DEF CancelAll, Goto, TypeOK
  <2>4. Closing(c, sess[x])'
    BY <2>2, <2>3, <1>2 DEF Closing
  <2> QED BY <2>4 DEF Excused
<1>3. CASE CancelSession(c)
  <2>1. sess[c] \in Calls /\ CancelAll(c, sess[c]) /\ UNCHANGED <<sess, req>>
    BY <1>3, <1>0 DEF CancelSession, Positions, Position, TypeOK
  <2> QED BY <2>1, <1>2
<1>4. CASE CancelNext(c)
  <2>1. PICK g \in todo[c] : CancelAll(c, g) /\ sess' = [sess EXCEPT ![c] = g]
    BY <1>4 DEF CancelNext
  <2>2. g \in Calls /\ sess'[c] = g /\ UNCHANGED req
    BY <2>1, <1>4, <1>0 DEF CancelNext, TypeOK
  <2> QED BY <2>1, <2>2, <1>2
<1>5. CASE Fire(c)
  <2>1. /\ pc[c] = "fire" /\ target[c] \in Calls /\ req[c].kind = "cancel"
        /\ UNCHANGED <<sess, req>>
    BY <1>5, <1>0 DEF Fire, Positions, Position, TypeOK
  <2>2. x = target[c]
    BY <1>5, <2>1, <1>0 DEF Fire, TypeOK
  <2>3. Carries(x, sess[c], req[c].op)
    BY <2>1, <2>2, <1>0 DEF Tracking
  <2>4. outcome'[c] = "hit"
    BY <1>5, <1>0 DEF Fire, Return, TypeOK
  <2> QED BY <2>1, <2>3, <2>4 DEF Carries, Excused
<1>6. CASE Expire(c) \/ Release(c) \/ Check(c)
  BY <1>6, <1>0 DEF Expire, Release, Check, TypeOK
<1> QED BY <1>3, <1>4, <1>5, <1>6, WhoChanges

LEMMA StepCancelled ==
  ASSUME IInv, ExecInv, NEW c \in Calls, Step(c) PROVE CancelledOnlyOnRequest'
<1>0. TypeOK /\ TypeOK'
  BY StepTypes DEF IInv
<1>1. ASSUME NEW x \in Calls,
             \/ ctx'[x] = "cancelled"
             \/ \E n \in DOMAIN results'[x] : results'[x][n] = "cancelled"
      PROVE  Excused(sess[x], req[x].op)'
  <2>1. ctx'[x] = "cancelled"
    BY <1>1, StepPassed DEF Passed
  <2>2. CASE ctx[x] # "cancelled"
    BY <2>1, <2>2, CancelsExcused
  <2>3. CASE ctx[x] = "cancelled"
    <3>1. Excused(sess[x], req[x].op)
      BY <2>3 DEF ExecInv, CancelledOnlyOnRequest, Excused
    <3>2. sess'[x] = sess[x] /\ req'[x] = req[x]
      BY <2>3, CarriedOn
    <3>3. sess[x] \in Calls /\ sid[sess[x]] # None
      BY <2>3, <1>0 DEF ExecInv, Passed, Held, TypeOK
    <3>4. CASE db[sess[x]] = "closed" \/ \E d \in Calls : Closing(d, sess[x])
      <4>1. db'[sess[x]] = "closed" \/ \E d \in Calls : Closing(d, sess[x])'
        <5> DEFINE h == sess[x]
        <5>1. PICK g \in Calls : g = sess[x]
          BY <3>3
        <5>2. db'[g] = "closed" \/ \E d \in Calls : Closing(d, g)'
          BY <5>1, <3>3, <3>4, ClosingStays
        <5> QED BY <5>1, <5>2, <3>2 DEF Closing
      <4> QED BY <4>1, <3>2 DEF Excused
    <3>5. CASE \E d \in Calls : /\ req[d].kind = "cancel" /\ outcome[d] = "hit"
                               /\ sess[d] = sess[x] /\ req[d].op = req[x].op
      BY <3>5, <3>2, HitsStay DEF Excused
    <3> QED BY <3>1, <3>4, <3>5 DEF Excused
  <2> QED BY <2>2, <2>3
<1> QED BY <1>1 DEF CancelledOnlyOnRequest, Excused

LEMMA StepTracked ==
  ASSUME IInv, ExecInv, NEW c \in Calls, Step(c) PROVE RunsTracked'
<1>0. TypeOK /\ Positions /\ Tracking
  BY DEF IInv, ExecInv
<1> SUFFICES ASSUME NEW x \in Calls,
                    IsExecute(x)', pc'[x] \in {"loop", "server"},
                    req'[x].op # NoOp, ctx'[x] = "live",
                    \A d \in Calls \ {x} :
                      ~(IsExecute(d)' /\ sess'[d] = sess'[x] /\ req'[d].op = req'[x].op)
             PROVE  running'[sess'[x]][req'[x].op] = x
  BY DEF RunsTracked, RunsAlone
<1>1. CASE Track(c) /\ c = x
  BY <1>1, <1>0, StepTypes DEF Track, TypeOK, IInv, Positions, Position
<1>2. CASE pc[x] \notin {"loop", "server"} /\ ~(Track(c) /\ c = x)
  <2>1. c = x /\ ((Check(c) /\ req[c].op = NoOp) \/ (Get(c) /\ ~IsExecute(c)))
    BY <1>2, <1>0, Moves
  <2> QED BY <2>1 DEF Check, Get, IsExecute
<1>3. CASE pc[x] \in {"loop", "server"} /\ ~(Track(c) /\ c = x)
  <2>1. req'[x] = req[x] /\ IsExecute(x)
    BY <1>3, CarriedOn DEF IsExecute
  <2>2. ctx[x] # "none" /\ sess'[x] = sess[x] /\ ctx[x] = "live"
    <3>1. ctx[x] # "none"
      BY <1>3, <2>1 DEF ExecInv, Passed
    <3> QED BY <3>1, CarriedOn
  <2>3. sess[x] \in Calls /\ sess[x] # None
    BY <1>3, <1>0 DEF Positions, Position, TypeOK
  <2>4. req[x].op \in OpIds
    <3>1. req[x] \in Requests
      BY <1>3, <1>0 DEF TypeOK, Positions, Position
    <3>2. req[x] \in ExecuteRequests
      BY <2>1, <3>1, RequestShapes DEF IsExecute
    <3> QED BY <2>1, <3>2 DEF ExecuteRequests
  <2>5. ASSUME NEW d \in Calls \ {x}, IsExecute(d), sess[d] = sess[x], req[d].op = req[x].op
        PROVE  FALSE
    <3>1. pc[d] \notin {"idle", "get"}
      BY <2>3, <2>5 DEF ExecInv, Held
    <3>2. req'[d] = req[d]
      BY <3>1, CarriedOn
    <3>3. sess'[d] = sess[d]
      <4>1. CASE RemoveSession(c) \/ CancelNext(c)
        <5>1. ~IsExecute(c)
          BY <4>1, <1>0 DEF RemoveSession, CancelNext, Positions, Position, IsExecute,
             CloseKinds, ProbeKinds
        <5> QED BY <4>1, <5>1, <2>5, <1>0 DEF RemoveSession, CancelNext, TypeOK
      <4>2. CASE Get(c)
        BY <4>2, <3>1, <1>0 DEF Get, TypeOK
      <4> QED BY <4>1, <4>2, WhoChanges
    <3> QED BY <3>2, <3>3, <2>1, <2>2, <2>5 DEF IsExecute
  <2>6. running[sess[x]][req[x].op] = x
    BY <1>3, <2>1, <2>2, <2>5 DEF ExecInv, RunsTracked, RunsAlone
  <2>7. running'[sess[x]][req[x].op] = x
    <3>1. ASSUME NEW h \in Calls, CancelAll(c, h) PROVE running'[sess[x]][req[x].op] = x
      <4>1. h # sess[x]
        <5>1. h = sess[x] => x \in Tracked(h)
          <6>1. x # None
            BY DEF Calls, None
          <6> QED BY <2>4, <2>6, <6>1 DEF Tracked
        <5> QED BY <5>1, <2>2, <3>1, <1>0 DEF CancelAll, TypeOK
      <4>2. running' = [running EXCEPT ![h] = [o \in OpIds |-> None]]
        BY <3>1 DEF CancelAll
      <4> QED BY <4>1, <4>2, <2>3, <2>6, <1>0 DEF TypeOK
    <3>2. CASE CancelSession(c)
      <4>1. sess[c] \in Calls /\ CancelAll(c, sess[c])
        BY <3>2, <1>0 DEF CancelSession, Positions, Position, TypeOK
      <4> QED BY <4>1, <3>1
    <3>3. CASE CancelNext(c)
      <4>1. PICK g \in todo[c] : CancelAll(c, g)
        BY <3>3 DEF CancelNext
      <4>2. g \in Calls
        BY <4>1, <1>0 DEF TypeOK
      <4> QED BY <4>1, <4>2, <3>1
    <3>4. CASE Track(c) \/ Untrack(c)
      <4>1. /\ pc[c] \in {"track", "untrack"} /\ c # x
            /\ \E v \in {c, None} :
                 running' = [running EXCEPT ![sess[c]][req[c].op] = v]
        BY <3>4, <1>3 DEF Track, Untrack
      <4>2. IsExecute(c)
        BY <4>1, <1>0 DEF Positions, Position, IsExecute
      <4>3. sess[c] # sess[x] \/ req[c].op # req[x].op
        BY <4>1, <4>2, <2>5
      <4> QED BY <4>1, <4>3, <2>3, <2>4, <2>6, <1>0 DEF TypeOK
    <3> QED BY <3>2, <3>3, <3>4, <2>6, WhoChanges
  <2> QED BY <2>1, <2>2, <2>7
<1> QED BY <1>1, <1>2, <1>3

-----------------------------------------------------------------------------

LEMMA InitExec == Init => ExecInv
<1> SUFFICES ASSUME Init PROVE ExecInv
  OBVIOUS
<1>1. \A c \in Calls : /\ ctx[c] = "none" /\ results[c] = <<>> /\ sess[c] = None
                       /\ pc[c] = "idle" /\ todo[c] = {} /\ outcome[c] = "none"
  BY DEF Init
<1>2. \A h \in Calls, o \in OpIds : running[h][o] = None
  BY DEF Init
<1>3. Held /\ Tracking
  BY <1>1, <1>2 DEF Held, Tracking
<1>4. \A c \in Calls : Passed(c)
  BY <1>1 DEF Passed
<1>5. CancelledOnlyOnRequest /\ RunsTracked
  BY <1>1 DEF CancelledOnlyOnRequest, RunsTracked, RunsAlone
<1> QED BY <1>3, <1>4, <1>5 DEF ExecInv

LEMMA NextExec == IInv /\ ExecInv /\ [Next]_vars => ExecInv'
<1> SUFFICES ASSUME IInv, ExecInv, [Next]_vars PROVE ExecInv'
  OBVIOUS
<1>1. CASE UNCHANGED vars
  BY <1>1 DEF vars, ExecInv, Held, Passed, Tracking, Carries, CancelledOnlyOnRequest,
     RunsTracked, RunsAlone, IsExecute, Guarded, Stmts, Closing
<1>2. ASSUME NEW c \in Calls, Step(c) PROVE ExecInv'
  BY <1>2, StepHeld, StepPassed, StepTracking, StepCancelled, StepTracked DEF ExecInv
<1> QED BY <1>1, <1>2 DEF Next, Idle

\* Whatever the calls and whenever their deadlines pass, the map of what runs
\* names what carries that operation on that session, and a call holds what it
\* passed the guard for.
THEOREM Executions == Spec => []ExecInv
<1>1. Init => ExecInv
  BY InitExec
<1>2. []IInv /\ ExecInv /\ [][Next]_vars => []ExecInv
  BY NextExec, PTL
<1> QED BY <1>1, <1>2, Inv, PTL DEF Spec

\* Nobody is told "cancelled" whom no cancel named and whose session nobody
\* closes, however cancels, ends and deadlines race.
THEOREM CancelsNamed == Spec => []CancelledOnlyOnRequest
<1>1. ExecInv => CancelledOnlyOnRequest
  BY DEF ExecInv
<1> QED BY <1>1, Executions, PTL

\* The close that took a session out of the map has not cancelled it, or cancels
\* it in this step.
LEMMA SweepGoesOn ==
  ASSUME IInv, ExecInv, NEW c \in Calls, Step(c), NEW d \in Calls, NEW h \in Calls,
         Sweeping(d, h)
  PROVE  \/ Sweeping(d, h)'
         \/ d = c /\ (CancelSession(c) \/ CancelNext(c)) /\ CancelAll(c, h)
<1>0. TypeOK /\ Positions
  BY DEF IInv
<1>1. CASE d = c
  <2>1. pc[c] \in {"cancelAll", "closeDb"}
    BY <1>1 DEF Sweeping
  <2>2. CASE CancelSession(c)
    <3>1. todo[c] = {}
      BY <2>2, <1>0 DEF CancelSession, Positions, Position
    <3> QED BY <2>2, <3>1, <1>1 DEF CancelSession, Sweeping
  <2>3. CASE CancelNext(c)
    <3>1. PICK g \in todo[c] : /\ CancelAll(c, g)
                               /\ todo' = [todo EXCEPT ![c] = todo[c] \ {g}]
      BY <2>3 DEF CancelNext
    <3>2. h \in todo[c]
      BY <2>3, <1>1 DEF CancelNext, Sweeping
    <3>3. CASE h = g
      BY <3>1, <3>3, <2>3, <1>1
    <3>4. CASE h # g
      <4>1. h \in todo'[c] /\ pc'[c] = "closeDb"
        BY <3>1, <3>2, <3>4, <1>0 DEF CancelAll, Goto, TypeOK
      <4> QED BY <4>1, <1>1 DEF Sweeping
    <3> QED BY <3>3, <3>4
  <2>4. CASE AllClosed(c)
    BY <2>4, <1>1 DEF AllClosed, Sweeping
  <2>5. CASE CloseDb(c)
    <3>1. pc[c] = "closeDb" /\ UNCHANGED <<req, todo, sess>> /\ h \in todo[c]
      BY <2>5, <1>1 DEF CloseDb, Sweeping
    <3>2. req[c].kind = "closeAll"
      BY <3>1, <1>0 DEF Positions, Position
    <3>3. pc'[c] = "cancelAll"
      BY <3>2, <2>5, <1>0 DEF CloseDb, Goto, TypeOK
    <3> QED BY <3>1, <3>3, <1>1 DEF Sweeping
  <2>6. CASE Expire(c)
    BY <2>6, <1>1 DEF Expire, Sweeping
  <2> QED BY <2>1, <2>2, <2>3, <2>4, <2>5, <2>6 DEF Step, CoreStep, TimerStep,
       ServerStep, Arrive, RejectConfig, NothingToList, OpenHandle, PingFails,
       PingSucceeds, ProbeAnswers, PingPanics, ProbePanics, Register,
       RemoveSession, SwapSessions, Get, LookUp, Fire, Check, Track,
       StartStatement, StatementRefused, StatementEnds, StatementAborts,
       StatementPanics, Untrack, Release, CatalogRefused, CatalogEnds
<1>2. CASE d # c
  <2>1. pc'[d] = pc[d] /\ pc[d] # "idle"
    BY <1>2, <1>0, Moves DEF Sweeping
  <2>2. req'[d] = req[d]
    BY <2>1, CarriedOn
  <2>3. sess'[d] = sess[d]
    <3>1. CASE RemoveSession(c) \/ CancelNext(c) \/ Get(c)
      BY <3>1, <1>2, <1>0 DEF RemoveSession, CancelNext, Get, TypeOK
    <3> QED BY <3>1, WhoChanges
  <2>4. todo'[d] = todo[d]
    BY <1>2, <1>0, WhoChanges DEF SwapSessions, CancelNext, TypeOK
  <2> QED BY <2>1, <2>2, <2>3, <2>4 DEF Sweeping
<1> QED BY <1>1, <1>2

\* A session that is found is found after the step, or the step took it out of
\* the map to cancel what runs on it.
LEMMA FoundOrSwept ==
  ASSUME IInv, ExecInv, NEW c \in Calls, Step(c), NEW h \in Calls, Found(h)
  PROVE  Found(h)' \/ Sweeping(c, h)'
<1>0. TypeOK /\ Positions /\ IdsAgree
  BY DEF IInv
<1>1. sid[h] \in Ids /\ sid'[h] = sid[h] /\ sid'[h] # None
  <2>1. sid[h] # None /\ pc[h] \notin {"idle", "open", "ping"}
    BY CarriedOn DEF Found
  <2>2. sid'[h] = sid[h]
    <3>1. CASE PingSucceeds(c)
      BY <3>1, <2>1, <1>0 DEF PingSucceeds, TypeOK
    <3> QED BY <3>1, WhoChanges
  <2> QED BY <2>1, <2>2, <1>0 DEF TypeOK
<1>2. CASE RemoveSession(c)
  <2>1. CASE CloseId(c) = sid[h]
    <3>1. sessions[CloseId(c)] = h /\ h # None
      BY <2>1 DEF Found, Calls, None
    <3>2. sess' = [sess EXCEPT ![c] = h] /\ Goto(c, "cancelAll") /\ req' = req
      BY <1>1, <1>2, <2>1, <3>1 DEF RemoveSession
    <3>3. req[c].kind # "closeAll"
      BY <1>2 DEF RemoveSession
    <3>4. sess'[c] = h /\ pc'[c] = "cancelAll"
      BY <3>2, <1>0 DEF Goto, TypeOK
    <3> QED BY <3>2, <3>3, <3>4 DEF Sweeping
  <2>2. CASE CloseId(c) # sid[h]
    <3>1. sessions'[sid[h]] = sessions[sid[h]]
      BY <1>1, <1>2, <2>2, <1>0 DEF RemoveSession, TypeOK
    <3> QED BY <3>1, <1>1 DEF Found
  <2> QED BY <2>1, <2>2
<1>3. CASE SwapSessions(c)
  <2>1. h \in {sessions[i] : i \in Ids} \ {None}
    BY <1>1 DEF Found, Calls, None
  <2>2. h \in todo'[c] /\ pc'[c] = "cancelAll"
    BY <1>3, <2>1, <1>0 DEF SwapSessions, Goto, TypeOK
  <2> QED BY <2>2 DEF Sweeping
<1>4. CASE ~RemoveSession(c) /\ ~SwapSessions(c)
  <2>1. CASE Register(c)
    <3>1. sid[c] \in Ids /\ sessions' = [sessions EXCEPT ![sid[c]] = c]
      BY <2>1, <1>0 DEF Register, IdsAgree, TypeOK
    <3>2. sid[c] = sid[h] => c = h
      BY <3>1, <1>0 DEF IdsAgree, Found
    <3>3. sessions'[sid[h]] = h
      BY <3>1, <3>2, <1>0, <1>1 DEF Found, TypeOK
    <3> QED BY <3>3, <1>1 DEF Found
  <2>2. CASE ~Register(c)
    <3>1. sessions' = sessions
      BY <1>4, <2>2
      DEF Step, CoreStep, TimerStep, ServerStep, Arrive, RejectConfig,
         NothingToList, OpenHandle, PingFails, PingSucceeds, ProbeAnswers,
         PingPanics, ProbePanics, CancelSession, CancelNext, AllClosed, CloseDb, Get,
         LookUp, Fire, Check, Track, Expire, StartStatement, StatementRefused,
         StatementEnds, EndStatement, StatementAborts, StatementPanics, Untrack,
         Release, CatalogRefused, CatalogEnds
    <3> QED BY <3>1, <1>1 DEF Found
  <2> QED BY <2>1, <2>2
<1> QED BY <1>2, <1>3, <1>4

LEMMA StepCancellable ==
  ASSUME IInv, ExecInv, NEW c \in Calls, Step(c), NEW x \in Calls, RunsAlone(x)',
         IF pc[x] = "track" THEN CanCancel(sess[x]) ELSE Cancellable(x)
  PROVE  Cancellable(x)'
<1>0. TypeOK /\ Positions
  BY DEF IInv
<1>1. running'[sess'[x]][req'[x].op] = x
  BY StepTracked DEF RunsTracked
<1>2. pc'[x] \in {"loop", "server"} /\ ctx'[x] = "live" /\ req'[x].op # NoOp /\ IsExecute(x)'
  BY DEF RunsAlone
<1>3. pc[x] \in {"track", "loop", "server"} /\ IsExecute(x)
  <2>1. CASE x = c
    <3>1. \/ pc[x] \in {"loop", "server"} \/ Track(x)
          \/ Check(x) /\ req[x].op = NoOp
          \/ Get(x) /\ ~IsExecute(x)
      BY <2>1, <1>0, <1>2, Moves
    <3>2. pc[x] # "idle"
      BY <3>1 DEF Track, Check, Get
    <3>3. req'[x] = req[x]
      BY <3>2, CarriedOn
    <3> QED BY <3>1, <3>3, <1>2 DEF Track, IsExecute
  <2>2. CASE x # c
    <3>1. pc[x] \in {"loop", "server"}
      BY <2>2, <1>0, <1>2, Moves
    <3>2. req'[x] = req[x]
      BY <3>1, CarriedOn
    <3> QED BY <3>1, <3>2, <1>2 DEF IsExecute
  <2> QED BY <2>1, <2>2
<1>4. ctx[x] # "none" /\ sess'[x] = sess[x] /\ req'[x] = req[x]
  <2>1. ctx[x] # "none"
    BY <1>3 DEF ExecInv, Passed
  <2> QED BY <2>1, CarriedOn
<1>5. PICK h \in Calls : h = sess[x]
  BY <1>3, <1>0 DEF Positions, Position, TypeOK
<1>6. CanCancel(h) /\ (pc[x] # "track" => running[sess[x]][req[x].op] = x)
  BY <1>5 DEF Cancellable, CanCancel, Found, Sweeping
<1>7. CASE Found(h)
  <2>1. Found(h)' \/ Sweeping(c, h)'
    BY <1>7, FoundOrSwept
  <2> QED BY <1>1, <1>4, <1>5, <2>1 DEF Cancellable, CanCancel, Found, Sweeping
<1>8. ASSUME NEW d \in Calls, Sweeping(d, h) PROVE Cancellable(x)'
  <2>1. ~(d = c /\ CancelAll(c, h))
    <3> SUFFICES ASSUME d = c, CancelAll(c, h) PROVE FALSE
      OBVIOUS
    <3>1. pc[c] \in {"cancelAll", "closeDb"}
      BY <1>8 DEF Sweeping
    <3>2. x # c /\ pc[x] # "track"
      BY <3>1, <1>0, <1>2, <1>3, Moves
    <3>3. x \in Tracked(h)
      <4>1. x # None
        BY DEF Calls, None
      <4>2. req[x].op \in OpIds
        <5>1. req[x] \in Requests
          BY <1>3, <1>0 DEF TypeOK, Positions, Position
        <5>2. req[x] \in ExecuteRequests
          BY <1>3, <5>1, RequestShapes DEF IsExecute
        <5> QED BY <1>2, <1>4, <5>2 DEF ExecuteRequests
      <4> QED BY <3>2, <4>1, <4>2, <1>5, <1>6 DEF Tracked
    <3>4. ctx'[x] = IF ctx[x] = "live" THEN "cancelled" ELSE ctx[x]
      BY <3>3 DEF CancelAll
    <3> QED BY <3>4, <1>2
  <2>2. Sweeping(d, h)'
    BY <1>8, <2>1, SweepGoesOn
  <2> QED BY <1>1, <1>4, <1>5, <2>2 DEF Cancellable, CanCancel, Sweeping
<1> QED BY <1>6, <1>7, <1>8 DEF CanCancel

\* What runs under an operation id of its own can be cancelled until it ends,
\* however closes, other executions and their ends interleave: a cancel that
\* names its session and its operation finds both, or a close is about to.
THEOREM RunningCancellable == Spec => StaysCancellable
<1> DEFINE Stays ==
      \A c \in Calls :
        /\ RunsAlone(c)'
        /\ IF pc[c] = "track" THEN CanCancel(sess[c]) ELSE Cancellable(c)
        => Cancellable(c)'
<1>1. IInv /\ ExecInv /\ [Next]_vars => [Stays]_vars
  <2> SUFFICES ASSUME IInv, ExecInv, Next PROVE Stays \/ UNCHANGED vars
    OBVIOUS
  <2>1. ASSUME NEW c \in Calls, Step(c), NEW x \in Calls, RunsAlone(x)',
               IF pc[x] = "track" THEN CanCancel(sess[x]) ELSE Cancellable(x)
        PROVE  Cancellable(x)'
    BY <2>1, StepCancellable
  <2>2. ASSUME NEW c \in Calls, Step(c) PROVE Stays
    BY <2>1, <2>2
  <2> QED BY <2>2 DEF Next, Idle
<1> QED BY <1>1, Inv, Executions, PTL DEF Spec, StaysCancellable

\* Nothing of a batch with a write in it reaches the server of a read-only
\* session, for every batch and every number of calls.
THEOREM ReadOnlyKept == Spec => []ReadOnlyBatchRefused
<1>1. IInv /\ ExecInv => ReadOnlyBatchRefused
  <2> SUFFICES ASSUME IInv, ExecInv, NEW c \in Calls, IsExecute(c), sess[c] # None,
                      pc[c] = "server" \/ results[c] # <<>>, req[sess[c]].readOnly,
                      NEW i \in 1..Len(Stmts(c))
               PROVE  Stmts(c)[i] = "read"
    BY DEF ReadOnlyBatchRefused
  <2>1. ctx[c] # "none" /\ Stmts(c)[i] # "write"
    BY DEF ExecInv, Passed, Guarded
  <2>2. req[c] \in Requests \cup {NoRequest}
    BY DEF IInv, TypeOK
  <2>3. req[c] \in ExecuteRequests
    BY <2>2, RequestShapes DEF IsExecute, NoRequest
  <2>4. Stmts(c) \in Seq({"read", "write"})
    BY <2>3 DEF ExecuteRequests, Texts, Stmts
  <2>5. Stmts(c)[i] \in {"read", "write"}
    BY <2>4
  <2> QED BY <2>1, <2>5
<1> QED BY <1>1, Inv, Executions, PTL
=============================================================================
