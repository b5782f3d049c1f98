----------------------------- MODULE Workspace ------------------------------
(***************************************************************************)
(* The app's state (app/lib/state/app_state.dart): the open connection and *)
(* the editor tabs, changed by asynchronous methods that interleave at     *)
(* every await.  The core is reached through CoreClient, which hands it    *)
(* one request at a time in the order of the calls (module CoreClient).    *)
(*                                                                         *)
(* A job is one invocation of a method of AppState.  A connection and its  *)
(* session are named by the job that opened them, an operation id by the   *)
(* job that runs it.                                                       *)
(***************************************************************************)
EXTENDS Integers, Sequences, FiniteSets, SequencesExt

CONSTANTS
  NumJobs,  \* bound: how many methods are invoked
  NumTabs   \* bound: how many tabs are ever created

ASSUME JobsAssumption == NumJobs \in Nat \ {0}
ASSUME TabsAssumption == NumTabs \in Nat \ {0}

None == 0
Jobs == 1..NumJobs
Tabs == 1..NumTabs

VARIABLES
  pc,          \* where each job is
  conn,        \* the connection a job captured
  target,      \* the tab a run captured
  reply,       \* how the core answered a run
  active,      \* _active
  connecting,  \* _connecting
  tabs,        \* _tabs: the ids of the open tabs
  front,       \* _activeTab, counted from 1
  tabSeq,      \* _tabSeq
  results,     \* of each tab: the run whose results it holds
  running,     \* of each tab: EditorTab.running
  opId,        \* of each tab: EditorTab.runningOpId
  queue,       \* requests on their way to the core
  inbox,       \* responses on their way back
  open,        \* the sessions open in the core
  overlapped   \* history: the connects begun while another was under way, and
               \* those that were

appVars == <<active, connecting, tabs, front, tabSeq, results, running, opId>>
vars    == <<pc, conn, target, reply, appVars, queue, inbox, open, overlapped>>

PCs == {"idle", "closing", "password", "opening", "saving", "databases",
        "schemas", "tables", "executing", "history", "cancelling",
        "disconnecting", "done", "thrown"}
Ops == {"open", "close", "catalog", "execute", "cancel"}
Replies == {"ok", "error", "no_session"}

\* Types; and the front index is always that of an open tab, none of which is
\* open twice, whichever tab is closed (closeTab).
TypeOK ==
  /\ pc \in [Jobs -> PCs]
  /\ conn \in [Jobs -> Jobs \cup {None}]
  /\ target \in [Jobs -> Tabs \cup {None}]
  /\ reply \in [Jobs -> Replies \cup {"none"}]
  /\ active \in Jobs \cup {None}
  /\ connecting \in BOOLEAN
  /\ tabs \in Seq(Tabs) /\ IsInjective(tabs)
  /\ front \in 1..Len(tabs)
  /\ tabSeq \in Tabs
  /\ results \in [Tabs -> Jobs \cup {None}]
  /\ running \in [Tabs -> BOOLEAN]
  /\ opId \in [Tabs -> Jobs \cup {None}]
  /\ queue \in Seq(     [job : Jobs, op : {"open"}, session : {None}]
                   \cup [job : Jobs, op : Ops \ {"open"}, session : Jobs])
  /\ inbox \in Seq([job : Jobs, reply : Replies])
  /\ open \subseteq Jobs
  /\ overlapped \subseteq Jobs

Init ==
  /\ pc = [j \in Jobs |-> "idle"]
  /\ conn = [j \in Jobs |-> None]
  /\ target = [j \in Jobs |-> None]
  /\ reply = [j \in Jobs |-> "none"]
  /\ active = None
  /\ connecting = FALSE
  /\ tabs = <<1>>
  /\ front = 1
  /\ tabSeq = 1
  /\ results = [t \in Tabs |-> None]
  /\ running = [t \in Tabs |-> FALSE]
  /\ opId = [t \in Tabs |-> None]
  /\ queue = <<>>
  /\ inbox = <<>>
  /\ open = {}
  /\ overlapped = {}

-----------------------------------------------------------------------------
Goto(j, label) == pc' = [pc EXCEPT ![j] = label]

\* Jobs are invoked in the order of their numbers.
Invoked(j) == pc[j] = "idle" /\ \A i \in 1..(j - 1) : pc[i] # "idle"

Tab == tabs[front]

Call(j, op, session) ==
  queue' = Append(queue, [job |-> j, op |-> op, session |-> session])

\* The response at the head of the inbox is for job j.
Answered(j) == inbox # <<>> /\ Head(inbox).job = j

Answer == Head(inbox).reply

Take == inbox' = Tail(inbox)

\* Mistake: the core takes the requests in any order, as two isolates would.
CoreAnswersAny ==
  /\ \E i \in DOMAIN queue :
       LET r == queue[i] IN
       \E answer \in Replies :
         /\ (answer = "no_session") = (r.op \in {"catalog", "execute", "cancel"}
                                         /\ r.session \notin open)
         /\ answer = "error" => r.op \in {"open", "catalog", "execute"}
         /\ queue' = RemoveAt(queue, i)
         /\ inbox' = Append(inbox, [job |-> r.job, reply |-> answer])
         /\ open' = CASE r.op = "open" /\ answer = "ok" -> open \cup {r.job}
                      [] r.op = "close" -> open \ {r.session}
                      [] OTHER -> open
  /\ UNCHANGED <<pc, conn, target, reply, appVars, overlapped>>

\* The isolate takes one request and blocks until the core has answered it.
CoreAnswers ==
  /\ queue # <<>>
  /\ queue' = Tail(queue)
  /\ LET r == Head(queue) IN
       \E answer \in Replies :
         /\ (answer = "no_session") = (r.op \in {"catalog", "execute", "cancel"}
                                         /\ r.session \notin open)
         /\ answer = "error" => r.op \in {"open", "catalog", "execute"}
         /\ inbox' = Append(inbox, [job |-> r.job, reply |-> answer])
         /\ open' = CASE r.op = "open" /\ answer = "ok" -> open \cup {r.job}
                      [] r.op = "close" -> open \ {r.session}
                      [] OTHER -> open
  /\ UNCHANGED <<pc, conn, target, reply, appVars, overlapped>>

-----------------------------------------------------------------------------
(* connect, switchDatabase and disconnect. *)

\* Mistake: _active is left for the continuation to drop.
LeaveConnectionActive ==
  /\ active' = active
  /\ LET cleared == Range(tabs) IN
       /\ results' = [t \in Tabs |-> IF t \in cleared THEN None ELSE results[t]]
       /\ running' = [t \in Tabs |-> IF t \in cleared THEN FALSE ELSE running[t]]
       /\ opId' = [t \in Tabs |-> IF t \in cleared THEN None ELSE opId[t]]

\* Mistake: only the tab in front is cleared.
LeaveFrontTab ==
  /\ active' = None
  /\ results' = [results EXCEPT ![Tab] = None]
  /\ running' = [running EXCEPT ![Tab] = FALSE]
  /\ opId' = [opId EXCEPT ![Tab] = None]

\* disconnect, up to its await: what the connection left behind is cleared in
\* every tab that is open.
LeaveConnection ==
  /\ active' = None
  /\ LET cleared == Range(tabs) IN
       /\ results' = [t \in Tabs |-> IF t \in cleared THEN None ELSE results[t]]
       /\ running' = [t \in Tabs |-> IF t \in cleared THEN FALSE ELSE running[t]]
       /\ opId' = [t \in Tabs |-> IF t \in cleared THEN None ELSE opId[t]]

\* The connects that have not had their answer, and what one that begins now
\* has to do with them: connect does not look at _connecting.
Opening == {j \in Jobs : pc[j] \in {"closing", "password", "opening"}}

BeginConnect(j) ==
  /\ Invoked(j)
  /\ connecting' = TRUE
  /\ overlapped' = IF Opening = {} THEN overlapped ELSE overlapped \cup Opening \cup {j}

\* Mistake: connect does not disconnect first.
ConnectAlongside(j) ==
  /\ BeginConnect(j)
  /\ Goto(j, "password")
  /\ UNCHANGED <<conn, target, reply, active, tabs, front, tabSeq, results,
                 running, opId, queue, inbox, open>>

\* connect, and switchDatabase, which is a connect from an open connection.
Connect(j) ==
  /\ BeginConnect(j)
  /\ IF active = None
       THEN /\ Goto(j, "password")
            /\ UNCHANGED <<active, results, running, opId, queue>>
       ELSE /\ LeaveConnection
            /\ Call(j, "close", active)
            /\ Goto(j, "closing")
  /\ UNCHANGED <<conn, target, reply, tabs, front, tabSeq, inbox, open>>

\* await disconnect() is over, however the close ended.
Closed(j) ==
  /\ pc[j] = "closing" /\ Answered(j)
  /\ Take
  /\ Goto(j, "password")
  /\ UNCHANGED <<conn, target, reply, appVars, queue, open, overlapped>>

\* The keystore answered, with a password or without.
ReadPassword(j) ==
  /\ pc[j] = "password"
  /\ Call(j, "open", None)
  /\ Goto(j, "opening")
  /\ UNCHANGED <<conn, target, reply, appVars, inbox, open, overlapped>>

Opened(j) ==
  /\ pc[j] = "opening" /\ Answered(j) /\ Answer = "ok"
  /\ Take
  /\ active' = j
  /\ Goto(j, "saving")
  /\ UNCHANGED <<conn, target, reply, connecting, tabs, front, tabSeq, results,
                 running, opId, queue, open, overlapped>>

\* Mistake: the error path forgets _connecting.
NotOpenedSpinning(j) ==
  /\ pc[j] = "opening" /\ Answered(j) /\ Answer # "ok"
  /\ Take
  /\ Goto(j, "done")
  /\ UNCHANGED <<conn, target, reply, appVars, queue, open, overlapped>>

NotOpened(j) ==
  /\ pc[j] = "opening" /\ Answered(j) /\ Answer # "ok"
  /\ Take
  /\ connecting' = FALSE
  /\ Goto(j, "done")
  /\ UNCHANGED <<conn, target, reply, active, tabs, front, tabSeq, results,
                 running, opId, queue, open, overlapped>>

\* refreshDatabases, refreshSchemas and refreshTables each start from whatever
\* _active is by then, and do nothing without one.
Refresh(j, step) ==
  IF active = None
    THEN Goto(j, "done") /\ UNCHANGED <<conn, queue>>
    ELSE /\ conn' = [conn EXCEPT ![j] = active]
         /\ Call(j, "catalog", active)
         /\ Goto(j, step)

\* save and touch have written the connection file.
Saved(j) ==
  /\ pc[j] = "saving"
  /\ connecting' = FALSE
  /\ Refresh(j, "databases")
  /\ UNCHANGED <<target, reply, active, tabs, front, tabSeq, results, running,
                 opId, inbox, open, overlapped>>

\* They threw, and not a CoreException: connect is left as it is.
NotSaved(j) ==
  /\ pc[j] = "saving"
  /\ Goto(j, "thrown")
  /\ UNCHANGED <<conn, target, reply, appVars, queue, inbox, open, overlapped>>

\* refreshDatabases swallows its failure.
DatabasesListed(j) ==
  /\ pc[j] = "databases" /\ Answered(j)
  /\ Take
  /\ Refresh(j, "schemas")
  /\ UNCHANGED <<target, reply, appVars, open, overlapped>>

\* refreshSchemas goes on to the tables only if the schemas came.
SchemasListed(j) ==
  /\ pc[j] = "schemas" /\ Answered(j)
  /\ Take
  /\ IF Answer = "ok"
       THEN Refresh(j, "tables")
       ELSE Goto(j, "done") /\ UNCHANGED <<conn, queue>>
  /\ UNCHANGED <<target, reply, appVars, open, overlapped>>

Disconnect(j) ==
  /\ Invoked(j) /\ active # None
  /\ LeaveConnection
  /\ Call(j, "close", active)
  /\ Goto(j, "disconnecting")
  /\ UNCHANGED <<conn, target, reply, connecting, tabs, front, tabSeq, inbox,
                 open, overlapped>>

-----------------------------------------------------------------------------
(* run and cancel. *)

\* run captures the connection and the tab in front; it does not look whether
\* the tab is running already.
Run(j) ==
  /\ Invoked(j) /\ active # None
  /\ conn' = [conn EXCEPT ![j] = active]
  /\ target' = [target EXCEPT ![j] = Tab]
  /\ running' = [running EXCEPT ![Tab] = TRUE]
  /\ opId' = [opId EXCEPT ![Tab] = j]
  /\ results' = [results EXCEPT ![Tab] = None]
  /\ Call(j, "execute", active)
  /\ Goto(j, "executing")
  /\ UNCHANGED <<reply, active, connecting, tabs, front, tabSeq, inbox, open, overlapped>>

\* Mistake: the answer goes to whichever tab is in front by then.
RunAnsweredInFront(j) ==
  /\ pc[j] = "executing" /\ Answered(j)
  /\ Take
  /\ reply' = [reply EXCEPT ![j] = Answer]
  /\ results' = [results EXCEPT ![Tab] = IF Answer = "ok" THEN j ELSE @]
  /\ active' = IF Answer = "no_session" THEN None ELSE active
  /\ Goto(j, "history")
  /\ UNCHANGED <<conn, target, connecting, tabs, front, tabSeq, running, opId,
                 queue, open, overlapped>>

\* The answer goes to the captured tab; a lost session drops the connection.
RunAnswered(j) ==
  /\ pc[j] = "executing" /\ Answered(j)
  /\ Take
  /\ reply' = [reply EXCEPT ![j] = Answer]
  /\ results' = [results EXCEPT ![target[j]] = IF Answer = "ok" THEN j ELSE @]
  /\ active' = IF Answer = "no_session" THEN None ELSE active
  /\ Goto(j, "history")
  /\ UNCHANGED <<conn, target, connecting, tabs, front, tabSeq, running, opId,
                 queue, open, overlapped>>

\* The history has been written, or has failed to be.
RunEnds(j) ==
  /\ pc[j] = "history"
  /\ running' = [running EXCEPT ![target[j]] = FALSE]
  /\ opId' = [opId EXCEPT ![target[j]] = None]
  /\ Goto(j, "done")
  /\ UNCHANGED <<conn, target, reply, active, connecting, tabs, front, tabSeq,
                 results, queue, inbox, open, overlapped>>

\* The stop button: the tab in front, the connection that is open.
Cancel(j) ==
  /\ Invoked(j) /\ active # None /\ opId[Tab] # None
  /\ conn' = [conn EXCEPT ![j] = active]
  /\ Call(j, "cancel", active)
  /\ Goto(j, "cancelling")
  /\ UNCHANGED <<target, reply, appVars, inbox, open, overlapped>>

\* The last await of refreshTables, disconnect and cancel: whatever the answer,
\* nothing of this module changes.
JobEnds(j) ==
  /\ pc[j] \in {"tables", "disconnecting", "cancelling"} /\ Answered(j)
  /\ Take
  /\ Goto(j, "done")
  /\ UNCHANGED <<conn, target, reply, appVars, queue, open, overlapped>>

-----------------------------------------------------------------------------
(* The tabs: methods without an await. *)

SelectTab ==
  /\ front' \in 1..Len(tabs)
  /\ UNCHANGED <<pc, conn, target, reply, active, connecting, tabs, tabSeq,
                 results, running, opId, queue, inbox, open, overlapped>>

OpenTab ==
  /\ tabSeq < NumTabs
  /\ tabSeq' = tabSeq + 1
  /\ tabs' = Append(tabs, tabSeq + 1)
  /\ front' = Len(tabs) + 1
  /\ UNCHANGED <<pc, conn, target, reply, active, connecting, results, running,
                 opId, queue, inbox, open, overlapped>>

\* Closing the last tab opens a fresh one; the front index is clamped.
CloseTab ==
  /\ \E i \in 1..Len(tabs) :
       LET left == RemoveAt(tabs, i) IN
       IF left = <<>>
         THEN /\ tabSeq < NumTabs
              /\ tabSeq' = tabSeq + 1
              /\ tabs' = <<tabSeq + 1>>
              /\ front' = 1
         ELSE /\ tabs' = left
              /\ front' = IF front > Len(left) THEN Len(left) ELSE front
              /\ UNCHANGED tabSeq
  /\ UNCHANGED <<pc, conn, target, reply, active, connecting, results, running,
                 opId, queue, inbox, open, overlapped>>

-----------------------------------------------------------------------------
UserStep == (\E j \in Jobs : Connect(j) \/ Disconnect(j) \/ Run(j) \/ Cancel(j))
            \/ SelectTab \/ OpenTab \/ CloseTab

\* Continuations after an await.
Resume(j) ==
  \/ Closed(j) \/ ReadPassword(j) \/ Opened(j) \/ NotOpened(j) \/ Saved(j)
  \/ DatabasesListed(j) \/ SchemasListed(j) \/ RunAnswered(j) \/ RunEnds(j)
  \/ JobEnds(j)

Next == UserStep \/ CoreAnswers \/ \E j \in Jobs : Resume(j) \/ NotSaved(j)

Spec == Init /\ [][Next]_vars

\* The event loop runs, files and keystore answer, and the core answers every
\* request: the server is there, or a deadline passes.
FairSpec == Spec /\ WF_vars(CoreAnswers) /\ \A j \in Jobs : WF_vars(Resume(j))

-----------------------------------------------------------------------------
(* Properties. *)

\* No request ever reaches a session that is closed: disconnect drops _active
\* before it asks for the close, and the core takes requests in order.  So the
\* branch of run for a lost session is never taken.
SessionsNeverLost == \A i \in DOMAIN inbox : inbox[i].reply # "no_session"

\* Every session open in the core is the open connection, or its close is on
\* its way, or the answer that makes it the open connection is: disconnect and
\* connect forget none.  But for what overlapping connects opened: the later
\* answer takes the place of the earlier, whose session nobody closes.
SessionsAccounted ==
  \A s \in open :
    \/ s = active
    \/ \E i \in DOMAIN queue : queue[i].op = "close" /\ queue[i].session = s
    \/ pc[s] = "opening"
    \/ s \in overlapped

\* Switching or closing tabs while a query runs never lands its results in
\* another tab (run captures its tab).
ResultsInTheirTab == \A t \in Tabs : results[t] # None => target[results[t]] = t

\* When two runs of one tab overlap, the tab never falls back to the results of
\* the older one after the newer one was answered.
NewestResultsStay ==
  \A t \in Tabs, r \in Jobs :
    target[r] = t /\ reply[r] = "ok" /\ results[t] # None => results[t] >= r

\* What the stop button of an open tab would cancel runs on the open
\* connection, also after a reconnect, unless it runs on one that overlapping
\* connects opened and another has taken the place of.
StopNamesThisConnection ==
  \A t \in Range(tabs) :
    opId[t] # None => conn[opId[t]] = active \/ conn[opId[t]] \in overlapped

\* Where a job awaits the answer to a request.
Awaits(op) ==
  CASE op = "open"    -> {"opening"}
    [] op = "close"   -> {"closing", "disconnecting"}
    [] op = "catalog" -> {"databases", "schemas", "tables"}
    [] op = "execute" -> {"executing"}
    [] op = "cancel"  -> {"cancelling"}
Awaiting == UNION {Awaits(op) : op \in Ops}

\* A job that awaits has one request under way, or its answer, and no other
\* job has any.
Awaited ==
  /\ \A i \in DOMAIN queue : pc[queue[i].job] \in Awaits(queue[i].op)
  /\ \A i \in DOMAIN inbox : pc[inbox[i].job] \in Awaiting
  /\ \A i, k \in DOMAIN queue : i # k => queue[i].job # queue[k].job
  /\ \A i, k \in DOMAIN inbox : i # k => inbox[i].job # inbox[k].job
  /\ \A i \in DOMAIN queue, k \in DOMAIN inbox : queue[i].job # inbox[k].job

\* A connect that has not had its session yet; and the close of a session.
Unopened     == {"idle", "closing", "password", "opening"}
Closes(r, s) == r.op = "close" /\ r.session = s

\* Why no session is lost: what names one comes before its close in the queue.
Alive ==
  /\ active # None =>
       active \in open /\ pc[active] \notin Unopened
                      /\ \A i \in DOMAIN queue : ~Closes(queue[i], active)
  /\ \A i \in DOMAIN queue :
       /\ queue[i].op \in {"catalog", "execute", "cancel"} =>
            queue[i].session \in open /\ \A k \in 1..(i - 1) : ~Closes(queue[k], queue[i].session)
       /\ queue[i].op = "close" => pc[queue[i].session] \notin Unopened
       /\ queue[i].op = "open" => queue[i].job \notin open
  /\ \A i \in DOMAIN inbox :
       pc[inbox[i].job] = "opening" => (inbox[i].reply = "ok" <=> inbox[i].job \in open)
  /\ \A j \in Jobs : pc[j] \in {"idle", "closing", "password"} => j \notin open

\* A method that was not invoked has no tab; a tab that is to come is not open.
NoTargetYet == \A j \in Jobs : pc[j] = "idle" => target[j] = None
TabsNumbered == \A i \in DOMAIN tabs : tabs[i] <= tabSeq

\* The inductive invariant.
IInv ==
  /\ TypeOK /\ TabsNumbered
  /\ Awaited /\ Alive /\ SessionsNeverLost
  /\ NoTargetYet /\ ResultsInTheirTab

\* The history knows the connects that are under way at once, and the one that
\* is open while another is: what a connect of its own opens takes the place of
\* nothing.
OverlapsKnown ==
  /\ \A j, k \in Opening : j # k => j \in overlapped
  /\ \A j \in Opening : active # None => active \in overlapped

\* What runs is known by its operation id; a tab that is to come has none.
OpIdsKnown ==
  /\ \A t \in Tabs : opId[t] # None =>
       pc[opId[t]] \in {"executing", "history", "done"} /\ conn[opId[t]] # None
  /\ \A t \in Tabs : t > tabSeq => opId[t] = None

\* What is inductive in addition.
ConnectInv ==
  OverlapsKnown /\ OpIdsKnown /\ SessionsAccounted /\ StopNamesThisConnection

\* Jobs are invoked in turn; one that runs has its request or its answer under
\* way, and one that was answered is past that.
InTurn ==
  /\ \A i, k \in Jobs : i < k /\ pc[i] = "idle" => pc[k] = "idle"
  /\ \A j \in Jobs : reply[j] # "none" => pc[j] \in {"history", "done"}
UnderWay ==
  \A j \in Jobs : pc[j] = "executing" =>
    (\E i \in DOMAIN queue : queue[i].job = j) \/ (\E i \in DOMAIN inbox : inbox[i].job = j)

\* What the runs asked for comes in the order they were started: those that
\* were answered, those whose answer is there, those that are to be answered.
Earlier(r, s) == pc[r] = "executing" /\ pc[s] = "executing" => r < s
FirstInFirstOut ==
  /\ \A r, j \in Jobs : reply[r] # "none" /\ pc[j] = "executing" => r < j
  /\ \A i, k \in DOMAIN inbox : i < k => Earlier(inbox[i].job, inbox[k].job)
  /\ \A i \in DOMAIN inbox, k \in DOMAIN queue : Earlier(inbox[i].job, queue[k].job)
  /\ \A i, k \in DOMAIN queue : i < k => Earlier(queue[i].job, queue[k].job)

\* What is inductive in addition, and why the newest results stay.
OrderInv == InTurn /\ UnderWay /\ FirstInFirstOut /\ NewestResultsStay

\* The connecting spinner stops, whatever the core answers, unless connect threw
\* because the connection file could not be written (connect, disconnect).
ConnectingEnds ==
  connecting ~> (~connecting \/ \E j \in Jobs : pc[j] = "thrown")

\* app_state.dart:184, "Only one connection is open at a time".
OneConnectionOpen == Cardinality(open) <= 1

\* app_state.dart:268, results "describe a connection that no longer exists"
\* and are cleared with it: a tab shows results of the open connection only.
ResultsDescribeActive ==
  \A t \in Range(tabs) : results[t] # None => conn[results[t]] = active
=============================================================================
