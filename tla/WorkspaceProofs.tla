--------------------------- MODULE WorkspaceProofs ---------------------------
(***************************************************************************)
(* Theorems about Workspace, for any number of methods invoked and of      *)
(* tabs: no request reaches a closed session, results land in the tab they *)
(* were asked for; and with one connect in flight at a time no session is  *)
(* forgotten and what the stop button names runs on the open connection.   *)
(***************************************************************************)
EXTENDS Workspace, FiniteSetTheorems, SequenceTheorems, TLAPS

USE JobsAssumption, TabsAssumption DEF None, Jobs, Tabs

Requests ==      [job : Jobs, op : {"open"}, session : {None}]
            \cup [job : Jobs, op : Ops \ {"open"}, session : Jobs]
Responses == [job : Jobs, reply : Replies]

LEMMA Queued ==
  ASSUME TypeOK
  PROVE  /\ queue \in Seq(Requests) /\ inbox \in Seq(Responses)
         /\ DOMAIN queue = 1..Len(queue) /\ Len(queue) \in Nat
         /\ DOMAIN inbox = 1..Len(inbox) /\ Len(inbox) \in Nat
         /\ \A i \in DOMAIN queue : queue[i] \in Requests
         /\ \A i \in DOMAIN inbox : inbox[i] \in Responses
<1>1. queue \in Seq(Requests) /\ inbox \in Seq(Responses)
  BY DEF TypeOK, Requests, Responses
<1> QED BY <1>1

\* What is taken from the front of a sequence, and put at its end.
LEMMA Taking ==
  ASSUME NEW S, NEW s \in Seq(S), s # <<>>
  PROVE  /\ Tail(s) \in Seq(S) /\ Head(s) = s[1] /\ 1 \in DOMAIN s
         /\ DOMAIN Tail(s) = 1..(Len(s) - 1)
         /\ \A i \in DOMAIN Tail(s) : i + 1 \in DOMAIN s /\ Tail(s)[i] = s[i + 1]
  OBVIOUS

LEMMA Putting ==
  ASSUME NEW S, NEW s \in Seq(S), NEW e \in S
  PROVE  /\ Append(s, e) \in Seq(S)
         /\ DOMAIN Append(s, e) = 1..(Len(s) + 1) /\ DOMAIN s = 1..Len(s)
         /\ \A i \in DOMAIN s : Append(s, e)[i] = s[i]
         /\ Append(s, e)[Len(s) + 1] = e
  OBVIOUS

-----------------------------------------------------------------------------
(* What an action of a job does to the requests.                           *)

\* Job j, which awaits nothing or whose answer has come, goes to a place and
\* may ask the core for something on the way.
JobStep(j, place) ==
  /\ pc' = [pc EXCEPT ![j] = place]
  /\ place \in PCs
  /\ place \in Unopened => pc[j] \in {"idle", "closing", "password"}
  /\ place = "idle" => pc[j] = "idle"
  /\ open' = open
  /\ \/ inbox' = inbox /\ pc[j] \notin Awaiting
     \/ inbox # <<>> /\ Head(inbox).job = j /\ inbox' = Tail(inbox)
  /\ \/ queue' = queue /\ place \notin Awaiting
     \/ \E r \in Requests :
          /\ queue' = Append(queue, r)
          /\ r.job = j /\ place \in Awaits(r.op)
          /\ \/ r.op = "open" /\ pc[j] = "password" /\ active' = active
             \/ r.op = "close" /\ r.session = active /\ active' = None
             \/ r.op \in {"catalog", "execute", "cancel"} /\ r.session = active
                /\ active' = active
  /\ \/ active' \in {active, None}
     \/ /\ active' = j /\ pc[j] = "opening" /\ place = "saving" /\ queue' = queue
        /\ inbox # <<>> /\ Head(inbox).job = j /\ Head(inbox).reply = "ok"

\* Where a job may go, by the request it sends.
LEMMA Places ==
  /\ \A op \in Ops : Awaits(op) \subseteq Awaiting
  /\ Awaiting = {"opening", "closing", "disconnecting", "databases", "schemas", "tables",
                 "executing", "cancelling"}
  /\ \A op, other \in Ops : op # other => Awaits(op) \cap Awaits(other) = {}
<1>1. \A op \in Ops : Awaits(op) \subseteq Awaiting
  BY DEF Awaiting
<1>2. Awaiting = Awaits("open") \cup Awaits("close") \cup Awaits("catalog")
                 \cup Awaits("execute") \cup Awaits("cancel")
  BY DEF Awaiting, Ops
<1> QED BY <1>1, <1>2 DEF Awaits, Ops

LEMMA JobStepQueues ==
  ASSUME TypeOK, NEW j \in Jobs, NEW place, JobStep(j, place)
  PROVE  /\ queue' \in Seq(Requests) /\ inbox' \in Seq(Responses)
         /\ pc' \in [Jobs -> PCs]
<1>1. pc' \in [Jobs -> PCs]
  BY DEF JobStep, TypeOK
<1>2. inbox' \in Seq(Responses)
  <2>1. inbox' = inbox \/ (inbox # <<>> /\ inbox' = Tail(inbox))
    BY DEF JobStep
  <2>2. inbox # <<>> => Tail(inbox) \in Seq(Responses)
    BY Queued, Taking
  <2> QED BY <2>1, <2>2, Queued
<1>3. queue' \in Seq(Requests)
  BY Queued, Putting DEF JobStep
<1> QED BY <1>1, <1>2, <1>3

\* After such a step job j has no answer under way, and no request but the one
\* it may have sent just now.
LEMMA JobStepAlone ==
  ASSUME TypeOK, Awaited, NEW j \in Jobs, NEW place, JobStep(j, place)
  PROVE  /\ \A i \in DOMAIN inbox' :
              /\ inbox'[i].job # j
              /\ \E k \in DOMAIN inbox : inbox'[i] = inbox[k] /\ (i # k => k = i + 1)
         /\ \A i, k \in DOMAIN inbox' : i # k => inbox'[i].job # inbox'[k].job
         /\ \A i \in DOMAIN queue : queue[i].job # j
<1>1. CASE inbox' = inbox /\ pc[j] \notin Awaiting
  <2>1. \A i \in DOMAIN queue : queue[i].op \in Ops
    BY Queued DEF Requests, Ops
  <2>2. \A i \in DOMAIN queue : queue[i].job # j
    BY <1>1, <2>1, Places DEF Awaited
  <2> QED BY <1>1, <2>2 DEF Awaited
<1>2. CASE inbox # <<>> /\ Head(inbox).job = j /\ inbox' = Tail(inbox)
  <2>1. /\ inbox[1].job = j /\ 1 \in DOMAIN inbox
        /\ \A i \in DOMAIN inbox' : i + 1 \in DOMAIN inbox /\ inbox'[i] = inbox[i + 1]
    BY <1>2, Queued, Taking
  <2>2. DOMAIN inbox' \subseteq Nat \ {0}
    BY <1>2, Queued, Taking
  <2>3. \A i \in DOMAIN inbox' : inbox'[i].job # j
    BY <2>1, <2>2 DEF Awaited
  <2>4. \A i, k \in DOMAIN inbox' : i # k => inbox'[i].job # inbox'[k].job
    BY <2>1, <2>2 DEF Awaited
  <2> QED BY <2>1, <2>3, <2>4 DEF Awaited
<1> QED BY <1>1, <1>2 DEF JobStep

LEMMA JobStepAwaited ==
  ASSUME TypeOK, Awaited, NEW j \in Jobs, NEW place, JobStep(j, place)
  PROVE  Awaited'
<1>1. \A k \in Jobs : pc'[k] = IF k = j THEN place ELSE pc[k]
  BY DEF JobStep, TypeOK
<1>2. \A i \in DOMAIN inbox' :
        /\ inbox'[i].job \in Jobs /\ inbox'[i].job # j /\ pc'[inbox'[i].job] \in Awaiting
        /\ \A k \in DOMAIN queue : queue[k].job # inbox'[i].job
  BY <1>1, JobStepAlone, Queued DEF Awaited, Responses
<1>3. \A i \in DOMAIN queue : /\ queue[i].job \in Jobs /\ queue[i].job # j
                              /\ pc'[queue[i].job] \in Awaits(queue[i].op)
  BY <1>1, JobStepAlone, Queued DEF Awaited, Requests
<1>4. CASE queue' = queue
  BY <1>2, <1>3, <1>4, JobStepAlone DEF Awaited
<1>5. CASE \E r \in Requests : queue' = Append(queue, r) /\ r.job = j /\ place \in Awaits(r.op)
  <2>1. PICK r \in Requests : queue' = Append(queue, r) /\ r.job = j /\ place \in Awaits(r.op)
    BY <1>5
  <2>2. /\ DOMAIN queue' = 1..(Len(queue) + 1) /\ DOMAIN queue = 1..Len(queue)
        /\ \A i \in DOMAIN queue : queue'[i] = queue[i]
        /\ queue'[Len(queue) + 1] = r /\ Len(queue) \in Nat
    BY <2>1, Queued, Putting
  <2>3. \A i \in DOMAIN queue' : pc'[queue'[i].job] \in Awaits(queue'[i].op)
    BY <2>1, <2>2, <1>3, <1>1
  <2>4. \A i, k \in DOMAIN queue' : i # k => queue'[i].job # queue'[k].job
    BY <2>1, <2>2, <1>3 DEF Awaited
  <2>5. \A i \in DOMAIN queue', k \in DOMAIN inbox' : queue'[i].job # inbox'[k].job
    BY <2>1, <2>2, <1>2
  <2> QED BY <2>3, <2>4, <2>5, <1>2, JobStepAlone DEF Awaited
<1> QED BY <1>4, <1>5 DEF JobStep

LEMMA JobStepAlive ==
  ASSUME TypeOK, Awaited, Alive, SessionsNeverLost, NEW j \in Jobs, NEW place,
         JobStep(j, place)
  PROVE  Alive' /\ SessionsNeverLost'
<1>1. /\ \A k \in Jobs : pc'[k] = IF k = j THEN place ELSE pc[k]
      /\ open' = open /\ active \in Jobs \cup {None}
      /\ place \in Unopened => pc[j] \in {"idle", "closing", "password"}
  BY DEF JobStep, TypeOK
<1>2. \A k \in Jobs : pc[k] \notin Unopened => pc'[k] \notin Unopened
  BY <1>1 DEF Unopened
<1>3. \A i \in DOMAIN inbox' :
        /\ inbox'[i].job \in Jobs /\ inbox'[i].job # j
        /\ \E k \in DOMAIN inbox : inbox'[i] = inbox[k]
  BY JobStepAlone, Queued DEF Responses
<1>4. \A i \in DOMAIN inbox' :
        /\ inbox'[i].reply # "no_session"
        /\ pc'[inbox'[i].job] = "opening" =>
             (inbox'[i].reply = "ok" <=> inbox'[i].job \in open')
  BY <1>1, <1>3 DEF Alive, SessionsNeverLost
<1>5. \A k \in Jobs : pc'[k] \in {"idle", "closing", "password"} => k \notin open'
  BY <1>1 DEF Alive, Unopened
<1>6. CASE queue' = queue
  <2>1. active' # None =>
          active' \in open' /\ pc'[active'] \notin Unopened
                           /\ \A i \in DOMAIN queue' : ~Closes(queue'[i], active')
    <3>1. CASE active' \in {active, None}
      BY <3>1, <1>1, <1>2, <1>6 DEF Alive, Closes
    <3>2. CASE /\ active' = j /\ pc[j] = "opening" /\ place = "saving"
               /\ inbox # <<>> /\ Head(inbox).job = j /\ Head(inbox).reply = "ok"
      <4>1. 1 \in DOMAIN inbox /\ Head(inbox) = inbox[1]
        BY <3>2, Queued, Taking
      <4>2. j \in open
        BY <3>2, <4>1 DEF Alive
      <4>3. pc'[j] \notin Unopened
        BY <3>2, <1>1 DEF Unopened
      <4>4. \A i \in DOMAIN queue : ~Closes(queue[i], j)
        BY <3>2 DEF Alive, Closes, Unopened
      <4> QED BY <3>2, <4>2, <4>3, <4>4, <1>1, <1>6 DEF Closes
    <3> QED BY <3>1, <3>2 DEF JobStep
  <2>2. \A i \in DOMAIN queue : queue[i].op # "open" => queue[i].session \in Jobs
    BY Queued DEF Requests
  <2>3. \A i \in DOMAIN queue' :
          /\ queue'[i].op \in {"catalog", "execute", "cancel"} =>
               queue'[i].session \in open'
               /\ \A k \in 1..(i - 1) : ~Closes(queue'[k], queue'[i].session)
          /\ queue'[i].op = "close" => pc'[queue'[i].session] \notin Unopened
          /\ queue'[i].op = "open" => queue'[i].job \notin open'
    BY <1>1, <1>2, <1>6, <2>2 DEF Alive, Closes
  <2> QED BY <1>4, <1>5, <2>1, <2>3 DEF Alive, SessionsNeverLost
<1>7. ASSUME NEW r \in Requests, queue' = Append(queue, r), r.job = j,
             \/ r.op = "open" /\ pc[j] = "password" /\ active' = active
             \/ r.op = "close" /\ r.session = active /\ active' = None
             \/ r.op \in {"catalog", "execute", "cancel"} /\ r.session = active
                /\ active' = active
      PROVE  Alive' /\ SessionsNeverLost'
  <2>1. /\ DOMAIN queue' = 1..(Len(queue) + 1) /\ DOMAIN queue = 1..Len(queue)
        /\ \A i \in DOMAIN queue : queue'[i] = queue[i]
        /\ queue'[Len(queue) + 1] = r /\ Len(queue) \in Nat
    BY <1>7, Queued, Putting
  <2>2. \A i \in DOMAIN queue : queue[i].op # "open" => queue[i].session \in Jobs
    BY Queued DEF Requests
  <2>3. r.op # "open" => active \in Jobs /\ active # None
    BY <1>7 DEF Requests
  <2>4. active' # None =>
          active' \in open' /\ pc'[active'] \notin Unopened
                           /\ \A i \in DOMAIN queue' : ~Closes(queue'[i], active')
    BY <1>1, <1>2, <1>7, <2>1 DEF Alive, Closes
  <2>5. \A i \in DOMAIN queue :
          /\ queue'[i].op \in {"catalog", "execute", "cancel"} =>
               queue'[i].session \in open'
               /\ \A k \in 1..(i - 1) : ~Closes(queue'[k], queue'[i].session)
          /\ queue'[i].op = "close" => pc'[queue'[i].session] \notin Unopened
          /\ queue'[i].op = "open" => queue'[i].job \notin open'
    <3>1. \A i \in DOMAIN queue : \A k \in 1..(i - 1) : queue'[k] = queue[k] /\ k \in DOMAIN queue
      BY <2>1
    <3> QED BY <1>1, <1>2, <2>1, <2>2, <3>1 DEF Alive, Closes
  <2>6. /\ r.op \in {"catalog", "execute", "cancel"} =>
             r.session \in open'
             /\ \A k \in 1..Len(queue) : ~Closes(queue'[k], r.session)
        /\ r.op = "close" => pc'[r.session] \notin Unopened
        /\ r.op = "open" => r.job \notin open'
    BY <1>1, <1>2, <1>7, <2>1, <2>3 DEF Alive, Closes
  <2>7. \A i \in DOMAIN queue' :
          /\ queue'[i].op \in {"catalog", "execute", "cancel"} =>
               queue'[i].session \in open'
               /\ \A k \in 1..(i - 1) : ~Closes(queue'[k], queue'[i].session)
          /\ queue'[i].op = "close" => pc'[queue'[i].session] \notin Unopened
          /\ queue'[i].op = "open" => queue'[i].job \notin open'
    <3>1. ASSUME NEW i \in DOMAIN queue', i \notin DOMAIN queue
          PROVE  i = Len(queue) + 1 /\ 1..(i - 1) = 1..Len(queue) /\ queue'[i] = r
      BY <2>1, <3>1
    <3> QED BY <3>1, <2>5, <2>6
  <2> QED BY <1>4, <1>5, <2>4, <2>7 DEF Alive, SessionsNeverLost
<1> QED BY <1>6, <1>7 DEF JobStep

-----------------------------------------------------------------------------
(* What the core does to them.                                             *)

LEMMA CoreKeeps ==
  ASSUME TypeOK, Awaited, Alive, SessionsNeverLost, CoreAnswers
  PROVE  TypeOK' /\ Awaited' /\ Alive' /\ SessionsNeverLost'
<1> DEFINE r == Head(queue)
<1>1. PICK answer \in Replies :
        /\ (answer = "no_session") = (r.op \in {"catalog", "execute", "cancel"}
                                        /\ r.session \notin open)
        /\ inbox' = Append(inbox, [job |-> r.job, reply |-> answer])
        /\ open' = CASE r.op = "open" /\ answer = "ok" -> open \cup {r.job}
                     [] r.op = "close" -> open \ {r.session}
                     [] OTHER -> open
  BY DEF CoreAnswers
<1>2. /\ queue # <<>> /\ queue' = Tail(queue)
      /\ UNCHANGED <<pc, conn, target, reply, active, connecting, tabs, front, tabSeq,
                      results, running, opId, overlapped>>
  BY DEF CoreAnswers, appVars
<1>3. /\ r = queue[1] /\ 1 \in DOMAIN queue /\ r \in Requests /\ r.job \in Jobs
      /\ queue' \in Seq(Requests) /\ Len(queue) \in Nat
      /\ DOMAIN queue' = 1..(Len(queue) - 1) /\ DOMAIN queue = 1..Len(queue)
      /\ \A i \in DOMAIN queue' : i + 1 \in DOMAIN queue /\ queue'[i] = queue[i + 1]
  BY <1>2, Queued, Taking DEF Requests
<1>4. [job |-> r.job, reply |-> answer] \in Responses
  BY <1>3 DEF Responses
<1> DEFINE a == [job |-> r.job, reply |-> answer]
<1>5. /\ inbox' \in Seq(Responses) /\ Len(inbox) \in Nat
      /\ DOMAIN inbox' = 1..(Len(inbox) + 1) /\ DOMAIN inbox = 1..Len(inbox)
      /\ \A i \in DOMAIN inbox : inbox'[i] = inbox[i]
      /\ inbox'[Len(inbox) + 1] = a
  BY <1>1, <1>4, Queued, Putting
<1>6. answer # "no_session"
  BY <1>1, <1>3 DEF Alive
<1>7. /\ r.op \in Ops /\ pc[r.job] \in Awaits(r.op)
      /\ r.op = "close" => r.session \in Jobs /\ pc[r.session] \notin Unopened
  <2>1. r.op \in Ops /\ (r.op = "close" => r.session \in Jobs)
    BY <1>3 DEF Requests, Ops
  <2>2. pc[r.job] \in Awaits(r.op)
    BY <1>3 DEF Awaited
  <2>3. r.op = "close" => pc[r.session] \notin Unopened
    BY <1>3 DEF Alive
  <2> QED BY <2>1, <2>2, <2>3
<1>8. TypeOK'
  <2>1. open' \subseteq Jobs
    BY <1>1, <1>3 DEF TypeOK
  <2> QED BY <2>1, <1>2, <1>3, <1>5 DEF TypeOK, Requests, Responses
<1>9. \A i \in DOMAIN inbox' : i \notin DOMAIN inbox => i = Len(inbox) + 1 /\ inbox'[i] = a
  BY <1>5
<1>10. Awaited'
  <2>1. \A i \in DOMAIN queue' : /\ pc'[queue'[i].job] \in Awaits(queue'[i].op)
                                 /\ queue'[i].job # r.job
    BY <1>2, <1>3 DEF Awaited
  <2>2. \A i, k \in DOMAIN queue' : i # k => queue'[i].job # queue'[k].job
    BY <1>3 DEF Awaited
  <2>3. pc[r.job] \in Awaiting
    BY <1>7, Places
  <2>4. \A i \in DOMAIN inbox' : pc'[inbox'[i].job] \in Awaiting
    BY <1>2, <1>5, <1>9, <2>3 DEF Awaited
  <2>5. \A i \in DOMAIN inbox : inbox[i].job # r.job
    BY <1>3 DEF Awaited
  <2>6. \A i, k \in DOMAIN inbox' : i # k => inbox'[i].job # inbox'[k].job
    BY <1>5, <1>9, <2>5 DEF Awaited
  <2>7. \A i \in DOMAIN queue', k \in DOMAIN inbox' : queue'[i].job # inbox'[k].job
    BY <1>3, <1>5, <1>9, <2>1 DEF Awaited
  <2> QED BY <2>1, <2>2, <2>4, <2>6, <2>7 DEF Awaited
<1>11. /\ \A s \in open : s \in open' \/ (r.op = "close" /\ s = r.session)
       /\ \A s \in open' : s \in open \/ (r.op = "open" /\ answer = "ok" /\ s = r.job)
  <2> HIDE DEF r
  <2>1. CASE r.op = "open" /\ answer = "ok"
    <3>1. open' = open \cup {r.job}
      BY <1>1, <2>1
    <3> QED BY <2>1, <3>1
  <2>2. CASE r.op = "close"
    <3>1. open' = open \ {r.session}
      BY <1>1, <2>2
    <3> QED BY <2>2, <3>1
  <2>3. CASE r.op # "close" /\ ~(r.op = "open" /\ answer = "ok")
    <3>1. open' = open
      BY <1>1, <2>3
    <3> QED BY <3>1
  <2> QED BY <2>1, <2>2, <2>3
<1>12. Alive'
  <2>1. active' # None =>
          active' \in open' /\ pc'[active'] \notin Unopened
                           /\ \A i \in DOMAIN queue' : ~Closes(queue'[i], active')
    BY <1>2, <1>3, <1>11 DEF Alive, Closes
  <2>2. ASSUME NEW i \in DOMAIN queue'
        PROVE  /\ queue'[i].op \in {"catalog", "execute", "cancel"} =>
                    queue'[i].session \in open'
                    /\ \A k \in 1..(i - 1) : ~Closes(queue'[k], queue'[i].session)
               /\ queue'[i].op = "close" => pc'[queue'[i].session] \notin Unopened
               /\ queue'[i].op = "open" => queue'[i].job \notin open'
    <3>1. /\ i + 1 \in DOMAIN queue /\ queue'[i] = queue[i + 1] /\ i \in Nat
          /\ \A k \in 1..(i - 1) : k + 1 \in 1..i /\ queue'[k] = queue[k + 1]
      BY <1>3
    <3>2. 1 \in 1..((i + 1) - 1) /\ (i + 1) - 1 = i
      BY <1>3, <3>1
    <3>3. ASSUME queue'[i].op \in {"catalog", "execute", "cancel"}
          PROVE  queue'[i].session \in open'
                 /\ \A k \in 1..(i - 1) : ~Closes(queue'[k], queue'[i].session)
      <4>1. /\ queue[i + 1].session \in open
            /\ \A k \in 1..i : ~Closes(queue[k], queue[i + 1].session)
        BY <3>1, <3>2, <3>3 DEF Alive
      <4>2. ~Closes(r, queue[i + 1].session)
        BY <4>1, <3>2, <1>3 DEF Closes
      <4> QED BY <4>1, <4>2, <3>1, <1>11 DEF Closes
    <3>4. queue'[i].op = "open" => queue'[i].job \notin open'
      BY <3>1, <1>3, <1>11 DEF Alive, Awaited
    <3>5. queue'[i].op = "close" => pc'[queue'[i].session] \notin Unopened
      BY <3>1, <1>2 DEF Alive
    <3> QED BY <3>3, <3>4, <3>5
  <2>3. ASSUME NEW i \in DOMAIN inbox', pc'[inbox'[i].job] = "opening"
        PROVE  inbox'[i].reply = "ok" <=> inbox'[i].job \in open'
    <3>1. CASE i \in DOMAIN inbox
      <4>1. inbox'[i] = inbox[i] /\ pc[inbox[i].job] = "opening" /\ inbox[i].job # r.job
        BY <3>1, <2>3, <1>2, <1>3, <1>5 DEF Awaited
      <4>2. r.op = "close" => inbox[i].job # r.session
        BY <4>1, <1>7 DEF Unopened
      <4> QED BY <3>1, <4>1, <4>2, <1>11 DEF Alive
    <3>2. CASE inbox'[i] = a
      <4>1. r.op = "open"
        BY <3>2, <2>3, <1>2, <1>7, Places DEF Awaits, Ops
      <4>2. r.job \notin open
        BY <4>1, <1>3 DEF Alive
      <4> QED BY <3>2, <4>1, <4>2, <1>1
    <3> QED BY <3>1, <3>2, <1>9
  <2>4. \A j \in Jobs : pc'[j] \in {"idle", "closing", "password"} => j \notin open'
    <3>1. r.op = "open" => pc[r.job] = "opening"
      BY <1>7 DEF Awaits
    <3> QED BY <3>1, <1>2, <1>11 DEF Alive
  <2> QED BY <2>1, <2>2, <2>3, <2>4 DEF Alive
<1>13. SessionsNeverLost'
  BY <1>5, <1>6, <1>9 DEF SessionsNeverLost
<1> QED BY <1>8, <1>10, <1>12, <1>13

-----------------------------------------------------------------------------
(* Every action of a job is such a step.                                   *)

JobAction(j) ==
  Connect(j) \/ Disconnect(j) \/ Run(j) \/ Cancel(j) \/ Resume(j) \/ NotSaved(j)

\* A call for the open connection names a session.
LEMMA Calling ==
  ASSUME TypeOK, active # None, NEW j \in Jobs, NEW op \in Ops \ {"open"},
         Call(j, op, active)
  PROVE  \E r \in Requests : queue' = Append(queue, r) /\ r.job = j /\ r.op = op
                               /\ r.session = active
<1>1. [job |-> j, op |-> op, session |-> active] \in Requests
  BY DEF TypeOK, Requests
<1> QED BY <1>1 DEF Call

LEMMA RefreshSteps ==
  ASSUME TypeOK, NEW j \in Jobs, NEW step \in {"databases", "schemas", "tables"},
         Refresh(j, step)
  PROVE  \E place \in {"done", step} :
           /\ Goto(j, place)
           /\ \/ queue' = queue /\ place \notin Awaiting
              \/ \E r \in Requests :
                   /\ queue' = Append(queue, r) /\ r.job = j
                   /\ r.op = "catalog" /\ r.session = active /\ place \in Awaits(r.op)
           /\ conn' \in [Jobs -> Jobs \cup {None}]
           /\ \A k \in Jobs : k # j => conn'[k] = conn[k]
<1>1. CASE active = None
  <2>1. "done" \notin Awaiting
    BY Places
  <2> QED BY <1>1, <2>1 DEF Refresh, TypeOK
<1>2. CASE active # None
  <2>1. /\ conn' = [conn EXCEPT ![j] = active] /\ Goto(j, step)
        /\ Call(j, "catalog", active)
    BY <1>2 DEF Refresh
  <2>2. \E r \in Requests : /\ queue' = Append(queue, r) /\ r.job = j
                            /\ r.op = "catalog" /\ r.session = active
    BY <1>2, <2>1, Calling DEF Ops
  <2>3. step \in Awaits("catalog")
    BY DEF Awaits
  <2>4. conn' \in [Jobs -> Jobs \cup {None}] /\ \A k \in Jobs : k # j => conn'[k] = conn[k]
    BY <1>2, <2>1 DEF TypeOK
  <2> QED BY <2>1, <2>2, <2>3, <2>4
<1> QED BY <1>1, <1>2

LEMMA JobMoves ==
  ASSUME TypeOK, NEW j \in Jobs, JobAction(j)
  PROVE  \E place : JobStep(j, place)
<1>0. Awaiting = {"opening", "closing", "disconnecting", "databases", "schemas", "tables",
                  "executing", "cancelling"}
  BY Places
<1>1. CASE Connect(j)
  <2>1. CASE active = None
    <3>1. JobStep(j, "password")
      BY <1>0, <1>1, <2>1 DEF JobStep, Connect, BeginConnect, Invoked, Goto, PCs, Unopened
    <3> QED BY <3>1
  <2>2. CASE active # None
    <3>1. Call(j, "close", active) /\ active' = None
      BY <1>1, <2>2 DEF Connect, LeaveConnection
    <3>2. PICK r \in Requests : /\ queue' = Append(queue, r) /\ r.job = j
                                /\ r.op = "close" /\ r.session = active
      BY <2>2, <3>1, Calling DEF Ops
    <3>3. "closing" \in Awaits(r.op)
      BY <3>2 DEF Awaits
    <3>4. JobStep(j, "closing")
      BY <1>0, <1>1, <2>2, <3>1, <3>2, <3>3 DEF JobStep, Connect, BeginConnect, Invoked, Goto, PCs, Unopened
    <3> QED BY <3>4
  <2> QED BY <2>1, <2>2
<1>2. CASE Disconnect(j)
  <2>1. Call(j, "close", active) /\ active' = None /\ active # None
    BY <1>2 DEF Disconnect, LeaveConnection
  <2>2. PICK r \in Requests : /\ queue' = Append(queue, r) /\ r.job = j
                              /\ r.op = "close" /\ r.session = active
    BY <2>1, Calling DEF Ops
  <2>3. "disconnecting" \in Awaits(r.op)
    BY <2>2 DEF Awaits
  <2>4. JobStep(j, "disconnecting")
    BY <1>0, <1>2, <2>1, <2>2, <2>3 DEF JobStep, Disconnect, Invoked, Goto, PCs, Unopened
  <2> QED BY <2>4
<1>3. CASE Run(j)
  <2>1. Call(j, "execute", active) /\ active # None
    BY <1>3 DEF Run
  <2>2. PICK r \in Requests : /\ queue' = Append(queue, r) /\ r.job = j
                              /\ r.op = "execute" /\ r.session = active
    BY <2>1, Calling DEF Ops
  <2>3. "executing" \in Awaits(r.op)
    BY <2>2 DEF Awaits
  <2>4. JobStep(j, "executing")
    BY <1>0, <1>3, <2>2, <2>3 DEF JobStep, Run, Invoked, Goto, PCs, Unopened
  <2> QED BY <2>4
<1>4. CASE Cancel(j)
  <2>1. Call(j, "cancel", active) /\ active # None
    BY <1>4 DEF Cancel
  <2>2. PICK r \in Requests : /\ queue' = Append(queue, r) /\ r.job = j
                              /\ r.op = "cancel" /\ r.session = active
    BY <2>1, Calling DEF Ops
  <2>3. "cancelling" \in Awaits(r.op)
    BY <2>2 DEF Awaits
  <2>4. JobStep(j, "cancelling")
    BY <1>0, <1>4, <2>2, <2>3 DEF JobStep, Cancel, Invoked, Goto, PCs, Unopened, appVars
  <2> QED BY <2>4
<1>5. CASE Closed(j)
  <2>1. JobStep(j, "password")
    BY <1>0, <1>5 DEF JobStep, Closed, Answered, Take, Goto, PCs, Unopened, appVars
  <2> QED BY <2>1
<1>6. CASE ReadPassword(j)
  <2>1. [job |-> j, op |-> "open", session |-> None] \in Requests
    BY DEF Requests
  <2>2. "opening" \in Awaits("open")
    BY DEF Awaits
  <2>3. JobStep(j, "opening")
    BY <1>0, <1>6, <2>1, <2>2
    DEF JobStep, ReadPassword, Call, Goto, PCs, Unopened, appVars
  <2> QED BY <2>3
<1>7. CASE Opened(j)
  <2>1. JobStep(j, "saving")
    BY <1>0, <1>7 DEF JobStep, Opened, Answered, Answer, Take, Goto, PCs, Unopened
  <2> QED BY <2>1
<1>8. CASE NotOpened(j)
  <2>1. JobStep(j, "done")
    BY <1>0, <1>8 DEF JobStep, NotOpened, Answered, Take, Goto, PCs, Unopened
  <2> QED BY <2>1
<1>9. CASE Saved(j)
  <2>1. PICK place \in {"done", "databases"} :
          /\ Goto(j, place)
          /\ \/ queue' = queue /\ place \notin Awaiting
             \/ \E r \in Requests :
                  /\ queue' = Append(queue, r) /\ r.job = j
                  /\ r.op = "catalog" /\ r.session = active /\ place \in Awaits(r.op)
    BY <1>9, RefreshSteps DEF Saved
  <2>2. JobStep(j, place)
    BY <1>0, <1>9, <2>1 DEF JobStep, Saved, Goto, PCs, Unopened
  <2> QED BY <2>2
<1>10. CASE NotSaved(j)
  <2>1. JobStep(j, "thrown")
    BY <1>0, <1>10 DEF JobStep, NotSaved, Goto, PCs, Unopened, appVars
  <2> QED BY <2>1
<1>11. CASE DatabasesListed(j)
  <2>1. PICK place \in {"done", "schemas"} :
          /\ Goto(j, place)
          /\ \/ queue' = queue /\ place \notin Awaiting
             \/ \E r \in Requests :
                  /\ queue' = Append(queue, r) /\ r.job = j
                  /\ r.op = "catalog" /\ r.session = active /\ place \in Awaits(r.op)
    BY <1>11, RefreshSteps DEF DatabasesListed
  <2>2. JobStep(j, place)
    BY <1>0, <1>11, <2>1
    DEF JobStep, DatabasesListed, Answered, Take, Goto, PCs, Unopened, appVars
  <2> QED BY <2>2
<1>12. CASE SchemasListed(j)
  <2>1. CASE Answer = "ok"
    <3>1. PICK place \in {"done", "tables"} :
            /\ Goto(j, place)
            /\ \/ queue' = queue /\ place \notin Awaiting
               \/ \E r \in Requests :
                    /\ queue' = Append(queue, r) /\ r.job = j
                    /\ r.op = "catalog" /\ r.session = active /\ place \in Awaits(r.op)
      BY <1>12, <2>1, RefreshSteps DEF SchemasListed
    <3>2. JobStep(j, place)
      BY <1>0, <1>12, <3>1
      DEF JobStep, SchemasListed, Answered, Take, Goto, PCs, Unopened, appVars
    <3> QED BY <3>2
  <2>2. CASE Answer # "ok"
    <3>1. JobStep(j, "done")
      BY <1>0, <1>12, <2>2
      DEF JobStep, SchemasListed, Answered, Take, Goto, PCs, Unopened, appVars
    <3> QED BY <3>1
  <2> QED BY <2>1, <2>2
<1>13. CASE RunAnswered(j)
  <2>1. JobStep(j, "history")
    BY <1>0, <1>13 DEF JobStep, RunAnswered, Answered, Take, Goto, PCs, Unopened
  <2> QED BY <2>1
<1>14. CASE RunEnds(j)
  <2>1. JobStep(j, "done")
    BY <1>0, <1>14 DEF JobStep, RunEnds, Goto, PCs, Unopened
  <2> QED BY <2>1
<1>15. CASE JobEnds(j)
  <2>1. JobStep(j, "done")
    BY <1>0, <1>15 DEF JobStep, JobEnds, Answered, Take, Goto, PCs, Unopened, appVars
  <2> QED BY <2>1
<1> QED
  BY <1>1, <1>2, <1>3, <1>4, <1>5, <1>6, <1>7, <1>8, <1>9, <1>10, <1>11, <1>12, <1>13,
     <1>14, <1>15
  DEF JobAction, Resume

-----------------------------------------------------------------------------
(* What else the steps of a job leave in order.                            *)

LEMMA FrontTab == ASSUME TypeOK PROVE Tab \in Tabs
<1>1. tabs \in Seq(Tabs) /\ front \in 1..Len(tabs)
  BY DEF TypeOK
<1>2. tabs[front] \in Tabs
  BY <1>1, ElementOfSeq
<1> QED BY <1>2 DEF Tab

\* The history only grows, and only when a connect begins.
LEMMA JobGrowsOverlaps ==
  ASSUME NEW j \in Jobs, JobAction(j)
  PROVE  /\ overlapped \subseteq overlapped'
         /\ ~Connect(j) => overlapped' = overlapped
         /\ overlapped \subseteq Jobs => overlapped' \subseteq Jobs
<1>1. CASE Connect(j)
  BY <1>1 DEF Connect, BeginConnect, Opening
<1>2. CASE ~Connect(j)
  BY <1>2
  DEF JobAction, Resume, Disconnect, Run, Cancel, Closed, ReadPassword, Opened, NotOpened,
      Saved, NotSaved, DatabasesListed, SchemasListed, RunAnswered, RunEnds, JobEnds,
      appVars
<1> QED BY <1>1, <1>2

LEMMA JobKeepsTypes ==
  ASSUME TypeOK, NEW j \in Jobs, JobAction(j)
  PROVE  /\ TypeOK'
         /\ UNCHANGED <<tabs, front, tabSeq>>
<1>1. queue' \in Seq(Requests) /\ inbox' \in Seq(Responses) /\ pc' \in [Jobs -> PCs]
      /\ open' = open
  BY JobMoves, JobStepQueues DEF JobStep
<1>2. UNCHANGED <<tabs, front, tabSeq>>
  BY DEF JobAction, Resume, Connect, Disconnect, Run, Cancel, Closed, ReadPassword, Opened,
         NotOpened, Saved, NotSaved, DatabasesListed, SchemasListed, RunAnswered, RunEnds,
         JobEnds, appVars
<1>3. Tab \in Tabs
  BY FrontTab
<1>4. LeaveConnection => /\ active' = None
                         /\ results' \in [Tabs -> Jobs \cup {None}]
                         /\ running' \in [Tabs -> BOOLEAN]
                         /\ opId' \in [Tabs -> Jobs \cup {None}]
  BY DEF LeaveConnection, TypeOK
<1>5. inbox # <<>> => Answer \in Replies
  BY Queued, Taking DEF Answer, Responses
<1>6. /\ conn' \in [Jobs -> Jobs \cup {None}]
      /\ target' \in [Jobs -> Tabs \cup {None}]
      /\ reply' \in [Jobs -> Replies \cup {"none"}]
      /\ active' \in Jobs \cup {None}
      /\ connecting' \in BOOLEAN
      /\ results' \in [Tabs -> Jobs \cup {None}]
      /\ running' \in [Tabs -> BOOLEAN]
      /\ opId' \in [Tabs -> Jobs \cup {None}]
  <2>1. CASE Connect(j) \/ Disconnect(j)
    BY <2>1, <1>4 DEF Connect, BeginConnect, Disconnect, TypeOK
  <2>2. CASE Run(j)
    BY <2>2, <1>3 DEF Run, TypeOK
  <2>3. CASE Cancel(j)
    BY <2>3 DEF Cancel, TypeOK, appVars
  <2>4. CASE Closed(j) \/ ReadPassword(j) \/ Opened(j) \/ NotOpened(j) \/ NotSaved(j)
             \/ JobEnds(j)
    BY <2>4 DEF Closed, ReadPassword, Opened, NotOpened, NotSaved, JobEnds, TypeOK, appVars
  <2>5. CASE Saved(j) \/ DatabasesListed(j) \/ SchemasListed(j)
    <3>1. conn' \in [Jobs -> Jobs \cup {None}]
      BY <2>5, RefreshSteps DEF Saved, DatabasesListed, SchemasListed, TypeOK
    <3> QED BY <2>5, <3>1 DEF Saved, DatabasesListed, SchemasListed, TypeOK, appVars
  <2>6. CASE RunAnswered(j)
    BY <2>6, <1>5 DEF RunAnswered, Answered, TypeOK
  <2>7. CASE RunEnds(j)
    BY <2>7 DEF RunEnds, TypeOK
  <2> QED BY <2>1, <2>2, <2>3, <2>4, <2>5, <2>6, <2>7 DEF JobAction, Resume
<1>7. overlapped' \subseteq Jobs
  BY JobGrowsOverlaps DEF TypeOK
<1> QED BY <1>1, <1>2, <1>6, <1>7 DEF TypeOK, Requests, Responses

\* A run answers into the tab it captured, and nothing else fills a tab.
LEMMA JobKeepsResults ==
  ASSUME TypeOK, NoTargetYet, ResultsInTheirTab, NEW j \in Jobs, JobAction(j)
  PROVE  NoTargetYet' /\ ResultsInTheirTab'
<1>1. \A k \in Jobs : pc'[k] = "idle" => pc[k] = "idle"
  <2>1. PICK place \in PCs :
          pc' = [pc EXCEPT ![j] = place] /\ (place = "idle" => pc[j] = "idle")
    BY JobMoves DEF JobStep
  <2>2. DOMAIN pc = Jobs
    BY DEF TypeOK
  <2> QED BY <2>1, <2>2
<1>2. LeaveConnection => \A t \in Tabs : results'[t] \in {results[t], None}
  BY DEF LeaveConnection
<1>3. CASE Run(j)
  <2>1. /\ pc[j] = "idle" /\ Tab \in Tabs
        /\ \A k \in Jobs : target'[k] = IF k = j THEN Tab ELSE target[k]
        /\ \A t \in Tabs : results'[t] = IF t = Tab THEN None ELSE results[t]
        /\ pc'[j] = "executing"
    BY <1>3, FrontTab DEF Run, Invoked, Goto, TypeOK
  <2>2. target[j] = None
    BY <2>1 DEF NoTargetYet
  <2>3. NoTargetYet'
    BY <1>1, <2>1 DEF NoTargetYet
  <2>4. ResultsInTheirTab'
    BY <2>1, <2>2 DEF ResultsInTheirTab, TypeOK
  <2> QED BY <2>3, <2>4
<1>4. CASE RunAnswered(j)
  <2>1. /\ target' = target
        /\ \A t \in Tabs : results'[t] = results[t] \/ (results'[t] = j /\ target[j] = t)
    BY <1>4 DEF RunAnswered, TypeOK
  <2> QED BY <1>1, <2>1 DEF NoTargetYet, ResultsInTheirTab
<1>5. CASE ~Run(j) /\ ~RunAnswered(j)
  <2>1. /\ target' = target
        /\ \A t \in Tabs : results'[t] \in {results[t], None}
    BY <1>2, <1>5
    DEF JobAction, Resume, Connect, Disconnect, Cancel, Closed, ReadPassword, Opened,
        NotOpened, Saved, NotSaved, DatabasesListed, SchemasListed, RunEnds, JobEnds, appVars
  <2> QED BY <1>1, <2>1 DEF NoTargetYet, ResultsInTheirTab
<1> QED BY <1>3, <1>4, <1>5

LEMMA JobKeeps ==
  ASSUME IInv, NEW j \in Jobs, JobAction(j)
  PROVE  IInv'
<1>1. PICK place : JobStep(j, place)
  BY JobMoves DEF IInv
<1>2. Awaited' /\ Alive' /\ SessionsNeverLost'
  BY <1>1, JobStepAwaited, JobStepAlive DEF IInv
<1>3. TypeOK' /\ TabsNumbered'
  BY JobKeepsTypes DEF IInv, TabsNumbered
<1> QED BY <1>2, <1>3, JobKeepsResults DEF IInv

-----------------------------------------------------------------------------
(* The tabs.                                                               *)

LEMMA Removing ==
  ASSUME NEW S, NEW s \in Seq(S), NEW i \in 1..Len(s)
  PROVE  /\ RemoveAt(s, i) \in Seq(S)
         /\ Len(RemoveAt(s, i)) = Len(s) - 1
         /\ \A k \in 1..(Len(s) - 1) : RemoveAt(s, i)[k] = IF k < i THEN s[k] ELSE s[k + 1]
<1> DEFINE before == SubSeq(s, 1, i - 1)
           after  == SubSeq(s, i + 1, Len(s))
<1>1. /\ Len(s) \in Nat /\ i \in 1..Len(s) /\ i - 1 \in Int /\ i + 1 \in Int /\ Len(s) \in Int
      /\ \A k \in 1..(i - 1) : s[k] \in S
      /\ \A k \in (i + 1)..Len(s) : s[k] \in S
  OBVIOUS
<1>2. /\ before \in Seq(S) /\ Len(before) = i - 1
      /\ \A k \in 1..(i - 1) : before[k] = s[k]
  BY <1>1, SubSeqProperties
<1>3. /\ after \in Seq(S) /\ Len(after) = Len(s) - i
      /\ \A k \in 1..(Len(s) - i) : after[k] = s[i + k]
  BY <1>1, SubSeqProperties
<1>4. RemoveAt(s, i) = before \o after
  BY DEF RemoveAt
<1> HIDE DEF before, after
<1>5. /\ before \o after \in Seq(S)
      /\ Len(before \o after) = Len(s) - 1
      /\ \A k \in 1..(Len(s) - 1) :
           (before \o after)[k] = IF k <= i - 1 THEN before[k] ELSE after[k - (i - 1)]
  <2>1. /\ before \o after \in Seq(S) /\ Len(before \o after) = Len(before) + Len(after)
        /\ \A k \in 1..(Len(before) + Len(after)) :
             (before \o after)[k] = IF k <= Len(before) THEN before[k]
                                    ELSE after[k - Len(before)]
    BY <1>2, <1>3, ConcatProperties
  <2>2. Len(before) + Len(after) = Len(s) - 1 /\ Len(before) = i - 1
    BY <1>1, <1>2, <1>3
  <2> QED BY <2>1, <2>2
<1>6. ASSUME NEW k \in 1..(Len(s) - 1)
      PROVE  RemoveAt(s, i)[k] = IF k < i THEN s[k] ELSE s[k + 1]
  <2>1. CASE k < i
    <3>1. k \in 1..(i - 1) /\ k <= i - 1
      BY <1>1, <2>1
    <3>2. (before \o after)[k] = before[k]
      BY <1>5, <3>1
    <3>3. before[k] = s[k]
      BY <1>2, <3>1
    <3> QED BY <1>4, <2>1, <3>2, <3>3
  <2>2. CASE ~(k < i)
    <3>1. /\ k - (i - 1) \in 1..(Len(s) - i) /\ ~(k <= i - 1)
          /\ i + (k - (i - 1)) = k + 1
      BY <1>1, <2>2
    <3>2. (before \o after)[k] = after[k - (i - 1)]
      BY <1>5, <3>1
    <3>3. after[k - (i - 1)] = s[i + (k - (i - 1))]
      BY <1>3, <3>1
    <3> QED BY <1>4, <2>2, <3>1, <3>2, <3>3
  <2> QED BY <2>1, <2>2
<1> QED BY <1>4, <1>5, <1>6

LEMMA TabsKeep ==
  ASSUME IInv, SelectTab \/ OpenTab \/ CloseTab
  PROVE  IInv'
<1>1. UNCHANGED <<pc, conn, target, reply, active, connecting, results, running, opId,
                  queue, inbox, open, overlapped>>
  BY DEF SelectTab, OpenTab, CloseTab
<1>2. Awaited' /\ Alive' /\ SessionsNeverLost' /\ NoTargetYet' /\ ResultsInTheirTab'
  BY <1>1
  DEF IInv, Awaited, Alive, SessionsNeverLost, NoTargetYet, ResultsInTheirTab
<1>3. /\ tabs \in Seq(Tabs) /\ front \in 1..Len(tabs) /\ tabSeq \in Tabs
      /\ DOMAIN tabs = 1..Len(tabs) /\ Len(tabs) \in Nat
      /\ \A i, k \in DOMAIN tabs : tabs[i] = tabs[k] => i = k
      /\ \A i \in DOMAIN tabs : tabs[i] \in Tabs /\ tabs[i] <= tabSeq
  BY DEF IInv, TypeOK, IsInjective, TabsNumbered
<1>4. /\ tabs' \in Seq(Tabs) /\ front' \in 1..Len(tabs') /\ tabSeq' \in Tabs
      /\ \A i, k \in DOMAIN tabs' : tabs'[i] = tabs'[k] => i = k
      /\ \A i \in DOMAIN tabs' : tabs'[i] <= tabSeq'
  <2>1. CASE SelectTab
    BY <2>1, <1>3 DEF SelectTab
  <2>2. CASE OpenTab
    <3>1. /\ tabSeq' = tabSeq + 1 /\ tabSeq + 1 \in Tabs
          /\ tabs' = Append(tabs, tabSeq + 1) /\ front' = Len(tabs) + 1
      BY <2>2, <1>3 DEF OpenTab
    <3>2. /\ tabs' \in Seq(Tabs) /\ Len(tabs') = Len(tabs) + 1
          /\ DOMAIN tabs' = 1..(Len(tabs) + 1)
          /\ \A i \in DOMAIN tabs : tabs'[i] = tabs[i]
          /\ tabs'[Len(tabs) + 1] = tabSeq + 1
      BY <3>1, <1>3, Putting
    <3>3. \A i \in DOMAIN tabs' : (i \in DOMAIN tabs /\ tabs'[i] <= tabSeq)
                                  \/ (i = Len(tabs) + 1 /\ tabs'[i] = tabSeq + 1)
      <4>1. \A i \in DOMAIN tabs' : i \in DOMAIN tabs \/ i = Len(tabs) + 1
        <5>1. /\ DOMAIN tabs' = 1..(Len(tabs) + 1) /\ DOMAIN tabs = 1..Len(tabs)
              /\ Len(tabs) \in Nat
          BY <3>2, <1>3
        <5> QED BY <5>1
      <4>2. ASSUME NEW i \in DOMAIN tabs PROVE tabs'[i] <= tabSeq
        <5>1. tabs'[i] = tabs[i]
          BY <3>2
        <5>2. tabs[i] <= tabSeq
          BY <1>3
        <5> QED BY <5>1, <5>2
      <4> QED BY <3>2, <4>1, <4>2
    <3>4. ASSUME NEW i \in DOMAIN tabs', NEW k \in DOMAIN tabs', tabs'[i] = tabs'[k]
          PROVE  i = k
      <4>1. \A m \in DOMAIN tabs : tabs'[m] # tabSeq + 1
        BY <3>2, <1>3
      <4>2. CASE i \in DOMAIN tabs /\ k \in DOMAIN tabs
        BY <3>2, <3>4, <4>2, <1>3
      <4>3. CASE i \notin DOMAIN tabs \/ k \notin DOMAIN tabs
        BY <3>2, <3>3, <3>4, <4>1, <4>3
      <4> QED BY <4>2, <4>3
    <3> QED BY <3>1, <3>2, <3>3, <3>4, <1>3
  <2>3. CASE CloseTab
    <3>1. PICK i \in 1..Len(tabs) :
            LET left == RemoveAt(tabs, i) IN
            IF left = <<>>
              THEN /\ tabSeq < NumTabs
                   /\ tabSeq' = tabSeq + 1
                   /\ tabs' = <<tabSeq + 1>>
                   /\ front' = 1
              ELSE /\ tabs' = left
                   /\ front' = IF front > Len(left) THEN Len(left) ELSE front
                   /\ UNCHANGED tabSeq
      BY <2>3 DEF CloseTab
    <3> DEFINE left == RemoveAt(tabs, i)
    <3>2. /\ left \in Seq(Tabs) /\ Len(left) = Len(tabs) - 1
          /\ \A k \in 1..(Len(tabs) - 1) : left[k] = IF k < i THEN tabs[k] ELSE tabs[k + 1]
      <4> HIDE DEF Tabs
      <4>1. tabs \in Seq(Tabs) /\ i \in 1..Len(tabs)
        BY <1>3
      <4> QED BY <4>1, Removing
    <3>3. CASE left = <<>>
      <4>1. tabSeq' = tabSeq + 1 /\ tabSeq + 1 \in Tabs /\ tabs' = <<tabSeq + 1>> /\ front' = 1
        BY <3>1, <3>3, <1>3
      <4>2. /\ tabs' \in Seq(Tabs) /\ Len(tabs') = 1 /\ DOMAIN tabs' = {1}
            /\ tabs'[1] = tabSeq + 1
        BY <4>1
      <4> QED BY <4>1, <4>2
    <3>4. CASE left # <<>>
      <4>1. /\ tabs' = left /\ tabSeq' = tabSeq
            /\ front' = IF front > Len(left) THEN Len(left) ELSE front
        BY <3>1, <3>4
      <4> HIDE DEF left
      <4>2. Len(left) \in Nat \ {0} /\ DOMAIN left = 1..Len(left)
        <5> HIDE DEF Tabs
        <5>1. left \in Seq(Tabs)
          BY <3>2
        <5> QED BY <5>1, <3>4
      <4>3. front' \in 1..Len(tabs')
        BY <4>1, <4>2, <1>3
      <4>4. \A k \in DOMAIN left : \E m \in DOMAIN tabs :
              left[k] = tabs[m] /\ m = IF k < i THEN k ELSE k + 1
        <5>1. ASSUME NEW k \in DOMAIN left
              PROVE  /\ (IF k < i THEN k ELSE k + 1) \in DOMAIN tabs
                     /\ left[k] = tabs[IF k < i THEN k ELSE k + 1]
          <6> HIDE DEF Tabs
          <6>1. k \in 1..(Len(tabs) - 1)
            BY <4>2, <3>2
          <6>2. left[k] = IF k < i THEN tabs[k] ELSE tabs[k + 1]
            BY <6>1, <3>2
          <6>3. DOMAIN tabs = 1..Len(tabs) /\ Len(tabs) \in Nat /\ i \in 1..Len(tabs)
            BY <1>3
          <6> QED BY <6>1, <6>2, <6>3
        <5> QED BY <5>1
      <4>5. ASSUME NEW k \in DOMAIN left, NEW m \in DOMAIN left, left[k] = left[m]
            PROVE  k = m
        <5>1. PICK a \in DOMAIN tabs : left[k] = tabs[a] /\ a = IF k < i THEN k ELSE k + 1
          BY <4>4
        <5>2. PICK b \in DOMAIN tabs : left[m] = tabs[b] /\ b = IF m < i THEN m ELSE m + 1
          BY <4>4
        <5>3. a = b
          BY <4>5, <5>1, <5>2, <1>3
        <5>4. k \in Nat /\ m \in Nat /\ i \in Nat
          BY <4>2, <1>3
        <5> QED BY <5>1, <5>2, <5>3, <5>4
      <4>6. \A k \in DOMAIN left : left[k] <= tabSeq
        BY <4>4, <1>3
      <4> QED BY <4>1, <4>3, <4>5, <4>6, <3>2, <1>3
    <3> QED BY <3>3, <3>4
  <2> QED BY <2>1, <2>2, <2>3
<1>5. TypeOK' /\ TabsNumbered'
  BY <1>1, <1>4 DEF IInv, TypeOK, IsInjective, TabsNumbered
<1> QED BY <1>2, <1>5 DEF IInv

-----------------------------------------------------------------------------
LEMMA InitInv == Init => IInv
<1> SUFFICES ASSUME Init PROVE IInv
  OBVIOUS
<1>1. TypeOK
  <2>1. <<1>> \in Seq(Tabs) /\ Len(<<1>>) = 1 /\ DOMAIN <<1>> = {1}
    OBVIOUS
  <2>2. tabs \in Seq(Tabs) /\ IsInjective(tabs) /\ front \in 1..Len(tabs)
    BY <2>1 DEF Init, IsInjective
  <2>3. /\ queue \in Seq(Requests) /\ inbox \in Seq(Responses)
    BY DEF Init
  <2>4. /\ pc \in [Jobs -> PCs]
        /\ conn \in [Jobs -> Jobs \cup {None}]
        /\ target \in [Jobs -> Tabs \cup {None}]
        /\ reply \in [Jobs -> Replies \cup {"none"}]
        /\ tabSeq \in Tabs
        /\ results \in [Tabs -> Jobs \cup {None}]
        /\ running \in [Tabs -> BOOLEAN]
        /\ opId \in [Tabs -> Jobs \cup {None}]
    BY DEF Init, PCs
  <2>5. active \in Jobs \cup {None} /\ connecting \in BOOLEAN /\ open \subseteq Jobs
        /\ overlapped \subseteq Jobs
    BY DEF Init
  <2> QED BY <2>2, <2>3, <2>4, <2>5 DEF TypeOK, Requests, Responses
<1> QED
  BY <1>1
  DEF IInv, Init, TabsNumbered, Awaited, Alive, SessionsNeverLost, NoTargetYet,
      ResultsInTheirTab

LEMMA StepInv == IInv /\ [Next]_vars => IInv'
<1> SUFFICES ASSUME IInv, [Next]_vars PROVE IInv'
  OBVIOUS
<1>1. CASE \E j \in Jobs : JobAction(j)
  BY <1>1, JobKeeps
<1>2. CASE SelectTab \/ OpenTab \/ CloseTab
  BY <1>2, TabsKeep
<1>3. CASE CoreAnswers
  <2>1. TypeOK' /\ Awaited' /\ Alive' /\ SessionsNeverLost'
    BY <1>3, CoreKeeps DEF IInv
  <2>2. TabsNumbered' /\ NoTargetYet' /\ ResultsInTheirTab'
    BY <1>3 DEF CoreAnswers, appVars, IInv, TabsNumbered, NoTargetYet, ResultsInTheirTab
  <2> QED BY <2>1, <2>2 DEF IInv
<1>4. CASE UNCHANGED vars
  BY <1>4
  DEF vars, appVars, IInv, TypeOK, TabsNumbered, Awaited, Alive, SessionsNeverLost,
      NoTargetYet, ResultsInTheirTab
<1> QED BY <1>1, <1>2, <1>3, <1>4 DEF Next, UserStep, JobAction

\* However many connects are under way at once, whatever names a session (the
\* connection that is open, a request) comes before its close.
THEOREM Inv == Spec => []IInv
BY InitInv, StepInv, PTL DEF Spec

\* The types, and the front index is always that of an open tab, none of which
\* is open twice (closeTab, openTab).
THEOREM Typing == Spec => []TypeOK
<1>1. IInv => TypeOK
  BY DEF IInv
<1> QED BY <1>1, Inv, PTL

\* No request ever reaches a session that is closed (disconnect drops _active
\* before it asks for the close).
THEOREM NeverLost == Spec => []SessionsNeverLost
<1>1. IInv => SessionsNeverLost
  BY DEF IInv
<1> QED BY <1>1, Inv, PTL

\* Results land in the tab their run captured, whatever is done to the tabs and
\* to the connection meanwhile (run).
THEOREM InTheirTab == Spec => []ResultsInTheirTab
<1>1. IInv => ResultsInTheirTab
  BY DEF IInv
<1> QED BY <1>1, Inv, PTL

-----------------------------------------------------------------------------
(* Connects, one after the other or overlapping.                           *)

Everything == IInv /\ ConnectInv

\* What a job's step does to the connection that is open.
LEMMA ActiveSteps ==
  ASSUME Everything, NEW j \in Jobs, JobAction(j)
  PROVE  \/ active' = active
         \/ /\ active' = None
            /\ Connect(j) \/ Disconnect(j)
         \/ active' = j /\ Opened(j)
<1>1. CASE Connect(j) \/ Disconnect(j)
  BY <1>1 DEF Connect, Disconnect, LeaveConnection
<1>2. CASE Opened(j)
  BY <1>2 DEF Opened
<1>3. CASE RunAnswered(j)
  <2>1. Answer # "no_session"
    BY <1>3, Queued, Taking
    DEF RunAnswered, Answered, Answer, Everything, IInv, SessionsNeverLost
  <2> QED BY <1>3, <2>1 DEF RunAnswered
<1> QED
  BY <1>1, <1>2, <1>3
  DEF JobAction, Resume, Run, Cancel, Closed, ReadPassword, NotOpened, Saved, NotSaved,
      DatabasesListed, SchemasListed, RunEnds, JobEnds, appVars

LEMMA Going ==
  ASSUME TypeOK, NEW j \in Jobs, NEW place, Goto(j, place)
  PROVE  \A k \in Jobs : pc'[k] = IF k = j THEN place ELSE pc[k]
BY DEF Goto, TypeOK

\* A job's step but that of an invocation of connect starts no connect, and
\* none comes back before its opening.
LEMMA ConnectPlaces ==
  ASSUME Everything, NEW j \in Jobs, JobAction(j), ~Connect(j)
  PROVE  /\ \A k \in Jobs : k # j => pc'[k] = pc[k]
         /\ pc'[j] \in {"closing", "password", "opening"} =>
              pc[j] \in {"closing", "password", "opening"}
         /\ pc'[j] = "saving" => Opened(j)
<1>0. TypeOK
  BY DEF Everything, IInv
<1>1. CASE Saved(j)
  BY <1>0, <1>1, RefreshSteps, Going DEF Saved
<1>2. CASE DatabasesListed(j)
  BY <1>0, <1>2, RefreshSteps, Going DEF DatabasesListed
<1>3. CASE SchemasListed(j)
  <2>1. CASE Answer = "ok"
    BY <1>0, <1>3, <2>1, RefreshSteps, Going DEF SchemasListed
  <2>2. CASE Answer # "ok"
    BY <1>0, <1>3, <2>2, Going DEF SchemasListed
  <2> QED BY <2>1, <2>2
<1>4. CASE Closed(j) \/ ReadPassword(j) \/ Opened(j) \/ NotOpened(j) \/ NotSaved(j)
  BY <1>0, <1>4, Going DEF Closed, ReadPassword, Opened, NotOpened, NotSaved
<1>5. CASE Disconnect(j) \/ Run(j) \/ Cancel(j) \/ RunAnswered(j) \/ RunEnds(j) \/ JobEnds(j)
  BY <1>0, <1>5, Going DEF Disconnect, Run, Cancel, RunAnswered, RunEnds, JobEnds
<1> QED BY <1>1, <1>2, <1>3, <1>4, <1>5 DEF JobAction, Resume

LEMMA ConnectSteps ==
  ASSUME TypeOK, NEW j \in Jobs, Connect(j)
  PROVE  /\ \A k \in Jobs : k # j => pc'[k] = pc[k]
         /\ pc[j] = "idle" /\ pc'[j] \in {"closing", "password"} /\ active' = None
<1>1. CASE active = None
  BY <1>1, Going DEF Connect, BeginConnect, Invoked
<1>2. CASE active # None
  BY <1>2, Going DEF Connect, BeginConnect, Invoked, LeaveConnection
<1> QED BY <1>1, <1>2

LEMMA JobKeepsOverlaps ==
  ASSUME Everything, NEW j \in Jobs, JobAction(j)
  PROVE  OverlapsKnown'
<1>0. TypeOK /\ OverlapsKnown /\ Opening \subseteq Jobs
  BY DEF Everything, IInv, ConnectInv, Opening
<1>1. CASE Connect(j)
  <2>1. /\ \A k \in Jobs : k # j => pc'[k] = pc[k]
        /\ active' = None
    BY <1>0, <1>1, ConnectSteps
  <2>2. Opening' \subseteq Opening \cup {j}
    BY <2>1 DEF Opening
  <2>3. overlapped' = IF Opening = {} THEN overlapped ELSE overlapped \cup Opening \cup {j}
    BY <1>1 DEF Connect, BeginConnect
  <2>4. ASSUME NEW i \in Opening', NEW k \in Opening', i # k PROVE i \in overlapped'
    <3>1. Opening # {} /\ i \in Opening \cup {j}
      BY <2>2, <2>4
    <3> QED BY <3>1, <2>3
  <2> QED BY <2>1, <2>4 DEF OverlapsKnown
<1>2. CASE ~Connect(j)
  <2>1. /\ \A k \in Jobs : k # j => pc'[k] = pc[k]
        /\ pc'[j] \in {"closing", "password", "opening"} =>
             pc[j] \in {"closing", "password", "opening"}
    BY <1>2, ConnectPlaces
  <2>2. Opening' \subseteq Opening /\ overlapped' = overlapped
    BY <2>1, <1>2, JobGrowsOverlaps DEF Opening
  <2>3. ASSUME NEW k \in Opening', active' # None PROVE active' \in overlapped
    <3>1. CASE active' = active
      BY <3>1, <2>2, <2>3, <1>0 DEF OverlapsKnown
    <3>2. CASE active' = j /\ Opened(j)
      <4>1. j \in Opening
        BY <3>2 DEF Opened, Opening
      <4>2. pc'[j] = "saving"
        BY <3>2, <1>0, Going DEF Opened
      <4>3. k # j
        BY <4>2 DEF Opening
      <4> QED BY <4>1, <4>3, <3>2, <2>2, <1>0 DEF OverlapsKnown
    <3> QED BY <3>1, <3>2, <2>3, ActiveSteps
  <2> QED BY <2>2, <2>3, <1>0 DEF OverlapsKnown
<1> QED BY <1>1, <1>2

\* The session that comes takes the place of none, but of one that overlapped.
LEMMA OpenedReplaces ==
  ASSUME Everything, NEW j \in Jobs, Opened(j)
  PROVE  active = None \/ active \in overlapped
<1>1. j \in Opening
  BY DEF Opened, Opening
<1> QED BY <1>1 DEF Everything, ConnectInv, OverlapsKnown

\* A tab's operation is one that runs, and its connection stays the captured one.
LEMMA JobKeepsOpIds ==
  ASSUME Everything, NEW j \in Jobs, JobAction(j)
  PROVE  /\ OpIdsKnown'
         /\ \A t \in Tabs : opId'[t] # None =>
              IF opId'[t] = j /\ Run(j)
                THEN t = Tab /\ conn'[j] = active
                ELSE opId[t] = opId'[t] /\ conn'[opId[t]] = conn[opId[t]]
<1>0. TypeOK /\ OpIdsKnown /\ TabsNumbered
  BY DEF Everything, IInv, ConnectInv
<1>1. CASE Run(j)
  <2>1. /\ Tab \in Tabs /\ Tab <= tabSeq /\ tabSeq \in Tabs /\ active # None
        /\ pc[j] = "idle" /\ tabSeq' = tabSeq
        /\ \A k \in Jobs : pc'[k] = IF k = j THEN "executing" ELSE pc[k]
        /\ \A k \in Jobs : conn'[k] = IF k = j THEN active ELSE conn[k]
        /\ \A t \in Tabs : opId'[t] = IF t = Tab THEN j ELSE opId[t]
    <3>1. Tab \in Tabs
      BY <1>0, FrontTab
    <3>2. Tab <= tabSeq /\ tabSeq \in Tabs
      BY <1>0 DEF Tab, TabsNumbered, TypeOK
    <3> QED BY <3>1, <3>2, <1>0, <1>1 DEF Run, Invoked, Goto, TypeOK
  <2>2. \A t \in Tabs : opId[t] # j /\ opId[t] \in Jobs \cup {None}
    <3>1. \A t \in Tabs : opId[t] \in Jobs \cup {None}
      BY <1>0 DEF TypeOK
    <3>2. \A t \in Tabs : opId[t] # None => pc[opId[t]] \in {"executing", "history", "done"}
      BY <1>0 DEF OpIdsKnown
    <3>3. j # None /\ pc[j] = "idle"
      BY <2>1
    <3> QED BY <3>1, <3>2, <3>3
  <2>3. ASSUME NEW t \in Tabs, opId'[t] # None
        PROVE  /\ pc'[opId'[t]] \in {"executing", "history", "done"}
               /\ conn'[opId'[t]] # None
               /\ t <= tabSeq
               /\ IF opId'[t] = j
                    THEN t = Tab /\ conn'[j] = active
                    ELSE opId[t] = opId'[t] /\ conn'[opId[t]] = conn[opId[t]]
    <3>1. CASE t = Tab
      BY <2>1, <3>1
    <3>2. CASE t # Tab
      <4>1. opId'[t] = opId[t] /\ opId[t] # j /\ opId[t] \in Jobs
        BY <2>1, <2>2, <2>3, <3>2
      <4>2. pc'[opId[t]] = pc[opId[t]] /\ conn'[opId[t]] = conn[opId[t]]
        BY <2>1, <4>1
      <4>3. ~(t > tabSeq)
        BY <2>3, <4>1, <1>0 DEF OpIdsKnown
      <4>4. t <= tabSeq
        BY <2>1, <4>3
      <4> QED BY <2>3, <4>1, <4>2, <4>4, <1>0 DEF OpIdsKnown
    <3> QED BY <3>1, <3>2
  <2>4. \A t \in Tabs : t > tabSeq' => opId'[t] = None
    BY <2>1, <2>3
  <2>5. OpIdsKnown'
    BY <2>3, <2>4 DEF OpIdsKnown
  <2> QED BY <2>3, <2>5, <1>1
<1>2. CASE ~Run(j)
  <2>1. \A t \in Tabs : opId'[t] \in {opId[t], None}
    BY <1>0, <1>2
    DEF JobAction, Resume, Connect, Disconnect, Cancel, Closed, ReadPassword, Opened,
        NotOpened, Saved, NotSaved, DatabasesListed, SchemasListed, RunAnswered, RunEnds,
        JobEnds, appVars, LeaveConnection, TypeOK
  <2>2. /\ \A k \in Jobs : k # j => pc'[k] = pc[k] /\ conn'[k] = conn[k]
        /\ pc[j] \in {"executing", "history", "done"} =>
             pc'[j] \in {"history", "done"} /\ conn'[j] = conn[j]
    <3>1. CASE Connect(j)
      BY <3>1, <1>0, ConnectSteps DEF Connect
    <3>2. CASE Disconnect(j)
      BY <3>2, <1>0, Going DEF Disconnect, Invoked
    <3>3. CASE Cancel(j)
      BY <3>3, <1>0, Going DEF Cancel, Invoked, TypeOK
    <3>4. CASE Closed(j) \/ ReadPassword(j) \/ Opened(j) \/ NotOpened(j) \/ NotSaved(j)
      BY <3>4, <1>0, Going DEF Closed, ReadPassword, Opened, NotOpened, NotSaved
    <3>5. CASE RunAnswered(j) \/ RunEnds(j) \/ JobEnds(j)
      BY <3>5, <1>0, Going DEF RunAnswered, RunEnds, JobEnds
    <3>6. CASE Saved(j)
      BY <3>6, <1>0, Going, RefreshSteps DEF Saved
    <3>7. CASE DatabasesListed(j)
      BY <3>7, <1>0, Going, RefreshSteps DEF DatabasesListed
    <3>8. CASE SchemasListed(j)
      <4>1. CASE Answer = "ok"
        BY <3>8, <4>1, <1>0, Going, RefreshSteps DEF SchemasListed
      <4>2. CASE Answer # "ok"
        BY <3>8, <4>2, <1>0, Going DEF SchemasListed
      <4> QED BY <4>1, <4>2
    <3> QED
      BY <1>2, <3>1, <3>2, <3>3, <3>4, <3>5, <3>6, <3>7, <3>8 DEF JobAction, Resume
  <2>3. tabSeq' = tabSeq
    BY <1>0, JobKeepsTypes
  <2>4. \A t \in Tabs : opId[t] # None =>
          /\ opId[t] \in Jobs /\ conn'[opId[t]] = conn[opId[t]]
          /\ pc'[opId[t]] \in {"executing", "history", "done"}
    <3>1. ASSUME NEW t \in Tabs, opId[t] # None
          PROVE  /\ opId[t] \in Jobs
                 /\ pc[opId[t]] \in {"executing", "history", "done"}
      BY <3>1, <1>0 DEF OpIdsKnown, TypeOK
    <3> QED BY <2>2, <3>1
  <2>5. OpIdsKnown'
    BY <2>1, <2>3, <2>4, <1>0 DEF OpIdsKnown
  <2> QED BY <1>2, <2>1, <2>4, <2>5
<1> QED BY <1>1, <1>2

LEMMA JobKeepsStop ==
  ASSUME Everything, NEW j \in Jobs, JobAction(j)
  PROVE  StopNamesThisConnection'
<1>0. /\ TypeOK /\ OpIdsKnown /\ StopNamesThisConnection
      /\ tabs' = tabs /\ overlapped \subseteq overlapped'
  BY JobKeepsTypes, JobGrowsOverlaps DEF Everything, IInv, ConnectInv
<1>1. SUFFICES ASSUME NEW t \in Range(tabs), opId'[t] # None
               PROVE  conn'[opId'[t]] = active' \/ conn'[opId'[t]] \in overlapped'
  BY <1>0 DEF StopNamesThisConnection
<1>2. t \in Tabs
  BY <1>0 DEF TypeOK, Range
<1>3. CASE active' = active
  BY <1>0, <1>1, <1>2, <1>3, JobKeepsOpIds DEF StopNamesThisConnection
<1>4. CASE active' # active /\ (Connect(j) \/ Disconnect(j))
  <2>1. LeaveConnection
    BY <1>4 DEF Connect, Disconnect
  <2> QED BY <1>1, <1>2, <2>1 DEF LeaveConnection
<1>5. CASE Opened(j)
  <2>1. active = None \/ active \in overlapped
    BY <1>5, OpenedReplaces
  <2>2. opId'[t] = opId[t] /\ conn' = conn
    BY <1>5 DEF Opened
  <2>3. conn[opId[t]] # None
    BY <1>0, <1>1, <1>2, <2>2 DEF OpIdsKnown
  <2> QED BY <1>0, <1>1, <2>1, <2>2, <2>3 DEF StopNamesThisConnection
<1> QED BY <1>3, <1>4, <1>5, ActiveSteps

\* A close that is on its way stays there in the steps of the jobs.
LEMMA JobKeepsCloses ==
  ASSUME TypeOK, NEW j \in Jobs, JobAction(j), NEW s \in Jobs,
         \E i \in DOMAIN queue : Closes(queue[i], s)
  PROVE  \E i \in DOMAIN queue' : Closes(queue'[i], s)
<1>1. PICK i \in DOMAIN queue : Closes(queue[i], s)
  OBVIOUS
<1>2. queue' = queue \/ \E r \in Requests : queue' = Append(queue, r)
  BY JobMoves DEF JobStep
<1>3. i \in DOMAIN queue' /\ queue'[i] = queue[i]
  BY <1>1, <1>2, Queued, Putting
<1> QED BY <1>1, <1>3

LEMMA JobKeepsSessions ==
  ASSUME Everything, NEW j \in Jobs, JobAction(j)
  PROVE  SessionsAccounted'
<1>0. /\ TypeOK /\ Alive /\ SessionsAccounted
      /\ open' = open /\ open \subseteq Jobs /\ overlapped \subseteq overlapped'
  BY JobMoves, JobGrowsOverlaps DEF Everything, IInv, ConnectInv, JobStep, TypeOK
<1>1. SUFFICES ASSUME NEW s \in open
               PROVE  \/ s = active'
                      \/ \E i \in DOMAIN queue' : Closes(queue'[i], s)
                      \/ pc'[s] = "opening"
                      \/ s \in overlapped'
  BY <1>0 DEF SessionsAccounted, Closes
<1>2. s \in Jobs
  BY <1>0, <1>1
<1>3. CASE \E i \in DOMAIN queue : Closes(queue[i], s)
  BY <1>0, <1>2, <1>3, JobKeepsCloses
<1>4. CASE pc[s] = "opening" /\ s # j
  BY <1>0, <1>2, <1>4, ConnectPlaces, ConnectSteps
<1>5. CASE pc[s] = "opening" /\ s = j
  <2>1. CASE Opened(j)
    BY <1>5, <2>1 DEF Opened
  <2>2. CASE NotOpened(j)
    <3>1. 1 \in DOMAIN inbox /\ inbox[1].job = j /\ inbox[1].reply # "ok"
      BY <2>2, <1>0, Queued, Taking DEF NotOpened, Answered, Answer
    <3>2. j \notin open
      BY <3>1, <1>0, <1>5 DEF Alive
    <3> QED BY <3>2, <1>1, <1>5
  <2>3. Opened(j) \/ NotOpened(j)
    BY <1>5
    DEF JobAction, Resume, Connect, BeginConnect, Disconnect, Run, Cancel, Invoked, Closed,
        ReadPassword, Saved, NotSaved, DatabasesListed, SchemasListed, RunAnswered, RunEnds, JobEnds
  <2> QED BY <2>1, <2>2, <2>3
<1>6. CASE s = active
  <2>0. active # None
    BY <1>2, <1>6
  <2>1. CASE active' = active
    BY <2>1, <1>6
  <2>2. CASE Connect(j) \/ Disconnect(j)
    <3>1. Call(j, "close", active)
      BY <2>0, <2>2 DEF Connect, Disconnect
    <3>2. PICK r \in Requests : queue' = Append(queue, r) /\ r.op = "close" /\ r.session = active
      BY <2>0, <3>1, <1>0, Calling DEF Ops
    <3>3. /\ Len(queue) + 1 \in DOMAIN queue'
          /\ queue'[Len(queue) + 1] = r
      BY <3>2, <1>0, Queued, Putting
    <3> QED BY <3>2, <3>3, <1>6 DEF Closes
  <2>3. CASE Opened(j)
    BY <2>0, <2>3, <1>0, <1>6, OpenedReplaces
  <2> QED BY <2>1, <2>2, <2>3, ActiveSteps
<1>7. CASE s \in overlapped
  BY <1>0, <1>7
<1> QED BY <1>0, <1>1, <1>3, <1>4, <1>5, <1>6, <1>7 DEF SessionsAccounted, Closes

LEMMA CoreKeepsConnect ==
  ASSUME Everything, CoreAnswers
  PROVE  ConnectInv'
<1> DEFINE r == Head(queue)
<1>0. /\ TypeOK /\ Awaited /\ Alive /\ OverlapsKnown /\ OpIdsKnown /\ SessionsAccounted
      /\ StopNamesThisConnection
      /\ UNCHANGED <<pc, conn, active, tabs, tabSeq, opId, overlapped>>
      /\ queue # <<>> /\ queue' = Tail(queue)
  BY DEF Everything, IInv, ConnectInv, CoreAnswers, appVars
<1>1. OverlapsKnown' /\ OpIdsKnown' /\ StopNamesThisConnection'
  BY <1>0 DEF OverlapsKnown, Opening, OpIdsKnown, StopNamesThisConnection, Range
<1>2. /\ r = queue[1] /\ 1 \in DOMAIN queue /\ r \in Requests /\ r.job \in Jobs
      /\ DOMAIN queue = 1..Len(queue) /\ Len(queue) \in Nat
      /\ DOMAIN queue' = 1..(Len(queue) - 1)
      /\ \A i \in DOMAIN queue' : queue'[i] = queue[i + 1]
  BY <1>0, Queued, Taking DEF Requests
<1>3. PICK answer \in Replies :
        open' = CASE r.op = "open" /\ answer = "ok" -> open \cup {r.job}
                  [] r.op = "close" -> open \ {r.session}
                  [] OTHER -> open
  BY DEF CoreAnswers
<1> HIDE DEF r
<1>4. ASSUME NEW s \in open'
      PROVE  \/ s = active'
             \/ \E i \in DOMAIN queue' : Closes(queue'[i], s)
             \/ pc'[s] = "opening"
             \/ s \in overlapped'
  <2>1. CASE s \notin open
    <3>1. r.op = "open" /\ s = r.job
      <4>1. CASE r.op = "open" /\ answer = "ok"
        <5>1. open' = open \cup {r.job}
          BY <1>3, <4>1
        <5> QED BY <5>1, <4>1, <2>1, <1>4
      <4>2. CASE ~(r.op = "open" /\ answer = "ok")
        <5>1. open' = open \ {r.session} \/ open' = open
          BY <1>3, <4>2
        <5> QED BY <5>1, <2>1, <1>4
      <4> QED BY <4>1, <4>2
    <3>2. pc[r.job] \in Awaits(r.op)
      BY <1>0, <1>2 DEF Awaited
    <3>3. pc[r.job] = "opening"
      BY <3>1, <3>2 DEF Awaits
    <3> QED BY <3>1, <3>3, <1>0
  <2>2. CASE s \in open
    <3>1. r.op = "close" => s # r.session
      <4>1. SUFFICES ASSUME r.op = "close" PROVE s # r.session
        OBVIOUS
      <4>2. open' = open \ {r.session}
        BY <1>3, <4>1
      <4> QED BY <4>2, <1>4
    <3>2. CASE s = active \/ pc[s] = "opening" \/ s \in overlapped
      BY <3>2, <1>0
    <3>3. CASE \E i \in DOMAIN queue : Closes(queue[i], s)
      <4>1. PICK i \in DOMAIN queue : Closes(queue[i], s)
        BY <3>3
      <4>2. i # 1
        BY <4>1, <3>1, <1>2 DEF Closes
      <4>3. i - 1 \in DOMAIN queue' /\ (i - 1) + 1 = i
        BY <4>1, <4>2, <1>2
      <4>4. Closes(queue'[i - 1], s)
        BY <4>1, <4>3, <1>2
      <4> QED BY <4>3, <4>4
    <3> QED BY <2>2, <3>2, <3>3, <1>0 DEF SessionsAccounted, Closes
  <2> QED BY <2>1, <2>2
<1> QED BY <1>1, <1>4 DEF ConnectInv, SessionsAccounted, Closes

\* The tabs: a fresh one has no operation.
LEMMA TabsKeepConnect ==
  ASSUME Everything, SelectTab \/ OpenTab \/ CloseTab
  PROVE  ConnectInv'
<1>0. /\ TypeOK /\ TabsNumbered /\ OverlapsKnown /\ OpIdsKnown /\ SessionsAccounted
      /\ StopNamesThisConnection
      /\ tabs \in Seq(Tabs) /\ tabSeq \in Tabs
      /\ Range(tabs) = {tabs[i] : i \in DOMAIN tabs}
  BY DEF Everything, IInv, ConnectInv, TypeOK, Range
<1>1. UNCHANGED <<pc, conn, active, opId, queue, open, overlapped>>
  BY DEF SelectTab, OpenTab, CloseTab
<1>2. OverlapsKnown' /\ SessionsAccounted'
  BY <1>0, <1>1 DEF OverlapsKnown, Opening, SessionsAccounted
<1>3. /\ tabSeq' \in {tabSeq, tabSeq + 1}
      /\ \A t \in Range(tabs') : t \in Range(tabs) \/ (t = tabSeq + 1 /\ t \in Tabs)
  <2>1. CASE SelectTab
    BY <2>1 DEF SelectTab
  <2>2. CASE OpenTab
    <3>1. /\ tabSeq' = tabSeq + 1 /\ tabSeq + 1 \in Tabs /\ tabs' = Append(tabs, tabSeq + 1)
      BY <2>2, <1>0 DEF OpenTab
    <3>2. /\ DOMAIN tabs' = 1..(Len(tabs) + 1) /\ DOMAIN tabs = 1..Len(tabs)
          /\ \A i \in DOMAIN tabs : tabs'[i] = tabs[i]
          /\ tabs'[Len(tabs) + 1] = tabSeq + 1
      BY <3>1, <1>0, Putting
    <3>3. Len(tabs) \in Nat
      BY <1>0
    <3>4. \A i \in DOMAIN tabs' : i \in DOMAIN tabs \/ i = Len(tabs) + 1
      BY <3>2, <3>3
    <3> QED BY <3>1, <3>2, <3>4, <1>0 DEF Range
  <2>3. CASE CloseTab
    <3>1. PICK i \in 1..Len(tabs) :
            \/ /\ tabSeq < NumTabs /\ tabSeq' = tabSeq + 1 /\ tabs' = <<tabSeq + 1>>
            \/ /\ tabs' = RemoveAt(tabs, i) /\ tabSeq' = tabSeq
      BY <2>3 DEF CloseTab
    <3>2. CASE tabSeq < NumTabs /\ tabSeq' = tabSeq + 1 /\ tabs' = <<tabSeq + 1>>
      <4>1. tabSeq + 1 \in Tabs /\ DOMAIN tabs' = {1} /\ tabs'[1] = tabSeq + 1
        BY <3>2, <1>0
      <4> QED BY <3>2, <4>1 DEF Range
    <3>3. CASE tabs' = RemoveAt(tabs, i) /\ tabSeq' = tabSeq
      <4> HIDE DEF Tabs
      <4>1. i \in 1..Len(tabs) /\ tabs \in Seq(Tabs)
        BY <1>0
      <4>2. /\ RemoveAt(tabs, i) \in Seq(Tabs)
            /\ Len(RemoveAt(tabs, i)) = Len(tabs) - 1
            /\ \A k \in 1..(Len(tabs) - 1) :
                 RemoveAt(tabs, i)[k] = IF k < i THEN tabs[k] ELSE tabs[k + 1]
        BY <4>1, Removing
      <4>3. DOMAIN tabs' = 1..(Len(tabs) - 1) /\ DOMAIN tabs = 1..Len(tabs) /\ Len(tabs) \in Nat
        BY <3>3, <4>1, <4>2
      <4>4. ASSUME NEW k \in DOMAIN tabs' PROVE \E m \in DOMAIN tabs : tabs'[k] = tabs[m]
        <5>1. k \in 1..(Len(tabs) - 1) /\ k \in DOMAIN tabs /\ k + 1 \in DOMAIN tabs
          BY <4>3
        <5>2. tabs'[k] = IF k < i THEN tabs[k] ELSE tabs[k + 1]
          BY <5>1, <4>2, <3>3
        <5> QED BY <5>1, <5>2
      <4> QED BY <3>3, <4>4 DEF Range
    <3> QED BY <3>1, <3>2, <3>3
  <2> QED BY <2>1, <2>2, <2>3
<1>4. OpIdsKnown'
  BY <1>0, <1>1, <1>3 DEF OpIdsKnown
<1>5. StopNamesThisConnection'
  <2>1. tabSeq + 1 > tabSeq
    BY <1>0
  <2> QED BY <2>1, <1>0, <1>1, <1>3 DEF StopNamesThisConnection, OpIdsKnown
<1> QED BY <1>2, <1>4, <1>5 DEF ConnectInv

LEMMA ConnectStep ==
  ASSUME Everything, [Next]_vars
  PROVE  Everything'
<1>0. IInv'
  BY StepInv DEF Everything
<1>1. CASE \E j \in Jobs : JobAction(j)
  BY <1>0, <1>1, JobKeepsOverlaps, JobKeepsOpIds, JobKeepsSessions, JobKeepsStop
  DEF Everything, ConnectInv
<1>2. CASE SelectTab \/ OpenTab \/ CloseTab
  BY <1>0, <1>2, TabsKeepConnect DEF Everything
<1>3. CASE CoreAnswers
  BY <1>0, <1>3, CoreKeepsConnect DEF Everything
<1>4. CASE UNCHANGED vars
  <2>1. ConnectInv'
    BY <1>4
    DEF vars, appVars, Everything, ConnectInv, OverlapsKnown, Opening, OpIdsKnown,
        SessionsAccounted, StopNamesThisConnection, Range
  <2> QED BY <1>0, <2>1 DEF Everything
<1> QED BY <1>1, <1>2, <1>3, <1>4 DEF Next, UserStep, JobAction

\* However many connects overlap: the history knows them, and the session that
\* comes for a connect takes the place of none but theirs (connect).
THEOREM ConnectsKept == Spec => []ConnectInv
<1>1. Init => Everything
  <2>1. Init => ConnectInv
    <3>1. SUFFICES ASSUME Init PROVE ConnectInv
      OBVIOUS
    <3>2. Opening = {}
      BY <3>1 DEF Init, Opening
    <3>3. OverlapsKnown /\ SessionsAccounted
      BY <3>1, <3>2 DEF OverlapsKnown, Init, SessionsAccounted
    <3>4. \A t \in Tabs : opId[t] = None
      BY <3>1 DEF Init
    <3>5. Range(tabs) \subseteq Tabs
      <4>1. DOMAIN <<1>> = {1} /\ <<1>>[1] = 1
        OBVIOUS
      <4> QED BY <3>1, <4>1 DEF Init, Range
    <3> QED BY <3>3, <3>4, <3>5 DEF ConnectInv, OpIdsKnown, StopNamesThisConnection
  <2> QED BY <2>1, InitInv DEF Everything
<1>2. Everything /\ [Next]_vars => Everything'
  BY ConnectStep
<1>3. Everything => ConnectInv
  BY DEF Everything
<1> QED BY <1>1, <1>2, <1>3, PTL DEF Spec

\* No session of the core is forgotten by the app: it is the open connection,
\* or about to be, or its close is on its way, or a connect opened it that
\* overlapped another (connect, disconnect).
THEOREM NoSessionForgotten == Spec => []SessionsAccounted
<1>1. ConnectInv => SessionsAccounted
  BY DEF ConnectInv
<1> QED BY <1>1, ConnectsKept, PTL

\* What the stop button of an open tab would cancel runs on the open connection,
\* or on one that a connect opened that overlapped another (run, cancel).
THEOREM StopIsCurrent == Spec => []StopNamesThisConnection
<1>1. ConnectInv => StopNamesThisConnection
  BY DEF ConnectInv
<1> QED BY <1>1, ConnectsKept, PTL

-----------------------------------------------------------------------------
(* The order of the runs.                                                  *)

\* A job's step invokes the job that is next in turn; only Run asks the core to
\* execute, and only its answer is taken for one.
LEMMA RunPlaces ==
  ASSUME TypeOK, NEW j \in Jobs, JobAction(j)
  PROVE  /\ \A k \in Jobs : k # j => pc'[k] = pc[k]
         /\ pc'[j] # "idle"
         /\ pc[j] = "idle" => \A i \in 1..(j - 1) : pc[i] # "idle"
         /\ pc'[j] = "executing" => Run(j)
         /\ pc[j] = "executing" => RunAnswered(j)
         /\ pc[j] \in {"history", "done"} => pc'[j] = "done"
<1>1. CASE Connect(j)
  BY <1>1, ConnectSteps DEF Connect, BeginConnect, Invoked
<1>2. CASE Disconnect(j) \/ Run(j) \/ Cancel(j)
  BY <1>2, Going DEF Disconnect, Run, Cancel, Invoked
<1>3. CASE Closed(j) \/ ReadPassword(j) \/ Opened(j) \/ NotOpened(j) \/ NotSaved(j)
  BY <1>3, Going DEF Closed, ReadPassword, Opened, NotOpened, NotSaved
<1>4. CASE RunAnswered(j) \/ RunEnds(j) \/ JobEnds(j)
  BY <1>4, Going DEF RunAnswered, RunEnds, JobEnds
<1>5. CASE Saved(j)
  BY <1>5, Going, RefreshSteps DEF Saved
<1>6. CASE DatabasesListed(j)
  BY <1>6, Going, RefreshSteps DEF DatabasesListed
<1>7. CASE SchemasListed(j)
  <2>1. CASE Answer = "ok"
    BY <1>7, <2>1, Going, RefreshSteps DEF SchemasListed
  <2>2. CASE Answer # "ok"
    BY <1>7, <2>2, Going DEF SchemasListed
  <2> QED BY <2>1, <2>2
<1> QED BY <1>1, <1>2, <1>3, <1>4, <1>5, <1>6, <1>7 DEF JobAction, Resume

\* Who has been answered, and with what.
LEMMA ReplySteps ==
  ASSUME TypeOK, NEW j \in Jobs, JobAction(j)
  PROVE  \A k \in Jobs : reply'[k] # reply[k] => k = j /\ RunAnswered(j)
<1>1. CASE RunAnswered(j)
  BY <1>1 DEF RunAnswered, TypeOK
<1>2. CASE ~RunAnswered(j)
  BY <1>2
  DEF JobAction, Resume, Connect, Disconnect, Run, Cancel, Closed, ReadPassword, Opened,
      NotOpened, Saved, NotSaved, DatabasesListed, SchemasListed, RunEnds, JobEnds, appVars
<1> QED BY <1>1, <1>2

LEMMA JobKeepsTurn ==
  ASSUME TypeOK, InTurn, NEW j \in Jobs, JobAction(j)
  PROVE  InTurn'
<1>1. \A i, k \in Jobs : i < k /\ pc'[i] = "idle" => pc'[k] = "idle"
  <2>1. SUFFICES ASSUME NEW i \in Jobs, NEW k \in Jobs, i < k, pc'[i] = "idle"
                 PROVE  pc'[k] = "idle"
    OBVIOUS
  <2>2. i # j /\ pc[i] = "idle" /\ pc[k] = "idle"
    BY <2>1, RunPlaces DEF InTurn
  <2>3. k # j
    BY <2>1, <2>2, RunPlaces
  <2> QED BY <2>2, <2>3, RunPlaces
<1>2. ASSUME NEW k \in Jobs, reply'[k] # "none" PROVE pc'[k] \in {"history", "done"}
  <2>1. CASE reply'[k] = reply[k]
    BY <1>2, <2>1, RunPlaces DEF InTurn
  <2>2. CASE k = j /\ RunAnswered(j)
    BY <2>2, Going DEF RunAnswered
  <2> QED BY <2>1, <2>2, ReplySteps
<1> QED BY <1>1, <1>2 DEF InTurn

\* The queues after a job's step: what stays, and what may be put at the end.
LEMMA JobQueues ==
  ASSUME TypeOK, Awaited, NEW j \in Jobs, JobAction(j)
  PROVE  /\ \A i \in DOMAIN queue : i \in DOMAIN queue' /\ queue'[i] = queue[i]
                                   /\ queue[i].job # j
         /\ \A i \in DOMAIN queue' : i \in DOMAIN queue \/ (queue'[i].job = j
                                       /\ \A k \in DOMAIN queue' : k <= i)
         /\ \A i \in DOMAIN inbox' : inbox'[i].job # j
         /\ \/ inbox' = inbox
            \/ /\ 1 \in DOMAIN inbox /\ inbox[1].job = j
               /\ \A i \in DOMAIN inbox' : i + 1 \in DOMAIN inbox /\ inbox'[i] = inbox[i + 1]
               /\ \A i \in DOMAIN inbox : i # 1 => i - 1 \in DOMAIN inbox'
                                                   /\ inbox'[i - 1] = inbox[i]
<1>1. PICK place : JobStep(j, place)
  BY JobMoves
<1>2. (\A i \in DOMAIN inbox' : inbox'[i].job # j) /\ (\A i \in DOMAIN queue : queue[i].job # j)
  BY <1>1, JobStepAlone
<1>3. /\ \A i \in DOMAIN queue : i \in DOMAIN queue' /\ queue'[i] = queue[i]
      /\ \A i \in DOMAIN queue' : i \in DOMAIN queue \/ (queue'[i].job = j
                                    /\ \A k \in DOMAIN queue' : k <= i)
  <2>1. CASE queue' = queue
    BY <2>1
  <2>2. CASE \E r \in Requests : queue' = Append(queue, r) /\ r.job = j
    <3>1. PICK r \in Requests : queue' = Append(queue, r) /\ r.job = j
      BY <2>2
    <3>2. /\ DOMAIN queue' = 1..(Len(queue) + 1) /\ DOMAIN queue = 1..Len(queue)
          /\ \A i \in DOMAIN queue : queue'[i] = queue[i]
          /\ queue'[Len(queue) + 1] = r /\ Len(queue) \in Nat
      BY <3>1, Queued, Putting
    <3> QED BY <3>1, <3>2
  <2> QED BY <2>1, <2>2, <1>1 DEF JobStep
<1>4. CASE inbox' = inbox
  BY <1>2, <1>3, <1>4
<1>5. CASE inbox # <<>> /\ Head(inbox).job = j /\ inbox' = Tail(inbox)
  <2>1. /\ 1 \in DOMAIN inbox /\ inbox[1].job = j
        /\ DOMAIN inbox' = 1..(Len(inbox) - 1) /\ DOMAIN inbox = 1..Len(inbox)
        /\ Len(inbox) \in Nat
        /\ \A i \in DOMAIN inbox' : i + 1 \in DOMAIN inbox /\ inbox'[i] = inbox[i + 1]
    BY <1>5, Queued, Taking
  <2>2. \A i \in DOMAIN inbox : i # 1 => i - 1 \in DOMAIN inbox' /\ (i - 1) + 1 = i
    BY <2>1
  <2> QED BY <1>2, <1>3, <2>1, <2>2
<1> QED BY <1>1, <1>4, <1>5 DEF JobStep

LEMMA JobKeepsUnderWay ==
  ASSUME TypeOK, Awaited, UnderWay, NEW j \in Jobs, JobAction(j)
  PROVE  UnderWay'
<1>1. SUFFICES ASSUME NEW k \in Jobs, pc'[k] = "executing"
               PROVE  \/ \E i \in DOMAIN queue' : queue'[i].job = k
                      \/ \E i \in DOMAIN inbox' : inbox'[i].job = k
  BY DEF UnderWay
<1>2. CASE k = j
  <2>1. Call(j, "execute", active) /\ active # None
    BY <1>1, <1>2, RunPlaces DEF Run
  <2>2. PICK r \in Requests : queue' = Append(queue, r) /\ r.job = j
    BY <2>1, Calling DEF Ops
  <2>3. Len(queue) + 1 \in DOMAIN queue' /\ queue'[Len(queue) + 1] = r
    BY <2>2, Queued, Putting
  <2> QED BY <1>2, <2>2, <2>3
<1>3. CASE k # j
  <2>1. pc[k] = "executing"
    BY <1>1, <1>3, RunPlaces
  <2>2. CASE \E i \in DOMAIN queue : queue[i].job = k
    BY <2>2, JobQueues
  <2>3. CASE \E i \in DOMAIN inbox : inbox[i].job = k
    BY <1>3, <2>3, JobQueues
  <2> QED BY <2>1, <2>2, <2>3 DEF UnderWay
<1> QED BY <1>2, <1>3

\* Whoever starts now comes after all that were started.
LEMMA RunStartsLast ==
  ASSUME TypeOK, InTurn, NEW j \in Jobs, JobAction(j), pc'[j] = "executing"
  PROVE  /\ pc[j] = "idle" /\ reply' = reply
         /\ \A r \in Jobs : pc[r] # "idle" => r < j
<1>1. Run(j)
  BY RunPlaces
<1>2. pc[j] = "idle" /\ reply' = reply
  BY <1>1 DEF Run, Invoked
<1>3. ASSUME NEW r \in Jobs, pc[r] # "idle" PROVE r < j
  <2>1. r # j /\ ~(j < r)
    BY <1>2, <1>3 DEF InTurn
  <2> QED BY <2>1, JobsAssumption
<1> QED BY <1>2, <1>3

LEMMA JobKeepsOrder ==
  ASSUME TypeOK, Awaited, InTurn, UnderWay, FirstInFirstOut, NEW j \in Jobs, JobAction(j)
  PROVE  FirstInFirstOut'
<1>1. \A k \in Jobs : k # j /\ pc'[k] = "executing" => pc[k] = "executing"
  BY RunPlaces
<1>2. /\ \A i \in DOMAIN queue : queue[i].job \in Jobs /\ i \in Int
      /\ \A i \in DOMAIN inbox : inbox[i].job \in Jobs /\ i \in Int
  BY Queued DEF Requests, Responses
<1>3. ASSUME NEW r \in Jobs, NEW k \in Jobs, reply'[r] # "none", pc'[k] = "executing"
      PROVE  r < k
  <2>1. CASE k = j
    <3>1. reply[r] # "none" /\ pc[r] # "idle"
      BY <1>3, <2>1, RunStartsLast DEF InTurn
    <3> QED BY <1>3, <2>1, <3>1, RunStartsLast
  <2>2. CASE k # j /\ reply[r] # "none"
    BY <1>1, <1>3, <2>2 DEF FirstInFirstOut
  <2>3. CASE k # j /\ reply[r] = "none"
    <3>1. r = j /\ RunAnswered(j)
      BY <1>3, <2>3, ReplySteps
    <3>2. pc[j] = "executing" /\ pc[k] = "executing"
      BY <1>1, <1>3, <2>3, <3>1 DEF RunAnswered
    <3>3. 1 \in DOMAIN inbox /\ inbox[1].job = j
      BY <3>1, Queued, Taking DEF RunAnswered, Answered
    <3>4. CASE \E i \in DOMAIN queue : queue[i].job = k
      BY <3>1, <3>2, <3>3, <3>4 DEF FirstInFirstOut, Earlier
    <3>5. CASE \E i \in DOMAIN inbox : inbox[i].job = k
      <4>1. PICK i \in DOMAIN inbox : inbox[i].job = k
        BY <3>5
      <4>2. 1 < i
        BY <2>3, <3>3, <4>1, Queued
      <4> QED BY <3>1, <3>2, <3>3, <4>1, <4>2 DEF FirstInFirstOut, Earlier
    <3> QED BY <3>2, <3>4, <3>5 DEF UnderWay
  <2> QED BY <2>1, <2>2, <2>3
\* Those in the inbox are those that were, without the one that is taken.
<1>4. \A i \in DOMAIN inbox' : \E m \in DOMAIN inbox :
        inbox'[i] = inbox[m] /\ (m = i \/ m = i + 1)
  BY JobQueues
<1>5. \A i, k \in DOMAIN inbox' : i < k => Earlier(inbox[i].job, inbox[k].job)'
  <2>1. CASE inbox' = inbox
    BY <1>1, <1>2, <2>1, JobQueues DEF FirstInFirstOut, Earlier
  <2>2. CASE inbox' # inbox
    <3>1. \A i \in DOMAIN inbox' : i + 1 \in DOMAIN inbox /\ inbox'[i] = inbox[i + 1]
                                   /\ inbox'[i].job # j
      BY <2>2, JobQueues
    <3>2. \A i \in DOMAIN inbox' : i \in Int
      BY <1>2, <3>1, JobStepQueues, JobMoves
    <3> QED BY <1>1, <1>2, <3>1, <3>2 DEF FirstInFirstOut, Earlier
  <2> QED BY <2>1, <2>2
<1>6. ASSUME NEW r \in Jobs, pc[r] = "executing", pc'[j] = "executing" PROVE r < j
  BY <1>6, RunStartsLast
<1>7. \A i \in DOMAIN inbox', k \in DOMAIN queue' : Earlier(inbox[i].job, queue[k].job)'
  <2>1. SUFFICES ASSUME NEW i \in DOMAIN inbox', NEW k \in DOMAIN queue',
                        pc'[inbox'[i].job] = "executing", pc'[queue'[k].job] = "executing"
                 PROVE  inbox'[i].job < queue'[k].job
    BY DEF Earlier
  <2>2. PICK m \in DOMAIN inbox : inbox'[i] = inbox[m]
    BY <1>4
  <2>3. inbox[m].job \in Jobs /\ inbox[m].job # j /\ pc[inbox[m].job] = "executing"
    BY <1>1, <1>2, <2>1, <2>2, JobQueues
  <2>4. CASE k \in DOMAIN queue
    <3>1. queue'[k] = queue[k] /\ pc[queue[k].job] = "executing"
      BY <1>1, <1>2, <2>1, <2>4, JobQueues
    <3> QED BY <2>2, <2>3, <2>4, <3>1 DEF FirstInFirstOut, Earlier
  <2>5. CASE k \notin DOMAIN queue
    <3>1. queue'[k].job = j
      BY <2>5, JobQueues
    <3> QED BY <1>6, <2>1, <2>2, <2>3, <3>1
  <2> QED BY <2>4, <2>5
<1>8. \A i, k \in DOMAIN queue' : i < k => Earlier(queue[i].job, queue[k].job)'
  <2>1. SUFFICES ASSUME NEW i \in DOMAIN queue', NEW k \in DOMAIN queue', i < k,
                        pc'[queue'[i].job] = "executing", pc'[queue'[k].job] = "executing"
                 PROVE  queue'[i].job < queue'[k].job
    BY DEF Earlier
  <2>2. i \in Int /\ k \in Int
    BY JobStepQueues, JobMoves
  <2>3. i \in DOMAIN queue
    <3>1. i \in DOMAIN queue \/ k <= i
      BY JobQueues
    <3> QED BY <2>1, <2>2, <3>1
  <2>4. /\ queue'[i] = queue[i] /\ queue[i].job \in Jobs
        /\ pc[queue[i].job] = "executing"
    BY <1>1, <1>2, <2>1, <2>3, JobQueues
  <2>5. CASE k \in DOMAIN queue
    <3>1. queue'[k] = queue[k] /\ pc[queue[k].job] = "executing"
      BY <1>1, <1>2, <2>1, <2>5, JobQueues
    <3> QED BY <2>1, <2>3, <2>4, <2>5, <3>1 DEF FirstInFirstOut, Earlier
  <2>6. CASE k \notin DOMAIN queue
    <3>1. queue'[k].job = j
      BY <2>6, JobQueues
    <3> QED BY <1>6, <2>1, <2>4, <3>1
  <2> QED BY <2>5, <2>6
<1> QED BY <1>3, <1>5, <1>7, <1>8 DEF FirstInFirstOut, Earlier

\* An answer is newer than every one before it; and a run clears its tab.
LEMMA JobKeepsNewest ==
  ASSUME TypeOK, FirstInFirstOut, NewestResultsStay, NEW j \in Jobs, JobAction(j)
  PROVE  NewestResultsStay'
<1>0. /\ results \in [Tabs -> Jobs \cup {None}] /\ target \in [Jobs -> Tabs \cup {None}]
  BY DEF TypeOK
<1>1. CASE RunAnswered(j)
  <2>1. /\ pc[j] = "executing" /\ target' = target
        /\ \A k \in Jobs : reply'[k] = IF k = j THEN Answer ELSE reply[k]
        /\ \A t \in Tabs : results'[t] = IF t = target[j] /\ Answer = "ok" THEN j ELSE results[t]
    BY <1>1 DEF RunAnswered, TypeOK
  <2>2. SUFFICES ASSUME NEW t \in Tabs, NEW r \in Jobs, target[r] = t, reply'[r] = "ok",
                        results'[t] # None
                 PROVE  results'[t] >= r
    BY <2>1 DEF NewestResultsStay
  <2>3. CASE results'[t] = j
    <3>1. r # j => r < j
      BY <2>1, <2>2 DEF FirstInFirstOut
    <3> QED BY <2>3, <3>1
  <2>4. CASE results'[t] # j
    <3>1. results'[t] = results[t] /\ r # j /\ reply[r] = "ok"
      BY <2>1, <2>2, <2>4
    <3> QED BY <2>2, <3>1 DEF NewestResultsStay
  <2> QED BY <2>3, <2>4
<1>2. CASE Run(j)
  <2>1. /\ Tab \in Tabs /\ reply' = reply
        /\ \A k \in Jobs : target'[k] = IF k = j THEN Tab ELSE target[k]
        /\ \A t \in Tabs : results'[t] = IF t = Tab THEN None ELSE results[t]
    BY <1>2, FrontTab DEF Run, TypeOK
  <2> QED BY <2>1 DEF NewestResultsStay
<1>3. CASE ~Run(j) /\ ~RunAnswered(j)
  <2>1. LeaveConnection => \A t \in Tabs : results'[t] \in {results[t], None}
    BY DEF LeaveConnection
  <2>2. /\ target' = target /\ reply' = reply
        /\ \A t \in Tabs : results'[t] \in {results[t], None}
    BY <1>3, <2>1
    DEF JobAction, Resume, Connect, Disconnect, Cancel, Closed, ReadPassword, Opened,
        NotOpened, Saved, NotSaved, DatabasesListed, SchemasListed, RunEnds, JobEnds, appVars
  <2> QED BY <2>2 DEF NewestResultsStay
<1> QED BY <1>1, <1>2, <1>3

\* What the core takes goes from the front of the queue to the end of the inbox.
LEMMA CoreKeepsOrder ==
  ASSUME TypeOK, OrderInv, CoreAnswers
  PROVE  OrderInv'
<1> DEFINE r == Head(queue)
<1>0. UNCHANGED <<pc, target, reply, results>>
  BY DEF CoreAnswers, appVars
<1>1. InTurn' /\ NewestResultsStay'
  BY <1>0 DEF OrderInv, InTurn, NewestResultsStay
<1>2. /\ queue # <<>> /\ queue' = Tail(queue)
      /\ \E answer \in Replies : inbox' = Append(inbox, [job |-> r.job, reply |-> answer])
  BY DEF CoreAnswers
<1>3. /\ r = queue[1] /\ 1 \in DOMAIN queue /\ r \in Requests /\ r.job \in Jobs
      /\ DOMAIN queue = 1..Len(queue) /\ Len(queue) \in Nat
      /\ DOMAIN queue' = 1..(Len(queue) - 1)
      /\ \A i \in DOMAIN queue' : i + 1 \in DOMAIN queue /\ queue'[i] = queue[i + 1]
  BY <1>2, Queued, Taking DEF Requests
<1>4. PICK a \in Responses : inbox' = Append(inbox, a) /\ a.job = queue[1].job
  BY <1>2, <1>3 DEF Responses
<1>5. /\ DOMAIN inbox' = 1..(Len(inbox) + 1) /\ DOMAIN inbox = 1..Len(inbox)
      /\ Len(inbox) \in Nat
      /\ \A i \in DOMAIN inbox : inbox'[i] = inbox[i]
      /\ inbox'[Len(inbox) + 1] = a
  BY <1>4, Queued, Putting
<1> HIDE DEF r
<1>6. UnderWay'
  <2>1. SUFFICES ASSUME NEW k \in Jobs, pc[k] = "executing"
                 PROVE  \/ \E i \in DOMAIN queue' : queue'[i].job = k
                        \/ \E i \in DOMAIN inbox' : inbox'[i].job = k
    BY <1>0 DEF UnderWay
  <2>2. CASE \E i \in DOMAIN inbox : inbox[i].job = k
    BY <2>2, <1>5
  <2>3. CASE \E i \in DOMAIN queue : queue[i].job = k
    <3>1. PICK i \in DOMAIN queue : queue[i].job = k
      BY <2>3
    <3>2. CASE i = 1
      <4>1. Len(inbox) + 1 \in DOMAIN inbox' /\ inbox'[Len(inbox) + 1].job = k
        BY <3>1, <3>2, <1>4, <1>5
      <4> QED BY <4>1
    <3>3. CASE i # 1
      <4>1. i - 1 \in DOMAIN queue' /\ queue'[i - 1] = queue[i]
        BY <3>3, <1>3
      <4> QED BY <3>1, <4>1
    <3> QED BY <3>2, <3>3
  <2> QED BY <2>1, <2>2, <2>3 DEF OrderInv, UnderWay
<1>7. FirstInFirstOut'
  <2>0. FirstInFirstOut
    BY DEF OrderInv
  <2>1. \A q, s \in Jobs : reply'[q] # "none" /\ pc'[s] = "executing" => q < s
    BY <1>0, <2>0 DEF FirstInFirstOut
  <2>2. \A i \in DOMAIN inbox' : i \in DOMAIN inbox \/ (i = Len(inbox) + 1 /\ inbox'[i] = a)
    BY <1>5
  <2>3. \A i, k \in DOMAIN inbox' : i < k => Earlier(inbox'[i].job, inbox'[k].job)
    <3>1. SUFFICES ASSUME NEW i \in DOMAIN inbox', NEW k \in DOMAIN inbox', i < k
                   PROVE  Earlier(inbox'[i].job, inbox'[k].job)
      OBVIOUS
    <3>2. i \in DOMAIN inbox
      BY <3>1, <1>5
    <3>3. CASE k \in DOMAIN inbox
      BY <3>1, <3>2, <3>3, <1>5, <2>0 DEF FirstInFirstOut
    <3>4. CASE inbox'[k] = a
      BY <3>2, <3>4, <1>3, <1>4, <1>5, <2>0 DEF FirstInFirstOut
    <3> QED BY <2>2, <3>3, <3>4
  <2>4. \A i \in DOMAIN inbox', k \in DOMAIN queue' : Earlier(inbox'[i].job, queue'[k].job)
    <3>1. SUFFICES ASSUME NEW i \in DOMAIN inbox', NEW k \in DOMAIN queue'
                   PROVE  Earlier(inbox'[i].job, queue'[k].job)
      OBVIOUS
    <3>2. k + 1 \in DOMAIN queue /\ queue'[k] = queue[k + 1] /\ 1 < k + 1
      BY <1>3
    <3>3. CASE i \in DOMAIN inbox
      BY <3>2, <3>3, <1>5, <2>0 DEF FirstInFirstOut
    <3>4. CASE inbox'[i] = a
      BY <3>2, <3>4, <1>3, <1>4, <2>0 DEF FirstInFirstOut
    <3> QED BY <2>2, <3>3, <3>4
  <2>5. \A i, k \in DOMAIN queue' : i < k => Earlier(queue'[i].job, queue'[k].job)
    <3>1. \A i, k \in DOMAIN queue' : i < k => i + 1 < k + 1
      BY <1>3
    <3> QED BY <3>1, <1>3, <2>0 DEF FirstInFirstOut
  <2>6. \A q, s : Earlier(q, s) => (pc'[q] = "executing" /\ pc'[s] = "executing" => q < s)
    BY <1>0 DEF Earlier
  <2> QED BY <2>1, <2>3, <2>4, <2>5, <2>6 DEF FirstInFirstOut, Earlier
<1> QED BY <1>1, <1>6, <1>7 DEF OrderInv

LEMMA OrderStep == ASSUME IInv, OrderInv, [Next]_vars PROVE OrderInv'
<1>1. CASE \E j \in Jobs : JobAction(j)
  BY <1>1, JobKeepsTurn, JobKeepsUnderWay, JobKeepsOrder, JobKeepsNewest DEF IInv, OrderInv
<1>2. CASE CoreAnswers
  BY <1>2, CoreKeepsOrder DEF IInv
<1>3. CASE SelectTab \/ OpenTab \/ CloseTab \/ UNCHANGED vars
  <2>1. UNCHANGED <<pc, target, reply, results, queue, inbox>>
    BY <1>3 DEF SelectTab, OpenTab, CloseTab, vars, appVars
  <2> QED BY <2>1
          DEF OrderInv, InTurn, UnderWay, FirstInFirstOut, Earlier, NewestResultsStay
<1> QED BY <1>1, <1>2, <1>3 DEF Next, UserStep, JobAction

\* What the runs ask for is answered in the order they were started, however
\* many connects, tabs and runs overlap (run, and the one isolate of CoreClient).
THEOREM RunsInOrder == Spec => []OrderInv
<1>1. Init => OrderInv
  BY DEF Init, OrderInv, InTurn, UnderWay, FirstInFirstOut, NewestResultsStay
<1>2. IInv /\ OrderInv /\ [Next]_vars => OrderInv'
  BY OrderStep
<1> QED BY <1>1, <1>2, Inv, PTL DEF Spec

\* When two runs of one tab overlap, the tab never falls back to the results of
\* the older one after the newer one was answered (run).
THEOREM NewestStay == Spec => []NewestResultsStay
<1>1. OrderInv => NewestResultsStay
  BY DEF OrderInv
<1> QED BY <1>1, RunsInOrder, PTL
=============================================================================
