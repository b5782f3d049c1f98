----------------------------- MODULE CoreClient -----------------------------
(***************************************************************************)
(* The app's side of the core (app/lib/core/native_core.dart): CoreClient  *)
(* on the UI isolate, the background isolate that blocks in every core     *)
(* call, and the two ports between them.                                   *)
(*                                                                         *)
(* A call is numbered when it is made, as _nextId does.  It asks the core  *)
(* to execute a query, or to cancel the query of an earlier call.          *)
(***************************************************************************)
EXTENDS Integers, Sequences, SequencesExt

CONSTANT NumCalls     \* bound: how many calls the app makes

ASSUME NumCallsAssumption == NumCalls \in Nat \ {0}

None  == 0
Calls == 1..NumCalls

VARIABLES
  nextId,     \* _nextId: the calls made so far
  aim,        \* the execute each call cancels, or None for an execute
  pending,    \* _pending: the calls whose completer is in the map
  closed,     \* _closed
  future,     \* what each call's future completed with
  commands,   \* messages on their way to the isolate
  isolate,    \* the isolate: "loading", "ready", "serving", "gone"
  serving,    \* the call it is blocked in
  inbox,      \* messages on their way to the UI isolate
  ran         \* the calls the core has run, in order

vars == <<nextId, aim, pending, closed, future, commands, isolate, serving,
          inbox, ran>>

Shutdown == None      \* the message {'__shutdown': true}
Exit     == None      \* the message of the onExit port

\* A future is open until it completes, with a failure or an answer.
Unmade      == [is |-> "unmade", to |-> None]
Open        == [is |-> "open", to |-> None]
Failed      == [is |-> "failed", to |-> None]
Answered(c) == [is |-> "answered", to |-> c]
Futures     == {Unmade, Open, Failed} \cup {Answered(c) : c \in Calls}

TypeOK ==
  /\ nextId \in 0..NumCalls
  /\ aim \in [Calls -> Calls \cup {None}]
  /\ pending \subseteq Calls
  /\ closed \in BOOLEAN
  /\ future \in [Calls -> Futures]
  /\ commands \in Seq(Calls \cup {Shutdown})
  /\ isolate \in {"loading", "ready", "serving", "gone"}
  /\ serving \in Calls \cup {None}
  /\ inbox \in Seq(Calls \cup {Exit})
  /\ ran \in Seq(Calls)

\* start has received the isolate's SendPort; the library may not be loaded.
Init ==
  /\ nextId = 0
  /\ aim = [c \in Calls |-> None]
  /\ pending = {}
  /\ closed = FALSE
  /\ future = [c \in Calls |-> Unmade]
  /\ commands = <<>>
  /\ isolate = "loading"
  /\ serving = None
  /\ inbox = <<>>
  /\ ran = <<>>

-----------------------------------------------------------------------------
(* The UI isolate. *)

\* A message to an isolate that is gone is dropped without a word.
Send(message) ==
  commands' = IF isolate = "gone" THEN commands ELSE Append(commands, message)

\* call, which throws and changes nothing once the client is closed.
Call ==
  /\ ~closed /\ nextId < NumCalls
  /\ nextId' = nextId + 1
  /\ \E a \in (1..nextId) \cup {None} :
       /\ a # None => aim[a] = None
       /\ aim' = [aim EXCEPT ![nextId + 1] = a]
  /\ pending' = pending \cup {nextId + 1}
  /\ future' = [future EXCEPT ![nextId + 1] = Open]
  /\ Send(nextId + 1)
  /\ UNCHANGED <<closed, isolate, serving, inbox, ran>>

\* _failAll: every completer of the map fails, and the map is emptied.
FailAll ==
  /\ pending' = {}
  /\ future' = [c \in Calls |-> IF c \in pending THEN Failed ELSE future[c]]

\* Mistake: a response completes the last call, not the one it names.
ReceiveForLast ==
  /\ ~closed /\ inbox # <<>> /\ Head(inbox) # Exit
  /\ pending' = pending \ {nextId}
  /\ future' = IF nextId \in pending
                 THEN [future EXCEPT ![nextId] = Answered(Head(inbox))]
                 ELSE future
  /\ inbox' = Tail(inbox)
  /\ UNCHANGED <<nextId, aim, closed, commands, isolate, serving, ran>>

\* The listener of the response port: _complete.
ReceiveResponse ==
  /\ ~closed /\ inbox # <<>> /\ Head(inbox) # Exit
  /\ LET c == Head(inbox) IN
       /\ pending' = pending \ {c}
       /\ future' = IF c \in pending
                      THEN [future EXCEPT ![c] = Answered(c)] ELSE future
  /\ inbox' = Tail(inbox)
  /\ UNCHANGED <<nextId, aim, closed, commands, isolate, serving, ran>>

\* Mistake: nobody listens to the exit port.
ReceiveExitUnheard ==
  /\ ~closed /\ inbox # <<>> /\ Head(inbox) = Exit
  /\ inbox' = Tail(inbox)
  /\ UNCHANGED <<nextId, aim, pending, closed, future, commands, isolate,
                 serving, ran>>

\* The listener of the exit port.
ReceiveExit ==
  /\ ~closed /\ inbox # <<>> /\ Head(inbox) = Exit
  /\ FailAll
  /\ inbox' = Tail(inbox)
  /\ UNCHANGED <<nextId, aim, closed, commands, isolate, serving, ran>>

\* dispose: ask for the shutdown, fail what is pending, close both ports.
Dispose ==
  /\ ~closed
  /\ closed' = TRUE
  /\ Send(Shutdown)
  /\ FailAll
  /\ inbox' = <<>>
  /\ UNCHANGED <<nextId, aim, isolate, serving, ran>>

-----------------------------------------------------------------------------
(* The core's isolate. *)

\* A message to a closed port is dropped.
Reply(message) == inbox' = IF closed THEN inbox ELSE Append(inbox, message)

\* NativeCore.load found the library.
Load ==
  /\ isolate = "loading"
  /\ isolate' = "ready"
  /\ UNCHANGED <<nextId, aim, pending, closed, future, commands, serving, inbox,
                 ran>>

\* It did not, or an error nobody caught ends the isolate later.
Die ==
  /\ isolate \in {"loading", "ready", "serving"}
  /\ isolate' = "gone"
  /\ serving' = None
  /\ commands' = <<>>
  /\ Reply(Exit)
  /\ UNCHANGED <<nextId, aim, pending, closed, future, ran>>

\* The listener takes a request, and blocks in callSync.
Serve ==
  /\ isolate = "ready" /\ commands # <<>> /\ Head(commands) # Shutdown
  /\ isolate' = "serving"
  /\ serving' = Head(commands)
  /\ commands' = Tail(commands)
  /\ ran' = Append(ran, Head(commands))
  /\ UNCHANGED <<nextId, aim, pending, closed, future, inbox>>

Return ==
  /\ isolate' = "ready"
  /\ serving' = None
  /\ Reply(serving)
  /\ UNCHANGED <<nextId, aim, pending, closed, future, commands, ran>>

\* The core answers by itself: a cancel does, hit or miss; an execute does if
\* its cancel has reached the core.
CoreReturns ==
  /\ isolate = "serving"
  /\ aim[serving] # None \/ \E c \in Calls : aim[c] = serving /\ Contains(ran, c)
  /\ Return

\* The server answers the query, or its deadline passes.
QueryReturns ==
  /\ isolate = "serving" /\ aim[serving] = None
  /\ Return

\* The listener takes the shutdown: the port closes and the isolate ends.
ShutDown ==
  /\ isolate = "ready" /\ commands # <<>> /\ Head(commands) = Shutdown
  /\ isolate' = "gone"
  /\ commands' = <<>>
  /\ Reply(Exit)
  /\ UNCHANGED <<nextId, aim, pending, closed, future, serving, ran>>

-----------------------------------------------------------------------------
\* Nothing is left to do: all calls are made or the client is closed.
Quiet ==
  /\ isolate = "gone" /\ inbox = <<>> /\ (closed \/ nextId = NumCalls)
  /\ UNCHANGED vars

AppStep     == Call \/ Dispose
ProgramStep == ReceiveResponse \/ ReceiveExit \/ Load \/ Serve \/ CoreReturns \/ ShutDown

Next == AppStep \/ ProgramStep \/ QueryReturns \/ Die \/ Quiet

Spec == Init /\ [][Next]_vars

\* Event loops run: a message that has arrived is handled and the library gets
\* loaded.  Nothing makes the user call again, or the server answer.
FairSpec == Spec /\ WF_vars(ProgramStep)

\* In addition every query ends, by its answer or by its deadline.
TimedSpec == FairSpec /\ WF_vars(QueryReturns)

-----------------------------------------------------------------------------
(* Properties. *)

\* CoreClient keeps its promise to the app.
Promise == INSTANCE RequestReply WITH Calls <- Calls, future <- future, ran <- ran
KeepsPromise == Promise!Spec

\* A call whose future is open is in the map, where a response, the exit of the
\* isolate or dispose finds it; no completer is completed twice.
OpenCallsPending == pending = {c \in Calls : future[c] = Open}

\* Why it does: the calls the core has run came before those that wait for it,
\* which wait in the order in which they were made, and what is on its way back
\* is an answer the core has given.
Ordered ==
  /\ \A i \in DOMAIN commands : commands[i] <= nextId
  /\ \A i \in DOMAIN ran : ran[i] <= nextId
  /\ \A i \in DOMAIN ran, j \in DOMAIN commands :
       commands[j] # Shutdown => ran[i] < commands[j]
  /\ \A i, j \in DOMAIN commands :
       i < j /\ commands[i] # Shutdown /\ commands[j] # Shutdown
         => commands[i] < commands[j]
Given ==
  /\ isolate = "serving" => Contains(ran, serving)
  /\ \A i \in DOMAIN inbox : inbox[i] # Exit => Contains(ran, inbox[i])
Made == \A c \in Calls : future[c] = Unmade <=> c > nextId

\* The inductive invariant.
IInv == TypeOK /\ OpenCallsPending /\ Made /\ Ordered /\ Given

\* The client has heard of the isolate's end.
Heard == isolate = "gone" /\ ~Contains(inbox, Exit)

\* A call made before the client hears of the isolate's end completes, even if
\* it was sent to an isolate that was gone already.
CallsComplete ==
  \A c \in Calls : (c \in pending /\ ~Heard) ~> c \notin pending

\* native_core.dart:144, "every request waiting on it must fail rather than
\* hang forever": every call completes.
NoCallHangs == \A c \in Calls : c \in pending ~> c \notin pending

\* native_core.dart:106, the isolate "keeps the cancel button working while a
\* query is in flight": a query whose cancel was called ends, with no help from
\* the server or the deadline, as long as the isolate lives.
CancelEndsQuery ==
  \A c, d \in Calls :
    (d \in pending /\ aim[d] = c /\ c \in pending)
      ~> (c \notin pending \/ isolate = "gone")
=============================================================================
