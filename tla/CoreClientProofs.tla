-------------------------- MODULE CoreClientProofs --------------------------
(***************************************************************************)
(* Theorems about CoreClient, for any number of calls: the client keeps    *)
(* the promise of RequestReply, however responses, the end of the isolate  *)
(* and dispose come between each other.                                    *)
(***************************************************************************)
EXTENDS CoreClient, TLAPS

USE NumCallsAssumption DEF None, Calls, Shutdown, Exit

\* A sequence that grew contains what it contained, and what was appended.
LEMMA AppendContains ==
  ASSUME NEW S, NEW s \in Seq(S), NEW e \in S, NEW x
  PROVE  Contains(Append(s, e), x) <=> Contains(s, x) \/ x = e
  BY DEF Contains

\* Nothing has happened at the start.
LEMMA InitInv == Init => IInv
<1> SUFFICES ASSUME Init PROVE IInv
  OBVIOUS
<1>1. TypeOK
  <2>1. Unmade \in Futures
    BY DEF Futures
  <2>2. future \in [Calls -> Futures]
    BY <2>1 DEF Init
  <2>3. <<>> \in Seq(Calls \cup {Shutdown}) /\ <<>> \in Seq(Calls)
    OBVIOUS
  <2>4. 0 \in 0..NumCalls
    OBVIOUS
  <2>5. aim \in [Calls -> Calls \cup {None}]
    BY DEF Init
  <2> QED BY <2>2, <2>3, <2>4, <2>5 DEF Init, TypeOK
<1>2. OpenCallsPending /\ Made
  <2>1. \A c \in Calls : future[c] = Unmade /\ c > nextId
    BY DEF Init
  <2>2. Unmade # Open
    BY DEF Unmade, Open
  <2> QED BY <2>1, <2>2 DEF Init, OpenCallsPending, Made
<1>3. Ordered /\ Given
  BY DEF Init, Ordered, Given
<1> QED BY <1>1, <1>2, <1>3 DEF IInv

\* A message to the isolate is a call made last, or the shutdown: either keeps
\* the order.
LEMMA SendOrdered ==
  ASSUME TypeOK, Ordered, nextId' \in {nextId, nextId + 1}, nextId' \in Nat,
         NEW message \in Calls \cup {Shutdown},
         message # Shutdown => message = nextId + 1 /\ nextId' = nextId + 1,
         Send(message), UNCHANGED ran
  PROVE  commands' \in Seq(Calls \cup {Shutdown}) /\ Ordered'
<1>1. CASE isolate = "gone"
  <2>1. commands' = commands /\ ran' = ran
    BY <1>1 DEF Send
  <2>2. nextId <= nextId' /\ nextId \in Nat
    BY DEF TypeOK
  <2>3. \A i \in DOMAIN commands : commands[i] \in Nat
    BY DEF TypeOK
  <2>4. \A i \in DOMAIN ran : ran[i] \in Nat
    BY DEF TypeOK
  <2> QED BY <2>1, <2>2, <2>3, <2>4 DEF Ordered, TypeOK
<1>2. CASE isolate # "gone"
  <2>1. commands' = Append(commands, message)
    BY <1>2 DEF Send
  <2>2. commands' \in Seq(Calls \cup {Shutdown})
    BY <2>1 DEF TypeOK
  <2>3. /\ DOMAIN commands = 1..Len(commands) /\ Len(commands) \in Nat
        /\ DOMAIN commands' = 1..(Len(commands) + 1)
        /\ \A i \in DOMAIN commands : commands'[i] = commands[i]
        /\ commands'[Len(commands) + 1] = message
    BY <2>1 DEF TypeOK
  <2>4. /\ \A i \in DOMAIN commands : commands[i] \in Calls \cup {Shutdown}
        /\ \A i \in DOMAIN ran : ran[i] \in Calls
        /\ nextId \in Nat
    BY DEF TypeOK
  <2>5. \A i \in DOMAIN commands' : commands'[i] <= nextId'
    BY <2>3, <2>4 DEF Ordered
  <2>6. \A i \in DOMAIN ran : ran[i] <= nextId'
    BY <2>4 DEF Ordered
  <2>7. \A i \in DOMAIN ran, j \in DOMAIN commands' :
          commands'[j] # Shutdown => ran[i] < commands'[j]
    BY <2>3, <2>4 DEF Ordered
  <2>8. \A i, j \in DOMAIN commands' :
          i < j /\ commands'[i] # Shutdown /\ commands'[j] # Shutdown
            => commands'[i] < commands'[j]
    BY <2>3, <2>4 DEF Ordered
  <2>9. Ordered'
    BY <2>5, <2>6, <2>7, <2>8 DEF Ordered
  <2> QED BY <2>2, <2>9
<1> QED BY <1>1, <1>2

\* A message to the UI isolate that the core may have sent.
LEMMA ReplyGiven ==
  ASSUME TypeOK, Given, NEW message \in Calls \cup {Exit}, Reply(message),
         message # Exit => Contains(ran, message), UNCHANGED ran
  PROVE  /\ inbox' \in Seq(Calls \cup {Exit})
         /\ \A i \in DOMAIN inbox' : inbox'[i] # Exit => Contains(ran', inbox'[i])
<1>1. CASE closed
  BY <1>1 DEF Reply, TypeOK, Given
<1>2. CASE ~closed
  <2>1. inbox' = Append(inbox, message) /\ inbox \in Seq(Calls \cup {Exit})
    BY <1>2 DEF Reply, TypeOK
  <2>2. inbox' \in Seq(Calls \cup {Exit})
    BY <2>1
  <2>3. /\ DOMAIN inbox' = 1..(Len(inbox) + 1) /\ DOMAIN inbox = 1..Len(inbox)
        /\ Len(inbox) \in Nat
        /\ \A i \in DOMAIN inbox : inbox'[i] = inbox[i]
        /\ inbox'[Len(inbox) + 1] = message
    BY <2>1
  <2>4. ASSUME NEW i \in DOMAIN inbox', inbox'[i] # Exit
        PROVE  Contains(ran', inbox'[i])
    <3>1. CASE i \in DOMAIN inbox
      BY <3>1, <2>3, <2>4 DEF Given
    <3>2. CASE i = Len(inbox) + 1
      BY <3>2, <2>3, <2>4
    <3> QED BY <3>1, <3>2, <2>3
  <2> QED BY <2>2, <2>4
<1> QED BY <1>1, <1>2

\* To fail every completer of the map leaves none open, and unmakes no call.
LEMMA FailAllKeeps ==
  ASSUME TypeOK, OpenCallsPending, Made, FailAll, UNCHANGED nextId
  PROVE  /\ pending' = {} /\ future' \in [Calls -> Futures]
         /\ OpenCallsPending' /\ Made'
<1>1. /\ pending' = {}
      /\ \A c \in Calls : future'[c] = IF c \in pending THEN Failed ELSE future[c]
      /\ future' = [c \in Calls |-> future'[c]]
  BY DEF FailAll
<1>2. Failed \in Futures /\ Failed # Open /\ Failed # Unmade /\ Open # Unmade
  BY DEF Futures, Failed, Open, Unmade
<1>3. future' \in [Calls -> Futures]
  BY <1>1, <1>2 DEF TypeOK
<1>4. OpenCallsPending'
  BY <1>1, <1>2 DEF OpenCallsPending
<1>5. Made'
  BY <1>1, <1>2 DEF Made, OpenCallsPending
<1> QED BY <1>1, <1>3, <1>4, <1>5

\* What is taken from the inbox leaves nothing there that was not given.
LEMMA TakenGiven ==
  ASSUME TypeOK, Given, inbox # <<>>, inbox' = Tail(inbox),
         UNCHANGED <<ran, isolate, serving>>
  PROVE  inbox' \in Seq(Calls \cup {Exit}) /\ Given'
<1>1. inbox \in Seq(Calls \cup {Exit})
  BY DEF TypeOK
<1>2. /\ inbox' \in Seq(Calls \cup {Exit})
      /\ DOMAIN inbox' = 1..(Len(inbox) - 1) /\ DOMAIN inbox = 1..Len(inbox)
      /\ Len(inbox) \in Nat
      /\ \A i \in DOMAIN inbox' : i + 1 \in DOMAIN inbox /\ inbox'[i] = inbox[i + 1]
  BY <1>1
<1> QED BY <1>2 DEF Given

\* A call is made after all others, and opens its future.
LEMMA CallKeeps == ASSUME IInv, Call PROVE IInv'
<1>1. /\ nextId \in Nat /\ nextId + 1 \in Calls /\ nextId' = nextId + 1
      /\ nextId' \in 0..NumCalls
  BY DEF IInv, Call, TypeOK
<1>2. aim' \in [Calls -> Calls \cup {None}]
  BY <1>1 DEF IInv, Call, TypeOK
<1>3. Open \in Futures /\ Open # Unmade
  BY DEF Futures, Open, Unmade
<1>4. /\ future \in [Calls -> Futures] /\ future' \in [Calls -> Futures]
      /\ \A c \in Calls : future'[c] = IF c = nextId + 1 THEN Open ELSE future[c]
  BY <1>1, <1>3 DEF IInv, Call, TypeOK
<1>5. commands' \in Seq(Calls \cup {Shutdown}) /\ Ordered'
  BY <1>1, SendOrdered DEF IInv, Call
<1>6. TypeOK'
  BY <1>1, <1>2, <1>4, <1>5 DEF IInv, Call, TypeOK
<1>7. OpenCallsPending'
  BY <1>1, <1>4 DEF IInv, Call, OpenCallsPending
<1>8. Made'
  BY <1>1, <1>3, <1>4 DEF IInv, Made
<1>9. Given'
  BY DEF IInv, Call, Given
<1> QED BY <1>5, <1>6, <1>7, <1>8, <1>9 DEF IInv

\* A response completes the call it names, if that is still open.
LEMMA ResponseKeeps == ASSUME IInv, ReceiveResponse PROVE IInv'
<1> DEFINE c == Head(inbox)
<1>1. c \in Calls
  BY DEF IInv, TypeOK, ReceiveResponse
<1>2. /\ Answered(c) \in Futures
      /\ Answered(c) # Open /\ Answered(c) # Unmade /\ Open # Unmade
  BY <1>1 DEF Futures, Answered, Open, Unmade
<1>3. /\ pending' = pending \ {c}
      /\ future' = IF c \in pending THEN [future EXCEPT ![c] = Answered(c)] ELSE future
      /\ UNCHANGED <<nextId, aim, closed, commands, isolate, serving, ran>>
  BY DEF ReceiveResponse
<1>4. inbox' \in Seq(Calls \cup {Exit}) /\ Given'
  BY <1>3, TakenGiven DEF IInv, ReceiveResponse
<1> HIDE DEF c
<1>5. /\ future' \in [Calls -> Futures]
      /\ \A d \in Calls : future'[d] = IF d = c /\ c \in pending THEN Answered(c)
                                       ELSE future[d]
  BY <1>1, <1>2, <1>3 DEF IInv, TypeOK
<1>6. TypeOK'
  BY <1>3, <1>4, <1>5 DEF IInv, TypeOK
<1>7. OpenCallsPending'
  BY <1>1, <1>2, <1>3, <1>5 DEF IInv, OpenCallsPending
<1>8. Made'
  BY <1>1, <1>2, <1>3, <1>5 DEF IInv, OpenCallsPending, Made
<1>9. Ordered'
  BY <1>3 DEF IInv, Ordered
<1> QED BY <1>4, <1>6, <1>7, <1>8, <1>9 DEF IInv

\* The isolate takes the call that was made first of those that wait.
LEMMA ServeKeeps == ASSUME IInv, Serve PROVE IInv'
<1> DEFINE c == Head(commands)
<1>1. commands \in Seq(Calls \cup {Shutdown}) /\ commands # <<>> /\ c # Shutdown
      /\ ran \in Seq(Calls)
  BY DEF IInv, TypeOK, Serve
<1>2. /\ c \in Calls /\ c = commands[1]
      /\ DOMAIN commands = 1..Len(commands) /\ Len(commands) \in Nat
      /\ 1 \in DOMAIN commands
  BY <1>1
<1>3. /\ Tail(commands) \in Seq(Calls \cup {Shutdown})
      /\ \A i \in DOMAIN Tail(commands) :
           i \in Nat /\ 1 < i + 1 /\ i + 1 \in DOMAIN commands
           /\ Tail(commands)[i] = commands[i + 1]
  BY <1>1
<1>4. /\ Append(ran, c) \in Seq(Calls)
      /\ \A i \in DOMAIN Append(ran, c) :
           (i \in DOMAIN ran /\ Append(ran, c)[i] = ran[i]) \/ Append(ran, c)[i] = c
      /\ \A d : Contains(ran, d) => Contains(Append(ran, c), d)
      /\ Contains(Append(ran, c), c)
  <2>1. Append(ran, c) \in Seq(Calls)
    BY <1>1, <1>2
  <2>2. \A i \in DOMAIN Append(ran, c) :
           (i \in DOMAIN ran /\ Append(ran, c)[i] = ran[i]) \/ Append(ran, c)[i] = c
    BY <1>1, <1>2
  <2> QED BY <2>1, <2>2, <1>1, <1>2, AppendContains
<1>5. /\ commands' = Tail(commands) /\ ran' = Append(ran, c)
      /\ isolate' = "serving" /\ serving' = c
      /\ UNCHANGED <<nextId, aim, pending, closed, future, inbox>>
  BY DEF Serve
<1> HIDE DEF c
<1>6. TypeOK'
  BY <1>2, <1>3, <1>4, <1>5 DEF IInv, TypeOK
<1>7. OpenCallsPending' /\ Made'
  BY <1>5 DEF IInv, OpenCallsPending, Made
<1>8. Given'
  BY <1>4, <1>5 DEF IInv, Given
<1>9. Ordered'
  <2>1. \A i \in DOMAIN commands' : commands'[i] <= nextId'
    BY <1>3, <1>5 DEF IInv, Ordered
  <2>2. \A i \in DOMAIN ran' : ran'[i] <= nextId'
    BY <1>2, <1>4, <1>5 DEF IInv, Ordered
  <2>3. \A i \in DOMAIN ran', j \in DOMAIN commands' :
          commands'[j] # Shutdown => ran'[i] < commands'[j]
    <3> SUFFICES ASSUME NEW i \in DOMAIN ran', NEW j \in DOMAIN commands',
                        commands'[j] # Shutdown
                 PROVE  ran'[i] < commands'[j]
      OBVIOUS
    <3>1. j + 1 \in DOMAIN commands /\ commands'[j] = commands[j + 1] /\ 1 < j + 1
      BY <1>3, <1>5
    <3>2. commands[1] < commands[j + 1]
      BY <3>1, <1>1, <1>2 DEF IInv, Ordered
    <3>3. CASE i \in DOMAIN ran /\ ran'[i] = ran[i]
      BY <3>1, <3>3 DEF IInv, Ordered
    <3>4. CASE ran'[i] = c
      BY <3>1, <3>2, <3>4, <1>2
    <3> QED BY <3>3, <3>4, <1>4, <1>5
  <2>4. \A i, j \in DOMAIN commands' :
          i < j /\ commands'[i] # Shutdown /\ commands'[j] # Shutdown
            => commands'[i] < commands'[j]
    BY <1>2, <1>3, <1>5 DEF IInv, Ordered
  <2> QED BY <2>1, <2>2, <2>3, <2>4 DEF Ordered
<1> QED BY <1>6, <1>7, <1>8, <1>9 DEF IInv

\* The isolate answers, or ends.
LEMMA ReplyKeeps ==
  ASSUME IInv, (Return /\ isolate = "serving") \/ Die \/ ShutDown
  PROVE  IInv'
<1>1. /\ UNCHANGED <<nextId, aim, pending, closed, future, ran>>
      /\ commands' \in {commands, <<>>}
      /\ isolate' \in {"ready", "gone"}
      /\ serving' \in {serving, None}
      /\ \E m \in Calls \cup {Exit} :
           Reply(m) /\ (m # Exit => isolate = "serving" /\ m = serving)
  BY DEF Return, Die, ShutDown, IInv, TypeOK
<1>2. PICK m \in Calls \cup {Exit} :
         Reply(m) /\ (m # Exit => isolate = "serving" /\ m = serving)
  BY <1>1
<1>3. m # Exit => Contains(ran, m)
  BY <1>2 DEF IInv, Given
<1>4. /\ inbox' \in Seq(Calls \cup {Exit})
      /\ \A i \in DOMAIN inbox' : inbox'[i] # Exit => Contains(ran', inbox'[i])
  BY <1>1, <1>2, <1>3, ReplyGiven DEF IInv
<1>5. TypeOK'
  <2>1. <<>> \in Seq(Calls \cup {Shutdown})
    OBVIOUS
  <2>2. commands' \in Seq(Calls \cup {Shutdown})
    BY <1>1, <2>1 DEF IInv, TypeOK
  <2> QED BY <1>1, <1>4, <2>2 DEF IInv, TypeOK
<1>6. OpenCallsPending' /\ Made'
  BY <1>1 DEF IInv, OpenCallsPending, Made
<1>7. Ordered'
  <2>1. CASE commands' = commands
    BY <2>1, <1>1 DEF IInv, Ordered
  <2>2. CASE commands' = <<>>
    BY <2>2, <1>1 DEF IInv, Ordered
  <2> QED BY <2>1, <2>2, <1>1
<1>8. Given'
  BY <1>1, <1>4 DEF Given
<1> QED BY <1>5, <1>6, <1>7, <1>8 DEF IInv

\* Every step keeps the invariant.
LEMMA StepInv == ASSUME IInv, [Next]_vars PROVE IInv'
<1>1. CASE Call
  BY <1>1, CallKeeps
<1>2. CASE Dispose
  <2>1. /\ Send(Shutdown) /\ FailAll /\ closed' = TRUE /\ inbox' = <<>>
        /\ UNCHANGED <<nextId, aim, isolate, serving, ran>>
    BY <1>2 DEF Dispose
  <2>2. commands' \in Seq(Calls \cup {Shutdown}) /\ Ordered'
    BY <2>1, SendOrdered DEF IInv, TypeOK
  <2>3. /\ pending' = {} /\ future' \in [Calls -> Futures]
        /\ OpenCallsPending' /\ Made'
    BY <2>1, FailAllKeeps DEF IInv
  <2>4. TypeOK'
    BY <2>1, <2>2, <2>3 DEF IInv, TypeOK
  <2>5. Given'
    BY <2>1 DEF IInv, Given
  <2> QED BY <2>2, <2>3, <2>4, <2>5 DEF IInv
<1>3. CASE ReceiveResponse
  BY <1>3, ResponseKeeps
<1>4. CASE ReceiveExit
  <2>1. /\ FailAll /\ inbox # <<>> /\ inbox' = Tail(inbox)
        /\ UNCHANGED <<nextId, aim, closed, commands, isolate, serving, ran>>
    BY <1>4 DEF ReceiveExit
  <2>2. inbox' \in Seq(Calls \cup {Exit}) /\ Given'
    BY <2>1, TakenGiven DEF IInv
  <2>3. /\ pending' = {} /\ future' \in [Calls -> Futures]
        /\ OpenCallsPending' /\ Made'
    BY <2>1, FailAllKeeps DEF IInv
  <2>4. TypeOK'
    BY <2>1, <2>2, <2>3 DEF IInv, TypeOK
  <2>5. Ordered'
    BY <2>1 DEF IInv, Ordered
  <2> QED BY <2>2, <2>3, <2>4, <2>5 DEF IInv
<1>5. CASE Load
  BY <1>5 DEF Load, IInv, TypeOK, OpenCallsPending, Made, Ordered, Given
<1>6. CASE Serve
  BY <1>6, ServeKeeps
<1>7. CASE CoreReturns \/ QueryReturns \/ Die \/ ShutDown
  BY <1>7, ReplyKeeps DEF CoreReturns, QueryReturns
<1>8. CASE UNCHANGED vars
  BY <1>8 DEF vars, IInv, TypeOK, OpenCallsPending, Made, Ordered, Given
<1> QED BY <1>1, <1>2, <1>3, <1>4, <1>5, <1>6, <1>7, <1>8
        DEF Next, AppStep, ProgramStep, Quiet

-----------------------------------------------------------------------------

\* The invariant of the client, its isolate and the two ports.
THEOREM Inv == Spec => []IInv
<1>1. IInv /\ [Next]_vars => IInv'
  BY StepInv
<1> QED BY <1>1, InitInv, PTL DEF Spec

\* A call whose future is open is in the map of completers, and nothing else
\* is (CoreClient.call, _complete, _failAll): no completer is completed twice
\* and none is forgotten.
THEOREM PendingExactly == Spec => []OpenCallsPending
<1>1. IInv => OpenCallsPending
  BY DEF IInv
<1> QED BY <1>1, Inv, PTL

\* Each step of the client is a step of what it promises, or none.
LEMMA StepPromised ==
  ASSUME IInv, [Next]_vars
  PROVE  [Promise!Next]_<<future, ran>>
<1> USE DEF Promise!Next
<1>1. CASE Call
  <2>1. nextId + 1 \in Calls /\ future[nextId + 1] = Unmade
    BY <1>1 DEF Call, IInv, TypeOK, Made
  <2>2. Promise!Make(nextId + 1)
    BY <1>1, <2>1 DEF Call, Promise!Make, Promise!Unmade, Promise!Open, Unmade, Open
  <2> QED BY <2>1, <2>2
<1>2. CASE Dispose \/ ReceiveExit
  <2>1. FailAll /\ UNCHANGED ran
    BY <1>2 DEF Dispose, ReceiveExit
  <2>2. pending \in SUBSET {c \in Calls : future[c] = Open}
    BY DEF IInv, OpenCallsPending
  <2>3. Promise!Fail
    BY <2>1, <2>2 DEF FailAll, Promise!Fail, Promise!Open, Promise!Failed, Open, Failed
  <2> QED BY <2>3
<1>3. CASE ReceiveResponse
  <2> DEFINE c == Head(inbox)
  <2>1. c \in Calls /\ 1 \in DOMAIN inbox /\ c = inbox[1] /\ c # Exit
    BY <1>3 DEF IInv, TypeOK, ReceiveResponse
  <2>2. CASE c \in pending
    <3>1. \E i \in DOMAIN ran : ran[i] = c
      <4>1. Contains(ran, c)
        BY <2>1 DEF IInv, Given
      <4>2. DOMAIN ran = 1..Len(ran)
        BY DEF IInv, TypeOK
      <4> QED BY <4>1, <4>2 DEF Contains
    <3>2. future[c] = Open
      BY <2>2 DEF IInv, OpenCallsPending
    <3>3. Promise!Answer(c)
      BY <1>3, <2>2, <3>1, <3>2
         DEF ReceiveResponse, Promise!Answer, Promise!Open, Promise!Answered, Open,
             Answered
    <3> QED BY <2>1, <3>3
  <2>3. CASE c \notin pending
    BY <1>3, <2>3 DEF ReceiveResponse
  <2> QED BY <2>2, <2>3
<1>4. CASE Serve
  <2> DEFINE c == Head(commands)
  <2>1. c \in Calls /\ 1 \in DOMAIN commands /\ c = commands[1]
    BY <1>4 DEF IInv, TypeOK, Serve
  <2>2. c <= nextId /\ \A i \in DOMAIN ran : ran[i] < c
    BY <1>4, <2>1 DEF IInv, Ordered, Serve
  <2>3. future[c] # Unmade
    BY <2>1, <2>2 DEF IInv, Made, TypeOK
  <2>4. Promise!Run(c)
    BY <1>4, <2>2, <2>3 DEF Serve, Promise!Run, Promise!Unmade, Unmade
  <2> QED BY <2>1, <2>4
<1>5. CASE Load \/ CoreReturns \/ QueryReturns \/ Die \/ ShutDown \/ UNCHANGED vars
  BY <1>5 DEF Load, CoreReturns, QueryReturns, Die, ShutDown, Return, vars
<1> QED BY <1>1, <1>2, <1>3, <1>4, <1>5 DEF Next, AppStep, ProgramStep, Quiet

\* The client implements RequestReply: the core runs the calls in the order in
\* which they were made and each at most once, and a future completes once,
\* with the answer to its own call or with a failure.
THEOREM PromiseKept == Spec => KeepsPromise
<1>1. Init => Promise!Init
  BY DEF Init, Promise!Init, Promise!Unmade, Unmade
<1>2. IInv /\ [Next]_vars => [Promise!Next]_<<future, ran>>
  BY StepPromised
<1> QED BY <1>1, <1>2, Inv, PTL DEF Spec, KeepsPromise, Promise!Spec
=============================================================================
