---------------------------- MODULE RequestReply ----------------------------
(***************************************************************************)
(* What CoreClient promises the rest of the app: a request is run by the   *)
(* core at most once and in the order of the calls, and the future of a    *)
(* call completes at most once, with the response to that very call, or    *)
(* with a failure.                                                         *)
(***************************************************************************)
EXTENDS Naturals, Sequences

CONSTANT Calls        \* 1..n, in the order in which they are made

VARIABLES
  future,   \* of each call: unmade, open, failed, or the call it answers
  ran       \* the calls the core ran, in order

Unmade      == [is |-> "unmade", to |-> 0]
Open        == [is |-> "open", to |-> 0]
Failed      == [is |-> "failed", to |-> 0]
Answered(c) == [is |-> "answered", to |-> c]

Init ==
  /\ future = [c \in Calls |-> Unmade]
  /\ ran = <<>>

Make(c) ==
  /\ future[c] = Unmade
  /\ future' = [future EXCEPT ![c] = Open]
  /\ UNCHANGED ran

\* A call may run after its future failed, but never before an earlier one.
Run(c) ==
  /\ future[c] # Unmade
  /\ \A i \in DOMAIN ran : ran[i] < c
  /\ ran' = Append(ran, c)
  /\ UNCHANGED future

Answer(c) ==
  /\ future[c] = Open
  /\ \E i \in DOMAIN ran : ran[i] = c
  /\ future' = [future EXCEPT ![c] = Answered(c)]
  /\ UNCHANGED ran

\* Any number of open futures fail at once.
Fail ==
  /\ \E S \in SUBSET {c \in Calls : future[c] = Open} :
       future' = [c \in Calls |-> IF c \in S THEN Failed ELSE future[c]]
  /\ UNCHANGED ran

Next == (\E c \in Calls : Make(c) \/ Run(c) \/ Answer(c)) \/ Fail

Spec == Init /\ [][Next]_<<future, ran>>
=============================================================================
