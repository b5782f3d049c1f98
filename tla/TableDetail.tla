----------------------------- MODULE TableDetail -----------------------------
(***************************************************************************)
(* The screen of one table (app/lib/ui/table_detail_screen.dart), where    *)
(* the user may have the rows counted: the statement is asked of the core, *)
(* run in the tab in front like any other, and the count read from that    *)
(* tab's results.  What was begun on a screen goes on after the user left  *)
(* it, and another screen may be open by then.                             *)
(*                                                                         *)
(* The core answers in the order of the calls (module CoreClient).  While  *)
(* a screen is on top, neither the tabs nor the connection can be changed. *)
(***************************************************************************)
EXTENDS Integers, Sequences

CONSTANTS
  NumTabs,     \* how many tabs are open
  NumScreens,  \* bound: how often a table is opened
  MaxAsked     \* bound: requests under way when the user asks for more

ASSUME TableDetailAssumption ==
  NumTabs \in Nat \ {0} /\ NumScreens \in Nat /\ MaxAsked \in Nat

Tabs   == 1..NumTabs
Nobody   == -1
User   == 0               \* who runs a statement: the editor, or
Screens == 1..NumScreens  \* the screen that counts

VARIABLES
  connected,  \* AppState.isConnected
  front,      \* AppState.tab
  results,    \* of each tab: whose rows its results are, Nobody where there are none
  opened,     \* how many screens were opened
  screen,     \* the one that is mounted, or Nobody
  counting,   \* where its _countExactly is
  reply,      \* how its statement ended
  exact,      \* its _exactCount: whose rows it was read from
  asked       \* requests on their way to the core

appVars    == <<connected, front, results>>
screenVars == <<counting, reply, exact>>
detailVars == <<appVars, opened, screen, screenVars, asked>>

DetailInit ==
  /\ connected = TRUE /\ front = 1 /\ results = [t \in Tabs |-> Nobody]
  /\ opened = 0 /\ screen = Nobody
  /\ counting = "no" /\ reply = "none" /\ exact = Nobody
  /\ asked = <<>>

-----------------------------------------------------------------------------
CountRequest(op, by) == [op |-> op, by |-> by, tab |-> front]

\* run, up to its await: the tab in front is cleared and captured.
Run(q, by) ==
  /\ results' = [results EXCEPT ![front] = Nobody]
  /\ asked' = Append(q, CountRequest("execute", by))

(* The user, in the workspace. *)

RunStatement ==
  /\ screen = Nobody /\ connected /\ Len(asked) < MaxAsked
  /\ Run(asked, User)
  /\ UNCHANGED <<connected, front, opened, screen, screenVars>>

SelectTab ==
  /\ screen = Nobody
  /\ front' \in Tabs
  /\ UNCHANGED <<connected, results, opened, screen, screenVars, asked>>

Connects ==
  /\ screen = Nobody
  /\ connected' = ~connected
  /\ results' = IF connected THEN [t \in Tabs |-> Nobody] ELSE results
  /\ UNCHANGED <<front, opened, screen, screenVars, asked>>

\* Mistake: the state of the last screen is taken over.
OpenAgain ==
  /\ screen = Nobody /\ connected /\ opened < NumScreens
  /\ opened' = opened + 1 /\ screen' = opened + 1
  /\ UNCHANGED <<appVars, screenVars, asked>>

\* _openDetail
OpenDetail ==
  /\ screen = Nobody /\ connected /\ opened < NumScreens
  /\ opened' = opened + 1 /\ screen' = opened + 1
  /\ counting' = "no" /\ reply' = "none" /\ exact' = Nobody
  /\ UNCHANGED <<appVars, asked>>

(* The user, on the screen. *)

\* _countExactly; the button is gone where there is a count.
Count ==
  /\ screen # Nobody /\ counting = "no" /\ exact = Nobody /\ Len(asked) < MaxAsked
  /\ counting' = "preview"
  /\ asked' = Append(asked, CountRequest("preview", screen))
  /\ UNCHANGED <<appVars, opened, screen, reply, exact>>

Back ==
  /\ screen # Nobody
  /\ screen' = Nobody
  /\ UNCHANGED <<appVars, opened, screenVars, asked>>

-----------------------------------------------------------------------------
(* What the core answers. *)

Mounted(by) == by = screen

\* Mistake: the flag is reset behind the await only.
PreviewFailsCounting ==
  /\ asked # <<>> /\ Head(asked).op = "preview"
  /\ LET by == Head(asked).by IN
       \/ connected /\ Run(Tail(asked), by)
          /\ counting' = IF Mounted(by) THEN "run" ELSE counting
       \/ /\ asked' = Tail(asked)
          /\ UNCHANGED <<results, counting>>
  /\ UNCHANGED <<connected, front, opened, screen, reply, exact>>

\* The statement is run; without a connection, or where the core fails, there is
\* nothing to read.
PreviewAnswered ==
  /\ asked # <<>> /\ Head(asked).op = "preview"
  /\ LET by == Head(asked).by IN
       \/ connected /\ Run(Tail(asked), by)
          /\ counting' = IF Mounted(by) THEN "run" ELSE counting
       \/ /\ asked' = Tail(asked)
          /\ counting' = IF Mounted(by) THEN "no" ELSE counting
          /\ UNCHANGED results
  /\ UNCHANGED <<connected, front, opened, screen, reply, exact>>

\* The captured tab gets the rows, or the statement's error, which has none; run
\* swallows a failure of the call and leaves the results alone.
RunAnswered ==
  /\ asked # <<>> /\ Head(asked).op = "execute"
  /\ asked' = Tail(asked)
  /\ LET r == Head(asked) IN
     \E answer \in {"rows", "error", "failed"} :
       /\ results' = CASE answer = "rows"   -> [results EXCEPT ![r.tab] = r.by]
                       [] answer = "error"  -> [results EXCEPT ![r.tab] = Nobody]
                       [] answer = "failed" -> results
       /\ IF Mounted(r.by) THEN counting' = "history" /\ reply' = answer
                           ELSE UNCHANGED <<counting, reply>>
  /\ UNCHANGED <<connected, front, opened, screen, exact>>

\* run is over, and what the tab in front holds is the count.
Counted ==
  /\ screen # Nobody /\ counting = "history"
  /\ counting' = "no"
  /\ exact' = results[front]
  /\ UNCHANGED <<appVars, opened, screen, reply, asked>>

DetailAnswers == PreviewAnswered \/ RunAnswered

DetailNext ==
  \/ RunStatement \/ SelectTab \/ Connects \/ OpenDetail \/ Count \/ Back
  \/ DetailAnswers \/ Counted

\* The core answers each request and the history is written.
DetailSpec ==
  /\ DetailInit /\ [][DetailNext]_detailVars
  /\ WF_detailVars(DetailAnswers) /\ WF_detailVars(Counted)

-----------------------------------------------------------------------------
(* Properties. *)

\* The count on a screen was read from the answer to that screen's own
\* statement, whatever runs, and counts begun on other screens, were still
\* under way (_countExactly) - unless its statement failed.
CountIsOwn ==
  screen # Nobody /\ exact # Nobody /\ reply # "failed" => exact = screen

\* "Counting..." gives way to something on a screen the user stays on.
CountingEnds == counting # "no" ~> (counting = "no" \/ screen = Nobody)

DetailTypeOK ==
  /\ connected \in BOOLEAN /\ front \in Tabs
  /\ results \in [Tabs -> {Nobody, User} \cup Screens]
  /\ opened \in 0..NumScreens /\ screen \in {Nobody} \cup 1..opened
  /\ counting \in {"no", "preview", "run", "history"}
  /\ reply \in {"none", "rows", "error", "failed"}
  /\ exact \in {Nobody, User} \cup Screens
  /\ asked \in Seq([op : {"preview", "execute"}, by : User..opened, tab : Tabs])

\* Of what the mounted screen asked for, and of what comes after it.
InTurn ==
  screen # Nobody =>
    /\ \A i \in DOMAIN asked : asked[i].by = screen =>
         \/ /\ counting = "preview" /\ asked[i].op = "preview"
            /\ \A k \in (i + 1)..Len(asked) : asked[k].op # "preview"
         \/ /\ counting = "run" /\ asked[i].op = "execute"
            /\ i = Len(asked) /\ asked[i].tab = front
    /\ counting = "run" => \A i \in DOMAIN asked : asked[i].op # "preview"
    /\ counting = "history" => asked = <<>>
    /\ counting # "no" => exact = Nobody

\* What the tab in front holds while the mounted screen's run is ending.
AnswerInFront ==
  screen # Nobody /\ counting = "history" =>
    \/ reply = "rows" /\ results[front] = screen
    \/ reply = "error" /\ results[front] = Nobody
    \/ reply = "failed"

\* The inductive invariant.
DetailInv == DetailTypeOK /\ InTurn /\ AnswerInFront /\ CountIsOwn

\* table_detail_screen.dart:95, "Counts the rows exactly".
CountsThisTable == screen # Nobody /\ exact # Nobody => exact = screen
=============================================================================
