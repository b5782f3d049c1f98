---------------------------- MODULE EditorProofs -----------------------------
(***************************************************************************)
(* Theorems about Editor, for any number of tabs, any texts and any number *)
(* of completions under way.                                               *)
(***************************************************************************)
EXTENDS Editor, SequenceTheorems, TLAPS

USE EditorAssumption DEF Tabs

\* The completions under way are a sequence, of whatever the words' lengths are.
Queue   == \E S : asked \in Seq(S)
Correct == IInv /\ Queue

LEMMA Growing ==
  ASSUME Queue, NEW e
  PROVE  /\ \E S : Append(asked, e) \in Seq(S)
         /\ Append(asked, e) # <<>>
         /\ Append(asked, e)[Len(Append(asked, e))] = e
<1>1. PICK S : asked \in Seq(S)
  BY DEF Queue
<1> DEFINE T == S \cup {e}
<1>2. asked \in Seq(T) /\ e \in T
  BY <1>1, SeqMonotonic
<1> HIDE DEF T
<1>3. /\ Append(asked, e) \in Seq(T) /\ Len(Append(asked, e)) = Len(asked) + 1
      /\ Append(asked, e)[Len(asked) + 1] = e
  BY <1>2
<1> QED BY <1>2, <1>3

LEMMA Shrinking ==
  ASSUME Queue, asked # <<>>
  PROVE  /\ \E S : Tail(asked) \in Seq(S)
         /\ Tail(asked) = <<>> => asked[Len(asked)] = Head(asked)
         /\ Tail(asked) # <<>> => Tail(asked)[Len(Tail(asked))] = asked[Len(asked)]
<1>1. PICK S : asked \in Seq(S)
  BY DEF Queue
<1>2. Tail(asked) \in Seq(S) /\ Len(Tail(asked)) = Len(asked) - 1 /\ Len(asked) \in Nat \ {0}
  BY <1>1
<1>3. ASSUME Tail(asked) = <<>> PROVE asked[Len(asked)] = Head(asked)
  <2>1. Len(asked) = 1
    <3> DEFINE left == Len(Tail(asked))
    <3>1. Len(<<>>) = 0
      OBVIOUS
    <3>2. left = 0
      BY <1>3, <3>1, Zenon
    <3>3. left = Len(asked) - 1 /\ Len(asked) \in Nat
      BY <1>2
    <3> HIDE DEF left
    <3> QED BY <3>2, <3>3
  <2> QED BY <1>1, <2>1
<1>4. ASSUME Tail(asked) # <<>> PROVE Tail(asked)[Len(Tail(asked))] = asked[Len(asked)]
  <2>0. Len(Tail(asked)) \in Nat \ {0}
    BY <1>2, <1>4, EmptySeq
  <2>1. Len(asked) - 1 \in 1..Len(Tail(asked)) /\ (Len(asked) - 1) + 1 = Len(asked)
    BY <1>2, <2>0
  <2>2. Tail(asked)[Len(asked) - 1] = asked[(Len(asked) - 1) + 1]
    BY <1>1, <2>1
  <2> QED BY <1>2, <2>1, <2>2
<1> QED BY <1>2, <1>3, <1>4

\* While the debounce is not running nothing in the field has changed.
LEMMA Rested ==
  ASSUME timer \in BOOLEAN, OnEditorChanged, ~timer'
  PROVE  ~timer /\ text' = text /\ base' = base /\ WordLength' = WordLength
<1>1. ~timer /\ <<text', base', extent'>> = <<text, base, extent>>
  BY DEF OnEditorChanged
<1>2. text' = text /\ base' = base
  BY <1>1
<1> QED BY <1>1, <1>2 DEF WordLength, WordStart

\* A step that changes the field through its controller.
LEMMA FieldKeeps ==
  ASSUME Correct, OnEditorChanged, mounted, mounted' = mounted,
         UNCHANGED <<active, front, opened, asked, fired, previews>>,
         focus' \in BOOLEAN, shown' \in 1..opened, offered' \in BOOLEAN,
         offered' => offered /\ prefix' = prefix,
         DOMAIN sql' = Tabs, DOMAIN meant' = Tabs, strayed' \subseteq Tabs, TextsKept'
  PROVE  Correct'
<1>0. IInv /\ TypeOK
  BY DEF Correct, IInv
<1>1. timer' \in BOOLEAN
  BY DEF OnEditorChanged
<1>2. TypeOK'
  BY <1>0, <1>1 DEF TypeOK
<1>4. ASSUME ~timer' PROVE ~timer /\ WordLength' = WordLength
  BY <1>0, <1>4, Rested DEF TypeOK
<1>5. SuggestionsSettle'
  BY <1>0, <1>4 DEF IInv, SuggestionsSettle
<1>6. YoungestIsCurrent'
  BY <1>0, <1>4 DEF IInv, YoungestIsCurrent
<1>7. Queue'
  BY DEF Correct, Queue
<1> QED BY <1>2, <1>5, <1>6, <1>7 DEF Correct, IInv

\* A step that leaves the field and what was asked alone.
LEMMA OtherKeeps ==
  ASSUME Correct, UNCHANGED <<mounted, fieldVars, timer, asked, fired, prefix, offered>>,
         TypeOK', TextsKept'
  PROVE  Correct'
<1>1. WordLength' = WordLength
  BY DEF WordLength, WordStart, fieldVars
<1>2. SuggestionsSettle' /\ YoungestIsCurrent'
  BY <1>1 DEF Correct, IInv, SuggestionsSettle, YoungestIsCurrent
<1> QED BY <1>2 DEF Correct, IInv, Queue

\* The user changes the text shown, and the tab in front takes it.
LEMMA EditKeeps ==
  ASSUME TypeOK, TextsKept, UNCHANGED <<front, opened, mounted, shown>>,
         SetSql(text'), Edited
  PROVE  /\ DOMAIN sql' = Tabs /\ DOMAIN meant' = Tabs /\ strayed' \subseteq Tabs
         /\ TextsKept'
<1>1. /\ front \in Tabs /\ shown \in Tabs
      /\ DOMAIN sql = Tabs /\ DOMAIN meant = Tabs /\ strayed \subseteq Tabs /\ opened \in Tabs
  BY DEF TypeOK
<1>2. /\ DOMAIN sql' = Tabs /\ sql'[front] = text' /\ \A t \in Tabs \ {front} : sql'[t] = sql[t]
  BY <1>1 DEF SetSql
<1>3. /\ DOMAIN meant' = Tabs /\ meant'[shown] = text'
      /\ \A t \in Tabs \ {shown} : meant'[t] = meant[t]
  BY <1>1 DEF Edited
<1>4. strayed' = IF shown = front THEN strayed \ {shown} ELSE strayed \cup {shown, front}
  BY DEF Edited
<1>5. strayed' \subseteq Tabs
  BY <1>1, <1>4
<1>6. ASSUME NEW t \in 1..opened, t \notin strayed'
      PROVE  sql'[t] = meant'[t] /\ (mounted' /\ shown' = t => text' = meant'[t])
  <2>0. t \in Tabs
    BY <1>1
  <2>1. CASE t = front
    <3>1. shown = front
      BY <1>4, <1>6, <2>1
    <3> QED BY <1>2, <1>3, <2>1, <3>1
  <2>2. CASE t # front
    <3>1. t # shown /\ t \notin strayed
      BY <1>4, <1>6, <2>2
    <3> QED BY <1>2, <1>3, <1>6, <2>0, <2>2, <3>1 DEF TextsKept
  <2> QED BY <2>1, <2>2
<1> QED BY <1>2, <1>3, <1>5, <1>6 DEF TextsKept

\* A text from elsewhere takes the place of the one in front.
LEMMA LoadKeeps ==
  ASSUME Correct, NEW new, NEW asker \in Tabs, LoadSql(new, asker), previews' \subseteq Tabs
  PROVE  Correct'
<1>0. /\ TypeOK /\ IInv /\ TextsKept
      /\ UNCHANGED <<active, front, opened, mounted, shown, focus, asked, fired, prefix, offered>>
  BY DEF Correct, IInv, LoadSql
<1>1. /\ front \in Tabs /\ shown \in Tabs
      /\ DOMAIN sql = Tabs /\ DOMAIN meant = Tabs /\ strayed \subseteq Tabs /\ opened \in Tabs
  BY <1>0 DEF TypeOK
<1>2. /\ DOMAIN sql' = Tabs /\ sql'[front] = new /\ \A t \in Tabs \ {front} : sql'[t] = sql[t]
  BY <1>1 DEF LoadSql, SetSql
<1>3. /\ mounted => text' = new /\ timer' = TRUE
      /\ ~mounted => UNCHANGED <<text, base, extent, timer>>
  BY DEF LoadSql, fieldVars
<1>4. meant' = IF asker = front THEN [meant EXCEPT ![front] = new] ELSE meant
  BY DEF LoadSql
<1>5. strayed' = (IF asker = front THEN strayed \ {front} ELSE strayed \cup {front})
                 \cup (IF mounted /\ shown # front THEN {shown} ELSE {})
  BY DEF LoadSql
<1>6. TypeOK'
  BY <1>0, <1>1, <1>2, <1>3, <1>4, <1>5 DEF TypeOK
<1>7. ASSUME NEW t \in 1..opened, t \notin strayed'
      PROVE  sql'[t] = meant'[t] /\ (mounted' /\ shown' = t => text' = meant'[t])
  <2>0. t \in Tabs
    BY <1>1
  <2>1. CASE t = front
    <3>1. asker = front
      BY <1>5, <1>7, <2>1
    <3>2. meant'[t] = new
      BY <1>1, <1>4, <2>1, <3>1
    <3> QED BY <1>0, <1>2, <1>3, <2>1, <3>2
  <2>2. CASE t # front
    <3>1. t \notin strayed /\ (mounted => shown # t)
      BY <1>5, <1>7, <2>2
    <3>2. meant'[t] = meant[t] /\ sql'[t] = sql[t]
      BY <1>1, <1>2, <1>4, <2>0, <2>2
    <3> QED BY <1>0, <1>7, <3>1, <3>2 DEF TextsKept
  <2> QED BY <2>1, <2>2
<1>8. TextsKept'
  BY <1>0, <1>7 DEF TextsKept
<1>9. SuggestionsSettle' /\ YoungestIsCurrent'
  BY <1>0, <1>3 DEF SuggestionsSettle, YoungestIsCurrent
<1> QED BY <1>0, <1>6, <1>8, <1>9 DEF Correct, IInv, Queue

LEMMA UserKeeps ==
  ASSUME Correct,
         \/ Type \/ Tap \/ Unfocus \/ Format \/ ApplySuggestion \/ UseSql \/ AskPreview
         \/ PreviewComes \/ SelectTab \/ OpenTab
  PROVE  Correct'
<1>0. /\ TypeOK /\ IInv /\ TextsKept
      /\ DOMAIN sql = Tabs /\ DOMAIN meant = Tabs /\ front \in Tabs /\ shown \in 1..opened
      /\ strayed \subseteq Tabs /\ previews \subseteq Tabs /\ opened \in Tabs
  BY DEF Correct, IInv, TypeOK
<1>2. CASE Type \/ Format
  <2>1. OnEditorChanged /\ SetSql(text') /\ Edited /\ mounted
    BY <1>2 DEF Type, Format, Put
  <2>2. UNCHANGED <<active, front, opened, mounted, shown, focus, asked, fired, prefix, offered,
                    previews>>
    BY <1>2 DEF Type, Format
  <2> QED BY <1>0, <2>1, <2>2, EditKeeps, FieldKeeps DEF TypeOK
<1>3. CASE Tap
  <2>1. /\ OnEditorChanged /\ focus' = TRUE /\ text' = text /\ mounted
        /\ UNCHANGED <<active, front, opened, sql, mounted, shown, asked, fired, prefix, offered,
                       previews, meant, strayed>>
    BY <1>3 DEF Tap, appVars, history
  <2>2. TextsKept'
    BY <1>0, <2>1 DEF TextsKept
  <2> QED BY <1>0, <2>1, <2>2, FieldKeeps DEF TypeOK
<1>4. CASE ApplySuggestion
  <2>1. OnEditorChanged /\ SetSql(text') /\ Edited /\ offered' = FALSE /\ mounted
    BY <1>4 DEF ApplySuggestion, Put
  <2>2. UNCHANGED <<active, front, opened, mounted, shown, focus, asked, fired, prefix, previews>>
    BY <1>4 DEF ApplySuggestion
  <2> QED BY <1>0, <2>1, <2>2, EditKeeps, FieldKeeps DEF TypeOK
<1>5. CASE UseSql
  BY <1>0, <1>5, LoadKeeps DEF UseSql
<1>6. CASE Unfocus \/ AskPreview
  <2>1. UNCHANGED <<active, front, opened, sql, mounted, shown, text, base, extent, timer, asked,
                    fired, prefix, offered, meant, strayed>>
    BY <1>6 DEF Unfocus, AskPreview, appVars, fieldVars, history
  <2>2. focus' \in BOOLEAN /\ previews' \subseteq Tabs
    BY <1>0, <1>6 DEF Unfocus, AskPreview, TypeOK
  <2>3. TypeOK' /\ TextsKept'
    BY <1>0, <2>1, <2>2 DEF TypeOK, TextsKept
  <2> QED BY <2>1, <2>3, OtherKeeps DEF fieldVars
<1>7. CASE PreviewComes
  <2>1. PICK asker \in previews :
          /\ previews' = previews \ {asker}
          /\ \/ \E new \in Given : LoadSql(new, asker)
             \/ UNCHANGED <<appVars, mounted, shown, fieldVars, focus, timer, asked, fired,
                            prefix, offered, history>>
    BY <1>7 DEF PreviewComes
  <2>2. asker \in Tabs /\ previews' \subseteq Tabs
    BY <1>0, <2>1
  <2>3. CASE \E new \in Given : LoadSql(new, asker)
    BY <2>2, <2>3, LoadKeeps
  <2>4. CASE UNCHANGED <<appVars, mounted, shown, fieldVars, focus, timer, asked, fired,
                         prefix, offered, history>>
    <3>1. TypeOK' /\ TextsKept'
      BY <1>0, <2>2, <2>4 DEF TypeOK, TextsKept, appVars, fieldVars, history
    <3> QED BY <2>4, <3>1, OtherKeeps
  <2> QED BY <2>1, <2>3, <2>4
<1>8. CASE SelectTab
  <2>1. TypeOK' /\ TextsKept'
    BY <1>0, <1>8 DEF TypeOK, TextsKept, SelectTab, fieldVars, history
  <2> QED BY <1>8, <2>1, OtherKeeps DEF SelectTab
<1>9. CASE OpenTab
  <2>1. PICK new : /\ sql' = [sql EXCEPT ![opened + 1] = new]
                   /\ meant' = [meant EXCEPT ![opened + 1] = new]
    BY <1>9 DEF OpenTab
  <2>2. /\ opened' = opened + 1 /\ opened' \in Tabs /\ front' = opened'
        /\ UNCHANGED <<active, mounted, shown, text, base, extent, focus, timer, asked, fired,
                       prefix, offered, previews, strayed>>
    BY <1>0, <1>9 DEF OpenTab, fieldVars
  <2>3. TypeOK'
    BY <1>0, <2>1, <2>2 DEF TypeOK
  <2>4. TextsKept'
    BY <1>0, <2>1, <2>2 DEF TextsKept
  <2> QED BY <2>2, <2>3, <2>4, OtherKeeps DEF fieldVars
<1> QED BY <1>2, <1>3, <1>4, <1>5, <1>6, <1>7, <1>8, <1>9

LEMMA BuildKeeps ==
  ASSUME Correct, Build \/ Leave PROVE Correct'
<1>0. /\ TypeOK /\ IInv /\ TextsKept /\ UNCHANGED <<active, front, opened, sql, meant, strayed>>
      /\ DOMAIN sql = Tabs /\ DOMAIN meant = Tabs /\ strayed \subseteq Tabs
      /\ previews' \subseteq Tabs
  BY DEF Correct, IInv, TypeOK, Build, Leave, appVars, history
<1>1. CASE Dispose
  <2>1. TypeOK'
    BY <1>0, <1>1 DEF TypeOK, Dispose
  <2>2. Queue'
    BY <1>1 DEF Dispose, Queue
  <2>3. TextsKept'
    BY <1>0, <1>1 DEF TextsKept, Dispose
  <2> QED
    BY <1>1, <2>1, <2>2, <2>3
    DEF Dispose, Correct, IInv, SuggestionsSettle, YoungestIsCurrent
<1>2. CASE ~mounted /\ InitState
  <2>1. TypeOK'
    BY <1>0, <1>2 DEF TypeOK, InitState
  <2>2. fired' = "nothing"
    BY <1>0, <1>2 DEF IInv, InitState
  <2>3. TextsKept'
    BY <1>0, <1>2 DEF InitState, TextsKept
  <2>4. Queue'
    BY <1>2 DEF InitState, Correct, Queue
  <2> QED
    BY <2>1, <2>2, <2>3, <2>4 DEF Correct, IInv, SuggestionsSettle, YoungestIsCurrent
<1>3. CASE mounted /\ SyncTab /\ previews' = previews
  <2>1. /\ OnEditorChanged /\ offered' = FALSE /\ shown' = front /\ text' = sql[front]
        /\ UNCHANGED <<mounted, focus, asked, fired, prefix>>
    BY <1>3 DEF SyncTab, Put
  <2>2. TextsKept'
    BY <1>0, <2>1 DEF TextsKept
  <2> QED BY <1>0, <1>3, <2>1, <2>2, FieldKeeps DEF TypeOK
<1> QED BY <1>1, <1>2, <1>3 DEF Build, Leave

LEMMA FireKeeps ==
  ASSUME Correct, Fire PROVE Correct'
<1>0. /\ TypeOK /\ IInv /\ WordLength' = WordLength /\ mounted
      /\ UNCHANGED <<active, front, opened, sql, mounted, shown, text, base, extent, focus,
                     previews, meant, strayed>>
      /\ timer' = FALSE
  BY DEF Correct, IInv, Fire, appVars, fieldVars, history, WordLength, WordStart
<1>1. TextsKept'
  BY <1>0 DEF IInv, TextsKept
<1>2. CASE /\ asked' = Append(asked, WordLength)
           /\ fired' = "asked" /\ UNCHANGED <<prefix, offered>>
  <2>1. Queue' /\ asked' # <<>> /\ asked'[Len(asked')] = WordLength
    BY <1>2, Growing DEF Correct, Queue
  <2>2. TypeOK'
    BY <1>0, <1>2 DEF TypeOK
  <2>3. SuggestionsSettle' /\ YoungestIsCurrent'
    BY <1>0, <2>1 DEF SuggestionsSettle, YoungestIsCurrent
  <2> QED BY <1>0, <1>1, <2>1, <2>2, <2>3 DEF Correct, IInv
<1>3. CASE offered' = FALSE /\ fired' = "nothing" /\ asked' = asked
  <2>1. TypeOK'
    BY <1>0, <1>3 DEF TypeOK
  <2>2. SuggestionsSettle' /\ YoungestIsCurrent' /\ Queue'
    BY <1>3 DEF SuggestionsSettle, YoungestIsCurrent, Correct, Queue
  <2> QED BY <1>1, <1>3, <2>1, <2>2 DEF Correct, IInv
<1> QED BY <1>2, <1>3 DEF Fire

LEMMA AnswerKeeps ==
  ASSUME Correct, Answer PROVE Correct'
<1>0. /\ TypeOK /\ IInv /\ WordLength' = WordLength
      /\ UNCHANGED <<active, front, opened, sql, mounted, shown, text, focus, timer, fired,
                     previews, meant, strayed>>
      /\ asked # <<>> /\ asked' = Tail(asked) /\ offered' \in BOOLEAN
      /\ offered' => prefix' = Head(asked)
  BY DEF Correct, IInv, Answer, appVars, fieldVars, history, WordLength, WordStart
<1>1. TypeOK' /\ TextsKept'
  BY <1>0 DEF TypeOK, IInv, TextsKept
<1>2. /\ Queue'
      /\ asked' = <<>> => asked[Len(asked)] = Head(asked)
      /\ asked' # <<>> => asked'[Len(asked')] = asked[Len(asked)]
  BY <1>0, Shrinking DEF Correct, Queue
<1>3. SuggestionsSettle' /\ YoungestIsCurrent'
  BY <1>0, <1>2 DEF IInv, SuggestionsSettle, YoungestIsCurrent
<1> QED BY <1>0, <1>1, <1>2, <1>3 DEF Correct, IInv

LEMMA InitCorrect == Init => Correct
<1> SUFFICES ASSUME Init PROVE Correct
  OBVIOUS
<1>1. Queue
  <2>1. asked \in Seq({})
    BY DEF Init
  <2> QED BY <2>1 DEF Queue
<1>2. TypeOK
  <2>1. opened \in Tabs /\ front \in 1..opened /\ shown \in 1..opened
    BY DEF Init
  <2>2. DOMAIN sql = Tabs /\ DOMAIN meant = Tabs /\ strayed \subseteq Tabs /\ previews \subseteq Tabs
    BY DEF Init
  <2>3. /\ active \in BOOLEAN /\ mounted \in BOOLEAN /\ focus \in BOOLEAN
        /\ timer \in BOOLEAN /\ offered \in BOOLEAN /\ fired \in {"nothing", "asked"}
    BY DEF Init
  <2> QED BY <2>1, <2>2, <2>3 DEF TypeOK
<1>3. TextsKept
  BY <1>2 DEF Init, TextsKept, TypeOK
<1> QED
  BY <1>1, <1>2, <1>3
  DEF Init, Correct, IInv, SuggestionsSettle, YoungestIsCurrent

LEMMA StepCorrect == Correct /\ [Next]_vars => Correct'
<1> SUFFICES ASSUME Correct, [Next]_vars PROVE Correct'
  OBVIOUS
<1>0. TypeOK /\ TextsKept
  BY DEF Correct, IInv
<1>1. CASE ActiveChanges
  <2>1. TypeOK' /\ TextsKept'
    BY <1>0, <1>1 DEF TypeOK, TextsKept, ActiveChanges, fieldVars, history
  <2> QED BY <1>1, <2>1, OtherKeeps DEF ActiveChanges
<1>2. CASE UNCHANGED vars
  <2>1. TypeOK' /\ TextsKept'
    BY <1>0, <1>2 DEF TypeOK, TextsKept, vars, appVars, fieldVars, history
  <2> QED BY <1>2, <2>1, OtherKeeps DEF vars
<1> QED BY <1>1, <1>2, UserKeeps, BuildKeeps, FireKeeps, AnswerKeeps DEF Next

\* The inductive invariant of the editor.
THEOREM Inv == Spec => []IInv
<1>1. Correct => IInv
  BY DEF Correct
<1> QED BY <1>1, InitCorrect, StepCorrect, PTL DEF Spec

\* Every tab holds the text the user left in it and the editor shows that of its
\* tab, whatever tabs, connections and previews do (setSql, _syncTab, initState,
\* _openInEditor), but for the tabs a handler has missed: before the frame after
\* a change of tabs, or with a preview asked for in another tab.
THEOREM NothingTypedIsLost == Spec => []TextsKept
<1>1. IInv => TextsKept
  BY DEF IInv
<1> QED BY <1>1, Inv, PTL

\* An editor at rest offers completions of the word at its cursor
\* (_onEditorChanged).
THEOREM SuggestionsCatchUp == Spec => []SuggestionsSettle
<1>1. IInv => SuggestionsSettle
  BY DEF IInv
<1> QED BY <1>1, Inv, PTL
=============================================================================
