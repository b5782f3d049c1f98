------------------------------- MODULE Editor --------------------------------
(***************************************************************************)
(* The SQL editor (app/lib/ui/editor_view.dart): the text field, the tab   *)
(* it shows, and the completions asked for a beat after typing stops.      *)
(* Between two handlers a frame may be due, the debounce may fire and an   *)
(* answer of the core may arrive.  Of the user's handlers several can come *)
(* before the frame: they act on what the last one drew.                   *)
(*                                                                         *)
(* A text is a sequence of letters of a name and blanks.  Which tabs are   *)
(* open, and in which order, is in module Workspace.                       *)
(***************************************************************************)
EXTENDS Integers, Sequences, SequencesExt

CONSTANTS
  Given,       \* the statements the rest of the app hands over
  NumTabs,     \* bound: how many tabs are ever created
  MaxLength,   \* bound: how long a text gets
  MaxAsked     \* bound: completions asked for and not answered

ASSUME EditorAssumption ==
  NumTabs \in Nat \ {0} /\ MaxLength \in Nat /\ MaxAsked \in Nat \ {0}

Tabs   == 1..NumTabs
Letter == "w"
Blank  == " "
Texts  == UNION {[1..n -> {Letter, Blank}] : n \in 0..MaxLength}
Name   == <<Letter, Letter>>   \* the text of a suggestion

ASSUME GivenAssumption == Given \subseteq Texts

VARIABLES
  active,    \* whether AppState has an open connection
  front,     \* AppState.tab
  opened,    \* how many tabs were created
  sql,       \* of each tab: EditorTab.sql
  mounted,   \* whether there is an editor
  shown,     \* _shownTabId
  text,      \* _controller.text
  base,      \* _controller.selection.baseOffset, -1 where it is not valid
  extent,    \* its other end
  focus,     \* _focus.hasFocus
  timer,     \* whether _completionDebounce is running
  asked,     \* the completions under way: how long the word is they complete
  fired,     \* what the debounce last did
  prefix,    \* the length of _completionPrefix
  offered,   \* whether _suggestions has any
  previews,  \* the tabs that were in front when a preview was asked that is to come
  meant,     \* history: of each tab, the text the user left in it
  strayed    \* history: the tabs whose text a handler has missed, or hit for another's

appVars   == <<active, front, opened, sql>>
fieldVars == <<text, base, extent>>
history   == <<meant, strayed>>
vars == <<appVars, mounted, shown, fieldVars, focus, timer, asked, fired, prefix, offered,
          previews, history>>

Init ==
  /\ active = FALSE /\ front = 1 /\ opened = 1 /\ sql = [t \in Tabs |-> <<>>]
  /\ mounted = FALSE /\ shown = 1
  /\ text = <<>> /\ base = -1 /\ extent = -1
  /\ focus = FALSE /\ timer = FALSE
  /\ asked = <<>> /\ fired = "nothing" /\ prefix = 0 /\ offered = FALSE
  /\ previews = {} /\ meant = [t \in Tabs |-> <<>>] /\ strayed = {}

-----------------------------------------------------------------------------
\* Where the word before a cursor begins (wordBefore of the core).
WordStart(t, cursor) ==
  CHOOSE k \in 0..cursor : /\ \A i \in (k + 1)..cursor : t[i] = Letter
                           /\ k > 0 => t[k] # Letter
WordLength == base - WordStart(text, base)

Splice(i, j, new) == SubSeq(text, 1, i) \o new \o SubSeq(text, j + 1, Len(text))

\* _tidy, of names and blanks.
Tidy(t) ==
  LET squeezed == FoldLeft(LAMBDA out, c :
                    IF c = Blank /\ (out = <<>> \/ Last(out) = Blank) THEN out
                    ELSE Append(out, c), <<>>, t)
  IN IF squeezed # <<>> /\ Last(squeezed) = Blank
       THEN SubSeq(squeezed, 1, Len(squeezed) - 1) ELSE squeezed

SetSql(new) == sql' = [sql EXCEPT ![front] = new]

\* Mistake: the text field's onChanged starts the debounce, not the listener: a
\* caret that moves fires none.
OnTextChanged == timer' = (timer \/ text' # text)

\* The controller's listener starts the debounce anew, if anything changed.
OnEditorChanged ==
  timer' = (timer \/ <<text', base', extent'>> # <<text, base, extent>>)

Put(new, at) == text' = new /\ base' = at /\ extent' = at /\ OnEditorChanged

\* What the user does to the text shown is for its tab.  setSql stores it in the
\* tab in front: another one, until the frame after a change of tabs.
Edited ==
  /\ meant' = [meant EXCEPT ![shown] = text']
  /\ strayed' = IF shown = front THEN strayed \ {shown} ELSE strayed \cup {shown, front}

-----------------------------------------------------------------------------
(* The user. *)

\* A key: what is selected, or the letter before the cursor for a backspace,
\* gives way to what was typed.
Type ==
  /\ mounted /\ focus /\ base >= 0
  /\ LET lo == IF base < extent THEN base ELSE extent
         hi == IF base < extent THEN extent ELSE base
     IN \/ \E c \in {Letter, Blank} :
             /\ Len(text) - (hi - lo) < MaxLength
             /\ Put(Splice(lo, hi, <<c>>), lo + 1)
        \/ lo < hi /\ Put(Splice(lo, hi, <<>>), lo)
        \/ lo = hi /\ lo > 0 /\ Put(Splice(lo - 1, hi, <<>>), lo - 1)
  /\ SetSql(text') /\ Edited
  /\ UNCHANGED <<active, front, opened, mounted, shown, focus, asked, fired, prefix, offered,
                 previews>>

\* Into the text: the caret is put there, or a range is selected.
Tap ==
  /\ mounted
  /\ base' \in 0..Len(text) /\ extent' \in 0..Len(text)
  /\ text' = text
  /\ OnEditorChanged
  /\ focus' = TRUE
  /\ UNCHANGED <<appVars, mounted, shown, asked, fired, prefix, offered, previews, history>>

\* Run, and another pane chosen in the drawer, take the focus away.
Unfocus ==
  /\ mounted /\ focus
  /\ focus' = FALSE
  /\ UNCHANGED <<appVars, mounted, shown, fieldVars, timer, asked, fired, prefix, offered,
                 previews, history>>

Format ==
  /\ mounted
  /\ Put(Tidy(text), -1)
  /\ SetSql(text') /\ Edited
  /\ UNCHANGED <<active, front, opened, mounted, shown, focus, asked, fired, prefix, offered,
                 previews>>

\* Mistake: the text field is left to report what it was set to.
ApplyUnsaved ==
  /\ mounted /\ offered /\ base >= 0 /\ base - prefix >= 0
  /\ Len(text) - prefix + Len(Name) <= MaxLength
  /\ Put(Splice(base - prefix, base, Name), base - prefix + Len(Name))
  /\ Edited
  /\ offered' = FALSE
  /\ UNCHANGED <<appVars, mounted, shown, focus, asked, fired, prefix, previews>>

ApplySuggestion ==
  /\ mounted /\ offered /\ base >= 0 /\ base - prefix >= 0
  /\ Len(text) - prefix + Len(Name) <= MaxLength
  /\ Put(Splice(base - prefix, base, Name), base - prefix + Len(Name))
  /\ SetSql(text') /\ Edited
  /\ offered' = FALSE
  /\ UNCHANGED <<active, front, opened, mounted, shown, focus, asked, fired, prefix, previews>>

\* _openInEditor: the text replaces the one in front, and the editor's if there
\* is one: the workspace has none while it switches the database.  The selection
\* is set after the text.  It was asked for when tab asker was in front.
LoadSql(new, asker) ==
  /\ SetSql(new)
  /\ IF mounted
       THEN text' = new /\ base' = Len(new) /\ extent' = Len(new) /\ timer' = TRUE
       ELSE UNCHANGED <<fieldVars, timer>>
  /\ meant' = IF asker = front THEN [meant EXCEPT ![front] = new] ELSE meant
  /\ strayed' = (IF asker = front THEN strayed \ {front} ELSE strayed \cup {front})
                \cup (IF mounted /\ shown # front THEN {shown} ELSE {})
  /\ UNCHANGED <<active, front, opened, mounted, shown, focus, asked, fired, prefix, offered>>

\* A statement of the history, or a column to filter by.
UseSql ==
  /\ mounted
  /\ \E new \in Given : LoadSql(new, front)
  /\ UNCHANGED previews

\* A table of the explorer is tapped: previewSql goes to the core.
AskPreview ==
  /\ mounted
  /\ previews' = previews \cup {front}
  /\ UNCHANGED <<appVars, mounted, shown, fieldVars, focus, timer, asked, fired, prefix,
                 offered, history>>

\* Its answer, or its failure.  The user may have gone on.
PreviewComes ==
  \E asker \in previews :
    /\ previews' = previews \ {asker}
    /\ \/ \E new \in Given : LoadSql(new, asker)
       \/ UNCHANGED <<appVars, mounted, shown, fieldVars, focus, timer, asked, fired, prefix,
                      offered, history>>

\* Another tab comes to the front, by choice or because its neighbour closed.
SelectTab ==
  /\ mounted
  /\ front' \in 1..opened
  /\ UNCHANGED <<active, opened, sql, mounted, shown, fieldVars, focus, timer, asked, fired,
                 prefix, offered, previews, history>>

\* openTab, empty or with what is to be edited.
OpenTab ==
  /\ mounted /\ opened < NumTabs
  /\ opened' = opened + 1 /\ front' = opened + 1
  /\ \E new \in Given \cup {<<>>} :
       sql' = [sql EXCEPT ![opened + 1] = new] /\ meant' = [meant EXCEPT ![opened + 1] = new]
  /\ UNCHANGED <<active, mounted, shown, fieldVars, focus, timer, asked, fired, prefix,
                 offered, previews, strayed>>

-----------------------------------------------------------------------------
(* The rest of the app. *)

\* _active comes and goes (Workspace).
ActiveChanges ==
  /\ active' = ~active
  /\ UNCHANGED <<front, opened, sql, mounted, shown, fieldVars, focus, timer, asked, fired,
                 prefix, offered, previews, history>>

\* dispose; what is still answered finds nobody.
Dispose ==
  /\ mounted' = FALSE /\ text' = <<>> /\ base' = -1 /\ extent' = -1
  /\ focus' = FALSE /\ timer' = FALSE
  /\ asked' = <<>> /\ fired' = "nothing" /\ prefix' = 0 /\ offered' = FALSE
  /\ UNCHANGED shown

InitState ==
  /\ mounted' = TRUE /\ shown' = front
  /\ text' = sql[front]
  /\ timer' = (sql[front] # <<>>)
  /\ UNCHANGED <<base, extent, focus, asked, fired, prefix, offered>>

SyncTab ==
  /\ shown' = front
  /\ Put(sql[front], Len(sql[front]))
  /\ offered' = FALSE
  /\ UNCHANGED <<mounted, focus, asked, fired, prefix>>

\* A frame: the workspace shows an editor while a connection is open, and the
\* editor swaps its text when the tab has changed.
Build ==
  /\ \/ mounted /\ ~active /\ Dispose
     \/ ~mounted /\ active /\ InitState
     \/ mounted /\ active /\ shown # front /\ SyncTab
  /\ UNCHANGED <<appVars, previews, history>>

\* Back to the connections, with this one still open: no PopScope keeps the user.
\* What was asked for finds no workspace.
Leave ==
  /\ mounted /\ Dispose
  /\ previews' = {}
  /\ UNCHANGED <<appVars, history>>

\* The debounce: complete answers by itself without a connection or a text.
Fire ==
  /\ mounted /\ timer
  /\ timer' = FALSE
  /\ IF base < 0 \/ base # extent \/ ~focus
       THEN offered' = FALSE /\ fired' = "nothing" /\ UNCHANGED <<asked, prefix>>
       ELSE IF ~active \/ Letter \notin Range(text)
         THEN /\ offered' = FALSE /\ prefix' = 0
              /\ fired' = "nothing" /\ UNCHANGED asked
         ELSE /\ Len(asked) < MaxAsked
              /\ asked' = Append(asked, WordLength)
              /\ fired' = "asked" /\ UNCHANGED <<prefix, offered>>
  /\ UNCHANGED <<appVars, mounted, shown, fieldVars, focus, previews, history>>

\* The core answers in the order of the calls (CoreClient), or fails.
Answer ==
  /\ asked # <<>>
  /\ asked' = Tail(asked)
  /\ \/ prefix' = Head(asked) /\ offered' \in BOOLEAN
     \/ prefix' = 0 /\ offered' = FALSE
  /\ UNCHANGED <<appVars, mounted, shown, fieldVars, focus, timer, fired, previews, history>>

Next ==
  \/ Type \/ Tap \/ Unfocus \/ Format \/ ApplySuggestion \/ UseSql \/ AskPreview
  \/ PreviewComes \/ SelectTab \/ OpenTab
  \/ ActiveChanges \/ Build \/ Leave \/ Fire \/ Answer

Spec == Init /\ [][Next]_vars

-----------------------------------------------------------------------------
(* Properties. *)

\* Every tab holds the text the user left in it, and the editor shows that of the
\* tab it is for: nothing typed, applied, loaded or tidied is lost or ends up in
\* another tab while tabs change, connections come and go and previews arrive
\* (setSql, _syncTab, initState, _openInEditor).  But for the tabs where a handler
\* ran between the change of the tab and its frame, which stores the one's text in
\* the other, or where a preview arrived that was asked for in another tab.
TextsKept ==
  \A t \in 1..opened : t \notin strayed =>
    sql[t] = meant[t] /\ (mounted /\ shown = t => text = meant[t])

\* TextsKept with no exception.  The code does not keep it: a key between the
\* change of the tab and its frame is stored in the new tab (app_state.dart:124),
\* and a preview replaces whatever is in front when it comes
\* (workspace_screen.dart:646, 659).
NothingStrays ==
  \A t \in 1..opened : sql[t] = meant[t] /\ (mounted /\ shown = t => text = meant[t])

\* When the editor has come to rest after asking, what it offers completes the
\* word at its cursor, whatever was asked and answered before.  (A debounce that
\* found nothing to ask may still be followed by an older answer.)
SuggestionsSettle ==
  mounted /\ ~timer /\ asked = <<>> /\ fired = "asked" /\ offered => prefix = WordLength

\* Of what is under way, the youngest is for the text as it stands.
YoungestIsCurrent ==
  mounted /\ ~timer /\ fired = "asked" /\ asked # <<>> => asked[Len(asked)] = WordLength

TypeOK ==
  /\ active \in BOOLEAN /\ mounted \in BOOLEAN /\ focus \in BOOLEAN
  /\ timer \in BOOLEAN /\ offered \in BOOLEAN
  /\ opened \in Tabs /\ front \in 1..opened /\ shown \in 1..opened
  /\ DOMAIN sql = Tabs
  /\ fired \in {"nothing", "asked"}
  /\ DOMAIN meant = Tabs /\ strayed \subseteq Tabs /\ previews \subseteq Tabs

\* The inductive invariant; an editor to come has asked for nothing.
IInv ==
  /\ TypeOK
  /\ TextsKept /\ SuggestionsSettle /\ YoungestIsCurrent
  /\ ~mounted => fired = "nothing"

\* editor_view.dart:218, a suggestion "replaces the partial word under the
\* cursor".
ReplacesPartialWord ==
  [][ApplySuggestion => text' = Splice(WordStart(text, base), base, Name)]_vars
=============================================================================
