------------------------------- MODULE MCEditor -------------------------------
(***************************************************************************)
(* A small instance of Editor for TLC.                                     *)
(***************************************************************************)
EXTENDS Editor

MCGiven == {<<Letter>>}

\* What no step and no property looks at before it is set again: what was left in
\* a tab that a handler has missed, what the debounce last did once it runs again,
\* and the prefix when nothing is offered.
MCView ==
  <<appVars, mounted, shown, fieldVars, focus, timer, asked, offered, previews, strayed,
    [t \in Tabs \ strayed |-> meant[t]],
    IF timer THEN "running" ELSE fired,
    IF offered THEN prefix ELSE 0>>
=============================================================================
