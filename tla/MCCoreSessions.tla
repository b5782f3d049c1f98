--------------------------- MODULE MCCoreSessions ---------------------------
(***************************************************************************)
(* Small instances of CoreSessions for TLC: the calls each run offers.     *)
(* They can all arrive before any of them takes its first step, so that    *)
(* the order of the list restricts nothing but the ids a call can name.    *)
(***************************************************************************)
EXTENDS CoreSessions

Text(stmts, args) == [stmts |-> stmts, args |-> args]
OneRead  == Text(<<"read">>, FALSE)
TwoReads == Text(<<"read", "read">>, FALSE)

Opens(kinds, readOnly) == [kind : kinds, readOnly : readOnly]
Closes      == [kind : {"closeConnection"}, id : Ids \cup {None}]
CloseAlls   == [kind : {"closeAll"}]
Cancels     == [kind : {"cancel"}, id : {None, 1}, op : OpIds]
Catalogs    == [kind : {"catalog"}, id : {None, 1}]
Executes(ops, texts, stop) ==
  [kind : {"execute"}, id : {None, 1}, op : ops, text : texts, stopOnError : stop]

\* Sessions come and go: everything that touches Manager.sessions.
Probes   == Opens(ProbeKinds, {FALSE})
OpenOne  == Opens({"openConnection"}, {FALSE})
Lifecycle == <<OpenOne \cup Probes, OpenOne \cup Closes \cup CloseAlls,
               OpenOne \cup Probes \cup Closes \cup Catalogs, Closes \cup CloseAlls>>

\* One execution of every shape, on either kind of session, beside another that
\* may share its operation id, with a cancel or a close.
Ops == OpIds \cup {NoOp}
Shapes == {Text(<<>>, FALSE), Text(<<"read", "read">>, TRUE),
           Text(<<"write">>, TRUE), Text(<<"read", "write">>, FALSE), TwoReads}
Executing == <<Opens({"openConnection"}, BOOLEAN),
               Executes(Ops, Shapes, BOOLEAN),
               Executes(Ops, {OneRead}, {TRUE}) \cup Cancels, Closes \cup Cancels>>

\* Work that waits for a connection of the pool beside work that holds one.
Pool == <<OpenOne, Executes(OpIds, {TwoReads}, {FALSE}),
          Executes(OpIds, {OneRead}, {TRUE}) \cup Catalogs, Cancels>>

\* A close, at its least.
Closing1 == <<OpenOne, Executes(OpIds, {OneRead}, {TRUE}), Closes>>
=============================================================================
