----------------------------- MODULE Workbench ------------------------------
(***************************************************************************)
(* The algorithms of the core that keep no state of their own, each worked *)
(* on by the actions that bring it its input: a script typed, a result set *)
(* read, a connection filled in.  A behaviour is about one of the three.   *)
(***************************************************************************)
EXTENDS Scripts, Results, Configuration

VARIABLE subject

vars == <<subject, scriptVars, resultVars, formVars>>

Init ==
  /\ subject \in {"script", "result", "form"}
  /\ IF subject = "script" THEN ScriptInit
     ELSE engine = "sqlite" /\ text = <<>> /\ strokes = 0 /\ reader = Blank
  /\ IF subject = "result" THEN ResultInit
     ELSE /\ options = 0 /\ heading = <<>> /\ pulled = <<>> /\ columns = <<>>
          /\ rows = <<>> /\ truncated = FALSE /\ reading = "read"
  /\ IF subject = "form" THEN FormInit ELSE form = NewForm /\ portTyped = FALSE

Next ==
  \/ subject = "script" /\ ScriptNext /\ UNCHANGED <<subject, resultVars, formVars>>
  \/ subject = "result" /\ ResultNext /\ UNCHANGED <<subject, scriptVars, formVars>>
  \/ subject = "form" /\ FormNext /\ UNCHANGED <<subject, scriptVars, resultVars>>

Spec == Init /\ [][Next]_vars

-----------------------------------------------------------------------------
\* What is inductive: a script, a result set and a form are as their modules
\* say, also where a behaviour is not about them.
ScriptTypeOK ==
  /\ text \in Seq(ToSet(text))
  /\ subject = "script" => engine \in DOMAIN Phrases

IInv == ScriptTypeOK /\ ResultInv /\ FormTypeOK
=============================================================================
