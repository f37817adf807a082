------------------------------ MODULE MCDebugger ------------------------------
(***************************************************************************)
(* The debugger plugin's two addins side by side: the workbench addin     *)
(* (run handler, controls, perspective) and the editor-view addin         *)
(* (gutter renderers and their breakpoint caches).  They share no state:  *)
(* each step is a step of one of them.  Two source views, a C file's and  *)
(* a Python file's language, one line and two break types.                *)
(***************************************************************************)
EXTENDS DebuggerWorkbench, DebuggerEditorView

DebuggerInit == Init /\ EvInit
DebuggerNext ==
    \/ Next /\ UNCHANGED evVars
    \/ EvNext /\ UNCHANGED dbgVars
DebuggerSpec == DebuggerInit /\ [][DebuggerNext]_<<dbgVars, evVars>>
=============================================================================
