--------------------------- MODULE DebuggerWorkbench ---------------------------
(***************************************************************************)
(* GbpDebuggerWorkbenchAddin (gbp-debugger-workbench-addin.c): on load it  *)
(* registers the "debugger" run handler, adds the debugger perspective    *)
(* and puts two hidden button boxes (execution and stepping controls) in  *)
(* the header bar; the run handler shows the boxes and the perspective    *)
(* and connects to the runner's "exited", which hides them and shows the  *)
(* editor; on unload it removes the handler and the perspective.          *)
(*                                                                         *)
(* Assumed of libide, which is not part of this repository: the run      *)
(* manager runs one target at a time; unloading drops the last reference  *)
(* to the addin, so its g_signal_connect_object handlers are             *)
(* disconnected; removing the visible perspective shows the editor.       *)
(* Each load makes a new addin object, numbered 1, 2, ...                 *)
(***************************************************************************)
EXTENDS Naturals

CONSTANTS
    MaxLoads,           \* bound on the addin objects made
    UnloadWhileRunning  \* whether the plugin may be unloaded during a run

Gens == 1..MaxLoads
Perspectives == {"editor", "debugger", "other"}
Boxes == {"exec", "step"}
NoBox == "none"

VARIABLES
    loads,        \* addin objects made so far
    live,         \* the loaded addin, 0 if none
    handler,      \* the addin whose "debugger" run handler is registered, 0 if none
    box,          \* box[g][b]: control box b of addin g in the header bar
    perspectives, \* perspectives the workbench holds
    visible,      \* the visible perspective
    runner        \* the current run: state, and the addin watching "exited"

dbgVars == <<loads, live, handler, box, perspectives, visible, runner>>

Init ==
    /\ loads = 0
    /\ live = 0
    /\ handler = 0
    /\ box = [g \in Gens |-> [b \in Boxes |-> NoBox]]
    /\ perspectives = {"editor", "other"}
    /\ visible = "editor"
    /\ runner = [running |-> FALSE, watcher |-> 0]

\* gbp_debugger_workbench_addin_load.
Load ==
    /\ live = 0
    /\ loads < MaxLoads
    /\ LET g == loads + 1
       IN /\ loads' = g
          /\ live' = g
          /\ handler' = g
          /\ box' = [box EXCEPT ![g] = [b \in Boxes |-> "hidden"]]
    /\ perspectives' = perspectives \cup {"debugger"}
    /\ UNCHANGED <<visible, runner>>

\* gbp_debugger_workbench_addin_unload: the handler and the perspective go,
\* the boxes stay in the header bar as they are.
Unload ==
    /\ live # 0
    /\ UnloadWhileRunning \/ ~runner.running
    /\ handler' = 0
    /\ perspectives' = perspectives \ {"debugger"}
    /\ visible' = IF visible = "debugger" THEN "editor" ELSE visible
    /\ live' = 0
    /\ runner' = IF runner.watcher = live THEN [runner EXCEPT !.watcher = 0] ELSE runner
    /\ UNCHANGED <<loads, box>>

\* debugger_run_handler, run by the run manager for a run with the
\* "debugger" handler.
debugger_run_handler(g) ==
    /\ visible' = "debugger"
    /\ runner' = [running |-> TRUE, watcher |-> g]
    /\ box' = [box EXCEPT ![g] = [b \in Boxes |-> "shown"]]

RunDebugger ==
    /\ ~runner.running
    /\ handler # 0
    /\ debugger_run_handler(handler)
    /\ UNCHANGED <<loads, live, handler, perspectives>>

\* A run with the default handler: no debugger involvement.
RunPlain ==
    /\ ~runner.running
    /\ runner' = [running |-> TRUE, watcher |-> 0]
    /\ UNCHANGED <<loads, live, handler, box, perspectives, visible>>

\* A mutant of runner_exited: only the execution controls are hidden.
runner_exited_execonly(g) ==
    /\ box' = [box EXCEPT ![g]["exec"] = "hidden"]
    /\ visible' = "editor"

\* gbp_debugger_workbench_addin_runner_exited.
runner_exited(g) ==
    /\ box' = [box EXCEPT ![g] = [b \in Boxes |-> "hidden"]]
    /\ visible' = "editor"

\* The runner exits; "exited" reaches the addin still connected to it.
Exit ==
    /\ runner.running
    /\ runner' = [running |-> FALSE, watcher |-> 0]
    /\ IF runner.watcher # 0 THEN runner_exited(runner.watcher) ELSE UNCHANGED <<box, visible>>
    /\ UNCHANGED <<loads, live, handler, perspectives>>

\* The user shows another perspective.
ShowPerspective(p) ==
    /\ p \in perspectives
    /\ visible' = p
    /\ UNCHANGED <<loads, live, handler, box, perspectives, runner>>

Next ==
    \/ Load \/ Unload \/ RunDebugger \/ RunPlain \/ Exit
    \/ \E p \in Perspectives : ShowPerspective(p)

Spec == Init /\ [][Next]_dbgVars

\* The debugger's execution and stepping controls are shown only while a
\* run started with the debugger handler is in progress and watched by the
\* loaded addin that owns them (debugger_run_handler shows them,
\* runner_exited hides them).
ControlsOnlyWhileDebugging ==
    \A g \in Gens, b \in Boxes :
        box[g][b] = "shown" => runner.running /\ runner.watcher = g /\ live = g

=============================================================================
