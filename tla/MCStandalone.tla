---------------------------- MODULE MCStandalone ----------------------------
(***************************************************************************)
(* The parts checked on their own, in one model: the shortcut context and *)
(* theme list of MCShortcutParts, and the flatpak and debugger plugins of  *)
(* MCPlugins.  They share no state; side, chosen once, says which of the   *)
(* two harnesses a behaviour runs, and the other stays in its initial      *)
(* state, so the state space is the sum of theirs.                         *)
(***************************************************************************)
EXTENDS MCPlugins, MCShortcutParts

VARIABLE side

standaloneVars == <<side, partVars, pluginVars>>

\* The harness that does not run rests in one of its initial states.
StandaloneInit ==
    /\ side \in {"shortcut", "plugins"}
    /\ PartsInit /\ PluginsInit
    /\ side = "shortcut" => plugin = "debugger"
    /\ side = "plugins" => part = "context"

StandaloneNext ==
    \/ side = "shortcut" /\ PartsNext /\ UNCHANGED <<side, pluginVars>>
    \/ side = "plugins" /\ PluginsNext /\ UNCHANGED <<side, partVars>>

StandaloneSpec == StandaloneInit /\ [][StandaloneNext]_standaloneVars

=============================================================================
