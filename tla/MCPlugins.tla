------------------------------ MODULE MCPlugins ------------------------------
(***************************************************************************)
(* The flatpak and debugger plugins in one model.  They share no state:  *)
(* a behaviour is either one of MCFlatpak's manifests, checked where it  *)
(* starts, with the debugger addins at rest, or a behaviour of           *)
(* MCDebugger's addins with the flatpak inputs fixed to an unparsable    *)
(* file and no modules.  plugin, chosen once, says which, so the state   *)
(* space is the sum of the two plugins' spaces.                          *)
(***************************************************************************)
EXTENDS MCFlatpak

CONSTANTS
    MaxLoads, UnloadWhileRunning,
    Views, NoView, Langs, NoLang, Lines, BreakTypes, MaxRenderers

VARIABLES
    loads, live, handler, box, perspectives, visible, runner,
    loaded, rendererMade, renderers, rview, gutter, shown, cache,
    plugin

D == INSTANCE MCDebugger

debuggerVars == <<loads, live, handler, box, perspectives, visible, runner,
                  loaded, rendererMade, renderers, rview, gutter, shown, cache>>
pluginVars == <<plugin, allVars, debuggerVars>>

\* The flatpak inputs while the debugger runs: a file that is no manifest.
FlatpakAtRest ==
    /\ manifest = Unparsable /\ uninit = NullPtr /\ readOk = TRUE
    /\ current = "other" /\ modules = <<>>

PluginsInit ==
    /\ plugin \in {"flatpak", "debugger"}
    /\ IF plugin = "flatpak" THEN LoaderInit \/ GuessInit ELSE FlatpakAtRest
    /\ D!DebuggerInit

PluginsNext ==
    \/ plugin = "flatpak" /\ UNCHANGED pluginVars
    \/ plugin = "debugger" /\ D!DebuggerNext /\ UNCHANGED <<plugin, allVars>>

PluginsSpec == PluginsInit /\ [][PluginsNext]_pluginVars

ControlsOnlyWhileDebugging == D!ControlsOnlyWhileDebugging
RenderersFollowViews == D!RenderersFollowViews

=============================================================================
