-------------------------- MODULE DebuggerEditorView --------------------------
(***************************************************************************)
(* GbpDebuggerEditorViewAddin (gbp-debugger-editor-view-addin.c) and the  *)
(* per-file breakpoint cache it creates (gbp-debugger-breakpoints.c).     *)
(* For every source view the editor view loads, the addin makes a        *)
(* GbpDebuggerBreakpoints for the view's file and a gutter renderer       *)
(* holding it, keeps the renderer in its "renderers" array and inserts   *)
(* it in the view's left gutter; unloading a view removes the renderers  *)
(* whose view it is; a language change shows them all for C and C++     *)
(* and hides them otherwise.  The cache maps a line to the bits of its   *)
(* break types (GbpDebuggerBreakType).                                   *)
(*                                                                         *)
(* The cache also connects to the service's "breakpoint-added" and       *)
(* "breakpoint-removed", but gbp-debugger-service.c never declares those *)
(* signals: the connections fail and on_breakpoint_added/_removed never *)
(* run, so only the local add and remove change a cache.  Renderers are  *)
(* numbered in creation order; the gutter renderer that calls add and   *)
(* remove is not in this repository, so any renderer's cache may get    *)
(* any call the header allows.                                          *)
(***************************************************************************)
EXTENDS Naturals, FiniteSets, Sequences, SequencesExt

CONSTANTS
    Views,          \* source views of the editor view
    NoView,         \* what gtk_source_gutter_renderer_get_view gives when removed
    Langs,          \* language ids, NoLang among them
    NoLang,         \* a buffer without a language
    Lines,          \* line numbers (> 0)
    BreakTypes,     \* the non-NONE GbpDebuggerBreakType values
    MaxRenderers    \* bound on the renderers made

\* supported_languages, filled in class_init (lines 150-154).
SupportedLanguages == {"c", "chdr", "cpp", "cpphdr"}

Renderers == 1..MaxRenderers

VARIABLES
    loaded,     \* views load_source_view was called for, not yet unloaded
    rendererMade, \* renderers made so far
    renderers,  \* self->renderers, in order
    rview,      \* rview[r]: the view renderer r is inserted in, or NoView
    gutter,     \* gutter[v]: the renderers in view v's left gutter
    shown,      \* shown[r]: the renderer's "visible"
    cache       \* cache[r][l]: break-type bits of line l in r's breakpoints, 0 if none

evVars == <<loaded, rendererMade, renderers, rview, gutter, shown, cache>>

EvInit ==
    /\ loaded = {}
    /\ rendererMade = 0
    /\ renderers = <<>>
    /\ rview = [r \in Renderers |-> NoView]
    /\ gutter = [v \in Views |-> {}]
    /\ shown = [r \in Renderers |-> FALSE]
    /\ cache = [r \in Renderers |-> [l \in Lines |-> 0]]

\* gbp_debugger_editor_view_addin_load_source_view: a new breakpoints
\* object with an empty cache (gbp_debugger_breakpoints_init) and a new
\* visible renderer, appended to the array and inserted in the gutter.
LoadSourceView(v) ==
    /\ v \notin loaded
    /\ rendererMade < MaxRenderers
    /\ LET r == rendererMade + 1
       IN /\ rendererMade' = r
          /\ renderers' = Append(renderers, r)
          /\ rview' = [rview EXCEPT ![r] = v]
          /\ gutter' = [gutter EXCEPT ![v] = @ \cup {r}]
          /\ shown' = [shown EXCEPT ![r] = TRUE]
    /\ loaded' = loaded \cup {v}
    /\ UNCHANGED cache

\* A mutant of unload_source_view: the renderers leave the gutter but stay
\* in the array.
unload_keep_array(v) ==
    /\ gutter' = [gutter EXCEPT ![v] = @ \ {r \in Range(renderers) : rview[r] = v}]
    /\ rview' = [r \in Renderers |-> IF r \in Range(renderers) /\ rview[r] = v
                                     THEN NoView ELSE rview[r]]
    /\ UNCHANGED renderers

\* Lines 89-98: walk the array from the end, and remove from the gutter
\* and the array every renderer whose view is v.
unload_source_view(v) ==
    LET mine == {r \in Range(renderers) : rview[r] = v}
    IN /\ gutter' = [gutter EXCEPT ![v] = @ \ mine]
       /\ rview' = [r \in Renderers |-> IF r \in mine THEN NoView ELSE rview[r]]
       /\ renderers' = SelectSeq(renderers, LAMBDA r : r \notin mine)

\* gbp_debugger_editor_view_addin_unload_source_view.
UnloadSourceView(v) ==
    /\ v \in loaded
    /\ unload_source_view(v)
    /\ loaded' = loaded \ {v}
    /\ UNCHANGED <<rendererMade, shown, cache>>

\* gbp_debugger_editor_view_addin_language_changed: every renderer of the
\* array is shown exactly when the language is a supported one.
LanguageChanged(lang) ==
    /\ shown' = [r \in Renderers |-> IF r \in Range(renderers)
                                     THEN lang \in SupportedLanguages
                                     ELSE shown[r]]
    /\ UNCHANGED <<loaded, rendererMade, renderers, rview, gutter, cache>>

\* gbp_debugger_breakpoints_add: the line's entry becomes break_type,
\* replacing the bits it had (g_hash_table_insert).
BreakpointsAdd(r, l, t) ==
    /\ cache' = [cache EXCEPT ![r][l] = t]
    /\ UNCHANGED <<loaded, rendererMade, renderers, rview, gutter, shown>>

\* gbp_debugger_breakpoints_remove: the line's entry goes.
BreakpointsRemove(r, l) ==
    /\ cache' = [cache EXCEPT ![r][l] = 0]
    /\ UNCHANGED <<loaded, rendererMade, renderers, rview, gutter, shown>>

EvNext ==
    \/ \E v \in Views : LoadSourceView(v) \/ UnloadSourceView(v)
    \/ \E lang \in Langs : LanguageChanged(lang)
    \/ \E r \in Range(renderers), l \in Lines, t \in BreakTypes : BreakpointsAdd(r, l, t)
    \/ \E r \in Range(renderers), l \in Lines : BreakpointsRemove(r, l)

-----------------------------------------------------------------------------

\* The addin's renderer array and the gutters agree through any sequence
\* of source views loaded and unloaded: every loaded view's gutter holds
\* exactly one renderer of the array, inserted in that view, an unloaded
\* view's gutter none, and the array holds no renderer that has left its
\* gutter (load_source_view and the backwards removal loop of
\* unload_source_view).
RenderersFollowViews ==
    /\ \A v \in Views :
          /\ gutter[v] = {r \in Range(renderers) : rview[r] = v}
          /\ Cardinality(gutter[v]) = IF v \in loaded THEN 1 ELSE 0
    /\ \A r \in Range(renderers) : rview[r] \in loaded

=============================================================================
