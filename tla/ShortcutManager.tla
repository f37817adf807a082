--------------------------- MODULE ShortcutManager ---------------------------
(***************************************************************************)
(* IdeShortcutManager (ide-shortcut-manager.c): the process-wide theme and *)
(* the dispatch of a key press (ide_shortcut_manager_handle_event), on top *)
(* of the controllers and the toolkit of ShortcutController.              *)
(*                                                                         *)
(* handle_event runs synchronously, but each loop iteration changes state  *)
(* before it reads state: ide_shortcut_controller_find may create the      *)
(* controller of the ancestor (and the window's controller it registers    *)
(* with), get_context resolves contexts lazily, and an activated binding   *)
(* may switch a controller's context.  An iteration is therefore two steps *)
(* of ev, "find" and "dispatch"; no other step runs while ev is pending.   *)
(* outcome is the result of a dispatch that the last step completed.      *)
(***************************************************************************)
EXTENDS ShortcutController

CONSTANTS
    StyleKeyBindings,   \* [AllWidgets -> SUBSET Keys]: "-gtk-key-bindings" sets
    ClassKeyBindings,   \* [Types -> SUBSET Keys]: gtk_binding_set_by_class
    NoEvent

VARIABLES
    ev,         \* the key press being dispatched, or NoEvent
    outcome     \* the last dispatch's result

vars == <<treeVars, ctrlVars, ev, outcome>>

UseBindingSetsOf(ctx) == IF ctx = NoContext THEN TRUE ELSE UseBindingSets[ctx[1]][ctx[2]]

Outcome == [win : Windows \cup {NoWidget}, key : Keys \cup {NoEvent},
            handled : BOOLEAN, by : AllWidgets \cup {NoWidget},
            via : {"none", "swallow", "context", "command", "legacy"},
            ctx : ContextIds \cup {NoContext},
            eff : Seq(Effect \cup [kind : {"legacy"}, at : AllWidgets]),
            walked : SUBSET AllWidgets, legacy : SUBSET AllWidgets]

NoOutcome == [win |-> NoWidget, key |-> NoEvent, handled |-> FALSE, by |-> NoWidget,
              via |-> "none", ctx |-> NoContext, eff |-> <<>>, walked |-> {}, legacy |-> {}]

\* The event finishes: GDK_EVENT_STOP or GDK_EVENT_PROPAGATE.
Finish(handled, by, via, ctx, eff, legacyAt) ==
    /\ outcome' = [win |-> ev.win, key |-> ev.key, handled |-> handled, by |-> by,
                   via |-> via, ctx |-> ctx, eff |-> eff, walked |-> ev.walked \cup {ev.at},
                   legacy |-> legacyAt]
    /\ ev' = NoEvent

-----------------------------------------------------------------------------
\* A key press on window x reaches ide_shortcut_manager_handle_event; the
\* walk starts at the focus widget, and does not start at all without one.
KeyPress(x, k) ==
    /\ ev = NoEvent /\ alive[x] /\ visible[x]
    /\ IF focus[x] = NoWidget
       THEN /\ outcome' = [NoOutcome EXCEPT !.win = x, !.key = k]
            /\ UNCHANGED ev
       ELSE /\ ev' = [win |-> x, key |-> k, focus |-> focus[x], at |-> focus[x],
                      stage |-> "find", ubs |-> TRUE, walked |-> {}, legacy |-> {}]
            /\ outcome' = NoOutcome
    /\ UNCHANGED <<treeVars, ctrlVars>>

\* Loop head: ide_shortcut_controller_find (widget), then its context is
\* resolved and its "use-binding-sets" read before dispatching.
Find ==
    /\ ev # NoEvent /\ ev.stage = "find"
    /\ LET R   == controller_find(Reg, ev.at)
           ctx == get_context(ev.at)
       IN /\ SetReg(R)
          /\ context' = [context EXCEPT ![ev.at] = ctx]
          /\ theme' = IF context[ev.at] = NoContext THEN ActiveTheme ELSE theme
          /\ ev' = [ev EXCEPT !.stage = "dispatch", !.ubs = UseBindingSetsOf(ctx)]
    /\ UNCHANGED <<treeVars, command, outcome>>

\* Whether dispatch r resolved a context or switched one, which both go
\* through ide_shortcut_manager_get_theme.
UsesTheme(r) ==
    \/ \E v \in r.visited : context[v] = NoContext /\ alive[v]
    \/ \E i \in DOMAIN r.eff : r.eff[i].name = SetContextSignal

\* Loop body: ide_shortcut_controller_handle_event, then the style's key
\* binding sets of this widget, then, at the focus only, its class's.
Dispatch ==
    /\ ev # NoEvent /\ ev.stage = "dispatch"
    /\ LET w == ev.at
           r == controller_handle_event(w, ev.key)
           styleHit == ev.ubs /\ ev.key \in StyleKeyBindings[w]
           classHit == ev.ubs /\ w = ev.focus /\ ev.key \in ClassKeyBindings[WidgetType[w]]
           legacyAt == IF ev.ubs THEN ev.legacy \cup {w} ELSE ev.legacy
           legacyEff == <<[kind |-> "legacy", at |-> w]>>
       IN /\ context' = ApplyDispatch(r)
          /\ theme' = IF UsesTheme(r) THEN ActiveTheme ELSE theme
          /\ CASE r.handled -> Finish(TRUE, r.by, r.via, r.ctx, r.eff, ev.legacy)
               [] styleHit \/ classHit -> Finish(TRUE, w, "legacy", NoContext, legacyEff, legacyAt)
               [] parent[w] = NoWidget -> Finish(FALSE, NoWidget, "none", NoContext, <<>>, legacyAt)
               [] OTHER -> /\ ev' = [ev EXCEPT !.at = parent[w], !.stage = "find",
                                               !.walked = @ \cup {w}, !.legacy = legacyAt]
                           /\ UNCHANGED outcome
    /\ UNCHANGED <<treeVars, regVars, command>>

\* ide_shortcut_manager_set_theme (t) for a theme t of the application;
\* the implicit default theme is not one of them.
SetTheme(t) ==
    /\ ev = NoEvent /\ t # DefaultTheme /\ theme # t
    /\ theme' = t
    /\ outcome' = NoOutcome
    /\ UNCHANGED <<treeVars, regVars, context, command, ev>>

-----------------------------------------------------------------------------
Init ==
    /\ TreeInit /\ CtrlInit
    /\ ev = NoEvent
    /\ outcome = NoOutcome

\* Steps of the application and the toolkit run between key presses.
Quiet == ev = NoEvent /\ outcome' = NoOutcome /\ ev' = ev

Next ==
    \/ \E w \in Widgets, b \in BOOLEAN : SetVisible(w, b) /\ UNCHANGED ctrlVars /\ Quiet
    \/ \E w \in Widgets, b \in BOOLEAN : SetSensitive(w, b) /\ UNCHANGED ctrlVars /\ Quiet
    \/ \E x \in Windows, w \in Widgets : GrabFocus(x, w) /\ UNCHANGED ctrlVars /\ Quiet
    \/ \E w \in Widgets, p \in AllWidgets : ContainerAdd(w, p) /\ Quiet
    \/ \E w \in Widgets : ContainerRemove(w) /\ Quiet
    \/ \E w \in Widgets : Destroy(w) /\ Quiet
    \/ \E w \in AllWidgets : ControllerFind(w) /\ Quiet
    \/ \E c \in AllWidgets : SetContext(c) /\ Quiet
    \/ \E c \in AllWidgets, n \in ModeNames : SetContextNamed(c, n) /\ Quiet
    \/ \E c \in AllWidgets, k \in Keys, s \in WidgetSignals : AddCommandSignal(c, k, s) /\ Quiet
    \/ \E t \in Themes : SetTheme(t)
    \/ \E x \in Windows, k \in Keys : KeyPress(x, k)
    \/ Find
    \/ Dispatch

Spec == Init /\ [][Next]_vars

-----------------------------------------------------------------------------
TypeOK ==
    /\ TreeTypeOK /\ CtrlTypeOK
    /\ ev = NoEvent \/ ev.at \in AllWidgets
    /\ outcome \in Outcome


-----------------------------------------------------------------------------
(* Properties of dispatch                                                 *)

\* A key press on window x is handled or swallowed only by the controller
\* of a live widget inside x (spec.md section 5: element destruction
\* detaches the controller, so no dispatch targets a destroyed element;
\* section 3: descendants are only controllers under the same toplevel).
EventsStayInWindow ==
    outcome.via \in {"swallow", "context", "command"}
        => alive[outcome.by] /\ Toplevel(outcome.by) = outcome.win

\* A binding fires only in the controller of a mapped widget: spec.md
\* section 4.2 step 1 has an unmapped, invisible or insensitive element
\* swallow the event without inspecting its contexts (and section 5 names
\* this the only early exit), while ide_shortcut_controller_handle_event
\* (controller.c 560-563) tests the widget's own visible flag and its
\* sensitivity, so a registered descendant under a hidden container still
\* activates its bindings.
SwallowUnmapped ==
    outcome.via \in {"context", "command"} => Mapped(outcome.by)

\* A toolkit class binding for the key, at a widget the walk reached with
\* legacy bindings allowed, answers the key press there: spec.md section
\* 4.4 step 4 tries the class-level binding table at every visited
\* ancestor (and the instance-level one only at the focus), while
\* ide_shortcut_manager_handle_event (manager.c 307-315) activates
\* gtk_binding_set_by_class only when the widget is the focus.
ClassBindingsAtAncestors ==
    \A w \in outcome.legacy :
        outcome.key \in ClassKeyBindings[WidgetType[w]]
            => outcome.via = "legacy" /\ outcome.by = w

\* Between key presses, every context a controller has resolved belongs
\* to the manager's active theme: the comment in
\* ide_shortcut_manager_set_theme (manager.c 203-207) says controllers
\* watch notify::theme and reset, so that dispatch does not go on in a
\* previous theme's contexts (get_context caches the context it resolves).
ContextsFollowTheme ==
    ev = NoEvent =>
        \A c \in ctrl : context[c] # NoContext => context[c][1] = ActiveTheme

=============================================================================
