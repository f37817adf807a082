--------------------------- MODULE ShortcutActivate ---------------------------
(***************************************************************************)
(* What happens when a binding chain of an IdeShortcutContext is           *)
(* activated on a widget (ide-shortcut-context.c, shortcut_activate and    *)
(* the helpers it calls).  Every binding of the chain runs, in order, and  *)
(* the results are OR-ed.  An action binding looks for an action group     *)
(* by walking up from the widget (following a popover's relative-to        *)
(* widget instead of its parent) and falls back to the window for "win"    *)
(* and to the application for "app"; the first group found is used even   *)
(* when it lacks the action.  A signal binding is emitted on the widget's  *)
(* controller if the controller has that signal, otherwise on the first    *)
(* ancestor whose type declares it; a missing target or a parameter        *)
(* mismatch still reports the event handled.                               *)
(* The result of an activation is a record: ok (the OR-ed result) and eff, *)
(* the sequence of effects the chain produced (actions activated, signals  *)
(* emitted).                                                               *)
(***************************************************************************)
EXTENDS GtkTree

CONSTANTS
    Types,          \* widget classes (G_OBJECT_TYPE)
    WidgetType,     \* [AllWidgets -> Types]
    ActionPrefixes,       \* action-group prefixes
    WinPrefix,      \* "win"
    AppPrefix,      \* "app"
    ActionNames,
    ActionGroup,    \* [AllWidgets -> [ActionPrefixes -> SUBSET ActionNames \cup {NoGroup}]]
    NoGroup,        \* gtk_widget_get_action_group returned NULL
    WinActions,     \* actions of the GtkApplicationWindow
    AppActions,     \* actions of the GApplication
    App,            \* the GApplication, as the owner of an activated action
    Popovers,       \* widgets that are GtkPopovers
    RelativeTo,     \* [AllWidgets -> AllWidgets \cup {NoWidget}]
    WidgetSignals,  \* signals declared by widget classes
    SignalsOf,      \* [Types -> SUBSET WidgetSignals]
    ContextNames,   \* names of contexts in a theme
    NoArg

\* The two action signals an IdeShortcutController declares itself
\* (ide_shortcut_controller_class_init).
ResetSignal == "reset"
SetContextSignal == "set-context"
ControllerSignals == {ResetSignal, SetContextSignal}

\* Number of parameters a signal declares (GSignalQuery.n_params).
Arity(s) == IF s = SetContextSignal THEN 1 ELSE 0

ActionBinding == [kind : {"action"}, prefix : ActionPrefixes, name : ActionNames]
SignalBinding == [kind : {"signal"}, name : WidgetSignals \cup ControllerSignals,
                  nargs : 0..1, arg : ContextNames \cup {NoArg}]
Binding == ActionBinding \cup SignalBinding

Effect == [kind : {"action"}, at : AllWidgets \cup {App}, name : ActionNames]
          \cup [kind : {"signal"}, at : AllWidgets,
                name : WidgetSignals \cup ControllerSignals,
                arg : ContextNames \cup {NoArg}]

-----------------------------------------------------------------------------
\* The next widget widget_action visits: a popover's relative-to widget,
\* otherwise the parent.
NextForAction(w) ==
    IF w \in Popovers /\ RelativeTo[w] # NoWidget THEN RelativeTo[w] ELSE parent[w]

RECURSIVE GroupOwner(_, _)
\* The first widget, walking up from w, that has an action group for p.
GroupOwner(w, p) ==
    IF w = NoWidget THEN NoWidget
    ELSE IF ActionGroup[w][p] # NoGroup THEN w
    ELSE GroupOwner(NextForAction(w), p)

\* widget_action: resolve and activate prefix.name from widget w.
widget_action(w, p, a) ==
    LET owner == GroupOwner(w, p)
        top   == Toplevel(w)
        at    == IF owner # NoWidget THEN owner
                 ELSE IF p = WinPrefix /\ top \in Windows THEN top
                 ELSE IF p = AppPrefix THEN App
                 ELSE NoWidget
        group == IF owner # NoWidget THEN ActionGroup[owner][p]
                 ELSE IF at = top THEN WinActions
                 ELSE IF at = App THEN AppActions
                 ELSE NoGroup
    IN IF group # NoGroup /\ a \in group
       THEN [ok |-> TRUE, eff |-> <<[kind |-> "action", at |-> at, name |-> a]>>]
       ELSE [ok |-> FALSE, eff |-> <<>>]

RECURSIVE SignalWidget(_, _)
\* The first widget, walking up through parents, whose class declares s.
SignalWidget(w, s) ==
    IF w = NoWidget THEN NoWidget
    ELSE IF s \in SignalsOf[WidgetType[w]] THEN w
    ELSE SignalWidget(parent[w], s)

\* find_instance_and_signal: the controller of w first (it always exists
\* when a context is activated for w), then the widget ancestry.
find_instance_and_signal(w, s) ==
    IF s \in ControllerSignals THEN w ELSE SignalWidget(w, s)

\* shortcut_signal_activate: always reports the event handled.
shortcut_signal_activate(b, w) ==
    LET target == find_instance_and_signal(w, b.name)
    IN IF target = NoWidget \/ b.nargs # Arity(b.name)
       THEN [ok |-> TRUE, eff |-> <<>>]
       ELSE [ok |-> TRUE,
             eff |-> <<[kind |-> "signal", at |-> target, name |-> b.name, arg |-> b.arg]>>]

binding_activate(b, w) ==
    IF b.kind = "action" THEN widget_action(w, b.prefix, b.name)
    ELSE shortcut_signal_activate(b, w)

\* shortcut_activate: every binding of the chain runs; results are OR-ed.
shortcut_activate(chain, w) ==
    FoldLeft(LAMBDA r, b : LET x == binding_activate(b, w)
                           IN [ok |-> r.ok \/ x.ok, eff |-> r.eff \o x.eff],
             [ok |-> FALSE, eff |-> <<>>], chain)

=============================================================================
