-------------------------- MODULE ShortcutController --------------------------
(***************************************************************************)
(* IdeShortcutController (ide-shortcut-controller.c).  One controller per  *)
(* widget, kept in the widget's qdata.  Each controller registers with the *)
(* controller of its widget's toplevel (its "root") on every               *)
(* "hierarchy-changed", so that the root can offer a key event to every    *)
(* controller in the window.  The root's descendants queue uses the        *)
(* controller's inline list link, so a controller can sit in one queue at  *)
(* most.  Controllers are identified here by their widget.                 *)
(*                                                                         *)
(* The registry (ctrl, root, desc, refs) is updated by operators over a    *)
(* record R = [ctrl, root, desc, refs] so that one toolkit step can thread *)
(* it through every controller the step reaches, in the toolkit's order.   *)
(* refs counts the GObject references held on each controller.            *)
(***************************************************************************)
EXTENDS ShortcutActivate

CONSTANTS
    Keys,           \* normalized accelerators (see ShortcutContext)
    Themes,         \* IdeShortcutTheme instances
    DefaultTheme,   \* the theme ide_shortcut_manager_get_theme creates
    NoTheme,
    DefaultName,    \* [Types -> ContextNames]: "theme::Type::default"
    ThemeKeymap,    \* [Themes -> [ContextNames -> [Keys -> Seq(Binding)]]]
    UseBindingSets, \* [Themes -> [ContextNames -> BOOLEAN]]
    NoContext,
    ModeNames,      \* names the application passes to "set-context"
    MaxRefs,        \* bound on the reference count of a controller
    MaxChain        \* bound on the length of a command chain

ASSUME DefaultTheme \in Themes /\ NoTheme \notin Themes

VARIABLES
    ctrl,       \* widgets that have a controller (controller_quark qdata)
    root,       \* priv->root, by controller
    desc,       \* priv->descendants, by controller
    refs,       \* GObject reference count, by controller
    context,    \* priv->context, by controller
    command,    \* the command context's keymap, by controller
    theme       \* the IdeShortcutManager singleton's priv->theme

regVars == <<ctrl, root, desc, refs>>
ctrlVars == <<ctrl, root, desc, refs, context, command, theme>>

\* priv->command_context != NULL: it is created by the first
\* add_command_signal, which adds a binding to it at once.
hasCommand == [c \in AllWidgets |-> \E k \in Keys : command[c][k] # <<>>]

\* A context is identified by its theme and its name, since a theme
\* interns its contexts by name (ide_shortcut_theme_find_context_by_name).
ContextIds == Themes \X ContextNames

ChainOf(ctx, k) == ThemeKeymap[ctx[1]][ctx[2]][k]

Reg == [ctrl |-> ctrl, root |-> root, desc |-> desc, refs |-> refs]
SetReg(R) == /\ ctrl' = R.ctrl /\ root' = R.root
             /\ desc' = R.desc /\ refs' = R.refs

-----------------------------------------------------------------------------
(* Registry operations                                                    *)

\* ide_shortcut_controller_add: takes a reference on the descendant and
\* pushes it to the head if its widget is mapped, to the tail otherwise.
controller_add(R, r, v, mapped) ==
    [R EXCEPT !.desc[r] = IF mapped THEN Cons(v, @) ELSE Append(@, v),
              !.refs[v] = @ + 1]

\* ide_shortcut_controller_remove: unlinks, and releases nothing.
controller_remove(R, r, v) == [R EXCEPT !.desc[r] = Remove(@, v)]

\* Fault variant of leave_root: priv->root is cleared but the link stays
\* in the old root's queue.
leave_root_keeplink(R, v) ==
    LET old == R.root[v]
    IN IF old = NoWidget THEN R
       ELSE [R EXCEPT !.refs[old] = @ - 1, !.root[v] = NoWidget]

\* Fault variant of leave_root: the reference priv->root holds is dropped
\* twice (an unref before g_clear_object).
leave_root_dblunref(R, v) ==
    LET old == R.root[v]
    IN IF old = NoWidget THEN R
       ELSE [controller_remove(R, old, v) EXCEPT !.refs[old] = @ - 2,
                                                 !.root[v] = NoWidget]

\* The first half of hierarchy_changed: controller v leaves its old root,
\* dropping the reference held in priv->root.
leave_root(R, v) ==
    LET old == R.root[v]
    IN IF old = NoWidget THEN R
       ELSE [controller_remove(R, old, v) EXCEPT !.refs[old] = @ - 1,
                                                 !.root[v] = NoWidget]

\* Fault variant of controller_new: the constructor does not run
\* hierarchy_changed, so a new controller registers only on the next
\* change of its widget's anchoring.
controller_new_noconnect(R, w, par) ==
    IF w \in R.ctrl THEN [R EXCEPT !.refs[w] = @ + 1]
    ELSE [R EXCEPT !.ctrl = @ \cup {w}, !.refs[w] = 2,
                   !.root[w] = NoWidget, !.desc[w] = <<>>]

RECURSIVE controller_new(_, _, _), hierarchy_changed(_, _, _, _),
          hierarchy_changed_selfroot(_, _, _, _)

\* ide_shortcut_controller_new: the existing controller with a new
\* reference, or a new one: construction runs hierarchy_changed, then the
\* qdata takes its own reference.  The returned reference is the caller's.
controller_new(R, w, par) ==
    IF w \in R.ctrl THEN [R EXCEPT !.refs[w] = @ + 1]
    ELSE LET R0 == [R EXCEPT !.ctrl = @ \cup {w}, !.refs[w] = 1,
                             !.root[w] = NoWidget, !.desc[w] = <<>>]
             R1 == hierarchy_changed(R0, w, par, Mapped(w))
         IN [R1 EXCEPT !.refs[w] = @ + 1]

\* Fault variant of hierarchy_changed without the "toplevel != widget"
\* test: a widget that is its own toplevel joins its own controller.
hierarchy_changed_selfroot(R, v, par, mapped) ==
    LET R1  == leave_root(R, v)
        top == TopIn(par, v)
        R2  == controller_new(R1, top, par)
    IN controller_add([R2 EXCEPT !.root[v] = top], top, v, mapped)

\* ide_shortcut_controller_widget_hierarchy_changed for controller v, the
\* tree being par: leave the old root, then, unless the widget is its own
\* toplevel, join the controller of the toplevel, creating it if needed;
\* the reference _new returns is the one priv->root holds.
hierarchy_changed(R, v, par, mapped) ==
    LET R1  == leave_root(R, v)
        top == TopIn(par, v)
    IN IF top = v THEN R1
       ELSE LET R2 == controller_new(R1, top, par)
            IN controller_add([R2 EXCEPT !.root[v] = top], top, v, mapped)

\* ide_shortcut_controller_find: the registered controller, created if
\* missing; the reference returned by _new is dropped at once.
controller_find(R, w) ==
    IF w \in R.ctrl THEN R
    ELSE [controller_new(R, w, parent) EXCEPT !.refs[w] = @ - 1]

\* "hierarchy-changed" reaching, in order, the widgets of a subtree under
\* the new tree par; widgets without a controller have no handler.  The
\* signal is emitted before the widget is mapped in its new place.
PropagateHierarchy(R, order, par) ==
    FoldLeft(LAMBDA A, v : IF v \in A.ctrl THEN hierarchy_changed(A, v, par, FALSE)
                           ELSE A,
             R, order)

-----------------------------------------------------------------------------
(* Context resolution and dispatch                                        *)

\* ide_shortcut_manager_get_theme: the theme, created on first use.
ActiveTheme == IF theme = NoTheme THEN DefaultTheme ELSE theme

\* ide_shortcut_theme_find_default_context: the context named
\* "<theme>::<type>::default" of the active theme, made on demand.
find_default_context(c) == <<ActiveTheme, DefaultName[WidgetType[c]]>>

\* ide_shortcut_controller_get_context: NULL once the widget is gone,
\* otherwise the context, resolved on first use to the active theme's
\* default context for the widget's type.
get_context(c) ==
    IF ~alive[c] THEN NoContext
    ELSE IF context[c] # NoContext THEN context[c]
    ELSE find_default_context(c)

NotHandled == [handled |-> FALSE, by |-> NoWidget, via |-> "none", ctx |-> NoContext,
               eff |-> <<>>, visited |-> {}]

RECURSIVE controller_handle_event(_, _), handle_descendants(_, _)

\* ide_shortcut_controller_handle_event for controller c and key k.
\* by names the controller that handled the event, via how: "context"
\* (the chain of context ctx), "command" (the command context) or
\* "swallow" (the widget is gone, hidden or insensitive); visited holds
\* the controllers whose get_context ran.
controller_handle_event(c, k) ==
    IF ~alive[c] \/ ~visible[c] \/ ~IsSensitive(c)
    THEN [handled |-> TRUE, by |-> c, via |-> "swallow", ctx |-> NoContext,
          eff |-> <<>>, visited |-> {}]
    ELSE LET ctx == get_context(c)
             r1  == shortcut_activate(ChainOf(ctx, k), c)
             r2  == shortcut_activate(command[c][k], c)
             rd  == handle_descendants(desc[c], k)
         IN IF r1.ok THEN [handled |-> TRUE, by |-> c, via |-> "context", ctx |-> ctx,
                           eff |-> r1.eff, visited |-> {c}]
            ELSE IF hasCommand[c] /\ r2.ok
                 THEN [handled |-> TRUE, by |-> c, via |-> "command", ctx |-> NoContext,
                       eff |-> r2.eff, visited |-> {c}]
            ELSE [rd EXCEPT !.visited = @ \cup {c}]

\* The loop over priv->descendants: the first one that handles wins.
handle_descendants(s, k) ==
    IF s = <<>> THEN NotHandled
    ELSE LET r == controller_handle_event(Head(s), k)
         IN IF r.handled THEN r
            ELSE LET rest == handle_descendants(Tail(s), k)
                 IN [rest EXCEPT !.visited = @ \cup r.visited]

\* The lazily resolved contexts of the visited controllers, then the
\* "set-context" signals the handling chain emitted, in order
\* (ide_shortcut_controller_real_set_context_named).
ApplyDispatch(r) ==
    LET resolved == [v \in AllWidgets |->
                        IF v \in r.visited /\ context[v] = NoContext
                        THEN get_context(v) ELSE context[v]]
    IN FoldLeft(LAMBDA ctx, e :
                    IF e.kind = "signal" /\ e.name = SetContextSignal
                    THEN [ctx EXCEPT ![e.at] = <<ActiveTheme, e.arg>>]
                    ELSE ctx,
                resolved, r.eff)

-----------------------------------------------------------------------------
CtrlTypeOK ==
    /\ ctrl \subseteq AllWidgets
    /\ root \in [AllWidgets -> AllWidgets \cup {NoWidget}]
    /\ desc \in [AllWidgets -> Seq(AllWidgets)]
    /\ refs \in [AllWidgets -> Nat]
    /\ context \in [AllWidgets -> ContextIds \cup {NoContext}]
    /\ command \in [AllWidgets -> [Keys -> Seq(Binding)]]
    /\ theme \in Themes \cup {NoTheme}

CtrlInit ==
    /\ ctrl = {}
    /\ root = [w \in AllWidgets |-> NoWidget]
    /\ desc = [w \in AllWidgets |-> <<>>]
    /\ refs = [w \in AllWidgets |-> 0]
    /\ context = [w \in AllWidgets |-> NoContext]
    /\ command = [w \in AllWidgets |-> [k \in Keys |-> <<>>]]
    /\ theme = NoTheme

-----------------------------------------------------------------------------
(* Toolkit steps and the handlers they run                                *)

\* The registries a change of parent from parent to par can leave: the
\* subtree of w sees "hierarchy-changed" only if its anchoring changes.
HierarchyChanged(R, w, par) ==
    IF Anchored(parent, w) = Anchored(par, w) THEN {R}
    ELSE {PropagateHierarchy(R, o, par) : o \in PreOrdersIn(par, w)}

\* Reference counts stay within the bound of the model.  Only steps of
\* the application and the toolkit are bounded; a key press runs to its
\* end, and creates at most one controller per widget.
RefsWithin(R) == \A c \in AllWidgets : R.refs[c] <= MaxRefs

\* ide_shortcut_controller_finalize, once the last reference of c is
\* gone: drop the reference on the root, unlink the descendants.
Release(R, c) ==
    LET R1 == [R EXCEPT !.refs[c] = @ - 1]
        r  == R.root[c]
    IN IF R1.refs[c] > 0 THEN R1
       ELSE LET R2 == [R1 EXCEPT !.ctrl = @ \ {c}, !.root[c] = NoWidget,
                                 !.desc[c] = <<>>]
            IN IF r = NoWidget THEN R2 ELSE [R2 EXCEPT !.refs[r] = @ - 1]

\* gtk_container_add (p, w).
ContainerAdd(w, p) ==
    /\ w \in Widgets /\ alive[w] /\ parent[w] = NoWidget
    /\ alive[p] /\ p \notin Subtree(w)
    /\ LET par == [parent EXCEPT ![w] = p]
       IN /\ parent' = par
          /\ \E R \in HierarchyChanged(Reg, w, par) : RefsWithin(R) /\ SetReg(R)
    /\ UNCHANGED <<visible, sensitive, alive, focus, context, command, theme>>

\* gtk_container_remove (parent, w); a focus inside w is unset.
ContainerRemove(w) ==
    /\ w \in Widgets /\ alive[w] /\ parent[w] # NoWidget
    /\ LET par == [parent EXCEPT ![w] = NoWidget]
       IN /\ parent' = par
          /\ \E R \in HierarchyChanged(Reg, w, par) : RefsWithin(R) /\ SetReg(R)
    /\ focus' = DropFocus(Subtree(w))
    /\ UNCHANGED <<visible, sensitive, alive, context, command, theme>>

\* gtk_widget_destroy on a childless widget, then its finalization: the
\* widget leaves its container, "destroy" disconnects the controller
\* (ide_shortcut_controller_widget_destroy), and the qdata reference on
\* the controller is dropped with the widget.
Destroy(w) ==
    /\ w \in Widgets /\ alive[w] /\ Children(w) = {}
    /\ LET par == [parent EXCEPT ![w] = NoWidget]
       IN /\ parent' = par
          /\ \E R \in HierarchyChanged(Reg, w, par) :
                LET R1 == IF w \in R.ctrl THEN Release(R, w) ELSE R
                IN RefsWithin(R1) /\ SetReg(R1)
    /\ alive' = [alive EXCEPT ![w] = FALSE]
    /\ visible' = [visible EXCEPT ![w] = FALSE]
    /\ focus' = DropFocus({w})
    /\ UNCHANGED <<sensitive, context, command, theme>>

\* ide_shortcut_controller_find (w) by application code, when w has no
\* controller yet.
ControllerFind(w) ==
    /\ alive[w] /\ w \notin ctrl
    /\ LET R == controller_find(Reg, w) IN RefsWithin(R) /\ SetReg(R)
    /\ UNCHANGED <<treeVars, context, command, theme>>

\* ide_shortcut_controller_set_context (c, NULL): the next get_context
\* resolves the default context again.
SetContext(c) ==
    /\ c \in ctrl /\ alive[c] /\ context[c] # NoContext
    /\ context' = [context EXCEPT ![c] = NoContext]
    /\ UNCHANGED <<treeVars, regVars, command, theme>>

\* The "set-context" action signal emitted on controller c
\* (ide_shortcut_controller_real_set_context_named): the context of that
\* name in the manager's theme, which get_theme creates on first use.
SetContextNamed(c, n) ==
    /\ c \in ctrl /\ alive[c]
    /\ context' = [context EXCEPT ![c] = <<ActiveTheme, n>>]
    /\ theme' = ActiveTheme
    /\ UNCHANGED <<treeVars, regVars, command>>

\* ide_shortcut_controller_add_command_signal (c, ..., accel k, signal s):
\* the command context is created on first use, and the signal binding
\* is appended to the chain of k.
AddCommandSignal(c, k, s) ==
    /\ c \in ctrl /\ alive[c] /\ Len(command[c][k]) < MaxChain
    /\ command' = [command EXCEPT ![c][k] =
                     Append(@, [kind |-> "signal", name |-> s, nargs |-> 0, arg |-> NoArg])]
    /\ UNCHANGED <<treeVars, regVars, context, theme>>

-----------------------------------------------------------------------------
(* Properties of the registry                                             *)

RECURSIVE Below(_, _)
\* The controllers reachable from c through at most n queues.
Below(c, n) ==
    IF n = 0 THEN {}
    ELSE Range(desc[c]) \cup UNION {Below(x, n - 1) : x \in Range(desc[c])}

\* A controller's descendants_link is in at most one queue, once, and it
\* is in the queue of exactly the controller its priv->root names: a link
\* pushed while still in another queue would corrupt both lists
\* (ide_shortcut_controller_add / _remove in hierarchy_changed).
QueueLinkSound ==
    \A v, r \in AllWidgets :
        /\ Cardinality({i \in DOMAIN desc[r] : desc[r][i] = v}) = IF root[v] = r THEN 1 ELSE 0
        /\ root[v] # NoWidget => root[v] \in ctrl

\* The controller of every live widget inside a window is registered with
\* that window's controller, and no other controller is: the root
\* controllers see every anchoring change (hierarchy_changed, at
\* construction and on "hierarchy-changed").
WindowRegistry ==
    \A v \in ctrl \ Windows :
        IF alive[v] /\ Anchored(parent, v) THEN root[v] = Toplevel(v)
        ELSE root[v] \notin Windows

\* No controller is its own descendant, directly or through other
\* controllers' queues, so the recursion of
\* ide_shortcut_controller_handle_event over the queues terminates.
NoRegistrationCycle ==
    \A c \in AllWidgets : c \notin Below(c, Cardinality(AllWidgets))

\* Every reference on a live controller is held by one of: its widget's
\* qdata, a descendant's priv->root, its link in a root's queue
\* (ide_shortcut_controller_add takes one for the link).
RefsBalanced ==
    \A c \in ctrl :
        refs[c] = (IF alive[c] THEN 1 ELSE 0)
                  + Cardinality({v \in AllWidgets : root[v] = c})
                  + Cardinality({r \in AllWidgets : c \in Range(desc[r])})

=============================================================================
