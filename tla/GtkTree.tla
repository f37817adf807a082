------------------------------ MODULE GtkTree ------------------------------
(***************************************************************************)
(* The widget toolkit as seen by the shortcut engine: a forest of widgets  *)
(* rooted at windows, with the visibility, sensitivity and focus queries   *)
(* the engine makes (spec.md section 6).  GTK is not part of this          *)
(* repository; this module states only the toolkit behaviour that the     *)
(* engine's code relies on:                                                *)
(*   - a widget is added to a container only while it has no parent;       *)
(*   - "hierarchy-changed" is emitted only when a widget becomes anchored  *)
(*     (its topmost ancestor is a window) or stops being anchored; it then *)
(*     reaches the widget and every widget below it, parent before child,  *)
(*     before the new position is mapped.  Moving a subtree between        *)
(*     containers that are not in a window emits nothing;                 *)
(*   - a window that loses its focus widget (removed, hidden, made         *)
(*     insensitive, destroyed) has no focus afterwards;                   *)
(*   - "destroy" unparents the widget first, then drops it; a container    *)
(*     first gives up its children, so only childless widgets are          *)
(*     destroyed in one step.                                              *)
(* The reactions of the engine to these events are in ShortcutController. *)
(***************************************************************************)
EXTENDS Naturals, FiniteSets, Sequences, SequencesExt

CONSTANTS
    Windows,    \* toplevel windows (GtkApplicationWindow): never reparented
    Widgets,    \* every other widget
    NoWidget    \* NULL widget pointer

AllWidgets == Windows \cup Widgets

ASSUME NoWidget \notin AllWidgets /\ Windows \cap Widgets = {}

VARIABLES
    parent,     \* gtk_widget_get_parent
    visible,    \* gtk_widget_get_visible (the widget's own flag)
    sensitive,  \* gtk_widget_get_sensitive (the widget's own flag)
    alive,      \* FALSE once the widget is destroyed and finalized
    focus       \* gtk_window_get_focus, per window

treeVars == <<parent, visible, sensitive, alive, focus>>

-----------------------------------------------------------------------------
(* Queries, over an explicit parent function so that callers can ask them *)
(* of the tree before and after a change.                                 *)

RECURSIVE TopIn(_, _)
\* gtk_widget_get_toplevel: the topmost ancestor (the widget itself if it
\* has no parent).
TopIn(par, w) == IF par[w] = NoWidget THEN w ELSE TopIn(par, par[w])

RECURSIVE ChainIn(_, _)
\* The widget and all its ancestors.
ChainIn(par, w) == IF par[w] = NoWidget THEN {w} ELSE {w} \cup ChainIn(par, par[w])

Toplevel(w)  == TopIn(parent, w)

\* GtkWidgetPrivate.anchored: the topmost ancestor is a window.
Anchored(par, w) == TopIn(par, w) \in Windows
AncestorsOf(w) == ChainIn(parent, w)
SubtreeIn(par, w) == {v \in AllWidgets : w \in ChainIn(par, v)}
Subtree(w)   == SubtreeIn(parent, w)
Children(w)  == {v \in AllWidgets : parent[v] = w}

\* gtk_widget_is_sensitive: the widget and every ancestor is sensitive.
IsSensitive(w) == \A v \in AncestorsOf(w) : sensitive[v]

\* gtk_widget_get_mapped: shown inside a (shown) window.
Mapped(w) ==
    /\ alive[w]
    /\ Toplevel(w) \in Windows
    /\ \A v \in AncestorsOf(w) : visible[v]

\* The orders in which "hierarchy-changed" may reach the widgets below w:
\* every parent before its children, siblings in the container's order.
PreOrdersIn(par, w) ==
    {s \in SetToSeqs(SubtreeIn(par, w)) :
        \A i, j \in 1..Len(s) : (i # j /\ s[j] \in ChainIn(par, s[i])) => j < i}

\* The window whose focus lies inside the given set of widgets, if any,
\* loses its focus.
DropFocus(S) == [x \in Windows |-> IF focus[x] \in S THEN NoWidget ELSE focus[x]]

-----------------------------------------------------------------------------
TreeTypeOK ==
    /\ parent \in [AllWidgets -> AllWidgets \cup {NoWidget}]
    /\ \A x \in Windows : parent[x] = NoWidget
    /\ visible \in [AllWidgets -> BOOLEAN]
    /\ sensitive \in [AllWidgets -> BOOLEAN]
    /\ alive \in [AllWidgets -> BOOLEAN]
    /\ focus \in [Windows -> Widgets \cup {NoWidget}]

TreeInit ==
    /\ parent = [w \in AllWidgets |-> NoWidget]
    /\ visible = [w \in AllWidgets |-> TRUE]
    /\ sensitive = [w \in AllWidgets |-> TRUE]
    /\ alive = [w \in AllWidgets |-> TRUE]
    /\ focus = [x \in Windows |-> NoWidget]

-----------------------------------------------------------------------------
(* Toolkit steps that do not concern the engine's registry.               *)

\* gtk_widget_show / gtk_widget_hide; hiding unsets a focus inside.
SetVisible(w, b) ==
    /\ w \in Widgets /\ alive[w] /\ visible[w] # b
    /\ visible' = [visible EXCEPT ![w] = b]
    /\ focus' = IF b THEN focus ELSE DropFocus(Subtree(w))
    /\ UNCHANGED <<parent, sensitive, alive>>

\* gtk_widget_set_sensitive; a focus made insensitive is unset.
SetSensitive(w, b) ==
    /\ w \in Widgets /\ alive[w] /\ sensitive[w] # b
    /\ sensitive' = [sensitive EXCEPT ![w] = b]
    /\ focus' = IF b THEN focus ELSE DropFocus(Subtree(w))
    /\ UNCHANGED <<parent, visible, alive>>

\* gtk_widget_grab_focus on a mapped, sensitive widget of window x.
GrabFocus(x, w) ==
    /\ w \in Widgets /\ Toplevel(w) = x
    /\ Mapped(w) /\ IsSensitive(w)
    /\ focus[x] # w
    /\ focus' = [focus EXCEPT ![x] = w]
    /\ UNCHANGED <<parent, visible, sensitive, alive>>

=============================================================================
