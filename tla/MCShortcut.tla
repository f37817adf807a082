------------------------------ MODULE MCShortcut ------------------------------
(***************************************************************************)
(* A window win, a GtkEntry "a" and GtkBoxes "b" and "c".  Two            *)
(* themes; t1 is the theme the manager creates by default.  In t1 the      *)
(* entry's default context switches its controller to the "insert"         *)
(* context on key k1 (a "set-context" signal binding), and "insert" maps   *)
(* k1 to win.save and turns the toolkit's legacy bindings off.  In t2 the  *)
(* box's default context maps k1 to win.quit, an action the window does    *)
(* not have, so that binding fails.  The entry has a "-gtk-key-bindings"   *)
(* set for k1, and the entry and window classes have binding sets for k1.  *)
(***************************************************************************)
EXTENDS ShortcutManager, TLC

CONSTANTS win, a, b, c, k1, t1, t2

MCTypes == {"GtkWindow", "GtkBox", "GtkEntry"}
MCWidgetType == [w \in AllWidgets |->
                    IF w = win THEN "GtkWindow" ELSE IF w = a THEN "GtkEntry" ELSE "GtkBox"]
MCActionPrefixes == {"win", "app"}
MCActionNames == {"save", "quit"}
MCActionGroup == [w \in AllWidgets |-> [p \in MCActionPrefixes |-> NoGroup]]
MCRelativeTo == [w \in AllWidgets |-> NoWidget]
MCSignalsOf == [t \in MCTypes |-> IF t = "GtkEntry" THEN {"activate"} ELSE {}]
MCContextNames == {"GtkWindow::default", "GtkBox::default", "GtkEntry::default", "insert"}
MCDefaultName == [t \in MCTypes |-> t \o "::default"]

SwitchToInsert == [kind |-> "signal", name |-> "set-context", nargs |-> 1, arg |-> "insert"]
WinSave == [kind |-> "action", prefix |-> "win", name |-> "save"]
WinQuit == [kind |-> "action", prefix |-> "win", name |-> "quit"]

MCThemeKeymap ==
    [t \in {t1, t2} |-> [n \in MCContextNames |-> [k \in {k1} |->
        IF t = t1 /\ n = "GtkEntry::default" THEN <<SwitchToInsert>>
        ELSE IF t = t1 /\ n = "insert" THEN <<WinSave>>
        ELSE IF t = t2 /\ n = "GtkBox::default" THEN <<WinQuit>>
        ELSE <<>>]]]

MCUseBindingSets == [t \in {t1, t2} |-> [n \in MCContextNames |-> n # "insert"]]
MCStyleKeyBindings == [w \in AllWidgets |-> IF w = a THEN {k1} ELSE {}]
\* Restricts a search to states in which every widget is alive and
\* sensitive, no command binding was added, and every registration follows
\* the widget's toplevel, so that a trace it finds cannot owe anything to
\* destruction, insensitivity, command bindings or a stale registration.
MCAnchoredLive ==
    /\ \A w \in AllWidgets : alive[w] /\ sensitive[w] /\ ~hasCommand[w]
    /\ \A w \in ctrl : root[w] # NoWidget => Toplevel(root[w]) = Toplevel(w)

MCClassKeyBindings == [t \in MCTypes |-> IF t = "GtkBox" THEN {} ELSE {k1}]

=============================================================================
