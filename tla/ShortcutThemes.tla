---------------------------- MODULE ShortcutThemes ----------------------------
(***************************************************************************)
(* The theme registry of IdeShortcutManager (ide-shortcut-manager.c): the  *)
(* active theme, created on first read as an implicit theme named          *)
(* "default"; the observable list of registered themes and the             *)
(* items-changed notifications a GListModel consumer mirrors it by; the    *)
(* selection of a theme by name.  And the context table of each            *)
(* IdeShortcutTheme (ide-shortcut-theme.c): contexts looked up by name,    *)
(* created on first lookup, replaced by add_context.  A context object is  *)
(* identified by its theme, its name and the number of context objects    *)
(* made for that name so far.                                              *)
(***************************************************************************)
EXTENDS Naturals, Sequences, SequencesExt

CONSTANTS
    ThemeObjs,      \* IdeShortcutTheme objects the application creates
    DefaultObj,     \* the theme ide_shortcut_manager_get_theme creates
    NoTheme,        \* priv->theme == NULL
    NameOf,         \* the "name" property of each theme object
    NullName,       \* a NULL name argument
    NameInputs,     \* names passed to set_theme_name
    CtxNames,       \* context names
    MaxContexts     \* bound on the context objects made per (theme, name)

AllThemes == ThemeObjs \cup {DefaultObj}

VARIABLES
    theme,      \* priv->theme
    themes,     \* priv->themes
    view,       \* a list-model consumer's copy, kept by items-changed
    contexts,   \* contexts[t][n]: the context stored under n, 0 if none
    contextsMade \* contextsMade[t][n]: context objects made for (t, n)

thVars == <<theme, themes, view, contexts, contextsMade>>

\* g_list_model_items_changed (position, removed, added), applied by a
\* consumer that reads the added items from the model after the change.
ItemsChanged(pos, removed, added) ==
    view' = SubSeq(view, 1, pos) \o SubSeq(themes', pos + 1, pos + added)
            \o SubSeq(view, pos + removed + 1, Len(view))

Init ==
    /\ theme = NoTheme
    /\ themes = <<>>
    /\ view = <<>>
    /\ contexts = [t \in AllThemes |-> [n \in CtxNames |-> 0]]
    /\ contextsMade = [t \in AllThemes |-> [n \in CtxNames |-> 0]]

\* ide_shortcut_manager_get_theme: the first read creates the implicit
\* theme named "default" (it is not added to the list).
GetTheme ==
    /\ theme = NoTheme
    /\ theme' = DefaultObj
    /\ UNCHANGED <<themes, view, contexts, contextsMade>>

\* ide_shortcut_manager_set_theme.
SetTheme(t) ==
    /\ theme' = t
    /\ UNCHANGED <<themes, view, contexts, contextsMade>>

\* ide_shortcut_manager_set_theme_name: NULL means "default"; the first
\* registered theme of that name becomes the theme, and without one the
\* call warns and changes nothing.
SetThemeName(name) ==
    LET n == IF name = NullName THEN "default" ELSE name
        hits == {i \in 1..Len(themes) : NameOf[themes[i]] = n}
    IN /\ theme' = IF hits = {} THEN theme ELSE themes[Min(hits)]
       /\ UNCHANGED <<themes, view, contexts, contextsMade>>

\* ide_shortcut_manager_add_theme: a theme already in the list is warned
\* about and left; otherwise it is appended and items-changed announces
\* it at the old length.
add_theme(t) ==
    /\ themes' = Append(themes, t)
    /\ ItemsChanged(Len(themes), 0, 1)

AddTheme(t) ==
    /\ t \notin ToSet(themes)
    /\ add_theme(t)
    /\ UNCHANGED <<theme, contexts, contextsMade>>

\* A mutant of remove_theme: the loop index announced one past the item.
remove_theme_next(i) ==
    /\ themes' = RemoveAt(themes, i)
    /\ ItemsChanged(i, 1, 0)

\* ide_shortcut_manager_remove_theme: the first occurrence is removed and
\* announced at its (0-based) index; a theme not in the list is ignored.
\* The active theme is kept even when it is the one removed.
remove_theme(i) ==
    /\ themes' = RemoveAt(themes, i)
    /\ ItemsChanged(i - 1, 1, 0)

RemoveTheme(t) ==
    /\ t \in ToSet(themes)
    /\ remove_theme(Min({j \in 1..Len(themes) : themes[j] = t}))
    /\ UNCHANGED <<theme, contexts, contextsMade>>

\* A mutant of FindContextByName: the table lookup is skipped and a new
\* context is made on every call.
FindContextByName_nolookup(t, n) ==
    /\ contexts[t][n] = 0 => contextsMade[t][n] < MaxContexts
    /\ contextsMade' = [contextsMade EXCEPT ![t][n] = @ + 1]
    /\ contexts' = [contexts EXCEPT ![t][n] = contextsMade'[t][n]]
    /\ UNCHANGED <<theme, themes, view>>

\* ide_shortcut_theme_find_context_by_name: get or create.
FindContextByName(t, n) ==
    /\ contexts[t][n] = 0 => contextsMade[t][n] < MaxContexts
    /\ IF contexts[t][n] = 0
       THEN /\ contextsMade' = [contextsMade EXCEPT ![t][n] = @ + 1]
            /\ contexts' = [contexts EXCEPT ![t][n] = contextsMade'[t][n]]
       ELSE UNCHANGED <<contextsMade, contexts>>
    /\ UNCHANGED <<theme, themes, view>>

\* ide_shortcut_theme_add_context with a new context named n:
\* g_hash_table_insert replaces whatever was stored under n.
AddContext(t, n) ==
    /\ contextsMade[t][n] < MaxContexts
    /\ contextsMade' = [contextsMade EXCEPT ![t][n] = @ + 1]
    /\ contexts' = [contexts EXCEPT ![t][n] = contextsMade'[t][n]]
    /\ UNCHANGED <<theme, themes, view>>

Next ==
    \/ GetTheme
    \/ \E t \in ThemeObjs : SetTheme(t) \/ AddTheme(t) \/ RemoveTheme(t)
    \/ \E name \in NameInputs : SetThemeName(name)
    \/ \E t \in AllThemes, n \in CtxNames : FindContextByName(t, n) \/ AddContext(t, n)

Spec == Init /\ [][Next]_thVars

ThemesTypeOK ==
    /\ theme \in AllThemes \cup {NoTheme}
    /\ themes \in Seq(ThemeObjs)
    /\ view \in Seq(ThemeObjs)
    /\ contexts \in [AllThemes -> [CtxNames -> 0..MaxContexts]]
    /\ contextsMade \in [AllThemes -> [CtxNames -> 0..MaxContexts]]

\* A consumer that applies every items-changed notification of the list
\* model, reading the new items from it, holds the list itself: positions
\* announced by add_theme and remove_theme are those of the change.
ViewMirrorsThemes == view = themes

=============================================================================
