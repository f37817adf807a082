--------------------------- MODULE MCShortcutParts ---------------------------
(***************************************************************************)
(* The two shortcut parts that are checked on their own, in one model: a *)
(* context's keymap (ShortcutContext, with the model values of           *)
(* MCShortcutContext) and the manager's theme registry (ShortcutThemes). *)
(* They share no state, so a behaviour exercises one part while the      *)
(* other stays in its initial state; part, chosen once, says which.  The *)
(* state space is the sum of the two parts' spaces, not their product,   *)
(* and each part's properties are checked on all its behaviours.         *)
(***************************************************************************)
EXTENDS MCShortcutContext

CONSTANTS
    ThemeObjs, DefaultObj, NoTheme, NameOf, NullName, NameInputs,
    CtxNames, MaxContexts,
    th1, th2

VARIABLES theme, themes, view, contexts, contextsMade, part

T == INSTANCE ShortcutThemes

\* A theme named "vim", a registered theme named "default", and the
\* implicit default theme.
MCNameOf == [t \in {th1, th2, DefaultObj} |-> IF t = th1 THEN "vim" ELSE "default"]

themeVars == <<theme, themes, view, contexts, contextsMade>>
partVars == <<part, ctxVars, themeVars>>

PartsInit ==
    /\ part \in {"context", "themes"}
    /\ Init
    /\ T!Init

PartsNext ==
    \/ part = "context" /\ Next /\ UNCHANGED <<part, themeVars>>
    \/ part = "themes" /\ T!Next /\ UNCHANGED <<part, ctxVars>>

PartsSpec == PartsInit /\ [][PartsNext]_partVars

ThemesTypeOK == T!ThemesTypeOK
ViewMirrorsThemes == T!ViewMirrorsThemes

=============================================================================
