----------------------------- MODULE Accelerator -----------------------------
(***************************************************************************)
(* Key events, accelerator strings and their normalization                *)
(* (ide-shortcut-context.c, translate_keyval), on a small keyboard: a      *)
(* letter key and Tab.                                                     *)
(*                                                                         *)
(* What the toolkit does is stated here as it behaves, since it is not     *)
(* part of this repository: a key press carries the keyval the keymap      *)
(* produces for the held modifiers (Shift or Caps Lock select the upper    *)
(* case of a letter; Shift alone selects ISO_Left_Tab); and                *)
(* gtk_accelerator_parse lower-cases the keyval it parses.                 *)
(***************************************************************************)
EXTENDS FiniteSets

\* Physical keys and the modifiers a user may hold.
PhysKeys == {"KeyA", "KeyTab"}
Shift == "shift"
Control == "control"
Lock == "lock"
Release == "release"
Modifiers == {Shift, Control, Lock, Release}

\* gtk_accelerator_get_default_mod_mask: Shift, Control, Alt, Super,
\* Hyper, Meta; not Caps Lock.
DefaultModMask == {Shift, Control}

Keyvals == {"a", "A", "Tab", "ISO_Left_Tab"}

\* gdk_keyval_to_upper / gdk_keyval_to_lower.
ToUpper(kv) == IF kv = "a" THEN "A" ELSE kv
ToLower(kv) == IF kv = "A" THEN "a" ELSE kv

\* A key press: a physical key with the modifiers held.
Chords == [key : PhysKeys, mods : SUBSET {Shift, Control, Lock}]

\* GdkEventKey.keyval for a chord, from the keymap.
EventKeyval(e) ==
    CASE e.key = "KeyA"   -> IF (Shift \in e.mods) # (Lock \in e.mods) THEN "A" ELSE "a"
      [] e.key = "KeyTab" -> IF Shift \in e.mods THEN "ISO_Left_Tab" ELSE "Tab"

\* The key names an accelerator string may use, and the key they name.
KeyNames == {"a", "A", "Tab"}
KeyOfName(n) == IF n = "Tab" THEN "KeyTab" ELSE "KeyA"

\* An accelerator string, as "<Shift><Control>" modifiers and a key name.
Accels == [name : KeyNames, mods : SUBSET (DefaultModMask \cup {Release})]

\* gtk_accelerator_parse.
AccelParse(acc) == [kv |-> ToLower(acc.name), mods |-> acc.mods]

\* A mutant of translate_keyval: the release bit is not masked out.
translate_keyval_release(kv, mods) ==
    LET m == mods \cap (DefaultModMask \cup {Release})
    IN [kv |-> IF Shift \in m
               THEN IF kv = "Tab" THEN "ISO_Left_Tab" ELSE ToUpper(kv)
               ELSE kv,
        mods |-> m]

\* translate_keyval: keep the default modifiers without the release bit;
\* under Shift, Tab becomes ISO_Left_Tab and a letter is upper-cased.
translate_keyval(kv, mods) ==
    LET m == (mods \cap DefaultModMask) \ {Release}
    IN [kv |-> IF Shift \in m
               THEN IF kv = "Tab" THEN "ISO_Left_Tab" ELSE ToUpper(kv)
               ELSE kv,
        mods |-> m]

\* The key a chord is looked up under (ide_shortcut_context_activate).
EventLookupKey(e) == translate_keyval(EventKeyval(e), e.mods)

\* The key an accelerator string is stored under (ide_shortcut_context_add).
AccelKey(acc) == LET p == AccelParse(acc) IN translate_keyval(p.kv, p.mods)

\* What an accelerator string means: the chords of its key with exactly
\* its modifiers, whatever the state of Caps Lock, a release bit ignored
\* (spec.md section 3: normalization masks out platform-irrelevant
\* modifiers and any release bit).
Denotes(acc, e) ==
    e.key = KeyOfName(acc.name) /\ e.mods \ {Lock} = acc.mods \ {Release}

NormKeys == [kv : Keyvals, mods : SUBSET DefaultModMask]

=============================================================================
