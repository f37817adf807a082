-------------------------- MODULE MCShortcutContext --------------------------
(* Model values for checking one shortcut context's keymap. *)
EXTENDS ShortcutContext

CONSTANTS NoPfx

\* "a", "<Shift>a", "<Release>a", "<Shift>Tab".
MCAccelInputs ==
    { [name |-> "a", mods |-> {}], [name |-> "a", mods |-> {Shift}],
      [name |-> "a", mods |-> {Release}], [name |-> "Tab", mods |-> {Shift}] }

\* "win.save", and a name g_action_parse_detailed_name rejects.
MCActionIds ==
    { [ok |-> TRUE, prefix |-> "win", name |-> "save"],
      [ok |-> FALSE, prefix |-> NoPfx, name |-> "save("] }

\* The same, and "save" without a prefix.
MCActionIdsBare ==
    MCActionIds \cup { [ok |-> TRUE, prefix |-> NoPfx, name |-> "save"] }

\* Key presses with Caps Lock off, and all key presses.
MCChordsNoLock == {e \in Chords : Lock \notin e.mods}
MCChords == Chords

=============================================================================
