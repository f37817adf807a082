# TLA+ models of the shortcut engine and its neighbours

This directory holds TLA+ models of the C code under `src/`. TLC checks them.
Most of the work covers the keyboard-shortcut engine in `src/libide/shortcuts/`.
The rest covers the flatpak manifest loader and runner, and the debugger addins.
`PROJECT.json` lists:
- every component, with how much of it is modelled;
- every run;
- the mutant that shows each checked property can fail;
- the source lines behind each definition;
- the findings and the hazards.

Run a model from this directory:

    tlc -workers 2 -config MCShortcutAll.cfg MCShortcutAll

## The shortcut engine

The engine is single-threaded. All of it runs on the GTK main loop, inside signal handlers and key-press handling.

* **Controllers** (`ide-shortcut-controller.c`) attach to widgets.
  - A controller whose widget is not a toplevel registers in its toplevel's controller. It uses a queue link plus a reference, and sets `root` and `descendants`.
  - It re-registers on `hierarchy-changed`.
  - It resolves a *context* lazily from the manager's theme.
  - It handles an event in three steps: the context first, then the command context, then every registered descendant.
* **The manager** (`ide-shortcut-manager.c`) handles a key press by walking from the focus widget up to the toplevel. At each widget it does four things:
  - finds or creates the controller;
  - reads the context's `use-binding-sets`;
  - lets the controller handle the event;
  - tries the style `-gtk-key-bindings`, and the class binding set when the widget is the focus.
  The manager also owns the list of themes, which it exposes as a GListModel.
* **Themes** (`ide-shortcut-theme.c`) map context names to contexts.
* **Contexts** (`ide-shortcut-context.c`) map a normalised chord (keyval plus modifiers, from `translate_keyval`) to a chain of bindings. A binding is a GAction, an action signal, or a controller signal such as `set-context`. Activation runs the chain in order.

### Modules

| module | models | state and actions |
|---|---|---|
| `GtkTree` | the toolkit the code calls | parent, visible, sensitive, alive, focus; SetVisible, SetSensitive, GrabFocus; TopIn, Mapped, ancestors |
| `ShortcutActivate` | context.c 135-359 | operators: `widget_action` (the action-group search up the tree), `find_instance_and_signal`, `shortcut_signal_activate`, `shortcut_activate` |
| `ShortcutController` | controller.c | `reg` (controller, root, queue, refs, link), `ctx`, `cmds`; operators `controller_add/remove`, `leave_root`, `controller_new`, `hierarchy_changed`, `controller_find`, `get_context`, `controller_handle_event`; actions ContainerAdd/Remove (with the hierarchy-changed emissions GTK makes), Destroy, ControllerFind, SetContext, SetContextNamed, AddCommandSignal |
| `ShortcutManager` | manager.c 173-324 | one key press as KeyPress (start), Find (find or create the controller at the walk's widget, read use-binding-sets), Dispatch (the controller's outcome and the legacy bindings, applied, then step to the parent); SetTheme |
| `MCShortcut` | instance | window `win`, entry `a`, boxes `b`, `c`; themes t1, t2; one key |
| `MCShortcutAll` | instance | `MCShortcut` as a sum of a registry part (widgets a, b; theme t1) and a themes part (widget a; themes t1, t2) |
| `Accelerator` | context.c 75-132, 486-516 | accelerator parsing abstracted to name and modifiers, `translate_keyval`, the lookup key of an event |
| `ShortcutContextSpec` | context promise | abstract map from chords to binding chains: Register, Unregister, Press |
| `ShortcutContext` | context.c 448-676 | `keymap` as a function with a growing domain; AddAction, AddSignal, Remove, Activate; refines `ShortcutContextSpec` |
| `ShortcutThemes` | manager.c 137-214, 341-450; theme.c 175-240 | the theme list, the active theme, per-theme contexts; a consumer `view` applying items-changed |
| `MCShortcutContext` | instance | accelerator strings, action ids and key presses for one context (also used by the context violation runs) |
| `MCShortcutParts` | instance | `ShortcutContext` (through `MCShortcutContext`) and `ShortcutThemes` side by side, as a sum of their state spaces |
| `MCStandalone` | instance | `MCShortcutParts` and `MCPlugins`, as a sum (variable `side`) |

The dispatch in `ShortcutManager` is split into Find and Dispatch. Other actions can interleave between two steps of one key press. This matters because `ide_shortcut_controller_find` creates controllers in the middle of the walk.

A `set-context` binding changes the controller's context only when Dispatch applies it. The `use-binding-sets` value was read in Find, before that. This is the order lines 260-285 use.

## Flatpak plugin

* `FlatpakPrimaryModule` models `guess_primary_module` as a RECURSIVE operator. It is checked on every manifest up to a bound, against a reference definition:
  - the module named after the project directory, first in document order at any depth;
  - otherwise the last top-level module.
* `FlatpakManifest` models `gbp_flatpak_configuration_load_from_file` as an operator from a manifest record to a configuration record. It reuses `guess_primary_module` through INSTANCE.
  - A JSON member that is missing, or not of the kind the code tests for, is `Absent`.
  - The uninitialised local `prefix` is a nondeterministic choice between NULL and another pointer. This follows the modelling rule for undefined behaviour.
  - A second, independent choice says whether the re-read that computes the config id succeeds.

* `FlatpakRunner` models `gbp-flatpak-runner.c` as the command line the runner starts:
  - `runner_new` puts the program on the runner's argv;
  - `fixup_launcher` inserts `flatpak build --allow=devel`, then the sandbox options, then the build directory in front of it;
  - the sandbox options are the configuration's finish-args without `--require-version` ones when the current configuration is the flatpak one, and the fixed IPC, X11 and Wayland options otherwise.
  The configuration is the one `load_from_file` made of the manifest. A variable `current` says whether it is current, or another kind is. Two things are assumed of libide: the runner's argv is pushed onto the launcher before `fixup_launcher` runs, and the current configuration is one of those two kinds.

All three check pure functions: the input is a variable chosen once in Init, and Next leaves it unchanged. `MCFlatpak` checks them in one run. Its Init is a disjunction of two input sets, so their state counts add up instead of multiplying:
- the manifests, with the runner's configuration choice;
- the modules arrays of `FlatpakPrimaryModule`.

## Debugger plugin

`DebuggerWorkbench` models `gbp-debugger-workbench-addin.c`. Its actions are:
- Load and Unload of successive addin generations;
- RunDebugger, which is the registered run handler and connects `exited` and shows the controls;
- RunPlain, Exit (the runner's `exited` reaching the live handler) and ShowPerspective.

Three things come from libide, which is not in this repository:
- the run manager runs one target at a time;
- finalising an unloaded addin disconnects its `g_signal_connect_object` handlers;
- removing the visible perspective shows the editor.

`DebuggerEditorView` models `gbp-debugger-editor-view-addin.c` and the breakpoint cache of `gbp-debugger-breakpoints.c`. For each source view, `load_source_view` makes a breakpoints object and a gutter renderer. The addin keeps the renderer in an array and inserts it in the view's gutter. `unload_source_view` removes the view's renderers from both. `language_changed` shows or hides every renderer. The cache's add replaces a line's break type, and remove deletes it.

The cache's service handlers are not modelled. They are connected to signals `gbp-debugger-service.c` never declares, so they never run.

`MCDebugger` runs both addins side by side. They share no state.

## Checking independent parts together

The model checker runs a bounded number of configurations. Parts that share no state are therefore checked in one model, built as a *sum*, not a product:
- a variable chosen once in Init (`part` in `MCShortcutAll` and `MCShortcutParts`, `plugin` in `MCPlugins`) says which part a behaviour exercises;
- Next lets only that part step, and leaves the other in its initial state.
The reachable states are then the two parts' states added, and every property of a part is checked on all of its behaviours. `MCShortcutAll` has 653,196 + 4,852 states. Its "registry" part keeps the default theme t1 and moves both widgets. Its "themes" part may switch to t2 and never touches widget b (`BUntouched`). `MCShortcutParts` has 4,804 + 540 states. `MCPlugins` has 498,483 flatpak inputs + 260,604 debugger states. `MCPlugins` fixes the flatpak inputs of a debugger behaviour to an unparsable file with no modules. Every flatpak property holds trivially there.

`MCStandalone` sums the two sums again, with the variable `side`. It has 5,344 + 759,087 states. It EXTENDS both harnesses, so their variables keep distinct names: the themes' counter is `contextsMade` and the debugger's is `rendererMade`. Each call of the abstract context spec (`ShortcutContextSpec`) tests its `calls` toggle first. TLC can then reject a plugin step as a context call without computing the refinement mapping.

## Runs

Pass runs:

| run | cfg | checks |
|---|---|---|
| shortcut_all | MCShortcutAll.cfg (two widgets in theme t1, or one widget under themes t1 and t2) | `TypeOK`, `QueueLinkSound` (queue links and membership agree), `WindowRegistry` (each controller is registered exactly where its widget's toplevel says), `NoRegistrationCycle` (no controller is its own descendant through the queues), with theme and context switches |
| standalone | MCStandalone.cfg | the sum of `MCShortcutParts` and `MCPlugins`. From the context: `ContextTypeOK`, and `ContextRefinesSpec`, meaning the keymap implements the abstract chord map. From the theme list: `ThemesTypeOK` and `ViewMirrorsThemes`, meaning a consumer applying items-changed equals the list. From flatpak: `GuessMatchesReference` on all modules arrays of up to 3 top-level entries and nested arrays of length 0, 1 or 2; its premise leaves out manifests with a nested array of one entry, where the code departs from the reference (see below); `ConfigFromManifest` on every manifest of the bounds; `RunnerCommandLine`, meaning the runner's command line is the manifest's sandbox options (or the fixed ones) between `flatpak build --allow=devel` and the build directory and program. From the debugger: `ControlsOnlyWhileDebugging`, with no unload during a run; `RenderersFollowViews`, meaning each loaded view's gutter holds exactly one renderer of the array, and the array nothing else |

Each violation run checks one property that the spec, a comment or the documented format states. TLC finds it violated. `PROJECT.json` "findings" explains each one.

| run | what the counterexample shows |
|---|---|
| events_stay_in_window | a widget removed from an unanchored container still receives that container's window's key presses (controller.c 190) |
| refs_balanced | leaving a root's queue leaks the queue's reference (controller.c 146) |
| context_caps_lock | with Caps Lock on, bound letter keys do not fire (context.c 78) |
| context_no_abort | an action binding without a group prefix hits `g_assert (prefix != NULL)` (context.c 145) |
| flatpak_uninit_prefix | a manifest without a build-options prefix gets an arbitrary prefix (flatpak 152/352) |
| flatpak_runner_crash | a manifest without finish-args loads, and running its program reads through the NULL finish-args (runner 70) |
| theme_switch_context | a controller switched to "insert" in theme t1 keeps that context after set_theme (t2), against the comment at manager.c 203 (the themes bounds: one widget, themes t1 and t2) |
| class_bindings | a key press focused on a box inside the window goes unhandled, although the window's class binding set binds the key and the walk reached the window with legacy bindings allowed. Spec 4.4 step 4 tries class bindings at every ancestor (manager.c 311). Spec section 9 also says this asymmetry is "preserved as observed", so the spec may have swapped the names of the two tables; the run checks the behaviour the spec describes |
| swallow_unmapped | an entry inside a hidden box, visible by its own flag, is registered with the window; a key press focused on a sibling reaches the window's controller, which runs the entry's binding. Spec 4.2 swallows for unmapped elements (controller.c 560). The cfg uses three widgets. Its constraint `MCAnchoredLive` keeps every widget alive and sensitive, adds no command binding, and keeps every registration at the widget's toplevel, so the trace cannot be the events_stay_in_window one |
| debugger_unload_running | the debugger addin unloaded during a debug run leaves its controls shown; the exited handler went with the addin (workbench 161) |

Two disagreements have no run. Each is listed with a note under "hazards" in `PROJECT.json`:
- the spec's start at the toplevel (manager.c 252);
- a nested modules array of one entry winning over the project module (flatpak 84): `MCStandalone.cfg` enumerates such manifests, and `GuessMatchesReference` states its claim only for the others.

The pass runs exclude three cases deliberately:
- `GuessMatchesReference` excludes nested arrays of length 1 by its premise (the last disagreement above);
- `MCStandalone.cfg` gives the context only chords without Caps Lock (`MCChordsNoLock`), so `ContextRefinesSpec` does not meet the Caps Lock disagreement that `context_caps_lock` shows;
- `MCStandalone.cfg` sets `UnloadWhileRunning` to FALSE; `debugger_unload_running` sets it TRUE.

## Bounds

* **MCShortcut.** One window and two or three widgets are enough to produce the cases under test:
  - nesting, an unanchored container, and reparenting between a container and the window;
  - a destroyed widget;
  - a focus change.
  `MaxRefs = 3` bounds the leaked references; reaching it needs two reparentings. `MaxChain = 1` bounds the command bindings per key. One key is enough, because every property is about routing, not about which key is pressed.
* **MCShortcutParts, the context (MCShortcutContext).** The accelerators cover each normalisation case: plain, Shift (upper-casing), Shift+Tab (`ISO_Left_Tab`) and Release. There is one valid action id, one that parses to no action, and one signal. `MaxChain = 2` allows a chain of two bindings on a chord.
* **MCShortcutParts, the theme list.** Two themes make a duplicate add and a removal that shifts positions possible. `MaxContexts = 2` bounds the contexts find creates.
* **FlatpakPrimaryModule.** These lengths cover the cases:
  - the one-entry shortcut;
  - the loop;
  - the nested recursion;
  - the last-module fallback.
  Nested length 1 is enumerated, and left out by the property's premise (see above).
* **MCPlugins, flatpak (MCFlatpak).** Every member is either present or `Absent`. Where the code tests for emptiness, the empty string is included too. The four module lists cover these cases:
  - the project module at the top;
  - the project module nested;
  - the project module first;
  - no object at all.
  The finish-args arrays are empty, one with an empty string, and one with a `--require-version` option between two others, so the runner's filter and the order of what it keeps are both checked.
* **MCPlugins, debugger (MCDebugger).**
  - `MaxLoads = 8` workbench addin generations let a run outlive its addin and a new load follow.
  - Two source views and `MaxRenderers = 3` reach loading a view again after unloading it.
  - A supported and an unsupported language, plus none, drive language_changed.
  - One line and two break types exercise the cache.

## Fairness

No run states a liveness property, and no specification assumes fairness. `ide_shortcut_manager_handle_event` runs the whole walk within one call on the main loop; in the model it is a sequence of Find and Dispatch steps that climbs `parent`, which is acyclic, so it ends by the model's shape, and a property saying so would show nothing. The recursion that could fail to end, over the descendants of a registration, is covered by `NoRegistrationCycle`. User actions (reparenting, focus, theme changes and key presses) have no fairness either.

## Not modelled

See "components" in `PROJECT.json`.
- The flatpak configuration's property getters and setters are plain field copies.
- The perspective and the devhelp addin are UI assembly with no control to check.
- The directory VCS hands its work to a task outside this repository.
- Refactory has no behaviour.
- The debugger service's begin and toggle_breakpoint only log a TODO.
- `ide_shortcut_context_load_from_data` always fails, and `load_from_resource` only forwards to it.
- GObject property plumbing and logging are left out of all modules.
