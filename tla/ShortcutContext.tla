---------------------------- MODULE ShortcutContext ----------------------------
(***************************************************************************)
(* The keymap of one IdeShortcutContext (ide-shortcut-context.c): the hash *)
(* table from a normalized (keyval, modifiers) pair to a chain of          *)
(* bindings, created on the first add; add_action, add_signal, remove and  *)
(* activate.  A binding is abstracted to what tells bindings apart (its    *)
(* kind, action prefix and name, or signal name); running a chain is       *)
(* recorded as the sequence of bindings that ran.                          *)
(***************************************************************************)
EXTENDS Accelerator, Naturals, Sequences, Functions, TLC

CONSTANTS
    AccelInputs,    \* accelerator strings passed by the application
    ChordInputs,    \* key presses
    ActionIds,      \* detailed action names: [ok, prefix, name]
    NoPrefix,       \* the NULL prefix of a name without '.'
    SignalNames,    \* signal names passed to add_signal
    MaxChain        \* bound on the length of a chain

VARIABLES
    hasKeymap,  \* priv->keymap != NULL
    keymap,     \* the entries of priv->keymap: key |-> chain
    fired,      \* the bindings the last activate ran
    aborted,    \* g_assert failed: the process is gone
    calls       \* parity of the number of calls made

ctxVars == <<hasKeymap, keymap, fired, aborted, calls>>

\* Every call to the context is a step of its own, even one that leaves
\* the keymap as it was.
Call == calls' = 1 - calls

ActionBinding(d) == [type |-> "action", prefix |-> d.prefix, name |-> d.name]
SignalBinding(s) == [type |-> "signal", name |-> s]
Bindings ==
    {ActionBinding(d) : d \in {x \in ActionIds : x.ok}} \cup {SignalBinding(s) : s \in SignalNames}

\* g_hash_table_lookup on the keymap.
Lookup(k) == IF k \in DOMAIN keymap THEN keymap[k] ELSE <<>>

Init ==
    /\ hasKeymap = FALSE
    /\ keymap = [k \in {} |-> <<>>]
    /\ fired = <<>>
    /\ aborted = FALSE
    /\ calls = 0

\* ide_shortcut_context_add: create the table on first use, translate the
\* key, append to the chain already stored under it or insert a new one.
context_add(acc, b) ==
    LET k == AccelKey(acc)
    IN /\ Len(Lookup(k)) < MaxChain
       /\ hasKeymap' = TRUE
       /\ keymap' = IF k \in DOMAIN keymap
                    THEN [keymap EXCEPT ![k] = Append(@, b)]
                    ELSE keymap @@ (k :> <<b>>)
       /\ Call

\* ide_shortcut_context_add_action: a name that
\* g_action_parse_detailed_name rejects is warned about and dropped (the
\* step changes nothing); otherwise the name is split on '.' into the
\* prefix (NULL when there is none) and the action name.
AddAction(acc, d) ==
    /\ ~aborted
    /\ d.ok
    /\ context_add(acc, ActionBinding(d))
    /\ UNCHANGED <<fired, aborted>>

\* ide_shortcut_context_add_signal / add_signal_va_list.
AddSignal(acc, s) ==
    /\ ~aborted
    /\ context_add(acc, SignalBinding(s))
    /\ UNCHANGED <<fired, aborted>>

\* A mutant of remove: the accelerator is looked up as parsed.
remove_untranslated(acc) == AccelParse(acc)

\* ide_shortcut_context_remove: parse, translate, g_hash_table_remove,
\* which frees the whole chain.  With no table yet, g_hash_table_remove
\* fails its precondition and nothing changes.
remove_key(acc) == AccelKey(acc)

Remove(acc) ==
    /\ ~aborted
    /\ hasKeymap
    /\ keymap' = Restrict(keymap, DOMAIN keymap \ {remove_key(acc)})
    /\ Call
    /\ UNCHANGED <<hasKeymap, fired, aborted>>

\* shortcut_activate runs every binding of the chain in order; an action
\* with a NULL prefix fails g_assert (prefix != NULL) in widget_action and
\* the process aborts after the bindings before it have run.
FirstNullPrefix(chain) ==
    LET bad == {i \in 1..Len(chain) : chain[i].type = "action" /\ chain[i].prefix = NoPrefix}
    IN IF bad = {} THEN 0 ELSE CHOOSE i \in bad : \A j \in bad : i <= j

\* ide_shortcut_context_activate: with a table, translate the event's
\* keyval and state and run the chain stored under them.
Activate(e) ==
    /\ ~aborted
    /\ LET chain == IF hasKeymap THEN Lookup(EventLookupKey(e)) ELSE <<>>
           n == FirstNullPrefix(chain)
       IN /\ fired' = IF n = 0 THEN chain ELSE SubSeq(chain, 1, n - 1)
          /\ aborted' = (n # 0)
    /\ Call
    /\ UNCHANGED <<hasKeymap, keymap>>

Next ==
    \/ \E acc \in AccelInputs, d \in ActionIds : AddAction(acc, d)
    \/ \E acc \in AccelInputs, s \in SignalNames : AddSignal(acc, s)
    \/ \E acc \in AccelInputs : Remove(acc)
    \/ \E e \in ChordInputs : Activate(e)

Spec == Init /\ [][Next]_ctxVars

\* Type invariant: the table holds only normalized keys (default modifiers,
\* no release bit), each with a non-empty chain.
ContextTypeOK ==
    /\ hasKeymap \in BOOLEAN
    /\ DOMAIN keymap \subseteq NormKeys
    /\ \A k \in DOMAIN keymap : keymap[k] \in Seq(Bindings) /\ keymap[k] # <<>>
    /\ fired \in Seq(Bindings)
    /\ aborted \in BOOLEAN
    /\ calls \in {0, 1}
    /\ hasKeymap = FALSE => DOMAIN keymap = {}

\* The abstract keymap the table stands for: the chain each key press
\* would activate.
Abstract == INSTANCE ShortcutContextSpec
    WITH amap <- [e \in ChordInputs |-> IF hasKeymap THEN Lookup(EventLookupKey(e)) ELSE <<>>],
         Binding <- Bindings

\* Refinement: registering, removing and activating through the
\* normalized table behaves as the accelerator strings say (spec.md
\* sections 3 and 4.1): a press runs, in insertion order, exactly the
\* bindings registered for an accelerator denoting it and not removed since.
ContextRefinesSpec == Abstract!Spec

\* activate never runs into g_assert (prefix != NULL) in widget_action.
NoAbort == ~aborted

=============================================================================
