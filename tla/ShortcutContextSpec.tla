-------------------------- MODULE ShortcutContextSpec --------------------------
(***************************************************************************)
(* What an IdeShortcutContext promises (spec.md sections 3 and 4.1),       *)
(* stated over the key presses themselves: registering a binding for an    *)
(* accelerator string appends it to the chain of every chord the string   *)
(* denotes; removing an accelerator empties the chain of those chords;    *)
(* activating a chord runs its chain, every binding in order.              *)
(***************************************************************************)
EXTENDS Accelerator, Naturals, Sequences

CONSTANTS
    AccelInputs,    \* accelerator strings the application registers
    ChordInputs,    \* key presses the user makes
    Binding,        \* bindings
    MaxChain        \* bound on the length of a chain

VARIABLES
    amap,   \* the chain each chord activates
    fired,  \* the bindings the last activation ran
    calls   \* parity of the number of calls made: every call is a step

Init ==
    /\ amap = [e \in ChordInputs |-> <<>>]
    /\ fired = <<>>
    /\ calls = 0

\* Every call to the context is a step of its own, even one that leaves
\* the chains as they were.  It is the first conjunct of each call, so
\* that a step of something else is told from a call without the chains.
Call == calls' = 1 - calls

\* addAction / addSignal with accelerator acc.
Register(acc, b) ==
    /\ Call
    /\ \A e \in ChordInputs : Denotes(acc, e) => Len(amap[e]) < MaxChain
    /\ amap' = [e \in ChordInputs |-> IF Denotes(acc, e) THEN Append(amap[e], b) ELSE amap[e]]
    /\ UNCHANGED fired

\* remove(acc).
Unregister(acc) ==
    /\ Call
    /\ amap' = [e \in ChordInputs |-> IF Denotes(acc, e) THEN <<>> ELSE amap[e]]
    /\ UNCHANGED fired

\* activate for chord e.
Press(e) ==
    /\ Call
    /\ fired' = amap[e]
    /\ UNCHANGED amap

Next ==
    \/ \E acc \in AccelInputs, b \in Binding : Register(acc, b)
    \/ \E acc \in AccelInputs : Unregister(acc)
    \/ \E e \in ChordInputs : Press(e)

Spec == Init /\ [][Next]_<<amap, fired, calls>>

=============================================================================
