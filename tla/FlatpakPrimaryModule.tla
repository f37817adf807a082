------------------------- MODULE FlatpakPrimaryModule -------------------------
(***************************************************************************)
(* guess_primary_module (gbp-flatpak-configuration.c): which module of a   *)
(* flatpak manifest's "modules" array is the project being built.  An     *)
(* entry of the array is a JSON object (a module with a "name" and maybe  *)
(* a nested "modules" array) or a string (a module kept in another file,  *)
(* which the function skips).  The manifest is a state variable chosen    *)
(* once among all small manifests, so that every one of them is checked.  *)
(***************************************************************************)
EXTENDS Naturals, Sequences, SequencesExt

CONSTANTS
    DirName,        \* basename of the project directory
    Names,          \* module names, DirName among them
    TopLengths,     \* lengths of the top-level "modules" array
    NestedLengths   \* lengths of a nested "modules" array

\* A string entry, an object without "modules", an object with them.
StringEntry == [obj |-> FALSE, name |-> "", hasSub |-> FALSE, sub |-> <<>>]
Leaf(n) == [obj |-> TRUE, name |-> n, hasSub |-> FALSE, sub |-> <<>>]
WithSub(n, s) == [obj |-> TRUE, name |-> n, hasSub |-> TRUE, sub |-> s]

\* The NULL guess_primary_module returns when it finds nothing.
NoModule == [obj |-> FALSE, name |-> "NULL", hasSub |-> FALSE, sub |-> <<>>]

SeqsOf(S, lens) == UNION {[1..k -> S] : k \in lens}
Entries0 == {StringEntry} \cup {Leaf(n) : n \in Names}
Entries1 == Entries0 \cup {WithSub(n, s) : n \in Names, s \in SeqsOf(Entries0, NestedLengths)}
Manifests == SeqsOf(Entries1, TopLengths)

VARIABLE modules

RECURSIVE guess_primary_module(_, _), scan_modules(_, _)

\* A mutant of guess_primary_module: the last-module fallback is taken in
\* nested arrays as well as at the top level.
guess_primary_module_anylevel(ms, top) ==
    IF Len(ms) = 1
    THEN IF ms[1].obj THEN ms[1] ELSE NoModule
    ELSE LET r == scan_modules(ms, 1)
         IN IF r # NoModule THEN r
            ELSE IF Len(ms) > 0 /\ Last(ms).obj THEN Last(ms)
            ELSE NoModule

\* The loop over the array from index i: skip strings; return a module
\* named like the project directory; otherwise return what the recursion
\* into its "modules" found, if anything.
scan_modules(ms, i) ==
    IF i > Len(ms) THEN NoModule
    ELSE LET m == ms[i]
         IN IF ~m.obj THEN scan_modules(ms, i + 1)
            ELSE IF m.name = DirName THEN m
            ELSE IF m.hasSub /\ guess_primary_module(m.sub, FALSE) # NoModule
                 THEN guess_primary_module(m.sub, FALSE)
            ELSE scan_modules(ms, i + 1)

\* guess_primary_module: an array of one entry gives that entry if it is
\* an object; otherwise the loop; failing that, and only for the array
\* that is a member of the manifest's root object (top), its last entry
\* if it is an object.
guess_primary_module(ms, top) ==
    IF Len(ms) = 1
    THEN IF ms[1].obj THEN ms[1] ELSE NoModule
    ELSE LET r == scan_modules(ms, 1)
         IN IF r # NoModule THEN r
            ELSE IF top /\ Len(ms) > 0 /\ Last(ms).obj THEN Last(ms)
            ELSE NoModule

Init == modules \in Manifests
Next == UNCHANGED modules
Spec == Init /\ [][Next]_modules

-----------------------------------------------------------------------------
(* Reference definition: the module named after the project directory,   *)
(* the first in document order at any depth; without one, the last       *)
(* top-level module.  A manifest of a single module names it.             *)

\* The object modules of an array in document order, each before the
\* modules nested in it.
RECURSIVE DocumentOrder(_)
DocumentOrder(ms) ==
    IF ms = <<>> THEN <<>>
    ELSE LET m == Head(ms)
             here == IF m.obj THEN <<m>> ELSE <<>>
         IN here \o DocumentOrder(m.sub) \o DocumentOrder(Tail(ms))

ReferencePrimary(ms) ==
    LET named == SelectSeq(DocumentOrder(ms), LAMBDA m : m.name = DirName)
    IN IF Len(ms) = 1 THEN IF ms[1].obj THEN ms[1] ELSE NoModule
       ELSE IF named # <<>> THEN Head(named)
       ELSE IF Len(ms) > 0 /\ Last(ms).obj THEN Last(ms)
       ELSE NoModule

\* Whether some nested "modules" array has exactly one entry: there the
\* one-entry shortcut of line 84 returns that entry before the loop looks
\* for the project module, and the code departs from the reference (the
\* case is recorded as a hazard, not claimed here).
HasNestedSingle(ms) == \E i \in 1..Len(ms) : ms[i].hasSub /\ Len(ms[i].sub) = 1

\* On every manifest without a nested array of one entry,
\* guess_primary_module picks the module named after the project
\* directory wherever it is nested, and otherwise the last top-level
\* module (the comment at its fallback).
GuessMatchesReference ==
    ~HasNestedSingle(modules)
        => guess_primary_module(modules, TRUE) = ReferencePrimary(modules)

=============================================================================
