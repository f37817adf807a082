------------------------------- MODULE MCFlatpak -------------------------------
(***************************************************************************)
(* The flatpak plugin's pure functions on small inputs.  A state is one    *)
(* input: either a manifest, with what the uninitialised prefix holds, the *)
(* outcome of the second read and the current configuration's kind, for   *)
(* load_from_file and the runner; or a bare "modules" array for            *)
(* guess_primary_module.  The two kinds of state are disjoint, so the     *)
(* inputs add up rather than multiply.                                     *)
(***************************************************************************)
EXTENDS FlatpakRunner

VARIABLE modules    \* the "modules" array guess_primary_module is checked on

G == INSTANCE FlatpakPrimaryModule

allVars == <<runVars, modules>>

MCEnvValues == {"", "-g"}
MCFinishArgs == {<<>>, <<"", "--share=network">>,
                 <<"--share=network", "--require-version=0.8.0", "--socket=x11">>}
MCModuleLists ==
    {<<P!Leaf("lib"), P!Leaf("proj")>>,
     <<P!WithSub("lib", <<P!Leaf("lib"), P!Leaf("proj")>>), P!StringEntry>>,
     <<P!Leaf("proj"), P!Leaf("lib")>>, <<P!StringEntry>>}
MCConfigOptsOf == [n \in {"proj", "lib"} |->
                      IF n = "proj" THEN <<"--enable-a", "--enable-b">> ELSE Absent]

\* A manifest for the loader and the runner.
LoaderInit == RunInit /\ modules = <<>>

\* A modules array for guess_primary_module alone.
GuessInit ==
    /\ manifest = Unparsable /\ uninit = NullPtr /\ readOk = TRUE /\ current = "other"
    /\ G!Init

FlatpakSpec == (LoaderInit \/ GuessInit) /\ [][UNCHANGED allVars]_allVars
LoaderSpec == LoaderInit /\ [][UNCHANGED allVars]_allVars

GuessMatchesReference == G!GuessMatchesReference
=============================================================================
