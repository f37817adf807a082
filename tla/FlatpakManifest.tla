---------------------------- MODULE FlatpakManifest ----------------------------
(***************************************************************************)
(* gbp_flatpak_configuration_load_from_file (gbp-flatpak-configuration.c): *)
(* a flatpak manifest, parsed as JSON, becomes a build configuration or    *)
(* NULL.  A manifest is a record with one field per member the function    *)
(* reads; a member that is missing, or not of the JSON kind the code tests *)
(* for (JSON_NODE_HOLDS_VALUE, _ARRAY, _OBJECT), is Absent.  Strings are   *)
(* model values; the printf of the runtime id and the join of config-opts  *)
(* are kept as tuples, which they denote injectively.                      *)
(*                                                                         *)
(* The local "prefix" (line 152) has no initialiser and is assigned only   *)
(* when build-options has a "prefix" member, yet line 352 tests it against *)
(* NULL.  What that read gives is up to the build: the model lets it be    *)
(* NULL or some other pointer (Garbage), chosen with the manifest.         *)
(***************************************************************************)
EXTENDS Naturals, FiniteSets, Sequences, Functions

LOCAL INSTANCE SequencesExt

CONSTANTS
    Absent,          \* member missing, or not of the kind tested for
    Unparsable,      \* a file json_parser_load_from_file rejects, or whose
                     \* root is not an object
    NullPtr,         \* the NULL pointer
    Garbage,         \* any non-NULL value an uninitialised pointer holds
    AppIds, Ids, Runtimes, RuntimeVersions, Sdks, Commands,
    PrefixValues, CFlags, EnvNames, EnvValues,
    FinishArgs,      \* finish-args arrays
    ModuleLists,     \* "modules" arrays (see FlatpakPrimaryModule)
    ConfigOptsOf,    \* module name -> its "config-opts" array or Absent
    Arch,            \* flatpak_get_default_arch ()
    DirName, Names, TopLengths, NestedLengths

P == INSTANCE FlatpakPrimaryModule WITH modules <- <<>>

Opt(S) == S \cup {Absent}

BuildOptions ==
    [prefix : Opt(PrefixValues), cflags : Opt(CFlags), cxxflags : Opt(CFlags),
     env : [EnvNames -> Opt(EnvValues)]]

Manifests ==
    {Unparsable} \cup
    [appId : Opt(AppIds), id : Opt(Ids), runtime : Opt(Runtimes),
     runtimeVersion : Opt(RuntimeVersions), sdk : Opt(Sdks),
     modules : Opt(ModuleLists), buildOptions : Opt(BuildOptions),
     command : Opt(Commands), finishArgs : Opt(FinishArgs)]

\* The NULL load_from_file returns for a file that is not a manifest.
NoConfig == "NULL"

VARIABLES
    manifest,   \* the file's content
    uninit,     \* what the uninitialised "prefix" holds (NullPtr or Garbage)
    readOk      \* the second read of the file, for the config id, succeeds

vars == <<manifest, uninit, readOk>>

\* Lines 178-200: reject an unparsable file, a non-object root, and a
\* manifest lacking both "app-id" and "id", or "runtime", "sdk", "modules".
IsManifest(m) ==
    /\ m # Unparsable
    /\ m.appId # Absent \/ m.id # Absent
    /\ m.runtime # Absent /\ m.sdk # Absent /\ m.modules # Absent

\* Lines 211-219 with line 152: the prefix a manifest gives, or what the
\* uninitialised local holds.
load_prefix(m, u) ==
    IF m.buildOptions # Absent /\ m.buildOptions.prefix # Absent
    THEN m.buildOptions.prefix ELSE u

\* Lines 221-253: the environment, CFLAGS and CXXFLAGS first (set even when
\* empty), then every "env" member with a non-empty value, later ones
\* overriding CFLAGS and CXXFLAGS of the same name.
load_environment(m) ==
    IF m.buildOptions = Absent THEN NullPtr
    ELSE LET bo == m.buildOptions
             flags == (IF bo.cflags # Absent THEN "CFLAGS" :> bo.cflags ELSE <<>>)
                      @@ (IF bo.cxxflags # Absent THEN "CXXFLAGS" :> bo.cxxflags ELSE <<>>)
             envSet == {n \in EnvNames : bo.env[n] \notin {Absent, ""}}
         IN [n \in envSet |-> bo.env[n]] @@ flags

\* Lines 258-261: "master" when runtime-version is missing or empty.
\* A mutant of load_branch: only a missing runtime-version gives "master".
load_branch_absentonly(m) ==
    IF m.runtimeVersion = Absent THEN "master" ELSE m.runtimeVersion

load_branch(m) ==
    IF m.runtimeVersion \in {Absent, ""} THEN "master" ELSE m.runtimeVersion

\* Lines 272-287: the non-empty finish-args, or NULL without the member.
load_finish_args(m) ==
    IF m.finishArgs = Absent THEN NullPtr
    ELSE SelectSeq(m.finishArgs, LAMBDA a : a # "")

\* Lines 289-292: "app-id" takes precedence over "id".
load_app_id(m) == IF m.appId # Absent THEN m.appId ELSE m.id

\* Lines 294-318: name and config-opts of the module guess_primary_module
\* picks, if it is an object.
load_primary(m) ==
    LET pm == P!guess_primary_module(m.modules, TRUE)
    IN IF pm.obj THEN [name |-> pm.name, opts |-> ConfigOptsOf[pm.name]]
       ELSE [name |-> NullPtr, opts |-> Absent]

\* Lines 320-341: the config id is the file name with the SHA-1 of the
\* content when the file can be read again, the bare file name otherwise.
load_id(m, ok) == IF ok THEN <<"manifest.json", m>> ELSE <<"manifest.json">>

\* gbp_flatpak_configuration_load_from_file, lines 139-369.
load_from_file(m, u, ok) ==
    IF ~IsManifest(m) THEN NoConfig
    ELSE LET pfx == load_prefix(m, u)
             prim == load_primary(m)
         IN [appId     |-> load_app_id(m),
             branch    |-> load_branch(m),
             platform  |-> m.runtime,
             runtimeId |-> <<m.runtime, Arch, load_branch(m)>>,
             sdk       |-> m.sdk,
             prefix    |-> IF pfx # NullPtr THEN pfx ELSE "/app",
             id        |-> load_id(m, ok),
             primary   |-> prim.name,
             command   |-> IF m.command # Absent THEN m.command ELSE NullPtr,
             finishArgs  |-> load_finish_args(m),
             environment |-> load_environment(m),
             configOpts  |-> IF prim.opts # Absent THEN prim.opts ELSE NullPtr]

\* The file load_from_file reads, the garbage its uninitialised prefix
\* holds, and whether the second read succeeds.
ManifestInit ==
    /\ manifest \in Manifests
    /\ uninit \in {NullPtr, Garbage}
    /\ readOk \in BOOLEAN

config == load_from_file(manifest, uninit, readOk)

-----------------------------------------------------------------------------
(* What the manifest format means for each field the function fills in:  *)
(* a reference written from the format, member by member.                 *)

RefApp(m) == CHOOSE a \in {m.appId, m.id} \ {Absent} :
                 m.appId # Absent => a = m.appId
\* The runtime branch: a non-empty "runtime-version", else "master".
RefBranch(m) == CHOOSE b \in {m.runtimeVersion, "master"} \ {Absent, ""} :
                    m.runtimeVersion \notin {Absent, ""} => b = m.runtimeVersion
\* The value of variable n in the build environment: a non-empty "env"
\* member, else the "cflags"/"cxxflags" option it stands for.
RefEnvVar(bo, n) ==
    LET flag == [CFLAGS |-> bo.cflags, CXXFLAGS |-> bo.cxxflags]
    IN IF n \in EnvNames /\ bo.env[n] \notin {Absent, ""} THEN bo.env[n]
       ELSE IF n \in DOMAIN flag THEN flag[n] ELSE Absent
RefEnv(m) ==
    IF m.buildOptions = Absent THEN NullPtr
    ELSE LET bo == m.buildOptions
             names == {n \in EnvNames \cup {"CFLAGS", "CXXFLAGS"} :
                          RefEnvVar(bo, n) # Absent}
         IN [n \in names |-> RefEnvVar(bo, n)]
RefOpts(m) ==
    LET pm == P!ReferencePrimary(m.modules)
    IN IF pm.obj /\ ConfigOptsOf[pm.name] # Absent
       THEN ConfigOptsOf[pm.name] ELSE NullPtr
RefArgs(m) ==
    IF m.finishArgs = Absent THEN NullPtr
    ELSE LET keep == {i \in DOMAIN m.finishArgs : m.finishArgs[i] # ""}
         IN [j \in 1..Cardinality(keep) |->
                m.finishArgs[CHOOSE i \in keep :
                    Cardinality({k \in keep : k <= i}) = j]]

\* load_from_file turns every complete manifest, and only those, into a
\* configuration whose app id, branch, runtime id, finish-args, build
\* environment and configure options are what the manifest's members
\* mean (the prefix is PrefixDefaultsToApp's matter).
ConfigFromManifest ==
    IF ~IsManifest(manifest) THEN config = NoConfig
    ELSE /\ config.appId = RefApp(manifest)
         /\ config.runtimeId = <<manifest.runtime, Arch, RefBranch(manifest)>>
         /\ config.finishArgs = RefArgs(manifest)
         /\ config.environment = RefEnv(manifest)
         /\ config.configOpts = RefOpts(manifest)

\* The configuration's install prefix is the manifest's build-options
\* prefix, or "/app" without one (line 352): the code reads the
\* uninitialised local "prefix" when build-options has no prefix member.
PrefixDefaultsToApp ==
    IsManifest(manifest) =>
        config.prefix = IF manifest.buildOptions # Absent
                           /\ manifest.buildOptions.prefix # Absent
                        THEN manifest.buildOptions.prefix ELSE "/app"

=============================================================================
