----------------------------- MODULE FlatpakRunner -----------------------------
(***************************************************************************)
(* GbpFlatpakRunner (gbp-flatpak-runner.c) running the program built from *)
(* a flatpak manifest.  gbp_flatpak_runner_new puts the program on the    *)
(* runner's argv; fixup_launcher then inserts, in front of it, "flatpak   *)
(* build --allow=devel", the sandbox options and the build directory.     *)
(* The options are the current configuration's finish-args when it is a  *)
(* GbpFlatpakConfiguration, and a fixed set otherwise.                    *)
(*                                                                         *)
(* The configuration is the one gbp_flatpak_configuration_load_from_file  *)
(* made of the manifest (FlatpakManifest).  Assumed of libide, which is   *)
(* not in this repository: IdeRunner pushes the runner's argv onto the    *)
(* launcher create_launcher returned, then calls fixup_launcher; the      *)
(* configuration manager's current configuration is either that one or a *)
(* configuration of another kind.                                         *)
(***************************************************************************)
EXTENDS FlatpakManifest

LOCAL INSTANCE SequencesExt

CONSTANTS
    BuildPath,          \* the build directory passed to gbp_flatpak_runner_new
    BinaryPath,         \* the program passed to gbp_flatpak_runner_new
    RequireVersionArgs  \* the finish-args that start with "--require-version"

\* The process the launcher starts, and the crash of reading
\* finish_args[j] through the NULL get_finish_args returns.
Launch(argv) == [crashed |-> FALSE, argv |-> argv]
Segfault == [crashed |-> TRUE, argv |-> <<>>]

VARIABLE current    \* the current configuration: "flatpak" (config) or "other"

runVars == <<vars, current>>

\* gbp_flatpak_runner_new: ide_runner_append_argv (binary_path).
runner_new(binary) == <<binary>>

\* gbp_flatpak_runner_create_launcher: a launcher with an empty argv.
create_launcher == <<>>

\* ide_subprocess_launcher_insert_argv (launcher, i++, arg) for each arg
\* in turn, i counting from 0.
insert_args(argv, args) ==
    FoldLeft(LAMBDA acc, a : [argv |-> InsertAt(acc.argv, acc.i + 1, a), i |-> acc.i + 1],
             [argv |-> argv, i |-> 0], args).argv

\* A mutant of sandbox_args: every finish-arg is passed on.
sandbox_args_all(finishArgs) == finishArgs

\* The loop over finish_args: "flatpak build" does not know
\* --require-version, so those are left out.
sandbox_args(finishArgs) == SelectSeq(finishArgs, LAMBDA a : a \notin RequireVersionArgs)

\* gbp_flatpak_runner_fixup_launcher, lines 45-87.
fixup_launcher(argv, cfg, kind) ==
    LET head == <<"flatpak", "build", "--allow=devel">>
    IN CASE kind = "other" ->
              Launch(insert_args(argv, head \o <<"--share=ipc", "--socket=x11",
                                                 "--socket=wayland", BuildPath>>))
         [] cfg.finishArgs = NullPtr -> Segfault
         [] OTHER -> Launch(insert_args(argv, head \o sandbox_args(cfg.finishArgs)
                                                    \o <<BuildPath>>))

\* The command line the runner starts for the current configuration.
command_line ==
    fixup_launcher(create_launcher \o runner_new(BinaryPath), config, current)

\* A manifest that does not load leaves another configuration current.
RunInit ==
    /\ ManifestInit
    /\ current \in IF IsManifest(manifest) THEN {"flatpak", "other"} ELSE {"other"}

RunSpec == RunInit /\ [][UNCHANGED runVars]_runVars

-----------------------------------------------------------------------------
\* The sandbox options a manifest's finish-args mean to "flatpak build":
\* its non-empty arguments but --require-version ones, in manifest order.
RefSandbox(m) ==
    LET keep == {i \in DOMAIN m.finishArgs :
                    m.finishArgs[i] \notin {""} \cup RequireVersionArgs}
    IN [j \in 1..Cardinality(keep) |->
           m.finishArgs[CHOOSE i \in keep : Cardinality({k \in keep : k <= i}) = j]]

\* The program built from a manifest with finish-args runs as "flatpak
\* build --allow=devel", the manifest's sandbox options, the build
\* directory and the program; under another configuration, with the
\* IPC, X11 and Wayland options instead (fixup_launcher, fed by
\* load_from_file's finish-args).
RunnerCommandLine ==
    /\ current = "flatpak" /\ manifest.finishArgs # Absent =>
          command_line = Launch(<<"flatpak", "build", "--allow=devel">>
                                \o RefSandbox(manifest) \o <<BuildPath, BinaryPath>>)
    /\ current = "other" =>
          command_line = Launch(<<"flatpak", "build", "--allow=devel", "--share=ipc",
                                  "--socket=x11", "--socket=wayland", BuildPath, BinaryPath>>)

\* Running the program of any manifest load_from_file accepts starts a
\* process: fixup_launcher never reads through a NULL finish-args array
\* (a manifest may leave "finish-args" out, lines 272-287 allow it).
RunnerNeverCrashes == ~command_line.crashed

=============================================================================
