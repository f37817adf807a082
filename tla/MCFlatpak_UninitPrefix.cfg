CONSTANTS
    Absent = Absent
    Unparsable = Unparsable
    NullPtr = NullPtr
    Garbage = Garbage
    AppIds = {"org.app"}
    Ids = {"org.id"}
    Runtimes = {"org.gnome.Platform"}
    RuntimeVersions = {"", "3.24"}
    Sdks = {"org.gnome.Sdk"}
    Commands = {"app"}
    PrefixValues = {"/usr"}
    CFlags = {"", "-O2"}
    EnvNames = {"CFLAGS"}
    EnvValues <- MCEnvValues
    FinishArgs <- MCFinishArgs
    ModuleLists <- MCModuleLists
    ConfigOptsOf <- MCConfigOptsOf
    Arch = "x86_64"
    DirName = "proj"
    Names = {"proj", "lib"}
    TopLengths = {0, 1, 2, 3}
    NestedLengths = {0, 2}
    BuildPath = "/build"
    BinaryPath = "/app/bin/app"
    RequireVersionArgs = {"--require-version=0.8.0"}
SPECIFICATION LoaderSpec
INVARIANT PrefixDefaultsToApp
