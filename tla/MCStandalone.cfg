CONSTANTS
    NoPfx = NoPfx
    NoPrefix <- NoPfx
    AccelInputs <- MCAccelInputs
    ChordInputs <- MCChordsNoLock
    ActionIds <- MCActionIds
    SignalNames = {"move-cursor"}
    MaxChain = 2
    th1 = th1
    th2 = th2
    ThemeObjs = {th1, th2}
    DefaultObj = DefaultObj
    NoTheme = NoTheme
    NameOf <- MCNameOf
    NullName = NullName
    NameInputs = {NullName, "vim"}
    CtxNames = {"GtkEntry::default"}
    MaxContexts = 2
    Absent = Absent
    Unparsable = Unparsable
    NullPtr = NullPtr
    Garbage = Garbage
    AppIds = {"org.app"}
    Ids = {"org.id"}
    Runtimes = {"org.gnome.Platform"}
    RuntimeVersions = {"", "3.24"}
    Sdks = {"org.gnome.Sdk"}
    Commands = {"app"}
    PrefixValues = {"/usr"}
    CFlags = {"", "-O2"}
    EnvNames = {"CFLAGS"}
    EnvValues <- MCEnvValues
    FinishArgs <- MCFinishArgs
    ModuleLists <- MCModuleLists
    ConfigOptsOf <- MCConfigOptsOf
    Arch = "x86_64"
    DirName = "proj"
    Names = {"proj", "lib"}
    TopLengths = {0, 1, 2, 3}
    NestedLengths = {0, 1, 2}
    BuildPath = "/build"
    BinaryPath = "/app/bin/app"
    RequireVersionArgs = {"--require-version=0.8.0"}
    MaxLoads = 8
    UnloadWhileRunning = FALSE
    Views = {v1, v2}
    NoView = NoView
    NoLang = NoLang
    Langs = {"c", "python", NoLang}
    Lines = {1}
    BreakTypes = {1, 2}
    MaxRenderers = 3
SPECIFICATION StandaloneSpec
INVARIANT ContextTypeOK
PROPERTY ContextRefinesSpec
INVARIANT ThemesTypeOK
INVARIANT ViewMirrorsThemes
INVARIANT ConfigFromManifest
INVARIANT GuessMatchesReference
INVARIANT RunnerCommandLine
INVARIANT ControlsOnlyWhileDebugging
INVARIANT RenderersFollowViews
