CONSTANTS
    MaxLoads = 8
    UnloadWhileRunning = TRUE
    Views = {v1, v2}
    NoView = NoView
    NoLang = NoLang
    Langs = {"c", "python", NoLang}
    Lines = {1}
    BreakTypes = {1, 2}
    MaxRenderers = 3
SPECIFICATION DebuggerSpec
INVARIANT ControlsOnlyWhileDebugging
