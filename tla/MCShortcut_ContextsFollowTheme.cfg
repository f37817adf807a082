CONSTANTS
    win = win
    a = a
    b = b
    c = c
    k1 = k1
    t1 = t1
    t2 = t2
    Windows = {win}
    Widgets = {a}
    NoWidget = NoWidget
    Types <- MCTypes
    WidgetType <- MCWidgetType
    ActionPrefixes <- MCActionPrefixes
    WinPrefix = "win"
    AppPrefix = "app"
    ActionNames <- MCActionNames
    ActionGroup <- MCActionGroup
    NoGroup = NoGroup
    WinActions = {"save"}
    AppActions = {}
    App = App
    Popovers = {}
    RelativeTo <- MCRelativeTo
    WidgetSignals = {"activate"}
    SignalsOf <- MCSignalsOf
    ContextNames <- MCContextNames
    NoArg = NoArg
    Keys = {k1}
    Themes = {t1, t2}
    DefaultTheme = t1
    NoTheme = NoTheme
    DefaultName <- MCDefaultName
    ThemeKeymap <- MCThemeKeymap
    UseBindingSets <- MCUseBindingSets
    NoContext = NoContext
    ModeNames = {"insert"}
    MaxRefs = 3
    MaxChain = 1
    StyleKeyBindings <- MCStyleKeyBindings
    ClassKeyBindings <- MCClassKeyBindings
    NoEvent = NoEvent
SPECIFICATION Spec
INVARIANT ContextsFollowTheme
