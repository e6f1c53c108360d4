SPECIFICATION FairSpec
CONSTANTS
    Sessions = {1, 2}
    Dirs = {"a", "ab", "abc", "e"}
    Root = ""
    Parent <- MCParent
    MaxGeneration = 4
    MaxAsks = 3
    Paths = {"p", "q"}
    PaneSessions = {"s", "t"}
    Able = {"t"}
    MaxEffects = 3
    MaxSockets = 3
    Keys = {"ctrl", "shift", "k", "s", "t", "f1", "!"}
    Commands = {"commandPalette.toggle", "zed.openKeymap", "file.save", "file.closeEditor",
                "themeSelector.toggle", "workspace.toggleAllDocks",
                "editPrediction.toggleMenu"}
    Queries = {"", "q"}
    Matching <- MCMatching
    BarModes = {"tasks", "terminal"}
    BuiltIn <- MCBuiltIn
    MayFail <- MCMayFail
    Fallback <- MCFallback
    Packs <- MCPacks
    OneDark = {"oneDark", "fallbackDark"}
    Dark = {"oneDark", "fallbackDark", "ayuDark", "m1"}
    Starts = {1, 2}
    Published = TRUE
    ProjectKeys = {"k", "l"}
    Crosses = FALSE
    MaxQueue = 2
    MaxCalls = 1
    Tokens <- MCTokens
    Arrays <- MCArrays
    MaxTokens = 3
    MaxUint = 2000
    Chars = {"ascii", "accent", "emoji", "newline", "mark"}
    Utf8 <- MCUtf8
    Utf16 <- MCUtf16
    Newline = "newline"
    Mark = "mark"
    Files <- MCFiles
    Inserted <- MCInserted
    InitialBytes = 3
    ChunkBytes = 2
    MaxBatches = 2
    MaxLength = 3
INVARIANTS
    TypeOK ChordRuns ThemesKept TreeCurrent TokensExact TextExact EditorCurrent BinaryWhole
    BackupsApart
PROPERTIES
    ExpandSettles LoaderSettles OneShell
CHECK_DEADLOCK FALSE
