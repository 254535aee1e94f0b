CONSTANTS
    Names <- MCNames
    Deps <- MCDeps
    Registered = {"a", "c", "x", "y"}
    Threads = {t1, t2}
    MaxCalls = 2
    MaxFails = 1
    Features = {1, 3, 5}
    PluginFeatures <- MCPluginFeatures
    Lists <- MCLists
    Infos = {i1, i2}
    MaxDiscoChanges = 3
    Messages = {m1, m2}
    Ids = {1, 2}
    Parsed <- MCParsed
    MaxSets = 2
SPECIFICATION MCSpec
SYMMETRY MCSymmetry
INVARIANTS OrderTopological InitFindsDeps LoadingHeld ShutdownReversed FeaturesKept LastSetWins
CHECK_DEADLOCK FALSE
