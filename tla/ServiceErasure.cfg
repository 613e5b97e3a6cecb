CONSTANTS
    Parts = {"activity"}
    Hosts = {h1, h2}
    Purposes = {a}
    MaxSubjects = 2
    MaxRequests = 2
    MaxDown = 2
    Askers = {1, 2}
    People = {"u"}
    Questions <- MCQuestions
    ModelCalls <- MCModelCalls
    NlqFound = {"x"}
    MaxIterations = 1
    MaxNlqFaults = 1
    Upgraded = {p1, p2}
    TokenLife = 2
    ConfiguredWindow = 1
    Margin = 1
    MaxKeyTime = 4
    MaxKeyFaults = 1
    Saves = {s1, s2, s3}
    MaxPerUser = 1
    SnapshotTtl = 2
    MaxSnapTime = 5
    MaxSnapFaults = 1
    Keys = {1, 2}
    Fillers = {w1}
    Watchers = {v1}
    Imports = 1
    MaxFills = 2
    MaxWatchFaults = 1
    Callers = {1}
    Collectors = {"u", "v"}
    Genres = {"rock"}
    Similar <- MCSimilar
    Found <- MCFound
    Identified = {"b", "rock", "release"}
    Limits = {2}
    FitTtl = 2
    ExploreTtl = 3
    SimilarTtl = 5
    MaxCalls = 2
    MaxClock = 3
    MaxShelfChanges = 1
    MaxRecFaults = 1
    Owners = {"u1", "u2"}
    Accounts = {"a1"}
    OauthCalls = {1, 2}
    MaxFlows = 2
    MaxSetups = 1
    MaxOauthFaults = 1
    Requests = {q1, q2}
    AppTokens = {t1}
    Resets = {k1}
    Expire = 1
    MinRevoked = 0
    MaxTokens = 2
    MaxChanges = 2
    MaxTime = 1
SPECIFICATION Spec
SYMMETRY Symmetry
PROPERTIES ErasureImpliesRevocation
CHECK_DEADLOCK FALSE
