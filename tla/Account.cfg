CONSTANTS
    Parts = {"two_factor", "list"}
    Requests = {q1, q2}
    Challenges = {j1, j2}
    Codes = {c1, c2}
    LockThreshold = 3
    MaxSetups = 2
    MaxAttempts = 4
    Entries = {e1, e2, e3}
    InGraph = {e1, e2}
    PageSize = 1
    MaxRetries = 1
    MaxRuns = 2
SYMMETRY Symmetry
SPECIFICATION AccountSpec
INVARIANTS
    NoPermanentLockout
    OneTokenPerChallenge
    CodeRedeemedOnce
    CompletedRunMirrors
    EventsFollowRows
PROPERTIES LiveSecretIsKept AdditionsAreSafe
