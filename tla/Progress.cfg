CONSTANTS
    Parts = {"tree", "tracking", "reattach", "analysis"}
    TreeReplicas = {r1, r2}
    Genres = {g1}
    MaxImports = 1
    MaxTreeFaults = 1
    Extractions = {x1}
    MaxIterations = 3
    MaxStartup = 1
    MaxPollFailures = 2
    MaxRuns = 3
    MbRows = {1, 2}
    DiscogsIds = {1, 2}
    Identifiers = {1}
    Curated = {}
    MaxItems = 2
    MaxMessages = 3
    Runs = {r1, r2}
    BatchSize = 1
    MaxRunFaults = 1
    Versions = {1, 2}
    Admins = {c1, c2}
    Plans <- MCPlans
    Lines <- MCLines
    Recorded <- MCRecorded
    Entities <- MCEntities
    MemoTtl = 1
    MaxJsonlRecords = 3
    PageLength = 2
    MaxLines = 5
    MaxAsks = 2
    MaxAnalysisTime = 1
    MaxScanFaults = 1
SPECIFICATION Spec
INVARIANTS BuildsAndScansAreSafe AnalysisAddsUp
PROPERTIES MovesFollowOwnLink BackgroundWorkSettles
CHECK_DEADLOCK FALSE
