CONSTANTS
    Parts = {"strata", "explore", "rarity", "search", "fit", "score", "ledger", "projection", "hubs", "backfill", "counts"}
    Catalogs <- MCCatalogs
    MasterYear <- MCMasterYear
    Budget <- MCBudget
    PageSize = 2
    Shapes <- MCShapes
    Listings <- MCListings
    Related <- MCRelated
    MaxGraph = 2
    MaxWalks = 2
    LastYear = 2
    Limit = 1
    MinCachedTotal = 2
    Quality <- MCQuality
    Score <- MCScore
    OnLabel = {1, 3}
    FirstReleases = {1, 2, 4}
    PassSize = 2
    TierPage = 2
    MaxRarityRuns = 2
    MaxTierWalks = 1
    MaxPageFailures = 1
    Clients = {c1, c2}
    Tables <- MCTables
    Filters <- MCFilters
    SearchLimit = 2
    CountCap = 3
    PoolSize = 3
    Reserve = 1
    MaxPages = 2
    MaxSearchFaults = 1
    Catalogue <- MCCatalogue
    MediumScores <- MCMediumScores
    FamilyDefaults <- MCFamilyDefaults
    Media <- MCMedia
    RecoveredFrom <- MCRecoveredFrom
    Counts = {0, 1, 3}
    Years = {1960}
    FirstYear = 2024
    LatestYear = 2025
    DgIds = {1, 2}
    MbIds = {1}
    Barcodes = {1}
    MasterOf <- MCMasterOf
    GroupOf <- MCGroupOf
    EditionLimit = 2
    ProjectionPage = 1
    MaxTx = 4
    HubReplicas = {r1, r2}
    Stages = {g1, g2}
    MaxReleases = 3
    HubCount <- MCHubCount
    MaxHubFaults = 1
    RowIds = {1, 2, 3}
    Releases = {1, 2}
    Updates = {0, 1}
    Jobs = {1, 2}
    BatchRows = 1
    Enrichments = {e1, e2}
    Listed = {1, 2}
    BatchMax = 2
    StaleAfter = 1
    MaxRetries = 1
    MaxDays = 1
    MaxCountFaults = 1
SPECIFICATION Spec
INVARIANTS
    PagedReadsAreExact
    SearchLeavesNothingRunning
    ScoresSpeakForTheirInputs
    LedgerReadsAreTrue
    BuildsAreCurrent
PROPERTIES AbundanceNeverRaises
SYMMETRY Symmetry
CHECK_DEADLOCK FALSE
