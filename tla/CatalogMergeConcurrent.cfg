CONSTANTS
    Items = {1, 2, 3}
    Kind <- KindOf
    Rows = {r1}
    Keys = {release, barcode}
    Caches = {entity}
    AliasOf <- ReleaseAlias
    Txns = {w1, w2}
    MaxStamp = 3
SPECIFICATION Spec
SYMMETRY Interchangeable
INVARIANTS OneHop NoWaitCycle
PROPERTIES NoDependentLeftBehind CachesFollowAliases
CHECK_DEADLOCK FALSE
