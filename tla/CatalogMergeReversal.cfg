CONSTANTS
    Items = {1, 2, 3}
    Kind <- KindOf
    Rows = {r1}
    Keys = {}
    Caches = {}
    AliasOf <- ReleaseAlias
    Txns = {w1}
    MaxStamp = 5
SPECIFICATION Spec
INVARIANTS ExactReversal
CHECK_DEADLOCK FALSE
