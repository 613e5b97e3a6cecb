CONSTANTS
    Items = {1, 2, 3, 5}
    Kind <- KindOf
    Rows = {r1}
    Keys = {}
    Caches = {}
    AliasOf <- ReleaseAlias
    Txns = {w1}
    MaxStamp = 5
SPECIFICATION Spec
INVARIANTS RevertNeverStuck DependentsFollow
PROPERTY RevertRestoresClass
CHECK_DEADLOCK FALSE
