CONSTANTS
    Procs = {p1}
    Requests = {q1, q2}
    NoSync = NoSync
    LockMayLapse = FALSE
    MaxSyncs = 3
    MaxRestarts = 2
SPECIFICATION Spec
INVARIANT LiveSyncIsRegistered
PROPERTIES ImplementsLifecycle NothingStaysStranded
