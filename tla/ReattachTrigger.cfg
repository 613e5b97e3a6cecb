CONSTANTS
    Parts = {"ledger", "trigger"}
    Replicas = {p1, p2}
    Pollers = {p1, p2}
    Runners = {p1}
    MaxWrites = 1
    MaxResets = 1
    MaxFailures = 1
    MaxVersion = 2
SPECIFICATION MaintenanceSpec
INVARIANTS StoredIsShown OneCompletedRun HandledRunIsShown
PROPERTIES PolledLedgerCatchesUp NewestIsHandled
CHECK_DEADLOCK FALSE
