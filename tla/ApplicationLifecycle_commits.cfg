SPECIFICATION FairSpec
CONSTANTS
    Client = {c1, c2}
    Op = {1, 2, 3}
    Command <- MCCommand
    Expected <- MCExpected
    Config = {k1}
    MaxStates = 2
    MaxPending = 2
    MaxApplications = 2
    MaxFaults = 1
    Survivor = c1
    None = None
INVARIANTS HistoryReadable DispatchedOnce
PROPERTIES ImplementsLifecycle PreparedResolves
