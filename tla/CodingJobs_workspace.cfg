SPECIFICATION FairSpec
CONSTANTS
    Client = {c1, c2}
    Job = {1, 2, 3}
    Place <- MCPlace
    Operation <- MCOperation
    Patch = {p1}
    MaxObservations = 2
    MaxRevisions = 2
    MaxFaults = 1
    Survivor = c1
    None = None
INVARIANTS EvidenceReadable
PROPERTIES ImplementsWork OperationsResolve
