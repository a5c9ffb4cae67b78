SPECIFICATION FairSpec
CONSTANTS
    Creator = {c1, c2}
    OldRuntime = {o1}
    Name = {n1, n2}
    Definition = {d1, d2}
    Nonce = {x1, x2}
    MaxProcesses = 1
    MaxArchived = 1
    MaxGenerations = 1
    MaxFaults = 2
    None = None
    OldMarker = OldMarker
INVARIANTS CreationExclusive ClaimsKept
PROPERTIES NeverRewound InterruptedResumes
