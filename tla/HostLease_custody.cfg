SPECIFICATION FairSpec
CONSTANTS
    Actor = {a1, a2}
    OldRuntime = {o1}
    Nonce = {n1, n2, n3}
    MaxOwners = 2
    MaxPolls = 1
    NoActor = NoActor
    NoMarker = NoMarker
    OldMarker = OldMarker
INVARIANTS MutualExclusion EvidenceRetained MarkerIsMine
PROPERTIES ImplementsCustody Answered
