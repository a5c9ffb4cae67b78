SPECIFICATION Spec
CONSTANTS
    Client = {p1, p2}
    Key = {1, 2, 3}
    Body = {b1, b2}
    Nonce = {x1, x2}
    MaxMessages = 2
    None = None
SYMMETRY Symmetry
INVARIANTS CapabilitiesAdmitted ClaimBinds AcceptedKept
PROPERTY ImplementsChannel
CHECK_DEADLOCK FALSE
