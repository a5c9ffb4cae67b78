SPECIFICATION Spec
CONSTANTS
    Plan <- WriteThenRead
    c1 = c1
    c2 = c2
    c3 = c3
    Config = {c1, c3}
    Mode <- Journaling
    Peers <- Mixed
    Plain = Plain
    MaxGenerations = 2
    MaxEntries = 2
    None = None
INVARIANTS NeverReissued
