SPECIFICATION FairSpec
CONSTANTS
    Plan <- ReadThenWrite
    c1 = c1
    c2 = c2
    c3 = c3
    Config = {c1, c2, c3}
    Mode <- Journaling
    Peers <- Agreeing
    Plain = Plain
    MaxGenerations = 2
    MaxEntries = 2
    None = None
INVARIANTS NeverReissued Reopenable ReceiptMatchesJournal HistoryAccepted
PROPERTIES HistoryGrows ImplementsDurable RecoveryConverges
