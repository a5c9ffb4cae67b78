SPECIFICATION FairSpec
CONSTANTS
    Worker = {w1, w2}
    Event = {1, 2}
    Body = {1, 2}
    DueAt <- MCDueAt
    Legacy = {2}
    MaxEvents = 2
    Horizon = 0
    MaxMessages = 1
    MaxTime = 1
    MaxFaults = 1
    None = None
INVARIANTS NoFalseAlarm AnswersHold PostedAsAdmitted
PROPERTY IntentDelivered
