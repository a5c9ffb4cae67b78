SPECIFICATION FairHabitat
CONSTANTS
    Host = {h1, h2}
    N = 3
    Plan <- MCPlan
    Manifest = {"m1", "m2"}
    Ceiling <- MCCeiling
    Cost <- MCCost
    Limits <- MCLimits
    MaxFaults = 1
    Done = Done
    Broken = Broken
    None = None
INVARIANTS RecordAccepted RecordsAgree
PROPERTIES ScheduleFinishes
