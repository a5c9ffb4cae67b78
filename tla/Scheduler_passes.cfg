SPECIFICATION FairPasses
CONSTANTS
    Host = {s1, s2}
    Name = {1, 2}
    MaxTicks = 1
    MaxGenerations = 2
    MaxFaults = 1
    Absent = Absent
PROPERTIES WokenByMessage NeverTakenBack EligibleDispatched
