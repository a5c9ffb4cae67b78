SPECIFICATION FairPasses
CONSTANTS
    Host = {s1}
    Name = {1, 2}
    MaxTicks = 1
    MaxGenerations = 1
    MaxFaults = 0
    Absent = Absent
PROPERTY ReadyDispatched
