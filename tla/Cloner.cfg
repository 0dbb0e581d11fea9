\* One project, three goroutines at once, two faults and one restart.
SPECIFICATION FairSpec
CONSTANTS
    Projects = {p1}
    Slots = {s1, s2, s3}
    NoProject = NoProject
    MaxFaults = 2
    MaxCrashes = 1
PROPERTIES
    CloneIsKept
    AbandonedForGood
    FailuresAreRetried
