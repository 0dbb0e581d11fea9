\* One goroutine, no call fails, one restart of the container.
SPECIFICATION FairSpec
CONSTANTS
    Projects = {p1}
    Slots = {s1}
    NoProject = NoProject
    MaxFaults = 0
    MaxCrashes = 1
PROPERTY EveryRepoIsCloned
