\* Two requests at a time; a pod may be lost and a watch may be closed.
SPECIFICATION FairSpec
CONSTANTS
    Handlers = {h1, h2}
    Choices = {c1, c2}
    None = None
    MaxLosses = 1
    MaxCloses = 1
INVARIANTS
    SoleStartServes
    SoleStopCompletes
PROPERTIES
    RefinesSession
    StartReturns
    StopReturns
