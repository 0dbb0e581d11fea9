\* Two requests for the tools and one regeneration at a time; a pod may be lost.
SPECIFICATION KeysSpec
CONSTANTS
    Handlers = {h1, h2}
    Choices = {c1}
    None = None
    MaxLosses = 1
    MaxCloses = 0
    Regenerations = {g1}
    MaxKeys = 2
SYMMETRY Symmetry
INVARIANTS
    QuietToolsHoldTheirKey
    RestartRepairsKeys
