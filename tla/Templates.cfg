\* Two tools and a project, two modifications, one call that fails or one restart.
SPECIFICATION Spec
CONSTANTS
    python = python
    gpu = gpu
    spot = spot
    Projects = {p1}
    Tools = {t1, t2}
    Runtimes = {python}
    Capabilities = {gpu}
    Documents <- OneCapability
    Content <- Written
    Fields = {"tolerations"}
    Starts <- SomeStarts
    None = None
    LabelNames = {"gpu"}
    LabelValues = {"", "yes"}
    Creators = {c1}
    MaxChanges = 2
    MaxFaults = 1
SYMMETRY Symmetry
INVARIANT UpToDate
INVARIANT TolerationsAreSchedulable
PROPERTY ChoiceIsKept
