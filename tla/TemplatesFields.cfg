\* Two tools of different capabilities, one modification, no call that fails.
SPECIFICATION Spec
CONSTANTS
    python = python
    gpu = gpu
    spot = spot
    Projects = {}
    Tools = {t1, t2}
    Runtimes = {python}
    Capabilities = {gpu, spot}
    Documents <- OwnField
    Content <- Written
    Fields = {"nodeSelector", "tolerations"}
    Starts <- AllNamed
    None = None
    LabelNames = {"gpu"}
    LabelValues = {"", "yes"}
    Creators = {c1}
    MaxChanges = 1
    MaxFaults = 0
INVARIANT NoForeignFields
