\* Two deletions at a time, any call may fail.
SPECIFICATION Spec
CONSTANTS
    Creators = {c1, c2}
    Deleters = {d1, d2}
    Objects = {o1, o2}
    Stamps = {s1, s2, s3}
    NoStamp = NoStamp
    Gone = Gone
SYMMETRY Symmetry
INVARIANTS
    SettledUploadsKept
    VisibleProjectIsWhole
    RecordsLeadToData
PROPERTIES
    RecordedBackupsAreFinal
    HalfCreatedIsFinal
    HalfDeletedIsFinal
CHECK_DEADLOCK FALSE
