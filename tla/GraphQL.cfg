\* Up to two members in the first project, one in the project of the second root
\* field; two users, batches of at most two; each user's document may be written
\* once.
SPECIFICATION FairSpec
CONSTANTS
    Ids = {k1, k2}
    Lookups <- Members
    None = None
    Error = Error
    MaxBatch = 2
    MaxVersion = 1
    Requests <- SomeRequests
    Width = 2
INVARIANTS
    EndedOnce
    WaitersAreServed
    NullsMatchFailures
    NothingOutlives
    MutationsAgree
PROPERTIES
    RefinesLookup
    Responds
CHECK_DEADLOCK FALSE
