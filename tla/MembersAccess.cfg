\* Two handlers at once and a visit to the project's tools: the caller, and one
\* more user it can name.
SPECIFICATION AccessSpec
CONSTANTS
    Users = {u1, u2}
    Levels <- ThreeLevels
    NonMember = NonMember
    Requests = {r1, r2}
    Visits = {v1}
SYMMETRY Symmetry
INVARIANTS
    DuplicatesBounded
    FirstEntryDecides
    AnswersWereRight
PROPERTIES
    FreshCommitIsAtomic
    LosingAdminsIsFinal
\* A project that lost its last admin accepts no further request.
CHECK_DEADLOCK FALSE
