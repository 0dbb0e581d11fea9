\* One request at a time, any call may fail.
SPECIFICATION Spec
CONSTANTS
    e1 = e1
    e2 = e2
    n1 = n1
    n2 = n2
    s1 = s1
    Emails = {e1, e2}
    Subs = {b1, b2}
    Usernames = {n1, n2}
    Slugs = {s1}
    Username <- Names
    Slug <- SharedSlug
    Keys = {k1, k2, k3, k4, k5}
    NoKey = NoKey
    Handlers = {h1}
    Faults = TRUE
SYMMETRY Symmetry
PROPERTY MissingSecretsAreCreated
CHECK_DEADLOCK FALSE
