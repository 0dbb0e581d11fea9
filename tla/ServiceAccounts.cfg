\* Two workers at a time; three users, two of them with one slug.
SPECIFICATION FairSpec
CONSTANTS
    ann = ann
    annBis = annBis
    bob = bob
    s1 = s1
    s2 = s2
    Users = {ann, annBis, bob}
    Slugs = {s1, s2}
    Slug <- Usernames
    Workers = {w1, w2}
    None = None
INVARIANT AccountsHaveTokens
PROPERTIES
    TokenlessForGood
    KubeconfigIsKept
    EveryUserServed
