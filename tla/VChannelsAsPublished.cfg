SPECIFICATION Spec
CONSTANTS
    c1 = c1
    c2 = c2
    r1 = r1
    r2 = r2
    stable = stable
    Requests = {q1, q2}
    NoRequest = NoRequest
    Releases = {r1, r2}
    NoRelease = NoRelease
    Channels = {stable}
    Commits = {c1, c2}
    NoCommit = NoCommit
    Older <- MCOlder
    Config <- MCConfig
    InitialCommit = NoCommit
    FirstRelease = r1
    Idents = {1, 2, 3, 4, 5, 6, 7}
    Dues <- MCFewDues
    MaxRoot = 1
    MaxRequests = 2
    PeriodicCost = 1
    MaxAbandons = 0
    MaxFaults = 0
    MaxCrashes = 0
SYMMETRY Symmetry
INVARIANTS
    ChannelsAsPublished
CHECK_DEADLOCK FALSE
