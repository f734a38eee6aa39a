SPECIFICATION Spec
CONSTANTS
    c1 = c1
    c2 = c2
    r1 = r1
    r2 = r2
    stable = stable
    Requests = {q1}
    NoRequest = NoRequest
    Releases = {r1, r2}
    NoRelease = NoRelease
    Channels = {stable}
    Commits = {c1, c2}
    NoCommit = NoCommit
    Older <- MCOlder
    Config <- MCConfig
    InitialCommit = NoCommit
    FirstRelease = r1
    Idents = {1, 2, 3, 4, 5, 6, 7}
    Dues <- MCAllDues
    MaxRoot = 2
    MaxRequests = 0
    PeriodicCost = 0
    MaxAbandons = 0
    MaxFaults = 0
    MaxCrashes = 1
SYMMETRY Symmetry
INVARIANTS
    RootChainUnbroken
