SPECIFICATION FairSpec
CONSTANTS
    c1 = c1
    c2 = c2
    r1 = r1
    r2 = r2
    stable = stable
    Requests = {q1}
    NoRequest = NoRequest
    Releases = {r1, r2}
    NoRelease = NoRelease
    Channels = {stable}
    Commits = {c1, c2}
    NoCommit = NoCommit
    Older <- MCOlder
    Config <- MCConfig
    InitialCommit = c1
    FirstRelease = r1
    Idents = {1, 2, 3, 4, 5, 6, 7}
    Dues <- MCSomeDues
    MaxRoot = 2
    MaxRequests = 1
    PeriodicCost = 0
    MaxAbandons = 0
    MaxFaults = 1
    MaxCrashes = 1
PROPERTIES
    MetadataHeals
