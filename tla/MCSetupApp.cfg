\* A second URL the repository may have been added with before.
SPECIFICATION FairSpec
CONSTANTS
    Versions = {t1}
    Page = Page
    NoVersion = NoVersion
    Machines <- MCMachines
    Releases = {v1, v2}
    Channels = {stable}
    Urls = {u1, u2}
    Procs = {p1, p2}
    NoRelease = NoRelease
    NoChannel = NoChannel
    NoUrl = NoUrl
    Garbled = Garbled
    NoProc = NoProc
    PresetUrl = u1
    DefaultChannel = stable
    Workflows <- MCWorkflows
INVARIANTS
    TypeOK
    CacheIsVerified
    ReadyHasRelease
PROPERTIES
    SetupRecovers
