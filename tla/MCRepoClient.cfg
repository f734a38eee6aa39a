SPECIFICATION Spec
CONSTANTS
    Releases = {v1, v2}
    Channels = {stable}
    Urls = {u1}
    Procs = {p1, p2}
    NoRelease = NoRelease
    NoChannel = NoChannel
    NoUrl = NoUrl
    Garbled = Garbled
    Uses = {"update", "update-version", "bin-path"}
    Autoclean = {TRUE}
    Modes = {"no"}
SYMMETRY Symmetry
VIEW View
CONSTRAINT FirstRace
INVARIANTS
    TypeOK
    ChannelHasRelease
    PinnedHasRelease
    HandedOutKept
    SomebodyMoves
PROPERTY
    LocalSpec
