\* Updates with TRDL_IN_BACKGROUND set; nothing else runs.
SPECIFICATION QuietSpec
CONSTANTS
    Releases = {v1}
    Channels = {stable}
    Urls = {u1}
    Procs = {p1, p2}
    NoRelease = NoRelease
    NoChannel = NoChannel
    NoUrl = NoUrl
    Garbled = Garbled
    Uses = {"update"}
    Autoclean = {TRUE, FALSE}
    Modes = {"env"}
PROPERTIES
    BackgroundUpdates
