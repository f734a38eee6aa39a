SPECIFICATION Spec
CONSTANTS
    Tasks = {t1, t2}
    NoTask = NoTask
    Entries <- MCEntries
    ReadOps <- NoReads
    HistoryLimits <- MCHistoryLimits
    TaskChanSize = 1
    MaxCrashes = 0
    MaxFaults = 0
SYMMETRY Symmetry
PROPERTY HistoryKept
