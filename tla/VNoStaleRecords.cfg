SPECIFICATION Spec
CONSTANTS
    Tasks = {t1, t2}
    NoTask = NoTask
    Entries <- MCEntries
    ReadOps <- NoReads
    HistoryLimits <- MCHistoryLimits
    TaskChanSize = 1
    MaxCrashes = 1
    MaxFaults = 1
SYMMETRY Symmetry
INVARIANT NoStaleRecords
