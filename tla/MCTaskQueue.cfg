\* The queue AddTask fills, without restarts or storage errors.
SPECIFICATION FairSpec
CONSTANTS
    Tasks = {t1, t2, t3}
    NoTask = NoTask
    Entries <- MCBothEntries
    ReadOps <- NoReads
    HistoryLimits <- MCHistoryLimits
    TaskChanSize = 2
    MaxCrashes = 0
    MaxFaults = 0
INVARIANTS
    TypeOK
    NoOrphanLogs
PROPERTIES
    EveryTaskEnds
