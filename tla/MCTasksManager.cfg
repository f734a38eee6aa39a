\* Restarts, storage errors and status lookups; two tasks, the second of which
\* is the one a busy manager refuses and a restarted one accepts.
SPECIFICATION Spec
CONSTANTS
    Tasks = {t1, t2}
    NoTask = NoTask
    Entries <- MCEntries
    ReadOps <- MCReadOps
    HistoryLimits <- MCHistoryLimits
    TaskChanSize = 1
    MaxCrashes = 2
    MaxFaults = 1
SYMMETRY Symmetry
INVARIANTS
    OneTaskInHand
    RecordsAreInHand
    CallbacksFindRecord
    LookupNeverMisses
    StrayFuncsFailed
PROPERTIES
    LifecycleSpec
    HistoryBounded
