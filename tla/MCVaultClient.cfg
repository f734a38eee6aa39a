\* Tasks enough for every attempt of both calls, and one of somebody else.
SPECIFICATION FairSpec
CONSTANTS
    Tasks = {t1, t2, t3, t4, o1}
    OtherTasks = {o1}
    NoTask = NoTask
    Clients = {c1, c2}
    MaxAttempts = 1
INVARIANTS
    TypeOK
    SuccessIsSingle
PROPERTIES
    CallsEnd
CHECK_DEADLOCK FALSE
