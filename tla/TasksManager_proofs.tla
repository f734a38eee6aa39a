------------------------ MODULE TasksManager_proofs ------------------------
(***************************************************************************)
(* Proofs about the tasks manager, for every value of its constants.       *)
(***************************************************************************)
EXTENDS TasksManager, SequenceTheorems, FiniteSetTheorems, TLAPS

InChan(t) == \E i \in 1 .. Len(taskChan) : taskChan[i] = t

\* Which steps each holder of Manager.mu goes through.
MuShape ==
    /\ mu.op \in Requests => mu.op \in Entries /\ mu.at \in {"invalidate", "delete", "admit", "send"}
    /\ mu.op = "TaskStarted" => mu.at = "delete"
    /\ mu.op = "TaskCompleted" => mu.at \in {"log", "delete"}
    /\ mu.op = "Periodic" => mu.at \in {"clean", "cleanlog"}
    /\ mu.op = "none" => mu = Free
    /\ mu.at \in {"send", "log", "delete", "cleanlog"} => mu.task \in Tasks

\* A callback that holds Manager.mu is the worker's, about its current job.
WorkerShape ==
    /\ wpc # "idle" => job \in Tasks
    /\ wpc = "finishing" => result \in {"SUCCEEDED", "FAILED"}
    /\ mu.op = "TaskStarted" => wpc = "starting" /\ mu.task = job
    /\ mu.op = "TaskCompleted" => wpc = "finishing" /\ mu.task = job

Invalidating == mu.op \in Requests /\ mu.at \in {"invalidate", "delete"}

\* Records are invalidated before any task is accepted.
NothingInHand == taskChan = <<>> /\ wpc = "idle"

FreshManager ==
    /\ ~storageSet => NothingInHand /\ mu.op \in {"none", "Periodic"} /\ ~invalidated
    /\ Invalidating => NothingInHand /\ ~invalidated

\* What invalidateStorage has still to replace is what it has listed: a task
\* with two records is listed twice and replaced twice.
Listed(t)      == <<t, "RUNNING">> \in mu.todo \/ <<t, "QUEUED">> \in mu.todo
ListedTwice(t) == <<t, "RUNNING">> \in mu.todo /\ <<t, "QUEUED">> \in mu.todo
Deleting(t)    == mu.at = "delete" /\ mu.task = t

InvalidationCovers ==
    Invalidating =>
        /\ mu.todo \subseteq Tasks \X {"RUNNING", "QUEUED"}
        /\ \A t \in Tasks :
             IF Deleting(t)
             THEN /\ t \in queued \cup running
                  /\ Listed(t) <=> t \in queued \cap running
                  /\ ~ListedTwice(t)
             ELSE /\ Listed(t) <=> t \in queued \cup running
                  /\ ListedTwice(t) <=> t \in queued \cap running

\* Records of issued UUIDs only; a task on its way has the record its stage
\* calls for.
RecordsIssued == queued \cup running \cup Completed \subseteq issued

StagesHaveRecords ==
    /\ \A i \in 1 .. Len(taskChan) : taskChan[i] \in queued \ running
    /\ mu.at = "send" => mu.task \in queued \ running
    /\ wpc = "starting" => job \in queued
    /\ mu.op = "TaskStarted" => job \in running
    /\ wpc = "starting" /\ mu.op # "TaskStarted" => job \notin running
    /\ wpc \in {"running", "finishing"} => job \in running \ queued

\* No task is twice on its way, and a finished one not at all.
StagesDisjoint ==
    /\ \A i, j \in 1 .. Len(taskChan) : taskChan[i] = taskChan[j] => i = j
    /\ mu.at = "send" => ~InChan(mu.task) /\ (wpc # "idle" => mu.task # job)
    /\ wpc # "idle" => ~InChan(job) /\ job \in issued

\* The verdict is written before the record it replaces is deleted.
VerdictWritten ==
    /\ mu.op \in Requests /\ mu.at = "delete" => completed[mu.task] = "CANCELED"
    /\ mu.op = "TaskCompleted" => completed[mu.task] = result

\* How far a status lookup got, and what it therefore knows.
StatusLookup ==
    /\ reader.op = "none" => reader = NoReader
    /\ reader.op = "status" =>
         /\ reader.task \in issued
         /\ \/ reader.rest = <<"queued", "running", "completed">>
            \/ reader.rest = <<"running", "completed">> /\ reader.task \notin queued
            \/ reader.rest = <<"completed">> /\ reader.task \notin queued \cup running
            \/ reader.rest = <<>> /\ (reader.found \/ ~Stored(reader.task))

IInv ==
    /\ TypeOK
    /\ MuShape
    /\ WorkerShape
    /\ FreshManager
    /\ InvalidationCovers
    /\ RecordsIssued
    /\ StagesHaveRecords
    /\ StagesDisjoint
    /\ RecordsAreInHand
    /\ OneTaskInHand
    /\ VerdictWritten
    /\ StatusLookup

USE TasksAssumption

-----------------------------------------------------------------------------
(* The channel *)

LEMMA TailIsChan ==
    ASSUME NEW S, NEW s \in Seq(S), s # <<>>
    PROVE  /\ Tail(s) \in Seq(S)
           /\ Len(Tail(s)) = Len(s) - 1
           /\ Head(s) = s[1] /\ Head(s) \in S
           /\ \A i \in 1 .. Len(Tail(s)) : Tail(s)[i] = s[i + 1]
BY HeadTailProperties

LEMMA AppendIsChan ==
    ASSUME NEW S, NEW s \in Seq(S), NEW e \in S
    PROVE  /\ Append(s, e) \in Seq(S)
           /\ Len(Append(s, e)) = Len(s) + 1
           /\ \A i \in 1 .. Len(s) : Append(s, e)[i] = s[i]
           /\ Append(s, e)[Len(s) + 1] = e
BY AppendProperties

-----------------------------------------------------------------------------
(* Types *)

\* Used to prove that steps keep the types: the shape of Manager.mu tells
\* which of its fields a step reads.
TypeInv == TypeOK /\ MuShape /\ WorkerShape

LEMMA LookupIsPlaces ==
    ASSUME NEW op \in {"status", "list", "log"}
    PROVE  Lookup[op] \in Seq(Places)
<1>1. <<"queued", "running", "completed">> \in Seq(Places)
  BY DEF Places
<1>2. <<"completed", "running", "queued">> \in Seq(Places)
  BY DEF Places
<1>3. <<"job", "completed", "queued">> \in Seq(Places)
  BY DEF Places
<1>4. CASE op = "status"
  BY <1>1, <1>4 DEF Lookup
<1>5. CASE op = "list"
  BY <1>2, <1>5 DEF Lookup
<1>6. CASE op = "log"
  BY <1>3, <1>6 DEF Lookup
<1> QED
  BY <1>4, <1>5, <1>6

LEMMA NoReaderIsReader == NoReader \in Reader
<1>1. <<>> \in Seq(Places)
  OBVIOUS
<1> QED
  BY <1>1 DEF NoReader, Reader

LEMMA TypeInit == Init => TypeInv
<1> SUFFICES ASSUME Init PROVE TypeInv
  OBVIOUS
<1> USE DEF Init, Free, MuOps, MuSteps, Requests, Callbacks
<1>1. StorageTypeOK
  BY DEF StorageTypeOK, Absent, Terminal
<1>2. mu \in Mutex
  BY DEF Mutex
<1>3. taskChan \in Seq(Tasks) /\ Len(taskChan) <= TaskChanSize
  OBVIOUS
<1>4. ManagerTypeOK
  BY <1>2, <1>3 DEF ManagerTypeOK
<1>5. WorkerTypeOK
  BY DEF WorkerTypeOK, Absent
<1>6. LookupTypeOK
  BY NoReaderIsReader DEF LookupTypeOK
<1>7. MuShape /\ WorkerShape
  BY DEF MuShape, WorkerShape
<1> QED
  BY <1>1, <1>4, <1>5, <1>6, <1>7 DEF TypeInv, TypeOK

LEMMA StorageTypeStep ==
    ASSUME TypeInv, [Next]_vars
    PROVE  StorageTypeOK'
<1> USE DEF TypeInv, TypeOK, StorageTypeOK, ManagerTypeOK, WorkerTypeOK, MuShape, WorkerShape,
   settings, worker, record, Free, Mutex, MuOps, MuSteps, Requests, Callbacks, Terminal, Absent,
   counters
<1>1. CASE UNCHANGED <<queued, running, completed, modified, logs, clock, historyLimit, periodicDue>>
  BY <1>1
<1>2. CASE InvalidateTask
  BY <1>2 DEF InvalidateTask, PutCompleted
<1>3. CASE InvalidateDelete
  BY <1>3 DEF InvalidateDelete, DeletePrevious
<1>4. ASSUME NEW t \in Tasks, QueueTask(t) PROVE StorageTypeOK'
  BY <1>4 DEF QueueTask, IsBusy
<1>5. CASE TaskStarted
  BY <1>5 DEF TaskStarted
<1>6. CASE StartFunc
  BY <1>6 DEF StartFunc
<1>7. CASE TaskCompleted
  BY <1>7 DEF TaskCompleted, PutCompleted
<1>8. CASE PutLog
  BY <1>8 DEF PutLog
<1>9. CASE CompletedDelete
  BY <1>9 DEF CompletedDelete, DeletePrevious
<1>10. CASE CleanRecord
  BY <1>10 DEF CleanRecord
<1>11. CASE CleanLog
  BY <1>11 DEF CleanLog
<1>12. CASE PeriodicStamp
  BY <1>12 DEF PeriodicStamp
<1>13. CASE HourPasses
  BY <1>13 DEF HourPasses
<1>14. ASSUME NEW limit \in HistoryLimits, Configure(limit) PROVE StorageTypeOK'
  BY <1>14 DEF Configure
<1>15. ASSUME
         \/ InvalidateDone \/ ReturnBusy \/ SendTask \/ RequestFails \/ Receive \/ TakeResult
         \/ GiveUp \/ Timeout \/ ResetJob \/ Panic \/ PeriodicFunc \/ PeriodicFails
         \/ LookupNext \/ LookupEnd \/ Crash \/ UNCHANGED vars
         \/ \E op \in Entries : Enter(op)
         \/ \E t \in Tasks, res \in {"SUCCEEDED", "FAILED"} : FuncReturns(t, res)
         \/ \E t \in Tasks : Cancel(t)
         \/ \E op \in ReadOps, t \in Tasks : LookupBegin(op, t)
     PROVE  UNCHANGED <<queued, running, completed, modified, logs, clock, historyLimit, periodicDue>>
  BY <1>15 DEF Enter, InvalidateDone, ReturnBusy, SendTask, RequestFails, Receive, FuncReturns,
     TakeResult, GiveUp, Timeout, Cancel, ResetJob, Panic, PeriodicFunc, PeriodicFails, LookupBegin,
     LookupNext, LookupEnd, Crash, ProcessLost, Fault, vars, record, settings, worker, counters
<1> HIDE DEF TypeInv, TypeOK, StorageTypeOK, ManagerTypeOK, WorkerTypeOK, MuShape, WorkerShape,
   settings, worker, record, Free, Mutex, MuOps, MuSteps, Requests, Callbacks, Terminal, Absent,
   counters
<1> QED
  BY <1>1, <1>2, <1>3, <1>4, <1>5, <1>6, <1>7, <1>8, <1>9, <1>10, <1>11, <1>12, <1>13, <1>14,
     <1>15
  DEF Next, RequestStep, WorkerStep, PeriodicStep, LookupStep

LEMMA MuTypeStep ==
    ASSUME TypeInv, [Next]_vars
    PROVE  (mu \in Mutex)'
<1> USE DEF TypeInv, TypeOK, StorageTypeOK, ManagerTypeOK, WorkerTypeOK, MuShape, WorkerShape,
   Free, Mutex, MuOps, MuSteps, Requests, Callbacks, record, settings, worker, counters
<1>1. CASE UNCHANGED <<mu>>
  BY <1>1
<1>2. ASSUME NEW op \in Entries, Enter(op) PROVE (mu \in Mutex)'
  BY <1>2 DEF Enter
<1>3. CASE InvalidateTask
  <2>1. PICK p \in mu.todo : mu' = [mu EXCEPT !.at = "delete", !.task = p[1], !.todo = @ \ {p}]
    BY <1>3 DEF InvalidateTask
  <2>2. p[1] \in Tasks
    BY <2>1
  <2>3. QED
    BY <2>1, <2>2
<1>4. CASE InvalidateDelete
  BY <1>4 DEF InvalidateDelete, DeletePrevious
<1>5. CASE InvalidateDone
  BY <1>5 DEF InvalidateDone
<1>6. CASE ReturnBusy
  BY <1>6 DEF ReturnBusy
<1>7. ASSUME NEW t \in Tasks, QueueTask(t) PROVE (mu \in Mutex)'
  BY <1>7 DEF QueueTask, IsBusy
<1>8. CASE SendTask
  BY <1>8 DEF SendTask
<1>9. CASE RequestFails
  BY <1>9 DEF RequestFails, Fault, record, settings
<1>10. CASE TaskStarted
  BY <1>10 DEF TaskStarted
<1>11. CASE StartFunc
  BY <1>11 DEF StartFunc
<1>12. CASE TaskCompleted
  BY <1>12 DEF TaskCompleted, PutCompleted
<1>13. CASE PutLog
  BY <1>13 DEF PutLog
<1>14. CASE CompletedDelete
  BY <1>14 DEF CompletedDelete, DeletePrevious
<1>15. CASE Panic
  BY <1>15 DEF Panic, ProcessLost, Fault, record, settings
<1>16. CASE PeriodicFunc
  <2>1. Doomed(historyLimit) \subseteq Tasks
    BY DEF Doomed, Newest, Completed
  <2>2. Doomed(historyLimit) \X {"COMPLETED"} \in SUBSET (Tasks \X {"QUEUED", "RUNNING", "COMPLETED"})
    BY <2>1
  <2>3. QED
    BY <1>16, <2>2 DEF PeriodicFunc
<1>17. CASE CleanRecord
  <2>1. PICK p \in mu.todo : mu' = [mu EXCEPT !.at = "cleanlog", !.task = p[1], !.todo = @ \ {p}]
    BY <1>17 DEF CleanRecord
  <2>2. p[1] \in Tasks
    BY <2>1
  <2>3. QED
    BY <2>1, <2>2
<1>18. CASE CleanLog
  BY <1>18 DEF CleanLog
<1>19. CASE PeriodicStamp
  BY <1>19 DEF PeriodicStamp
<1>20. CASE PeriodicFails
  BY <1>20 DEF PeriodicFails, Fault, record, settings
<1>21. CASE Crash
  BY <1>21 DEF Crash, ProcessLost, record, settings
<1>22. ASSUME
         \/ Receive \/ TakeResult \/ GiveUp \/ Timeout \/ ResetJob \/ HourPasses \/ LookupNext
         \/ LookupEnd \/ UNCHANGED vars
         \/ \E t \in Tasks, res \in {"SUCCEEDED", "FAILED"} : FuncReturns(t, res)
         \/ \E t \in Tasks : Cancel(t)
         \/ \E limit \in HistoryLimits : Configure(limit)
         \/ \E op \in ReadOps, t \in Tasks : LookupBegin(op, t)
     PROVE  UNCHANGED <<mu>>
  BY <1>22 DEF Receive, FuncReturns, TakeResult, GiveUp, Timeout, Cancel, ResetJob, HourPasses,
     Configure, LookupBegin, LookupNext, LookupEnd, vars, record, settings, worker, counters
<1> HIDE DEF TypeInv, TypeOK, StorageTypeOK, ManagerTypeOK, WorkerTypeOK, MuShape, WorkerShape,
   Free, Mutex, MuOps, MuSteps, Requests, Callbacks, record, settings, worker, counters
<1> QED
  BY <1>1, <1>2, <1>3, <1>4, <1>5, <1>6, <1>7, <1>8, <1>9, <1>10, <1>11, <1>12, <1>13, <1>14,
     <1>15, <1>16, <1>17, <1>18, <1>19, <1>20, <1>21, <1>22
  DEF Next, RequestStep, WorkerStep, PeriodicStep, LookupStep

LEMMA FlagTypeStep ==
    ASSUME TypeInv, [Next]_vars
    PROVE  (storageSet \in BOOLEAN /\ invalidated \in BOOLEAN)'
<1> USE DEF TypeInv, TypeOK, ManagerTypeOK, record, settings, worker, counters
<1>1. CASE UNCHANGED <<storageSet, invalidated>>
  BY <1>1
<1>2. ASSUME NEW op \in Entries, Enter(op) PROVE (storageSet \in BOOLEAN /\ invalidated \in BOOLEAN)'
  BY <1>2 DEF Enter
<1>3. CASE InvalidateDone
  BY <1>3 DEF InvalidateDone
<1>4. CASE Panic
  BY <1>4 DEF Panic, ProcessLost, Fault, record, settings
<1>5. CASE Crash
  BY <1>5 DEF Crash, ProcessLost, record, settings
<1>6. ASSUME
         \/ InvalidateTask \/ InvalidateDelete \/ ReturnBusy \/ SendTask \/ RequestFails
         \/ Receive \/ TaskStarted \/ StartFunc \/ TakeResult \/ GiveUp \/ Timeout
         \/ TaskCompleted \/ PutLog \/ CompletedDelete \/ ResetJob \/ PeriodicFunc
         \/ CleanRecord \/ CleanLog \/ PeriodicStamp \/ PeriodicFails \/ HourPasses
         \/ LookupNext \/ LookupEnd \/ UNCHANGED vars
         \/ \E t \in Tasks : QueueTask(t)
         \/ \E t \in Tasks, res \in {"SUCCEEDED", "FAILED"} : FuncReturns(t, res)
         \/ \E t \in Tasks : Cancel(t)
         \/ \E limit \in HistoryLimits : Configure(limit)
         \/ \E op \in ReadOps, t \in Tasks : LookupBegin(op, t)
     PROVE  UNCHANGED <<storageSet, invalidated>>
  BY <1>6 DEF InvalidateTask, InvalidateDelete, ReturnBusy, QueueTask, SendTask, RequestFails,
     Receive, TaskStarted, StartFunc, FuncReturns, TakeResult, GiveUp, Timeout, Cancel,
     TaskCompleted, PutLog, CompletedDelete, ResetJob, PeriodicFunc, CleanRecord, CleanLog,
     PeriodicStamp, PeriodicFails, HourPasses, Configure, LookupBegin, LookupNext, LookupEnd, vars,
     record, settings, worker, counters
<1> HIDE DEF TypeInv, TypeOK, ManagerTypeOK, record, settings, worker, counters
<1> QED
  BY <1>1, <1>2, <1>3, <1>4, <1>5, <1>6
  DEF Next, RequestStep, WorkerStep, PeriodicStep, LookupStep

LEMMA ChanTypeStep ==
    ASSUME TypeInv, [Next]_vars
    PROVE  (taskChan \in Seq(Tasks) /\ Len(taskChan) <= TaskChanSize)'
<1> USE DEF TypeInv, TypeOK, ManagerTypeOK, MuShape, record, settings, worker, counters
<1>1. CASE UNCHANGED <<taskChan>>
  BY <1>1
<1>2. CASE SendTask
  BY <1>2, TailIsChan, AppendIsChan DEF SendTask
<1>3. CASE Receive
  BY <1>3, TailIsChan, AppendIsChan DEF Receive
<1>4. CASE Panic
  BY <1>4 DEF Panic, ProcessLost, Fault, record, settings
<1>5. CASE Crash
  BY <1>5 DEF Crash, ProcessLost, record, settings
<1>6. ASSUME
         \/ InvalidateTask \/ InvalidateDelete \/ InvalidateDone \/ ReturnBusy \/ RequestFails
         \/ TaskStarted \/ StartFunc \/ TakeResult \/ GiveUp \/ Timeout \/ TaskCompleted
         \/ PutLog \/ CompletedDelete \/ ResetJob \/ PeriodicFunc \/ CleanRecord \/ CleanLog
         \/ PeriodicStamp \/ PeriodicFails \/ HourPasses \/ LookupNext \/ LookupEnd
         \/ UNCHANGED vars
         \/ \E op \in Entries : Enter(op)
         \/ \E t \in Tasks : QueueTask(t)
         \/ \E t \in Tasks, res \in {"SUCCEEDED", "FAILED"} : FuncReturns(t, res)
         \/ \E t \in Tasks : Cancel(t)
         \/ \E limit \in HistoryLimits : Configure(limit)
         \/ \E op \in ReadOps, t \in Tasks : LookupBegin(op, t)
     PROVE  UNCHANGED <<taskChan>>
  BY <1>6 DEF Enter, InvalidateTask, InvalidateDelete, InvalidateDone, ReturnBusy, QueueTask,
     RequestFails, TaskStarted, StartFunc, FuncReturns, TakeResult, GiveUp, Timeout, Cancel,
     TaskCompleted, PutLog, CompletedDelete, ResetJob, PeriodicFunc, CleanRecord, CleanLog,
     PeriodicStamp, PeriodicFails, HourPasses, Configure, LookupBegin, LookupNext, LookupEnd, vars,
     record, settings, worker, counters
<1> HIDE DEF TypeInv, TypeOK, ManagerTypeOK, MuShape, record, settings, worker, counters
<1> QED
  BY <1>1, <1>2, <1>3, <1>4, <1>5, <1>6
  DEF Next, RequestStep, WorkerStep, PeriodicStep, LookupStep

LEMMA WorkerTypeStep ==
    ASSUME TypeInv, [Next]_vars
    PROVE  WorkerTypeOK'
<1> USE DEF TypeInv, TypeOK, WorkerTypeOK, ManagerTypeOK, MuShape, WorkerShape, Terminal, Absent,
   record, settings, worker, counters
<1>1. CASE UNCHANGED <<wpc, job, ctxDone, result, func>>
  BY <1>1
<1>2. CASE Receive
  BY <1>2, TailIsChan DEF Receive
<1>3. CASE StartFunc
  BY <1>3 DEF StartFunc
<1>4. ASSUME NEW t \in Tasks, NEW res \in {"SUCCEEDED", "FAILED"}, FuncReturns(t, res) PROVE WorkerTypeOK'
  BY <1>4 DEF FuncReturns
<1>5. CASE TakeResult
  BY <1>5 DEF TakeResult
<1>6. CASE GiveUp
  BY <1>6 DEF GiveUp
<1>7. CASE Timeout
  BY <1>7 DEF Timeout
<1>8. ASSUME NEW t \in Tasks, Cancel(t) PROVE WorkerTypeOK'
  BY <1>8 DEF Cancel
<1>9. CASE CompletedDelete
  BY <1>9 DEF CompletedDelete, DeletePrevious
<1>10. CASE ResetJob
  BY <1>10 DEF ResetJob
<1>11. CASE Panic
  BY <1>11 DEF Panic, ProcessLost, Fault, record, settings
<1>12. CASE Crash
  BY <1>12 DEF Crash, ProcessLost, record, settings
<1>13. ASSUME
         \/ InvalidateTask \/ InvalidateDelete \/ InvalidateDone \/ ReturnBusy \/ SendTask
         \/ RequestFails \/ TaskStarted \/ TaskCompleted \/ PutLog \/ PeriodicFunc
         \/ CleanRecord \/ CleanLog \/ PeriodicStamp \/ PeriodicFails \/ HourPasses
         \/ LookupNext \/ LookupEnd \/ UNCHANGED vars
         \/ \E op \in Entries : Enter(op)
         \/ \E t \in Tasks : QueueTask(t)
         \/ \E limit \in HistoryLimits : Configure(limit)
         \/ \E op \in ReadOps, t \in Tasks : LookupBegin(op, t)
     PROVE  UNCHANGED <<wpc, job, ctxDone, result, func>>
  BY <1>13 DEF Enter, InvalidateTask, InvalidateDelete, InvalidateDone, ReturnBusy, QueueTask,
     SendTask, RequestFails, TaskStarted, TaskCompleted, PutLog, PeriodicFunc, CleanRecord, CleanLog,
     PeriodicStamp, PeriodicFails, HourPasses, Configure, LookupBegin, LookupNext, LookupEnd, vars,
     record, settings, worker, counters
<1> HIDE DEF TypeInv, TypeOK, WorkerTypeOK, ManagerTypeOK, MuShape, WorkerShape, Terminal, Absent,
   record, settings, worker, counters
<1> QED
  BY <1>1, <1>2, <1>3, <1>4, <1>5, <1>6, <1>7, <1>8, <1>9, <1>10, <1>11, <1>12, <1>13
  DEF Next, RequestStep, WorkerStep, PeriodicStep, LookupStep

LEMMA MuShapeStep ==
    ASSUME TypeInv, [Next]_vars
    PROVE  MuShape'
<1> USE DEF TypeInv, TypeOK, ManagerTypeOK, WorkerTypeOK, MuShape, WorkerShape, Free, Mutex,
   MuOps, MuSteps, Requests, Callbacks, record, settings, worker, counters
<1>1. CASE UNCHANGED <<mu>>
  BY <1>1
<1>2. ASSUME NEW op \in Entries, Enter(op) PROVE MuShape'
  BY <1>2 DEF Enter
<1>3. CASE InvalidateTask
  BY <1>3 DEF InvalidateTask, PutCompleted
<1>4. CASE InvalidateDelete
  BY <1>4 DEF InvalidateDelete, DeletePrevious
<1>5. CASE InvalidateDone
  BY <1>5 DEF InvalidateDone
<1>6. CASE ReturnBusy
  BY <1>6 DEF ReturnBusy
<1>7. ASSUME NEW t \in Tasks, QueueTask(t) PROVE MuShape'
  BY <1>7 DEF QueueTask, IsBusy
<1>8. CASE SendTask
  BY <1>8 DEF SendTask
<1>9. CASE RequestFails
  BY <1>9 DEF RequestFails, Fault, record, settings
<1>10. CASE TaskStarted
  BY <1>10 DEF TaskStarted
<1>11. CASE StartFunc
  BY <1>11 DEF StartFunc
<1>12. CASE TaskCompleted
  BY <1>12 DEF TaskCompleted, PutCompleted
<1>13. CASE PutLog
  BY <1>13 DEF PutLog
<1>14. CASE CompletedDelete
  BY <1>14 DEF CompletedDelete, DeletePrevious
<1>15. CASE Panic
  BY <1>15 DEF Panic, ProcessLost, Fault, record, settings
<1>16. CASE PeriodicFunc
  BY <1>16 DEF PeriodicFunc
<1>17. CASE CleanRecord
  BY <1>17 DEF CleanRecord
<1>18. CASE CleanLog
  BY <1>18 DEF CleanLog
<1>19. CASE PeriodicStamp
  BY <1>19 DEF PeriodicStamp
<1>20. CASE PeriodicFails
  BY <1>20 DEF PeriodicFails, Fault, record, settings
<1>21. CASE Crash
  BY <1>21 DEF Crash, ProcessLost, record, settings
<1>22. ASSUME
         \/ Receive \/ TakeResult \/ GiveUp \/ Timeout \/ ResetJob \/ HourPasses \/ LookupNext
         \/ LookupEnd \/ UNCHANGED vars
         \/ \E t \in Tasks, res \in {"SUCCEEDED", "FAILED"} : FuncReturns(t, res)
         \/ \E t \in Tasks : Cancel(t)
         \/ \E limit \in HistoryLimits : Configure(limit)
         \/ \E op \in ReadOps, t \in Tasks : LookupBegin(op, t)
     PROVE  UNCHANGED <<mu>>
  BY <1>22 DEF Receive, FuncReturns, TakeResult, GiveUp, Timeout, Cancel, ResetJob, HourPasses,
     Configure, LookupBegin, LookupNext, LookupEnd, vars, record, settings, worker, counters
<1> HIDE DEF TypeInv, TypeOK, ManagerTypeOK, WorkerTypeOK, MuShape, WorkerShape, Free, Mutex,
   MuOps, MuSteps, Requests, Callbacks, record, settings, worker, counters
<1> QED
  BY <1>1, <1>2, <1>3, <1>4, <1>5, <1>6, <1>7, <1>8, <1>9, <1>10, <1>11, <1>12, <1>13, <1>14,
     <1>15, <1>16, <1>17, <1>18, <1>19, <1>20, <1>21, <1>22
  DEF Next, RequestStep, WorkerStep, PeriodicStep, LookupStep

LEMMA WorkerShapeStep ==
    ASSUME TypeInv, [Next]_vars
    PROVE  WorkerShape'
<1> USE DEF TypeInv, TypeOK, ManagerTypeOK, WorkerTypeOK, MuShape, WorkerShape, worker, Free,
   Mutex, Requests, record, settings, counters
<1>1. CASE UNCHANGED <<wpc, job, result, mu>>
  BY <1>1
<1>2. ASSUME NEW op \in Entries, Enter(op) PROVE WorkerShape'
  BY <1>2 DEF Enter
<1>3. CASE InvalidateTask
  BY <1>3 DEF InvalidateTask, PutCompleted
<1>4. CASE InvalidateDelete
  BY <1>4 DEF InvalidateDelete, DeletePrevious
<1>5. CASE InvalidateDone
  BY <1>5 DEF InvalidateDone
<1>6. CASE ReturnBusy
  BY <1>6 DEF ReturnBusy
<1>7. ASSUME NEW t \in Tasks, QueueTask(t) PROVE WorkerShape'
  BY <1>7 DEF QueueTask, IsBusy
<1>8. CASE SendTask
  BY <1>8, TailIsChan DEF SendTask
<1>9. CASE RequestFails
  BY <1>9 DEF RequestFails, Fault, record, settings
<1>10. CASE Receive
  BY <1>10, TailIsChan DEF Receive
<1>11. CASE TaskStarted
  BY <1>11 DEF TaskStarted
<1>12. CASE StartFunc
  BY <1>12 DEF StartFunc
<1>13. CASE TakeResult
  BY <1>13 DEF TakeResult
<1>14. CASE GiveUp
  BY <1>14 DEF GiveUp
<1>15. CASE TaskCompleted
  BY <1>15 DEF TaskCompleted, PutCompleted
<1>16. CASE PutLog
  BY <1>16 DEF PutLog
<1>17. CASE CompletedDelete
  BY <1>17 DEF CompletedDelete, DeletePrevious
<1>18. CASE ResetJob
  BY <1>18 DEF ResetJob
<1>19. CASE Panic
  BY <1>19 DEF Panic, ProcessLost, Fault, record, settings
<1>20. CASE PeriodicFunc
  BY <1>20 DEF PeriodicFunc
<1>21. CASE CleanRecord
  BY <1>21 DEF CleanRecord
<1>22. CASE CleanLog
  BY <1>22 DEF CleanLog
<1>23. CASE PeriodicStamp
  BY <1>23 DEF PeriodicStamp
<1>24. CASE PeriodicFails
  BY <1>24 DEF PeriodicFails, Fault, record, settings
<1>25. CASE Crash
  BY <1>25 DEF Crash, ProcessLost, record, settings
<1>26. ASSUME
         \/ Timeout \/ HourPasses \/ LookupNext \/ LookupEnd \/ UNCHANGED vars
         \/ \E t \in Tasks, res \in {"SUCCEEDED", "FAILED"} : FuncReturns(t, res)
         \/ \E t \in Tasks : Cancel(t)
         \/ \E limit \in HistoryLimits : Configure(limit)
         \/ \E op \in ReadOps, t \in Tasks : LookupBegin(op, t)
     PROVE  UNCHANGED <<wpc, job, result, mu>>
  BY <1>26 DEF FuncReturns, Timeout, Cancel, HourPasses, Configure, LookupBegin, LookupNext,
     LookupEnd, vars, record, settings, worker, counters
<1> HIDE DEF TypeInv, TypeOK, ManagerTypeOK, WorkerTypeOK, MuShape, WorkerShape, worker, Free,
   Mutex, Requests, record, settings, counters
<1> QED
  BY <1>1, <1>2, <1>3, <1>4, <1>5, <1>6, <1>7, <1>8, <1>9, <1>10, <1>11, <1>12, <1>13, <1>14,
     <1>15, <1>16, <1>17, <1>18, <1>19, <1>20, <1>21, <1>22, <1>23, <1>24, <1>25, <1>26
  DEF Next, RequestStep, WorkerStep, PeriodicStep, LookupStep

LEMMA LookupTypeStep ==
    ASSUME TypeInv, [Next]_vars
    PROVE  LookupTypeOK'
<1> USE DEF TypeInv, TypeOK, LookupTypeOK, record, settings, worker, counters
<1>1. CASE UNCHANGED <<reader, issued, crashes, faults>>
  BY <1>1
<1>2. ASSUME NEW t \in Tasks, QueueTask(t) PROVE LookupTypeOK'
  BY <1>2 DEF QueueTask, IsBusy
<1>3. CASE RequestFails
  BY <1>3 DEF RequestFails, Fault, record, settings
<1>4. CASE Panic
  BY <1>4, NoReaderIsReader DEF Panic, ProcessLost, Fault, record, settings
<1>5. CASE PeriodicFails
  BY <1>5 DEF PeriodicFails, Fault, record, settings
<1>6. ASSUME NEW op \in ReadOps, NEW t \in Tasks, LookupBegin(op, t) PROVE LookupTypeOK'
  <2>1. Lookup[op] \in Seq(Places)
    BY LookupIsPlaces
  <2>2. reader' \in Reader
    BY <1>6, <2>1 DEF LookupBegin, Reader
  <2>3. QED
    BY <1>6, <2>2 DEF LookupBegin
<1>7. CASE LookupNext
  <2>1. reader.rest \in Seq(Places) /\ reader.rest # <<>>
    BY <1>7 DEF LookupNext, Reader
  <2>2. Tail(reader.rest) \in Seq(Places) /\ <<>> \in Seq(Places)
    BY <2>1, TailIsChan
  <2>3. reader' \in Reader
    BY <1>7, <2>2 DEF LookupNext, Reader
  <2>4. QED
    BY <1>7, <2>3 DEF LookupNext
<1>8. CASE LookupEnd
  BY <1>8, NoReaderIsReader DEF LookupEnd
<1>9. CASE Crash
  BY <1>9, NoReaderIsReader DEF Crash, ProcessLost, record, settings
<1>10. ASSUME
         \/ InvalidateTask \/ InvalidateDelete \/ InvalidateDone \/ ReturnBusy \/ SendTask
         \/ Receive \/ TaskStarted \/ StartFunc \/ TakeResult \/ GiveUp \/ Timeout
         \/ TaskCompleted \/ PutLog \/ CompletedDelete \/ ResetJob \/ PeriodicFunc
         \/ CleanRecord \/ CleanLog \/ PeriodicStamp \/ HourPasses \/ UNCHANGED vars
         \/ \E op \in Entries : Enter(op)
         \/ \E t \in Tasks, res \in {"SUCCEEDED", "FAILED"} : FuncReturns(t, res)
         \/ \E t \in Tasks : Cancel(t)
         \/ \E limit \in HistoryLimits : Configure(limit)
     PROVE  UNCHANGED <<reader, issued, crashes, faults>>
  BY <1>10 DEF Enter, InvalidateTask, InvalidateDelete, InvalidateDone, ReturnBusy, SendTask,
     Receive, TaskStarted, StartFunc, FuncReturns, TakeResult, GiveUp, Timeout, Cancel,
     TaskCompleted, PutLog, CompletedDelete, ResetJob, PeriodicFunc, CleanRecord, CleanLog,
     PeriodicStamp, HourPasses, Configure, vars, record, settings, worker, counters
<1> HIDE DEF TypeInv, TypeOK, LookupTypeOK, record, settings, worker, counters
<1> QED
  BY <1>1, <1>2, <1>3, <1>4, <1>5, <1>6, <1>7, <1>8, <1>9, <1>10
  DEF Next, RequestStep, WorkerStep, PeriodicStep, LookupStep

LEMMA TypeStep == TypeInv /\ [Next]_vars => TypeInv'
<1> SUFFICES ASSUME TypeInv, [Next]_vars PROVE TypeInv'
  OBVIOUS
<1>1. ManagerTypeOK'
  BY FlagTypeStep, MuTypeStep, ChanTypeStep DEF ManagerTypeOK
<1> QED
  BY <1>1, StorageTypeStep, WorkerTypeStep, LookupTypeStep, MuShapeStep, WorkerShapeStep
  DEF TypeInv, TypeOK

\* Every reachable state is well typed, and the channel keeps within its capacity.
THEOREM TypeCorrect == Spec => []TypeOK
<1>1. TypeInv => TypeOK
  BY DEF TypeInv
<1> QED
  BY <1>1, TypeInit, TypeStep, PTL DEF Spec

-----------------------------------------------------------------------------
(* The records and the tasks on their way *)

LEMMA FreshManagerStep ==
    ASSUME TypeInv, FreshManager, [Next]_vars
    PROVE  FreshManager'
<1> USE DEF TypeInv, TypeOK, ManagerTypeOK, WorkerTypeOK, MuShape, WorkerShape, FreshManager,
   NothingInHand, Invalidating, Free, Mutex, Requests, MuOps, MuSteps, Callbacks, record, settings,
   worker, counters
<1>1. CASE UNCHANGED <<storageSet, taskChan, wpc, mu, invalidated>>
  BY <1>1
<1>2. ASSUME NEW op \in Entries, Enter(op) PROVE FreshManager'
  BY <1>2 DEF Enter
<1>3. CASE InvalidateTask
  BY <1>3 DEF InvalidateTask, PutCompleted
<1>4. CASE InvalidateDelete
  BY <1>4 DEF InvalidateDelete, DeletePrevious
<1>5. CASE InvalidateDone
  BY <1>5 DEF InvalidateDone
<1>6. CASE ReturnBusy
  BY <1>6 DEF ReturnBusy
<1>7. ASSUME NEW t \in Tasks, QueueTask(t) PROVE FreshManager'
  BY <1>7 DEF QueueTask, IsBusy
<1>8. CASE SendTask
  BY <1>8 DEF SendTask
<1>9. CASE RequestFails
  BY <1>9 DEF RequestFails, Fault, record, settings
<1>10. CASE Receive
  BY <1>10 DEF Receive
<1>11. CASE TaskStarted
  BY <1>11 DEF TaskStarted
<1>12. CASE StartFunc
  BY <1>12 DEF StartFunc
<1>13. CASE TakeResult
  BY <1>13 DEF TakeResult
<1>14. CASE GiveUp
  BY <1>14 DEF GiveUp
<1>15. CASE TaskCompleted
  BY <1>15 DEF TaskCompleted, PutCompleted
<1>16. CASE PutLog
  BY <1>16 DEF PutLog
<1>17. CASE CompletedDelete
  BY <1>17 DEF CompletedDelete, DeletePrevious
<1>18. CASE ResetJob
  BY <1>18 DEF ResetJob
<1>19. CASE Panic
  BY <1>19 DEF Panic, ProcessLost, Fault, record, settings
<1>20. CASE PeriodicFunc
  BY <1>20 DEF PeriodicFunc
<1>21. CASE CleanRecord
  BY <1>21 DEF CleanRecord
<1>22. CASE CleanLog
  BY <1>22 DEF CleanLog
<1>23. CASE PeriodicStamp
  BY <1>23 DEF PeriodicStamp
<1>24. CASE PeriodicFails
  BY <1>24 DEF PeriodicFails, Fault, record, settings
<1>25. CASE Crash
  BY <1>25 DEF Crash, ProcessLost, record, settings
<1>26. ASSUME
         \/ Timeout \/ HourPasses \/ LookupNext \/ LookupEnd \/ UNCHANGED vars
         \/ \E t \in Tasks, res \in {"SUCCEEDED", "FAILED"} : FuncReturns(t, res)
         \/ \E t \in Tasks : Cancel(t)
         \/ \E limit \in HistoryLimits : Configure(limit)
         \/ \E op \in ReadOps, t \in Tasks : LookupBegin(op, t)
     PROVE  UNCHANGED <<storageSet, taskChan, wpc, mu, invalidated>>
  BY <1>26 DEF FuncReturns, Timeout, Cancel, HourPasses, Configure, LookupBegin, LookupNext,
     LookupEnd, vars, record, settings, worker, counters
<1> HIDE DEF TypeInv, TypeOK, ManagerTypeOK, WorkerTypeOK, MuShape, WorkerShape, FreshManager,
   NothingInHand, Invalidating, Free, Mutex, Requests, MuOps, MuSteps, Callbacks, record, settings,
   worker, counters
<1> QED
  BY <1>1, <1>2, <1>3, <1>4, <1>5, <1>6, <1>7, <1>8, <1>9, <1>10, <1>11, <1>12, <1>13, <1>14,
     <1>15, <1>16, <1>17, <1>18, <1>19, <1>20, <1>21, <1>22, <1>23, <1>24, <1>25, <1>26
  DEF Next, RequestStep, WorkerStep, PeriodicStep, LookupStep

LEMMA InvalidationCoversStep ==
    ASSUME TypeInv, FreshManager, InvalidationCovers, [Next]_vars
    PROVE  InvalidationCovers'
<1> USE DEF TypeInv, TypeOK, ManagerTypeOK, WorkerTypeOK, MuShape, WorkerShape, FreshManager,
   NothingInHand, Invalidating, InvalidationCovers, Listed, ListedTwice, Deleting, Free, Mutex,
   Requests, StorageTypeOK, record, settings, worker, counters
<1>1. CASE UNCHANGED <<queued, running, mu>>
  BY <1>1
<1>2. ASSUME NEW op \in Entries, Enter(op) PROVE InvalidationCovers'
  BY <1>2 DEF Enter
<1>3. CASE InvalidateTask
  <2>1. PICK p \in mu.todo : mu' = [mu EXCEPT !.at = "delete", !.task = p[1], !.todo = @ \ {p}]
    BY <1>3 DEF InvalidateTask
  <2>2. UNCHANGED <<queued, running>> /\ mu.at = "invalidate"
    BY <1>3 DEF InvalidateTask, PutCompleted
  <2>3. mu.op \in Requests /\ mu.todo \subseteq Tasks \X {"RUNNING", "QUEUED"}
    BY <2>2 DEF MuOps, Callbacks
  <2>4. SUFFICES ASSUME NEW t \in Tasks
               PROVE  (IF Deleting(t)
                       THEN /\ t \in queued \cup running
                            /\ Listed(t) <=> t \in queued \cap running
                            /\ ~ListedTwice(t)
                       ELSE /\ Listed(t) <=> t \in queued \cup running
                            /\ ListedTwice(t) <=> t \in queued \cap running)'
    BY <2>1, <2>3
  <2>5. CASE p[1] = t
    <3>1. p = <<t, "RUNNING">> \/ p = <<t, "QUEUED">>
      BY <2>3, <2>5
    <3>2. QED
      BY <3>1, <2>1, <2>2, <2>3, <2>5
  <2>6. CASE p[1] # t
    BY <2>1, <2>2, <2>3, <2>6
  <2>7. QED
    BY <2>5, <2>6
<1>4. CASE InvalidateDelete
  BY <1>4 DEF InvalidateDelete, DeletePrevious
<1>5. CASE InvalidateDone
  BY <1>5 DEF InvalidateDone
<1>6. CASE ReturnBusy
  BY <1>6 DEF ReturnBusy
<1>7. ASSUME NEW t \in Tasks, QueueTask(t) PROVE InvalidationCovers'
  BY <1>7 DEF QueueTask, IsBusy
<1>8. CASE SendTask
  BY <1>8 DEF SendTask
<1>9. CASE RequestFails
  BY <1>9 DEF RequestFails, Fault, record, settings
<1>10. CASE TaskStarted
  BY <1>10 DEF TaskStarted
<1>11. CASE StartFunc
  BY <1>11 DEF StartFunc
<1>12. CASE TaskCompleted
  BY <1>12 DEF TaskCompleted, PutCompleted
<1>13. CASE PutLog
  BY <1>13 DEF PutLog
<1>14. CASE CompletedDelete
  BY <1>14 DEF CompletedDelete, DeletePrevious
<1>15. CASE Panic
  BY <1>15 DEF Panic, ProcessLost, Fault, record, settings
<1>16. CASE PeriodicFunc
  BY <1>16 DEF PeriodicFunc
<1>17. CASE CleanRecord
  BY <1>17 DEF CleanRecord
<1>18. CASE CleanLog
  BY <1>18 DEF CleanLog
<1>19. CASE PeriodicStamp
  BY <1>19 DEF PeriodicStamp
<1>20. CASE PeriodicFails
  BY <1>20 DEF PeriodicFails, Fault, record, settings
<1>21. CASE Crash
  BY <1>21 DEF Crash, ProcessLost, record, settings
<1>22. ASSUME
         \/ Receive \/ TakeResult \/ GiveUp \/ Timeout \/ ResetJob \/ HourPasses \/ LookupNext
         \/ LookupEnd \/ UNCHANGED vars
         \/ \E t \in Tasks, res \in {"SUCCEEDED", "FAILED"} : FuncReturns(t, res)
         \/ \E t \in Tasks : Cancel(t)
         \/ \E limit \in HistoryLimits : Configure(limit)
         \/ \E op \in ReadOps, t \in Tasks : LookupBegin(op, t)
     PROVE  UNCHANGED <<queued, running, mu>>
  BY <1>22 DEF Receive, FuncReturns, TakeResult, GiveUp, Timeout, Cancel, ResetJob, HourPasses,
     Configure, LookupBegin, LookupNext, LookupEnd, vars, record, settings, worker, counters
<1> HIDE DEF TypeInv, TypeOK, ManagerTypeOK, WorkerTypeOK, MuShape, WorkerShape, FreshManager,
   NothingInHand, Invalidating, InvalidationCovers, Listed, ListedTwice, Deleting, Free, Mutex,
   Requests, StorageTypeOK, record, settings, worker, counters
<1> QED
  BY <1>1, <1>2, <1>3, <1>4, <1>5, <1>6, <1>7, <1>8, <1>9, <1>10, <1>11, <1>12, <1>13, <1>14,
     <1>15, <1>16, <1>17, <1>18, <1>19, <1>20, <1>21, <1>22
  DEF Next, RequestStep, WorkerStep, PeriodicStep, LookupStep

LEMMA InvalidatesRecord ==
    ASSUME TypeInv, InvalidationCovers, InvalidateTask
    PROVE  \E t \in queued \cup running :
              PutCompleted(t, "CANCELED") /\ mu'.task = t /\ mu'.op = mu.op
<1> USE DEF TypeInv, TypeOK, ManagerTypeOK, MuShape
<1>1. PICK p \in mu.todo :
            /\ PutCompleted(p[1], "CANCELED")
            /\ mu' = [mu EXCEPT !.at = "delete", !.task = p[1], !.todo = @ \ {p}]
  BY DEF InvalidateTask
<1>2. Invalidating /\ ~Deleting(p[1])
  BY DEF InvalidateTask, Invalidating, Deleting, Requests, Callbacks, MuOps, Mutex, Free
<1>3. p \in Tasks \X {"RUNNING", "QUEUED"}
  BY <1>2 DEF InvalidationCovers
<1>4. p = <<p[1], "RUNNING">> \/ p = <<p[1], "QUEUED">>
  BY <1>3
<1>5. p[1] \in queued \cup running
  BY <1>2, <1>3, <1>4 DEF InvalidationCovers, Listed
<1> QED
  BY <1>1, <1>5 DEF Mutex

LEMMA RecordsIssuedStep ==
    ASSUME TypeInv, RecordsIssued, StagesHaveRecords, FreshManager, InvalidationCovers, [Next]_vars
    PROVE  RecordsIssued'
<1> USE DEF TypeInv, TypeOK, ManagerTypeOK, WorkerTypeOK, MuShape, WorkerShape, StorageTypeOK,
   LookupTypeOK, Completed, RecordsIssued, StagesHaveRecords, record, settings, worker, counters
<1>1. CASE UNCHANGED <<queued, running, completed, issued>>
  BY <1>1
<1>2. CASE InvalidateTask
  <2>1. PICK t \in queued \cup running : PutCompleted(t, "CANCELED")
    BY <1>2, InvalidatesRecord
  <2>2. QED
    BY <1>2, <2>1 DEF InvalidateTask, PutCompleted
<1>3. CASE InvalidateDelete
  BY <1>3 DEF InvalidateDelete, DeletePrevious
<1>4. ASSUME NEW t \in Tasks, QueueTask(t) PROVE RecordsIssued'
  BY <1>4 DEF QueueTask, IsBusy
<1>5. CASE TaskStarted
  BY <1>5 DEF TaskStarted
<1>6. CASE StartFunc
  BY <1>6 DEF StartFunc
<1>7. CASE TaskCompleted
  BY <1>7 DEF TaskCompleted, PutCompleted
<1>8. CASE CompletedDelete
  BY <1>8 DEF CompletedDelete, DeletePrevious
<1>9. CASE CleanRecord
  BY <1>9 DEF CleanRecord
<1>10. ASSUME
         \/ InvalidateDone \/ ReturnBusy \/ SendTask \/ RequestFails \/ Receive \/ TakeResult
         \/ GiveUp \/ Timeout \/ PutLog \/ ResetJob \/ Panic \/ PeriodicFunc \/ CleanLog
         \/ PeriodicStamp \/ PeriodicFails \/ HourPasses \/ LookupNext \/ LookupEnd \/ Crash
         \/ UNCHANGED vars
         \/ \E op \in Entries : Enter(op)
         \/ \E t \in Tasks, res \in {"SUCCEEDED", "FAILED"} : FuncReturns(t, res)
         \/ \E t \in Tasks : Cancel(t)
         \/ \E limit \in HistoryLimits : Configure(limit)
         \/ \E op \in ReadOps, t \in Tasks : LookupBegin(op, t)
     PROVE  UNCHANGED <<queued, running, completed, issued>>
  BY <1>10 DEF Enter, InvalidateDone, ReturnBusy, SendTask, RequestFails, Receive, FuncReturns,
     TakeResult, GiveUp, Timeout, Cancel, PutLog, ResetJob, Panic, PeriodicFunc, CleanLog,
     PeriodicStamp, PeriodicFails, HourPasses, Configure, LookupBegin, LookupNext, LookupEnd, Crash,
     ProcessLost, Fault, vars, record, settings, worker, counters
<1> HIDE DEF TypeInv, TypeOK, ManagerTypeOK, WorkerTypeOK, MuShape, WorkerShape, StorageTypeOK,
   LookupTypeOK, Completed, RecordsIssued, StagesHaveRecords, record, settings, worker, counters
<1> QED
  BY <1>1, <1>2, <1>3, <1>4, <1>5, <1>6, <1>7, <1>8, <1>9, <1>10
  DEF Next, RequestStep, WorkerStep, PeriodicStep, LookupStep

LEMMA StagesHaveRecordsStep ==
    ASSUME TypeInv, FreshManager, RecordsIssued, StagesHaveRecords, StagesDisjoint, [Next]_vars
    PROVE  StagesHaveRecords'
<1> USE DEF TypeInv, TypeOK, ManagerTypeOK, WorkerTypeOK, MuShape, WorkerShape, StorageTypeOK,
   StagesHaveRecords, Requests, Callbacks, Free, FreshManager, Invalidating, NothingInHand,
   RecordsIssued, StagesDisjoint, InChan, record, settings, worker, counters
<1>1. CASE UNCHANGED <<queued, running, taskChan, mu, wpc, job>>
  BY <1>1
<1>2. ASSUME NEW op \in Entries, Enter(op) PROVE StagesHaveRecords'
  BY <1>2 DEF Enter
<1>3. CASE InvalidateTask
  BY <1>3 DEF InvalidateTask, PutCompleted
<1>4. CASE InvalidateDelete
  BY <1>4 DEF InvalidateDelete, DeletePrevious
<1>5. CASE InvalidateDone
  BY <1>5 DEF InvalidateDone
<1>6. CASE ReturnBusy
  BY <1>6 DEF ReturnBusy
<1>7. ASSUME NEW t \in Tasks, QueueTask(t) PROVE StagesHaveRecords'
  BY <1>7 DEF QueueTask, IsBusy
<1>8. CASE SendTask
  BY <1>8, TailIsChan, AppendIsChan DEF SendTask
<1>9. CASE RequestFails
  BY <1>9 DEF RequestFails, Fault, record, settings
<1>10. CASE Receive
  BY <1>10, TailIsChan, AppendIsChan DEF Receive
<1>11. CASE TaskStarted
  BY <1>11 DEF TaskStarted
<1>12. CASE StartFunc
  BY <1>12 DEF StartFunc
<1>13. CASE TakeResult
  BY <1>13 DEF TakeResult
<1>14. CASE GiveUp
  BY <1>14 DEF GiveUp
<1>15. CASE TaskCompleted
  BY <1>15 DEF TaskCompleted, PutCompleted
<1>16. CASE PutLog
  BY <1>16 DEF PutLog
<1>17. CASE CompletedDelete
  BY <1>17 DEF CompletedDelete, DeletePrevious
<1>18. CASE ResetJob
  BY <1>18 DEF ResetJob
<1>19. CASE Panic
  BY <1>19 DEF Panic, ProcessLost, Fault, record, settings
<1>20. CASE PeriodicFunc
  BY <1>20 DEF PeriodicFunc
<1>21. CASE CleanRecord
  BY <1>21 DEF CleanRecord
<1>22. CASE CleanLog
  BY <1>22 DEF CleanLog
<1>23. CASE PeriodicStamp
  BY <1>23 DEF PeriodicStamp
<1>24. CASE PeriodicFails
  BY <1>24 DEF PeriodicFails, Fault, record, settings
<1>25. CASE Crash
  BY <1>25 DEF Crash, ProcessLost, record, settings
<1>26. ASSUME
         \/ Timeout \/ HourPasses \/ LookupNext \/ LookupEnd \/ UNCHANGED vars
         \/ \E t \in Tasks, res \in {"SUCCEEDED", "FAILED"} : FuncReturns(t, res)
         \/ \E t \in Tasks : Cancel(t)
         \/ \E limit \in HistoryLimits : Configure(limit)
         \/ \E op \in ReadOps, t \in Tasks : LookupBegin(op, t)
     PROVE  UNCHANGED <<queued, running, taskChan, mu, wpc, job>>
  BY <1>26 DEF FuncReturns, Timeout, Cancel, HourPasses, Configure, LookupBegin, LookupNext,
     LookupEnd, vars, record, settings, worker, counters
<1> HIDE DEF TypeInv, TypeOK, ManagerTypeOK, WorkerTypeOK, MuShape, WorkerShape, StorageTypeOK,
   StagesHaveRecords, Requests, Callbacks, Free, FreshManager, Invalidating, NothingInHand,
   RecordsIssued, StagesDisjoint, InChan, record, settings, worker, counters
<1> QED
  BY <1>1, <1>2, <1>3, <1>4, <1>5, <1>6, <1>7, <1>8, <1>9, <1>10, <1>11, <1>12, <1>13, <1>14,
     <1>15, <1>16, <1>17, <1>18, <1>19, <1>20, <1>21, <1>22, <1>23, <1>24, <1>25, <1>26
  DEF Next, RequestStep, WorkerStep, PeriodicStep, LookupStep

LEMMA StagesDisjointStep ==
    ASSUME TypeInv, FreshManager, RecordsIssued, StagesHaveRecords, StagesDisjoint, [Next]_vars
    PROVE  StagesDisjoint'
<1> USE DEF TypeInv, TypeOK, ManagerTypeOK, WorkerTypeOK, MuShape, WorkerShape, StorageTypeOK,
   StagesHaveRecords, Requests, Callbacks, Free, FreshManager, Invalidating, NothingInHand,
   StagesDisjoint, InChan, RecordsIssued, record, settings, worker, counters
<1>1. CASE UNCHANGED <<taskChan, mu, wpc, job, issued>>
  BY <1>1
<1>2. ASSUME NEW op \in Entries, Enter(op) PROVE StagesDisjoint'
  BY <1>2 DEF Enter
<1>3. CASE InvalidateTask
  BY <1>3 DEF InvalidateTask, PutCompleted
<1>4. CASE InvalidateDelete
  BY <1>4 DEF InvalidateDelete, DeletePrevious
<1>5. CASE InvalidateDone
  BY <1>5 DEF InvalidateDone
<1>6. CASE ReturnBusy
  BY <1>6 DEF ReturnBusy
<1>7. ASSUME NEW t \in Tasks, QueueTask(t) PROVE StagesDisjoint'
  BY <1>7 DEF QueueTask, IsBusy
<1>8. CASE SendTask
  BY <1>8, TailIsChan, AppendIsChan DEF SendTask
<1>9. CASE RequestFails
  BY <1>9 DEF RequestFails, Fault, record, settings
<1>10. CASE Receive
  BY <1>10, TailIsChan, AppendIsChan DEF Receive
<1>11. CASE TaskStarted
  BY <1>11 DEF TaskStarted
<1>12. CASE StartFunc
  BY <1>12 DEF StartFunc
<1>13. CASE TakeResult
  BY <1>13 DEF TakeResult
<1>14. CASE GiveUp
  BY <1>14 DEF GiveUp
<1>15. CASE TaskCompleted
  BY <1>15 DEF TaskCompleted, PutCompleted
<1>16. CASE PutLog
  BY <1>16 DEF PutLog
<1>17. CASE CompletedDelete
  BY <1>17 DEF CompletedDelete, DeletePrevious
<1>18. CASE ResetJob
  BY <1>18 DEF ResetJob
<1>19. CASE Panic
  BY <1>19 DEF Panic, ProcessLost, Fault, record, settings
<1>20. CASE PeriodicFunc
  BY <1>20 DEF PeriodicFunc
<1>21. CASE CleanRecord
  BY <1>21 DEF CleanRecord
<1>22. CASE CleanLog
  BY <1>22 DEF CleanLog
<1>23. CASE PeriodicStamp
  BY <1>23 DEF PeriodicStamp
<1>24. CASE PeriodicFails
  BY <1>24 DEF PeriodicFails, Fault, record, settings
<1>25. CASE Crash
  BY <1>25 DEF Crash, ProcessLost, record, settings
<1>26. ASSUME
         \/ Timeout \/ HourPasses \/ LookupNext \/ LookupEnd \/ UNCHANGED vars
         \/ \E t \in Tasks, res \in {"SUCCEEDED", "FAILED"} : FuncReturns(t, res)
         \/ \E t \in Tasks : Cancel(t)
         \/ \E limit \in HistoryLimits : Configure(limit)
         \/ \E op \in ReadOps, t \in Tasks : LookupBegin(op, t)
     PROVE  UNCHANGED <<taskChan, mu, wpc, job, issued>>
  BY <1>26 DEF FuncReturns, Timeout, Cancel, HourPasses, Configure, LookupBegin, LookupNext,
     LookupEnd, vars, record, settings, worker, counters
<1> HIDE DEF TypeInv, TypeOK, ManagerTypeOK, WorkerTypeOK, MuShape, WorkerShape, StorageTypeOK,
   StagesHaveRecords, Requests, Callbacks, Free, FreshManager, Invalidating, NothingInHand,
   StagesDisjoint, InChan, RecordsIssued, record, settings, worker, counters
<1> QED
  BY <1>1, <1>2, <1>3, <1>4, <1>5, <1>6, <1>7, <1>8, <1>9, <1>10, <1>11, <1>12, <1>13, <1>14,
     <1>15, <1>16, <1>17, <1>18, <1>19, <1>20, <1>21, <1>22, <1>23, <1>24, <1>25, <1>26
  DEF Next, RequestStep, WorkerStep, PeriodicStep, LookupStep

LEMMA RecordsAreInHandStep ==
    ASSUME TypeInv, FreshManager, InvalidationCovers, StagesHaveRecords, RecordsAreInHand, [Next]_vars
    PROVE  RecordsAreInHand'
<1> USE DEF TypeInv, TypeOK, ManagerTypeOK, WorkerTypeOK, MuShape, WorkerShape, StorageTypeOK,
   StagesHaveRecords, Requests, Callbacks, Free, RecordsAreInHand, InHand, record, settings, worker,
   counters
<1>1. CASE UNCHANGED <<queued, running, taskChan, mu, wpc, job, invalidated>>
  BY <1>1
<1>2. ASSUME NEW op \in Entries, Enter(op) PROVE RecordsAreInHand'
  BY <1>2 DEF Enter
<1>3. CASE InvalidateTask
  BY <1>3 DEF InvalidateTask, PutCompleted
<1>4. CASE InvalidateDelete
  BY <1>4 DEF InvalidateDelete, DeletePrevious
<1>5. CASE InvalidateDone
  <2>1. Invalidating /\ mu.todo = {} /\ ~(\E t \in Tasks : Deleting(t))
    BY <1>5 DEF InvalidateDone, Invalidating, Deleting, MuOps, Mutex
  <2>2. queued \cup running = {}
    BY <2>1 DEF InvalidationCovers, Listed
  <2>3. QED
    BY <1>5, <2>2 DEF InvalidateDone
<1>6. CASE ReturnBusy
  BY <1>6 DEF ReturnBusy
<1>7. ASSUME NEW t \in Tasks, QueueTask(t) PROVE RecordsAreInHand'
  BY <1>7 DEF QueueTask, IsBusy
<1>8. CASE SendTask
  BY <1>8, TailIsChan, AppendIsChan DEF SendTask
<1>9. CASE RequestFails
  BY <1>9 DEF RequestFails, Fault, record, settings
<1>10. CASE Receive
  <2>1. SUFFICES ASSUME invalidated, NEW t \in queued \cup running, InHand(t) PROVE InHand(t)'
    BY <1>10 DEF Receive
  <2>2. CASE \E i \in 1 .. Len(taskChan) : taskChan[i] = t
    <3>1. PICK i \in 1 .. Len(taskChan) : taskChan[i] = t
      BY <2>2
    <3>2. CASE i = 1
      BY <1>10, <3>1, <3>2, TailIsChan DEF Receive
    <3>3. CASE i # 1
      <4>1. i - 1 \in 1 .. Len(taskChan') /\ taskChan'[i - 1] = t
        BY <1>10, <3>1, <3>3, TailIsChan DEF Receive
      <4>2. QED
        BY <4>1
    <3>4. QED
      BY <3>2, <3>3
  <2>3. CASE ~ \E i \in 1 .. Len(taskChan) : taskChan[i] = t
    BY <1>10, <2>1, <2>3 DEF Receive
  <2>4. QED
    BY <2>2, <2>3
<1>11. CASE TaskStarted
  BY <1>11 DEF TaskStarted
<1>12. CASE StartFunc
  BY <1>12 DEF StartFunc
<1>13. CASE TakeResult
  BY <1>13 DEF TakeResult
<1>14. CASE GiveUp
  BY <1>14 DEF GiveUp
<1>15. CASE TaskCompleted
  BY <1>15 DEF TaskCompleted, PutCompleted
<1>16. CASE PutLog
  BY <1>16 DEF PutLog
<1>17. CASE CompletedDelete
  BY <1>17 DEF CompletedDelete, DeletePrevious
<1>18. CASE ResetJob
  BY <1>18 DEF ResetJob
<1>19. CASE Panic
  BY <1>19 DEF Panic, ProcessLost, Fault, record, settings
<1>20. CASE PeriodicFunc
  BY <1>20 DEF PeriodicFunc
<1>21. CASE CleanRecord
  BY <1>21 DEF CleanRecord
<1>22. CASE CleanLog
  BY <1>22 DEF CleanLog
<1>23. CASE PeriodicStamp
  BY <1>23 DEF PeriodicStamp
<1>24. CASE PeriodicFails
  BY <1>24 DEF PeriodicFails, Fault, record, settings
<1>25. CASE Crash
  BY <1>25 DEF Crash, ProcessLost, record, settings
<1>26. ASSUME
         \/ Timeout \/ HourPasses \/ LookupNext \/ LookupEnd \/ UNCHANGED vars
         \/ \E t \in Tasks, res \in {"SUCCEEDED", "FAILED"} : FuncReturns(t, res)
         \/ \E t \in Tasks : Cancel(t)
         \/ \E limit \in HistoryLimits : Configure(limit)
         \/ \E op \in ReadOps, t \in Tasks : LookupBegin(op, t)
     PROVE  UNCHANGED <<queued, running, taskChan, mu, wpc, job, invalidated>>
  BY <1>26 DEF FuncReturns, Timeout, Cancel, HourPasses, Configure, LookupBegin, LookupNext,
     LookupEnd, vars, record, settings, worker, counters
<1> HIDE DEF TypeInv, TypeOK, ManagerTypeOK, WorkerTypeOK, MuShape, WorkerShape, StorageTypeOK,
   StagesHaveRecords, Requests, Callbacks, Free, RecordsAreInHand, InHand, record, settings, worker,
   counters
<1> QED
  BY <1>1, <1>2, <1>3, <1>4, <1>5, <1>6, <1>7, <1>8, <1>9, <1>10, <1>11, <1>12, <1>13, <1>14,
     <1>15, <1>16, <1>17, <1>18, <1>19, <1>20, <1>21, <1>22, <1>23, <1>24, <1>25, <1>26
  DEF Next, RequestStep, WorkerStep, PeriodicStep, LookupStep

LEMMA OneTaskInHandStep ==
    ASSUME TypeInv, FreshManager, RecordsIssued, StagesHaveRecords, StagesDisjoint, OneTaskInHand, [Next]_vars
    PROVE  OneTaskInHand'
<1> USE DEF TypeInv, TypeOK, ManagerTypeOK, WorkerTypeOK, MuShape, WorkerShape, StorageTypeOK,
   StagesHaveRecords, Requests, Callbacks, Free, OneTaskInHand, InHand, IsBusy, record, settings,
   worker, counters
<1>1. CASE UNCHANGED <<taskChan, mu, wpc, job>>
  BY <1>1
<1>2. ASSUME NEW op \in Entries, Enter(op) PROVE OneTaskInHand'
  BY <1>2 DEF Enter
<1>3. CASE InvalidateTask
  BY <1>3 DEF InvalidateTask, PutCompleted
<1>4. CASE InvalidateDelete
  BY <1>4 DEF InvalidateDelete, DeletePrevious
<1>5. CASE InvalidateDone
  BY <1>5 DEF InvalidateDone
<1>6. CASE ReturnBusy
  BY <1>6 DEF ReturnBusy
<1>7. ASSUME NEW t \in Tasks, QueueTask(t) PROVE OneTaskInHand'
  <2>1. SUFFICES ASSUME "AddTask" \notin Entries
               PROVE  \A u \in Tasks : InHand(u)' => u = t
    OBVIOUS
  <2>2. mu.op = "RunTask"
    BY <1>7, <2>1 DEF QueueTask, MuOps, Mutex
  <2>3. \A u \in Tasks : ~InHand(u)
    BY <1>7, <2>2 DEF QueueTask
  <2>4. QED
    BY <1>7, <2>3 DEF QueueTask
<1>8. CASE SendTask
  BY <1>8, TailIsChan, AppendIsChan DEF SendTask
<1>9. CASE RequestFails
  BY <1>9 DEF RequestFails, Fault, record, settings
<1>10. CASE Receive
  BY <1>10, TailIsChan, AppendIsChan DEF Receive
<1>11. CASE TaskStarted
  BY <1>11 DEF TaskStarted
<1>12. CASE StartFunc
  BY <1>12 DEF StartFunc
<1>13. CASE TakeResult
  BY <1>13 DEF TakeResult
<1>14. CASE GiveUp
  BY <1>14 DEF GiveUp
<1>15. CASE TaskCompleted
  BY <1>15 DEF TaskCompleted, PutCompleted
<1>16. CASE PutLog
  BY <1>16 DEF PutLog
<1>17. CASE CompletedDelete
  BY <1>17 DEF CompletedDelete, DeletePrevious
<1>18. CASE ResetJob
  BY <1>18 DEF ResetJob
<1>19. CASE Panic
  BY <1>19 DEF Panic, ProcessLost, Fault, record, settings
<1>20. CASE PeriodicFunc
  BY <1>20 DEF PeriodicFunc
<1>21. CASE CleanRecord
  BY <1>21 DEF CleanRecord
<1>22. CASE CleanLog
  BY <1>22 DEF CleanLog
<1>23. CASE PeriodicStamp
  BY <1>23 DEF PeriodicStamp
<1>24. CASE PeriodicFails
  BY <1>24 DEF PeriodicFails, Fault, record, settings
<1>25. CASE Crash
  BY <1>25 DEF Crash, ProcessLost, record, settings
<1>26. ASSUME
         \/ Timeout \/ HourPasses \/ LookupNext \/ LookupEnd \/ UNCHANGED vars
         \/ \E t \in Tasks, res \in {"SUCCEEDED", "FAILED"} : FuncReturns(t, res)
         \/ \E t \in Tasks : Cancel(t)
         \/ \E limit \in HistoryLimits : Configure(limit)
         \/ \E op \in ReadOps, t \in Tasks : LookupBegin(op, t)
     PROVE  UNCHANGED <<taskChan, mu, wpc, job>>
  BY <1>26 DEF FuncReturns, Timeout, Cancel, HourPasses, Configure, LookupBegin, LookupNext,
     LookupEnd, vars, record, settings, worker, counters
<1> HIDE DEF TypeInv, TypeOK, ManagerTypeOK, WorkerTypeOK, MuShape, WorkerShape, StorageTypeOK,
   StagesHaveRecords, Requests, Callbacks, Free, OneTaskInHand, InHand, IsBusy, record, settings,
   worker, counters
<1> QED
  BY <1>1, <1>2, <1>3, <1>4, <1>5, <1>6, <1>7, <1>8, <1>9, <1>10, <1>11, <1>12, <1>13, <1>14,
     <1>15, <1>16, <1>17, <1>18, <1>19, <1>20, <1>21, <1>22, <1>23, <1>24, <1>25, <1>26
  DEF Next, RequestStep, WorkerStep, PeriodicStep, LookupStep

LEMMA VerdictWrittenStep ==
    ASSUME TypeInv, VerdictWritten, [Next]_vars
    PROVE  VerdictWritten'
<1> USE DEF TypeInv, TypeOK, ManagerTypeOK, WorkerTypeOK, MuShape, WorkerShape, StorageTypeOK,
   VerdictWritten, Requests, Callbacks, Free, Mutex, MuOps, record, settings, worker, counters
<1>1. CASE UNCHANGED <<completed, mu, result>>
  BY <1>1
<1>2. ASSUME NEW op \in Entries, Enter(op) PROVE VerdictWritten'
  BY <1>2 DEF Enter
<1>3. CASE InvalidateTask
  BY <1>3 DEF InvalidateTask, PutCompleted
<1>4. CASE InvalidateDelete
  BY <1>4 DEF InvalidateDelete, DeletePrevious
<1>5. CASE InvalidateDone
  BY <1>5 DEF InvalidateDone
<1>6. CASE ReturnBusy
  BY <1>6 DEF ReturnBusy
<1>7. ASSUME NEW t \in Tasks, QueueTask(t) PROVE VerdictWritten'
  BY <1>7 DEF QueueTask, IsBusy
<1>8. CASE SendTask
  BY <1>8 DEF SendTask
<1>9. CASE RequestFails
  BY <1>9 DEF RequestFails, Fault, record, settings
<1>10. CASE TaskStarted
  BY <1>10 DEF TaskStarted
<1>11. CASE StartFunc
  BY <1>11 DEF StartFunc
<1>12. CASE TakeResult
  BY <1>12 DEF TakeResult
<1>13. CASE GiveUp
  BY <1>13 DEF GiveUp
<1>14. CASE TaskCompleted
  BY <1>14 DEF TaskCompleted, PutCompleted
<1>15. CASE PutLog
  BY <1>15 DEF PutLog
<1>16. CASE CompletedDelete
  BY <1>16 DEF CompletedDelete, DeletePrevious
<1>17. CASE ResetJob
  BY <1>17 DEF ResetJob
<1>18. CASE Panic
  BY <1>18 DEF Panic, ProcessLost, Fault, record, settings
<1>19. CASE PeriodicFunc
  BY <1>19 DEF PeriodicFunc
<1>20. CASE CleanRecord
  BY <1>20 DEF CleanRecord
<1>21. CASE CleanLog
  BY <1>21 DEF CleanLog
<1>22. CASE PeriodicStamp
  BY <1>22 DEF PeriodicStamp
<1>23. CASE PeriodicFails
  BY <1>23 DEF PeriodicFails, Fault, record, settings
<1>24. CASE Crash
  BY <1>24 DEF Crash, ProcessLost, record, settings
<1>25. ASSUME
         \/ Receive \/ Timeout \/ HourPasses \/ LookupNext \/ LookupEnd \/ UNCHANGED vars
         \/ \E t \in Tasks, res \in {"SUCCEEDED", "FAILED"} : FuncReturns(t, res)
         \/ \E t \in Tasks : Cancel(t)
         \/ \E limit \in HistoryLimits : Configure(limit)
         \/ \E op \in ReadOps, t \in Tasks : LookupBegin(op, t)
     PROVE  UNCHANGED <<completed, mu, result>>
  BY <1>25 DEF Receive, FuncReturns, Timeout, Cancel, HourPasses, Configure, LookupBegin,
     LookupNext, LookupEnd, vars, record, settings, worker, counters
<1> HIDE DEF TypeInv, TypeOK, ManagerTypeOK, WorkerTypeOK, MuShape, WorkerShape, StorageTypeOK,
   VerdictWritten, Requests, Callbacks, Free, Mutex, MuOps, record, settings, worker, counters
<1> QED
  BY <1>1, <1>2, <1>3, <1>4, <1>5, <1>6, <1>7, <1>8, <1>9, <1>10, <1>11, <1>12, <1>13, <1>14,
     <1>15, <1>16, <1>17, <1>18, <1>19, <1>20, <1>21, <1>22, <1>23, <1>24, <1>25
  DEF Next, RequestStep, WorkerStep, PeriodicStep, LookupStep

LEMMA StatusLookupStep ==
    ASSUME TypeInv, RecordsIssued, InvalidationCovers, StagesHaveRecords, StatusLookup, [Next]_vars
    PROVE  StatusLookup'
<1> USE DEF TypeInv, TypeOK, ManagerTypeOK, WorkerTypeOK, MuShape, WorkerShape, StorageTypeOK,
   LookupTypeOK, StatusLookup, Stored, Completed, NoReader, Reader, record, settings, worker,
   counters
<1>1. CASE UNCHANGED <<queued, running, completed, issued, reader>>
  BY <1>1
<1>2. CASE InvalidateTask
  <2>1. PICK t \in queued \cup running : PutCompleted(t, "CANCELED")
    BY <1>2, InvalidatesRecord
  <2>2. QED
    BY <1>2, <2>1 DEF InvalidateTask, PutCompleted
<1>3. CASE InvalidateDelete
  BY <1>3 DEF InvalidateDelete, DeletePrevious
<1>4. ASSUME NEW t \in Tasks, QueueTask(t) PROVE StatusLookup'
  BY <1>4 DEF QueueTask, IsBusy
<1>5. CASE TaskStarted
  BY <1>5 DEF TaskStarted
<1>6. CASE StartFunc
  BY <1>6 DEF StartFunc
<1>7. CASE TaskCompleted
  BY <1>7 DEF TaskCompleted, PutCompleted
<1>8. CASE CompletedDelete
  BY <1>8 DEF CompletedDelete, DeletePrevious
<1>9. CASE Panic
  BY <1>9 DEF Panic, ProcessLost, Fault, record, settings
<1>10. CASE CleanRecord
  BY <1>10 DEF CleanRecord
<1>11. ASSUME NEW op \in ReadOps, NEW t \in Tasks, LookupBegin(op, t) PROVE StatusLookup'
  <2>1. Lookup["status"] = <<"queued", "running", "completed">>
    BY DEF Lookup
  <2>2. reader'.op = op /\ reader'.task = t /\ reader'.rest = Lookup[op]
    BY <1>11 DEF LookupBegin
  <2>3. op # "none"
    OBVIOUS
  <2>4. QED
    BY <1>11, <2>1, <2>2, <2>3 DEF LookupBegin
<1>12. CASE LookupNext
  <2>0. reader'.op = reader.op /\ reader'.task = reader.task /\ reader.op # "none"
    BY <1>12 DEF LookupNext
  <2>1. SUFFICES ASSUME reader.op = "status" PROVE StatusLookup'
    BY <2>0
  <2>2. CASE reader.rest = <<"queued", "running", "completed">>
    <3>1. Head(reader.rest) = "queued" /\ Tail(reader.rest) = <<"running", "completed">>
      BY <2>2
    <3>2. QED
      BY <1>12, <2>0, <2>1, <3>1 DEF LookupNext, IsAt
  <2>3. CASE reader.rest = <<"running", "completed">>
    <3>1. Head(reader.rest) = "running" /\ Tail(reader.rest) = <<"completed">>
      BY <2>3
    <3>2. reader.task \notin queued
      BY <2>1, <2>3
    <3>3. QED
      BY <1>12, <2>0, <2>1, <3>1, <3>2 DEF LookupNext, IsAt
  <2>4. CASE reader.rest = <<"completed">>
    <3>1. Head(reader.rest) = "completed" /\ Tail(reader.rest) = <<>>
      BY <2>4
    <3>2. reader.task \notin queued \cup running
      BY <2>1, <2>4
    <3>3. QED
      BY <1>12, <2>0, <2>1, <3>1, <3>2 DEF LookupNext, IsAt
  <2>5. QED
    BY <1>12, <2>1, <2>2, <2>3, <2>4 DEF LookupNext
<1>13. CASE LookupEnd
  BY <1>13 DEF LookupEnd
<1>14. CASE Crash
  BY <1>14 DEF Crash, ProcessLost, record, settings
<1>15. ASSUME
         \/ InvalidateDone \/ ReturnBusy \/ SendTask \/ RequestFails \/ Receive \/ TakeResult
         \/ GiveUp \/ Timeout \/ PutLog \/ ResetJob \/ PeriodicFunc \/ CleanLog \/ PeriodicStamp
         \/ PeriodicFails \/ HourPasses \/ UNCHANGED vars
         \/ \E op \in Entries : Enter(op)
         \/ \E t \in Tasks, res \in {"SUCCEEDED", "FAILED"} : FuncReturns(t, res)
         \/ \E t \in Tasks : Cancel(t)
         \/ \E limit \in HistoryLimits : Configure(limit)
     PROVE  UNCHANGED <<queued, running, completed, issued, reader>>
  BY <1>15 DEF Enter, InvalidateDone, ReturnBusy, SendTask, RequestFails, Receive, FuncReturns,
     TakeResult, GiveUp, Timeout, Cancel, PutLog, ResetJob, PeriodicFunc, CleanLog, PeriodicStamp,
     PeriodicFails, HourPasses, Configure, vars, record, settings, worker, counters
<1> HIDE DEF TypeInv, TypeOK, ManagerTypeOK, WorkerTypeOK, MuShape, WorkerShape, StorageTypeOK,
   LookupTypeOK, StatusLookup, Stored, Completed, NoReader, Reader, record, settings, worker,
   counters
<1> QED
  BY <1>1, <1>2, <1>3, <1>4, <1>5, <1>6, <1>7, <1>8, <1>9, <1>10, <1>11, <1>12, <1>13, <1>14,
     <1>15
  DEF Next, RequestStep, WorkerStep, PeriodicStep, LookupStep

-----------------------------------------------------------------------------
(* The theorems *)

LEMMA IInvInit == Init => IInv
<1> SUFFICES ASSUME Init PROVE IInv
  OBVIOUS
<1>1. TypeInv
  BY TypeInit
<1>2. FreshManager /\ InvalidationCovers
  BY DEF Init, FreshManager, InvalidationCovers, Invalidating, NothingInHand, Free, Requests
<1>3. RecordsIssued
  BY DEF Init, RecordsIssued, Completed
<1>4. StagesHaveRecords /\ StagesDisjoint
  BY DEF Init, StagesHaveRecords, StagesDisjoint, InChan, Free
<1>5. RecordsAreInHand /\ OneTaskInHand
  BY DEF Init, RecordsAreInHand, OneTaskInHand, InHand, Free
<1>6. VerdictWritten /\ StatusLookup
  BY DEF Init, VerdictWritten, StatusLookup, NoReader, Free, Requests
<1> QED
  BY <1>1, <1>2, <1>3, <1>4, <1>5, <1>6 DEF IInv, TypeInv

LEMMA IInvStep == IInv /\ [Next]_vars => IInv'
<1> SUFFICES ASSUME IInv, [Next]_vars PROVE IInv'
  OBVIOUS
<1>1. TypeInv
  BY DEF IInv, TypeInv
<1>2. TypeInv'
  BY <1>1, TypeStep
<1> QED
  BY <1>1, <1>2, FreshManagerStep, InvalidationCoversStep, RecordsIssuedStep, StagesHaveRecordsStep,
     StagesDisjointStep, RecordsAreInHandStep, OneTaskInHandStep, VerdictWrittenStep, StatusLookupStep DEF IInv, TypeInv

LEMMA IInvCorrect == Spec => []IInv
BY IInvInit, IInvStep, PTL DEF Spec

\* With RunTask alone no two tasks are ever on their way at once.
THEOREM OneTaskAtATime == Spec => []OneTaskInHand
<1>1. IInv => OneTaskInHand
  BY DEF IInv
<1> QED
  BY <1>1, IInvCorrect, PTL

\* A manager that has invalidated the records of the previous one leaves no
\* record behind.
THEOREM NoRecordLeftBehind == Spec => []RecordsAreInHand
<1>1. IInv => RecordsAreInHand
  BY DEF IInv
<1> QED
  BY <1>1, IInvCorrect, PTL

\* The callbacks never panic for want of the record they replace.
THEOREM CallbacksNeverMiss == Spec => []CallbacksFindRecord
<1>1. IInv => CallbacksFindRecord
  BY DEF IInv, StagesHaveRecords, CallbacksFindRecord, RecordMissing, Free
<1> QED
  BY <1>1, IInvCorrect, PTL

\* A status lookup never answers "not found" for a task that is stored, though
\* it reads the three records one after the other and takes no lock.
THEOREM StatusNeverMisses ==
    ASSUME ReadOps = {"status"}
    PROVE  Spec => []LookupNeverMisses
<1>1. IInv => LookupNeverMisses
  <2> SUFFICES ASSUME IInv, LookupAnswered, ~reader.found PROVE ~Stored(reader.task)
    BY DEF LookupNeverMisses
  <2>1. reader \in Reader /\ StatusLookup
    BY DEF IInv, TypeOK, LookupTypeOK
  <2>2. reader.op = "status"
    BY <2>1 DEF StatusLookup, LookupAnswered, Reader
  <2>3. reader.rest = <<>>
    BY DEF LookupAnswered
  <2> QED
    BY <2>1, <2>2, <2>3 DEF StatusLookup
<1> QED
  BY <1>1, IInvCorrect, PTL

-----------------------------------------------------------------------------
(* The tasks manager implements TaskLifecycle. *)

LifecycleStatus == [t \in Tasks |-> Reported(t)]

LEMMA ReportedStays ==
    ASSUME UNCHANGED <<queued, running, completed, issued>>
    PROVE  UNCHANGED LifecycleStatus
BY DEF LifecycleStatus, Reported, Completed

LEMMA LifecycleInit == Init => Lifecycle!Init
BY DEF Init, Lifecycle!Init, Reported, Completed, Absent

\* Only the status of t changes.
OnlyMoves(t, status) ==
    /\ Reported(t)' = status
    /\ \A u \in Tasks \ {t} : Reported(u)' = Reported(u)

LEMMA StatusMoves ==
    ASSUME NEW t \in Tasks, NEW status, OnlyMoves(t, status)
    PROVE  LifecycleStatus' = [LifecycleStatus EXCEPT ![t] = status]
BY DEF OnlyMoves, LifecycleStatus

LEMMA StartMoves ==
    ASSUME NEW t \in Tasks, Reported(t) = "QUEUED", OnlyMoves(t, "RUNNING")
    PROVE  Lifecycle!Next
<1>1. LifecycleStatus[t] = "QUEUED"
  BY DEF LifecycleStatus
<1>2. LifecycleStatus' = [LifecycleStatus EXCEPT ![t] = "RUNNING"]
  BY StatusMoves
<1>3. Lifecycle!Start(t)
  BY <1>1, <1>2 DEF Lifecycle!Start, LifecycleStatus
<1> QED
  BY <1>3 DEF Lifecycle!Next

LEMMA EndMoves ==
    ASSUME NEW t \in Tasks, NEW verdict \in Terminal, OnlyMoves(t, verdict),
           Reported(t) = "RUNNING" \/ (Reported(t) = "QUEUED" /\ verdict = "CANCELED")
    PROVE  Lifecycle!Next
<1>1. LifecycleStatus[t] = Reported(t)
  BY DEF LifecycleStatus
<1>2. LifecycleStatus' = [LifecycleStatus EXCEPT ![t] = verdict]
  BY StatusMoves
<1>3. Lifecycle!End(t, verdict)
  BY <1>1, <1>2 DEF Lifecycle!End, LifecycleStatus
<1>4. verdict \in Lifecycle!Terminal
  BY DEF Terminal, Lifecycle!Terminal
<1> QED
  BY <1>3, <1>4 DEF Lifecycle!Next

LEMMA ForgetMoves ==
    ASSUME NEW t \in Tasks, Reported(t) \in Terminal, OnlyMoves(t, "FORGOTTEN")
    PROVE  Lifecycle!Next
<1>1. LifecycleStatus[t] \in Lifecycle!Terminal
  BY DEF LifecycleStatus, Terminal, Lifecycle!Terminal
<1>2. LifecycleStatus' = [LifecycleStatus EXCEPT ![t] = "FORGOTTEN"]
  BY StatusMoves
<1>3. Lifecycle!Forget(t)
  BY <1>1, <1>2 DEF Lifecycle!Forget, LifecycleStatus
<1> QED
  BY <1>3 DEF Lifecycle!Next

LEMMA SubmitMoves ==
    ASSUME NEW t \in Tasks, Reported(t) = "UNKNOWN", OnlyMoves(t, "QUEUED"),
           "AddTask" \notin Entries => \A u \in Tasks : Reported(u) \notin Active
    PROVE  Lifecycle!Next
<1>1. LifecycleStatus[t] = "UNKNOWN"
  BY DEF LifecycleStatus
<1>2. LifecycleStatus' = [LifecycleStatus EXCEPT ![t] = "QUEUED"]
  BY StatusMoves
<1>3. "AddTask" \notin Entries => \A u \in Tasks : LifecycleStatus[u] \notin Lifecycle!Active
  BY DEF LifecycleStatus, Active, Lifecycle!Active
<1>4. Lifecycle!Submit(t)
  BY <1>1, <1>2, <1>3 DEF Lifecycle!Submit, LifecycleStatus
<1> QED
  BY <1>4 DEF Lifecycle!Next

\* Writing the verdict of a task that is still queued or running shows nothing.
LEMMA VerdictIsHidden ==
    ASSUME TypeOK, NEW t \in queued \cup running, NEW status, PutCompleted(t, status),
           UNCHANGED issued, status \in Terminal
    PROVE  UNCHANGED LifecycleStatus
<1>1. \A u \in Tasks : Reported(u)' = Reported(u)
  <2> SUFFICES ASSUME NEW u \in Tasks PROVE Reported(u)' = Reported(u)
    OBVIOUS
  <2>1. completed' = [completed EXCEPT ![t] = status] /\ UNCHANGED <<queued, running, issued>>
    BY DEF PutCompleted
  <2>2. CASE u = t
    BY <2>1, <2>2 DEF Reported
  <2>3. CASE u # t
    <3>1. completed'[u] = completed[u]
      BY <2>1, <2>3 DEF TypeOK, StorageTypeOK
    <3> QED
      BY <2>1, <3>1 DEF Reported, Completed
  <2> QED
    BY <2>2, <2>3
<1> QED
  BY <1>1 DEF LifecycleStatus

\* The lock holder's task: what StartFunc, CompletedDelete and the deletions of
\* invalidateStorage change in what is reported.
LEMMA QueuedDeleted ==
    ASSUME NEW t \in Tasks, t \in queued, t \in running,
           queued' = queued \ {t}, UNCHANGED <<running, completed, issued>>
    PROVE  Lifecycle!Next
<1>1. Reported(t) = "QUEUED"
  BY DEF Reported
<1>2. Reported(t)' = "RUNNING"
  BY DEF Reported
<1>3. \A u \in Tasks \ {t} : Reported(u)' = Reported(u)
  BY DEF Reported, Completed
<1> QED
  BY <1>1, <1>2, <1>3, StartMoves DEF OnlyMoves

LEMMA RecordDeleted ==
    ASSUME NEW t \in Tasks, completed[t] \in Terminal, DeletePrevious(t), UNCHANGED issued,
           \/ t \in running /\ t \notin queued
           \/ t \in queued /\ t \notin running /\ completed[t] = "CANCELED"
    PROVE  Lifecycle!Next
<1>1. t \notin queued' /\ t \notin running' /\ completed' = completed
  BY DEF DeletePrevious
<1>2. Reported(t)' = completed[t]
  BY <1>1 DEF Reported, Completed, Terminal, Absent
<1>3. \A u \in Tasks \ {t} : Reported(u)' = Reported(u)
  BY DEF DeletePrevious, Reported, Completed
<1>4. Reported(t) = "RUNNING" \/ (Reported(t) = "QUEUED" /\ completed[t] = "CANCELED")
  BY DEF Reported
<1>5. OnlyMoves(t, completed[t])
  BY <1>2, <1>3 DEF OnlyMoves
<1> QED
  BY <1>4, <1>5, EndMoves

LEMMA LifecycleStep ==
    ASSUME IInv, [Next]_vars
    PROVE  [Lifecycle!Next]_LifecycleStatus
<1> USE DEF IInv, TypeOK, ManagerTypeOK, StorageTypeOK, WorkerTypeOK, MuShape, WorkerShape
<1>1. ASSUME UNCHANGED <<queued, running, completed, issued>> PROVE UNCHANGED LifecycleStatus
  BY <1>1, ReportedStays
<1>2. ASSUME InvalidateTask PROVE UNCHANGED LifecycleStatus
  <2>1. PICK t \in queued \cup running : PutCompleted(t, "CANCELED")
    BY <1>2, InvalidatesRecord DEF TypeInv
  <2> QED
    BY <1>2, <2>1, VerdictIsHidden DEF InvalidateTask, Terminal
<1>3. ASSUME InvalidateDelete PROVE Lifecycle!Next
  <2>1. PICK t \in Tasks : t = mu.task
    BY <1>3 DEF InvalidateDelete
  <2>2. completed[t] = "CANCELED"
    BY <1>3, <2>1 DEF InvalidateDelete, VerdictWritten
  <2>3. t \in queued \cup running
    BY <1>3, <2>1 DEF InvalidateDelete, InvalidationCovers, Invalidating, Deleting
  <2>4. DeletePrevious(t) /\ UNCHANGED issued
    BY <1>3, <2>1 DEF InvalidateDelete
  <2>5. CASE t \in queued /\ t \in running
    <3>1. queued' = queued \ {t} /\ UNCHANGED <<running, completed, issued>>
      BY <2>4, <2>5 DEF DeletePrevious
    <3> QED
      BY <2>5, <3>1, QueuedDeleted
  <2>6. CASE ~(t \in queued /\ t \in running)
    BY <2>2, <2>3, <2>4, <2>6, RecordDeleted DEF Terminal
  <2> QED
    BY <2>5, <2>6
<1>4. ASSUME NEW t \in Tasks, QueueTask(t) PROVE Lifecycle!Next
  <2>1. \A u \in Tasks \ {t} : Reported(u)' = Reported(u)
    BY <1>4 DEF QueueTask, Reported, Completed
  <2>2. Reported(t) = "UNKNOWN"
    BY <1>4 DEF QueueTask, Reported, RecordsIssued
  <2>3. Reported(t)' = "QUEUED"
    BY <1>4 DEF QueueTask, Reported
  <2>4. ASSUME "AddTask" \notin Entries, NEW u \in Tasks
        PROVE  Reported(u) \notin Active
    <3>1. mu \in Mutex /\ mu.at = "admit"
      BY <1>4 DEF QueueTask
    <3>2. mu.op \in Requests
      BY <3>1 DEF Mutex, MuOps, Callbacks, Free
    <3>3. mu.op = "RunTask"
      BY <2>4, <3>2 DEF Requests
    <3>4. queued = {} /\ running = {}
      BY <1>4, <3>3 DEF QueueTask, IsBusy
    <3>5. Reported(u) = IF u \in Completed THEN completed[u]
                        ELSE IF u \in issued THEN "FORGOTTEN" ELSE "UNKNOWN"
      BY <3>4 DEF Reported
    <3>6. u \in Completed => completed[u] \in Terminal
      BY DEF Completed
    <3> QED
      BY <3>5, <3>6 DEF Active, Terminal
  <2> QED
    BY <2>1, <2>2, <2>3, <2>4, SubmitMoves DEF OnlyMoves
<1>5. ASSUME TaskStarted PROVE UNCHANGED LifecycleStatus
  <2>1. \A u \in Tasks : Reported(u)' = Reported(u)
    BY <1>5 DEF TaskStarted, Reported, Completed
  <2> QED
    BY <2>1 DEF LifecycleStatus
<1>6. ASSUME StartFunc PROVE Lifecycle!Next
  <2>1. job \in Tasks /\ job = mu.task /\ job \in queued /\ job \in running
    BY <1>6 DEF StartFunc, StagesHaveRecords
  <2>2. queued' = queued \ {job} /\ UNCHANGED <<running, completed, issued>>
    BY <1>6, <2>1 DEF StartFunc
  <2> QED
    BY <2>1, <2>2, QueuedDeleted
<1>7. ASSUME TaskCompleted PROVE UNCHANGED LifecycleStatus
  <2>1. job \in queued \cup running /\ PutCompleted(job, result) /\ UNCHANGED issued
    BY <1>7 DEF TaskCompleted
  <2>2. result \in Terminal
    BY <1>7 DEF TaskCompleted, Terminal
  <2> QED
    BY <2>1, <2>2, VerdictIsHidden
<1>8. ASSUME CompletedDelete PROVE Lifecycle!Next
  <2>1. job \in Tasks /\ job = mu.task /\ job \notin queued /\ job \in running
    BY <1>8 DEF CompletedDelete, StagesHaveRecords
  <2>2. completed[job] = result /\ result \in {"SUCCEEDED", "FAILED"}
    BY <1>8, <2>1 DEF CompletedDelete, VerdictWritten
  <2>3. DeletePrevious(job) /\ UNCHANGED issued
    BY <1>8, <2>1 DEF CompletedDelete
  <2> QED
    BY <2>1, <2>2, <2>3, RecordDeleted DEF Terminal
<1>9. ASSUME CleanRecord PROVE [Lifecycle!Next]_LifecycleStatus
  <2>1. PICK p \in mu.todo : completed' = [completed EXCEPT ![p[1]] = Absent]
    BY <1>9 DEF CleanRecord
  <2>2. PICK t \in Tasks : t = p[1]
    BY <2>1 DEF Mutex
  <2>3. completed' = [completed EXCEPT ![t] = Absent] /\ UNCHANGED <<queued, running, issued>>
    BY <1>9, <2>1, <2>2 DEF CleanRecord
  <2>4. \A u \in Tasks \ {t} : Reported(u)' = Reported(u)
    BY <2>3 DEF Reported, Completed
  <2>5. t \notin Completed'
    BY <2>3 DEF Completed
  <2>6. CASE t \in queued \cup running \/ t \notin Completed
    <3>1. Reported(t)' = Reported(t)
      BY <2>3, <2>5, <2>6 DEF Reported
    <3> QED
      BY <2>4, <3>1 DEF LifecycleStatus
  <2>7. CASE t \notin queued \cup running /\ t \in Completed
    <3>1. Reported(t) \in Terminal
      BY <2>7 DEF Reported, Completed
    <3>2. Reported(t)' = "FORGOTTEN"
      BY <2>3, <2>5, <2>7 DEF Reported, RecordsIssued
    <3> QED
      BY <2>4, <3>1, <3>2, ForgetMoves DEF OnlyMoves
  <2> QED
    BY <2>6, <2>7
<1>10. ASSUME
         \/ InvalidateDone \/ ReturnBusy \/ SendTask \/ RequestFails \/ Receive \/ TakeResult
         \/ GiveUp \/ Timeout \/ PutLog \/ ResetJob \/ Panic \/ PeriodicFunc \/ CleanLog
         \/ PeriodicStamp \/ PeriodicFails \/ HourPasses \/ LookupNext \/ LookupEnd \/ Crash
         \/ UNCHANGED vars
         \/ \E op \in Entries : Enter(op)
         \/ \E t \in Tasks, res \in {"SUCCEEDED", "FAILED"} : FuncReturns(t, res)
         \/ \E t \in Tasks : Cancel(t)
         \/ \E limit \in HistoryLimits : Configure(limit)
         \/ \E op \in ReadOps, t \in Tasks : LookupBegin(op, t)
     PROVE  UNCHANGED <<queued, running, completed, issued>>
  BY <1>10 DEF Enter, InvalidateDone, ReturnBusy, SendTask, RequestFails, Receive, FuncReturns,
     TakeResult, GiveUp, Timeout, Cancel, PutLog, ResetJob, Panic, PeriodicFunc, CleanLog,
     PeriodicStamp, PeriodicFails, HourPasses, Configure, LookupBegin, LookupNext, LookupEnd, Crash,
     ProcessLost, Fault, vars, record, settings, worker, counters
<1> HIDE DEF IInv, TypeOK, ManagerTypeOK, StorageTypeOK, WorkerTypeOK, MuShape, WorkerShape
<1> QED
  BY <1>1, <1>2, <1>3, <1>4, <1>5, <1>6, <1>7, <1>8, <1>9, <1>10
  DEF Next, RequestStep, WorkerStep, PeriodicStep, LookupStep

\* Whatever the restarts, storage errors and interleavings, the statuses a
\* client is told move as TaskLifecycle allows.
THEOREM ImplementsLifecycle == Spec => LifecycleSpec
<1>1. IInv /\ [Next]_vars => [Lifecycle!Next]_LifecycleStatus
  BY LifecycleStep
<1> QED
  BY <1>1, IInvCorrect, LifecycleInit, PTL DEF Spec, LifecycleSpec, Lifecycle!Spec, LifecycleStatus

-----------------------------------------------------------------------------
(* The functions of tasks that were given up *)

\* A function runs for the current job; or the worker has given it up, and its
\* task is failed, or about to be. None outlives the plugin.
FuncsKnown ==
    /\ ~storageSet \/ Invalidating => \A t \in Tasks : func[t] = "none"
    /\ \A t \in Tasks : func[t] # "none" =>
         /\ t \in issued
         /\ \/ job = t /\ wpc = "running"
            \/ job = t /\ wpc = "finishing" /\ result = "FAILED"
            \/ /\ t \notin queued \cup running /\ completed[t] \in {"FAILED", Absent}
               /\ job = t => wpc = "resetting"

LEMMA FuncsKnownStep ==
    ASSUME IInv, FuncsKnown, [Next]_vars
    PROVE  FuncsKnown'
<1> USE DEF IInv, TypeOK, ManagerTypeOK, WorkerTypeOK, MuShape, WorkerShape, FreshManager,
   StorageTypeOK, NothingInHand, FuncsKnown, Invalidating, Requests, Free, Mutex,
   record, settings, worker, counters
<1>1. CASE UNCHANGED <<storageSet, mu, func, issued, job, wpc, result, queued, running, completed>>
  BY <1>1
<1>2. ASSUME NEW op \in Entries, Enter(op) PROVE FuncsKnown'
  BY <1>2 DEF Enter
<1>3. CASE InvalidateTask
  BY <1>3 DEF InvalidateTask, PutCompleted, Callbacks, MuOps
<1>4. CASE InvalidateDelete
  BY <1>4 DEF InvalidateDelete, DeletePrevious
<1>5. CASE InvalidateDone
  BY <1>5 DEF InvalidateDone, Callbacks, MuOps
<1>6. CASE ReturnBusy
  BY <1>6 DEF ReturnBusy
<1>7. ASSUME NEW t \in Tasks, QueueTask(t) PROVE FuncsKnown'
  BY <1>7 DEF QueueTask, Callbacks, MuOps
<1>8. CASE SendTask
  BY <1>8 DEF SendTask
<1>9. CASE RequestFails
  BY <1>9 DEF RequestFails, Fault
<1>10. CASE Receive
  <2>1. taskChan # <<>> /\ job' = Head(taskChan) /\ wpc = "idle"
    BY <1>10 DEF Receive
  <2>2. job' \in queued
    <3>1. 1 \in 1 .. Len(taskChan) /\ Head(taskChan) = taskChan[1]
      BY <2>1
    <3>2. QED
      BY <2>1, <3>1 DEF StagesHaveRecords
  <2>3. QED
    BY <1>10, <2>1, <2>2 DEF Receive
<1>11. CASE TaskStarted
  BY <1>11 DEF TaskStarted
<1>12. CASE StartFunc
  <2>1. job \in issued /\ mu.task = job /\ wpc = "starting" /\ job \in Tasks
    BY <1>12 DEF StartFunc, StagesDisjoint
  <2>2. QED
    BY <1>12, <2>1 DEF StartFunc
<1>13. ASSUME NEW t \in Tasks, NEW res \in {"SUCCEEDED", "FAILED"}, FuncReturns(t, res)
       PROVE  FuncsKnown'
  BY <1>13 DEF FuncReturns
<1>14. CASE TakeResult
  BY <1>14 DEF TakeResult
<1>15. CASE GiveUp
  BY <1>15 DEF GiveUp
<1>16. CASE TaskCompleted
  <2>1. PutCompleted(job, result) /\ job \in queued \cup running /\ wpc = "finishing"
    BY <1>16 DEF TaskCompleted
  <2>2. QED
    BY <1>16, <2>1 DEF TaskCompleted, PutCompleted
<1>17. CASE PutLog
  BY <1>17 DEF PutLog, Callbacks
<1>18. CASE CompletedDelete
  <2>1. /\ wpc = "finishing" /\ mu.task = job /\ completed[job] = result
        /\ job \in running \ queued
    BY <1>18 DEF CompletedDelete, VerdictWritten, StagesHaveRecords
  <2>2. /\ wpc' = "resetting" /\ running' = running \ {job} /\ queued' = queued \ {job}
        /\ mu' = Free /\ UNCHANGED <<storageSet, func, issued, job, result, completed>>
    BY <1>18, <2>1 DEF CompletedDelete, DeletePrevious
  <2>3. QED
    BY <2>1, <2>2
<1>19. CASE ResetJob
  BY <1>19 DEF ResetJob
<1>20. CASE Panic
  BY <1>20 DEF Panic, ProcessLost
<1>21. CASE PeriodicFunc
  BY <1>21 DEF PeriodicFunc
<1>22. CASE CleanRecord
  BY <1>22 DEF CleanRecord
<1>23. CASE CleanLog
  BY <1>23 DEF CleanLog
<1>24. CASE PeriodicStamp
  BY <1>24 DEF PeriodicStamp
<1>25. CASE PeriodicFails
  BY <1>25 DEF PeriodicFails, Fault
<1>26. CASE Crash
  BY <1>26 DEF Crash, ProcessLost
<1>27. ASSUME
         \/ Timeout \/ HourPasses \/ LookupNext \/ LookupEnd \/ UNCHANGED vars
         \/ \E t \in Tasks : Cancel(t)
         \/ \E limit \in HistoryLimits : Configure(limit)
         \/ \E op \in ReadOps, t \in Tasks : LookupBegin(op, t)
     PROVE  UNCHANGED <<storageSet, mu, func, issued, job, wpc, result, queued, running, completed>>
  BY <1>27 DEF Timeout, Cancel, HourPasses, Configure, LookupBegin, LookupNext, LookupEnd, vars
<1> HIDE DEF IInv, TypeOK, ManagerTypeOK, WorkerTypeOK, MuShape, WorkerShape, FreshManager,
   StorageTypeOK, NothingInHand, FuncsKnown, Invalidating, Requests, Free, Mutex,
   record, settings, worker, counters
<1> QED
  BY <1>1, <1>2, <1>3, <1>4, <1>5, <1>6, <1>7, <1>8, <1>9, <1>10, <1>11, <1>12, <1>13, <1>14,
     <1>15, <1>16, <1>17, <1>18, <1>19, <1>20, <1>21, <1>22, <1>23, <1>24, <1>25, <1>26, <1>27
  DEF Next, RequestStep, WorkerStep, PeriodicStep, LookupStep

\* A function that runs on behind the worker's back belongs to a task that was
\* reported as failed and is neither queued nor running any more: no success, no
\* cancellation by a restart, and no second worker beside it is ever reported
\* (worker/actions.go, WrapTaskFunc; worker.go, processJob).
THEOREM StrayFuncsHaveFailed == Spec => []StrayFuncsFailed
<1>1. Init => FuncsKnown
  BY DEF Init, FuncsKnown
<1>2. IInv /\ FuncsKnown => StrayFuncsFailed
  BY DEF FuncsKnown, StrayFuncsFailed, InHand, IInv, TypeOK, WorkerTypeOK
<1> QED
  BY <1>1, <1>2, FuncsKnownStep, IInvCorrect, PTL DEF Spec

-----------------------------------------------------------------------------
(* The logs *)

\* As long as nothing fails, a log without a record is the one the cleanup is
\* about to delete.
LogsHaveRecords ==
    crashes = 0 /\ faults = 0 =>
        logs \subseteq Completed \cup (IF mu.at = "cleanlog" THEN {mu.task} ELSE {})

LEMMA LogsHaveRecordsStep ==
    ASSUME IInv, LogsHaveRecords, [Next]_vars
    PROVE  LogsHaveRecords'
<1> USE DEF IInv, TypeOK, ManagerTypeOK, WorkerTypeOK, MuShape, WorkerShape, StorageTypeOK,
   LookupTypeOK, LogsHaveRecords, Completed, Free, Mutex, record, settings, worker, counters
<1>1. CASE UNCHANGED <<logs, completed, mu, crashes, faults>>
  BY <1>1
<1>2. ASSUME NEW op \in Entries, Enter(op) PROVE LogsHaveRecords'
  BY <1>2 DEF Enter
<1>3. CASE InvalidateTask
  <2>1. PICK t \in queued \cup running : PutCompleted(t, "CANCELED")
    BY <1>3, InvalidatesRecord DEF TypeInv
  <2>2. mu.at = "invalidate" /\ UNCHANGED counters
    BY <1>3 DEF InvalidateTask
  <2>3. QED
    BY <2>1, <2>2 DEF PutCompleted, Absent
<1>4. CASE InvalidateDelete
  BY <1>4 DEF InvalidateDelete, DeletePrevious
<1>5. CASE InvalidateDone \/ ReturnBusy \/ SendTask
  BY <1>5 DEF InvalidateDone, ReturnBusy, SendTask
<1>6. ASSUME NEW t \in Tasks, QueueTask(t) PROVE LogsHaveRecords'
  BY <1>6 DEF QueueTask
<1>7. CASE RequestFails \/ PeriodicFails
  BY <1>7 DEF RequestFails, PeriodicFails, Fault
<1>8. CASE TaskStarted \/ StartFunc
  BY <1>8 DEF TaskStarted, StartFunc
<1>9. CASE TaskCompleted
  BY <1>9 DEF TaskCompleted, PutCompleted, Absent
<1>10. CASE PutLog
  <2>1. mu.op = "TaskCompleted" /\ mu.task = job /\ job \in Tasks
    BY <1>10 DEF PutLog, Requests, Callbacks, MuOps
  <2>2. completed[job] \in {"SUCCEEDED", "FAILED"}
    BY <2>1 DEF VerdictWritten
  <2>3. QED
    BY <1>10, <2>1, <2>2 DEF PutLog, Absent
<1>11. CASE CompletedDelete
  BY <1>11 DEF CompletedDelete, DeletePrevious
<1>12. CASE Panic
  <2>1. ~RecordMissing
    BY DEF RecordMissing, StagesHaveRecords
  <2>2. QED
    BY <1>12, <2>1 DEF Panic, Fault
<1>13. CASE PeriodicFunc
  BY <1>13 DEF PeriodicFunc
<1>14. CASE CleanRecord
  <2>1. PICK p \in mu.todo :
             /\ completed' = [completed EXCEPT ![p[1]] = Absent]
             /\ mu' = [mu EXCEPT !.at = "cleanlog", !.task = p[1], !.todo = @ \ {p}]
    BY <1>14 DEF CleanRecord
  <2>2. mu'.at = "cleanlog" /\ mu'.task = p[1]
    BY <2>1
  <2>3. mu.at = "clean" /\ UNCHANGED <<logs, crashes, faults>>
    BY <1>14 DEF CleanRecord
  <2>4. QED
    BY <2>1, <2>2, <2>3
<1>15. CASE CleanLog
  BY <1>15 DEF CleanLog
<1>16. CASE PeriodicStamp
  BY <1>16 DEF PeriodicStamp
<1>17. CASE Crash
  BY <1>17 DEF Crash
<1>18. ASSUME
         \/ Receive \/ TakeResult \/ GiveUp \/ ResetJob
         \/ Timeout \/ HourPasses \/ LookupNext \/ LookupEnd \/ UNCHANGED vars
         \/ \E t \in Tasks, res \in {"SUCCEEDED", "FAILED"} : FuncReturns(t, res)
         \/ \E t \in Tasks : Cancel(t)
         \/ \E limit \in HistoryLimits : Configure(limit)
         \/ \E op \in ReadOps, t \in Tasks : LookupBegin(op, t)
     PROVE  UNCHANGED <<logs, completed, mu, crashes, faults>>
  BY <1>18 DEF Receive, TakeResult, GiveUp, ResetJob, FuncReturns, Timeout, Cancel, HourPasses,
     Configure, LookupBegin, LookupNext, LookupEnd, vars
<1> HIDE DEF IInv, TypeOK, ManagerTypeOK, WorkerTypeOK, MuShape, WorkerShape, StorageTypeOK,
   LookupTypeOK, LogsHaveRecords, Completed, Free, Mutex, record, settings, worker, counters
<1> QED
  BY <1>1, <1>2, <1>3, <1>4, <1>5, <1>6, <1>7, <1>8, <1>9, <1>10, <1>11, <1>12, <1>13, <1>14,
     <1>15, <1>16, <1>17, <1>18
  DEF Next, RequestStep, WorkerStep, PeriodicStep, LookupStep

\* Until the plugin stops or a storage call fails, a log is only kept with the
\* record of its task: the record is written before the log, and the cleanup
\* deletes the log before anybody else gets the lock
\* (manager/actions.go, taskCompletedCallback; periodic.go, cleanupTaskHistory).
THEOREM LogsKeepTheirRecord == Spec => [](crashes = 0 /\ faults = 0 => NoOrphanLogs)
<1>1. Init => LogsHaveRecords
  BY DEF Init, LogsHaveRecords
<1>2. LogsHaveRecords => (crashes = 0 /\ faults = 0 => NoOrphanLogs)
  BY DEF LogsHaveRecords, NoOrphanLogs, Free
<1> QED
  BY <1>1, <1>2, LogsHaveRecordsStep, IInvCorrect, PTL DEF Spec

-----------------------------------------------------------------------------
(* The cleanup of the history *)

\* Of tasks that ended at different times, fewer than n are newer than each of
\* the n newest: so there are not more than n of them.
LEMMA NewestBounded ==
    ASSUME IsFiniteSet(Completed), modified \in [Tasks -> Nat],
           \A t, u \in Completed : modified[t] = modified[u] => t = u,
           NEW n \in Nat
    PROVE  IsFiniteSet(Newest(n)) /\ Cardinality(Newest(n)) <= n
<1> DEFINE Later(t) == {u \in Completed : Newer(u, t)}
           rank     == [t \in Newest(n) |-> Cardinality(Later(t))]
<1>1. ASSUME NEW t \in Completed PROVE IsFiniteSet(Later(t)) /\ Cardinality(Later(t)) \in Nat
  BY FS_Subset, FS_CardinalityType
<1>2. ASSUME NEW t \in Completed, NEW u \in Completed, modified[t] < modified[u]
      PROVE  Cardinality(Later(u)) < Cardinality(Later(t))
  <2>1. Later(u) \in SUBSET Later(t)
    BY <1>2 DEF Newer, Completed
  <2>2. u \in Later(t) /\ u \notin Later(u)
    BY <1>2 DEF Newer, Completed
  <2>3. Cardinality(Later(u)) <= Cardinality(Later(t))
        /\ Cardinality(Later(u)) # Cardinality(Later(t))
    BY <1>1, <2>1, <2>2, FS_Subset
  <2>4. QED
    BY <1>1, <2>3
<1>3. ASSUME NEW t \in Newest(n) PROVE t \in Completed /\ rank[t] \in 0 .. n - 1
  <2>1. t \in Completed /\ Cardinality(Later(t)) < n
    BY DEF Newest
  <2>2. QED
    BY <1>1, <2>1
<1>4. ASSUME NEW t \in Newest(n), NEW u \in Newest(n), t # u PROVE rank[t] # rank[u]
  <2>1. t \in Completed /\ u \in Completed /\ modified[t] # modified[u]
    BY <1>3, <1>4
  <2>2. modified[t] < modified[u] \/ modified[u] < modified[t]
    BY <2>1 DEF Completed
  <2>3. rank[t] = Cardinality(Later(t)) /\ rank[u] = Cardinality(Later(u))
    OBVIOUS
  <2>4. Cardinality(Later(t)) \in Nat /\ Cardinality(Later(u)) \in Nat
    BY <1>1, <2>1
  <2> HIDE DEF rank, Later
  <2>5. QED
    BY <1>2, <2>1, <2>2, <2>3, <2>4
<1>5. rank \in Injection(Newest(n), 0 .. n - 1)
  <2>1. rank \in [Newest(n) -> 0 .. n - 1]
    BY <1>3
  <2>2. \A t, u \in Newest(n) : rank[t] = rank[u] => t = u
    BY <1>4
  <2> HIDE DEF rank
  <2>3. QED
    BY <2>1, <2>2 DEF Injection, IsInjective
<1>6. IsFiniteSet(0 .. n - 1) /\ Cardinality(0 .. n - 1) = n
  BY FS_Interval
<1>7. QED
  BY <1>5, <1>6, FS_Injection

\* What the cleanup under way spares is within the limit it has read; the times
\* at which tasks ended differ.
Spared == {t \in Completed : <<t, "COMPLETED">> \notin mu.todo}

CleanupCovers ==
    /\ IsFiniteSet(issued)
    /\ \A t \in Completed : modified[t] < clock
    /\ \A t, u \in Completed : modified[t] = modified[u] => t = u
    /\ mu.op = "Periodic" =>
         /\ mu.todo \subseteq Tasks \X {"COMPLETED"}
         /\ \E limit \in HistoryLimits : Cardinality(Spared) <= limit

LEMMA PutCompletedCovers ==
    ASSUME IInv, CleanupCovers, NEW t \in Tasks, NEW status \in Terminal,
           PutCompleted(t, status), UNCHANGED issued, mu'.op # "Periodic"
    PROVE  CleanupCovers'
<1>1. completed' = [completed EXCEPT ![t] = status] /\ modified' = [modified EXCEPT ![t] = clock]
      /\ clock' = clock + 1
  BY DEF PutCompleted
<1>2. modified \in [Tasks -> Nat] /\ clock \in Nat /\ completed \in [Tasks -> Terminal \cup {Absent}]
  BY DEF IInv, TypeOK, StorageTypeOK
<1>3. Completed' = Completed \cup {t}
  BY <1>1, <1>2 DEF Completed, Terminal, Absent
<1>4. QED
  BY <1>1, <1>2, <1>3 DEF CleanupCovers, Completed

LEMMA SparedByPeriodicFunc ==
    ASSUME IInv, CleanupCovers, PeriodicFunc
    PROVE  /\ mu'.todo \subseteq Tasks \X {"COMPLETED"}
           /\ \E limit \in HistoryLimits : Cardinality(Spared') <= limit
<1>1. /\ mu'.todo = Doomed(historyLimit) \X {"COMPLETED"}
      /\ UNCHANGED completed
  BY DEF PeriodicFunc, Free, record
<1>2. historyLimit \in HistoryLimits /\ historyLimit \in Nat
  BY DEF IInv, TypeOK, StorageTypeOK
<1>3. IsFiniteSet(Completed)
  BY FS_Subset DEF IInv, RecordsIssued, CleanupCovers
<1>4. Doomed(historyLimit) \subseteq Completed
  BY DEF Doomed
<1>5. Spared' = Completed \ Doomed(historyLimit)
  BY <1>1, <1>4 DEF Spared, Completed
<1>6. CASE Cardinality(Completed) > historyLimit
  <2>1. Spared' = Newest(historyLimit)
    BY <1>5, <1>6 DEF Doomed, Newest
  <2>2. QED
    BY <1>1, <1>2, <1>3, <1>4, <2>1, NewestBounded
       DEF IInv, TypeOK, StorageTypeOK, CleanupCovers, Completed
<1>7. CASE ~(Cardinality(Completed) > historyLimit)
  <2>1. Spared' = {}
    BY <1>5, <1>7 DEF Doomed
  <2>2. Cardinality(Spared') <= historyLimit
    BY <1>2, <2>1, FS_EmptySet
  <2>3. QED
    BY <1>1, <1>2, <1>4, <2>2 DEF Completed
<1>8. QED
  BY <1>6, <1>7

LEMMA CleanupCoversStep ==
    ASSUME IInv, CleanupCovers, [Next]_vars
    PROVE  CleanupCovers'
<1> USE DEF record, settings, worker, counters
<1>1. CASE UNCHANGED <<completed, modified, clock, issued, mu>>
  BY <1>1 DEF CleanupCovers, Completed, Spared
<1>2. ASSUME UNCHANGED <<completed, modified, clock, issued>>, mu'.op # "Periodic"
      PROVE  CleanupCovers'
  BY <1>2 DEF CleanupCovers, Completed
<1>3. ASSUME NEW op \in Entries, Enter(op) PROVE CleanupCovers'
  BY <1>2, <1>3 DEF Enter, Free
<1>4. CASE InvalidateTask
  <2>1. PICK t \in queued \cup running : PutCompleted(t, "CANCELED") /\ mu'.op = mu.op
    BY <1>4, InvalidatesRecord DEF IInv, TypeInv
  <2>2. mu.op # "Periodic" /\ UNCHANGED issued
    BY <1>4 DEF InvalidateTask, IInv, MuShape
  <2>3. QED
    BY <2>1, <2>2, PutCompletedCovers DEF IInv, TypeOK, StorageTypeOK, Terminal
<1>5. CASE InvalidateDelete \/ InvalidateDone \/ PutLog
  <2>1. /\ mu.op # "Periodic" /\ mu'.op = mu.op
        /\ UNCHANGED <<completed, modified, clock, issued>>
    BY <1>5 DEF InvalidateDelete, DeletePrevious, InvalidateDone, PutLog, IInv, TypeOK,
       ManagerTypeOK, Mutex, MuShape, Requests
  <2>2. QED
    BY <1>2, <2>1
<1>6. CASE ReturnBusy \/ SendTask \/ RequestFails \/ StartFunc \/ CompletedDelete \/ Panic
            \/ Crash \/ PeriodicStamp \/ PeriodicFails \/ TaskStarted
  <2>1. mu' = Free \/ mu'.op = "TaskStarted"
    BY <1>6 DEF ReturnBusy, SendTask, RequestFails, StartFunc, CompletedDelete, Panic, Crash,
       ProcessLost, PeriodicStamp, PeriodicFails, TaskStarted, Free
  <2>2. UNCHANGED <<completed, modified, clock, issued>>
    BY <1>6 DEF ReturnBusy, SendTask, RequestFails, StartFunc, CompletedDelete, DeletePrevious,
       Panic, Crash, ProcessLost, PeriodicStamp, PeriodicFails, TaskStarted
  <2>3. QED
    BY <1>2, <2>1, <2>2 DEF Free
<1>7. ASSUME NEW t \in Tasks, QueueTask(t) PROVE CleanupCovers'
  <2>1. /\ issued' = issued \cup {t} /\ mu'.op = mu.op /\ mu.op # "Periodic"
        /\ UNCHANGED <<completed, modified, clock>>
    BY <1>7 DEF QueueTask, IInv, TypeOK, ManagerTypeOK, Mutex, MuShape
  <2>2. IsFiniteSet(issued')
    BY <2>1, FS_AddElement DEF CleanupCovers
  <2>3. QED
    BY <2>1, <2>2 DEF CleanupCovers, Completed
<1>8. CASE TaskCompleted
  <2>1. PutCompleted(job, result) /\ UNCHANGED issued /\ mu'.op = "TaskCompleted"
        /\ wpc = "finishing"
    BY <1>8 DEF TaskCompleted, Free
  <2>2. job \in Tasks /\ result \in Terminal
    BY <2>1 DEF IInv, WorkerShape, Terminal
  <2>3. QED
    BY <2>1, <2>2, PutCompletedCovers
<1>9. CASE PeriodicFunc
  <2>1. UNCHANGED <<completed, modified, clock, issued>>
    BY <1>9 DEF PeriodicFunc
  <2>2. QED
    BY <1>9, <2>1, SparedByPeriodicFunc DEF CleanupCovers, Completed
<1>10. CASE CleanRecord
  <2>1. PICK p \in mu.todo :
             /\ completed' = [completed EXCEPT ![p[1]] = Absent]
             /\ modified' = [modified EXCEPT ![p[1]] = 0]
             /\ mu' = [mu EXCEPT !.at = "cleanlog", !.task = p[1], !.todo = @ \ {p}]
    BY <1>10 DEF CleanRecord
  <2>2. mu.op = "Periodic" /\ mu \in Mutex /\ UNCHANGED <<clock, issued>>
    BY <1>10 DEF CleanRecord, IInv, TypeOK, ManagerTypeOK, Mutex, MuOps, MuShape, Callbacks, Free
  <2>3. mu'.op = "Periodic" /\ mu'.todo = mu.todo \ {p}
    BY <2>1, <2>2 DEF Mutex
  <2>4. PICK t \in Tasks : p = <<t, "COMPLETED">>
    BY <2>2 DEF CleanupCovers
  <2>5. Completed' = Completed \ {t}
    BY <2>1, <2>4 DEF Completed, IInv, TypeOK, StorageTypeOK
  <2>6. Spared' = Spared
    BY <2>1, <2>3, <2>4, <2>5 DEF Spared
  <2>7. \A u \in Completed' : modified'[u] = modified[u]
    BY <2>1, <2>4, <2>5 DEF Completed, IInv, TypeOK, StorageTypeOK
  <2>8. QED
    BY <2>2, <2>3, <2>5, <2>6, <2>7 DEF CleanupCovers
<1>11. CASE CleanLog
  <2>1. mu'.op = mu.op /\ mu'.todo = mu.todo /\ UNCHANGED <<completed, modified, clock, issued>>
    BY <1>11 DEF CleanLog, IInv, TypeOK, ManagerTypeOK, Mutex
  <2>2. QED
    BY <2>1 DEF CleanupCovers, Completed, Spared
<1>12. ASSUME
         \/ Receive \/ TakeResult \/ GiveUp \/ ResetJob
         \/ Timeout \/ HourPasses \/ LookupNext \/ LookupEnd \/ UNCHANGED vars
         \/ \E t \in Tasks, res \in {"SUCCEEDED", "FAILED"} : FuncReturns(t, res)
         \/ \E t \in Tasks : Cancel(t)
         \/ \E limit \in HistoryLimits : Configure(limit)
         \/ \E op \in ReadOps, t \in Tasks : LookupBegin(op, t)
     PROVE  UNCHANGED <<completed, modified, clock, issued, mu>>
  BY <1>12 DEF Receive, TakeResult, GiveUp, ResetJob, FuncReturns, Timeout, Cancel, HourPasses,
     Configure, LookupBegin, LookupNext, LookupEnd, vars
<1> HIDE DEF record, settings, worker, counters
<1> QED
  BY <1>1, <1>3, <1>4, <1>5, <1>6, <1>7, <1>8, <1>9, <1>10, <1>11, <1>12
  DEF Next, RequestStep, WorkerStep, PeriodicStep, LookupStep

\* A cleanup that comes to its end leaves no more than task_history_limit tasks,
\* as the limit was when it began; configured anew meanwhile, it is still one
\* of the limits, and no task ends before the cleanup has given up the lock
\* (periodic.go, cleanupTaskHistory).
THEOREM CleanupBoundsHistory == Spec => HistoryBounded
<1>1. Init => CleanupCovers
  BY FS_EmptySet DEF Init, CleanupCovers, Completed, Free
<1>2. IInv /\ CleanupCovers /\ PeriodicStamp =>
          \E limit \in HistoryLimits : Cardinality(Completed) <= limit
  <2> SUFFICES ASSUME IInv, CleanupCovers, PeriodicStamp
               PROVE  \E limit \in HistoryLimits : Cardinality(Completed) <= limit
    OBVIOUS
  <2>1. mu.op = "Periodic" /\ mu.todo = {}
    BY DEF PeriodicStamp, IInv, TypeOK, ManagerTypeOK, Mutex, MuOps, MuShape, Callbacks, Free
  <2>2. Spared = Completed
    BY <2>1 DEF Spared
  <2>3. QED
    BY <2>1, <2>2 DEF CleanupCovers
<1>3. IInv /\ CleanupCovers =>
          (PeriodicStamp => \E limit \in HistoryLimits : Cardinality(Completed) <= limit)
  BY <1>2
<1> QED
  BY <1>1, <1>3, CleanupCoversStep, IInvCorrect, PTL DEF Spec, HistoryBounded
=============================================================================
