---------------------------- MODULE TasksManager ----------------------------
(***************************************************************************)
(* The tasks manager of the Vault plugin (server/pkg/tasks_manager): the   *)
(* Manager that admits tasks and keeps their records in Vault storage, the *)
(* Worker goroutine that runs them, the task functions it starts, the      *)
(* hourly cleanup of the history, and the requests that look a task up.    *)
(*                                                                         *)
(* Everything the Manager does holds Manager.mu, but it writes the storage *)
(* one key at a time: each write is a step, between which the plugin may   *)
(* stop and a lookup, which takes no lock, may read.                       *)
(***************************************************************************)
EXTENDS Integers, Sequences, FiniteSets

CONSTANTS
    Tasks,          \* the task UUIDs newTask may generate; bound: once all
                    \* are issued no request is made any more
    NoTask,
    Entries,        \* entry points in use: "RunTask", "AddTask"
    ReadOps,        \* lookups in use: "status", "list", "log"
    HistoryLimits,  \* task_history_limit values an operator configures
    TaskChanSize,   \* capacity of Manager.taskChan
    MaxCrashes,     \* bound: restarts of the plugin
    MaxFaults       \* bound: storage calls that return an error

ASSUME TasksAssumption ==
    /\ NoTask \notin Tasks
    /\ Entries \subseteq {"RunTask", "AddTask"}
    /\ ReadOps \subseteq {"status", "list", "log"}
    /\ HistoryLimits # {} /\ HistoryLimits \subseteq Nat
    /\ TaskChanSize \in Nat \ {0}
    /\ MaxCrashes \in Nat /\ MaxFaults \in Nat

VARIABLES
    \* Vault storage
    queued,         \* UUIDs with a queued_task/ record
    running,        \* UUIDs with a running_task/ record
    completed,      \* status of the completed_task/ record, or Absent
    modified,       \* its Modified time
    logs,           \* UUIDs with a task_log/ entry
    historyLimit,   \* the configured task_history_limit
    periodicDue,    \* more than an hour since the stored periodic timestamp
    \* Manager
    storageSet,     \* Manager.Storage # nil
    taskChan,       \* Manager.taskChan
    mu,             \* who holds Manager.mu and how far it is; Free if nobody
    \* Worker and task functions
    wpc, job,       \* what Worker.Start is doing, and Worker.currentJob
    ctxDone,        \* the context of the job is canceled or timed out
    result,         \* how the action of the job ended
    func,           \* the goroutine of each task function
    \* a request that looks a task up
    reader,
    \* bookkeeping
    issued,         \* UUIDs already given to a task
    clock,          \* next Modified time
    invalidated,    \* invalidateStorage finished since the plugin started
    crashes, faults

record   == <<queued, running, completed, modified, logs, clock>>
settings == <<historyLimit, periodicDue>>
worker   == <<wpc, job, ctxDone, result, func>>
counters == <<crashes, faults>>
vars == <<record, settings, storageSet, taskChan, mu, worker, reader, issued,
          invalidated, counters>>

Absent   == "ABSENT"
Terminal == {"SUCCEEDED", "FAILED", "CANCELED"}
Active   == {"QUEUED", "RUNNING"}

Requests  == {"RunTask", "AddTask"}
Callbacks == {"TaskStarted", "TaskCompleted"}
MuOps     == Requests \cup Callbacks \cup {"Periodic", "none"}
MuSteps   == {"invalidate", "delete", "admit", "send", "log", "clean", "cleanlog", "none"}

Free   == [op |-> "none", at |-> "none", task |-> NoTask, todo |-> {}]
Mutex  == [op : MuOps, at : MuSteps, task : Tasks \cup {NoTask},
           todo : SUBSET (Tasks \X {"QUEUED", "RUNNING", "COMPLETED"})]

\* Mutant: the status is looked up in the order the list is.
Lookup_CompletedFirst ==
    [status |-> <<"completed", "running", "queued">>,
     list   |-> <<"completed", "running", "queued">>,
     log    |-> <<"job", "completed", "queued">>]

\* The places a lookup reads, in the order of its handler.
Lookup == [status |-> <<"queued", "running", "completed">>,
           list   |-> <<"completed", "running", "queued">>,
           log    |-> <<"job", "completed", "queued">>]

Places   == {"queued", "running", "completed", "job"}
Reader   == [op : ReadOps \cup {"none"}, task : Tasks \cup {NoTask},
             rest : Seq(Places), found : BOOLEAN]
NoReader == [op |-> "none", task |-> NoTask, rest |-> <<>>, found |-> FALSE]

Completed == {t \in Tasks : completed[t] # Absent}
Stored(t) == t \in queued \cup running \cup Completed

Init ==
    /\ queued = {} /\ running = {} /\ logs = {}
    /\ completed = [t \in Tasks |-> Absent]
    /\ modified = [t \in Tasks |-> 0]
    /\ historyLimit \in HistoryLimits
    /\ periodicDue = TRUE
    /\ storageSet = FALSE /\ invalidated = FALSE
    /\ taskChan = <<>>
    /\ mu = Free
    /\ wpc = "idle" /\ job = NoTask /\ ctxDone = FALSE /\ result = Absent
    /\ func = [t \in Tasks |-> "none"]
    /\ reader = NoReader
    /\ issued = {} /\ clock = 1 /\ crashes = 0 /\ faults = 0

-----------------------------------------------------------------------------
(* Storage calls shared by the handlers *)

\* switchTaskToCompletedInStorage looks in running_task/, then in
\* queued_task/, and the record it found last is the one it replaces.
PutCompleted(t, status) ==
    /\ completed' = [completed EXCEPT ![t] = status]
    /\ modified' = [modified EXCEPT ![t] = clock]
    /\ clock' = clock + 1
    /\ UNCHANGED <<queued, running, logs>>

DeletePrevious(t) ==
    /\ queued' = queued \ {t}
    /\ running' = IF t \in queued THEN running ELSE running \ {t}
    /\ UNCHANGED <<completed, modified, logs, clock>>

Fault == faults < MaxFaults /\ faults' = faults + 1 /\ UNCHANGED crashes

\* The plugin process is gone: storage stays, a fresh Manager starts.
ProcessLost ==
    /\ storageSet' = FALSE /\ invalidated' = FALSE
    /\ taskChan' = <<>> /\ mu' = Free
    /\ wpc' = "idle" /\ job' = NoTask /\ ctxDone' = FALSE /\ result' = Absent
    /\ func' = [t \in Tasks |-> "none"]
    /\ reader' = NoReader
    /\ UNCHANGED <<record, settings, issued>>

-----------------------------------------------------------------------------
(* RunTask and AddTask: doTaskWrap under Manager.mu *)

\* Mutants: the running records are not listed; the records are invalidated
\* for every task, not only the first.
Enter_QueuedOnly(op) ==
    /\ mu = Free /\ issued # Tasks
    /\ storageSet' = TRUE
    /\ mu' = [Free EXCEPT !.op = op, !.at = IF storageSet THEN "admit" ELSE "invalidate",
                 !.todo = IF storageSet THEN {} ELSE queued \X {"QUEUED"}]
    /\ UNCHANGED <<record, settings, taskChan, worker, reader, issued, invalidated, counters>>

Enter_EveryTask(op) ==
    /\ mu = Free /\ issued # Tasks
    /\ storageSet' = TRUE
    /\ mu' = [Free EXCEPT !.op = op, !.at = "invalidate",
                 !.todo = (running \X {"RUNNING"}) \cup (queued \X {"QUEUED"})]
    /\ UNCHANGED <<record, settings, taskChan, worker, reader, issued, invalidated, counters>>

\* Manager.Storage is set before the records are invalidated.
Enter(op) ==
    /\ mu = Free /\ issued # Tasks
    /\ storageSet' = TRUE
    /\ mu' = IF storageSet
             THEN [Free EXCEPT !.op = op, !.at = "admit"]
             ELSE [Free EXCEPT !.op = op, !.at = "invalidate",
                       !.todo = (running \X {"RUNNING"}) \cup (queued \X {"QUEUED"})]
    /\ UNCHANGED <<record, settings, taskChan, worker, reader, issued, invalidated, counters>>

\* Mutant: an interrupted task is reported as failed.
InvalidateTask_Fails ==
    /\ mu.at = "invalidate"
    /\ \E p \in mu.todo :
         /\ p[2] = "QUEUED" => \A q \in mu.todo : q[2] = "QUEUED"
         /\ PutCompleted(p[1], "FAILED")
         /\ mu' = [mu EXCEPT !.at = "delete", !.task = p[1], !.todo = @ \ {p}]
    /\ UNCHANGED <<settings, storageSet, taskChan, worker, reader, issued, invalidated, counters>>

\* invalidateStorage: the running records first; a task with both records is
\* listed twice.
InvalidateTask ==
    /\ mu.at = "invalidate"
    /\ \E p \in mu.todo :
         /\ p[2] = "QUEUED" => \A q \in mu.todo : q[2] = "QUEUED"
         /\ PutCompleted(p[1], "CANCELED")
         /\ mu' = [mu EXCEPT !.at = "delete", !.task = p[1], !.todo = @ \ {p}]
    /\ UNCHANGED <<settings, storageSet, taskChan, worker, reader, issued, invalidated, counters>>

InvalidateDelete ==
    /\ mu.op \in Requests /\ mu.at = "delete"
    /\ DeletePrevious(mu.task)
    /\ mu' = [mu EXCEPT !.at = "invalidate", !.task = NoTask]
    /\ UNCHANGED <<settings, storageSet, taskChan, worker, reader, issued, invalidated, counters>>

InvalidateDone ==
    /\ mu.at = "invalidate" /\ mu.todo = {}
    /\ invalidated' = TRUE
    /\ mu' = [mu EXCEPT !.at = "admit"]
    /\ UNCHANGED <<record, settings, storageSet, taskChan, worker, reader, issued, counters>>

\* Mutant: a task that waits in the queue is overlooked.
IsBusy_RunningOnly == running # {}

IsBusy == queued \cup running # {}

ReturnBusy ==
    /\ mu.op = "RunTask" /\ mu.at = "admit"
    /\ IsBusy
    /\ mu' = Free
    /\ UNCHANGED <<record, settings, storageSet, taskChan, worker, reader, issued, invalidated, counters>>

QueueTask(t) ==
    /\ mu.at = "admit"
    /\ mu.op = "RunTask" => ~IsBusy
    /\ t \notin issued
    /\ issued' = issued \cup {t}
    /\ queued' = queued \cup {t}
    /\ mu' = [mu EXCEPT !.at = "send", !.task = t]
    /\ UNCHANGED <<running, completed, modified, logs, clock, settings, storageSet, taskChan,
                   worker, reader, invalidated, counters>>

\* Mutant: the queue has no capacity.
SendTask_Unbounded ==
    /\ mu.at = "send"
    /\ taskChan' = Append(taskChan, mu.task)
    /\ mu' = Free
    /\ UNCHANGED <<record, settings, storageSet, worker, reader, issued, invalidated, counters>>

\* The send blocks, with Manager.mu held, while the channel is full.
SendTask ==
    /\ mu.at = "send" /\ Len(taskChan) < TaskChanSize
    /\ taskChan' = Append(taskChan, mu.task)
    /\ mu' = Free
    /\ UNCHANGED <<record, settings, storageSet, worker, reader, issued, invalidated, counters>>

\* A storage error on the way (List, Get or Put) ends the request.
RequestFails ==
    /\ mu.op \in Requests /\ mu.at # "send"
    /\ Fault
    /\ mu' = Free
    /\ UNCHANGED <<record, settings, storageSet, taskChan, worker, reader, issued, invalidated>>

-----------------------------------------------------------------------------
(* Worker.Start and the callbacks of the Manager *)

Receive ==
    /\ wpc = "idle" /\ taskChan # <<>>
    /\ wpc' = "starting"
    /\ job' = Head(taskChan)
    /\ taskChan' = Tail(taskChan)
    /\ ctxDone' = FALSE
    /\ UNCHANGED <<record, settings, storageSet, mu, result, func, reader, issued, invalidated, counters>>

TaskStarted ==
    /\ wpc = "starting" /\ mu = Free
    /\ job \in queued
    /\ running' = running \cup {job}
    /\ mu' = [Free EXCEPT !.op = "TaskStarted", !.at = "delete", !.task = job]
    /\ UNCHANGED <<queued, completed, modified, logs, clock, settings, storageSet, taskChan,
                   worker, reader, issued, invalidated, counters>>

\* The callback returns and WrapTaskFunc starts the task function.
StartFunc ==
    /\ mu.op = "TaskStarted"
    /\ queued' = queued \ {mu.task}
    /\ mu' = Free
    /\ wpc' = "running"
    /\ func' = [func EXCEPT ![job] = "running"]
    /\ UNCHANGED <<running, completed, modified, logs, clock, settings, storageSet, taskChan,
                   job, ctxDone, result, reader, issued, invalidated, counters>>

\* A task function ends. It hands its error to a worker that waits for it;
\* if the worker gave it up, the send on the closed channel is recovered.
FuncReturns(t, res) ==
    /\ func[t] = "running"
    /\ func' = [func EXCEPT ![t] = IF wpc = "running" /\ job = t THEN res ELSE "none"]
    /\ UNCHANGED <<record, settings, storageSet, taskChan, mu, wpc, job, ctxDone, result,
                   reader, issued, invalidated, counters>>

TakeResult ==
    /\ wpc = "running" /\ func[job] \in {"SUCCEEDED", "FAILED"}
    /\ wpc' = "finishing"
    /\ result' = func[job]
    /\ func' = [func EXCEPT ![job] = "none"]
    /\ UNCHANGED <<record, settings, storageSet, taskChan, mu, job, ctxDone, reader, issued,
                   invalidated, counters>>

\* Mutants: giving a task up is no error; the worker waits for the function to
\* notice that its context is done.
GiveUp_Succeeds ==
    /\ wpc = "running" /\ ctxDone
    /\ wpc' = "finishing"
    /\ result' = "SUCCEEDED"
    /\ func' = [func EXCEPT ![job] = IF @ = "running" THEN @ ELSE "none"]
    /\ UNCHANGED <<record, settings, storageSet, taskChan, mu, job, ctxDone, reader, issued,
                   invalidated, counters>>

GiveUp_Waits ==
    /\ wpc = "running" /\ ctxDone /\ func[job] # "running"
    /\ wpc' = "finishing"
    /\ result' = "FAILED"
    /\ func' = [func EXCEPT ![job] = "none"]
    /\ UNCHANGED <<record, settings, storageSet, taskChan, mu, job, ctxDone, reader, issued,
                   invalidated, counters>>

\* The context is done: the worker stops waiting, the function runs on.
GiveUp ==
    /\ wpc = "running" /\ ctxDone
    /\ wpc' = "finishing"
    /\ result' = "FAILED"
    /\ func' = [func EXCEPT ![job] = IF @ = "running" THEN @ ELSE "none"]
    /\ UNCHANGED <<record, settings, storageSet, taskChan, mu, job, ctxDone, reader, issued,
                   invalidated, counters>>

Timeout ==
    /\ wpc = "running" /\ ~ctxDone
    /\ ctxDone' = TRUE
    /\ UNCHANGED <<record, settings, storageSet, taskChan, mu, wpc, job, result, func, reader,
                   issued, invalidated, counters>>

\* task/:uuid/cancel reaches only the current job.
Cancel(t) ==
    /\ job = t /\ ~ctxDone
    /\ ctxDone' = TRUE
    /\ UNCHANGED <<record, settings, storageSet, taskChan, mu, wpc, job, result, func, reader,
                   issued, invalidated, counters>>

TaskCompleted ==
    /\ wpc = "finishing" /\ mu = Free
    /\ job \in queued \cup running
    /\ PutCompleted(job, result)
    /\ mu' = [Free EXCEPT !.op = "TaskCompleted", !.at = "log", !.task = job]
    /\ UNCHANGED <<settings, storageSet, taskChan, worker, reader, issued, invalidated, counters>>

\* An empty log is not stored.
PutLog ==
    /\ mu.at = "log"
    /\ logs' \in {logs, logs \cup {mu.task}}
    /\ mu' = [mu EXCEPT !.at = "delete"]
    /\ UNCHANGED <<queued, running, completed, modified, clock, settings, storageSet, taskChan,
                   worker, reader, issued, invalidated, counters>>

CompletedDelete ==
    /\ mu.op = "TaskCompleted" /\ mu.at = "delete"
    /\ DeletePrevious(mu.task)
    /\ mu' = Free
    /\ wpc' = "resetting"
    /\ UNCHANGED <<settings, storageSet, taskChan, job, ctxDone, result, func, reader, issued,
                   invalidated, counters>>

ResetJob ==
    /\ wpc = "resetting"
    /\ wpc' = "idle" /\ job' = NoTask /\ ctxDone' = FALSE /\ result' = Absent
    /\ UNCHANGED <<record, settings, storageSet, taskChan, mu, func, reader, issued,
                   invalidated, counters>>

\* The callbacks panic when the record is missing or the storage fails.
RecordMissing ==
    /\ mu = Free
    /\ \/ wpc = "starting" /\ job \notin queued
       \/ wpc = "finishing" /\ job \notin queued \cup running

InCallback ==
    \/ mu.op \in Callbacks
    \/ mu = Free /\ wpc \in {"starting", "finishing"}

Panic ==
    /\ \/ RecordMissing /\ UNCHANGED counters
       \/ InCallback /\ Fault
    /\ ProcessLost

-----------------------------------------------------------------------------
(* PeriodicFunc: the cleanup of the history *)

Newer(t, u) == modified[t] > modified[u]

\* Mutant: one task too many is kept.
Newest_OneMore(n) == {t \in Completed : Cardinality({u \in Completed : Newer(u, t)}) <= n}

Newest(n) == {t \in Completed : Cardinality({u \in Completed : Newer(u, t)}) < n}

\* The tasks cleanupTaskHistory deletes: the list is cut only when it is
\* longer than the limit, and what is left in it is deleted either way.
Doomed(limit) ==
    IF Cardinality(Completed) > limit THEN Completed \ Newest(limit) ELSE Completed

PeriodicFunc ==
    /\ mu = Free /\ periodicDue
    /\ mu' = [Free EXCEPT !.op = "Periodic", !.at = "clean",
                 !.todo = Doomed(historyLimit) \X {"COMPLETED"}]
    /\ UNCHANGED <<record, settings, storageSet, taskChan, worker, reader, issued, invalidated, counters>>

CleanRecord ==
    /\ mu.at = "clean"
    /\ \E p \in mu.todo :
         /\ \A q \in mu.todo : ~Newer(q[1], p[1])
         /\ completed' = [completed EXCEPT ![p[1]] = Absent]
         /\ modified' = [modified EXCEPT ![p[1]] = 0]
         /\ mu' = [mu EXCEPT !.at = "cleanlog", !.task = p[1], !.todo = @ \ {p}]
    /\ UNCHANGED <<queued, running, logs, clock, settings, storageSet, taskChan, worker, reader,
                   issued, invalidated, counters>>

\* Mutant: the log is left behind.
CleanLog_Kept ==
    /\ mu.at = "cleanlog"
    /\ mu' = [mu EXCEPT !.at = "clean", !.task = NoTask]
    /\ UNCHANGED <<record, settings, storageSet, taskChan, worker, reader, issued, invalidated,
                   counters>>

CleanLog ==
    /\ mu.at = "cleanlog"
    /\ logs' = logs \ {mu.task}
    /\ mu' = [mu EXCEPT !.at = "clean", !.task = NoTask]
    /\ UNCHANGED <<queued, running, completed, modified, clock, settings, storageSet, taskChan,
                   worker, reader, issued, invalidated, counters>>

PeriodicStamp ==
    /\ mu.at = "clean" /\ mu.todo = {}
    /\ periodicDue' = FALSE
    /\ mu' = Free
    /\ UNCHANGED <<record, historyLimit, storageSet, taskChan, worker, reader, issued,
                   invalidated, counters>>

PeriodicFails ==
    /\ mu.op = "Periodic"
    /\ Fault
    /\ mu' = Free
    /\ UNCHANGED <<record, settings, storageSet, taskChan, worker, reader, issued, invalidated>>

HourPasses ==
    /\ ~periodicDue
    /\ periodicDue' = TRUE
    /\ UNCHANGED <<record, historyLimit, storageSet, taskChan, mu, worker, reader, issued,
                   invalidated, counters>>

\* task/configure takes no lock.
Configure(limit) ==
    /\ historyLimit' = limit
    /\ UNCHANGED <<record, periodicDue, storageSet, taskChan, mu, worker, reader, issued,
                   invalidated, counters>>

-----------------------------------------------------------------------------
(* Lookups: task/:uuid, task/ and task/:uuid/log, without Manager.mu *)

IsAt(t, place) ==
    CASE place = "queued"    -> t \in queued
      [] place = "running"   -> t \in running
      [] place = "completed" -> t \in Completed
      [] place = "job"       -> job = t

LookupBegin(op, t) ==
    /\ reader = NoReader
    /\ t \in issued
    /\ reader' = [op |-> op, task |-> t, rest |-> Lookup[op], found |-> FALSE]
    /\ UNCHANGED <<record, settings, storageSet, taskChan, mu, worker, issued, invalidated, counters>>

LookupNext ==
    /\ reader.rest # <<>>
    /\ reader' = IF IsAt(reader.task, Head(reader.rest))
                 THEN [reader EXCEPT !.rest = <<>>, !.found = TRUE]
                 ELSE [reader EXCEPT !.rest = Tail(@)]
    /\ UNCHANGED <<record, settings, storageSet, taskChan, mu, worker, issued, invalidated, counters>>

LookupAnswered == reader # NoReader /\ reader.rest = <<>>

LookupEnd ==
    /\ LookupAnswered
    /\ reader' = NoReader
    /\ UNCHANGED <<record, settings, storageSet, taskChan, mu, worker, issued, invalidated, counters>>

-----------------------------------------------------------------------------
Crash ==
    /\ crashes < MaxCrashes
    /\ crashes' = crashes + 1
    /\ UNCHANGED faults
    /\ ProcessLost

RequestStep ==
    \/ InvalidateTask \/ InvalidateDelete \/ InvalidateDone
    \/ ReturnBusy \/ \E t \in Tasks : QueueTask(t)
    \/ SendTask

PeriodicStep == CleanRecord \/ CleanLog \/ PeriodicStamp

\* Steps of the worker that need no lock, or already hold it.
WorkerStep ==
    \/ Receive \/ StartFunc \/ TakeResult \/ GiveUp
    \/ PutLog \/ CompletedDelete \/ ResetJob

LookupStep == LookupNext \/ LookupEnd

Next ==
    \/ \E op \in Entries : Enter(op)
    \/ RequestStep \/ RequestFails
    \/ WorkerStep \/ TaskStarted \/ TaskCompleted \/ Panic
    \/ \E t \in Tasks, res \in {"SUCCEEDED", "FAILED"} : FuncReturns(t, res)
    \/ Timeout \/ \E t \in Tasks : Cancel(t)
    \/ PeriodicFunc \/ PeriodicStep \/ PeriodicFails \/ HourPasses
    \/ \E limit \in HistoryLimits : Configure(limit)
    \/ \E op \in ReadOps, t \in Tasks : LookupBegin(op, t)
    \/ LookupStep
    \/ Crash

Spec == Init /\ [][Next]_vars

\* Goroutines are scheduled, timers fire, and a goroutine waiting for
\* Manager.mu gets it in the end (starvation mode of sync.Mutex).
Fairness ==
    /\ WF_vars(RequestStep) /\ WF_vars(PeriodicStep)
    /\ WF_vars(WorkerStep) /\ WF_vars(Timeout)
    /\ SF_vars(TaskStarted) /\ SF_vars(TaskCompleted)

FairSpec == Spec /\ Fairness

-----------------------------------------------------------------------------
(* Properties *)

StorageTypeOK ==
    /\ queued \subseteq Tasks /\ running \subseteq Tasks /\ logs \subseteq Tasks
    /\ completed \in [Tasks -> Terminal \cup {Absent}]
    /\ modified \in [Tasks -> Nat] /\ clock \in Nat
    /\ historyLimit \in HistoryLimits /\ periodicDue \in BOOLEAN

ManagerTypeOK ==
    /\ storageSet \in BOOLEAN /\ invalidated \in BOOLEAN
    /\ taskChan \in Seq(Tasks) /\ Len(taskChan) <= TaskChanSize
    /\ mu \in Mutex

WorkerTypeOK ==
    /\ wpc \in {"idle", "starting", "running", "finishing", "resetting"}
    /\ job \in Tasks \cup {NoTask}
    /\ ctxDone \in BOOLEAN /\ result \in Terminal \cup {Absent}
    /\ func \in [Tasks -> {"none", "running", "SUCCEEDED", "FAILED"}]

LookupTypeOK ==
    /\ reader \in Reader
    /\ issued \subseteq Tasks
    /\ crashes \in 0 .. MaxCrashes /\ faults \in 0 .. MaxFaults

\* Every variable keeps its type; the channel never holds more than its
\* capacity (manager.go:13).
TypeOK == StorageTypeOK /\ ManagerTypeOK /\ WorkerTypeOK /\ LookupTypeOK

\* The task is on its way: sent to the channel, about to be, or with the worker.
InHand(t) ==
    \/ \E i \in 1 .. Len(taskChan) : taskChan[i] = t
    \/ mu.at = "send" /\ mu.task = t
    \/ job = t /\ wpc \in {"starting", "running", "finishing"}

\* RunTask returns busy instead of queueing a second task: two tasks are
\* never on their way at once (isBusy reads the records, the tasks themselves
\* are in the channel and the worker).
OneTaskInHand ==
    "AddTask" \notin Entries => \A t, u \in Tasks : InHand(t) /\ InHand(u) => t = u

\* Once invalidateStorage has run, a queued or running record is one of a
\* task on its way: no record is left behind that keeps RunTask busy.
RecordsAreInHand ==
    invalidated => \A t \in queued \cup running : InHand(t)

\* The same of any initialized manager, as actions_test.go:84 and the comment
\* of doTaskWrap ("initialize on first task") have it: not so after an
\* invalidation that failed half way, which is never taken up again.
NoStaleRecords ==
    storageSet /\ mu = Free => \A t \in queued \cup running : InHand(t)

\* The callbacks always find the record they replace: only the storage can
\* make them panic.
CallbacksFindRecord == ~RecordMissing

\* A lookup that answers "not found" is right: the task it was asked for, one
\* that had been accepted, is no longer stored.
LookupNeverMisses ==
    LookupAnswered /\ ~reader.found => ~Stored(reader.task)

\* The status pathTaskStatus reports, which reads queued_task/ first.
Reported(t) ==
    IF t \in queued THEN "QUEUED"
    ELSE IF t \in running THEN "RUNNING"
    ELSE IF t \in Completed THEN completed[t]
    ELSE IF t \in issued THEN "FORGOTTEN" ELSE "UNKNOWN"

Lifecycle == INSTANCE TaskLifecycle WITH
    status    <- [t \in Tasks |-> Reported(t)],
    Exclusive <- "AddTask" \notin Entries

\* Whatever the interleaving, and across restarts, the reported statuses move
\* as TaskLifecycle says.
LifecycleSpec == Lifecycle!Spec

\* A function runs on behind the worker's back only if its task was reported
\* as failed, its record gone from running_task/ or about to be.
StrayFuncsFailed ==
    \A t \in Tasks : func[t] = "running" /\ ~InHand(t) => completed[t] \in {"FAILED", Absent}

\* After a cleanup no more than task_history_limit tasks were left.
HistoryBounded ==
    [][PeriodicStamp => \E limit \in HistoryLimits : Cardinality(Completed) <= limit]_vars

\* Only tasks beyond the task_history_limit newest ones are deleted
\* (configure.md:12, periodic_test.go:95). Not so while fewer are stored.
HistoryKept ==
    [][\A t \in Tasks : t \in Completed /\ t \notin Completed' =>
          \E limit \in HistoryLimits :
              Cardinality({u \in Completed : Newer(u, t)}) >= limit]_vars

\* Unless the plugin stops or a call fails, a log is only kept with the record of its
\* task.
NoOrphanLogs ==
    mu = Free => logs \subseteq Completed

\* Unless the plugin stops, every accepted task is reported ended. Needs a
\* channel that is never full.
EveryTaskEnds ==
    \A t \in Tasks : (t \in issued) ~> (Reported(t) \notin Active)
=============================================================================
