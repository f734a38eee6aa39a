---------------------------- MODULE VaultClient ----------------------------
(***************************************************************************)
(* trdl-vault in CI (release/pkg/vault): a call of release or publish asks *)
(* the plugin for a task, watches it and, where the error is retriable,    *)
(* asks for another one.  Of the plugin only what TaskLifecycle promises   *)
(* is used: one task at a time, whose status moves forward.                *)
(***************************************************************************)
EXTENDS Naturals

CONSTANTS
    Tasks,          \* UUIDs of the tasks the plugin may create
    OtherTasks,     \* those nobody watches: of the periodic job, or with a lost answer
    NoTask,
    Clients,        \* calls of release and publish
    MaxAttempts     \* --max-attempts, 0 without --retry: how often to ask again

ASSUME ClientAssumption ==
    OtherTasks \subseteq Tasks /\ NoTask \notin Tasks /\ MaxAttempts \in Nat

VARIABLES
    status,     \* the status the plugin reports of a task
    retriable,  \* tasks that failed for a reason isRetriableError accepts
    plainBusy,  \* the Vault API hands "busy" on as it is, not inside a longer text
    call

Plugin == INSTANCE TaskLifecycle WITH Exclusive <- TRUE
vars == <<status, retriable, plainBusy, call>>

TypeOK ==
    /\ Plugin!TypeOK
    /\ retriable \subseteq Tasks
    /\ plainBusy \in BOOLEAN
    /\ call \in [Clients -> [at : {"write", "watch", "done"}, task : Tasks \cup {NoTask},
                             made : SUBSET Tasks, retries : 0 .. MaxAttempts,
                             result : {"none", "ok", "failed"}]]

Init ==
    /\ Plugin!Init
    /\ retriable = {}
    /\ plainBusy \in BOOLEAN
    /\ call = [c \in Clients |-> [at |-> "write", task |-> NoTask, made |-> {},
                                  retries |-> 0, result |-> "none"]]

At(c, step) == call[c].at = step
Busy == \E t \in Tasks : status[t] \in Plugin!Active

Ends(c, result) == call' = [call EXCEPT ![c].at = "done", ![c].result = result]

\* Mutant: attempts are not counted.
RetryOrGiveUp_Forever(c) == call' = [call EXCEPT ![c].at = "write"]

\* Mutant: one attempt too many.
RetryOrGiveUp_OffByOne(c) ==
    IF call[c].retries <= MaxAttempts
    THEN call' = [call EXCEPT ![c].at = "write", ![c].retries = @ + 1]
    ELSE Ends(c, "failed")

\* A retriable error: the operation is repeated MaxAttempts times at most.
RetryOrGiveUp(c) ==
    IF call[c].retries < MaxAttempts
    THEN call' = [call EXCEPT ![c].at = "write", ![c].retries = @ + 1]
    ELSE Ends(c, "failed")

-----------------------------------------------------------------------------

\* One UUID is as good as another.
Fresh == {t \in Tasks \ OtherTasks : status[t] = "UNKNOWN"}

LongRunningWrite(c) ==
    /\ At(c, "write")
    /\ Fresh # {}
    /\ LET t == CHOOSE t \in Fresh : TRUE IN
       /\ Plugin!Submit(t)
       /\ call' = [call EXCEPT ![c].at = "watch", ![c].task = t,
                               ![c].made = @ \cup {t}]
    /\ UNCHANGED <<retriable, plainBusy>>

\* A plain "busy" is waited out, and is no attempt; any other text that
\* contains it is a retriable error.
WriteBusy(c) ==
    /\ At(c, "write") /\ Busy /\ ~plainBusy
    /\ RetryOrGiveUp(c)
    /\ UNCHANGED <<status, retriable, plainBusy>>

\* The request fails or only its answer is lost; the Vault API may send it again.
WriteFails(c) ==
    /\ At(c, "write")
    /\ (\E t \in OtherTasks : Plugin!Submit(t)) \/ UNCHANGED status
    /\ Ends(c, "failed") \/ UNCHANGED call
    /\ UNCHANGED <<retriable, plainBusy>>

\* A task that is neither FAILED nor SUCCEEDED is asked for again.
WatchTask(c) ==
    /\ At(c, "watch")
    /\ LET t == call[c].task IN
       \/ status[t] = "SUCCEEDED" /\ Ends(c, "ok")
       \/ status[t] = "FAILED" /\ t \in retriable /\ RetryOrGiveUp(c)
       \/ status[t] = "FAILED" /\ t \notin retriable /\ Ends(c, "failed")
       \/ status[t] = "FORGOTTEN" /\ Ends(c, "failed")
    /\ UNCHANGED <<status, retriable, plainBusy>>

\* Mutant: an error of getTaskStatus is answered with a new attempt.
GetTaskStatusFails_Retried(c) ==
    /\ At(c, "watch")
    /\ RetryOrGiveUp(c)
    /\ UNCHANGED <<status, retriable, plainBusy>>

\* An error of getTaskStatus has no reason, and is not retriable: the task goes
\* on without the call.
GetTaskStatusFails(c) ==
    /\ At(c, "watch")
    /\ Ends(c, "failed")
    /\ UNCHANGED <<status, retriable, plainBusy>>

\* The plugin: the worker takes a task and ends it ...
RunTask(t) ==
    /\ \/ Plugin!Start(t) /\ UNCHANGED retriable
       \/ Plugin!End(t, "SUCCEEDED") /\ UNCHANGED retriable
       \/ Plugin!End(t, "FAILED") /\ retriable' \in {retriable, retriable \cup {t}}
    /\ UNCHANGED <<plainBusy, call>>

\* ... unless it is restarted; the periodic job submits tasks and cleans up.
PluginElse(t) ==
    /\ \/ Plugin!End(t, "CANCELED")
       \/ t \in OtherTasks /\ Plugin!Submit(t)
       \/ Plugin!Forget(t)
    /\ UNCHANGED <<retriable, plainBusy, call>>

Step(c) == LongRunningWrite(c) \/ WriteBusy(c) \/ WatchTask(c)

Next ==
    \/ \E c \in Clients : Step(c) \/ WriteFails(c) \/ GetTaskStatusFails(c)
    \/ \E t \in Tasks : RunTask(t) \/ PluginElse(t)

Spec == Init /\ [][Next]_vars

\* The client's loops go on, and the plugin's worker runs its task to an end
\* (the task timeout sees to that).
FairSpec ==
    /\ Spec
    /\ \A c \in Clients : WF_vars(Step(c))
    /\ \A t \in Tasks : WF_vars(RunTask(t))

-----------------------------------------------------------------------------
(* Properties *)

\* A call that reports success has had one task succeed, the last, and every
\* task it had asked for before has failed: nothing it watched was released
\* twice (client.go, withBackoffRequest and watchTask).
SuccessIsSingle ==
    \A c \in Clients :
        /\ \A t \in call[c].made \ {call[c].task} : status[t] \in {"FAILED", "FORGOTTEN"}
        /\ call[c].result = "ok" =>
               status[call[c].task] \in {"SUCCEEDED", "FORGOTTEN"}

\* A call comes to an end, whoever else keeps the plugin busy, unless the
\* task it watches was canceled (client.go, watchTask and longRunningWrite).
CallsEnd ==
    \A c \in Clients :
        At(c, "write") ~> \/ At(c, "done")
                          \/ \E t \in call[c].made : status[t] = "CANCELED"
=============================================================================
