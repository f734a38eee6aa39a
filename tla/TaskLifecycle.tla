--------------------------- MODULE TaskLifecycle ---------------------------
(***************************************************************************)
(* What the tasks manager promises to a client that polls task/:uuid: the  *)
(* status reported for a task only moves forward, an ended task keeps its  *)
(* verdict until the history cleanup forgets it, and (Exclusive) a task is *)
(* accepted only when no other one is queued or running.                   *)
(***************************************************************************)
CONSTANTS Tasks,      \* the task UUIDs that may ever be generated
          Exclusive   \* TRUE when tasks are only submitted through RunTask

VARIABLE status       \* the status a client is told, by task

Active   == {"QUEUED", "RUNNING"}
Terminal == {"SUCCEEDED", "FAILED", "CANCELED"}
Status   == {"UNKNOWN", "FORGOTTEN"} \cup Active \cup Terminal

TypeOK == status \in [Tasks -> Status]

Init == status = [t \in Tasks |-> "UNKNOWN"]

Submit(t) ==
    /\ status[t] = "UNKNOWN"
    /\ Exclusive => \A u \in Tasks : status[u] \notin Active
    /\ status' = [status EXCEPT ![t] = "QUEUED"]

Start(t) ==
    /\ status[t] = "QUEUED"
    /\ status' = [status EXCEPT ![t] = "RUNNING"]

\* Only a started task succeeds or fails; one lost in a restart is canceled.
End(t, verdict) ==
    /\ \/ status[t] = "RUNNING"
       \/ status[t] = "QUEUED" /\ verdict = "CANCELED"
    /\ status' = [status EXCEPT ![t] = verdict]

Forget(t) ==
    /\ status[t] \in Terminal
    /\ status' = [status EXCEPT ![t] = "FORGOTTEN"]

Next ==
    \E t \in Tasks :
        \/ Submit(t)
        \/ Start(t)
        \/ \E verdict \in Terminal : End(t, verdict)
        \/ Forget(t)

Spec == Init /\ [][Next]_status
=============================================================================
