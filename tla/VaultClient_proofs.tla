------------------------- MODULE VaultClient_proofs -------------------------
(***************************************************************************)
(* A call of trdl-vault never has two of its tasks succeed: a proof for    *)
(* any number of calls, tasks and attempts.                                *)
(***************************************************************************)
EXTENDS VaultClient, TLAPS

Past  == {"FAILED", "FORGOTTEN"}
Fine  == {"SUCCEEDED", "FORGOTTEN"}
Call  == [at : {"write", "watch", "done"}, task : Tasks \cup {NoTask}, made : SUBSET Tasks,
          retries : 0 .. MaxAttempts, result : {"none", "ok", "failed"}]

\* What is known of the tasks of a call, by where the call is.
CallKnows(r, s) ==
    /\ \A t \in r.made \ {r.task} : s[t] \in Past
    /\ r.at = "write" => \A t \in r.made : s[t] \in Past
    /\ r.at = "watch" \/ r.result = "ok" => r.task \in Tasks
    /\ r.result = "ok" => r.at = "done" /\ s[r.task] \in Fine

IInv == TypeOK /\ \A c \in Clients : CallKnows(call[c], status)

-----------------------------------------------------------------------------
(* The plugin *)

\* A task that has ended ends no other way.
Forward(s, s1) ==
    /\ s1 \in [Tasks -> Plugin!Status]
    /\ \A t \in Tasks : /\ s[t] \in Past => s1[t] \in Past
                        /\ s[t] \in Fine => s1[t] \in Fine

LEMMA PluginForward ==
    ASSUME TypeOK, NEW t \in Tasks,
           \/ Plugin!Submit(t) \/ Plugin!Start(t) \/ Plugin!Forget(t)
           \/ \E verdict \in Plugin!Terminal : Plugin!End(t, verdict)
    PROVE  Forward(status, status')
BY DEF TypeOK, Plugin!TypeOK, Plugin!Submit, Plugin!Start, Plugin!Forget, Plugin!End,
       Plugin!Status, Plugin!Active, Plugin!Terminal, Forward, Past, Fine

LEMMA UnchangedForward ==
    ASSUME TypeOK, UNCHANGED status PROVE Forward(status, status')
BY DEF TypeOK, Plugin!TypeOK, Forward

\* Whatever the plugin does, a call goes on knowing what it knows.
LEMMA KnowsForward ==
    ASSUME NEW r \in Call, NEW s, NEW s1, Forward(s, s1), CallKnows(r, s)
    PROVE  CallKnows(r, s1)
<1>1. \A t \in r.made : t \in Tasks
  BY DEF Call
<1>2. r.result = "ok" => r.task \in Tasks
  BY DEF CallKnows
<1>3. QED
  BY <1>1, <1>2 DEF CallKnows, Forward

-----------------------------------------------------------------------------
(* The calls *)

LEMMA CallTyped == ASSUME TypeOK, NEW c \in Clients PROVE call[c] \in Call
BY DEF TypeOK, Call

\* One call takes a step, the plugin perhaps another.
LEMMA CallReplaced ==
    ASSUME IInv, NEW c \in Clients, NEW r \in Call, call' = [call EXCEPT ![c] = r],
           Forward(status, status'), CallKnows(r, status'),
           UNCHANGED <<retriable, plainBusy>>
    PROVE  IInv'
<1>1. call' \in [Clients -> Call]
  BY DEF IInv, TypeOK, Call
<1>2. TypeOK'
  BY <1>1 DEF IInv, TypeOK, Plugin!TypeOK, Forward, Call
<1>3. ASSUME NEW d \in Clients PROVE CallKnows(call'[d], status')
  <2>1. CASE d = c
    BY <2>1 DEF IInv, TypeOK
  <2>2. CASE d # c
    <3>1. call'[d] = call[d] /\ call[d] \in Call /\ CallKnows(call[d], status)
      BY <2>2, CallTyped DEF IInv, TypeOK
    <3>2. QED
      BY <3>1, KnowsForward
  <2>3. QED
    BY <2>1, <2>2
<1>4. QED
  BY <1>2, <1>3 DEF IInv

LEMMA Ended ==
    ASSUME IInv, NEW c \in Clients, NEW result \in {"ok", "failed"}, Ends(c, result),
           Forward(status, status'), UNCHANGED <<retriable, plainBusy>>,
           call[c].result # "ok",
           result = "ok" => call[c].task \in Tasks /\ status[call[c].task] \in Fine
    PROVE  IInv'
<1> DEFINE r == [call[c] EXCEPT !.at = "done", !.result = result]
<1>1. call[c] \in Call /\ CallKnows(call[c], status)
  BY CallTyped DEF IInv
<1>2. CallKnows(call[c], status')
  BY <1>1, KnowsForward
<1>3. r \in Call /\ r.task = call[c].task /\ r.made = call[c].made
      /\ r.at = "done" /\ r.result = result
  BY <1>1 DEF Call
<1>4. call' = [call EXCEPT ![c] = r]
  BY DEF Ends
<1>5. result = "ok" => status'[call[c].task] \in Fine
  BY DEF Forward
<1>6. CallKnows(r, status')
  <2> HIDE DEF r
  <2>1. QED
    BY <1>2, <1>3, <1>5 DEF CallKnows
<1>7. QED
  <2> HIDE DEF r
  <2>1. QED
    BY <1>3, <1>4, <1>6, CallReplaced

LEMMA Retried ==
    ASSUME IInv, NEW c \in Clients, RetryOrGiveUp(c), UNCHANGED <<status, retriable, plainBusy>>,
           call[c].result # "ok", \A t \in call[c].made : status[t] \in Past
    PROVE  IInv'
<1>1. Forward(status, status')
  BY UnchangedForward DEF IInv
<1>2. CASE call[c].retries < MaxAttempts
  <2> DEFINE r == [call[c] EXCEPT !.at = "write", !.retries = call[c].retries + 1]
  <2>1. call[c] \in Call /\ CallKnows(call[c], status)
    BY CallTyped DEF IInv
  <2>2. call[c].retries + 1 \in 0 .. MaxAttempts
    BY <2>1, <1>2, ClientAssumption DEF Call
  <2>3. r \in Call /\ r.task = call[c].task /\ r.made = call[c].made
        /\ r.at = "write" /\ r.result = call[c].result
    BY <2>1, <2>2 DEF Call
  <2>4. call' = [call EXCEPT ![c] = r]
    BY <1>2 DEF RetryOrGiveUp
  <2>5. CallKnows(r, status')
    <3> HIDE DEF r
    <3>1. QED
      BY <2>3 DEF CallKnows
  <2>6. QED
    <3> HIDE DEF r
    <3>1. QED
      BY <1>1, <2>3, <2>4, <2>5, CallReplaced
<1>3. CASE ~(call[c].retries < MaxAttempts)
  BY <1>1, <1>3, Ended DEF RetryOrGiveUp
<1>4. QED
  BY <1>2, <1>3

LEMMA WriteIInv == ASSUME IInv, NEW c \in Clients, LongRunningWrite(c) PROVE IInv'
<1> DEFINE t == CHOOSE u \in Fresh : TRUE
           r == [call[c] EXCEPT !.at = "watch", !.task = t, !.made = call[c].made \cup {t}]
<1>1. t \in Tasks
  BY DEF LongRunningWrite, Fresh
<1>2. /\ Plugin!Submit(t) /\ At(c, "write") /\ UNCHANGED <<retriable, plainBusy>>
      /\ call' = [call EXCEPT ![c] = r]
  BY DEF LongRunningWrite
<1>3. call[c] \in Call /\ CallKnows(call[c], status)
  BY CallTyped DEF IInv
<1> HIDE DEF t
<1>4. /\ r \in Call /\ r.task = t /\ r.made = call[c].made \cup {t}
      /\ r.at = "watch" /\ r.result = call[c].result
  BY <1>1, <1>3 DEF Call
<1> HIDE DEF r
<1>5. Forward(status, status')
  BY <1>1, <1>2, PluginForward DEF IInv
<1>6. CallKnows(call[c], status')
  BY <1>3, <1>5, KnowsForward
<1>7. CallKnows(r, status')
  BY <1>1, <1>2, <1>4, <1>6 DEF CallKnows, At
<1>8. QED
  BY <1>2, <1>4, <1>5, <1>7, CallReplaced

LEMMA WatchIInv == ASSUME IInv, NEW c \in Clients, WatchTask(c) PROVE IInv'
<1> DEFINE t == call[c].task
<1>1. /\ call[c] \in Call /\ CallKnows(call[c], status)
      /\ At(c, "watch") /\ UNCHANGED <<status, retriable, plainBusy>>
  BY CallTyped DEF IInv, WatchTask
<1>2. call[c].result # "ok" /\ Forward(status, status')
  BY <1>1, UnchangedForward DEF IInv, CallKnows, At
<1>3. CASE status[t] = "SUCCEEDED" /\ Ends(c, "ok")
  BY <1>1, <1>2, <1>3, Ended DEF Fine, CallKnows, At
<1>4. CASE status[t] = "FAILED" /\ RetryOrGiveUp(c)
  BY <1>1, <1>2, <1>4, Retried DEF CallKnows, Past
<1>5. CASE Ends(c, "failed")
  BY <1>1, <1>2, <1>5, Ended
<1>6. QED
  BY <1>3, <1>4, <1>5 DEF WatchTask

LEMMA BusyIInv == ASSUME IInv, NEW c \in Clients, WriteBusy(c) PROVE IInv'
<1>1. CallKnows(call[c], status) /\ At(c, "write")
  BY DEF IInv, WriteBusy
<1>2. QED
  BY <1>1, Retried DEF WriteBusy, CallKnows, At

LEMMA WriteFailsIInv == ASSUME IInv, NEW c \in Clients, WriteFails(c) PROVE IInv'
<1>1. CallKnows(call[c], status) /\ At(c, "write") /\ UNCHANGED <<retriable, plainBusy>>
  BY DEF IInv, WriteFails
<1>2. Forward(status, status')
  BY PluginForward, UnchangedForward, ClientAssumption DEF WriteFails, IInv
<1>3. CASE Ends(c, "failed")
  BY <1>1, <1>2, <1>3, Ended DEF CallKnows, At
<1>4. CASE UNCHANGED call
  <2>1. call' = [call EXCEPT ![c] = call[c]] /\ call[c] \in Call
    BY <1>4, CallTyped DEF IInv, TypeOK
  <2>2. QED
    BY <1>1, <1>2, <2>1, KnowsForward, CallReplaced
<1>5. QED
  BY <1>3, <1>4 DEF WriteFails

LEMMA PluginIInv ==
    ASSUME IInv, NEW t \in Tasks, RunTask(t) \/ PluginElse(t) PROVE IInv'
<1>1. Forward(status, status')
  BY PluginForward DEF IInv, RunTask, PluginElse, Plugin!Terminal
<1>2. UNCHANGED <<plainBusy, call>> /\ retriable' \subseteq Tasks
  BY DEF RunTask, PluginElse, IInv, TypeOK
<1>3. TypeOK'
  BY <1>1, <1>2 DEF IInv, TypeOK, Plugin!TypeOK, Forward
<1>4. \A c \in Clients : CallKnows(call'[c], status')
  BY <1>1, <1>2, CallTyped, KnowsForward DEF IInv
<1>5. QED
  BY <1>3, <1>4 DEF IInv

-----------------------------------------------------------------------------

LEMMA InitIInv == Init => IInv
BY ClientAssumption
   DEF Init, Plugin!Init, IInv, TypeOK, Plugin!TypeOK, Plugin!Status, CallKnows

LEMMA NextIInv == ASSUME IInv, [Next]_vars PROVE IInv'
<1>1. CASE UNCHANGED vars
  BY <1>1 DEF vars, IInv, TypeOK, Plugin!TypeOK, CallKnows
<1>2. ASSUME NEW c \in Clients, Step(c) PROVE IInv'
  BY <1>2, WriteIInv, BusyIInv, WatchIInv DEF Step
<1>3. ASSUME NEW c \in Clients, WriteFails(c) PROVE IInv'
  BY <1>3, WriteFailsIInv
<1>4. ASSUME NEW c \in Clients, GetTaskStatusFails(c) PROVE IInv'
  <2>1. /\ CallKnows(call[c], status) /\ At(c, "watch") /\ Ends(c, "failed")
        /\ UNCHANGED <<status, retriable, plainBusy>>
    BY <1>4 DEF GetTaskStatusFails, IInv
  <2>2. QED
    BY <2>1, Ended, UnchangedForward DEF CallKnows, At, IInv
<1>5. ASSUME NEW t \in Tasks, RunTask(t) \/ PluginElse(t) PROVE IInv'
  BY <1>5, PluginIInv
<1>6. QED
  BY <1>1, <1>2, <1>3, <1>4, <1>5 DEF Next

LEMMA IInvSingle == IInv => SuccessIsSingle
BY DEF IInv, CallKnows, SuccessIsSingle, Past, Fine

LEMMA Invariant == Spec => []IInv
<1>1. Init => IInv
  BY InitIInv
<1>2. IInv /\ [Next]_vars => IInv'
  BY NextIInv
<1>3. QED
  BY <1>1, <1>2, PTL DEF Spec

\* Every variable keeps its type, the count of attempts its bound (client.go,
\* withBackoffRequest).
THEOREM VaultClientTypeOK == Spec => []TypeOK
<1>1. IInv => TypeOK
  BY DEF IInv
<1>2. QED
  BY <1>1, Invariant, PTL

\* Of the tasks a call has asked for and watched only the last one can have
\* succeeded, and has, if the call reports success (client.go,
\* withBackoffRequest and watchTask).
THEOREM ReleasedOnce == Spec => []SuccessIsSingle
BY IInvSingle, Invariant, PTL
=============================================================================
