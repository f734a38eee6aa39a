--------------------------- MODULE SetupApp_proofs ---------------------------
(***************************************************************************)
(* The path a job of setup-app goes on with is that of a whole release: a  *)
(* proof for any number of processes, channels, releases and workflows.    *)
(*                                                                         *)
(* The local repository is in one of two states.  Either it is coherent,   *)
(* as RepoClient_proofs shows it to remain, or `trdl remove' has           *)
(* begun to take it apart; it is then still in the configuration, and      *)
(* every further job of the workflow begins with removing it.  Commands    *)
(* follow one another: at most one process is at work at a time, so that   *)
(* nothing races with a cleanup.                                           *)
(***************************************************************************)
EXTENDS SetupApp, TLAPS

R == INSTANCE RepoClient_proofs WITH Uses <- {}, Autoclean <- {}, Modes <- {},
         asked <- {}, lostMarks <- {}, lostPins <- {}, raced <- {}

\* What RepoClient_proofs assumes of the constants, for this instance: cited with
\* its lemmas.
LEMMA RepoConstants ==
    /\ NoRelease \notin Releases /\ Garbled \notin Releases \cup {NoRelease}
    /\ NoChannel \notin Channels /\ NoUrl \notin Urls
    /\ {} \subseteq {"update", "update-version", "bin-path"}
    /\ {} \subseteq BOOLEAN /\ {} \subseteq {"no", "flag", "env"}
BY SetupAssumption DEF SetupConstants

-----------------------------------------------------------------------------
(* The invariant *)

Adds    == {"setup", "root", "save"}
Removes == {"wipe", "unregister"}
Reads   == {"refused", "read", "reset", "touch", "find"}
Fetches == {"self-update", "tuf", "fetch", "sync", "unpack", "place", "install", "reset",
            "touch", "clean", "actual", "judge", "versions", "forget", "erase", "erased",
            "read", "find"}

SetupTyped ==
    /\ workflow \in Workflows /\ calm \in BOOLEAN
    /\ setup \in [at : Steps, proc : Procs \cup {NoProc}, path : Releases \cup {NoRelease}]

\* Nothing of the repository is left that a command could use.
Clean ==
    /\ \A c \in Channels : channelFile[c] = NoRelease
    /\ \A r \in Releases : dir[r] = "none"

Between == {"idle", "install", "list"}

\* A process at work belongs to the step the job is at.
InTurn(n, p) ==
    /\ n.at \in Fetches => registered # NoUrl
    /\ n.at \in Adds => registered = NoUrl
    /\ setup.at \notin Between
    /\ setup.at = "remove" => p = setup.proc /\ n.at \in Removes
    /\ setup.at = "add" => p = setup.proc /\ n.at \in Adds
    /\ setup.at \in {"path", "path again"} =>
          p = setup.proc /\ n.op = "bin-path" /\ n.at \in Reads
    /\ setup.at = "update" => setup.proc # NoProc
    /\ setup.at = "update" /\ setup.path = NoRelease =>
          p = setup.proc /\ n.at \in Fetches \cup {"refused"}
    /\ setup.at \in {"update", "ready"} /\ setup.path # NoRelease =>
          n.at = "background" /\ n.mode = "env"
    /\ setup.at = "ready" => setup.path # NoRelease

Turns ==
    /\ \A p, q \in Procs : p # q => proc[p].at = "idle" \/ proc[q].at = "idle"
    /\ \A p \in Procs : proc[p].at # "idle" => InTurn(proc[p], p)
    /\ \A p \in Procs : proc[p].op # "update-version"

Waiting ==
    /\ setup.proc # NoProc
    /\ proc[setup.proc].at = "idle" /\ proc[setup.proc].result = "ok"

\* What the job knows from the commands that are over.
Results ==
    /\ setup.at = "add" /\ setup.proc = NoProc => registered = NoUrl
    /\ setup.at = "remove" => workflow.force
    /\ setup.at = "remove" /\ setup.proc = NoProc => registered # NoUrl
    /\ setup.at = "remove" /\ Waiting => registered = NoUrl
    /\ setup.at \in {"path", "path again"} /\ Waiting =>
          LET r == proc[setup.proc].release IN r \in Releases /\ dir[r] = "whole"
    /\ setup.at \in {"ready", "update"} /\ setup.path # NoRelease =>
          dir[setup.path] = "whole"

\* `trdl remove' is at work, or was stopped before its end.
Wiped ==
    /\ workflow.force /\ registered # NoUrl
    /\ setup.at \in Between \cup {"remove", "failed"}
    /\ R!Typed /\ R!Exclusive
    /\ \A p \in Procs : /\ proc[p].at \in {"idle"} \cup Removes
                        /\ proc[p].at = "idle" => R!Equipped(proc[p])
                        /\ proc[p].at = "unregister" => Clean

\* The path a command is about to return is that of a whole release.
Found ==
    \A p \in Procs : proc[p].at = "find" =>
        proc[p].release \in Releases /\ dir[proc[p].release] = "whole"

Kept  == R!Coherent({}) /\ Found
Sound == Wiped \/ Kept

SInv ==
    /\ SetupTyped /\ Install!TypeOK
    /\ Sound /\ pinned = {} /\ Turns /\ Results
    /\ registered = NoUrl => Clean

-----------------------------------------------------------------------------
(* The operators of RepoClient, which the instance calls by longer names *)

LEMMA SameStates ==
    /\ Client!TypeOK <=> R!Typed
    /\ \A url : Client!InitWith(url) <=> R!InitWith(url)
    /\ Client!Idle = R!Idle
BY DEF Client!TypeOK, R!Typed, R!FilesTyped, Client!Lock, R!Lock, Client!Process, R!Process,
   Client!Ops, R!Ops, Client!Steps, R!Steps, Client!Contents, R!Contents,
   Client!InitWith, R!InitWith, Client!Idle, R!Idle, Client!Ended, R!Ended

LEMMA SameStep == ASSUME NEW p PROVE Client!Step(p) <=> R!Step(p)
BY DEF Client!At, R!At, Client!Goto, R!Goto, Client!Free, R!Free, Client!NoLocksOf,
   R!NoLocksOf, Client!Release, R!Release, Client!Ended, R!Ended, Client!Ends,
   R!Ends, Client!FirstStep, R!FirstStep, Client!RepoStep, R!RepoStep, Client!Command, R!Command,
   Client!ChildMode, R!ChildMode, Client!ChannelLock, R!ChannelLock,
   Client!UpdateLock, R!UpdateLock, Client!ReleaseLock, R!ReleaseLock,
   Client!MetafileLock, R!MetafileLock, Client!VersionLock, R!VersionLock,
   Client!SelfUpdate, R!SelfUpdate, Client!UpdateChannel, R!UpdateChannel,
   Client!UpdateToVersion, R!UpdateToVersion, Client!Downloaded, R!Downloaded,
   Client!SyncChannelFile, R!SyncChannelFile, Client!Synced, R!Synced,
   Client!LocksAfterSync, R!LocksAfterSync, Client!SyncChannelRelease,
   R!SyncChannelRelease, Client!RemoveBroken, R!RemoveBroken, Client!PlaceRelease,
   R!PlaceRelease, Client!InstallChannel, R!InstallChannel, Client!ResetLock,
   R!ResetLock, Client!Reset, R!Reset, Client!Touch, R!Touch, Client!CleanReleases,
   R!CleanReleases, Client!GetActualLocalReleases, R!GetActualLocalReleases,
   Client!ListReleases, R!ListReleases, Client!JudgeRelease, R!JudgeRelease,
   Client!JudgeVersion, R!JudgeVersion, Client!ForgetRelease,
   R!ForgetRelease, Client!EraseRelease, R!EraseRelease, Client!CleanEnds,
   R!CleanEnds, Client!GetChannelRelease, R!GetChannelRelease,
   Client!FindReleaseBinDir, R!FindReleaseBinDir,
   Client!Fetching, R!Fetching, Client!Dropped, R!Dropped, Client!Fails, R!Fails,
   Client!Refused, R!Refused, Client!Refuse, R!Refuse,
   Client!StartUpdateInBackground, R!StartUpdateInBackground, Client!Step, R!Step,
   Client!home, R!home

LEMMA SameTrouble == ASSUME NEW p PROVE Client!Trouble(p) <=> R!Trouble(p)
BY DEF Client!At, R!At, Client!NoLocksOf, R!NoLocksOf, Client!Ended, R!Ended,
   Client!Ends, R!Ends, Client!SelfUpdate, R!SelfUpdate, Client!Fetching, R!Fetching,
   Client!Dropped, R!Dropped, Client!Fails, R!Fails, Client!Fault, R!Fault,
   Client!Kill, R!Kill, Client!Trouble, R!Trouble, Client!home, R!home

LEMMA SameKill == ASSUME NEW p PROVE Client!Kill(p) <=> R!Kill(p)
BY DEF Client!At, R!At, Client!NoLocksOf, R!NoLocksOf, Client!Ended, R!Ended,
   Client!Ends, R!Ends, Client!Kill, R!Kill

LEMMA SameAddRepo == ASSUME NEW p PROVE Client!AddRepo(p) <=> R!AddRepo(p)
BY DEF Client!At, R!At, Client!Goto, R!Goto, Client!NoLocksOf, R!NoLocksOf,
   Client!Ended, R!Ended, Client!Ends, R!Ends, Client!AddRepo, R!AddRepo

LEMMA SameRemoveRepo == ASSUME NEW p PROVE Client!RemoveRepo(p) <=> R!RemoveRepo(p)
BY DEF Client!At, R!At, Client!Goto, R!Goto, Client!NoLocksOf, R!NoLocksOf,
   Client!Ended, R!Ended, Client!Ends, R!Ends, Client!WipeRepo, R!WipeRepo,
   Client!WipeLocks, R!WipeLocks, Client!RemoveRepoConfiguration,
   R!RemoveRepoConfiguration, Client!RemoveRepo, R!RemoveRepo, Client!home, R!home

LEMMA SameOutside == Client!Outside <=> R!Outside
BY DEF Client!Publish, R!Publish, Client!Expire, R!Expire, Client!Outside, R!Outside,
   Client!home, R!home

\* A command that starts.
Starts(p, n) ==
    /\ proc[p].at = "idle" /\ R!ConfigFree
    /\ proc' = [proc EXCEPT ![p] = n]
    /\ UNCHANGED <<published, R!home, locks, handedOut>>

LEMMA SameStarts ==
    ASSUME NEW p, NEW c, NEW autoclean, NEW mode
    PROVE  /\ Client!StartRemove(p) =>
                  Starts(p, R!Command("remove", NoChannel, NoRelease, NoUrl, FALSE, "no"))
           /\ Client!StartAdd(p, c) =>
                  Starts(p, R!Command("add", NoChannel, NoRelease, c, FALSE, "no"))
           /\ Client!StartBinPath(p, c) =>
                  Starts(p, R!Command("bin-path", c, NoRelease, NoUrl, FALSE, "no"))
           /\ Client!StartUpdate(p, c, autoclean, mode) =>
                  Starts(p, R!Command("update", c, NoRelease, NoUrl, autoclean, mode))
BY DEF Client!Start, R!Start, Client!ConfigFree, R!ConfigFree, Client!StartAdd,
        R!StartAdd, Client!StartRemove, R!StartRemove, Client!StartBinPath, R!StartBinPath,
        Client!StartUpdate, R!StartUpdate, Client!At, R!At, Client!Command, R!Command,
        Client!FirstStep, R!FirstStep, Client!RepoStep, R!RepoStep, Client!home, R!home, Starts

-----------------------------------------------------------------------------
(* What a step of a command can do to a job *)

\* A command goes on, as a part of the same action of the job, or is over.
Advances(n, m) ==
    /\ n.at # "idle"
    /\ n.at \in Fetches => m.at \in Fetches \cup {"idle"}
    /\ n.at \in Adds => m.at \in Adds \cup {"idle"}
    /\ n.at \notin Fetches \cup Adds => m.at = "idle"
    /\ n.op = "bin-path" /\ n.at \in Reads => m.at \in Reads \cup {"idle"}
    /\ m.op = n.op \/ (m.at = "idle" /\ m.op = "none")

\* What it leaves alone, and what it returns.
Effects(n, m) ==
    /\ registered' = registered \/ (n.at = "save" /\ m.at = "idle")
    /\ n.at \notin Fetches => UNCHANGED <<channelFile, dir>>
    /\ n.at \in Reads => UNCHANGED dir
    /\ n.op # "update-version" => UNCHANGED pinned
    /\ m.at = "find" \/ (n.at \in Reads /\ m.at = "idle" /\ m.result = "ok") =>
          m.release \in Releases /\ dir'[m.release] = "whole"

Becomes(p, m) ==
    /\ proc'[p] = m /\ \A q \in Procs \ {p} : proc'[q] = proc[q]
    /\ Advances(proc[p], m) /\ Effects(proc[p], m)

LEMMA FailedBecomes ==
    ASSUME R!Typed, NEW p \in Procs, proc[p].at # "idle", R!Ends(p, "failed", NoRelease),
           UNCHANGED <<registered, channelFile, dir, pinned>>
    PROVE  Becomes(p, proc'[p])
<1>1. /\ proc'[p] = R!Ended("failed", NoRelease)
      /\ \A q \in Procs \ {p} : proc'[q] = proc[q]
  BY DEF R!Typed, R!Ends, R!FilesTyped
<1>2. QED
  BY <1>1 DEF Becomes, Advances, Effects, R!Ended

\* Steps of update, and of bin-path, which no set of names has to be opened for.
LEMMA FetchBecomes ==
    ASSUME NEW p \in Procs, R!Moved(p), proc[p].at \in Fetches \ Reads,
           proc'[p].at \in (Fetches \ {"find"}) \cup {"idle"},
           proc'[p].op = proc[p].op \/ (proc'[p].at = "idle" /\ proc'[p].op = "none"),
           UNCHANGED <<registered, pinned>>
    PROVE  Becomes(p, proc'[p])
<1>1. proc[p].at \notin Adds /\ proc[p].at # "idle"
  BY DEF Fetches, Adds
<1>2. QED
  BY <1>1 DEF Becomes, Advances, Effects, R!Moved

LEMMA LookBecomes ==
    ASSUME NEW p \in Procs, R!Moved(p), proc[p].at \in Fetches, UNCHANGED <<registered, dir>>,
           proc'[p].at \in Fetches \cup {"idle"},
           proc[p].op = "bin-path" => proc'[p].at \in Reads \cup {"idle"},
           proc[p].op # "update-version" => UNCHANGED pinned,
           proc'[p].op = proc[p].op \/ (proc'[p].at = "idle" /\ proc'[p].op = "none"),
           proc'[p].at \in {"idle", "find"} =>
               proc'[p].release \in Releases /\ dir[proc'[p].release] = "whole"
    PROVE  Becomes(p, proc'[p])
<1>1. proc[p].at \notin Adds /\ proc[p].at # "idle"
  BY DEF Fetches, Adds
<1>2. QED
  BY <1>1 DEF Becomes, Advances, Effects, R!Moved

\* proc'[p] is proc[p] but for some fields.
LEMMA FieldsMoved ==
    ASSUME R!Typed, R!Typed', NEW p \in Procs, NEW n, proc' = [proc EXCEPT ![p] = n]
    PROVE  R!Moved(p) /\ proc'[p] = n
BY DEF R!Typed, R!Moved, R!FilesTyped

LEMMA UpdateBecomes ==
    ASSUME R!Typed, R!Typed', NEW p \in Procs,
           \/ \E result \in {"ok", "warned"} : R!SelfUpdate(p, result)
           \/ R!UpdateChannel(p) \/ R!UpdateToVersion(p) \/ R!SyncChannelFile(p)
           \/ R!SyncChannelRelease(p) \/ R!RemoveBroken(p) \/ R!PlaceRelease(p)
           \/ R!InstallChannel(p)
    PROVE  Becomes(p, proc'[p])
<1>1. proc[p] \in R!Process
  BY DEF R!Typed, R!FilesTyped
<1>2. /\ R!Synced(p) \in Fetches \ {"find"} /\ R!Synced(p) \in R!Steps
      /\ Fetches \subseteq R!Steps
  BY DEF R!Synced, Fetches, R!Steps
<1>3. ASSUME NEW result \in {"ok", "warned"}, R!SelfUpdate(p, result)
      PROVE  Becomes(p, proc'[p])
  <2> DEFINE n == [proc[p] EXCEPT !.at = "tuf", !.result = result]
  <2>1. n.at = "tuf" /\ n.op = proc[p].op
    BY <1>1 DEF R!Process
  <2>2. proc' = [proc EXCEPT ![p] = n] /\ proc[p].at = "self-update"
        /\ UNCHANGED <<registered, pinned>>
    BY <1>3 DEF R!SelfUpdate, R!At, R!home
  <2> HIDE DEF n
  <2>3. QED
    BY <2>1, <2>2, FieldsMoved, FetchBecomes DEF Fetches, Reads
<1>4. CASE R!UpdateChannel(p)
  <2> DEFINE c == proc[p].channel
             n == [proc[p] EXCEPT !.at = IF channelFile[c] = published[c] THEN "sync"
                                         ELSE "fetch",
                                  !.upToDate = (channelFile[c] = published[c]),
                                  !.release = published[c]]
  <2>1. n.at \in {"sync", "fetch"} /\ n.op = proc[p].op
    BY <1>1 DEF R!Process
  <2>2. proc' = [proc EXCEPT ![p] = n] /\ proc[p].at = "tuf"
        /\ UNCHANGED <<registered, pinned>>
    BY <1>4 DEF R!UpdateChannel, R!At
  <2> HIDE DEF n
  <2>3. QED
    BY <2>1, <2>2, FieldsMoved, FetchBecomes DEF Fetches, Reads
<1>5. CASE R!SyncChannelFile(p)
  <2>1. PICK content : proc' = [proc EXCEPT ![p].at = "sync", ![p].release = content]
    BY <1>5 DEF R!SyncChannelFile
  <2> DEFINE n == [proc[p] EXCEPT !.at = "sync", !.release = content]
  <2>2. n.at = "sync" /\ n.op = proc[p].op
    BY <1>1 DEF R!Process
  <2>3. proc' = [proc EXCEPT ![p] = n] /\ proc[p].at = "fetch"
        /\ UNCHANGED <<registered, pinned>>
    BY <1>5, <2>1 DEF R!SyncChannelFile, R!At
  <2> HIDE DEF n
  <2>4. QED
    BY <2>2, <2>3, FieldsMoved, FetchBecomes DEF Fetches, Reads
<1>6. ASSUME NEW step \in Fetches \ {"find"}, R!Goto(p, step), proc[p].at \in Fetches \ Reads,
             UNCHANGED <<registered, pinned>>
      PROVE  Becomes(p, proc'[p])
  BY <1>2, <1>6, R!GoesOn, FetchBecomes, RepoConstants DEF R!SameCommand
<1>7. /\ \A step \in {"tuf", "sync", "unpack", "place", "install"} :
             step \in Fetches \ Reads
      /\ {"sync", "unpack", "place", "clean"} \subseteq Fetches \ {"find"}
  BY DEF Fetches, Reads
<1>8. CASE R!UpdateToVersion(p)
  BY <1>6, <1>7, <1>8 DEF R!UpdateToVersion, R!At
<1>9. CASE R!SyncChannelRelease(p)
  BY <1>2, <1>6, <1>7, <1>9 DEF R!SyncChannelRelease, R!At, R!home
<1>10. CASE R!RemoveBroken(p)
  BY <1>6, <1>7, <1>10 DEF R!RemoveBroken, R!At
<1>11. CASE R!PlaceRelease(p)
  BY <1>2, <1>6, <1>7, <1>11 DEF R!PlaceRelease, R!At
<1>12. CASE R!InstallChannel(p)
  BY <1>6, <1>7, <1>12 DEF R!InstallChannel, R!At
<1>13. QED
  BY <1>3, <1>4, <1>5, <1>8, <1>9, <1>10, <1>11, <1>12

\* A cleanup looks at the next channel, release or mark.
LEMMA CleanStepBecomes ==
    ASSUME R!Typed, R!Typed', NEW p \in Procs, NEW n, proc' = [proc EXCEPT ![p] = n],
           n.op = proc[p].op, n.at \in {"actual", "judge", "versions", "forget"},
           proc[p].at \in {"clean", "actual", "judge", "versions"},
           UNCHANGED <<registered, pinned>>
    PROVE  Becomes(p, proc'[p])
<1>1. R!Moved(p) /\ proc'[p] = n
  BY FieldsMoved
<1>2. QED
  BY <1>1, FetchBecomes DEF Fetches, Reads

LEMMA CleanBecomes ==
    ASSUME R!Typed, R!Typed', NEW p \in Procs,
           \/ R!CleanReleases(p) \/ R!GetActualLocalReleases(p) \/ R!ListReleases(p)
           \/ R!JudgeRelease(p) \/ R!JudgeVersion(p) \/ R!ForgetRelease(p)
           \/ R!EraseRelease(p) \/ R!CleanEnds(p)
    PROVE  Becomes(p, proc'[p])
<1>1. proc[p] \in R!Process /\ Fetches \subseteq R!Steps
  BY DEF R!Typed, Fetches, R!Steps, R!FilesTyped
<1>2. /\ {"clean", "judge", "versions", "forget", "erase", "erased"} \subseteq Fetches \ Reads
      /\ {"judge", "forget", "erase", "erased"} \subseteq Fetches \ {"find"}
  BY DEF Fetches, Reads
<1>3. ASSUME R!Ends(p, proc[p].result, NoRelease), proc[p].at \in {"clean", "judge"},
             UNCHANGED <<registered, pinned>>
      PROVE  Becomes(p, proc'[p])
  <2> DEFINE n == R!Ended(proc[p].result, NoRelease)
  <2>1. n.at = "idle" /\ n.op = "none" /\ proc' = [proc EXCEPT ![p] = n]
    BY <1>3 DEF R!Ends, R!Ended
  <2> HIDE DEF n
  <2>2. R!Moved(p) /\ proc'[p] = n
    BY <2>1, FieldsMoved
  <2>3. QED
    BY <1>2, <1>3, <2>1, <2>2, FetchBecomes
<1>4. ASSUME NEW step \in {"judge", "forget", "erase", "erased"}, R!Goto(p, step),
             proc[p].at \in {"versions", "forget", "erase", "erased"},
             UNCHANGED <<registered, pinned>>
      PROVE  Becomes(p, proc'[p])
  BY <1>1, <1>2, <1>4, R!GoesOn, FetchBecomes, RepoConstants DEF R!SameCommand
<1>5. CASE R!CleanReleases(p)
  <2>1. CASE proc[p].autoclean
    <3> DEFINE n == [proc[p] EXCEPT !.at = "actual", !.todo = Releases,
                        !.unread = {c \in Channels : channelFile[c] # NoRelease}]
    <3>1. n.at = "actual" /\ n.op = proc[p].op
      BY <1>1 DEF R!Process
    <3>2. proc' = [proc EXCEPT ![p] = n] /\ proc[p].at = "clean"
          /\ UNCHANGED <<registered, pinned>>
      BY <1>5, <2>1 DEF R!CleanReleases, R!At, R!home
    <3> HIDE DEF n
    <3>3. QED
      BY <3>1, <3>2, CleanStepBecomes
  <2>2. CASE ~proc[p].autoclean
    BY <1>3, <1>5, <2>2 DEF R!CleanReleases, R!At, R!home
  <2>3. QED
    BY <2>1, <2>2
<1>6. CASE R!GetActualLocalReleases(p)
  <2>1. PICK c : proc' = [proc EXCEPT ![p].unread = @ \ {c}, ![p].todo = @ \ {channelFile[c]}]
    BY <1>6 DEF R!GetActualLocalReleases
  <2> DEFINE n == [proc[p] EXCEPT !.unread = proc[p].unread \ {c},
                                  !.todo = proc[p].todo \ {channelFile[c]}]
  <2>2. n.at = proc[p].at /\ n.op = proc[p].op
    BY <1>1 DEF R!Process
  <2>3. proc' = [proc EXCEPT ![p] = n] /\ proc[p].at = "actual"
        /\ UNCHANGED <<registered, pinned>>
    BY <1>6, <2>1 DEF R!GetActualLocalReleases, R!At, R!home
  <2> HIDE DEF n
  <2>4. QED
    BY <2>2, <2>3, CleanStepBecomes
<1>7. CASE R!ListReleases(p)
  <2> DEFINE n == [proc[p] EXCEPT !.at = "judge",
                                  !.todo = {r \in proc[p].todo : dir[r] # "none"}]
  <2>1. n.at = "judge" /\ n.op = proc[p].op
    BY <1>1 DEF R!Process
  <2>2. proc' = [proc EXCEPT ![p] = n] /\ proc[p].at = "actual"
        /\ UNCHANGED <<registered, pinned>>
    BY <1>7 DEF R!ListReleases, R!At, R!home
  <2> HIDE DEF n
  <2>3. QED
    BY <2>1, <2>2, CleanStepBecomes
<1>8. CASE R!JudgeRelease(p)
  <2>1. PICK r : proc' = [proc EXCEPT ![p].todo = @ \ {r}, ![p].release = r,
                             ![p].at = IF metafile[r] = "recent" THEN "judge" ELSE "versions"]
    BY <1>8 DEF R!JudgeRelease
  <2> DEFINE n == [proc[p] EXCEPT !.todo = proc[p].todo \ {r}, !.release = r,
                      !.at = IF metafile[r] = "recent" THEN "judge" ELSE "versions"]
  <2>2. n.at \in {"judge", "versions"} /\ n.op = proc[p].op
    BY <1>1 DEF R!Process
  <2>3. proc' = [proc EXCEPT ![p] = n] /\ proc[p].at = "judge"
        /\ UNCHANGED <<registered, pinned>>
    BY <1>8, <2>1 DEF R!JudgeRelease, R!At, R!home
  <2> HIDE DEF n
  <2>4. QED
    BY <2>2, <2>3, CleanStepBecomes
<1>9. CASE R!JudgeVersion(p)
  BY <1>4, <1>9 DEF R!JudgeVersion, R!At, R!home
<1>10. CASE R!ForgetRelease(p)
  BY <1>4, <1>10 DEF R!ForgetRelease, R!At
<1>11. CASE R!EraseRelease(p)
  BY <1>4, <1>11 DEF R!EraseRelease, R!At
<1>12. CASE R!CleanEnds(p)
  BY <1>3, <1>12 DEF R!CleanEnds, R!At, R!home
<1>13. QED
  BY <1>5, <1>6, <1>7, <1>8, <1>9, <1>10, <1>11, <1>12

LEMMA ReadBecomes ==
    ASSUME Kept, R!Typed', NEW p \in Procs,
           R!GetChannelRelease(p) \/ R!Reset(p) \/ R!Touch(p) \/ R!FindReleaseBinDir(p)
    PROVE  Becomes(p, proc'[p])
<1>1. /\ proc[p] \in R!Process /\ R!Typed
      /\ proc[p].at = "touch" => proc[p].release \in Releases /\ dir[proc[p].release] = "whole"
  BY DEF Kept, R!Typed, R!Equipped, R!Relies, R!Coherent, R!FilesTyped
<1>2. /\ {"read", "reset", "touch", "find"} \subseteq Fetches
      /\ {"read", "reset", "touch", "find"} \subseteq Reads
      /\ {"reset", "touch", "find", "clean"} \subseteq Fetches \cap R!Steps
  BY DEF Fetches, Reads, R!Steps
<1>3. CASE R!GetChannelRelease(p)
  <2> DEFINE n == [proc[p] EXCEPT !.at = "reset", !.release = channelFile[proc[p].channel]]
  <2>1. n.at = "reset" /\ n.op = proc[p].op
    BY <1>1 DEF R!Process
  <2>2. proc' = [proc EXCEPT ![p] = n] /\ proc[p].at = "read"
        /\ UNCHANGED <<registered, pinned, dir>>
    BY <1>3 DEF R!GetChannelRelease, R!At, R!home
  <2> HIDE DEF n
  <2>3. R!Moved(p) /\ proc'[p] = n
    BY <1>1, <2>2, FieldsMoved
  <2>4. QED
    BY <1>2, <2>1, <2>2, <2>3, LookBecomes
<1>4. CASE R!Reset(p)
  <2>1. /\ R!Goto(p, "touch") /\ proc[p].at = "reset" /\ UNCHANGED <<registered, dir>>
        /\ proc[p].op # "update-version" => UNCHANGED pinned
    BY <1>4 DEF R!Reset, R!At
  <2>2. R!Moved(p) /\ R!SameCommand(p) /\ proc'[p].at = "touch"
    BY <1>1, <1>2, <2>1, R!GoesOn, RepoConstants
  <2>3. QED
    BY <1>2, <2>1, <2>2, LookBecomes DEF R!SameCommand
<1>5. CASE R!Touch(p)
  <2>1. /\ proc[p].at = "touch" /\ UNCHANGED <<registered, dir>>
        /\ \/ proc[p].op = "update-version" /\ R!Goto(p, "clean")
           \/ proc[p].op # "update-version" /\ R!Goto(p, "find") /\ UNCHANGED pinned
    BY <1>5 DEF R!Touch, R!At
  <2>2. /\ R!Moved(p) /\ R!SameCommand(p) /\ proc'[p].at \in {"clean", "find"}
        /\ proc'[p].release = proc[p].release
        /\ proc[p].op = "bin-path" => proc'[p].at = "find"
    BY <1>1, <1>2, <2>1, R!GoesOn, RepoConstants
  <2>3. proc[p].release \in Releases /\ dir[proc[p].release] = "whole"
    BY <1>1, <2>1
  <2>4. QED
    BY <1>2, <2>1, <2>2, <2>3, LookBecomes DEF R!SameCommand
<1>6. CASE R!FindReleaseBinDir(p)
  <2> DEFINE n == R!Ended("ok", proc[p].release)
  <2>1. /\ proc' = [proc EXCEPT ![p] = n] /\ proc[p].at = "find"
        /\ UNCHANGED <<registered, pinned, dir>> /\ proc[p].release \in Releases
        /\ dir[proc[p].release] = "whole"
    BY <1>6 DEF R!FindReleaseBinDir, R!At, R!Ends, R!home, Kept, Found, R!Coherent
  <2>2. n.at = "idle" /\ n.op = "none" /\ n.release = proc[p].release
    BY DEF R!Ended
  <2> HIDE DEF n
  <2>3. QED
    BY <1>1, <1>2, <2>1, <2>2, FieldsMoved, LookBecomes
<1>7. QED
  BY <1>3, <1>4, <1>5, <1>6

LEMMA AddBecomes ==
    ASSUME R!Typed, R!Typed', NEW p \in Procs, R!AddRepo(p) PROVE Becomes(p, proc'[p])
<1>1. /\ \A step \in Adds : step \notin Fetches \cup Reads /\ step \notin {"idle", "find"}
      /\ {"setup", "root", "save"} = Adds /\ Adds \subseteq R!Steps
  BY DEF Adds, Fetches, Reads, R!Steps
<1>2. UNCHANGED <<channelFile, dir, pinned>> /\ proc[p].at \in Adds
  BY <1>1 DEF R!AddRepo, R!At
<1>3. ASSUME NEW step \in Adds, R!Goto(p, step), UNCHANGED registered
      PROVE  Becomes(p, proc'[p])
  <2>1. R!Moved(p) /\ R!SameCommand(p) /\ proc'[p].at = step
    BY <1>1, <1>3, R!GoesOn, RepoConstants
  <2>2. QED
    BY <1>1, <1>2, <1>3, <2>1 DEF Becomes, Advances, Effects, R!Moved, R!SameCommand
<1>4. ASSUME R!Ends(p, "ok", NoRelease), proc[p].at = "save" PROVE Becomes(p, proc'[p])
  <2> DEFINE n == R!Ended("ok", NoRelease)
  <2>1. n.at = "idle" /\ n.op = "none" /\ proc' = [proc EXCEPT ![p] = n]
    BY <1>4 DEF R!Ends, R!Ended
  <2> HIDE DEF n
  <2>2. R!Moved(p) /\ proc'[p] = n
    BY <2>1, FieldsMoved
  <2>3. QED
    BY <1>1, <1>2, <1>4, <2>1, <2>2 DEF Becomes, Advances, Effects, R!Moved
<1>5. QED
  BY <1>1, <1>3, <1>4 DEF R!AddRepo, R!At

\* An update goes to the background.
Forks(p, q) ==
    /\ proc[p].at = "background" /\ proc[q].at = "idle" /\ p # q
    /\ proc'[p].at = "idle" /\ proc'[p].op = "none" /\ proc'[q].op = "update"
    /\ proc'[q].at \in {"background", "refused", "self-update"}
    /\ proc'[q].at = "self-update" => registered # NoUrl
    /\ proc[p].mode = "env" => proc'[q].at = "background" /\ proc'[q].mode = "env"
    /\ \A r \in Procs \ {p, q} : proc'[r] = proc[r]
    /\ UNCHANGED R!home

LEMMA BackgroundForks ==
    ASSUME R!Typed, NEW p \in Procs, NEW q \in Procs, R!StartUpdateInBackground(p, q)
    PROVE  Forks(p, q)
<1> DEFINE mode == R!ChildMode(proc[p].mode)
           child == R!Command("update", proc[p].channel, NoRelease, NoUrl,
                            proc[p].autoclean, mode)
           e == R!Ended("ok", NoRelease)
<1>1. /\ proc[p].at = "background" /\ proc[q].at = "idle" /\ p # q
      /\ proc' = [proc EXCEPT ![q] = child, ![p] = e] /\ UNCHANGED R!home
  BY DEF R!StartUpdateInBackground, R!At
<1>2. /\ child.op = "update" /\ child.mode = mode /\ child.at = R!FirstStep("update", mode)
      /\ proc[p].mode = "env" => mode = "env"
  BY DEF R!Command, R!ChildMode
<1>3. e.at = "idle" /\ e.op = "none"
  BY DEF R!Ended
<1> HIDE DEF child, mode, e
<1>4. /\ R!FirstStep("update", mode) \in {"background", "refused", "self-update"}
      /\ R!FirstStep("update", mode) = "self-update" => registered # NoUrl
      /\ mode = "env" => R!FirstStep("update", mode) = "background"
  BY DEF R!FirstStep, R!RepoStep
<1>5. /\ proc'[p] = e /\ proc'[q] = child
      /\ \A r \in Procs \ {p, q} : proc'[r] = proc[r]
  BY <1>1 DEF R!Typed, R!FilesTyped
<1>6. QED
  BY <1>1, <1>2, <1>3, <1>4, <1>5 DEF Forks

LEMMA StepBecomes ==
    ASSUME Kept, R!Typed', NEW p \in Procs,
           R!Step(p) \/ R!AddRepo(p) \/ R!Trouble(p) \/ R!Kill(p)
    PROVE  Becomes(p, proc'[p]) \/ \E q \in Procs : Forks(p, q)
<1>1. ASSUME R!Refuse(p) \/ R!Fault(p) PROVE Becomes(p, proc'[p])
  BY <1>1, FailedBecomes DEF R!Refuse, R!Refused, R!Fault, R!Fails, R!At, Kept, R!Coherent
<1>2. ASSUME R!Kill(p) PROVE Becomes(p, proc'[p])
  BY <1>2, FailedBecomes DEF R!Kill, R!At, Kept, R!Coherent
<1>3. CASE R!Trouble(p)
  BY <1>1, <1>2, <1>3, UpdateBecomes DEF R!Trouble, Kept, R!Coherent
<1>4. CASE R!Step(p)
  BY <1>1, <1>4, UpdateBecomes, CleanBecomes, ReadBecomes, BackgroundForks
  DEF R!Step, Kept, R!Coherent
<1>5. QED
  BY <1>2, <1>3, <1>4, AddBecomes DEF Kept, R!Coherent

-----------------------------------------------------------------------------
(* Commands at work *)

LEMMA InstallApart ==
    ASSUME Install!TypeOK, UNCHANGED <<machine, cache, install>> PROVE Install!TypeOK'
BY DEF Install!TypeOK

Waits == UNCHANGED <<machine, cache, install, workflow, setup, calm>>

LEMMA WaitsTyped ==
    ASSUME SetupTyped, Install!TypeOK, Waits PROVE SetupTyped' /\ Install!TypeOK'
BY InstallApart DEF SetupTyped, Waits

\* At the steps of a job at which no command has been started, none is at work.
LEMMA Quiet ==
    ASSUME NoProc \notin Procs, SInv,
           \/ setup.at \in Between
           \/ setup.proc = NoProc /\ setup.at \in {"remove", "add", "path", "path again",
                                                   "update"}
    PROVE  \A p \in Procs : proc[p].at = "idle"
<1> SUFFICES ASSUME NEW p \in Procs, proc[p].at # "idle" PROVE FALSE
  OBVIOUS
<1>1. InTurn(proc[p], p) /\ p # NoProc
  BY DEF SInv, Turns
<1>2. QED
  BY <1>1 DEF InTurn

\* Nor is another one beside that which the job waits for.
LEMMA QuietAfter ==
    ASSUME NoProc \notin Procs, SInv, setup.proc # NoProc, proc[setup.proc].at = "idle",
           \/ setup.at \in {"remove", "add", "path", "path again"}
           \/ setup.at = "update" /\ setup.path = NoRelease
    PROVE  \A p \in Procs : proc[p].at = "idle"
<1> SUFFICES ASSUME NEW p \in Procs, proc[p].at # "idle" PROVE FALSE
  OBVIOUS
<1>1. InTurn(proc[p], p)
  BY DEF SInv, Turns
<1>2. QED
  BY <1>1 DEF InTurn

LEMMA TurnGoesOn ==
    ASSUME SInv, NEW p \in Procs, NEW m, Becomes(p, m), Waits
    PROVE  Turns'
<1> DEFINE n == proc[p]
<1>1. InTurn(n, p) /\ n.at # "idle" /\ n.op # "update-version"
  BY DEF SInv, Turns, Becomes, Advances
<1>2. proc'[p] = m /\ \A q \in Procs \ {p} : proc'[q] = proc[q] /\ proc'[q].at = "idle"
  BY <1>1 DEF SInv, Turns, Becomes
<1>3. m.op # "update-version" /\ \A q \in Procs : proc[q].op # "update-version"
  BY <1>1 DEF SInv, Turns, Becomes, Advances
<1>4. ASSUME m.at # "idle" PROVE InTurn(m, p)'
  <2>1. /\ m.at \in Fetches => n.at \in Fetches
        /\ m.at \in Adds => n.at \in Adds
        /\ n.at \in Fetches \cup Adds
        /\ n.at \in Adds => m.at \in Adds
        /\ n.at \in Fetches => m.at \in Fetches
        /\ n.op = "bin-path" /\ n.at \in Reads => m.op = "bin-path" /\ m.at \in Reads
        /\ registered' = registered
    <3>1. Fetches \cap Adds = {}
      BY DEF Fetches, Adds
    <3>2. QED
      BY <1>4, <3>1 DEF Becomes, Advances, Effects
  <2>2. /\ n.at \notin Removes /\ n.at # "background" /\ n.at # "refused"
    BY <2>1 DEF Fetches, Adds, Removes
  <2>3. QED
    BY <1>1, <2>1, <2>2 DEF InTurn, Waits
<1>5. QED
  BY <1>2, <1>3, <1>4 DEF Turns

LEMMA ResultsGoOn ==
    ASSUME NoProc \notin Procs, SInv, NEW p \in Procs, NEW m, Becomes(p, m), Waits,
           R!Equipped(proc[p])
    PROVE  Results'
<1> DEFINE n == proc[p]
<1>1. InTurn(n, p) /\ n.at # "idle" /\ p # NoProc /\ n.at \notin Removes
  BY DEF SInv, Turns, Becomes, Advances, R!Equipped, Removes
<1>2. proc'[p] = m /\ UNCHANGED <<setup, workflow>>
  BY DEF Becomes, Waits
<1>3. /\ n.at \in Reads /\ m.at = "idle" /\ m.result = "ok" =>
            m.release \in Releases /\ dir'[m.release] = "whole"
      /\ n.at = "background" => UNCHANGED dir
  BY DEF Becomes, Effects, Fetches
<1>4. setup.at # "remove"
  BY <1>1 DEF InTurn
<1>5. ASSUME setup.at = "add" PROVE setup.proc # NoProc
  BY <1>1, <1>5 DEF InTurn
<1>6. ASSUME setup.at \in {"path", "path again"}, Waiting'
      PROVE  LET r == proc'[setup.proc].release IN r \in Releases /\ dir'[r] = "whole"
  BY <1>1, <1>2, <1>3, <1>6 DEF InTurn, Waiting
<1>7. ASSUME setup.at \in {"ready", "update"}, setup.path # NoRelease
      PROVE  dir'[setup.path] = "whole"
  BY <1>1, <1>3, <1>7 DEF InTurn, SInv, Results
<1>8. QED
  BY <1>2, <1>4, <1>5, <1>6, <1>7 DEF Results

\* Nothing races with a cleanup: while it is at work no other process is.
LEMMA NoRace ==
    ASSUME R!Coherent({}),
           \A p, q \in Procs : p # q => proc[p].at = "idle" \/ proc[q].at = "idle"
    PROVE  R!Base({})
<1> SUFFICES ASSUME NEW r \in Releases, NEW p \in Procs, NEW q \in Procs,
                    R!AboutToMark(q, r), R!AboutToDelete(p, q, r)
             PROVE  FALSE
  BY DEF R!Base, R!Racing
<1>1. proc[q].at \in {"install", "reset", "touch"}
  BY DEF R!AboutToMark
<1>2. proc[p].todo # {} \/ proc[p].at \in R!Late
  BY DEF R!AboutToDelete, R!At, R!Late
<1>3. proc[p].at \in R!Cleaning
  BY <1>2 DEF R!Coherent, R!Equipped, R!Cleaning
<1>4. QED
  BY <1>1, <1>3 DEF R!Cleaning, R!Late

LEMMA CommandKeeps ==
    ASSUME NoProc \notin Procs, SInv, Kept, NEW p \in Procs,
           R!Step(p) \/ R!AddRepo(p) \/ R!Trouble(p) \/ R!Kill(p), Waits
    PROVE  SInv'
<1>1. R!Coherent({})' /\ R!Typed'
  <2>1. R!Base({})
    BY NoRace DEF Kept, SInv, Turns, R!Coherent
  <2>2. R!Coherent({})'
    BY <2>1, RepoConstants, R!RepoAssumption, R!StepKeeps, R!AddRepoKeeps, R!KillKeeps
  <2>3. QED
    BY <2>2 DEF R!Coherent
<1>2. SetupTyped' /\ Install!TypeOK'
  BY WaitsTyped DEF SInv
<1>3. R!Equipped(proc[p]) /\ proc[p].op # "update-version"
  BY DEF Kept, SInv, Turns, R!Coherent
<1>4. CASE Becomes(p, proc'[p])
  <2>1. Turns' /\ Results'
    BY <1>3, <1>4, TurnGoesOn, ResultsGoOn
  <2>2. pinned' = {}
    BY <1>3, <1>4 DEF Becomes, Effects, SInv
  <2>3. ASSUME registered' = NoUrl PROVE Clean'
    <3>1. proc[p].at \notin Fetches /\ registered = NoUrl
      <4>1. proc[p].at = "save" => registered = NoUrl
        BY <1>4 DEF SInv, Turns, Becomes, Advances, InTurn, Adds
      <4>2. registered = NoUrl
        BY <1>4, <2>3, <4>1 DEF Becomes, Effects
      <4>3. QED
        BY <1>4, <4>2 DEF SInv, Turns, Becomes, Advances, InTurn
    <3>2. QED
      BY <1>4, <3>1 DEF Becomes, Effects, SInv, Clean
  <2>4. Found'
    BY <1>4 DEF Found, Becomes, Effects, Advances, SInv, Turns
  <2>5. QED
    BY <1>1, <1>2, <2>1, <2>2, <2>3, <2>4 DEF SInv, Sound, Kept, R!Coherent
<1>5. ASSUME NEW q \in Procs, Forks(p, q) PROVE SInv'
  <2>1. InTurn(proc[p], p) /\ proc[p].at = "background"
    BY <1>5 DEF SInv, Turns, Forks
  <2>2. /\ setup.at \notin Between \cup {"remove", "add", "path", "path again"}
        /\ setup.at = "update" => setup.path # NoRelease
    BY <2>1 DEF InTurn, Removes, Adds, Reads, Fetches
  <2>3. UNCHANGED <<registered, channelFile, dir, pinned, setup, workflow>>
    BY <1>5 DEF Forks, R!home, Waits
  <2>4. InTurn(proc[q], q)'
    <3>1. /\ proc'[q].at \notin Adds
          /\ proc'[q].at \in Fetches => registered # NoUrl
      BY <1>5 DEF Forks, Fetches, Adds
    <3>2. setup.at \in {"update", "ready"} =>
             proc'[q].at = "background" /\ proc'[q].mode = "env"
      BY <1>5, <2>1, <2>2 DEF InTurn, Forks
    <3>3. QED
      BY <2>1, <2>2, <2>3, <3>1, <3>2 DEF InTurn
  <2>5. Turns'
    <3>1. /\ proc'[p].at = "idle" /\ proc'[p].op = "none" /\ proc'[q].op = "update"
          /\ \A r \in Procs \ {p, q} : proc'[r] = proc[r] /\ proc'[r].at = "idle"
      BY <1>5, <2>1 DEF SInv, Turns, Forks
    <3>2. \A r \in Procs : proc'[r].op # "update-version"
      BY <3>1 DEF SInv, Turns
    <3>3. \A a \in Procs : proc'[a].at # "idle" => a = q
      BY <3>1
    <3>4. QED
      BY <2>4, <3>2, <3>3 DEF Turns
  <2>6. Results' /\ (registered' = NoUrl => Clean')
    BY <2>2, <2>3 DEF SInv, Results, Clean
  <2>7. Found'
    BY <1>5, <2>1 DEF Found, Forks, SInv, Turns
  <2>8. QED
    BY <1>1, <1>2, <2>3, <2>5, <2>6, <2>7 DEF SInv, Sound, Kept, R!Coherent
<1>6. QED
  BY <1>1, <1>4, <1>5, StepBecomes

-----------------------------------------------------------------------------
(* The removal of the repository *)

LEMMA WipeKeeps ==
    ASSUME R!Typed, R!Exclusive, NEW p \in Procs, R!RemoveRepo(p),
           proc[p].at = "unregister" => Clean
    PROVE  /\ R!Typed' /\ R!Exclusive' /\ pinned' = pinned
           /\ proc[p].at \in Removes /\ \A q \in Procs \ {p} : proc'[q] = proc[q]
           /\ \/ registered' = registered /\ proc'[p] = proc[p] /\ proc[p].at = "wipe"
              \/ /\ registered' = registered /\ proc'[p].at = "unregister" /\ Clean'
                 /\ proc'[p].op = proc[p].op
              \/ registered' = NoUrl /\ proc'[p] = R!Ended("ok", NoRelease) /\ Clean'
<1>1. CASE R!WipeRepo(p)
  <2>1. /\ channelFile' \in [Channels -> R!Contents] /\ rooted' \in BOOLEAN
        /\ UNCHANGED <<published, registered, tmpChannel, metafile, pinned, locks, proc>>
    BY <1>1 DEF R!WipeRepo, R!Typed, R!Contents, R!FilesTyped
  <2>2. dir' \in [Releases -> {"none", "partial", "whole"}] /\ handedOut' \subseteq handedOut
    <3>1. CASE UNCHANGED <<dir, handedOut>>
      BY <3>1 DEF R!Typed, R!FilesTyped
    <3>2. CASE \E r \in Releases : \E left \in {"none", "partial"} :
                  dir' = [dir EXCEPT ![r] = left] /\ handedOut' = handedOut \ {r}
      BY <3>2 DEF R!Typed, R!FilesTyped
    <3>3. QED
      BY <1>1, <3>1, <3>2 DEF R!WipeRepo
  <2>3. R!Typed' /\ R!Exclusive'
    BY <2>1, <2>2 DEF R!Typed, R!Exclusive, R!FilesTyped
  <2>4. QED
    BY <1>1, <2>1, <2>3 DEF R!WipeRepo, R!At, Removes
<1>2. CASE R!WipeLocks(p)
  <2>1. "unregister" \in R!Steps
    BY DEF R!Steps
  <2>2. R!Moved(p) /\ R!SameCommand(p) /\ proc'[p].at = "unregister"
    BY <1>2, <2>1, R!GoesOn, RepoConstants DEF R!WipeLocks
  <2>3. R!Typed' /\ R!Exclusive'
    BY <1>2, <2>2 DEF R!WipeLocks, R!home, R!Moved, R!Typed, R!Exclusive, R!FilesTyped
  <2>4. QED
    BY <1>2, <2>2, <2>3 DEF R!WipeLocks, R!home, R!At, Removes, Clean, R!Moved, R!SameCommand
<1>3. CASE R!RemoveRepoConfiguration(p)
  <2>1. /\ R!Ends(p, "ok", NoRelease) /\ proc[p].at = "unregister" /\ registered' = NoUrl
        /\ UNCHANGED <<published, rooted, channelFile, tmpChannel, dir, metafile, pinned,
                       handedOut>>
    BY <1>3 DEF R!RemoveRepoConfiguration, R!At
  <2>2. R!Moved(p) /\ proc'[p] = R!Ended("ok", NoRelease)
    BY <2>1, R!EndsMoved, RepoConstants DEF R!Contents
  <2>3. R!LocksStep(p)
    BY <2>1, R!LocksDropped, RepoConstants DEF R!Ends
  <2>4. R!Typed' /\ R!Exclusive'
    BY <2>1, <2>2, <2>3 DEF R!Moved, R!LocksStep, R!Typed, R!FilesTyped
  <2>5. QED
    BY <2>1, <2>2, <2>4 DEF Removes, Clean, R!Moved
<1>4. QED
  BY <1>1, <1>2, <1>3 DEF R!RemoveRepo

\* The repository has gone: it is coherent again, with nothing in it.
LEMMA CleanIsSound ==
    ASSUME R!Typed', R!Exclusive', Clean',
           \A p \in Procs : (proc[p].at = "idle" /\ R!Equipped(proc[p]))'
    PROVE  Kept'
<1>1. R!HasRelease({})' /\ Found'
  BY DEF R!HasRelease, Clean, Found
<1>2. \A p \in Procs : R!Relies(proc[p], p, {})'
  BY DEF R!Relies, R!Fetching, R!Cleaning, R!Late
<1>3. QED
  BY <1>1, <1>2 DEF Kept, R!Coherent

LEMMA RemoveRepoKeeps ==
    ASSUME NoProc \notin Procs, SInv, NEW p \in Procs, R!RemoveRepo(p), Waits
    PROVE  SInv'
<1>1. proc[p].at \in Removes
  BY DEF R!RemoveRepo, R!WipeRepo, R!WipeLocks, R!RemoveRepoConfiguration, R!At, Removes
<1>2. Wiped
  <2>1. ~Kept
    BY <1>1 DEF Kept, R!Equipped, Removes, R!Coherent
  <2>2. QED
    BY <2>1 DEF SInv, Sound
<1>3. /\ R!Typed' /\ R!Exclusive' /\ pinned' = {}
      /\ \A q \in Procs \ {p} : proc'[q] = proc[q]
      /\ \/ registered' = registered /\ proc'[p] = proc[p] /\ proc[p].at = "wipe"
         \/ /\ registered' = registered /\ proc'[p].at = "unregister" /\ Clean'
            /\ proc'[p].op = proc[p].op
         \/ registered' = NoUrl /\ proc'[p] = R!Ended("ok", NoRelease) /\ Clean'
  BY <1>2, WipeKeeps DEF Wiped, SInv
<1>4. ASSUME NEW q \in Procs \ {p} PROVE proc'[q].at = "idle" /\ R!Equipped(proc[q])'
  <2>1. proc[p].at # "idle"
    BY <1>1 DEF Removes
  <2>2. proc'[q] = proc[q] /\ proc[q].at = "idle" /\ R!Equipped(proc[q])
    BY <1>2, <1>3, <2>1 DEF SInv, Turns, Wiped
  <2>3. QED
    BY <2>2 DEF R!Equipped
<1>5. InTurn(proc[p], p) /\ setup.at \in {"remove", "failed"} /\ registered # NoUrl
      /\ proc[p].op # "update-version" /\ p # NoProc
  <2>1. proc[p].at # "idle"
    BY <1>1 DEF Removes
  <2>2. QED
    BY <1>2, <2>1 DEF SInv, Turns, Wiped, InTurn
<1>6. SetupTyped' /\ Install!TypeOK' /\ UNCHANGED <<setup, workflow>>
  BY WaitsTyped DEF SInv, Waits
<1>7. CASE registered' = registered /\ proc'[p].at \in Removes /\ proc'[p].op = proc[p].op
           /\ (proc'[p].at = "unregister" => Clean')
  <2>1. Wiped'
    <3>1. proc'[p].at # "idle"
      BY <1>7 DEF Removes
    <3>2. ASSUME NEW q \in Procs
          PROVE  /\ proc'[q].at \in {"idle"} \cup Removes
                 /\ proc'[q].at = "idle" => R!Equipped(proc[q])'
                 /\ proc'[q].at = "unregister" => Clean'
      BY <1>4, <1>7, <3>1 DEF Removes
    <3>3. setup'.at \in Between \cup {"remove", "failed"}
      BY <1>5, <1>6
    <3>4. QED
      BY <1>2, <1>3, <1>6, <1>7, <3>2, <3>3 DEF Wiped
  <2>2. InTurn(proc[p], p)'
    <3>1. proc'[p].at \notin Fetches /\ proc'[p].at \notin Adds
      BY <1>7 DEF Removes, Fetches, Adds
    <3>2. QED
      BY <1>5, <1>6, <1>7, <3>1 DEF InTurn
  <2>3. Turns'
    BY <1>3, <1>4, <1>5, <1>7, <2>2 DEF SInv, Turns
  <2>4. Results'
    <3>1. setup.at = "remove" => setup.proc = p
      BY <1>5 DEF InTurn
    <3>2. setup.at = "remove" => ~Waiting'
      BY <1>6, <1>7, <3>1 DEF Waiting, Removes
    <3>3. QED
      BY <1>5, <1>6, <1>7, <3>1, <3>2 DEF SInv, Results
  <2>5. QED
    BY <1>3, <1>5, <1>6, <1>7, <2>1, <2>3, <2>4 DEF SInv, Sound
<1>8. CASE registered' = NoUrl /\ proc'[p] = R!Ended("ok", NoRelease) /\ Clean'
  <2>1. proc'[p].at = "idle" /\ R!Equipped(proc[p])' /\ proc'[p].op = "none"
    BY <1>8 DEF R!Ended, R!Equipped, R!Cleaning, R!Late
  <2>2. \A q \in Procs : (proc[q].at = "idle" /\ R!Equipped(proc[q]))'
    BY <1>4, <2>1
  <2>3. Kept'
    BY <1>3, <1>8, <2>2, CleanIsSound
  <2>4. Turns'
    BY <1>3, <2>1, <2>2 DEF SInv, Turns
  <2>5. Results'
    <3>1. setup.at = "remove" => setup.proc = p
      BY <1>5 DEF InTurn
    <3>2. QED
      BY <1>5, <1>6, <1>8, <3>1 DEF SInv, Results
  <2>6. QED
    BY <1>3, <1>6, <1>8, <2>3, <2>4, <2>5 DEF SInv, Sound
<1>9. QED
  BY <1>3, <1>7, <1>8, <1>1 DEF Removes

\* A removal that fails, or is killed, leaves the rest to the next job.
LEMMA WipeStops ==
    ASSUME NoProc \notin Procs, SInv, Wiped, NEW p \in Procs,
           R!Step(p) \/ R!AddRepo(p) \/ R!Trouble(p) \/ R!Kill(p), Waits
    PROVE  SInv'
<1>1. proc[p].at \in {"idle"} \cup Removes /\ registered # NoUrl
  BY DEF Wiped
<1>2. /\ R!Ends(p, "failed", NoRelease) /\ proc[p].at # "idle"
      /\ UNCHANGED <<published, registered, rooted, channelFile, tmpChannel, dir, metafile,
                     pinned, handedOut>>
  <2> DEFINE Stops ==
          /\ R!Ends(p, "failed", NoRelease) /\ proc[p].at # "idle"
          /\ UNCHANGED <<published, registered, rooted, channelFile, tmpChannel, dir,
                         metafile, pinned, handedOut>>
  <2>1. ASSUME R!Fails(p), proc[p].at # "idle" PROVE Stops
    BY <1>1, <2>1 DEF R!Fails, R!Dropped, R!Fetching, R!At, Removes
  <2>2. ASSUME R!Kill(p) PROVE Stops
    BY <1>1, <2>2 DEF R!Kill, R!At, Removes
  <2>3. ~R!AddRepo(p) /\ ~\E result : R!SelfUpdate(p, result)
    BY <1>1 DEF R!SelfUpdate, R!AddRepo, R!At, Removes
  <2>4. CASE R!Step(p)
    <3>1. R!Refuse(p)
      BY <1>1, <2>3, <2>4 DEF R!Step, R!UpdateChannel, R!UpdateToVersion, R!SyncChannelFile,
         R!SyncChannelRelease, R!RemoveBroken, R!PlaceRelease, R!InstallChannel, R!Reset, R!Touch,
         R!CleanReleases, R!GetActualLocalReleases, R!ListReleases, R!JudgeRelease,
         R!JudgeVersion, R!ForgetRelease, R!EraseRelease, R!CleanEnds, R!GetChannelRelease,
         R!FindReleaseBinDir, R!StartUpdateInBackground, R!At, Removes
    <3>2. QED
      BY <2>1, <3>1 DEF R!Refuse, R!Refused, R!At
  <2>5. QED
    BY <2>1, <2>2, <2>3, <2>4 DEF R!Trouble, R!Fault, R!At
<1>3. R!Moved(p) /\ proc'[p] = R!Ended("failed", NoRelease)
  BY <1>2, R!EndsMoved, RepoConstants DEF Wiped, R!Contents
<1>4. proc'[p].at = "idle" /\ proc'[p].op = "none" /\ proc'[p].result = "failed"
      /\ R!Equipped(proc[p])'
  BY <1>3 DEF R!Ended, R!Equipped, R!Cleaning, R!Late
<1>5. R!LocksStep(p)
  BY <1>2, R!LocksDropped, RepoConstants DEF R!Ends, Wiped
<1>6. ASSUME NEW q \in Procs \ {p}
      PROVE  proc'[q] = proc[q] /\ proc'[q].at = "idle" /\ R!Equipped(proc[q])'
  <2>1. proc'[q] = proc[q] /\ proc[q].at = "idle" /\ R!Equipped(proc[q])
    BY <1>2, <1>3 DEF R!Moved, SInv, Turns, Wiped
  <2>2. QED
    BY <2>1 DEF R!Equipped
<1>7. SetupTyped' /\ Install!TypeOK' /\ UNCHANGED <<setup, workflow>>
  BY WaitsTyped DEF SInv, Waits
<1>8. Wiped'
  <2>1. R!Typed' /\ R!Exclusive'
    BY <1>2, <1>3, <1>5 DEF Wiped, R!Typed, R!Moved, R!LocksStep, R!FilesTyped
  <2>2. \A q \in Procs : proc'[q].at = "idle" /\ R!Equipped(proc[q])'
    BY <1>4, <1>6
  <2>3. QED
    BY <1>2, <1>7, <2>1, <2>2 DEF Wiped
<1>9. Turns'
  BY <1>4, <1>6 DEF SInv, Turns
<1>10. Results'
  <2>1. InTurn(proc[p], p)
    BY <1>2 DEF SInv, Turns
  <2>2. setup.at \in {"remove", "failed"} /\ (setup.at = "remove" => setup.proc = p)
    BY <2>1 DEF Wiped, InTurn
  <2>3. setup.at = "remove" => ~Waiting' /\ p # NoProc
    BY <1>4, <1>7, <2>2 DEF Waiting
  <2>4. QED
    BY <1>7, <2>2, <2>3 DEF SInv, Results
<1>11. QED
  BY <1>1, <1>2, <1>7, <1>8, <1>9, <1>10 DEF SInv, Sound

LEMMA ClientKeeps ==
    ASSUME NoProc \notin Procs, SInv, NEW p \in Procs,
           ClientStep(p) \/ ClientTrouble(p) \/ KillOrphan(p)
    PROVE  SInv'
<1>1. Waits
  BY DEF ClientStep, ClientTrouble, KillOrphan, Waits
<1>2. R!Step(p) \/ R!AddRepo(p) \/ R!Trouble(p) \/ R!Kill(p) \/ R!RemoveRepo(p)
  BY SameStep, SameAddRepo, SameTrouble, SameKill, SameRemoveRepo
  DEF ClientStep, ClientTrouble, KillOrphan
<1>3. QED
  BY <1>1, <1>2, CommandKeeps, RemoveRepoKeeps, WipeStops DEF SInv, Sound

\* Releases are published, and marks expire, whatever a job does.
LEMMA OutsideApart ==
    ASSUME NoProc \notin Procs, SInv, Outside
    PROVE  SInv'
<1>1. R!Outside /\ Waits
  BY SameOutside DEF Outside, Waits
<1>2. /\ UNCHANGED <<registered, rooted, channelFile, tmpChannel, dir, pinned, locks, proc>>
      /\ handedOut' \subseteq handedOut
  BY <1>1 DEF R!Outside, R!Publish, R!Expire, R!home
<1>3. SetupTyped' /\ Install!TypeOK' /\ UNCHANGED <<setup, workflow>>
  BY <1>1, WaitsTyped DEF SInv, Waits
<1>4. Turns' /\ Results' /\ pinned' = {} /\ (registered' = NoUrl => Clean')
  BY <1>2, <1>3 DEF SInv, Turns, InTurn, Results, Waiting, Clean
<1>5. ASSUME Wiped PROVE Wiped'
  <2>1. R!Typed'
    BY <1>1, <1>5 DEF R!Outside, R!Publish, R!Expire, R!home, Wiped, R!Typed, R!FilesTyped
  <2>2. R!Exclusive'
    BY <1>2, <1>5 DEF Wiped, R!Exclusive
  <2>3. QED
    BY <1>2, <1>3, <1>5, <2>1, <2>2 DEF Wiped, R!Equipped, Clean
<1>6. Kept => Kept'
  BY <1>1, R!OutsideKeeps, RepoConstants DEF Kept, Found, R!Coherent
<1>7. QED
  BY <1>3, <1>4, <1>5, <1>6 DEF SInv, Sound

-----------------------------------------------------------------------------
(* The job goes on *)

LEMMA Continues ==
    ASSUME SetupTyped, NEW step \in Steps, Continue(step),
           UNCHANGED <<workflow, calm>>
    PROVE  /\ SetupTyped'
           /\ setup'.at = step /\ setup'.proc = NoProc /\ setup'.path = setup.path
BY DEF SetupTyped, Continue

\* The job, or its installation of trdl, does something of its own.
LEMMA ClientApart ==
    ASSUME SInv, UNCHANGED <<published, registered, rooted, channelFile, tmpChannel, dir,
                             metafile, pinned, locks, proc, handedOut, workflow>>,
           SetupTyped', Install!TypeOK', Turns', Results',
           Wiped => setup'.at \in Between \cup {"remove", "failed"}
    PROVE  SInv'
<1>1. Wiped => Wiped'
  BY DEF Wiped, R!Typed, R!Exclusive, R!Equipped, Clean, R!FilesTyped
<1>2. Kept => Kept'
  BY R!NothingCoherent, RepoConstants DEF Kept, R!Coherent, R!Typed, R!FilesTyped, Found
<1>3. pinned' = {} /\ (registered' = NoUrl => Clean')
  BY DEF SInv, Clean
<1>4. QED
  BY <1>1, <1>2, <1>3 DEF SInv, Sound

LEMMA QuietTurns ==
    ASSUME SInv, UNCHANGED proc, \A p \in Procs : proc[p].at = "idle" PROVE Turns'
BY DEF SInv, Turns

\* The installation stays in its types.
LEMMA InstallStepTyped ==
    ASSUME NoVersion \notin Versions \cup {Page}, Install!TypeOK,
           Install!Step \/ Install!Fault \/ Install!Run(NoVersion)
              \/ (install' = Install!Idle /\ UNCHANGED <<machine, cache>>)
    PROVE  Install!TypeOK'
<1> USE DEF Install!TypeOK, Install!Steps, Install!At, Install!Idle
<1>1. CASE Install!GetOptions
  BY <1>1 DEF Install!GetOptions, Install!FetchVersion
<1>2. ASSUME NEW step \in Install!Steps, Install!Goto(step), install.version # NoVersion,
             UNCHANGED <<machine, cache>>
      PROVE  Install!TypeOK'
  BY <1>2 DEF Install!Goto
<1>3. CASE Install!FindTrdlCachePath \/ Install!ConfigureTrdl \/ Install!MustGnuPG
  BY <1>2, <1>3 DEF Install!FindTrdlCachePath, Install!ConfigureTrdl, Install!MustGnuPG
<1>4. CASE Install!FormatDownloadUrls \/ Install!Verify \/ Install!MustExist
  BY <1>2, <1>4 DEF Install!FormatDownloadUrls, Install!Verify, Install!MustExist
<1>5. CASE Install!DownloadParallel
  BY <1>5 DEF Install!DownloadParallel
<1>6. CASE Install!CacheFile
  <2> DEFINE Cache == [Versions -> [folder : Install!Folder, marker : BOOLEAN]]
  <2>1. ASSUME NEW v, NEW f \in Install!Folder PROVE [cache EXCEPT ![v].folder = f] \in Cache
    BY <2>1
  <2>2. ASSUME NEW v, NEW m \in BOOLEAN PROVE [cache EXCEPT ![v].marker = m] \in Cache
    BY <2>2
  <2>3. ASSUME NEW f \in Install!Folder, NEW step \in Install!Steps,
               Install!SetFolder(f, step), install.version # NoVersion, UNCHANGED machine
        PROVE  Install!TypeOK'
    BY <2>1, <2>3 DEF Install!SetFolder, Install!Goto
  <2>4. ASSUME NEW m \in BOOLEAN, NEW step \in Install!Steps,
               Install!SetMarker(m, step), install.version # NoVersion, UNCHANGED machine
        PROVE  Install!TypeOK'
    BY <2>2, <2>4 DEF Install!SetMarker, Install!Goto
  <2>5. /\ {"none", "empty", "partial"} \subseteq Install!Folder
        /\ install.binary \in Install!Folder
        /\ install.at \in {"uncache", "unmark", "folder", "copy", "mark"} =>
              install.version # NoVersion
    BY DEF Install!Folder
  <2>6. QED
    BY <1>6, <2>3, <2>4, <2>5 DEF Install!CacheFile
<1>7. ASSUME NEW step \in {"idle", "done", "failed", "options"}, UNCHANGED <<machine, cache>>,
             install' = [at |-> step, version |-> NoVersion, binary |-> "none"]
      PROVE  Install!TypeOK'
  BY <1>7
<1>8. CASE Install!Version \/ Install!Refuse \/ Install!Fault
  BY <1>7, <1>8 DEF Install!Version, Install!Refuse, Install!Fault, Install!Fails
<1>9. CASE Install!Run(NoVersion)
  BY <1>7, <1>9 DEF Install!Run
<1>10. CASE install' = Install!Idle /\ UNCHANGED <<machine, cache>>
  BY <1>7, <1>10
<1>11. QED
  BY <1>1, <1>3, <1>4, <1>5, <1>6, <1>8, <1>9, <1>10 DEF Install!Step

\* Start, InstallStep, InstallTrouble, Installed and List: no command is at work.
LEMMA BeginningKeeps ==
    ASSUME NoProc \notin Procs, NoVersion \notin Versions \cup {Page}, SInv,
           \/ Start \/ InstallStep \/ InstallTrouble \/ Installed \/ List
    PROVE  SInv'
<1>1. \A p \in Procs : proc[p].at = "idle"
  <2>1. setup.at \in Between
    BY DEF Start, InstallStep, InstallTrouble, Installed, List, At, Between
  <2>2. QED
    BY <2>1, Quiet
<1>2. /\ UNCHANGED <<published, registered, rooted, channelFile, tmpChannel, dir, metafile,
                     pinned, locks, proc, handedOut, workflow, calm>>
      /\ setup.at \in Between /\ SetupTyped
  BY DEF Start, InstallStep, InstallTrouble, Installed, List, local, At,
         Between, SInv
<1>3. Turns'
  BY <1>1, <1>2, QuietTurns
<1>4. ASSUME UNCHANGED setup, Install!Step \/ Install!Fault PROVE SInv'
  <2>1. Install!TypeOK'
    BY <1>4, InstallStepTyped DEF SInv
  <2>2. Results' /\ SetupTyped'
    BY <1>2, <1>4 DEF SInv, Results, Waiting, SetupTyped
  <2>3. QED
    BY <1>2, <1>3, <1>4, <2>1, <2>2, ClientApart DEF Wiped
<1>5. ASSUME NEW step \in {"install", "list", "failed", "path"}, Continue(step),
             Install!TypeOK', Wiped => step # "path"
      PROVE  SInv'
  <2>1. SetupTyped' /\ setup'.at = step /\ setup'.proc = NoProc
    BY <1>2, <1>5, Continues DEF Steps
  <2>2. Results'
    BY <2>1 DEF Results, Waiting
  <2>3. QED
    BY <1>2, <1>3, <1>5, <2>1, <2>2, ClientApart DEF Between
<1>6. CASE Start
  <2>1. Install!TypeOK'
    BY <1>6, InstallStepTyped, InstallApart DEF Start, SInv
  <2>2. Continue("install") \/ Continue("failed")
    BY <1>6 DEF Start
  <2>3. QED
    BY <1>5, <2>1, <2>2
<1>7. CASE InstallStep \/ InstallTrouble
  BY <1>4, <1>7 DEF InstallStep, InstallTrouble
<1>8. CASE Installed
  <2>1. Install!TypeOK'
    BY <1>8, InstallApart DEF Installed, SInv
  <2>2. Continue("list") \/ Continue("failed")
    BY <1>8 DEF Installed
  <2>3. QED
    BY <1>5, <2>1, <2>2
<1>9. CASE List
  <2>1. Install!TypeOK'
    BY <1>9, InstallApart DEF List, SInv
  <2>2. \/ Continue("failed")
        \/ Continue("add") /\ registered = NoUrl
        \/ Continue("remove") /\ registered # NoUrl /\ workflow.force
        \/ Continue("path") /\ ~workflow.force
    <3>1. CASE ~InputsGiven
      BY <1>9, <3>1 DEF List
    <3>2. CASE InputsGiven /\ registered = NoUrl
      BY <1>9, <3>2 DEF List
    <3>3. CASE InputsGiven /\ registered # NoUrl /\ workflow.force
      BY <1>9, <3>3 DEF List
    <3>4. CASE InputsGiven /\ registered # NoUrl /\ ~workflow.force
      BY <1>9, <3>4 DEF List
    <3>5. QED
      BY <3>1, <3>2, <3>3, <3>4
  <2>3. CASE Continue("add") /\ registered = NoUrl
    <3>1. SetupTyped' /\ setup'.at = "add" /\ setup'.proc = NoProc
      BY <1>2, <2>3, Continues DEF Steps
    <3>2. Results' /\ ~Wiped
      BY <1>2, <2>3, <3>1 DEF Results, Waiting, Wiped
    <3>3. QED
      BY <1>2, <1>3, <2>1, <3>1, <3>2, ClientApart
  <2>4. CASE Continue("remove") /\ registered # NoUrl /\ workflow.force
    <3>1. SetupTyped' /\ setup'.at = "remove" /\ setup'.proc = NoProc
      BY <1>2, <2>4, Continues DEF Steps
    <3>2. Results'
      BY <1>2, <2>4, <3>1 DEF Results, Waiting
    <3>3. QED
      BY <1>2, <1>3, <2>1, <3>1, <3>2, ClientApart
  <2>5. CASE Continue("failed")
    BY <1>5, <2>1, <2>5
  <2>6. CASE Continue("path") /\ ~workflow.force
    BY <1>5, <2>1, <2>6 DEF Wiped
  <2>7. QED
    BY <2>2, <2>3, <2>4, <2>5, <2>6
<1>10. QED
  BY <1>6, <1>7, <1>8, <1>9

\* Any job fails with what it has begun still at work.
LEMMA FailingKeeps ==
    ASSUME SInv, Continue("failed"),
           UNCHANGED <<machine, cache, install, local, workflow, calm>>
    PROVE  SInv'
<1>1. SetupTyped' /\ setup'.at = "failed" /\ setup'.proc = NoProc
  BY Continues DEF SInv, Steps
<1>2. Install!TypeOK'
  BY InstallApart DEF SInv
<1>3. UNCHANGED <<published, registered, rooted, channelFile, tmpChannel, dir, metafile,
                  pinned, locks, proc, handedOut, workflow>>
  BY DEF local
<1>4. Turns'
  <2>1. ASSUME NEW p \in Procs, proc[p].at # "idle" PROVE InTurn(proc[p], p)'
    BY <1>1, <1>3, <2>1 DEF SInv, Turns, InTurn, Between
  <2>2. QED
    BY <1>3, <2>1 DEF SInv, Turns
<1>5. Results'
  BY <1>1 DEF Results
<1>6. QED
  BY <1>1, <1>2, <1>3, <1>4, <1>5, ClientApart

\* Removed, Added, PathFound and Updated: a command has ended.
LEMMA AwaitedKeeps ==
    ASSUME NoProc \notin Procs, SInv, Removed \/ Added \/ PathFound \/ Updated
    PROVE  SInv'
<1>1. /\ UNCHANGED <<machine, cache, install, local, workflow, calm>>
      /\ setup.proc # NoProc /\ proc[setup.proc].at = "idle"
      /\ Succeeded <=> Waiting
  BY DEF Removed, Added, PathFound, Updated, Awaited, Succeeded, Waiting
<1>2. UNCHANGED <<published, registered, rooted, channelFile, tmpChannel, dir, metafile,
                  pinned, locks, proc, handedOut, workflow>>
  BY <1>1 DEF local
<1>3. Install!TypeOK' /\ SetupTyped
  BY <1>1, InstallApart DEF SInv
<1>4. CASE Continue("failed")
  BY <1>1, <1>4, FailingKeeps
<1>5. ASSUME NEW step \in Steps, Continue(step),
             setup.at \in {"remove", "add"} \/ (setup.at = "update" /\ setup.path = NoRelease),
             step \in {"add", "path", "path again"}, step = "add" => registered = NoUrl,
             Wiped => registered = NoUrl
      PROVE  SInv'
  <2>1. SetupTyped' /\ setup'.at = step /\ setup'.proc = NoProc
    BY <1>1, <1>3, <1>5, Continues
  <2>2. Turns'
    BY <1>1, <1>2, <1>5, QuietAfter, QuietTurns
  <2>3. Results' /\ ~Wiped
    BY <1>2, <1>5, <2>1 DEF Results, Waiting, Wiped
  <2>4. QED
    BY <1>2, <1>3, <2>1, <2>2, <2>3, ClientApart
<1>6. CASE Removed
  <2>1. setup.at = "remove" /\ (Continue("failed") \/ (Waiting /\ Continue("add")))
    BY <1>1, <1>6 DEF Removed, Awaited, At
  <2>2. Waiting => registered = NoUrl
    BY <2>1 DEF SInv, Results
  <2>3. QED
    BY <1>4, <1>5, <2>1, <2>2 DEF Steps
<1>7. CASE Added
  <2>1. setup.at = "add" /\ (Continue("failed") \/ Continue("path"))
    BY <1>7 DEF Added, Awaited, At
  <2>2. ~Wiped
    BY <2>1 DEF Wiped, Between
  <2>3. QED
    BY <1>4, <1>5, <2>1, <2>2 DEF Steps
<1>8. CASE PathFound
  <2>1. setup.at \in {"path", "path again"}
    BY <1>8 DEF PathFound, Awaited, At
  <2> DEFINE r == IF Waiting THEN proc[setup.proc].release ELSE NoRelease
  <2>2. r \in Releases \cup {NoRelease} /\ (r # NoRelease => dir[r] = "whole")
    BY <2>1 DEF SInv, Results
  <2>3. setup' = [at |-> IF setup.at = "path" THEN "update" ELSE "ready", proc |-> NoProc,
                  path |-> r]
    BY <1>1, <1>8 DEF PathFound, At
  <2> HIDE DEF r
  <2>4. SetupTyped' /\ setup'.at \in {"update", "ready"} /\ setup'.path = r
    BY <1>1, <1>3, <2>2, <2>3 DEF SetupTyped, Steps
  <2>5. Turns'
    BY <1>1, <1>2, <2>1, QuietAfter, QuietTurns
  <2>6. Results' /\ ~Wiped
    BY <1>2, <2>1, <2>2, <2>4 DEF Results, Wiped, Between
  <2>7. QED
    BY <1>2, <1>3, <2>4, <2>5, <2>6, ClientApart
<1>9. CASE Updated
  <2>1. /\ setup.at = "update"
        /\ \/ Continue("failed")
           \/ setup.path = NoRelease /\ Continue("path again")
           \/ setup.path # NoRelease /\ Continue("ready")
    <3>1. CASE ~Succeeded
      BY <1>9, <3>1 DEF Updated, Awaited, At
    <3>2. CASE Succeeded /\ setup.path = NoRelease
      BY <1>9, <3>2 DEF Updated, Awaited, At
    <3>3. CASE Succeeded /\ setup.path # NoRelease
      BY <1>9, <3>3 DEF Updated, Awaited, At
    <3>4. QED
      BY <3>1, <3>2, <3>3
  <2>2. ~Wiped
    BY <2>1 DEF Wiped, Between
  <2>3. CASE setup.path = NoRelease /\ Continue("path again")
    BY <1>5, <2>1, <2>2, <2>3 DEF Steps
  <2>4. CASE setup.path # NoRelease /\ Continue("ready")
    <3>1. SetupTyped' /\ setup'.at = "ready" /\ setup'.path = setup.path
      BY <1>1, <1>3, <2>4, Continues DEF Steps
    <3>2. ASSUME NEW p \in Procs, proc[p].at # "idle" PROVE InTurn(proc[p], p)'
      <4>1. InTurn(proc[p], p)
        BY <3>2 DEF SInv, Turns
      <4>2. QED
        BY <1>2, <2>1, <2>4, <3>1, <4>1 DEF InTurn, Between
    <3>3. Turns'
      BY <1>2, <3>2 DEF SInv, Turns
    <3>4. Results'
      BY <1>2, <2>1, <2>4, <3>1 DEF SInv, Results
    <3>5. QED
      BY <1>2, <1>3, <2>2, <3>1, <3>3, <3>4, ClientApart
  <2>5. QED
    BY <1>4, <2>1, <2>3, <2>4
<1>10. QED
  BY <1>6, <1>7, <1>8, <1>9

LEMMA CancelKeeps ==
    ASSUME SInv, Cancel \/ CalmsDown \/ UNCHANGED vars PROVE SInv'
<1>1. CASE Cancel
  BY <1>1, FailingKeeps DEF Cancel
<1>2. CASE CalmsDown \/ UNCHANGED vars
  <2>1. /\ UNCHANGED <<machine, cache, install, published, registered, rooted, channelFile,
                       tmpChannel, dir, metafile, pinned, locks, proc, handedOut, workflow,
                       setup>>
        /\ calm' \in BOOLEAN
    BY <1>2 DEF CalmsDown, vars, local, SInv, SetupTyped
  <2>2. SetupTyped' /\ Install!TypeOK'
    BY <2>1, InstallApart DEF SInv, SetupTyped
  <2>3. Turns' /\ Results'
    BY <2>1 DEF SInv, Turns, InTurn, Results, Waiting
  <2>4. QED
    BY <2>1, <2>2, <2>3, ClientApart DEF Wiped
<1>3. QED
  BY <1>1, <1>2

-----------------------------------------------------------------------------
(* The job starts commands, and is over *)

\* exec: the job waits for the command it starts.
Waited(p) ==
    /\ setup' = [setup EXCEPT !.proc = p]
    /\ UNCHANGED <<machine, cache, install, workflow, calm>>

LEMMA ExecKeeps ==
    ASSUME NoProc \notin Procs, SInv, NEW p \in Procs, \A q \in Procs : proc[q].at = "idle",
           setup.proc = NoProc, Waited(p), NEW n, Starts(p, n), n.at # "idle",
           n.op # "update-version", InTurn(proc[p], p)', Wiped' \/ Kept'
    PROVE  SInv'
<1>1. /\ setup'.at = setup.at /\ setup'.proc = p /\ setup'.path = setup.path
      /\ SetupTyped' /\ workflow' = workflow /\ p # NoProc
  BY DEF Waited, SInv, SetupTyped
<1>2. Install!TypeOK'
  BY InstallApart DEF SInv, Waited
<1>3. /\ UNCHANGED <<registered, channelFile, dir, pinned>>
      /\ proc'[p] = n /\ \A q \in Procs \ {p} : proc'[q] = proc[q]
  <2>1. proc \in [Procs -> R!Process]
    BY DEF SInv, Sound, Wiped, Kept, R!Typed, R!Coherent, R!FilesTyped
  <2>2. QED
    BY <2>1 DEF Starts, R!home
<1>4. Turns'
  BY <1>3 DEF SInv, Turns
<1>5. Results'
  BY <1>1, <1>3 DEF SInv, Results, Waiting
<1>6. pinned' = {} /\ (registered' = NoUrl => Clean')
  BY <1>3 DEF SInv, Clean
<1>7. QED
  BY <1>1, <1>2, <1>4, <1>5, <1>6 DEF SInv, Sound

LEMMA CommandStarts ==
    ASSUME Kept, \A q \in Procs : proc[q].at = "idle", NEW p \in Procs,
           NEW op, NEW channel, NEW url, NEW autoclean, NEW mode,
           R!Given(op, channel, NoRelease, url, autoclean, mode),
           Starts(p, R!Command(op, channel, NoRelease, url, autoclean, mode))
    PROVE  Kept'
<1> DEFINE n == R!Command(op, channel, NoRelease, url, autoclean, mode)
<1>1. R!Start(p, n)
  BY DEF R!Start, Starts, R!At
<1>2. R!Base({})
  BY NoRace DEF Kept, R!Coherent
<1>3. R!Coherent({})' /\ R!Goes(p, R!FirstSteps)
  BY <1>1, <1>2, R!StartKeeps, RepoConstants
<1>4. Found'
  BY <1>3 DEF R!Goes, R!Moved, R!FirstSteps, Found
<1>5. QED
  BY <1>3, <1>4 DEF Kept, R!Coherent

LEMMA RemoveKeeps ==
    ASSUME NoProc \notin Procs, SInv, NEW p \in Procs, Remove(p) PROVE SInv'
<1> DEFINE n == R!Command("remove", NoChannel, NoRelease, NoUrl, FALSE, "no")
<1>1. /\ setup.at = "remove" /\ setup.proc = NoProc /\ Waited(p) /\ Starts(p, n)
  BY SameStarts DEF Remove, Exec, At, Waited
<1>2. \A q \in Procs : proc[q].at = "idle"
  BY <1>1, Quiet
<1>3. n.at = "wipe" /\ n.op = "remove" /\ n \in R!Process
  BY DEF R!Command, R!FirstStep, R!Process, R!Ops, R!Steps, R!Contents
<1> HIDE DEF n
<1>4. registered # NoUrl /\ workflow.force
  BY <1>1 DEF SInv, Results
<1>5. /\ setup'.at = "remove" /\ setup'.proc = p /\ workflow' = workflow
      /\ UNCHANGED <<published, registered, rooted, channelFile, tmpChannel, dir, metafile,
                     pinned, locks, handedOut>>
  BY <1>1 DEF Waited, Starts, R!home, SInv, SetupTyped
<1>6. /\ R!Typed /\ R!Exclusive
      /\ \A q \in Procs : R!Equipped(proc[q])
  BY <1>2 DEF SInv, Sound, Wiped, Kept, R!Coherent
<1>7. R!Moved(p) /\ proc'[p] = n
  BY <1>1, <1>3, <1>6, R!Replaced, RepoConstants DEF Starts
<1>8. Wiped'
  <2>1. R!Typed' /\ R!Exclusive'
    BY <1>5, <1>6, <1>7 DEF R!Moved, R!Typed, R!Exclusive, R!FilesTyped
  <2>2. ASSUME NEW q \in Procs
        PROVE  /\ proc'[q].at \in {"idle"} \cup Removes
               /\ proc'[q].at = "idle" => R!Equipped(proc[q])'
               /\ proc'[q].at = "unregister" => Clean'
    <3>1. CASE q = p
      BY <1>3, <1>7, <3>1 DEF Removes
    <3>2. CASE q # p
      <4>1. proc'[q] = proc[q] /\ proc[q].at = "idle" /\ R!Equipped(proc[q])
        BY <1>2, <1>6, <1>7, <3>2 DEF R!Moved
      <4>2. QED
        BY <4>1 DEF R!Equipped
    <3>3. QED
      BY <3>1, <3>2
  <2>3. QED
    BY <1>4, <1>5, <2>1, <2>2 DEF Wiped
<1>9. InTurn(proc[p], p)'
  BY <1>3, <1>5, <1>7 DEF InTurn, Removes, Fetches, Adds, Between
<1>10. QED
  BY <1>1, <1>2, <1>3, <1>8, <1>9, ExecKeeps

LEMMA ExecAddKeeps ==
    ASSUME SetupConstants, SInv, NEW p \in Procs, Add(p) PROVE SInv'
<1> DEFINE url == GetAddArgs
           n == R!Command("add", NoChannel, NoRelease, url, FALSE, "no")
<1>1. /\ setup.at = "add" /\ setup.proc = NoProc /\ Waited(p) /\ Starts(p, n)
      /\ NoProc \notin Procs
  BY SameStarts DEF Add, Exec, At, Waited, SetupConstants
<1>2. \A q \in Procs : proc[q].at = "idle"
  BY <1>1, Quiet
<1>3. url \in Urls \cup {NoUrl}
  BY DEF GetAddArgs, SetupConstants, SInv, SetupTyped
<1>4. n.at = "setup" /\ n.op = "add"
  BY DEF R!Command, R!FirstStep
<1>5. registered = NoUrl /\ Kept
  BY <1>1 DEF SInv, Results, Sound, Wiped
<1>6. Kept'
  <2>1. R!Given("add", NoChannel, NoRelease, url, FALSE, "no")
    BY <1>3 DEF R!Given, R!Ops, R!Contents
  <2>2. QED
    BY <1>1, <1>2, <1>5, <2>1, CommandStarts
<1> HIDE DEF n
<1>7. /\ setup'.at = "add" /\ setup'.proc = p /\ registered' = registered /\ proc'[p] = n
  BY <1>1, <1>5
  DEF Waited, Starts, R!home, SInv, SetupTyped, Kept, R!Typed, R!Coherent, R!FilesTyped
<1>8. InTurn(proc[p], p)'
  BY <1>4, <1>5, <1>7 DEF InTurn, Fetches, Adds, Between
<1>9. QED
  BY <1>1, <1>2, <1>4, <1>6, <1>8, ExecKeeps

LEMMA BuildArgsTyped == ASSUME SetupConstants, SetupTyped PROVE BuildArgs \in Channels
<1>1. workflow.channel \in Channels \cup {NoChannel} /\ NoChannel \notin Channels
      /\ DefaultChannel \in Channels
  BY DEF SetupConstants, SetupTyped
<1>2. CASE workflow.channel # NoChannel
  BY <1>1, <1>2 DEF BuildArgs
<1>3. CASE workflow.channel = NoChannel /\ GetUpdateArgs # NoChannel
  BY <1>1, <1>3 DEF BuildArgs, GetUpdateArgs
<1>4. CASE workflow.channel = NoChannel /\ GetUpdateArgs = NoChannel
  BY <1>1, <1>4 DEF BuildArgs
<1>5. QED
  BY <1>2, <1>3, <1>4

LEMMA BinPathKeeps ==
    ASSUME SetupConstants, SInv, NEW p \in Procs, BinPath(p) PROVE SInv'
<1> DEFINE c == BuildArgs
           n == R!Command("bin-path", c, NoRelease, NoUrl, FALSE, "no")
<1>1. /\ setup.at \in {"path", "path again"} /\ setup.proc = NoProc /\ Waited(p)
      /\ Starts(p, n) /\ NoProc \notin Procs
  BY SameStarts DEF BinPath, Exec, At, Waited, SetupConstants
<1>2. \A q \in Procs : proc[q].at = "idle"
  BY <1>1, Quiet
<1>3. c \in Channels
  BY BuildArgsTyped DEF SInv
<1>4. n.at \in {"refused", "read"} /\ n.op = "bin-path"
      /\ (n.at = "read" => registered # NoUrl)
  BY DEF R!Command, R!FirstStep, R!RepoStep
<1>5. Kept
  BY <1>1 DEF SInv, Sound, Wiped, Between
<1>6. Kept'
  <2>1. R!Given("bin-path", c, NoRelease, NoUrl, FALSE, "no")
    BY <1>3 DEF R!Given, R!Ops, R!Contents
  <2>2. QED
    BY <1>1, <1>2, <1>5, <2>1, CommandStarts
<1> HIDE DEF n
<1>7. /\ setup'.at = setup.at /\ setup'.proc = p /\ registered' = registered
      /\ proc'[p] = n
  BY <1>1, <1>5
  DEF Waited, Starts, R!home, SInv, SetupTyped, Kept, R!Typed, R!Coherent, R!FilesTyped
<1>8. InTurn(proc[p], p)'
  <2>1. n.at \notin Adds /\ n.at \in Reads /\ (n.at \in Fetches => n.at = "read")
    BY <1>4 DEF Adds, Reads, Fetches
  <2>2. QED
    BY <1>1, <1>4, <1>7, <2>1 DEF InTurn, Between
<1>9. QED
  BY <1>1, <1>2, <1>4, <1>6, <1>8, ExecKeeps

LEMMA UpdateKeeps ==
    ASSUME SetupConstants, SInv, NEW p \in Procs, Update(p) PROVE SInv'
<1> DEFINE c == BuildArgs
           mode == ToUpdateEnvs
           n == R!Command("update", c, NoRelease, NoUrl, TRUE, mode)
<1>1. /\ setup.at = "update" /\ setup.proc = NoProc /\ Waited(p) /\ Starts(p, n)
      /\ NoProc \notin Procs
  BY SameStarts DEF Update, Exec, At, Waited, SetupConstants
<1>2. \A q \in Procs : proc[q].at = "idle"
  BY <1>1, Quiet
<1>3. c \in Channels /\ mode = (IF setup.path # NoRelease THEN "env" ELSE "no")
  BY BuildArgsTyped DEF SInv, ToUpdateEnvs
<1> HIDE DEF c, mode
<1>4. /\ n.op = "update" /\ n.mode = mode
      /\ setup.path = NoRelease => n.at \in {"refused", "self-update"}
      /\ n.at = "self-update" => registered # NoUrl
      /\ setup.path # NoRelease => n.at = "background"
  BY <1>3 DEF R!Command, R!FirstStep, R!RepoStep
<1>5. Kept
  BY <1>1 DEF SInv, Sound, Wiped, Between
<1>6. Kept'
  <2>1. R!Given("update", c, NoRelease, NoUrl, TRUE, mode)
    BY <1>3 DEF R!Given, R!Ops, R!Contents
  <2>2. QED
    BY <1>1, <1>2, <1>5, <2>1, CommandStarts
<1> HIDE DEF n
<1>7. /\ setup'.at = "update" /\ setup'.proc = p /\ setup'.path = setup.path
      /\ registered' = registered /\ proc'[p] = n
  BY <1>1, <1>5
  DEF Waited, Starts, R!home, SInv, SetupTyped, Kept, R!Typed, R!Coherent, R!FilesTyped
<1>8. InTurn(proc[p], p)'
  <2>1. n.at \notin Adds /\ (n.at \in Fetches => n.at = "self-update")
        /\ "self-update" \in Fetches
    BY <1>4 DEF Adds, Fetches
  <2>2. QED
    BY <1>1, <1>3, <1>4, <1>7, <2>1 DEF InTurn, Between
<1>9. n.at # "idle"
  BY <1>4
<1>10. QED
  BY <1>1, <1>2, <1>4, <1>6, <1>8, <1>9, ExecKeeps

LEMMA JobEndsKeeps == ASSUME NoVersion \notin Versions \cup {Page}, SInv, JobEnds PROVE SInv'
<1>1. /\ \A p \in Procs : proc[p].at = "idle"
      /\ setup.at \in {"ready", "failed"} /\ setup' = Idle
      /\ proc' = [p \in Procs |-> R!Idle]
      /\ install' = Install!Idle
      /\ UNCHANGED <<machine, cache, published, registered, rooted, channelFile, tmpChannel,
                     dir, metafile, pinned, locks, handedOut, workflow, calm>>
  BY SameStates DEF JobEnds, At
<1>2. Install!TypeOK'
  BY <1>1, InstallStepTyped DEF SInv
<1>3. SetupTyped' /\ setup'.at = "idle"
  BY <1>1 DEF SInv, SetupTyped, Idle, Steps
<1>4. R!Idle \in R!Process /\ R!Idle.at = "idle" /\ R!Idle.op = "none"
  BY DEF R!Idle, R!Ended, R!Process, R!Ops, R!Steps, R!Contents
<1>5. \A p \in Procs : proc'[p] = R!Idle
  BY <1>1
<1>6. /\ \A p \in Procs : proc'[p].at = "idle" /\ R!Equipped(proc[p])'
      /\ \A p \in Procs : R!Relies(proc[p], p, {})'
  BY <1>4, <1>5, R!EndedKnows, RepoConstants
  DEF R!Idle, R!Equipped, R!Relies, R!Fetching, R!Cleaning, R!Late
<1>7. Turns' /\ Results'
  BY <1>3, <1>4, <1>5 DEF Turns, Results
<1>8. R!Typed /\ R!Exclusive => R!Typed' /\ R!Exclusive'
  BY <1>1, <1>4 DEF R!Typed, R!FilesTyped, R!Exclusive
<1>9. Wiped => Wiped'
  BY <1>1, <1>3, <1>6, <1>8 DEF Wiped, Between
<1>10. Kept => Kept'
  BY <1>1, <1>6, <1>8 DEF Kept, R!Coherent, R!HasRelease, Found
<1>11. pinned' = {} /\ (registered' = NoUrl => Clean')
  BY <1>1 DEF SInv, Clean
<1>12. QED
  BY <1>2, <1>3, <1>7, <1>9, <1>10, <1>11 DEF SInv, Sound

-----------------------------------------------------------------------------
(* The theorems *)

LEMMA InitSInv == ASSUME SetupConstants, Init PROVE SInv
<1>1. PICK url \in Urls \cup {NoUrl} : R!InitWith(url)
  BY SameStates DEF Init
<1>2. R!Coherent({})
  BY <1>1, RepoConstants, R!RepoAssumption, R!InitCoherent
<1>3. R!Idle.at = "idle" /\ R!Idle.op = "none" /\ \A p \in Procs : proc[p] = R!Idle
  BY <1>1 DEF R!Idle, R!Ended, R!InitWith
<1>4. setup.at = "idle" /\ SetupTyped
  BY DEF Init, Idle, Steps, SetupTyped
<1>5. Install!TypeOK
  BY DEF Init, Install!Init, Install!TypeOK, Install!Idle, Install!Steps,
         Install!Folder
<1>6. Turns /\ Results /\ pinned = {} /\ Clean
  BY <1>1, <1>3, <1>4 DEF Turns, Results, Clean, R!InitWith
<1>7. QED
  BY <1>2, <1>3, <1>4, <1>5, <1>6 DEF SInv, Sound, Kept, Found, R!Coherent

LEMMA NextSInv == ASSUME SetupConstants, SInv, [Next]_vars PROVE SInv'
<1>1. NoProc \notin Procs /\ NoVersion \notin Versions \cup {Page}
  BY DEF SetupConstants
<1>2. CASE Job
  BY <1>1, <1>2, BeginningKeeps, AwaitedKeeps, RemoveKeeps, ExecAddKeeps, BinPathKeeps,
     UpdateKeeps, ClientKeeps, JobEndsKeeps DEF Job
<1>3. CASE Trouble
  BY <1>1, <1>3, BeginningKeeps, CancelKeeps, ClientKeeps DEF Trouble
<1>4. CASE \E p \in Procs : ClientStep(p)
  BY <1>1, <1>4, ClientKeeps
<1>5. CASE CalmsDown \/ UNCHANGED vars
  BY <1>5, CancelKeeps
<1>6. CASE Outside
  BY <1>1, <1>6, OutsideApart
<1>7. QED
  BY <1>2, <1>3, <1>4, <1>5, <1>6 DEF Next

LEMMA SpecSInv == Spec => []SInv
<1>1. Init => SInv
  BY InitSInv, SetupAssumption
<1>2. SInv /\ [Next]_vars => SInv'
  BY NextSInv, SetupAssumption
<1>3. QED
  BY <1>1, <1>2, PTL DEF Spec

\* The job, the tool cache, the local repository and its processes keep their
\* types, also while `trdl remove' takes the repository apart: what setup-app hands
\* on as the path of a release is that of one of the releases.
THEOREM SetupAppTypeOK == Spec => []TypeOK
<1>1. SInv => TypeOK
  BY SameStates DEF SInv, SetupTyped, Sound, Wiped, Kept, TypeOK, R!Coherent
<1>2. QED
  BY <1>1, SpecSInv, PTL

\* The release whose path the later steps of a job use is there and whole, for any
\* number of processes, releases, channels and workflows, whatever earlier jobs have
\* left behind and wherever they were stopped, a removal of the repository too
\* (setup-app/src/add.ts and use.ts, Do).  The update that cleans up, and is in the
\* background by then, takes nothing away: it never comes to work.
THEOREM ReadyReleaseStays == Spec => []ReadyHasRelease
<1>1. SInv => ReadyHasRelease
  BY DEF SInv, Results, ReadyHasRelease, At
<1>2. QED
  BY <1>1, SpecSInv, PTL
=============================================================================
