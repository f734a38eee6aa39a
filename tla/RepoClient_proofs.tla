-------------------------- MODULE RepoClient_proofs --------------------------
(***************************************************************************)
(* An installed channel has its release, and a release that is pinned or   *)
(* has been handed out is kept: a proof for any number of processes,       *)
(* channels and releases, with cleanups beside other commands and kills at *)
(* any step.                                                               *)
(*                                                                         *)
(* Coherent(R) is what holds of files, locks and processes whatever is     *)
(* remembered, but for the releases in a set R that must contain those     *)
(* that race with a cleanup.  MarksHold is what holds of the marks.        *)
(***************************************************************************)
EXTENDS RepoClient, TLAPS

Late     == {"versions", "forget", "erase", "erased"}
Cleaning == {"actual", "judge"} \cup Late

\* A command has the arguments it needs at the step it is at.
Equipped(n) ==
    /\ n.op # "remove" /\ n.at \notin {"wipe", "unregister"}
    /\ n.op \in {"update", "bin-path"} => n.channel \in Channels
    /\ n.op = "update-version" => n.release \in Releases
    /\ n.at = "read" => n.op = "bin-path"
    /\ n.at = "background" => n.op = "update"
    /\ n.at \in {"reset", "touch"} => n.op \in {"update-version", "bin-path"}
    /\ n.at \in {"fetch", "install"} => n.op = "update" /\ ~n.upToDate
    /\ n.at \in {"sync", "unpack", "place"} => n.op \in {"update", "update-version"}
    /\ n.at \in Cleaning => n.autoclean
    /\ n.at \notin Cleaning => n.todo = {}
    /\ n.at \in Cleaning \ {"actual"} => n.unread = {}
    /\ n.at \in {"unpack", "place", "install", "reset", "touch", "find"} \cup Late =>
          n.release \in Releases

\* What a process relies on: its locks, what they protect, and, when it cleans up,
\* the channels it has read.
Relies(n, p, R) ==
    /\ Fetching(n) => <<UpdateLock(n.channel), p>> \in locks
    /\ Fetching(n) /\ n.at # "fetch" => tmpChannel[n.channel] = n.release
    /\ n.at \in {"unpack", "place"} =>
          <<ReleaseLock(n.release), p>> \in locks /\ dir[n.release] # "whole"
    /\ n.at \in {"install", "reset", "touch"} =>
          dir[n.release] = "whole" \/ n.release \in R
    /\ n.at \in Cleaning =>
          \A c \in Channels : channelFile[c] \in n.todo => c \in n.unread \/ channelFile[c] \in R
    /\ n.at \in Late => \A c \in Channels : channelFile[c] = n.release => n.release \in R

Exclusive ==
    \A p, q \in Procs : \A l \in Lock :
        l[1] # "channel" /\ <<l, p>> \in locks /\ <<l, q>> \in locks => p = q

FilesTyped ==
    /\ published \in [Channels -> Releases]
    /\ registered \in Urls \cup {NoUrl} /\ rooted \in BOOLEAN
    /\ channelFile \in [Channels -> Contents]
    /\ tmpChannel \in [Channels -> Contents]
    /\ dir \in [Releases -> {"none", "partial", "whole"}]
    /\ metafile \in [Releases -> {"none", "recent"}]
    /\ pinned \subseteq Releases /\ handedOut \subseteq Releases

\* TypeOK, but for what is only remembered.
Typed ==
    /\ FilesTyped
    /\ locks \subseteq Lock \X Procs
    /\ proc \in [Procs -> Process]

\* An installed channel has its release.
HasRelease(R) ==
    \A c \in Channels :
        channelFile[c] # NoRelease =>
            channelFile[c] \in {r \in Releases : dir[r] = "whole" \/ r \in R}

Coherent(R) ==
    /\ Typed /\ Exclusive /\ HasRelease(R)
    /\ \A p \in Procs : Equipped(proc[p]) /\ Relies(proc[p], p, R)

\* Before a step: R has what races.
Base(R) == Coherent(R) /\ Racing \subseteq R

-----------------------------------------------------------------------------
(* Processes *)

Moved(p) ==
    /\ proc' \in [Procs -> Process]
    /\ \A q \in Procs \ {p} : proc'[q] = proc[q]

\* The same command goes on.
SameCommand(p) ==
    /\ proc'[p].op = proc[p].op /\ proc'[p].channel = proc[p].channel
    /\ proc'[p].upToDate = proc[p].upToDate /\ proc'[p].autoclean = proc[p].autoclean
    /\ proc'[p].todo = proc[p].todo /\ proc'[p].unread = proc[p].unread

LEMMA GoesOn ==
    ASSUME Typed, NEW p \in Procs, NEW step \in Steps, Goto(p, step)
    PROVE  /\ Moved(p) /\ SameCommand(p) /\ proc'[p].at = step
           /\ proc'[p].release = proc[p].release
<1>1. proc[p] \in Process
  BY DEF Typed
<1> DEFINE n == [proc[p] EXCEPT !.at = step]
<1>2. n \in Process
  BY <1>1 DEF Process
<1>3. /\ n.at = step /\ n.op = proc[p].op /\ n.channel = proc[p].channel
      /\ n.upToDate = proc[p].upToDate /\ n.autoclean = proc[p].autoclean
      /\ n.release = proc[p].release /\ n.todo = proc[p].todo /\ n.unread = proc[p].unread
  BY <1>1 DEF Process
<1>4. proc' = [proc EXCEPT ![p] = n]
  BY DEF Goto
<1> HIDE DEF n
<1>5. proc'[p] = n /\ Moved(p)
  BY <1>2, <1>4 DEF Typed, Moved
<1>6. QED
  BY <1>3, <1>5 DEF SameCommand

LEMMA EndsMoved ==
    ASSUME Typed, NEW p \in Procs, NEW result \in {"none", "ok", "warned", "failed"},
           NEW release \in Contents, Ends(p, result, release)
    PROVE  Moved(p) /\ proc'[p] = Ended(result, release) /\ proc'[p].at = "idle"
<1>1. Ended(result, release) \in Process /\ Ended(result, release).at = "idle"
  BY DEF Ended, Process, Ops, Steps
<1>2. QED
  BY <1>1 DEF Ends, Typed, Moved

LEMMA EndedKnows ==
    ASSUME NEW p, NEW result, NEW release, NEW R
    PROVE  Equipped(Ended(result, release)) /\ Relies(Ended(result, release), p, R)
BY DEF Ended, Equipped, Relies, Fetching, Cleaning, Late

-----------------------------------------------------------------------------
(* Locks *)

LocksStep(p) ==
    /\ locks' \subseteq Lock \X Procs
    /\ \A q \in Procs \ {p} : \A l : <<l, q>> \in locks' <=> <<l, q>> \in locks
    /\ Exclusive'

LEMMA LocksUnchanged ==
    ASSUME Typed, Exclusive, NEW p \in Procs, UNCHANGED locks PROVE LocksStep(p)
BY DEF LocksStep, Typed, Exclusive

LEMMA LocksDropped ==
    ASSUME Typed, Exclusive, NEW p \in Procs, locks' = NoLocksOf(p) PROVE LocksStep(p)
BY DEF LocksStep, Typed, Exclusive, NoLocksOf

LEMMA LockReleased ==
    ASSUME Typed, Exclusive, NEW p \in Procs, NEW lock, locks' = Release(lock, p)
    PROVE  LocksStep(p)
BY DEF LocksStep, Typed, Exclusive, Release

LEMMA LockTaken ==
    ASSUME Typed, Exclusive, NEW p \in Procs, NEW lock \in Lock,
           lock[1] = "channel" \/ Free(lock), locks' = locks \cup {<<lock, p>>}
    PROVE  LocksStep(p)
BY DEF LocksStep, Typed, Exclusive, Free

LEMMA LocksTyped ==
    /\ \A c \in Channels : ChannelLock(c) \in Lock /\ UpdateLock(c) \in Lock
    /\ \A r \in Contents : ReleaseLock(r) \in Lock
    /\ \A p \in Procs : proc[p].release \in Contents => ResetLock(p) \in Lock
    /\ \A c : UpdateLock(c)[1] # "channel" /\ ChannelLock(c)[1] = "channel"
    /\ \A r : ReleaseLock(r)[1] # "channel"
BY DEF Lock, ChannelLock, UpdateLock, ReleaseLock, ResetLock, MetafileLock, VersionLock

-----------------------------------------------------------------------------
(* A step of one process *)

\* It changes nothing another process relies on, unless it installs a channel or
\* deletes a release.
FilesStep(p) ==
    /\ FilesTyped'
    /\ \A c \in Channels : tmpChannel'[c] = tmpChannel[c] \/ <<UpdateLock(c), p>> \in locks
    /\ \A c \in Channels :
          \/ channelFile'[c] = channelFile[c]
          \/ /\ proc[p].at = "install" /\ proc[p].channel = c
             /\ channelFile'[c] = proc[p].release
    /\ \A s \in Releases :
          dir[s] = "whole" =>
              \/ dir'[s] = "whole"
              \/ proc[p].at \in {"erase", "erased"} /\ proc[p].release = s
    /\ \A s \in Releases :
           dir[s] # "whole" => dir'[s] # "whole" \/ <<ReleaseLock(s), p>> \in locks

\* Where it takes the process.
Goes(p, S) == Moved(p) /\ FilesStep(p) /\ proc'[p].at \in S

LEMMA FilesUnchanged ==
    ASSUME Typed, NEW p \in Procs, FilesTyped', UNCHANGED <<tmpChannel, channelFile, dir>>
    PROVE  FilesStep(p)
BY DEF FilesStep

\* A release that is deleted beside a process about to mark it, or put on a channel
\* beside a process about to delete it, is one that races.
LEMMA DeletedRaces ==
    ASSUME NEW p \in Procs, NEW q \in Procs, proc[p].release \in Releases,
           proc[p].at \in {"erase", "erased"},
           proc[q].at \in {"install", "reset", "touch"}, proc[q].release = proc[p].release
    PROVE  proc[p].release \in Racing
BY DEF Racing, AboutToMark, AboutToDelete

LEMMA InstalledRaces ==
    ASSUME NEW p \in Procs, NEW q \in Procs, proc[p].release \in Releases,
           proc[p].at = "install", proc[p].op = "update",
           \/ proc[p].release \in proc[q].todo /\ proc[p].channel \notin proc[q].unread
           \/ proc[p].release = proc[q].release /\ proc[q].at \in Late
    PROVE  proc[p].release \in Racing
BY DEF Racing, AboutToMark, AboutToDelete, At, Late

LEMMA OthersRely ==
    ASSUME NEW R, Base(R), NEW p \in Procs, Moved(p), LocksStep(p), FilesStep(p),
           NEW q \in Procs \ {p}
    PROVE  Equipped(proc[q])' /\ Relies(proc[q], q, R)'
<1>1. /\ proc'[q] = proc[q] /\ Equipped(proc[q]) /\ Relies(proc[q], q, R)
      /\ proc[q] \in Process /\ Equipped(proc[p]) /\ Racing \subseteq R
  BY DEF Moved, Base, Coherent, Typed
<1>2. Equipped(proc[q])'
  BY <1>1 DEF Equipped
<1> DEFINE n == proc[q]
<1>3. ASSUME Fetching(n)
      PROVE  /\ <<UpdateLock(n.channel), q>> \in locks'
             /\ tmpChannel'[n.channel] = tmpChannel[n.channel]
  <2>1. n.channel \in Channels /\ <<UpdateLock(n.channel), q>> \in locks
    BY <1>1, <1>3 DEF Equipped, Relies, Fetching
  <2>2. <<UpdateLock(n.channel), p>> \notin locks
    BY <2>1, LocksTyped DEF Base, Coherent, Exclusive
  <2>3. QED
    BY <2>1, <2>2 DEF LocksStep, FilesStep
<1>4. ASSUME n.at \in {"unpack", "place"}
      PROVE  <<ReleaseLock(n.release), q>> \in locks' /\ dir'[n.release] # "whole"
  <2>1. /\ n.release \in Releases /\ <<ReleaseLock(n.release), q>> \in locks
        /\ dir[n.release] # "whole"
    BY <1>1, <1>4 DEF Equipped, Relies
  <2>2. <<ReleaseLock(n.release), p>> \notin locks
    BY <2>1, LocksTyped DEF Base, Coherent, Exclusive, Contents
  <2>3. QED
    BY <2>1, <2>2 DEF LocksStep, FilesStep
<1>5. ASSUME n.at \in {"install", "reset", "touch"}
      PROVE  dir'[n.release] = "whole" \/ n.release \in R
  <2>1. n.release \in Releases /\ (dir[n.release] = "whole" \/ n.release \in R)
    BY <1>1, <1>5 DEF Equipped, Relies
  <2>2. QED
    BY <1>1, <1>5, <2>1, DeletedRaces DEF FilesStep
<1>6. ASSUME n.at \in Cleaning, NEW c \in Channels, channelFile'[c] \in n.todo
      PROVE  c \in n.unread \/ channelFile'[c] \in R
  <2>1. CASE channelFile'[c] = channelFile[c]
    BY <1>1, <1>6, <2>1 DEF Relies
  <2>2. CASE channelFile'[c] # channelFile[c]
    <3>1. /\ proc[p].at = "install" /\ proc[p].channel = c /\ proc[p].release \in n.todo
          /\ channelFile'[c] = proc[p].release
      BY <1>6, <2>2 DEF FilesStep
    <3>2. proc[p].release \in Releases /\ proc[p].op = "update"
      BY <1>1, <3>1 DEF Equipped
    <3>3. QED
      BY <1>1, <3>1, <3>2, InstalledRaces
  <2>3. QED
    BY <2>1, <2>2
<1>7. ASSUME n.at \in Late, NEW c \in Channels, channelFile'[c] = n.release
      PROVE  n.release \in R
  <2>1. CASE channelFile'[c] = channelFile[c]
    BY <1>1, <1>7, <2>1 DEF Relies
  <2>2. CASE channelFile'[c] # channelFile[c]
    <3>1. proc[p].at = "install" /\ proc[p].release = n.release
      BY <1>7, <2>2 DEF FilesStep
    <3>2. proc[p].release \in Releases /\ proc[p].op = "update"
      BY <1>1, <3>1 DEF Equipped
    <3>3. QED
      BY <1>1, <1>7, <3>1, <3>2, InstalledRaces
  <2>3. QED
    BY <2>1, <2>2
<1>8. Relies(proc[q], q, R)'
  BY <1>1, <1>3, <1>4, <1>5, <1>6, <1>7 DEF Relies, Fetching
<1>9. QED
  BY <1>2, <1>8

LEMMA ChannelsKeep ==
    ASSUME NEW R, Base(R), NEW p \in Procs, FilesStep(p)
    PROVE  HasRelease(R)'
<1> SUFFICES ASSUME NEW c \in Channels, channelFile'[c] # NoRelease
             PROVE  channelFile'[c] \in {r \in Releases : dir'[r] = "whole" \/ r \in R}
  BY DEF HasRelease
<1>1. Equipped(proc[p]) /\ Relies(proc[p], p, R) /\ HasRelease(R)
  BY DEF Base, Coherent
<1>2. CASE channelFile'[c] = channelFile[c]
  <2>1. /\ channelFile[c] \in Releases
        /\ dir[channelFile[c]] = "whole" \/ channelFile[c] \in R
    BY <1>1, <1>2 DEF HasRelease
  <2>2. proc[p].at \in {"erase", "erased"} /\ proc[p].release = channelFile[c] =>
            channelFile[c] \in R
    BY <1>1 DEF Relies, Late
  <2>3. QED
    BY <1>2, <2>1, <2>2 DEF FilesStep
<1>3. CASE channelFile'[c] # channelFile[c]
  <2>1. proc[p].at = "install" /\ channelFile'[c] = proc[p].release
    BY <1>3 DEF FilesStep
  <2>2. QED
    BY <1>1, <2>1 DEF Equipped, Relies, FilesStep
<1>4. QED
  BY <1>2, <1>3

LEMMA Stepped ==
    ASSUME NEW R, Base(R), NEW p \in Procs, Moved(p), LocksStep(p), FilesStep(p),
           Equipped(proc[p])', Relies(proc[p], p, R)'
    PROVE  Coherent(R)'
<1>1. Typed'
  BY DEF FilesStep, Typed, LocksStep, Moved
<1>2. \A q \in Procs : Equipped(proc[q])' /\ Relies(proc[q], q, R)'
  BY OthersRely
<1>3. Exclusive'
  BY DEF LocksStep
<1>4. QED
  BY <1>1, <1>2, <1>3, ChannelsKeep DEF Coherent

\* A process ends, whatever the reason; its channel's temporary file may go.
LEMMA EndsCoherent ==
    ASSUME NEW R, Base(R), NEW p \in Procs,
           NEW result \in {"none", "ok", "warned", "failed"}, NEW release \in Contents,
           Ends(p, result, release), FilesTyped', UNCHANGED <<channelFile, dir>>,
           \A c \in Channels : tmpChannel'[c] = tmpChannel[c] \/ <<UpdateLock(c), p>> \in locks
    PROVE  Coherent(R)' /\ Goes(p, {"idle"})
<1>1. Moved(p) /\ proc'[p] = Ended(result, release) /\ proc'[p].at = "idle"
  BY EndsMoved DEF Base, Coherent
<1>2. Equipped(proc[p])' /\ Relies(proc[p], p, R)'
  BY <1>1 DEF Ended, Equipped, Relies, Fetching, Cleaning, Late
<1>3. LocksStep(p)
  BY LocksDropped DEF Ends, Base, Coherent
<1>4. FilesStep(p)
  BY DEF FilesStep
<1>5. QED
  BY <1>1, <1>2, <1>3, <1>4, Stepped DEF Goes

\* A process goes on with other arguments too.
LEMMA Replaced ==
    ASSUME Typed, NEW p \in Procs, NEW n \in Process, proc' = [proc EXCEPT ![p] = n]
    PROVE  Moved(p) /\ proc'[p] = n
BY DEF Typed, Moved

-----------------------------------------------------------------------------
(* trdl update *)

LEMMA SelfUpdateKeeps ==
    ASSUME NEW R, Base(R), NEW p \in Procs, NEW result \in {"ok", "warned"},
           SelfUpdate(p, result)
    PROVE  Coherent(R)' /\ Goes(p, {"tuf"})
<1> DEFINE n == [proc[p] EXCEPT !.at = "tuf", !.result = result]
<1>1. proc[p] \in Process /\ Equipped(proc[p]) /\ proc[p].at = "self-update"
  BY DEF Base, Coherent, Typed, SelfUpdate, At
<1>2. n \in Process
  BY <1>1 DEF Process, Steps
<1>3. /\ n.at = "tuf" /\ n.op = proc[p].op /\ n.channel = proc[p].channel
      /\ n.release = proc[p].release /\ n.todo = proc[p].todo
  BY <1>1 DEF Process
<1>4. proc' = [proc EXCEPT ![p] = n]
  BY DEF SelfUpdate
<1> HIDE DEF n
<1>5. Moved(p) /\ proc'[p] = n
  BY <1>2, <1>4, Replaced DEF Base, Coherent
<1>6. Equipped(proc[p])' /\ Relies(proc[p], p, R)'
  BY <1>1, <1>3, <1>5 DEF Equipped, Relies, Fetching, Cleaning, Late
<1>7. LocksStep(p)
  BY LocksUnchanged DEF SelfUpdate, Base, Coherent
<1>8. FilesStep(p)
  BY DEF SelfUpdate, home, Base, Coherent, Typed, FilesTyped, FilesStep
<1>9. QED
  BY <1>3, <1>5, <1>6, <1>7, <1>8, Stepped DEF Goes

LEMMA UpdateChannelKeeps ==
    ASSUME NEW R, Base(R), NEW p \in Procs, UpdateChannel(p)
    PROVE  Coherent(R)' /\ Goes(p, {"fetch", "sync"})
<1> DEFINE c == proc[p].channel
           upToDate == channelFile[c] = published[c]
           n == [proc[p] EXCEPT !.at = IF upToDate THEN "sync" ELSE "fetch",
                                !.upToDate = upToDate, !.release = published[c]]
<1>1. /\ proc[p] \in Process /\ Equipped(proc[p]) /\ proc[p].at = "tuf"
      /\ proc[p].op = "update" /\ c \in Channels
  BY DEF Base, Coherent, Typed, UpdateChannel, At, Equipped
<1>2. published[c] \in Releases /\ published[c] \in Contents /\ upToDate \in BOOLEAN
  BY <1>1 DEF Base, Coherent, Typed, FilesTyped, Contents
<1>3. n \in Process
  BY <1>1, <1>2 DEF Process, Steps
<1>4. /\ n.at = IF upToDate THEN "sync" ELSE "fetch"
      /\ n.op = "update" /\ n.channel = c /\ n.upToDate = upToDate
      /\ n.release = published[c] /\ n.todo = proc[p].todo
  BY <1>1 DEF Process
<1>5. proc' = [proc EXCEPT ![p] = n]
  BY DEF UpdateChannel
<1>6. Free(UpdateLock(c)) /\ locks' = locks \cup {<<UpdateLock(c), p>>}
  BY DEF UpdateChannel
<1> HIDE DEF n, c, upToDate
<1>7. Moved(p) /\ proc'[p] = n
  BY <1>3, <1>5, Replaced DEF Base, Coherent
<1>8. Equipped(proc[p])'
  BY <1>1, <1>2, <1>4, <1>7 DEF Equipped, Cleaning, Late
<1>9. Relies(proc[p], p, R)'
  BY <1>4, <1>6, <1>7 DEF Relies, Fetching, Cleaning, Late
<1>10. LocksStep(p)
  BY <1>1, <1>6, LocksTyped, LockTaken DEF Base, Coherent
<1>11. FilesStep(p)
  BY DEF UpdateChannel, Base, Coherent, Typed, FilesTyped, FilesStep
<1>12. QED
  BY <1>4, <1>7, <1>8, <1>9, <1>10, <1>11, Stepped DEF Goes

LEMMA UpdateToVersionKeeps ==
    ASSUME NEW R, Base(R), NEW p \in Procs, UpdateToVersion(p)
    PROVE  Coherent(R)' /\ Goes(p, {"sync"})
<1>1. /\ proc[p] \in Process /\ Equipped(proc[p]) /\ proc[p].at = "tuf"
      /\ proc[p].op = "update-version"
  BY DEF Base, Coherent, Typed, UpdateToVersion, At
<1>2. /\ Moved(p) /\ SameCommand(p) /\ proc'[p].at = "sync"
      /\ proc'[p].release = proc[p].release
  BY GoesOn DEF UpdateToVersion, Steps, Base, Coherent
<1>3. Equipped(proc[p])' /\ Relies(proc[p], p, R)'
  BY <1>1, <1>2 DEF Equipped, Relies, Fetching, Cleaning, Late, SameCommand
<1>4. LocksStep(p)
  BY LocksUnchanged DEF UpdateToVersion, Base, Coherent
<1>5. FilesStep(p)
  BY DEF UpdateToVersion, Base, Coherent, Typed, FilesTyped, FilesStep
<1>6. QED
  BY <1>2, <1>3, <1>4, <1>5, Stepped DEF Goes

LEMMA SyncChannelFileKeeps ==
    ASSUME NEW R, Base(R), NEW p \in Procs, SyncChannelFile(p)
    PROVE  Coherent(R)' /\ Goes(p, {"sync"})
<1> DEFINE c == proc[p].channel
<1>1. /\ proc[p] \in Process /\ Equipped(proc[p]) /\ proc[p].at = "fetch"
      /\ proc[p].op = "update" /\ ~proc[p].upToDate /\ c \in Channels
      /\ <<UpdateLock(c), p>> \in locks
  BY DEF Base, Coherent, Typed, SyncChannelFile, At, Equipped, Relies, Fetching
<1>2. PICK content \in Downloaded(tmpChannel[c], proc[p].release) :
          /\ tmpChannel' = [tmpChannel EXCEPT ![c] = content]
          /\ proc' = [proc EXCEPT ![p].at = "sync", ![p].release = content]
  BY DEF SyncChannelFile
<1>3. content \in Contents
  BY <1>1, <1>2 DEF Downloaded, Contents, Process
<1> DEFINE n == [proc[p] EXCEPT !.at = "sync", !.release = content]
<1>4. n \in Process
  BY <1>1, <1>3 DEF Process, Steps
<1>5. /\ n.at = "sync" /\ n.op = "update" /\ n.channel = c /\ ~n.upToDate
      /\ n.release = content /\ n.todo = proc[p].todo
  BY <1>1 DEF Process
<1>6. proc' = [proc EXCEPT ![p] = n]
  BY <1>2
<1> HIDE DEF n, c
<1>7. Moved(p) /\ proc'[p] = n
  BY <1>4, <1>6, Replaced DEF Base, Coherent
<1>8. Equipped(proc[p])'
  BY <1>1, <1>5, <1>7 DEF Equipped, Cleaning, Late
<1>9. /\ tmpChannel'[c] = content /\ tmpChannel' \in [Channels -> Contents]
      /\ \A d \in Channels : d # c => tmpChannel'[d] = tmpChannel[d]
      /\ UNCHANGED <<channelFile, dir, locks>>
  BY <1>1, <1>2, <1>3 DEF Base, Coherent, Typed, FilesTyped, SyncChannelFile
<1>10. Relies(proc[p], p, R)'
  BY <1>1, <1>5, <1>7, <1>9 DEF Relies, Fetching, Cleaning, Late
<1>11. LocksStep(p)
  BY <1>9, LocksUnchanged DEF Base, Coherent
<1>12. FilesTyped'
  BY <1>9 DEF SyncChannelFile, Base, Coherent, Typed, FilesTyped
<1>13. FilesStep(p)
  BY <1>1, <1>9, <1>12 DEF FilesStep
<1>14. QED
  BY <1>5, <1>7, <1>8, <1>10, <1>11, <1>13, Stepped DEF Goes

\* The release is there: on with the update, without the lock of the release.
LEMMA SyncedKeeps ==
    ASSUME NEW R, Base(R), NEW p \in Procs, proc[p].at \in {"sync", "place"},
           proc[p].release \in Releases, dir'[proc[p].release] = "whole",
           Goto(p, Synced(p)), locks' = LocksAfterSync(p), FilesStep(p), UNCHANGED tmpChannel
    PROVE  Coherent(R)' /\ Goes(p, {"reset", "clean", "install"})
<1>1. /\ proc[p] \in Process /\ Equipped(proc[p]) /\ Relies(proc[p], p, R)
      /\ proc[p].op \in {"update", "update-version"}
  BY DEF Base, Coherent, Typed, Equipped
<1>2. /\ Synced(p) \in Steps /\ Synced(p) \in {"reset", "clean", "install"}
      /\ Synced(p) = "install" => proc[p].op = "update" /\ ~proc[p].upToDate
      /\ Synced(p) = "reset" => proc[p].op = "update-version"
  BY <1>1 DEF Synced, Steps
<1>3. /\ Moved(p) /\ SameCommand(p) /\ proc'[p].at = Synced(p)
      /\ proc'[p].release = proc[p].release
  BY <1>2, GoesOn DEF Base, Coherent
<1>4. Equipped(proc[p])'
  BY <1>1, <1>2, <1>3 DEF Equipped, Cleaning, Late, SameCommand
<1>5. LocksStep(p)
  BY LocksDropped, LockReleased DEF LocksAfterSync, Base, Coherent
<1>6. ASSUME Synced(p) = "install"
      PROVE  /\ <<UpdateLock(proc[p].channel), p>> \in locks'
             /\ tmpChannel[proc[p].channel] = proc[p].release
  <2>1. Fetching(proc[p]) /\ proc[p].at # "fetch"
    BY <1>2, <1>6 DEF Fetching
  <2>2. locks' = Release(ReleaseLock(proc[p].release), p)
    BY <1>6 DEF LocksAfterSync
  <2>3. UpdateLock(proc[p].channel) # ReleaseLock(proc[p].release)
    BY DEF UpdateLock, ReleaseLock
  <2>4. QED
    BY <1>1, <2>1, <2>2, <2>3 DEF Relies, Release
<1>7. Relies(proc[p], p, R)'
  BY <1>2, <1>3, <1>6 DEF Relies, Fetching, Cleaning, Late, SameCommand
<1>8. QED
  BY <1>2, <1>3, <1>4, <1>5, <1>7, Stepped DEF Goes

LEMMA SyncChannelReleaseKeeps ==
    ASSUME NEW R, Base(R), NEW p \in Procs, SyncChannelRelease(p)
    PROVE  Coherent(R)' /\ Goes(p, {"unpack", "reset", "clean", "install"})
<1> DEFINE r == proc[p].release
<1>1. /\ proc[p] \in Process /\ Equipped(proc[p]) /\ Relies(proc[p], p, R)
      /\ proc[p].at = "sync" /\ r \in Releases /\ Free(ReleaseLock(r))
  BY DEF Base, Coherent, Typed, SyncChannelRelease, At
<1>2. FilesStep(p) /\ UNCHANGED <<tmpChannel, channelFile, dir>>
  BY DEF SyncChannelRelease, home, Base, Coherent, Typed, FilesTyped, FilesStep
<1>3. CASE dir[r] = "whole"
  <2>1. Goto(p, Synced(p)) /\ locks' = LocksAfterSync(p)
    BY <1>3 DEF SyncChannelRelease
  <2>2. QED
    BY <1>1, <1>2, <1>3, <2>1, SyncedKeeps DEF Goes
<1>4. CASE dir[r] # "whole"
  <2>1. Goto(p, "unpack") /\ locks' = locks \cup {<<ReleaseLock(r), p>>}
    BY <1>4 DEF SyncChannelRelease
  <2>2. /\ Moved(p) /\ SameCommand(p) /\ proc'[p].at = "unpack" /\ proc'[p].release = r
    BY <2>1, GoesOn DEF Base, Coherent, Steps
  <2>3. Equipped(proc[p])'
    BY <1>1, <2>2 DEF Equipped, Cleaning, Late, SameCommand
  <2>4. Relies(proc[p], p, R)'
    BY <1>1, <1>2, <1>4, <2>1, <2>2 DEF Relies, Fetching, Cleaning, Late, SameCommand
  <2>5. LocksStep(p)
    BY <1>1, <2>1, LocksTyped, LockTaken DEF Base, Coherent, Contents
  <2>6. QED
    BY <1>2, <2>2, <2>3, <2>4, <2>5, Stepped DEF Goes
<1>5. QED
  BY <1>3, <1>4

LEMMA RemoveBrokenKeeps ==
    ASSUME NEW R, Base(R), NEW p \in Procs, RemoveBroken(p)
    PROVE  Coherent(R)' /\ Goes(p, {"place"})
<1> DEFINE r == proc[p].release
<1>1. /\ proc[p] \in Process /\ Equipped(proc[p]) /\ Relies(proc[p], p, R)
      /\ proc[p].at = "unpack" /\ r \in Releases /\ dir[r] # "whole"
  BY DEF Base, Coherent, Typed, RemoveBroken, At, Equipped, Relies
<1>2. dir' = [dir EXCEPT ![r] = "none"] /\ UNCHANGED <<tmpChannel, channelFile, locks>>
  BY DEF RemoveBroken
<1>3. /\ Moved(p) /\ SameCommand(p) /\ proc'[p].at = "place" /\ proc'[p].release = r
  BY GoesOn DEF RemoveBroken, Base, Coherent, Steps
<1>4. /\ dir'[r] = "none" /\ \A s \in Releases : s # r => dir'[s] = dir[s]
      /\ dir' \in [Releases -> {"none", "partial", "whole"}]
  BY <1>1, <1>2 DEF Base, Coherent, Typed, FilesTyped
<1>5. FilesTyped'
  BY <1>4 DEF RemoveBroken, Base, Coherent, Typed, FilesTyped
<1>6. FilesStep(p)
  BY <1>1, <1>2, <1>4, <1>5 DEF FilesStep
<1>7. Equipped(proc[p])'
  BY <1>1, <1>3 DEF Equipped, Cleaning, Late, SameCommand
<1>8. Relies(proc[p], p, R)'
  BY <1>1, <1>2, <1>3, <1>4 DEF Relies, Fetching, Cleaning, Late, SameCommand
<1>9. LocksStep(p)
  BY <1>2, LocksUnchanged DEF Base, Coherent
<1>10. QED
  BY <1>3, <1>6, <1>7, <1>8, <1>9, Stepped DEF Goes

LEMMA PlaceReleaseKeeps ==
    ASSUME NEW R, Base(R), NEW p \in Procs, PlaceRelease(p)
    PROVE  Coherent(R)' /\ Goes(p, {"reset", "clean", "install"})
<1> DEFINE r == proc[p].release
<1>1. /\ Equipped(proc[p]) /\ Relies(proc[p], p, R) /\ proc[p].at = "place"
      /\ r \in Releases /\ <<ReleaseLock(r), p>> \in locks
  BY DEF Base, Coherent, PlaceRelease, At, Equipped, Relies
<1>2. /\ dir' = [dir EXCEPT ![r] = "whole"] /\ locks' = LocksAfterSync(p)
      /\ Goto(p, Synced(p)) /\ UNCHANGED <<tmpChannel, channelFile>>
  BY DEF PlaceRelease
<1>3. /\ dir'[r] = "whole" /\ \A s \in Releases : s # r => dir'[s] = dir[s]
      /\ dir' \in [Releases -> {"none", "partial", "whole"}]
  BY <1>1, <1>2 DEF Base, Coherent, Typed, FilesTyped
<1>4. FilesTyped'
  BY <1>3 DEF PlaceRelease, Base, Coherent, Typed, FilesTyped
<1>5. FilesStep(p)
  BY <1>1, <1>2, <1>3, <1>4 DEF FilesStep
<1>6. QED
  BY <1>1, <1>2, <1>3, <1>5, SyncedKeeps

LEMMA InstallChannelKeeps ==
    ASSUME NEW R, Base(R), NEW p \in Procs, InstallChannel(p)
    PROVE  Coherent(R)' /\ Goes(p, {"clean"})
<1> DEFINE c == proc[p].channel
<1>1. /\ Equipped(proc[p]) /\ Relies(proc[p], p, R) /\ proc[p].at = "install"
      /\ Fetching(proc[p]) /\ c \in Channels /\ proc[p].release \in Releases
      /\ <<UpdateLock(c), p>> \in locks /\ tmpChannel[c] = proc[p].release
  BY DEF Base, Coherent, InstallChannel, At, Equipped, Relies, Fetching
<1>2. /\ channelFile' = [channelFile EXCEPT ![c] = tmpChannel[c]]
      /\ tmpChannel' = [tmpChannel EXCEPT ![c] = NoRelease]
      /\ locks' = NoLocksOf(p) /\ Goto(p, "clean") /\ UNCHANGED dir
  BY DEF InstallChannel
<1>3. /\ channelFile' \in [Channels -> Contents] /\ tmpChannel' \in [Channels -> Contents]
      /\ channelFile'[c] = tmpChannel[c]
      /\ \A d \in Channels : d # c => channelFile'[d] = channelFile[d]
                                      /\ tmpChannel'[d] = tmpChannel[d]
  BY <1>1, <1>2 DEF Base, Coherent, Typed, FilesTyped, Contents
<1>4. FilesTyped'
  BY <1>3 DEF InstallChannel, Base, Coherent, Typed, FilesTyped
<1>5. FilesStep(p)
  BY <1>1, <1>2, <1>3, <1>4 DEF FilesStep
<1>6. Moved(p) /\ SameCommand(p) /\ proc'[p].at = "clean" /\ proc'[p].release = proc[p].release
  BY <1>2, GoesOn DEF Base, Coherent, Steps
<1>7. Equipped(proc[p])' /\ Relies(proc[p], p, R)'
  BY <1>1, <1>6 DEF Equipped, Relies, Fetching, Cleaning, Late, SameCommand
<1>8. LocksStep(p)
  BY <1>2, LocksDropped DEF Base, Coherent
<1>9. QED
  BY <1>5, <1>6, <1>7, <1>8, Stepped DEF Goes

-----------------------------------------------------------------------------
(* Metafiles, and the release's path *)

LEMMA ResetKeeps ==
    ASSUME NEW R, Base(R), NEW p \in Procs, Reset(p)
    PROVE  /\ Coherent(R)' /\ Goes(p, {"touch"}) /\ SameCommand(p)
           /\ proc'[p].release = proc[p].release
<1> DEFINE r == proc[p].release
<1>1. /\ proc[p] \in Process /\ Equipped(proc[p]) /\ Relies(proc[p], p, R)
      /\ proc[p].at = "reset" /\ r \in Contents /\ r \in Releases
  BY DEF Base, Coherent, Typed, Process, Reset, At, Equipped
<1>2. /\ Free(ResetLock(p)) /\ locks' = locks \cup {<<ResetLock(p), p>>}
      /\ Goto(p, "touch") /\ UNCHANGED <<tmpChannel, channelFile, dir>>
  BY DEF Reset
<1>3. pinned' \subseteq Releases /\ metafile' \in [Releases -> {"none", "recent"}]
  BY DEF Reset, Base, Coherent, Typed, FilesTyped
<1>4. FilesTyped'
  BY <1>3 DEF Reset, Base, Coherent, Typed, FilesTyped
<1>5. Moved(p) /\ SameCommand(p) /\ proc'[p].at = "touch" /\ proc'[p].release = r
  BY <1>2, GoesOn DEF Base, Coherent, Steps
<1>6. Equipped(proc[p])' /\ Relies(proc[p], p, R)'
  BY <1>1, <1>2, <1>5 DEF Equipped, Relies, Fetching, Cleaning, Late, SameCommand
<1>7. LocksStep(p)
  BY <1>1, <1>2, LocksTyped, LockTaken DEF Base, Coherent
<1>8. FilesStep(p)
  BY <1>2, <1>4 DEF FilesStep
<1>9. QED
  BY <1>5, <1>6, <1>7, <1>8, Stepped DEF Goes

LEMMA TouchKeeps ==
    ASSUME NEW R, Base(R), NEW p \in Procs, Touch(p)
    PROVE  Coherent(R)' /\ Goes(p, {"clean", "find"})
<1>1. /\ proc[p] \in Process /\ Equipped(proc[p]) /\ proc[p].at = "touch"
      /\ proc[p].release \in Releases
  BY DEF Base, Coherent, Typed, Touch, At, Equipped
<1>2. /\ locks' = Release(ResetLock(p), p)
      /\ UNCHANGED <<tmpChannel, channelFile, dir>>
  BY DEF Touch
<1>3. PICK step \in {"clean", "find"} : Goto(p, step)
  BY DEF Touch
<1>4. /\ handedOut' \subseteq Releases /\ pinned' \subseteq Releases
      /\ metafile' \in [Releases -> {"none", "recent"}]
  BY <1>1 DEF Touch, Base, Coherent, Typed, FilesTyped
<1>5. FilesTyped'
  BY <1>4 DEF Touch, Base, Coherent, Typed, FilesTyped
<1>6. /\ Moved(p) /\ SameCommand(p) /\ proc'[p].at = step
      /\ proc'[p].release = proc[p].release
  BY <1>3, GoesOn DEF Base, Coherent, Steps
<1>7. Equipped(proc[p])' /\ Relies(proc[p], p, R)'
  BY <1>1, <1>6 DEF Equipped, Relies, Fetching, Cleaning, Late, SameCommand
<1>8. LocksStep(p)
  BY <1>2, LockReleased DEF Base, Coherent
<1>9. FilesStep(p)
  BY <1>2, <1>5 DEF FilesStep
<1>10. QED
  BY <1>6, <1>7, <1>8, <1>9, Stepped DEF Goes

LEMMA GetChannelReleaseKeeps ==
    ASSUME NEW R, Base(R), NEW p \in Procs, GetChannelRelease(p)
    PROVE  Coherent(R)' /\ Goes(p, {"reset"})
<1> DEFINE c == proc[p].channel
           n == [proc[p] EXCEPT !.at = "reset", !.release = channelFile[c]]
<1>1. /\ proc[p] \in Process /\ Equipped(proc[p]) /\ proc[p].at = "read"
      /\ proc[p].op = "bin-path" /\ c \in Channels /\ channelFile[c] \in Releases
      /\ dir[channelFile[c]] = "whole" \/ channelFile[c] \in R
      /\ UNCHANGED dir
  BY DEF Base, Coherent, Typed, HasRelease, GetChannelRelease, home, At, Equipped
<1>2. n \in Process
  BY <1>1 DEF Process, Steps, Contents
<1>3. /\ n.at = "reset" /\ n.op = "bin-path" /\ n.channel = c
      /\ n.release = channelFile[c] /\ n.todo = proc[p].todo
  BY <1>1 DEF Process
<1>4. proc' = [proc EXCEPT ![p] = n]
  BY DEF GetChannelRelease
<1>5. locks' = locks \cup {<<ChannelLock(c), p>>}
  BY DEF GetChannelRelease
<1> HIDE DEF n, c
<1>6. Moved(p) /\ proc'[p] = n
  BY <1>2, <1>4, Replaced DEF Base, Coherent
<1>7. Equipped(proc[p])' /\ Relies(proc[p], p, R)'
  BY <1>1, <1>3, <1>6 DEF Equipped, Relies, Fetching, Cleaning, Late
<1>8. LocksStep(p)
  BY <1>1, <1>5, LocksTyped, LockTaken DEF Base, Coherent
<1>9. FilesStep(p)
  BY DEF GetChannelRelease, home, Base, Coherent, Typed, FilesTyped, FilesStep
<1>10. QED
  BY <1>3, <1>6, <1>7, <1>8, <1>9, Stepped DEF Goes

LEMMA FindReleaseBinDirKeeps ==
    ASSUME NEW R, Base(R), NEW p \in Procs, FindReleaseBinDir(p)
    PROVE  Coherent(R)' /\ Goes(p, {"idle"})
<1>1. Ends(p, "ok", proc[p].release) /\ proc[p].release \in Contents
  BY DEF FindReleaseBinDir, Contents
<1>2. FilesTyped' /\ UNCHANGED home
  BY DEF FindReleaseBinDir, home, Base, Coherent, Typed, FilesTyped
<1>3. QED
  BY <1>1, <1>2, EndsCoherent DEF home

-----------------------------------------------------------------------------
(* CleanReleases *)

LEMMA CleanReleasesKeeps ==
    ASSUME RepoAssumption, NEW R, Base(R), NEW p \in Procs, CleanReleases(p)
    PROVE  Coherent(R)' /\ Goes(p, {"actual", "idle"})
<1>1. proc[p] \in Process /\ Equipped(proc[p]) /\ proc[p].at = "clean"
  BY DEF Base, Coherent, Typed, CleanReleases, At
<1>2. FilesTyped' /\ UNCHANGED <<channelFile, dir, tmpChannel>>
  BY DEF CleanReleases, home, Base, Coherent, Typed, FilesTyped
<1>3. CASE proc[p].autoclean
  <2> DEFINE unread == {c \in Channels : channelFile[c] # NoRelease}
             n == [proc[p] EXCEPT !.at = "actual", !.todo = Releases, !.unread = unread]
  <2>1. n \in Process
    BY <1>1 DEF Process, Steps
  <2>2. /\ n.at = "actual" /\ n.op = proc[p].op /\ n.channel = proc[p].channel
        /\ n.release = proc[p].release /\ n.todo = Releases /\ n.unread = unread /\ n.autoclean
    BY <1>1, <1>3 DEF Process
  <2>3. proc' = [proc EXCEPT ![p] = n] /\ UNCHANGED locks
    BY <1>3 DEF CleanReleases
  <2>4. \A c \in Channels : channelFile[c] \in Releases => c \in unread
    BY DEF RepoAssumption
  <2> HIDE DEF n, unread
  <2>5. Moved(p) /\ proc'[p] = n
    BY <2>1, <2>3, Replaced DEF Base, Coherent
  <2>6. Equipped(proc[p])'
    BY <1>1, <2>2, <2>5 DEF Equipped, Cleaning, Late
  <2>7. Relies(proc[p], p, R)'
    BY <1>2, <2>2, <2>4, <2>5 DEF Relies, Fetching, Cleaning, Late
  <2>8. LocksStep(p)
    BY <2>3, LocksUnchanged DEF Base, Coherent
  <2>9. FilesStep(p)
    BY <1>2 DEF FilesStep
  <2>10. QED
    BY <2>2, <2>5, <2>6, <2>7, <2>8, <2>9, Stepped DEF Goes
<1>4. CASE ~proc[p].autoclean
  <2>1. /\ Ends(p, proc[p].result, NoRelease) /\ NoRelease \in Contents
        /\ proc[p].result \in {"none", "ok", "warned", "failed"}
    BY <1>1, <1>4 DEF CleanReleases, Contents, Process
  <2>2. QED
    BY <1>2, <2>1, EndsCoherent DEF Goes
<1>5. QED
  BY <1>3, <1>4

LEMMA GetActualLocalReleasesKeeps ==
    ASSUME NEW R, Base(R), NEW p \in Procs, GetActualLocalReleases(p)
    PROVE  Coherent(R)' /\ Goes(p, {"actual"})
<1>1. /\ proc[p] \in Process /\ Equipped(proc[p]) /\ Relies(proc[p], p, R)
      /\ proc[p].at = "actual"
  BY DEF Base, Coherent, Typed, GetActualLocalReleases, At
<1>2. PICK c \in proc[p].unread :
          proc' = [proc EXCEPT ![p].unread = proc[p].unread \ {c},
                               ![p].todo = proc[p].todo \ {channelFile[c]}]
  BY DEF GetActualLocalReleases
<1> DEFINE todo == proc[p].todo \ {channelFile[c]}
           unread == proc[p].unread \ {c}
           n == [proc[p] EXCEPT !.unread = unread, !.todo = todo]
<1>3. n \in Process
  BY <1>1 DEF Process
<1>4. /\ n.at = "actual" /\ n.op = proc[p].op /\ n.channel = proc[p].channel
      /\ n.release = proc[p].release /\ n.todo = todo /\ n.unread = unread
      /\ n.autoclean = proc[p].autoclean
  BY <1>1 DEF Process
<1>5. proc' = [proc EXCEPT ![p] = n]
  BY <1>2
<1>6. \A d \in Channels : channelFile[d] \in todo => d \in unread \/ channelFile[d] \in R
  BY <1>1 DEF Relies, Cleaning
<1> HIDE DEF n, todo, unread
<1>7. Moved(p) /\ proc'[p] = n
  BY <1>3, <1>5, Replaced DEF Base, Coherent
<1>8. FilesTyped' /\ UNCHANGED <<channelFile, dir, tmpChannel, locks>>
  BY DEF GetActualLocalReleases, home, Base, Coherent, Typed, FilesTyped
<1>9. Equipped(proc[p])'
  BY <1>1, <1>4, <1>7 DEF Equipped, Cleaning, Late
<1>10. Relies(proc[p], p, R)'
  BY <1>4, <1>6, <1>7, <1>8 DEF Relies, Fetching, Cleaning, Late
<1>11. LocksStep(p)
  BY <1>8, LocksUnchanged DEF Base, Coherent
<1>12. FilesStep(p)
  BY <1>8 DEF FilesStep
<1>13. QED
  BY <1>4, <1>7, <1>9, <1>10, <1>11, <1>12, Stepped DEF Goes

LEMMA ListReleasesKeeps ==
    ASSUME NEW R, Base(R), NEW p \in Procs, ListReleases(p)
    PROVE  Coherent(R)' /\ Goes(p, {"judge"})
<1>1. /\ proc[p] \in Process /\ Equipped(proc[p]) /\ Relies(proc[p], p, R)
      /\ proc[p].at = "actual" /\ proc[p].unread = {}
  BY DEF Base, Coherent, Typed, ListReleases, At
<1> DEFINE todo == {r \in proc[p].todo : dir[r] # "none"}
           n == [proc[p] EXCEPT !.at = "judge", !.todo = todo]
<1>2. n \in Process
  BY <1>1 DEF Process, Steps
<1>3. /\ n.at = "judge" /\ n.op = proc[p].op /\ n.channel = proc[p].channel
      /\ n.release = proc[p].release /\ n.todo = todo /\ n.unread = {}
      /\ n.autoclean = proc[p].autoclean
  BY <1>1 DEF Process
<1>4. proc' = [proc EXCEPT ![p] = n]
  BY DEF ListReleases
<1>5. \A d \in Channels : channelFile[d] \in todo => channelFile[d] \in R
  BY <1>1 DEF Relies, Cleaning
<1> HIDE DEF n, todo
<1>6. Moved(p) /\ proc'[p] = n
  BY <1>2, <1>4, Replaced DEF Base, Coherent
<1>7. FilesTyped' /\ UNCHANGED <<channelFile, dir, tmpChannel, locks>>
  BY DEF ListReleases, home, Base, Coherent, Typed, FilesTyped
<1>8. Equipped(proc[p])'
  BY <1>1, <1>3, <1>6 DEF Equipped, Cleaning, Late
<1>9. Relies(proc[p], p, R)'
  BY <1>3, <1>5, <1>6, <1>7 DEF Relies, Fetching, Cleaning, Late
<1>10. LocksStep(p)
  BY <1>7, LocksUnchanged DEF Base, Coherent
<1>11. FilesStep(p)
  BY <1>7 DEF FilesStep
<1>12. QED
  BY <1>3, <1>6, <1>8, <1>9, <1>10, <1>11, Stepped DEF Goes

LEMMA JudgeReleaseKeeps ==
    ASSUME NEW R, Base(R), NEW p \in Procs, JudgeRelease(p)
    PROVE  /\ Coherent(R)' /\ Goes(p, {"judge", "versions"})
           /\ proc'[p].at = "versions" =>
                 proc'[p].release \in Releases /\ metafile[proc'[p].release] # "recent"
<1>1. /\ proc[p] \in Process /\ Equipped(proc[p]) /\ Relies(proc[p], p, R)
      /\ proc[p].at = "judge" /\ proc[p].autoclean /\ proc[p].unread = {}
      /\ \A c \in Channels : channelFile[c] \in proc[p].todo => channelFile[c] \in R
  BY DEF Base, Coherent, Typed, JudgeRelease, At, Equipped, Relies, Cleaning
<1>2. PICK r \in proc[p].todo :
         proc' = [proc EXCEPT ![p].todo = proc[p].todo \ {r}, ![p].release = r,
                    ![p].at = IF metafile[r] = "recent" THEN "judge" ELSE "versions"]
  BY DEF JudgeRelease
<1> DEFINE todo == proc[p].todo \ {r}
           step == IF metafile[r] = "recent" THEN "judge" ELSE "versions"
           n == [proc[p] EXCEPT !.todo = todo, !.release = r, !.at = step]
<1>3. r \in Releases /\ r \in Contents /\ todo \subseteq Releases
      /\ step \in Steps /\ step \in {"judge", "versions"}
      /\ (step = "versions" => metafile[r] # "recent")
  BY <1>1 DEF Process, Contents, Steps
<1>4. n \in Process
  BY <1>1, <1>3 DEF Process
<1>5. /\ n.at = step /\ n.op = proc[p].op /\ n.channel = proc[p].channel
      /\ n.release = r /\ n.todo = todo /\ n.autoclean /\ n.unread = {}
  BY <1>1 DEF Process
<1>6. proc' = [proc EXCEPT ![p] = n]
  BY <1>2
<1>7. /\ \A c \in Channels : channelFile[c] \in todo => channelFile[c] \in R
      /\ \A c \in Channels : channelFile[c] = r => r \in R
  BY <1>1
<1> HIDE DEF n, todo, step
<1>8. Moved(p) /\ proc'[p] = n
  BY <1>4, <1>6, Replaced DEF Base, Coherent
<1>9. FilesTyped' /\ UNCHANGED <<channelFile, dir, tmpChannel, locks>>
  BY DEF JudgeRelease, home, Base, Coherent, Typed, FilesTyped
<1>10. Equipped(proc[p])'
  BY <1>1, <1>3, <1>5, <1>8 DEF Equipped, Cleaning, Late
<1>11. Relies(proc[p], p, R)'
  BY <1>3, <1>5, <1>7, <1>8, <1>9 DEF Relies, Fetching, Cleaning, Late
<1>12. LocksStep(p)
  BY <1>9, LocksUnchanged DEF Base, Coherent
<1>13. FilesStep(p)
  BY <1>9 DEF FilesStep
<1>14. QED
  BY <1>3, <1>5, <1>8, <1>10, <1>11, <1>12, <1>13, Stepped DEF Goes

LEMMA JudgeVersionKeeps ==
    ASSUME NEW R, Base(R), NEW p \in Procs, JudgeVersion(p)
    PROVE  /\ Coherent(R)' /\ Goes(p, {"judge", "forget"})
           /\ proc'[p].release = proc[p].release
           /\ proc'[p].at = "forget" => proc[p].release \notin pinned
<1> DEFINE step == IF proc[p].release \in pinned THEN "judge" ELSE "forget"
<1>1. /\ Equipped(proc[p]) /\ Relies(proc[p], p, R) /\ proc[p].at = "versions"
  BY DEF Base, Coherent, JudgeVersion, At
<1>2. /\ step \in {"judge", "forget"} /\ step \in Steps
      /\ (step = "forget" => proc[p].release \notin pinned)
      /\ Goto(p, step)
  BY DEF Steps, JudgeVersion
<1> HIDE DEF step
<1>3. /\ Moved(p) /\ SameCommand(p) /\ proc'[p].at = step
      /\ proc'[p].release = proc[p].release
  BY <1>2, GoesOn DEF Base, Coherent
<1>4. FilesTyped' /\ UNCHANGED <<channelFile, dir, tmpChannel, locks>>
  BY DEF JudgeVersion, home, Base, Coherent, Typed, FilesTyped
<1>5. Equipped(proc[p])'
  BY <1>1, <1>2, <1>3 DEF Equipped, Cleaning, Late, SameCommand
<1>6. Relies(proc[p], p, R)'
  BY <1>1, <1>2, <1>3, <1>4 DEF Relies, Fetching, Cleaning, Late, SameCommand
<1>7. LocksStep(p)
  BY <1>4, LocksUnchanged DEF Base, Coherent
<1>8. FilesStep(p)
  BY <1>4 DEF FilesStep
<1>9. QED
  BY <1>2, <1>3, <1>5, <1>6, <1>7, <1>8, Stepped DEF Goes

LEMMA ForgetReleaseKeeps ==
    ASSUME NEW R, Base(R), NEW p \in Procs, ForgetRelease(p)
    PROVE  Coherent(R)' /\ Goes(p, {"erase"}) /\ proc'[p].release = proc[p].release
<1>1. /\ Equipped(proc[p]) /\ Relies(proc[p], p, R) /\ proc[p].at = "forget"
      /\ proc[p].release \in Releases
  BY DEF Base, Coherent, ForgetRelease, At, Equipped, Late
<1>2. /\ Moved(p) /\ SameCommand(p) /\ proc'[p].at = "erase"
      /\ proc'[p].release = proc[p].release
  BY GoesOn DEF ForgetRelease, Base, Coherent, Steps
<1>3. FilesTyped' /\ UNCHANGED <<channelFile, dir, tmpChannel, locks>>
  BY <1>1 DEF ForgetRelease, Base, Coherent, Typed, FilesTyped
<1>4. Equipped(proc[p])'
  BY <1>1, <1>2 DEF Equipped, Cleaning, Late, SameCommand
<1>5. Relies(proc[p], p, R)'
  BY <1>1, <1>2, <1>3 DEF Relies, Fetching, Cleaning, Late, SameCommand
<1>6. LocksStep(p)
  BY <1>3, LocksUnchanged DEF Base, Coherent
<1>7. FilesStep(p)
  BY <1>3 DEF FilesStep
<1>8. QED
  BY <1>2, <1>4, <1>5, <1>6, <1>7, Stepped DEF Goes

LEMMA EraseReleaseKeeps ==
    ASSUME NEW R, Base(R), NEW p \in Procs, EraseRelease(p)
    PROVE  /\ Coherent(R)' /\ Goes(p, {"erased", "judge"})
           /\ proc'[p].release = proc[p].release
           /\ dir'[proc[p].release] # "whole"
           /\ \A s \in Releases \ {proc[p].release} : dir'[s] = dir[s]
<1> DEFINE r == proc[p].release
           left == IF At(p, "erase") /\ dir[r] # "none" THEN "partial" ELSE "none"
           step == IF At(p, "erase") THEN "erased" ELSE "judge"
<1>1. /\ Equipped(proc[p]) /\ Relies(proc[p], p, R)
      /\ proc[p].at \in {"erase", "erased"} /\ r \in Releases
  BY DEF Base, Coherent, EraseRelease, Equipped, Late
<1>2. dir' = [dir EXCEPT ![r] = left] /\ Goto(p, step) /\ step \in {"erased", "judge"}
      /\ UNCHANGED <<channelFile, tmpChannel, locks>>
  BY DEF EraseRelease
<1>3. /\ \A s \in Releases : s # r => dir'[s] = dir[s]
      /\ dir'[r] # "whole" /\ dir' \in [Releases -> {"none", "partial", "whole"}]
  BY <1>1, <1>2 DEF Base, Coherent, Typed, FilesTyped
<1>4. FilesTyped'
  BY <1>3 DEF EraseRelease, Base, Coherent, Typed, FilesTyped
<1>5. FilesStep(p)
  BY <1>1, <1>2, <1>3, <1>4 DEF FilesStep
<1>6. step \in Steps
  BY <1>2 DEF Steps
<1> HIDE DEF step
<1>7. /\ Moved(p) /\ SameCommand(p) /\ proc'[p].at = step /\ proc'[p].release = r
  BY <1>2, <1>6, GoesOn DEF Base, Coherent
<1>8. Equipped(proc[p])'
  BY <1>1, <1>2, <1>7 DEF Equipped, Cleaning, Late, SameCommand
<1>9. Relies(proc[p], p, R)'
  BY <1>1, <1>2, <1>7 DEF Relies, Fetching, Cleaning, Late, SameCommand
<1>10. LocksStep(p)
  BY <1>2, LocksUnchanged DEF Base, Coherent
<1>11. QED
  BY <1>2, <1>3, <1>5, <1>7, <1>8, <1>9, <1>10, Stepped DEF Goes

LEMMA CleanEndsKeeps ==
    ASSUME NEW R, Base(R), NEW p \in Procs, CleanEnds(p)
    PROVE  Coherent(R)' /\ Goes(p, {"idle"})
<1>1. /\ Ends(p, proc[p].result, NoRelease) /\ NoRelease \in Contents
      /\ proc[p].result \in {"none", "ok", "warned", "failed"}
  BY DEF CleanEnds, Contents, Base, Coherent, Typed, Process
<1>2. FilesTyped' /\ UNCHANGED home
  BY DEF CleanEnds, home, Base, Coherent, Typed, FilesTyped
<1>3. QED
  BY <1>1, <1>2, EndsCoherent DEF home

-----------------------------------------------------------------------------
(* trdl add; errors and kills *)

LEMMA AddRepoKeeps ==
    ASSUME NEW R, Base(R), NEW p \in Procs, AddRepo(p)
    PROVE  Coherent(R)'
<1>1. proc[p] \in Process /\ Equipped(proc[p])
  BY DEF Base, Coherent, Typed
<1>2. FilesTyped' /\ UNCHANGED <<channelFile, dir, tmpChannel>>
  BY <1>1 DEF AddRepo, Base, Coherent, Typed, FilesTyped, Process
<1>3. CASE At(p, "save")
  <2>1. Ends(p, "ok", NoRelease) /\ NoRelease \in Contents
    BY <1>3 DEF AddRepo, At, Contents
  <2>2. QED
    BY <1>2, <2>1, EndsCoherent
<1>4. CASE ~At(p, "save")
  <2>1. PICK step \in {"root", "save"} : Goto(p, step)
    BY <1>4 DEF AddRepo
  <2>2. proc[p].at \in {"setup", "root"} /\ UNCHANGED locks
    BY <1>4 DEF AddRepo, At
  <2>3. /\ Moved(p) /\ SameCommand(p) /\ proc'[p].at = step
        /\ proc'[p].release = proc[p].release
    BY <2>1, GoesOn DEF Base, Coherent, Steps
  <2>4. Equipped(proc[p])' /\ Relies(proc[p], p, R)'
    BY <1>1, <2>2, <2>3 DEF Equipped, Relies, Fetching, Cleaning, Late, SameCommand
  <2>5. LocksStep(p)
    BY <2>2, LocksUnchanged DEF Base, Coherent
  <2>6. FilesStep(p)
    BY <1>2 DEF FilesStep
  <2>7. QED
    BY <2>3, <2>4, <2>5, <2>6, Stepped
<1>5. QED
  BY <1>3, <1>4

LEMMA FailsKeeps ==
    ASSUME NEW R, Base(R), NEW p \in Procs, Fails(p)
    PROVE  Coherent(R)' /\ Goes(p, {"idle"})
<1>1. Equipped(proc[p]) /\ Relies(proc[p], p, R)
  BY DEF Base, Coherent
<1>2. /\ Ends(p, "failed", NoRelease) /\ NoRelease \in Contents
      /\ UNCHANGED <<channelFile, dir>> /\ tmpChannel' = Dropped(p)
  BY DEF Fails, Contents
<1>3. CASE Fetching(proc[p])
  <2>1. /\ proc[p].channel \in Channels
        /\ <<UpdateLock(proc[p].channel), p>> \in locks
    BY <1>1, <1>3 DEF Equipped, Relies, Fetching
  <2>2. tmpChannel' = [tmpChannel EXCEPT ![proc[p].channel] = NoRelease]
    BY <1>2, <1>3 DEF Dropped, Fetching
  <2>3. FilesTyped'
    BY <2>1, <2>2 DEF Fails, Base, Coherent, Typed, FilesTyped, Contents
  <2>4. \A c \in Channels : tmpChannel'[c] = tmpChannel[c] \/ <<UpdateLock(c), p>> \in locks
    BY <2>1, <2>2 DEF Base, Coherent, Typed, FilesTyped
  <2>5. QED
    BY <1>2, <2>3, <2>4, EndsCoherent
<1>4. CASE ~Fetching(proc[p])
  <2>1. tmpChannel' = tmpChannel
    BY <1>2, <1>4 DEF Dropped, Fetching
  <2>2. FilesTyped'
    BY <2>1 DEF Fails, Base, Coherent, Typed, FilesTyped
  <2>3. QED
    BY <1>2, <2>1, <2>2, EndsCoherent
<1>5. QED
  BY <1>3, <1>4

LEMMA KillKeeps ==
    ASSUME NEW R, Base(R), NEW p \in Procs, Kill(p)
    PROVE  Coherent(R)' /\ Goes(p, {"idle"})
<1>1. Equipped(proc[p]) /\ Relies(proc[p], p, R)
  BY DEF Base, Coherent
<1>2. /\ Ends(p, "failed", NoRelease) /\ NoRelease \in Contents
      /\ UNCHANGED <<channelFile, dir>>
  BY DEF Kill, Contents
<1>3. PICK cut \in {At(p, "fetch"), FALSE} :
         tmpChannel' = IF cut THEN [tmpChannel EXCEPT ![proc[p].channel] = Garbled]
                       ELSE tmpChannel
  BY DEF Kill
<1>4. CASE cut
  <2>1. Fetching(proc[p]) /\ proc[p].channel \in Channels
    BY <1>1, <1>4 DEF At, Fetching, Equipped
  <2>2. <<UpdateLock(proc[p].channel), p>> \in locks
    BY <1>1, <2>1 DEF Relies
  <2>3. tmpChannel' = [tmpChannel EXCEPT ![proc[p].channel] = Garbled]
    BY <1>3, <1>4
  <2>4. FilesTyped'
    BY <2>1, <2>3 DEF Kill, Base, Coherent, Typed, FilesTyped, Contents
  <2>5. \A c \in Channels : tmpChannel'[c] = tmpChannel[c] \/ <<UpdateLock(c), p>> \in locks
    BY <2>1, <2>2, <2>3 DEF Base, Coherent, Typed, FilesTyped
  <2>6. QED
    BY <1>2, <2>4, <2>5, EndsCoherent
<1>5. CASE ~cut
  <2>1. tmpChannel' = tmpChannel
    BY <1>3, <1>5
  <2>2. FilesTyped'
    BY <2>1 DEF Kill, Base, Coherent, Typed, FilesTyped
  <2>3. QED
    BY <1>2, <2>1, <2>2, EndsCoherent
<1>6. QED
  BY <1>4, <1>5

-----------------------------------------------------------------------------
(* Commands start *)

\* The commands that may be given.
Given(op, channel, release, url, autoclean, mode) ==
    /\ op \in Ops \ {"remove", "none"} /\ channel \in Channels \cup {NoChannel}
    /\ release \in Contents /\ url \in Urls \cup {NoUrl} /\ autoclean \in BOOLEAN
    /\ mode \in {"no", "flag", "env"}
    /\ op \in {"update", "bin-path"} => channel \in Channels
    /\ op = "update-version" => release \in Releases

FirstSteps == {"setup", "background", "refused", "read", "self-update"}

LEMMA CommandKnows ==
    ASSUME NEW op, NEW channel, NEW release, NEW url, NEW autoclean, NEW mode,
           Given(op, channel, release, url, autoclean, mode), NEW p, NEW R
    PROVE  LET n == Command(op, channel, release, url, autoclean, mode) IN
           /\ n \in Process /\ n.at \in FirstSteps
           /\ Equipped(n) /\ Relies(n, p, R)
<1> DEFINE n == Command(op, channel, release, url, autoclean, mode)
<1>1. /\ FirstStep(op, mode) \in FirstSteps
      /\ FirstStep(op, mode) = "read" => op = "bin-path"
      /\ FirstStep(op, mode) = "background" => op = "update"
  BY DEF FirstStep, RepoStep, Given, Ops, FirstSteps
<1>2. n \in Process
  BY <1>1 DEF Command, Process, Given, Steps, FirstSteps
<1>3. /\ n.op = op /\ n.at = FirstStep(op, mode) /\ n.channel = channel
      /\ n.release = release /\ n.todo = {}
  BY DEF Command
<1> HIDE DEF n
<1>4. Equipped(n) /\ Relies(n, p, R)
  BY <1>1, <1>3 DEF Equipped, Relies, Fetching, Cleaning, Late, Given, FirstSteps
<1>5. QED
  BY <1>1, <1>2, <1>3, <1>4 DEF n

LEMMA StartKeeps ==
    ASSUME NEW R, Base(R), NEW p \in Procs,
           NEW op, NEW channel, NEW release, NEW url, NEW autoclean, NEW mode,
           Given(op, channel, release, url, autoclean, mode),
           Start(p, Command(op, channel, release, url, autoclean, mode))
    PROVE  Coherent(R)' /\ Goes(p, FirstSteps)
<1> DEFINE n == Command(op, channel, release, url, autoclean, mode)
<1>1. n \in Process /\ n.at \in FirstSteps /\ Equipped(n) /\ Relies(n, p, R)
  BY CommandKnows
<1>2. /\ proc' = [proc EXCEPT ![p] = n]
      /\ UNCHANGED <<published, home, locks, handedOut>>
  BY DEF Start, n
<1> HIDE DEF n
<1>3. Moved(p) /\ proc'[p] = n
  BY <1>1, <1>2, Replaced DEF Base, Coherent
<1>4. Equipped(proc[p])' /\ Relies(proc[p], p, R)'
  BY <1>1, <1>2, <1>3 DEF Equipped, Relies, Fetching, Cleaning, Late, home
<1>5. LocksStep(p)
  BY <1>2, LocksUnchanged DEF Base, Coherent
<1>6. FilesStep(p)
  BY <1>2 DEF home, Base, Coherent, Typed, FilesTyped, FilesStep
<1>7. QED
  BY <1>1, <1>3, <1>4, <1>5, <1>6, Stepped DEF Goes

LEMMA StartAnyKeeps ==
    ASSUME RepoAssumption, NEW R, Base(R), NEW p \in Procs, StartAny(p)
    PROVE  Coherent(R)' /\ Goes(p, FirstSteps)
<1>1. CASE \E c \in Channels, autoclean \in Autoclean, mode \in Modes :
              StartUpdate(p, c, autoclean, mode)
  <2>1. PICK c \in Channels, autoclean \in Autoclean, mode \in Modes :
            StartUpdate(p, c, autoclean, mode)
    BY <1>1
  <2>2. Given("update", c, NoRelease, NoUrl, autoclean, mode)
    BY DEF Given, Ops, Contents, RepoAssumption
  <2>3. QED
    BY <2>1, <2>2, StartKeeps DEF StartUpdate
<1>2. CASE \E r \in Releases, autoclean \in Autoclean : StartUpdateToVersion(p, r, autoclean)
  <2>1. PICK r \in Releases, autoclean \in Autoclean : StartUpdateToVersion(p, r, autoclean)
    BY <1>2
  <2>2. Given("update-version", NoChannel, r, NoUrl, autoclean, "no")
    BY DEF Given, Ops, Contents, RepoAssumption
  <2>3. QED
    BY <2>1, <2>2, StartKeeps DEF StartUpdateToVersion
<1>3. CASE \E c \in Channels : StartBinPath(p, c)
  <2>1. PICK c \in Channels : StartBinPath(p, c)
    BY <1>3
  <2>2. Given("bin-path", c, NoRelease, NoUrl, FALSE, "no")
    BY DEF Given, Ops, Contents
  <2>3. QED
    BY <2>1, <2>2, StartKeeps DEF StartBinPath
<1>4. QED
  BY <1>1, <1>2, <1>3 DEF StartAny

LEMMA StartUpdateInBackgroundKeeps ==
    ASSUME NEW R, Base(R), NEW p \in Procs, NEW q \in Procs, StartUpdateInBackground(p, q)
    PROVE  /\ Coherent(R)' /\ proc'[p].at = "idle" /\ proc'[q].at \in FirstSteps
           /\ \A a \in Procs \ {p, q} : proc'[a] = proc[a]
<1> DEFINE n == Command("update", proc[p].channel, NoRelease, NoUrl, proc[p].autoclean,
                        ChildMode(proc[p].mode))
           e == Ended("ok", NoRelease)
<1>1. /\ proc[p] \in Process /\ Equipped(proc[p]) /\ proc[p].at = "background"
      /\ proc[q].at = "idle" /\ p # q /\ proc[p].channel \in Channels
  BY DEF Base, Coherent, Typed, StartUpdateInBackground, At, Equipped
<1>2. Given("update", proc[p].channel, NoRelease, NoUrl, proc[p].autoclean,
            ChildMode(proc[p].mode))
  BY <1>1 DEF Given, Ops, Contents, ChildMode, Process
<1>3. n \in Process /\ n.at \in FirstSteps /\ Equipped(n) /\ Relies(n, q, R)
  BY <1>2, CommandKnows
<1>4. e \in Process /\ e.at = "idle" /\ Equipped(e) /\ Relies(e, p, R)
  BY EndedKnows DEF Ended, Process, Ops, Steps, Contents
<1>5. /\ proc' = [proc EXCEPT ![q] = n, ![p] = e]
      /\ UNCHANGED <<published, home, locks, handedOut>>
  BY DEF StartUpdateInBackground
<1> HIDE DEF n, e
<1>6. /\ proc'[p] = e /\ proc'[q] = n /\ proc' \in [Procs -> Process]
      /\ \A a \in Procs \ {p, q} : proc'[a] = proc[a]
  BY <1>1, <1>3, <1>4, <1>5 DEF Base, Coherent, Typed
<1>7. Typed' /\ Exclusive' /\ HasRelease(R)'
  BY <1>5, <1>6 DEF home, Base, Coherent, Typed, FilesTyped, Exclusive, HasRelease
<1>8. ASSUME NEW a \in Procs PROVE Equipped(proc[a])' /\ Relies(proc[a], a, R)'
  <2>1. Equipped(proc'[a]) /\ Relies(proc'[a], a, R)
    BY <1>3, <1>4, <1>6 DEF Base, Coherent
  <2>2. QED
    BY <1>5, <2>1 DEF Equipped, Relies, Fetching, Cleaning, Late, home
<1>9. QED
  BY <1>3, <1>4, <1>6, <1>7, <1>8 DEF Coherent

\* Time and the server change nothing that a process relies on.
LEMMA NothingCoherent ==
    ASSUME NEW R, Coherent(R), FilesTyped', UNCHANGED <<channelFile, tmpChannel, dir, locks, proc>>
    PROVE  Coherent(R)'
<1>1. Typed' /\ Exclusive' /\ HasRelease(R)'
  BY DEF Coherent, Typed, Exclusive, HasRelease
<1>2. ASSUME NEW p \in Procs PROVE Equipped(proc[p])' /\ Relies(proc[p], p, R)'
  BY DEF Coherent, Equipped, Relies, Fetching, Cleaning, Late
<1>3. QED
  BY <1>1, <1>2 DEF Coherent

LEMMA OutsideKeeps ==
    ASSUME NEW R, Coherent(R), Outside
    PROVE  Coherent(R)' /\ UNCHANGED <<proc, dir, channelFile>>
<1>1. ASSUME NEW c \in Channels, NEW r \in Releases, Publish(c, r)
      PROVE  Coherent(R)' /\ UNCHANGED <<proc, dir, channelFile>>
  BY <1>1, NothingCoherent DEF Publish, home, Coherent, Typed, FilesTyped
<1>2. ASSUME NEW r \in Releases, Expire(r)
      PROVE  Coherent(R)' /\ UNCHANGED <<proc, dir, channelFile>>
  BY <1>2, NothingCoherent DEF Expire, Coherent, Typed, FilesTyped
<1>3. QED
  BY <1>1, <1>2 DEF Outside

LEMMA StepKeeps ==
    ASSUME RepoAssumption, NEW R, Base(R), NEW p \in Procs, Step(p) \/ Trouble(p)
    PROVE  Coherent(R)'
<1>1. CASE Trouble(p)
  BY <1>1, FailsKeeps, KillKeeps, SelfUpdateKeeps DEF Trouble, Fault
<1>2. CASE Step(p)
  BY <1>2, FailsKeeps, SelfUpdateKeeps, UpdateChannelKeeps, UpdateToVersionKeeps,
     SyncChannelFileKeeps, SyncChannelReleaseKeeps, RemoveBrokenKeeps, PlaceReleaseKeeps,
     InstallChannelKeeps, ResetKeeps, TouchKeeps, CleanReleasesKeeps,
     GetActualLocalReleasesKeeps, ListReleasesKeeps, JudgeReleaseKeeps, JudgeVersionKeeps,
     ForgetReleaseKeeps, EraseReleaseKeeps, CleanEndsKeeps, GetChannelReleaseKeeps,
     FindReleaseBinDirKeeps, StartUpdateInBackgroundKeeps DEF Step, Refuse
<1>3. QED
  BY <1>1, <1>2

LEMMA InitCoherent ==
    ASSUME RepoAssumption, NEW url \in Urls \cup {NoUrl}, InitWith(url), NEW R
    PROVE  Coherent(R) /\ Racing = {}
<1>1. Idle \in Process /\ Idle.at = "idle"
  BY DEF Idle, Ended, Process, Ops, Steps, Contents
<1>2. Typed
  BY <1>1 DEF InitWith, Typed, FilesTyped, Contents
<1>3. \A p \in Procs : proc[p] = Idle
  BY DEF InitWith
<1>4. Exclusive /\ HasRelease(R)
  BY DEF InitWith, Exclusive, HasRelease
<1>5. \A p \in Procs : Equipped(proc[p]) /\ Relies(proc[p], p, R)
  BY <1>3, EndedKnows DEF Idle
<1>6. Racing = {}
  BY <1>1, <1>3 DEF Racing, AboutToMark
<1>7. QED
  BY <1>2, <1>4, <1>5, <1>6 DEF Coherent

-----------------------------------------------------------------------------
(* The marks of releases *)

\* The release has a metafile of today, or a bin-path is about to make one.
MarkedOut(r) ==
    \/ metafile[r] = "recent"
    \/ \E p \in Procs : proc[p].at = "touch" /\ proc[p].op = "bin-path"
                        /\ proc[p].release = r

\* Its version has one, or an update to it is about to make one.
MarkedIn(r) ==
    \/ r \in pinned
    \/ \E p \in Procs : proc[p].at = "touch" /\ proc[p].op = "update-version"
                        /\ proc[p].release = r

\* Releases that are counted on are there and have their marks, and no cleanup that
\* has looked for a mark is about to delete one; but for those that have raced.
MarksHold ==
    /\ \A r \in HandedOut \ raced : dir[r] = "whole" /\ MarkedOut(r)
    /\ \A r \in Asked \ raced : dir[r] = "whole" /\ MarkedIn(r)
    /\ \A p \in Procs :
          /\ proc[p].at \in Late => proc[p].release \notin HandedOut \ raced
          /\ proc[p].at \in Late \ {"versions"} => proc[p].release \notin Asked \ raced

IInv ==
    /\ TypeOK
    /\ Coherent(raced) /\ Racing \subseteq raced
    /\ MarksHold

\* Nothing is remembered where no mark is finished or left.
LEMMA NothingRemembered ==
    ASSUME Remember, \A q \in Procs : proc[q].at = "touch" => proc'[q].at = "touch"
    PROVE  UNCHANGED <<asked, lostMarks, lostPins>>
<1>1. ASSUME NEW op PROVE Renewed(op) = {} /\ Stopped(op) = {}
  BY DEF Renewed, Stopped, At
<1>2. QED
  BY <1>1 DEF Remember

\* Whoever is at work on a mark goes on with it, and nobody begins to delete.
LEMMA MarksRest ==
    ASSUME MarksHold, TypeOK, Remember,
           \A q \in Procs : proc[q].at = "touch" => proc'[q] = proc[q],
           \A q \in Procs : proc'[q].at \in Late => proc'[q] = proc[q],
           \A s \in Releases : dir[s] = "whole" => dir'[s] = "whole",
           UNCHANGED <<metafile, pinned, handedOut>>
    PROVE  MarksHold'
<1>1. UNCHANGED <<asked, lostMarks, lostPins>> /\ raced \subseteq raced'
  BY NothingRemembered DEF Remember
<1>2. HandedOut' = HandedOut /\ Asked' = Asked
  BY <1>1 DEF HandedOut, Asked
<1>3. ASSUME NEW r \in Releases
      PROVE  (MarkedOut(r) => MarkedOut(r)') /\ (MarkedIn(r) => MarkedIn(r)')
  BY DEF MarkedOut, MarkedIn
<1>4. HandedOut \subseteq Releases /\ Asked \subseteq Releases
  BY DEF TypeOK, HandedOut, Asked
<1>5. QED
  BY <1>1, <1>2, <1>3, <1>4 DEF MarksHold

LEMMA MarksGo ==
    ASSUME IInv, Remember, NEW p \in Procs, NEW S, Goes(p, S), S \cap Late = {},
           proc[p].at \notin {"touch", "erase", "erased"},
           UNCHANGED <<metafile, pinned, handedOut>>
    PROVE  MarksHold'
<1>1. \A s \in Releases : dir[s] = "whole" => dir'[s] = "whole"
  BY DEF Goes, FilesStep
<1>2. proc'[p].at \notin Late /\ \A q \in Procs \ {p} : proc'[q] = proc[q]
  BY DEF Goes, Moved
<1>3. QED
  BY <1>1, <1>2, MarksRest DEF IInv

LEMMA MarksReset ==
    ASSUME IInv, Remember, NEW p \in Procs, Reset(p), Goes(p, {"touch"}), SameCommand(p),
           proc'[p].release = proc[p].release
    PROVE  MarksHold'
<1>1. /\ proc[p].at = "reset" /\ proc'[p].at = "touch" /\ proc'[p].op = proc[p].op
      /\ proc[p].op \in {"update-version", "bin-path"} /\ UNCHANGED <<dir, handedOut>>
      /\ \A q \in Procs \ {p} : proc'[q] = proc[q]
  BY DEF IInv, Coherent, Equipped, Reset, At, Goes, Moved, SameCommand
<1>2. UNCHANGED <<asked, lostMarks, lostPins>> /\ raced \subseteq raced'
  BY <1>1, NothingRemembered DEF Remember
<1>3. HandedOut' = HandedOut /\ Asked' = Asked
  BY <1>1, <1>2 DEF HandedOut, Asked
<1>4. HandedOut \subseteq Releases /\ Asked \subseteq Releases
  BY DEF IInv, TypeOK, HandedOut, Asked
<1>5. ASSUME NEW r \in Releases, MarkedOut(r) PROVE MarkedOut(r)'
  <2>1. CASE r = proc[p].release /\ proc[p].op = "bin-path"
    BY <1>1, <2>1 DEF MarkedOut
  <2>2. CASE ~(r = proc[p].release /\ proc[p].op = "bin-path")
    <3>1. metafile'[r] = metafile[r]
      BY <1>1, <2>2 DEF Reset
    <3>2. QED
      BY <1>1, <1>5, <3>1 DEF MarkedOut
  <2>3. QED
    BY <2>1, <2>2
<1>6. ASSUME NEW r \in Releases, MarkedIn(r) PROVE MarkedIn(r)'
  <2>1. CASE r = proc[p].release /\ proc[p].op = "update-version"
    BY <1>1, <2>1 DEF MarkedIn
  <2>2. CASE ~(r = proc[p].release /\ proc[p].op = "update-version")
    <3>1. r \in pinned => r \in pinned'
      BY <1>1, <2>2 DEF Reset
    <3>2. QED
      BY <1>1, <1>6, <3>1 DEF MarkedIn
  <2>3. QED
    BY <2>1, <2>2
<1>7. ASSUME NEW q \in Procs, proc'[q].at \in Late PROVE proc'[q] = proc[q]
  BY <1>1, <1>7 DEF Late
<1>8. QED
  BY <1>1, <1>2, <1>3, <1>4, <1>5, <1>6, <1>7 DEF MarksHold, IInv

\* What a finished mark is remembered as.
LEMMA TouchRemembered ==
    ASSUME Remember, NEW p \in Procs, Moved(p), proc[p].at = "touch",
           proc'[p].at \notin {"touch", "idle"}, proc[p].release \in Releases, NEW op
    PROVE  /\ Renewed(op) = IF proc[p].op = op THEN {proc[p].release} ELSE {}
           /\ Stopped(op) = {}
BY DEF Moved, Renewed, Stopped, At

LEMMA TouchMarks ==
    ASSUME IInv, Remember, NEW p \in Procs, Touch(p), Goes(p, {"clean", "find"})
    PROVE  /\ proc[p].release \in Releases
           /\ dir[proc[p].release] = "whole" \/ proc[p].release \in raced
           /\ \/ proc[p].op = "update-version" /\ Asked' = Asked \cup {proc[p].release}
                                               /\ HandedOut' = HandedOut
              \/ proc[p].op = "bin-path" /\ HandedOut' = HandedOut \cup {proc[p].release}
                                         /\ Asked' = Asked
<1> DEFINE r == proc[p].release
<1>1. /\ proc[p].at = "touch" /\ r \in Releases /\ (dir[r] = "whole" \/ r \in raced)
      /\ proc[p].op \in {"update-version", "bin-path"}
      /\ Moved(p) /\ proc'[p].at \notin {"touch", "idle"}
  BY DEF IInv, Coherent, Equipped, Relies, Touch, At, Goes
<1>2. \A op : /\ Renewed(op) = IF proc[p].op = op THEN {r} ELSE {}
              /\ Stopped(op) = {}
  BY <1>1, TouchRemembered
<1>3. CASE proc[p].op = "update-version"
  <2>1. Renewed("update-version") = {r} /\ Renewed("bin-path") = {}
    BY <1>2, <1>3
  <2>2. UNCHANGED handedOut
    BY <1>3 DEF Touch
  <2>3. QED
    BY <1>1, <1>2, <1>3, <2>1, <2>2 DEF Remember, Asked, HandedOut
<1>4. CASE proc[p].op = "bin-path"
  <2>1. Renewed("update-version") = {} /\ Renewed("bin-path") = {r}
    BY <1>2, <1>4
  <2>2. handedOut' = handedOut \cup {r}
    BY <1>1, <1>4 DEF Touch
  <2>3. QED
    BY <1>1, <1>2, <1>4, <2>1, <2>2 DEF Remember, Asked, HandedOut
<1>5. QED
  BY <1>1, <1>3, <1>4

LEMMA MarksTouch ==
    ASSUME IInv, Remember, NEW p \in Procs, Touch(p), Goes(p, {"clean", "find"})
    PROVE  MarksHold'
<1> DEFINE r == proc[p].release
<1>1. /\ r \in Releases /\ (dir[r] = "whole" \/ r \in raced)
      /\ \/ proc[p].op = "update-version" /\ Asked' = Asked \cup {r} /\ HandedOut' = HandedOut
         \/ proc[p].op = "bin-path" /\ HandedOut' = HandedOut \cup {r} /\ Asked' = Asked
  BY TouchMarks
<1>2. /\ proc[p].at = "touch" /\ proc'[p].at \notin Late /\ UNCHANGED dir
      /\ raced \subseteq raced' /\ \A q \in Procs \ {p} : proc'[q] = proc[q]
  BY DEF Touch, At, Goes, Moved, Remember, Late
<1>3. HandedOut \subseteq Releases /\ Asked \subseteq Releases
  BY DEF IInv, TypeOK, HandedOut, Asked
<1>4. ASSUME NEW s \in Releases, MarkedOut(s) PROVE MarkedOut(s)'
  <2>1. CASE proc[p].op = "bin-path" /\ s = r
    BY <2>1 DEF Touch, MarkedOut
  <2>2. CASE ~(proc[p].op = "bin-path" /\ s = r)
    <3>1. metafile'[s] = metafile[s]
      BY <1>1, <2>2 DEF Touch
    <3>2. QED
      BY <1>2, <1>4, <2>2, <3>1 DEF MarkedOut
  <2>3. QED
    BY <2>1, <2>2
<1>5. ASSUME NEW s \in Releases, MarkedIn(s) PROVE MarkedIn(s)'
  <2>1. CASE proc[p].op = "update-version" /\ s = r
    BY <2>1 DEF Touch, MarkedIn
  <2>2. CASE ~(proc[p].op = "update-version" /\ s = r)
    <3>1. s \in pinned => s \in pinned'
      BY <2>2 DEF Touch
    <3>2. QED
      BY <1>2, <1>5, <2>2, <3>1 DEF MarkedIn
  <2>3. QED
    BY <2>1, <2>2
<1>6. ASSUME NEW s \in Releases, s = r, proc[p].op = "bin-path" PROVE MarkedOut(s)'
  BY <1>6 DEF Touch, MarkedOut
<1>7. ASSUME NEW s \in Releases, s = r, proc[p].op = "update-version" PROVE MarkedIn(s)'
  BY <1>7 DEF Touch, MarkedIn
<1>8. ASSUME NEW q \in Procs, proc[q].release = r,
             \/ proc[q].at \in Late /\ proc[p].op # "update-version"
             \/ proc[q].at \in Late \ {"versions"}
      PROVE  r \in raced
  BY <1>1, <1>2, <1>8 DEF IInv, Racing, AboutToMark, AboutToDelete, At, Late
<1>9. ASSUME NEW q \in Procs
      PROVE  /\ proc'[q].at \in Late => proc'[q].release \notin HandedOut' \ raced'
             /\ proc'[q].at \in Late \ {"versions"} => proc'[q].release \notin Asked' \ raced'
  <2>1. CASE q = p
    BY <1>2, <2>1
  <2>2. CASE q # p
    <3>1. /\ proc'[q] = proc[q]
          /\ proc[q].at \in Late => proc[q].release \notin HandedOut \ raced
          /\ proc[q].at \in Late \ {"versions"} => proc[q].release \notin Asked \ raced
      BY <1>2, <2>2 DEF IInv, MarksHold
    <3>2. QED
      BY <1>1, <1>2, <1>8, <3>1
  <2>3. QED
    BY <2>1, <2>2
<1>10. ASSUME NEW s \in HandedOut' \ raced' PROVE dir'[s] = "whole" /\ MarkedOut(s)'
  <2>1. CASE s \in HandedOut
    BY <1>2, <1>3, <1>4, <1>10, <2>1 DEF IInv, MarksHold
  <2>2. CASE s \notin HandedOut
    BY <1>1, <1>2, <1>6, <1>10, <2>2
  <2>3. QED
    BY <2>1, <2>2
<1>11. ASSUME NEW s \in Asked' \ raced' PROVE dir'[s] = "whole" /\ MarkedIn(s)'
  <2>1. CASE s \in Asked
    BY <1>2, <1>3, <1>5, <1>11, <2>1 DEF IInv, MarksHold
  <2>2. CASE s \notin Asked
    BY <1>1, <1>2, <1>7, <1>11, <2>2
  <2>3. QED
    BY <2>1, <2>2
<1>12. QED
  BY <1>9, <1>10, <1>11 DEF MarksHold

\* A command that stops between the halves of a mark loses it.
LEMMA StopRemembered ==
    ASSUME IInv, Remember, NEW p \in Procs, Moved(p), proc[p].at = "touch",
           proc'[p].at = "idle", UNCHANGED handedOut
    PROVE  /\ proc[p].release \in Releases
           /\ \/ proc[p].op = "update-version" /\ Asked' = Asked \ {proc[p].release}
                                               /\ HandedOut' = HandedOut
              \/ proc[p].op = "bin-path" /\ HandedOut' = HandedOut \ {proc[p].release}
                                         /\ Asked' = Asked
<1> DEFINE r == proc[p].release
<1>1. r \in Releases /\ proc[p].op \in {"update-version", "bin-path"}
  BY DEF IInv, Coherent, Equipped
<1>2. ASSUME NEW op
      PROVE  Stopped(op) = (IF proc[p].op = op THEN {r} ELSE {}) /\ Renewed(op) = {}
  BY <1>1 DEF Moved, Renewed, Stopped, At
<1>3. CASE proc[p].op = "update-version"
  <2>1. Stopped("update-version") = {r} /\ Stopped("bin-path") = {}
    BY <1>2, <1>3
  <2>2. QED
    BY <1>1, <1>2, <1>3, <2>1 DEF Remember, Asked, HandedOut
<1>4. CASE proc[p].op = "bin-path"
  <2>1. Stopped("update-version") = {} /\ Stopped("bin-path") = {r}
    BY <1>2, <1>4
  <2>2. QED
    BY <1>1, <1>2, <1>4, <2>1 DEF Remember, Asked, HandedOut
<1>5. QED
  BY <1>1, <1>3, <1>4

LEMMA MarksStop ==
    ASSUME IInv, Remember, NEW p \in Procs, Goes(p, {"idle"}), proc[p].at = "touch",
           UNCHANGED <<dir, metafile, pinned, handedOut>>
    PROVE  MarksHold'
<1> DEFINE r == proc[p].release
<1>1. /\ Moved(p) /\ proc'[p].at = "idle" /\ raced \subseteq raced'
      /\ proc'[p].at \notin Late /\ \A q \in Procs \ {p} : proc'[q] = proc[q]
  BY DEF Goes, Moved, Remember, Late
<1>2. \/ proc[p].op = "update-version" /\ Asked' = Asked \ {r} /\ HandedOut' = HandedOut
      \/ proc[p].op = "bin-path" /\ HandedOut' = HandedOut \ {r} /\ Asked' = Asked
  BY <1>1, StopRemembered
<1>3. ASSUME NEW s \in HandedOut', MarkedOut(s) PROVE MarkedOut(s)'
  BY <1>1, <1>2, <1>3 DEF MarkedOut
<1>4. ASSUME NEW s \in Asked', MarkedIn(s) PROVE MarkedIn(s)'
  BY <1>1, <1>2, <1>4 DEF MarkedIn
<1>5. QED
  BY <1>1, <1>2, <1>3, <1>4 DEF IInv, MarksHold

\* A cleanup has found no mark of today: if one is on its way, the release races.
LEMMA MarksJudge ==
    ASSUME IInv, Remember, NEW p \in Procs, JudgeRelease(p), Goes(p, {"judge", "versions"}),
           proc'[p].at = "versions" =>
               proc'[p].release \in Releases /\ metafile[proc'[p].release] # "recent"
    PROVE  MarksHold'
<1> DEFINE r == proc'[p].release
<1>1. /\ proc[p].at = "judge" /\ UNCHANGED <<dir, metafile, pinned, handedOut>>
      /\ \A q \in Procs \ {p} : proc'[q] = proc[q]
      /\ raced \subseteq raced' /\ Racing' \subseteq raced'
  BY DEF JudgeRelease, At, home, Goes, Moved, Remember
<1>2. UNCHANGED <<asked, lostMarks, lostPins>>
  BY <1>1, NothingRemembered
<1>3. HandedOut' = HandedOut /\ Asked' = Asked
  BY <1>1, <1>2 DEF HandedOut, Asked
<1>4. ASSUME NEW s, MarkedOut(s) PROVE MarkedOut(s)'
  BY <1>1, <1>4 DEF MarkedOut
<1>5. ASSUME NEW s, MarkedIn(s) PROVE MarkedIn(s)'
  BY <1>1, <1>5 DEF MarkedIn
<1>6. ASSUME proc'[p].at \in Late PROVE r \notin HandedOut \ raced'
  <2>1. proc'[p].at = "versions" /\ r \in Releases /\ metafile[r] # "recent"
    BY <1>6 DEF Goes, Late
  <2>2. ASSUME r \in HandedOut \ raced' PROVE FALSE
    <3>1. PICK q \in Procs : proc[q].at = "touch" /\ proc[q].op = "bin-path"
                             /\ proc[q].release = r
      BY <1>1, <2>1, <2>2 DEF IInv, MarksHold, MarkedOut
    <3>2. proc'[q] = proc[q]
      BY <1>1, <3>1
    <3>3. r \in Racing'
      BY <2>1, <3>1, <3>2 DEF Racing, AboutToMark, AboutToDelete, At
    <3>4. QED
      BY <1>1, <2>2, <3>3
  <2>3. QED
    BY <2>2
<1>7. proc'[p].at \notin Late \ {"versions"}
  BY DEF Goes, Late
<1>8. QED
  BY <1>1, <1>3, <1>4, <1>5, <1>6, <1>7 DEF IInv, MarksHold

LEMMA MarksJudgeVersion ==
    ASSUME IInv, Remember, NEW p \in Procs, JudgeVersion(p), Goes(p, {"judge", "forget"}),
           proc'[p].release = proc[p].release,
           proc'[p].at = "forget" => proc[p].release \notin pinned
    PROVE  MarksHold'
<1> DEFINE r == proc[p].release
<1>1. /\ proc[p].at = "versions" /\ UNCHANGED <<dir, metafile, pinned, handedOut>>
      /\ \A q \in Procs \ {p} : proc'[q] = proc[q]
      /\ raced \subseteq raced' /\ Racing' \subseteq raced'
      /\ r \in Releases /\ r \notin HandedOut \ raced
  BY DEF JudgeVersion, At, home, Goes, Moved, Remember, IInv, Coherent, Equipped, Late, MarksHold
<1>2. UNCHANGED <<asked, lostMarks, lostPins>>
  BY <1>1, NothingRemembered
<1>3. HandedOut' = HandedOut /\ Asked' = Asked
  BY <1>1, <1>2 DEF HandedOut, Asked
<1>4. ASSUME NEW s, MarkedOut(s) PROVE MarkedOut(s)'
  BY <1>1, <1>4 DEF MarkedOut
<1>5. ASSUME NEW s, MarkedIn(s) PROVE MarkedIn(s)'
  BY <1>1, <1>5 DEF MarkedIn
<1>6. ASSUME proc'[p].at \in Late PROVE r \notin Asked \ raced'
  <2>1. proc'[p].at = "forget" /\ r \notin pinned
    BY <1>6 DEF Goes, Late
  <2>2. ASSUME r \in Asked \ raced' PROVE FALSE
    <3>1. PICK q \in Procs : proc[q].at = "touch" /\ proc[q].op = "update-version"
                             /\ proc[q].release = r
      BY <1>1, <2>1, <2>2 DEF IInv, MarksHold, MarkedIn
    <3>2. proc'[q] = proc[q]
      BY <1>1, <3>1
    <3>3. r \in Racing'
      BY <1>1, <2>1, <3>1, <3>2 DEF Racing, AboutToMark, AboutToDelete, At
    <3>4. QED
      BY <1>1, <2>2, <3>3
  <2>3. QED
    BY <2>2
<1>7. QED
  BY <1>1, <1>3, <1>4, <1>5, <1>6 DEF IInv, MarksHold

\* What is deleted is nothing that anybody counts on.
LEMMA MarksForget ==
    ASSUME IInv, Remember, NEW p \in Procs, ForgetRelease(p), Goes(p, {"erase"}),
           proc'[p].release = proc[p].release
    PROVE  MarksHold'
<1> DEFINE r == proc[p].release
<1>1. /\ proc[p].at = "forget" /\ UNCHANGED <<dir, pinned, handedOut>>
      /\ \A q \in Procs \ {p} : proc'[q] = proc[q] /\ raced \subseteq raced'
      /\ r \in Releases /\ r \notin HandedOut \ raced /\ r \notin Asked \ raced
      /\ \A s \in Releases : s # r => metafile'[s] = metafile[s]
  BY DEF ForgetRelease, At, Goes, Moved, Remember, IInv, Coherent, Equipped, Late, MarksHold,
         TypeOK
<1>2. UNCHANGED <<asked, lostMarks, lostPins>> /\ raced \subseteq raced'
  BY <1>1, NothingRemembered DEF Remember
<1>3. HandedOut' = HandedOut /\ Asked' = Asked /\ HandedOut \subseteq Releases
  BY <1>1, <1>2 DEF HandedOut, Asked, IInv, TypeOK
<1>4. ASSUME NEW s \in Releases, s # r, MarkedOut(s) PROVE MarkedOut(s)'
  BY <1>1, <1>4 DEF MarkedOut
<1>5. ASSUME NEW s, MarkedIn(s) PROVE MarkedIn(s)'
  BY <1>1, <1>5 DEF MarkedIn
<1>6. QED
  BY <1>1, <1>2, <1>3, <1>4, <1>5 DEF IInv, MarksHold

LEMMA MarksErase ==
    ASSUME IInv, Remember, NEW p \in Procs, EraseRelease(p), Goes(p, {"erased", "judge"}),
           proc'[p].release = proc[p].release,
           \A s \in Releases \ {proc[p].release} : dir'[s] = dir[s]
    PROVE  MarksHold'
<1> DEFINE r == proc[p].release
<1>1. /\ proc[p].at \in {"erase", "erased"} /\ UNCHANGED <<metafile, pinned, handedOut>>
      /\ \A q \in Procs \ {p} : proc'[q] = proc[q] /\ raced \subseteq raced'
      /\ r \in Releases /\ r \notin HandedOut \ raced /\ r \notin Asked \ raced
  BY DEF EraseRelease, Goes, Moved, Remember, IInv, Coherent, Equipped, Late, MarksHold
<1>2. UNCHANGED <<asked, lostMarks, lostPins>> /\ raced \subseteq raced'
  BY <1>1, NothingRemembered DEF Remember
<1>3. /\ HandedOut' = HandedOut /\ Asked' = Asked
      /\ HandedOut \subseteq Releases /\ Asked \subseteq Releases
  BY <1>1, <1>2 DEF HandedOut, Asked, IInv, TypeOK
<1>4. ASSUME NEW s, MarkedOut(s) PROVE MarkedOut(s)'
  BY <1>1, <1>4 DEF MarkedOut
<1>5. ASSUME NEW s, MarkedIn(s) PROVE MarkedIn(s)'
  BY <1>1, <1>5 DEF MarkedIn
<1>6. QED
  BY <1>1, <1>2, <1>3, <1>4, <1>5 DEF IInv, MarksHold

LEMMA MarksFail ==
    ASSUME IInv, Remember, NEW p \in Procs, Goes(p, {"idle"}),
           UNCHANGED <<dir, metafile, pinned, handedOut>>
    PROVE  MarksHold'
<1>1. CASE proc[p].at = "touch"
  BY <1>1, MarksStop
<1>2. CASE proc[p].at # "touch"
  <2>1. proc'[p].at \notin Late /\ \A q \in Procs \ {p} : proc'[q] = proc[q]
    BY DEF Goes, Moved, Late
  <2>2. QED
    BY <1>2, <2>1, MarksRest DEF IInv
<1>3. QED
  BY <1>1, <1>2

LEMMA MarksExpire ==
    ASSUME IInv, Remember, NEW r \in Releases, Expire(r)
    PROVE  MarksHold'
<1>1. /\ UNCHANGED <<dir, pinned, proc>> /\ handedOut' = handedOut \ {r}
      /\ \A s \in Releases : s # r => metafile'[s] = metafile[s]
  BY DEF Expire, IInv, TypeOK
<1>2. UNCHANGED <<asked, lostMarks, lostPins>> /\ raced \subseteq raced'
  BY <1>1, NothingRemembered DEF Remember
<1>3. HandedOut' = HandedOut \ {r} /\ Asked' = Asked /\ HandedOut \subseteq Releases
  BY <1>1, <1>2 DEF HandedOut, Asked, IInv, TypeOK
<1>4. ASSUME NEW s \in Releases, s # r, MarkedOut(s) PROVE MarkedOut(s)'
  BY <1>1, <1>4 DEF MarkedOut
<1>5. ASSUME NEW s, MarkedIn(s) PROVE MarkedIn(s)'
  BY <1>1, <1>5 DEF MarkedIn
<1>6. QED
  BY <1>1, <1>2, <1>3, <1>4, <1>5 DEF IInv, MarksHold

-----------------------------------------------------------------------------
(* The theorems *)

\* A larger set of releases is left out.
LEMMA Widens ==
    ASSUME NEW R, Coherent(R)', R \subseteq raced'
    PROVE  Coherent(raced)'
<1>1. HasRelease(raced)'
  BY DEF Coherent, HasRelease
<1>2. ASSUME NEW p \in Procs PROVE Relies(proc[p], p, raced)'
  BY DEF Coherent, Relies
<1>3. QED
  BY <1>1, <1>2 DEF Coherent

LEMMA RememberedTyped ==
    ASSUME TypeOK, Typed', Remember
    PROVE  TypeOK'
<1>1. \A op : Renewed(op) \subseteq Releases
  BY DEF Renewed
<1>2. Racing' \subseteq Releases
  BY DEF Racing
<1>3. /\ asked' \subseteq Releases /\ lostMarks' \subseteq Releases
      /\ lostPins' \subseteq Releases /\ raced' \subseteq Releases
  BY <1>1, <1>2 DEF TypeOK, Remember
<1>4. QED
  BY <1>3 DEF TypeOK, Typed, FilesTyped

LEMMA StepMarks ==
    ASSUME IInv, Remember, NEW p \in Procs, StartAny(p) \/ Step(p) \/ Trouble(p)
    PROVE  MarksHold'
<1>1. Base(raced)
  BY DEF IInv, Base
<1>2. ASSUME Fails(p) \/ Kill(p) PROVE MarksHold'
  <2>1. Goes(p, {"idle"})
    BY <1>1, <1>2, FailsKeeps, KillKeeps
  <2>2. QED
    BY <1>2, <2>1, MarksFail DEF Fails, Kill
<1>3. CASE StartAny(p)
  <2>1. Goes(p, FirstSteps) /\ FirstSteps \cap Late = {}
    BY <1>1, <1>3, StartAnyKeeps, RepoAssumption DEF FirstSteps, Late
  <2>2. proc[p].at = "idle" /\ UNCHANGED <<home, handedOut>>
    BY <1>3 DEF StartAny, StartUpdate, StartUpdateToVersion, StartBinPath, Start, At
  <2>3. QED
    BY <2>1, <2>2, MarksGo DEF home
<1>4. CASE Trouble(p)
  <2>1. ASSUME SelfUpdate(p, "warned") PROVE MarksHold'
    BY <1>1, <2>1, SelfUpdateKeeps, MarksGo DEF SelfUpdate, At, home, Late
  <2>2. QED
    BY <1>2, <1>4, <2>1 DEF Trouble, Fault
<1>5. CASE Step(p)
  <2>1. ASSUME SelfUpdate(p, "ok") PROVE MarksHold'
    BY <1>1, <2>1, SelfUpdateKeeps, MarksGo DEF SelfUpdate, At, home, Late
  <2>2. ASSUME UpdateChannel(p) PROVE MarksHold'
    BY <1>1, <2>2, UpdateChannelKeeps, MarksGo DEF UpdateChannel, At, Late
  <2>3. ASSUME UpdateToVersion(p) PROVE MarksHold'
    BY <1>1, <2>3, UpdateToVersionKeeps, MarksGo DEF UpdateToVersion, At, Late
  <2>4. ASSUME SyncChannelFile(p) PROVE MarksHold'
    BY <1>1, <2>4, SyncChannelFileKeeps, MarksGo DEF SyncChannelFile, At, Late
  <2>5. ASSUME SyncChannelRelease(p) PROVE MarksHold'
    BY <1>1, <2>5, SyncChannelReleaseKeeps, MarksGo DEF SyncChannelRelease, At, home, Late
  <2>6. ASSUME RemoveBroken(p) PROVE MarksHold'
    BY <1>1, <2>6, RemoveBrokenKeeps, MarksGo DEF RemoveBroken, At, Late
  <2>7. ASSUME PlaceRelease(p) PROVE MarksHold'
    BY <1>1, <2>7, PlaceReleaseKeeps, MarksGo DEF PlaceRelease, At, Late
  <2>8. ASSUME InstallChannel(p) PROVE MarksHold'
    BY <1>1, <2>8, InstallChannelKeeps, MarksGo DEF InstallChannel, At, Late
  <2>9. ASSUME Reset(p) PROVE MarksHold'
    BY <1>1, <2>9, ResetKeeps, MarksReset
  <2>10. ASSUME Touch(p) PROVE MarksHold'
    BY <1>1, <2>10, TouchKeeps, MarksTouch
  <2>11. ASSUME CleanReleases(p) PROVE MarksHold'
    BY <1>1, <2>11, CleanReleasesKeeps, MarksGo, RepoAssumption
    DEF CleanReleases, At, home, Late
  <2>12. ASSUME GetActualLocalReleases(p) PROVE MarksHold'
    BY <1>1, <2>12, GetActualLocalReleasesKeeps, MarksGo
    DEF GetActualLocalReleases, At, home, Late
  <2>13. ASSUME ListReleases(p) PROVE MarksHold'
    BY <1>1, <2>13, ListReleasesKeeps, MarksGo DEF ListReleases, At, home, Late
  <2>14. ASSUME JudgeRelease(p) PROVE MarksHold'
    BY <1>1, <2>14, JudgeReleaseKeeps, MarksJudge
  <2>15. ASSUME JudgeVersion(p) PROVE MarksHold'
    BY <1>1, <2>15, JudgeVersionKeeps, MarksJudgeVersion
  <2>16. ASSUME ForgetRelease(p) PROVE MarksHold'
    BY <1>1, <2>16, ForgetReleaseKeeps, MarksForget
  <2>17. ASSUME EraseRelease(p) PROVE MarksHold'
    BY <1>1, <2>17, EraseReleaseKeeps, MarksErase
  <2>18. ASSUME CleanEnds(p) PROVE MarksHold'
    BY <1>1, <2>18, CleanEndsKeeps, MarksFail DEF CleanEnds, home
  <2>19. ASSUME GetChannelRelease(p) PROVE MarksHold'
    BY <1>1, <2>19, GetChannelReleaseKeeps, MarksGo DEF GetChannelRelease, At, home, Late
  <2>20. ASSUME FindReleaseBinDir(p) PROVE MarksHold'
    BY <1>1, <2>20, FindReleaseBinDirKeeps, MarksFail DEF FindReleaseBinDir, home
  <2>21. ASSUME NEW q \in Procs, StartUpdateInBackground(p, q) PROVE MarksHold'
    <3>1. /\ proc'[p].at = "idle" /\ proc'[q].at \in FirstSteps
          /\ \A a \in Procs \ {p, q} : proc'[a] = proc[a]
      BY <1>1, <2>21, StartUpdateInBackgroundKeeps
    <3>2. /\ proc[p].at = "background" /\ proc[q].at = "idle"
          /\ UNCHANGED <<home, handedOut>>
      BY <2>21 DEF StartUpdateInBackground, At
    <3>3. \A a \in Procs : proc[a].at = "touch" \/ proc'[a].at \in Late => proc'[a] = proc[a]
      BY <3>1, <3>2 DEF Late, FirstSteps
    <3>4. QED
      BY <3>2, <3>3, MarksRest DEF home, IInv
  <2>22. QED
    BY <1>2, <1>5, <2>1, <2>2, <2>3, <2>4, <2>5, <2>6, <2>7, <2>8, <2>9, <2>10, <2>11, <2>12,
       <2>13, <2>14, <2>15, <2>16, <2>17, <2>18, <2>19, <2>20, <2>21 DEF Step, Refuse
<1>6. QED
  BY <1>3, <1>4, <1>5

LEMMA OutsideMarks ==
    ASSUME IInv, Remember, Outside
    PROVE  MarksHold'
<1>1. ASSUME NEW c \in Channels, NEW r \in Releases, Publish(c, r) PROVE MarksHold'
  BY <1>1, MarksRest DEF Publish, home, IInv
<1>2. QED
  BY <1>1, MarksExpire DEF Outside

LEMMA NextIInv ==
    ASSUME IInv, Next
    PROVE  /\ IInv'
           /\ \E R : R = raced /\ Coherent(R)'
<1>1. PICK R : R = raced
  OBVIOUS
<1>2. Base(R) /\ Remember
  BY <1>1 DEF IInv, Base, Next
<1>3. Coherent(R)'
  BY <1>2, StartAnyKeeps, StepKeeps, OutsideKeeps, RepoAssumption DEF Next, Base
<1>4. R \subseteq raced' /\ Racing' \subseteq raced'
  BY <1>1, <1>2 DEF Remember
<1>5. Coherent(raced)'
  BY <1>3, <1>4, Widens
<1>6. TypeOK'
  BY <1>2, <1>3, RememberedTyped DEF IInv, Coherent
<1>7. MarksHold'
  BY <1>2, StepMarks, OutsideMarks DEF Next
<1>8. QED
  BY <1>1, <1>3, <1>4, <1>5, <1>6, <1>7 DEF IInv

LEMMA InitIInv ==
    ASSUME Init PROVE IInv
<1>1. PICK url \in Urls : InitWith(url)
  BY DEF Init
<1>2. Coherent(raced) /\ Racing = {}
  BY <1>1, InitCoherent, RepoAssumption
<1>3. TypeOK
  BY <1>1, <1>2 DEF InitWith, Coherent, Typed, FilesTyped, TypeOK
<1>4. MarksHold
  BY <1>1 DEF InitWith, MarksHold, HandedOut, Asked, Idle, Ended, Late
<1>5. QED
  BY <1>2, <1>3, <1>4 DEF IInv

\* Nothing happens.
LEMMA StutterIInv ==
    ASSUME IInv, UNCHANGED vars PROVE IInv'
<1>1. TypeOK'
  BY DEF IInv, TypeOK, vars, home
<1>2. Coherent(raced)'
  BY DEF IInv, Coherent, Typed, FilesTyped, Exclusive, HasRelease, Equipped, Relies, Fetching,
         vars, home
<1>3. (Racing \subseteq raced)'
  BY DEF IInv, Racing, AboutToMark, AboutToDelete, At, vars, home
<1>4. MarksHold'
  BY DEF IInv, MarksHold, MarkedOut, MarkedIn, HandedOut, Asked, vars, home
<1>5. QED
  BY <1>1, <1>2, <1>3, <1>4 DEF IInv

LEMMA SpecIInv == Spec => []IInv
<1>1. IInv /\ [Next]_vars => IInv'
  BY NextIInv, StutterIInv
<1>2. QED
  BY <1>1, InitIInv, PTL DEF Spec

\* Files, locks, processes and what is remembered keep their shape.
THEOREM RepoClientTypeOK == Spec => []TypeOK
<1>1. IInv => TypeOK
  BY DEF IInv
<1>2. QED
  BY <1>1, SpecIInv, PTL

\* The release an installed channel names is there, and whole, for any number of
\* processes, channels and releases, with updates killed or failed at any step and
\* cleanups beside them (repo/update.go, repo/clean_releases.go), unless it has raced
\* with a cleanup that had read the channels before it was installed.
THEOREM ChannelKeepsRelease == Spec => []ChannelHasRelease
<1>1. IInv => ChannelHasRelease
  BY DEF IInv, Coherent, HasRelease, ChannelHasRelease
<1>2. QED
  BY <1>1, SpecIInv, PTL

\* No cleanup takes away a version that somebody has asked for by its number, also
\* one beside other commands (repo/update.go, UpdateToVersion; clean_releases.go,
\* pinnedVersion), unless it was about to delete the release when the mark was made
\* (raced), or a later command has lost the mark (lostPins).
THEOREM PinnedReleasesStay == Spec => []PinnedHasRelease
<1>1. IInv => PinnedHasRelease
  BY DEF IInv, MarksHold, PinnedHasRelease
<1>2. QED
  BY <1>1, SpecIInv, PTL

\* Nor one whose path somebody was given less than a day ago: the mark is made
\* before the path is returned, and read before anything is deleted (util/metafile.go;
\* repo/clean_releases.go), unless it was read just before it was made (raced), or a
\* later command has lost it (lostMarks).
THEOREM HandedOutReleasesStay == Spec => []HandedOutKept
<1>1. IInv => HandedOutKept
  BY DEF IInv, MarksHold, HandedOutKept
<1>2. QED
  BY <1>1, SpecIInv, PTL

-----------------------------------------------------------------------------
(* RepoClient implements LocalRepository *)

LocalStep == [Local!Next]_(Local!vars)

ComingAll == [c \in Channels |-> Coming(c)]
Here      == Whole \cup raced

\* Two states and what is remembered in between.
Observed ==
    /\ IInv /\ Typed' /\ Remember
    /\ Here' = Whole' \cup raced

\* A release that comes to race is there.
LEMMA RacedSeen ==
    ASSUME NEW R, R = raced, Coherent(R)', Remember
    PROVE  Here' = Whole' \cup raced
<1>1. ASSUME NEW r \in Racing' PROVE r \in Whole' \cup raced
  <2>1. PICK q \in Procs : r \in Releases /\ AboutToMark(q, r)'
    BY <1>1 DEF Racing
  <2>2. dir'[r] = "whole" \/ r \in R
    BY <2>1 DEF Coherent, Relies, AboutToMark
  <2>3. QED
    BY <2>1, <2>2 DEF Whole
<1>2. QED
  BY <1>1 DEF Here, Remember

LEMMA WholeSame == ASSUME Observed, UNCHANGED dir PROVE Here' = Here
BY DEF Observed, Here, Whole

\* What a user sees does not change.
LEMMA Unseen ==
    ASSUME UNCHANGED <<published, channelFile, Asked, HandedOut>>, Here' = Here,
           ComingAll' = ComingAll
    PROVE  LocalStep
BY DEF LocalStep, Local!vars, ComingAll, Here

\* No mark is finished or left.
LEMMA MarksSame ==
    ASSUME Observed, NEW p \in Procs, Moved(p), proc[p].at # "touch", UNCHANGED handedOut
    PROVE  UNCHANGED <<Asked, HandedOut>>
<1>1. \A q \in Procs : proc[q].at = "touch" => proc'[q].at = "touch"
  BY DEF Moved
<1>2. UNCHANGED <<asked, lostMarks, lostPins>>
  BY <1>1, NothingRemembered DEF Observed
<1>3. QED
  BY <1>2 DEF Asked, HandedOut

\* The update lock makes an update of a channel the only one.
LEMMA ComingIsOne ==
    ASSUME IInv, NEW p \in Procs, Fetching(proc[p])
    PROVE  /\ proc[p].channel \in Channels
           /\ Coming(proc[p].channel) = {proc[p].release} \cap Releases
<1>1. proc[p].channel \in Channels
  BY DEF IInv, Coherent, Equipped, Fetching
<1>2. ASSUME NEW q \in Procs, Fetching(proc[q]), proc[q].channel = proc[p].channel
      PROVE  q = p
  BY <1>1, <1>2, LocksTyped DEF IInv, Coherent, Relies, Exclusive
<1>3. QED
  BY <1>1, <1>2 DEF Coming

LEMMA ComingElsewhere ==
    ASSUME NEW p \in Procs, Moved(p), NEW c,
           Fetching(proc[p]) => proc[p].channel # c,
           Fetching(proc'[p]) => proc'[p].channel # c
    PROVE  Coming(c)' = Coming(c)
BY DEF Coming, Moved, Fetching

\* A process that updates no channel, before the step and after it.
LEMMA NotComing ==
    ASSUME NEW p \in Procs, Moved(p), ~Fetching(proc[p]), ~Fetching(proc'[p])
    PROVE  ComingAll' = ComingAll
BY ComingElsewhere DEF ComingAll

\* An update goes on with what it has fetched.
LEMMA StillComing ==
    ASSUME NEW p \in Procs, Moved(p), Fetching(proc[p]) <=> Fetching(proc'[p]),
           Fetching(proc[p]) => /\ proc'[p].channel = proc[p].channel
                                /\ proc'[p].release = proc[p].release
    PROVE  ComingAll' = ComingAll
BY DEF ComingAll, Coming, Moved, Fetching

\* It has ended, or nothing can come of it any more.
LEMMA ComesNoMore ==
    ASSUME IInv, NEW p \in Procs, Moved(p), Fetching(proc[p]),
           Fetching(proc'[p]) => /\ proc'[p].channel = proc[p].channel
                                 /\ proc'[p].release \notin Releases
    PROVE  ComingAll' = [ComingAll EXCEPT ![proc[p].channel] = {}]
<1>1. PICK c \in Channels : c = proc[p].channel
  BY ComingIsOne
<1>2. Coming(c)' = {}
  <2>1. ASSUME NEW q \in Procs \ {p}, Fetching(proc[q]) PROVE proc[q].channel # c
    BY <1>1, <2>1, LocksTyped DEF IInv, Coherent, Relies, Exclusive
  <2>2. ASSUME NEW q \in Procs, Fetching(proc'[q]), proc'[q].channel = c
        PROVE  proc'[q].release \notin Releases
    <3>1. CASE q = p
      BY <2>2, <3>1
    <3>2. CASE q # p
      BY <2>1, <2>2, <3>2 DEF Moved
    <3>3. QED
      BY <3>1, <3>2
  <2>3. QED
    BY <2>2 DEF Coming, Fetching
<1>3. ASSUME NEW d \in Channels, d # c PROVE Coming(d)' = Coming(d)
  BY <1>1, <1>3, ComingElsewhere
<1>4. QED
  BY <1>1, <1>2, <1>3 DEF ComingAll

\* The files and the process of a step that a user does not see.
LEMMA UnseenMove ==
    ASSUME Observed, NEW p \in Procs, Moved(p), ~Fetching(proc[p]), ~Fetching(proc'[p]),
           proc[p].at # "touch", UNCHANGED <<published, channelFile, dir, handedOut>>
    PROVE  LocalStep
BY NotComing, WholeSame, MarksSame, Unseen

\* An update is given up, a mark is left between its halves, or nothing that a user
\* sees.
LEMMA EndsSeen ==
    ASSUME Observed, NEW p \in Procs, Goes(p, {"idle"}),
           UNCHANGED <<published, channelFile, dir, handedOut>>
    PROVE  LocalStep
<1>1. Moved(p) /\ ~Fetching(proc'[p]) /\ proc'[p].at = "idle"
  BY DEF Goes, Fetching
<1>2. Here' = Here
  BY WholeSame
<1>3. CASE Fetching(proc[p])
  <2>1. ComingAll' = [ComingAll EXCEPT ![proc[p].channel] = {}]
    BY <1>1, <1>3, ComesNoMore DEF Observed
  <2>2. proc[p].channel \in Channels /\ UNCHANGED <<Asked, HandedOut>>
    BY <1>1, <1>3, ComingIsOne, MarksSame DEF Fetching, Observed
  <2>3. Local!GiveUpUpdate(proc[p].channel)
    BY <1>2, <2>1, <2>2 DEF Local!GiveUpUpdate, ComingAll, Here
  <2>4. QED
    BY <2>2, <2>3 DEF LocalStep, Local!Next
<1>4. CASE ~Fetching(proc[p]) /\ proc[p].at = "touch"
  <2> DEFINE r == proc[p].release
  <2>1. ComingAll' = ComingAll
    BY <1>1, <1>4, NotComing
  <2>2. /\ r \in Releases
        /\ \/ Asked' = Asked \ {r} /\ HandedOut' = HandedOut
           \/ HandedOut' = HandedOut \ {r} /\ Asked' = Asked
    BY <1>1, <1>4, StopRemembered DEF Observed
  <2>3. Local!Unpin(r) \/ Local!Forget(r)
    BY <1>2, <2>1, <2>2 DEF Local!Unpin, Local!Forget, ComingAll, Here
  <2>4. QED
    BY <2>2, <2>3 DEF LocalStep, Local!Next
<1>5. CASE ~Fetching(proc[p]) /\ proc[p].at # "touch"
  BY <1>1, <1>5, UnseenMove
<1>6. QED
  BY <1>3, <1>4, <1>5

-----------------------------------------------------------------------------
(* What each step is to a user *)

\* A process goes on with a record of another step.
LEMMA ReplacedMoves ==
    ASSUME Typed, Typed', NEW p \in Procs, NEW n, proc' = [proc EXCEPT ![p] = n]
    PROVE  Moved(p) /\ proc'[p] = n
BY DEF Typed, Moved

LEMMA UpdateChannelSeen ==
    ASSUME Observed, NEW p \in Procs, UpdateChannel(p)
    PROVE  LocalStep
<1>1. PICK c \in Channels : c = proc[p].channel
  BY DEF Observed, IInv, Coherent, Typed, FilesTyped, Equipped, UpdateChannel, At
<1> DEFINE upToDate == channelFile[c] = published[c]
           n == [proc[p] EXCEPT !.at = IF upToDate THEN "sync" ELSE "fetch",
                                !.upToDate = upToDate, !.release = published[c]]
<1>2. /\ proc[p] \in Process /\ proc[p].at = "tuf" /\ proc[p].op = "update"
      /\ published[c] \in Releases
  BY DEF Observed, IInv, Coherent, Typed, FilesTyped, UpdateChannel, At
<1>3. /\ n.at = IF upToDate THEN "sync" ELSE "fetch"
      /\ n.op = "update" /\ n.channel = c /\ n.upToDate = upToDate /\ n.release = published[c]
  BY <1>1, <1>2 DEF Process
<1>4. proc' = [proc EXCEPT ![p] = n]
  BY <1>1 DEF UpdateChannel
<1> HIDE DEF n, upToDate
<1>5. Moved(p) /\ proc'[p] = n
  BY <1>4, ReplacedMoves DEF Observed, IInv, Coherent
<1>6. ~Fetching(proc[p]) /\ (Fetching(proc'[p]) <=> ~upToDate)
  BY <1>2, <1>3, <1>5 DEF Fetching
<1>7. Here' = Here /\ UNCHANGED <<published, channelFile, Asked, HandedOut>>
  BY <1>2, <1>5, WholeSame, MarksSame DEF UpdateChannel
<1>8. CASE upToDate
  BY <1>5, <1>6, <1>7, <1>8, NotComing, Unseen
<1>9. CASE ~upToDate
  <2>1. Coming(c) = {}
    <3>1. ASSUME NEW q \in Procs, Fetching(proc[q]) PROVE proc[q].channel # c
      BY <1>1, <3>1 DEF Observed, IInv, Coherent, Typed, FilesTyped, Relies, UpdateChannel, Free
    <3>2. QED
      BY <3>1 DEF Coming
  <2>2. Coming(c)' = {published[c]}
    <3>1. ASSUME NEW q \in Procs \ {p}, Fetching(proc'[q]) PROVE proc'[q].channel # c
      BY <1>1, <1>5, <3>1 DEF Observed, IInv, Coherent, Typed, FilesTyped, Relies, UpdateChannel, Free, Moved
    <3>2. QED
      BY <1>2, <1>3, <1>5, <1>6, <1>9, <3>1 DEF Coming, Fetching
  <2>3. ASSUME NEW d \in Channels, d # c PROVE Coming(d)' = Coming(d)
    BY <1>3, <1>5, <1>6, <2>3, ComingElsewhere
  <2>4. ComingAll[c] = {} /\ ComingAll' = [ComingAll EXCEPT ![c] = {published[c]}]
    BY <2>1, <2>2, <2>3 DEF ComingAll
  <2>5. Local!BeginUpdate(c)
    BY <1>7, <2>4 DEF Local!BeginUpdate, ComingAll, Here
  <2>6. QED
    BY <2>5 DEF LocalStep, Local!Next
<1>10. QED
  BY <1>8, <1>9

LEMMA UpdateToVersionUnseen ==
    ASSUME Observed, NEW p \in Procs, UpdateToVersion(p)
    PROVE  LocalStep
<1>1. proc[p].at = "tuf" /\ Moved(p) /\ SameCommand(p) /\ proc'[p].at = "sync"
  BY GoesOn DEF Observed, IInv, Coherent, UpdateToVersion, Steps, At
<1>2. QED
  BY <1>1, UnseenMove DEF UpdateToVersion, SameCommand, Fetching

\* What has been fetched names the release, or nothing.
LEMMA SyncChannelFileSeen ==
    ASSUME RepoAssumption, Observed, NEW p \in Procs, SyncChannelFile(p)
    PROVE  LocalStep
<1>1. PICK content \in Downloaded(tmpChannel[proc[p].channel], proc[p].release) :
          proc' = [proc EXCEPT ![p].at = "sync", ![p].release = content]
  BY DEF SyncChannelFile
<1> DEFINE n == [proc[p] EXCEPT !.at = "sync", !.release = content]
<1>2. proc[p] \in Process /\ proc[p].at = "fetch" /\ Fetching(proc[p])
  BY DEF Observed, IInv, Coherent, Typed, FilesTyped, SyncChannelFile, At, Equipped, Fetching
<1>3. /\ n.at = "sync" /\ n.op = proc[p].op /\ n.channel = proc[p].channel
      /\ n.upToDate = proc[p].upToDate /\ n.release = content
  BY <1>2 DEF Process
<1>4. proc' = [proc EXCEPT ![p] = n]
  BY <1>1
<1> HIDE DEF n
<1>5. Moved(p) /\ proc'[p] = n
  BY <1>4, ReplacedMoves DEF Observed, IInv, Coherent
<1>6. Here' = Here /\ UNCHANGED <<published, channelFile, Asked, HandedOut>>
  BY <1>2, <1>5, WholeSame, MarksSame DEF SyncChannelFile
<1>7. CASE content = proc[p].release
  <2>1. ComingAll' = ComingAll
    BY <1>2, <1>3, <1>5, <1>7, StillComing DEF Fetching
  <2>2. QED
    BY <1>6, <2>1, Unseen
<1>8. CASE content = Garbled
  <2>1. ComingAll' = [ComingAll EXCEPT ![proc[p].channel] = {}]
    BY <1>2, <1>3, <1>5, <1>8, ComesNoMore DEF RepoAssumption, Observed
  <2>2. Local!GiveUpUpdate(proc[p].channel)
    BY <1>6, <2>1 DEF Local!GiveUpUpdate, ComingAll, Here
  <2>3. QED
    BY <1>2, <2>2, ComingIsOne DEF LocalStep, Local!Next, Observed
<1>9. QED
  BY <1>1, <1>7, <1>8 DEF Downloaded

\* The update goes on with its release.
LEMMA GoesOnComing ==
    ASSUME Observed, NEW p \in Procs, NEW step \in {"unpack", "place", Synced(p)},
           proc[p].at \in {"sync", "unpack", "place"}, Goto(p, step), UNCHANGED handedOut
    PROVE  ComingAll' = ComingAll /\ UNCHANGED <<Asked, HandedOut>>
<1>1. proc[p].op \in {"update", "update-version"}
  BY DEF Observed, IInv, Coherent, Equipped
<1>2. /\ step \in Steps
      /\ proc[p].op = "update" /\ ~proc[p].upToDate =>
            step \in {"unpack", "place", "install"}
  BY <1>1 DEF Synced, Steps
<1>3. /\ Moved(p) /\ SameCommand(p) /\ proc'[p].at = step
      /\ proc'[p].release = proc[p].release
  BY <1>2, GoesOn DEF Observed, IInv, Coherent
<1>4. Fetching(proc[p]) <=> Fetching(proc'[p])
  BY <1>2, <1>3 DEF Fetching, SameCommand
<1>5. QED
  BY <1>3, <1>4, StillComing, MarksSame DEF SameCommand

LEMMA SyncChannelReleaseUnseen ==
    ASSUME Observed, NEW p \in Procs, SyncChannelRelease(p)
    PROVE  LocalStep
<1>1. ComingAll' = ComingAll /\ UNCHANGED <<Asked, HandedOut>>
  BY GoesOnComing DEF SyncChannelRelease, At
<1>2. QED
  BY <1>1, WholeSame, Unseen DEF SyncChannelRelease, home

LEMMA RemoveBrokenUnseen ==
    ASSUME Observed, NEW p \in Procs, RemoveBroken(p)
    PROVE  LocalStep
<1>1. ComingAll' = ComingAll /\ UNCHANGED <<Asked, HandedOut>>
  BY GoesOnComing DEF RemoveBroken, At
<1>2. proc[p].release \in Releases /\ dir[proc[p].release] # "whole"
  BY DEF Observed, IInv, Coherent, RemoveBroken, At, Equipped, Relies
<1>3. Whole' = Whole
  BY <1>2 DEF RemoveBroken, Whole, Observed, IInv, TypeOK
<1>4. QED
  BY <1>1, <1>3, Unseen DEF RemoveBroken, Observed, Here

LEMMA PlaceReleaseSeen ==
    ASSUME Observed, NEW p \in Procs, PlaceRelease(p)
    PROVE  LocalStep
<1>1. ComingAll' = ComingAll /\ UNCHANGED <<Asked, HandedOut>>
  BY GoesOnComing DEF PlaceRelease, At
<1>2. proc[p].release \in Releases
  BY DEF Observed, IInv, Coherent, PlaceRelease, At, Equipped
<1>3. Whole' = Whole \cup {proc[p].release}
  BY <1>2 DEF PlaceRelease, Whole, Observed, IInv, TypeOK
<1>4. Here' = Here \cup {proc[p].release}
  BY <1>3 DEF Observed, Here
<1>5. Local!Place(proc[p].release)
  BY <1>1, <1>4 DEF Local!Place, PlaceRelease, ComingAll, Here
<1>6. QED
  BY <1>2, <1>5 DEF LocalStep, Local!Next

LEMMA InstallChannelSeen ==
    ASSUME Observed, NEW p \in Procs, InstallChannel(p)
    PROVE  LocalStep
<1> DEFINE c == proc[p].channel
           r == proc[p].release
<1>1. /\ Fetching(proc[p]) /\ c \in Channels /\ r \in Releases /\ proc[p].at = "install"
      /\ tmpChannel[c] = r /\ r \in Here
  BY DEF Observed, IInv, Coherent, InstallChannel, At, Equipped, Relies, Fetching, Here, Whole
<1>2. ComingAll[c] = {r}
  BY <1>1, ComingIsOne DEF ComingAll, Observed
<1>3. Moved(p) /\ SameCommand(p) /\ proc'[p].at = "clean"
  BY GoesOn DEF Observed, IInv, Coherent, InstallChannel, Steps
<1>4. ComingAll' = [ComingAll EXCEPT ![c] = {}]
  BY <1>1, <1>3, ComesNoMore DEF Fetching, Observed
<1>5. channelFile' = [channelFile EXCEPT ![c] = r]
  BY <1>1 DEF InstallChannel
<1>6. Here' = Here /\ UNCHANGED <<published, Asked, HandedOut>>
  BY <1>1, <1>3, WholeSame, MarksSame DEF InstallChannel
<1>7. Local!FinishUpdate(c)
  BY <1>1, <1>2, <1>4, <1>5, <1>6 DEF Local!FinishUpdate, ComingAll, Here
<1>8. QED
  BY <1>1, <1>7 DEF LocalStep, Local!Next

\* A mark that is taken away to be renewed is still counted on.
LEMMA ResetUnseen ==
    ASSUME Observed, NEW p \in Procs, Reset(p)
    PROVE  LocalStep
<1>1. proc[p].at = "reset" /\ Goes(p, {"touch"})
  BY ResetKeeps DEF Observed, IInv, Base, Reset, At
<1>2. QED
  BY <1>1, UnseenMove DEF Reset, Goes, Fetching

LEMMA TouchSeen ==
    ASSUME Observed, NEW p \in Procs, Touch(p)
    PROVE  LocalStep
<1> DEFINE r == proc[p].release
<1>1. proc[p].at = "touch" /\ Goes(p, {"clean", "find"})
  BY TouchKeeps DEF Observed, IInv, Base, Touch, At
<1>2. ComingAll' = ComingAll
  BY <1>1, NotComing DEF Goes, Fetching
<1>3. Here' = Here /\ UNCHANGED <<published, channelFile>>
  BY WholeSame DEF Touch
<1>4. /\ r \in Releases /\ r \in Here
      /\ \/ Asked' = Asked \cup {r} /\ HandedOut' = HandedOut
         \/ HandedOut' = HandedOut \cup {r} /\ Asked' = Asked
  BY <1>1, TouchMarks DEF Observed, Here, Whole
<1>5. Local!Pin(r) \/ Local!HandOut(r)
  BY <1>2, <1>3, <1>4 DEF Local!Pin, Local!HandOut, ComingAll, Here
<1>6. QED
  BY <1>4, <1>5 DEF LocalStep, Local!Next

LEMMA CleaningUnseen ==
    ASSUME RepoAssumption, Observed, NEW p \in Procs,
           \/ CleanReleases(p) \/ GetActualLocalReleases(p) \/ ListReleases(p)
           \/ JudgeRelease(p) \/ JudgeVersion(p) \/ ForgetRelease(p) \/ CleanEnds(p)
    PROVE  LocalStep
<1>1. Base(raced)
  BY DEF Observed, IInv, Base
<1>2. proc[p].at \in {"clean", "actual", "judge", "versions", "forget"}
  BY DEF CleanReleases, GetActualLocalReleases, ListReleases, JudgeRelease, JudgeVersion,
         ForgetRelease, CleanEnds, At
<1>3. Moved(p) /\ proc'[p].at \in {"idle", "actual", "judge", "versions", "forget", "erase"}
  BY <1>1, CleanReleasesKeeps, GetActualLocalReleasesKeeps, ListReleasesKeeps,
     JudgeReleaseKeeps, JudgeVersionKeeps, ForgetReleaseKeeps, CleanEndsKeeps DEF Goes
<1>4. UNCHANGED <<published, channelFile, dir, handedOut>>
  BY DEF CleanReleases, GetActualLocalReleases, ListReleases, JudgeRelease, JudgeVersion,
         ForgetRelease, CleanEnds, home
<1>5. QED
  BY <1>2, <1>3, <1>4, UnseenMove DEF Fetching

\* A release goes that nobody counts on, or one that has raced.
LEMMA EraseReleaseSeen ==
    ASSUME Observed, NEW p \in Procs, EraseRelease(p)
    PROVE  LocalStep
<1> DEFINE r == proc[p].release
<1>1. /\ r \in Releases /\ proc[p].at \in {"erase", "erased"}
      /\ \A c \in Channels : channelFile[c] = r => r \in raced
      /\ r \notin Asked \ raced /\ r \notin HandedOut \ raced
  BY DEF Observed, IInv, Coherent, EraseRelease, Equipped, Relies, MarksHold, Late
<1>2. Goes(p, {"erased", "judge"})
  BY EraseReleaseKeeps DEF Observed, IInv, Base
<1>3. ComingAll' = ComingAll
  BY <1>1, <1>2, NotComing DEF Goes, Fetching
<1>4. UNCHANGED <<published, channelFile, Asked, HandedOut>>
  BY <1>1, <1>2, MarksSame DEF Goes, EraseRelease
<1>5. PICK left \in {"partial", "none"} : dir' = [dir EXCEPT ![r] = left]
  BY DEF EraseRelease
<1>6. Here' = (Whole \ {r}) \cup raced
  BY <1>1, <1>5 DEF Observed, IInv, TypeOK, Whole
<1>7. CASE r \in raced
  BY <1>3, <1>4, <1>6, <1>7, Unseen DEF Here
<1>8. CASE r \notin raced
  <2>1. Local!Clean(r)
    BY <1>1, <1>3, <1>4, <1>6, <1>8 DEF Local!Clean, ComingAll, Here
  <2>2. QED
    BY <1>1, <2>1 DEF LocalStep, Local!Next
<1>9. QED
  BY <1>7, <1>8

LEMMA BinPathUnseen ==
    ASSUME Observed, NEW p \in Procs, GetChannelRelease(p) \/ FindReleaseBinDir(p)
    PROVE  LocalStep
<1>1. Goes(p, {"reset"}) \/ Goes(p, {"idle"})
  BY GetChannelReleaseKeeps, FindReleaseBinDirKeeps DEF Observed, IInv, Base
<1>2. QED
  BY <1>1, UnseenMove DEF GetChannelRelease, FindReleaseBinDir, Goes, Fetching, At, home

LEMMA SelfUpdateUnseen ==
    ASSUME Observed, NEW p \in Procs, NEW result \in {"ok", "warned"}, SelfUpdate(p, result)
    PROVE  LocalStep
<1>1. Goes(p, {"tuf"})
  BY SelfUpdateKeeps DEF Observed, IInv, Base
<1>2. QED
  BY <1>1, UnseenMove DEF SelfUpdate, Goes, Fetching, At, home

\* A command begins with nothing on its way to a channel.
LEMMA StartAnyUnseen ==
    ASSUME RepoAssumption, Observed, NEW p \in Procs, StartAny(p)
    PROVE  LocalStep
<1>1. Goes(p, FirstSteps)
  BY StartAnyKeeps DEF Observed, IInv, Base
<1>2. proc[p].at = "idle" /\ UNCHANGED <<published, home, handedOut>>
  BY DEF StartAny, StartUpdate, StartUpdateToVersion, StartBinPath, Start, At
<1>3. QED
  BY <1>1, <1>2, UnseenMove DEF Goes, Fetching, FirstSteps, home

LEMMA StartUpdateInBackgroundUnseen ==
    ASSUME Observed, NEW p \in Procs, NEW q \in Procs, StartUpdateInBackground(p, q)
    PROVE  LocalStep
<1>1. /\ proc'[p].at = "idle" /\ proc'[q].at \in FirstSteps
      /\ \A a \in Procs \ {p, q} : proc'[a] = proc[a]
  BY StartUpdateInBackgroundKeeps DEF Observed, IInv, Base
<1>2. /\ proc[p].at = "background" /\ proc[q].at = "idle"
      /\ UNCHANGED <<published, home, handedOut>>
  BY DEF StartUpdateInBackground, At
<1>3. /\ ~Fetching(proc[p]) /\ ~Fetching(proc[q])
      /\ ~Fetching(proc'[p]) /\ ~Fetching(proc'[q])
  BY <1>1, <1>2 DEF Fetching, FirstSteps
<1>4. ComingAll' = ComingAll
  BY <1>1, <1>3 DEF ComingAll, Coming, Fetching
<1>5. \A a \in Procs : proc[a].at = "touch" => proc'[a].at = "touch"
  BY <1>1, <1>2
<1>6. UNCHANGED <<asked, lostMarks, lostPins>>
  BY <1>5, NothingRemembered DEF Observed
<1>7. UNCHANGED <<published, channelFile, Asked, HandedOut>>
  BY <1>2, <1>6 DEF home, Asked, HandedOut
<1>8. QED
  BY <1>2, <1>4, <1>7, WholeSame, Unseen DEF home

LEMMA FailsSeen ==
    ASSUME Observed, NEW p \in Procs, Fails(p) \/ Kill(p)
    PROVE  LocalStep
<1>1. Goes(p, {"idle"})
  BY FailsKeeps, KillKeeps DEF Observed, IInv, Base
<1>2. QED
  BY <1>1, EndsSeen DEF Fails, Kill

LEMMA OutsideSeen ==
    ASSUME Observed, Outside
    PROVE  LocalStep
<1>1. UNCHANGED <<proc, dir>>
  BY DEF Outside, Publish, Expire, home
<1>2. ComingAll' = ComingAll /\ Here' = Here
  BY <1>1, WholeSame DEF ComingAll, Coming
<1>3. UNCHANGED <<asked, lostMarks, lostPins>>
  BY <1>1, NothingRemembered DEF Observed
<1>4. ASSUME NEW c \in Channels, NEW r \in Releases, Publish(c, r) PROVE LocalStep
  <2>1. Local!Publish(c, r)
    BY <1>2, <1>3, <1>4 DEF Publish, home, Local!Publish, ComingAll, Here, Asked, HandedOut
  <2>2. QED
    BY <2>1 DEF LocalStep, Local!Next
<1>5. ASSUME NEW r \in Releases, Expire(r) PROVE LocalStep
  <2>1. HandedOut' = HandedOut \ {r} /\ Asked' = Asked
    BY <1>3, <1>5 DEF Expire, HandedOut, Asked
  <2>2. Local!Forget(r)
    BY <1>2, <1>5, <2>1 DEF Expire, Local!Forget, ComingAll, Here
  <2>3. QED
    BY <2>2 DEF LocalStep, Local!Next
<1>6. QED
  BY <1>4, <1>5 DEF Outside

LEMMA StepSeen ==
    ASSUME RepoAssumption, Observed, NEW p \in Procs, Step(p) \/ Trouble(p)
    PROVE  LocalStep
<1>1. CASE Trouble(p)
  BY <1>1, FailsSeen, SelfUpdateUnseen DEF Trouble, Fault
<1>2. CASE Step(p)
  BY <1>2, SelfUpdateUnseen, UpdateChannelSeen, UpdateToVersionUnseen,
     SyncChannelFileSeen, SyncChannelReleaseUnseen, RemoveBrokenUnseen, PlaceReleaseSeen,
     InstallChannelSeen, ResetUnseen, TouchSeen, CleaningUnseen, EraseReleaseSeen,
     BinPathUnseen, FailsSeen, StartUpdateInBackgroundUnseen
     DEF Step, Refuse
<1>3. QED
  BY <1>1, <1>2

LEMMA NothingYet ==
    ASSUME NEW url, InitWith(url)
    PROVE  Local!Init
<1>1. \A p \in Procs : ~Fetching(proc[p])
  BY DEF InitWith, Idle, Ended, Fetching
<1>2. \A c \in Channels : Coming(c) = {}
  BY <1>1 DEF Coming
<1>3. Whole \cup raced = {} /\ Asked = {} /\ HandedOut = {}
  BY DEF InitWith, Whole, Asked, HandedOut
<1>4. QED
  BY <1>2, <1>3 DEF InitWith, Local!Init

\* Whatever the processes do to files and locks, also cleanups beside other commands,
\* and wherever they are killed, a channel goes from one whole release to the next in
\* the order the server has published them, no update overtakes another
\* (repo/update.go, the update-channel lock), and no release is taken away that is
\* installed, pinned or handed out (repo/clean_releases.go; util/metafile.go), but for
\* those that have raced with a cleanup and the marks a killed Reset has lost.
THEOREM ImplementsLocalRepository == Spec => LocalSpec
<1>1. Init => Local!Init
  BY NothingYet DEF Init
<1>2. IInv /\ [Next]_vars => LocalStep
  <2> SUFFICES ASSUME IInv, [Next]_vars PROVE LocalStep
    OBVIOUS
  <2>1. CASE Next
    <3>1. PICK R : R = raced /\ Coherent(R)'
      BY <2>1, NextIInv
    <3>2. Observed
      BY <2>1, <3>1, RacedSeen DEF Observed, Coherent, Next
    <3>3. QED
      BY <2>1, <3>2, StartAnyUnseen, StepSeen, OutsideSeen, RepoAssumption DEF Next
  <2>2. CASE UNCHANGED vars
    <3>1. ComingAll' = ComingAll /\ Here' = Here /\ UNCHANGED <<Asked, HandedOut>>
      BY <2>2 DEF vars, home, ComingAll, Coming, Here, Whole, Asked, HandedOut
    <3>2. QED
      BY <2>2, <3>1, Unseen DEF vars, home
  <2>3. QED
    BY <2>1, <2>2
<1>3. QED
  BY <1>1, <1>2, SpecIInv, PTL DEF Spec, LocalSpec, Local!Spec, LocalStep
=============================================================================
