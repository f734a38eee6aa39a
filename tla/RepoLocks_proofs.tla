--------------------------- MODULE RepoLocks_proofs ---------------------------
(***************************************************************************)
(* Commands on a local repository never wait for one another in a circle:  *)
(* a proof for any number of them, with cleanups beside other commands.    *)
(***************************************************************************)
EXTENDS RepoClient_proofs

\* The locks a command may have in its hands at the step it is at.
Rightly(l, n) ==
    \/ /\ l = UpdateLock(n.channel) /\ n.op = "update"
       /\ n.at \in {"fetch", "sync", "unpack", "place", "install"}
    \/ l = ReleaseLock(n.release) /\ n.at \in {"unpack", "place"}
    \/ /\ l = ChannelLock(n.channel) /\ n.op = "bin-path"
       /\ n.at \in {"reset", "touch", "find"}
    \/ l = VersionLock(n.release) /\ n.op = "update-version" /\ n.at = "touch"
    \/ l = MetafileLock(n.release) /\ n.op = "bin-path" /\ n.at = "touch"

Held == \A p \in Procs : \A l : <<l, p>> \in locks => Rightly(l, proc[p])

LInv == IInv /\ Held

-----------------------------------------------------------------------------
(* A step of one process *)

\* No other process gets a lock by it.
OnlyLocksOf(p) == \A q \in Procs \ {p} : \A l : <<l, q>> \in locks' => <<l, q>> \in locks

LEMMA OnlyMine ==
    ASSUME NEW p \in Procs,
           \/ UNCHANGED locks
           \/ locks' = NoLocksOf(p)
           \/ \E lock : locks' = Release(lock, p)
           \/ \E lock \in Lock : locks' = locks \cup {<<lock, p>>}
    PROVE  OnlyLocksOf(p)
BY DEF OnlyLocksOf, NoLocksOf, Release

LEMMA HeldStepped ==
    ASSUME Held, NEW p \in Procs, Moved(p), OnlyLocksOf(p),
           \A l : <<l, p>> \in locks' => Rightly(l, proc'[p])
    PROVE  Held'
<1>1. \A q \in Procs : \A l : <<l, q>> \in locks' => Rightly(l, proc'[q])
  BY DEF Held, Moved, OnlyLocksOf
<1>2. QED
  BY <1>1 DEF Held, Rightly, UpdateLock, ReleaseLock, ChannelLock, VersionLock, MetafileLock

\* A process that has no lock, or gives all of its locks back.
LEMMA NoneHeld ==
    ASSUME Held, NEW p \in Procs, Moved(p),
           \/ locks' = NoLocksOf(p)
           \/ /\ UNCHANGED locks
              /\ proc[p].at \notin {"fetch", "sync", "unpack", "place", "install", "reset",
                                    "touch", "find"}
    PROVE  Held'
<1>1. OnlyLocksOf(p)
  BY OnlyMine
<1>2. \A l : <<l, p>> \notin locks'
  BY DEF Held, Rightly, NoLocksOf
<1>3. QED
  BY <1>1, <1>2, HeldStepped

-----------------------------------------------------------------------------
(* trdl update *)

LEMMA UpdateChannelHeld ==
    ASSUME LInv, Typed', NEW p \in Procs, UpdateChannel(p)
    PROVE  Held'
<1> DEFINE c == proc[p].channel
           upToDate == channelFile[c] = published[c]
           n == [proc[p] EXCEPT !.at = IF upToDate THEN "sync" ELSE "fetch",
                                !.upToDate = upToDate, !.release = published[c]]
<1>1. /\ proc[p] \in Process /\ Equipped(proc[p]) /\ proc[p].at = "tuf"
      /\ proc[p].op = "update" /\ c \in Channels
  BY DEF LInv, IInv, Coherent, Typed, UpdateChannel, At, Equipped
<1>2. n.at \in {"fetch", "sync"} /\ n.op = "update" /\ n.channel = c
  BY <1>1 DEF Process
<1>3. proc' = [proc EXCEPT ![p] = n] /\ locks' = locks \cup {<<UpdateLock(c), p>>}
  BY DEF UpdateChannel
<1> HIDE DEF n, c, upToDate
<1>4. Moved(p) /\ proc'[p] = n
  BY <1>3, ReplacedMoves DEF LInv, IInv, Coherent
<1>5. OnlyLocksOf(p)
  BY <1>1, <1>3, LocksTyped, OnlyMine
<1>6. \A l : <<l, p>> \notin locks
  BY <1>1 DEF LInv, Held, Rightly
<1>7. \A l : <<l, p>> \in locks' => Rightly(l, n)
  BY <1>2, <1>3, <1>6 DEF Rightly
<1>8. QED
  BY <1>4, <1>5, <1>7, HeldStepped DEF LInv

LEMMA SyncChannelFileHeld ==
    ASSUME LInv, Typed', NEW p \in Procs, SyncChannelFile(p)
    PROVE  Held'
<1> DEFINE c == proc[p].channel
<1>1. /\ proc[p] \in Process /\ proc[p].at = "fetch" /\ proc[p].op = "update"
      /\ UNCHANGED locks
  BY DEF LInv, IInv, Coherent, Typed, SyncChannelFile, At, Equipped
<1>2. PICK content : proc' = [proc EXCEPT ![p].at = "sync", ![p].release = content]
  BY DEF SyncChannelFile
<1> DEFINE n == [proc[p] EXCEPT !.at = "sync", !.release = content]
<1>3. n.at = "sync" /\ n.op = "update" /\ n.channel = c
  BY <1>1 DEF Process
<1>4. proc' = [proc EXCEPT ![p] = n]
  BY <1>2
<1> HIDE DEF n
<1>5. Moved(p) /\ proc'[p] = n
  BY <1>4, ReplacedMoves DEF LInv, IInv, Coherent
<1>6. \A l : <<l, p>> \in locks => l = UpdateLock(c)
  BY <1>1 DEF LInv, Held, Rightly
<1>7. \A l : <<l, p>> \in locks' => Rightly(l, n)
  BY <1>1, <1>3, <1>6 DEF Rightly
<1>8. QED
  BY <1>1, <1>5, <1>7, OnlyMine, HeldStepped DEF LInv

\* The release is there: its lock is given back, an up to date channel's too.
LEMMA SyncedHeld ==
    ASSUME LInv, NEW p \in Procs, proc[p].at \in {"sync", "place"},
           Goto(p, Synced(p)), locks' = LocksAfterSync(p)
    PROVE  Held'
<1>1. proc[p].op \in {"update", "update-version"}
  BY DEF LInv, IInv, Coherent, Equipped
<1>2. /\ Synced(p) \in Steps /\ Synced(p) \in {"reset", "clean", "install"}
      /\ Synced(p) = "reset" => proc[p].op = "update-version"
  BY <1>1 DEF Synced, Steps
<1>3. Moved(p) /\ SameCommand(p) /\ proc'[p].at = Synced(p)
  BY <1>2, GoesOn DEF LInv, IInv, Coherent
<1>4. OnlyLocksOf(p)
  BY OnlyMine DEF LocksAfterSync
<1>5. ASSUME NEW l, <<l, p>> \in locks' PROVE Rightly(l, proc'[p])
  <2>1. Synced(p) # "clean" /\ <<l, p>> \in locks /\ l # ReleaseLock(proc[p].release)
    BY <1>5 DEF LocksAfterSync, NoLocksOf, Release
  <2>2. l = UpdateLock(proc[p].channel) /\ proc[p].op = "update"
    BY <2>1 DEF LInv, Held, Rightly
  <2>3. Synced(p) = "install"
    BY <1>2, <2>1, <2>2
  <2>4. QED
    BY <1>3, <2>2, <2>3 DEF Rightly, SameCommand
<1>6. QED
  BY <1>3, <1>4, <1>5, HeldStepped DEF LInv

LEMMA SyncChannelReleaseHeld ==
    ASSUME LInv, NEW p \in Procs, SyncChannelRelease(p)
    PROVE  Held'
<1> DEFINE r == proc[p].release
<1>1. proc[p].at = "sync" /\ r \in Contents
  BY DEF SyncChannelRelease, At, Contents
<1>2. CASE dir[r] = "whole"
  BY <1>1, <1>2, SyncedHeld DEF SyncChannelRelease
<1>3. CASE dir[r] # "whole"
  <2>1. Goto(p, "unpack") /\ locks' = locks \cup {<<ReleaseLock(r), p>>}
    BY <1>3 DEF SyncChannelRelease
  <2>2. Moved(p) /\ SameCommand(p) /\ proc'[p].at = "unpack" /\ proc'[p].release = r
    BY <2>1, GoesOn DEF LInv, IInv, Coherent, Steps
  <2>3. OnlyLocksOf(p)
    BY <1>1, <2>1, LocksTyped, OnlyMine
  <2>4. ASSUME NEW l, <<l, p>> \in locks' PROVE Rightly(l, proc'[p])
    <3>1. CASE l = ReleaseLock(r)
      BY <2>2, <3>1 DEF Rightly
    <3>2. CASE l # ReleaseLock(r)
      <4>1. l = UpdateLock(proc[p].channel) /\ proc[p].op = "update"
        BY <1>1, <2>1, <2>4, <3>2 DEF LInv, Held, Rightly
      <4>2. QED
        BY <2>2, <4>1 DEF Rightly, SameCommand
    <3>3. QED
      BY <3>1, <3>2
  <2>5. QED
    BY <2>2, <2>3, <2>4, HeldStepped DEF LInv
<1>4. QED
  BY <1>2, <1>3

LEMMA RemoveBrokenHeld ==
    ASSUME LInv, NEW p \in Procs, RemoveBroken(p)
    PROVE  Held'
<1>1. proc[p].at = "unpack" /\ locks' = locks
  BY DEF RemoveBroken, At
<1>2. /\ Moved(p) /\ SameCommand(p) /\ proc'[p].at = "place"
      /\ proc'[p].release = proc[p].release
  BY GoesOn DEF RemoveBroken, LInv, IInv, Coherent, Steps
<1>3. ASSUME NEW l, <<l, p>> \in locks' PROVE Rightly(l, proc'[p])
  <2>1. Rightly(l, proc[p])
    BY <1>1, <1>3 DEF LInv, Held
  <2>2. QED
    BY <1>1, <1>2, <2>1 DEF Rightly, SameCommand
<1>4. QED
  BY <1>1, <1>2, <1>3, OnlyMine, HeldStepped DEF LInv

-----------------------------------------------------------------------------
(* Metafiles, and the release's path *)

LEMMA ResetHeld ==
    ASSUME LInv, NEW p \in Procs, Reset(p)
    PROVE  Held'
<1> DEFINE r == proc[p].release
<1>1. /\ proc[p].at = "reset" /\ r \in Contents /\ proc[p].op \in {"update-version", "bin-path"}
  BY DEF LInv, IInv, Coherent, Reset, At, Equipped, Contents
<1>2. Goto(p, "touch") /\ locks' = locks \cup {<<ResetLock(p), p>>}
  BY DEF Reset
<1>3. Moved(p) /\ SameCommand(p) /\ proc'[p].at = "touch" /\ proc'[p].release = r
  BY <1>2, GoesOn DEF LInv, IInv, Coherent, Steps
<1>4. OnlyLocksOf(p)
  BY <1>1, <1>2, LocksTyped, OnlyMine
<1>5. ASSUME NEW l, <<l, p>> \in locks' PROVE Rightly(l, proc'[p])
  <2>1. CASE l = ResetLock(p)
    BY <1>1, <1>3, <2>1 DEF Rightly, ResetLock, SameCommand
  <2>2. CASE l # ResetLock(p)
    <3>1. l = ChannelLock(proc[p].channel) /\ proc[p].op = "bin-path"
      BY <1>1, <1>2, <1>5, <2>2 DEF LInv, Held, Rightly
    <3>2. QED
      BY <1>3, <3>1 DEF Rightly, SameCommand
  <2>3. QED
    BY <2>1, <2>2
<1>6. QED
  BY <1>3, <1>4, <1>5, HeldStepped DEF LInv

LEMMA TouchHeld ==
    ASSUME LInv, NEW p \in Procs, Touch(p)
    PROVE  Held'
<1>1. proc[p].at = "touch" /\ proc[p].op \in {"update-version", "bin-path"}
  BY DEF LInv, IInv, Coherent, Touch, At, Equipped
<1>2. PICK step \in {"clean", "find"} :
         Goto(p, step) /\ (step = "clean" <=> proc[p].op = "update-version")
  BY DEF Touch
<1>3. Moved(p) /\ SameCommand(p) /\ proc'[p].at = step
  BY <1>2, GoesOn DEF LInv, IInv, Coherent, Steps
<1>4. locks' = Release(ResetLock(p), p) /\ OnlyLocksOf(p)
  BY OnlyMine DEF Touch
<1>5. ASSUME NEW l, <<l, p>> \in locks' PROVE Rightly(l, proc'[p])
  <2>1. <<l, p>> \in locks /\ l # ResetLock(p)
    BY <1>4, <1>5 DEF Release
  <2>2. l = ChannelLock(proc[p].channel) /\ proc[p].op = "bin-path"
    BY <1>1, <2>1 DEF LInv, Held, Rightly, ResetLock
  <2>3. QED
    BY <1>2, <1>3, <2>2 DEF Rightly, SameCommand
<1>6. QED
  BY <1>3, <1>4, <1>5, HeldStepped DEF LInv

LEMMA GetChannelReleaseHeld ==
    ASSUME LInv, Typed', NEW p \in Procs, GetChannelRelease(p)
    PROVE  Held'
<1> DEFINE c == proc[p].channel
           n == [proc[p] EXCEPT !.at = "reset", !.release = channelFile[c]]
<1>1. /\ proc[p] \in Process /\ proc[p].at = "read" /\ proc[p].op = "bin-path" /\ c \in Channels
  BY DEF LInv, IInv, Coherent, Typed, GetChannelRelease, At, Equipped
<1>2. n.at = "reset" /\ n.op = "bin-path" /\ n.channel = c
  BY <1>1 DEF Process
<1>3. proc' = [proc EXCEPT ![p] = n] /\ locks' = locks \cup {<<ChannelLock(c), p>>}
  BY DEF GetChannelRelease
<1> HIDE DEF n, c
<1>4. Moved(p) /\ proc'[p] = n
  BY <1>3, ReplacedMoves DEF LInv, IInv, Coherent
<1>5. OnlyLocksOf(p)
  BY <1>1, <1>3, LocksTyped, OnlyMine
<1>6. \A l : <<l, p>> \notin locks
  BY <1>1 DEF LInv, Held, Rightly
<1>7. \A l : <<l, p>> \in locks' => Rightly(l, n)
  BY <1>2, <1>3, <1>6 DEF Rightly
<1>8. QED
  BY <1>4, <1>5, <1>7, HeldStepped DEF LInv

-----------------------------------------------------------------------------
(* The other steps: without a lock, or the last of a command *)

\* A cleanup has no lock in its hands between its steps.
LEMMA CleaningHeld ==
    ASSUME RepoAssumption, LInv, NEW p \in Procs,
           \/ CleanReleases(p) \/ GetActualLocalReleases(p) \/ ListReleases(p)
           \/ JudgeRelease(p) \/ JudgeVersion(p) \/ ForgetRelease(p) \/ EraseRelease(p)
           \/ CleanEnds(p)
    PROVE  Held'
<1>1. Base(raced)
  BY DEF LInv, IInv, Base
<1>2. Moved(p)
  BY <1>1, CleanReleasesKeeps, GetActualLocalReleasesKeeps, ListReleasesKeeps,
     JudgeReleaseKeeps, JudgeVersionKeeps, ForgetReleaseKeeps, EraseReleaseKeeps,
     CleanEndsKeeps DEF Goes
<1>3. /\ proc[p].at \in {"clean", "actual", "judge", "versions", "forget", "erase", "erased"}
      /\ UNCHANGED locks \/ locks' = NoLocksOf(p)
  BY DEF CleanReleases, GetActualLocalReleases, ListReleases, JudgeRelease, JudgeVersion,
         ForgetRelease, EraseRelease, CleanEnds, Ends, At
<1>4. QED
  BY <1>2, <1>3, NoneHeld DEF LInv

LEMMA UpdateAsideHeld ==
    ASSUME LInv, NEW p \in Procs,
           \/ SelfUpdate(p, "ok") \/ SelfUpdate(p, "warned") \/ UpdateToVersion(p)
           \/ InstallChannel(p)
    PROVE  Held'
<1>1. Base(raced)
  BY DEF LInv, IInv, Base
<1>2. Moved(p)
  BY <1>1, SelfUpdateKeeps, UpdateToVersionKeeps, InstallChannelKeeps DEF Goes
<1>3. \/ UNCHANGED locks /\ proc[p].at \in {"self-update", "tuf"}
      \/ locks' = NoLocksOf(p)
  BY DEF SelfUpdate, UpdateToVersion, InstallChannel, At
<1>4. QED
  BY <1>2, <1>3, NoneHeld DEF LInv

LEMMA EndsHeld ==
    ASSUME LInv, NEW p \in Procs, Fails(p) \/ Kill(p) \/ FindReleaseBinDir(p)
    PROVE  Held'
<1>1. Base(raced)
  BY DEF LInv, IInv, Base
<1>2. Moved(p)
  BY <1>1, FailsKeeps, KillKeeps, FindReleaseBinDirKeeps DEF Goes
<1>3. locks' = NoLocksOf(p)
  BY DEF Fails, Kill, FindReleaseBinDir, Ends
<1>4. QED
  BY <1>2, <1>3, NoneHeld DEF LInv

LEMMA StartAnyHeld ==
    ASSUME RepoAssumption, LInv, NEW p \in Procs, StartAny(p)
    PROVE  Held'
<1>1. Moved(p)
  BY StartAnyKeeps DEF Goes, LInv, IInv, Base
<1>2. proc[p].at = "idle" /\ UNCHANGED locks
  BY DEF StartAny, StartUpdate, StartUpdateToVersion, StartBinPath, Start, At
<1>3. QED
  BY <1>1, <1>2, NoneHeld DEF LInv

LEMMA StartUpdateInBackgroundHeld ==
    ASSUME LInv, NEW p \in Procs, NEW q \in Procs, StartUpdateInBackground(p, q)
    PROVE  Held'
<1>1. \A a \in Procs \ {p, q} : proc'[a] = proc[a]
  BY StartUpdateInBackgroundKeeps DEF LInv, IInv, Base
<1>2. proc[p].at = "background" /\ proc[q].at = "idle" /\ UNCHANGED locks
  BY DEF StartUpdateInBackground, At
<1>3. \A l : <<l, p>> \notin locks' /\ <<l, q>> \notin locks'
  BY <1>2 DEF LInv, Held, Rightly
<1>4. \A a \in Procs : \A l : <<l, a>> \in locks' => Rightly(l, proc'[a])
  BY <1>1, <1>2, <1>3 DEF LInv, Held
<1>5. QED
  BY <1>4 DEF Held, Rightly, UpdateLock, ReleaseLock, ChannelLock, VersionLock, MetafileLock

-----------------------------------------------------------------------------
(* The invariant *)

LEMMA NothingHeld ==
    ASSUME Held, UNCHANGED <<locks, proc>>
    PROVE  Held'
BY DEF Held, Rightly, UpdateLock, ReleaseLock, ChannelLock, VersionLock, MetafileLock

LEMMA StepHeld ==
    ASSUME RepoAssumption, LInv, Typed', NEW p \in Procs, Step(p) \/ Trouble(p)
    PROVE  Held'
<1>1. CASE Trouble(p)
  BY <1>1, EndsHeld, UpdateAsideHeld DEF Trouble, Fault
<1>2. CASE Step(p)
  <2>1. ASSUME PlaceRelease(p) PROVE Held'
    BY <2>1, SyncedHeld DEF PlaceRelease, At
  <2>2. QED
    BY <1>2, <2>1, UpdateAsideHeld, UpdateChannelHeld, SyncChannelFileHeld,
       SyncChannelReleaseHeld, RemoveBrokenHeld, ResetHeld, TouchHeld, CleaningHeld,
       GetChannelReleaseHeld, EndsHeld, StartUpdateInBackgroundHeld DEF Step, Refuse
<1>3. QED
  BY <1>1, <1>2

LEMMA SpecLInv == Spec => []LInv
<1>1. Init => LInv
  <2> SUFFICES ASSUME Init PROVE LInv
    OBVIOUS
  <2>1. locks = {}
    BY DEF Init, InitWith
  <2>2. QED
    BY <2>1, InitIInv DEF LInv, Held
<1>2. LInv /\ [Next]_vars => LInv'
  <2> SUFFICES ASSUME LInv, [Next]_vars PROVE LInv'
    OBVIOUS
  <2>1. IInv' /\ Typed'
    <3>1. IInv'
      BY NextIInv, StutterIInv DEF LInv
    <3>2. QED
      BY <3>1 DEF IInv, Coherent
  <2>2. CASE \E p \in Procs : StartAny(p)
    BY <2>1, <2>2, StartAnyHeld, RepoAssumption DEF LInv
  <2>3. CASE \E p \in Procs : Step(p) \/ Trouble(p)
    BY <2>1, <2>3, StepHeld, RepoAssumption DEF LInv
  <2>4. CASE Outside \/ UNCHANGED vars
    <3>1. UNCHANGED <<locks, proc>>
      BY <2>4 DEF Outside, Publish, Expire, vars
    <3>2. QED
      BY <2>1, <3>1, NothingHeld DEF LInv
  <2>5. QED
    BY <2>2, <2>3, <2>4 DEF Next
<1>3. QED
  BY <1>1, <1>2, PTL DEF Spec

-----------------------------------------------------------------------------
(* Nobody waits in a circle *)

\* Who holds a lock is at one of the steps it is for.
LEMMA HolderAt ==
    ASSUME LInv, NEW p \in Procs
    PROVE  /\ \A c : <<UpdateLock(c), p>> \in locks =>
                  /\ proc[p].op = "update"
                  /\ proc[p].at \in {"fetch", "sync", "unpack", "place", "install"}
           /\ \A r : <<ReleaseLock(r), p>> \in locks => proc[p].at \in {"unpack", "place"}
           /\ \A c : <<ChannelLock(c), p>> \in locks => proc[p].at \in {"reset", "touch", "find"}
           /\ \A r : <<VersionLock(r), p>> \in locks => proc[p].at = "touch"
           /\ \A r : <<MetafileLock(r), p>> \in locks => proc[p].at = "touch"
BY DEF LInv, Held, Rightly, UpdateLock, ReleaseLock, ChannelLock, VersionLock, MetafileLock

\* From the last lock anybody waits for to the first: the holders of a metafile's do
\* not wait, those of a channel's only for a metafile's, those of a release's do not,
\* and those of an update's for a release's or a channel's.
LEMMA NoCircle ==
    ASSUME LInv, NEW w \in Procs, Working(w)
    PROVE  \E p \in Procs : Working(p) /\ ~WaitsForLock(p)
<1> SUFFICES ASSUME \A p \in Procs : Working(p) => WaitsForLock(p) PROVE FALSE
  OBVIOUS
<1>1. \A p \in Procs : proc[p].at \notin {"touch", "find", "unpack", "place", "fetch"}
  BY DEF Working, WaitsForLock, At
<1>2. \A r : Free(VersionLock(r)) /\ Free(MetafileLock(r)) /\ Free(ReleaseLock(r))
  BY <1>1, HolderAt DEF Free
<1>3. \A p \in Procs : proc[p].at \notin {"reset", "judge", "versions", "forget", "sync"}
  <2> SUFFICES ASSUME NEW p \in Procs,
                      proc[p].at \in {"reset", "judge", "versions", "forget", "sync"}
               PROVE  FALSE
    OBVIOUS
  <2>1. WaitsForLock(p)
    BY DEF Working, At
  <2>2. Free(ResetLock(p))
    BY <1>2 DEF ResetLock
  <2>3. QED
    BY <1>2, <2>1, <2>2 DEF WaitsForLock, At
<1>4. \A c : Free(ChannelLock(c))
  BY <1>1, <1>3, HolderAt DEF Free
<1>5. \A p \in Procs : proc[p].at # "install"
  BY <1>4 DEF Working, WaitsForLock, At
<1>6. \A c : Free(UpdateLock(c))
  BY <1>1, <1>3, <1>5, HolderAt DEF Free
<1>7. ~WaitsForLock(w)
  BY <1>2, <1>3, <1>4, <1>5, <1>6 DEF WaitsForLock, At
<1>8. QED
  BY <1>7

\* However many commands work on a repository, side by side with ones that delete
\* releases, and whichever of them fail or are killed: as long as one is under way,
\* one does not wait for a lock (repo/update.go, repo/client.go, util/metafile.go).
THEOREM CommandsNeverLockUp ==
    Spec => []SomebodyMoves
<1>1. LInv => SomebodyMoves
  BY NoCircle DEF SomebodyMoves
<1>2. QED
  BY <1>1, SpecLInv, PTL
=============================================================================
