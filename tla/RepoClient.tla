----------------------------- MODULE RepoClient -----------------------------
(***************************************************************************)
(* The local copy of one TUF repository in ~/.trdl and the trdl processes  *)
(* that work on it (client/pkg/repo, client/pkg/client, util/metafile.go): *)
(* update of a channel or to a version, bin-path; add and remove, whose    *)
(* processes SetupApp has.                                                 *)
(*                                                                         *)
(* Processes share nothing but files.  Each file operation that another    *)
(* process can see, or after which the process may be killed, is a step;   *)
(* locks are flocks in a directory of their own, so a killed process       *)
(* releases them and `trdl remove' deletes them together with the rest.    *)
(***************************************************************************)
EXTENDS FiniteSets

CONSTANTS
    Releases,       \* the versions in the TUF repository
    Channels,       \* the channels of a group
    Urls,           \* repository URLs one may add
    Procs,          \* the trdl processes that may run at the same time
    NoRelease, NoChannel, NoUrl,
    Garbled,        \* content of a channel file that names no release
    Uses,           \* commands in use
    Autoclean,      \* values of --autoclean in use
    Modes           \* how updates go to the background: "no", "flag", "env"

ASSUME RepoAssumption ==
    /\ NoRelease \notin Releases /\ Garbled \notin Releases \cup {NoRelease}
    /\ NoChannel \notin Channels /\ NoUrl \notin Urls
    /\ Uses \subseteq {"update", "update-version", "bin-path"}
    /\ Autoclean \subseteq BOOLEAN
    /\ Modes \subseteq {"no", "flag", "env"}

VARIABLES
    \* the TUF repository
    published,      \* the release each channel target names
    \* ~/.trdl
    registered,     \* URL of the repository in config.yaml, or NoUrl
    rooted,         \* .meta holds a trusted root
    channelFile,    \* channels/<group>/<channel>
    tmpChannel,     \* its copy in .tmp
    dir,            \* releases/<release>: "none", "partial" or "whole"
    metafile,       \* .metafiles/.../releases/<release>: "recent", or "none" within a day
    pinned,         \* releases with a .metafiles/.../versions/<release>
    locks,          \* who holds which lock
    \* processes
    proc,
    \* bookkeeping, read by no action
    handedOut,      \* releases whose path a command has asked for within a day
    asked,          \* releases somebody has updated to by their version
    lostMarks,      \* of these, those whose mark (the metafile of the release, that of
    lostPins,       \* its version) a command took away to renew it, and stopped there
    raced           \* releases that a cleanup was about to delete while another
                    \* command, that had found them, was about to mark them

home == <<registered, rooted, channelFile, tmpChannel, dir, metafile, pinned>>
vars == <<published, home, locks, proc, handedOut, asked, lostMarks, lostPins, raced>>

Contents == Releases \cup {NoRelease, Garbled}
Ops      == {"update", "update-version", "bin-path", "add", "remove", "none"}
Steps    == {"idle", "refused", "background", "self-update", "tuf", "fetch", "sync",
             "unpack", "place", "install", "reset", "touch", "clean", "actual",
             "judge", "versions", "forget", "erase", "erased", "read", "find", "setup",
             "root", "save", "wipe", "unregister"}

ChannelLock(c)  == <<"channel", c>>
UpdateLock(c)   == <<"update-channel", c>>
ReleaseLock(r)  == <<"update-release", r>>
MetafileLock(r) == <<"metafile", r>>
VersionLock(r)  == <<"version", r>>
Lock == ({"channel", "update-channel"} \X Channels)
           \cup ({"update-release", "metafile", "version"} \X Contents)

Process == [op : Ops, at : Steps, channel : Channels \cup {NoChannel},
            release : Contents, url : Urls \cup {NoUrl}, upToDate : BOOLEAN,
            todo : SUBSET Releases, unread : SUBSET Channels, autoclean : BOOLEAN,
            mode : {"no", "flag", "env"}, result : {"none", "ok", "warned", "failed"}]

\* A process slot with nothing to do, and how its last command ended.
Ended(result, release) ==
    [op |-> "none", at |-> "idle", channel |-> NoChannel, release |-> release,
     url |-> NoUrl, upToDate |-> FALSE, todo |-> {}, unread |-> {}, autoclean |-> FALSE,
     mode |-> "no", result |-> result]
Idle == Ended("none", NoRelease)

TypeOK ==
    /\ published \in [Channels -> Releases]
    /\ registered \in Urls \cup {NoUrl} /\ rooted \in BOOLEAN
    /\ channelFile \in [Channels -> Contents]
    /\ tmpChannel \in [Channels -> Contents]
    /\ dir \in [Releases -> {"none", "partial", "whole"}]
    /\ metafile \in [Releases -> {"none", "recent"}]
    /\ pinned \subseteq Releases /\ handedOut \subseteq Releases
    /\ asked \subseteq Releases /\ raced \subseteq Releases
    /\ lostMarks \subseteq Releases /\ lostPins \subseteq Releases
    /\ locks \subseteq Lock \X Procs
    /\ proc \in [Procs -> Process]

\* Nothing installed yet, of a repository added or not.
InitWith(url) ==
    /\ published \in [Channels -> Releases]
    /\ registered = url /\ rooted = (url # NoUrl)
    /\ channelFile = [c \in Channels |-> NoRelease]
    /\ tmpChannel = [c \in Channels |-> NoRelease]
    /\ dir = [r \in Releases |-> "none"]
    /\ metafile = [r \in Releases |-> "none"]
    /\ pinned = {} /\ locks = {}
    /\ handedOut = {} /\ asked = {}
    /\ lostMarks = {} /\ lostPins = {} /\ raced = {}
    /\ proc = [p \in Procs |-> Idle]

-----------------------------------------------------------------------------
(* Processes and locks *)

At(p, step)   == proc[p].at = step
Goto(p, step) == proc' = [proc EXCEPT ![p].at = step]

Free(lock)       == \A q \in Procs : <<lock, q>> \notin locks
NoLocksOf(p)     == {l \in locks : l[2] # p}

\* Mutant: a lock is kept until the process ends.
Release_AtEnd(lock, p) == locks

Release(lock, p) == locks \ {<<lock, p>>}

Ends(p, result, release) ==
    /\ proc' = [proc EXCEPT ![p] = Ended(result, release)]
    /\ locks' = NoLocksOf(p)

\* The configuration's lock: add and remove hold it from beginning to end.
ConfigFree == \A q \in Procs : proc[q].op \notin {"add", "remove"}

\* What NewClient and GetRepoClient find; without a trusted root `tuf update' fails.
RepoStep(op) ==
    IF registered = NoUrl \/ (op # "bin-path" /\ ~rooted) THEN "refused"
    ELSE IF op = "bin-path" THEN "read" ELSE "self-update"

FirstStep(op, mode) ==
    CASE op = "add"    -> "setup"
      [] op = "remove" -> "wipe"
      [] op = "update" /\ mode # "no" -> "background"
      [] OTHER -> RepoStep(op)

Command(op, channel, release, url, autoclean, mode) ==
    [op |-> op, at |-> FirstStep(op, mode), channel |-> channel, release |-> release,
     url |-> url, upToDate |-> FALSE, todo |-> {}, unread |-> {}, autoclean |-> autoclean,
     mode |-> mode, result |-> "none"]

Start(p, command) ==
    /\ At(p, "idle") /\ ConfigFree
    /\ proc' = [proc EXCEPT ![p] = command]
    /\ UNCHANGED <<published, home, locks, handedOut>>

StartUpdate(p, c, autoclean, mode) ==
    Start(p, Command("update", c, NoRelease, NoUrl, autoclean, mode))
StartUpdateToVersion(p, r, autoclean) ==
    Start(p, Command("update-version", NoChannel, r, NoUrl, autoclean, "no"))
StartBinPath(p, c) == Start(p, Command("bin-path", c, NoRelease, NoUrl, FALSE, "no"))
StartAdd(p, url)   == Start(p, Command("add", NoChannel, NoRelease, url, FALSE, "no"))
StartRemove(p)     == Start(p, Command("remove", NoChannel, NoRelease, NoUrl, FALSE, "no"))

\* The child gets the arguments without --in-background, but the environment
\* with TRDL_IN_BACKGROUND, the default of that flag.
ChildMode(mode) == IF mode = "env" THEN "env" ELSE "no"

StartUpdateInBackground(p, q) ==
    /\ At(p, "background") /\ At(q, "idle")
    /\ LET child == Command("update", proc[p].channel, NoRelease, NoUrl,
                            proc[p].autoclean, ChildMode(proc[p].mode)) IN
       proc' = [proc EXCEPT ![q] = child, ![p] = Ended("ok", NoRelease)]
    /\ UNCHANGED <<published, home, locks, handedOut>>

-----------------------------------------------------------------------------
(* trdl update *)

\* A self-update that fails is a warning on stderr.
SelfUpdate(p, result) ==
    /\ At(p, "self-update")
    /\ proc' = [proc EXCEPT ![p].at = "tuf", ![p].result = result]
    /\ UNCHANGED <<published, home, locks, handedOut>>

\* Mutant: the update-channel lock is not waited for.
UpdateChannel_NoWait(p) ==
    /\ At(p, "tuf") /\ proc[p].op = "update"
    /\ LET c        == proc[p].channel
           upToDate == channelFile[c] = published[c]
       IN /\ locks' = locks \cup {<<UpdateLock(c), p>>}
          /\ proc' = [proc EXCEPT ![p].at = IF upToDate THEN "sync" ELSE "fetch",
                                  ![p].upToDate = upToDate,
                                  ![p].release = published[c]]
    /\ rooted' = TRUE
    /\ UNCHANGED <<published, registered, channelFile, tmpChannel, dir, metafile,
                   pinned, handedOut>>

\* UpdateChannel: under the update-channel lock, the metadata is updated and saved.
UpdateChannel(p) ==
    /\ At(p, "tuf") /\ proc[p].op = "update"
    /\ LET c        == proc[p].channel
           upToDate == channelFile[c] = published[c]
       IN /\ Free(UpdateLock(c))
          /\ locks' = locks \cup {<<UpdateLock(c), p>>}
          /\ proc' = [proc EXCEPT ![p].at = IF upToDate THEN "sync" ELSE "fetch",
                                  ![p].upToDate = upToDate,
                                  ![p].release = published[c]]
    /\ rooted' = TRUE
    /\ UNCHANGED <<published, registered, channelFile, tmpChannel, dir, metafile,
                   pinned, handedOut>>

\* The release is found by its version: only one that exists is asked for.
UpdateToVersion(p) ==
    /\ At(p, "tuf") /\ proc[p].op = "update-version"
    /\ rooted' = TRUE
    /\ Goto(p, "sync")
    /\ UNCHANGED <<published, registered, channelFile, tmpChannel, dir, metafile,
                   pinned, locks, handedOut>>

\* DownloadFile does not truncate: a longer copy left behind shows at the end.
Downloaded(old, new) ==
    IF old \in {NoRelease, new} THEN {new} ELSE {new, Garbled}

SyncChannelFile(p) ==
    /\ At(p, "fetch")
    /\ LET c == proc[p].channel IN
       \E content \in Downloaded(tmpChannel[c], proc[p].release) :
           /\ tmpChannel' = [tmpChannel EXCEPT ![c] = content]
           /\ proc' = [proc EXCEPT ![p].at = "sync", ![p].release = content]
    /\ UNCHANGED <<published, registered, rooted, channelFile, dir, metafile, pinned,
                   locks, handedOut>>

\* What an update does once its release is there.
Synced(p) ==
    IF proc[p].op = "update-version" THEN "reset"
    ELSE IF proc[p].upToDate THEN "clean" ELSE "install"

\* UpdateChannel has returned: its locks are free again.
LocksAfterSync(p) ==
    IF Synced(p) = "clean" THEN NoLocksOf(p)
    ELSE Release(ReleaseLock(proc[p].release), p)

\* Mutant: a release directory that is there is taken to be complete.
SyncChannelRelease_Exists(p) ==
    /\ At(p, "sync")
    /\ LET r == proc[p].release IN
       /\ r \in Releases
       /\ Free(ReleaseLock(r))
       /\ IF dir[r] # "none"
          THEN Goto(p, Synced(p)) /\ locks' = LocksAfterSync(p)
          ELSE /\ Goto(p, "unpack")
               /\ locks' = locks \cup {<<ReleaseLock(r), p>>}
    /\ UNCHANGED <<published, home, handedOut>>

\* syncChannelRelease: under the update-release lock, compare all files.
SyncChannelRelease(p) ==
    /\ At(p, "sync")
    /\ LET r == proc[p].release IN
       /\ r \in Releases
       /\ Free(ReleaseLock(r))
       /\ IF dir[r] = "whole"
          THEN Goto(p, Synced(p)) /\ locks' = LocksAfterSync(p)
          ELSE /\ Goto(p, "unpack")
               /\ locks' = locks \cup {<<ReleaseLock(r), p>>}
    /\ UNCHANGED <<published, home, handedOut>>

\* The files are in the temporary directory: the broken one makes room for it.
RemoveBroken(p) ==
    /\ At(p, "unpack")
    /\ dir' = [dir EXCEPT ![proc[p].release] = "none"]
    /\ Goto(p, "place")
    /\ UNCHANGED <<published, registered, rooted, channelFile, tmpChannel, metafile,
                   pinned, locks, handedOut>>

PlaceRelease(p) ==
    /\ At(p, "place")
    /\ LET r == proc[p].release IN
       /\ dir[r] = "none"
       /\ dir' = [dir EXCEPT ![r] = "whole"]
       /\ locks' = LocksAfterSync(p)
    /\ Goto(p, Synced(p))
    /\ UNCHANGED <<published, registered, rooted, channelFile, tmpChannel, metafile,
                   pinned, handedOut>>

\* The temporary channel file takes its place, under the channel lock.
InstallChannel(p) ==
    /\ At(p, "install")
    /\ LET c == proc[p].channel IN
       /\ Free(ChannelLock(c))
       /\ tmpChannel[c] # NoRelease
       /\ channelFile' = [channelFile EXCEPT ![c] = tmpChannel[c]]
       /\ tmpChannel' = [tmpChannel EXCEPT ![c] = NoRelease]
    /\ locks' = NoLocksOf(p)
    /\ Goto(p, "clean")
    /\ UNCHANGED <<published, registered, rooted, dir, metafile, pinned, handedOut>>

\* Metafile.Reset, of the release's metafile (bin-path) or of the version's
\* (update to a version): the file is deleted and created under its lock.
ResetLock(p) ==
    IF proc[p].op = "update-version" THEN VersionLock(proc[p].release)
    ELSE MetafileLock(proc[p].release)

Reset(p) ==
    /\ At(p, "reset")
    /\ Free(ResetLock(p))
    /\ locks' = locks \cup {<<ResetLock(p), p>>}
    /\ LET r == proc[p].release IN
       IF proc[p].op = "update-version"
       THEN pinned' = pinned \ {r} /\ UNCHANGED metafile
       ELSE /\ metafile' = [s \in Releases |-> IF s = r THEN "none" ELSE metafile[s]]
            /\ UNCHANGED pinned
    /\ Goto(p, "touch")
    /\ UNCHANGED <<published, registered, rooted, channelFile, tmpChannel, dir,
                   handedOut>>

Touch(p) ==
    /\ At(p, "touch")
    /\ locks' = Release(ResetLock(p), p)
    /\ LET r == proc[p].release IN
       IF proc[p].op = "update-version"
       THEN /\ pinned' = pinned \cup {r} /\ UNCHANGED <<metafile, handedOut>>
            /\ Goto(p, "clean")
       ELSE /\ metafile' = [s \in Releases |-> IF s = r THEN "recent" ELSE metafile[s]]
            /\ UNCHANGED pinned
            /\ handedOut' = handedOut \cup ({r} \cap Releases)
            /\ Goto(p, "find")
    /\ UNCHANGED <<published, registered, rooted, channelFile, tmpChannel, dir>>

-----------------------------------------------------------------------------
(* CleanReleases, after an update with --autoclean, beside other commands: no   *)
(* lock but the metafiles', each for as long as one of them is looked at        *)

\* Mutant: the releases to keep and those to delete are mixed up.
CleanReleases_Actual(p) ==
    /\ At(p, "clean")
    /\ IF proc[p].autoclean
       THEN /\ proc' = [proc EXCEPT ![p].at = "judge",
                   ![p].todo = {channelFile[c] : c \in Channels}]
            /\ UNCHANGED locks
       ELSE Ends(p, proc[p].result, NoRelease)
    /\ UNCHANGED <<published, home, handedOut>>

\* The cleanup begins with the list of channel files.
CleanReleases(p) ==
    /\ At(p, "clean")
    /\ IF proc[p].autoclean
       THEN /\ proc' = [proc EXCEPT ![p].at = "actual", ![p].todo = Releases,
                            ![p].unread = {c \in Channels : channelFile[c] # NoRelease}]
            /\ UNCHANGED locks
       ELSE Ends(p, proc[p].result, NoRelease)
    /\ UNCHANGED <<published, home, handedOut>>

\* One channel file after the other: its release is kept.
GetActualLocalReleases(p) ==
    /\ At(p, "actual")
    /\ \E c \in proc[p].unread :
           proc' = [proc EXCEPT ![p].unread = @ \ {c}, ![p].todo = @ \ {channelFile[c]}]
    /\ UNCHANGED <<published, home, locks, handedOut>>

ListReleases(p) ==
    /\ At(p, "actual") /\ proc[p].unread = {}
    /\ proc' = [proc EXCEPT ![p].at = "judge",
                            ![p].todo = {r \in @ : dir[r] # "none"}]
    /\ UNCHANGED <<published, home, locks, handedOut>>

\* Mutant: the metafile is not asked when it was made.
JudgeRelease_NoPeriod(p) ==
    /\ At(p, "judge")
    /\ \E r \in proc[p].todo :
        /\ Free(MetafileLock(r))
        /\ proc' = [proc EXCEPT ![p].todo = @ \ {r}, ![p].release = r, ![p].at = "versions"]
    /\ UNCHANGED <<published, home, locks, handedOut>>

\* A release used within a day is skipped: the code goes on to look for a mark of
\* its version, too, which changes nothing any more.
JudgeRelease(p) ==
    /\ At(p, "judge")
    /\ \E r \in proc[p].todo :
        /\ Free(MetafileLock(r))
        /\ proc' = [proc EXCEPT ![p].todo = @ \ {r}, ![p].release = r,
               ![p].at = IF metafile[r] = "recent" THEN "judge" ELSE "versions"]
    /\ UNCHANGED <<published, home, locks, handedOut>>

\* Mutant: the metafiles of versions are left out.
JudgeVersion_Skipped(p) ==
    /\ At(p, "versions")
    /\ Goto(p, "forget")
    /\ UNCHANGED <<published, home, locks, handedOut>>

\* Then, under a lock of its own, the version's: a pinned release is skipped.
JudgeVersion(p) ==
    /\ At(p, "versions")
    /\ Free(VersionLock(proc[p].release))
    /\ Goto(p, IF proc[p].release \in pinned THEN "judge" ELSE "forget")
    /\ UNCHANGED <<published, home, locks, handedOut>>

ForgetRelease(p) ==
    /\ At(p, "forget")
    /\ Free(MetafileLock(proc[p].release))
    /\ metafile' = [metafile EXCEPT ![proc[p].release] = "none"]
    /\ Goto(p, "erase")
    /\ UNCHANGED <<published, registered, rooted, channelFile, tmpChannel, dir, pinned,
                   locks, handedOut>>

\* RemoveAll deletes one file after the other.
EraseRelease(p) ==
    /\ proc[p].at \in {"erase", "erased"}
    /\ dir' = [dir EXCEPT ![proc[p].release] =
                   IF At(p, "erase") /\ @ # "none" THEN "partial" ELSE "none"]
    /\ Goto(p, IF At(p, "erase") THEN "erased" ELSE "judge")
    /\ UNCHANGED <<published, registered, rooted, channelFile, tmpChannel, metafile,
                   pinned, locks, handedOut>>

CleanEnds(p) ==
    /\ At(p, "judge") /\ proc[p].todo = {}
    /\ Ends(p, proc[p].result, NoRelease)
    /\ UNCHANGED <<published, home, handedOut>>

-----------------------------------------------------------------------------
(* trdl bin-path; exec and dir-path read the same way *)

GetChannelRelease(p) ==
    /\ At(p, "read")
    /\ LET c == proc[p].channel IN
       /\ channelFile[c] # NoRelease
       /\ locks' = locks \cup {<<ChannelLock(c), p>>}
       /\ proc' = [proc EXCEPT ![p].at = "reset", ![p].release = channelFile[c]]
    /\ UNCHANGED <<published, home, handedOut>>

\* The path is that of the bin directory: one that has lost files will do.
FindReleaseBinDir(p) ==
    /\ At(p, "find")
    /\ LET r == proc[p].release IN
       /\ r \in Releases
       /\ dir[r] # "none"
       /\ Ends(p, "ok", r)
    /\ UNCHANGED <<published, home, handedOut>>

-----------------------------------------------------------------------------
(* trdl add and trdl remove, under the lock of the configuration *)

\* Setup has checked the root it has downloaded, and makes .meta anew.
AddRepo(p) ==
    /\ \/ At(p, "setup") /\ rooted' = FALSE /\ Goto(p, "root")
                         /\ UNCHANGED <<registered, locks>>
       \/ At(p, "root") /\ rooted' = TRUE /\ Goto(p, "save")
                        /\ UNCHANGED <<registered, locks>>
       \/ At(p, "save") /\ registered' = proc[p].url /\ Ends(p, "ok", NoRelease)
                        /\ UNCHANGED rooted
    /\ UNCHANGED <<published, channelFile, tmpChannel, dir, metafile, pinned, handedOut>>

\* The repository's directory goes piece by piece, in the order of the directory.
WipeRepo(p) ==
    /\ At(p, "wipe")
    /\ \/ /\ \E c \in Channels :
               /\ channelFile[c] # NoRelease
               /\ channelFile' = [channelFile EXCEPT ![c] = NoRelease]
          /\ UNCHANGED <<rooted, dir, handedOut>>
       \/ /\ \E r \in Releases :
               /\ dir[r] # "none"
               /\ \E left \in {"none", "partial"} \ {dir[r]} :
                      dir' = [dir EXCEPT ![r] = left]
               /\ handedOut' = handedOut \ {r}
          /\ UNCHANGED <<rooted, channelFile>>
       \/ /\ rooted /\ rooted' = FALSE
          /\ UNCHANGED <<channelFile, dir, handedOut>>
    /\ UNCHANGED <<published, registered, tmpChannel, metafile, pinned, locks, proc>>

\* The locks directory follows: whoever holds a lock, holds nothing any more.
WipeLocks(p) ==
    /\ At(p, "wipe")
    /\ ~rooted
    /\ \A c \in Channels : channelFile[c] = NoRelease
    /\ \A r \in Releases : dir[r] = "none"
    /\ locks' = {}
    /\ Goto(p, "unregister")
    /\ UNCHANGED <<published, home, handedOut>>

RemoveRepoConfiguration(p) ==
    /\ At(p, "unregister")
    /\ registered # NoUrl
    /\ registered' = NoUrl
    /\ Ends(p, "ok", NoRelease)
    /\ UNCHANGED <<published, rooted, channelFile, tmpChannel, dir, metafile, pinned,
                   handedOut>>

\* No part of Step: a repository is added before, and removed after, what this module
\* is about.  SetupApp has the processes of both.
RemoveRepo(p) == WipeRepo(p) \/ WipeLocks(p) \/ RemoveRepoConfiguration(p)

-----------------------------------------------------------------------------
(* Errors, kills, time *)

\* A new channel file is on its way.
Fetching(n) ==
    /\ n.at \in {"fetch", "sync", "unpack", "place", "install"}
    /\ n.op = "update" /\ ~n.upToDate

\* Mutant: a failed update leaves its temporary file.
Dropped_Kept(p) == tmpChannel

\* A failed update of a channel removes its temporary file, also a half
\* downloaded one.
Dropped(p) ==
    IF Fetching(proc[p])
    THEN [tmpChannel EXCEPT ![proc[p].channel] = NoRelease]
    ELSE tmpChannel

Fails(p) ==
    /\ tmpChannel' = Dropped(p)
    /\ Ends(p, "failed", NoRelease)
    /\ UNCHANGED <<published, registered, rooted, channelFile, dir, metafile, pinned,
                   handedOut>>

\* The code itself finds that it cannot go on.
Refused(p) ==
    \/ At(p, "refused")
    \/ At(p, "sync") /\ proc[p].release \notin Releases
    \/ At(p, "place") /\ dir[proc[p].release] # "none"
    \/ At(p, "install") /\ tmpChannel[proc[p].channel] = NoRelease
    \/ At(p, "read") /\ channelFile[proc[p].channel] = NoRelease
    \/ At(p, "find") /\ (proc[p].release \notin Releases \/ dir[proc[p].release] = "none")
    \/ At(p, "unregister") /\ registered = NoUrl

Refuse(p) == Refused(p) /\ Fails(p)

\* A network, file or lock error (a lock is waited for only so long).
Fault(p) == ~At(p, "idle") /\ Fails(p)

\* A kill, in the middle of a download too.  An update that waits in vain for the
\* channel lock ends like one: the deferred removal does not see that error.
Kill(p) ==
    /\ ~At(p, "idle")
    /\ \E cut \in {At(p, "fetch"), FALSE} :
           tmpChannel' = IF cut THEN [tmpChannel EXCEPT ![proc[p].channel] = Garbled]
                         ELSE tmpChannel
    /\ Ends(p, "failed", NoRelease)
    /\ UNCHANGED <<published, registered, rooted, channelFile, dir, metafile, pinned,
                   handedOut>>

Publish(c, r) ==
    /\ r # published[c]
    /\ published' = [published EXCEPT ![c] = r]
    /\ UNCHANGED <<home, locks, proc, handedOut>>

\* A day has passed since the metafile was made.
Expire(r) ==
    /\ metafile[r] = "recent"
    /\ metafile' = [metafile EXCEPT ![r] = "none"]
    /\ handedOut' = handedOut \ {r}
    /\ UNCHANGED <<published, registered, rooted, channelFile, tmpChannel, dir, pinned,
                   locks, proc>>

-----------------------------------------------------------------------------

Step(p) ==
    \/ SelfUpdate(p, "ok") \/ UpdateChannel(p) \/ UpdateToVersion(p)
    \/ SyncChannelFile(p) \/ SyncChannelRelease(p) \/ RemoveBroken(p)
    \/ PlaceRelease(p) \/ InstallChannel(p) \/ Reset(p) \/ Touch(p)
    \/ CleanReleases(p) \/ GetActualLocalReleases(p) \/ ListReleases(p)
    \/ JudgeRelease(p) \/ JudgeVersion(p) \/ ForgetRelease(p) \/ EraseRelease(p)
    \/ CleanEnds(p) \/ GetChannelRelease(p) \/ FindReleaseBinDir(p)
    \/ Refuse(p)
    \/ \E q \in Procs : StartUpdateInBackground(p, q)

\* A command is under way; an update that is to go on in the background needs a
\* process for that, and has begun with nothing yet.
Working(p) == ~(At(p, "idle") \/ At(p, "background"))

\* What it does next begins with a lock that somebody holds.
WaitsForLock(p) ==
    LET r == proc[p].release
        c == proc[p].channel
    IN \/ At(p, "tuf") /\ proc[p].op = "update" /\ ~Free(UpdateLock(c))
       \/ At(p, "sync") /\ r \in Releases /\ ~Free(ReleaseLock(r))
       \/ At(p, "install") /\ tmpChannel[c] # NoRelease /\ ~Free(ChannelLock(c))
       \/ At(p, "reset") /\ ~Free(ResetLock(p))
       \/ At(p, "judge") /\ \E s \in proc[p].todo : ~Free(MetafileLock(s))
       \/ At(p, "versions") /\ ~Free(VersionLock(r))
       \/ At(p, "forget") /\ ~Free(MetafileLock(r))

Trouble(p) == Fault(p) \/ Kill(p) \/ SelfUpdate(p, "warned")

StartAny(p) ==
    \/ "update" \in Uses /\ \E c \in Channels, autoclean \in Autoclean, mode \in Modes :
          StartUpdate(p, c, autoclean, mode)
    \/ "update-version" \in Uses /\ \E r \in Releases, autoclean \in Autoclean :
          StartUpdateToVersion(p, r, autoclean)
    \/ "bin-path" \in Uses /\ \E c \in Channels : StartBinPath(p, c)

Outside ==
    \/ \E c \in Channels, r \in Releases : Publish(c, r)
    \/ \E r \in Releases : Expire(r)

-----------------------------------------------------------------------------
(* What the bookkeeping remembers *)

\* The update of q to the version of r, or to r on a channel, has found r whole; its
\* mark is not there yet.  A bin-path has found r on the channel.
AboutToMark(q, r) ==
    proc[q].release = r /\ proc[q].at \in {"install", "reset", "touch"}

\* The cleanup of p has looked where q will put the mark, and goes on to delete r.
AboutToDelete(p, q, r) ==
    \/ At(q, "install") /\ r \in proc[p].todo /\ proc[q].channel \notin proc[p].unread
    \/ /\ proc[p].release = r
       /\ \/ proc[p].at \in {"forget", "erase", "erased"}
          \/ At(p, "versions") /\ proc[q].op # "update-version"

Racing == {r \in Releases : \E p, q \in Procs : AboutToMark(q, r) /\ AboutToDelete(p, q, r)}

\* Releases whose mark is made anew now, and those whose mark stays away.
Renewed(op) ==
    {r \in Releases : \E p \in Procs :
        At(p, "touch") /\ proc[p].op = op /\ proc[p].release = r
            /\ proc'[p].at \notin {"touch", "idle"}}
Stopped(op) ==
    {r \in Releases : \E p \in Procs :
        At(p, "touch") /\ proc[p].op = op /\ proc[p].release = r /\ proc'[p].at = "idle"}

Remember ==
    /\ asked' = asked \cup Renewed("update-version")
    /\ lostMarks' = (lostMarks \cup (Stopped("bin-path") \cap handedOut)) \ Renewed("bin-path")
    /\ lostPins' = (lostPins \cup (Stopped("update-version") \cap asked))
                       \ Renewed("update-version")
    /\ raced' = raced \cup Racing'

-----------------------------------------------------------------------------

Init == \E url \in Urls : InitWith(url)

Next ==
    /\ \/ \E p \in Procs : StartAny(p) \/ Step(p) \/ Trouble(p)
       \/ Outside
    /\ Remember

Spec == Init /\ [][Next]_vars

-----------------------------------------------------------------------------
(* Properties *)

\* What an update is about to install on the channel; content that names no release
\* is refused.
Coming(c) ==
    {proc[p].release : p \in {q \in Procs : Fetching(proc[q]) /\ proc[q].channel = c}}
        \cap Releases

Whole == {r \in Releases : dir[r] = "whole"}

Asked == asked \ lostPins
HandedOut == handedOut \ lostMarks

Local == INSTANCE LocalRepository WITH
    installed <- channelFile, coming <- [c \in Channels |-> Coming(c)],
    whole <- Whole \cup raced, pinned <- Asked, handedOut <- HandedOut

\* Whoever uses the local repository sees channels that go from one whole release to
\* the next, in the order the server published them, and releases that stay while
\* they are counted on (repo/update.go; repo/clean_releases.go; util/metafile.go).
\* Cleanups run beside other commands (use.go:140): of the releases that have raced
\* with one, and of marks lost in a killed Reset, nothing is promised.
LocalSpec == Local!Spec

\* The release an installed channel names is there, whole, however updates, cleanups
\* and kills interleave (repo/update.go, syncChannelRelease before the rename of the
\* channel file; repo/clean_releases.go), unless a cleanup that had read the channels
\* before the rename overlapped with it (raced): nothing in the code prevents that.
ChannelHasRelease ==
    \A c \in Channels :
        channelFile[c] # NoRelease =>
            channelFile[c] \in {r \in Releases : dir[r] = "whole" \/ r \in raced}

\* A version somebody has updated to by its number is not cleaned away afterwards
\* (repo/update.go, UpdateToVersion; clean_releases.go, pinnedVersion), except in two
\* ways: a cleanup was about to delete it when it got its mark, set only after the
\* files are found whole (raced); or a later update to it was killed between the
\* deletion and the creation of the mark (lostPins).
PinnedHasRelease == \A r \in Asked \ raced : dir[r] = "whole"

\* A release whose path was returned within the day is still there, whatever has
\* become of its channel (repo/client.go, GetChannelRelease; util/metafile.go), with
\* the same two exceptions: a cleanup had looked at the metafile just before (raced),
\* or a later command was killed while it renewed the metafile (lostMarks).
HandedOutKept == \A r \in HandedOut \ raced : dir[r] = "whole"

\* Commands never wait for one another in a circle, or for a lock that nobody
\* gives back (the locks of UpdateChannel, syncChannelReleaseWithLock, Metafile).
SomebodyMoves ==
    (\E p \in Procs : Working(p)) => \E p \in Procs : Working(p) /\ ~WaitsForLock(p)

\* An update asked for in the background is carried out (cmd/trdl/update.go).
BackgroundUpdates ==
    (\E p \in Procs : At(p, "background")) ~> (\E p \in Procs : At(p, "tuf"))
=============================================================================
