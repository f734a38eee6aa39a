---------------------------- MODULE Publication ----------------------------
(***************************************************************************)
(* How the plugin changes the TUF repository: the requests release         *)
(* (path_release.go), publish (path_publish.go) and the periodic call      *)
(* (periodic.go), the publisher (pkg/publisher) and its bucket.            *)
(*                                                                         *)
(* A request opens a handle of the repository, which reads the metadata,   *)
(* and only then asks the tasks manager to run its task; the task stages   *)
(* changes in the handle and commits them file by file.                    *)
(*                                                                         *)
(* Of the tasks manager this module keeps what TaskLifecycle and the       *)
(* theorems of TasksManager_proofs say: one task at a time, except that    *)
(* the function of a canceled or timed out task may run on (stray).        *)
(* Publisher.mu is left out: it orders the opening of a handle and the     *)
(* staging of a file, which share nothing in the bucket.                   *)
(***************************************************************************)
EXTENDS Integers, FiniteSets

CONSTANTS
    Requests,         \* requests, and their tasks, that may be under way at once
    NoRequest,
    Releases, NoRelease,
    Channels,
    Commits,          \* commits of the branch with trdl_channels.yaml
    NoCommit,
    Older,            \* pairs of commits, the first an ancestor of the second
    Config,           \* the release of each channel, by commit
    InitialCommit,    \* initial_last_published_git_commit of the configuration, or NoCommit
    FirstRelease,     \* what the repository holds at first
    Idents,           \* identities of metadata files, reused
    Dues,             \* bound: the sets of roles whose time may have come
    MaxRoot,          \* bound: rotations of root.json
    MaxRequests,      \* bound: requests opened
    PeriodicCost,     \* what a periodic call counts for in MaxRequests: 1, or 0 for no bound
    MaxAbandons,      \* bound: tasks canceled or timed out
    MaxFaults,        \* bound: S3 or storage calls that fail
    MaxCrashes        \* bound: restarts of the plugin

ASSUME PublicationAssumption ==
    /\ NoRequest \notin Requests /\ NoRelease \notin Releases /\ NoCommit \notin Commits
    /\ Older \subseteq Commits \X Commits
    /\ \A c \in Commits : <<c, c>> \in Older
    /\ \A a, b, c \in Commits : <<a, b>> \in Older /\ <<b, c>> \in Older => <<a, c>> \in Older
    /\ Config \in [Commits -> [Channels -> Releases \cup {NoRelease}]]
    /\ InitialCommit \in Commits \cup {NoCommit}
    /\ FirstRelease \in Releases
    /\ Dues \subseteq SUBSET {"root", "targets", "snapshot", "timestamp"}
    /\ 1 \in Idents /\ Idents \subseteq Nat
    /\ IsFiniteSet(Requests) /\ IsFiniteSet(Idents)
    /\ Cardinality(Idents) > 2 * (Cardinality(Requests) + 1)   \* one is always free
    /\ PeriodicCost \in {0, 1}
    /\ {MaxRoot, MaxRequests, MaxAbandons, MaxFaults, MaxCrashes} \subseteq Nat

VARIABLES
    \* the bucket
    store,            \* root.json, targets.json, snapshot.json, timestamp.json
    rootCopies,       \* the N for which there is an N.root.json
    channelFile,      \* content of the files targets/channels/
    \* Vault storage
    lastPublished,    \* last_published_git_commit
    hourPassed,       \* more than an hour since last_periodic_run_timestamp
    \* the plugin
    current,          \* the request whose task the tasks manager runs
    h,                \* the handle and the progress of each request
    \* outside
    head,             \* head of the branch with trdl_channels.yaml
    \* bookkeeping
    staleTasks,       \* some task started with a handle the bucket had moved away from
    opened, abandons, faults, crashes

bucket   == <<store, rootCopies, channelFile>>
counters == <<opened, abandons, faults, crashes>>
vars == <<bucket, lastPublished, hourPassed, current, h, head, staleTasks, counters>>

Roles == {"root", "targets", "snapshot", "timestamp"}

\* The order in which NewRepo reads the metadata.
TopLevelManifests == <<"root", "targets", "snapshot", "timestamp">>

Channeled == [Channels -> Releases \cup {NoRelease}]

\* The metadata files, with what of them is referred to: a file is known by
\* its identity (its version and hash), the identity of root.json is its version.
Metadata ==
    [root      : [id : Nat],
     targets   : [id : Idents, releases : SUBSET Releases, channels : Channeled],
     snapshot  : [id : Idents, targets : Idents],
     timestamp : [id : Idents, snapshot : Idents]]

NoChannels == [ch \in Channels |-> NoRelease]

\* A repository after its first release.
FirstMetadata ==
    [root      |-> [id |-> 1],
     targets   |-> [id |-> 1, releases |-> {FirstRelease}, channels |-> NoChannels],
     snapshot  |-> [id |-> 1, targets |-> 1],
     timestamp |-> [id |-> 1, snapshot |-> 1]]

Idle == [op |-> "none", pc |-> "none", release |-> NoRelease, read |-> 0, last |-> NoCommit,
         commit |-> NoCommit, meta |-> FirstMetadata, staged |-> {}, todo |-> {}, late |-> FALSE,
         stray |-> FALSE]

Handle ==
    [op      : {"none", "release", "publish", "periodic"},
     pc      : {"none", "reading", "opened", "task", "staging", "commit", "committing",
                "rootcopy", "record"},
     release : Releases \cup {NoRelease},
     read    : 0 .. 4,                        \* metadata files read
     last    : Commits \cup {NoCommit},       \* LastPublished when the request came
     commit  : Commits \cup {NoCommit},       \* the head it has cloned
     meta    : Metadata,                      \* metadata read and staged
     staged  : SUBSET Roles,                  \* NonAtomicTufStore.stagedMeta
     todo    : SUBSET Channels,               \* channels not staged yet
     late    : BOOLEAN,                       \* LastPublished had changed when its task began
     stray   : BOOLEAN]                       \* the tasks manager gave the task up

Init ==
    /\ store = FirstMetadata /\ rootCopies = {1}
    /\ channelFile = NoChannels
    /\ lastPublished = NoCommit /\ hourPassed = TRUE
    /\ current = NoRequest
    /\ h = [r \in Requests |-> Idle]
    /\ head \in Commits
    /\ staleTasks = FALSE
    /\ opened = 0 /\ abandons = 0 /\ faults = 0 /\ crashes = 0

-----------------------------------------------------------------------------
(* Metadata *)

Named(role, m) ==
    CASE role = "targets"  -> {m.targets.id, m.snapshot.targets}
      [] role = "snapshot" -> {m.snapshot.id, m.timestamp.snapshot}
      [] OTHER             -> {m[role].id}

InUse(role) == UNION {Named(role, m) : m \in {store} \cup {h[r].meta : r \in Requests}}

Fresh(role) == CHOOSE i \in Idents : i \notin InUse(role)

\* New versions of the files of some roles; snapshot.json names targets.json,
\* timestamp.json names snapshot.json.
NewVersions(m, roles) ==
    LET root      == IF "root" \in roles THEN [id |-> m.root.id + 1] ELSE m.root
        targets   == IF "targets" \in roles THEN [m.targets EXCEPT !.id = Fresh("targets")]
                     ELSE m.targets
        snapshot  == IF "snapshot" \in roles
                     THEN [id |-> Fresh("snapshot"), targets |-> targets.id] ELSE m.snapshot
        timestamp == IF "timestamp" \in roles
                     THEN [id |-> Fresh("timestamp"), snapshot |-> snapshot.id] ELSE m.timestamp
    IN  [root |-> root, targets |-> targets, snapshot |-> snapshot, timestamp |-> timestamp]

\* What tuf.Repo.Commit verifies, and what a client does.
Consistent(m) ==
    /\ m.snapshot.targets = m.targets.id
    /\ m.timestamp.snapshot = m.snapshot.id

-----------------------------------------------------------------------------
(* The request: open the repository, then ask for a task *)

\* What a publish compares the branch with.
LastPublished == IF lastPublished = NoCommit THEN InitialCommit ELSE lastPublished

Begin(r, op, release) ==
    /\ h[r].pc = "none"
    /\ h' = [h EXCEPT ![r] = [Idle EXCEPT !.op = op, !.pc = "reading", !.release = release,
                                          !.last = IF op = "publish" THEN LastPublished
                                                   ELSE NoCommit]]
    /\ UNCHANGED <<bucket, lastPublished, hourPassed, current, head, staleTasks, abandons, faults, crashes>>

Release(r) ==
    /\ opened < MaxRequests /\ opened' = opened + 1
    /\ \E release \in Releases : Begin(r, "release", release)

Publish(r) ==
    /\ opened < MaxRequests /\ opened' = opened + 1
    /\ Begin(r, "publish", NoRelease)

\* Vault does not call Periodic again before it has returned.
Periodic(r) ==
    /\ hourPassed
    /\ opened + PeriodicCost <= MaxRequests /\ opened' = opened + PeriodicCost
    /\ \A q \in Requests : h[q].op = "periodic" => h[q].pc \notin {"reading", "opened"}
    /\ Begin(r, "periodic", NoRelease)

ReadMeta(r) ==
    /\ h[r].pc = "reading"
    /\ LET n    == h[r].read + 1
           role == TopLevelManifests[n]
       IN  h' = [h EXCEPT ![r] = [@ EXCEPT !.read = n, !.meta[role] = store[role],
                                           !.pc = IF n = 4 THEN "opened" ELSE "reading"]]
    /\ UNCHANGED <<bucket, lastPublished, hourPassed, current, head, staleTasks, counters>>

Busy(r) ==
    /\ h[r].pc = "opened" /\ current # NoRequest
    /\ h' = [h EXCEPT ![r] = Idle]
    /\ UNCHANGED <<bucket, lastPublished, hourPassed, current, head, staleTasks, counters>>

\* Another publish was recorded after the request had read the commit.
Overtaken(r) == h[r].op = "publish" /\ h[r].last # LastPublished

\* Mutant: a task is accepted beside the running one.
RunTask_NotExclusive(r) ==
    /\ h[r].pc = "opened"
    /\ current' = r
    /\ h' = [h EXCEPT ![r] = [@ EXCEPT !.pc = "task", !.late = Overtaken(r)]]
    /\ hourPassed' \in IF h[r].op = "periodic" THEN {FALSE, hourPassed} ELSE {hourPassed}
    /\ staleTasks' = (staleTasks \/ h[r].meta # store)
    /\ UNCHANGED <<bucket, lastPublished, head, counters>>

\* Periodic stamps the run once it has its task, unless that fails.
RunTask(r) ==
    /\ h[r].pc = "opened" /\ current = NoRequest
    /\ current' = r
    /\ h' = [h EXCEPT ![r] = [@ EXCEPT !.pc = "task", !.late = Overtaken(r)]]
    /\ hourPassed' \in IF h[r].op = "periodic" THEN {FALSE, hourPassed} ELSE {hourPassed}
    /\ staleTasks' = (staleTasks \/ h[r].meta # store)
    /\ UNCHANGED <<bucket, lastPublished, head, counters>>

-----------------------------------------------------------------------------
(* The tasks. A stray one has a canceled context: it cannot clone, upload a *)
(* target or write Vault storage, but it can still commit.                  *)

EndTask(r) ==
    /\ h' = [h EXCEPT ![r] = Idle]
    /\ current' = IF current = r THEN NoRequest ELSE current

\* Build the artifacts and stage them as targets of the release.
StageRelease(r) ==
    /\ h[r].op = "release" /\ h[r].pc = "task" /\ ~h[r].stray
    /\ LET releases == h[r].meta.targets.releases \cup {h[r].release}
       IN  h' = [h EXCEPT ![r] = [@ EXCEPT !.pc = "commit", !.staged = {"targets"},
                                           !.meta.targets.releases = releases]]
    /\ UNCHANGED <<bucket, lastPublished, hourPassed, current, head, staleTasks, counters>>

IsAncestor(a, b) == <<a, b>> \in Older

\* Mutant: the releases are looked up in the bucket, not in the handle.
ValidatePublishConfig_Stored(r, commit) ==
    \A ch \in Channels :
        Config[commit][ch] \in store.targets.releases \cup {NoRelease}

\* All releases of the configuration exist in the repository.
ValidatePublishConfig(r, commit) ==
    \A ch \in Channels :
        Config[commit][ch] \in h[r].meta.targets.releases \cup {NoRelease}

\* Mutant: a branch that was moved back or aside is published, too.
Clone_AnyHead(r) ==
    /\ h[r].op = "publish" /\ h[r].pc = "task" /\ ~h[r].stray
    /\ h[r].last # head
    /\ ValidatePublishConfig(r, head)
    /\ LET todo == {ch \in Channels : Config[head][ch] # NoRelease}
       IN  h' = [h EXCEPT ![r] = [@ EXCEPT !.commit = head, !.todo = todo,
                                  !.pc = IF todo = {} THEN "commit" ELSE "staging"]]
    /\ UNCHANGED <<bucket, lastPublished, hourPassed, current, head, staleTasks, counters>>

\* The head is cloned in the task, the last published commit is the one read
\* by the request.
Clone(r) ==
    /\ h[r].op = "publish" /\ h[r].pc = "task" /\ ~h[r].stray
    /\ h[r].last # head
    /\ h[r].last = NoCommit \/ IsAncestor(h[r].last, head)
    /\ ValidatePublishConfig(r, head)
    /\ LET todo == {ch \in Channels : Config[head][ch] # NoRelease}
       IN  h' = [h EXCEPT ![r] = [@ EXCEPT !.commit = head, !.todo = todo,
                                  !.pc = IF todo = {} THEN "commit" ELSE "staging"]]
    /\ UNCHANGED <<bucket, lastPublished, hourPassed, current, head, staleTasks, counters>>

SkipPublish(r) ==
    /\ h[r].op = "publish" /\ h[r].pc = "task" /\ ~h[r].stray
    /\ h[r].last = head
    /\ EndTask(r)
    /\ UNCHANGED <<bucket, lastPublished, hourPassed, head, staleTasks, counters>>

\* The channel's file is written over the published one.
StageChannel(r) ==
    /\ h[r].pc = "staging" /\ ~h[r].stray
    /\ \E ch \in h[r].todo :
         LET release == Config[h[r].commit][ch]
             todo    == h[r].todo \ {ch}
         IN  /\ channelFile' = [channelFile EXCEPT ![ch] = release]
             /\ h' = [h EXCEPT ![r] = [@ EXCEPT !.meta.targets.channels[ch] = release,
                                                !.staged = {"targets"}, !.todo = todo,
                                                !.pc = IF todo = {} THEN "commit" ELSE "staging"]]
    /\ UNCHANGED <<store, rootCopies, lastPublished, hourPassed, current, head, staleTasks, counters>>

\* S3Repository.CommitStaged: Snapshot, Timestamp, and Commit of what is staged.
CommitStaged(r) ==
    /\ h[r].pc = "commit"
    /\ LET staged == h[r].staged \cup {"snapshot", "timestamp"}
           meta   == NewVersions(h[r].meta, staged)
       IN  /\ h' = [h EXCEPT ![r] = [@ EXCEPT !.pc = "committing", !.staged = staged, !.meta = meta]]
    /\ UNCHANGED <<bucket, lastPublished, hourPassed, current, head, staleTasks, counters>>

\* Mutant: snapshot.json is not rotated.
Rotated_NoSnapshot(due) == due \ {"snapshot"}

\* Mutant: a role that go-tuf knows and trdl has no key for is rotated, too.
Rotated_Mirrors(due) == due \cup {"mirrors"}

\* TufRepoRotator.Rotate: the roles whose time has come, and those that name them.
Rotated(due) ==
    LET snapshot  == IF due \cap {"root", "targets", "snapshot"} # {} THEN {"snapshot"} ELSE {}
        timestamp == IF snapshot # {} THEN {"timestamp"} ELSE {}
    IN  due \cup snapshot \cup timestamp

\* The time of any file may have come.
Rotate(r, due) ==
    /\ h[r].op = "periodic" /\ h[r].pc = "task"
    /\ "root" \in due => h[r].meta.root.id < MaxRoot
    /\ LET staged == Rotated(due)
           meta   == NewVersions(h[r].meta, staged)
       IN  IF staged # {} /\ Consistent(meta)
           THEN /\ h' = [h EXCEPT ![r] = [@ EXCEPT !.pc = "committing", !.staged = staged,
                                                   !.meta = meta]]
                /\ UNCHANGED current
           ELSE EndTask(r)   \* nothing to rotate, or tuf.Repo.Commit refuses
    /\ UNCHANGED <<bucket, lastPublished, hourPassed, head, staleTasks, counters>>

\* NonAtomicTufStore.Commit: the staged files one by one, in the order of a map.
WriteMeta(r) ==
    /\ h[r].pc = "committing"
    /\ \E role \in h[r].staged :
         /\ store' = [store EXCEPT ![role] = h[r].meta[role]]
         /\ h' = [h EXCEPT ![r] = [@ EXCEPT !.staged = h[r].staged \ {role},
                                            !.pc = IF role = "root" THEN "rootcopy" ELSE "committing"]]
    /\ UNCHANGED <<rootCopies, channelFile, lastPublished, hourPassed, current, head, staleTasks, counters>>

WriteRootCopy(r) ==
    /\ h[r].pc = "rootcopy"
    /\ rootCopies' = rootCopies \cup {h[r].meta.root.id}
    /\ h' = [h EXCEPT ![r] = [@ EXCEPT !.pc = "committing"]]
    /\ UNCHANGED <<store, channelFile, lastPublished, hourPassed, current, head, staleTasks, counters>>

Committed(r) ==
    /\ h[r].pc = "committing" /\ h[r].staged = {}
    /\ IF h[r].op = "publish"
       THEN h' = [h EXCEPT ![r] = [@ EXCEPT !.pc = "record"]] /\ UNCHANGED current
       ELSE EndTask(r)
    /\ UNCHANGED <<bucket, lastPublished, hourPassed, head, staleTasks, counters>>

RecordCommit(r) ==
    /\ h[r].pc = "record" /\ ~h[r].stray
    /\ lastPublished' = h[r].commit
    /\ EndTask(r)
    /\ UNCHANGED <<bucket, hourPassed, head, staleTasks, counters>>

\* The clone, a signature, the ancestor check, the configuration or the build is bad.
TaskRefused(r) ==
    /\ h[r].op \in {"release", "publish"} /\ h[r].pc = "task"
    /\ EndTask(r)
    /\ UNCHANGED <<bucket, lastPublished, hourPassed, head, staleTasks, counters>>

StrayStops(r) ==
    /\ h[r].stray
    /\ h[r].pc \in {"staging", "record"} \/ (h[r].pc = "task" /\ h[r].op # "periodic")
    /\ EndTask(r)
    /\ UNCHANGED <<bucket, lastPublished, hourPassed, head, staleTasks, counters>>

\* A call to S3 or to Vault storage fails; what is written stays.
CallFails(r) ==
    /\ h[r].pc \in {"reading", "staging", "committing", "rootcopy", "record"}
    /\ faults < MaxFaults /\ faults' = faults + 1
    /\ EndTask(r)
    /\ UNCHANGED <<bucket, lastPublished, hourPassed, head, staleTasks, opened, abandons, crashes>>

-----------------------------------------------------------------------------
(* The tasks manager, Vault and the world *)

\* The tasks manager gives a canceled or timed out task up.
Abandon(r) ==
    /\ current = r
    /\ abandons < MaxAbandons /\ abandons' = abandons + 1
    /\ current' = NoRequest
    /\ h' = [h EXCEPT ![r] = [@ EXCEPT !.stray = TRUE]]
    /\ UNCHANGED <<bucket, lastPublished, hourPassed, head, staleTasks, opened, faults, crashes>>

Crash ==
    /\ crashes < MaxCrashes /\ crashes' = crashes + 1
    /\ current' = NoRequest
    /\ h' = [r \in Requests |-> Idle]
    /\ UNCHANGED <<bucket, lastPublished, hourPassed, head, staleTasks, opened, abandons, faults>>

\* DELETE configure/last_published_git_commit.
DeleteLastPublished ==
    /\ lastPublished # NoCommit
    /\ lastPublished' = NoCommit
    /\ UNCHANGED <<bucket, hourPassed, current, h, head, staleTasks, counters>>

\* The branch goes on, or is moved back or aside.
Push ==
    /\ \E commit \in Commits \ {head} : head' = commit
    /\ UNCHANGED <<bucket, lastPublished, hourPassed, current, h, staleTasks, counters>>

HourPasses ==
    /\ ~hourPassed
    /\ hourPassed' = TRUE
    /\ UNCHANGED <<bucket, lastPublished, current, h, head, staleTasks, counters>>

-----------------------------------------------------------------------------
\* What a goroutine does, once it is under way, without anybody's help.
Proceed(r) ==
    \/ ReadMeta(r) \/ Busy(r) \/ RunTask(r)
    \/ StageRelease(r)
    \/ Clone(r) \/ SkipPublish(r) \/ StageChannel(r) \/ CommitStaged(r)
    \/ \E due \in Dues : Rotate(r, due)
    \/ WriteMeta(r) \/ WriteRootCopy(r) \/ Committed(r) \/ RecordCommit(r)
    \/ TaskRefused(r) \/ StrayStops(r)

Next ==
    \/ \E r \in Requests :
         \/ Release(r) \/ Publish(r) \/ Periodic(r)
         \/ Proceed(r)
         \/ CallFails(r) \/ Abandon(r)
    \/ Crash \/ DeleteLastPublished \/ Push \/ HourPasses

Spec == Init /\ [][Next]_vars

\* Goroutines are scheduled, Vault calls the plugin every minute, and time
\* passes: again and again a rotation finds snapshot.json and timestamp.json due.
Fairness ==
    /\ \A r \in Requests : WF_vars(Proceed(r))
    /\ WF_vars(\E r \in Requests : Periodic(r))
    /\ WF_vars(HourPasses)
    /\ SF_vars(\E r \in Requests : Rotate(r, {"snapshot", "timestamp"}))

FairSpec == Spec /\ Fairness

-----------------------------------------------------------------------------
(* Properties *)

\* Every variable keeps its type.
TypeOK ==
    /\ store \in Metadata /\ rootCopies \subseteq Nat /\ channelFile \in Channeled
    /\ lastPublished \in Commits \cup {NoCommit} /\ hourPassed \in BOOLEAN
    /\ current \in Requests \cup {NoRequest}
    /\ h \in [Requests -> Handle]
    /\ head \in Commits
    /\ staleTasks \in BOOLEAN
    /\ opened \in Nat /\ abandons \in Nat /\ faults \in Nat /\ crashes \in Nat

PointsToReleases(targets) ==
    \A ch \in Channels : targets.channels[ch] \in targets.releases \cup {NoRelease}

\* In the published targets.json every channel names a release that is in the
\* same file, whatever handles were opened, interrupted or committed late: a
\* client that follows a channel finds its release (update.go:129).
ChannelsPointToReleases == PointsToReleases(store.targets)

\* Wherever the branch is moved, a publish replaces the last published commit by a
\* descendant of it only: it never takes channels back (path_publish.go:136). With
\* one exception: the commit it compares with was read by its request, and when
\* another publish was recorded before its task began, it is not the last published
\* one (late), and the channels may go back.
PublishedAdvances ==
    [][{lastPublished, lastPublished'} \subseteq Commits =>
          \/ IsAncestor(lastPublished, lastPublished')
          \/ \E r \in Requests : h[r].late /\ h[r].pc = "record" /\ h'[r] = Idle]_vars

Committing == \E r \in Requests : h[r].pc \in {"committing", "rootcopy"}
Interrupted == abandons > 0 \/ faults > 0 \/ crashes > 0

\* Tasks that ran to their end, each with a handle still up to date when the
\* task began, leave metadata that fits together: timestamp.json names the
\* published snapshot.json, that the published targets.json.
TasksLeaveConsistent ==
    ~Interrupted /\ ~staleTasks /\ ~Committing => Consistent(store)

\* Metadata torn by an interrupted commit is repaired: the periodic rotation
\* writes new files in the end.
MetadataHeals == ~Consistent(store) ~> Consistent(store)

\* "trdl reads trdl_channels.yaml ... and applies the changes. Updates then
\* become available to users" (trdl_channels_yaml.md:9): when no task is under
\* way, the channels are those of the last published commit. Not so when a
\* release opened its handle before that commit was published.
ChannelsAsPublished ==
    current = NoRequest /\ lastPublished \in Commits =>
        \A ch \in Channels :
            Config[lastPublished][ch] # NoRelease =>
                /\ store.targets.channels[ch] = Config[lastPublished][ch]
                /\ channelFile[ch] = Config[lastPublished][ch]

\* "The TUF repository ... is responsible for the ... consistency ... of the
\* data" (benefits.html:40): a client that walks from an older root to the
\* current one, N.root.json by N.root.json, finds them all. Not so when the
\* plugin stopped between the two files of a root.
RootChainUnbroken == ~Committing => 1 .. store.root.id \subseteq rootCopies
=============================================================================
