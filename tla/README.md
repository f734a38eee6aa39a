# A verification of trdl in TLA+

trdl delivers releases of an application over a TUF repository. Its server is
a HashiCorp Vault plugin (`src/server`) that builds and signs releases and
publishes release channels into an S3 bucket; its client (`src/client`) keeps
local copies of releases up to date; a small program (`src/release`) asks the
plugin for a release or a publication from CI; two GitHub actions
(`src/actions`) install the client on a runner and set an application up with
it. This directory specifies the
parts whose correctness depends on the order of things, checks them with TLC
on small instances, and proves the most important properties with TLAPS for
every value of the constants.

## 1. The system

### Components

| component | state | operations | what is hard | what makes it correct |
|---|---|---|---|---|
| **Tasks manager** `server/pkg/tasks_manager` | records `queued_task/`, `running_task/`, `completed_task/`, `task_log/` in Vault storage; the channel `taskChan`; the worker's `currentJob`; `Manager.Storage` | `RunTask`, `AddTask`, the worker with its callbacks, cancel, timeout, hourly cleanup, lookups | a record moves by two writes; restart in between; lookups without a lock; functions that run on after their task was given up; a full channel | one task at a time; no record left behind; a status only moves forward; every task ends |
| **Requests** `path_release.go`, `path_publish.go`, `periodic.go` | `last_published_git_commit`, `last_periodic_run_timestamp` | `release`, `publish`, `Periodic` | the repository handle and the last published commit are read before the task, used in it | channels name published releases and are those of the last published commit, which only advances |
| **TUF publisher** `pkg/publisher` | the bucket (four metadata files, `N.root.json`, targets); what a handle has read and staged; repository keys | open, stage, commit | commit is file by file, in the order of a Go map | metadata that fits together, again after an interruption |
| **Rotator** `tuf_repo_rotator.go` | expiration dates | `Rotate` | which role drags which | a rotated role never leaves the ones that name it behind |
| **PGP signing key** `pkg/publisher/backend.go` | one storage record | read or generate, delete | no lock on the deletion | signatures by one key |
| **Git and PGP verification** `pkg/git`, `pkg/pgp` | trusted keys | quorum of signatures on a tag or commit | one key, several signatures, notes and tag signatures | at least N different trusted keys have signed |
| **Configuration of the plugin** `path_configure.go` | one record | set, read, delete; delete the last published commit | - | - |
| **trdl.yaml, trdl_channels.yaml** `pkg/config` | none | parse, validate | - | - |
| **Build** `pkg/docker`; **signing** `pkg/elf_signing`, `pkg/mac_signing`; **secrets** `pkg/secrets` | one record per setting | build, sign, set | I/O of docker and libraries | - |
| **CI client** `release/pkg/vault` | the task it watches | request, retry while busy, watch, retry | a task that is forgotten, canceled or still running behind a failed watch; a lost answer | it ends, and reports success only of its own task |
| **Client repository** `client/pkg/repo`, with metafiles `client/pkg/util` | channel files and their temporary copies, release directories, metafiles of last use and of versions, locks | update, bin-path, use, exec, clean | several processes, killed anywhere; cleanups beside them; rename over a directory; a download into a file that exists | the release of a channel is there, whole; a release in use is not deleted |
| **Client TUF store** `client/pkg/tuf` | `.meta` | set up, update, save, download | the cached copy saved over a newer one | versions never go back |
| **Client configuration** `client/pkg/client/configuration.go` | one YAML file | add, remove, set default channel | read, then change, then lock; directories go before the entry | no edit is lost |
| **Self-update** `client/pkg/client/client.go` | lock, binary | `DoSelfUpdate` | lock kept on a path, swap of the binary | the binary is always one of the two |
| **Action install** `actions/install` | the runner's tool cache | find a version or download, verify and cache it | a job stopped anywhere, whose tool cache the next job finds | what the cache returns is whole and verified |
| **Action setup-app** `actions/setup-app` | the inputs; the process of trdl it waits for | install, list, remove, add, bin-path, update | jobs stopped between the commands; an update in the background | the path it exports is there; it recovers |
| commands, loggers, documentation generator, e2e tests, scripts of the documentation site | - | - | - | start-up, text |

### How they interact

A request (`release`, `publish`, or Vault's call of `Periodic`) opens a handle
of the TUF repository, then asks the tasks manager to `RunTask` a closure that
uses it. The tasks manager stores a record, sends the task to its worker, and
answers with a UUID, or with "busy". The worker calls back into the manager to
move the record, and runs the closure in a goroutine of its own. CI polls
`task/:uuid` until the task has ended. Clients read the bucket only, with no
lock whatever, in the order TUF prescribes. Processes of the client share
`~/.trdl` and nothing else: files, and file locks beside them. The action
setup-app runs the client's commands one after the other, on a home directory
and a tool cache that earlier jobs may have left in any state.

## 2. Modules

    TaskLifecycle           what a poller of task/:uuid may rely on (abstract)
      ^ implemented by
    TasksManager            the tasks manager
      <- MCTasksManager     its small instances
      <- TasksManager_proofs
    Publication             release, publish, periodic; publisher and bucket
      <- MCPublication      its small instances
      <- Publication_proofs
    VaultClient             release and publish from CI, over TaskLifecycle
      <- MCVaultClient      its small instance
      <- VaultClient_proofs
    LocalRepository         what a user of a local repository sees (abstract)
      ^ implemented by
    RepoClient              processes of trdl on one local repository
      <- MCRepoClient       its small instances
      <- RepoClient_proofs  releases that stay; the refinement
      <- RepoLocks_proofs   commands that never lock up
    InstallAction           the action that installs trdl
      <- InstallAction_proofs
    SetupApp                the action that sets an application up: composes
                            InstallAction and RepoClient
      <- MCSetupApp         its small instance
      <- SetupApp_proofs    over RepoClient_proofs: the path a job goes on with
      <- SetupInstall_proofs  over InstallAction_proofs: the tool cache

### TasksManager

One variable for each thing the code keeps: `queued`, `running`, `completed`
(with `modified`) and `logs` are the four prefixes in Vault storage,
`taskChan` the channel, `mu` the holder of `Manager.mu` with its program
counter, `wpc`, `job`, `ctxDone` and `result` the worker and its job, `func`
the goroutines of the task functions, `reader` one request that looks a task
up. Each storage write is an action, so a restart (`Crash`) or a failing call
(`Fault`) can come between any two; reads under the lock are part of the next
write.

| action | code |
|---|---|
| `Enter`, `InvalidateTask`, `InvalidateDelete`, `InvalidateDone` | `doTaskWrap` and `invalidateStorage` after a restart |
| `ReturnBusy`, `QueueTask`, `SendTask` | `isBusy`, `addNewTaskToStorage`, the send to the channel |
| `Receive`, `TaskStarted`, `StartFunc`, `FuncReturns`, `TakeResult`, `GiveUp`, `TaskCompleted`, `PutLog`, `CompletedDelete`, `ResetJob` | `Worker.Start`, `WrapTaskFunc` and the callbacks |
| `Cancel`, `Timeout` | `CancelRunningJobByTaskUUID`, the context's timer |
| `PeriodicFunc`, `CleanRecord`, `CleanLog`, `PeriodicStamp` | the hourly cleanup |
| `LookupBegin`, `LookupNext`, `LookupEnd` | `pathTaskStatus`, key by key, without the lock |
| `Panic`, `Crash` | the callbacks' `panic`; a restart: memory is lost, storage stays |

`Receive` merges the receive from the channel with the assignment of
`currentJob`, and `RequestFails` fails a call before its write, as Vault
storage does. `Lookup` has the reading order of the list and of the log as
well; the runs use the status only: a list may miss a task that moves while
it is read, by its order (completed, running, queued), and nothing promises
otherwise.

### TaskLifecycle

The abstract specification: a status moves from unknown to queued, running,
an end, and forgotten, never back; with `RunTask` alone, a task is accepted
only while no other is queued or running. `TasksManager` implements it with
the status `pathTaskStatus` would report (`Reported`) for `status`.

### Publication

`store`, `rootCopies` and `channelFile` are the bucket, `lastPublished` and
`hourPassed` the two records in Vault storage. `h[r]` is a request with its
handle: what it has read (`meta`), what it has staged, how far it is. A
metadata file is known by an identity that stands for version and hash;
`snapshot.json` carries the identity of a `targets.json`, `timestamp.json`
that of a `snapshot.json`. Identities that nothing refers to are reused, so
that the state stays finite without a bound on the number of commits.

| action | code |
|---|---|
| `Release`, `Publish`, `Periodic`, `ReadMeta` | the beginning of the handlers and `GetMeta`, one file a step |
| `RunTask`, `Busy` | `TasksManager.RunTask` |
| `StageRelease` | build and `StageReleaseTarget` |
| `Clone`, `SkipPublish`, `StageChannel`, `RecordCommit` | the task of `pathPublish` |
| `CommitStaged`, `Rotate` | `S3Repository.CommitStaged`, `TufRepoRotator.Rotate` |
| `WriteMeta`, `WriteRootCopy`, `Committed` | `NonAtomicTufStore.Commit` |
| `TaskRefused`, `CallFails`, `StrayStops` | the error paths |
| `Abandon`, `Crash`, `DeleteLastPublished`, `Push`, `HourPasses` | the tasks manager, Vault, the operator, the developers, time |

Of the tasks manager this module keeps what the theorems below say of it: one
task at a time, except for the function of a task that was given up
(`stray`). The context of such a function is canceled: its uploads, clones and
storage calls fail (Vault storage is a gRPC client there), but
`NonAtomicTufStore` reads and writes metadata with `context.Background()`, so a
stray function may still commit.

What go-tuf does is modelled from its use: `Commit` refuses metadata whose
snapshot or timestamp does not fit, `Snapshot` and `Timestamp` name the
staged files, and the metadata is read once, when the handle is opened. The
module starts from a repository after its first release, before which nothing
can be published and the periodic call only rotates an empty repository. The
bytes of release targets are left out.

### VaultClient

`call[c]` is a call of `Release` or `Publish`: where it is, the task it
watches, the tasks it has asked for (`made`) and its retries. The plugin is
`INSTANCE TaskLifecycle`, which `TasksManager` implements: all the client may
rely on is what a poller of `task/:uuid` may. Whether the Vault API hands on a
plain "busy" or wraps it (`plainBusy`) is left open: the code waits out the
first and counts the second as an attempt.

| action | code |
|---|---|
| `LongRunningWrite`, `WriteBusy`, `WriteFails` | `longRunningWrite` within `withBackoffRequest` |
| `WatchTask`, `GetTaskStatusFails` | `watchTask` |
| `RetryOrGiveUp` | `backoff.RetryNotify`, `isRetriableError` |
| `RunTask`, `PluginElse` | the plugin: worker, restart, periodic job, cleanup of the history |

### RepoClient

The variables are the files of `~/.trdl` for one repository (`channelFile`,
`tmpChannel`, `dir`, `metafile`, `pinned`, `rooted` for `.meta`, `registered`
for the entry in `config.yaml`), the locks, and one record for each process.
Processes share files only, so each operation on files that another process can
see, or after which a kill matters, is a step; a lock that is taken and given
back with nothing visible in between is part of one step. A release directory is
`whole` when every file is the published one; a channel file names a release or
is `Garbled`, the mixture a shorter download leaves in a longer file.

| action | code |
|---|---|
| `StartUpdate`, `StartUpdateToVersion`, `StartBinPath` | the commands, with what `NewClient` and `GetRepoClient` find |
| `StartUpdateInBackground`, `SelfUpdate` | `cmd/trdl/update.go` |
| `UpdateChannel`, `SyncChannelFile`, `InstallChannel`; `UpdateToVersion` | `repo/update.go` |
| `SyncChannelRelease`, `RemoveBroken`, `PlaceRelease` | `syncChannelReleaseWithLock`, `syncChannelRelease` |
| `CleanReleases`, `GetActualLocalReleases`, `ListReleases` | `repo/clean_releases.go`: the list of channel files, the files one by one, the list of release directories |
| `JudgeRelease`, `JudgeVersion`, `ForgetRelease`, `EraseRelease`, `CleanEnds` | each release: its metafile, the mark of its version, both under their own locks, the deletion |
| `GetChannelRelease`, `Reset`, `Touch`, `FindReleaseBinDir` | `bin-path`; `Metafile.Reset` in its two halves |
| `StartAdd`, `StartRemove`, `AddRepo`, `WipeRepo`, `WipeLocks`, `RemoveRepoConfiguration` | `AddRepo`, `RemoveRepo` of `client/pkg/client`: no part of `Next` here, `SetupApp` has these processes |
| `Refuse`, `Fault`, `Kill`, `Expire`, `Publish` | the error paths; a kill; a day passes; the server |

Cleanups run beside every other command, as they do in the code: `--autoclean` is
on by default (`update.go:150-157`), and the script of `trdl use` starts an update
in the background beside the session's commands (`use.go:140-145`).

Five variables only remember, for the properties, and no step depends on them
(`Remember`). `handedOut` has the releases whose path a command asked for within the day,
`asked` those somebody has updated to by their version. The code does lose
releases in two ways, and the other three name them, so that the
properties can say that it loses them in no third:

- *A cleanup that had already looked.* An update finds its release whole, and only
  later puts it on its channel or marks its version; bin-path reads the channel, and only then
  marks the release. A cleanup that has looked for the mark, or read the channels, before that,
  and goes on to delete the release, deletes what the other command has just
  counted on. `Racing` is the set of such releases, `raced` remembers them for good.
- *A mark that is lost.* `Metafile.Reset` deletes the file and creates it again: a command
  killed (or failing) in between takes away the mark of an earlier use. `lostMarks`
  and `lostPins` have the releases of such marks until they are made anew.

### LocalRepository

The abstract specification of the local repository, without processes, locks,
temporary files or marks. A channel is updated by one update at a time, which
takes the release the server has published when it begins, and ends with that
release, whole, installed at once, or is given up; a release that is installed, on
its way to a channel, pinned or handed out is never cleaned away. `RepoClient`
implements it with these mappings:

| LocalRepository | RepoClient |
|---|---|
| `published` | the same |
| `installed` | `channelFile` |
| `coming` | `Coming`: the release of the process that holds the update lock and has a new channel file on its way (`Fetching`); content that names no release is none |
| `whole` | `Whole`, the releases whose directory is `whole`, and `raced` |
| `pinned` | `Asked`: `asked` but for `lostPins` |
| `handedOut` | `HandedOut`: `handedOut` but for `lostMarks` |

A raced release counts as there: of what a cleanup takes away beside a command that
counts on it nothing is promised, and the abstract specification does not speak of it.

| LocalRepository | step of RepoClient |
|---|---|
| `BeginUpdate` | `UpdateChannel`, when the channel is not up to date |
| `FinishUpdate` | `InstallChannel` |
| `GiveUpUpdate` | `Fails` or `Kill` of such an update; a download that ends in a mixture |
| `Place`, `Clean` | `PlaceRelease`; `EraseRelease`, its first file and its last |
| `Pin`, `HandOut` | `Touch`, the second half of `Metafile.Reset` |
| `Unpin`, `Forget` | a command that stops between the halves; `Expire` |
| nothing | every other step |

### InstallAction and SetupApp

`InstallAction` has the machine, the tool cache (a folder and a marker for
each version) and the running job. `@actions/tool-cache` is modelled from its
use: `find` needs folder and marker, `cacheFile` removes both and makes them
again, in this order. `FetchVersion` returns whatever the server answers, an
error page included, since the code does not look at the status.

`SetupApp` composes `InstallAction` and `RepoClient`: the action starts one
process of the client after the other and waits for it, except for the
update that `TRDL_IN_BACKGROUND` sends to the background. A job may be
canceled at any step, and whatever it leaves running is killed when it is
over; tool cache and home directory stay for the next job of the same
workflow. `calm` becomes true when the trouble is over for good: until then every
fault may happen at any time.

| action | code |
|---|---|
| `GetOptions` ... `Version` of InstallAction | `install/src/action.ts`, `lib/gpg-cli.ts`, in the order of `Do` |
| `Start`, `Installed` | `parsePresetInput`, `Run` |
| `List`, `Remove`, `Removed`, `Add`, `Added` | `setup-app/src/add.ts` |
| `BinPath`, `PathFound`, `Update`, `Updated` | `setup-app/src/use.ts` |
| `Exec`, `Awaited`, `Succeeded` | `lib/exec.ts`, `failOnStdErr` included |
| `Cancel`, `KillOrphan`, `JobEnds` | the runner |

## 3. Runs

| run | instance | shows |
|---|---|---|
| `tasks_manager` | 2 tasks through `RunTask`, channel of 1, 2 restarts, 1 failing call, status lookups | `OneTaskInHand`, `RecordsAreInHand`, `CallbacksFindRecord`, `LookupNeverMisses`, `StrayFuncsFailed`, `HistoryBounded`; implements `TaskLifecycle` |
| `task_queue` | 3 tasks through both entries, channel of 2, no restarts or errors, fair | `TypeOK`, `NoOrphanLogs`, `EveryTaskEnds` |
| `history_kept` | 2 tasks | the cleanup deletes a history within its limit |
| `no_stale_records` | 1 restart, 1 failing call | an invalidation that failed is never taken up again |
| `publication` | 3 requests, 2 at a time, one given up; a branch moved anywhere between 2 commits, 2 releases, 1 channel | `TypeOK`, `ChannelsPointToReleases`, `TasksLeaveConsistent`, `PublishedAdvances` |
| `metadata_heals` | a release or publish, any number of rotations one after the other, 1 failing call, 1 restart, fair | torn metadata becomes consistent again |
| `channels_as_published` | 2 requests | a release undoes a publish that ended after the release opened its handle |
| `root_chain_unbroken` | rotations, 1 restart | a missing `N.root.json` is never written |
| `repo_client` | 2 processes, 2 releases, 1 channel; update with its cleanup, update to a version with its cleanup, bin-path | `TypeOK`, `ChannelHasRelease`, `PinnedHasRelease`, `HandedOutKept`, `SomebodyMoves`; implements `LocalRepository` |
| `setup_app` | jobs without end; 1 version of trdl, 4 machines, 4 workflows, 2 releases, 1 channel, 2 URLs, 2 processes, fair | `TypeOK`, `CacheIsVerified`, `ReadyHasRelease`, `SetupRecovers` |
| `vault_client` | 2 calls with one retry each, 4 tasks for them, 1 of somebody else, fair | `TypeOK`, `SuccessIsSingle`, `CallsEnd` |
| `background_update` | 2 processes, nothing else runs, fair | with `TRDL_IN_BACKGROUND` an update only ever starts another |

`history_kept`, `no_stale_records`, `channels_as_published`, `root_chain_unbroken`
and `background_update` end in a violation: what a document, a message or a test
of the repository says and the code does not do. `PROJECT.json` quotes each under
"findings".

**Why these bounds are enough.** Two tasks show everything about a task and
its successor (the busy check, the restart between them, the stray function
beside the next task); with `RunTask` only, a third would find the manager
as the second did. The queue needs three tasks to hold one in the worker and
two in the channel. Two restarts let a restart interrupt the invalidation of
another. In Publication two requests are the reader and the writer of every
race on the metadata; three in sequence are needed for a second release to
exist before the second commit is published. A second root version is what a
gap in the chain needs. The theorems below remove the bounds for the tasks
manager, for the channels and for the last published commit.

In RepoClient two processes are an update and whatever comes in its way; a third
would find files as the second leaves them. Two releases are the one a channel
moves from and the one it moves to; a second channel would keep more releases from
the cleanup. A `VIEW` counts states once that differ only in how a command will
end, or in what the update before a cleanup was: no step and no property of
`repo_client` depends on either (`Ahead`). Every update cleans up (`Autoclean =
{TRUE}`), the default; one that does not is one whose cleanup has not begun when
it ends. No update goes to the background (`Modes = {"no"}`): one that does starts
a child that is an update like any other, or, by the variable, a child that starts
another (`background_update`). `FirstRace`, a constraint, leaves off where a
release has raced with a cleanup or a second mark has got lost: what is checked is
everything up to and including the first race, and with one lost mark. The
theorems have none of these bounds: they hold for any number of processes and
releases, with and without cleanups, in the foreground and the background, after
any number of races and losses.

In `SetupApp` nothing races: its commands run one after the other, what a canceled
job leaves running is killed before the next, and an update in the background
never gets as far as a cleanup (`background_update`). So `ReadyHasRelease` is
about what earlier jobs leave behind; should the update in the background be
repaired, it would also be about a path of more than a day beside that update's
cleanup.

In SetupApp one version of trdl is enough for a folder that an earlier job has
left in any state; the machines are one the action supports, one with
another architecture, one with another platform, and Windows, where the cached
file lacks its `.exe`; the workflows are a preset with `force`, a complete and
an incomplete repository of one's own, and a mistyped preset. `MaxAttempts` is 1
in `vault_client`: a retry and the end of retries; with two calls each may find
the plugin busy with the other's task, or with the periodic one.

In `publication` the branch may be moved to any commit at any time, back to an
ancestor too. `PublishedAdvances` then rests on the check of
`path_publish.go:136`, which is why its mutant drops that check. The check
compares with the last published commit that the request has read, before its
task. When another publish is recorded between the two, the commit compared with
is not the last published one: if the branch is moved back after that, this
publish takes the channels back. The property names this case (`late`) and excepts
it; it says that there is no other. `TasksLeaveConsistent` speaks of handles still
up to date when their task begins (`staleTasks`): a periodic call that opens its
handle in the middle of another task's commit may write a `timestamp.json` for the
former `snapshot.json`; `MetadataHeals` has it repaired. Deadlock is not checked
in `publication` and `channels_as_published`, where the bound on requests stops
the system, and in `vault_client`, which stops when both calls have ended and
every task is forgotten.

### Fairness

*Tasks manager.* `WF` on the steps of a request under way, of the cleanup and
of the worker: goroutines are scheduled. `WF` on `Timeout`: every job has
a `context.WithTimeout`. `SF` on `TaskStarted` and `TaskCompleted`, the
callbacks that wait for `Manager.mu`: `sync.Mutex` hands the lock to a waiter
after 1 ms (its starvation mode). No fairness for requests, cancellations, or the
return of a task function: it may run for ever.

*Publication.* `WF` on the steps of each request; on `Periodic`, which Vault
calls every minute; and on `HourPasses`. `SF` on a rotation that finds
`snapshot.json` and `timestamp.json` due: their dates (rotated every second
day and every four hours, `tuf_repo_rotator.go:124-148`) come, whatever else
happens. None for requests, errors and restarts.

*VaultClient.* `WF` on the loop of each call and on the plugin's worker, whose
tasks end by their timeout (`EveryTaskEnds`). None for lost answers, restarts
and the periodic job.

*SetupApp.* `WF` on the job, which the workflow starts again and again, and on
each process: the system schedules them. `SetupRecovers` asks nothing of the
trouble but that it is over at some time. *RepoClient* (`background_update`):
`WF` on the steps of each process.

## 4. Proofs

`TasksManager_proofs` proves, for any number of tasks, restarts and errors,
any channel capacity and history limits:

| theorem | says |
|---|---|
| `TypeCorrect` | every variable keeps its type, the channel its capacity |
| `OneTaskAtATime` | `OneTaskInHand`, when only `RunTask` is used, as the plugin does |
| `NoRecordLeftBehind` | `RecordsAreInHand` |
| `CallbacksNeverMiss` | `CallbacksFindRecord` |
| `StatusNeverMisses` | `LookupNeverMisses`, for status lookups |
| `StrayFuncsHaveFailed` | `StrayFuncsFailed` |
| `LogsKeepTheirRecord` | `NoOrphanLogs`, until a restart or a failing call |
| `CleanupBoundsHistory` | `HistoryBounded` |
| `ImplementsLifecycle` | every behaviour is one of `TaskLifecycle`: `LifecycleSpec` |

They rest on `TasksAssumption` (the constants have their types, the channel
has a capacity) and on one inductive invariant, `IInv`. `OneTaskInHand` is
not inductive: the busy check reads *records*, so one has to know that every
task on its way has one (`StagesHaveRecords`: in the channel and queued; with
the worker and running; in between, as far as the callback is). Conversely
`RecordsAreInHand` needs to know that the invalidation has listed every
record it must replace (`InvalidationCovers`), a task with two records (a
restart between the two writes of a move) twice, and that nothing is on its
way before the first request (`FreshManager`). `StagesDisjoint` keeps a task
from being at two stages at once. For the refinement `VerdictWritten` says
that the verdict is in storage before the record it replaces is deleted, so
the reported status moves when that record goes; for the lookup
`StatusLookup` says what each key already read excludes. Each conjunct has a
lemma with one step for each action that can disturb it; the refinement has a
lemma for each abstract step.

Three properties have an invariant of their own beside `IInv`. `FuncsKnown`
says where the task of a running function is: in the worker's hands, failed
there, or no more queued or running and its end, if it is still recorded, a
failure; and that no function runs while the records of before a restart are
being invalidated. `LogsHaveRecords` says that, as long as nothing has been
lost, every log has the record of a completed task beside it, but for the one
log the cleanup is about to delete after its record. A restart between
the two leaves a log alone, which is why the theorem has
`crashes = 0 /\ faults = 0` where the run `task_queue` sets both bounds to 0.
`CleanupCovers` says that the tasks the hourly cleanup does not have on its
list are within the limit; that no two tasks ended at the same time is what
makes `Newest` a set of that size.

`Publication_proofs` proves, for any number of requests, releases, channels
and commits, and any faults, restarts and tasks given up:

| theorem | says |
|---|---|
| `PublicationTypes` | every variable keeps its type |
| `ChannelsFindReleases` | `ChannelsPointToReleases` |
| `TasksLeaveMetadataConsistent` | `TasksLeaveConsistent` |
| `PublishNeverGoesBack` | `PublishedAdvances`, wherever the branch is moved |

They rest on `PublicationAssumption`: ancestry is reflexive and transitive,
every commit configures each channel with a release or none, and there are
enough identities of metadata files that one is always free
(`FreshIsIdent` counts those the bucket and the handles use). Each theorem has
its own inductive invariant. `TypeInv` adds what a request has to go on with
(`HandleShape`). `KnownInv` adds that *every handle*, however old, is as sound
as the bucket, for any of them may overwrite `targets.json`; and that a publish
in the middle of its channels has checked all of them (`ReleasesKnown`).
`OrderInv` adds that only the running task may still record, that what it has cloned
descends from the commit its request has read, whatever has become of the branch since,
and that this commit is still the last published one unless the task was late when
it began: nobody else records beside it, and whoever deletes the record leaves nothing to
compare with (`CommitsInOrder`). `FitInv` adds to the types, while
nothing has interrupted a task and none began with an old handle, that the
handle of the task at work is the bucket's metadata but for what it has staged
itself (`Fits`), that its files fit together from its own commit on, and that
those of the bucket do unless it is writing them (`StoreFits`).

`RepoClient_proofs` and `RepoLocks_proofs` prove, for any number of processes,
releases and channels, any errors and kills:

| theorem | says |
|---|---|
| `RepoClientTypeOK` | every variable keeps its type |
| `ChannelKeepsRelease` | `ChannelHasRelease` |
| `PinnedReleasesStay` | `PinnedHasRelease` |
| `HandedOutReleasesStay` | `HandedOutKept` |
| `ImplementsLocalRepository` | every behaviour is one of `LocalRepository`: `LocalSpec` |
| `CommandsNeverLockUp` | `SomebodyMoves` |

All of them hold with cleanups beside any other commands; `Next` leaves out only
`trdl remove`, which is meant to delete what they are about, and `trdl add`,
before which there is nothing to delete: `SetupApp` has both. None of the
invariants is inductive. `IInv` has two parts beside the types. `Coherent(R)` is
about files, locks and processes, and true but for the releases in a set `R` that
must contain those that race just now (`Racing`); in `IInv` it is `raced`, in
`SetupApp_proofs` the empty set. It says what each process knows of its arguments
at its step (`Equipped`) and what it relies on (`Relies`): an update has the
channel's update lock, and the temporary file is the one it has read; who unpacks
holds the release's lock and finds it not whole, so that no whole release is ever
removed for a new one; a process past the unpacking has a whole release before it;
and a cleanup that has read a channel does not have its release on its list, nor
in its hands. The last two are where processes get into each other's way: an
update puts a release on a channel the cleanup has read, or a cleanup deletes what
an update is about to install. Either way one of them was about to mark what the
other was about to delete (`DeletedRaces`, `InstalledRaces`), so the release is in
`R`. `MarksHold` is the other part: a release counted on has its mark, or a
process is between the halves of making it anew; and no cleanup past the look for
that mark has such a release in its hands. `Exclusive` is mutual exclusion of the
locks. Each action has a lemma for `Coherent` (`...Keeps`) and one for `MarksHold`
(`Marks...`); those that change one process and one lock share `Moved`,
`LocksStep` and `FilesStep`.

The refinement rests on the same `IInv`. `ComingIsOne` is its heart: the update
lock, `Relies` and `Exclusive` make what is on its way to a channel the release of
one process, so that an update that begins finds none, and one that
installs takes what was published when it began (`tmpChannel` is what `Relies` says
it is). Each action has a lemma that names its abstract step (`...Seen`) or shows
that it has none (`...Unseen`), through `NotComing`, `StillComing` and
`ComesNoMore`, which say how the step of one process changes what is on its way.
A release that comes to race is there at that moment (`RacedSeen`), so counting it
changes nothing a user sees; afterwards its deletion does not either.

`RepoLocks_proofs` adds to `IInv` which locks a command may have in its hands at
each step (`Held`). No action says that the locks are ordered;
`NoCircle` finds the order. Who holds the lock of a metafile, or of a release,
waits for none; so nobody waits for those, and who holds a channel's lock, which
may only be waiting for a metafile's, does not wait; so nobody waits for a channel's
either, and who holds an update's lock, which waits for a release's or a
channel's, does not wait.

`VaultClient_proofs` proves `VaultClientTypeOK` and `ReleasedOnce`
(`SuccessIsSingle`) from `ClientAssumption`. The strengthening (`CallKnows`) is
that a call about to ask again has only failed or forgotten tasks behind it,
and one that watches has at most the last still open; `Forward` says that
nothing the plugin does turns a failed task into another, which is all the
proof needs of `TaskLifecycle`. `InstallAction_proofs` proves `CacheVerified`:
the tool cache hands out verified, whole binaries only, for any versions,
machines and jobs, assuming that `NoVersion` is neither a version nor a page.
`JobKnows` says what the cache holds at each step between the verification and
the marker; that a job which did not find its version writes no folder beside
a marker is what keeps a torn folder from being found.

For `SetupApp`, two modules prove the safety properties of `setup_app`, for any
processes, releases, channels, machines and workflows, from its assumption
`SetupAssumption` (the model values differ, a workflow has inputs of the right
kind). Each extends `SetupApp` and takes the lemmas about one of its parts by an
instance of that part's proof module (`R` and `I`), where what the part assumes
of the constants is proved (`RepoConstants`) or cited as a hypothesis:

| theorem | module | says |
|---|---|---|
| `SetupCacheVerified` | `SetupInstall_proofs` | `CacheIsVerified` |
| `SetupAppTypeOK` | `SetupApp_proofs` | `TypeOK` |
| `ReadyReleaseStays` | `SetupApp_proofs` | `ReadyHasRelease` |

`SetupInstall_proofs` shows that every step of a job is one of `InstallAction`'s,
or leaves the cache alone. `SetupApp_proofs` uses the invariant of
`RepoClient_proofs` in a system that breaks it: `trdl remove` deletes releases
while channels name them, and may be stopped half way. So `SInv` says that the
local repository is `Sound`, which is one of two things: `Kept`, which is
`Coherent({})` of `RepoClient_proofs`, with no release left out, since commands
follow one another (`Turns`) and so nothing races (`NoRace`), and a path about to
be returned is that of a whole release (`Found`); or it is `Wiped`: a removal is
at work or was stopped, nobody reads or updates, and since the configuration still
has the repository and the workflow says `force`, the next job removes it again
before it does anything else. `Results` is what the job knows when a command has
ended: an `add` is on its way only when nothing is registered, and a path came
from a whole release. TLC found `SInv` to hold on all states of `setup_app` before
it was proved.

Only model-checked: liveness (`EveryTaskEnds`, `MetadataHeals`, `SetupRecovers`,
`CallsEnd`), which is out of the prover's reach. Every other property of a passing
run is stated by a theorem.

## 5. Not modelled

`PROJECT.json` lists each component with its reason. In the modelled ones:
the text of logs and responses; `task_timeout` as a number (a timeout may
come at any time); a negative `task_history_limit`, which panics; the first
initialisation of keys and repository; the PGP signing key and `Publisher.mu`,
which orders the opening of a handle and the staging of one file and nothing
in the bucket; release targets, written over published ones of the same
version; the dates of the rotation, for which "due" is a choice.

Of the client: `use`, `exec` and `dir-path`; the path of a version, read under
the update-release lock; several repositories and groups in one
configuration, and `set-default-channel`; the versions of the TUF metadata; the
swap of the binary by a self-update (its outcome is there). Of the actions: the
input `channel` of the action install, which is read and not used; the variable
for `trdl use`, a text; `addPath("")` when the second bin-path finds nothing. Of
the Vault client: the log it prints beside the watch. Configuration of
linters, bundlers and tests, the scripts of the documentation site and the
generated `dist` of the actions are no part of any protocol.

## 6. Plan

What remains, in order of weight:

1. **TufClientStore** (`client/pkg/tuf`): cached copy, lock, save; against the
   bucket of Publication. Property: saved versions never go back. Run:
   2 processes, 2 versions.
2. **SignatureQuorum** (`pkg/git`, `pkg/pgp`): the greedy matching of
   signatures with keys as a fold, against its definition (that many different
   keys have signed). Run: all sets of 3 signatures and 3 keys. Proof:
   lemmas on one step of the fold.
3. **Configuration** and **SelfUpdate** (`client/pkg/client`): lost edits, the
   swap of the binary.
4. More proofs: that a call of VaultClient sees of TaskLifecycle what
   TasksManager implements.
