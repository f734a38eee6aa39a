------------------------------ MODULE SetupApp ------------------------------
(***************************************************************************)
(* The GitHub action that sets an application up (actions/setup-app): the  *)
(* installation of trdl (InstallAction), then `trdl list', remove, add,    *)
(* bin-path and update, each a process on the local repository             *)
(* (RepoClient) that the action waits for.  Jobs of one workflow follow    *)
(* one another on a runner that keeps its tool cache and home directory.   *)
(***************************************************************************)
CONSTANTS
    Versions, Page, NoVersion, Machines,                        \* InstallAction
    Releases, Channels, Urls, Procs,                            \* RepoClient
    NoRelease, NoChannel, NoUrl, Garbled,
    NoProc,
    PresetUrl,      \* the URL in the presets
    DefaultChannel, \* stable: the channel of the presets, and the client's default
    Workflows       \* inputs of the action, as written in the workflows in use

SetupConstants ==
    /\ NoVersion \notin Versions \cup {Page}
    /\ NoRelease \notin Releases /\ Garbled \notin Releases \cup {NoRelease}
    /\ NoChannel \notin Channels /\ NoUrl \notin Urls /\ NoProc \notin Procs
    /\ PresetUrl \in Urls /\ DefaultChannel \in Channels
    /\ \A w \in Workflows : /\ w.url \in Urls \cup {NoUrl} /\ w.force \in BOOLEAN
                            /\ w.channel \in Channels \cup {NoChannel}

ASSUME SetupAssumption == SetupConstants

VARIABLES
    machine, cache, install,
    published, registered, rooted, channelFile, tmpChannel, dir, metafile, pinned,
    locks, proc, handedOut,
    workflow,       \* the inputs: preset, url, channel and force
    setup,          \* the running job
    calm            \* neither network nor machine will give trouble any more

Install == INSTANCE InstallAction WITH job <- install
Client  == INSTANCE RepoClient WITH Uses <- {}, Autoclean <- {}, Modes <- {},
               asked <- {}, lostMarks <- {}, lostPins <- {}, raced <- {}

local == <<published, registered, rooted, channelFile, tmpChannel, dir, metafile,
           pinned, locks, proc, handedOut>>
vars  == <<machine, cache, install, local, workflow, setup, calm>>

Presets == {"unknown", "werf", "kubedog", "nelm"}
Steps   == {"idle", "install", "list", "remove", "add", "path", "update",
            "path again", "ready", "failed"}

TypeOK ==
    /\ workflow \in Workflows
    /\ calm \in BOOLEAN
    /\ setup \in [at : Steps, proc : Procs \cup {NoProc}, path : Releases \cup {NoRelease}]
    /\ Install!TypeOK /\ Client!TypeOK

Idle == [at |-> "idle", proc |-> NoProc, path |-> NoRelease]

\* Somebody may have added the repository before, with another URL perhaps.
Init ==
    /\ Install!Init
    /\ \E url \in Urls \cup {NoUrl} : Client!InitWith(url)
    /\ workflow \in Workflows
    /\ setup = Idle
    /\ calm = FALSE

-----------------------------------------------------------------------------
(* The arguments of the commands *)

\* getInput of a missing required input throws: without preset a URL is needed.
InputsGiven == workflow.preset = "unknown" => workflow.url # NoUrl

GetAddArgs == IF workflow.preset = "unknown" THEN workflow.url ELSE PresetUrl

\* The channel of the preset, the same in all of them.
GetUpdateArgs == IF workflow.preset = "unknown" THEN NoChannel ELSE DefaultChannel

\* buildArgs: the channel that is an input overrides that of the preset; without
\* either, the client takes its default channel.
BuildArgs ==
    CASE workflow.channel # NoChannel -> workflow.channel
      [] workflow.channel = NoChannel /\ GetUpdateArgs # NoChannel -> GetUpdateArgs
      [] OTHER -> DefaultChannel

-----------------------------------------------------------------------------

At(step) == setup.at = step
Continue(step) == setup' = [setup EXCEPT !.at = step, !.proc = NoProc]

Start ==
    /\ At("idle")
    /\ IF workflow.preset \in Presets
       THEN /\ Install!Run(NoVersion)
            /\ Continue("install")
       ELSE Continue("failed") /\ UNCHANGED <<machine, cache, install>>
    /\ UNCHANGED <<local, workflow, calm>>

Installed ==
    /\ At("install")
    /\ install.at \in {"done", "failed"}
    /\ Continue(IF install.at = "done" THEN "list" ELSE "failed")
    /\ UNCHANGED <<machine, cache, install, local, workflow, calm>>

\* Is the application there? `trdl list' reads the configuration.
List ==
    /\ At("list")
    /\ Continue(CASE ~InputsGiven -> "failed"
                  [] InputsGiven /\ registered = NoUrl -> "add"
                  [] InputsGiven /\ registered # NoUrl /\ workflow.force -> "remove"
                  [] InputsGiven /\ registered # NoUrl /\ ~workflow.force ->
                         IF registered = GetAddArgs THEN "path" ELSE "failed")
    /\ UNCHANGED <<machine, cache, install, local, workflow, calm>>

\* exec: one of the commands is started ...
Exec(p, step) ==
    /\ At(step) /\ setup.proc = NoProc
    /\ p = CHOOSE q \in Procs : proc[q].at = "idle"
    /\ setup' = [setup EXCEPT !.proc = p]
    /\ UNCHANGED <<machine, cache, install, workflow, calm>>

Remove(p) == Exec(p, "remove") /\ Client!StartRemove(p)
Add(p)    == Exec(p, "add") /\ Client!StartAdd(p, GetAddArgs)

BinPath(p) ==
    /\ Exec(p, "path") \/ Exec(p, "path again")
    /\ Client!StartBinPath(p, BuildArgs)

\* TRDL_IN_BACKGROUND: whether the application has been found.
ToUpdateEnvs == IF setup.path # NoRelease THEN "env" ELSE "no"

Update(p) ==
    /\ Exec(p, "update")
    /\ Client!StartUpdate(p, BuildArgs, TRUE, ToUpdateEnvs)

\* ... and waited for.
Awaited(step) == At(step) /\ setup.proc # NoProc /\ proc[setup.proc].at = "idle"

\* A line on stderr fails a command as its exit code does (failOnStdErr).
Succeeded == proc[setup.proc].result = "ok"

\* Mutant: the exit code of `trdl remove' is ignored.
Removed_IgnoresReturnCode ==
    /\ Awaited("remove")
    /\ Continue("add")
    /\ UNCHANGED <<machine, cache, install, local, workflow, calm>>

Removed ==
    /\ Awaited("remove")
    /\ Continue(IF Succeeded THEN "add" ELSE "failed")
    /\ UNCHANGED <<machine, cache, install, local, workflow, calm>>

Added ==
    /\ Awaited("add")
    /\ Continue(IF Succeeded THEN "path" ELSE "failed")
    /\ UNCHANGED <<machine, cache, install, local, workflow, calm>>

\* Here errors are ignored: what could not be found has the path "".
PathFound ==
    /\ Awaited("path") \/ Awaited("path again")
    /\ setup' = [at |-> IF At("path") THEN "update" ELSE "ready", proc |-> NoProc,
                 path |-> IF Succeeded THEN proc[setup.proc].release ELSE NoRelease]
    /\ UNCHANGED <<machine, cache, install, local, workflow, calm>>

Updated ==
    /\ Awaited("update")
    /\ Continue(CASE ~Succeeded -> "failed"
                  [] Succeeded /\ setup.path = NoRelease -> "path again"
                  [] Succeeded /\ setup.path # NoRelease -> "ready")
    /\ UNCHANGED <<machine, cache, install, local, workflow, calm>>

\* The job is over: what it has left running is killed, and the next may start.
KillOrphan(p) ==
    /\ At("ready") \/ At("failed")
    /\ Client!Kill(p)
    /\ UNCHANGED <<machine, cache, install, workflow, setup, calm>>

JobEnds ==
    /\ At("ready") \/ At("failed")
    /\ \A p \in Procs : proc[p].at = "idle"
    /\ setup' = Idle
    /\ install' = Install!Idle
    /\ proc' = [p \in Procs |-> Client!Idle]
    /\ UNCHANGED <<machine, cache, published, registered, rooted, channelFile, tmpChannel,
                   dir, metafile, pinned, locks, handedOut, workflow, calm>>

-----------------------------------------------------------------------------

\* Steps of trdl itself; a result that is waited for is not overwritten.
ResultKept ==
    \A p \in Procs : setup.proc = p /\ proc[p].at = "idle" => proc'[p] = proc[p]

ClientStep(p) ==
    /\ Client!Step(p) \/ Client!AddRepo(p) \/ Client!RemoveRepo(p)
    /\ ResultKept
    /\ UNCHANGED <<machine, cache, install, workflow, setup, calm>>

ClientTrouble(p) ==
    /\ Client!Trouble(p)
    /\ UNCHANGED <<machine, cache, install, workflow, setup, calm>>

InstallStep ==
    /\ At("install")
    /\ Install!Step
    /\ calm => /\ install'.version \in Versions \cup {NoVersion, install.version}
               /\ install'.binary \in {"none", "verified", install.binary}
    /\ UNCHANGED <<local, workflow, setup, calm>>

InstallTrouble ==
    /\ At("install")
    /\ Install!Fault
    /\ UNCHANGED <<local, workflow, setup, calm>>

\* The job is canceled, or the machine stops.
Cancel ==
    /\ ~At("idle") /\ ~At("ready") /\ ~At("failed")
    /\ Continue("failed")
    /\ UNCHANGED <<machine, cache, install, local, workflow, calm>>

Trouble ==
    /\ ~calm
    /\ InstallTrouble \/ Cancel \/ \E p \in Procs : ClientTrouble(p)

CalmsDown ==
    /\ ~calm /\ calm' = TRUE
    /\ UNCHANGED <<machine, cache, install, local, workflow, setup>>

Outside ==
    /\ Client!Outside
    /\ UNCHANGED <<machine, cache, install, workflow, setup, calm>>

Job ==
    \/ Start \/ InstallStep \/ Installed \/ List
    \/ \E p \in Procs : Remove(p) \/ Add(p) \/ BinPath(p) \/ Update(p)
    \/ Removed \/ Added \/ PathFound \/ Updated
    \/ \E p \in Procs : KillOrphan(p)
    \/ JobEnds

Next ==
    \/ Job
    \/ \E p \in Procs : ClientStep(p)
    \/ Trouble
    \/ CalmsDown
    \/ Outside

Spec == Init /\ [][Next]_vars

\* Jobs and processes are scheduled, and the workflow is run again and again.
FairSpec == Spec /\ WF_vars(Job) /\ \A p \in Procs : WF_vars(ClientStep(p))

-----------------------------------------------------------------------------
(* Properties *)

CacheIsVerified == Install!CacheIsVerified

\* While later steps of the job use the path that was put on the PATH, the
\* release is there and whole, whatever earlier jobs have left behind
\* (setup-app/src/add.ts and use.ts, Do). The path may be "", though.
ReadyHasRelease ==
    At("ready") => setup.path = NoRelease \/ dir[setup.path] = "whole"

\* The workflow can be carried out on this machine and its repository.
Possible ==
    /\ Install!OnPath
    /\ machine.platform \in Install!Platforms /\ machine.arch \in Install!Archs
    /\ workflow.preset \in Presets /\ InputsGiven
    /\ workflow.force \/ registered \in {NoUrl, GetAddArgs}

\* Whatever state earlier jobs have been stopped in: once the trouble is over,
\* a job sets the application up (setup-app/src/action.ts, Run; the commands
\* remove, add and update of the client).
SetupRecovers ==
    (calm /\ Possible) ~> (At("ready") /\ setup.path # NoRelease)
=============================================================================
