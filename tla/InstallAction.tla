--------------------------- MODULE InstallAction ---------------------------
(***************************************************************************)
(* The GitHub action that installs the trdl command line client            *)
(* (actions/install) on one machine: jobs follow one another, each may be  *)
(* canceled or fail at any point, and the tool cache outlives them.        *)
(***************************************************************************)
CONSTANTS
    Versions,   \* versions of trdl that may be asked for
    Page,       \* the body of an HTTP response that is not a version
    NoVersion,
    Machines    \* the [platform, arch] of the machines in use

VARIABLES
    machine,    \* the machine the jobs run on
    cache,      \* the tool cache, by version
    job         \* the running job

vars == <<machine, cache, job>>

Platforms == {"linux", "darwin", "win32"}
Archs     == {"x64", "arm64"}

\* A version's folder holds no, a partial, the verified or another binary;
\* the marker beside it says that it is complete.
Folder == {"none", "empty", "partial", "verified", "other"}
Steps  == {"idle", "options", "find", "cached", "gpg", "urls", "download", "verify",
           "uncache", "unmark", "folder", "copy", "mark", "installed", "which",
           "version", "done", "failed"}

TypeOK ==
    /\ machine \in Machines
    /\ cache \in [Versions -> [folder : Folder, marker : BOOLEAN]]
    /\ job \in [at : Steps, version : Versions \cup {Page, NoVersion},
                binary : {"none", "verified", "other"}]
    /\ job.at \in {"idle", "options", "done", "failed"} \/ job.version # NoVersion

Idle == [at |-> "idle", version |-> NoVersion, binary |-> "none"]

Init ==
    /\ machine \in Machines
    /\ cache = [v \in Versions |-> [folder |-> "none", marker |-> FALSE]]
    /\ job = Idle

At(step)   == job.at = step
Goto(step) == job' = [job EXCEPT !.at = step]
Running    == ~(At("idle") \/ At("done") \/ At("failed"))

\* The version is an input, or that of the default channel: the channel that
\* is an input, too, is read and not used.
Run(version) ==
    /\ At("idle")
    /\ job' = [Idle EXCEPT !.at = "options", !.version = version]
    /\ UNCHANGED <<machine, cache>>

\* The default channel may name any version by now; whatever the server answers,
\* an error page too, is taken for it.
FetchVersion == Versions \cup {Page}

\* Mutant: an input that is not given is taken for a version.
GetOptions_EmptyInput ==
    /\ At("options")
    /\ Goto("find")
    /\ UNCHANGED <<machine, cache>>

GetOptions ==
    /\ At("options")
    /\ \E version \in IF job.version = NoVersion THEN FetchVersion ELSE {job.version} :
           job' = [job EXCEPT !.at = "find", !.version = version]
    /\ UNCHANGED <<machine, cache>>

\* The tool cache has a version when its folder and its marker exist.
Found(v) == v \in Versions /\ cache[v].folder # "none" /\ cache[v].marker

FindTrdlCachePath ==
    /\ At("find")
    /\ Goto(IF Found(job.version) THEN "cached" ELSE "gpg")
    /\ UNCHANGED <<machine, cache>>

\* chmod needs the file; then the folder is on the PATH.
ConfigureTrdl ==
    /\ At("cached") \/ At("installed")
    /\ cache[job.version].folder \notin {"none", "empty"}
    /\ Goto(IF At("cached") THEN "which" ELSE "version")
    /\ UNCHANGED <<machine, cache>>

MustGnuPG ==
    /\ At("gpg")
    /\ Goto("urls")
    /\ UNCHANGED <<machine, cache>>

FormatDownloadUrls ==
    /\ At("urls")
    /\ machine.platform \in Platforms /\ machine.arch \in Archs
    /\ Goto("download")
    /\ UNCHANGED <<machine, cache>>

\* The binary may not be the one the signature is for.
DownloadParallel ==
    /\ At("download")
    /\ job.version \in Versions
    /\ \E binary \in {"verified", "other"} :
           job' = [job EXCEPT !.at = "verify", !.binary = binary]
    /\ UNCHANGED <<machine, cache>>

\* Mutant: the exit code of gpg is ignored.
Verify_IgnoresReturnCode ==
    /\ At("verify")
    /\ Goto("uncache")
    /\ UNCHANGED <<machine, cache>>

Verify ==
    /\ At("verify")
    /\ job.binary = "verified"
    /\ Goto("uncache")
    /\ UNCHANGED <<machine, cache>>

\* tool-cache's cacheFile: the folder is removed, then the marker; the folder
\* is made, the file copied into it and the marker written.
SetFolder(folder, next) ==
    /\ cache' = [cache EXCEPT ![job.version].folder = folder]
    /\ Goto(next)

SetMarker(marker, next) ==
    /\ cache' = [cache EXCEPT ![job.version].marker = marker]
    /\ Goto(next)

CacheFile ==
    /\ \/ At("uncache") /\ cache[job.version].folder \in {"none", "empty"}
                        /\ SetFolder("none", "unmark")
       \/ At("uncache") /\ cache[job.version].folder \notin {"none", "empty"}
                        /\ SetFolder("empty", "uncache")
       \/ At("unmark")  /\ SetMarker(FALSE, "folder")
       \/ At("folder")  /\ SetFolder("empty", "copy")
       \/ At("copy")    /\ cache[job.version].folder = "empty"
                        /\ SetFolder("partial", "copy")
       \/ At("copy")    /\ cache[job.version].folder = "partial"
                        /\ SetFolder(job.binary, "mark")
       \/ At("mark")    /\ SetMarker(TRUE, "installed")
    /\ UNCHANGED machine

\* `which' and exec look for a name with an extension on Windows, and the
\* cached file has none.
OnPath == machine.platform # "win32"

MustExist ==
    /\ At("which")
    /\ OnPath
    /\ Goto("version")
    /\ UNCHANGED <<machine, cache>>

Version ==
    /\ At("version")
    /\ OnPath
    /\ job' = [Idle EXCEPT !.at = "done"]
    /\ UNCHANGED <<machine, cache>>

\* An error of the code's own ends the job ...
Refused ==
    \/ (At("cached") \/ At("installed")) /\ cache[job.version].folder \in {"none", "empty"}
    \/ At("urls") /\ ~(machine.platform \in Platforms /\ machine.arch \in Archs)
    \/ At("download") /\ job.version \notin Versions
    \/ At("verify") /\ job.binary = "other"
    \/ (At("which") \/ At("version")) /\ ~OnPath

Fails ==
    /\ job' = [Idle EXCEPT !.at = "failed"]
    /\ UNCHANGED <<machine, cache>>

Refuse == Refused /\ Fails

\* ... and so does one of the network, of gpg or of the disk, and a cancel.
Fault == Running /\ Fails

\* The runner is ready for the next job.
JobEnds ==
    /\ At("done") \/ At("failed")
    /\ job' = Idle
    /\ UNCHANGED <<machine, cache>>

Step ==
    \/ GetOptions \/ FindTrdlCachePath \/ ConfigureTrdl \/ MustGnuPG
    \/ FormatDownloadUrls \/ DownloadParallel \/ Verify \/ CacheFile
    \/ MustExist \/ Version \/ Refuse

Next ==
    \/ \E version \in Versions \cup {NoVersion} : Run(version)
    \/ Step
    \/ Fault
    \/ JobEnds

Spec == Init /\ [][Next]_vars

-----------------------------------------------------------------------------
(* Properties *)

\* Every binary the tool cache can hand to a later job has been verified and is
\* whole, wherever the jobs before it were stopped (install/src/action.ts, Do).
CacheIsVerified ==
    \A v \in Versions : Found(v) => cache[v].folder = "verified"
=============================================================================
