------------------------ MODULE InstallAction_proofs ------------------------
(***************************************************************************)
(* The tool cache never hands out an unverified binary: a proof for every  *)
(* set of versions and machines.                                           *)
(***************************************************************************)
EXTENDS InstallAction, TLAPS

Caching == {"uncache", "unmark", "folder", "copy", "mark"}

\* What a job that has not found its version knows of the cache, until it is
\* written.
JobKnows ==
    /\ job.at \in {"verify"} \cup Caching => job.version \in Versions
    /\ job.at \in {"gpg", "urls", "download", "verify", "uncache"} => ~Found(job.version)
    /\ job.at \in Caching => job.binary = "verified"
    /\ job.at = "unmark" => cache[job.version].folder = "none"
    /\ job.at \in {"folder", "copy", "mark"} => ~cache[job.version].marker
    /\ job.at = "mark" => cache[job.version].folder = "verified"

IInv == TypeOK /\ JobKnows /\ CacheIsVerified

-----------------------------------------------------------------------------

LEMMA InitIInv == Init => IInv
BY DEF Init, IInv, TypeOK, JobKnows, CacheIsVerified, Found, Idle, Steps, Folder, Caching

\* Steps that only move the job, and what it has to know for that.
MayGo(from, to) ==
    /\ from \notin {"idle", "options", "done", "failed"}
    /\ to \in {"gpg", "urls", "download", "verify"} \cup Caching =>
          \/ from \in {"gpg", "urls"} /\ to \in {"urls", "download"}
          \/ from = "find" /\ to = "gpg" /\ ~Found(job.version)
          \/ from = "verify" /\ to = "uncache" /\ job.binary = "verified"

LEMMA MovedJob ==
    ASSUME IInv, UNCHANGED <<machine, cache>>, NEW from, job.at = from,
           NEW to \in Steps, Goto(to), MayGo(from, to)
    PROVE  IInv'
<1>1. job'.at = to /\ job'.version = job.version /\ job'.binary = job.binary
  BY DEF IInv, TypeOK, Goto
<1>2. TypeOK'
  BY DEF IInv, TypeOK, Goto, MayGo
<1>3. CacheIsVerified'
  BY DEF IInv, CacheIsVerified, Found
<1>4. JobKnows'
  BY <1>1 DEF IInv, JobKnows, Found, Caching, MayGo
<1>5. QED
  BY <1>2, <1>3, <1>4 DEF IInv

\* A job that starts, or is over, knows nothing.
LEMMA FreshJob ==
    ASSUME IInv, UNCHANGED <<machine, cache>>, TypeOK',
           job'.at \in {"idle", "options", "find", "done", "failed"}
    PROVE  IInv'
BY DEF IInv, JobKnows, CacheIsVerified, Found, Caching

\* Writing the cache: only the job's version changes.
Written(f, m, to) ==
    /\ cache' = [cache EXCEPT ![job.version] = [folder |-> f, marker |-> m]]
    /\ job' = [job EXCEPT !.at = to]

LEMMA WrittenCache ==
    ASSUME IInv, job.at \in Caching, UNCHANGED machine,
           NEW f \in Folder, NEW m \in BOOLEAN, NEW to \in Caching \cup {"installed"},
           Written(f, m, to),
           m /\ f # "none" => f = "verified",
           to = "uncache" => ~(m /\ f # "none"),
           to = "unmark" => f = "none",
           to \in {"folder", "copy", "mark"} => ~m,
           to = "mark" => f = "verified"
    PROVE  IInv'
<1> DEFINE v == job.version
<1>1. v \in Versions
  BY DEF IInv, JobKnows
<1>2. /\ job'.at = to /\ job'.version = v /\ job'.binary = job.binary
      /\ cache'[v].folder = f /\ cache'[v].marker = m
      /\ \A u \in Versions : u # v => cache'[u] = cache[u]
  BY <1>1 DEF IInv, TypeOK, Written
<1>3. TypeOK'
  <2>1. job' \in [at : Steps, version : Versions \cup {Page, NoVersion},
                  binary : {"none", "verified", "other"}]
    BY DEF IInv, TypeOK, Steps, Caching, Written
  <2>2. cache' \in [Versions -> [folder : Folder, marker : BOOLEAN]]
    BY <1>1 DEF IInv, TypeOK, Written
  <2>3. job'.version # NoVersion
    BY <1>2 DEF IInv, TypeOK, Caching
  <2>4. QED
    BY <2>1, <2>2, <2>3 DEF IInv, TypeOK
<1>4. CacheIsVerified'
  BY <1>2 DEF IInv, CacheIsVerified, Found
<1>5. JobKnows'
  BY <1>1, <1>2 DEF IInv, JobKnows, Found, Caching
<1>6. QED
  BY <1>3, <1>4, <1>5 DEF IInv

LEMMA CacheFileIInv == ASSUME IInv, CacheFile PROVE IInv'
<1> DEFINE v == job.version
           e == cache[v]
<1>1. job.at \in Caching /\ v \in Versions /\ UNCHANGED machine
  BY DEF CacheFile, IInv, JobKnows, At, Caching
<1>2. e \in [folder : Folder, marker : BOOLEAN] /\ job.binary = "verified"
  BY <1>1 DEF IInv, TypeOK, JobKnows
<1>3. ASSUME NEW f \in Folder, NEW to \in Steps, SetFolder(f, to)
      PROVE  Written(f, e.marker, to)
  <2>1. [cache[v] EXCEPT !.folder = f] = [folder |-> f, marker |-> e.marker]
    BY <1>2
  <2>2. QED
    BY <1>3, <2>1 DEF SetFolder, Goto, Written
<1>4. ASSUME NEW m \in BOOLEAN, NEW to \in Steps, SetMarker(m, to)
      PROVE  Written(e.folder, m, to)
  <2>1. [cache[v] EXCEPT !.marker = m] = [folder |-> e.folder, marker |-> m]
    BY <1>2
  <2>2. QED
    BY <1>4, <2>1 DEF SetMarker, Goto, Written
<1>5. CASE At("uncache") /\ e.folder \in {"none", "empty"} /\ SetFolder("none", "unmark")
  BY <1>5, <1>3, <1>2, <1>1, WrittenCache DEF Folder, Caching, Steps, At
<1>6. CASE At("uncache") /\ e.folder \notin {"none", "empty"} /\ SetFolder("empty", "uncache")
  <2>1. ~e.marker
    BY <1>6, <1>1 DEF IInv, JobKnows, At, Found
  <2>2. QED
    BY <2>1, <1>6, <1>3, <1>2, <1>1, WrittenCache DEF Folder, Caching, Steps, At
<1>7. CASE At("unmark") /\ SetMarker(FALSE, "folder")
  <2>1. e.folder = "none"
    BY <1>7 DEF IInv, JobKnows, At
  <2>2. QED
    BY <2>1, <1>7, <1>4, <1>2, <1>1, WrittenCache DEF Folder, Caching, Steps, At
<1>8. CASE At("folder") /\ SetFolder("empty", "copy")
  <2>1. ~e.marker
    BY <1>8 DEF IInv, JobKnows, At
  <2>2. QED
    BY <2>1, <1>8, <1>3, <1>2, <1>1, WrittenCache DEF Folder, Caching, Steps, At
<1>9. CASE At("copy") /\ e.folder = "empty" /\ SetFolder("partial", "copy")
  <2>1. ~e.marker
    BY <1>9 DEF IInv, JobKnows, At
  <2>2. QED
    BY <2>1, <1>9, <1>3, <1>2, <1>1, WrittenCache DEF Folder, Caching, Steps, At
<1>10. CASE At("copy") /\ e.folder = "partial" /\ SetFolder(job.binary, "mark")
  <2>1. ~e.marker
    BY <1>10 DEF IInv, JobKnows, At
  <2>2. QED
    BY <2>1, <1>10, <1>3, <1>2, <1>1, WrittenCache DEF Folder, Caching, Steps, At
<1>11. CASE At("mark") /\ SetMarker(TRUE, "installed")
  <2>1. e.folder = "verified"
    BY <1>11 DEF IInv, JobKnows, At
  <2>2. QED
    BY <2>1, <1>11, <1>4, <1>2, <1>1, WrittenCache DEF Folder, Caching, Steps, At
<1>12. QED
  BY <1>5, <1>6, <1>7, <1>8, <1>9, <1>10, <1>11 DEF CacheFile

LEMMA StepIInv ==
    ASSUME NoVersion \notin Versions \cup {Page}, IInv, Step
    PROVE  IInv'
<1>1. CASE GetOptions
  <2>1. job' \in [at : Steps, version : Versions \cup {Page, NoVersion},
                  binary : {"none", "verified", "other"}]
        /\ job'.at = "find" /\ job'.version # NoVersion
    BY <1>1 DEF GetOptions, FetchVersion, IInv, TypeOK, Steps
  <2>2. TypeOK' /\ UNCHANGED <<machine, cache>>
    BY <1>1, <2>1 DEF GetOptions, IInv, TypeOK
  <2>3. QED
    BY <2>1, <2>2, FreshJob
<1>2. CASE FindTrdlCachePath
  <2>1. CASE Found(job.version)
    <3>1. job.at = "find" /\ Goto("cached") /\ UNCHANGED <<machine, cache>>
      BY <1>2, <2>1 DEF FindTrdlCachePath, At
    <3>2. MayGo("find", "cached") /\ "cached" \in Steps
      BY <3>1 DEF MayGo, Caching, Steps
    <3>3. QED
      BY <3>1, <3>2, MovedJob
  <2>2. CASE ~Found(job.version)
    <3>1. job.at = "find" /\ Goto("gpg") /\ UNCHANGED <<machine, cache>>
      BY <1>2, <2>2 DEF FindTrdlCachePath, At
    <3>2. MayGo("find", "gpg") /\ "gpg" \in Steps
      BY <2>2, <3>1 DEF MayGo, Caching, Steps
    <3>3. QED
      BY <3>1, <3>2, MovedJob
  <2>3. QED
    BY <2>1, <2>2
<1>3. CASE ConfigureTrdl
  <2>1. CASE At("cached")
    <3>1. job.at = "cached" /\ Goto("which") /\ UNCHANGED <<machine, cache>>
      BY <1>3, <2>1 DEF ConfigureTrdl, At
    <3>2. MayGo("cached", "which") /\ "which" \in Steps
      BY <3>1 DEF MayGo, Caching, Steps
    <3>3. QED
      BY <3>1, <3>2, MovedJob
  <2>2. CASE At("installed")
    <3>1. job.at = "installed" /\ Goto("version") /\ UNCHANGED <<machine, cache>>
      BY <1>3, <2>2 DEF ConfigureTrdl, At
    <3>2. MayGo("installed", "version") /\ "version" \in Steps
      BY <3>1 DEF MayGo, Caching, Steps
    <3>3. QED
      BY <3>1, <3>2, MovedJob
  <2>3. QED
    BY <1>3, <2>1, <2>2 DEF ConfigureTrdl
<1>4. CASE MustGnuPG
  <2>1. job.at = "gpg" /\ Goto("urls") /\ UNCHANGED <<machine, cache>>
    BY <1>4 DEF MustGnuPG, At
  <2>2. MayGo("gpg", "urls") /\ "urls" \in Steps
    BY <2>1 DEF MayGo, Caching, Steps
  <2>3. QED
    BY <2>1, <2>2, MovedJob
<1>5. CASE FormatDownloadUrls
  <2>1. job.at = "urls" /\ Goto("download") /\ UNCHANGED <<machine, cache>>
    BY <1>5 DEF FormatDownloadUrls, At
  <2>2. MayGo("urls", "download") /\ "download" \in Steps
    BY <2>1 DEF MayGo, Caching, Steps
  <2>3. QED
    BY <2>1, <2>2, MovedJob
<1>6. CASE DownloadParallel
  <2>1. PICK binary \in {"verified", "other"} :
            job' = [job EXCEPT !.at = "verify", !.binary = binary]
    BY <1>6 DEF DownloadParallel
  <2>2. /\ job.at = "download" /\ job.version \in Versions
        /\ UNCHANGED <<machine, cache>>
    BY <1>6 DEF DownloadParallel, At
  <2>3. job'.at = "verify" /\ job'.version = job.version
    BY <2>1 DEF IInv, TypeOK
  <2>4. TypeOK'
    BY <2>1, <2>2, <2>3 DEF IInv, TypeOK, Steps
  <2>5. JobKnows' /\ CacheIsVerified'
    BY <2>2, <2>3 DEF IInv, JobKnows, CacheIsVerified, Found, Caching
  <2>6. QED
    BY <2>4, <2>5 DEF IInv
<1>7. CASE Verify
  <2>1. job.at = "verify" /\ Goto("uncache") /\ UNCHANGED <<machine, cache>>
        /\ job.binary = "verified"
    BY <1>7 DEF Verify, At
  <2>2. MayGo("verify", "uncache") /\ "uncache" \in Steps
    BY <2>1 DEF MayGo, Caching, Steps
  <2>3. QED
    BY <2>1, <2>2, MovedJob
<1>8. CASE CacheFile
  BY <1>8, CacheFileIInv
<1>9. CASE MustExist
  <2>1. job.at = "which" /\ Goto("version") /\ UNCHANGED <<machine, cache>>
    BY <1>9 DEF MustExist, At
  <2>2. MayGo("which", "version") /\ "version" \in Steps
    BY <2>1 DEF MayGo, Caching, Steps
  <2>3. QED
    BY <2>1, <2>2, MovedJob
<1>10. CASE Version
  <2>1. TypeOK' /\ job'.at = "done" /\ UNCHANGED <<machine, cache>>
    BY <1>10 DEF Version, Idle, IInv, TypeOK, Steps
  <2>2. QED
    BY <2>1, FreshJob
<1>11. CASE Refuse
  <2>1. TypeOK' /\ job'.at = "failed" /\ UNCHANGED <<machine, cache>>
    BY <1>11 DEF Refuse, Fails, Idle, IInv, TypeOK, Steps
  <2>2. QED
    BY <2>1, FreshJob
<1>12. QED
  BY <1>1, <1>2, <1>3, <1>4, <1>5, <1>6, <1>7, <1>8, <1>9, <1>10, <1>11 DEF Step

LEMMA NextIInv ==
    ASSUME NoVersion \notin Versions \cup {Page}, IInv, [Next]_vars
    PROVE  IInv'
<1>1. CASE UNCHANGED vars
  BY <1>1 DEF vars, IInv, TypeOK, JobKnows, CacheIsVerified, Found
<1>2. ASSUME NEW version \in Versions \cup {NoVersion}, Run(version) PROVE IInv'
  <2>1. TypeOK' /\ job'.at = "options" /\ UNCHANGED <<machine, cache>>
    BY <1>2 DEF Run, Idle, IInv, TypeOK, Steps
  <2>2. QED
    BY <2>1, FreshJob
<1>3. CASE Step
  BY <1>3, StepIInv
<1>4. CASE Fault
  <2>1. TypeOK' /\ job'.at = "failed" /\ UNCHANGED <<machine, cache>>
    BY <1>4 DEF Fault, Fails, Idle, IInv, TypeOK, Steps
  <2>2. QED
    BY <2>1, FreshJob
<1>5. CASE JobEnds
  <2>1. TypeOK' /\ job'.at = "idle" /\ UNCHANGED <<machine, cache>>
    BY <1>5 DEF JobEnds, Idle, IInv, TypeOK, Steps
  <2>2. QED
    BY <2>1, FreshJob
<1>6. QED
  BY <1>1, <1>2, <1>3, <1>4, <1>5 DEF Next

\* Every binary a later job may find in the tool cache is a verified one, for
\* any versions and machines, and wherever jobs are stopped (action.ts, Do).
THEOREM CacheVerified ==
    ASSUME NoVersion \notin Versions \cup {Page}
    PROVE  Spec => []CacheIsVerified
<1>1. Init => IInv
  BY InitIInv
<1>2. IInv /\ [Next]_vars => IInv'
  BY NextIInv
<1>3. IInv => CacheIsVerified
  BY DEF IInv
<1>4. QED
  BY <1>1, <1>2, <1>3, PTL DEF Spec
=============================================================================
