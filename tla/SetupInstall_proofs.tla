------------------------- MODULE SetupInstall_proofs -------------------------
(***************************************************************************)
(* The setup of an application installs trdl with the same guarantee as    *)
(* the install action alone: whatever its jobs do after the installation,  *)
(* and wherever they are stopped, the tool cache hands out verified        *)
(* binaries only.  The invariant is that of InstallAction_proofs.          *)
(***************************************************************************)
EXTENDS SetupApp, TLAPS

I == INSTANCE InstallAction_proofs WITH job <- install

-----------------------------------------------------------------------------
(* What the instance calls by a longer name *)

LEMMA SameNames ==
    /\ Install!Init <=> I!Init
    /\ Install!CacheIsVerified <=> I!CacheIsVerified
    /\ Install!Fault <=> I!Fault
    /\ Install!Run(NoVersion) <=> I!Run(NoVersion)
    /\ Install!Idle = I!Idle
<1>1. (Install!Init <=> I!Init) /\ Install!Idle = I!Idle
  BY DEF Install!Init, Install!Idle, I!Init, I!Idle
<1>2. Install!CacheIsVerified <=> I!CacheIsVerified
  BY DEF Install!CacheIsVerified, Install!Found, I!CacheIsVerified, I!Found
<1>3. Install!Fault <=> I!Fault
  BY DEF Install!Fault, Install!Running, Install!At, Install!Fails, Install!Idle,
         I!Fault, I!Running, I!At, I!Fails, I!Idle
<1>4. Install!Run(NoVersion) <=> I!Run(NoVersion)
  BY DEF Install!Run, Install!At, Install!Idle, I!Run, I!At, I!Idle
<1>5. QED
  BY <1>1, <1>2, <1>3, <1>4

LEMMA SameStep == Install!Step => I!Step
<1>1. Install!GetOptions => I!GetOptions
  BY DEF Install!GetOptions, Install!At, Install!FetchVersion,
         I!GetOptions, I!At, I!FetchVersion
<1>2. Install!FindTrdlCachePath => I!FindTrdlCachePath
  BY DEF Install!FindTrdlCachePath, Install!At, Install!Goto, Install!Found,
         I!FindTrdlCachePath, I!At, I!Goto, I!Found
<1>3. Install!ConfigureTrdl => I!ConfigureTrdl
  BY DEF Install!ConfigureTrdl, Install!At, Install!Goto, I!ConfigureTrdl, I!At, I!Goto
<1>4. Install!MustGnuPG => I!MustGnuPG
  BY DEF Install!MustGnuPG, Install!At, Install!Goto, I!MustGnuPG, I!At, I!Goto
<1>5. Install!FormatDownloadUrls => I!FormatDownloadUrls
  BY DEF Install!FormatDownloadUrls, Install!At, Install!Goto, Install!Platforms,
         Install!Archs, I!FormatDownloadUrls, I!At, I!Goto, I!Platforms, I!Archs
<1>6. Install!DownloadParallel => I!DownloadParallel
  BY DEF Install!DownloadParallel, Install!At, I!DownloadParallel, I!At
<1>7. Install!Verify => I!Verify
  BY DEF Install!Verify, Install!At, Install!Goto, I!Verify, I!At, I!Goto
<1>8. Install!CacheFile => I!CacheFile
  BY DEF Install!CacheFile, Install!At, Install!Goto, Install!SetFolder,
         Install!SetMarker, I!CacheFile, I!At, I!Goto, I!SetFolder, I!SetMarker
<1>9. Install!MustExist => I!MustExist
  BY DEF Install!MustExist, Install!At, Install!Goto, Install!OnPath,
         I!MustExist, I!At, I!Goto, I!OnPath
<1>10. Install!Version => I!Version
  BY DEF Install!Version, Install!At, Install!OnPath, Install!Idle,
         I!Version, I!At, I!OnPath, I!Idle
<1>11. Install!Refuse => I!Refuse
  BY DEF Install!Refuse, Install!Refused, Install!Fails, Install!Idle, Install!At,
         Install!OnPath, Install!Platforms, Install!Archs,
         I!Refuse, I!Refused, I!Fails, I!Idle, I!At, I!OnPath, I!Platforms, I!Archs
<1>12. QED
  BY <1>1, <1>2, <1>3, <1>4, <1>5, <1>6, <1>7, <1>8, <1>9, <1>10, <1>11
  DEF Install!Step, I!Step

-----------------------------------------------------------------------------
(* Steps of the setup *)

\* A job of the setup may be over while that of the installation goes on or has
\* failed: the next one begins from scratch all the same.
LEMMA Restarted ==
    ASSUME I!IInv, UNCHANGED <<machine, cache>>, install' = I!Idle PROVE I!IInv'
<1>1. I!TypeOK' /\ install'.at = "idle"
  BY DEF I!Idle, I!IInv, I!TypeOK, I!Steps
<1>2. QED
  BY <1>1, I!FreshJob

LEMMA Apart ==
    ASSUME I!IInv, UNCHANGED <<machine, cache, install>> PROVE I!IInv'
BY DEF I!IInv, I!TypeOK, I!JobKnows, I!CacheIsVerified, I!Found

LEMMA SetupKeeps ==
    ASSUME NoVersion \notin Versions \cup {Page}, I!IInv, [Next]_vars
    PROVE  I!IInv'
<1>1. CASE Start
  <2>1. CASE Install!Run(NoVersion)
    <3>1. [I!Next]_(I!vars)
      BY <2>1, SameNames DEF I!Next
    <3>2. QED
      BY <3>1, I!NextIInv
  <2>2. CASE UNCHANGED <<machine, cache, install>>
    BY <2>2, Apart
  <2>3. QED
    BY <1>1, <2>1, <2>2 DEF Start
<1>2. CASE InstallStep
  BY <1>2, SameStep, I!StepIInv DEF InstallStep
<1>3. CASE InstallTrouble
  <2>1. [I!Next]_(I!vars)
    BY <1>3, SameNames DEF InstallTrouble, I!Next
  <2>2. QED
    BY <2>1, I!NextIInv
<1>4. CASE JobEnds
  BY <1>4, SameNames, Restarted DEF JobEnds
<1>5. ASSUME \/ Installed \/ List \/ Removed \/ Added \/ PathFound \/ Updated
             \/ Cancel \/ CalmsDown \/ Outside
             \/ \E p \in Procs : \/ Remove(p) \/ Add(p) \/ BinPath(p) \/ Update(p)
                                 \/ KillOrphan(p) \/ ClientStep(p) \/ ClientTrouble(p)
             \/ UNCHANGED vars
      PROVE  I!IInv'
  <2>1. UNCHANGED <<machine, cache, install>>
    BY <1>5 DEF Installed, List, Removed, Added, PathFound, Updated,
       Cancel, CalmsDown, Outside, Remove, Add, BinPath, Update, Exec,
       KillOrphan, ClientStep, ClientTrouble, vars
  <2>2. QED
    BY <2>1, Apart
<1>6. QED
  BY <1>1, <1>2, <1>3, <1>4, <1>5 DEF Next, Job, Trouble

\* A job that sets an application up never takes an unverified trdl from the tool
\* cache, and never leaves one there, wherever it and the jobs before it were
\* stopped (setup-app/src/action.ts, Run; install/src/action.ts, Do).
THEOREM SetupCacheVerified == Spec => []CacheIsVerified
<1>1. Init => I!IInv
  BY SameNames, I!InitIInv DEF Init
<1>2. I!IInv /\ [Next]_vars => I!IInv'
  BY SetupKeeps, SetupAssumption DEF SetupConstants
<1>3. I!IInv => CacheIsVerified
  BY SameNames DEF I!IInv, CacheIsVerified
<1>4. QED
  BY <1>1, <1>2, <1>3, PTL DEF Spec
=============================================================================
