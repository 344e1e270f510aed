--------------------------- MODULE CommandProofs ----------------------------
(***************************************************************************)
(* Proofs about the commands of skillledger and the work they leave in the *)
(* background, for any bounds: each section has the inductive invariant of *)
(* one component, the steps that keep it and the theorems that follow.     *)
(***************************************************************************)
EXTENDS Release, ModelManager, McpInstall, OrgPolicySync, UpdateCheck, EventReport,
        Profiler, ThreatSync, EntropyTracker, FiniteSetTheorems, TLAPS

-----------------------------------------------------------------------------
(***************************************************************************)
(* Release: a lockfile says nothing that is not so.  The invariant adds what*)
(* a command holds between two of its writes.                              *)
(***************************************************************************)

\* What LockfileIsTrue says, of any lockfile.
LockOK(l) ==
  /\ l # NoLock => l.sha \in dist
  /\ l.prov => l.sha \in rekor
  /\ l.index # 0 => l.index \in 1 .. Len(tlog) /\ tlog[l.index] = l.sha

\* What a command holds: a lockfile that is true, or made true by its next
\* step, and, for a build, an artifact that is written.
JobOK(j) ==
  /\ LockOK(jobLock[j])
  /\ jobPc[j] = "lock" => jobRead[j] \in dist
  /\ jobPc[j] = "sign" => jobLock[j].sha \in dist
  /\ jobPc[j] = "publish" => jobLock[j].prov

ReleaseIInv ==
  /\ ReleaseTypeOK
  /\ LockOK(lock)
  /\ \A j \in Jobs : JobOK(j)
  /\ \A i \in 1 .. Len(tlog) : tlog[i] \in rekor

-----------------------------------------------------------------------------
\* What stands for nothing read and for no lockfile.
LEMMA ReleaseValues ==
  /\ Unread \in Artifacts
  /\ NoLock \in Locks
  /\ ~NoLock.prov /\ NoLock.index = 0
  BY ReleaseAssumption DEF Unread, Artifacts, NoLock, Locks

\* The lockfile of a build.
LEMMA BuildLock ==
  ASSUME NEW a \in Artifacts
  PROVE  /\ [NoLock EXCEPT !.sha = a] \in Locks
         /\ [NoLock EXCEPT !.sha = a].sha = a
         /\ ~[NoLock EXCEPT !.sha = a].prov
         /\ [NoLock EXCEPT !.sha = a].index = 0
  BY ReleaseValues DEF Locks, NoLock

\* A lockfile stays true while artifacts, signatures and entries are added.
LEMMA LockStaysTrue ==
  ASSUME NEW l \in Locks, LockOK(l), tlog \in Seq(Artifacts),
         dist \subseteq dist', rekor \subseteq rekor',
         \/ tlog' = tlog
         \/ \E a \in Artifacts : tlog' = Append(tlog, a)
  PROVE  /\ l # NoLock => l.sha \in dist'
         /\ l.prov => l.sha \in rekor'
         /\ l.index # 0 => l.index \in 1 .. Len(tlog') /\ tlog'[l.index] = l.sha
  BY DEF LockOK, Locks

\* No release has happened yet.
LEMMA ReleaseInitial == ReleaseInit => ReleaseIInv
  <1> SUFFICES ASSUME ReleaseInit PROVE ReleaseIInv
    OBVIOUS
  <1>1. tree \in [SourceFiles -> 1 .. MaxEdit + 1]
    BY ReleaseAssumption DEF ReleaseInit
  <1>2. ReleaseTypeOK
    BY <1>1, ReleaseValues, ReleaseAssumption DEF ReleaseInit, ReleaseTypeOK
  <1>3. LockOK(NoLock)
    BY ReleaseValues DEF LockOK
  <1> QED BY <1>2, <1>3 DEF ReleaseInit, ReleaseIInv, JobOK

\* The lockfiles nobody writes, while artifacts, signatures and entries are
\* only added.
LEMMA OthersStayTrue ==
  ASSUME ReleaseIInv, dist \subseteq dist', rekor \subseteq rekor',
         \/ tlog' = tlog
         \/ \E a \in Artifacts : tlog' = Append(tlog, a)
  PROVE  /\ lock' = lock => LockOK(lock)'
         /\ \A j \in Jobs :
              jobLock'[j] = jobLock[j] /\ jobRead'[j] = jobRead[j] /\ jobPc'[j] = jobPc[j]
                => JobOK(j)'
  <1>1. tlog \in Seq(Artifacts) /\ lock \in Locks /\ LockOK(lock)
        /\ \A j \in Jobs : jobLock[j] \in Locks /\ LockOK(jobLock[j])
    BY DEF ReleaseIInv, ReleaseTypeOK, JobOK
  <1>2. lock' = lock => LockOK(lock)'
    BY <1>1, LockStaysTrue DEF LockOK
  <1>3. ASSUME NEW j \in Jobs, jobLock'[j] = jobLock[j], jobRead'[j] = jobRead[j], jobPc'[j] = jobPc[j]
        PROVE  JobOK(j)'
    <2>1. LockOK(jobLock[j])'
      BY <1>1, <1>3, LockStaysTrue DEF LockOK
    <2> QED BY <1>3, <2>1 DEF ReleaseIInv, JobOK
  <1> QED BY <1>2, <1>3

\* Every step of a build, a publication or the log keeps the lockfiles true.
LEMMA ReleaseStep ==
  ASSUME ReleaseIInv, [ReleaseNext]_releaseVars
  PROVE  ReleaseIInv'
  <1> USE ReleaseAssumption, ReleaseValues
  <1>1. ASSUME NEW f \in SourceFiles, EditSource(f)
        PROVE  ReleaseIInv'
    <2>1. tree' \in [SourceFiles -> 1 .. MaxEdit + 1]
      BY <1>1 DEF ReleaseIInv, ReleaseTypeOK, EditSource
    <2> QED BY <1>1, <2>1 DEF ReleaseIInv, ReleaseTypeOK, EditSource, LockOK, JobOK
  <1>2. ASSUME NEW j \in Jobs, BeginBuild(j)
        PROVE  ReleaseIInv'
    <2>1. ReleaseTypeOK'
      BY <1>2 DEF ReleaseIInv, ReleaseTypeOK, BeginBuild
    <2>2. \A i \in Jobs : JobOK(i)'
      BY <1>2 DEF ReleaseIInv, ReleaseTypeOK, BeginBuild, LockOK, JobOK
    <2> QED BY <1>2, <2>1, <2>2 DEF ReleaseIInv, BeginBuild, LockOK
  <1>3. ASSUME NEW j \in Jobs, NEW f \in SourceFiles, CollectFile(j, f)
        PROVE  ReleaseIInv'
    <2>1. jobRead' \in [Jobs -> Artifacts]
      <3>1. tree[f] \in 0 .. MaxEdit + 1 /\ jobRead[j] \in Artifacts
        BY DEF ReleaseIInv, ReleaseTypeOK
      <3>2. [jobRead[j] EXCEPT ![f] = tree[f]] \in Artifacts
        BY <3>1 DEF Artifacts
      <3> QED BY <1>3, <3>2 DEF CollectFile, ReleaseIInv, ReleaseTypeOK
    <2>2. ReleaseTypeOK'
      BY <1>3, <2>1 DEF ReleaseIInv, ReleaseTypeOK, CollectFile
    <2>3. \A i \in Jobs : JobOK(i)'
      BY <1>3 DEF ReleaseIInv, ReleaseTypeOK, CollectFile, LockOK, JobOK
    <2> QED BY <1>3, <2>2, <2>3 DEF ReleaseIInv, CollectFile, LockOK
  <1>4. ASSUME NEW j \in Jobs, WriteArtifact(j)
        PROVE  ReleaseIInv'
    <2>1. ReleaseTypeOK'
      BY <1>4 DEF ReleaseIInv, ReleaseTypeOK, WriteArtifact
    <2>2. \A i \in Jobs : JobOK(i)'
      BY <1>4 DEF ReleaseIInv, ReleaseTypeOK, WriteArtifact, LockOK, JobOK
    <2> QED BY <1>4, <2>1, <2>2 DEF ReleaseIInv, WriteArtifact, LockOK
  <1>5. ASSUME NEW j \in Jobs, WriteBuildLock(j)
        PROVE  ReleaseIInv'
    <2>1. jobRead[j] \in Artifacts /\ jobRead[j] \in dist
      BY <1>5 DEF ReleaseIInv, ReleaseTypeOK, WriteBuildLock, JobOK
    <2>2. lock' \in Locks /\ lock'.sha \in dist /\ ~lock'.prov /\ lock'.index = 0
      BY <1>5, <2>1, BuildLock DEF WriteBuildLock
    <2>3. ReleaseTypeOK'
      BY <1>5, <2>2 DEF ReleaseIInv, ReleaseTypeOK, WriteBuildLock
    <2>4. LockOK(lock)'
      BY <1>5, <2>2 DEF LockOK, WriteBuildLock
    <2>5. \A i \in Jobs : JobOK(i)'
      BY <1>5 DEF ReleaseIInv, ReleaseTypeOK, WriteBuildLock, LockOK, JobOK
    <2> QED BY <1>5, <2>3, <2>4, <2>5 DEF ReleaseIInv, WriteBuildLock
  <1>6. ASSUME NEW j \in Jobs, NEW a \in dist, BeginSign(j, a)
        PROVE  ReleaseIInv'
    <2>1. ReleaseTypeOK'
      BY <1>6 DEF ReleaseIInv, ReleaseTypeOK, BeginSign
    <2>2. \A i \in Jobs : JobOK(i)'
      BY <1>6 DEF ReleaseIInv, ReleaseTypeOK, BeginSign, LockOK, JobOK
    <2> QED BY <1>6, <2>1, <2>2 DEF ReleaseIInv, BeginSign, LockOK
  <1>7. ASSUME NEW j \in Jobs, NEW a \in dist, BeginPublish(j, a)
        PROVE  ReleaseIInv'
    <2>1. ReleaseTypeOK'
      BY <1>7 DEF ReleaseIInv, ReleaseTypeOK, BeginPublish
    <2>2. \A i \in Jobs : JobOK(i)'
      BY <1>7 DEF ReleaseIInv, ReleaseTypeOK, BeginPublish, LockOK, JobOK
    <2> QED BY <1>7, <2>1, <2>2 DEF ReleaseIInv, BeginPublish, LockOK
  <1>8. ASSUME NEW j \in Jobs, SignArtifact(j)
        PROVE  ReleaseIInv'
    <2> DEFINE l == jobLock[j]
    <2>1. /\ l \in Locks /\ l.sha \in Artifacts /\ l.sha \in dist
          /\ jobTarget[j] \in Artifacts
      BY <1>8 DEF ReleaseIInv, ReleaseTypeOK, SignArtifact, JobOK, Locks
    <2>2. /\ jobLock' \in [Jobs -> Locks]
          /\ jobLock'[j].sha = l.sha /\ jobLock'[j].prov /\ jobLock'[j].index = 0
          /\ \A i \in Jobs \ {j} : jobLock'[i] = jobLock[i]
      BY <1>8, <2>1 DEF ReleaseIInv, ReleaseTypeOK, SignArtifact, Locks
    <2>3. bundles' \subseteq Artifacts \X Artifacts
      BY <1>8, <2>1 DEF ReleaseIInv, ReleaseTypeOK, SignArtifact
    <2>4. \A b, c \in bundles' : b[1] = c[1] => b = c
      BY <1>8, <2>1 DEF ReleaseIInv, ReleaseTypeOK, SignArtifact
    <2>5. jobPc' = [jobPc EXCEPT ![j] = "update"] /\ rekor' = rekor \cup {l.sha}
      BY <1>8 DEF SignArtifact
    <2>6. ReleaseTypeOK'
      BY <1>8, <2>1, <2>2, <2>3, <2>4, <2>5 DEF ReleaseIInv, ReleaseTypeOK, SignArtifact
    <2>7. LockOK(lock)' /\ \A i \in Jobs \ {j} : JobOK(i)'
      BY <1>8, <2>2, <2>5, OthersStayTrue DEF SignArtifact, ReleaseIInv, ReleaseTypeOK
    <2>8. JobOK(j)'
      BY <1>8, <2>1, <2>2, <2>5 DEF SignArtifact, JobOK, LockOK, ReleaseIInv, ReleaseTypeOK
    <2>9. \A i \in 1 .. Len(tlog') : tlog'[i] \in rekor'
      BY <1>8, <2>5 DEF SignArtifact, ReleaseIInv
    <2> QED BY <2>6, <2>7, <2>8, <2>9 DEF ReleaseIInv
  <1>9. ASSUME NEW j \in Jobs, NEW answered \in BOOLEAN, PublishEntry(j, answered)
        PROVE  ReleaseIInv'
    <2> DEFINE l == jobLock[j]
    <2>1. /\ l \in Locks /\ l.sha \in Artifacts /\ l.prov /\ LockOK(l) /\ l.sha \in rekor
          /\ tlog \in Seq(Artifacts) /\ Len(tlog) < MaxLog
          /\ tlog' = Append(tlog, l.sha)
      BY <1>9 DEF ReleaseIInv, ReleaseTypeOK, PublishEntry, JobOK, LockOK, Locks
    <2>2. /\ tlog' \in Seq(Artifacts) /\ Len(tlog') = Len(tlog) + 1 /\ Len(tlog') <= MaxLog
          /\ \A i \in 1 .. Len(tlog) : tlog'[i] = tlog[i]
          /\ tlog'[Len(tlog) + 1] = l.sha
          /\ Len(tlog) + 1 \in 1 .. MaxLog /\ Len(tlog) \in Nat
      BY <2>1
    <2>3. /\ jobLock' \in [Jobs -> Locks]
          /\ \A i \in Jobs \ {j} : jobLock'[i] = jobLock[i]
      <3>1. [l EXCEPT !.index = Len(tlog) + 1] \in Locks
        BY <2>1, <2>2 DEF Locks
      <3> QED BY <1>9, <3>1 DEF ReleaseIInv, ReleaseTypeOK, PublishEntry
    <2>4. LockOK(jobLock[j])'
      <3>1. CASE answered
        <4>1. jobLock'[j] = [l EXCEPT !.index = Len(tlog) + 1]
          BY <1>9, <3>1 DEF ReleaseIInv, ReleaseTypeOK, PublishEntry
        <4>2. /\ jobLock'[j].sha = l.sha /\ jobLock'[j].prov
              /\ jobLock'[j].index = Len(tlog) + 1
          BY <2>1, <4>1 DEF Locks
        <4>3. l # NoLock
          BY <2>1
        <4> QED BY <1>9, <2>1, <2>2, <4>2, <4>3 DEF LockOK, PublishEntry
      <3>2. CASE ~answered
        <4>1. jobLock'[j] = NoLock
          BY <1>9, <3>2 DEF ReleaseIInv, ReleaseTypeOK, PublishEntry
        <4> QED BY <4>1 DEF LockOK
      <3> QED BY <3>1, <3>2
    <2>5. JobOK(j)'
      BY <1>9, <2>4 DEF JobOK, PublishEntry, ReleaseIInv, ReleaseTypeOK
    <2>6. LockOK(lock)' /\ \A i \in Jobs \ {j} : JobOK(i)'
      BY <1>9, <2>1, <2>3, OthersStayTrue DEF PublishEntry, ReleaseIInv, ReleaseTypeOK
    <2>7. ReleaseTypeOK'
      BY <1>9, <2>2, <2>3 DEF PublishEntry, ReleaseIInv, ReleaseTypeOK
    <2>8. \A i \in 1 .. Len(tlog') : tlog'[i] \in rekor'
      BY <1>9, <2>1, <2>2 DEF PublishEntry, ReleaseIInv
    <2> QED BY <2>5, <2>6, <2>7, <2>8 DEF ReleaseIInv
  <1>10. ASSUME NEW j \in Jobs, UpdateLock(j)
         PROVE  ReleaseIInv'
    <2>1. ReleaseTypeOK'
      BY <1>10 DEF ReleaseIInv, ReleaseTypeOK, UpdateLock
    <2>2. LockOK(lock)'
      BY <1>10 DEF ReleaseIInv, JobOK, UpdateLock, LockOK
    <2>3. \A i \in Jobs : JobOK(i)'
      BY <1>10 DEF ReleaseIInv, ReleaseTypeOK, UpdateLock, LockOK, JobOK
    <2> QED BY <1>10, <2>1, <2>2, <2>3 DEF ReleaseIInv, UpdateLock
  <1>11. ASSUME NEW j \in Jobs, StopJob(j)
         PROVE  ReleaseIInv'
    <2>1. ReleaseTypeOK'
      BY <1>11 DEF ReleaseIInv, ReleaseTypeOK, StopJob
    <2>2. \A i \in Jobs : JobOK(i)'
      BY <1>11 DEF ReleaseIInv, ReleaseTypeOK, StopJob, LockOK, JobOK
    <2> QED BY <1>11, <2>1, <2>2 DEF ReleaseIInv, StopJob, LockOK
  <1>12. CASE UNCHANGED releaseVars
    BY <1>12 DEF ReleaseIInv, ReleaseTypeOK, releaseVars, LockOK, JobOK
  <1> QED
    BY <1>1, <1>2, <1>3, <1>4, <1>5, <1>6, <1>7, <1>8, <1>9, <1>10, <1>11, <1>12
    DEF ReleaseNext

(* The lockfile is true, for any number of commands, files, edits and log
   entries: what skill-lock.json says of the artifact it names holds however
   build, sign and publish (cmd/build.go, sign.go, publish.go) interleave and
   wherever they stop. *)
THEOREM LockfileTrue == ReleaseSpec => []LockfileIsTrue
  <1>1. ReleaseIInv => LockfileIsTrue
    BY DEF ReleaseIInv, LockOK, LockfileIsTrue
  <1> QED BY <1>1, ReleaseInitial, ReleaseStep, PTL DEF ReleaseSpec

-----------------------------------------------------------------------------
(***************************************************************************)
(* ModelManager: every file in the model directory has the checksum that   *)
(* was pinned, so that a load needs no check of its own.                   *)
(***************************************************************************)

\* A file the user did not copy has its pinned content, or there is none.
DirIsPinned ==
  \A f \in FileNames \ copied :
    pins[f] # "none" => modelDir[f] = "none" \/ HashMatches(f, modelDir[f])

ModelIInv == ModelTypeOK /\ DirIsPinned /\ LoadedIsPinned

\* The files of the classifier and what an installation may hold.
LEMMA FileFacts ==
  /\ Len(ModelFiles) = 3
  /\ \A i \in 1 .. 3 : ModelFiles[i] \in FileNames
  BY DEF ModelFiles, FileNames

\* No process has loaded a model, and the directory was installed or is empty.
LEMMA ModelInitial == ModelInit => ModelIInv
  <1> SUFFICES ASSUME ModelInit PROVE ModelIInv
    OBVIOUS
  <1>1. ModelTypeOK
    BY BuildsAssumption, FileFacts DEF ModelInit, ModelTypeOK, DlStates, Contents
  <1>2. DirIsPinned /\ LoadedIsPinned
    BY DEF ModelInit, DirIsPinned, LoadedIsPinned
  <1> QED BY <1>1, <1>2 DEF ModelIInv

\* Every step of an installation or of a load keeps the directory pinned.
LEMMA ModelStep ==
  ASSUME ModelIInv, [ModelNext]_modelVars
  PROVE  ModelIInv'
  <1> USE FileFacts
  <1>1. ASSUME NEW p \in Downloads, BeginDownload(p)
        PROVE  ModelIInv'
    <2>1. ModelTypeOK'
      BY <1>1 DEF BeginDownload, ModelIInv, ModelTypeOK, DlStates
    <2> QED BY <1>1, <2>1
            DEF BeginDownload, ModelIInv, DirIsPinned, LoadedIsPinned, HashMatches
  <1>2. ASSUME NEW p \in Downloads, NEW f \in FileNames, VerifyOne(p, f)
        PROVE  ModelIInv'
    <2>1. ModelTypeOK'
      BY <1>2 DEF VerifyOne, ModelIInv, ModelTypeOK, DlStates
    <2> QED BY <1>2, <2>1
            DEF VerifyOne, ModelIInv, DirIsPinned, LoadedIsPinned, HashMatches
  <1>3. ASSUME NEW p \in Downloads, Verified(p)
        PROVE  ModelIInv'
    <2>1. ModelTypeOK'
      BY <1>3 DEF Verified, ModelIInv, ModelTypeOK, DlStates
    <2> QED BY <1>3, <2>1
            DEF Verified, ModelIInv, DirIsPinned, LoadedIsPinned, HashMatches
  <1>4. ASSUME NEW p \in Downloads, NextFile(p)
        PROVE  ModelIInv'
    <2>1. ModelTypeOK'
      BY <1>4 DEF NextFile, ModelIInv, ModelTypeOK, DlStates
    <2> QED BY <1>4, <2>1
            DEF NextFile, ModelIInv, DirIsPinned, LoadedIsPinned, HashMatches
  <1>5. ASSUME NEW p \in Downloads, NEW c \in Contents, Fetch(p, c)
        PROVE  ModelIInv'
    <2>1. ModelTypeOK'
      BY <1>5 DEF Fetch, ModelIInv, ModelTypeOK, DlStates
    <2> QED BY <1>5, <2>1
            DEF Fetch, ModelIInv, DirIsPinned, LoadedIsPinned, HashMatches
  <1>6. ASSUME NEW p \in Downloads, DownloadFails(p)
        PROVE  ModelIInv'
    <2>1. ModelTypeOK'
      BY <1>6 DEF DownloadFails, ModelIInv, ModelTypeOK, DlStates
    <2> QED BY <1>6, <2>1
            DEF DownloadFails, ModelIInv, DirIsPinned, LoadedIsPinned, HashMatches
  <1>7. ASSUME NEW p \in Downloads, InstallFile(p)
        PROVE  ModelIInv'
    <2> DEFINE f == ModelFiles[dlNext[p]]
    <2>1. dlNext[p] \in 1 .. 3 /\ f \in FileNames
      BY <1>7 DEF InstallFile, ModelIInv, ModelTypeOK
    <2>2. ModelTypeOK'
      BY <1>7, <2>1 DEF InstallFile, ModelIInv, ModelTypeOK, DlStates
    <2>3. DirIsPinned'
      BY <1>7, <2>1 DEF InstallFile, ModelIInv, ModelTypeOK, DirIsPinned, HashMatches
    <2> QED BY <1>7, <2>2, <2>3 DEF InstallFile, ModelIInv, LoadedIsPinned, HashMatches
  <1>8. ASSUME NEW p \in Downloads, KillDownload(p)
        PROVE  ModelIInv'
    <2>1. ModelTypeOK'
      BY <1>8 DEF KillDownload, ModelIInv, ModelTypeOK, DlStates
    <2> QED BY <1>8, <2>1
            DEF KillDownload, ModelIInv, DirIsPinned, LoadedIsPinned, HashMatches
  <1>9. ASSUME NEW f \in FileNames, NEW c \in Contents, CopyFile(f, c)
        PROVE  ModelIInv'
    <2>1. ModelTypeOK'
      BY <1>9 DEF CopyFile, ModelIInv, ModelTypeOK
    <2>2. DirIsPinned' /\ LoadedIsPinned'
      BY <1>9 DEF CopyFile, ModelIInv, ModelTypeOK, DirIsPinned, LoadedIsPinned, HashMatches
    <2> QED BY <2>1, <2>2 DEF ModelIInv
  <1>10. CASE LoadClassifier
    <2>1. ModelTypeOK'
      BY <1>10 DEF LoadClassifier, ModelIInv, ModelTypeOK
    <2> QED BY <1>10, <2>1
            DEF LoadClassifier, ModelIInv, DirIsPinned, LoadedIsPinned, HashMatches
  <1>11. CASE UNCHANGED modelVars
    BY <1>11 DEF modelVars, ModelIInv, ModelTypeOK, DirIsPinned, LoadedIsPinned, HashMatches
  <1> QED
    BY <1>1, <1>2, <1>3, <1>4, <1>5, <1>6, <1>7, <1>8, <1>9, <1>10, <1>11 DEF ModelNext

(* For any number of downloads and any table of checksums: the classifier the
   proxy loads without verifying it (tryLoadMLClassifier) has the pinned
   content of every pinned file that the user did not copy himself, because
   Download (model_manager.go) renames nothing else into place. *)
THEOREM ClassifierPinned == ModelSpec => []LoadedIsPinned
  <1>1. ModelIInv => LoadedIsPinned
    BY DEF ModelIInv
  <1> QED BY <1>1, ModelInitial, ModelStep, PTL DEF ModelSpec

-----------------------------------------------------------------------------
(***************************************************************************)
(* McpInstall: an entry runs the command that its user gave it, wrapped or *)
(* not, and so does every copy that install and uninstall hold of it.           *)
(***************************************************************************)

\* What an entry is made of: a command, or no entry, and wrappers.
Items == Commands \cup {Malformed} \cup Nat

\* Entry e has, innermost, the command g.
Keeps(e, g) ==
  IF g = Absent THEN e = Absent ELSE e # Absent /\ << Last(e) >> = g

McpShapes ==
  /\ mcpConfig \in [Names -> Seq(Items)]
  /\ mcpBackup \in [Names -> Seq(Items)]
  /\ read \in [Names -> Seq(Items)]
  /\ data \in [Names -> Seq(Items)]
  /\ given \in [Names -> Seq(Items)]
  /\ self \in Nat
  /\ edited \subseteq Names /\ mcpCut \subseteq Names
  /\ torn \subseteq {"config", "backup"}

\* A configuration that is not torn, the backup as far as it goes and what the
\* running command has read or is about to write have the command an unedited
\* entry was given.
KeptOK ==
  \A n \in Names \ edited :
    /\ "config" \notin torn => Keeps(mcpConfig[n], given[n])
    /\ mcpBackup[n] # Absent => Keeps(mcpBackup[n], given[n])
    /\ mcpPc # "idle" => Keeps(read[n], given[n])
    /\ mcpPc = "merged" /\ data[n] # Absent => Keeps(data[n], given[n])
    /\ mcpPc \in {"wrapped", "restored"} => Keeps(data[n], given[n])

\* From before an entry is rewritten until it has been, the backup has it; and
\* a command that has begun has found a configuration, torn only by itself.
BackedUp ==
  /\ \A n \in mcpCut : mcpBackup[n] # Absent
  /\ mcpPc = "merged" => \A n \in ToWrap(read) : data[n] # Absent
  /\ mcpPc = "config" => \A n \in ToWrap(read) : mcpBackup[n] # Absent
  /\ mcpCut # {} => mcpPc \in {"idle", "wrapped", "restored"} /\ "config" \in torn
  /\ mcpPc \notin {"idle", "wrapped", "restored"} => "config" \notin torn

McpIInv == McpShapes /\ KeptOK /\ BackedUp

\* A wrapper leaves the innermost command where it is.
LEMMA WrapKeeps ==
  ASSUME NEW e \in Seq(Items), e # Absent, self \in Nat
  PROVE  /\ Wrap(e) \in Seq(Items) /\ Wrap(e) # Absent
         /\ Last(Wrap(e)) = Last(e)
  <1>1. << self >> \in Seq(Items)
    BY DEF Items
  <1>2. Wrap(e) \in Seq(Items) /\ Len(Wrap(e)) = Len(e) + 1 /\ Len(e) > 0
    BY <1>1 DEF Wrap, Absent
  <1>3. Wrap(e)[Len(e) + 1] = e[Len(e)]
    BY <1>1, <1>2 DEF Wrap
  <1> QED BY <1>2, <1>3 DEF Last, Absent

\* The entries of a configuration are entries.
LEMMA EntryFacts ==
  /\ Entries \subseteq Seq(Items) /\ Absent \in Seq(Items) /\ NoBackup \in [Names -> Seq(Items)]
  /\ \A e \in Entries : Keeps(e, e)
  /\ \A e \in Seq(Items) : e # Absent => /\ << Last(e) >> \in Seq(Items)
                                         /\ << Last(e) >> # Absent
  <1>1. Absent \in Seq(Items) /\ \A c \in Items : << c >> \in Seq(Items)
    BY DEF Absent
  <1>2. Entries \subseteq Seq(Items)
    BY <1>1 DEF Entries, Items
  <1>3. ASSUME NEW e \in Entries
        PROVE  Keeps(e, e)
    <2>1. CASE e = Absent
      BY <2>1 DEF Keeps
    <2>2. ASSUME NEW c \in Commands \cup {Malformed}, e = << c >>
          PROVE  Keeps(e, e)
      <3>1. Last(e) = c /\ e # Absent
        BY <2>2 DEF Last, Absent
      <3> QED BY <2>2, <3>1 DEF Keeps
    <2> QED BY <2>1, <2>2 DEF Entries
  <1>4. ASSUME NEW e \in Seq(Items), e # Absent
        PROVE  << Last(e) >> \in Seq(Items) /\ << Last(e) >> # Absent
    <2>1. Len(e) \in 1 .. Len(e)
      BY <1>4 DEF Absent
    <2>2. Last(e) \in Items
      BY <2>1 DEF Last
    <2> QED BY <2>2 DEF Absent
  <1> QED BY <1>1, <1>2, <1>3, <1>4 DEF NoBackup

\* What the user wrote is what the entries run.
LEMMA McpInitial == McpInit => McpIInv
  BY EntryFacts DEF McpInit, McpIInv, McpShapes, KeptOK, BackedUp, NoBackup

\* The configuration is truncated: what is to be written is known.
LEMMA TruncateKeeps ==
  ASSUME McpIInv, mcpPc # "idle", NEW which \in SUBSET Names,
         NEW new \in [Names -> Seq(Items)], TruncateConfig(which, new),
         \A n \in which : mcpBackup[n] # Absent,
         \A n \in which \ edited : Keeps(new[n], given[n]),
         mcpPc' \in {"wrapped", "restored"}
  PROVE  McpIInv'
  <1> USE EntryFacts
  <1>1. McpShapes'
    BY DEF TruncateConfig, McpIInv, McpShapes
  <1>2. ASSUME NEW n \in Names \ edited
        PROVE  Keeps(read[n], given[n]) /\ Keeps(data'[n], given[n])
    BY DEF TruncateConfig, McpIInv, KeptOK
  <1>3. KeptOK'
    BY <1>2 DEF TruncateConfig, McpIInv, KeptOK
  <1>4. BackedUp'
    BY DEF TruncateConfig, McpIInv, BackedUp
  <1> QED BY <1>1, <1>3, <1>4 DEF McpIInv

\* The configuration is written.
LEMMA WriteKeeps ==
  ASSUME McpIInv, mcpPc \in {"wrapped", "restored"}, WriteConfig,
         mcpPc' \in {"idle", "remove"}, read' \in {read, NoBackup},
         mcpPc' = "remove" => read' = read
  PROVE  McpIInv'
  <1> USE EntryFacts
  <1>1. McpShapes'
    BY DEF WriteConfig, McpIInv, McpShapes
  <1>2. KeptOK'
    BY DEF WriteConfig, McpIInv, KeptOK
  <1>3. BackedUp'
    BY DEF WriteConfig, McpIInv, BackedUp
  <1> QED BY <1>1, <1>2, <1>3 DEF McpIInv

\* Every step of install, uninstall and the user keeps the commands.
LEMMA McpStep ==
  ASSUME McpIInv, [McpNext]_mcpVars
  PROVE  McpIInv'
  <1> USE EntryFacts
  <1>1. CASE InstallReads
    BY <1>1 DEF InstallReads, McpIInv, McpShapes, KeptOK, BackedUp
  <1>2. CASE MergeBackup
    <2>1. McpShapes'
      BY <1>2 DEF MergeBackup, McpIInv, McpShapes
    <2>2. KeptOK'
      BY <1>2 DEF MergeBackup, McpIInv, KeptOK, NoBackup
    <2>3. BackedUp'
      BY <1>2 DEF MergeBackup, McpIInv, BackedUp, ToWrap
    <2> QED BY <2>1, <2>2, <2>3 DEF McpIInv
  <1>3. CASE WriteBackup
    <2>1. McpShapes'
      BY <1>3 DEF WriteBackup, McpIInv, McpShapes
    <2>2. KeptOK'
      BY <1>3 DEF WriteBackup, McpIInv, KeptOK
    <2>3. BackedUp'
      BY <1>3 DEF WriteBackup, McpIInv, BackedUp, ToWrap
    <2> QED BY <2>1, <2>2, <2>3 DEF McpIInv
  <1>4. CASE WrapEntries
    <2> DEFINE new == [n \in Names |-> Wrap(read[n])]
    <2>1. new \in [Names -> Seq(Items)]
      BY DEF Wrap, Items, McpIInv, McpShapes
    <2>2. ASSUME NEW n \in ToWrap(read) \ edited
          PROVE  Keeps(new[n], given[n])
      <3>1. n \in Names \ edited /\ read[n] \in Seq(Items) /\ read[n] # Absent
        BY DEF ToWrap, McpIInv, McpShapes
      <3>2. Wrap(read[n]) # Absent /\ Last(Wrap(read[n])) = Last(read[n])
        BY <3>1, WrapKeeps DEF McpIInv, McpShapes
      <3>3. Keeps(read[n], given[n])
        BY <1>4, <3>1 DEF WrapEntries, McpIInv, KeptOK
      <3> QED BY <3>1, <3>2, <3>3 DEF Keeps
    <2>3. ToWrap(read) \in SUBSET Names /\ \A n \in ToWrap(read) : mcpBackup[n] # Absent
      BY <1>4 DEF WrapEntries, McpIInv, BackedUp, ToWrap
    <2> QED BY <1>4, <2>1, <2>2, <2>3, TruncateKeeps DEF WrapEntries
  <1>5. CASE WriteWrapped
    BY <1>5, WriteKeeps DEF WriteWrapped
  <1>6. CASE UninstallReads
    BY <1>6 DEF UninstallReads, McpIInv, McpShapes, KeptOK, BackedUp
  <1>7. CASE RestoreEntries
    <2> DEFINE which == {n \in Names : read[n] # Absent /\ mcpBackup[n] # Absent}
    <2>1. which \in SUBSET Names /\ \A n \in which : mcpBackup[n] # Absent
      OBVIOUS
    <2>2. mcpBackup \in [Names -> Seq(Items)]
      BY DEF McpIInv, McpShapes
    <2>3. \A n \in which \ edited : Keeps(mcpBackup[n], given[n])
      BY DEF McpIInv, KeptOK
    <2> QED BY <1>7, <2>1, <2>2, <2>3, TruncateKeeps DEF RestoreEntries
  <1>8. CASE WriteRestored
    BY <1>8, WriteKeeps DEF WriteRestored
  <1>9. CASE RemoveBackup
    <2>1. McpShapes'
      BY <1>9 DEF RemoveBackup, McpIInv, McpShapes
    <2>2. ASSUME NEW n \in Names
          PROVE  Keeps(mcpConfig'[n], given'[n])
      BY <1>9 DEF RemoveBackup, McpIInv, McpShapes, KeptOK, BackedUp, Keeps
    <2>3. KeptOK'
      BY <1>9, <2>2 DEF RemoveBackup, KeptOK, NoBackup
    <2>4. BackedUp'
      BY <1>9 DEF RemoveBackup, McpIInv, BackedUp
    <2> QED BY <2>1, <2>3, <2>4 DEF McpIInv
  <1>10. CASE McpCrash
    <2>1. KeptOK'
      BY <1>10 DEF McpCrash, McpIInv, KeptOK
    <2> QED BY <1>10, <2>1 DEF McpCrash, McpIInv, McpShapes, BackedUp
  <1>11. ASSUME NEW n \in Names, NEW entry \in Entries, Edit(n, entry)
        PROVE  McpIInv'
    <2>1. McpShapes'
      BY <1>11 DEF Edit, McpIInv, McpShapes
    <2>2. ASSUME NEW m \in Names \ edited'
          PROVE  /\ Keeps(mcpConfig'[m], given'[m])
                 /\ mcpBackup'[m] # Absent => Keeps(mcpBackup'[m], given'[m])
                 /\ mcpPc' # "idle" => Keeps(read'[m], given'[m])
                 /\ mcpPc' = "merged" /\ data'[m] # Absent => Keeps(data'[m], given'[m])
                 /\ mcpPc' \in {"wrapped", "restored"} => Keeps(data'[m], given'[m])
      <3>1. CASE m = n
        BY <1>11, <3>1 DEF Edit, McpIInv, McpShapes
      <3>2. CASE m # n
        BY <1>11, <3>2 DEF Edit, McpIInv, McpShapes, KeptOK
      <3> QED BY <3>1, <3>2
    <2>3. BackedUp'
      BY <1>11 DEF Edit, McpIInv, BackedUp, ToWrap
    <2> QED BY <2>1, <2>2, <2>3 DEF McpIInv, KeptOK
  <1>12. ASSUME NEW c \in [Names -> Entries], Rewrite(c)
         PROVE  McpIInv'
    <2>1. \A n \in Names : c[n] \in Seq(Items) /\ Keeps(c[n], c[n])
      OBVIOUS
    <2>2. McpShapes'
      BY <1>12, <2>1 DEF Rewrite, McpIInv, McpShapes
    <2>3. KeptOK'
      BY <1>12, <2>1 DEF Rewrite, McpIInv, McpShapes, KeptOK
    <2> QED BY <1>12, <2>2, <2>3 DEF Rewrite, McpIInv, BackedUp
  <1>13. CASE Upgrade
    BY <1>13 DEF Upgrade, McpIInv, McpShapes, KeptOK, BackedUp
  <1>14. CASE UNCHANGED mcpVars
    BY <1>14 DEF mcpVars, McpIInv, McpShapes, KeptOK, BackedUp, ToWrap
  <1> QED
    BY <1>1, <1>2, <1>3, <1>4, <1>5, <1>6, <1>7, <1>8, <1>9, <1>10, <1>11, <1>12, <1>13,
       <1>14 DEF McpNext

\* An entry is what the user wrote, or is wrapped by different binaries, each
\* of an older path than the one around it.
WrapsOK(e) ==
  /\ e # Absent => Last(e) \in Commands \cup {Malformed}
  /\ Len(e) > 1 => /\ Last(e) \in Commands
                   /\ e[1] \in 1 .. self /\ Len(e) <= e[1] + 1

\* A backup lacks the wrapper of the binary that made it.
BackupOK(e) ==
  /\ WrapsOK(e) /\ Len(e) <= self
  /\ e # Absent => Last(e) \in Commands

McpTypes ==
  /\ \A n \in Names : /\ WrapsOK(mcpConfig[n]) /\ WrapsOK(read[n]) /\ WrapsOK(data[n])
                      /\ BackupOK(mcpBackup[n])
                      /\ mcpPc = "merged" => BackupOK(data[n])
  /\ self \in 1 .. MaxBinary
  /\ mcpPc \in {"idle", "backup", "merged", "config", "wrapped", "restore", "restored",
                "remove"}
  /\ edits \in 0 .. MaxEdits
  /\ given \in [Names -> Entries]

\* Entries as the user writes them, and none.
LEMMA BareEntries ==
  ASSUME self \in Nat \ {0}
  PROVE  /\ \A e \in Entries : WrapsOK(e)
         /\ WrapsOK(Absent) /\ BackupOK(Absent)
         /\ \A e \in Seq(Items) : e # Absent /\ WrapsOK(e) => << Last(e) >> \in Entries
  BY DEF Entries, Absent, WrapsOK, BackupOK, Last

\* An entry with a command, that another binary wrapped, or none, may be put
\* into the backup, and may be wrapped.
LEMMA WrapTypes ==
  ASSUME NEW e \in Seq(Items), Len(e) > 0, e[1] # self, Len(e) = 1 => e[1] # Malformed,
         WrapsOK(e), self \in Nat \ {0}
  PROVE  BackupOK(e) /\ WrapsOK(Wrap(e))
  <1> DEFINE w == Wrap(e)
  <1>1. Len(e) \in Nat /\ e # Absent
    BY DEF Absent
  <1>2. w \in Seq(Items) /\ w # Absent /\ Last(w) = Last(e)
    BY <1>1, WrapKeeps
  <1>3. Len(w) = Len(e) + 1 /\ w[1] = self
    <2>1. << self >> \in Seq(Items) /\ Len(<< self >>) = 1
      BY DEF Items
    <2> QED BY <1>1, <2>1 DEF Wrap
  <1>4. Last(e) \in Commands
    <2>1. CASE Len(e) = 1
      BY <1>1, <2>1 DEF WrapsOK, Last
    <2>2. CASE Len(e) > 1
      BY <2>2 DEF WrapsOK
    <2> QED BY <1>1, <2>1, <2>2
  <1>5. Len(e) <= self
    BY <1>1 DEF WrapsOK
  <1> HIDE DEF w
  <1>6. WrapsOK(w)
    BY <1>1, <1>2, <1>3, <1>4, <1>5 DEF WrapsOK
  <1> QED BY <1>4, <1>5, <1>6 DEF BackupOK, w

\* Such are the entries that are to be wrapped.
LEMMA ToWrapFacts ==
  ASSUME NEW c \in [Names -> Seq(Items)], NEW n \in ToWrap(c)
  PROVE  /\ n \in Names /\ c[n] \in Seq(Items) /\ Len(c[n]) > 0 /\ c[n][1] # self
         /\ Len(c[n]) = 1 => c[n][1] # Malformed
  <1>1. /\ n \in Names /\ c[n] \in Seq(Items)
        /\ c[n] \notin {Absent, << Malformed >>} /\ Head(c[n]) # self
    BY DEF ToWrap
  <1>2. ASSUME NEW e \in Seq(Items), e \notin {Absent, << Malformed >>}
        PROVE  /\ Len(e) > 0 /\ Head(e) = e[1]
               /\ Len(e) = 1 => e[1] # Malformed
    <2>1. Len(e) > 0 /\ Head(e) = e[1]
      BY <1>2 DEF Absent
    <2>2. Len(e) = 1 => e = << e[1] >>
      OBVIOUS
    <2> QED BY <1>2, <2>1, <2>2
  <1> QED BY <1>1, <1>2

\* Nothing is wrapped or backed up.
LEMMA McpTypesInitial == McpInit => McpTypes
  <1> SUFFICES ASSUME McpInit PROVE McpTypes
    OBVIOUS
  <1>1. self \in Nat \ {0}
    BY DEF McpInit
  <1> QED BY <1>1, BareEntries, McpAssumption DEF McpInit, McpTypes, NoBackup

\* Every step adds at most a wrapper of the newest binary.
LEMMA McpTypesStep ==
  ASSUME McpIInv, McpTypes, [McpNext]_mcpVars
  PROVE  McpTypes'
  <1> USE McpAssumption
  <1>0. /\ McpShapes /\ self \in Nat \ {0}
        /\ \A n \in Names : /\ mcpConfig[n] \in Seq(Items) /\ read[n] \in Seq(Items)
                            /\ data[n] \in Seq(Items) /\ mcpBackup[n] \in Seq(Items)
        /\ NoBackup = [n \in Names |-> Absent]
    BY DEF McpIInv, McpShapes, McpTypes, NoBackup
  <1>1. CASE InstallReads
    BY <1>1 DEF InstallReads, McpTypes, WrapsOK, BackupOK
  <1>2. CASE MergeBackup
    <2>1. \A n \in ToWrap(read) : n \in Names /\ BackupOK(read[n])
      BY <1>0, WrapTypes, ToWrapFacts DEF McpTypes, McpShapes
    <2>2. /\ self' = self
          /\ \A n \in Names : BackupOK(data'[n]) /\ BackupOK(mcpBackup'[n])
      BY <1>0, <1>2, <2>1, BareEntries DEF MergeBackup, McpTypes
    <2> QED BY <1>2, <2>2 DEF MergeBackup, McpTypes, WrapsOK, BackupOK
  <1>3. CASE WriteBackup
    <2>1. self' = self /\ \A n \in Names : BackupOK(mcpBackup'[n]) /\ WrapsOK(data'[n])
      BY <1>0, <1>3, BareEntries DEF WriteBackup, McpTypes
    <2> QED BY <1>3, <2>1 DEF WriteBackup, McpTypes, WrapsOK, BackupOK
  <1>4. CASE WrapEntries
    <2>1. \A n \in ToWrap(read) : n \in Names /\ WrapsOK(Wrap(read[n]))
      BY <1>0, WrapTypes, ToWrapFacts DEF McpTypes, McpShapes
    <2>2. self' = self /\ \A n \in Names : WrapsOK(mcpConfig'[n]) /\ WrapsOK(data'[n])
      BY <1>0, <1>4, <2>1, BareEntries DEF WrapEntries, TruncateConfig, McpTypes
    <2> QED BY <1>4, <2>2 DEF WrapEntries, TruncateConfig, McpTypes, WrapsOK, BackupOK
  <1>5. CASE WriteWrapped
    <2>1. /\ self' = self
          /\ \A n \in Names : /\ WrapsOK(mcpConfig'[n]) /\ WrapsOK(data'[n])
                              /\ WrapsOK(read'[n])
      BY <1>0, <1>5, BareEntries DEF WriteWrapped, WriteConfig, McpTypes
    <2> QED BY <1>5, <2>1 DEF WriteWrapped, WriteConfig, McpTypes, WrapsOK, BackupOK
  <1>6. CASE UninstallReads
    BY <1>6 DEF UninstallReads, McpTypes, WrapsOK, BackupOK
  <1>7. CASE RestoreEntries
    <2>1. self' = self /\ \A n \in Names : WrapsOK(mcpConfig'[n]) /\ WrapsOK(data'[n])
      BY <1>0, <1>7, BareEntries DEF RestoreEntries, TruncateConfig, McpTypes, BackupOK
    <2> QED BY <1>7, <2>1 DEF RestoreEntries, TruncateConfig, McpTypes, WrapsOK, BackupOK
  <1>8. CASE WriteRestored
    <2>1. self' = self /\ \A n \in Names : WrapsOK(mcpConfig'[n]) /\ WrapsOK(data'[n])
      BY <1>0, <1>8, BareEntries DEF WriteRestored, WriteConfig, McpTypes
    <2> QED BY <1>8, <2>1 DEF WriteRestored, WriteConfig, McpTypes, WrapsOK, BackupOK
  <1>9. CASE RemoveBackup
    <2>1. /\ self' = self
          /\ \A n \in Names : BackupOK(mcpBackup'[n]) /\ WrapsOK(read'[n])
      BY <1>0, <1>9, BareEntries DEF RemoveBackup
    <2>2. \A n \in Names : mcpConfig[n] # Absent => << Last(mcpConfig[n]) >> \in Entries
      BY <1>0, BareEntries DEF McpTypes
    <2>3. given' \in [Names -> Entries]
      BY <1>9, <2>2 DEF RemoveBackup, McpTypes, Entries
    <2> QED BY <1>9, <2>1, <2>3 DEF RemoveBackup, McpTypes, WrapsOK, BackupOK
  <1>10. CASE McpCrash
    <2>1. self' = self /\ \A n \in Names : WrapsOK(read'[n]) /\ WrapsOK(data'[n])
      BY <1>0, <1>10, BareEntries DEF McpCrash
    <2> QED BY <1>10, <2>1 DEF McpCrash, McpTypes, WrapsOK, BackupOK
  <1>11. ASSUME NEW n \in Names, NEW entry \in Entries, Edit(n, entry)
         PROVE  McpTypes'
    <2>1. self' = self /\ \A m \in Names : WrapsOK(mcpConfig'[m])
      BY <1>0, <1>11, BareEntries DEF Edit, McpTypes, McpShapes
    <2>2. given' \in [Names -> Entries] /\ edits' \in 0 .. MaxEdits
      BY <1>11 DEF Edit, McpTypes
    <2> QED BY <1>11, <2>1, <2>2 DEF Edit, McpTypes, WrapsOK, BackupOK
  <1>12. ASSUME NEW c \in [Names -> Entries], Rewrite(c)
         PROVE  McpTypes'
    <2>1. self' = self /\ \A m \in Names : WrapsOK(mcpConfig'[m])
      BY <1>0, <1>12, BareEntries DEF Rewrite
    <2>2. edits' \in 0 .. MaxEdits
      BY <1>12 DEF Rewrite, McpTypes
    <2> QED BY <1>12, <2>1, <2>2 DEF Rewrite, McpTypes, WrapsOK, BackupOK
  <1>13. CASE Upgrade
    <2>1. self' = self + 1 /\ self' \in 1 .. MaxBinary /\ 1 .. self \subseteq 1 .. self'
      BY <1>0, <1>13 DEF Upgrade, McpTypes
    <2>2. \A e \in Seq(Items) : (WrapsOK(e) => WrapsOK(e)') /\ (BackupOK(e) => BackupOK(e)')
      BY <1>0, <2>1 DEF WrapsOK, BackupOK
    <2> QED BY <1>0, <1>13, <2>1, <2>2 DEF Upgrade, McpTypes
  <1>14. CASE UNCHANGED mcpVars
    BY <1>14 DEF mcpVars, McpTypes, WrapsOK, BackupOK
  <1> QED
    BY <1>1, <1>2, <1>3, <1>4, <1>5, <1>6, <1>7, <1>8, <1>9, <1>10, <1>11, <1>12, <1>13,
       <1>14 DEF McpNext

(* The configuration and its backup keep their types, and an entry has at most
   one wrapper for each path the tool has had: install-mcp wraps no entry that
   the same binary has wrapped. *)
THEOREM McpTypesHold == McpSpec => []McpTypeOK
  <1>1. McpIInv /\ McpTypes => McpTypeOK
    <2> SUFFICES ASSUME McpIInv, McpTypes PROVE McpTypeOK
      OBVIOUS
    <2>1. self \in 1 .. MaxBinary
      BY DEF McpTypes
    <2>2. ASSUME NEW n \in Names
          PROVE  /\ Len(mcpConfig[n]) <= MaxBinary + 1
                 /\ Len(mcpBackup[n]) <= MaxBinary
      <3>1. Len(mcpConfig[n]) \in Nat /\ Len(mcpBackup[n]) \in Nat
        BY DEF McpIInv, McpShapes
      <3>2. Len(mcpConfig[n]) > 1 => Len(mcpConfig[n]) <= self + 1
        BY <2>1, <3>1, McpAssumption DEF McpTypes, WrapsOK
      <3> QED BY <2>1, <3>1, <3>2, McpAssumption DEF McpTypes, BackupOK
    <2> QED BY <2>1, <2>2 DEF McpIInv, McpShapes, McpTypes, WrapsOK, BackupOK, McpTypeOK
  <1> QED BY <1>1, McpInitial, McpTypesInitial, McpStep, McpTypesStep, PTL DEF McpSpec

(* For any number of servers, edits and upgrades: however install-mcp and
   uninstall-mcp follow each other and wherever they crash, in the middle of a
   write too, a server has the command it was given, innermost, in a
   configuration that can be parsed; and where the write of the configuration
   was cut, every server that was being rewritten has its command in the
   backup.  Excepted are entries edited under a backup or a running command. *)
THEOREM CommandsKept == McpSpec => []CommandsSurvive
  <1>1. McpIInv => CommandsSurvive
    <2> SUFFICES ASSUME McpIInv, NEW n \in Names \ edited
                 PROVE  /\ "config" \notin torn => Keeps(mcpConfig[n], given[n])
                        /\ n \in mcpCut => /\ mcpBackup[n] # Absent
                                           /\ << Last(mcpBackup[n]) >> = given[n]
      BY DEF CommandsSurvive, Keeps
    <2>1. n \in mcpCut => mcpBackup[n] # Absent
      BY DEF McpIInv, BackedUp
    <2>2. mcpBackup[n] # Absent => Keeps(mcpBackup[n], given[n])
      BY DEF McpIInv, KeptOK
    <2>3. "config" \notin torn => Keeps(mcpConfig[n], given[n])
      BY DEF McpIInv, KeptOK
    <2> QED BY <2>1, <2>2, <2>3 DEF Keeps
  <1> QED BY <1>1, McpInitial, McpStep, PTL DEF McpSpec

-----------------------------------------------------------------------------
(***************************************************************************)
(* OrgPolicySync: what a proxy applies was pushed and was synced for its   *)
(* organization.                                                           *)
(***************************************************************************)

\* A goroutine belongs to a running command, a command that is alone is the
\* only one, and what it has written is still in the file.
SyncedOK ==
  \A c \in Cmds :
    /\ orgCmdPc[c] = "new" => orgSyncPc[c] = "none" /\ got[c] = NoPolicy
    /\ orgSyncPc[c] \in {"none", "auth", "fetch"} => got[c] = NoPolicy
    /\ orgCmdPc[c] # "new" /\ alone[c] =>
         /\ OrgRunning = {c}
         /\ orgSyncPc[c] \in {"meta", "done"} /\ got[c] # NoPolicy =>
              orgFile = got[c]
    /\ orgSyncPc[c] # "none" => slug[c] # NoPolicy

OrgIInv == OrgTypeOK /\ SyncedOK

\* Nothing has been pushed, synced or applied.
LEMMA OrgInitial == OrgInit => OrgIInv
  BY PushesAssumption DEF OrgInit, OrgIInv, OrgTypeOK, SyncedOK

\* Every step of a push, a sync or a start keeps what is applied synced.
LEMMA OrgStep ==
  ASSUME OrgIInv, [OrgNext]_orgVars
  PROVE  OrgIInv'
  <1>1. ASSUME NEW o \in Orgs, NEW rego \in Regos, SetPolicy(o, rego)
        PROVE  OrgIInv'
    BY <1>1, PushesAssumption DEF SetPolicy, OrgIInv, OrgTypeOK, SyncedOK, OrgRunning
  <1>2. ASSUME NEW o \in Orgs \cup {NoPolicy}, ChangeOrg(o)
        PROVE  OrgIInv'
    BY <1>2 DEF ChangeOrg, OrgIInv, OrgTypeOK, SyncedOK, OrgRunning
  <1>3. ASSUME NEW c \in Cmds, StartCommand(c)
        PROVE  OrgIInv'
    <2>1. OrgTypeOK'
      BY <1>3 DEF StartCommand, OrgIInv, OrgTypeOK
    <2>2. orgCmdPc[c] = "new" /\ orgCmdPc'[c] = "started" /\ got' = got /\ orgFile' = orgFile
          /\ got[c] = NoPolicy
      BY <1>3 DEF StartCommand, OrgIInv, OrgTypeOK, SyncedOK
    <2>3. OrgRunning' = OrgRunning \cup {c}
      BY <1>3 DEF StartCommand, OrgIInv, OrgTypeOK, OrgRunning
    <2>4. ASSUME NEW d \in Cmds, d # c
          PROVE  /\ orgCmdPc'[d] = orgCmdPc[d] /\ orgSyncPc'[d] = orgSyncPc[d]
                 /\ slug'[d] = slug[d]
                 /\ alone'[d] => d \notin OrgRunning
      BY <1>3, <2>4 DEF StartCommand, OrgIInv, OrgTypeOK
    <2>5. /\ alone'[c] => OrgRunning = {}
          /\ orgSyncPc'[c] \in {"none", "auth"}
          /\ orgSyncPc'[c] # "none" => slug'[c] # NoPolicy
      BY <1>3 DEF StartCommand, OrgIInv, OrgTypeOK
    <2>6. SyncedOK'
      <3> SUFFICES ASSUME NEW d \in Cmds
                   PROVE  /\ orgCmdPc'[d] = "new" => orgSyncPc'[d] = "none" /\ got'[d] = NoPolicy
                          /\ orgSyncPc'[d] \in {"none", "auth", "fetch"} => got'[d] = NoPolicy
                          /\ orgCmdPc'[d] # "new" /\ alone'[d] =>
                               /\ OrgRunning' = {d}
                               /\ orgSyncPc'[d] \in {"meta", "done"} /\ got'[d] # NoPolicy =>
                                    orgFile' = got'[d]
                          /\ orgSyncPc'[d] # "none" => slug'[d] # NoPolicy
        BY DEF SyncedOK
      <3>1. CASE d = c
        BY <3>1, <2>2, <2>3, <2>5
      <3>2. CASE d # c
        BY <3>2, <2>2, <2>4 DEF OrgIInv, SyncedOK, OrgRunning
      <3> QED BY <3>1, <3>2
    <2> QED BY <2>1, <2>6 DEF OrgIInv
  <1>4. ASSUME NEW c \in Cmds, SyncGivesUp(c)
        PROVE  OrgIInv'
    BY <1>4 DEF SyncGivesUp, OrgIInv, OrgTypeOK, SyncedOK, OrgRunning
  <1>5. ASSUME NEW c \in Cmds, Authenticate(c)
        PROVE  OrgIInv'
    BY <1>5 DEF Authenticate, OrgIInv, OrgTypeOK, SyncedOK, OrgRunning
  <1>6. ASSUME NEW c \in Cmds, FetchPolicy(c)
        PROVE  OrgIInv'
    BY <1>6 DEF FetchPolicy, OrgIInv, OrgTypeOK, SyncedOK, OrgRunning
  <1>7. ASSUME NEW c \in Cmds, WritePolicy(c)
        PROVE  OrgIInv'
    BY <1>7 DEF WritePolicy, OrgIInv, OrgTypeOK, SyncedOK, OrgRunning
  <1>8. ASSUME NEW c \in Cmds, WriteOrgMeta(c)
        PROVE  OrgIInv'
    BY <1>8 DEF WriteOrgMeta, OrgIInv, OrgTypeOK, SyncedOK, OrgRunning
  <1>9. ASSUME NEW c \in Cmds, ApplyOrgPolicy(c)
        PROVE  OrgIInv'
    BY <1>9 DEF ApplyOrgPolicy, OrgIInv, OrgTypeOK, SyncedOK, OrgRunning
  <1>10. ASSUME NEW c \in Cmds, EndCommand(c)
         PROVE  OrgIInv'
    BY <1>10 DEF EndCommand, OrgIInv, OrgTypeOK, SyncedOK, OrgRunning
  <1>11. CASE UNCHANGED orgVars
    BY <1>11 DEF orgVars, OrgIInv, OrgTypeOK, SyncedOK, OrgRunning
  <1> QED
    BY <1>1, <1>2, <1>3, <1>4, <1>5, <1>6, <1>7, <1>8, <1>9, <1>10, <1>11 DEF OrgNext

\* Only ApplyOrgPolicy moves a command to "applied".
LEMMA OrgApplied ==
  ASSUME OrgIInv, [OrgNext]_orgVars, NEW c \in Cmds,
         orgCmdPc[c] = "started", orgCmdPc'[c] = "applied",
         alone[c], got[c] # NoPolicy, orgSyncPc[c] \in {"meta", "done"}
  PROVE  applied'[c] = got[c]
  <1>1. ApplyOrgPolicy(c)
    BY DEF OrgNext, orgVars, SetPolicy, ChangeOrg, StartCommand, SyncGivesUp, Authenticate,
           FetchPolicy, WritePolicy, WriteOrgMeta, ApplyOrgPolicy, EndCommand, OrgIInv,
           OrgTypeOK, OrgRunning
  <1> QED BY <1>1 DEF ApplyOrgPolicy, OrgIInv, OrgTypeOK, SyncedOK

(* For any number of commands, organizations and policies: a command that runs
   alone and whose sync (orgsync/sync.go) has written a policy applies that
   policy. *)
THEOREM PolicySynced == OrgSpec => AppliedIsSynced
  <1>1. OrgIInv /\ [OrgNext]_orgVars =>
          [\A c \in Cmds :
             (/\ orgCmdPc[c] = "started" /\ orgCmdPc'[c] = "applied"
              /\ alone[c] /\ got[c] # NoPolicy /\ orgSyncPc[c] \in {"meta", "done"})
               => applied'[c] = got[c]]_orgVars
    BY OrgApplied
  <1> QED BY <1>1, OrgInitial, OrgStep, PTL DEF OrgSpec, AppliedIsSynced

-----------------------------------------------------------------------------
(***************************************************************************)
(* UpdateCheck: what a check knows, in memory or in its cache, was the     *)
(* latest version when it asked, and not long ago.                         *)
(***************************************************************************)

\* Version v was the latest less than TTL before c looked.
Recent(c, v) == \E t \in 0 .. ckTime[c] : ckTime[c] - t < TTL /\ latest[t] = v

\* What the file says was so when it was written.
CacheOK == cached # NoCache => latest[cached.at] = cached.version

\* No time goes by during a request, and its answer is what is written.
CheckOK(c) ==
  /\ ckTime[c] <= clock
  /\ ckPc[c] \in {"get", "write", "writing"} => ckTime[c] = clock
  /\ ckPc[c] \in {"write", "writing"} => ckVersion[c] = latest[clock]
  /\ ckPc[c] = "result" => Recent(c, ckVersion[c])
  /\ ckPc[c] # "off" => notice[c] = 0
  /\ notice[c] # 0 => notice[c] > MyVersion /\ Recent(c, notice[c])

UpdateIInv ==
  /\ UpdateTypeOK
  /\ \A t \in 0 .. MaxTime : latest[t] <= MyVersion + clock
  /\ CacheOK
  /\ \A c \in Checks : CheckOK(c)

\* There is no cache and no command.
LEMMA UpdateInitial == UpdateInit => UpdateIInv
  <1> SUFFICES ASSUME UpdateInit PROVE UpdateIInv
    OBVIOUS
  <1>1. UpdateTypeOK
    BY UpdateAssumption DEF UpdateInit, UpdateTypeOK, NoCache
  <1>2. \A t \in 0 .. MaxTime : latest[t] <= MyVersion + clock
    BY UpdateAssumption DEF UpdateInit
  <1>3. CacheOK /\ \A c \in Checks : CheckOK(c)
    BY UpdateAssumption DEF UpdateInit, CacheOK, CheckOK
  <1> QED BY <1>1, <1>2, <1>3 DEF UpdateIInv

\* A command another one's step does not concern.
LEMMA CheckUntouched ==
  ASSUME NEW c \in Checks, CheckOK(c),
         ckTime'[c] = ckTime[c], ckPc'[c] = ckPc[c], ckVersion'[c] = ckVersion[c],
         notice'[c] = notice[c], clock' = clock, latest' = latest
  PROVE  CheckOK(c)'
  BY DEF CheckOK, Recent

\* Every step of a check keeps what it knows recent.
LEMMA UpdateStep ==
  ASSUME UpdateIInv, [UpdateNext]_updateVars
  PROVE  UpdateIInv'
  <1> USE UpdateAssumption
  <1>1. ASSUME NEW newer \in BOOLEAN, Tick(newer)
        PROVE  UpdateIInv'
    <2>1. /\ clock \in Nat /\ clock' = clock + 1 /\ clock' \in 0 .. MaxTime
          /\ latest[clock] \in 1 .. MyVersion + MaxTime /\ latest[clock] <= MyVersion + clock
      BY <1>1 DEF Tick, UpdateIInv, UpdateTypeOK
    <2>2. \A t \in 0 .. MaxTime :
            /\ t <= clock => latest'[t] = latest[t]
            /\ latest'[t] \in 1 .. MyVersion + MaxTime
            /\ latest'[t] <= MyVersion + clock'
      <3>1. \A t \in 0 .. MaxTime :
              latest'[t] = IF t <= clock \/ ~newer THEN latest[t] ELSE latest[clock] + 1
        BY <1>1 DEF Tick
      <3>2. /\ clock < MaxTime /\ MyVersion \in Nat /\ MaxTime \in Nat
            /\ \A t \in 0 .. MaxTime : latest[t] \in 1 .. MyVersion + MaxTime
                                      /\ latest[t] <= MyVersion + clock
        BY <1>1 DEF Tick, UpdateIInv, UpdateTypeOK
      <3> QED BY <2>1, <3>1, <3>2
    <2>3. latest' \in [0 .. MaxTime -> 1 .. MyVersion + MaxTime]
      <3>1. DOMAIN latest' = 0 .. MaxTime /\ latest' = [t \in 0 .. MaxTime |-> latest'[t]]
        BY <1>1 DEF Tick
      <3> QED BY <3>1, <2>2
    <2>4. UpdateTypeOK'
      BY <1>1, <2>1, <2>3 DEF Tick, UpdateIInv, UpdateTypeOK
    <2>5. CacheOK'
      BY <1>1, <2>1, <2>2 DEF Tick, UpdateIInv, UpdateTypeOK, CacheOK
    <2>6. ASSUME NEW c \in Checks
          PROVE  CheckOK(c)'
      <3>1. ckTime[c] \in 0 .. clock
        BY DEF UpdateIInv, UpdateTypeOK, CheckOK
      <3>2. \A v : Recent(c, v) => Recent(c, v)'
        <4> SUFFICES ASSUME NEW v, NEW t \in 0 .. ckTime[c],
                            ckTime[c] - t < TTL, latest[t] = v
                     PROVE  Recent(c, v)'
          BY DEF Recent
        <4>1. latest'[t] = v /\ ckTime' = ckTime
          BY <1>1, <2>1, <2>2, <3>1 DEF Tick
        <4> QED BY <4>1 DEF Recent
      <3> QED BY <1>1, <2>1, <3>1, <3>2 DEF Tick, UpdateIInv, CheckOK
    <2> QED BY <2>2, <2>4, <2>5, <2>6 DEF UpdateIInv
  <1>2. ASSUME NEW c \in Checks, StartCheck(c)
        PROVE  UpdateIInv'
    <2>1. UpdateTypeOK'
      BY <1>2, SMTT(40) DEF StartCheck, UpdateIInv, UpdateTypeOK
    <2>2. CheckOK(c)'
      BY <1>2 DEF StartCheck, UpdateIInv, UpdateTypeOK, CheckOK
    <2>3. \A d \in Checks \ {c} : CheckOK(d)'
      BY <1>2, CheckUntouched DEF StartCheck, UpdateIInv, UpdateTypeOK
    <2> QED BY <1>2, <2>1, <2>2, <2>3 DEF StartCheck, UpdateIInv, CacheOK
  <1>3. ASSUME NEW c \in Checks, ReadUpdateCache(c)
        PROVE  UpdateIInv'
    <2>1. UpdateTypeOK'
      BY <1>3 DEF ReadUpdateCache, UpdateIInv, UpdateTypeOK
    <2>2. CheckOK(c)'
      <3>1. ckTime'[c] = clock /\ clock' = clock /\ latest' = latest /\ notice'[c] = 0
        BY <1>3 DEF ReadUpdateCache, UpdateIInv, UpdateTypeOK, CheckOK
      <3>2. CASE cached # NoCache /\ clock - cached.at < TTL
        <4>1. ckPc'[c] = "result" /\ ckVersion'[c] = cached.version
          BY <1>3, <3>2 DEF ReadUpdateCache, UpdateIInv, UpdateTypeOK
        <4>2. cached.at \in 0 .. clock /\ latest[cached.at] = cached.version
          BY <3>2 DEF UpdateIInv, UpdateTypeOK, CacheOK
        <4>3. Recent(c, ckVersion[c])'
          BY <3>1, <3>2, <4>1, <4>2 DEF Recent
        <4> QED BY <3>1, <4>1, <4>3 DEF CheckOK, UpdateIInv, UpdateTypeOK
      <3>3. CASE ~(cached # NoCache /\ clock - cached.at < TTL)
        BY <1>3, <3>1, <3>3, SMTT(40) DEF ReadUpdateCache, UpdateIInv, UpdateTypeOK, CheckOK
      <3> QED BY <3>2, <3>3
    <2>3. \A d \in Checks \ {c} : CheckOK(d)'
      BY <1>3, CheckUntouched DEF ReadUpdateCache, UpdateIInv, UpdateTypeOK
    <2> QED BY <1>3, <2>1, <2>2, <2>3 DEF ReadUpdateCache, UpdateIInv, CacheOK
  <1>4. ASSUME NEW c \in Checks, GetLatest(c)
        PROVE  UpdateIInv'
    <2>1. UpdateTypeOK'
      BY <1>4, SMTT(40) DEF GetLatest, UpdateIInv, UpdateTypeOK
    <2>2. CheckOK(c)'
      BY <1>4 DEF GetLatest, UpdateIInv, UpdateTypeOK, CheckOK
    <2>3. \A d \in Checks \ {c} : CheckOK(d)'
      BY <1>4, CheckUntouched DEF GetLatest, UpdateIInv, UpdateTypeOK
    <2> QED BY <1>4, <2>1, <2>2, <2>3 DEF GetLatest, UpdateIInv, CacheOK
  <1>5. ASSUME NEW c \in Checks, GetFails(c) \/ DropCheck(c)
        PROVE  UpdateIInv'
    <2>1. UpdateTypeOK'
      BY <1>5 DEF GetFails, DropCheck, UpdateIInv, UpdateTypeOK
    <2>2. CheckOK(c)'
      BY <1>5 DEF GetFails, DropCheck, UpdateIInv, UpdateTypeOK, CheckOK, Recent
    <2>3. \A d \in Checks \ {c} : CheckOK(d)'
      BY <1>5, CheckUntouched DEF GetFails, DropCheck, UpdateIInv, UpdateTypeOK
    <2> QED BY <1>5, <2>1, <2>2, <2>3 DEF GetFails, DropCheck, UpdateIInv, CacheOK
  <1>6. ASSUME NEW c \in Checks, TruncateUpdateCache(c)
        PROVE  UpdateIInv'
    <2>1. UpdateTypeOK'
      BY <1>6, SMTT(40) DEF TruncateUpdateCache, UpdateIInv, UpdateTypeOK, NoCache
    <2>2. CheckOK(c)'
      BY <1>6 DEF TruncateUpdateCache, UpdateIInv, UpdateTypeOK, CheckOK
    <2>3. \A d \in Checks \ {c} : CheckOK(d)'
      BY <1>6, CheckUntouched DEF TruncateUpdateCache, UpdateIInv, UpdateTypeOK
    <2> QED BY <1>6, <2>1, <2>2, <2>3 DEF TruncateUpdateCache, UpdateIInv, CacheOK
  <1>7. ASSUME NEW c \in Checks, WriteUpdateCache(c)
        PROVE  UpdateIInv'
    <2>1. UpdateTypeOK'
      BY <1>7, SMTT(40) DEF WriteUpdateCache, UpdateIInv, UpdateTypeOK
    <2>2. /\ ckVersion[c] = latest[clock] /\ ckTime[c] = clock /\ clock \in Nat
          /\ notice[c] = 0
      BY <1>7 DEF WriteUpdateCache, UpdateIInv, UpdateTypeOK, CheckOK
    <2>3. CacheOK'
      BY <1>7, <2>2 DEF WriteUpdateCache, CacheOK
    <2>4. Recent(c, ckVersion[c])'
      BY <1>7, <2>2 DEF WriteUpdateCache, Recent
    <2>5. CheckOK(c)'
      BY <1>7, <2>2, <2>4 DEF WriteUpdateCache, UpdateIInv, UpdateTypeOK, CheckOK
    <2>6. \A d \in Checks \ {c} : CheckOK(d)'
      BY <1>7, CheckUntouched DEF WriteUpdateCache, UpdateIInv, UpdateTypeOK
    <2> QED BY <1>7, <2>1, <2>3, <2>5, <2>6 DEF WriteUpdateCache, UpdateIInv
  <1>8. ASSUME NEW c \in Checks, Notify(c)
        PROVE  UpdateIInv'
    <2>1. UpdateTypeOK'
      BY <1>8, SMTT(40) DEF Notify, UpdateIInv, UpdateTypeOK
    <2>2. Recent(c, ckVersion[c]) /\ ckVersion[c] \in Nat
      BY <1>8 DEF Notify, UpdateIInv, UpdateTypeOK, CheckOK
    <2>3. CheckOK(c)'
      BY <1>8, <2>2 DEF Notify, UpdateIInv, UpdateTypeOK, CheckOK, Recent
    <2>4. \A d \in Checks \ {c} : CheckOK(d)'
      BY <1>8, CheckUntouched DEF Notify, UpdateIInv, UpdateTypeOK
    <2> QED BY <1>8, <2>1, <2>3, <2>4 DEF Notify, UpdateIInv, CacheOK
  <1>9. CASE UNCHANGED updateVars
    BY <1>9 DEF updateVars, UpdateIInv, UpdateTypeOK, CacheOK, CheckOK, Recent
  <1> QED
    BY <1>1, <1>2, <1>3, <1>4, <1>5, <1>6, <1>7, <1>8, <1>9 DEF UpdateNext

(* For any number of commands, any TTL and any version of the tool: a notice
   (PrintNotice) names a newer version that was the registry's latest less
   than cacheTTL before the command looked at update-check.json. *)
THEOREM NoticesRecent == UpdateSpec => []NoticeIsRecent
  <1>1. UpdateIInv => NoticeIsRecent
    BY DEF UpdateIInv, CheckOK, Recent, NoticeIsRecent
  <1> QED BY <1>1, UpdateInitial, UpdateStep, PTL DEF UpdateSpec

-----------------------------------------------------------------------------
(***************************************************************************)
(* EventReport: every event is queued, posted or given up.                 *)
(***************************************************************************)

\* The service has the events before the loop's place, and no other.
PostedOK ==
  /\ \A k \in 1 .. MaxEvents : posted[k] = 1 => k <= repNext
  /\ ~excused => \A k \in 1 .. events : k <= repNext => posted[k] = 1

\* Without an excuse the goroutine ends, and the wait for it, after the loop.
LoopOK ==
  /\ repPc \in {"none", "token"} => repNext = 0
  /\ work = "working" => repPc = "none" /\ profLeft = {} /\ profGot = {}
  /\ work \in {"reported", "waiting"} /\ repPc = "done" /\ ~excused => repNext >= events
  /\ work = "exited" => repPc = "done"
  /\ work = "exited" /\ ~fails /\ ~excused => repNext >= events

ReportIInv == ReportTypeOK /\ PostedOK /\ LoopOK

\* Nothing has been reported.
LEMMA ReportInitial == ReportInit => ReportIInv
  <1> SUFFICES ASSUME ReportInit PROVE ReportIInv
    OBVIOUS
  <1>1. posted \in [1 .. MaxEvents -> 0 .. 1] /\ repNext \in 0 .. MaxEvents + BatchSize
    BY ReportAssumption DEF ReportInit
  <1>2. events \in 0 .. MaxEvents /\ profLeft \cap profGot = {}
    BY ReportAssumption DEF ReportInit
  <1>3. ReportTypeOK
    BY <1>1, <1>2 DEF ReportInit, ReportTypeOK
  <1>4. PostedOK /\ LoopOK
    BY ReportAssumption DEF ReportInit, PostedOK, LoopOK
  <1> QED BY <1>3, <1>4 DEF ReportIInv

\* Every step of the reporter's loop keeps the account of the events.
LEMMA ReportStep ==
  ASSUME ReportIInv, [ReportNext]_reportVars
  PROVE  ReportIInv'
  <1> USE ReportAssumption
  <1>1. ASSUME NEW n \in 0 .. MaxEvents, NEW profs \in SUBSET Profiles, AuditReports(n, profs)
        PROVE  ReportIInv'
    <2>1. profLeft' \cap profGot' = {}
      BY <1>1 DEF AuditReports, ReportIInv, ReportTypeOK, LoopOK
    <2> QED BY <1>1, <2>1 DEF AuditReports, ReportIInv, ReportTypeOK, PostedOK, LoopOK
  <1>2. ASSUME NEW n \in 0 .. MaxEvents, NEW passed \in BOOLEAN, VerifyReports(n, passed)
        PROVE  ReportIInv'
    BY <1>2 DEF VerifyReports, ReportIInv, ReportTypeOK, PostedOK, LoopOK
  <1>3. ASSUME NEW ok \in BOOLEAN, GetToken(ok)
        PROVE  ReportIInv'
    BY <1>3 DEF GetToken, ReportIInv, ReportTypeOK, PostedOK, LoopOK
  <1>4. ASSUME NEW ok \in BOOLEAN, PostBatch(ok)
        PROVE  ReportIInv'
    <2>1. /\ repNext \in Nat /\ events \in 0 .. MaxEvents /\ repNext < events
          /\ repNext' = repNext + BatchSize /\ repNext' \in 0 .. MaxEvents + BatchSize
      BY <1>4 DEF PostBatch, ReportIInv, ReportTypeOK
    <2>2. \A k \in 1 .. MaxEvents :
            /\ posted[k] \in 0 .. 1
            /\ k \in Batch(repNext) => posted[k] = 0
            /\ k \in Batch(repNext) <=> k <= events /\ repNext < k /\ k <= repNext'
      BY <2>1 DEF ReportIInv, ReportTypeOK, PostedOK, Batch
    <2>3. \A k \in 1 .. MaxEvents :
            posted'[k] = IF ok /\ k \in Batch(repNext) THEN 1 ELSE posted[k]
      BY <1>4, <2>2 DEF PostBatch
    <2>4. posted' \in [1 .. MaxEvents -> 0 .. 1]
      <3>1. posted' = [k \in 1 .. MaxEvents |-> posted'[k]]
        BY <1>4 DEF PostBatch
      <3>2. \A k \in 1 .. MaxEvents : posted'[k] \in 0 .. 1
        BY <2>2, <2>3
      <3> QED BY <3>1, <3>2
    <2>5. ReportTypeOK'
      BY <1>4, <2>1, <2>4 DEF PostBatch, ReportIInv, ReportTypeOK
    <2>6. PostedOK'
      <3>1. \A k \in 1 .. MaxEvents : posted'[k] = 1 => k <= repNext'
        BY <2>1, <2>2, <2>3 DEF ReportIInv, ReportTypeOK, PostedOK
      <3>2. ASSUME ~excused', NEW k \in 1 .. events, k <= repNext'
            PROVE  posted'[k] = 1
        <4>1. ok /\ ~excused
          BY <1>4, <3>2, Zenon DEF PostBatch
        <4>0. k \in 1 .. MaxEvents
          BY <2>1
        <4>2. k \in Batch(repNext) \/ posted[k] = 1
          BY <2>1, <2>2, <3>2, <4>1, <4>0 DEF ReportIInv, PostedOK
        <4> QED BY <2>3, <4>1, <4>2, <4>0
      <3>3. events' = events
        BY <1>4 DEF PostBatch
      <3> QED BY <3>1, <3>2, <3>3 DEF PostedOK
    <2>7. LoopOK'
      BY <1>4, <2>1 DEF PostBatch, ReportIInv, ReportTypeOK, LoopOK
    <2> QED BY <2>5, <2>6, <2>7 DEF ReportIInv
  <1>5. CASE ReportDone
    BY <1>5 DEF ReportDone, ReportIInv, ReportTypeOK, PostedOK, LoopOK
  <1>6. ASSUME NEW s \in Profiles, NEW ok \in BOOLEAN, PostProfile(s, ok)
        PROVE  ReportIInv'
    BY <1>6 DEF PostProfile, ReportIInv, ReportTypeOK, PostedOK, LoopOK
  <1>7. CASE Return
    BY <1>7 DEF Return, ReportIInv, ReportTypeOK, PostedOK, LoopOK
  <1>8. ASSUME NEW timeout \in BOOLEAN, WaitEnds(timeout)
        PROVE  ReportIInv'
    BY <1>8 DEF WaitEnds, ReportIInv, ReportTypeOK, PostedOK, LoopOK
  <1>9. CASE UNCHANGED reportVars
    BY <1>9 DEF reportVars, ReportIInv, ReportTypeOK, PostedOK, LoopOK
  <1> QED
    BY <1>1, <1>2, <1>3, <1>4, <1>5, <1>6, <1>7, <1>8, <1>9 DEF ReportNext

(* For any number of events and any batch size: when a command that returned
   no error exits, the organization has every event once, unless a token, a
   request or the time to wait was missing (eventreport/report.go). *)
THEOREM EventsReported == ReportSpec => []EventsArrive
  <1>1. ReportIInv => EventsArrive
    BY ReportAssumption DEF ReportIInv, ReportTypeOK, PostedOK, LoopOK, EventsArrive
  <1> QED BY <1>1, ReportInitial, ReportStep, PTL DEF ReportSpec

-----------------------------------------------------------------------------
(***************************************************************************)
(* Profiler: a profile keeps to its limit, and a draft has all of the      *)
(* session that it is for.                                                 *)
(***************************************************************************)

\* The state without the sizes of the profiles.
Shapes ==
  /\ up \in {"down", "serving", "listing", "exporting", "writing"}
  /\ profiles \in [Skills -> SUBSET Dests]
  /\ seen \subseteq Skills /\ left \subseteq seen
  /\ exported \in [Skills -> SUBSET Dests]
  /\ drafts \in [Skills -> SUBSET Dests]
  /\ unwritten \subseteq Skills
  /\ due \in [Skills -> SUBSET Dests]
  /\ runs \in 0 .. MaxRuns

\* A profile is finite and keeps to the limit.
SizesOK ==
  \A s \in Skills :
    IsFiniteSet(profiles[s]) /\ Cardinality(profiles[s]) <= MaxEntries

\* Profiles only grow during a shutdown, an export lies between the profile at
\* its beginning and the profile now, and a draft that is written is an export.
ExportsOK ==
  /\ \A s \in Skills \ seen : profiles[s] = {} /\ due[s] = {} /\ exported[s] = {}
  /\ up # "down" => \A s \in Skills : due[s] \subseteq profiles[s]
  /\ \A s \in Skills : exported[s] \subseteq profiles[s]
  /\ up \in {"down", "serving"} => \A s \in Skills : due[s] = {}
  /\ up \in {"down", "serving", "listing"} => \A s \in Skills : exported[s] = {}
  /\ up = "exporting" => \A s \in Skills : s \notin left => due[s] \subseteq exported[s]
  /\ up = "writing" =>
       \A s \in Skills :
         /\ due[s] \subseteq exported[s]
         /\ s \notin left \cup unwritten /\ exported[s] # {} =>
              drafts[s] = exported[s]

ProfilerIInv == Shapes /\ SizesOK /\ ExportsOK

\* No profile and no draft.
LEMMA ProfilerInitial == ProfilerInit => ProfilerIInv
  <1> SUFFICES ASSUME ProfilerInit PROVE ProfilerIInv
    OBVIOUS
  <1>1. Shapes /\ ExportsOK
    BY ProfilerAssumption DEF ProfilerInit, Shapes, ExportsOK
  <1>2. SizesOK
    BY FS_EmptySet, ProfilerAssumption DEF ProfilerInit, SizesOK
  <1> QED BY <1>1, <1>2 DEF ProfilerIInv

\* Every step of the profiler and of its export keeps the drafts whole.
LEMMA ProfilerStep ==
  ASSUME ProfilerIInv, [ProfilerNext]_profilerVars
  PROVE  ProfilerIInv'
  <1> USE ProfilerAssumption
  <1>1. CASE StartProfiler
    BY <1>1 DEF StartProfiler, ProfilerIInv, Shapes, SizesOK, ExportsOK
  <1>2. ASSUME NEW s \in Skills, NEW d \in Dests, Observe(s, d)
        PROVE  ProfilerIInv'
    <2>1. /\ profiles' \in [Skills -> SUBSET Dests]
          /\ \A k \in Skills : profiles[k] \subseteq profiles'[k]
          /\ \A k \in Skills \ {s} : profiles'[k] = profiles[k]
      BY <1>2 DEF Observe, ProfilerIInv, Shapes
    <2>2. SizesOK'
      <3> SUFFICES ASSUME NEW k \in Skills
                   PROVE  /\ IsFiniteSet(profiles'[k])
                          /\ Cardinality(profiles'[k]) <= MaxEntries
        BY DEF SizesOK
      <3>1. /\ IsFiniteSet(profiles[k]) /\ Cardinality(profiles[k]) <= MaxEntries
            /\ Cardinality(profiles[k]) \in Nat
        BY FS_CardinalityType DEF ProfilerIInv, SizesOK
      <3>2. /\ IsFiniteSet(profiles[k] \cup {d})
            /\ \/ Cardinality(profiles[k] \cup {d}) = Cardinality(profiles[k])
               \/ Cardinality(profiles[k] \cup {d}) = Cardinality(profiles[k]) + 1
        BY <3>1, FS_AddElement
      <3>3. \/ profiles'[k] = profiles[k]
            \/ /\ profiles'[k] = profiles[k] \cup {d}
               /\ Cardinality(profiles[k]) < MaxEntries
        BY <1>2 DEF Observe, ProfilerIInv, Shapes
      <3>4. ASSUME NEW n \in Nat, NEW m, n < MaxEntries, m = n \/ m = n + 1
            PROVE  m <= MaxEntries
        BY <3>4
      <3>5. CASE profiles'[k] = profiles[k]
        BY <3>1, <3>5
      <3>6. CASE /\ profiles'[k] = profiles[k] \cup {d}
                 /\ Cardinality(profiles[k]) < MaxEntries
        BY <3>1, <3>2, <3>4, <3>6
      <3> QED BY <3>3, <3>5, <3>6
    <2> QED BY <1>2, <2>1, <2>2 DEF Observe, ProfilerIInv, Shapes, ExportsOK
  <1>3. CASE BeginExport
    BY <1>3 DEF BeginExport, ProfilerIInv, Shapes, SizesOK, ExportsOK
  <1>4. CASE ListSkills
    BY <1>4 DEF ListSkills, ProfilerIInv, Shapes, SizesOK, ExportsOK
  <1>5. ASSUME NEW s \in Skills, Export(s)
        PROVE  ProfilerIInv'
    BY <1>5 DEF Export, ProfilerIInv, Shapes, SizesOK, ExportsOK
  <1>6. CASE ExportReturns
    BY <1>6 DEF ExportReturns, ProfilerIInv, Shapes, SizesOK, ExportsOK
  <1>7. ASSUME NEW s \in Skills, WriteDraft(s)
        PROVE  ProfilerIInv'
    BY <1>7 DEF WriteDraft, ProfilerIInv, Shapes, SizesOK, ExportsOK
  <1>8. CASE EndProfiler \/ KillProfiler
    <2>1. SizesOK'
      BY <1>8, FS_EmptySet DEF EndProfiler, KillProfiler, Ends, SizesOK
    <2>2. drafts' \in [Skills -> SUBSET Dests]
      BY <1>8
         DEF EndProfiler, KillProfiler, CutDraft, Ends, ProfilerIInv, Shapes
    <2> QED BY <1>8, <2>1, <2>2
            DEF EndProfiler, KillProfiler, Ends, ProfilerIInv, Shapes, ExportsOK
  <1>10. ASSUME NEW s \in Skills, WriteFails(s)
         PROVE  ProfilerIInv'
    <2>1. /\ drafts' \in [Skills -> SUBSET Dests]
          /\ \A k \in Skills \ {s} : drafts'[k] = drafts[k]
      BY <1>10 DEF WriteFails, CutDraft, ProfilerIInv, Shapes
    <2> QED BY <1>10, <2>1
            DEF WriteFails, ProfilerIInv, Shapes, SizesOK, ExportsOK
  <1>9. CASE UNCHANGED profilerVars
    BY <1>9 DEF profilerVars, ProfilerIInv, Shapes, SizesOK, ExportsOK
  <1> QED
    BY <1>1, <1>2, <1>3, <1>4, <1>5, <1>6, <1>7, <1>8, <1>9, <1>10
       DEF ProfilerNext

(* The auto-profiler keeps its types and, whatever observes it and when, at
   most maxProfileEntries destinations for a skill (Observe, profiler.go). *)
THEOREM ProfilesBounded == ProfilerSpec => []ProfilerTypeOK
  <1>1. ProfilerIInv => ProfilerTypeOK
    BY DEF ProfilerIInv, Shapes, SizesOK, ProfilerTypeOK
  <1> QED BY <1>1, ProfilerInitial, ProfilerStep, PTL DEF ProfilerSpec

(* For any number of skills, destinations and processes, and any limit of a
   profile: when the clean-up is over, a draft has what the skill used before
   the shutdown began and nothing that it did not use in this process. *)
THEOREM DraftsComplete == ProfilerSpec => []DraftsAreThisSession
  <1>1. ProfilerIInv => DraftsAreThisSession
    BY DEF ProfilerIInv, Shapes, ExportsOK, DraftsAreThisSession
  <1> QED BY <1>1, ProfilerInitial, ProfilerStep, PTL DEF ProfilerSpec

-----------------------------------------------------------------------------
(***************************************************************************)
(* ThreatSync: its types, and that a 304 means that the cache has what the *)
(* service has as long as syncs do not overlap.                            *)
(***************************************************************************)

\* b, if it is a body of kind k, is built from no newer tables than c.
Below(b, k, c) == b \in Bodies(k) => \A t \in TablesOf(k) : b[t] <= c[t]

\* The file of kind k and the saved ETag are.
DiskBelow(k, c) ==
  /\ Below(cache[k], k, c)
  /\ metadata # NoBody => Below(metadata.etags[k], k, c)

\* An ETag names no newer body than the file holds.
ETagBehind(e) == \A k \in Kinds : Usable(k) => Below(e[k], k, cache[k])

\* The syncer has loaded the metadata.
Syncing(p) == syncPc[p] \notin {"idle", "auth"}

\* What a syncer is doing fits the file it is at.
KindFits ==
  \A p \in Clis :
    /\ syncPc[p] = "domains" => kind[p] = "ioc"
    /\ syncPc[p] = "write" => answer[p] \in Bodies(kind[p])

\* No two syncers.
Alone == \A p, q \in Clis : syncPc[p] # "idle" /\ syncPc[q] # "idle" => p = q

\* No newer than a body: what is on disk of its kind, and the ETag sent.
AllBelow(p, c) ==
  DiskBelow(kind[p], c) /\ Below(meta[p][kind[p]], kind[p], c)

\* What a syncer holds: ETags that are not ahead of the files, and a body,
\* or half of one, that is at least as new as all it may replace.
SyncOK(p) ==
  /\ Syncing(p) => /\ \A k \in Kinds : Below(meta[p][k], k, lib)
                   /\ ETagBehind(meta[p])
  /\ syncPc[p] = "domains" => hashesRead[p] <= lib["hashes"]
  /\ LastQuery(p) => AllBelow(p, BodyFor(p))
  /\ syncPc[p] = "write" =>
       AllBelow(p, answer[p]) /\ Below(answer[p], kind[p], lib)

\* What is on disk was copied from the service, the ETags last.
DiskOK ==
  /\ \A k \in Kinds : DiskBelow(k, lib)
  /\ metadata # NoBody => ETagBehind(metadata.etags)

Ordered == Alone /\ DiskOK /\ \A p \in Clis : SyncOK(p)

ThreatIInv ==
  /\ ThreatTypeOK
  /\ KindFits
  /\ ~overlapped => Ordered

-----------------------------------------------------------------------------
(* Kinds, tables and bodies. *)
LEMMA KindFacts ==
  /\ Kinds = {"ioc", "yara"}
  /\ \A k \in Kinds : TablesOf(k) \subseteq Tables
  /\ TablesOf("ioc") = {"hashes", "domains"}
  /\ TablesOf("yara") = {"rules"}
  /\ Versions \subseteq Nat /\ Epochs \subseteq Nat
  BY BoundsAssumption DEF Kinds, TablesOf, Tables, Versions, Epochs

\* What stands for no file and for a file cut off is no body.
LEMMA NotBodies ==
  ASSUME NEW k \in Kinds
  PROVE  NoBody \notin Bodies(k) /\ Corrupt \notin Bodies(k) /\ NoBody # Corrupt
  BY NoBodyAssumption

\* Without metadata there are no ETags.
LEMMA NoETagsFact == NoETags \in ETags /\ \A k \in Kinds : NoETags[k] = NoBody
  BY DEF NoETags, ETags

\* What a body is built from only gets newer.
LEMMA BelowTransitive ==
  ASSUME NEW k \in Kinds, NEW b, NEW c \in Bodies(k), NEW d,
         \A t \in TablesOf(k) : d[t] \in Nat,
         Below(b, k, c), Below(c, k, d)
  PROVE  Below(b, k, d)
  <1> SUFFICES ASSUME b \in Bodies(k), NEW t \in TablesOf(k)
               PROVE  b[t] <= d[t]
    BY DEF Below
  <1>1. b[t] \in Nat /\ c[t] \in Nat /\ d[t] \in Nat
    BY KindFacts DEF Bodies
  <1>2. b[t] <= c[t] /\ c[t] <= d[t]
    BY DEF Below
  <1> QED BY <1>1, <1>2

\* A body is never newer than itself.
LEMMA BelowReflexive ==
  ASSUME NEW k \in Kinds, NEW b
  PROVE  Below(b, k, b)
  <1> SUFFICES ASSUME b \in Bodies(k), NEW t \in TablesOf(k)
               PROVE  b[t] <= b[t]
    BY DEF Below
  <1>1. b[t] \in Nat
    BY KindFacts DEF Bodies
  <1> QED BY <1>1

\* No body at all is below anything.
LEMMA BelowNone ==
  ASSUME NEW k \in Kinds, NEW c
  PROVE  Below(NoBody, k, c) /\ Below(Corrupt, k, c)
  BY NotBodies DEF Below

\* Bodies that are below each other are the same.
LEMMA BelowAntisymmetric ==
  ASSUME NEW k \in Kinds, NEW b \in Bodies(k), NEW c \in Bodies(k),
         Below(b, k, c), Below(c, k, b)
  PROVE  b = c
  <1>1. \A t \in TablesOf(k) : b[t] \in Nat /\ c[t] \in Nat
    BY KindFacts DEF Bodies
  <1>2. \A t \in TablesOf(k) : b[t] = c[t]
    BY <1>1 DEF Below
  <1> QED BY <1>2 DEF Bodies

\* The body an endpoint builds is one, and is what the tables hold or less.
LEMMA BodyForFacts ==
  ASSUME ThreatTypeOK, KindFits, NEW p \in Clis, LastQuery(p)
  PROVE  /\ BodyFor(p) \in Bodies(kind[p])
         /\ \A t \in TablesOf(kind[p]) :
              BodyFor(p)[t] = IF t = "hashes" THEN hashesRead[p] ELSE lib[t]
         /\ Syncing(p)
  <1>1. kind[p] \in Kinds /\ hashesRead[p] \in Versions
    BY DEF ThreatTypeOK
  <1>2. \A t \in TablesOf(kind[p]) : lib[t] \in Versions
    BY <1>1, KindFacts DEF ThreatTypeOK
  <1>3. Syncing(p)
    BY DEF LastQuery, Syncing
  <1> QED BY <1>1, <1>2, <1>3 DEF BodyFor, Bodies

-----------------------------------------------------------------------------
(* Types. *)
LEMMA ThreatInitTypes == ThreatInit => ThreatTypeOK /\ KindFits
  <1> SUFFICES ASSUME ThreatInit PROVE ThreatTypeOK /\ KindFits
    OBVIOUS
  <1>1. lib \in [Tables -> Versions] /\ hashesRead \in [Clis -> Versions]
    BY BoundsAssumption DEF ThreatInit, Versions
  <1>2. /\ cache \in [Kinds -> AllBodies \cup {NoBody, Corrupt}]
        /\ \A k \in Kinds : cache[k] \in Bodies(k) \cup {NoBody, Corrupt}
    BY DEF ThreatInit
  <1>3. metadata \in Metadata \cup {NoBody}
    BY DEF ThreatInit
  <1>4. /\ released \in Epochs /\ installed \in 0..released
        /\ build \in [Clis -> Epochs]
    BY BoundsAssumption DEF ThreatInit, Epochs
  <1>5. /\ cmdPc \in [Clis -> {"down", "wait", "ioc", "remove", "running"}]
        /\ syncPc \in
             [Clis -> {"idle", "auth", "fetch", "domains", "write", "meta"}]
        /\ kind \in [Clis -> Kinds]
        /\ overlapped \in BOOLEAN
        /\ answer \in [Clis -> AllBodies \cup {NoBody}]
    BY KindFacts DEF ThreatInit
  <1>6. meta \in [Clis -> ETags]
    BY NoETagsFact DEF ThreatInit
  <1>7. KindFits
    BY DEF ThreatInit, KindFits
  <1> QED BY <1>1, <1>2, <1>3, <1>4, <1>5, <1>6, <1>7 DEF ThreatTypeOK

\* Noting an ETag.
LEMMA NoteETag ==
  ASSUME NEW e \in ETags, NEW k \in Kinds, NEW b \in Bodies(k)
  PROVE  [e EXCEPT ![k] = b] \in ETags
  <1>1. b \in AllBodies
    BY DEF AllBodies
  <1> QED BY <1>1 DEF ETags

\* Every step keeps the types.
LEMMA ThreatStepTypes ==
  ASSUME ThreatTypeOK, KindFits, [ThreatNext]_threatVars
  PROVE  ThreatTypeOK' /\ KindFits'
  <1> USE KindFacts
  <1>1. ASSUME NEW S \in SUBSET Tables, Ingest(S)
        PROVE  ThreatTypeOK' /\ KindFits'
    <2>1. \A t \in S : lib[t] + 1 \in Versions
      BY <1>1, BoundsAssumption DEF ThreatTypeOK, Ingest, Versions
    <2>2. lib' \in [Tables -> Versions]
      BY <1>1, <2>1 DEF ThreatTypeOK, Ingest
    <2> QED BY <1>1, <2>2
            DEF ThreatTypeOK, KindFits, Ingest, toolVars, cmdVars, syncVars
  <1>2. CASE ReleaseTool
    <2>1. released' \in Epochs /\ installed \in 0..released'
      BY <1>2, BoundsAssumption DEF ThreatTypeOK, ReleaseTool, Epochs
    <2> QED BY <1>2, <2>1 DEF ThreatTypeOK, KindFits, ReleaseTool, cmdVars, syncVars
  <1>3. CASE Install
    <2>1. installed' \in 0..released
      BY <1>3 DEF ThreatTypeOK, Install, Epochs
    <2> QED BY <1>3, <2>1 DEF ThreatTypeOK, KindFits, Install, cmdVars, syncVars
  <1>4. ASSUME NEW p \in Clis, StartAsync(p)
        PROVE  ThreatTypeOK' /\ KindFits'
    <2>1. installed \in Epochs
      BY BoundsAssumption DEF ThreatTypeOK, Epochs
    <2>2. overlapped' \in BOOLEAN
      BY <1>4 DEF StartAsync, ThreatTypeOK
    <2> QED BY <1>4, <2>1, <2>2 DEF ThreatTypeOK, KindFits, StartAsync, toolVars
  <1>5. ASSUME NEW p \in Clis, StopSync(p), UNCHANGED << lib, cache, overlapped >>,
               UNCHANGED toolVars,
               metadata' \in Metadata \cup {NoBody},
               cmdPc' \in [Clis -> {"down", "wait", "ioc", "remove", "running"}],
               build' \in [Clis -> Epochs]
        PROVE  ThreatTypeOK' /\ KindFits'
    <2>1. /\ 0 \in Versions /\ NoETags \in ETags
      BY BoundsAssumption, NoETagsFact DEF Versions
    <2> QED BY <1>5, <2>1 DEF ThreatTypeOK, KindFits, StopSync, toolVars
  <1>6. ASSUME NEW p \in Clis, Exit(p)
        PROVE  ThreatTypeOK' /\ KindFits'
    <2>1. 0 \in Epochs
      BY BoundsAssumption DEF Epochs
    <2> QED BY <1>5, <1>6, <2>1 DEF Exit, ThreatTypeOK
  <1>7. ASSUME NEW p \in Clis, GiveUp(p) \/ WriteMetadataFails(p)
        PROVE  ThreatTypeOK' /\ KindFits'
    BY <1>5, <1>7 DEF GiveUp, WriteMetadataFails, ThreatTypeOK, cmdVars
  <1>8. ASSUME NEW p \in Clis, WriteMetadata(p)
        PROVE  ThreatTypeOK' /\ KindFits'
    <2>1. metadata' \in Metadata
      BY <1>8 DEF WriteMetadata, ThreatTypeOK, Metadata
    <2> QED BY <1>5, <1>8, <2>1 DEF WriteMetadata, ThreatTypeOK, cmdVars
  <1>9. ASSUME NEW p \in Clis, LoadMetadata(p)
        PROVE  ThreatTypeOK' /\ KindFits'
    <2>1. (IF metadata = NoBody THEN NoETags ELSE metadata.etags) \in ETags
      BY NoETagsFact DEF ThreatTypeOK, Metadata
    <2> QED BY <1>9, <2>1
            DEF ThreatTypeOK, KindFits, LoadMetadata, toolVars, cmdVars
  <1>10. ASSUME NEW p \in Clis, ReadHashes(p)
         PROVE  ThreatTypeOK' /\ KindFits'
    <2>1. lib["hashes"] \in Versions
      BY DEF ThreatTypeOK, Tables
    <2> QED BY <1>10, <2>1
            DEF ThreatTypeOK, KindFits, ReadHashes, toolVars, cmdVars
  <1>11. ASSUME NEW p \in Clis, GoOn(p), UNCHANGED << lib, metadata, overlapped >>,
                UNCHANGED << toolVars, cmdVars >>,
                cache' \in [Kinds -> AllBodies \cup {NoBody, Corrupt}],
                \A k \in Kinds : cache'[k] \in Bodies(k) \cup {NoBody, Corrupt},
                meta' \in [Clis -> ETags]
         PROVE  ThreatTypeOK' /\ KindFits'
    <2>2. 0 \in Versions
      BY BoundsAssumption DEF Versions
    <2> QED BY <1>11, <2>2 DEF ThreatTypeOK, KindFits, GoOn, toolVars, cmdVars
  <1>12. ASSUME NEW p \in Clis,
                NotModified(p) \/ FetchFails(p) \/ WriteCacheFails(p)
         PROVE  ThreatTypeOK' /\ KindFits'
    BY <1>11, <1>12
       DEF ThreatTypeOK, NotModified, FetchFails, WriteCacheFails
  <1>13. ASSUME NEW p \in Clis, Modified(p)
         PROVE  ThreatTypeOK' /\ KindFits'
    <2>1. BodyFor(p) \in Bodies(kind[p]) /\ kind[p] \in Kinds
      BY <1>13, BodyForFacts DEF Modified, ThreatTypeOK
    <2>2. BodyFor(p) \in AllBodies
      BY <2>1 DEF AllBodies
    <2> QED BY <1>13, <2>1, <2>2
            DEF ThreatTypeOK, KindFits, Modified, toolVars, cmdVars
  <1>14. ASSUME NEW p \in Clis, WriteCache(p)
         PROVE  ThreatTypeOK' /\ KindFits'
    <2>1. kind[p] \in Kinds /\ answer[p] \in Bodies(kind[p])
      BY <1>14 DEF WriteCache, ThreatTypeOK, KindFits
    <2>2. answer[p] \in AllBodies
      BY <2>1 DEF AllBodies
    <2>3. /\ cache' \in [Kinds -> AllBodies \cup {NoBody, Corrupt}]
          /\ \A k \in Kinds : cache'[k] \in Bodies(k) \cup {NoBody, Corrupt}
      BY <1>14, <2>1, <2>2 DEF WriteCache, ThreatTypeOK, Truncated
    <2>4. [meta[p] EXCEPT ![kind[p]] = answer[p]] \in ETags
      BY <2>1, NoteETag DEF ThreatTypeOK
    <2>5. meta' \in [Clis -> ETags]
      BY <1>14, <2>4 DEF WriteCache, ThreatTypeOK
    <2> QED BY <1>11, <1>14, <2>3, <2>5 DEF WriteCache
  <1>15. ASSUME NEW p \in Clis, CheckMetadata(p) \/ ReadCache(p)
         PROVE  ThreatTypeOK' /\ KindFits'
    BY <1>15 DEF ThreatTypeOK, KindFits, CheckMetadata, ReadCache, toolVars, syncVars
  <1>16. ASSUME NEW p \in Clis, RemoveCorrupt(p)
         PROVE  ThreatTypeOK' /\ KindFits'
    BY <1>16 DEF ThreatTypeOK, KindFits, RemoveCorrupt, toolVars, syncVars
  <1>17. CASE UNCHANGED threatVars
    BY <1>17 DEF ThreatTypeOK, KindFits, threatVars, toolVars, cmdVars, syncVars
  <1> QED BY <1>1, <1>2, <1>3, <1>4, <1>6, <1>7, <1>8, <1>9, <1>10, <1>12,
             <1>13, <1>14, <1>15, <1>16, <1>17 DEF ThreatNext
-----------------------------------------------------------------------------
(* Order. *)
LEMMA ThreatInitOrdered == ThreatInit => Ordered
  <1> SUFFICES ASSUME ThreatInit PROVE Ordered
    OBVIOUS
  <1>1. Alone
    BY DEF ThreatInit, Alone
  <1>2. DiskOK
    BY BelowNone DEF ThreatInit, DiskOK, DiskBelow
  <1>3. \A p \in Clis : SyncOK(p)
    BY DEF ThreatInit, SyncOK, Syncing, LastQuery
  <1> QED BY <1>1, <1>2, <1>3 DEF Ordered

\* Only the syncer at work matters.
LEMMA OneSyncer ==
  ASSUME Alone, NEW p \in Clis, syncPc[p] # "idle",
         \A q \in Clis \ {p} : syncPc'[q] = syncPc[q],
         DiskOK', SyncOK(p)'
  PROVE  Ordered'
  <1>1. \A q \in Clis \ {p} : syncPc'[q] = "idle"
    BY DEF Alone
  <1>2. Alone'
    BY <1>1 DEF Alone
  <1>3. \A q \in Clis \ {p} : SyncOK(q)'
    BY <1>1 DEF SyncOK, Syncing, LastQuery
  <1> QED BY <1>2, <1>3 DEF Ordered

\* A syncer goes on to the YARA rules, or to the metadata.
LEMMA GoOnOrdered ==
  ASSUME ThreatTypeOK, ThreatTypeOK', Alone, NEW p \in Clis, Syncing(p), GoOn(p), lib' = lib,
         DiskOK', ETagBehind(meta[p])',
         \A k \in Kinds : Below(meta'[p][k], k, lib)
  PROVE  Ordered'
  <1>1. /\ syncPc'[p] \in {"fetch", "meta"} /\ kind'[p] = "yara"
        /\ \A q \in Clis \ {p} : syncPc'[q] = syncPc[q]
    BY DEF GoOn, ThreatTypeOK
  <1>2. ASSUME NEW b, Below(b, "yara", lib)
        PROVE  Below(b, "yara", BodyFor(p)')
    <2>1. BodyFor(p)' = [t \in {"rules"} |-> lib["rules"]]
      BY <1>1, KindFacts DEF BodyFor
    <2> QED BY <1>2, <2>1, KindFacts DEF Below
  <1>3. DiskBelow("yara", lib)' /\ Below(meta'[p]["yara"], "yara", lib)
    BY KindFacts DEF DiskOK
  <1>4. AllBelow(p, BodyFor(p))'
    BY <1>1, <1>2, <1>3 DEF AllBelow, DiskBelow
  <1>5. SyncOK(p)'
    BY <1>1, <1>4 DEF SyncOK
  <1>6. syncPc[p] # "idle"
    BY DEF Syncing
  <1> QED BY <1>1, <1>5, <1>6, OneSyncer

\* Every step keeps what is on disk behind the tables.
LEMMA ThreatStepOrdered ==
  ASSUME ThreatTypeOK, ThreatTypeOK', KindFits, Ordered, ~overlapped', [ThreatNext]_threatVars
  PROVE  Ordered'
  <1> USE KindFacts
  <1>1. ASSUME NEW S \in SUBSET Tables, Ingest(S)
        PROVE  Ordered'
    <2>1. \A t \in Tables : lib[t] \in Nat /\ lib'[t] \in Nat /\ lib[t] <= lib'[t]
      <3>1. lib \in [Tables -> Nat]
        BY DEF ThreatTypeOK
      <3> QED BY <1>1, <3>1 DEF Ingest
    <2>2. ASSUME NEW k \in Kinds, NEW b, Below(b, k, lib)
          PROVE  Below(b, k, lib)'
      <3>1. \A t \in TablesOf(k) : lib[t] \in Nat /\ lib'[t] \in Nat
                                    /\ lib[t] <= lib'[t]
        BY <2>1
      <3>2. b \in Bodies(k) => \A t \in TablesOf(k) : b[t] \in Nat
        BY DEF Bodies
      <3> QED BY <2>2, <3>1, <3>2 DEF Below
    <2>3. DiskOK'
      BY <1>1, <2>2 DEF Ordered, DiskOK, DiskBelow, ETagBehind, Usable, Ingest
    <2>4. Alone'
      BY <1>1 DEF Ordered, Alone, Ingest, syncVars
    <2>5. ASSUME NEW p \in Clis
          PROVE  SyncOK(p)'
      <3>1. UNCHANGED << cache, metadata, syncPc, kind, meta, hashesRead, answer >>
        BY <1>1 DEF Ingest, syncVars
      <3>2. /\ SyncOK(p) /\ kind[p] \in Kinds
            /\ hashesRead[p] \in Nat
        BY DEF Ordered, ThreatTypeOK
      <3>3. Syncing(p)' => /\ \A k \in Kinds : Below(meta[p][k], k, lib)'
                           /\ ETagBehind(meta[p])'
        BY <2>2, <3>1, <3>2 DEF SyncOK, Syncing, ETagBehind, Usable
      <3>4. syncPc'[p] = "domains" => hashesRead'[p] <= lib'["hashes"]
        <4>1. "hashes" \in Tables
          BY DEF Tables
        <4> QED BY <2>1, <3>1, <3>2, <4>1 DEF SyncOK
      <3>5. LastQuery(p)' => AllBelow(p, BodyFor(p))'
        <4> SUFFICES ASSUME LastQuery(p)'
                     PROVE  AllBelow(p, BodyFor(p))'
          OBVIOUS
        <4>1. LastQuery(p)
          BY <3>1 DEF LastQuery
        <4>2. BodyFor(p) \in Bodies(kind[p])
          BY <4>1, BodyForFacts
        <4>3. Below(BodyFor(p), kind[p], BodyFor(p)')
          BY <2>1, <3>1, <3>2 DEF Below, BodyFor
        <4>4. \A t \in TablesOf(kind[p]) : BodyFor(p)'[t] \in Nat
          BY <2>1, <3>1, <3>2 DEF BodyFor
        <4>5. \A b : Below(b, kind[p], BodyFor(p)) =>
                       Below(b, kind[p], BodyFor(p)')
          BY <3>2, <4>2, <4>3, <4>4, BelowTransitive
        <4> QED BY <3>1, <3>2, <4>1, <4>5 DEF SyncOK, AllBelow, DiskBelow
      <3>6. syncPc'[p] = "write" =>
              AllBelow(p, answer[p])' /\ Below(answer[p], kind[p], lib)'
        BY <2>2, <3>1, <3>2 DEF SyncOK, AllBelow, DiskBelow
      <3> QED BY <3>1, <3>3, <3>4, <3>5, <3>6 DEF SyncOK
    <2> QED BY <2>3, <2>4, <2>5 DEF Ordered
  <1>2. ASSUME UNCHANGED << lib, cache, metadata, syncVars >>
        PROVE  Ordered'
    BY <1>2 DEF Ordered, Alone, DiskOK, DiskBelow, ETagBehind, Usable, SyncOK,
       Syncing, LastQuery, AllBelow, BodyFor, Below, syncVars
  <1>3. ASSUME NEW p \in Clis, StartAsync(p)
        PROVE  Ordered'
    <2>1. \A q \in Clis : syncPc[q] = "idle"
      BY <1>3 DEF StartAsync
    <2>2. \A q \in Clis : syncPc'[q] = IF q = p THEN "auth" ELSE "idle"
      BY <1>3, <2>1 DEF StartAsync, ThreatTypeOK
    <2>3. Alone' /\ \A q \in Clis : SyncOK(q)'
      BY <2>2 DEF Alone, SyncOK, Syncing, LastQuery
    <2>4. DiskOK'
      BY <1>3 DEF Ordered, DiskOK, DiskBelow, ETagBehind, Usable, Below,
         StartAsync
    <2> QED BY <2>3, <2>4 DEF Ordered
  <1>4. ASSUME NEW p \in Clis, StopSync(p), UNCHANGED << lib, cache, metadata >>
        PROVE  Ordered'
    <2>1. \A q \in Clis : syncPc'[q] = IF q = p THEN "idle" ELSE syncPc[q]
      BY <1>4 DEF StopSync, ThreatTypeOK
    <2>2. Alone'
      BY <2>1 DEF Ordered, Alone
    <2>3. DiskOK'
      BY <1>4 DEF Ordered, DiskOK, DiskBelow, ETagBehind, Usable, Below
    <2>4. SyncOK(p)'
      BY <2>1 DEF SyncOK, Syncing, LastQuery
    <2>5. ASSUME NEW q \in Clis \ {p}
          PROVE  SyncOK(q)'
      <3>1. /\ syncPc'[q] = syncPc[q] /\ kind'[q] = kind[q]
            /\ meta'[q] = meta[q] /\ hashesRead'[q] = hashesRead[q]
            /\ answer'[q] = answer[q]
        BY <1>4 DEF StopSync, ThreatTypeOK
      <3>2. SyncOK(q)
        BY DEF Ordered
      <3> QED BY <1>4, <3>1, <3>2
              DEF SyncOK, Syncing, LastQuery, AllBelow, DiskBelow, ETagBehind,
                  Usable, BodyFor, Below
    <2> QED BY <2>2, <2>3, <2>4, <2>5 DEF Ordered
  <1>5. ASSUME NEW p \in Clis, Exit(p) \/ GiveUp(p) \/ WriteMetadataFails(p)
        PROVE  Ordered'
    BY <1>4, <1>5 DEF Exit, GiveUp, WriteMetadataFails
  <1>6. ASSUME UNCHANGED << lib, cache, metadata >>
        PROVE  DiskOK'
    BY <1>6 DEF Ordered, DiskOK, DiskBelow, ETagBehind, Usable, Below
  <1>7. ASSUME NEW p \in Clis, LoadMetadata(p)
        PROVE  Ordered'
    <2>1. /\ syncPc[p] = "auth" /\ syncPc'[p] = "fetch" /\ kind'[p] = "ioc"
          /\ \A q \in Clis \ {p} : syncPc'[q] = syncPc[q]
          /\ meta'[p] = IF metadata = NoBody THEN NoETags ELSE metadata.etags
          /\ UNCHANGED << lib, cache, metadata >>
      BY <1>7 DEF LoadMetadata, ThreatTypeOK
    <2>2. \A k \in Kinds : /\ Below(meta'[p][k], k, lib)
                           /\ Usable(k) => Below(meta'[p][k], k, cache[k])
      BY <2>1, NoETagsFact, BelowNone
         DEF Ordered, DiskOK, DiskBelow, ETagBehind
    <2>3. SyncOK(p)'
      <3>1. \A k \in Kinds : Below(meta'[p][k], k, lib')
        BY <2>1, <2>2
      <3>2. ETagBehind(meta[p])'
        BY <2>1, <2>2 DEF ETagBehind, Usable
      <3>3. ~LastQuery(p)'
        BY <2>1 DEF LastQuery
      <3> QED BY <2>1, <3>1, <3>2, <3>3 DEF SyncOK, Below
    <2> QED BY <1>6, <2>1, <2>3, OneSyncer DEF Ordered
  <1>8. ASSUME NEW p \in Clis, ReadHashes(p)
        PROVE  Ordered'
    <2>1. /\ syncPc[p] = "fetch" /\ kind[p] = "ioc"
          /\ syncPc'[p] = "domains" /\ kind'[p] = "ioc"
          /\ hashesRead'[p] = lib["hashes"]
          /\ \A q \in Clis \ {p} : syncPc'[q] = syncPc[q]
          /\ UNCHANGED << lib, cache, metadata, meta >>
      BY <1>8 DEF ReadHashes, ThreatTypeOK
    <2>2. lib["hashes"] \in Nat
      BY DEF ThreatTypeOK, Tables
    <2>3. ASSUME NEW b, Below(b, "ioc", lib)
          PROVE  Below(b, "ioc", BodyFor(p)')
      <3>1. \A t \in {"hashes", "domains"} : BodyFor(p)'[t] = lib[t]
        BY <2>1 DEF BodyFor
      <3> QED BY <2>3, <3>1 DEF Below
    <2>4. /\ SyncOK(p) /\ Syncing(p)
          /\ DiskBelow("ioc", lib) /\ Below(meta[p]["ioc"], "ioc", lib)
      BY <2>1 DEF Ordered, DiskOK, SyncOK, Syncing
    <2>5. AllBelow(p, BodyFor(p))'
      BY <2>1, <2>3, <2>4 DEF AllBelow, DiskBelow
    <2>6. SyncOK(p)'
      BY <2>1, <2>2, <2>4, <2>5 DEF SyncOK, ETagBehind, Usable, Below
    <2> QED BY <1>6, <2>1, <2>6, OneSyncer DEF Ordered
  <1>9. ASSUME NEW p \in Clis,
               NotModified(p) \/ FetchFails(p) \/ WriteCacheFails(p)
        PROVE  Ordered'
    <2>1. /\ Syncing(p) /\ GoOn(p)
          /\ UNCHANGED << lib, cache, metadata, meta >>
      BY <1>9 DEF NotModified, FetchFails, WriteCacheFails, Syncing, LastQuery
    <2>2. SyncOK(p)
      BY DEF Ordered
    <2>3. /\ ETagBehind(meta[p])'
          /\ \A k \in Kinds : Below(meta'[p][k], k, lib)
      BY <2>1, <2>2 DEF SyncOK, ETagBehind, Usable, Below
    <2> QED BY <1>6, <2>1, <2>3, GoOnOrdered DEF Ordered
  <1>10. ASSUME NEW p \in Clis, Modified(p)
         PROVE  Ordered'
    <2>1. /\ LastQuery(p) /\ syncPc'[p] = "write" /\ kind'[p] = kind[p]
          /\ answer'[p] = BodyFor(p)
          /\ \A q \in Clis \ {p} : syncPc'[q] = syncPc[q]
          /\ UNCHANGED << lib, cache, metadata, meta >>
      BY <1>10 DEF Modified, ThreatTypeOK
    <2>2. SyncOK(p) /\ Syncing(p)
      BY <2>1, BodyForFacts DEF Ordered
    <2>3. AllBelow(p, answer[p])'
      BY <2>1, <2>2 DEF SyncOK, AllBelow, DiskBelow, Below
    <2>4. kind[p] = "ioc" => syncPc[p] = "domains"
      BY <2>1 DEF LastQuery
    <2>5. \A t \in TablesOf(kind[p]) : lib[t] \in Nat
      BY DEF ThreatTypeOK
    <2>6. Below(BodyFor(p), kind[p], lib)
      BY <2>1, <2>2, <2>4, <2>5, BodyForFacts DEF Below, SyncOK, ThreatTypeOK
    <2>7. SyncOK(p)'
      BY <2>1, <2>2, <2>3, <2>6
         DEF SyncOK, ETagBehind, Usable, Below, LastQuery, Syncing
    <2>8. syncPc[p] # "idle"
      BY <2>2 DEF Syncing
    <2> QED BY <1>6, <2>1, <2>7, <2>8, OneSyncer DEF Ordered
  <1>11. ASSUME NEW p \in Clis, WriteCache(p)
         PROVE  Ordered'
    <2> DEFINE K == kind[p]
               b == answer[p]
    <2>1. /\ syncPc[p] = "write" /\ K \in Kinds /\ b \in Bodies(K)
          /\ cache' = [cache EXCEPT ![K] = Truncated(b)]
          /\ meta'[p] = [meta[p] EXCEPT ![K] = b]
          /\ GoOn(p) /\ UNCHANGED << lib, metadata >>
      BY <1>11 DEF WriteCache, ThreatTypeOK, KindFits
    <2>2. /\ cache'[K] \in {b, Corrupt}
          /\ \A k \in Kinds \ {K} : cache'[k] = cache[k]
          /\ meta'[p][K] = b
          /\ \A k \in Kinds \ {K} : meta'[p][k] = meta[p][k]
      BY <2>1 DEF Truncated, ThreatTypeOK, ETags
    <2>3. SyncOK(p) /\ Syncing(p)
      BY <2>1 DEF Ordered, Syncing
    <2>4. Below(b, K, lib) /\ Below(b, K, b) /\ Below(Corrupt, K, lib)
      BY <2>1, <2>3, BelowReflexive, BelowNone DEF SyncOK
    <2>5. metadata # NoBody => Below(metadata.etags[K], K, b)
      BY <2>1, <2>3 DEF SyncOK, AllBelow, DiskBelow
    <2>6. Corrupt \notin Bodies(K)
      BY <2>1, NotBodies
    <2>7. ASSUME NEW k \in Kinds
          PROVE  /\ Below(cache'[k], k, lib)
                 /\ metadata # NoBody =>
                      /\ Below(metadata.etags[k], k, lib)
                      /\ cache'[k] \in Bodies(k) =>
                           Below(metadata.etags[k], k, cache'[k])
                 /\ Below(meta'[p][k], k, lib)
                 /\ cache'[k] \in Bodies(k) => Below(meta'[p][k], k, cache'[k])
      <3>1. /\ Below(cache[k], k, lib)
            /\ metadata # NoBody =>
                 /\ Below(metadata.etags[k], k, lib)
                 /\ cache[k] \in Bodies(k) =>
                      Below(metadata.etags[k], k, cache[k])
            /\ Below(meta[p][k], k, lib)
            /\ cache[k] \in Bodies(k) => Below(meta[p][k], k, cache[k])
        BY <2>3 DEF Ordered, DiskOK, DiskBelow, ETagBehind, Usable, SyncOK
      <3>2. CASE k = K
        BY <2>2, <2>4, <2>5, <2>6, <3>1, <3>2
      <3>3. CASE k # K
        BY <2>2, <3>1, <3>3
      <3> QED BY <3>2, <3>3
    <2>8. DiskOK'
      BY <2>1, <2>7 DEF DiskOK, DiskBelow, ETagBehind, Usable, Below
    <2>9. /\ ETagBehind(meta[p])'
          /\ \A k \in Kinds : Below(meta'[p][k], k, lib)
      BY <2>7 DEF ETagBehind, Usable, Below
    <2> QED BY <2>1, <2>3, <2>8, <2>9, GoOnOrdered DEF Ordered
  <1>12. ASSUME NEW p \in Clis, WriteMetadata(p)
         PROVE  Ordered'
    <2>1. /\ syncPc[p] = "meta" /\ syncPc'[p] = "idle"
          /\ \A q \in Clis \ {p} : syncPc'[q] = syncPc[q]
          /\ metadata'.etags = meta[p] /\ UNCHANGED << lib, cache >>
      BY <1>12 DEF WriteMetadata, StopSync, ThreatTypeOK
    <2>2. SyncOK(p) /\ Syncing(p) /\ DiskOK
      BY <2>1 DEF Ordered, Syncing
    <2>3. DiskOK'
      BY <2>1, <2>2 DEF DiskOK, DiskBelow, ETagBehind, Usable, SyncOK, Below
    <2>4. SyncOK(p)'
      BY <2>1 DEF SyncOK, Syncing, LastQuery
    <2> QED BY <2>1, <2>3, <2>4, OneSyncer DEF Ordered
  <1>13. ASSUME NEW p \in Clis, RemoveCorrupt(p)
         PROVE  Ordered'
    <2>1. /\ cache'["ioc"] = NoBody /\ cache'["yara"] = cache["yara"]
          /\ UNCHANGED << lib, metadata, syncVars >>
      BY <1>13 DEF RemoveCorrupt, ThreatTypeOK
    <2>2. \A k \in Kinds : \A c : Below(cache[k], k, c) => Below(cache'[k], k, c)
      BY <2>1, BelowNone
    <2>3. \A k \in Kinds : Usable(k)' => Usable(k) /\ cache'[k] = cache[k]
      BY <2>1, NotBodies DEF Usable
    <2>4. DiskOK'
      BY <2>1, <2>2, <2>3 DEF Ordered, DiskOK, DiskBelow, ETagBehind, Below
    <2>5. Alone'
      BY <2>1 DEF Ordered, Alone, syncVars
    <2>6. ASSUME NEW q \in Clis
          PROVE  SyncOK(q)'
      <3>1. SyncOK(q) /\ kind[q] \in Kinds
        BY DEF Ordered, ThreatTypeOK
      <3>2. ETagBehind(meta[q]) => ETagBehind(meta[q])'
        BY <2>1, <2>3 DEF ETagBehind, Below, syncVars
      <3>3. BodyFor(q)' = BodyFor(q)
        BY <2>1 DEF BodyFor, syncVars
      <3>4. \A c : AllBelow(q, c) => DiskBelow(kind[q], c)' /\ AllBelow(q, c)
        BY <2>1, <2>2, <3>1 DEF AllBelow, DiskBelow, Below, syncVars
      <3> QED BY <2>1, <3>1, <3>2, <3>3, <3>4
              DEF SyncOK, Syncing, LastQuery, AllBelow, Below, syncVars
    <2> QED BY <2>4, <2>5, <2>6 DEF Ordered
  <1>14. CASE ReleaseTool \/ Install \/ UNCHANGED threatVars
    BY <1>2, <1>14 DEF ReleaseTool, Install, threatVars
  <1>15. ASSUME NEW p \in Clis, CheckMetadata(p) \/ ReadCache(p)
         PROVE  Ordered'
    BY <1>2, <1>15 DEF CheckMetadata, ReadCache
  <1> QED BY <1>1, <1>3, <1>5, <1>7, <1>8, <1>9, <1>10, <1>11, <1>12, <1>13,
             <1>14, <1>15 DEF ThreatNext

-----------------------------------------------------------------------------
(* The theorems. *)
LEMMA OverlapStays == [ThreatNext]_threatVars /\ overlapped \in BOOLEAN => (overlapped => overlapped')
  BY DEF ThreatNext, threatVars, Ingest, ReleaseTool, Install, StartAsync, Exit, GiveUp,
     LoadMetadata, ReadHashes, NotModified, Modified, FetchFails, WriteCache,
     WriteCacheFails, WriteMetadata, WriteMetadataFails, CheckMetadata,
     ReadCache, RemoveCorrupt

THEOREM ThreatInvariance == ThreatSpec => []ThreatIInv
  <1>1. ThreatInit => ThreatIInv
    BY ThreatInitTypes, ThreatInitOrdered DEF ThreatIInv
  <1>2. ThreatIInv /\ [ThreatNext]_threatVars => ThreatIInv'
    BY ThreatStepTypes, ThreatStepOrdered, OverlapStays DEF ThreatIInv, ThreatTypeOK
  <1> QED BY <1>1, <1>2, PTL DEF ThreatSpec

(* Every variable keeps to its type: ETags and bodies to the file they are of,
   for any number of commands. *)
THEOREM ThreatTypes == ThreatSpec => []ThreatTypeOK
  <1>1. ThreatIInv => ThreatTypeOK
    BY DEF ThreatIInv
  <1> QED BY <1>1, ThreatInvariance, PTL

(* A 304 of get_ioc or get_yara means that the cache has what the service
   has, however many commands were run, and killed, one after the other. *)
THEOREM CacheCurrent == ThreatSpec => []NotModifiedMeansCached
  <1>1. ThreatIInv => NotModifiedMeansCached
    <2> SUFFICES ASSUME ThreatIInv, NEW p \in Clis, ~overlapped, LastQuery(p),
                        BodyFor(p) = meta[p][kind[p]], Usable(kind[p])
                 PROVE  cache[kind[p]] = BodyFor(p)
      BY DEF NotModifiedMeansCached
    <2>1. kind[p] \in Kinds /\ SyncOK(p)
      BY DEF ThreatIInv, ThreatTypeOK, Ordered
    <2>2. BodyFor(p) \in Bodies(kind[p]) /\ Syncing(p)
      BY BodyForFacts DEF ThreatIInv
    <2>3. Below(cache[kind[p]], kind[p], BodyFor(p))
      BY <2>1 DEF SyncOK, AllBelow, DiskBelow
    <2>4. Below(BodyFor(p), kind[p], cache[kind[p]])
      BY <2>1, <2>2 DEF SyncOK, ETagBehind
    <2> QED BY <2>1, <2>2, <2>3, <2>4, BelowAntisymmetric DEF Usable
  <1> QED BY <1>1, ThreatInvariance, PTL

(* While syncs do not overlap, no file of the cache is replaced by one built
   from older tables: the body a syncer writes was read after everything on
   disk had been written. *)
THEOREM NeverBack == ThreatSpec => CacheNeverGoesBack
  <1> DEFINE Good == \A k \in Kinds :
               ~overlapped /\ Usable(k) /\ Usable(k)' => NotNewer(cache[k], cache'[k])
  <1>1. ASSUME ThreatIInv, [ThreatNext]_threatVars PROVE [Good]_threatVars
    <2> SUFFICES ASSUME NEW k \in Kinds, ~overlapped, Usable(k), Usable(k)'
                 PROVE  NotNewer(cache[k], cache'[k])
      OBVIOUS
    <2>1. \A t \in DOMAIN cache[k] : t \in TablesOf(k)
      BY DEF Usable, Bodies
    <2>2. NotNewer(cache[k], cache[k])
      BY <2>1, KindFacts, BelowReflexive DEF NotNewer, Usable, Below
    <2>3. CASE cache' = cache
      BY <2>2, <2>3
    <2>4. ASSUME NEW p \in Clis, RemoveCorrupt(p)
          PROVE  NotNewer(cache[k], cache'[k])
      <3>1. cache'["ioc"] = NoBody /\ cache'["yara"] = cache["yara"]
        BY <1>1, <2>4, KindFacts DEF RemoveCorrupt, ThreatIInv, ThreatTypeOK
      <3> QED BY <2>2, <3>1, KindFacts, NotBodies DEF Usable
    <2>5. ASSUME NEW p \in Clis, WriteCache(p)
          PROVE  NotNewer(cache[k], cache'[k])
      <3>1. /\ kind[p] \in Kinds
            /\ cache'[kind[p]] \in {answer[p], Corrupt}
            /\ \A j \in Kinds \ {kind[p]} : cache'[j] = cache[j]
        BY <1>1, <2>5 DEF WriteCache, Truncated, ThreatIInv, ThreatTypeOK
      <3>2. Below(cache[kind[p]], kind[p], answer[p])
        BY <1>1, <2>5 DEF WriteCache, ThreatIInv, Ordered, SyncOK, AllBelow, DiskBelow
      <3>3. CASE k = kind[p]
        BY <2>1, <3>1, <3>2, <3>3, NotBodies DEF Usable, NotNewer, Below
      <3>4. CASE k # kind[p]
        BY <2>2, <3>1, <3>4
      <3> QED BY <3>3, <3>4
    <2>6. cache' = cache \/ \E p \in Clis : RemoveCorrupt(p) \/ WriteCache(p)
      BY <1>1 DEF ThreatNext, threatVars, Ingest, ReleaseTool, Install, StartAsync, Exit, GiveUp,
         LoadMetadata, ReadHashes, NotModified, Modified, FetchFails,
         WriteCacheFails, WriteMetadata, WriteMetadataFails, CheckMetadata,
         ReadCache
    <2> QED BY <2>3, <2>4, <2>5, <2>6
  <1> QED BY <1>1, ThreatInvariance, PTL DEF ThreatSpec, CacheNeverGoesBack
-----------------------------------------------------------------------------
(***************************************************************************)
(* The entropy tracker: a request is reported exactly when the samples that*)
(* its destination's window should have average above the threshold.       *)
(***************************************************************************)

(* Sums.  Total(f) takes the elements of f's domain in the order in which  *)
(* CHOOSE finds them; the order does not matter.                           *)

\* A set of natural numbers that is not empty has a least one.
LEMMA LeastNat ==
  ASSUME NEW T \in SUBSET Nat, T # {}
  PROVE  \E n \in T : \A m \in T : n <= m
  <1>1. PICK n \in T : \A m \in T : ~(<< m, n >> \in OpToRel(<, Nat))
    BY NatLessThanWellFounded, WFMin
  <1>2. \A m \in T : ~(m < n)
    BY <1>1 DEF OpToRel
  <1> QED BY <1>2

\* The element that CHOOSE takes.
First(s) == CHOOSE x \in s : TRUE

\* g has the sums of f over the subsets of D.
Sums(g, f, D) ==
  g = [s \in SUBSET D |->
         IF s = {} THEN 0 ELSE f[First(s)] + g[s \ {First(s)}]]

\* The subsets of at most n elements.
UpTo(D, n) == {s \in SUBSET D : Cardinality(s) <= n}

\* The same, up to a size.
SumsUpTo(g, f, D, n) ==
  g = [s \in UpTo(D, n) |->
         IF s = {} THEN 0 ELSE f[First(s)] + g[s \ {First(s)}]]

\* A subset without one of its elements.
LEMMA RestSmaller ==
  ASSUME NEW D, IsFiniteSet(D), NEW s \in SUBSET D, NEW x \in s
  PROVE  /\ s \ {x} \in SUBSET D
         /\ IsFiniteSet(s)
         /\ Cardinality(s) \in Nat \ {0}
         /\ Cardinality(s \ {x}) = Cardinality(s) - 1
  <1>1. IsFiniteSet(s)
    BY FS_Subset
  <1>2. Cardinality(s) \in Nat
    BY <1>1, FS_CardinalityType
  <1>3. Cardinality(s \ {x}) = Cardinality(s) - 1
    BY <1>1, FS_RemoveElement
  <1>4. Cardinality(s \ {x}) \in Nat
    BY <1>1, FS_Subset, FS_CardinalityType
  <1> QED BY <1>1, <1>2, <1>3, <1>4

\* It is one of the set.
LEMMA FirstIn ==
  ASSUME NEW s, s # {}
  PROVE  First(s) \in s
  BY DEF First

\* There are such sums: they can be had one size of the subsets at a time.
LEMMA SumsExist ==
  ASSUME NEW D, IsFiniteSet(D), NEW f
  PROVE  \E g : Sums(g, f, D)
  <1> DEFINE T == {n \in Nat : ~\E g : SumsUpTo(g, f, D, n)}
  <1>1. T = {}
    <2> SUFFICES ASSUME T # {} PROVE FALSE
      OBVIOUS
    <2>1. PICK k \in T : \A m \in T : k <= m
      <3> HIDE DEF T
      <3>1. T \in SUBSET Nat
        BY DEF T
      <3> QED BY <3>1, LeastNat
    <2>2. k \in Nat /\ ~\E g : SumsUpTo(g, f, D, k)
      OBVIOUS
    <2>3. \E g : SumsUpTo(g, f, D, k)
      <3>1. CASE k = 0
        <4> DEFINE g == [s \in UpTo(D, 0) |-> 0]
        <4>1. \A s \in UpTo(D, 0) : s = {}
          <5> SUFFICES ASSUME NEW s \in SUBSET D, s # {}
                       PROVE  ~(Cardinality(s) <= 0)
            BY DEF UpTo
          <5>1. PICK x \in s : TRUE
            OBVIOUS
          <5>2. Cardinality(s) \in Nat \ {0}
            BY <5>1, RestSmaller
          <5> QED BY <5>2
        <4>2. SumsUpTo(g, f, D, 0)
          BY <4>1 DEF SumsUpTo
        <4> QED BY <3>1, <4>2
      <3>2. CASE k # 0
        <4>1. k - 1 \in Nat /\ k - 1 \notin T
          BY <2>1, <2>2, <3>2
        <4>2. PICK g : SumsUpTo(g, f, D, k - 1)
          BY <4>1
        <4> DEFINE S(h, s) == IF s = {} THEN 0
                              ELSE f[First(s)] + h[s \ {First(s)}]
                   e == [s \in UpTo(D, k) |->
                           IF s \in UpTo(D, k - 1) THEN g[s] ELSE S(g, s)]
        <4>3. \A s \in UpTo(D, k) : s # {} => s \ {First(s)} \in UpTo(D, k - 1)
          BY <2>2, FirstIn, RestSmaller DEF UpTo
        <4>4. UpTo(D, k - 1) \subseteq UpTo(D, k)
          <5>1. \A s \in SUBSET D : Cardinality(s) \in Nat
            BY FS_Subset, FS_CardinalityType
          <5> QED BY <5>1, <2>2 DEF UpTo
        <4>5. \A s \in UpTo(D, k - 1) : g[s] = S(g, s)
          BY <4>2 DEF SumsUpTo
        <4>6. \A s \in UpTo(D, k) : e[s] = S(g, s)
          BY <4>5
        <4>7. \A s \in UpTo(D, k) : s # {} => e[s \ {First(s)}] = g[s \ {First(s)}]
          BY <4>3, <4>4
        <4>8. \A s \in UpTo(D, k) : e[s] = S(e, s)
          BY <4>6, <4>7
        <4>9. e = [s \in UpTo(D, k) |-> e[s]]
          OBVIOUS
        <4> HIDE DEF e
        <4>10. SumsUpTo(e, f, D, k)
          BY <4>8, <4>9 DEF SumsUpTo
        <4> QED BY <4>10
      <3> QED BY <3>1, <3>2
    <2> QED BY <2>2, <2>3
  <1>2. Cardinality(D) \in Nat
    BY FS_CardinalityType
  <1>3. PICK g : SumsUpTo(g, f, D, Cardinality(D))
    BY <1>1, <1>2
  <1>4. UpTo(D, Cardinality(D)) = SUBSET D
    BY FS_Subset DEF UpTo
  <1> QED BY <1>3, <1>4 DEF Sums, SumsUpTo

\* What Total is.
LEMMA TotalIsSum ==
  ASSUME NEW f, IsFiniteSet(DOMAIN f)
  PROVE  \E g : Sums(g, f, DOMAIN f) /\ Total(f) = g[DOMAIN f]
  <1> DEFINE D == DOMAIN f
             g == CHOOSE g : g = [s \in SUBSET D |->
                    IF s = {} THEN 0
                    ELSE f[First(s)] + g[s \ {First(s)}]]
  <1>1. Sums(g, f, D)
    <2>1. PICK h : Sums(h, f, D)
      BY SumsExist
    <2> QED BY <2>1 DEF Sums
  <1>2. Total(f) = g[D]
    BY Zenon DEF Total, MapThenSumSet, MapThenFoldSet, First
  <1> QED BY <1>1, <1>2

\* Sums are natural numbers and count each element once, in any order.
LEMMA SumsFacts ==
  ASSUME NEW D, IsFiniteSet(D), NEW f, \A x \in D : f[x] \in Nat,
         NEW g, Sums(g, f, D)
  PROVE  /\ g[{}] = 0
         /\ \A s \in SUBSET D : g[s] \in Nat
         /\ \A s \in SUBSET D : \A x \in s : g[s] = f[x] + g[s \ {x}]
  <1> DEFINE OK(s) == g[s] \in Nat /\ \A x \in s : g[s] = f[x] + g[s \ {x}]
             T == {n \in Nat : \E s \in SUBSET D : Cardinality(s) = n /\ ~OK(s)}
  <1>1. g[{}] = 0
    BY DEF Sums
  <1>2. \A s \in SUBSET D : s # {} => g[s] = f[First(s)] + g[s \ {First(s)}]
    BY DEF Sums
  <1>3. T = {}
    <2> SUFFICES ASSUME T # {} PROVE FALSE
      OBVIOUS
    <2>1. PICK k \in T : \A m \in T : k <= m
      <3> HIDE DEF T
      <3>1. T \in SUBSET Nat
        BY DEF T
      <3> QED BY <3>1, LeastNat
    <2>2. k \in Nat
      OBVIOUS
    <2>3. PICK s \in SUBSET D : Cardinality(s) = k /\ ~OK(s)
      <3> HIDE DEF OK
      <3> QED OBVIOUS
    <2>4. ASSUME NEW t \in SUBSET D, Cardinality(t) < k
          PROVE  OK(t)
      <3> HIDE DEF OK
      <3>1. Cardinality(t) \in Nat /\ ~(k <= Cardinality(t))
        BY <2>2, <2>4, FS_Subset, FS_CardinalityType
      <3>2. Cardinality(t) \notin T
        <4> HIDE DEF T
        <4> QED BY <2>1, <3>1
      <3> QED BY <3>1, <3>2
    <2>5. OK(s)
      <3>1. CASE s = {}
        BY <3>1, <1>1
      <3>2. CASE s # {}
        <4> DEFINE y == First(s)
        <4>1. y \in s
          BY <3>2, FirstIn
        <4>2. \A x \in s : OK(s \ {x})
          <5> SUFFICES ASSUME NEW x \in s PROVE OK(s \ {x})
            OBVIOUS
          <5>1. s \ {x} \in SUBSET D /\ Cardinality(s \ {x}) < k
            BY <2>2, <2>3, RestSmaller
          <5> HIDE DEF OK
          <5> QED BY <5>1, <2>4
        <4>4. \A x \in s : g[s \ {x}] \in Nat
          BY <4>2
        <4>5. g[s] = f[y] + g[s \ {y}]
          BY <1>2, <3>2
        <4>6. ASSUME NEW x \in s
              PROVE  g[s] = f[x] + g[s \ {x}]
          <5>1. CASE x = y
            BY <5>1, <4>5
          <5>2. CASE x # y
            <6> DEFINE r == (s \ {y}) \ {x}
            <6>1. g[s \ {y}] = f[x] + g[r]
              BY <5>2, <4>1, <4>2
            <6>2. y \in s \ {x} /\ (s \ {x}) \ {y} = r
              BY <5>2, <4>1
            <6>3. g[s \ {x}] = f[y] + g[r]
              <7>1. OK(s \ {x})
                BY <4>2
              <7>2. g[s \ {x}] = f[y] + g[(s \ {x}) \ {y}]
                BY <7>1, <6>2
              <7> QED BY <7>2, <6>2
            <6>4. f[x] \in Nat /\ f[y] \in Nat
              BY <4>1
            <6>5. g[r] \in Nat
              <7>1. /\ s \ {y} \in SUBSET D
                    /\ Cardinality(s \ {y}) < k
                    /\ Cardinality(s \ {y}) \in Nat
                BY <2>2, <2>3, <4>1, RestSmaller
              <7>2. x \in s \ {y}
                BY <5>2
              <7>3. r \in SUBSET D /\ Cardinality(r) < k
                <8> HIDE DEF y, OK, T
                <8>1. /\ r \in SUBSET D
                      /\ Cardinality(r) = Cardinality(s \ {y}) - 1
                  BY <7>1, <7>2, RestSmaller
                <8> QED BY <7>1, <8>1, <2>2
              <7>4. OK(r)
                <8> HIDE DEF OK, r
                <8> QED BY <7>3, <2>4
              <7> QED BY <7>4
            <6> HIDE DEF r, y
            <6> QED BY <4>5, <6>1, <6>3, <6>4, <6>5
          <5> QED BY <5>1, <5>2
        <4> QED BY <4>1, <4>4, <4>5, <4>6
      <3> QED BY <3>1, <3>2
    <2> QED BY <2>3, <2>5
  <1>4. \A s \in SUBSET D : OK(s)
    <2> HIDE DEF OK
    <2>1. \A s \in SUBSET D : Cardinality(s) \in Nat
      BY FS_Subset, FS_CardinalityType
    <2> QED BY <1>3, <2>1
  <1> QED BY <1>1, <1>4

\* b numbers the terms of f as those of e.
Renumbers(b, f, e) ==
  /\ \A x \in DOMAIN f : f[x] \in Nat /\ b[x] \in DOMAIN e /\ e[b[x]] = f[x]
  /\ \A x, y \in DOMAIN f : b[x] = b[y] => x = y
  /\ \A z \in DOMAIN e : \E x \in DOMAIN f : b[x] = z

\* A sum stays the same when its terms are numbered otherwise.
LEMMA TotalRenumbered ==
  ASSUME NEW f, NEW e, NEW b, IsFiniteSet(DOMAIN f), IsFiniteSet(DOMAIN e),
         Renumbers(b, f, e)
  PROVE  Total(f) = Total(e)
  <1>0. /\ \A x \in DOMAIN f : f[x] \in Nat /\ b[x] \in DOMAIN e /\ e[b[x]] = f[x]
        /\ \A x, y \in DOMAIN f : b[x] = b[y] => x = y
        /\ \A z \in DOMAIN e : \E x \in DOMAIN f : b[x] = z
    BY DEF Renumbers
  <1>1. PICK g : Sums(g, f, DOMAIN f) /\ Total(f) = g[DOMAIN f]
    BY TotalIsSum
  <1>2. PICK h : Sums(h, e, DOMAIN e) /\ Total(e) = h[DOMAIN e]
    BY TotalIsSum
  <1>3. \A z \in DOMAIN e : e[z] \in Nat
    BY <1>0
  <1>4. /\ g[{}] = 0
        /\ \A s \in SUBSET DOMAIN f : \A x \in s : g[s] = f[x] + g[s \ {x}]
    <2>1. \A x \in DOMAIN f : f[x] \in Nat
      BY <1>0
    <2> QED BY <1>1, <2>1, SumsFacts
  <1>5. /\ h[{}] = 0
        /\ \A s \in SUBSET DOMAIN e : \A x \in s : h[s] = e[x] + h[s \ {x}]
    BY <1>2, <1>3, SumsFacts
  <1> DEFINE Im(s) == {b[x] : x \in s}
             OK(s) == g[s] = h[Im(s)]
             T == {n \in Nat : \E s \in SUBSET DOMAIN f :
                                 Cardinality(s) = n /\ ~OK(s)}
  <1>6. T = {}
    <2> SUFFICES ASSUME T # {} PROVE FALSE
      OBVIOUS
    <2>1. PICK k \in T : \A m \in T : k <= m
      <3> HIDE DEF T
      <3>1. T \in SUBSET Nat
        BY DEF T
      <3> QED BY <3>1, LeastNat
    <2>2. k \in Nat
      OBVIOUS
    <2>3. PICK s \in SUBSET DOMAIN f : Cardinality(s) = k /\ ~OK(s)
      <3> HIDE DEF OK
      <3> QED OBVIOUS
    <2>4. CASE s = {}
      <3>1. Im(s) = {}
        BY <2>4
      <3>2. g[s] = h[Im(s)]
        <4> HIDE DEF Im
        <4> QED BY <2>4, <3>1, <1>4, <1>5
      <3> QED BY <2>3, <3>2
    <2>5. CASE s # {}
      <3>1. PICK x \in s : TRUE
        BY <2>5
      <3>2. /\ s \ {x} \in SUBSET DOMAIN f
            /\ Cardinality(s \ {x}) \in Nat
            /\ Cardinality(s \ {x}) < k
        BY <2>2, <2>3, RestSmaller
      <3>3. OK(s \ {x})
        <4> HIDE DEF OK
        <4>1. Cardinality(s \ {x}) \notin T
          <5> HIDE DEF T
          <5> QED BY <2>1, <2>2, <3>2
        <4> QED BY <4>1, <3>2
      <3>4. Im(s \ {x}) = Im(s) \ {b[x]} /\ b[x] \in Im(s)
        BY <1>0
      <3>5. Im(s) \in SUBSET DOMAIN e
        BY <1>0
      <3>6. g[s] = f[x] + g[s \ {x}]
        BY <1>4
      <3>7. h[Im(s)] = e[b[x]] + h[Im(s) \ {b[x]}]
        <4> HIDE DEF Im
        <4> QED BY <1>5, <3>4, <3>5
      <3>8. e[b[x]] = f[x]
        BY <1>0
      <3>9. OK(s)
        <4> HIDE DEF Im
        <4> QED BY <3>3, <3>4, <3>6, <3>7, <3>8
      <3> QED BY <2>3, <3>9
    <2> QED BY <2>4, <2>5
  <1>7. OK(DOMAIN f)
    <2> HIDE DEF OK
    <2>1. Cardinality(DOMAIN f) \in Nat
      BY FS_CardinalityType
    <2> QED BY <1>6, <2>1
  <1>8. Im(DOMAIN f) = DOMAIN e
    BY <1>0
  <1> QED BY <1>1, <1>2, <1>7, <1>8

-----------------------------------------------------------------------------
(* The tracker's state.                                                    *)

\* lastSeen is the place of a destination's last scan.
LastOK ==
  /\ \A i \in 1 .. Len(scans) : i <= lastSeen[scans[i][1]]
  /\ \A h \in Hosts :
       /\ lastSeen[h] <= Len(scans)
       /\ lastSeen[h] # 0 => scans[lastSeen[h]][1] = h
       /\ window[h] # << >> => lastSeen[h] # 0

\* A destination was evicted only for others that were used after it, and the
\* tracker is full since.
EvictedOK ==
  \A h \in Hosts : lastSeen[h] # 0 /\ window[h] = << >> =>
    /\ Cardinality(Sessions) = MaxSessions
    /\ \A k \in Sessions : lastSeen[k] > lastSeen[h]

\* f numbers the elements of C in their order; s has the samples of w there.
Orders(f, w, C, s) ==
  /\ f \in [1 .. Len(w) -> C]
  /\ \A i, j \in 1 .. Len(w) : i < j => f[i] < f[j]
  /\ \A z \in C : \E i \in 1 .. Len(w) : f[i] = z
  /\ \A i \in 1 .. Len(w) : s[f[i]][2] = w[i]

\* f numbers the scans that a window covers.
Numbers(f, h) == Orders(f, window[h], Covered(h), scans)

\* The window of a session holds the samples of the scans it covers.
WindowOK == \A h \in Sessions : \E f : Numbers(f, h)

TrackerIInv ==
  /\ TrackerTypeOK
  /\ IsFiniteSet(Sessions)
  /\ LastOK
  /\ EvictedOK
  /\ WindowOK
  /\ ReportedExactly

\* The destinations scanned after h.
Since(h) == {scans[k][1] : k \in lastSeen[h] + 1 .. Len(scans)}

\* A session is what fewer than MaxSessions others were scanned after.
LEMMA SinceSession ==
  ASSUME TrackerIInv, NEW h \in Hosts, lastSeen[h] # 0
  PROVE  Cardinality(Since(h)) < MaxSessions <=> h \in Sessions
  <1>0. /\ lastSeen \in [Hosts -> Nat] /\ scans \in Seq(Hosts \X Samples)
        /\ Len(scans) \in Nat /\ MaxSessions \in Nat
        /\ IsFiniteSet(Sessions) /\ Cardinality(Sessions) \in Nat
        /\ Cardinality(Sessions) <= MaxSessions
    BY TrackerAssumption, FS_CardinalityType DEF TrackerIInv, TrackerTypeOK
  <1>1. IsFiniteSet(Since(h)) /\ Cardinality(Since(h)) \in Nat
    <2> DEFINE I == lastSeen[h] + 1 .. Len(scans)
               F == [k \in I |-> scans[k][1]]
    <2>1. IsFiniteSet(I)
      BY <1>0, FS_Interval
    <2>2. F \in Surjection(I, Since(h))
      BY DEF Surjection, Since
    <2>3. IsFiniteSet(Since(h))
      <3> HIDE DEF F, I
      <3> QED BY <2>1, <2>2, FS_Surjection
    <2> QED BY <2>3, FS_CardinalityType
  <1>2. \A k \in Since(h) : k \in Hosts /\ lastSeen[k] > lastSeen[h]
    <2> SUFFICES ASSUME NEW i \in lastSeen[h] + 1 .. Len(scans)
                 PROVE  /\ scans[i][1] \in Hosts
                        /\ lastSeen[scans[i][1]] > lastSeen[h]
      BY DEF Since
    <2>1. i \in 1 .. Len(scans)
      BY <1>0
    <2>2. scans[i] \in Hosts \X Samples
      BY <1>0, <2>1
    <2>3. i <= lastSeen[scans[i][1]]
      BY <2>1 DEF TrackerIInv, LastOK
    <2> QED BY <1>0, <2>2, <2>3
  <1>3. CASE h \in Sessions
    <2>1. Since(h) \subseteq Sessions \ {h}
      <3> SUFFICES ASSUME NEW k \in Since(h) PROVE k \in Sessions \ {h}
        OBVIOUS
      <3>1. k \in Hosts /\ lastSeen[k] > lastSeen[h] /\ lastSeen[k] # 0
        BY <1>0, <1>2
      <3>2. window[k] # << >>
        <4> SUFFICES ASSUME window[k] = << >> PROVE FALSE
          OBVIOUS
        <4>1. lastSeen[h] > lastSeen[k]
          BY <3>1, <1>3 DEF TrackerIInv, EvictedOK
        <4> QED BY <1>0, <3>1, <4>1
      <3> QED BY <1>0, <3>1, <3>2 DEF Sessions
    <2>2. /\ IsFiniteSet(Sessions \ {h})
          /\ Cardinality(Sessions \ {h}) = Cardinality(Sessions) - 1
      BY <1>0, <1>3, FS_RemoveElement
    <2>3. Cardinality(Since(h)) <= Cardinality(Sessions \ {h})
      BY <2>1, <2>2, FS_Subset
    <2> QED BY <1>0, <1>1, <1>3, <2>2, <2>3
  <1>4. CASE h \notin Sessions
    <2>1. /\ Cardinality(Sessions) = MaxSessions
          /\ \A k \in Sessions : lastSeen[k] > lastSeen[h]
      BY <1>4 DEF TrackerIInv, EvictedOK, Sessions
    <2>2. Sessions \subseteq Since(h)
      <3> SUFFICES ASSUME NEW k \in Sessions PROVE k \in Since(h)
        OBVIOUS
      <3>1. /\ k \in Hosts /\ lastSeen[k] # 0
            /\ lastSeen[k] <= Len(scans) /\ scans[lastSeen[k]][1] = k
        BY DEF Sessions, TrackerIInv, LastOK
      <3>2. lastSeen[k] \in lastSeen[h] + 1 .. Len(scans)
        BY <1>0, <2>1, <3>1
      <3> QED BY <3>1, <3>2 DEF Since
    <2>3. Cardinality(Sessions) <= Cardinality(Since(h))
      BY <1>1, <2>2, FS_Subset
    <2> QED BY <1>0, <1>1, <1>4, <2>1, <2>3
  <1> QED BY <1>3, <1>4

\* The session used for the last time before the others.
Oldest(o) == o \in Sessions /\ \A k \in Sessions : lastSeen[o] <= lastSeen[k]

\* Room is made by evicting the oldest session of a full tracker.
LEMMA RoomFacts ==
  ASSUME TrackerIInv, NEW h \in Hosts
  PROVE  \/ /\ MakeRoom(h) = window
            /\ h \in Sessions \/ Cardinality(Sessions) < MaxSessions
         \/ /\ h \notin Sessions
            /\ Cardinality(Sessions) = MaxSessions
            /\ \E o \in Sessions :
                 Oldest(o) /\ MakeRoom(h) = [window EXCEPT ![o] = << >>]
  <1>0. /\ lastSeen \in [Hosts -> Nat] /\ window \in [Hosts -> Seq(Samples)]
        /\ MaxSessions \in Nat \ {0}
        /\ IsFiniteSet(Sessions) /\ Cardinality(Sessions) \in Nat
        /\ Cardinality(Sessions) <= MaxSessions
    BY TrackerAssumption, FS_CardinalityType DEF TrackerIInv, TrackerTypeOK
  <1>1. CASE ~(window[h] = << >> /\ Cardinality(Sessions) >= MaxSessions)
    BY <1>0, <1>1 DEF MakeRoom, Sessions
  <1>2. CASE window[h] = << >> /\ Cardinality(Sessions) >= MaxSessions
    <2>1. Sessions # {}
      BY <1>0, <1>2, FS_EmptySet
    <2>2. \E o : Oldest(o)
      <3> DEFINE T == {lastSeen[k] : k \in Sessions}
      <3>1. T \in SUBSET Nat /\ T # {}
        BY <1>0, <2>1 DEF Sessions
      <3>2. PICK n \in T : \A m \in T : n <= m
        <4> HIDE DEF T
        <4> QED BY <3>1, LeastNat
      <3> QED BY <3>2 DEF Oldest
    <2> DEFINE o == CHOOSE k \in Sessions :
                      \A l \in Sessions : lastSeen[k] <= lastSeen[l]
    <2>3. Oldest(o)
      BY <2>2 DEF Oldest
    <2>4. MakeRoom(h) = [window EXCEPT ![o] = << >>]
      BY <1>2 DEF MakeRoom, EvictOldest
    <2>5. h \notin Sessions /\ Cardinality(Sessions) = MaxSessions
      BY <1>0, <1>2 DEF Sessions
    <2> QED BY <2>3, <2>4, <2>5 DEF Oldest
  <1> QED BY <1>1, <1>2

\* What a window becomes with one more sample.
Added(w, x) == Slide(Append(w, x))

\* The sample is put behind the newest ones, WindowSize in all.
LEMMA AddedFacts ==
  ASSUME NEW w \in Seq(Samples), Len(w) <= WindowSize, NEW x \in Samples
  PROVE  /\ Added(w, x) \in Seq(Samples)
         /\ Added(w, x) # << >>
         /\ Len(Added(w, x)) <= WindowSize
         /\ Len(w) < WindowSize =>
              /\ Len(Added(w, x)) = Len(w) + 1
              /\ \A i \in 1 .. Len(w) : Added(w, x)[i] = w[i]
         /\ Len(w) = WindowSize =>
              /\ Len(Added(w, x)) = Len(w)
              /\ \A i \in 1 .. Len(w) - 1 : Added(w, x)[i] = w[i + 1]
         /\ Added(w, x)[Len(Added(w, x))] = x
  <1> DEFINE a == Append(w, x)
             v == Added(w, x)
  <1>0. WindowSize \in Nat \ {0} /\ Len(w) \in Nat
    BY TrackerAssumption
  <1>1. /\ a \in Seq(Samples) /\ Len(a) = Len(w) + 1
        /\ a[Len(a)] = x /\ \A i \in 1 .. Len(w) : a[i] = w[i]
    OBVIOUS
  <1>2. CASE Len(w) < WindowSize
    <2>1. v = a
      BY <1>0, <1>1, <1>2 DEF Added, Slide
    <2> HIDE DEF a
    <2> QED BY <1>0, <1>1, <1>2, <2>1
  <1>3. CASE Len(w) = WindowSize
    <2>1. v = SubSeq(a, 2, Len(a))
      BY <1>0, <1>1, <1>3 DEF Added, Slide
    <2> HIDE DEF a
    <2>2. v \in Seq(Samples) /\ Len(v) = Len(w) /\ \A i \in 1 .. Len(w) : v[i] = a[i + 1]
      BY <1>0, <1>1, <2>1
    <2> QED BY <1>0, <1>1, <1>3, <2>2
  <1> QED BY <1>0, <1>2, <1>3

\* What a scan changes.
LEMMA ScanFacts ==
  ASSUME TrackerIInv, NEW h \in Hosts, NEW x \in Samples, Scan(h, x)
  PROVE  /\ Len(scans') = Len(scans) + 1
         /\ \A i \in 1 .. Len(scans) : scans'[i] = scans[i]
         /\ scans'[Len(scans) + 1] = << h, x >>
         /\ window'[h] = Added(window[h], x) /\ window'[h] # << >>
         /\ \A g \in Hosts \ {h} : window'[g] # << >> => window'[g] = window[g]
         /\ lastSeen' = [lastSeen EXCEPT ![h] = Len(scans) + 1]
         /\ TrackerTypeOK'
         /\ IsFiniteSet(Sessions')
         /\ EvictedOK'
  <1>0. /\ lastSeen \in [Hosts -> Nat] /\ window \in [Hosts -> Seq(Samples)]
        /\ lastSeen \in [Hosts -> 0 .. MaxScans]
        /\ \A g \in Hosts : Len(window[g]) <= WindowSize
        /\ MaxSessions \in Nat \ {0} /\ WindowSize \in Nat \ {0} /\ MaxScans \in Nat
        /\ scans \in Seq(Hosts \X Samples) /\ Len(scans) \in Nat
        /\ Len(scans) < MaxScans
        /\ IsFiniteSet(Sessions) /\ Cardinality(Sessions) \in Nat
        /\ Cardinality(Sessions) <= MaxSessions
    BY TrackerAssumption, FS_CardinalityType DEF TrackerIInv, TrackerTypeOK, Scan
  <1>1. /\ Len(scans') = Len(scans) + 1
        /\ \A i \in 1 .. Len(scans) : scans'[i] = scans[i]
        /\ scans'[Len(scans) + 1] = << h, x >>
        /\ scans' \in Seq(Hosts \X Samples)
    BY <1>0 DEF Scan
  <1> DEFINE v == Added(window[h], x)
             M == MakeRoom(h)
  <1>2. /\ M \in [Hosts -> Seq(Samples)] /\ M[h] = window[h]
        /\ \A g \in Hosts \ {h} : M[g] # << >> => M[g] = window[g]
    <2>1. << >> \in Seq(Samples)
      OBVIOUS
    <2> QED BY <1>0, <2>1, RoomFacts DEF Sessions
  <1>3. /\ v \in Seq(Samples) /\ v # << >> /\ Len(v) <= WindowSize
    BY <1>0, AddedFacts
  <1>4. window' = [M EXCEPT ![h] = v]
    BY <1>2 DEF Scan, Added
  <1>5. lastSeen' = [lastSeen EXCEPT ![h] = Len(scans) + 1]
    BY DEF Scan
  <1>6. /\ window' \in [Hosts -> Seq(Samples)]
        /\ \A g \in Hosts : Len(window'[g]) <= WindowSize
    <2> HIDE DEF M, v
    <2>1. ASSUME NEW g \in Hosts \ {h}
          PROVE  Len(window'[g]) <= WindowSize
      <3>1. window'[g] = M[g] /\ Len(<< >>) = 0
        BY <1>2, <1>4
      <3> QED BY <1>0, <1>2, <3>1
    <2> QED BY <1>2, <1>3, <1>4, <2>1
  <1>7. reported' \in BOOLEAN /\ lastSeen' \in [Hosts -> 0 .. MaxScans]
    BY <1>0, <1>5 DEF Scan
  <1>8. /\ window'[h] = v
        /\ \A g \in Hosts \ {h} : window'[g] = M[g]
    BY <1>2, <1>4
  <1>9. /\ IsFiniteSet(Sessions') /\ Cardinality(Sessions') <= MaxSessions
        /\ EvictedOK'
    <2> HIDE DEF v, M
    <2>0. Sessions' = {g \in Hosts : window'[g] # << >>} /\ h \in Sessions'
      BY <1>3, <1>8 DEF Sessions
    <2>1. CASE M = window /\ (h \in Sessions \/ Cardinality(Sessions) < MaxSessions)
      <3>1. Sessions' = Sessions \cup {h}
        BY <1>3, <1>8, <2>0, <2>1 DEF Sessions
      <3>2. /\ IsFiniteSet(Sessions') /\ Cardinality(Sessions') <= MaxSessions
            /\ Cardinality(Sessions) = MaxSessions => Sessions' = Sessions
        <4>1. CASE h \in Sessions
          BY <4>1, <3>1, <1>0
        <4>2. CASE h \notin Sessions
          <5>1. /\ IsFiniteSet(Sessions \cup {h})
                /\ Cardinality(Sessions \cup {h}) = Cardinality(Sessions) + 1
            BY <1>0, <4>2, FS_AddElement
          <5> QED BY <1>0, <2>1, <3>1, <4>2, <5>1
        <4> QED BY <4>1, <4>2
      <3>3. EvictedOK'
        <4> SUFFICES ASSUME NEW g \in Hosts, lastSeen'[g] # 0, window'[g] = << >>
                     PROVE  /\ Cardinality(Sessions') = MaxSessions
                            /\ \A k \in Sessions' : lastSeen'[k] > lastSeen'[g]
          BY DEF EvictedOK
        <4>1. g # h /\ window[g] = << >> /\ lastSeen'[g] = lastSeen[g]
          BY <1>0, <1>3, <1>5, <1>8, <2>1
        <4>2. /\ Cardinality(Sessions) = MaxSessions
              /\ \A k \in Sessions : lastSeen[k] > lastSeen[g]
          BY <4>1 DEF TrackerIInv, EvictedOK
        <4>3. lastSeen[g] <= Len(scans)
          BY DEF TrackerIInv, LastOK
        <4>4. \A k \in Sessions' : lastSeen'[k] > lastSeen[g]
          <5> SUFFICES ASSUME NEW k \in Sessions'
                       PROVE  lastSeen'[k] > lastSeen[g]
            OBVIOUS
          <5>1. CASE k = h
            BY <1>0, <1>5, <4>3, <5>1
          <5>2. CASE k # h
            <6>1. k \in Sessions /\ k \in Hosts
              BY <3>1, <5>2 DEF Sessions
            <6> QED BY <1>0, <1>5, <4>2, <5>2, <6>1
          <5> QED BY <5>1, <5>2
        <4> QED BY <3>2, <4>1, <4>2, <4>4
      <3> QED BY <3>2, <3>3
    <2>2. ASSUME h \notin Sessions, Cardinality(Sessions) = MaxSessions,
                 NEW o \in Sessions, Oldest(o),
                 M = [window EXCEPT ![o] = << >>]
          PROVE  /\ IsFiniteSet(Sessions') /\ Cardinality(Sessions') <= MaxSessions
                 /\ EvictedOK'
      <3>0. o \in Hosts /\ o # h
        BY <2>2 DEF Sessions
      <3>1. Sessions' = (Sessions \ {o}) \cup {h}
        BY <1>0, <1>3, <1>8, <2>0, <2>2, <3>0 DEF Sessions
      <3>2. /\ IsFiniteSet(Sessions') /\ Cardinality(Sessions') = MaxSessions
        <4>1. /\ IsFiniteSet(Sessions \ {o})
              /\ Cardinality(Sessions \ {o}) = MaxSessions - 1
          BY <1>0, <2>2, FS_RemoveElement
        <4>2. /\ IsFiniteSet((Sessions \ {o}) \cup {h})
              /\ Cardinality((Sessions \ {o}) \cup {h}) = MaxSessions - 1 + 1
          BY <2>2, <4>1, FS_AddElement
        <4> QED BY <1>0, <3>1, <4>2
      <3>3. EvictedOK'
        <4> SUFFICES ASSUME NEW g \in Hosts, lastSeen'[g] # 0, window'[g] = << >>,
                            NEW k \in Sessions'
                     PROVE  lastSeen'[k] > lastSeen'[g]
          BY <3>2 DEF EvictedOK
        <4>1. g # h /\ lastSeen'[g] = lastSeen[g] /\ lastSeen[g] <= Len(scans)
          BY <1>0, <1>3, <1>5, <1>8 DEF TrackerIInv, LastOK
        <4>2. CASE k = h
          BY <1>0, <1>5, <4>1, <4>2
        <4>3. CASE k # h
          <5>1. k \in Sessions /\ k # o /\ k \in Hosts /\ lastSeen'[k] = lastSeen[k]
            BY <1>0, <1>5, <3>1, <4>3 DEF Sessions
          <5>2. CASE g = o
            <6>1. lastSeen[o] <= lastSeen[k]
              BY <2>2, <5>1 DEF Oldest
            <6>2. lastSeen[o] # lastSeen[k]
              <7>1. scans[lastSeen[o]][1] = o /\ scans[lastSeen[k]][1] = k
                BY <3>0, <5>1 DEF TrackerIInv, LastOK, Sessions
              <7> QED BY <5>1, <7>1
            <6> QED BY <1>0, <3>0, <4>1, <5>1, <5>2, <6>1, <6>2
          <5>3. CASE g # o
            <6>1. window[g] = << >> /\ lastSeen[g] # 0
              BY <1>0, <1>8, <2>2, <4>1, <5>3
            <6> QED BY <4>1, <5>1, <6>1 DEF TrackerIInv, EvictedOK
          <5> QED BY <5>2, <5>3
        <4> QED BY <4>2, <4>3
      <3> QED BY <1>0, <3>2, <3>3
    <2> QED BY <2>1, <2>2, RoomFacts DEF M
  <1>10. TrackerTypeOK'
    BY <1>1, <1>6, <1>7, <1>9 DEF TrackerTypeOK
  <1> QED BY <1>1, <1>2, <1>3, <1>5, <1>8, <1>9, <1>10

\* The scans of h from i on.
From(h, i) == {j \in ScansOf(h) : j >= i}

\* They are finitely many.
LEMMA FromFacts ==
  ASSUME NEW h, NEW i, Len(scans) \in Nat
  PROVE  IsFiniteSet(From(h, i)) /\ Cardinality(From(h, i)) \in Nat
  <1>1. From(h, i) \in SUBSET (1 .. Len(scans)) /\ IsFiniteSet(1 .. Len(scans))
    BY FS_Interval DEF From, ScansOf
  <1>2. IsFiniteSet(From(h, i))
    BY <1>1, FS_Subset
  <1> QED BY <1>2, FS_CardinalityType

\* A window that covers a scan covers the later ones of its destination.
LEMMA CoveredUp ==
  ASSUME NEW h, Len(scans) \in Nat, NEW i \in Covered(h), NEW j \in ScansOf(h),
         i <= j
  PROVE  j \in Covered(h)
  <1>0. WindowSize \in Nat /\ i \in Nat /\ j \in Nat
    BY TrackerAssumption DEF Covered, ScansOf
  <1>1. Unbroken(h, j)
    <2> SUFFICES ASSUME NEW a \in ScansOf(h), NEW b \in ScansOf(h), j <= a,
                        a < b, ScansOf(h) \cap (a + 1 .. b - 1) = {}
                 PROVE  Cardinality({scans[k][1] : k \in a + 1 .. b - 1})
                          < MaxSessions
      BY DEF Unbroken
    <2>1. i <= a
      BY <1>0 DEF ScansOf
    <2> QED BY <2>1 DEF Covered, Unbroken
  <1>2. Cardinality(From(h, j)) <= WindowSize
    <2>1. From(h, j) \in SUBSET From(h, i)
      BY <1>0 DEF From, ScansOf
    <2>2. Cardinality(From(h, j)) <= Cardinality(From(h, i))
      BY <2>1, FromFacts, FS_Subset
    <2>3. Cardinality(From(h, i)) <= WindowSize
      BY DEF Covered, From
    <2> QED BY <1>0, <2>2, <2>3, FromFacts
  <1> QED BY <1>1, <1>2 DEF Covered, From

\* How many scans there are from one that the window covers.
LEMMA FromCounted ==
  ASSUME NEW h, Len(scans) \in Nat, Len(window[h]) \in Nat,
         NEW f, Numbers(f, h), NEW m \in 1 .. Len(window[h])
  PROVE  Cardinality(From(h, f[m])) = Len(window[h]) - m + 1
  <1> DEFINE I == m .. Len(window[h])
             F == [i \in I |-> f[i]]
  <1>0. m \in Int /\ Len(window[h]) \in Int /\ ~(m > Len(window[h]))
    OBVIOUS
  <1>1. IsFiniteSet(I) /\ Cardinality(I) = Len(window[h]) - m + 1
    BY <1>0, FS_Interval
  <1>2. \A i \in 1 .. Len(window[h]) :
          f[i] \in Covered(h) /\ f[i] \in ScansOf(h) /\ f[i] \in Nat
    <2>1. \A i \in 1 .. Len(window[h]) : f[i] \in Covered(h)
      BY DEF Numbers, Orders
    <2>2. Covered(h) \subseteq ScansOf(h) /\ ScansOf(h) \subseteq Nat
      BY DEF Covered, ScansOf
    <2> QED BY <2>1, <2>2
  <1>3. \A i \in I : F[i] \in From(h, f[m])
    <2> SUFFICES ASSUME NEW i \in I PROVE f[i] \in From(h, f[m])
      OBVIOUS
    <2>1. f[m] <= f[i] /\ f[i] \in ScansOf(h)
      <3>1. i = m \/ f[m] < f[i]
        BY DEF Numbers, Orders
      <3> QED BY <1>2, <3>1
    <2> QED BY <1>2, <2>1 DEF From
  <1>4. \A z \in From(h, f[m]) : \E i \in I : F[i] = z
    <2> SUFFICES ASSUME NEW z \in From(h, f[m]) PROVE \E i \in I : f[i] = z
      OBVIOUS
    <2>1. z \in ScansOf(h) /\ z >= f[m] /\ z \in Nat
      BY DEF From, ScansOf
    <2>2. z \in Covered(h)
      BY <1>2, <2>1, CoveredUp
    <2>3. PICK i \in 1 .. Len(window[h]) : f[i] = z
      BY <2>2 DEF Numbers, Orders
    <2>4. ~(i < m)
      BY <1>2, <2>1, <2>3 DEF Numbers, Orders
    <2> QED BY <2>3, <2>4
  <1>5. \A i, j \in I : F[i] = F[j] => i = j
    <2> SUFFICES ASSUME NEW i \in I, NEW j \in I, i # j PROVE f[i] # f[j]
      OBVIOUS
    <2>1. i < j \/ j < i
      OBVIOUS
    <2>2. f[i] < f[j] \/ f[j] < f[i]
      BY <2>1 DEF Numbers, Orders
    <2> QED BY <1>2, <2>2
  <1>6. F \in Bijection(I, From(h, f[m]))
    BY <1>3, <1>4, <1>5 DEF Bijection, Injection, Surjection, IsInjective
  <1> HIDE DEF F, I
  <1>7. ExistsBijection(I, From(h, f[m]))
    BY <1>6 DEF ExistsBijection
  <1> QED BY <1>1, <1>7, FS_Bijection

\* The destinations scanned between two scans.
Gap(a, b) == {scans[k][1] : k \in a + 1 .. b - 1}

\* Unbroken, said with Gap.
LEMMA UnbrokenGaps ==
  ASSUME NEW h, NEW i
  PROVE  Unbroken(h, i) <=>
           \A a, b \in ScansOf(h) :
             i <= a /\ a < b /\ ScansOf(h) \cap (a + 1 .. b - 1) = {}
               => Cardinality(Gap(a, b)) < MaxSessions
  BY DEF Unbroken, Gap

\* A scan does not change what was scanned between earlier scans.
LEMMA GapSame ==
  ASSUME TrackerIInv, NEW h \in Hosts, NEW x \in Samples, Scan(h, x),
         NEW a \in Nat, NEW b \in Nat, b <= Len(scans) + 1
  PROVE  Gap(a, b)' = Gap(a, b)
  <1>1. Len(scans) \in Nat
    BY DEF TrackerIInv, TrackerTypeOK
  <1>2. \A k \in a + 1 .. b - 1 : k \in 1 .. Len(scans)
    BY <1>1
  <1>3. \A k \in a + 1 .. b - 1 : scans'[k] = scans[k]
    BY <1>2, ScanFacts
  <1> QED BY <1>3 DEF Gap

\* Windows of other destinations cover what they covered.
LEMMA OthersCovered ==
  ASSUME TrackerIInv, NEW h \in Hosts, NEW x \in Samples, Scan(h, x),
         NEW g \in Hosts \ {h}
  PROVE  ScansOf(g)' = ScansOf(g) /\ Covered(g)' = Covered(g)
  <1>0. Len(scans) \in Nat
    BY DEF TrackerIInv, TrackerTypeOK
  <1>1. ScansOf(g)' = ScansOf(g)
    BY <1>0, ScanFacts DEF ScansOf
  <1>2. ASSUME NEW i PROVE Unbroken(g, i)' <=> Unbroken(g, i)
    <2>1. \A a, b \in ScansOf(g) : Gap(a, b)' = Gap(a, b)
      <3> SUFFICES ASSUME NEW a \in ScansOf(g), NEW b \in ScansOf(g)
                   PROVE  Gap(a, b)' = Gap(a, b)
        OBVIOUS
      <3>1. a \in Nat /\ b \in Nat /\ b <= Len(scans) + 1
        BY <1>0 DEF ScansOf
      <3> QED BY <3>1, GapSame
    <2>2. Unbroken(g, i) <=>
            \A a, b \in ScansOf(g) :
              i <= a /\ a < b /\ ScansOf(g) \cap (a + 1 .. b - 1) = {}
                => Cardinality(Gap(a, b)) < MaxSessions
      BY UnbrokenGaps
    <2>3. Unbroken(g, i)' <=>
            \A a, b \in ScansOf(g)' :
              i <= a /\ a < b /\ ScansOf(g)' \cap (a + 1 .. b - 1) = {}
                => Cardinality(Gap(a, b)') < MaxSessions
      BY DEF Unbroken, Gap
    <2> QED BY <1>1, <2>1, <2>2, <2>3
  <1> QED BY <1>1, <1>2 DEF Covered

\* The window of the destination covers the scan, and what it covered unless
\* the destination was forgotten or the window is full.
LEMMA HostCovered ==
  ASSUME TrackerIInv, NEW h \in Hosts, NEW x \in Samples, Scan(h, x),
         NEW n, n = Len(scans)
  PROVE  Covered(h)' =
           {n + 1} \cup {i \in Covered(h) :
                           /\ h \in Sessions
                           /\ Cardinality(From(h, i)) < WindowSize}
  <1>0. /\ n \in Nat /\ WindowSize \in Nat \ {0} /\ MaxSessions \in Nat
        /\ lastSeen \in [Hosts -> Nat]
    BY TrackerAssumption DEF TrackerIInv, TrackerTypeOK
  <1>1. ScansOf(h)' = ScansOf(h) \cup {n + 1} /\ n + 1 \notin ScansOf(h)
    BY <1>0, ScanFacts DEF ScansOf
  <1>2. \A i \in ScansOf(h) : i \in 1 .. n /\ i <= lastSeen[h] /\ lastSeen[h] # 0
    BY <1>0 DEF ScansOf, TrackerIInv, LastOK
  <1>3. lastSeen[h] # 0 => lastSeen[h] \in ScansOf(h)
    BY <1>0 DEF ScansOf, TrackerIInv, LastOK
  <1>4. ASSUME NEW i \in ScansOf(h)
        PROVE  Unbroken(h, i)' <=> Unbroken(h, i) /\ h \in Sessions
    <2>0. PICK l \in ScansOf(h) : l = lastSeen[h] /\ i <= l /\ l \in 1 .. n
      BY <1>0, <1>2, <1>3
    <2>1. \A a, b \in Nat : b <= n + 1 => Gap(a, b)' = Gap(a, b)
      BY GapSame
    <2>2. Cardinality(Gap(l, n + 1)) < MaxSessions <=> h \in Sessions
      <3>1. Gap(l, n + 1) = Since(h)
        BY <1>0, <2>0 DEF Since, Gap
      <3> QED BY <2>0, <3>1, SinceSession
    <2>a. Gap(l, n + 1)' = Gap(l, n + 1)
      BY <1>0, <2>0, <2>1
    <2>b. Unbroken(h, i) <=>
            \A a, b \in ScansOf(h) :
              i <= a /\ a < b /\ ScansOf(h) \cap (a + 1 .. b - 1) = {}
                => Cardinality(Gap(a, b)) < MaxSessions
      BY UnbrokenGaps
    <2>c. Unbroken(h, i)' <=>
            \A a, b \in ScansOf(h)' :
              i <= a /\ a < b /\ ScansOf(h)' \cap (a + 1 .. b - 1) = {}
                => Cardinality(Gap(a, b)') < MaxSessions
      BY DEF Unbroken, Gap
    <2>4. ASSUME Unbroken(h, i)' PROVE Unbroken(h, i) /\ h \in Sessions
      <3>2. h \in Sessions
        <4>1. ScansOf(h)' \cap (l + 1 .. n + 1 - 1) = {}
          BY <1>0, <1>1, <1>2, <2>0
        <4>2. l \in ScansOf(h)' /\ n + 1 \in ScansOf(h)' /\ l < n + 1
          BY <1>0, <1>1, <2>0
        <4>3. Cardinality(Gap(l, n + 1)') < MaxSessions
          BY <2>0, <2>4, <2>c, <4>1, <4>2
        <4> QED BY <2>2, <2>a, <4>3
      <3>3. Unbroken(h, i)
        <4> SUFFICES ASSUME NEW a \in ScansOf(h), NEW b \in ScansOf(h), i <= a,
                            a < b, ScansOf(h) \cap (a + 1 .. b - 1) = {}
                     PROVE  Cardinality(Gap(a, b)) < MaxSessions
          BY <2>b
        <4>1. a \in 1 .. n /\ b \in 1 .. n
          BY <1>2
        <4>2. ScansOf(h)' \cap (a + 1 .. b - 1) = {}
          BY <1>0, <1>1, <4>1
        <4>3. Cardinality(Gap(a, b)') < MaxSessions
          BY <1>1, <2>4, <2>c, <4>2
        <4>4. Gap(a, b)' = Gap(a, b)
          BY <1>0, <2>1, <4>1
        <4> QED BY <4>3, <4>4
      <3> QED BY <3>2, <3>3
    <2>5. ASSUME Unbroken(h, i), h \in Sessions PROVE Unbroken(h, i)'
      <3> SUFFICES ASSUME NEW a \in ScansOf(h)', NEW b \in ScansOf(h)', i <= a,
                          a < b, ScansOf(h)' \cap (a + 1 .. b - 1) = {}
                   PROVE  Cardinality(Gap(a, b)') < MaxSessions
        BY <2>c
      <3>1. a \in ScansOf(h) /\ a \in 1 .. n /\ b \in 1 .. n + 1
        BY <1>0, <1>1, <1>2
      <3>2. Gap(a, b)' = Gap(a, b)
        BY <1>0, <2>1, <3>1
      <3>3. CASE b \in ScansOf(h)
        <4>1. ScansOf(h) \cap (a + 1 .. b - 1) = {}
          BY <1>1
        <4>2. Cardinality(Gap(a, b)) < MaxSessions
          BY <2>5, <2>b, <3>1, <3>3, <4>1
        <4> QED BY <3>2, <4>2
      <3>4. CASE b = n + 1
        <4>1. a = l
          <5>1. l \notin a + 1 .. b - 1
            BY <1>1, <2>0
          <5> QED BY <1>0, <1>2, <2>0, <3>1, <3>4, <5>1
        <4> QED BY <2>2, <2>5, <3>2, <3>4, <4>1
      <3> QED BY <1>1, <3>3, <3>4
    <2> QED BY <2>4, <2>5
  <1>5. Unbroken(h, n + 1)'
    <2>1. \A a, b \in ScansOf(h)' : n + 1 <= a => ~(a < b)
      BY <1>0, <1>1, <1>2
    <2> QED BY <2>1 DEF Unbroken
  <1>6. ASSUME NEW i \in ScansOf(h)
        PROVE  Cardinality(From(h, i)') = Cardinality(From(h, i)) + 1
    <2>1. From(h, i)' = From(h, i) \cup {n + 1} /\ n + 1 \notin From(h, i)
      BY <1>0, <1>1, <1>2 DEF From
    <2>2. /\ IsFiniteSet(From(h, i))
          /\ Cardinality(From(h, i) \cup {n + 1}) = Cardinality(From(h, i)) + 1
      BY <1>0, <2>1, FromFacts, FS_AddElement
    <2> QED BY <2>1, <2>2
  <1>7. Cardinality(From(h, n + 1)') = 1
    <2>1. From(h, n + 1)' = {n + 1}
      BY <1>0, <1>1, <1>2 DEF From
    <2> QED BY <2>1, FS_Singleton
  <1>8. \A i : i \in Covered(h)' <=> /\ i \in ScansOf(h)' /\ Unbroken(h, i)'
                                     /\ Cardinality(From(h, i)') <= WindowSize
    BY DEF Covered, From
  <1>9. n + 1 \in Covered(h)'
    BY <1>0, <1>1, <1>5, <1>7, <1>8
  <1>10. ASSUME NEW i \in ScansOf(h)
         PROVE  i \in Covered(h)' <=>
                  /\ i \in Covered(h) /\ h \in Sessions
                  /\ Cardinality(From(h, i)) < WindowSize
    <2>1. Cardinality(From(h, i)) \in Nat
      BY <1>0, FromFacts
    <2>2. i \in Covered(h) <=> /\ Unbroken(h, i)
                               /\ Cardinality(From(h, i)) <= WindowSize
      BY DEF Covered, From
    <2>3. i \in Covered(h)' <=> /\ Unbroken(h, i)'
                                /\ Cardinality(From(h, i)') <= WindowSize
      BY <1>1, <1>8
    <2> QED BY <1>0, <1>4, <1>6, <2>1, <2>2, <2>3
  <1>11. /\ Covered(h)' \subseteq ScansOf(h) \cup {n + 1}
         /\ Covered(h) \subseteq ScansOf(h)
    BY <1>1, <1>8 DEF Covered
  <1> QED BY <1>1, <1>9, <1>10, <1>11

-----------------------------------------------------------------------------
(* The invariant is inductive.                                             *)

\* lastSeen stays the place of the last scan.
LEMMA LastStep ==
  ASSUME TrackerIInv, NEW h \in Hosts, NEW x \in Samples, Scan(h, x)
  PROVE  LastOK'
  <1>0. /\ Len(scans) \in Nat /\ lastSeen \in [Hosts -> Nat]
        /\ scans \in Seq(Hosts \X Samples)
    BY DEF TrackerIInv, TrackerTypeOK
  <1>1. /\ Len(scans') = Len(scans) + 1
        /\ \A i \in 1 .. Len(scans) : scans'[i] = scans[i]
        /\ scans'[Len(scans) + 1] = << h, x >>
        /\ lastSeen'[h] = Len(scans) + 1
        /\ \A g \in Hosts \ {h} : /\ lastSeen'[g] = lastSeen[g]
                                  /\ window'[g] # << >> => window'[g] = window[g]
    BY <1>0, ScanFacts
  <1>2. ASSUME NEW i \in 1 .. Len(scans')
        PROVE  i <= lastSeen'[scans'[i][1]]
    <2>1. CASE i = Len(scans) + 1
      BY <1>0, <1>1, <2>1
    <2>2. CASE i # Len(scans) + 1
      <3>1. i \in 1 .. Len(scans) /\ scans'[i] = scans[i] /\ scans[i][1] \in Hosts
        BY <1>0, <1>1, <2>2
      <3>2. i <= lastSeen[scans[i][1]]
        BY <3>1 DEF TrackerIInv, LastOK
      <3> QED BY <1>0, <1>1, <3>1, <3>2
    <2> QED BY <2>1, <2>2
  <1>3. ASSUME NEW g \in Hosts
        PROVE  /\ lastSeen'[g] <= Len(scans')
               /\ lastSeen'[g] # 0 => scans'[lastSeen'[g]][1] = g
               /\ window'[g] # << >> => lastSeen'[g] # 0
    <2>1. CASE g = h
      BY <1>0, <1>1, <2>1
    <2>2. CASE g # h
      <3>1. /\ lastSeen[g] <= Len(scans)
            /\ lastSeen[g] # 0 => scans[lastSeen[g]][1] = g
            /\ window[g] # << >> => lastSeen[g] # 0
        BY DEF TrackerIInv, LastOK
      <3> QED BY <1>0, <1>1, <2>2, <3>1
    <2> QED BY <2>1, <2>2
  <1> QED BY <1>2, <1>3 DEF LastOK

\* Other destinations keep what their windows have, if they are not evicted.
LEMMA OtherWindowStep ==
  ASSUME TrackerIInv, NEW h \in Hosts, NEW x \in Samples, Scan(h, x),
         NEW g \in Sessions', g # h
  PROVE  \E f : Numbers(f, g)'
  <1>1. g \in Hosts /\ window'[g] = window[g] /\ g \in Sessions
    BY ScanFacts DEF Sessions
  <1>2. PICK f : Numbers(f, g)
    BY <1>1 DEF TrackerIInv, WindowOK
  <1>3. Covered(g)' = Covered(g)
    BY <1>1, OthersCovered
  <1>4. \A i \in 1 .. Len(window[g]) : scans'[f[i]] = scans[f[i]]
    <2>1. \A i \in 1 .. Len(window[g]) : f[i] \in Covered(g)
      BY <1>2 DEF Numbers, Orders
    <2>2. Covered(g) \subseteq 1 .. Len(scans)
      BY DEF Covered, ScansOf
    <2> QED BY <2>1, <2>2, ScanFacts
  <1>5. Numbers(f, g)'
    BY <1>1, <1>2, <1>3, <1>4 DEF Numbers, Orders
  <1> QED BY <1>5

\* The scan is the last that its window covers.
LEMMA HostWindowStep ==
  ASSUME TrackerIInv, NEW h \in Hosts, NEW x \in Samples, Scan(h, x)
  PROVE  \E f : Numbers(f, h)'
  <1>a. PICK n : n = Len(scans)
    OBVIOUS
  <1>b. PICK L : L = Len(window[h])
    OBVIOUS
  <1>0. /\ n \in Nat /\ L \in Nat /\ L <= WindowSize /\ WindowSize \in Nat \ {0}
        /\ window[h] \in Seq(Samples)
    BY <1>a, <1>b, TrackerAssumption DEF TrackerIInv, TrackerTypeOK
  <1>1. /\ \A i \in 1 .. n : scans'[i] = scans[i]
        /\ scans'[n + 1] = << h, x >>
        /\ window'[h] = Added(window[h], x)
    BY <1>a, ScanFacts
  <1>2. Covered(h)' = {n + 1} \cup {i \in Covered(h) :
                           /\ h \in Sessions
                           /\ Cardinality(From(h, i)) < WindowSize}
    BY <1>a, HostCovered
  <1>3. /\ L < WindowSize =>
             /\ Len(window'[h]) = L + 1
             /\ \A i \in 1 .. L : window'[h][i] = window[h][i]
        /\ L = WindowSize =>
             /\ Len(window'[h]) = L
             /\ \A i \in 1 .. L - 1 : window'[h][i] = window[h][i + 1]
        /\ window'[h][Len(window'[h])] = x
    <2>1. PICK w : w = window[h]
      OBVIOUS
    <2>2. w \in Seq(Samples) /\ Len(w) <= WindowSize /\ Len(w) = L
      BY <1>0, <1>b, <2>1
    <2>3. PICK v : v = Added(w, x)
      OBVIOUS
    <2>4. /\ Len(w) < WindowSize =>
               /\ Len(v) = Len(w) + 1
               /\ \A i \in 1 .. Len(w) : v[i] = w[i]
          /\ Len(w) = WindowSize =>
               /\ Len(v) = Len(w)
               /\ \A i \in 1 .. Len(w) - 1 : v[i] = w[i + 1]
          /\ v[Len(v)] = x
      BY <2>2, <2>3, AddedFacts
    <2>5. window'[h] = v /\ window[h] = w
      BY <1>1, <2>1, <2>3
    <2> QED BY <2>2, <2>4, <2>5
  <1>4. CASE h \notin Sessions
    <2>1. L = 0
      BY <1>4, <1>b DEF Sessions
    <2>2. Covered(h)' = {n + 1} /\ Len(window'[h]) = 1
      BY <1>0, <1>2, <1>3, <1>4, <2>1
    <2> DEFINE f == [i \in 1 .. 1 |-> n + 1]
    <2>3. Numbers(f, h)'
      <3>1. window'[h][1] = x /\ scans'[n + 1][2] = x /\ f[1] = n + 1
        BY <1>1, <1>3, <2>2
      <3> HIDE DEF f
      <3>2. f \in [1 .. 1 -> Covered(h)']
        BY <2>2 DEF f
      <3> QED BY <2>2, <3>1, <3>2 DEF Numbers, Orders
    <2> QED BY <2>3
  <1>5. CASE h \in Sessions
    <2>1. PICK f : Numbers(f, h)
      BY <1>5 DEF TrackerIInv, WindowOK
    <2>2. /\ \A i \in 1 .. L : f[i] \in Covered(h)
          /\ \A i, j \in 1 .. L : i < j => f[i] < f[j]
          /\ \A z \in Covered(h) : \E i \in 1 .. L : f[i] = z
          /\ \A i \in 1 .. L : scans[f[i]][2] = window[h][i]
      BY <1>b, <2>1 DEF Numbers, Orders
    <2>3. \A i \in 1 .. L : f[i] \in 1 .. n
      <3>1. Covered(h) \subseteq 1 .. n
        BY <1>a DEF Covered, ScansOf
      <3> QED BY <2>2, <3>1
    <2>4. \A i \in 1 .. L : Cardinality(From(h, f[i])) = L - i + 1
      BY <1>0, <1>a, <1>b, <2>1, FromCounted
    <2>5. CASE L < WindowSize
      <3> DEFINE e == [i \in 1 .. L + 1 |-> IF i <= L THEN f[i] ELSE n + 1]
      <3>1. \A i \in 1 .. L : e[i] = f[i]
        BY <1>0
      <3>2. e[L + 1] = n + 1 /\ L + 1 \in 1 .. L + 1
        BY <1>0
      <3>3. \A i \in 1 .. L + 1 : i \in 1 .. L \/ i = L + 1
        BY <1>0
      <3>4. \A i \in 1 .. L : f[i] \in Covered(h)'
        BY <1>0, <1>2, <1>5, <2>2, <2>4, <2>5
      <3>5. n + 1 \in Covered(h)'
        BY <1>2
      <3>6. e \in [1 .. L + 1 -> Covered(h)']
        <4>1. \A i \in 1 .. L + 1 : e[i] \in Covered(h)'
          BY <3>1, <3>2, <3>3, <3>4, <3>5
        <4> QED BY <4>1
      <3> HIDE DEF e
      <3>7. \A i, j \in 1 .. L + 1 : i < j => e[i] < e[j]
        <4> SUFFICES ASSUME NEW i \in 1 .. L + 1, NEW j \in 1 .. L + 1, i < j
                     PROVE  e[i] < e[j]
          OBVIOUS
        <4>1. i \in 1 .. L /\ e[i] = f[i]
          BY <1>0, <3>1
        <4>2. CASE j = L + 1
          BY <1>0, <2>3, <3>2, <4>1, <4>2
        <4>3. CASE j # L + 1
          BY <1>0, <2>2, <3>1, <3>3, <4>1, <4>3
        <4> QED BY <4>2, <4>3
      <3>8. \A z \in Covered(h)' : \E i \in 1 .. L + 1 : e[i] = z
        <4> SUFFICES ASSUME NEW z \in Covered(h)'
                     PROVE  \E i \in 1 .. L + 1 : e[i] = z
          OBVIOUS
        <4>1. CASE z = n + 1
          BY <3>2, <4>1
        <4>2. CASE z \in Covered(h)
          <5>1. PICK i \in 1 .. L : f[i] = z
            BY <2>2, <4>2
          <5> QED BY <1>0, <3>1, <5>1
        <4> QED BY <1>2, <4>1, <4>2
      <3>9. \A i \in 1 .. L + 1 : scans'[e[i]][2] = window'[h][i]
        <4>1. \A i \in 1 .. L : scans'[e[i]][2] = window'[h][i]
          BY <1>1, <1>3, <2>2, <2>3, <2>5, <3>1
        <4>2. scans'[n + 1][2] = x /\ window'[h][L + 1] = x
          BY <1>1, <1>3, <2>5
        <4> QED BY <3>2, <3>3, <4>1, <4>2
      <3>10. Numbers(e, h)'
        BY <1>3, <2>5, <3>6, <3>7, <3>8, <3>9 DEF Numbers, Orders
      <3> QED BY <3>10
    <2>6. CASE L = WindowSize
      <3> DEFINE e == [i \in 1 .. L |-> IF i < L THEN f[i + 1] ELSE n + 1]
      <3>1. \A i \in 1 .. L - 1 : e[i] = f[i + 1] /\ i + 1 \in 1 .. L
        BY <1>0
      <3>2. e[L] = n + 1 /\ L \in 1 .. L
        BY <1>0, <2>6
      <3>3. \A i \in 1 .. L : i \in 1 .. L - 1 \/ i = L
        BY <1>0
      <3>4. \A i \in 1 .. L - 1 : f[i + 1] \in Covered(h)'
        BY <1>0, <1>2, <1>5, <2>2, <2>4, <2>6
      <3>5. n + 1 \in Covered(h)'
        BY <1>2
      <3>6. e \in [1 .. L -> Covered(h)']
        <4>1. \A i \in 1 .. L : e[i] \in Covered(h)'
          BY <3>1, <3>2, <3>3, <3>4, <3>5
        <4> QED BY <4>1
      <3> HIDE DEF e
      <3>7. \A i, j \in 1 .. L : i < j => e[i] < e[j]
        <4> SUFFICES ASSUME NEW i \in 1 .. L, NEW j \in 1 .. L, i < j
                     PROVE  e[i] < e[j]
          OBVIOUS
        <4>1. i \in 1 .. L - 1 /\ e[i] = f[i + 1] /\ i + 1 \in 1 .. L
          BY <1>0, <3>1
        <4>2. CASE j = L
          BY <1>0, <2>3, <3>2, <4>1, <4>2
        <4>3. CASE j # L
          BY <1>0, <2>2, <3>1, <3>3, <4>1, <4>3
        <4> QED BY <4>2, <4>3
      <3>8. \A z \in Covered(h)' : \E i \in 1 .. L : e[i] = z
        <4> SUFFICES ASSUME NEW z \in Covered(h)'
                     PROVE  \E i \in 1 .. L : e[i] = z
          OBVIOUS
        <4>1. CASE z = n + 1
          BY <3>2, <4>1
        <4>2. CASE z \in Covered(h) /\ Cardinality(From(h, z)) < WindowSize
          <5>1. PICK i \in 1 .. L : f[i] = z
            BY <2>2, <4>2
          <5>2. L - i + 1 < L
            BY <2>4, <2>6, <4>2, <5>1
          <5>3. i - 1 \in 1 .. L - 1 /\ i - 1 \in 1 .. L /\ i - 1 + 1 = i
            BY <1>0, <5>2
          <5> QED BY <3>1, <5>1, <5>3
        <4> QED BY <1>2, <4>1, <4>2
      <3>9. \A i \in 1 .. L : scans'[e[i]][2] = window'[h][i]
        <4>1. \A i \in 1 .. L - 1 : scans'[e[i]][2] = window'[h][i]
          BY <1>1, <1>3, <2>2, <2>3, <2>6, <3>1
        <4>2. scans'[n + 1][2] = x /\ window'[h][L] = x
          BY <1>1, <1>3, <2>6
        <4> QED BY <3>2, <3>3, <4>1, <4>2
      <3>10. Numbers(e, h)'
        BY <1>3, <2>6, <3>6, <3>7, <3>8, <3>9 DEF Numbers, Orders
      <3> QED BY <3>10
    <2> QED BY <1>0, <2>5, <2>6
  <1> QED BY <1>4, <1>5

\* What a window that covers the right scans has in it.
LEMMA NumbersCount ==
  ASSUME NEW f, NEW w \in Seq(Samples), NEW C \in SUBSET Nat, NEW s,
         Orders(f, w, C, s)
  PROVE  Cardinality(C) = Len(w) /\ Total(w) = Total([i \in C |-> s[i][2]])
  <1> DEFINE e == [i \in C |-> s[i][2]]
  <1>0. /\ Len(w) \in Nat /\ DOMAIN w = 1 .. Len(w)
        /\ \A i \in 1 .. Len(w) : w[i] \in Nat
    <2>1. Len(w) \in Nat /\ DOMAIN w = 1 .. Len(w)
      OBVIOUS
    <2>2. \A i \in 1 .. Len(w) : w[i] \in Samples
      OBVIOUS
    <2> QED BY <2>1, <2>2, TrackerAssumption
  <1>a. /\ f \in [1 .. Len(w) -> C]
        /\ \A i, j \in 1 .. Len(w) : i < j => f[i] < f[j]
        /\ \A z \in C : \E i \in 1 .. Len(w) : f[i] = z
        /\ \A i \in 1 .. Len(w) : s[f[i]][2] = w[i]
    BY DEF Orders
  <1>1. \A i, j \in 1 .. Len(w) : f[i] = f[j] => i = j
    <2> SUFFICES ASSUME NEW i \in 1 .. Len(w), NEW j \in 1 .. Len(w), i # j
                 PROVE  f[i] # f[j]
      OBVIOUS
    <2>1. i < j \/ j < i
      BY <1>0
    <2>2. f[i] < f[j] \/ f[j] < f[i]
      BY <1>a, <2>1
    <2>3. f[i] \in Nat /\ f[j] \in Nat
      BY <1>a
    <2> QED BY <2>2, <2>3
  <1>2. f \in Bijection(1 .. Len(w), C)
    BY <1>a, <1>1 DEF Bijection, Injection, Surjection, IsInjective
  <1>3. /\ IsFiniteSet(1 .. Len(w)) /\ Cardinality(1 .. Len(w)) = Len(w)
        /\ IsFiniteSet(C) /\ Cardinality(C) = Len(w)
    <2>1. IsFiniteSet(1 .. Len(w)) /\ Cardinality(1 .. Len(w)) = Len(w)
      <3>1. PICK l \in Nat : l = Len(w)
        BY <1>0
      <3>2. IsFiniteSet(1 .. l) /\ Cardinality(1 .. l) = l
        BY FS_Interval
      <3> QED BY <3>1, <3>2
    <2>2. ExistsBijection(1 .. Len(w), C)
      BY <1>2 DEF ExistsBijection
    <2> QED BY <2>1, <2>2, FS_Bijection
  <1>4. \A i \in DOMAIN w : w[i] \in Nat /\ f[i] \in DOMAIN e /\ e[f[i]] = w[i]
    BY <1>0, <1>a
  <1>5. Total(w) = Total(e)
    <2>1. DOMAIN e = C
      OBVIOUS
    <2> HIDE DEF e
    <2>2. IsFiniteSet(DOMAIN w) /\ IsFiniteSet(DOMAIN e)
      BY <1>0, <1>3, <2>1
    <2>3. \A i, j \in DOMAIN w : f[i] = f[j] => i = j
      BY <1>0, <1>1
    <2>4. \A z \in DOMAIN e : \E i \in DOMAIN w : f[i] = z
      BY <1>0, <1>a, <2>1
    <2>5. Renumbers(f, w, e)
      BY <1>4, <2>3, <2>4 DEF Renumbers
    <2> QED BY <2>2, <2>5, TotalRenumbered
  <1> QED BY <1>3, <1>5

\* Scan decides on the samples that the window covers.
LEMMA ReportedStep ==
  ASSUME TrackerIInv, NEW h \in Hosts, NEW x \in Samples, Scan(h, x)
  PROVE  ReportedExactly'
  <1>1. /\ Len(scans') = Len(scans) + 1 /\ scans'[Len(scans')][1] = h
        /\ window'[h] = Added(window[h], x)
        /\ window'[h] \in Seq(Samples)
    <2>1. TrackerTypeOK'
      BY ScanFacts
    <2>2. window'[h] \in Seq(Samples)
      BY <2>1 DEF TrackerTypeOK
    <2> QED BY <2>2, ScanFacts
  <1>2. PICK f : Numbers(f, h)'
    BY HostWindowStep
  <1>3. Covered(h)' \in SUBSET Nat
    BY DEF Covered, ScansOf
  <1>4. /\ Cardinality(Covered(h)') = Len(window'[h])
        /\ Total(window'[h]) = Total([i \in Covered(h)' |-> scans'[i][2]])
    <2>2. PICK w, C, s : w = window'[h] /\ C = Covered(h)' /\ s = scans'
      OBVIOUS
    <2>3. w \in Seq(Samples) /\ C \in SUBSET Nat /\ Orders(f, w, C, s)
      BY <1>1, <1>2, <1>3, <2>2 DEF Numbers
    <2>4. Cardinality(C) = Len(w) /\ Total(w) = Total([i \in C |-> s[i][2]])
      BY <2>3, NumbersCount
    <2> QED BY <2>2, <2>4
  <1>5. reported' = (/\ Len(window'[h]) >= MinSamples
                     /\ Total(window'[h]) > Threshold * Len(window'[h]))
    <2>1. MakeRoom(h)[h] = window[h]
      BY RoomFacts DEF Sessions, TrackerIInv, TrackerTypeOK
    <2> QED BY <1>1, <2>1 DEF Scan, Added
  <1>6. reported' <=> /\ Cardinality(Covered(h)') >= MinSamples
                      /\ Total([i \in Covered(h)' |-> scans'[i][2]])
                           > Threshold * Cardinality(Covered(h)')
    BY <1>4, <1>5
  <1> QED BY <1>1, <1>6 DEF ReportedExactly

\* Nothing is scanned at first.
LEMMA TrackerInitial == TrackerInit => TrackerIInv
  <1> SUFFICES ASSUME TrackerInit PROVE TrackerIInv
    OBVIOUS
  <1>1. Sessions = {} /\ IsFiniteSet(Sessions) /\ Cardinality(Sessions) = 0
    BY FS_EmptySet DEF TrackerInit, Sessions
  <1>2. TrackerTypeOK
    <2>1. << >> \in Seq(Samples) /\ << >> \in Seq(Hosts \X Samples) /\ Len(<< >>) = 0
      OBVIOUS
    <2>2. window \in [Hosts -> Seq(Samples)] /\ \A h \in Hosts : Len(window[h]) = 0
      BY <2>1 DEF TrackerInit
    <2>3. /\ WindowSize \in Nat /\ 0 <= WindowSize /\ 0 <= MaxSessions
          /\ 0 \in 0 .. MaxScans
      BY TrackerAssumption
    <2>4. lastSeen \in [Hosts -> 0 .. MaxScans]
      BY <2>3 DEF TrackerInit
    <2>5. scans \in Seq(Hosts \X Samples) /\ reported \in BOOLEAN
      BY <2>1 DEF TrackerInit
    <2> QED BY <1>1, <2>2, <2>3, <2>4, <2>5 DEF TrackerTypeOK
  <1>3. LastOK /\ EvictedOK /\ WindowOK /\ ReportedExactly
    BY <1>1 DEF TrackerInit, LastOK, EvictedOK, WindowOK, ReportedExactly
  <1> QED BY <1>1, <1>2, <1>3 DEF TrackerIInv

\* A scan keeps the invariant.
LEMMA TrackerStep ==
  ASSUME TrackerIInv, [TrackerNext]_trackerVars
  PROVE  TrackerIInv'
  <1>1. ASSUME NEW h \in Hosts, NEW x \in Samples, Scan(h, x)
        PROVE  TrackerIInv'
    <2>1. TrackerTypeOK' /\ IsFiniteSet(Sessions') /\ EvictedOK'
      BY <1>1, ScanFacts
    <2>2. LastOK' /\ ReportedExactly'
      BY <1>1, LastStep, ReportedStep
    <2>3. WindowOK'
      <3> SUFFICES ASSUME NEW g \in Sessions' PROVE \E f : Numbers(f, g)'
        BY DEF WindowOK
      <3>1. CASE g = h
        BY <1>1, <3>1, HostWindowStep
      <3>2. CASE g # h
        BY <1>1, <3>2, OtherWindowStep
      <3> QED BY <3>1, <3>2
    <2> QED BY <2>1, <2>2, <2>3 DEF TrackerIInv
  <1>2. CASE UNCHANGED trackerVars
    <2>1. UNCHANGED << window, lastSeen, reported, scans >>
      BY <1>2 DEF trackerVars
    <2>2. Sessions' = Sessions
      BY <2>1 DEF Sessions
    <2>3. \A g : Covered(g)' = Covered(g)
      <3>1. \A g : ScansOf(g)' = ScansOf(g)
        BY <2>1 DEF ScansOf
      <3>2. ASSUME NEW g, NEW i PROVE Unbroken(g, i)' <=> Unbroken(g, i)
        BY <2>1, <3>1 DEF Unbroken
      <3> QED BY <3>1, <3>2 DEF Covered
    <2>4. TrackerTypeOK' /\ IsFiniteSet(Sessions') /\ LastOK' /\ EvictedOK'
      BY <2>1, <2>2 DEF TrackerIInv, TrackerTypeOK, LastOK, EvictedOK
    <2>5. WindowOK'
      BY <2>1, <2>2, <2>3 DEF TrackerIInv, WindowOK, Numbers, Orders
    <2>6. ReportedExactly'
      <3> SUFFICES ASSUME scans' # << >>
                   PROVE  LET cov == Covered(scans[Len(scans)][1])'
                          IN  reported' <=>
                                /\ Cardinality(cov) >= MinSamples
                                /\ Total([i \in cov |-> scans'[i][2]])
                                     > Threshold * Cardinality(cov)
        BY DEF ReportedExactly
      <3>1. PICK g : g = scans[Len(scans)][1]
        OBVIOUS
      <3>2. Covered(scans[Len(scans)][1])' = Covered(g)
        BY <2>1, <2>3, <3>1
      <3> QED BY <2>1, <3>1, <3>2 DEF TrackerIInv, ReportedExactly
    <2> QED BY <2>4, <2>5, <2>6 DEF TrackerIInv
  <1> QED BY <1>1, <1>2 DEF TrackerNext

\* It holds in every behaviour.
LEMMA TrackerInvariant == TrackerSpec => []TrackerIInv
  <1>1. TrackerIInv /\ [TrackerNext]_trackerVars => TrackerIInv'
    BY TrackerStep
  <1> QED BY TrackerInitial, <1>1, PTL DEF TrackerSpec

(* EntropyTracker.Scan: for any number of destinations, sessions and samples,
   a request is reported exactly when the samples that the last WindowSize
   scans of its destination had since it was last forgotten average above the
   threshold. *)
THEOREM DripsReported == TrackerSpec => []ReportedExactly
  <1>1. TrackerIInv => ReportedExactly
    BY DEF TrackerIInv
  <1> QED BY TrackerInvariant, <1>1, PTL
=============================================================================
