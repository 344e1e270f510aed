------------------------------ MODULE Release -------------------------------
(***************************************************************************)
(* build, sign and publish of a skill: cli/internal/builder, signer and    *)
(* tlog, with the commands cmd/build.go, sign.go and publish.go, which     *)
(* share the source tree, the directory of artifacts and skill-lock.json.  *)
(* Commands may run at the same time (an editor's build task, CI), may end *)
(* at any point, and the source may be edited while a build reads it.      *)
(* An artifact is the content it was made of, file by file, and is its own *)
(* digest and name; canonicalisation and the archive are functions of it.  *)
(* A write of a file is one step, except for a build that is cut short.    *)
(* Not modelled: a rebuild of unchanged sources truncates the artifact     *)
(* before it writes the same bytes again, so a rebuild that is cut there   *)
(* leaves an artifact short that the lockfile already names, and a cut     *)
(* write of skill-lock.json leaves one that no command can read.           *)
(* Sigstore signs whatever digest it is given.                             *)
(***************************************************************************)
EXTENDS Naturals, Sequences, FiniteSets

CONSTANTS
  Jobs,         \* places for commands, one after the other in each
  SourceFiles,  \* files of the skill, the manifest among them
  MaxEdit,      \* bound: edits of the source
  MaxJobs,      \* bound: commands
  MaxLog        \* bound: entries of the log

ASSUME ReleaseAssumption == MaxEdit \in Nat /\ MaxJobs \in Nat /\ MaxLog \in Nat

VARIABLES
  tree,         \* the version of each source file
  dist,         \* artifacts that were completely written, once or more
  bundles,      \* pairs << artifact, digest >>: the bundle beside an artifact
  lock,         \* skill-lock.json
  tlog,         \* digests in the transparency log
  rekor,        \* digests signed, as Sigstore's log has them
  jobPc,        \* what a command is doing
  jobRead,      \* a build's files read so far; version 0 for the others
  jobTarget,    \* the artifact given to sign or publish
  jobLock,      \* the lockfile a command has read, or is about to write
  jobs

releaseVars == << tree, dist, bundles, lock, tlog, rekor, jobPc, jobRead, jobTarget,
                  jobLock, jobs >>

Artifacts == [SourceFiles -> 0 .. MaxEdit + 1]
Unread == [f \in SourceFiles |-> 0]
\* prov: Provenance is set.  index: LogEntryID as publish sets it; sign stores
\* an index of Rekor in the same field, here 0 as in a lockfile without one.
NoLock == [sha |-> Unread, prov |-> FALSE, index |-> 0]
Locks == [sha : Artifacts, prov : BOOLEAN, index : 0 .. MaxLog]

ReleaseTypeOK ==
  /\ tree \in [SourceFiles -> 1 .. MaxEdit + 1]
  /\ dist \subseteq Artifacts
  /\ bundles \subseteq Artifacts \X Artifacts
  /\ \A b, c \in bundles : b[1] = c[1] => b = c
  /\ lock \in Locks
  /\ tlog \in Seq(Artifacts) /\ Len(tlog) <= MaxLog
  /\ rekor \subseteq Artifacts
  /\ jobPc \in [Jobs -> {"idle", "collect", "archive", "lock", "sign", "publish",
                         "update"}]
  /\ jobRead \in [Jobs -> Artifacts]
  /\ jobTarget \in [Jobs -> Artifacts]
  /\ jobLock \in [Jobs -> Locks]
  /\ jobs \in 0 .. MaxJobs

ReleaseInit ==
  /\ tree = [f \in SourceFiles |-> 1]
  /\ dist = {}
  /\ bundles = {}
  /\ lock = NoLock
  /\ tlog = << >>
  /\ rekor = {}
  /\ jobPc = [j \in Jobs |-> "idle"]
  /\ jobRead = [j \in Jobs |-> Unread]
  /\ jobTarget = [j \in Jobs |-> Unread]
  /\ jobLock = [j \in Jobs |-> NoLock]
  /\ jobs = 0

\* The author edits a file.
EditSource(f) ==
  /\ tree[f] <= MaxEdit
  /\ tree' = [tree EXCEPT ![f] = @ + 1]
  /\ UNCHANGED << dist, bundles, lock, tlog, rekor, jobPc, jobRead, jobTarget,
                  jobLock, jobs >>

\* runBuild.
BeginBuild(j) ==
  /\ jobPc[j] = "idle"
  /\ jobs < MaxJobs
  /\ jobs' = jobs + 1
  /\ jobPc' = [jobPc EXCEPT ![j] = "collect"]
  /\ UNCHANGED << tree, dist, bundles, lock, tlog, rekor, jobRead, jobTarget, jobLock >>

\* ReadFile of the manifest, Collect: a file at a time.
CollectFile(j, f) ==
  /\ jobPc[j] = "collect"
  /\ jobRead[j][f] = 0
  /\ jobRead' = [jobRead EXCEPT ![j][f] = tree[f]]
  /\ jobPc' = [jobPc EXCEPT ![j] =
       IF \E g \in SourceFiles \ {f} : jobRead[j][g] = 0 THEN "collect"
                                                          ELSE "archive"]
  /\ UNCHANGED << tree, dist, bundles, lock, tlog, rekor, jobTarget, jobLock, jobs >>

\* The archive is hashed, named and written.
WriteArtifact(j) ==
  /\ jobPc[j] = "archive"
  /\ dist' = dist \cup {jobRead[j]}
  /\ jobPc' = [jobPc EXCEPT ![j] = "lock"]
  /\ UNCHANGED << tree, bundles, lock, tlog, rekor, jobRead, jobTarget, jobLock, jobs >>

\* WriteLockfile, with nothing of the signing in it.
WriteBuildLock(j) ==
  /\ jobPc[j] = "lock"
  /\ lock' = [NoLock EXCEPT !.sha = jobRead[j]]
  /\ jobPc' = [jobPc EXCEPT ![j] = "idle"]
  /\ jobRead' = [jobRead EXCEPT ![j] = Unread]
  /\ UNCHANGED << tree, dist, bundles, tlog, rekor, jobTarget, jobLock, jobs >>

\* runSign: the artifact is there, its content is not looked at; the lockfile
\* is read.
BeginSign(j, a) ==
  /\ jobPc[j] = "idle"
  /\ jobs < MaxJobs
  /\ a \in dist
  /\ lock # NoLock
  /\ jobs' = jobs + 1
  /\ jobTarget' = [jobTarget EXCEPT ![j] = a]
  /\ jobLock' = [jobLock EXCEPT ![j] = lock]
  /\ jobPc' = [jobPc EXCEPT ![j] = "sign"]
  /\ UNCHANGED << tree, dist, bundles, lock, tlog, rekor, jobRead >>

\* CreateProvenance, SignAndWrite: the bundle is written over an earlier one.
SignArtifact(j) ==
  /\ jobPc[j] = "sign"
  /\ bundles' = {b \in bundles : b[1] # jobTarget[j]}
                  \cup {<< jobTarget[j], jobLock[j].sha >>}
  /\ rekor' = rekor \cup {jobLock[j].sha}
  /\ jobLock' = [jobLock EXCEPT ![j].prov = TRUE, ![j].index = 0]
  /\ jobPc' = [jobPc EXCEPT ![j] = "update"]
  /\ UNCHANGED << tree, dist, lock, tlog, jobRead, jobTarget, jobs >>

\* runPublish reads the lockfile of a signed artifact.
BeginPublish(j, a) ==
  /\ jobPc[j] = "idle"
  /\ jobs < MaxJobs
  /\ a \in dist
  /\ lock.prov
  /\ jobs' = jobs + 1
  /\ jobTarget' = [jobTarget EXCEPT ![j] = a]
  /\ jobLock' = [jobLock EXCEPT ![j] = lock]
  /\ jobPc' = [jobPc EXCEPT ![j] = "publish"]
  /\ UNCHANGED << tree, dist, bundles, lock, tlog, rekor, jobRead >>

\* Publish: the entry is in the log; the answer arrives or is lost.
PublishEntry(j, answered) ==
  /\ jobPc[j] = "publish"
  /\ Len(tlog) < MaxLog
  /\ tlog' = Append(tlog, jobLock[j].sha)
  /\ IF answered
     THEN /\ jobLock' = [jobLock EXCEPT ![j].index = Len(tlog) + 1]
          /\ jobPc' = [jobPc EXCEPT ![j] = "update"]
          /\ UNCHANGED jobTarget
     ELSE /\ jobLock' = [jobLock EXCEPT ![j] = NoLock]
          /\ jobTarget' = [jobTarget EXCEPT ![j] = Unread]
          /\ jobPc' = [jobPc EXCEPT ![j] = "idle"]
  /\ UNCHANGED << tree, dist, bundles, lock, rekor, jobRead, jobs >>

\* Sets the two fields in the lockfile as it is now.
UpdateFields(j) ==
  /\ jobPc[j] = "update"
  /\ lock' = [lock EXCEPT !.prov = jobLock[j].prov, !.index = jobLock[j].index]
  /\ jobPc' = [jobPc EXCEPT ![j] = "idle"]
  /\ jobTarget' = [jobTarget EXCEPT ![j] = Unread]
  /\ jobLock' = [jobLock EXCEPT ![j] = NoLock]
  /\ UNCHANGED << tree, dist, bundles, tlog, rekor, jobRead, jobs >>

\* Sign and publish write the lockfile they read, with the new fields.
UpdateLock(j) ==
  /\ jobPc[j] = "update"
  /\ lock' = jobLock[j]
  /\ jobPc' = [jobPc EXCEPT ![j] = "idle"]
  /\ jobTarget' = [jobTarget EXCEPT ![j] = Unread]
  /\ jobLock' = [jobLock EXCEPT ![j] = NoLock]
  /\ UNCHANGED << tree, dist, bundles, tlog, rekor, jobRead, jobs >>

\* An error of the manifest, of Sigstore or of the service, or the end of the
\* process.
StopJob(j) ==
  /\ jobPc[j] # "idle"
  /\ jobPc' = [jobPc EXCEPT ![j] = "idle"]
  /\ jobRead' = [jobRead EXCEPT ![j] = Unread]
  /\ jobTarget' = [jobTarget EXCEPT ![j] = Unread]
  /\ jobLock' = [jobLock EXCEPT ![j] = NoLock]
  /\ UNCHANGED << tree, dist, bundles, lock, tlog, rekor, jobs >>

ReleaseNext ==
  \/ \E f \in SourceFiles : EditSource(f)
  \/ \E j \in Jobs :
       \/ BeginBuild(j)
       \/ \E f \in SourceFiles : CollectFile(j, f)
       \/ WriteArtifact(j)
       \/ WriteBuildLock(j)
       \/ \E a \in dist : BeginSign(j, a) \/ BeginPublish(j, a)
       \/ SignArtifact(j)
       \/ \E answered \in BOOLEAN : PublishEntry(j, answered)
       \/ UpdateLock(j)
       \/ StopJob(j)

ReleaseSpec == ReleaseInit /\ [][ReleaseNext]_releaseVars

-----------------------------------------------------------------------------
(* What skill-lock.json says is true of the artifact it names: the artifact had
   been completely written before, a provenance means that its digest was
   signed, and an entry id from publish is that of its own digest.  Only what
   was signed is in the log.  A build that ends between its two files, an edit,
   another signing or an older lockfile written back in between, an answer that
   is lost and the publishing again never mix two artifacts in one lockfile. *)
LockfileIsTrue ==
  /\ lock # NoLock => lock.sha \in dist
  /\ lock.prov => lock.sha \in rekor
  /\ lock.index # 0 => tlog[lock.index] = lock.sha
  /\ \A i \in 1 .. Len(tlog) : tlog[i] \in rekor
=============================================================================
