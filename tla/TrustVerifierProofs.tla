------------------------ MODULE TrustVerifierProofs ------------------------
(***************************************************************************)
(* For any number of skills, requests and digests: a skill is verified by  *)
(* one goroutine only, "verified" stands for one digest, and the verifier  *)
(* implements TrustTiers.                                                  *)
(***************************************************************************)
EXTENDS TrustVerifier, TLAPS

Running == JobPcs \ {"none", "done"}

(* What a goroutine's steps have established when it is at each place. *)
StepsOK(j) ==
  /\ j.pc \in {"resolve", "stat", "lockfile", "hash"} => j.steps = NoSteps
  /\ j.pc \in {"signature", "tlog", "policy"} =>
       j.artifact /\ j.sha \in Digests /\ j.steps.hash = j.sha
  /\ j.pc = "hash" => j.sha \in Digests
  /\ j.pc \in {"tlog", "policy"} => j.steps.signature = j.sha
  /\ j.pc = "policy" => j.steps.tlog = j.sha
  /\ j.pc = "write" /\ j.tier = "verified" =>
       /\ j.steps.hash # None
       /\ j.steps.signature = j.steps.hash
       /\ j.steps.tlog = j.steps.hash
       /\ j.steps.policy # None

JobStepsOK == \A q \in Requests : StepsOK(job[q])

(* A goroutine that runs belongs to a skill that is in flight, and one that
   has ended to a skill that has been decided. *)
JobsInFlight ==
  \A q \in Requests :
    /\ job[q].pc # "none" => job[q].skill \in Skills
    /\ job[q].pc \in Running => cache[job[q].skill].state = "inflight"
    /\ job[q].pc = "done" => cache[job[q].skill].state = "done"

(* A request starts its goroutine, and gets its answer, when it ends. *)
RequestsOK ==
  \A q \in Requests :
    /\ req[q].pc # "done" => job[q].pc = "none" /\ answer[q] = NoAnswer
    /\ req[q].pc = "miss" => req[q].skill \in Skills

IInv ==
  /\ TypeOK
  /\ JobStepsOK
  /\ JobsInFlight
  /\ RequestsOK
  /\ OneVerificationPerSkill
  /\ VerifiedIsOneVersion

-----------------------------------------------------------------------------
(* Initially nothing has been asked for. *)
LEMMA InitIInv == Init => IInv
<1> SUFFICES ASSUME Init PROVE IInv
  OBVIOUS
<1>1. NoSteps \in StepResults
  BY DEF NoSteps, StepResults
<1>2. NoJob \in Jobs
  BY <1>1 DEF NoJob, Jobs, JobPcs, Tiers
<1>3. [state |-> "absent", tier |-> "unverified", steps |-> NoSteps] \in CacheEntries
  BY <1>1 DEF CacheEntries, Tiers
<1>4. disk \in [Skills -> [Files -> Digests \cup {None}]]
  <2>1. PICK d \in Digests :
          disk \in [Skills -> {[f \in Files |-> d], [f \in Files |-> None]}]
    BY DEF Init
  <2>2. {[f \in Files |-> d], [f \in Files |-> None]}
          \subseteq [Files -> Digests \cup {None}]
    OBVIOUS
  <2> QED BY <2>1, <2>2
<1>5. TypeOK
  <2>1. changes \in 0 .. MaxChanges
    BY VerifierAssumption DEF Init
  <2>2. closed \in BOOLEAN /\ up \in BOOLEAN /\ manifest \in Manifests \cup {None}
    BY DEF Init
  <2>3. cache \in [Skills -> CacheEntries] /\ job \in [Requests -> Jobs]
    BY <1>2, <1>3 DEF Init
  <2>4. /\ req \in [Requests -> [pc : {"new", "miss", "done"},
                                 skill : Skills \cup {None}]]
        /\ answer \in [Requests -> Tiers \cup {NoAnswer}]
    BY DEF Init
  <2> QED BY <1>4, <2>1, <2>2, <2>3, <2>4 DEF TypeOK
<1>6. JobStepsOK
  BY DEF Init, JobStepsOK, StepsOK, NoJob
<1>7. JobsInFlight /\ RequestsOK /\ OneVerificationPerSkill /\ VerifiedIsOneVersion
  BY DEF Init, JobsInFlight, RequestsOK, OneVerificationPerSkill,
         VerifiedIsOneVersion, NoJob, Running, JobPcs
<1> QED BY <1>5, <1>6, <1>7 DEF IInv

-----------------------------------------------------------------------------
(* A step of a running goroutine that changes its own state only and keeps
   what its steps have established. *)
LEMMA JobStep ==
  ASSUME IInv, NEW q \in Requests, NEW j \in Jobs,
         job' = [job EXCEPT ![q] = j],
         job[q].pc \in Running, j.pc \in Running,
         j.skill = job[q].skill, StepsOK(j),
         UNCHANGED << disk, manifest, changes, cache, req, answer, closed, up >>
  PROVE  IInv'
<1> USE DEF IInv
<1>1. TypeOK'
  BY DEF TypeOK
<1>2. JobStepsOK'
  BY DEF JobStepsOK, TypeOK
<1>3. JobsInFlight'
  BY DEF JobsInFlight, TypeOK, Running, JobPcs
<1>4. RequestsOK'
  BY DEF RequestsOK, TypeOK, Running, JobPcs
<1>5. OneVerificationPerSkill'
  BY DEF OneVerificationPerSkill, TypeOK, Running, JobPcs
<1>6. VerifiedIsOneVersion'
  BY DEF VerifiedIsOneVersion
<1> QED BY <1>1, <1>2, <1>3, <1>4, <1>5, <1>6

(* A pipeline that stops at a failing step leaves a tier below "verified". *)
LEMMA FailKeepsIInv ==
  ASSUME IInv, NEW q \in Requests, job[q].pc \in Running, Fail(q), OnlyJob
  PROVE  IInv'
<1> DEFINE j == [job[q] EXCEPT !.pc = "write", !.tier = FailedTier(job[q].steps)]
<1>1. job[q] \in Jobs
  BY DEF IInv, TypeOK
<1>2. FailedTier(job[q].steps) \in Tiers \ {"verified"}
  BY DEF FailedTier, Tiers
<1>3. j \in Jobs /\ j.pc = "write" /\ j.skill = job[q].skill /\ j.tier # "verified"
  BY <1>1, <1>2 DEF Jobs, JobPcs
<1>4. job' = [job EXCEPT ![q] = j]
  BY DEF Fail, Finish, IInv, TypeOK
<1>5. StepsOK(j)
  BY <1>3 DEF StepsOK
<1> HIDE DEF j
<1> QED BY <1>3, <1>4, <1>5, JobStep DEF OnlyJob, Running, JobPcs

-----------------------------------------------------------------------------
(* Each action keeps the invariant. *)

LEMMA EnvironmentKeepsIInv ==
  ASSUME IInv,
         \/ \E s \in Skills, f \in Files, d \in Digests \cup {None} :
              ReplaceFile(s, f, d)
         \/ \E m \in Manifests \cup {None} : ReplaceManifest(m)
         \/ Close
  PROVE  IInv'
<1>1. UNCHANGED << cache, req, answer, job >>
  BY DEF ReplaceFile, ReplaceManifest, Close
<1>2. TypeOK'
  <2>1. changes' \in 0 .. MaxChanges
    BY VerifierAssumption DEF IInv, TypeOK, ReplaceFile, ReplaceManifest, Close
  <2>2. disk' \in [Skills -> [Files -> Digests \cup {None}]]
    BY DEF IInv, TypeOK, ReplaceFile, ReplaceManifest, Close
  <2>3. /\ manifest' \in Manifests \cup {None}
        /\ closed' \in BOOLEAN /\ up' \in BOOLEAN
    BY Zenon DEF IInv, TypeOK, ReplaceFile, ReplaceManifest, Close
  <2> QED BY <1>1, <2>1, <2>2, <2>3 DEF IInv, TypeOK
<1> QED
  BY <1>1, <1>2 DEF IInv, JobStepsOK, JobsInFlight, RequestsOK,
                    OneVerificationPerSkill, VerifiedIsOneVersion

LEMMA GetTierKeepsIInv ==
  ASSUME IInv, NEW q \in Requests, NEW s \in Skills, GetTier(q, s)
  PROVE  IInv'
<1> USE DEF IInv, GetTier
<1>1. cache[s] \in CacheEntries /\ "unverified" \in Tiers
  BY DEF TypeOK, Tiers
<1>2. TypeOK'
  <2>1. req' \in [Requests -> [pc : {"new", "miss", "done"},
                              skill : Skills \cup {None}]]
    BY DEF TypeOK
  <2>2. answer' \in [Requests -> Tiers \cup {NoAnswer}]
    BY <1>1 DEF TypeOK, CacheEntries
  <2> QED BY <2>1, <2>2 DEF TypeOK
<1>3. RequestsOK'
  <2>1. CASE cache[s].state = "absent"
    BY <2>1 DEF RequestsOK, TypeOK
  <2>2. CASE cache[s].state # "absent"
    BY <2>2 DEF RequestsOK, TypeOK
  <2> QED BY <2>1, <2>2
<1> QED
  BY <1>2, <1>3 DEF JobStepsOK, JobsInFlight, OneVerificationPerSkill,
                    VerifiedIsOneVersion

LEMMA StartVerificationKeepsIInv ==
  ASSUME IInv, NEW q \in Requests, StartVerification(q)
  PROVE  IInv'
<1> DEFINE s == req[q].skill
           j == [NoJob EXCEPT !.pc = "resolve", !.skill = s]
<1>1. s \in Skills /\ job[q].pc = "none"
  BY DEF IInv, RequestsOK, StartVerification
<1>2. j \in Jobs /\ j.pc = "resolve" /\ j.skill = s /\ j.steps = NoSteps
  BY <1>1 DEF NoJob, Jobs, JobPcs, Tiers, NoSteps, StepResults
<1>3. req' = [req EXCEPT ![q].pc = "done"] /\ answer' = [answer EXCEPT ![q] = "unverified"]
  BY DEF StartVerification
<1>4. CASE cache[s].state = "absent"
  <2>1. cache' = [cache EXCEPT ![s].state = "inflight"] /\ job' = [job EXCEPT ![q] = j]
    BY <1>4 DEF StartVerification
  <2> HIDE DEF j
  <2>2. TypeOK'
    <3>1. cache' \in [Skills -> CacheEntries]
      BY <1>1, <2>1, SMTT(40) DEF IInv, TypeOK, CacheEntries
    <3>2. job' \in [Requests -> Jobs]
      BY <1>2, <2>1 DEF IInv, TypeOK
    <3>3. /\ req' \in [Requests -> [pc : {"new", "miss", "done"},
                                    skill : Skills \cup {None}]]
          /\ answer' \in [Requests -> Tiers \cup {NoAnswer}]
      BY <1>3 DEF IInv, TypeOK, Tiers
    <3> QED BY <3>1, <3>2, <3>3 DEF IInv, TypeOK, StartVerification
  <2>3. JobStepsOK'
    BY <1>2, <2>1 DEF IInv, TypeOK, JobStepsOK, StepsOK
  <2>4. \A r \in Requests : job[r].pc # "none" => job[r].skill # s
    BY <1>4 DEF IInv, JobsInFlight, TypeOK, Jobs, Running
  <2>5. JobsInFlight'
    BY <1>1, <1>2, <2>1, <2>4 DEF IInv, TypeOK, JobsInFlight, Running, JobPcs, CacheEntries
  <2>6. RequestsOK'
    BY <1>1, <1>3, <2>1 DEF IInv, TypeOK, RequestsOK
  <2>7. OneVerificationPerSkill'
    BY <1>2, <2>1, <2>4 DEF IInv, TypeOK, OneVerificationPerSkill
  <2>8. VerifiedIsOneVersion'
    BY <2>1 DEF IInv, TypeOK, VerifiedIsOneVersion, CacheEntries
  <2> QED BY <2>2, <2>3, <2>5, <2>6, <2>7, <2>8 DEF IInv
<1>5. CASE cache[s].state # "absent"
  <2>1. UNCHANGED << cache, job >>
    BY <1>5 DEF StartVerification
  <2>2. TypeOK'
    BY <1>3, <2>1 DEF IInv, TypeOK, StartVerification, Tiers
  <2>3. RequestsOK'
    BY <1>1, <1>3, <2>1 DEF IInv, TypeOK, RequestsOK
  <2> QED
    BY <2>1, <2>2, <2>3 DEF IInv, JobStepsOK, JobsInFlight,
                            OneVerificationPerSkill, VerifiedIsOneVersion
<1> QED BY <1>4, <1>5

LEMMA LookupKeepsIInv ==
  ASSUME IInv, NEW q \in Requests,
         ResolveArtifactHash(q) \/ StatArtifact(q) \/ ReadLockfile(q)
  PROVE  IInv'
<1>1. /\ job[q] \in Jobs /\ job[q].pc \in {"resolve", "stat", "lockfile"}
      /\ job[q].pc \in Running /\ job[q].skill \in Skills /\ job[q].steps = NoSteps
  BY DEF IInv, TypeOK, JobStepsOK, StepsOK, JobsInFlight, Running, JobPcs,
         ResolveArtifactHash, StatArtifact, ReadLockfile, At
<1>2. FilesOf(q)["lock"] \in Digests \cup {None} /\ OnlyJob
  BY <1>1 DEF IInv, TypeOK, FilesOf, Files, ResolveArtifactHash, StatArtifact, ReadLockfile
<1>3. PICK j \in Jobs :
        /\ job' = [job EXCEPT ![q] = j]
        /\ j.pc \in {"write", "stat", "lockfile", "hash"}
        /\ j.pc = "write" => j.tier = "unverified"
        /\ j.pc = "hash" => j.sha \in Digests
        /\ j.skill = job[q].skill
        /\ j.steps = NoSteps
  <2>1. CASE ResolveArtifactHash(q)
    <3>1. CASE FilesOf(q)["lock"] = None
      <4> DEFINE k == [job[q] EXCEPT !.pc = "write", !.tier = "unverified"]
      <4>1. k \in Jobs
        BY <1>1, <1>2 DEF Jobs, JobPcs, Tiers, FilesOf
      <4> QED BY <4>1, <1>1, <2>1, <3>1 DEF ResolveArtifactHash, Finish, IInv, TypeOK, Jobs
    <3>2. CASE FilesOf(q)["lock"] # None
      <4> DEFINE k == [job[q] EXCEPT !.pc = "stat"]
      <4>1. k \in Jobs
        BY <1>1, <1>2 DEF Jobs, JobPcs, Tiers, FilesOf
      <4> QED BY <4>1, <1>1, <2>1, <3>2 DEF ResolveArtifactHash, Goto, IInv, TypeOK, Jobs
    <3> QED BY <3>1, <3>2
  <2>2. CASE StatArtifact(q)
    <3> DEFINE k == [job[q] EXCEPT !.pc = "lockfile",
                               !.artifact = FilesOf(q)["artifact"] # None]
    <3>1. k \in Jobs
      BY <1>1, <1>2 DEF Jobs, JobPcs, Tiers, FilesOf
    <3> QED BY <3>1, <1>1, <2>2 DEF StatArtifact, IInv, TypeOK, Jobs
  <2>3. CASE ReadLockfile(q)
    <3>1. CASE FilesOf(q)["lock"] = None
      <4> DEFINE k == [job[q] EXCEPT !.pc = "write", !.tier = "unverified"]
      <4>1. k \in Jobs
        BY <1>1, <1>2 DEF Jobs, JobPcs, Tiers, FilesOf
      <4> QED BY <4>1, <1>1, <2>3, <3>1 DEF ReadLockfile, Finish, IInv, TypeOK, Jobs
    <3>2. CASE FilesOf(q)["lock"] # None
      <4> DEFINE k == [job[q] EXCEPT !.pc = "hash", !.sha = FilesOf(q)["lock"]]
      <4>1. k \in Jobs
        BY <1>1, <1>2 DEF Jobs, JobPcs, Tiers, FilesOf
      <4> QED BY <4>1, <1>1, <1>2, <2>3, <3>2 DEF ReadLockfile, IInv, TypeOK, Jobs
    <3> QED BY <3>1, <3>2
  <2> QED BY <2>1, <2>2, <2>3
<1>4. StepsOK(j)
  BY <1>3 DEF StepsOK
<1> QED BY <1>1, <1>2, <1>3, <1>4, JobStep DEF OnlyJob, Running, JobPcs

LEMMA HashCheckKeepsIInv ==
  ASSUME IInv, NEW q \in Requests, HashCheck(q)
  PROVE  IInv'
<1>1. /\ job[q] \in Jobs /\ job[q].pc = "hash" /\ job[q].pc \in Running
      /\ job[q].steps = NoSteps /\ job[q].sha \in Digests
  BY DEF IInv, TypeOK, JobStepsOK, StepsOK, Running, JobPcs, HashCheck, At
<1>2. CASE Fail(q)
  BY <1>1, <1>2, FailKeepsIInv DEF HashCheck
<1>3. CASE /\ job[q].artifact
           /\ Pass(q, [job[q].steps EXCEPT !.hash = job[q].sha], "signature")
  <2> DEFINE j == [job[q] EXCEPT !.pc = "signature",
                     !.steps = [job[q].steps EXCEPT !.hash = job[q].sha]]
  <2>1. j \in Jobs /\ j.pc = "signature" /\ j.skill = job[q].skill /\ StepsOK(j)
    BY <1>1, <1>3 DEF Jobs, JobPcs, StepResults, StepsOK, NoSteps
  <2>2. job' = [job EXCEPT ![q] = j]
    BY <1>3 DEF Pass, IInv, TypeOK
  <2> HIDE DEF j
  <2> QED BY <1>1, <2>1, <2>2, JobStep DEF HashCheck, OnlyJob, Running, JobPcs
<1> QED BY <1>2, <1>3 DEF HashCheck

LEMMA VerifySignatureKeepsIInv ==
  ASSUME IInv, NEW q \in Requests, VerifySignature(q)
  PROVE  IInv'
<1>1. /\ job[q] \in Jobs /\ job[q].pc = "signature" /\ job[q].pc \in Running
      /\ job[q].artifact /\ job[q].sha \in Digests
      /\ job[q].steps.hash = job[q].sha
  BY DEF IInv, TypeOK, JobStepsOK, StepsOK, Running, JobPcs, VerifySignature, At
<1>2. CASE Fail(q)
  BY <1>1, <1>2, FailKeepsIInv DEF VerifySignature
<1>3. CASE /\ FilesOf(q)["bundle"] = job[q].sha
           /\ Pass(q, [job[q].steps EXCEPT !.signature = FilesOf(q)["bundle"]], "tlog")
  <2> DEFINE j == [job[q] EXCEPT !.pc = "tlog",
                     !.steps = [job[q].steps EXCEPT !.signature = job[q].sha]]
  <2>1. j \in Jobs /\ j.pc = "tlog" /\ j.skill = job[q].skill /\ StepsOK(j)
    BY <1>1 DEF Jobs, JobPcs, StepResults, StepsOK
  <2>2. job' = [job EXCEPT ![q] = j]
    BY <1>3 DEF Pass, IInv, TypeOK
  <2> HIDE DEF j
  <2> QED BY <1>1, <2>1, <2>2, JobStep DEF VerifySignature, OnlyJob, Running, JobPcs
<1> QED BY <1>2, <1>3 DEF VerifySignature

LEMMA VerifyTlogKeepsIInv ==
  ASSUME IInv, NEW q \in Requests, VerifyTlog(q)
  PROVE  IInv'
<1>1. /\ job[q] \in Jobs /\ job[q].pc = "tlog" /\ job[q].pc \in Running
      /\ job[q].artifact /\ job[q].sha \in Digests
      /\ job[q].steps.hash = job[q].sha /\ job[q].steps.signature = job[q].sha
  BY DEF IInv, TypeOK, JobStepsOK, StepsOK, Running, JobPcs, VerifyTlog, At
<1>2. CASE Fail(q)
  BY <1>1, <1>2, FailKeepsIInv DEF VerifyTlog
<1>3. CASE /\ FilesOf(q)["log"] = job[q].sha
           /\ Pass(q, [job[q].steps EXCEPT !.tlog = FilesOf(q)["log"]], "policy")
  <2> DEFINE j == [job[q] EXCEPT !.pc = "policy",
                     !.steps = [job[q].steps EXCEPT !.tlog = job[q].sha]]
  <2>1. j \in Jobs /\ j.pc = "policy" /\ j.skill = job[q].skill /\ StepsOK(j)
    BY <1>1 DEF Jobs, JobPcs, StepResults, StepsOK
  <2>2. job' = [job EXCEPT ![q] = j]
    BY <1>3 DEF Pass, IInv, TypeOK
  <2> HIDE DEF j
  <2> QED BY <1>1, <2>1, <2>2, JobStep DEF VerifyTlog, OnlyJob, Running, JobPcs
<1> QED BY <1>2, <1>3 DEF VerifyTlog

LEMMA VerifyPolicyKeepsIInv ==
  ASSUME IInv, NEW q \in Requests, VerifyPolicy(q)
  PROVE  IInv'
<1>1. /\ job[q] \in Jobs /\ job[q].pc = "policy" /\ job[q].pc \in Running
      /\ job[q].artifact /\ job[q].sha \in Digests
      /\ job[q].steps.hash = job[q].sha /\ job[q].steps.signature = job[q].sha
      /\ job[q].steps.tlog = job[q].sha
  BY DEF IInv, TypeOK, JobStepsOK, StepsOK, Running, JobPcs, VerifyPolicy, At
<1>2. CASE Fail(q) /\ OnlyJob
  BY <1>1, <1>2, FailKeepsIInv
<1>3. CASE up' = FALSE /\ UNCHANGED << disk, manifest, changes, cache, req,
                                       answer, closed, job >>
  <2>1. TypeOK'
    BY <1>3, Zenon DEF IInv, TypeOK
  <2> QED
    BY <1>3, <2>1 DEF IInv, JobStepsOK, JobsInFlight, RequestsOK,
                      OneVerificationPerSkill, VerifiedIsOneVersion
<1>4. CASE /\ manifest # None
           /\ job' = [job EXCEPT ![q].pc = "write",
                        ![q].steps.policy = manifest.of,
                        ![q].tier = PassedTier(job[q].artifact)]
           /\ OnlyJob
  <2> DEFINE j == [job[q] EXCEPT !.pc = "write",
                     !.steps = [job[q].steps EXCEPT !.policy = manifest.of],
                     !.tier = "verified"]
  <2>1. manifest.of \in Skills /\ manifest.of # None
    BY <1>4, VerifierAssumption DEF IInv, TypeOK, Manifests
  <2>2. PassedTier(job[q].artifact) = "verified"
    BY <1>1 DEF PassedTier
  <2>3. j \in Jobs /\ j.pc = "write" /\ j.skill = job[q].skill
    BY <1>1, <2>1 DEF Jobs, JobPcs, StepResults, Tiers
  <2>4. StepsOK(j)
    BY <1>1, <2>1, VerifierAssumption DEF Jobs, StepResults, StepsOK
  <2>5. job' = [job EXCEPT ![q] = j]
    BY <1>4, <2>2, ZenonT(60) DEF IInv, TypeOK
  <2> HIDE DEF j
  <2> QED BY <1>1, <1>4, <2>3, <2>4, <2>5, JobStep DEF OnlyJob, Running, JobPcs
<1> QED BY <1>2, <1>3, <1>4 DEF VerifyPolicy

LEMMA WriteResultKeepsIInv ==
  ASSUME IInv, NEW q \in Requests, WriteResult(q)
  PROVE  IInv'
<1> DEFINE s == job[q].skill
           c == [state |-> "done", tier |-> job[q].tier, steps |-> job[q].steps]
<1>1. /\ job[q] \in Jobs /\ job[q].pc = "write" /\ s \in Skills
      /\ StepsOK(job[q])
  BY DEF IInv, TypeOK, JobStepsOK, JobsInFlight, Running, JobPcs, WriteResult, At
<1>2. cache' = [cache EXCEPT ![s] = c] /\ job' = [job EXCEPT ![q].pc = "done"]
  BY DEF WriteResult, Goto
<1>3. c \in CacheEntries
  BY <1>1 DEF Jobs, CacheEntries
<1>4. \A r \in Requests : r # q /\ job[r].pc # "none" => job[r].skill # s
  BY <1>1 DEF IInv, OneVerificationPerSkill
<1>5. TypeOK'
  <2>1. cache' \in [Skills -> CacheEntries] /\ job' \in [Requests -> Jobs]
    BY <1>1, <1>2, <1>3 DEF IInv, TypeOK, Jobs, JobPcs
  <2> QED BY <2>1 DEF IInv, TypeOK, WriteResult
<1>6. JobStepsOK'
  BY <1>2 DEF IInv, TypeOK, JobStepsOK, StepsOK, Jobs
<1>7. JobsInFlight'
  BY <1>1, <1>2, <1>4 DEF IInv, TypeOK, JobsInFlight, Running, Jobs
<1>8. RequestsOK'
  BY <1>1, <1>2 DEF IInv, TypeOK, RequestsOK, WriteResult, Jobs
<1>9. OneVerificationPerSkill'
  BY <1>1, <1>2 DEF IInv, TypeOK, OneVerificationPerSkill, Jobs
<1>10. VerifiedIsOneVersion'
  BY <1>1, <1>2 DEF IInv, TypeOK, VerifiedIsOneVersion, StepsOK
<1> QED BY <1>5, <1>6, <1>7, <1>8, <1>9, <1>10 DEF IInv

-----------------------------------------------------------------------------
LEMMA NextIInv == IInv /\ [Next]_vars => IInv'
<1> SUFFICES ASSUME IInv, [Next]_vars PROVE IInv'
  OBVIOUS
<1>1. CASE \/ \E s \in Skills, f \in Files, d \in Digests \cup {None} :
                ReplaceFile(s, f, d)
           \/ \E m \in Manifests \cup {None} : ReplaceManifest(m)
           \/ Close
  BY <1>1, EnvironmentKeepsIInv
<1>2. CASE \E q \in Requests, s \in Skills : GetTier(q, s)
  BY <1>2, GetTierKeepsIInv
<1>3. CASE \E q \in Requests : StartVerification(q)
  BY <1>3, StartVerificationKeepsIInv
<1>4. CASE \E q \in Requests : LocalStep(q)
  BY <1>4, LookupKeepsIInv, HashCheckKeepsIInv, VerifySignatureKeepsIInv,
     VerifyPolicyKeepsIInv, WriteResultKeepsIInv DEF LocalStep
<1>5. CASE \E q \in Requests : VerifyTlog(q)
  BY <1>5, VerifyTlogKeepsIInv
<1>6. CASE UNCHANGED vars
  BY <1>6 DEF vars, IInv, TypeOK, JobStepsOK, JobsInFlight, RequestsOK,
              OneVerificationPerSkill, VerifiedIsOneVersion
<1> QED BY <1>1, <1>2, <1>3, <1>4, <1>5, <1>6 DEF Next

(* The inductive invariant holds of every behaviour of the verifier. *)
THEOREM Invariant == Spec => []IInv
<1> QED BY InitIInv, NextIInv, PTL DEF Spec

(* The verifier's state keeps its types. *)
THEOREM TypeCorrect == Spec => []TypeOK
<1>1. IInv => TypeOK
  BY DEF IInv
<1> QED BY <1>1, Invariant, PTL

(* The double check of startVerification suffices: however requests
   interleave, one goroutine verifies a skill. *)
THEOREM VerifiedOnce == Spec => []OneVerificationPerSkill
<1>1. IInv => OneVerificationPerSkill
  BY DEF IInv
<1> QED BY <1>1, Invariant, PTL

(* A verified skill is one version, whatever happens to its files meanwhile. *)
THEOREM VerifiedMeansOneDigest == Spec => []VerifiedIsOneVersion
<1>1. IInv => VerifiedIsOneVersion
  BY DEF IInv
<1> QED BY <1>1, Invariant, PTL

-----------------------------------------------------------------------------
(* The refinement.  GetTier answers, StartVerification asks or answers, and
   WriteResult decides; every other step leaves statuses and answers alone. *)

LEMMA InitRefines == Init => Abstract!Init
BY DEF Init, Abstract!Init, Status

LEMMA StutterRefines ==
  ASSUME UNCHANGED << cache, answer >>
  PROVE  UNCHANGED Abstract!vars
BY DEF Abstract!vars, Status

LEMMA GetTierRefines ==
  ASSUME IInv, NEW q \in Requests, NEW s \in Skills, GetTier(q, s)
  PROVE  [Abstract!Next]_(Abstract!vars)
<1>1. CASE cache[s].state = "absent"
  BY <1>1, StutterRefines DEF GetTier
<1>2. CASE cache[s].state # "absent"
  <2> DEFINE t == IF cache[s].state = "inflight" THEN "unverified"
                  ELSE cache[s].tier
  <2>1. cache[s].tier \in Tiers /\ cache[s].state \in {"absent", "inflight", "done"}
    BY DEF IInv, TypeOK, CacheEntries
  <2>2. Status[s] = IF cache[s].state = "inflight" THEN "pending" ELSE cache[s].tier
    BY <1>2 DEF Status
  <2>3. t \in Abstract!Tiers
    BY <2>1 DEF Tiers, Abstract!Tiers
  <2>4. Status[s] # "unknown" /\ t \in {"unverified"} \cup ({Status[s]} \cap Abstract!Tiers)
    BY <2>1, <2>2 DEF Tiers, Abstract!Tiers
  <2>5. answer' = [answer EXCEPT ![q] = t] /\ cache' = cache
    BY <1>2 DEF GetTier
  <2>6. answer[q] = NoAnswer
    BY DEF IInv, RequestsOK, GetTier
  <2>7. UNCHANGED Status
    BY <2>5 DEF Status
  <2> HIDE DEF t
  <2>8. Abstract!Answer(q, s, t)
    BY <2>4, <2>5, <2>6, <2>7 DEF Abstract!Answer
  <2> QED BY <2>3, <2>8 DEF Abstract!Next
<1> QED BY <1>1, <1>2

LEMMA StartVerificationRefines ==
  ASSUME IInv, NEW q \in Requests, StartVerification(q)
  PROVE  [Abstract!Next]_(Abstract!vars)
<1> DEFINE s == req[q].skill
<1>1. s \in Skills /\ answer[q] = NoAnswer
  BY DEF IInv, RequestsOK, StartVerification
<1>2. answer' = [answer EXCEPT ![q] = "unverified"]
  BY DEF StartVerification
<1>3. cache[s].tier \in Tiers /\ cache[s].state \in {"absent", "inflight", "done"}
  BY <1>1 DEF IInv, TypeOK, CacheEntries
<1>4. CASE cache[s].state = "absent"
  <2>1. cache' = [cache EXCEPT ![s].state = "inflight"]
    BY <1>4 DEF StartVerification
  <2>2. Status[s] = "unknown"
    BY <1>1, <1>4 DEF Status
  <2>3. Status' = [Status EXCEPT ![s] = "pending"]
    BY <1>1, <2>1, ZenonT(60) DEF Status, IInv, TypeOK, CacheEntries
  <2>4. Abstract!Ask(q, s)
    BY <1>1, <1>2, <2>2, <2>3 DEF Abstract!Ask
  <2> QED BY <1>1, <2>4 DEF Abstract!Next
<1>5. CASE cache[s].state # "absent"
  <2>1. UNCHANGED Status
    BY <1>5 DEF StartVerification, Status
  <2>2. Status[s] # "unknown"
    BY <1>1, <1>3, <1>5 DEF Status, Tiers
  <2>3. Abstract!Answer(q, s, "unverified")
    BY <1>1, <1>2, <2>1, <2>2 DEF Abstract!Answer
  <2> QED BY <1>1, <2>3 DEF Abstract!Next, Abstract!Tiers
<1> QED BY <1>4, <1>5

LEMMA WriteResultRefines ==
  ASSUME IInv, NEW q \in Requests, WriteResult(q)
  PROVE  [Abstract!Next]_(Abstract!vars)
<1> DEFINE s == job[q].skill
           t == job[q].tier
<1>1. s \in Skills /\ t \in Abstract!Tiers /\ cache[s].state = "inflight"
  BY DEF IInv, TypeOK, JobsInFlight, Running, JobPcs, Jobs, WriteResult, At,
         Tiers, Abstract!Tiers
<1>2. cache' = [cache EXCEPT ![s] =
                  [state |-> "done", tier |-> t, steps |-> job[q].steps]]
  BY DEF WriteResult
<1>3. Status[s] = "pending"
  BY <1>1 DEF Status
<1>4. Status' = [Status EXCEPT ![s] = t]
  BY <1>1, <1>2 DEF Status, IInv, TypeOK
<1>5. Abstract!Decide(s, t)
  BY <1>3, <1>4 DEF Abstract!Decide, WriteResult
<1> QED BY <1>1, <1>5 DEF Abstract!Next

LEMMA NextRefines == IInv /\ [Next]_vars => [Abstract!Next]_(Abstract!vars)
<1> SUFFICES ASSUME IInv, [Next]_vars PROVE [Abstract!Next]_(Abstract!vars)
  OBVIOUS
<1>1. CASE \E q \in Requests, s \in Skills : GetTier(q, s)
  BY <1>1, GetTierRefines
<1>2. CASE \E q \in Requests : StartVerification(q)
  BY <1>2, StartVerificationRefines
<1>3. CASE \E q \in Requests : WriteResult(q)
  BY <1>3, WriteResultRefines
<1>4. CASE UNCHANGED << cache, answer >>
  BY <1>4, StutterRefines
<1>5. ASSUME NEW q \in Requests, LocalStep(q), ~WriteResult(q)
      PROVE  UNCHANGED << cache, answer >>
  BY <1>5 DEF LocalStep, ResolveArtifactHash, StatArtifact, ReadLockfile,
              HashCheck, VerifySignature, VerifyPolicy, OnlyJob
<1>6. ASSUME NEW q \in Requests, VerifyTlog(q)
      PROVE  UNCHANGED << cache, answer >>
  BY <1>6 DEF VerifyTlog, OnlyJob
<1>7. ASSUME \/ \E s \in Skills, f \in Files, d \in Digests \cup {None} :
                  ReplaceFile(s, f, d)
             \/ \E m \in Manifests \cup {None} : ReplaceManifest(m)
             \/ Close
             \/ UNCHANGED vars
      PROVE  UNCHANGED << cache, answer >>
  BY <1>7 DEF ReplaceFile, ReplaceManifest, Close, vars
<1> QED BY <1>1, <1>2, <1>3, <1>4, <1>5, <1>6, <1>7 DEF Next

(* The trust verifier implements TrustTiers: verified at most once, a tier
   that never changes, and answers that never say more than the tier. *)
THEOREM Refinement == Spec => ImplementsTrustTiers
<1> QED
  BY InitRefines, NextRefines, Invariant, PTL
  DEF Spec, ImplementsTrustTiers, Abstract!Spec
=============================================================================
