--------------------------- MODULE TrustVerifier ---------------------------
(***************************************************************************)
(* The session's trust verifier (proxy/trust_verifier.go) and the          *)
(* verification pipeline it runs (verify/).  A request asks for the tier   *)
(* of a skill; the first one starts a goroutine that runs the pipeline,    *)
(* and every request is answered from the cache.                           *)
(*                                                                         *)
(* The pipeline reads the skill's files one after the other, while an      *)
(* installation may be replacing them, and asks the transparency log.  A   *)
(* digest stands for the content that has it.                              *)
(*                                                                         *)
(* The pipeline looks for the manifest two directories above the artifact, *)
(* which for TrustVerifier's paths is the lockfile directory itself: one   *)
(* manifest is shared by all skills.                                       *)
(***************************************************************************)
EXTENDS Naturals

CONSTANTS
  Skills,              \* skill IDs, each with a directory of its own
  Requests,            \* requests of the session, each asks once
  Digests,             \* SHA-256 digests
  Verdicts,            \* what manifests are found to be
  HasPolicyEvaluator,  \* whether the pipeline was given one
  None,                \* no file, no entry, no step passed
  NoAnswer,            \* a request that has not been answered
  MaxChanges           \* bound: changes of files and of the log

ASSUME VerifierAssumption ==
  /\ None \notin Digests /\ None \notin Skills
  /\ NoAnswer \notin {"verified", "partial", "unverified"}
  /\ HasPolicyEvaluator \in BOOLEAN
  /\ Verdicts \subseteq {"invalid", "accept", "deny"}
  /\ MaxChanges \in Nat

VARIABLES
  disk,      \* each skill: what lockfile, artifact, bundle and log entry hold
  manifest,  \* the manifest above the skills' directories
  changes,   \* changes made
  cache,     \* TrustVerifier.cache
  req,       \* each request: where it is, the skill it is for
  answer,    \* the tier that GetTier returned to it
  job,       \* the runVerification goroutine that the request started
  closed,    \* the context is cancelled
  up         \* the proxy process is running

vars == << disk, manifest, changes, cache, req, answer, job, closed, up >>

Files == {"lock", "artifact", "bundle", "log"}

Tiers == {"verified", "partial", "unverified"}

Manifests == [of : Skills, verdict : Verdicts]

\* StepResult: what a step that passed has looked at.
StepResults == [hash : Digests \cup {None}, signature : Digests \cup {None},
                tlog : Digests \cup {None}, policy : Skills \cup {None}]

NoSteps == [hash |-> None, signature |-> None, tlog |-> None, policy |-> None]

JobPcs == {"none", "resolve", "stat", "lockfile", "hash", "signature", "tlog",
           "policy", "write", "done"}

Jobs == [pc : JobPcs, skill : Skills \cup {None}, artifact : BOOLEAN,
         sha : Digests \cup {None}, steps : StepResults, tier : Tiers]

CacheEntries == [state : {"absent", "inflight", "done"}, tier : Tiers,
                 steps : StepResults]

TypeOK ==
  /\ disk \in [Skills -> [Files -> Digests \cup {None}]]
  /\ manifest \in Manifests \cup {None}
  /\ changes \in 0 .. MaxChanges
  /\ cache \in [Skills -> CacheEntries]
  /\ req \in [Requests -> [pc : {"new", "miss", "done"},
                           skill : Skills \cup {None}]]
  /\ answer \in [Requests -> Tiers \cup {NoAnswer}]
  /\ job \in [Requests -> Jobs]
  /\ closed \in BOOLEAN
  /\ up \in BOOLEAN

-----------------------------------------------------------------------------
NoJob == [pc |-> "none", skill |-> None, artifact |-> FALSE, sha |-> None,
          steps |-> NoSteps, tier |-> "unverified"]

Init ==
  /\ \E d \in Digests :
       disk \in [Skills -> {[f \in Files |-> d], [f \in Files |-> None]}]
  /\ manifest \in Manifests \cup {None}
  /\ changes = 0
  /\ cache = [s \in Skills |->
                [state |-> "absent", tier |-> "unverified", steps |-> NoSteps]]
  /\ req = [q \in Requests |-> [pc |-> "new", skill |-> None]]
  /\ answer = [q \in Requests |-> NoAnswer]
  /\ job = [q \in Requests |-> NoJob]
  /\ closed = FALSE
  /\ up = TRUE

-----------------------------------------------------------------------------
(* The world outside the proxy: a build or an installation replaces a file, *)
(* and the log gets another entry for the skill.                            *)

ReplaceFile(s, f, d) ==
  /\ up
  /\ changes < MaxChanges
  /\ disk' = [disk EXCEPT ![s][f] = d]
  /\ changes' = changes + 1
  /\ UNCHANGED << manifest, cache, req, answer, job, closed, up >>

ReplaceManifest(m) ==
  /\ up
  /\ changes < MaxChanges
  /\ manifest' = m
  /\ changes' = changes + 1
  /\ UNCHANGED << disk, cache, req, answer, job, closed, up >>

-----------------------------------------------------------------------------
(* GetTier, called by the handler. *)

\* The fast path, under the read lock.
GetTier(q, s) ==
  /\ up
  /\ req[q].pc = "new"
  /\ IF cache[s].state = "absent"
     THEN /\ req' = [req EXCEPT ![q] = [pc |-> "miss", skill |-> s]]
          /\ UNCHANGED answer
     ELSE /\ req' = [req EXCEPT ![q] = [pc |-> "done", skill |-> s]]
          /\ answer' = [answer EXCEPT ![q] =
                          IF cache[s].state = "inflight" THEN "unverified"
                          ELSE cache[s].tier]
  /\ UNCHANGED << disk, manifest, changes, cache, job, closed, up >>

\* A startVerification that does not look again under the write lock.
NoDoubleCheck(q) ==
  /\ up
  /\ req[q].pc = "miss"
  /\ cache' = [cache EXCEPT ![req[q].skill].state = "inflight"]
  /\ job' = [job EXCEPT ![q] = [NoJob EXCEPT !.pc = "resolve",
                                             !.skill = req[q].skill]]
  /\ req' = [req EXCEPT ![q].pc = "done"]
  /\ answer' = [answer EXCEPT ![q] = "unverified"]
  /\ UNCHANGED << disk, manifest, changes, closed, up >>

\* startVerification: look again under the write lock, mark the skill, start
\* the goroutine.  Either way GetTier returns TrustUnverified.
StartVerification(q) ==
  /\ up
  /\ req[q].pc = "miss"
  /\ IF cache[req[q].skill].state = "absent"
     THEN /\ cache' = [cache EXCEPT ![req[q].skill].state = "inflight"]
          /\ job' = [job EXCEPT ![q] = [NoJob EXCEPT !.pc = "resolve",
                                                     !.skill = req[q].skill]]
     ELSE UNCHANGED << cache, job >>
  /\ req' = [req EXCEPT ![q].pc = "done"]
  /\ answer' = [answer EXCEPT ![q] = "unverified"]
  /\ UNCHANGED << disk, manifest, changes, closed, up >>

\* Close cancels the context that the goroutines were given.
Close ==
  /\ up
  /\ ~closed
  /\ closed' = TRUE
  /\ UNCHANGED << disk, manifest, changes, cache, req, answer, job, up >>

-----------------------------------------------------------------------------
(* runVerification and Pipeline.Verify, one step for each look at a file or *)
(* at the log.                                                              *)

\* The goroutine of q is at pc, and nothing but its own state changes.
At(q, pc) == up /\ job[q].pc = pc

OnlyJob == UNCHANGED << disk, manifest, changes, cache, req, answer, closed, up >>

FilesOf(q) == disk[job[q].skill]

Goto(q, pc) == job' = [job EXCEPT ![q].pc = pc]

\* AssignTier for a pipeline that stopped at a failing step, and the tier
\* when every step passed, which the cap lowers without an artifact.
FailedTier(steps) == IF steps = NoSteps THEN "unverified" ELSE "partial"

PassedTier(artifact) == IF artifact THEN "verified" ELSE "partial"

\* The pipeline ends; writeResult comes next.
Finish(q, tier) == job' = [job EXCEPT ![q].pc = "write", ![q].tier = tier]

Fail(q) == Finish(q, FailedTier(job[q].steps))

\* A step passes: its result is appended and the next one begins.
Pass(q, steps, next) == job' = [job EXCEPT ![q].pc = next, ![q].steps = steps]

\* ResolveArtifactHash: without a lockfile the skill is unverified for good.
ResolveArtifactHash(q) ==
  /\ At(q, "resolve")
  /\ IF FilesOf(q)["lock"] = None THEN Finish(q, "unverified")
     ELSE Goto(q, "stat")
  /\ OnlyJob

\* Is the artifact on disk?
StatArtifact(q) ==
  /\ At(q, "stat")
  /\ job' = [job EXCEPT ![q].pc = "lockfile",
                        ![q].artifact = FilesOf(q)["artifact"] # None]
  /\ OnlyJob

\* Verify reads the lockfile again; without it, a hard error.
ReadLockfile(q) ==
  /\ At(q, "lockfile")
  /\ IF FilesOf(q)["lock"] = None THEN Finish(q, "unverified")
     ELSE job' = [job EXCEPT ![q].pc = "hash", ![q].sha = FilesOf(q)["lock"]]
  /\ OnlyJob

\* computeAndCompareHash.  The path is empty if Stat found no artifact.
HashCheck(q) ==
  /\ At(q, "hash")
  /\ IF job[q].artifact /\ FilesOf(q)["artifact"] = job[q].sha
     THEN Pass(q, [job[q].steps EXCEPT !.hash = job[q].sha], "signature")
     ELSE Fail(q)
  /\ OnlyJob

\* A verifySignature that accepts a valid bundle of another artifact.
AnySignature(q) ==
  /\ At(q, "signature")
  /\ IF FilesOf(q)["bundle"] # None
     THEN Pass(q, [job[q].steps EXCEPT !.signature = FilesOf(q)["bundle"]],
               "tlog")
     ELSE Fail(q)
  /\ OnlyJob

\* verifySignature: the bundle must be for the digest that was hashed; the
\* trusted root may be out of reach.
VerifySignature(q) ==
  /\ At(q, "signature")
  /\ \/ /\ FilesOf(q)["bundle"] = job[q].sha
        /\ Pass(q, [job[q].steps EXCEPT !.signature = FilesOf(q)["bundle"]],
                "tlog")
     \/ Fail(q)
  /\ OnlyJob

\* A lookup that is not given the context.
LookupIgnoresContext(q) ==
  /\ At(q, "tlog")
  /\ ~closed
  /\ IF FilesOf(q)["log"] = job[q].sha
     THEN Pass(q, [job[q].steps EXCEPT !.tlog = FilesOf(q)["log"]], "policy")
     ELSE Fail(q)
  /\ OnlyJob

\* verifyTlog: the log's entry must be for the lockfile's digest; the service
\* may be out of reach, and a cancelled context ends the request.
VerifyTlog(q) ==
  /\ At(q, "tlog")
  /\ \/ /\ ~closed
        /\ FilesOf(q)["log"] = job[q].sha
        /\ Pass(q, [job[q].steps EXCEPT !.tlog = FilesOf(q)["log"]], "policy")
     \/ Fail(q)
  /\ OnlyJob

\* The manifest is read, parsed and validated, and verifyPolicy judges what was
\* read.  Evaluation may fail too.  Calling a missing evaluator panics, in a
\* goroutine that does not recover.
VerifyPolicy(q) ==
  /\ At(q, "policy")
  /\ IF manifest # None /\ manifest.verdict # "invalid" /\ ~HasPolicyEvaluator
     THEN /\ up' = FALSE
          /\ UNCHANGED << disk, manifest, changes, cache, req, answer, closed,
                          job >>
     ELSE /\ \/ /\ manifest # None
                /\ manifest.verdict = "accept"
                /\ job' = [job EXCEPT ![q].pc = "write",
                             ![q].steps.policy = manifest.of,
                             ![q].tier = PassedTier(job[q].artifact)]
             \/ Fail(q)
          /\ OnlyJob

\* A writeResult that drops the entry of a skill without a tier, to try again.
ForgetFailures(q) ==
  /\ At(q, "write")
  /\ cache' = [cache EXCEPT ![job[q].skill] =
                 [state |-> IF job[q].tier = "unverified" THEN "absent"
                            ELSE "done",
                  tier |-> job[q].tier, steps |-> job[q].steps]]
  /\ Goto(q, "done")
  /\ UNCHANGED << disk, manifest, changes, req, answer, closed, up >>

\* writeResult, under the write lock.
WriteResult(q) ==
  /\ At(q, "write")
  /\ cache' = [cache EXCEPT ![job[q].skill] =
                 [state |-> "done", tier |-> job[q].tier,
                  steps |-> job[q].steps]]
  /\ Goto(q, "done")
  /\ UNCHANGED << disk, manifest, changes, req, answer, closed, up >>

-----------------------------------------------------------------------------
LocalStep(q) ==
  \/ ResolveArtifactHash(q) \/ StatArtifact(q) \/ ReadLockfile(q)
  \/ HashCheck(q) \/ VerifySignature(q) \/ VerifyPolicy(q)
  \/ WriteResult(q)

Next ==
  \/ \E s \in Skills, f \in Files, d \in Digests \cup {None} :
       ReplaceFile(s, f, d)
  \/ \E m \in Manifests \cup {None} : ReplaceManifest(m)
  \/ \E q \in Requests, s \in Skills : GetTier(q, s)
  \/ \E q \in Requests : StartVerification(q)
  \/ \E q \in Requests : LocalStep(q)
  \/ \E q \in Requests : VerifyTlog(q)
  \/ Close

Spec == Init /\ [][Next]_vars

\* The runtime schedules the goroutines.  Two steps wait for the network.  The
\* log lookup uses http.DefaultClient, which has no timeout: only a cancelled
\* context is sure to end it.  The signature step fetches the trusted root
\* (signer/verifier.go) and is given neither a context nor a timeout
\* (verifySignature drops the one it has): nothing is sure to end it.
FairSpec == Spec /\ \A q \in Requests :
                      /\ WF_vars(job[q].pc # "signature" /\ LocalStep(q))
                      /\ WF_vars(closed /\ VerifyTlog(q))

-----------------------------------------------------------------------------
(* The verifier implements what TrustTiers promises: each skill is verified at
   most once in a session, its tier is never changed afterwards, and no
   request is told more than the tier (the double check under the write lock
   and the single writeResult of runVerification). *)
Status == [s \in Skills |->
             IF cache[s].state = "absent" THEN "unknown"
             ELSE IF cache[s].state = "inflight" THEN "pending"
             ELSE cache[s].tier]

Abstract == INSTANCE TrustTiers WITH status <- Status

ImplementsTrustTiers == Abstract!Spec

(* No two goroutines verify the same skill, however requests interleave
   between the fast path and the write lock. *)
OneVerificationPerSkill ==
  \A q, r \in Requests :
    job[q].pc # "none" /\ job[r].pc # "none" /\ job[q].skill = job[r].skill
      => q = r

(* A verified skill had one digest all through: the artifact that was hashed,
   the bundle's subject and the log's entry agree, even when the files are
   being replaced while the pipeline runs (Verify hands the digest of the
   hashed bytes to every later step). *)
VerifiedIsOneVersion ==
  \A s \in Skills :
    cache[s].state = "done" /\ cache[s].tier = "verified" =>
      LET c == cache[s].steps
      IN  c.hash # None /\ c.signature = c.hash /\ c.tlog = c.hash
            /\ c.policy # None

(* After Close every verification goroutine ends, unless the process does, also
   one that was waiting for a log that never answers (the lookup is given the
   cancelled context).  The exception is a goroutine that waits for the trusted
   root for ever: Close does not reach that call. *)
CloseEndsVerifications ==
  \A q \in Requests :
    closed ~> \/ ~up \/ job[q].pc \in {"none", "done"}
              \/ [](job[q].pc = "signature")

(* What a comment says, and the code does not do. *)

(* pipeline.go: "All three dependencies must be provided": `proxy start'
   builds a pipeline on which no request brings the proxy down. *)
NoPanic == up
=============================================================================
