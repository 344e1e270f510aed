---------------------------- MODULE EventReport -----------------------------
(***************************************************************************)
(* The events a command reports to the user's organization:                *)
(* cli/internal/eventreport/report.go, the ends of runAudit and runVerify  *)
(* (cmd/audit.go, cmd/verify.go) that start it, and the wait in the root   *)
(* command (cmd/root.go, PersistentPostRun), which cobra runs only for a   *)
(* command that returns no error.  The end of the process ends the         *)
(* goroutines.  Profiles are posted by a goroutine each, for skills that   *)
(* are not compromised, and nothing waits for them.                        *)
(***************************************************************************)
EXTENDS Naturals, FiniteSets

CONSTANTS
  MaxEvents,   \* bound: events of a command
  BatchSize,   \* maxBatchSize
  Profiles     \* skills whose profile an audit posts

ASSUME ReportAssumption == MaxEvents \in Nat /\ BatchSize \in Nat \ {0}

VARIABLES
  work,        \* where the command is
  fails,       \* the command returns an error
  events,      \* the number of events it has found
  repPc,       \* where the reporting goroutine is
  repNext,     \* i of the loop over the batches
  posted,      \* how often the service has received an event
  profLeft,    \* profiles not posted yet
  profGot,     \* profiles the service has received
  excused      \* ghost: a token, a request or the time to wait was missing

reportVars == << work, fails, events, repPc, repNext, posted, profLeft,
                 profGot, excused >>

ReportTypeOK ==
  /\ work \in {"working", "reported", "waiting", "exited"}
  /\ fails \in BOOLEAN
  /\ events \in 0 .. MaxEvents
  /\ repPc \in {"none", "token", "post", "done"}
  /\ repNext \in 0 .. MaxEvents + BatchSize
  /\ posted \in [1 .. MaxEvents -> 0 .. 1]
  /\ profLeft \subseteq Profiles
  /\ profGot \subseteq Profiles
  /\ profLeft \cap profGot = {}
  /\ excused \in BOOLEAN

ReportInit ==
  /\ work = "working"
  /\ fails = FALSE
  /\ events = 0
  /\ repPc = "none"
  /\ repNext = 0
  /\ posted = [i \in 1 .. MaxEvents |-> 0]
  /\ profLeft = {}
  /\ profGot = {}
  /\ excused = FALSE

\* runAudit: findings are no error; profiles for a choice of the skills.
AuditReports(n, profs) ==
  /\ work = "working"
  /\ work' = "reported"
  /\ events' = n
  /\ repPc' = IF n > 0 THEN "token" ELSE "none"
  /\ profLeft' = profs
  /\ UNCHANGED << fails, repNext, posted, profGot, excused >>

\* runVerify: violations are reported, and an artifact that did not pass is
\* an error.
VerifyReports(n, passed) ==
  /\ work = "working"
  /\ n > 0 => ~passed
  /\ work' = "reported"
  /\ events' = n
  /\ repPc' = IF n > 0 THEN "token" ELSE "none"
  /\ fails' = ~passed
  /\ UNCHANGED << repNext, posted, profLeft, profGot, excused >>

\* EnsureFresh.
GetToken(ok) ==
  /\ repPc = "token"
  /\ repPc' = IF ok THEN "post" ELSE "done"
  /\ excused' = (excused \/ ~ok)
  /\ UNCHANGED << work, fails, events, repNext, posted, profLeft, profGot >>

\* events[i:end].
Batch(i) == {k \in 1 .. events : i < k /\ k <= i + BatchSize}

\* A batch reaches the service or not; the loop goes on.
PostBatch(ok) ==
  /\ repPc = "post"
  /\ repNext < events
  /\ posted' = [k \in 1 .. MaxEvents |->
                  IF ok /\ k \in Batch(repNext) THEN posted[k] + 1 ELSE posted[k]]
  /\ repNext' = repNext + BatchSize
  /\ excused' = (excused \/ ~ok)
  /\ UNCHANGED << work, fails, events, repPc, profLeft, profGot >>

\* defer close(r.done).
ReportDone ==
  /\ repPc = "post"
  /\ repNext >= events
  /\ repPc' = "done"
  /\ UNCHANGED << work, fails, events, repNext, posted, profLeft, profGot,
                  excused >>

PostProfile(s, ok) ==
  /\ s \in profLeft
  /\ profLeft' = profLeft \ {s}
  /\ profGot' = IF ok THEN profGot \cup {s} ELSE profGot
  /\ UNCHANGED << work, fails, events, repPc, repNext, posted, excused >>

\* No wait after a command without an error.
ReturnAtOnce ==
  /\ work = "reported"
  /\ work' = "exited"
  /\ repPc' = "done"
  /\ profLeft' = {}
  /\ UNCHANGED << fails, events, repNext, posted, profGot, excused >>

\* RunE returns: with an error the process exits, without one it waits.
Return ==
  /\ work = "reported"
  /\ IF fails
     THEN /\ work' = "exited"
          /\ repPc' = "done"
          /\ profLeft' = {}
     ELSE /\ work' = "waiting"
          /\ UNCHANGED << repPc, profLeft >>
  /\ UNCHANGED << fails, events, repNext, posted, profGot, excused >>

\* WaitForReport: done is closed, or the two seconds are over.  Without events
\* nothing closes done.
WaitEnds(timeout) ==
  /\ work = "waiting"
  /\ timeout \/ repPc = "done"
  /\ work' = "exited"
  /\ excused' = (excused \/ timeout)
  /\ repPc' = "done"
  /\ profLeft' = {}
  /\ UNCHANGED << fails, events, repNext, posted, profGot >>

ReportNext ==
  \/ \E n \in 0 .. MaxEvents, profs \in SUBSET Profiles : AuditReports(n, profs)
  \/ \E n \in 0 .. MaxEvents, passed \in BOOLEAN : VerifyReports(n, passed)
  \/ \E ok \in BOOLEAN : GetToken(ok) \/ PostBatch(ok)
  \/ ReportDone
  \/ \E s \in Profiles, ok \in BOOLEAN : PostProfile(s, ok)
  \/ Return
  \/ \E timeout \in BOOLEAN : WaitEnds(timeout)

ReportSpec == ReportInit /\ [][ReportNext]_reportVars

-----------------------------------------------------------------------------
(* When a command that returned no error has exited, the organization has
   every event of it, once, unless there was no token, a request failed or the
   wait timed out: the batches leave out and repeat nothing, and the process
   does not end before they are posted. *)
EventsArrive ==
  work = "exited" /\ ~fails /\ ~excused =>
    \A k \in 1 .. events : posted[k] = 1

=============================================================================
