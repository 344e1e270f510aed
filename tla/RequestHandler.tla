--------------------------- MODULE RequestHandler ---------------------------
(***************************************************************************)
(* The requests that pass through a proxy, and what is kept of them        *)
(* (cli/internal/proxy/handler.go, scanner.go, decision.go, violation.go   *)
(* and the clean-up of server.go; `proxy logs', `explain' and `report' of  *)
(* cli/internal/cmd; report/runtime.go).  Requests run in goroutines of    *)
(* their own.  Shutting down does not wait for them: server.Close leaves   *)
(* hijacked connections (those of CONNECT) alone, the violation file is    *)
(* closed first and decisions.jsonl when Start returns, and the process    *)
(* then still writes its SARIF report.                                     *)
(*                                                                         *)
(* What the scanners and the policy find in a request is a choice (regular *)
(* expressions, YARA, the classifier and OPA are not modelled; the policy  *)
(* is in PolicyReload, the tracker in EntropyTracker).  An action id is    *)
(* the first eight digits of a UUID, so that two requests may share one.   *)
(* `decisions' are the lines of one proxy: wrap-mcp processes append lines *)
(* of their own to the same file, which neither reader tells apart.        *)
(***************************************************************************)
EXTENDS DecisionRing, Sequences, SequencesExt

CONSTANTS
  Slots,         \* goroutines that serve requests
  Ids,           \* action ids
  FindingLists,  \* the findings of a request, by their decisions
  MaxRequests,   \* bound: requests
  MaxRuns,       \* bound: proxy processes
  MaxSARIF       \* maxSARIFResults

Decisions == {"allow", "log", "warn", "block"}

ASSUME HandlerAssumption ==
  /\ FindingLists \subseteq Seq(Decisions)
  /\ << >> \in FindingLists
  /\ MaxRequests \in Nat /\ MaxRuns \in Nat /\ MaxSARIF \in Nat

\* The id of a response is that of its request with a suffix.
Keys == Ids \X {"request", "response"}

Entry == [key : Keys, decision : Decisions, findings : FindingLists]

VARIABLES
  up,          \* the process: "serving", the steps of its end, "down"
  task,        \* the request of a goroutine
  decisions,   \* decisions.jsonl
  violations,  \* the violation log
  sarif,       \* the findings in the SARIF report of --sarif-on-shutdown
  follower,    \* `proxy logs --follow': lines read, and whether EOF was seen
  requests,    \* requests so far
  runs         \* processes so far

vars == << ringVars, up, task, decisions, violations, sarif,
           follower, requests, runs >>

Idle == [pc |-> "idle"]

Tasks == [pc : {"record", "violation", "decide", "respond"}, entry : Entry]

\* A process whose decisions.jsonl is open.
FileOpen == up \in {"serving", "cleanup"}

NoFollower == [on |-> FALSE, read |-> 0, eof |-> FALSE]

TypeOK ==
  /\ entries \in [0 .. Size - 1 -> Entry \cup {NoEntry}]
  /\ head \in 0 .. Size - 1
  /\ count \in 0 .. Size
  /\ up \in {"serving", "cleanup", "closed", "reported", "down"}
  /\ task \in [Slots -> Tasks \cup {Idle}]
  /\ decisions \in Seq(Entry)
  /\ violations \in Seq(Entry)
  /\ sarif \in Seq(Decisions)
  /\ follower \in [on : BOOLEAN, read : Nat, eof : BOOLEAN]
  /\ requests \in 0 .. MaxRequests
  /\ runs \in 0 .. MaxRuns

Init ==
  /\ RingInit
  /\ up = "down"
  /\ task = [s \in Slots |-> Idle]
  /\ decisions = << >>
  /\ violations = << >>
  /\ sarif = << >>
  /\ follower = NoFollower
  /\ requests = 0
  /\ runs = 0

-----------------------------------------------------------------------------
(* A request.                                                              *)

Priority == [allow |-> 0, log |-> 1, warn |-> 2, block |-> 3]

\* HighestDecision; "allow" without findings.
HighestDecision(findings) ==
  CHOOSE d \in Decisions :
    /\ d \in Range(findings) \cup {"allow"}
    /\ \A i \in 1 .. Len(findings) : Priority[findings[i]] <= Priority[d]

\* OnRequest reads the body, runs the scanners and evaluates the policy.
Inspect(s, id, findings) ==
  /\ up # "down"
  /\ task[s] = Idle
  /\ requests < MaxRequests
  /\ task' = [task EXCEPT ![s] =
       [pc |-> "record",
        entry |-> [key |-> << id, "request" >>,
                   decision |-> HighestDecision(findings),
                   findings |-> findings]]]
  /\ requests' = requests + 1
  /\ UNCHANGED << ringVars, up, decisions, violations, sarif, follower,
                  runs >>

\* DecisionLog.Record: the ring, and the file unless it has been closed.
Record(e) ==
  /\ RingRecord(e)
  /\ decisions' = IF FileOpen THEN Append(decisions, e) ELSE decisions

RecordRequest(s) ==
  /\ task[s].pc = "record"
  /\ Record(task[s].entry)
  /\ task' = [task EXCEPT ![s].pc = "violation"]
  /\ UNCHANGED << up, violations, sarif, follower, requests, runs >>

\* ViolationWriter.WriteFindings; the error of a closed file is only logged.
WriteFindings(s) ==
  /\ task[s].pc = "violation"
  /\ violations' = IF task[s].entry.findings # << >> /\ up = "serving"
                   THEN Append(violations, task[s].entry)
                   ELSE violations
  /\ task' = [task EXCEPT ![s].pc = "decide"]
  /\ UNCHANGED << ringVars, up, decisions, sarif, follower,
                  requests, runs >>

\* A block answers 403; any other decision sends the request upstream.
Decide(s) ==
  /\ task[s].pc = "decide"
  /\ task' = [task EXCEPT ![s].pc = "respond"]
  /\ UNCHANGED << ringVars, up, decisions, violations, sarif, follower,
                  requests, runs >>

\* OnResponse records that the response, or the 403, passed.
OnResponse(s) ==
  /\ task[s].pc = "respond"
  /\ Record([key |-> << task[s].entry.key[1], "response" >>,
             decision |-> "allow", findings |-> << >>])
  /\ task' = [task EXCEPT ![s] = Idle]
  /\ UNCHANGED << up, violations, sarif, follower, requests, runs >>

\* The upstream connection of a tunnel fails: there is no response.
UpstreamFails(s) ==
  /\ task[s].pc = "respond"
  /\ task[s].entry.decision # "block"
  /\ task' = [task EXCEPT ![s] = Idle]
  /\ UNCHANGED << ringVars, up, decisions, violations, sarif, follower,
                  requests, runs >>

-----------------------------------------------------------------------------
(* The process.                                                            *)

\* Start: an empty ring, and the files opened for appending.
Start ==
  /\ up = "down"
  /\ runs < MaxRuns
  /\ up' = "serving"
  /\ entries' = [i \in 0 .. Size - 1 |-> NoEntry]
  /\ head' = 0
  /\ count' = 0
  /\ runs' = runs + 1
  /\ UNCHANGED << task, decisions, violations, sarif, follower,
                  requests >>

\* The context is cancelled: the server and the violation file are closed.
CloseServer ==
  /\ up = "serving"
  /\ up' = "cleanup"
  /\ UNCHANGED << ringVars, task, decisions, violations, sarif, follower,
                  requests, runs >>

\* Start returns, and its deferred call closes decisions.jsonl.
StartReturns ==
  /\ up = "cleanup"
  /\ up' = "closed"
  /\ UNCHANGED << ringVars, task, decisions, violations, sarif, follower,
                  requests, runs >>

\* The findings of a log in its order, cut at the limit.
SARIFResults(lines) ==
  LET all == FlattenSeq([i \in 1 .. Len(lines) |-> lines[i].findings])
  IN  SubSeq(all, 1, IF Len(all) < MaxSARIF THEN Len(all) ELSE MaxSARIF)

\* A report of what the ring still holds.
ReportFromRing ==
  /\ up = "closed"
  /\ sarif' = SARIFResults(Reverse(Recent(Size)))
  /\ up' = "reported"
  /\ UNCHANGED << ringVars, task, decisions, violations, follower,
                  requests, runs >>

\* runProxyStart reads decisions.jsonl back and writes the report.
ReportOnShutdown ==
  /\ up = "closed"
  /\ sarif' = SARIFResults(decisions)
  /\ up' = "reported"
  /\ UNCHANGED << ringVars, task, decisions, violations, follower,
                  requests, runs >>

\* The process exits, or is killed at any point.
Exit ==
  /\ up # "down"
  /\ up' = "down"
  /\ task' = [s \in Slots |-> Idle]
  /\ UNCHANGED << ringVars, decisions, violations, sarif, follower,
                  requests, runs >>

-----------------------------------------------------------------------------
(* Commands that read the log.                                             *)

\* proxy explain: the last line with this action id.
Explain(key) ==
  LET hits == {i \in 1 .. Len(decisions) : decisions[i].key = key}
  IN  IF hits = {} THEN NoEntry ELSE decisions[Max(hits)]

\* tailLog opens the file and seeks to its end.
FollowOpens ==
  /\ ~follower.on
  /\ follower' = [on |-> TRUE, read |-> Len(decisions), eof |-> FALSE]
  /\ UNCHANGED << ringVars, up, task, decisions, violations, sarif,
                  requests, runs >>

\* A tick prints the lines up to the end of the file.  The bufio.Scanner
\* keeps the end of file as its error and never reads again.
FollowPolls ==
  /\ follower.on /\ ~follower.eof
  /\ follower' = [follower EXCEPT !.read = Len(decisions), !.eof = TRUE]
  /\ UNCHANGED << ringVars, up, task, decisions, violations, sarif,
                  requests, runs >>

FollowStops ==
  /\ follower.on
  /\ follower' = NoFollower
  /\ UNCHANGED << ringVars, up, task, decisions, violations, sarif,
                  requests, runs >>

-----------------------------------------------------------------------------
Handle(s) ==
  \/ RecordRequest(s)
  \/ WriteFindings(s)
  \/ Decide(s)
  \/ OnResponse(s)

Next ==
  \/ \E s \in Slots :
       \/ \E id \in Ids, f \in FindingLists : Inspect(s, id, f)
       \/ Handle(s)
       \/ UpstreamFails(s)
  \/ Start
  \/ CloseServer
  \/ StartReturns
  \/ ReportOnShutdown
  \/ Exit
  \/ FollowOpens
  \/ FollowPolls
  \/ FollowStops

Spec == Init /\ [][Next]_vars

\* Goroutines run, and the follower's ticker ticks.
FairSpec ==
  /\ Spec
  /\ \A s \in Slots : WF_vars(Handle(s))
  /\ WF_vars(FollowPolls)

-----------------------------------------------------------------------------
(* `proxy explain', which reads the file, and Lookup, which reads the ring,
   give the same answer for an action id that the ring still has, even when
   two requests got the same id. *)
ExplainAgreesWithLookup ==
  FileOpen =>
    \A key \in Keys : Lookup(key) # NoEntry => Explain(key) = Lookup(key)

(* The SARIF report written on shutdown has the findings of the violation log
   when they fit, also those of decisions the ring has forgotten. *)
ReportHasViolations ==
  up = "reported" =>
    \/ Len(sarif) = MaxSARIF
    \/ \A i \in 1 .. Len(violations) :
         Range(violations[i].findings) \subseteq Range(sarif)

(* The ring implements the log of the last Size decisions. *)
Log == INSTANCE BoundedLog WITH log <- Recent(Size)

ImplementsBoundedLog == Log!LogSpec

(* "Use --follow to live-tail the log file for new entries": what is recorded
   after the follower has read the file is shown in the end. *)
FollowShowsNew ==
  \A n \in 1 .. 2 * MaxRequests :
    follower.on /\ follower.read < n /\ n <= Len(decisions)
      ~> ~follower.on \/ follower.read >= n
=============================================================================
