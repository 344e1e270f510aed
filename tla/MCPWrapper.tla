----------------------------- MODULE MCPWrapper -----------------------------
(***************************************************************************)
(* `skillledger proxy wrap-mcp' (cli/internal/proxy/mcp_stdio.go): one     *)
(* process per MCP server, between the agent and the server's stdin and    *)
(* stdout.  Two goroutines relay lines.  The request goroutine records     *)
(* which method each request id asks for; the response goroutine resolves  *)
(* the id, compares tools/list results with the pins and with the session  *)
(* baseline, and forwards every line whatever it found.                    *)
(*                                                                         *)
(* All wrapper processes of a user share one pin file, and no lock covers  *)
(* the load, check, pin and save of handleFirstToolsList.  Save truncates  *)
(* the file and then writes it, and Run returns when the child exits       *)
(* without waiting for the goroutines, so a process can end between the    *)
(* two.                                                                    *)
(*                                                                         *)
(* The server is taken to answer only requests it received, once each, and *)
(* the agent to use each request id once per session, as MCP requires.     *)
(* A line that is no JSON-RPC message is forwarded unread and changes      *)
(* nothing here; a line over 1MB ends the scanner, and with it the relay.  *)
(***************************************************************************)
EXTENDS ToolPinStore, Naturals

CONSTANTS
  Wrappers,       \* wrapper slots; a slot runs one session after another
  ServerOf,       \* the server each slot wraps (MCPWrapper.serverID)
  BetweenAction,  \* policyConfig.ActionFor("pin_change_between")
  InjectAction,   \* policyConfig.ActionFor("prompt_injection")
  MaxRequests,    \* bound: requests per session
  MaxSessions,    \* bound: sessions per slot
  CutSaves        \* whether a Save may be cut short or fail while it writes

ASSUME WrapperAssumption ==
  /\ ServerOf \in [Wrappers -> Servers]
  /\ MaxRequests \in Nat
  /\ MaxSessions \in Nat
  /\ CutSaves \in BOOLEAN
  /\ BetweenAction \in {"allow", "log", "warn", "block"}
  /\ InjectAction \in {"allow", "log", "warn", "block"}

Actions == {"allow", "log", "warn", "block"}
Methods == {"tools/list", "tools/call"}
Ids == 1 .. MaxRequests

VARIABLES
  file,           \* the pin file: absent, torn, or holding pins
  sessions,       \* sessions started per slot
  pc,             \* where the response goroutine is: "ended" once its relay
                  \* has returned, "down" when there is no process
  pins,           \* ToolPinStore.pins of the process
  baseline,       \* ToolPinStore.sessionBaseline of the process
  sessionPinned,  \* MCPWrapper.sessionPinned
  pending,        \* requestTracker.pending
  reqPc,          \* where the request goroutine is
  reqLine,        \* the request it holds
  nextId,         \* the agent's next request id
  atServer,       \* requests the server received and has not answered
  line,           \* the response the response goroutine holds
  recorded,       \* decision entries recorded for that response
  shown,          \* history: the last tool list the agent received
  served,         \* history: the definitions each server ever listed
  trusted         \* history: the list a server's first saved pins hold

procVars == << pins, baseline, sessionPinned >>
reqVars == << reqPc, reqLine, nextId >>
vars == << file, sessions, pc, procVars, pending, reqVars, atServer, line,
           recorded, shown, served, trusted >>

Requests == [id : Ids, method : Methods]

Responses == [id : Ids,
              kind : {"tools", "malformed", "clean", "injected", "error"},
              tools : ToolMaps]

ASSUME NoneIsNoMessage ==
  None \notin Methods /\ None \notin Requests /\ None \notin Responses

Entries == [tool : Tools \cup {None},
            severity : Severities \cup {None},
            decision : Actions]

Files == [state : {"absent", "torn", "ok"}, pins : PinMaps]

TypeOK ==
  /\ file \in Files
  /\ sessions \in [Wrappers -> 0 .. MaxSessions]
  /\ pc \in [Wrappers -> {"down", "read", "inspect", "truncate", "write",
                          "forward", "ended"}]
  /\ pins \in [Wrappers -> PinMaps]
  /\ baseline \in [Wrappers -> ToolMaps]
  /\ sessionPinned \in [Wrappers -> BOOLEAN]
  /\ pending \in [Wrappers -> [Ids -> Methods \cup {None}]]
  /\ reqPc \in [Wrappers -> {"read", "inspect", "forward"}]
  /\ reqLine \in [Wrappers -> Requests \cup {None}]
  /\ nextId \in [Wrappers -> 1 .. MaxRequests + 1]
  /\ atServer \in [Wrappers -> [Ids -> Methods \cup {None}]]
  /\ line \in [Wrappers -> Responses \cup {None}]
  /\ recorded \in [Wrappers -> SUBSET Entries]
  /\ shown \in [Wrappers -> ToolMaps \cup {None}]
  /\ served \in [Servers -> [Tools -> SUBSET Defs]]
  /\ trusted \in [Servers -> ToolMaps \cup {None}]

-----------------------------------------------------------------------------
NoIds == [i \in Ids |-> None]

Init ==
  /\ file = [state |-> "absent", pins |-> NoPins]
  /\ sessions = [w \in Wrappers |-> 0]
  /\ pc = [w \in Wrappers |-> "down"]
  /\ pins = [w \in Wrappers |-> NoPins]
  /\ baseline = [w \in Wrappers |-> NoTools]
  /\ sessionPinned = [w \in Wrappers |-> FALSE]
  /\ pending = [w \in Wrappers |-> NoIds]
  /\ reqPc = [w \in Wrappers |-> "read"]
  /\ reqLine = [w \in Wrappers |-> None]
  /\ nextId = [w \in Wrappers |-> 1]
  /\ atServer = [w \in Wrappers |-> NoIds]
  /\ line = [w \in Wrappers |-> None]
  /\ recorded = [w \in Wrappers |-> {}]
  /\ shown = [w \in Wrappers |-> None]
  /\ served = [s \in Servers |-> [t \in Tools |-> {}]]
  /\ trusted = [s \in Servers |-> None]

\* NewMCPWrapper and Run: the child starts, the goroutines wait for lines.
Start(w) ==
  /\ pc[w] = "down"
  /\ sessions[w] < MaxSessions
  /\ sessions' = [sessions EXCEPT ![w] = @ + 1]
  /\ pc' = [pc EXCEPT ![w] = "read"]
  /\ UNCHANGED << file, procVars, pending, reqVars, atServer, line, recorded,
                  shown, served, trusted >>

\* The child exits and Run returns: the process ends wherever its goroutines
\* are, and with it everything it holds in memory.
End(w) ==
  /\ pc[w] # "down"
  /\ CutSaves \/ pc[w] # "write"
  /\ pc' = [pc EXCEPT ![w] = "down"]
  /\ pins' = [pins EXCEPT ![w] = NoPins]
  /\ baseline' = [baseline EXCEPT ![w] = NoTools]
  /\ sessionPinned' = [sessionPinned EXCEPT ![w] = FALSE]
  /\ pending' = [pending EXCEPT ![w] = NoIds]
  /\ reqPc' = [reqPc EXCEPT ![w] = "read"]
  /\ reqLine' = [reqLine EXCEPT ![w] = None]
  /\ nextId' = [nextId EXCEPT ![w] = 1]
  /\ atServer' = [atServer EXCEPT ![w] = NoIds]
  /\ line' = [line EXCEPT ![w] = None]
  /\ recorded' = [recorded EXCEPT ![w] = {}]
  /\ shown' = [shown EXCEPT ![w] = None]
  /\ UNCHANGED << file, sessions, served, trusted >>

-----------------------------------------------------------------------------
(* The request goroutine: relayWithInspection(..., "request").             *)

\* Environment: the agent writes a request and the goroutine reads it.
AgentSends(w, m) ==
  /\ pc[w] # "down"
  /\ reqPc[w] = "read"
  /\ nextId[w] \in Ids
  /\ reqLine' = [reqLine EXCEPT ![w] = [id |-> nextId[w], method |-> m]]
  /\ nextId' = [nextId EXCEPT ![w] = @ + 1]
  /\ reqPc' = [reqPc EXCEPT ![w] = "inspect"]
  /\ UNCHANGED << file, sessions, pc, procVars, pending, atServer, line,
                  recorded, shown, served, trusted >>

\* A request goroutine that does not track the request.
SkipTracking(w) ==
  /\ reqPc[w] = "inspect"
  /\ reqPc' = [reqPc EXCEPT ![w] = "forward"]
  /\ UNCHANGED << file, sessions, pc, procVars, pending, reqLine, nextId,
                  atServer, line, recorded, shown, served, trusted >>

\* inspectMessage on a request: TrackRequest.
TrackRequest(w) ==
  /\ reqPc[w] = "inspect"
  /\ pending' = [pending EXCEPT ![w][reqLine[w].id] = reqLine[w].method]
  /\ reqPc' = [reqPc EXCEPT ![w] = "forward"]
  /\ UNCHANGED << file, sessions, pc, procVars, reqLine, nextId, atServer,
                  line, recorded, shown, served, trusted >>

\* The line goes to the child's stdin.
ForwardRequest(w) ==
  /\ reqPc[w] = "forward"
  /\ atServer' = [atServer EXCEPT ![w][reqLine[w].id] = reqLine[w].method]
  /\ reqPc' = [reqPc EXCEPT ![w] = "read"]
  /\ reqLine' = [reqLine EXCEPT ![w] = None]
  /\ UNCHANGED << file, sessions, pc, procVars, pending, nextId, line,
                  recorded, shown, served, trusted >>

-----------------------------------------------------------------------------
(* The response goroutine: relayWithInspection(..., "response").           *)

\* Environment: the server answers a request it holds.  A tools/list answer
\* is a list, a result that parseToolsList rejects, or an error; a
\* tools/call answer is clean, trips the injection scanner, or is an error.
Answers(m) ==
  IF m = "tools/list"
  THEN { [kind |-> "tools", tools |-> ts] : ts \in ToolMaps }
         \cup { [kind |-> k, tools |-> NoTools] : k \in {"malformed", "error"} }
  ELSE { [kind |-> k, tools |-> NoTools] : k \in {"clean", "injected", "error"} }

ServerAnswers(w, i, a) ==
  /\ pc[w] = "read"
  /\ atServer[w][i] # None
  /\ a \in Answers(atServer[w][i])
  /\ atServer' = [atServer EXCEPT ![w][i] = None]
  /\ line' = [line EXCEPT ![w] = [id |-> i, kind |-> a.kind, tools |-> a.tools]]
  /\ served' = [served EXCEPT ![ServerOf[w]] =
                  [t \in Tools |-> @[t] \cup ({a.tools[t]} \ {None})]]
  /\ pc' = [pc EXCEPT ![w] = "inspect"]
  /\ UNCHANGED << file, sessions, procVars, pending, reqVars, recorded, shown,
                  trusted >>

\* ResolveResponse: the method of the response in hand, None if untracked.
ResolvedMethod(w) == pending[w][line[w].id]

Resolve(w) == pending' = [pending EXCEPT ![w][line[w].id] = None]

\* The entry recorded for every JSON-RPC line, after the inspection.
Passthrough == [tool |-> None, severity |-> None, decision |-> "allow"]

EntriesFor(changes, action) ==
  { [tool |-> c.tool, severity |-> c.severity, decision |-> action] :
      c \in changes }

Record(w, entries) ==
  recorded' = [recorded EXCEPT ![w] = entries \cup {Passthrough}]

IsToolsList(w) ==
  /\ pc[w] = "inspect"
  /\ ResolvedMethod(w) = "tools/list"
  /\ line[w].kind = "tools"

\* handleResponse returning no verdict on a list that does not parse.
StuckOnMalformed(w) ==
  /\ pc[w] = "inspect"
  /\ ResolvedMethod(w) = None \/ line[w].kind = "error"
  /\ Resolve(w)
  /\ Record(w, {})
  /\ pc' = [pc EXCEPT ![w] = "forward"]
  /\ UNCHANGED << file, sessions, procVars, reqVars, atServer, line, shown,
                  served, trusted >>

\* handleResponse where there is nothing to compare: the id is not tracked,
\* the answer is an error, or it is a list that does not parse.
InspectOther(w) ==
  /\ pc[w] = "inspect"
  /\ \/ ResolvedMethod(w) = None
     \/ line[w].kind \in {"malformed", "error"}
  /\ Resolve(w)
  /\ Record(w, {})
  /\ pc' = [pc EXCEPT ![w] = "forward"]
  /\ UNCHANGED << file, sessions, procVars, reqVars, atServer, line, shown,
                  served, trusted >>

\* handleToolsCallResponse.
InspectCall(w) ==
  /\ pc[w] = "inspect"
  /\ ResolvedMethod(w) = "tools/call"
  /\ line[w].kind \in {"clean", "injected"}
  /\ Resolve(w)
  /\ Record(w, IF line[w].kind = "injected"
               THEN {[tool |-> None, severity |-> "high",
                      decision |-> InjectAction]}
               ELSE {})
  /\ pc' = [pc EXCEPT ![w] = "forward"]
  /\ UNCHANGED << file, sessions, procVars, reqVars, atServer, line, shown,
                  served, trusted >>

\* ToolPinStore.Load: a missing file empties the store, a file that does not
\* decode leaves the store as it is, and the caller carries on.
Loaded(w) ==
  IF file.state = "ok" THEN file.pins
  ELSE IF file.state = "absent" THEN NoPins
  ELSE pins[w]

\* SetSessionBaseline, and the response goroutine goes on to forward.
SetSessionBaseline(w) ==
  /\ baseline' = [baseline EXCEPT ![w] = line[w].tools]
  /\ sessionPinned' = [sessionPinned EXCEPT ![w] = TRUE]
  /\ pc' = [pc EXCEPT ![w] = "forward"]

\* handleFirstToolsList up to Save, for a server that has no pins yet.
AutoPin(w) ==
  /\ IsToolsList(w)
  /\ ~sessionPinned[w]
  /\ ~serverHasPins(Loaded(w), ServerOf[w])
  /\ Resolve(w)
  /\ pins' = [pins EXCEPT ![w] =
                PinAll(Loaded(w), ServerOf[w], line[w].tools)]
  /\ pc' = [pc EXCEPT ![w] = "truncate"]
  /\ UNCHANGED << file, sessions, baseline, sessionPinned, reqVars, atServer,
                  line, recorded, shown, served, trusted >>

\* handleFirstToolsList, for a server that has pins: what changed since is
\* recorded with the action the policy gives it, and nothing is pinned.
CheckPins(w) ==
  /\ IsToolsList(w)
  /\ ~sessionPinned[w]
  /\ serverHasPins(Loaded(w), ServerOf[w])
  /\ Resolve(w)
  /\ pins' = [pins EXCEPT ![w] = Loaded(w)]
  /\ Record(w, EntriesFor(
                 checkBetweenSession(Loaded(w), ServerOf[w], line[w].tools),
                 BetweenAction))
  /\ SetSessionBaseline(w)
  /\ UNCHANGED << file, sessions, reqVars, atServer, line, shown, served,
                  trusted >>

\* Save fails before it touches the file; the error is logged.
SaveFails(w) ==
  /\ pc[w] = "truncate"
  /\ Record(w, {})
  /\ SetSessionBaseline(w)
  /\ UNCHANGED << file, sessions, pins, pending, reqVars, atServer, line,
                  shown, served, trusted >>

\* Save opens the file with O_TRUNC.
SaveTruncates(w) ==
  /\ pc[w] = "truncate"
  /\ file' = [state |-> "torn", pins |-> NoPins]
  /\ pc' = [pc EXCEPT ![w] = "write"]
  /\ UNCHANGED << sessions, procVars, pending, reqVars, atServer, line,
                  recorded, shown, served, trusted >>

\* What the file holds after the bytes of the pins are written from its
\* start: over an empty file, the pins; over what another process wrote
\* since, the pins or (when those were longer) the pins and a stale tail.
WriteResults(p) ==
  { [state |-> "ok", pins |-> p] }
    \cup (IF file.state = "ok" /\ file.pins # p
          THEN { [state |-> "torn", pins |-> NoPins] }
          ELSE {})

\* Save writes, and handleFirstToolsList finishes.
SaveWrites(w) ==
  /\ pc[w] = "write"
  /\ file' \in WriteResults(pins[w])
  /\ trusted' = [trusted EXCEPT ![ServerOf[w]] =
                   IF @ = None /\ serverHasPins(pins[w], ServerOf[w])
                   THEN pins[w][ServerOf[w]] ELSE @]
  /\ Record(w, {})
  /\ SetSessionBaseline(w)
  /\ UNCHANGED << sessions, pins, pending, reqVars, atServer, line, shown,
                  served >>

\* The write fails after O_TRUNC (a full disk): what is on disk does not
\* decode, the error is logged, and the session goes on from its own pins.
SaveTears(w) ==
  /\ CutSaves
  /\ pc[w] = "write"
  /\ file' = [state |-> "torn", pins |-> NoPins]
  /\ Record(w, {})
  /\ SetSessionBaseline(w)
  /\ UNCHANGED << sessions, pins, pending, reqVars, atServer, line, shown,
                  served, trusted >>

\* handleSubsequentToolsList: each difference from the baseline is recorded
\* with the decision "block", and the list becomes the baseline.
CheckMidSession(w) ==
  /\ IsToolsList(w)
  /\ sessionPinned[w]
  /\ Resolve(w)
  /\ Record(w, EntriesFor(
                 checkMidSession(pins[w], ServerOf[w], baseline[w],
                                 line[w].tools), "block"))
  /\ SetSessionBaseline(w)
  /\ UNCHANGED << file, sessions, pins, reqVars, atServer, line, shown,
                  served, trusted >>

\* The line goes to the agent, whatever was recorded for it.
ForwardResponse(w) ==
  /\ pc[w] = "forward"
  /\ shown' = [shown EXCEPT ![w] =
                 IF line[w].kind = "tools" THEN line[w].tools ELSE @]
  /\ line' = [line EXCEPT ![w] = None]
  /\ recorded' = [recorded EXCEPT ![w] = {}]
  /\ pc' = [pc EXCEPT ![w] = "read"]
  /\ UNCHANGED << file, sessions, procVars, pending, reqVars, atServer, served,
                  trusted >>

\* The relay returns: the scanner stops (the child closed its stdout, or wrote
\* a line over 1MB), or the write to the agent fails and the line is lost.
\* The process lives on, and its request goroutine with it.
RelayEnds(w) ==
  /\ pc[w] \in {"read", "forward"}
  /\ line' = [line EXCEPT ![w] = None]
  /\ recorded' = [recorded EXCEPT ![w] = {}]
  /\ pc' = [pc EXCEPT ![w] = "ended"]
  /\ UNCHANGED << file, sessions, procVars, pending, reqVars, atServer, shown,
                  served, trusted >>

-----------------------------------------------------------------------------
RequestStep(w) == TrackRequest(w) \/ ForwardRequest(w)

ResponseStep(w) ==
  \/ InspectOther(w)
  \/ InspectCall(w)
  \/ AutoPin(w)
  \/ CheckPins(w)
  \/ SaveFails(w)
  \/ SaveTruncates(w)
  \/ SaveWrites(w)
  \/ SaveTears(w)
  \/ CheckMidSession(w)
  \/ ForwardResponse(w)

Next ==
  \E w \in Wrappers :
    \/ Start(w)
    \/ End(w)
    \/ \E m \in Methods : AgentSends(w, m)
    \/ \E i \in Ids : \E a \in Answers("tools/list") \cup Answers("tools/call") :
         ServerAnswers(w, i, a)
    \/ RequestStep(w)
    \/ ResponseStep(w)
    \/ RelayEnds(w)

\* The Go scheduler runs both goroutines of a live process, and a write to
\* the agent or to the child returns: whoever is at the other end of the
\* pipe reads it or closes it.  The server need not answer, the agent need
\* not ask, and no session has to end.
Fairness ==
  \A w \in Wrappers : WF_vars(RequestStep(w)) /\ WF_vars(ResponseStep(w))

Spec == Init /\ [][Next]_vars

FairSpec == Spec /\ Fairness

-----------------------------------------------------------------------------
\* The first tool list of a session is in hand.
FirstList(w) == line[w].kind = "tools" /\ shown[w] = None

Reported(w, t, d) == \E e \in recorded[w] : e.tool = t /\ e.decision = d

(* Any difference between two consecutive tool lists that an agent receives
   in one session has a decision entry "block" by the time the second list is
   forwarded (handleSubsequentToolsList).  It takes the request to be tracked
   before the server can answer it, and each list to become the baseline of
   the next.  It takes the inspection to come before the write, too, which two
   comments deny ("Pin checks and injection scanning happen AFTER forwarding",
   mcp_stdio.go:170, and :219): the code calls inspectMessage first. *)
MidSessionReported ==
  \A w \in Wrappers :
    pc[w] = "forward" /\ line[w].kind = "tools" /\ shown[w] # None
      => \A t \in Tools :
           shown[w][t] # line[w].tools[t] => Reported(w, t, "block")

(* A pin, in the file or in a process, is a definition that this very server
   listed in some session, however the processes interleave and wherever they
   end: no tool is ever pinned to another server's definition or to a
   fragment of one. *)
PinsWereServed ==
  \A s \in Servers : \A t \in Tools :
    /\ file.pins[s][t] # None => file.pins[s][t] \in served[s][t]
    /\ \A w \in Wrappers :
         pins[w][s][t] # None => pins[w][s][t] \in served[s][t]

(* Every tools/list result is inspected before it is forwarded: the response
   goroutine never finds its id untracked (TrackRequest precedes the write to
   the child in relayWithInspection), so no list reaches the agent without a
   baseline being set from it.  It holds because inspectMessage is called
   above the write in relayWithInspection, although the comments on the two
   functions (mcp_stdio.go:170 and :219) have it run after forwarding. *)
NoListUninspected ==
  \A w \in Wrappers :
    pc[w] = "forward" /\ line[w].kind = "tools"
      => sessionPinned[w] /\ baseline[w] = line[w].tools

(* A definition that differs from the one the server's first saved pins hold
   is recorded, in every later session's first list, with the policy's action
   for between-session changes.  This is the promise of the pin store ("detect
   changes on subsequent connections"); it holds for one wrapper slot whose
   saves are never cut. *)
DriftReported ==
  \A w \in Wrappers :
    pc[w] = "forward" /\ FirstList(w) /\ trusted[ServerOf[w]] # None
      => \A t \in Tools :
           LET old == trusted[ServerOf[w]][t]
               new == line[w].tools[t]
           IN  old # None /\ new # None /\ old # new
                 => Reported(w, t, BetweenAction)

(* Every response the wrapper reads reaches the agent, unless the write to
   the agent fails or the process ends: no outcome of an inspection, a Save
   that fails or tears the file included, holds a line back ("NEVER drop
   messages"). *)
ResponsesForwarded ==
  \A w \in Wrappers :
    pc[w] # "read" ~> pc[w] \in {"read", "ended", "down"}

=============================================================================
