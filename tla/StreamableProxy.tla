--------------------------- MODULE StreamableProxy ---------------------------
(***************************************************************************)
(* The WebSocket proxy for MCP Streamable HTTP servers                     *)
(* (cli/internal/proxy/mcp_streamable.go), which the proxy process serves  *)
(* on /mcp.  Each connection has two relay goroutines, and all connections *)
(* share one request tracker, one pin store, one session baseline and one  *)
(* flag that says whether the baseline was set.  The locks of the tracker  *)
(* and of the pin store cover single calls, so handleFirstToolsList and    *)
(* handleSubsequentToolsList of two connections interleave between them.   *)
(*                                                                         *)
(* Save and Load run under the pin store's lock, and this process is taken *)
(* to be the only one that writes the pin file (MCPWrapper has several).   *)
(* All connections go to one server, so a pin map is the tool map of it.   *)
(***************************************************************************)
EXTENDS ToolPinStore, Naturals, FiniteSets

CONSTANTS
  Conns,       \* connections to /mcp; each is opened at most once
  Ids,         \* JSON-RPC request ids
  IdsOf,       \* the ids the client of each connection may use
  Server,      \* the server's identity: the target URL
  PinFiles,    \* pin files an earlier run may have left
  Closable,    \* bound: connections a peer may close
  MaxRequests  \* bound: requests of all clients together

ASSUME StreamableAssumption ==
  /\ IdsOf \in [Conns -> SUBSET Ids]
  /\ Server \in Servers
  /\ PinFiles \subseteq ToolMaps \cup {None}
  /\ Closable \subseteq Conns
  /\ MaxRequests \in Nat

VARIABLES
  pins,           \* ToolPinStore.pins
  file,           \* pins.json, None if there is none
  baseline,       \* ToolPinStore.sessionBaseline of the server
  sessionPinned,  \* StreamableProxy.sessionPinned
  pending,        \* requestTracker.pending
  up,             \* which of a connection's two sockets are open
  serving,        \* ServeHTTP waits for the end of a relay
  errs,           \* errors in errCh
  reqPc, reqLine, \* the client-to-server relay, and the request it holds
  sent,           \* requests the clients have sent
  atServer,       \* requests the server received and has not answered
  pc, line,       \* the server-to-client relay, and the response it holds
  toPin,          \* tools PinAll has not pinned yet
  firsts,         \* history: definitions in lists handled as the first one
  recorded,       \* history: changed definitions recorded with "block"
  earlier         \* history: the pin file of earlier runs

storeVars == << pins, file, baseline, sessionPinned >>
connVars == << up, serving, errs >>
reqVars == << reqPc, reqLine, sent, atServer >>
respVars == << pc, line, toPin >>
history == << firsts, recorded, earlier >>
vars == << storeVars, pending, connVars, reqVars, respVars, history >>

Methods == {"tools/list", "tools/call"}
Requests == [id : Ids, method : Methods]
Kinds == {"tools", "malformed", "result", "error"}
Responses == [id : Ids, kind : Kinds, tools : ToolMaps]

ASSUME NoneIsNoMessage ==
  None \notin Methods /\ None \notin Requests /\ None \notin Responses

\* The definitions of a tool map, with their names.
DefsIn(tools) == { << t, tools[t] >> : t \in { u \in Tools : tools[u] # None } }

Named == Tools \X Defs

TypeOK ==
  /\ pins \in ToolMaps
  /\ file \in ToolMaps \cup {None}
  /\ baseline \in ToolMaps
  /\ sessionPinned \in BOOLEAN
  /\ pending \in [Ids -> Methods \cup {None}]
  /\ up \in [Conns -> [client : BOOLEAN, server : BOOLEAN]]
  /\ serving \in [Conns -> {"no", "yes", "done"}]
  /\ errs \in [Conns -> 0 .. 2]
  /\ reqPc \in [Conns -> {"down", "read", "inspect", "forward", "failed"}]
  /\ reqLine \in [Conns -> Requests \cup {None}]
  /\ sent \in 0 .. MaxRequests
  /\ atServer \in [Conns -> [Ids -> Methods \cup {None}]]
  /\ pc \in [Conns -> {"down", "read", "inspect", "first", "check", "haspins",
                       "pin", "save", "rest", "next", "rebase", "forward",
                       "failed"}]
  /\ line \in [Conns -> Responses \cup {None}]
  /\ toPin \in [Conns -> SUBSET Tools]
  /\ firsts \subseteq Named
  /\ recorded \subseteq Named
  /\ earlier \in ToolMaps \cup {None}

-----------------------------------------------------------------------------
NoIds == [i \in Ids |-> None]

\* NewProxyServer: the pin store is loaded, and there may be pins of an
\* earlier run.
Init ==
  /\ file \in PinFiles
  /\ pins = IF file = None THEN NoTools ELSE file
  /\ baseline = NoTools
  /\ sessionPinned = FALSE
  /\ pending = NoIds
  /\ up = [c \in Conns |-> [client |-> FALSE, server |-> FALSE]]
  /\ serving = [c \in Conns |-> "no"]
  /\ errs = [c \in Conns |-> 0]
  /\ reqPc = [c \in Conns |-> "down"]
  /\ reqLine = [c \in Conns |-> None]
  /\ sent = 0
  /\ atServer = [c \in Conns |-> NoIds]
  /\ pc = [c \in Conns |-> "down"]
  /\ line = [c \in Conns |-> None]
  /\ toPin = [c \in Conns |-> {}]
  /\ firsts = {}
  /\ recorded = {}
  /\ earlier = file

-----------------------------------------------------------------------------
(* ServeHTTP: upgrade, dial, two relays, and the end of both.              *)

\* The client's Origin is local and the server answers the dial.
Connect(c) ==
  /\ serving[c] = "no"
  /\ serving' = [serving EXCEPT ![c] = "yes"]
  /\ up' = [up EXCEPT ![c] = [client |-> TRUE, server |-> TRUE]]
  /\ reqPc' = [reqPc EXCEPT ![c] = "read"]
  /\ pc' = [pc EXCEPT ![c] = "read"]
  /\ UNCHANGED << storeVars, pending, errs, reqLine, sent, atServer, line,
                  toPin, history >>

\* checkLocalhostOrigin refuses the upgrade, or the dial fails.
Refuse(c) ==
  /\ serving[c] = "no"
  /\ serving' = [serving EXCEPT ![c] = "done"]
  /\ UNCHANGED << storeVars, pending, up, errs, reqVars, respVars, history >>

\* Environment: the client or the server closes its socket.
PeerCloses(c, side) ==
  /\ c \in Closable
  /\ up[c][side]
  /\ up' = [up EXCEPT ![c][side] = FALSE]
  /\ UNCHANGED << storeVars, pending, serving, errs, reqVars, respVars,
                  history >>

\* ServeHTTP returning without closing the socket to the server.
LeaveServerOpen(c) ==
  /\ serving[c] = "yes"
  /\ errs[c] > 0
  /\ errs' = [errs EXCEPT ![c] = @ - 1]
  /\ serving' = [serving EXCEPT ![c] = "done"]
  /\ up' = [up EXCEPT ![c].client = FALSE]
  /\ UNCHANGED << storeVars, pending, reqVars, respVars, history >>

\* The first relay to end lets ServeHTTP return; its defers close both.
ServeReturns(c) ==
  /\ serving[c] = "yes"
  /\ errs[c] > 0
  /\ errs' = [errs EXCEPT ![c] = @ - 1]
  /\ serving' = [serving EXCEPT ![c] = "done"]
  /\ up' = [up EXCEPT ![c] = [client |-> FALSE, server |-> FALSE]]
  /\ UNCHANGED << storeVars, pending, reqVars, respVars, history >>

\* A relay's ReadMessage or WriteMessage fails on a closed socket.
RequestRelayFails(c) ==
  /\ \/ reqPc[c] = "read" /\ ~up[c].client
     \/ reqPc[c] = "forward" /\ ~up[c].server
  /\ reqPc' = [reqPc EXCEPT ![c] = "failed"]
  /\ reqLine' = [reqLine EXCEPT ![c] = None]
  /\ UNCHANGED << storeVars, pending, connVars, sent, atServer, respVars,
                  history >>

ResponseRelayFails(c) ==
  /\ \/ pc[c] = "read" /\ ~up[c].server
     \/ pc[c] = "forward" /\ ~up[c].client
  /\ pc' = [pc EXCEPT ![c] = "failed"]
  /\ line' = [line EXCEPT ![c] = None]
  /\ UNCHANGED << storeVars, pending, connVars, reqVars, toPin, history >>

\* errCh has room for both relays, so neither waits for a reader.
RequestRelayEnds(c) ==
  /\ reqPc[c] = "failed"
  /\ errs[c] < 2
  /\ errs' = [errs EXCEPT ![c] = @ + 1]
  /\ reqPc' = [reqPc EXCEPT ![c] = "down"]
  /\ UNCHANGED << storeVars, pending, up, serving, reqLine, sent, atServer,
                  respVars, history >>

ResponseRelayEnds(c) ==
  /\ pc[c] = "failed"
  /\ errs[c] < 2
  /\ errs' = [errs EXCEPT ![c] = @ + 1]
  /\ pc' = [pc EXCEPT ![c] = "down"]
  /\ UNCHANGED << storeVars, pending, up, serving, reqVars, line, toPin,
                  history >>

-----------------------------------------------------------------------------
(* The client-to-server relay: relayWebSocket(..., "request").             *)

\* Environment: a client sends a request with an id it has no answer for.
ClientSends(c, i, m) ==
  /\ reqPc[c] = "read"
  /\ up[c].client
  /\ sent < MaxRequests
  /\ i \in IdsOf[c]
  /\ atServer[c][i] = None
  /\ line[c] # None => line[c].id # i
  /\ reqLine' = [reqLine EXCEPT ![c] = [id |-> i, method |-> m]]
  /\ sent' = sent + 1
  /\ reqPc' = [reqPc EXCEPT ![c] = "inspect"]
  /\ UNCHANGED << storeVars, pending, connVars, atServer, respVars, history >>

\* inspectMessage on a request: TrackRequest, in the tracker of all.
TrackRequest(c) ==
  /\ reqPc[c] = "inspect"
  /\ pending' = [pending EXCEPT ![reqLine[c].id] = reqLine[c].method]
  /\ reqPc' = [reqPc EXCEPT ![c] = "forward"]
  /\ UNCHANGED << storeVars, connVars, reqLine, sent, atServer, respVars,
                  history >>

ForwardRequest(c) ==
  /\ reqPc[c] = "forward"
  /\ up[c].server
  /\ atServer' = [atServer EXCEPT ![c][reqLine[c].id] = reqLine[c].method]
  /\ reqPc' = [reqPc EXCEPT ![c] = "read"]
  /\ reqLine' = [reqLine EXCEPT ![c] = None]
  /\ UNCHANGED << storeVars, pending, connVars, sent, respVars, history >>

-----------------------------------------------------------------------------
(* The server-to-client relay: relayWebSocket(..., "response").            *)

\* Environment: the server's answer to a request of this connection.  A
\* tools/list is answered by a list, by a result that does not parse as one
\* or by an error; a tools/call by a result (an object without tools).
Answers(m) ==
  { [kind |-> "error", tools |-> NoTools] }
    \cup IF m = "tools/list"
         THEN { [kind |-> "tools", tools |-> ts] : ts \in ToolMaps }
                \cup { [kind |-> "malformed", tools |-> NoTools] }
         ELSE { [kind |-> "result", tools |-> NoTools] }

ServerAnswers(c, i, a) ==
  /\ pc[c] = "read"
  /\ up[c].server
  /\ atServer[c][i] # None
  /\ a \in Answers(atServer[c][i])
  /\ atServer' = [atServer EXCEPT ![c][i] = None]
  /\ line' = [line EXCEPT ![c] = [id |-> i, kind |-> a.kind, tools |-> a.tools]]
  /\ pc' = [pc EXCEPT ![c] = "inspect"]
  /\ UNCHANGED << storeVars, pending, connVars, reqPc, reqLine, sent, toPin,
                  history >>

\* The response is taken for a list: parseToolsList accepts any object, and
\* finds no tools in one that has none.
TakenForList(c) ==
  pending[line[c].id] = "tools/list" /\ line[c].kind \in {"tools", "result"}

\* handleResponse, handleToolsListResponse: the id is resolved, and a list
\* goes to the first or to the subsequent handler by the shared flag.
\* Everything else (an unknown id, an error, a result that does not parse, a
\* tools/call result, which is only scanned) is forwarded.
Resolve(c) ==
  /\ pc[c] = "inspect"
  /\ pending' = [pending EXCEPT ![line[c].id] = None]
  /\ pc' = [pc EXCEPT ![c] = IF ~TakenForList(c) THEN "forward"
                             ELSE IF sessionPinned THEN "next" ELSE "first"]
  /\ firsts' = IF TakenForList(c) /\ ~sessionPinned
               THEN firsts \cup DefsIn(line[c].tools) ELSE firsts
  /\ UNCHANGED << storeVars, connVars, reqVars, line, toPin, recorded, earlier >>

\* Load that starts fresh although there is a file.
LoadFresh(c) ==
  /\ pc[c] = "first"
  /\ pins' = NoTools
  /\ pc' = [pc EXCEPT ![c] = "check"]
  /\ UNCHANGED << file, baseline, sessionPinned, pending, connVars, reqVars,
                  line, toPin, history >>

\* handleFirstToolsList: Load replaces the pins by those of the file.
LoadPins(c) ==
  /\ pc[c] = "first"
  /\ pins' = IF file = None THEN NoTools ELSE file
  /\ pc' = [pc EXCEPT ![c] = "check"]
  /\ UNCHANGED << file, baseline, sessionPinned, pending, connVars, reqVars,
                  line, toPin, history >>

\* The pins of the one server, as the pin store keeps them.
Store == [NoPins EXCEPT ![Server] = pins]

\* Check against the pins: changes are recorded, and then nothing is pinned.
CheckPins(c) ==
  /\ pc[c] = "check"
  /\ pc' = [pc EXCEPT ![c] =
              IF checkBetweenSession(Store, Server, line[c].tools) = {}
              THEN "haspins" ELSE "rest"]
  /\ UNCHANGED << storeVars, pending, connVars, reqVars, line, toPin, history >>

\* serverHasPins, in a critical section of its own.
AskHasPins(c) ==
  /\ pc[c] = "haspins"
  /\ IF serverHasPins(Store, Server)
     THEN /\ pc' = [pc EXCEPT ![c] = "rest"]
          /\ UNCHANGED toPin
     ELSE /\ pc' = [pc EXCEPT ![c] = "pin"]
          /\ toPin' = [toPin EXCEPT ![c] =
                         { t \in Tools : line[c].tools[t] # None }]
  /\ UNCHANGED << storeVars, pending, connVars, reqVars, line, history >>

\* PinAll takes the lock anew for every tool.
PinOne(c, t) ==
  /\ pc[c] = "pin"
  /\ t \in toPin[c]
  /\ pins' = [pins EXCEPT ![t] = line[c].tools[t]]
  /\ toPin' = [toPin EXCEPT ![c] = @ \ {t}]
  /\ UNCHANGED << file, baseline, sessionPinned, pending, connVars, reqVars,
                  pc, line, history >>

\* Save writes the pins as they are now, or fails and is only logged.
SavePins(c) ==
  /\ pc[c] = "pin"
  /\ toPin[c] = {}
  /\ file' \in {file, pins}
  /\ pc' = [pc EXCEPT ![c] = "rest"]
  /\ UNCHANGED << pins, baseline, sessionPinned, pending, connVars, reqVars,
                  line, toPin, history >>

\* The rest of handleFirstToolsList.
SetSessionBaseline(c) ==
  /\ pc[c] = "rest"
  /\ baseline' = line[c].tools
  /\ sessionPinned' = TRUE
  /\ pc' = [pc EXCEPT ![c] = "forward"]
  /\ UNCHANGED << pins, file, pending, connVars, reqVars, line, toPin, history >>

\* handleSubsequentToolsList that sets the baseline and compares with it
\* then: it finds no difference.
RebaseBeforeCheck(c) ==
  /\ pc[c] = "next"
  /\ baseline' = line[c].tools
  /\ pc' = [pc EXCEPT ![c] = "rebase"]
  /\ UNCHANGED << pins, file, sessionPinned, pending, connVars, reqVars, line,
                  toPin, history >>

\* handleSubsequentToolsList: differences from the baseline are recorded.
CheckMidSession(c) ==
  /\ pc[c] = "next"
  /\ LET changed == { ch.tool : ch \in checkMidSession(Store, Server, baseline,
                                                       line[c].tools) }
     IN  recorded' = recorded \cup
           { d \in DefsIn(line[c].tools) : d[1] \in changed }
  /\ pc' = [pc EXCEPT ![c] = "rebase"]
  /\ UNCHANGED << storeVars, pending, connVars, reqVars, line, toPin, firsts,
                  earlier >>

\* The list becomes the baseline, in a critical section of its own.
Rebase(c) ==
  /\ pc[c] = "rebase"
  /\ baseline' = line[c].tools
  /\ pc' = [pc EXCEPT ![c] = "forward"]
  /\ UNCHANGED << pins, file, sessionPinned, pending, connVars, reqVars, line,
                  toPin, history >>

\* The frame goes to the client, whatever was found.
ForwardResponse(c) ==
  /\ pc[c] = "forward"
  /\ up[c].client
  /\ pc' = [pc EXCEPT ![c] = "read"]
  /\ line' = [line EXCEPT ![c] = None]
  /\ UNCHANGED << storeVars, pending, connVars, reqVars, toPin, history >>

-----------------------------------------------------------------------------
RequestStep(c) ==
  \/ TrackRequest(c)
  \/ ForwardRequest(c)
  \/ RequestRelayFails(c)
  \/ RequestRelayEnds(c)

ResponseStep(c) ==
  \/ Resolve(c)
  \/ LoadPins(c)
  \/ CheckPins(c)
  \/ AskHasPins(c)
  \/ \E t \in Tools : PinOne(c, t)
  \/ SavePins(c)
  \/ SetSessionBaseline(c)
  \/ CheckMidSession(c)
  \/ Rebase(c)
  \/ ForwardResponse(c)
  \/ ResponseRelayFails(c)
  \/ ResponseRelayEnds(c)

Next ==
  \E c \in Conns :
    \/ Connect(c)
    \/ Refuse(c)
    \/ \E side \in {"client", "server"} : PeerCloses(c, side)
    \/ ServeReturns(c)
    \/ \E i \in Ids : \E m \in Methods : ClientSends(c, i, m)
    \/ \E i \in Ids : \E a \in Answers("tools/list") \cup Answers("tools/call") :
         ServerAnswers(c, i, a)
    \/ RequestStep(c)
    \/ ResponseStep(c)

\* The Go scheduler runs every goroutine that can go on.  Nothing is assumed
\* of clients and servers.
Fairness ==
  \A c \in Conns : /\ WF_vars(RequestStep(c))
                   /\ WF_vars(ResponseStep(c))
                   /\ WF_vars(ServeReturns(c))

Spec == Init /\ [][Next]_vars

FairSpec == Spec /\ Fairness

-----------------------------------------------------------------------------
\* No two clients use the same request id.
IdsDiffer == \A c, d \in Conns : c # d => IdsOf[c] \cap IdsOf[d] = {}

(* Every definition in a list that is about to be forwarded was in a list
   handled as the session's first one, or has been recorded with the decision
   "block" by some connection.  It has to survive the interleavings in which
   one connection compares with a baseline that another is replacing, and
   those in which several connections take the first-list path.  It is stated
   for clients with different request ids. *)
NothingNewUnrecorded ==
  IdsDiffer =>
    \A c \in Conns :
      pc[c] = "forward" /\ line[c].kind = "tools"
        => DefsIn(line[c].tools) \subseteq firsts \cup recorded

(* Pins that an earlier run saved for the server stay as they are, in the
   store and on file, however Load, Check, PinAll and Save of several
   connections interleave: no connection's list is ever auto-pinned over
   them (the SSH known_hosts model of the pin store). *)
EarlierPinsStick ==
  earlier # None /\ DefsIn(earlier) # {} => pins = earlier /\ file = earlier

(* "When either relay finishes, close both connections": once a socket of a
   connection is closed both relays end and no goroutine is left behind,
   wherever they are in an inspection. *)
RelaysEnd ==
  \A c \in Conns :
    serving[c] = "yes" /\ ~(up[c].client /\ up[c].server)
      ~> serving[c] = "done" /\ reqPc[c] = "down" /\ pc[c] = "down"

(* mcp_streamable.go: the same pinning logic as the stdio wrapper.  There,
   every list is compared before it is forwarded; here a second client with
   the same request id makes the proxy take a list for something else. *)
EveryListCompared ==
  \A c \in Conns :
    pc[c] = "forward" /\ line[c].kind = "tools"
      => DefsIn(line[c].tools) \subseteq firsts \cup recorded
=============================================================================
