----------------------- MODULE StreamableProxyProofs ------------------------
(***************************************************************************)
(* Proofs about the WebSocket proxy, for any number of connections, any tool*)
(* definitions and any pin file of an earlier run.                         *)
(***************************************************************************)
EXTENDS StreamableProxy, TLAPS

Handling == {"inspect", "first", "check", "haspins", "pin", "save", "rest",
             "next", "rebase", "forward"}

\* A relay that handles a message has one.
LinesOK ==
  \A c \in Conns :
    /\ pc[c] \in Handling => line[c] # None
    /\ reqPc[c] \in {"inspect", "forward"} => reqLine[c] # None

\* Where there are pins of an earlier run, nobody gets to PinAll.
EarlierOK ==
  earlier # None /\ DefsIn(earlier) # {} =>
    /\ pins = earlier /\ file = earlier
    /\ \A c \in Conns : pc[c] # "pin"

\* What the baseline holds was first or is recorded, and so is every list
\* that is about to become the baseline.
ListsOK ==
  /\ DefsIn(baseline) \subseteq firsts \cup recorded
  /\ \A c \in Conns :
       /\ pc[c] \in {"first", "check", "haspins", "pin", "rest"} =>
            DefsIn(line[c].tools) \subseteq firsts
       /\ pc[c] = "rebase" => DefsIn(line[c].tools) \subseteq firsts \cup recorded

\* The tracker knows the method of a request until its answer is resolved: an
\* id is in one place at a time.
IdOK(c) ==
  /\ \A i \in Ids :
       atServer[c][i] # None => i \in IdsOf[c] /\ pending[i] = atServer[c][i]
  /\ reqLine[c] # None =>
       /\ reqLine[c].id \in IdsOf[c]
       /\ atServer[c][reqLine[c].id] = None
       /\ line[c] # None => line[c].id # reqLine[c].id
  /\ reqPc[c] = "forward" => pending[reqLine[c].id] = reqLine[c].method
  /\ line[c] # None => line[c].id \in IdsOf[c] /\ atServer[c][line[c].id] = None
  /\ pc[c] = "inspect" /\ line[c].kind = "tools" =>
       pending[line[c].id] = "tools/list"
  /\ pc[c] = "forward" /\ line[c].kind = "tools" =>
       DefsIn(line[c].tools) \subseteq firsts \cup recorded

IdsOK == IdsDiffer => \A c \in Conns : IdOK(c)

StreamIInv == TypeOK /\ LinesOK /\ EarlierOK /\ ListsOK /\ IdsOK

-----------------------------------------------------------------------------
\* Tool maps and messages are not None.
LEMMA MapFacts ==
  /\ NoTools \in ToolMaps
  /\ DefsIn(NoTools) = {}
  /\ \A ts \in ToolMaps : DefsIn(ts) \subseteq Named
  /\ None \notin ToolMaps /\ None \notin Requests /\ None \notin Responses
  /\ None \notin Methods
  BY NoneAssumption, NoneIsNoMessage
  DEF NoTools, ToolMaps, DefsIn, Named

\* checkMidSession reports the tools that differ from the baseline.
LEMMA MidSessionFacts ==
  ASSUME NEW s, NEW b, NEW ts, NEW P
  PROVE  { ch.tool : ch \in checkMidSession(P, s, b, ts) }
           = { t \in Tools : b[t] # ts[t] }
  <1> DEFINE Found == { u \in Tools : b[u] # ts[u] }
             sev(t) == IF b[t] = None \/ ts[t] = None THEN "critical"
                       ELSE IF P[s][t] # None
                            THEN classifyPinChangeFromHashes(P[s][t], ts[t])
                            ELSE "high"
  <1>1. checkMidSession(P, s, b, ts)
          = { [tool |-> t, severity |-> sev(t)] : t \in Found }
    BY DEF checkMidSession
  <1> HIDE DEF Found, sev
  <1>2. \A t : [tool |-> t, severity |-> sev(t)].tool = t
    OBVIOUS
  <1>3. { ch.tool : ch \in { [tool |-> t, severity |-> sev(t)] : t \in Found } } = Found
    BY <1>2, Zenon
  <1>4. { ch.tool : ch \in checkMidSession(P, s, b, ts) } = Found
    BY <1>1, <1>3, Zenon
  <1> QED BY <1>4 DEF Found

\* An assignment two levels down.
LEMMA NestedExcept ==
  ASSUME NEW A, NEW B, NEW S, NEW f \in [A -> [B -> S]],
         NEW x \in A, NEW y \in B, NEW v \in S
  PROVE  /\ [f EXCEPT ![x][y] = v] \in [A -> [B -> S]]
         /\ \A z \in A : \A w \in B :
              [f EXCEPT ![x][y] = v][z][w] = IF z = x /\ w = y THEN v ELSE f[z][w]
  OBVIOUS

\* A server's answers, of which only one to tools/list has tools.
LEMMA AnswerFacts ==
  ASSUME NEW m \in Methods, NEW a \in Answers(m)
  PROVE  /\ a.kind \in Kinds /\ a.tools \in ToolMaps
         /\ a.kind = "tools" => m = "tools/list"
  <1>1. CASE a = [kind |-> "error", tools |-> NoTools]
    BY <1>1, MapFacts DEF Kinds
  <1>2. CASE m = "tools/list" /\ a \in { [kind |-> "tools", tools |-> ts] : ts \in ToolMaps }
    BY <1>2 DEF Kinds
  <1>3. CASE a = [kind |-> "malformed", tools |-> NoTools]
    BY <1>3, MapFacts DEF Kinds
  <1>4. CASE a = [kind |-> "result", tools |-> NoTools]
    BY <1>4, MapFacts DEF Kinds
  <1> QED BY <1>1, <1>2, <1>3, <1>4 DEF Answers

\* The messages that the relays handle.
LEMMA LineFacts ==
  ASSUME TypeOK, LinesOK, NEW c \in Conns
  PROVE  /\ pc[c] \in Handling =>
              /\ line[c] \in Responses /\ line[c] # None
              /\ line[c].id \in Ids /\ line[c].kind \in Kinds
              /\ line[c].tools \in ToolMaps /\ DefsIn(line[c].tools) \subseteq Named
         /\ reqPc[c] \in {"inspect", "forward"} =>
              /\ reqLine[c] \in Requests /\ reqLine[c] # None
              /\ reqLine[c].id \in Ids /\ reqLine[c].method \in Methods
  <1>1. /\ pc[c] \in Handling => line[c] \in Responses /\ line[c] # None
        /\ reqPc[c] \in {"inspect", "forward"} => reqLine[c] \in Requests /\ reqLine[c] # None
    BY DEF TypeOK, LinesOK
  <1> QED BY <1>1, MapFacts DEF Responses, Requests

\* Closing one socket of a connection.
LEMMA SideFacts ==
  ASSUME NEW r \in [client : BOOLEAN, server : BOOLEAN],
         NEW side \in {"client", "server"}
  PROVE  [r EXCEPT ![side] = FALSE] \in [client : BOOLEAN, server : BOOLEAN]
  OBVIOUS

\* No connection, and the pins of an earlier run are loaded.
LEMMA StreamInitial == Init => StreamIInv
  <1> SUFFICES ASSUME Init PROVE StreamIInv
    OBVIOUS
  <1>1. file \in ToolMaps \cup {None} /\ pins \in ToolMaps
    BY MapFacts, StreamableAssumption DEF Init
  <1>2. sessionPinned \in BOOLEAN
    BY Zenon DEF Init
  <1>3. TypeOK
    BY <1>1, <1>2, MapFacts, StreamableAssumption
    DEF Init, TypeOK, NoIds
  <1>4. LinesOK
    BY DEF Init, LinesOK, Handling
  <1>5. EarlierOK
    BY DEF Init, EarlierOK
  <1>6. ListsOK
    BY MapFacts DEF Init, ListsOK
  <1>7. IdsOK
    BY MapFacts DEF Init, IdsOK, IdOK, NoIds
  <1> QED BY <1>3, <1>4, <1>5, <1>6, <1>7 DEF StreamIInv

-----------------------------------------------------------------------------
\* The relays of a new connection have no message.
LEMMA ConnectStep ==
  ASSUME StreamIInv, NEW c \in Conns, Connect(c)
  PROVE  StreamIInv'
  <1> USE DEF Connect, storeVars, connVars, reqVars, respVars, history
  <1>1. TypeOK'
    BY MapFacts, SMTT(20) DEF StreamIInv, TypeOK, LinesOK, Handling
  <1>2. LinesOK'
    BY MapFacts, SMTT(20) DEF StreamIInv, TypeOK, LinesOK, Handling
  <1>3. EarlierOK'
    BY SMTT(20) DEF StreamIInv, TypeOK, EarlierOK
  <1>4. ListsOK'
    BY SMTT(20) DEF StreamIInv, TypeOK, LinesOK, Handling, ListsOK
  <1>5. IdsOK'
    <2> SUFFICES ASSUME IdsDiffer, NEW d \in Conns PROVE IdOK(d)'
      BY DEF IdsOK, IdsDiffer
    <2>1. IdOK(c) /\ IdOK(d)
      BY DEF StreamIInv, IdsOK
    <2>2. d # c => IdsOf[c] \cap IdsOf[d] = {}
      BY DEF IdsDiffer
    <2> QED
      BY <2>1, <2>2, MapFacts, SMTT(20) DEF StreamIInv, TypeOK, LinesOK, Handling, IdOK
  <1> QED BY <1>1, <1>2, <1>3, <1>4, <1>5 DEF StreamIInv

\* A connection that is refused has no relays.
LEMMA RefuseStep ==
  ASSUME StreamIInv, NEW c \in Conns, Refuse(c)
  PROVE  StreamIInv'
  <1> USE DEF Refuse, storeVars, connVars, reqVars, respVars, history
  <1>1. TypeOK'
    BY MapFacts, SMTT(20) DEF StreamIInv, TypeOK, LinesOK, Handling
  <1>2. LinesOK'
    BY MapFacts, SMTT(20) DEF StreamIInv, TypeOK, LinesOK, Handling
  <1>3. EarlierOK'
    BY SMTT(20) DEF StreamIInv, TypeOK, EarlierOK
  <1>4. ListsOK'
    BY SMTT(20) DEF StreamIInv, TypeOK, LinesOK, Handling, ListsOK
  <1>5. IdsOK'
    <2> SUFFICES ASSUME IdsDiffer, NEW d \in Conns PROVE IdOK(d)'
      BY DEF IdsOK, IdsDiffer
    <2>1. IdOK(c) /\ IdOK(d)
      BY DEF StreamIInv, IdsOK
    <2>2. d # c => IdsOf[c] \cap IdsOf[d] = {}
      BY DEF IdsDiffer
    <2> QED
      BY <2>1, <2>2, MapFacts, SMTT(20) DEF StreamIInv, TypeOK, LinesOK, Handling, IdOK
  <1> QED BY <1>1, <1>2, <1>3, <1>4, <1>5 DEF StreamIInv

\* Sockets and errors are no part of the lists and pins.
LEMMA PeerClosesStep ==
  ASSUME StreamIInv, NEW c \in Conns, NEW side \in {"client", "server"}, PeerCloses(c, side)
  PROVE  StreamIInv'
  <1> USE DEF PeerCloses, storeVars, connVars, reqVars, respVars, history
  <1>1. TypeOK'
    <2> DEFINE x == [up[c] EXCEPT ![side] = FALSE]
    <2>1. up[c] \in [client : BOOLEAN, server : BOOLEAN]
      BY DEF StreamIInv, TypeOK
    <2>2. x \in [client : BOOLEAN, server : BOOLEAN]
      BY <2>1, SideFacts
    <2>3. up' = [up EXCEPT ![c] = x]
      OBVIOUS
    <2> HIDE DEF x
    <2>4. up' \in [Conns -> [client : BOOLEAN, server : BOOLEAN]]
      BY <2>2, <2>3 DEF StreamIInv, TypeOK
    <2> QED BY <2>4 DEF StreamIInv, TypeOK
  <1>2. LinesOK'
    BY MapFacts, SMTT(20) DEF StreamIInv, TypeOK, LinesOK, Handling
  <1>3. EarlierOK'
    BY SMTT(20) DEF StreamIInv, TypeOK, EarlierOK
  <1>4. ListsOK'
    BY SMTT(20) DEF StreamIInv, TypeOK, LinesOK, Handling, ListsOK
  <1>5. IdsOK'
    <2> SUFFICES ASSUME IdsDiffer, NEW d \in Conns PROVE IdOK(d)'
      BY DEF IdsOK, IdsDiffer
    <2>1. IdOK(c) /\ IdOK(d)
      BY DEF StreamIInv, IdsOK
    <2>2. d # c => IdsOf[c] \cap IdsOf[d] = {}
      BY DEF IdsDiffer
    <2> QED
      BY <2>1, <2>2, MapFacts, SMTT(20) DEF StreamIInv, TypeOK, LinesOK, Handling, IdOK
  <1> QED BY <1>1, <1>2, <1>3, <1>4, <1>5 DEF StreamIInv

\* ServeHTTP returns and leaves the relays' messages alone.
LEMMA ServeReturnsStep ==
  ASSUME StreamIInv, NEW c \in Conns, ServeReturns(c)
  PROVE  StreamIInv'
  <1> USE DEF ServeReturns, storeVars, connVars, reqVars, respVars, history
  <1>1. TypeOK'
    BY MapFacts, SMTT(20) DEF StreamIInv, TypeOK, LinesOK, Handling
  <1>2. LinesOK'
    BY MapFacts, SMTT(20) DEF StreamIInv, TypeOK, LinesOK, Handling
  <1>3. EarlierOK'
    BY SMTT(20) DEF StreamIInv, TypeOK, EarlierOK
  <1>4. ListsOK'
    BY SMTT(20) DEF StreamIInv, TypeOK, LinesOK, Handling, ListsOK
  <1>5. IdsOK'
    <2> SUFFICES ASSUME IdsDiffer, NEW d \in Conns PROVE IdOK(d)'
      BY DEF IdsOK, IdsDiffer
    <2>1. IdOK(c) /\ IdOK(d)
      BY DEF StreamIInv, IdsOK
    <2>2. d # c => IdsOf[c] \cap IdsOf[d] = {}
      BY DEF IdsDiffer
    <2> QED
      BY <2>1, <2>2, MapFacts, SMTT(20) DEF StreamIInv, TypeOK, LinesOK, Handling, IdOK
  <1> QED BY <1>1, <1>2, <1>3, <1>4, <1>5 DEF StreamIInv

\* A client's request has an id of its own that it waits for no more.
LEMMA ClientSendsStep ==
  ASSUME StreamIInv, NEW c \in Conns, NEW i \in Ids, NEW m \in Methods, ClientSends(c, i, m)
  PROVE  StreamIInv'
  <1> USE DEF ClientSends, storeVars, connVars, reqVars, respVars, history
  <1> DEFINE x == [id |-> i, method |-> m]
  <1>a. x \in Requests /\ x # None /\ x.id = i
    BY MapFacts DEF Requests
  <1>b. reqLine' = [reqLine EXCEPT ![c] = x]
    OBVIOUS
  <1> HIDE DEF x
  <1>1. TypeOK'
    BY <1>a, <1>b, StreamableAssumption DEF StreamIInv, TypeOK
  <1>2. LinesOK'
    BY <1>a, <1>b DEF StreamIInv, TypeOK, LinesOK, Handling
  <1>3. EarlierOK'
    BY SMTT(20) DEF StreamIInv, TypeOK, EarlierOK
  <1>4. ListsOK'
    BY SMTT(20) DEF StreamIInv, TypeOK, LinesOK, Handling, ListsOK
  <1>5. IdsOK'
    <2> SUFFICES ASSUME IdsDiffer, NEW d \in Conns PROVE IdOK(d)'
      BY DEF IdsOK, IdsDiffer
    <2>1. IdOK(c) /\ IdOK(d)
      BY DEF StreamIInv, IdsOK
    <2>2. d # c => IdsOf[c] \cap IdsOf[d] = {}
      BY DEF IdsDiffer
    <2> QED
      BY <1>a, <1>b, <2>1, <2>2 DEF StreamIInv, TypeOK, LinesOK, Handling, IdOK
  <1> QED BY <1>1, <1>2, <1>3, <1>4, <1>5 DEF StreamIInv

\* An answer takes the id from the server to the response relay.
LEMMA ServerAnswersStep ==
  ASSUME StreamIInv, NEW c \in Conns, NEW i \in Ids,
         NEW a \in Answers("tools/list") \cup Answers("tools/call"),
         ServerAnswers(c, i, a)
  PROVE  StreamIInv'
  <1> USE DEF ServerAnswers, storeVars, connVars, reqVars, respVars, history
  <1> DEFINE x == [id |-> i, kind |-> a.kind, tools |-> a.tools]
  <1>a. atServer[c][i] \in Methods
    BY DEF StreamIInv, TypeOK
  <1>b. /\ x \in Responses /\ x # None /\ x.id = i
        /\ x.kind = "tools" => atServer[c][i] = "tools/list"
    BY <1>a, MapFacts, AnswerFacts DEF Responses
  <1>c. line' = [line EXCEPT ![c] = x]
    OBVIOUS
  <1>d. /\ atServer' \in [Conns -> [Ids -> Methods \cup {None}]]
        /\ \A e \in Conns : \A j \in Ids :
             atServer'[e][j] = IF e = c /\ j = i THEN None ELSE atServer[e][j]
    BY NestedExcept DEF StreamIInv, TypeOK
  <1> HIDE DEF x
  <1>1. TypeOK'
    BY <1>b, <1>c, <1>d DEF StreamIInv, TypeOK
  <1>2. LinesOK'
    BY <1>b, <1>c DEF StreamIInv, TypeOK, LinesOK, Handling
  <1>3. EarlierOK'
    BY SMTT(20) DEF StreamIInv, TypeOK, EarlierOK
  <1>4. ListsOK'
    BY SMTT(20) DEF StreamIInv, TypeOK, LinesOK, Handling, ListsOK
  <1>5. IdsOK'
    <2> SUFFICES ASSUME IdsDiffer, NEW d \in Conns PROVE IdOK(d)'
      BY DEF IdsOK, IdsDiffer
    <2>1. IdOK(c) /\ IdOK(d)
      BY DEF StreamIInv, IdsOK
    <2>2. d # c => IdsOf[c] \cap IdsOf[d] = {}
      BY DEF IdsDiffer
    <2>3. CASE d = c
      BY <1>b, <1>c, <1>d, <2>1, <2>3 DEF StreamIInv, TypeOK, LinesOK, IdOK
    <2>4. CASE d # c
      BY <1>c, <1>d, <2>1, <2>4 DEF StreamIInv, TypeOK, IdOK
    <2> QED BY <2>3, <2>4
  <1> QED BY <1>1, <1>2, <1>3, <1>4, <1>5 DEF StreamIInv

\* Tracking a request disturbs the ids of no other connection.
LEMMA TrackRequestStep ==
  ASSUME StreamIInv, NEW c \in Conns, TrackRequest(c)
  PROVE  StreamIInv'
  <1> USE DEF TrackRequest, storeVars, connVars, reqVars, respVars, history
  <1>a. /\ reqLine[c] # None /\ reqLine[c].id \in Ids
        /\ reqLine[c].method \in Methods
    BY LineFacts DEF StreamIInv
  <1>1. TypeOK'
    BY <1>a DEF StreamIInv, TypeOK
  <1>2. LinesOK'
    BY MapFacts, SMTT(20) DEF StreamIInv, TypeOK, LinesOK, Handling
  <1>3. EarlierOK'
    BY SMTT(20) DEF StreamIInv, TypeOK, EarlierOK
  <1>4. ListsOK'
    BY SMTT(20) DEF StreamIInv, TypeOK, LinesOK, Handling, ListsOK
  <1>5. IdsOK'
    <2> SUFFICES ASSUME IdsDiffer, NEW d \in Conns PROVE IdOK(d)'
      BY DEF IdsOK, IdsDiffer
    <2>1. IdOK(c) /\ IdOK(d)
      BY DEF StreamIInv, IdsOK
    <2>2. d # c => IdsOf[c] \cap IdsOf[d] = {}
      BY DEF IdsDiffer
    <2>3. reqLine[c].id \in IdsOf[c] /\ atServer[c][reqLine[c].id] = None
      BY <1>a, <2>1 DEF IdOK
    <2>4. /\ pending'[reqLine[c].id] = reqLine[c].method
          /\ \A j \in Ids \ {reqLine[c].id} : pending'[j] = pending[j]
      BY <1>a DEF StreamIInv, TypeOK
    <2>5. CASE d = c
      BY <1>a, <2>1, <2>3, <2>4, <2>5, LineFacts DEF StreamIInv, TypeOK, IdOK, Handling
    <2>6. CASE d # c
      <3>1. reqLine[c].id \notin IdsOf[d]
        BY <2>2, <2>3, <2>6
      <3>2. reqPc'[d] = reqPc[d]
        BY <2>6 DEF StreamIInv, TypeOK
      <3> QED BY <2>1, <2>4, <3>1, <3>2, LineFacts DEF StreamIInv, TypeOK, IdOK, Handling
    <2> QED BY <2>5, <2>6
  <1> QED BY <1>1, <1>2, <1>3, <1>4, <1>5 DEF StreamIInv

\* A request that is forwarded has been tracked.
LEMMA ForwardRequestStep ==
  ASSUME StreamIInv, NEW c \in Conns, ForwardRequest(c)
  PROVE  StreamIInv'
  <1> USE DEF ForwardRequest, storeVars, connVars, reqVars, respVars, history
  <1>a. /\ reqLine[c] # None /\ reqLine[c].id \in Ids
        /\ reqLine[c].method \in Methods
    BY LineFacts DEF StreamIInv
  <1>b. /\ atServer' \in [Conns -> [Ids -> Methods \cup {None}]]
        /\ \A e \in Conns : \A j \in Ids :
             atServer'[e][j] = IF e = c /\ j = reqLine[c].id THEN reqLine[c].method
                               ELSE atServer[e][j]
    BY <1>a, NestedExcept DEF StreamIInv, TypeOK
  <1>1. TypeOK'
    BY <1>a, <1>b DEF StreamIInv, TypeOK
  <1>2. LinesOK'
    BY MapFacts, SMTT(20) DEF StreamIInv, TypeOK, LinesOK, Handling
  <1>3. EarlierOK'
    BY SMTT(20) DEF StreamIInv, TypeOK, EarlierOK
  <1>4. ListsOK'
    BY SMTT(20) DEF StreamIInv, TypeOK, LinesOK, Handling, ListsOK
  <1>5. IdsOK'
    <2> SUFFICES ASSUME IdsDiffer, NEW d \in Conns PROVE IdOK(d)'
      BY DEF IdsOK, IdsDiffer
    <2>1. IdOK(c) /\ IdOK(d)
      BY DEF StreamIInv, IdsOK
    <2>2. d # c => IdsOf[c] \cap IdsOf[d] = {}
      BY DEF IdsDiffer
    <2> QED
      BY <1>a, <1>b, <2>1, <2>2 DEF StreamIInv, TypeOK, LinesOK, Handling, IdOK
  <1> QED BY <1>1, <1>2, <1>3, <1>4, <1>5 DEF StreamIInv

\* A failed relay drops its message.
LEMMA RequestRelayFailsStep ==
  ASSUME StreamIInv, NEW c \in Conns, RequestRelayFails(c)
  PROVE  StreamIInv'
  <1> USE DEF RequestRelayFails, storeVars, connVars, reqVars, respVars, history
  <1>1. TypeOK'
    BY MapFacts, SMTT(20) DEF StreamIInv, TypeOK, LinesOK, Handling
  <1>2. LinesOK'
    BY MapFacts, SMTT(20) DEF StreamIInv, TypeOK, LinesOK, Handling
  <1>3. EarlierOK'
    BY SMTT(20) DEF StreamIInv, TypeOK, EarlierOK
  <1>4. ListsOK'
    BY SMTT(20) DEF StreamIInv, TypeOK, LinesOK, Handling, ListsOK
  <1>5. IdsOK'
    <2> SUFFICES ASSUME IdsDiffer, NEW d \in Conns PROVE IdOK(d)'
      BY DEF IdsOK, IdsDiffer
    <2>1. IdOK(c) /\ IdOK(d)
      BY DEF StreamIInv, IdsOK
    <2>2. d # c => IdsOf[c] \cap IdsOf[d] = {}
      BY DEF IdsDiffer
    <2> QED
      BY <2>1, <2>2, MapFacts, SMTT(20) DEF StreamIInv, TypeOK, LinesOK, Handling, IdOK
  <1> QED BY <1>1, <1>2, <1>3, <1>4, <1>5 DEF StreamIInv

\* A relay that ends has room in errCh.
LEMMA RequestRelayEndsStep ==
  ASSUME StreamIInv, NEW c \in Conns, RequestRelayEnds(c)
  PROVE  StreamIInv'
  <1> USE DEF RequestRelayEnds, storeVars, connVars, reqVars, respVars, history
  <1>1. TypeOK'
    <2>1. errs[c] \in 0 .. 2
      BY DEF StreamIInv, TypeOK
    <2>2. errs[c] + 1 \in 0 .. 2
      BY <2>1
    <2> QED BY <2>2 DEF StreamIInv, TypeOK
  <1>2. LinesOK'
    BY MapFacts, SMTT(20) DEF StreamIInv, TypeOK, LinesOK, Handling
  <1>3. EarlierOK'
    BY SMTT(20) DEF StreamIInv, TypeOK, EarlierOK
  <1>4. ListsOK'
    BY SMTT(20) DEF StreamIInv, TypeOK, LinesOK, Handling, ListsOK
  <1>5. IdsOK'
    <2> SUFFICES ASSUME IdsDiffer, NEW d \in Conns PROVE IdOK(d)'
      BY DEF IdsOK, IdsDiffer
    <2>1. IdOK(c) /\ IdOK(d)
      BY DEF StreamIInv, IdsOK
    <2>2. d # c => IdsOf[c] \cap IdsOf[d] = {}
      BY DEF IdsDiffer
    <2> QED
      BY <2>1, <2>2, MapFacts, SMTT(20) DEF StreamIInv, TypeOK, LinesOK, Handling, IdOK
  <1> QED BY <1>1, <1>2, <1>3, <1>4, <1>5 DEF StreamIInv

\* With ids that differ, an answer to tools/list is taken for a list.
LEMMA ResolveStep ==
  ASSUME StreamIInv, NEW c \in Conns, Resolve(c)
  PROVE  StreamIInv'
  <1> USE DEF Resolve, storeVars, connVars, reqVars, respVars, history
  <1>a. /\ line[c] # None /\ line[c].id \in Ids /\ line[c].kind \in Kinds
        /\ line[c].tools \in ToolMaps /\ DefsIn(line[c].tools) \subseteq Named
    BY LineFacts DEF StreamIInv, Handling
  <1>1. TypeOK'
    BY <1>a, MapFacts DEF StreamIInv, TypeOK
  <1>2. LinesOK'
    BY MapFacts, SMTT(20) DEF StreamIInv, TypeOK, LinesOK, Handling
  <1>3. EarlierOK'
    BY SMTT(20) DEF StreamIInv, TypeOK, EarlierOK
  <1>4. ListsOK'
    BY SMTT(20) DEF StreamIInv, TypeOK, LinesOK, Handling, ListsOK
  <1>5. IdsOK'
    <2> SUFFICES ASSUME IdsDiffer, NEW d \in Conns PROVE IdOK(d)'
      BY DEF IdsOK, IdsDiffer
    <2>1. IdOK(c) /\ IdOK(d)
      BY DEF StreamIInv, IdsOK
    <2>2. d # c => IdsOf[c] \cap IdsOf[d] = {}
      BY DEF IdsDiffer
    <2>3. line[c].id \in IdsOf[c] /\ atServer[c][line[c].id] = None
      BY <1>a, <2>1 DEF IdOK
    <2>4. /\ pending'[line[c].id] = None
          /\ \A j \in Ids \ {line[c].id} : pending'[j] = pending[j]
      BY <1>a DEF StreamIInv, TypeOK
    <2>5. CASE d = c
      <3>1. pc'[c] = "forward" => line[c].kind # "tools"
        BY <2>1 DEF StreamIInv, TypeOK, IdOK, TakenForList
      <3>2. pc'[c] # "inspect"
        BY DEF StreamIInv, TypeOK
      <3> QED BY <1>a, <2>1, <2>3, <2>4, <2>5, <3>1, <3>2, LineFacts
              DEF StreamIInv, TypeOK, IdOK
    <2>6. CASE d # c
      <3>1. line[c].id \notin IdsOf[d]
        BY <2>2, <2>3, <2>6
      <3>2. pc'[d] = pc[d] /\ firsts \subseteq firsts'
        BY <2>6 DEF StreamIInv, TypeOK
      <3> QED BY <2>1, <2>4, <3>1, <3>2, LineFacts DEF StreamIInv, TypeOK, IdOK, Handling
    <2> QED BY <2>5, <2>6
  <1> QED BY <1>1, <1>2, <1>3, <1>4, <1>5 DEF StreamIInv

\* Load puts back what the file holds.
LEMMA LoadPinsStep ==
  ASSUME StreamIInv, NEW c \in Conns, LoadPins(c)
  PROVE  StreamIInv'
  <1> USE DEF LoadPins, storeVars, connVars, reqVars, respVars, history
  <1>1. TypeOK'
    BY MapFacts, SMTT(20) DEF StreamIInv, TypeOK, LinesOK, Handling
  <1>2. LinesOK'
    BY MapFacts, SMTT(20) DEF StreamIInv, TypeOK, LinesOK, Handling
  <1>3. EarlierOK'
    BY SMTT(20) DEF StreamIInv, TypeOK, EarlierOK
  <1>4. ListsOK'
    BY SMTT(20) DEF StreamIInv, TypeOK, LinesOK, Handling, ListsOK
  <1>5. IdsOK'
    <2> SUFFICES ASSUME IdsDiffer, NEW d \in Conns PROVE IdOK(d)'
      BY DEF IdsOK, IdsDiffer
    <2>1. IdOK(c) /\ IdOK(d)
      BY DEF StreamIInv, IdsOK
    <2>2. d # c => IdsOf[c] \cap IdsOf[d] = {}
      BY DEF IdsDiffer
    <2> QED
      BY <2>1, <2>2, MapFacts, SMTT(20) DEF StreamIInv, TypeOK, LinesOK, Handling, IdOK
  <1> QED BY <1>1, <1>2, <1>3, <1>4, <1>5 DEF StreamIInv

\* Check only decides where to go on.
LEMMA CheckPinsStep ==
  ASSUME StreamIInv, NEW c \in Conns, CheckPins(c)
  PROVE  StreamIInv'
  <1> USE DEF CheckPins, storeVars, connVars, reqVars, respVars, history
  <1>1. TypeOK'
    BY MapFacts, SMTT(20) DEF StreamIInv, TypeOK, LinesOK, Handling
  <1>2. LinesOK'
    BY MapFacts, SMTT(20) DEF StreamIInv, TypeOK, LinesOK, Handling
  <1>3. EarlierOK'
    BY SMTT(20) DEF StreamIInv, TypeOK, EarlierOK
  <1>4. ListsOK'
    BY SMTT(20) DEF StreamIInv, TypeOK, LinesOK, Handling, ListsOK
  <1>5. IdsOK'
    <2> SUFFICES ASSUME IdsDiffer, NEW d \in Conns PROVE IdOK(d)'
      BY DEF IdsOK, IdsDiffer
    <2>1. IdOK(c) /\ IdOK(d)
      BY DEF StreamIInv, IdsOK
    <2>2. d # c => IdsOf[c] \cap IdsOf[d] = {}
      BY DEF IdsDiffer
    <2> QED
      BY <2>1, <2>2, MapFacts, SMTT(20) DEF StreamIInv, TypeOK, LinesOK, Handling, IdOK
  <1> QED BY <1>1, <1>2, <1>3, <1>4, <1>5 DEF StreamIInv

\* Pins of an earlier run keep everybody from PinAll.
LEMMA AskHasPinsStep ==
  ASSUME StreamIInv, NEW c \in Conns, AskHasPins(c)
  PROVE  StreamIInv'
  <1> USE DEF AskHasPins, storeVars, connVars, reqVars, respVars, history
  <1>1. TypeOK'
    <2>1. { t \in Tools : line[c].tools[t] # None } \in SUBSET Tools
      OBVIOUS
    <2>2. toPin' \in [Conns -> SUBSET Tools]
      BY <2>1 DEF StreamIInv, TypeOK
    <2>3. pc' = [pc EXCEPT ![c] = "rest"] \/ pc' = [pc EXCEPT ![c] = "pin"]
      OBVIOUS
    <2> QED BY <2>2, <2>3 DEF StreamIInv, TypeOK
  <1>2. LinesOK'
    BY MapFacts, SMTT(20) DEF StreamIInv, TypeOK, LinesOK, Handling
  <1>3. EarlierOK'
    <2> SUFFICES ASSUME earlier # None, DefsIn(earlier) # {}
                 PROVE  /\ pins = earlier /\ file = earlier
                        /\ pc'[c] = "rest" /\ \A d \in Conns : pc'[d] # "pin"
      BY DEF EarlierOK
    <2>1. /\ pins = earlier /\ file = earlier /\ \A d \in Conns : pc[d] # "pin"
      BY DEF StreamIInv, EarlierOK
    <2>2. PICK t \in Tools : earlier[t] # None
      BY DEF DefsIn
    <2>3. Store[Server] = pins
      BY StreamableAssumption DEF Store, NoPins
    <2>4. serverHasPins(Store, Server)
      BY <2>1, <2>2, <2>3 DEF serverHasPins
    <2> QED BY <2>1, <2>4 DEF StreamIInv, TypeOK
  <1>4. ListsOK'
    BY SMTT(60) DEF StreamIInv, TypeOK, LinesOK, Handling, ListsOK
  <1>5. IdsOK'
    <2> SUFFICES ASSUME IdsDiffer, NEW d \in Conns PROVE IdOK(d)'
      BY DEF IdsOK, IdsDiffer
    <2>1. IdOK(c) /\ IdOK(d)
      BY DEF StreamIInv, IdsOK
    <2>2. d # c => IdsOf[c] \cap IdsOf[d] = {}
      BY DEF IdsDiffer
    <2> QED
      BY <2>1, <2>2, MapFacts, SMTT(20) DEF StreamIInv, TypeOK, LinesOK, Handling, IdOK
  <1> QED BY <1>1, <1>2, <1>3, <1>4, <1>5 DEF StreamIInv

\* PinAll runs only where there were no pins of an earlier run.
LEMMA PinOneStep ==
  ASSUME StreamIInv, NEW c \in Conns, NEW t \in Tools, PinOne(c, t)
  PROVE  StreamIInv'
  <1> USE DEF PinOne, storeVars, connVars, reqVars, respVars, history
  <1>a. /\ line[c] # None /\ line[c].id \in Ids /\ line[c].kind \in Kinds
        /\ line[c].tools \in ToolMaps /\ DefsIn(line[c].tools) \subseteq Named
    BY LineFacts DEF StreamIInv, Handling
  <1>1. TypeOK'
    <2>1. line[c].tools[t] \in Defs \cup {None}
      BY <1>a DEF ToolMaps
    <2>2. pins' \in ToolMaps
      BY <2>1 DEF StreamIInv, TypeOK, ToolMaps
    <2>3. toPin' \in [Conns -> SUBSET Tools]
      BY DEF StreamIInv, TypeOK
    <2> QED BY <2>2, <2>3 DEF StreamIInv, TypeOK
  <1>2. LinesOK'
    BY MapFacts, SMTT(20) DEF StreamIInv, TypeOK, LinesOK, Handling
  <1>3. EarlierOK'
    BY SMTT(20) DEF StreamIInv, TypeOK, EarlierOK
  <1>4. ListsOK'
    BY SMTT(20) DEF StreamIInv, TypeOK, LinesOK, Handling, ListsOK
  <1>5. IdsOK'
    <2> SUFFICES ASSUME IdsDiffer, NEW d \in Conns PROVE IdOK(d)'
      BY DEF IdsOK, IdsDiffer
    <2>1. IdOK(c) /\ IdOK(d)
      BY DEF StreamIInv, IdsOK
    <2>2. d # c => IdsOf[c] \cap IdsOf[d] = {}
      BY DEF IdsDiffer
    <2> QED
      BY <2>1, <2>2, MapFacts, SMTT(20) DEF StreamIInv, TypeOK, LinesOK, Handling, IdOK
  <1> QED BY <1>1, <1>2, <1>3, <1>4, <1>5 DEF StreamIInv

\* Save writes the pins as they are, or nothing.
LEMMA SavePinsStep ==
  ASSUME StreamIInv, NEW c \in Conns, SavePins(c)
  PROVE  StreamIInv'
  <1> USE DEF SavePins, storeVars, connVars, reqVars, respVars, history
  <1>1. TypeOK'
    BY MapFacts, SMTT(20) DEF StreamIInv, TypeOK, LinesOK, Handling
  <1>2. LinesOK'
    BY MapFacts, SMTT(20) DEF StreamIInv, TypeOK, LinesOK, Handling
  <1>3. EarlierOK'
    BY SMTT(20) DEF StreamIInv, TypeOK, EarlierOK
  <1>4. ListsOK'
    BY SMTT(20) DEF StreamIInv, TypeOK, LinesOK, Handling, ListsOK
  <1>5. IdsOK'
    <2> SUFFICES ASSUME IdsDiffer, NEW d \in Conns PROVE IdOK(d)'
      BY DEF IdsOK, IdsDiffer
    <2>1. IdOK(c) /\ IdOK(d)
      BY DEF StreamIInv, IdsOK
    <2>2. d # c => IdsOf[c] \cap IdsOf[d] = {}
      BY DEF IdsDiffer
    <2> QED
      BY <2>1, <2>2, MapFacts, SMTT(20) DEF StreamIInv, TypeOK, LinesOK, Handling, IdOK
  <1> QED BY <1>1, <1>2, <1>3, <1>4, <1>5 DEF StreamIInv

\* The first list becomes the baseline.
LEMMA SetSessionBaselineStep ==
  ASSUME StreamIInv, NEW c \in Conns, SetSessionBaseline(c)
  PROVE  StreamIInv'
  <1> USE DEF SetSessionBaseline, storeVars, connVars, reqVars, respVars, history
  <1>a. /\ line[c] # None /\ line[c].id \in Ids /\ line[c].kind \in Kinds
        /\ line[c].tools \in ToolMaps /\ DefsIn(line[c].tools) \subseteq Named
    BY LineFacts DEF StreamIInv, Handling
  <1>1. TypeOK'
    <2>1. sessionPinned' \in BOOLEAN
      BY Zenon
    <2> QED BY <1>a, <2>1 DEF StreamIInv, TypeOK
  <1>2. LinesOK'
    BY MapFacts, SMTT(20) DEF StreamIInv, TypeOK, LinesOK, Handling
  <1>3. EarlierOK'
    BY SMTT(20) DEF StreamIInv, TypeOK, EarlierOK
  <1>4. ListsOK'
    BY SMTT(20) DEF StreamIInv, TypeOK, LinesOK, Handling, ListsOK
  <1>5. IdsOK'
    <2> SUFFICES ASSUME IdsDiffer, NEW d \in Conns PROVE IdOK(d)'
      BY DEF IdsOK, IdsDiffer
    <2>1. IdOK(c) /\ IdOK(d)
      BY DEF StreamIInv, IdsOK
    <2>2. d # c => IdsOf[c] \cap IdsOf[d] = {}
      BY DEF IdsDiffer
    <2>3. DefsIn(line[c].tools) \subseteq firsts \cup recorded
      BY DEF StreamIInv, ListsOK
    <2>4. CASE d = c
      BY <2>1, <2>3, <2>4 DEF StreamIInv, TypeOK, IdOK
    <2>5. CASE d # c
      BY <2>1, <2>5 DEF StreamIInv, TypeOK, IdOK
    <2> QED BY <2>4, <2>5
  <1> QED BY <1>1, <1>2, <1>3, <1>4, <1>5 DEF StreamIInv

\* What a list has that the baseline has not is recorded.
LEMMA CheckMidSessionStep ==
  ASSUME StreamIInv, NEW c \in Conns, CheckMidSession(c)
  PROVE  StreamIInv'
  <1>0. { ch.tool : ch \in checkMidSession(Store, Server, baseline, line[c].tools) }
          = { t \in Tools : baseline[t] # line[c].tools[t] }
    BY MidSessionFacts
  <1> USE DEF CheckMidSession, storeVars, connVars, reqVars, respVars, history
  <1>a. /\ line[c] # None /\ line[c].id \in Ids /\ line[c].kind \in Kinds
        /\ line[c].tools \in ToolMaps /\ DefsIn(line[c].tools) \subseteq Named
    BY LineFacts DEF StreamIInv, Handling
  <1>b. recorded' = recorded \cup { d \in DefsIn(line[c].tools) :
                                       baseline[d[1]] # line[c].tools[d[1]] }
    <2>1. \A d \in DefsIn(line[c].tools) : d[1] \in Tools
      BY DEF DefsIn
    <2> QED BY <1>0, <2>1
  <1>1. TypeOK'
    <2>1. recorded' \subseteq Named
      BY <1>a, <1>b DEF StreamIInv, TypeOK
    <2> QED BY <2>1 DEF StreamIInv, TypeOK
  <1>2. LinesOK'
    BY MapFacts, SMTT(20) DEF StreamIInv, TypeOK, LinesOK, Handling
  <1>3. EarlierOK'
    BY SMTT(20) DEF StreamIInv, TypeOK, EarlierOK
  <1>4. ListsOK'
    <2>1. DefsIn(line[c].tools) \subseteq DefsIn(baseline) \cup recorded'
      BY <1>b DEF DefsIn
    <2>2. DefsIn(line[c].tools) \subseteq firsts \cup recorded'
      BY <1>b, <2>1 DEF StreamIInv, ListsOK
    <2> QED BY <1>b, <2>2 DEF StreamIInv, TypeOK, ListsOK
  <1>5. IdsOK'
    <2> SUFFICES ASSUME IdsDiffer, NEW d \in Conns PROVE IdOK(d)'
      BY DEF IdsOK, IdsDiffer
    <2>1. IdOK(c) /\ IdOK(d)
      BY DEF StreamIInv, IdsOK
    <2>2. d # c => IdsOf[c] \cap IdsOf[d] = {}
      BY DEF IdsDiffer
    <2> QED
      BY <2>1, <2>2, MapFacts, SMTT(20) DEF StreamIInv, TypeOK, LinesOK, Handling, IdOK
  <1> QED BY <1>1, <1>2, <1>3, <1>4, <1>5 DEF StreamIInv

\* A list that was compared becomes the baseline, even where it was
\* compared with another baseline than the one it replaces.
LEMMA RebaseStep ==
  ASSUME StreamIInv, NEW c \in Conns, Rebase(c)
  PROVE  StreamIInv'
  <1> USE DEF Rebase, storeVars, connVars, reqVars, respVars, history
  <1>a. /\ line[c] # None /\ line[c].id \in Ids /\ line[c].kind \in Kinds
        /\ line[c].tools \in ToolMaps /\ DefsIn(line[c].tools) \subseteq Named
    BY LineFacts DEF StreamIInv, Handling
  <1>1. TypeOK'
    BY <1>a DEF StreamIInv, TypeOK
  <1>2. LinesOK'
    BY MapFacts, SMTT(20) DEF StreamIInv, TypeOK, LinesOK, Handling
  <1>3. EarlierOK'
    BY SMTT(20) DEF StreamIInv, TypeOK, EarlierOK
  <1>4. ListsOK'
    BY SMTT(20) DEF StreamIInv, TypeOK, LinesOK, Handling, ListsOK
  <1>5. IdsOK'
    <2> SUFFICES ASSUME IdsDiffer, NEW d \in Conns PROVE IdOK(d)'
      BY DEF IdsOK, IdsDiffer
    <2>1. IdOK(c) /\ IdOK(d)
      BY DEF StreamIInv, IdsOK
    <2>2. d # c => IdsOf[c] \cap IdsOf[d] = {}
      BY DEF IdsDiffer
    <2>3. DefsIn(line[c].tools) \subseteq firsts \cup recorded
      BY DEF StreamIInv, ListsOK
    <2>4. CASE d = c
      BY <2>1, <2>3, <2>4 DEF StreamIInv, TypeOK, IdOK
    <2>5. CASE d # c
      BY <2>1, <2>5 DEF StreamIInv, TypeOK, IdOK
    <2> QED BY <2>4, <2>5
  <1> QED BY <1>1, <1>2, <1>3, <1>4, <1>5 DEF StreamIInv

\* A response that is forwarded is gone.
LEMMA ForwardResponseStep ==
  ASSUME StreamIInv, NEW c \in Conns, ForwardResponse(c)
  PROVE  StreamIInv'
  <1> USE DEF ForwardResponse, storeVars, connVars, reqVars, respVars, history
  <1>1. TypeOK'
    BY MapFacts, SMTT(20) DEF StreamIInv, TypeOK, LinesOK, Handling
  <1>2. LinesOK'
    BY MapFacts, SMTT(20) DEF StreamIInv, TypeOK, LinesOK, Handling
  <1>3. EarlierOK'
    BY SMTT(20) DEF StreamIInv, TypeOK, EarlierOK
  <1>4. ListsOK'
    BY SMTT(20) DEF StreamIInv, TypeOK, LinesOK, Handling, ListsOK
  <1>5. IdsOK'
    <2> SUFFICES ASSUME IdsDiffer, NEW d \in Conns PROVE IdOK(d)'
      BY DEF IdsOK, IdsDiffer
    <2>1. IdOK(c) /\ IdOK(d)
      BY DEF StreamIInv, IdsOK
    <2>2. d # c => IdsOf[c] \cap IdsOf[d] = {}
      BY DEF IdsDiffer
    <2> QED
      BY <2>1, <2>2, MapFacts, SMTT(20) DEF StreamIInv, TypeOK, LinesOK, Handling, IdOK
  <1> QED BY <1>1, <1>2, <1>3, <1>4, <1>5 DEF StreamIInv

\* A failed relay drops its message.
LEMMA ResponseRelayFailsStep ==
  ASSUME StreamIInv, NEW c \in Conns, ResponseRelayFails(c)
  PROVE  StreamIInv'
  <1> USE DEF ResponseRelayFails, storeVars, connVars, reqVars, respVars, history
  <1>1. TypeOK'
    BY MapFacts, SMTT(20) DEF StreamIInv, TypeOK, LinesOK, Handling
  <1>2. LinesOK'
    BY MapFacts, SMTT(20) DEF StreamIInv, TypeOK, LinesOK, Handling
  <1>3. EarlierOK'
    BY SMTT(20) DEF StreamIInv, TypeOK, EarlierOK
  <1>4. ListsOK'
    BY SMTT(20) DEF StreamIInv, TypeOK, LinesOK, Handling, ListsOK
  <1>5. IdsOK'
    <2> SUFFICES ASSUME IdsDiffer, NEW d \in Conns PROVE IdOK(d)'
      BY DEF IdsOK, IdsDiffer
    <2>1. IdOK(c) /\ IdOK(d)
      BY DEF StreamIInv, IdsOK
    <2>2. d # c => IdsOf[c] \cap IdsOf[d] = {}
      BY DEF IdsDiffer
    <2> QED
      BY <2>1, <2>2, MapFacts, SMTT(20) DEF StreamIInv, TypeOK, LinesOK, Handling, IdOK
  <1> QED BY <1>1, <1>2, <1>3, <1>4, <1>5 DEF StreamIInv

\* A relay that ends has room in errCh.
LEMMA ResponseRelayEndsStep ==
  ASSUME StreamIInv, NEW c \in Conns, ResponseRelayEnds(c)
  PROVE  StreamIInv'
  <1> USE DEF ResponseRelayEnds, storeVars, connVars, reqVars, respVars, history
  <1>1. TypeOK'
    BY MapFacts, SMTT(60) DEF StreamIInv, TypeOK, LinesOK, Handling
  <1>2. LinesOK'
    BY MapFacts, SMTT(20) DEF StreamIInv, TypeOK, LinesOK, Handling
  <1>3. EarlierOK'
    BY SMTT(20) DEF StreamIInv, TypeOK, EarlierOK
  <1>4. ListsOK'
    BY SMTT(20) DEF StreamIInv, TypeOK, LinesOK, Handling, ListsOK
  <1>5. IdsOK'
    <2> SUFFICES ASSUME IdsDiffer, NEW d \in Conns PROVE IdOK(d)'
      BY DEF IdsOK, IdsDiffer
    <2>1. IdOK(c) /\ IdOK(d)
      BY DEF StreamIInv, IdsOK
    <2>2. d # c => IdsOf[c] \cap IdsOf[d] = {}
      BY DEF IdsDiffer
    <2> QED
      BY <2>1, <2>2, MapFacts, SMTT(20) DEF StreamIInv, TypeOK, LinesOK, Handling, IdOK
  <1> QED BY <1>1, <1>2, <1>3, <1>4, <1>5 DEF StreamIInv
-----------------------------------------------------------------------------
\* Every step keeps the inductive invariant.
LEMMA StreamStep == StreamIInv /\ [Next]_vars => StreamIInv'
  <1> SUFFICES ASSUME StreamIInv, [Next]_vars PROVE StreamIInv'
    OBVIOUS
  <1>1. CASE UNCHANGED vars
    BY <1>1, ZenonT(60)
    DEF vars, storeVars, connVars, reqVars, respVars, history, StreamIInv, TypeOK,
        LinesOK, EarlierOK, ListsOK, IdsOK, IdOK
  <1>2. ASSUME NEW c \in Conns,
               \/ Connect(c)
               \/ Refuse(c)
               \/ \E side \in {"client", "server"} : PeerCloses(c, side)
               \/ ServeReturns(c)
        PROVE  StreamIInv'
    BY <1>2, ConnectStep, RefuseStep, PeerClosesStep, ServeReturnsStep, Zenon
  <1>3. ASSUME NEW c \in Conns, NEW i \in Ids,
               \/ \E m \in Methods : ClientSends(c, i, m)
               \/ \E a \in Answers("tools/list") \cup Answers("tools/call") :
                    ServerAnswers(c, i, a)
        PROVE  StreamIInv'
    BY <1>3, ClientSendsStep, ServerAnswersStep, Zenon
  <1>4. ASSUME NEW c \in Conns, RequestStep(c) PROVE StreamIInv'
    BY <1>4, TrackRequestStep, ForwardRequestStep, RequestRelayFailsStep,
       RequestRelayEndsStep, Zenon DEF RequestStep
  <1>5. ASSUME NEW c \in Conns, ResponseStep(c) PROVE StreamIInv'
    BY <1>5, ResolveStep, LoadPinsStep, CheckPinsStep, AskHasPinsStep, PinOneStep,
       SavePinsStep, SetSessionBaselineStep, CheckMidSessionStep, RebaseStep,
       ForwardResponseStep, ResponseRelayFailsStep, ResponseRelayEndsStep, Zenon
    DEF ResponseStep
  <1>6. CASE Next
    BY <1>2, <1>3, <1>4, <1>5, <1>6, Zenon DEF Next
  <1> QED BY <1>1, <1>6

\* The invariant holds of every behaviour.
LEMMA StreamInvariant == Spec => []StreamIInv
  BY StreamInitial, StreamStep, PTL DEF Spec

\* Every variable of the streamable proxy keeps its type.
THEOREM StreamableTypes == Spec => []TypeOK
  <1>1. StreamIInv => TypeOK
    BY DEF StreamIInv
  <1> QED BY <1>1, StreamInvariant, PTL

(* Pins that an earlier run saved for the server stay as they are, in the
   store and on file, however the first-list paths of any number of
   connections interleave: serverHasPins is asked before PinAll, and no Load
   or Save can lose them. *)
THEOREM EarlierPinsKept == Spec => []EarlierPinsStick
  <1>1. StreamIInv => EarlierPinsStick
    BY DEF StreamIInv, EarlierOK, EarlierPinsStick
  <1> QED BY <1>1, StreamInvariant, PTL

(* With clients whose request ids differ, every definition in a tools/list
   answer that is about to be forwarded was in a list handled as a first one
   or has been recorded: handleSubsequentToolsList compares before it sets the
   baseline, whatever other connections do in between. *)
THEOREM ListsCompared == Spec => []NothingNewUnrecorded
  <1>1. StreamIInv => NothingNewUnrecorded
    BY DEF StreamIInv, IdsOK, IdOK, NothingNewUnrecorded
  <1> QED BY <1>1, StreamInvariant, PTL
=============================================================================
