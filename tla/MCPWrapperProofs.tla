-------------------------- MODULE MCPWrapperProofs --------------------------
(***************************************************************************)
(* Proofs about MCPWrapper, for any number of wrapper processes, servers,  *)
(* tools, sessions and requests: its types, that no list is forwarded      *)
(* uninspected, that every mid-session change is recorded, and that pins   *)
(* are definitions their server served; and for one slot whose saves are   *)
(* whole, that drift between its sessions is recorded.                     *)
(***************************************************************************)
EXTENDS MCPWrapper, TLAPS

\* The goroutines hold a line exactly where the code has one in hand.
LinesInHand ==
  \A w \in Wrappers :
    /\ pc[w] \notin {"down", "read", "ended"} => line[w] \in Responses
    /\ pc[w] = "down" => reqPc[w] = "read"
    /\ reqPc[w] # "read" => reqLine[w] \in Requests

\* Request ids: the one being relayed, the ones the server holds and the one
\* being answered are distinct, and all were given out by the agent.
IdsDistinct ==
  \A w \in Wrappers :
    /\ reqPc[w] # "read" => reqLine[w].id < nextId[w]
    /\ \A i \in Ids :
         atServer[w][i] # None =>
           i < nextId[w] /\ (reqPc[w] # "read" => i # reqLine[w].id)
    /\ pc[w] = "inspect" =>
         /\ line[w].id < nextId[w]
         /\ atServer[w][line[w].id] = None
         /\ reqPc[w] # "read" => line[w].id # reqLine[w].id

\* A request is in the tracker from before the server gets it until its
\* answer is resolved.
Tracked ==
  \A w \in Wrappers :
    /\ reqPc[w] = "forward" => pending[w][reqLine[w].id] = reqLine[w].method
    /\ \A i \in Ids :
         atServer[w][i] # None => pending[w][i] = atServer[w][i]
    /\ pc[w] = "inspect" =>
         /\ pending[w][line[w].id] # None
         /\ line[w].kind = "tools" => pending[w][line[w].id] = "tools/list"

\* The baseline is the list the agent saw last, but for the moment between
\* an inspection and the forwarding of its list, and for a list whose
\* forwarding failed.
BaselineShown ==
  \A w \in Wrappers :
    /\ ~sessionPinned[w] => shown[w] = None
    /\ pc[w] \in {"truncate", "write"} =>
         ~sessionPinned[w] /\ line[w].kind = "tools"
    /\ shown[w] # None =>
         \/ baseline[w] = shown[w]
         \/ pc[w] = "forward" /\ line[w].kind = "tools"
         \/ pc[w] = "ended"

\* The tools of the list in hand were served by the wrapped server.
LineServed ==
  \A w \in Wrappers : \A t \in Tools :
    line[w] # None /\ line[w].tools[t] # None
      => line[w].tools[t] \in served[ServerOf[w]][t]

IInv ==
  /\ TypeOK
  /\ LinesInHand
  /\ IdsDistinct
  /\ Tracked
  /\ BaselineShown
  /\ NoListUninspected
  /\ MidSessionReported
  /\ LineServed
  /\ PinsWereServed
-----------------------------------------------------------------------------
(* The operators of the pin store keep to their types. *)

LEMMA PinAllType ==
  ASSUME NEW p \in PinMaps, NEW s \in Servers, NEW ts \in ToolMaps
  PROVE  PinAll(p, s, ts) \in PinMaps
  BY DEF PinAll, PinMaps, ToolMaps

LEMMA NoPinsType == NoPins \in PinMaps /\ NoTools \in ToolMaps
  BY DEF NoPins, NoTools, PinMaps, ToolMaps

LEMMA LoadedType ==
  ASSUME TypeOK, NEW w \in Wrappers
  PROVE  Loaded(w) \in PinMaps
  BY NoPinsType DEF TypeOK, Loaded, Files

LEMMA ChangesType ==
  ASSUME NEW p \in PinMaps, NEW s \in Servers, NEW b \in ToolMaps,
         NEW ts \in ToolMaps, NEW d \in Actions
  PROVE  /\ EntriesFor(checkBetweenSession(p, s, ts), d) \subseteq Entries
         /\ EntriesFor(checkMidSession(p, s, b, ts), d) \subseteq Entries
  BY DEF EntriesFor, checkBetweenSession, checkMidSession, Entries, Severities,
         classifyPinChangeFromHashes

LEMMA RecordType ==
  ASSUME TypeOK, NEW w \in Wrappers, NEW E, E \subseteq Entries, Record(w, E)
  PROVE  recorded' \in [Wrappers -> SUBSET Entries]
  BY DEF TypeOK, Record, Passthrough, Entries, Actions

\* checkMidSession misses no difference from the baseline.
LEMMA MidSessionComplete ==
  ASSUME NEW p, NEW s, NEW b, NEW ts, NEW d, NEW t \in Tools, b[t] # ts[t]
  PROVE  \E e \in EntriesFor(checkMidSession(p, s, b, ts), d) :
           e.tool = t /\ e.decision = d
<1>1. PICK c \in checkMidSession(p, s, b, ts) : c.tool = t
  <2> DEFINE sev(u) == IF b[u] = None \/ ts[u] = None THEN "critical"
                       ELSE IF p[s][u] # None
                            THEN classifyPinChangeFromHashes(p[s][u], ts[u])
                            ELSE "high"
             c(u) == [tool |-> u, severity |-> sev(u)]
  <2>1. checkMidSession(p, s, b, ts) =
          { c(u) : u \in { v \in Tools : b[v] # ts[v] } }
    BY DEF checkMidSession
  <2>2. c(t) \in { c(u) : u \in { v \in Tools : b[v] # ts[v] } }
    OBVIOUS
  <2>3. c(t).tool = t
    OBVIOUS
  <2> QED BY <2>1, <2>2, <2>3
<1>2. [tool |-> c.tool, severity |-> c.severity, decision |-> d]
        \in EntriesFor(checkMidSession(p, s, b, ts), d)
  BY <1>1 DEF EntriesFor
<1> QED BY <1>1, <1>2

-----------------------------------------------------------------------------
(* The invariant is inductive. *)

LEMMA InitIInv == Init => IInv
<1> SUFFICES ASSUME Init PROVE IInv
  OBVIOUS
<1> USE NoneAssumption, NoneIsNoMessage, WrapperAssumption, NoPinsType
<1>1. TypeOK
  BY DEF Init, TypeOK, Files, NoIds, Ids
<1>2. LinesInHand /\ IdsDistinct /\ Tracked
  BY DEF Init, LinesInHand, IdsDistinct, Tracked, NoIds
<1>3. BaselineShown /\ NoListUninspected /\ MidSessionReported
  BY DEF Init, BaselineShown, NoListUninspected, MidSessionReported
<1>4. LineServed /\ PinsWereServed
  BY DEF Init, LineServed, PinsWereServed, NoPins, NoTools
<1> QED BY <1>1, <1>2, <1>3, <1>4 DEF IInv

LEMMA NextIInv == IInv /\ [Next]_vars => IInv'
<1> SUFFICES ASSUME IInv, [Next]_vars PROVE IInv'
  OBVIOUS
<1> USE NoneAssumption, NoneIsNoMessage, WrapperAssumption
<1>1. ASSUME NEW w \in Wrappers, Start(w)
     PROVE  IInv'
  <2>1. TypeOK'
    BY <1>1 DEF IInv, TypeOK, LinesInHand, Start, procVars, reqVars, Requests,
       Responses, Ids
  <2>2. LinesInHand'
    BY <1>1 DEF IInv, TypeOK, LinesInHand, Start, procVars, reqVars, Requests,
       Responses, Ids
  <2>3. IdsDistinct'
    BY <1>1 DEF IInv, TypeOK, LinesInHand, IdsDistinct, Start, procVars,
       reqVars, Requests, Responses, Ids
  <2>4. Tracked'
    BY <1>1 DEF IInv, TypeOK, LinesInHand, IdsDistinct, Tracked, Start,
       procVars, reqVars, Requests, Responses, Ids
  <2>5. BaselineShown'
    BY <1>1 DEF IInv, TypeOK, LinesInHand, Tracked, NoListUninspected,
       BaselineShown, Start, procVars, reqVars, Requests, Responses, Ids
  <2>6. NoListUninspected'
    BY <1>1 DEF IInv, TypeOK, LinesInHand, Tracked, BaselineShown,
       NoListUninspected, Start, procVars, reqVars, Requests, Responses, Ids
  <2>7. MidSessionReported'
    BY <1>1 DEF IInv, TypeOK, LinesInHand, Tracked, BaselineShown,
       MidSessionReported, Start, procVars, reqVars, Requests, Responses, Ids,
       Reported
  <2>8. LineServed'
    BY <1>1 DEF IInv, TypeOK, LinesInHand, LineServed, Start, procVars,
       reqVars, Requests, Responses, Ids
  <2>9. PinsWereServed'
    BY <1>1 DEF IInv, TypeOK, LinesInHand, LineServed, PinsWereServed, Start,
       procVars, reqVars, Requests, Responses, Ids
  <2> QED BY <2>1, <2>2, <2>3, <2>4, <2>5, <2>6, <2>7, <2>8, <2>9 DEF IInv
<1>2. ASSUME NEW w \in Wrappers, End(w)
     PROVE  IInv'
  <2>1. TypeOK'
    BY <1>2, NoPinsType DEF IInv, TypeOK, LinesInHand, End, procVars, reqVars,
       Requests, Responses, Ids, NoIds
  <2>2. LinesInHand'
    BY <1>2 DEF IInv, TypeOK, LinesInHand, End, procVars, reqVars, Requests,
       Responses, Ids
  <2>3. IdsDistinct'
    BY <1>2 DEF IInv, TypeOK, LinesInHand, IdsDistinct, End, procVars, reqVars,
       Requests, Responses, Ids, NoIds
  <2>4. Tracked'
    BY <1>2 DEF IInv, TypeOK, LinesInHand, IdsDistinct, Tracked, End, procVars,
       reqVars, Requests, Responses, Ids, NoIds
  <2>5. BaselineShown'
    BY <1>2 DEF IInv, TypeOK, LinesInHand, Tracked, NoListUninspected,
       BaselineShown, End, procVars, reqVars, Requests, Responses, Ids
  <2>6. NoListUninspected'
    BY <1>2 DEF IInv, TypeOK, LinesInHand, Tracked, BaselineShown,
       NoListUninspected, End, procVars, reqVars, Requests, Responses, Ids
  <2>7. MidSessionReported'
    BY <1>2 DEF IInv, TypeOK, LinesInHand, Tracked, BaselineShown,
       MidSessionReported, End, procVars, reqVars, Requests, Responses, Ids,
       Reported
  <2>8. LineServed'
    BY <1>2 DEF IInv, TypeOK, LinesInHand, LineServed, End, procVars, reqVars,
       Requests, Responses, Ids
  <2>9. PinsWereServed'
    BY <1>2 DEF IInv, TypeOK, LinesInHand, LineServed, PinsWereServed, End,
       procVars, reqVars, Requests, Responses, Ids, NoPins, NoTools
  <2> QED BY <2>1, <2>2, <2>3, <2>4, <2>5, <2>6, <2>7, <2>8, <2>9 DEF IInv
<1>3. ASSUME NEW w \in Wrappers, NEW m \in Methods, AgentSends(w, m)
     PROVE  IInv'
  <2>1. TypeOK'
    BY <1>3 DEF IInv, TypeOK, LinesInHand, AgentSends, procVars, reqVars,
       Requests, Responses, Ids
  <2>2. LinesInHand'
    BY <1>3 DEF IInv, TypeOK, LinesInHand, AgentSends, procVars, reqVars,
       Requests, Responses, Ids
  <2>3. IdsDistinct'
    <3>1. UNCHANGED << atServer, pc, line >>
      BY <1>3 DEF AgentSends
    <3>2. \A v \in Wrappers : v # w => /\ reqPc'[v] = reqPc[v]
                                      /\ reqLine'[v] = reqLine[v]
                                      /\ nextId'[v] = nextId[v]
      BY <1>3 DEF IInv, TypeOK, AgentSends
    <3>3. /\ reqPc[w] = "read" /\ reqPc'[w] = "inspect"
          /\ reqLine'[w].id = nextId[w] /\ nextId'[w] = nextId[w] + 1
      BY <1>3 DEF IInv, TypeOK, AgentSends
    <3>4. nextId[w] \in Nat /\ Ids \subseteq Nat
      BY DEF IInv, TypeOK, Ids
    <3>5. \A v \in Wrappers : pc[v] = "inspect" => line[v].id \in Ids
      BY DEF IInv, LinesInHand, Responses
    <3> SUFFICES ASSUME NEW v \in Wrappers
                 PROVE  /\ reqPc'[v] # "read" => reqLine'[v].id < nextId'[v]
                        /\ \A i \in Ids :
                             atServer[v][i] # None =>
                               /\ i < nextId'[v]
                               /\ reqPc'[v] # "read" => i # reqLine'[v].id
                        /\ pc[v] = "inspect" =>
                             /\ line[v].id < nextId'[v]
                             /\ atServer[v][line[v].id] = None
                             /\ reqPc'[v] # "read" =>
                                  line[v].id # reqLine'[v].id
      BY <3>1 DEF IdsDistinct
    <3>6. CASE v # w
      BY <3>2, <3>6 DEF IInv, IdsDistinct
    <3>7. CASE v = w
      <4>1. \A i \in Ids : atServer[w][i] # None => i < nextId[w]
        BY DEF IInv, IdsDistinct
      <4>2. pc[w] = "inspect" =>
              line[w].id < nextId[w] /\ atServer[w][line[w].id] = None
        BY DEF IInv, IdsDistinct
      <4>3. \A i \in Ids : i < nextId[w] => i < nextId[w] + 1 /\ i # nextId[w]
        BY <3>4
      <4>4. nextId[w] < nextId[w] + 1
        BY <3>4
      <4>5. reqLine'[w].id < nextId'[w]
        BY <3>3, <4>4
      <4>6. \A i \in Ids : atServer[w][i] # None =>
              i < nextId'[w] /\ i # reqLine'[w].id
        BY <3>3, <4>1, <4>3
      <4>7. pc[w] = "inspect" =>
              /\ line[w].id < nextId'[w]
              /\ atServer[w][line[w].id] = None
              /\ line[w].id # reqLine'[w].id
        BY <3>3, <3>5, <4>2, <4>3
      <4> QED BY <3>7, <4>5, <4>6, <4>7
    <3> QED BY <3>6, <3>7
  <2>4. Tracked'
    <3>1. UNCHANGED << pending, atServer, pc, line >>
      BY <1>3 DEF AgentSends
    <3>2. ASSUME NEW v \in Wrappers, reqPc'[v] = "forward"
          PROVE  reqPc[v] = "forward" /\ reqLine'[v] = reqLine[v]
      BY <1>3, <3>2 DEF IInv, TypeOK, AgentSends
    <3> QED BY <3>1, <3>2 DEF IInv, Tracked
  <2>5. BaselineShown'
    BY <1>3 DEF IInv, TypeOK, LinesInHand, Tracked, NoListUninspected,
       BaselineShown, AgentSends, procVars, reqVars, Requests, Responses, Ids
  <2>6. NoListUninspected'
    BY <1>3 DEF IInv, TypeOK, LinesInHand, Tracked, BaselineShown,
       NoListUninspected, AgentSends, procVars, reqVars, Requests, Responses,
       Ids
  <2>7. MidSessionReported'
    BY <1>3 DEF IInv, TypeOK, LinesInHand, Tracked, BaselineShown,
       MidSessionReported, AgentSends, procVars, reqVars, Requests, Responses,
       Ids, Reported
  <2>8. LineServed'
    BY <1>3 DEF IInv, TypeOK, LinesInHand, LineServed, AgentSends, procVars,
       reqVars, Requests, Responses, Ids
  <2>9. PinsWereServed'
    BY <1>3 DEF IInv, TypeOK, LinesInHand, LineServed, PinsWereServed,
       AgentSends, procVars, reqVars, Requests, Responses, Ids
  <2> QED BY <2>1, <2>2, <2>3, <2>4, <2>5, <2>6, <2>7, <2>8, <2>9 DEF IInv
<1>4. ASSUME NEW w \in Wrappers, NEW i \in Ids,
            NEW a \in Answers("tools/list") \cup Answers("tools/call"),
            ServerAnswers(w, i, a)
     PROVE  IInv'
  <2>0. a.tools \in ToolMaps /\ [id |-> i, kind |-> a.kind, tools |-> a.tools] \in Responses
    BY NoPinsType DEF Answers, Responses
  <2>1. TypeOK'
    <3>1. served' \in [Servers -> [Tools -> SUBSET Defs]]
      BY <1>4, <2>0 DEF IInv, TypeOK, ServerAnswers, ToolMaps
    <3> QED BY <1>4, <2>0, <3>1 DEF IInv, TypeOK, ServerAnswers, procVars,
            reqVars
  <2>2. LinesInHand'
    BY <1>4, <2>0 DEF IInv, TypeOK, LinesInHand, ServerAnswers, procVars,
       reqVars, Requests, Responses, Ids
  <2>3. IdsDistinct'
    BY <1>4 DEF IInv, TypeOK, LinesInHand, IdsDistinct, ServerAnswers,
       procVars, reqVars, Requests, Responses, Ids
  <2>4. Tracked'
    BY <1>4, <2>0 DEF IInv, TypeOK, LinesInHand, IdsDistinct, Tracked,
       ServerAnswers, procVars, reqVars, Requests, Responses, Ids, Answers
  <2>5. BaselineShown'
    BY <1>4 DEF IInv, TypeOK, LinesInHand, Tracked, NoListUninspected,
       BaselineShown, ServerAnswers, procVars, reqVars, Requests, Responses,
       Ids
  <2>6. NoListUninspected'
    BY <1>4 DEF IInv, TypeOK, LinesInHand, Tracked, BaselineShown,
       NoListUninspected, ServerAnswers, procVars, reqVars, Requests,
       Responses, Ids
  <2>7. MidSessionReported'
    BY <1>4 DEF IInv, TypeOK, LinesInHand, Tracked, BaselineShown,
       MidSessionReported, ServerAnswers, procVars, reqVars, Requests,
       Responses, Ids, Reported
  <2>8. LineServed'
    BY <1>4, <2>0 DEF IInv, TypeOK, LinesInHand, LineServed, ServerAnswers,
       procVars, reqVars, Requests, Responses, Ids
  <2>9. PinsWereServed'
    BY <1>4, <2>0 DEF IInv, TypeOK, LinesInHand, LineServed, PinsWereServed,
       ServerAnswers, procVars, reqVars, Requests, Responses, Ids
  <2> QED BY <2>1, <2>2, <2>3, <2>4, <2>5, <2>6, <2>7, <2>8, <2>9 DEF IInv
<1>5. ASSUME NEW w \in Wrappers, TrackRequest(w)
     PROVE  IInv'
  <2>1. TypeOK'
    BY <1>5 DEF IInv, TypeOK, LinesInHand, TrackRequest, procVars, reqVars,
       Requests, Responses, Ids
  <2>2. LinesInHand'
    BY <1>5 DEF IInv, TypeOK, LinesInHand, TrackRequest, procVars, reqVars,
       Requests, Responses, Ids
  <2>3. IdsDistinct'
    BY <1>5 DEF IInv, TypeOK, LinesInHand, IdsDistinct, TrackRequest, procVars,
       reqVars, Requests, Responses, Ids
  <2>4. Tracked'
    <3>1. /\ reqLine[w] \in Requests
          /\ reqLine[w].id \in Ids
          /\ pending'[w] =
               [pending[w] EXCEPT ![reqLine[w].id] = reqLine[w].method]
          /\ \A v \in Wrappers \ {w} :
               pending'[v] = pending[v] /\ reqPc'[v] = reqPc[v]
          /\ pending[w] \in [Ids -> Methods \cup {None}]
      BY <1>5 DEF IInv, TypeOK, LinesInHand, TrackRequest, Requests
    <3>2. /\ pending'[w][reqLine[w].id] = reqLine[w].method
          /\ \A i \in Ids \ {reqLine[w].id} : pending'[w][i] = pending[w][i]
      BY <3>1
    <3>3. /\ reqLine' = reqLine /\ atServer' = atServer
          /\ line' = line /\ pc' = pc
      BY <1>5 DEF TrackRequest
    <3>4. /\ \A i \in Ids : atServer[w][i] # None => i # reqLine[w].id
          /\ pc[w] = "inspect" => line[w].id # reqLine[w].id
      BY <1>5 DEF IInv, IdsDistinct, TrackRequest
    <3>5. pc[w] = "inspect" => line[w].id \in Ids
      BY DEF IInv, LinesInHand, Responses
    <3>6. SUFFICES ASSUME NEW v \in Wrappers
                   PROVE  /\ reqPc'[v] = "forward" =>
                               pending'[v][reqLine[v].id] = reqLine[v].method
                          /\ \A i \in Ids :
                               atServer[v][i] # None =>
                                 pending'[v][i] = atServer[v][i]
                          /\ pc[v] = "inspect" =>
                               /\ pending'[v][line[v].id] # None
                               /\ line[v].kind = "tools" =>
                                    pending'[v][line[v].id] = "tools/list"
      BY <3>3 DEF Tracked
    <3>7. CASE v = w
      BY <3>2, <3>4, <3>5, <3>7 DEF IInv, Tracked
    <3>8. CASE v # w
      BY <3>1, <3>8 DEF IInv, Tracked
    <3> QED BY <3>7, <3>8
  <2>5. BaselineShown'
    BY <1>5 DEF IInv, TypeOK, LinesInHand, Tracked, NoListUninspected,
       BaselineShown, TrackRequest, procVars, reqVars, Requests, Responses, Ids
  <2>6. NoListUninspected'
    BY <1>5 DEF IInv, TypeOK, LinesInHand, Tracked, BaselineShown,
       NoListUninspected, TrackRequest, procVars, reqVars, Requests, Responses,
       Ids
  <2>7. MidSessionReported'
    BY <1>5 DEF IInv, TypeOK, LinesInHand, Tracked, BaselineShown,
       MidSessionReported, TrackRequest, procVars, reqVars, Requests,
       Responses, Ids, Reported
  <2>8. LineServed'
    BY <1>5 DEF IInv, TypeOK, LinesInHand, LineServed, TrackRequest, procVars,
       reqVars, Requests, Responses, Ids
  <2>9. PinsWereServed'
    BY <1>5 DEF IInv, TypeOK, LinesInHand, LineServed, PinsWereServed,
       TrackRequest, procVars, reqVars, Requests, Responses, Ids
  <2> QED BY <2>1, <2>2, <2>3, <2>4, <2>5, <2>6, <2>7, <2>8, <2>9 DEF IInv
<1>6. ASSUME NEW w \in Wrappers, ForwardRequest(w)
     PROVE  IInv'
  <2>1. TypeOK'
    BY <1>6 DEF IInv, TypeOK, LinesInHand, ForwardRequest, procVars, reqVars,
       Requests, Responses, Ids
  <2>2. LinesInHand'
    BY <1>6 DEF IInv, TypeOK, LinesInHand, ForwardRequest, procVars, reqVars,
       Requests, Responses, Ids
  <2>3. IdsDistinct'
    BY <1>6 DEF IInv, TypeOK, LinesInHand, IdsDistinct, ForwardRequest,
       procVars, reqVars, Requests, Responses, Ids
  <2>4. Tracked'
    BY <1>6 DEF IInv, TypeOK, LinesInHand, IdsDistinct, Tracked,
       ForwardRequest, procVars, reqVars, Requests, Responses, Ids
  <2>5. BaselineShown'
    BY <1>6 DEF IInv, TypeOK, LinesInHand, Tracked, NoListUninspected,
       BaselineShown, ForwardRequest, procVars, reqVars, Requests, Responses,
       Ids
  <2>6. NoListUninspected'
    BY <1>6 DEF IInv, TypeOK, LinesInHand, Tracked, BaselineShown,
       NoListUninspected, ForwardRequest, procVars, reqVars, Requests,
       Responses, Ids
  <2>7. MidSessionReported'
    BY <1>6 DEF IInv, TypeOK, LinesInHand, Tracked, BaselineShown,
       MidSessionReported, ForwardRequest, procVars, reqVars, Requests,
       Responses, Ids, Reported
  <2>8. LineServed'
    BY <1>6 DEF IInv, TypeOK, LinesInHand, LineServed, ForwardRequest,
       procVars, reqVars, Requests, Responses, Ids
  <2>9. PinsWereServed'
    BY <1>6 DEF IInv, TypeOK, LinesInHand, LineServed, PinsWereServed,
       ForwardRequest, procVars, reqVars, Requests, Responses, Ids
  <2> QED BY <2>1, <2>2, <2>3, <2>4, <2>5, <2>6, <2>7, <2>8, <2>9 DEF IInv
<1>7. ASSUME NEW w \in Wrappers, InspectOther(w)
     PROVE  IInv'
  <2>1. TypeOK'
    BY <1>7, RecordType DEF IInv, TypeOK, LinesInHand, InspectOther, Resolve,
       ResolvedMethod, procVars, reqVars, Requests, Responses, Ids
  <2>2. LinesInHand'
    BY <1>7 DEF IInv, TypeOK, LinesInHand, InspectOther, Resolve,
       ResolvedMethod, procVars, reqVars, Requests, Responses, Ids
  <2>3. IdsDistinct'
    BY <1>7 DEF IInv, TypeOK, LinesInHand, IdsDistinct, InspectOther, Resolve,
       ResolvedMethod, procVars, reqVars, Requests, Responses, Ids
  <2>4. Tracked'
    BY <1>7 DEF IInv, TypeOK, LinesInHand, IdsDistinct, Tracked, InspectOther,
       Resolve, ResolvedMethod, procVars, reqVars, Requests, Responses, Ids
  <2>5. BaselineShown'
    BY <1>7 DEF IInv, TypeOK, LinesInHand, Tracked, NoListUninspected,
       BaselineShown, InspectOther, Resolve, ResolvedMethod, procVars, reqVars,
       Requests, Responses, Ids
  <2>6. NoListUninspected'
    BY <1>7 DEF IInv, TypeOK, LinesInHand, Tracked, BaselineShown,
       NoListUninspected, InspectOther, Resolve, ResolvedMethod, procVars,
       reqVars, Requests, Responses, Ids
  <2>7. MidSessionReported'
    BY <1>7 DEF IInv, TypeOK, LinesInHand, Tracked, BaselineShown,
       MidSessionReported, InspectOther, Resolve, ResolvedMethod, procVars,
       reqVars, Requests, Responses, Ids, Reported, Record
  <2>8. LineServed'
    BY <1>7 DEF IInv, TypeOK, LinesInHand, LineServed, InspectOther, Resolve,
       ResolvedMethod, procVars, reqVars, Requests, Responses, Ids
  <2>9. PinsWereServed'
    BY <1>7 DEF IInv, TypeOK, LinesInHand, LineServed, PinsWereServed,
       InspectOther, Resolve, ResolvedMethod, procVars, reqVars, Requests,
       Responses, Ids
  <2> QED BY <2>1, <2>2, <2>3, <2>4, <2>5, <2>6, <2>7, <2>8, <2>9 DEF IInv
<1>8. ASSUME NEW w \in Wrappers, InspectCall(w)
     PROVE  IInv'
  <2>0. recorded' \in [Wrappers -> SUBSET Entries]
    BY <1>8, RecordType DEF IInv, InspectCall, Entries, Severities, Actions
  <2>1. TypeOK'
    BY <1>8, <2>0 DEF IInv, TypeOK, LinesInHand, InspectCall, Resolve,
       ResolvedMethod, procVars, reqVars, Requests, Responses, Ids
  <2>2. LinesInHand'
    BY <1>8 DEF IInv, TypeOK, LinesInHand, InspectCall, Resolve,
       ResolvedMethod, procVars, reqVars, Requests, Responses, Ids
  <2>3. IdsDistinct'
    BY <1>8 DEF IInv, TypeOK, LinesInHand, IdsDistinct, InspectCall, Resolve,
       ResolvedMethod, procVars, reqVars, Requests, Responses, Ids
  <2>4. Tracked'
    BY <1>8 DEF IInv, TypeOK, LinesInHand, IdsDistinct, Tracked, InspectCall,
       Resolve, ResolvedMethod, procVars, reqVars, Requests, Responses, Ids
  <2>5. BaselineShown'
    BY <1>8 DEF IInv, TypeOK, LinesInHand, Tracked, NoListUninspected,
       BaselineShown, InspectCall, Resolve, ResolvedMethod, procVars, reqVars,
       Requests, Responses, Ids
  <2>6. NoListUninspected'
    BY <1>8 DEF IInv, TypeOK, LinesInHand, Tracked, BaselineShown,
       NoListUninspected, InspectCall, Resolve, ResolvedMethod, procVars,
       reqVars, Requests, Responses, Ids
  <2>7. MidSessionReported'
    BY <1>8 DEF IInv, TypeOK, LinesInHand, Tracked, BaselineShown,
       MidSessionReported, InspectCall, Resolve, ResolvedMethod, procVars,
       reqVars, Requests, Responses, Ids, Reported, Record
  <2>8. LineServed'
    BY <1>8 DEF IInv, TypeOK, LinesInHand, LineServed, InspectCall, Resolve,
       ResolvedMethod, procVars, reqVars, Requests, Responses, Ids
  <2>9. PinsWereServed'
    BY <1>8 DEF IInv, TypeOK, LinesInHand, LineServed, PinsWereServed,
       InspectCall, Resolve, ResolvedMethod, procVars, reqVars, Requests,
       Responses, Ids
  <2> QED BY <2>1, <2>2, <2>3, <2>4, <2>5, <2>6, <2>7, <2>8, <2>9 DEF IInv
<1>9. ASSUME NEW w \in Wrappers, AutoPin(w)
     PROVE  IInv'
  <2>1. TypeOK'
    BY <1>9, LoadedType, PinAllType DEF IInv, TypeOK, LinesInHand, AutoPin,
       IsToolsList, Resolve, ResolvedMethod, procVars, reqVars, Requests,
       Responses, Ids
  <2>2. LinesInHand'
    BY <1>9 DEF IInv, TypeOK, LinesInHand, AutoPin, IsToolsList, Resolve,
       ResolvedMethod, procVars, reqVars, Requests, Responses, Ids
  <2>3. IdsDistinct'
    BY <1>9 DEF IInv, TypeOK, LinesInHand, IdsDistinct, AutoPin, IsToolsList,
       Resolve, ResolvedMethod, procVars, reqVars, Requests, Responses, Ids
  <2>4. Tracked'
    BY <1>9 DEF IInv, TypeOK, LinesInHand, IdsDistinct, Tracked, AutoPin,
       IsToolsList, Resolve, ResolvedMethod, procVars, reqVars, Requests,
       Responses, Ids
  <2>5. BaselineShown'
    BY <1>9 DEF IInv, TypeOK, LinesInHand, Tracked, NoListUninspected,
       BaselineShown, AutoPin, IsToolsList, Resolve, ResolvedMethod, procVars,
       reqVars, Requests, Responses, Ids
  <2>6. NoListUninspected'
    BY <1>9 DEF IInv, TypeOK, LinesInHand, Tracked, BaselineShown,
       NoListUninspected, AutoPin, IsToolsList, Resolve, ResolvedMethod,
       procVars, reqVars, Requests, Responses, Ids
  <2>7. MidSessionReported'
    BY <1>9 DEF IInv, TypeOK, LinesInHand, Tracked, BaselineShown,
       MidSessionReported, AutoPin, IsToolsList, Resolve, ResolvedMethod,
       procVars, reqVars, Requests, Responses, Ids, Reported
  <2>8. LineServed'
    BY <1>9 DEF IInv, TypeOK, LinesInHand, LineServed, AutoPin, IsToolsList,
       Resolve, ResolvedMethod, procVars, reqVars, Requests, Responses, Ids
  <2>9. PinsWereServed'
    <3> SUFFICES ASSUME NEW s \in Servers, NEW t \in Tools
                 PROVE  /\ file'.pins[s][t] # None =>
                              file'.pins[s][t] \in served'[s][t]
                        /\ \A v \in Wrappers : pins'[v][s][t] # None =>
                              pins'[v][s][t] \in served'[s][t]
      BY DEF PinsWereServed
    <3>1. file' = file /\ served' = served
      BY <1>9 DEF AutoPin
    <3>2. Loaded(w)[s][t] # None => Loaded(w)[s][t] \in served[s][t]
      BY DEF IInv, PinsWereServed, Loaded, NoPins, NoTools
    <3>3. line[w].tools[t] # None => line[w].tools[t] \in served[ServerOf[w]][t]
      BY <1>9 DEF IInv, LinesInHand, LineServed, AutoPin, IsToolsList
    <3>4. pins'[w][s][t] \in {Loaded(w)[s][t], line[w].tools[t]}
      BY <1>9, LoadedType DEF IInv, TypeOK, AutoPin, PinAll, PinMaps
    <3>5. pins'[w][s][t] # None => pins'[w][s][t] \in served[s][t]
      <4>1. CASE s = ServerOf[w]
        BY <3>2, <3>3, <3>4, <4>1
      <4>2. CASE s # ServerOf[w]
        BY <1>9, <3>2, <4>2, LoadedType DEF IInv, TypeOK, AutoPin, PinAll, PinMaps
      <4> QED BY <4>1, <4>2
    <3>6. \A v \in Wrappers : v # w => pins'[v] = pins[v]
      BY <1>9 DEF IInv, TypeOK, AutoPin
    <3> QED BY <3>1, <3>5, <3>6 DEF IInv, PinsWereServed
  <2> QED BY <2>1, <2>2, <2>3, <2>4, <2>5, <2>6, <2>7, <2>8, <2>9 DEF IInv
<1>10. ASSUME NEW w \in Wrappers, CheckPins(w)
     PROVE  IInv'
  <2>1. TypeOK'
    BY <1>10, LoadedType, ChangesType, RecordType DEF IInv, TypeOK,
       LinesInHand, CheckPins, IsToolsList, Resolve, ResolvedMethod,
       SetSessionBaseline, procVars, reqVars, Requests, Responses, Ids, Actions
  <2>2. LinesInHand'
    BY <1>10 DEF IInv, TypeOK, LinesInHand, CheckPins, IsToolsList, Resolve,
       ResolvedMethod, SetSessionBaseline, procVars, reqVars, Requests,
       Responses, Ids
  <2>3. IdsDistinct'
    BY <1>10 DEF IInv, TypeOK, LinesInHand, IdsDistinct, CheckPins,
       IsToolsList, Resolve, ResolvedMethod, SetSessionBaseline, procVars,
       reqVars, Requests, Responses, Ids
  <2>4. Tracked'
    BY <1>10 DEF IInv, TypeOK, LinesInHand, IdsDistinct, Tracked, CheckPins,
       IsToolsList, Resolve, ResolvedMethod, SetSessionBaseline, procVars,
       reqVars, Requests, Responses, Ids
  <2>5. BaselineShown'
    BY <1>10 DEF IInv, TypeOK, LinesInHand, Tracked, NoListUninspected,
       BaselineShown, CheckPins, IsToolsList, Resolve, ResolvedMethod,
       SetSessionBaseline, procVars, reqVars, Requests, Responses, Ids
  <2>6. NoListUninspected'
    BY <1>10 DEF IInv, TypeOK, LinesInHand, Tracked, BaselineShown,
       NoListUninspected, CheckPins, IsToolsList, Resolve, ResolvedMethod,
       SetSessionBaseline, procVars, reqVars, Requests, Responses, Ids
  <2>7. MidSessionReported'
    BY <1>10 DEF IInv, TypeOK, LinesInHand, Tracked, BaselineShown,
       MidSessionReported, CheckPins, IsToolsList, Resolve, ResolvedMethod,
       SetSessionBaseline, procVars, reqVars, Requests, Responses, Ids,
       Reported, Record
  <2>8. LineServed'
    BY <1>10 DEF IInv, TypeOK, LinesInHand, LineServed, CheckPins, IsToolsList,
       Resolve, ResolvedMethod, SetSessionBaseline, procVars, reqVars,
       Requests, Responses, Ids
  <2>9. PinsWereServed'
    BY <1>10 DEF IInv, TypeOK, LinesInHand, LineServed, PinsWereServed,
       CheckPins, IsToolsList, Resolve, ResolvedMethod, SetSessionBaseline,
       procVars, reqVars, Requests, Responses, Ids, Loaded, NoPins, NoTools
  <2> QED BY <2>1, <2>2, <2>3, <2>4, <2>5, <2>6, <2>7, <2>8, <2>9 DEF IInv
<1>11. ASSUME NEW w \in Wrappers, SaveFails(w)
     PROVE  IInv'
  <2>1. TypeOK'
    BY <1>11, RecordType DEF IInv, TypeOK, LinesInHand, SaveFails,
       SetSessionBaseline, procVars, reqVars, Requests, Responses, Ids
  <2>2. LinesInHand'
    BY <1>11 DEF IInv, TypeOK, LinesInHand, SaveFails, SetSessionBaseline,
       procVars, reqVars, Requests, Responses, Ids
  <2>3. IdsDistinct'
    BY <1>11 DEF IInv, TypeOK, LinesInHand, IdsDistinct, SaveFails,
       SetSessionBaseline, procVars, reqVars, Requests, Responses, Ids
  <2>4. Tracked'
    BY <1>11 DEF IInv, TypeOK, LinesInHand, IdsDistinct, Tracked, SaveFails,
       SetSessionBaseline, procVars, reqVars, Requests, Responses, Ids
  <2>5. BaselineShown'
    BY <1>11 DEF IInv, TypeOK, LinesInHand, Tracked, NoListUninspected,
       BaselineShown, SaveFails, SetSessionBaseline, procVars, reqVars,
       Requests, Responses, Ids
  <2>6. NoListUninspected'
    BY <1>11 DEF IInv, TypeOK, LinesInHand, Tracked, BaselineShown,
       NoListUninspected, SaveFails, SetSessionBaseline, procVars, reqVars,
       Requests, Responses, Ids
  <2>7. MidSessionReported'
    BY <1>11 DEF IInv, TypeOK, LinesInHand, Tracked, BaselineShown,
       MidSessionReported, SaveFails, SetSessionBaseline, procVars, reqVars,
       Requests, Responses, Ids, Reported, Record
  <2>8. LineServed'
    BY <1>11 DEF IInv, TypeOK, LinesInHand, LineServed, SaveFails,
       SetSessionBaseline, procVars, reqVars, Requests, Responses, Ids
  <2>9. PinsWereServed'
    BY <1>11 DEF IInv, TypeOK, LinesInHand, LineServed, PinsWereServed,
       SaveFails, SetSessionBaseline, procVars, reqVars, Requests, Responses,
       Ids
  <2> QED BY <2>1, <2>2, <2>3, <2>4, <2>5, <2>6, <2>7, <2>8, <2>9 DEF IInv
<1>12. ASSUME NEW w \in Wrappers, SaveTruncates(w)
     PROVE  IInv'
  <2>1. TypeOK'
    BY <1>12, NoPinsType DEF IInv, TypeOK, LinesInHand, SaveTruncates,
       procVars, reqVars, Requests, Responses, Ids, Files
  <2>2. LinesInHand'
    BY <1>12 DEF IInv, TypeOK, LinesInHand, SaveTruncates, procVars, reqVars,
       Requests, Responses, Ids
  <2>3. IdsDistinct'
    BY <1>12 DEF IInv, TypeOK, LinesInHand, IdsDistinct, SaveTruncates,
       procVars, reqVars, Requests, Responses, Ids
  <2>4. Tracked'
    BY <1>12 DEF IInv, TypeOK, LinesInHand, IdsDistinct, Tracked,
       SaveTruncates, procVars, reqVars, Requests, Responses, Ids
  <2>5. BaselineShown'
    BY <1>12 DEF IInv, TypeOK, LinesInHand, Tracked, NoListUninspected,
       BaselineShown, SaveTruncates, procVars, reqVars, Requests, Responses,
       Ids
  <2>6. NoListUninspected'
    BY <1>12 DEF IInv, TypeOK, LinesInHand, Tracked, BaselineShown,
       NoListUninspected, SaveTruncates, procVars, reqVars, Requests,
       Responses, Ids
  <2>7. MidSessionReported'
    BY <1>12 DEF IInv, TypeOK, LinesInHand, Tracked, BaselineShown,
       MidSessionReported, SaveTruncates, procVars, reqVars, Requests,
       Responses, Ids, Reported
  <2>8. LineServed'
    BY <1>12 DEF IInv, TypeOK, LinesInHand, LineServed, SaveTruncates,
       procVars, reqVars, Requests, Responses, Ids
  <2>9. PinsWereServed'
    BY <1>12 DEF IInv, TypeOK, LinesInHand, LineServed, PinsWereServed,
       SaveTruncates, procVars, reqVars, Requests, Responses, Ids, NoPins,
       NoTools
  <2> QED BY <2>1, <2>2, <2>3, <2>4, <2>5, <2>6, <2>7, <2>8, <2>9 DEF IInv
<1>13. ASSUME NEW w \in Wrappers, SaveWrites(w)
     PROVE  IInv'
  <2>1. TypeOK'
    <3>1. file' \in Files
      BY <1>13, NoPinsType DEF IInv, TypeOK, SaveWrites, WriteResults, Files
    <3>2. pins[w][ServerOf[w]] \in ToolMaps
      BY DEF IInv, TypeOK, PinMaps
    <3>3. recorded' \in [Wrappers -> SUBSET Entries]
      BY <1>13, RecordType DEF IInv, SaveWrites
    <3> QED BY <1>13, <3>1, <3>2, <3>3 DEF IInv, TypeOK, LinesInHand, SaveWrites,
            SetSessionBaseline, reqVars, Responses
  <2>2. LinesInHand'
    BY <1>13 DEF IInv, TypeOK, LinesInHand, SaveWrites, SetSessionBaseline,
       procVars, reqVars, Requests, Responses, Ids
  <2>3. IdsDistinct'
    BY <1>13 DEF IInv, TypeOK, LinesInHand, IdsDistinct, SaveWrites,
       SetSessionBaseline, procVars, reqVars, Requests, Responses, Ids
  <2>4. Tracked'
    BY <1>13 DEF IInv, TypeOK, LinesInHand, IdsDistinct, Tracked, SaveWrites,
       SetSessionBaseline, procVars, reqVars, Requests, Responses, Ids
  <2>5. BaselineShown'
    BY <1>13 DEF IInv, TypeOK, LinesInHand, Tracked, NoListUninspected,
       BaselineShown, SaveWrites, SetSessionBaseline, procVars, reqVars,
       Requests, Responses, Ids
  <2>6. NoListUninspected'
    BY <1>13 DEF IInv, TypeOK, LinesInHand, Tracked, BaselineShown,
       NoListUninspected, SaveWrites, SetSessionBaseline, procVars, reqVars,
       Requests, Responses, Ids
  <2>7. MidSessionReported'
    BY <1>13 DEF IInv, TypeOK, LinesInHand, Tracked, BaselineShown,
       MidSessionReported, SaveWrites, SetSessionBaseline, procVars, reqVars,
       Requests, Responses, Ids, Reported, Record
  <2>8. LineServed'
    BY <1>13 DEF IInv, TypeOK, LinesInHand, LineServed, SaveWrites,
       SetSessionBaseline, procVars, reqVars, Requests, Responses, Ids
  <2>9. PinsWereServed'
    BY <1>13, NoPinsType DEF IInv, TypeOK, LinesInHand, LineServed,
       PinsWereServed, SaveWrites, SetSessionBaseline, procVars, reqVars,
       Requests, Responses, Ids, WriteResults, NoPins, NoTools
  <2> QED BY <2>1, <2>2, <2>3, <2>4, <2>5, <2>6, <2>7, <2>8, <2>9 DEF IInv
<1>14. ASSUME NEW w \in Wrappers, CheckMidSession(w)
     PROVE  IInv'
  <2>1. TypeOK'
    BY <1>14, ChangesType, RecordType DEF IInv, TypeOK, LinesInHand,
       CheckMidSession, IsToolsList, Resolve, ResolvedMethod,
       SetSessionBaseline, procVars, reqVars, Requests, Responses, Ids, Actions
  <2>2. LinesInHand'
    BY <1>14 DEF IInv, TypeOK, LinesInHand, CheckMidSession, IsToolsList,
       Resolve, ResolvedMethod, SetSessionBaseline, procVars, reqVars,
       Requests, Responses, Ids
  <2>3. IdsDistinct'
    BY <1>14 DEF IInv, TypeOK, LinesInHand, IdsDistinct, CheckMidSession,
       IsToolsList, Resolve, ResolvedMethod, SetSessionBaseline, procVars,
       reqVars, Requests, Responses, Ids
  <2>4. Tracked'
    BY <1>14 DEF IInv, TypeOK, LinesInHand, IdsDistinct, Tracked,
       CheckMidSession, IsToolsList, Resolve, ResolvedMethod,
       SetSessionBaseline, procVars, reqVars, Requests, Responses, Ids
  <2>5. BaselineShown'
    BY <1>14 DEF IInv, TypeOK, LinesInHand, Tracked, NoListUninspected,
       BaselineShown, CheckMidSession, IsToolsList, Resolve, ResolvedMethod,
       SetSessionBaseline, procVars, reqVars, Requests, Responses, Ids
  <2>6. NoListUninspected'
    BY <1>14 DEF IInv, TypeOK, LinesInHand, Tracked, BaselineShown,
       NoListUninspected, CheckMidSession, IsToolsList, Resolve,
       ResolvedMethod, SetSessionBaseline, procVars, reqVars, Requests,
       Responses, Ids
  <2>7. MidSessionReported'
    <3> SUFFICES ASSUME NEW v \in Wrappers, NEW t \in Tools, pc'[v] = "forward",
                        line'[v].kind = "tools", shown'[v] # None,
                        shown'[v][t] # line'[v].tools[t]
                 PROVE  Reported(v, t, "block")'
      BY DEF MidSessionReported
    <3>1. CASE v # w
      BY <1>14, <3>1 DEF IInv, TypeOK, MidSessionReported, CheckMidSession, Record,
         SetSessionBaseline, Reported
    <3>2. CASE v = w
      <4>1. baseline[w][t] # line[w].tools[t]
        BY <1>14, <3>2 DEF IInv, BaselineShown, CheckMidSession, IsToolsList
      <4>2. EntriesFor(checkMidSession(pins[w], ServerOf[w], baseline[w],
                                       line[w].tools), "block")
              \subseteq recorded'[w]
        BY <1>14 DEF IInv, TypeOK, CheckMidSession, Record
      <4> QED BY <3>2, <4>1, <4>2, MidSessionComplete DEF Reported
    <3> QED BY <3>1, <3>2
  <2>8. LineServed'
    BY <1>14 DEF IInv, TypeOK, LinesInHand, LineServed, CheckMidSession,
       IsToolsList, Resolve, ResolvedMethod, SetSessionBaseline, procVars,
       reqVars, Requests, Responses, Ids
  <2>9. PinsWereServed'
    BY <1>14 DEF IInv, TypeOK, LinesInHand, LineServed, PinsWereServed,
       CheckMidSession, IsToolsList, Resolve, ResolvedMethod,
       SetSessionBaseline, procVars, reqVars, Requests, Responses, Ids
  <2> QED BY <2>1, <2>2, <2>3, <2>4, <2>5, <2>6, <2>7, <2>8, <2>9 DEF IInv
<1>15. ASSUME NEW w \in Wrappers, ForwardResponse(w)
     PROVE  IInv'
  <2>1. TypeOK'
    BY <1>15 DEF IInv, TypeOK, LinesInHand, ForwardResponse, procVars, reqVars,
       Requests, Responses, Ids
  <2>2. LinesInHand'
    BY <1>15 DEF IInv, TypeOK, LinesInHand, ForwardResponse, procVars, reqVars,
       Requests, Responses, Ids
  <2>3. IdsDistinct'
    BY <1>15 DEF IInv, TypeOK, LinesInHand, IdsDistinct, ForwardResponse,
       procVars, reqVars, Requests, Responses, Ids
  <2>4. Tracked'
    BY <1>15 DEF IInv, TypeOK, LinesInHand, IdsDistinct, Tracked,
       ForwardResponse, procVars, reqVars, Requests, Responses, Ids
  <2>5. BaselineShown'
    BY <1>15 DEF IInv, TypeOK, LinesInHand, Tracked, NoListUninspected,
       BaselineShown, ForwardResponse, procVars, reqVars, Requests, Responses,
       Ids
  <2>6. NoListUninspected'
    BY <1>15 DEF IInv, TypeOK, LinesInHand, Tracked, BaselineShown,
       NoListUninspected, ForwardResponse, procVars, reqVars, Requests,
       Responses, Ids
  <2>7. MidSessionReported'
    BY <1>15 DEF IInv, TypeOK, LinesInHand, Tracked, BaselineShown,
       MidSessionReported, ForwardResponse, procVars, reqVars, Requests,
       Responses, Ids, Reported
  <2>8. LineServed'
    BY <1>15 DEF IInv, TypeOK, LinesInHand, LineServed, ForwardResponse,
       procVars, reqVars, Requests, Responses, Ids
  <2>9. PinsWereServed'
    BY <1>15 DEF IInv, TypeOK, LinesInHand, LineServed, PinsWereServed,
       ForwardResponse, procVars, reqVars, Requests, Responses, Ids
  <2> QED BY <2>1, <2>2, <2>3, <2>4, <2>5, <2>6, <2>7, <2>8, <2>9 DEF IInv
<1>16. ASSUME NEW w \in Wrappers, SaveTears(w)
     PROVE  IInv'
  <2>1. TypeOK'
    BY <1>16, RecordType, NoPinsType DEF IInv, TypeOK, LinesInHand, SaveTears,
       SetSessionBaseline, procVars, reqVars, Requests, Responses, Ids, Files
  <2>2. LinesInHand'
    BY <1>16 DEF IInv, TypeOK, LinesInHand, SaveTears, SetSessionBaseline,
       procVars, reqVars, Requests, Responses, Ids
  <2>3. IdsDistinct'
    BY <1>16 DEF IInv, TypeOK, LinesInHand, IdsDistinct, SaveTears,
       SetSessionBaseline, procVars, reqVars, Requests, Responses, Ids
  <2>4. Tracked'
    BY <1>16 DEF IInv, TypeOK, LinesInHand, IdsDistinct, Tracked, SaveTears,
       SetSessionBaseline, procVars, reqVars, Requests, Responses, Ids
  <2>5. BaselineShown'
    BY <1>16 DEF IInv, TypeOK, LinesInHand, Tracked, NoListUninspected,
       BaselineShown, SaveTears, SetSessionBaseline, procVars, reqVars,
       Requests, Responses, Ids
  <2>6. NoListUninspected'
    BY <1>16 DEF IInv, TypeOK, LinesInHand, Tracked, BaselineShown,
       NoListUninspected, SaveTears, SetSessionBaseline, procVars, reqVars,
       Requests, Responses, Ids
  <2>7. MidSessionReported'
    BY <1>16 DEF IInv, TypeOK, LinesInHand, Tracked, BaselineShown,
       MidSessionReported, SaveTears, SetSessionBaseline, procVars, reqVars,
       Requests, Responses, Ids, Reported, Record
  <2>8. LineServed'
    BY <1>16 DEF IInv, TypeOK, LinesInHand, LineServed, SaveTears,
       SetSessionBaseline, procVars, reqVars, Requests, Responses, Ids
  <2>9. PinsWereServed'
    BY <1>16 DEF IInv, TypeOK, LinesInHand, LineServed, PinsWereServed,
       SaveTears, SetSessionBaseline, procVars, reqVars, Requests, Responses,
       Ids, NoPins, NoTools
  <2> QED BY <2>1, <2>2, <2>3, <2>4, <2>5, <2>6, <2>7, <2>8, <2>9 DEF IInv
<1>17. ASSUME NEW w \in Wrappers, RelayEnds(w)
     PROVE  IInv'
  <2>1. TypeOK'
    BY <1>17 DEF IInv, TypeOK, LinesInHand, RelayEnds, procVars, reqVars,
       Requests, Responses, Ids
  <2>2. LinesInHand'
    BY <1>17 DEF IInv, TypeOK, LinesInHand, RelayEnds, procVars, reqVars,
       Requests, Responses, Ids
  <2>3. IdsDistinct'
    BY <1>17 DEF IInv, TypeOK, LinesInHand, IdsDistinct, RelayEnds,
       procVars, reqVars, Requests, Responses, Ids
  <2>4. Tracked'
    BY <1>17 DEF IInv, TypeOK, LinesInHand, IdsDistinct, Tracked,
       RelayEnds, procVars, reqVars, Requests, Responses, Ids
  <2>5. BaselineShown'
    BY <1>17 DEF IInv, TypeOK, LinesInHand, Tracked, NoListUninspected,
       BaselineShown, RelayEnds, procVars, reqVars, Requests, Responses,
       Ids
  <2>6. NoListUninspected'
    BY <1>17 DEF IInv, TypeOK, LinesInHand, Tracked, BaselineShown,
       NoListUninspected, RelayEnds, procVars, reqVars, Requests,
       Responses, Ids
  <2>7. MidSessionReported'
    BY <1>17 DEF IInv, TypeOK, LinesInHand, Tracked, BaselineShown,
       MidSessionReported, RelayEnds, procVars, reqVars, Requests,
       Responses, Ids, Reported
  <2>8. LineServed'
    BY <1>17 DEF IInv, TypeOK, LinesInHand, LineServed, RelayEnds,
       procVars, reqVars, Requests, Responses, Ids
  <2>9. PinsWereServed'
    BY <1>17 DEF IInv, TypeOK, LinesInHand, LineServed, PinsWereServed,
       RelayEnds, procVars, reqVars, Requests, Responses, Ids
  <2> QED BY <2>1, <2>2, <2>3, <2>4, <2>5, <2>6, <2>7, <2>8, <2>9 DEF IInv
<1>18. CASE UNCHANGED vars
  BY <1>18 DEF IInv, TypeOK, LinesInHand, IdsDistinct, Tracked, BaselineShown,
     NoListUninspected, MidSessionReported, LineServed, PinsWereServed, vars,
     procVars, reqVars, Reported
<1> QED BY <1>1, <1>2, <1>3, <1>4, <1>5, <1>6, <1>7, <1>8, <1>9, <1>10, <1>11,
   <1>12, <1>13, <1>14, <1>15, <1>16, <1>17, <1>18 DEF Next, RequestStep, ResponseStep

-----------------------------------------------------------------------------
(* IInv holds in every reachable state of any set of wrapper processes. *)
THEOREM Invariant == Spec => []IInv
  BY InitIInv, NextIInv, PTL DEF Spec

(* Type correctness of the pin file, the processes and the messages. *)
THEOREM TypeCorrect == Spec => []TypeOK
<1>1. IInv => TypeOK
  BY DEF IInv
<1> QED BY Invariant, <1>1, PTL

(* Whatever the goroutines' interleaving, relayWithInspection forwards no
   tools/list result that handleToolsListResponse has not made the baseline. *)
THEOREM ListsInspected == Spec => []NoListUninspected
<1>1. IInv => NoListUninspected
  BY DEF IInv
<1> QED BY Invariant, <1>1, PTL

(* Every difference between two consecutive lists of a session is recorded
   as a block by handleSubsequentToolsList before the second is forwarded. *)
THEOREM RugPullsRecorded == Spec => []MidSessionReported
<1>1. IInv => MidSessionReported
  BY DEF IInv
<1> QED BY Invariant, <1>1, PTL

(* Pins are definitions their own server served, even when processes load
   and save the shared pin file at the same time or end in mid-save. *)
THEOREM PinsGenuine == Spec => []PinsWereServed
<1>1. IInv => PinsWereServed
  BY DEF IInv
<1> QED BY Invariant, <1>1, PTL

-----------------------------------------------------------------------------
(* Drift between sessions, for one wrapper slot whose saves are whole. *)

\* Another slot could save pins of its own between a load and a save.
OneSlot == \A v, w \in Wrappers : v = w

\* The session has its baseline as soon as the agent has a list, or has lost
\* it to a failed write, not before.
PinnedMeansShown ==
  \A w \in Wrappers :
    sessionPinned[w] =>
      \/ shown[w] # None
      \/ pc[w] = "forward" /\ line[w].kind = "tools"
      \/ pc[w] = "ended"

\* The first saved pins of the server are what the file still holds, so that
\* every later session loads them.
TrustOnFile ==
  \A w \in Wrappers :
    trusted[ServerOf[w]] # None =>
      /\ file.state = "ok"
      /\ file.pins[ServerOf[w]] = trusted[ServerOf[w]]
      /\ serverHasPins(file.pins, ServerOf[w])

\* Pins are being saved only while none are trusted, and then they are the
\* definitions of the list in hand.
SavingIsFirst ==
  \A w \in Wrappers :
    /\ pc[w] \in {"truncate", "write"} =>
         /\ trusted[ServerOf[w]] = None
         /\ \A t \in Tools :
              line[w].tools[t] # None =>
                pins[w][ServerOf[w]][t] = line[w].tools[t]
    /\ pc[w] = "write" => file.state = "torn"

DriftIInv ==
  /\ PinnedMeansShown
  /\ TrustOnFile
  /\ SavingIsFirst
  /\ DriftReported

\* checkBetweenSession misses no listed tool whose definition is not its pin.
LEMMA BetweenSessionComplete ==
  ASSUME NEW p, NEW s, NEW ts, NEW d, NEW t \in Tools,
         p[s][t] # None, ts[t] # None, p[s][t] # ts[t]
  PROVE  \E e \in EntriesFor(checkBetweenSession(p, s, ts), d) :
           e.tool = t /\ e.decision = d
<1>1. PICK c \in checkBetweenSession(p, s, ts) : c.tool = t
  <2> DEFINE c(u) == [tool |-> u,
                      severity |-> classifyPinChangeFromHashes(p[s][u], ts[u])]
             U == { u \in Tools : /\ p[s][u] # None
                                  /\ ts[u] # None
                                  /\ p[s][u] # ts[u] }
  <2>1. checkBetweenSession(p, s, ts) = { c(u) : u \in U }
    BY DEF checkBetweenSession
  <2>2. t \in U
    OBVIOUS
  <2>3. c(t) \in { c(u) : u \in U }
    BY <2>2
  <2>4. c(t).tool = t
    OBVIOUS
  <2> QED BY <2>1, <2>3, <2>4
<1>2. [tool |-> c.tool, severity |-> c.severity, decision |-> d]
        \in EntriesFor(checkBetweenSession(p, s, ts), d)
  BY <1>1 DEF EntriesFor
<1> QED BY <1>1, <1>2

LEMMA DriftInitial == Init => DriftIInv
  BY WrapperAssumption
  DEF Init, DriftIInv, PinnedMeansShown, TrustOnFile, SavingIsFirst,
      DriftReported

\* What the slot holds while pins are saved, and what is trusted, decide
\* whether drift is reported; other steps leave them or the forwarding alone.
LEMMA DriftStep ==
  ASSUME OneSlot, ~CutSaves, IInv, DriftIInv, [Next]_vars
  PROVE  DriftIInv'
<1> USE NoneAssumption, NoneIsNoMessage, WrapperAssumption
<1>1. ASSUME NEW w \in Wrappers, Start(w)
     PROVE  DriftIInv'
  <2>0. Wrappers = {w}
    BY DEF OneSlot
  <2>1. PinnedMeansShown'
    BY <1>1, <2>0 DEF IInv, TypeOK, LinesInHand, Tracked, BaselineShown,
       DriftIInv, PinnedMeansShown, TrustOnFile, SavingIsFirst,
       DriftReported, FirstList, Reported, Start, procVars, reqVars
  <2>2. TrustOnFile'
    BY <1>1, <2>0 DEF IInv, TypeOK, LinesInHand, Tracked, BaselineShown,
       DriftIInv, PinnedMeansShown, TrustOnFile, SavingIsFirst,
       DriftReported, FirstList, Reported, Start, procVars, reqVars
  <2>3. SavingIsFirst'
    BY <1>1, <2>0 DEF IInv, TypeOK, LinesInHand, Tracked, BaselineShown,
       DriftIInv, PinnedMeansShown, TrustOnFile, SavingIsFirst,
       DriftReported, FirstList, Reported, Start, procVars, reqVars
  <2>4. DriftReported'
    BY <1>1, <2>0 DEF IInv, TypeOK, LinesInHand, Tracked, BaselineShown,
       DriftIInv, PinnedMeansShown, TrustOnFile, SavingIsFirst,
       DriftReported, FirstList, Reported, Start, procVars, reqVars
  <2> QED BY <2>1, <2>2, <2>3, <2>4 DEF DriftIInv
<1>2. ASSUME NEW w \in Wrappers, End(w)
     PROVE  DriftIInv'
  <2>0. Wrappers = {w}
    BY DEF OneSlot
  <2>1. PinnedMeansShown'
    BY <1>2, <2>0 DEF IInv, TypeOK, LinesInHand, Tracked, BaselineShown,
       DriftIInv, PinnedMeansShown, TrustOnFile, SavingIsFirst,
       DriftReported, FirstList, Reported, End, procVars, reqVars
  <2>2. TrustOnFile'
    BY <1>2, <2>0 DEF IInv, TypeOK, LinesInHand, Tracked, BaselineShown,
       DriftIInv, PinnedMeansShown, TrustOnFile, SavingIsFirst,
       DriftReported, FirstList, Reported, End, procVars, reqVars
  <2>3. SavingIsFirst'
    BY <1>2, <2>0 DEF IInv, TypeOK, LinesInHand, Tracked, BaselineShown,
       DriftIInv, PinnedMeansShown, TrustOnFile, SavingIsFirst,
       DriftReported, FirstList, Reported, End, procVars, reqVars
  <2>4. DriftReported'
    BY <1>2, <2>0 DEF IInv, TypeOK, LinesInHand, Tracked, BaselineShown,
       DriftIInv, PinnedMeansShown, TrustOnFile, SavingIsFirst,
       DriftReported, FirstList, Reported, End, procVars, reqVars
  <2> QED BY <2>1, <2>2, <2>3, <2>4 DEF DriftIInv
<1>3. ASSUME NEW w \in Wrappers, NEW m \in Methods, AgentSends(w, m)
     PROVE  DriftIInv'
  <2>0. Wrappers = {w}
    BY DEF OneSlot
  <2>1. PinnedMeansShown'
    BY <1>3, <2>0 DEF IInv, TypeOK, LinesInHand, Tracked, BaselineShown,
       DriftIInv, PinnedMeansShown, TrustOnFile, SavingIsFirst,
       DriftReported, FirstList, Reported, AgentSends, procVars, reqVars
  <2>2. TrustOnFile'
    BY <1>3, <2>0 DEF IInv, TypeOK, LinesInHand, Tracked, BaselineShown,
       DriftIInv, PinnedMeansShown, TrustOnFile, SavingIsFirst,
       DriftReported, FirstList, Reported, AgentSends, procVars, reqVars
  <2>3. SavingIsFirst'
    BY <1>3, <2>0 DEF IInv, TypeOK, LinesInHand, Tracked, BaselineShown,
       DriftIInv, PinnedMeansShown, TrustOnFile, SavingIsFirst,
       DriftReported, FirstList, Reported, AgentSends, procVars, reqVars
  <2>4. DriftReported'
    BY <1>3, <2>0, SMTT(40) DEF IInv, TypeOK, LinesInHand, Tracked, BaselineShown,
       DriftIInv, PinnedMeansShown, TrustOnFile, SavingIsFirst,
       DriftReported, FirstList, Reported, AgentSends, procVars, reqVars
  <2> QED BY <2>1, <2>2, <2>3, <2>4 DEF DriftIInv
<1>4. ASSUME NEW w \in Wrappers, NEW i \in Ids,
            NEW a \in Answers("tools/list") \cup Answers("tools/call"),
            ServerAnswers(w, i, a)
     PROVE  DriftIInv'
  <2>0. Wrappers = {w}
    BY DEF OneSlot
  <2>1. PinnedMeansShown'
    BY <1>4, <2>0 DEF IInv, TypeOK, LinesInHand, Tracked, BaselineShown,
       DriftIInv, PinnedMeansShown, TrustOnFile, SavingIsFirst,
       DriftReported, FirstList, Reported, ServerAnswers, procVars, reqVars
  <2>2. TrustOnFile'
    BY <1>4, <2>0 DEF IInv, TypeOK, LinesInHand, Tracked, BaselineShown,
       DriftIInv, PinnedMeansShown, TrustOnFile, SavingIsFirst,
       DriftReported, FirstList, Reported, ServerAnswers, procVars, reqVars
  <2>3. SavingIsFirst'
    BY <1>4, <2>0 DEF IInv, TypeOK, LinesInHand, Tracked, BaselineShown,
       DriftIInv, PinnedMeansShown, TrustOnFile, SavingIsFirst,
       DriftReported, FirstList, Reported, ServerAnswers, procVars, reqVars
  <2>4. DriftReported'
    BY <1>4, <2>0 DEF IInv, TypeOK, LinesInHand, Tracked, BaselineShown,
       DriftIInv, PinnedMeansShown, TrustOnFile, SavingIsFirst,
       DriftReported, FirstList, Reported, ServerAnswers, procVars, reqVars
  <2> QED BY <2>1, <2>2, <2>3, <2>4 DEF DriftIInv
<1>5. ASSUME NEW w \in Wrappers, TrackRequest(w)
     PROVE  DriftIInv'
  <2>0. Wrappers = {w}
    BY DEF OneSlot
  <2>1. PinnedMeansShown'
    BY <1>5, <2>0 DEF IInv, TypeOK, LinesInHand, Tracked, BaselineShown,
       DriftIInv, PinnedMeansShown, TrustOnFile, SavingIsFirst,
       DriftReported, FirstList, Reported, TrackRequest, procVars, reqVars
  <2>2. TrustOnFile'
    BY <1>5, <2>0 DEF IInv, TypeOK, LinesInHand, Tracked, BaselineShown,
       DriftIInv, PinnedMeansShown, TrustOnFile, SavingIsFirst,
       DriftReported, FirstList, Reported, TrackRequest, procVars, reqVars
  <2>3. SavingIsFirst'
    BY <1>5, <2>0 DEF IInv, TypeOK, LinesInHand, Tracked, BaselineShown,
       DriftIInv, PinnedMeansShown, TrustOnFile, SavingIsFirst,
       DriftReported, FirstList, Reported, TrackRequest, procVars, reqVars
  <2>4. DriftReported'
    BY <1>5, <2>0 DEF IInv, TypeOK, LinesInHand, Tracked, BaselineShown,
       DriftIInv, PinnedMeansShown, TrustOnFile, SavingIsFirst,
       DriftReported, FirstList, Reported, TrackRequest, procVars, reqVars
  <2> QED BY <2>1, <2>2, <2>3, <2>4 DEF DriftIInv
<1>6. ASSUME NEW w \in Wrappers, ForwardRequest(w)
     PROVE  DriftIInv'
  <2>0. Wrappers = {w}
    BY DEF OneSlot
  <2>1. PinnedMeansShown'
    BY <1>6, <2>0 DEF IInv, TypeOK, LinesInHand, Tracked, BaselineShown,
       DriftIInv, PinnedMeansShown, TrustOnFile, SavingIsFirst,
       DriftReported, FirstList, Reported, ForwardRequest, procVars, reqVars
  <2>2. TrustOnFile'
    BY <1>6, <2>0 DEF IInv, TypeOK, LinesInHand, Tracked, BaselineShown,
       DriftIInv, PinnedMeansShown, TrustOnFile, SavingIsFirst,
       DriftReported, FirstList, Reported, ForwardRequest, procVars, reqVars
  <2>3. SavingIsFirst'
    BY <1>6, <2>0 DEF IInv, TypeOK, LinesInHand, Tracked, BaselineShown,
       DriftIInv, PinnedMeansShown, TrustOnFile, SavingIsFirst,
       DriftReported, FirstList, Reported, ForwardRequest, procVars, reqVars
  <2>4. DriftReported'
    BY <1>6, <2>0 DEF IInv, TypeOK, LinesInHand, Tracked, BaselineShown,
       DriftIInv, PinnedMeansShown, TrustOnFile, SavingIsFirst,
       DriftReported, FirstList, Reported, ForwardRequest, procVars, reqVars
  <2> QED BY <2>1, <2>2, <2>3, <2>4 DEF DriftIInv
<1>7. ASSUME NEW w \in Wrappers, InspectOther(w)
     PROVE  DriftIInv'
  <2>0. Wrappers = {w}
    BY DEF OneSlot
  <2>1. PinnedMeansShown'
    BY <1>7, <2>0 DEF IInv, TypeOK, LinesInHand, Tracked, BaselineShown,
       DriftIInv, PinnedMeansShown, TrustOnFile, SavingIsFirst,
       DriftReported, FirstList, Reported, InspectOther, Resolve,
       ResolvedMethod, Record, procVars, reqVars
  <2>2. TrustOnFile'
    BY <1>7, <2>0 DEF IInv, TypeOK, LinesInHand, Tracked, BaselineShown,
       DriftIInv, PinnedMeansShown, TrustOnFile, SavingIsFirst,
       DriftReported, FirstList, Reported, InspectOther, Resolve,
       ResolvedMethod, Record, procVars, reqVars
  <2>3. SavingIsFirst'
    BY <1>7, <2>0 DEF IInv, TypeOK, LinesInHand, Tracked, BaselineShown,
       DriftIInv, PinnedMeansShown, TrustOnFile, SavingIsFirst,
       DriftReported, FirstList, Reported, InspectOther, Resolve,
       ResolvedMethod, Record, procVars, reqVars
  <2>4. DriftReported'
    BY <1>7, <2>0 DEF IInv, TypeOK, LinesInHand, Tracked, BaselineShown,
       DriftIInv, PinnedMeansShown, TrustOnFile, SavingIsFirst,
       DriftReported, FirstList, Reported, InspectOther, Resolve,
       ResolvedMethod, Record, procVars, reqVars
  <2> QED BY <2>1, <2>2, <2>3, <2>4 DEF DriftIInv
<1>8. ASSUME NEW w \in Wrappers, InspectCall(w)
     PROVE  DriftIInv'
  <2>0. Wrappers = {w}
    BY DEF OneSlot
  <2>1. PinnedMeansShown'
    BY <1>8, <2>0 DEF IInv, TypeOK, LinesInHand, Tracked, BaselineShown,
       DriftIInv, PinnedMeansShown, TrustOnFile, SavingIsFirst,
       DriftReported, FirstList, Reported, InspectCall, Resolve,
       ResolvedMethod, Record, procVars, reqVars
  <2>2. TrustOnFile'
    BY <1>8, <2>0 DEF IInv, TypeOK, LinesInHand, Tracked, BaselineShown,
       DriftIInv, PinnedMeansShown, TrustOnFile, SavingIsFirst,
       DriftReported, FirstList, Reported, InspectCall, Resolve,
       ResolvedMethod, Record, procVars, reqVars
  <2>3. SavingIsFirst'
    BY <1>8, <2>0 DEF IInv, TypeOK, LinesInHand, Tracked, BaselineShown,
       DriftIInv, PinnedMeansShown, TrustOnFile, SavingIsFirst,
       DriftReported, FirstList, Reported, InspectCall, Resolve,
       ResolvedMethod, Record, procVars, reqVars
  <2>4. DriftReported'
    BY <1>8, <2>0 DEF IInv, TypeOK, LinesInHand, Tracked, BaselineShown,
       DriftIInv, PinnedMeansShown, TrustOnFile, SavingIsFirst,
       DriftReported, FirstList, Reported, InspectCall, Resolve,
       ResolvedMethod, Record, procVars, reqVars
  <2> QED BY <2>1, <2>2, <2>3, <2>4 DEF DriftIInv
<1>9. ASSUME NEW w \in Wrappers, AutoPin(w)
     PROVE  DriftIInv'
  <2>0. Wrappers = {w}
    BY DEF OneSlot
  <2>1. PinnedMeansShown'
    BY <1>9, <2>0 DEF IInv, TypeOK, LinesInHand, Tracked, BaselineShown,
       DriftIInv, PinnedMeansShown, TrustOnFile, SavingIsFirst,
       DriftReported, FirstList, Reported, AutoPin, IsToolsList, Resolve,
       ResolvedMethod, Loaded, PinAll, procVars, reqVars
  <2>2. TrustOnFile'
    BY <1>9, <2>0 DEF IInv, TypeOK, LinesInHand, Tracked, BaselineShown,
       DriftIInv, PinnedMeansShown, TrustOnFile, SavingIsFirst,
       DriftReported, FirstList, Reported, AutoPin, IsToolsList, Resolve,
       ResolvedMethod, Loaded, PinAll, procVars, reqVars
  <2>3. SavingIsFirst'
    <3> DEFINE s == ServerOf[w]
    <3>1. s \in Servers /\ Loaded(w) \in PinMaps
      BY LoadedType DEF IInv
    <3>2. pins'[w][s] = [t \in Tools |-> IF line[w].tools[t] # None
                                         THEN line[w].tools[t]
                                         ELSE Loaded(w)[s][t]]
      BY <1>9, <3>1 DEF IInv, TypeOK, AutoPin, PinAll, PinMaps
    <3>3. trusted[s] = None
      BY <1>9, <2>0 DEF DriftIInv, TrustOnFile, AutoPin, Loaded
    <3>4. pc'[w] = "truncate" /\ UNCHANGED << line, trusted >>
      BY <1>9 DEF AutoPin, IInv, TypeOK
    <3> QED BY <2>0, <3>2, <3>3, <3>4 DEF SavingIsFirst
  <2>4. DriftReported'
    BY <1>9, <2>0 DEF IInv, TypeOK, LinesInHand, Tracked, BaselineShown,
       DriftIInv, PinnedMeansShown, TrustOnFile, SavingIsFirst,
       DriftReported, FirstList, Reported, AutoPin, IsToolsList, Resolve,
       ResolvedMethod, Loaded, PinAll, procVars, reqVars
  <2> QED BY <2>1, <2>2, <2>3, <2>4 DEF DriftIInv
<1>10. ASSUME NEW w \in Wrappers, CheckPins(w)
     PROVE  DriftIInv'
  <2>0. Wrappers = {w}
    BY DEF OneSlot
  <2>1. PinnedMeansShown'
    BY <1>10, <2>0 DEF IInv, TypeOK, LinesInHand, Tracked, BaselineShown,
       DriftIInv, PinnedMeansShown, TrustOnFile, SavingIsFirst,
       DriftReported, FirstList, Reported, CheckPins, IsToolsList, Resolve,
       ResolvedMethod, Loaded, Record, SetSessionBaseline, procVars, reqVars
  <2>2. TrustOnFile'
    BY <1>10, <2>0 DEF IInv, TypeOK, LinesInHand, Tracked, BaselineShown,
       DriftIInv, PinnedMeansShown, TrustOnFile, SavingIsFirst,
       DriftReported, FirstList, Reported, CheckPins, IsToolsList, Resolve,
       ResolvedMethod, Loaded, Record, SetSessionBaseline, procVars, reqVars
  <2>3. SavingIsFirst'
    BY <1>10, <2>0 DEF IInv, TypeOK, LinesInHand, Tracked, BaselineShown,
       DriftIInv, PinnedMeansShown, TrustOnFile, SavingIsFirst,
       DriftReported, FirstList, Reported, CheckPins, IsToolsList, Resolve,
       ResolvedMethod, Loaded, Record, SetSessionBaseline, procVars, reqVars
  <2>4. DriftReported'
    <3> DEFINE s == ServerOf[w]
    <3> SUFFICES ASSUME trusted[s] # None, NEW t \in Tools,
                        trusted[s][t] # None, line[w].tools[t] # None,
                        trusted[s][t] # line[w].tools[t]
                 PROVE  Reported(w, t, BetweenAction)'
      BY <1>10, <2>0 DEF DriftReported, CheckPins
    <3>1. Loaded(w)[s] = trusted[s]
      BY DEF DriftIInv, TrustOnFile, Loaded
    <3>2. EntriesFor(checkBetweenSession(Loaded(w), s, line[w].tools),
                     BetweenAction) \subseteq recorded'[w]
      BY <1>10 DEF CheckPins, Record, IInv, TypeOK
    <3> DEFINE p == Loaded(w)
               ts == line[w].tools
               found == EntriesFor(checkBetweenSession(p, s, ts),
                                   BetweenAction)
    <3>3. p[s][t] # None /\ ts[t] # None /\ p[s][t] # ts[t]
      BY <3>1
    <3>4. PICK e \in found : e.tool = t /\ e.decision = BetweenAction
      <4> HIDE DEF p, s, ts
      <4>1. \A P, S, T :
              P[S][t] # None /\ T[t] # None /\ P[S][t] # T[t] =>
                \E e \in EntriesFor(checkBetweenSession(P, S, T), BetweenAction) :
                  e.tool = t /\ e.decision = BetweenAction
        BY BetweenSessionComplete
      <4> QED BY <3>3, <4>1
    <3>5. e \in recorded'[w]
      BY <3>2, <3>4
    <3> QED BY <3>4, <3>5 DEF Reported
  <2> QED BY <2>1, <2>2, <2>3, <2>4 DEF DriftIInv
<1>11. ASSUME NEW w \in Wrappers, SaveFails(w)
     PROVE  DriftIInv'
  <2>0. Wrappers = {w}
    BY DEF OneSlot
  <2>1. PinnedMeansShown'
    BY <1>11, <2>0 DEF IInv, TypeOK, LinesInHand, Tracked, BaselineShown,
       DriftIInv, PinnedMeansShown, TrustOnFile, SavingIsFirst,
       DriftReported, FirstList, Reported, SaveFails, Record,
       SetSessionBaseline, procVars, reqVars
  <2>2. TrustOnFile'
    BY <1>11, <2>0 DEF IInv, TypeOK, LinesInHand, Tracked, BaselineShown,
       DriftIInv, PinnedMeansShown, TrustOnFile, SavingIsFirst,
       DriftReported, FirstList, Reported, SaveFails, Record,
       SetSessionBaseline, procVars, reqVars
  <2>3. SavingIsFirst'
    BY <1>11, <2>0 DEF IInv, TypeOK, LinesInHand, Tracked, BaselineShown,
       DriftIInv, PinnedMeansShown, TrustOnFile, SavingIsFirst,
       DriftReported, FirstList, Reported, SaveFails, Record,
       SetSessionBaseline, procVars, reqVars
  <2>4. DriftReported'
    BY <1>11, <2>0 DEF IInv, TypeOK, LinesInHand, Tracked, BaselineShown,
       DriftIInv, PinnedMeansShown, TrustOnFile, SavingIsFirst,
       DriftReported, FirstList, Reported, SaveFails, Record,
       SetSessionBaseline, procVars, reqVars
  <2> QED BY <2>1, <2>2, <2>3, <2>4 DEF DriftIInv
<1>12. ASSUME NEW w \in Wrappers, SaveTruncates(w)
     PROVE  DriftIInv'
  <2>0. Wrappers = {w}
    BY DEF OneSlot
  <2>1. PinnedMeansShown'
    BY <1>12, <2>0 DEF IInv, TypeOK, LinesInHand, Tracked, BaselineShown,
       DriftIInv, PinnedMeansShown, TrustOnFile, SavingIsFirst,
       DriftReported, FirstList, Reported, SaveTruncates, procVars, reqVars
  <2>2. TrustOnFile'
    BY <1>12, <2>0 DEF IInv, TypeOK, LinesInHand, Tracked, BaselineShown,
       DriftIInv, PinnedMeansShown, TrustOnFile, SavingIsFirst,
       DriftReported, FirstList, Reported, SaveTruncates, procVars, reqVars
  <2>3. SavingIsFirst'
    BY <1>12, <2>0 DEF IInv, TypeOK, LinesInHand, Tracked, BaselineShown,
       DriftIInv, PinnedMeansShown, TrustOnFile, SavingIsFirst,
       DriftReported, FirstList, Reported, SaveTruncates, procVars, reqVars
  <2>4. DriftReported'
    BY <1>12, <2>0 DEF IInv, TypeOK, LinesInHand, Tracked, BaselineShown,
       DriftIInv, PinnedMeansShown, TrustOnFile, SavingIsFirst,
       DriftReported, FirstList, Reported, SaveTruncates, procVars, reqVars
  <2> QED BY <2>1, <2>2, <2>3, <2>4 DEF DriftIInv
<1>13. ASSUME NEW w \in Wrappers, SaveWrites(w)
     PROVE  DriftIInv'
  <2>0. Wrappers = {w}
    BY DEF OneSlot
  <2>1. PinnedMeansShown'
    BY <1>13, <2>0 DEF IInv, TypeOK, LinesInHand, Tracked, BaselineShown,
       DriftIInv, PinnedMeansShown, TrustOnFile, SavingIsFirst,
       DriftReported, FirstList, Reported, SaveWrites, Record,
       SetSessionBaseline, WriteResults, procVars, reqVars
  <2>2. TrustOnFile'
    BY <1>13, <2>0 DEF IInv, TypeOK, LinesInHand, Tracked, BaselineShown,
       DriftIInv, PinnedMeansShown, TrustOnFile, SavingIsFirst,
       DriftReported, FirstList, Reported, SaveWrites, Record,
       SetSessionBaseline, WriteResults, procVars, reqVars
  <2>3. SavingIsFirst'
    BY <1>13, <2>0 DEF IInv, TypeOK, LinesInHand, Tracked, BaselineShown,
       DriftIInv, PinnedMeansShown, TrustOnFile, SavingIsFirst,
       DriftReported, FirstList, Reported, SaveWrites, Record,
       SetSessionBaseline, WriteResults, procVars, reqVars
  <2>4. DriftReported'
    BY <1>13, <2>0 DEF IInv, TypeOK, LinesInHand, Tracked, BaselineShown,
       DriftIInv, PinnedMeansShown, TrustOnFile, SavingIsFirst,
       DriftReported, FirstList, Reported, SaveWrites, Record,
       SetSessionBaseline, WriteResults, procVars, reqVars
  <2> QED BY <2>1, <2>2, <2>3, <2>4 DEF DriftIInv
<1>14. ASSUME NEW w \in Wrappers, CheckMidSession(w)
     PROVE  DriftIInv'
  <2>0. Wrappers = {w}
    BY DEF OneSlot
  <2>1. PinnedMeansShown'
    BY <1>14, <2>0 DEF IInv, TypeOK, LinesInHand, Tracked, BaselineShown,
       DriftIInv, PinnedMeansShown, TrustOnFile, SavingIsFirst,
       DriftReported, FirstList, Reported, CheckMidSession, IsToolsList,
       Resolve, ResolvedMethod, Record, SetSessionBaseline, procVars,
       reqVars
  <2>2. TrustOnFile'
    BY <1>14, <2>0 DEF IInv, TypeOK, LinesInHand, Tracked, BaselineShown,
       DriftIInv, PinnedMeansShown, TrustOnFile, SavingIsFirst,
       DriftReported, FirstList, Reported, CheckMidSession, IsToolsList,
       Resolve, ResolvedMethod, Record, SetSessionBaseline, procVars,
       reqVars
  <2>3. SavingIsFirst'
    BY <1>14, <2>0 DEF IInv, TypeOK, LinesInHand, Tracked, BaselineShown,
       DriftIInv, PinnedMeansShown, TrustOnFile, SavingIsFirst,
       DriftReported, FirstList, Reported, CheckMidSession, IsToolsList,
       Resolve, ResolvedMethod, Record, SetSessionBaseline, procVars,
       reqVars
  <2>4. DriftReported'
    BY <1>14, <2>0 DEF IInv, TypeOK, LinesInHand, Tracked, BaselineShown,
       DriftIInv, PinnedMeansShown, TrustOnFile, SavingIsFirst,
       DriftReported, FirstList, Reported, CheckMidSession, IsToolsList,
       Resolve, ResolvedMethod, Record, SetSessionBaseline, procVars,
       reqVars
  <2> QED BY <2>1, <2>2, <2>3, <2>4 DEF DriftIInv
<1>15. ASSUME NEW w \in Wrappers, ForwardResponse(w)
     PROVE  DriftIInv'
  <2>0. Wrappers = {w}
    BY DEF OneSlot
  <2>1. PinnedMeansShown'
    BY <1>15, <2>0 DEF IInv, TypeOK, LinesInHand, Tracked, BaselineShown,
       DriftIInv, PinnedMeansShown, TrustOnFile, SavingIsFirst,
       DriftReported, FirstList, Reported, ForwardResponse, Responses,
       procVars, reqVars
  <2>2. TrustOnFile'
    BY <1>15, <2>0 DEF IInv, TypeOK, LinesInHand, Tracked, BaselineShown,
       DriftIInv, PinnedMeansShown, TrustOnFile, SavingIsFirst,
       DriftReported, FirstList, Reported, ForwardResponse, procVars,
       reqVars
  <2>3. SavingIsFirst'
    BY <1>15, <2>0 DEF IInv, TypeOK, LinesInHand, Tracked, BaselineShown,
       DriftIInv, PinnedMeansShown, TrustOnFile, SavingIsFirst,
       DriftReported, FirstList, Reported, ForwardResponse, procVars,
       reqVars
  <2>4. DriftReported'
    BY <1>15, <2>0 DEF IInv, TypeOK, LinesInHand, Tracked, BaselineShown,
       DriftIInv, PinnedMeansShown, TrustOnFile, SavingIsFirst,
       DriftReported, FirstList, Reported, ForwardResponse, procVars,
       reqVars
  <2> QED BY <2>1, <2>2, <2>3, <2>4 DEF DriftIInv
<1>16. ASSUME NEW w \in Wrappers, SaveTears(w)
     PROVE  DriftIInv'
  <2>0. Wrappers = {w}
    BY DEF OneSlot
  <2>1. PinnedMeansShown'
    BY <1>16, <2>0 DEF IInv, TypeOK, LinesInHand, Tracked, BaselineShown,
       DriftIInv, PinnedMeansShown, TrustOnFile, SavingIsFirst,
       DriftReported, FirstList, Reported, SaveTears, Record,
       SetSessionBaseline, procVars, reqVars
  <2>2. TrustOnFile'
    BY <1>16, <2>0 DEF IInv, TypeOK, LinesInHand, Tracked, BaselineShown,
       DriftIInv, PinnedMeansShown, TrustOnFile, SavingIsFirst,
       DriftReported, FirstList, Reported, SaveTears, Record,
       SetSessionBaseline, procVars, reqVars
  <2>3. SavingIsFirst'
    BY <1>16, <2>0 DEF IInv, TypeOK, LinesInHand, Tracked, BaselineShown,
       DriftIInv, PinnedMeansShown, TrustOnFile, SavingIsFirst,
       DriftReported, FirstList, Reported, SaveTears, Record,
       SetSessionBaseline, procVars, reqVars
  <2>4. DriftReported'
    BY <1>16, <2>0 DEF IInv, TypeOK, LinesInHand, Tracked, BaselineShown,
       DriftIInv, PinnedMeansShown, TrustOnFile, SavingIsFirst,
       DriftReported, FirstList, Reported, SaveTears, Record,
       SetSessionBaseline, procVars, reqVars
  <2> QED BY <2>1, <2>2, <2>3, <2>4 DEF DriftIInv
<1>17. ASSUME NEW w \in Wrappers, RelayEnds(w)
     PROVE  DriftIInv'
  <2>0. Wrappers = {w}
    BY DEF OneSlot
  <2>1. PinnedMeansShown'
    BY <1>17, <2>0 DEF IInv, TypeOK, LinesInHand, Tracked, BaselineShown,
       DriftIInv, PinnedMeansShown, TrustOnFile, SavingIsFirst,
       DriftReported, FirstList, Reported, RelayEnds, Responses,
       procVars, reqVars
  <2>2. TrustOnFile'
    BY <1>17, <2>0 DEF IInv, TypeOK, LinesInHand, Tracked, BaselineShown,
       DriftIInv, PinnedMeansShown, TrustOnFile, SavingIsFirst,
       DriftReported, FirstList, Reported, RelayEnds, procVars,
       reqVars
  <2>3. SavingIsFirst'
    BY <1>17, <2>0 DEF IInv, TypeOK, LinesInHand, Tracked, BaselineShown,
       DriftIInv, PinnedMeansShown, TrustOnFile, SavingIsFirst,
       DriftReported, FirstList, Reported, RelayEnds, procVars,
       reqVars
  <2>4. DriftReported'
    BY <1>17, <2>0 DEF IInv, TypeOK, LinesInHand, Tracked, BaselineShown,
       DriftIInv, PinnedMeansShown, TrustOnFile, SavingIsFirst,
       DriftReported, FirstList, Reported, RelayEnds, procVars,
       reqVars
  <2> QED BY <2>1, <2>2, <2>3, <2>4 DEF DriftIInv
<1>18. CASE UNCHANGED vars
  BY <1>18 DEF DriftIInv, PinnedMeansShown, TrustOnFile, SavingIsFirst,
     DriftReported, FirstList, Reported, vars, procVars, reqVars
<1> QED BY <1>1, <1>2, <1>3, <1>4, <1>5, <1>6, <1>7, <1>8, <1>9, <1>10, <1>11,
   <1>12, <1>13, <1>14, <1>15, <1>16, <1>17, <1>18 DEF Next, RequestStep, ResponseStep

(* With one wrapper slot whose saves are not cut, whatever the number of
   sessions, tools and definitions: a tool whose definition is not the one
   the server's first saved pins hold is recorded in the first list of every
   later session, with the action of the policy. *)
THEOREM DriftRecorded ==
  ASSUME OneSlot, ~CutSaves
  PROVE  Spec => []DriftReported
<1>1. DriftIInv => DriftReported
  BY DEF DriftIInv
<1>2. DriftIInv /\ [Next]_vars /\ IInv => DriftIInv'
  BY DriftStep
<1> QED BY DriftInitial, <1>1, <1>2, Invariant, PTL DEF Spec
=============================================================================
