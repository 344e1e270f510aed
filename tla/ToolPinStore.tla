---------------------------- MODULE ToolPinStore ----------------------------
(***************************************************************************)
(* The tool pin store of cli/internal/proxy/pinning.go: the comparisons    *)
(* and updates it makes on tool definitions, as operators without state.   *)
(*                                                                         *)
(* A tool definition is its description and its input schema.  The SHA-256 *)
(* hashes of pinning.go are taken to be injective on canonical JSON, so a  *)
(* full hash is the definition itself, and the two field hashes are the    *)
(* two fields.  A list of tools, a session baseline and the pins of one    *)
(* server are maps from tool names; a name that is not in the map is None. *)
(***************************************************************************)
CONSTANTS
  Servers,   \* server identities, the first half of a pin key
  Tools,     \* tool names, the second half
  Descs,     \* tool descriptions
  Schemas,   \* tool input schemas
  None       \* the absent map entry, and the absent message

Defs == [desc : Descs, schema : Schemas]

ToolMaps == [Tools -> Defs \cup {None}]

ASSUME NoneAssumption == None \notin Defs /\ None \notin ToolMaps

\* A PinFile's pins, keyed by server and tool as pinKey does.
PinMaps == [Servers -> ToolMaps]

NoTools == [t \in Tools |-> None]

\* NewToolPinStore: no pins.
NoPins == [s \in Servers |-> NoTools]

Severities == {"critical", "high", "medium"}

Changes == [tool : Tools, severity : Severities]

-----------------------------------------------------------------------------
\* classifyPinChangeFromHashes: a schema change outranks any other.
classifyPinChangeFromHashes(entry, def) ==
  IF entry.schema # def.schema THEN "high" ELSE "medium"

\* Pinning by tool name alone, without the server's half of the key.
PinForEveryServer(pins, s, tools) ==
  [r \in Servers |->
     [t \in Tools |-> IF tools[t] # None THEN tools[t] ELSE pins[r][t]]]

\* Pin, for every tool of the list (PinAll).
PinAll(pins, s, tools) ==
  [pins EXCEPT ![s] =
     [t \in Tools |-> IF tools[t] # None THEN tools[t] ELSE pins[s][t]]]

\* checkBetweenSession as it would be if it looked at descriptions only.
DescriptionOnlyCheck(pins, s, tools) ==
  { [tool |-> t, severity |-> "medium"] :
      t \in { u \in Tools : /\ pins[s][u] # None
                            /\ tools[u] # None
                            /\ pins[s][u].desc # tools[u].desc } }

\* checkBetweenSession: the listed tools that have a pin with another hash.
\* A tool without a pin is passed over, and so is a pin without a tool.
checkBetweenSession(pins, s, tools) ==
  { [tool |-> t,
     severity |-> classifyPinChangeFromHashes(pins[s][t], tools[t])] :
      t \in { u \in Tools : /\ pins[s][u] # None
                            /\ tools[u] # None
                            /\ pins[s][u] # tools[u] } }

\* checkMidSession without its second loop, which finds removed tools.
AddedOrEditedOnly(pins, s, baseline, tools) ==
  { [tool |-> t, severity |-> "high"] :
      t \in { u \in Tools : tools[u] \notin {baseline[u], None} } }

\* checkMidSession: every difference between the list and the session
\* baseline.  An addition or a removal is critical; an edit is classified
\* against the PIN of the tool, if it has one, and is high if it has none.
checkMidSession(pins, s, baseline, tools) ==
  { [tool |-> t,
     severity |->
       IF baseline[t] = None \/ tools[t] = None THEN "critical"
       ELSE IF pins[s][t] # None
            THEN classifyPinChangeFromHashes(pins[s][t], tools[t])
            ELSE "high"] :
      t \in { u \in Tools : baseline[u] # tools[u] } }

\* serverHasPins: some pin key has the server's prefix.
serverHasPins(pins, s) == \E t \in Tools : pins[s][t] # None
=============================================================================
