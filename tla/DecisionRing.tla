---------------------------- MODULE DecisionRing ----------------------------
(***************************************************************************)
(* The ring buffer of DecisionLog (cli/internal/proxy/decision.go).  Every *)
(* operation holds the log's lock, so each is one step of its caller.      *)
(***************************************************************************)
EXTENDS Integers, FiniteSetsExt

CONSTANTS
  Size,      \* --decision-log-size
  NoEntry    \* the zero DecisionEntry

ASSUME SizeAssumption == Size \in Nat \ {0}

VARIABLES entries, head, count

ringVars == << entries, head, count >>

\* NewDecisionLog.
RingInit ==
  /\ entries = [i \in 0 .. Size - 1 |-> NoEntry]
  /\ head = 0
  /\ count = 0

\* A ring whose head stays in front of the last cell.
RecordShort(e) ==
  /\ entries' = [entries EXCEPT ![head] = e]
  /\ head' = IF head + 1 < Size - 1 THEN head + 1 ELSE 0
  /\ count' = IF count < Size THEN count + 1 ELSE count

\* DecisionLog.Record, without the line appended to the file.
RingRecord(e) ==
  /\ entries' = [entries EXCEPT ![head] = e]
  /\ head' = (head + 1) % Size
  /\ count' = IF count < Size THEN count + 1 ELSE count

\* The i-th newest entry, from 1.
RecentAt(i) == entries[(head - i + Size) % Size]

\* DecisionLog.Recent.
Recent(n) == [i \in 1 .. IF n > count THEN count ELSE n |-> RecentAt(i)]

\* A Lookup that searches from the oldest entry.
LookupOldest(key) ==
  LET hits == {i \in 1 .. count : RecentAt(i).key = key}
  IN  IF hits = {} THEN NoEntry ELSE RecentAt(Max(hits))

\* DecisionLog.Lookup: the newest entry with this action id.
Lookup(key) ==
  LET hits == {i \in 1 .. count : RecentAt(i).key = key}
  IN  IF hits = {} THEN NoEntry ELSE RecentAt(Min(hits))
=============================================================================
