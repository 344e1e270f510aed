------------------------ MODULE RequestHandlerProofs ------------------------
(***************************************************************************)
(* Proofs about the proxy's request handler and its decision log, for a    *)
(* ring of any size, any number of request goroutines and any reuse of     *)
(* action ids.                                                             *)
(***************************************************************************)
EXTENDS RequestHandler, FiniteSetTheorems, SequenceTheorems, TLAPS

-----------------------------------------------------------------------------
(* The ring.                                                               *)

\* The remainder of a number below twice the size.
LEMMA SmallModulus ==
  ASSUME NEW n \in 0 .. 2 * Size - 1
  PROVE  n % Size = IF n < Size THEN n ELSE n - Size
  <1>1. Size \in Nat /\ Size > 0 /\ n \in Nat /\ n < 2 * Size
    BY SizeAssumption
  <1>2. CASE n < Size
    BY <1>1, <1>2
  <1>3. CASE n >= Size
    BY <1>1, <1>3
  <1> QED BY <1>1, <1>2, <1>3

\* Where the i-th newest entry is.
Cell(h, i) == IF i <= h THEN h - i ELSE h - i + Size

\* A cell of the ring is in the ring.
LEMMA CellFacts ==
  ASSUME NEW h \in 0 .. Size - 1, NEW i \in 1 .. Size
  PROVE  Cell(h, i) \in 0 .. Size - 1 /\ (h - i + Size) % Size = Cell(h, i)
  <1>1. Size \in Nat /\ h \in Nat /\ i \in Nat
    BY SizeAssumption
  <1>2. h - i + Size \in 0 .. 2 * Size - 1
    BY <1>1
  <1> QED BY <1>1, <1>2, SmallModulus DEF Cell

RingOK ==
  /\ DOMAIN entries = 0 .. Size - 1
  /\ head \in 0 .. Size - 1
  /\ count \in 0 .. Size

\* The i-th newest entry.
LEMMA RecentCells ==
  ASSUME RingOK, NEW i \in 1 .. Size
  PROVE  /\ Cell(head, i) \in 0 .. Size - 1
         /\ RecentAt(i) = entries[Cell(head, i)]
  BY CellFacts DEF RingOK, RecentAt

\* Record puts the entry in front of the others.
LEMMA RingRecordFacts ==
  ASSUME RingOK, NEW e, RingRecord(e)
  PROVE  /\ RingOK'
         /\ count' = IF count < Size THEN count + 1 ELSE Size
         /\ RecentAt(1)' = e
         /\ \A i \in 2 .. Size : RecentAt(i)' = RecentAt(i - 1)
  <1>0. head \in 0 .. Size - 1 /\ Size \in Nat
    BY SizeAssumption DEF RingOK
  <1>1. head + 1 \in 0 .. 2 * Size - 1
    BY <1>0
  <1>2. head' = IF head + 1 < Size THEN head + 1 ELSE 0
    <2> DEFINE n == head + 1
    <2>1. n \in Nat /\ n <= Size
      BY <1>0
    <2>2. n \in 0 .. 2 * Size - 1
      BY <1>1
    <2> HIDE DEF n
    <2>3. n % Size = IF n < Size THEN n ELSE 0
      BY <1>0, <2>1, <2>2, SmallModulus
    <2> QED BY <2>3 DEF RingRecord, n
  <1>3. /\ RingOK'
        /\ count' = IF count < Size THEN count + 1 ELSE Size
    BY <1>2, SizeAssumption DEF RingOK, RingRecord
  <1>4. \A i \in 1 .. Size : RecentAt(i)' = entries'[Cell(head', i)]
    <2>1. head' \in 0 .. Size - 1
      BY <1>3 DEF RingOK
    <2> QED BY <2>1, CellFacts DEF RecentAt
  <1>5. Cell(head', 1) = head
    BY <1>2, SizeAssumption DEF RingOK, Cell
  <1>6. \A i \in 2 .. Size : Cell(head', i) = Cell(head, i - 1) /\ Cell(head, i - 1) # head
    BY <1>2, SizeAssumption DEF RingOK, Cell
  <1>7. RecentAt(1)' = e
    BY <1>4, <1>5, SizeAssumption DEF RingOK, RingRecord
  <1>8. ASSUME NEW i \in 2 .. Size PROVE RecentAt(i)' = RecentAt(i - 1)
    <2>1. i - 1 \in 1 .. Size /\ i \in 1 .. Size
      BY SizeAssumption
    <2>2. /\ RecentAt(i - 1) = entries[Cell(head, i - 1)]
          /\ Cell(head, i - 1) \in 0 .. Size - 1
      BY <2>1, RecentCells
    <2> QED BY <1>4, <1>6, <2>1, <2>2 DEF RingOK, RingRecord
  <1> QED BY <1>3, <1>7, <1>8

-----------------------------------------------------------------------------
(* FlattenSeq, of which the report is made.                                *)

\* A set of natural numbers that is not empty has a least one.
LEMMA LeastNat ==
  ASSUME NEW T \in SUBSET Nat, T # {}
  PROVE  \E n \in T : \A m \in T : n <= m
  <1>1. PICK n \in T : \A m \in T : ~(<< m, n >> \in OpToRel(<, Nat))
    BY NatLessThanWellFounded, WFMin
  <1>2. \A m \in T : ~(m < n)
    BY <1>1 DEF OpToRel
  <1> QED BY <1>2

\* The function that FlattenSeq chooses exists.
LEMMA FlattenExists ==
  ASSUME NEW ss, NEW n \in Nat
  PROVE  \E f : f = [i \in 1 .. n |-> IF i = 1 THEN ss[i] ELSE f[i - 1] \o ss[i]]
  <1> DEFINE Good(f, k) ==
               f = [i \in 1 .. k |-> IF i = 1 THEN ss[i] ELSE f[i - 1] \o ss[i]]
             T == {k \in Nat : ~\E f : Good(f, k)}
  <1> SUFFICES ASSUME T # {} PROVE FALSE
    OBVIOUS
  <1>1. PICK k \in T : \A m \in T : k <= m
    <2> HIDE DEF T
    <2>1. T \in SUBSET Nat
      BY DEF T
    <2> QED BY <2>1, LeastNat
  <1>a. k \in Nat
    OBVIOUS
  <1>b. \A m \in Nat : m < k => \E f : Good(f, m)
    <2> HIDE DEF Good
    <2> SUFFICES ASSUME NEW m \in Nat, m < k, ~\E f : Good(f, m) PROVE FALSE
      OBVIOUS
    <2>1. m \in T
      OBVIOUS
    <2> HIDE DEF T
    <2> QED BY <1>1, <1>a, <2>1
  <1>c. ~\E f : Good(f, k)
    <2> HIDE DEF Good
    <2> QED OBVIOUS
  <1>2. CASE k = 0
    <2>1. Good(<< >>, 0)
      OBVIOUS
    <2> HIDE DEF Good
    <2> QED BY <1>2, <1>c, <2>1
  <1>3. CASE k # 0
    <2>1. k - 1 \in Nat /\ k - 1 < k
      BY <1>3, <1>a
    <2>2. PICK f : Good(f, k - 1)
      <3> HIDE DEF Good
      <3> QED BY <1>b, <2>1
    <2> DEFINE g == [i \in 1 .. k |-> IF i < k THEN f[i]
                                      ELSE IF i = 1 THEN ss[i] ELSE f[i - 1] \o ss[i]]
    <2>3. Good(g, k)
      <3>1. \A i \in 1 .. k : g[i] = IF i = 1 THEN ss[i] ELSE g[i - 1] \o ss[i]
        <4> SUFFICES ASSUME NEW i \in 1 .. k
                     PROVE  g[i] = IF i = 1 THEN ss[i] ELSE g[i - 1] \o ss[i]
          OBVIOUS
        <4>1. i = 1 \/ (i - 1 \in 1 .. k /\ i - 1 < k)
          BY <1>a
        <4>2. i \in 1 .. k - 1 => f[i] = IF i = 1 THEN ss[i] ELSE f[i - 1] \o ss[i]
          BY <2>2
        <4>3. g[i] = IF i = 1 THEN ss[i] ELSE f[i - 1] \o ss[i]
          BY <1>a, <4>2
        <4>4. i # 1 => g[i - 1] = f[i - 1]
          BY <4>1
        <4> QED BY <4>3, <4>4
      <3> HIDE DEF g
      <3>2. g = [i \in 1 .. k |-> g[i]]
        BY DEF g
      <3> QED BY <3>1, <3>2
    <2> HIDE DEF Good
    <2> QED BY <1>c, <2>3
  <1> QED BY <1>2, <1>3

\* FlattenSeq keeps every element of every sequence.
LEMMA FlattenFacts ==
  ASSUME NEW S, NEW ss \in Seq(Seq(S))
  PROVE  /\ FlattenSeq(ss) \in Seq(S)
         /\ \A i \in 1 .. Len(ss) : Range(ss[i]) \subseteq Range(FlattenSeq(ss))
  <1> DEFINE n == Len(ss)
             Flat(f) == f = [i \in 1 .. n |-> IF i = 1 THEN ss[i] ELSE f[i - 1] \o ss[i]]
             flat == CHOOSE f : Flat(f)
  <1>0. n \in Nat /\ \A i \in 1 .. n : ss[i] \in Seq(S)
    BY ElementOfSeq
  <1>1. CASE n = 0
    <2>1. FlattenSeq(ss) = ss /\ ss = << >>
      BY <1>1 DEF FlattenSeq
    <2> QED BY <1>1, <2>1
  <1>2. CASE n # 0
    <2>1. FlattenSeq(ss) = flat[n]
      BY <1>2 DEF FlattenSeq
    <2>2. Flat(flat)
      <3>1. \E f : Flat(f)
        BY <1>0, FlattenExists
      <3> HIDE DEF Flat
      <3> QED BY <3>1
    <2> HIDE DEF flat, n
    <2>3. \A i \in 1 .. n : flat[i] = IF i = 1 THEN ss[i] ELSE flat[i - 1] \o ss[i]
      BY <2>2
    <2> HIDE DEF Flat
    <2> DEFINE Keeps(i) == /\ flat[i] \in Seq(S)
                           /\ \A j \in 1 .. i : Range(ss[j]) \subseteq Range(flat[i])
               T == {i \in 1 .. n : ~Keeps(i)}
    <2>4. T = {}
      <3> SUFFICES ASSUME T # {} PROVE FALSE
        OBVIOUS
      <3>1. PICK k \in T : \A m \in T : k <= m
        <4>1. T \in SUBSET Nat
          BY <1>0
        <4> HIDE DEF T
        <4> QED BY <4>1, LeastNat
      <3> HIDE DEF Keeps
      <3>2. k \in 1 .. n /\ k \in Nat /\ ~Keeps(k)
        BY <1>0
      <3>3. CASE k = 1
        <4>1. flat[k] = ss[1]
          BY <2>3, <3>2, <3>3
        <4> QED BY <1>0, <3>2, <3>3, <4>1 DEF Keeps
      <3>4. CASE k # 1
        <4>1. k - 1 \in 1 .. n /\ k - 1 < k
          BY <1>0, <3>2, <3>4
        <4>2. Keeps(k - 1)
          <5> SUFFICES ASSUME k - 1 \in T PROVE FALSE
            BY <4>1
          <5> HIDE DEF T
          <5> QED BY <3>1, <3>2, <4>1
        <4>3. flat[k] = flat[k - 1] \o ss[k] /\ ss[k] \in Seq(S)
          BY <1>0, <2>3, <3>2, <3>4
        <4>4. /\ flat[k] \in Seq(S)
              /\ Range(flat[k]) = Range(flat[k - 1]) \cup Range(ss[k])
          BY <4>2, <4>3, RangeConcatenation, ConcatProperties DEF Keeps
        <4>5. \A j \in 1 .. k : j = k \/ j \in 1 .. k - 1
          BY <3>2
        <4>6. Keeps(k)
          BY <4>2, <4>4, <4>5 DEF Keeps
        <4> QED BY <3>2, <4>6
      <3> QED BY <3>3, <3>4
    <2>5. Keeps(n)
      <3>1. n \in 1 .. n
        BY <1>0, <1>2
      <3> QED BY <2>4, <3>1
    <2> QED BY <2>1, <2>5 DEF n
  <1> QED BY <1>1, <1>2

-----------------------------------------------------------------------------
(* The requests.                                                           *)

Logged == {decisions[j] : j \in 1 .. Len(decisions)}

\* While the file is open it ends with what the ring holds.
RingFollowsFile ==
  FileOpen =>
    /\ count <= Len(decisions)
    /\ \A i \in 1 .. count : RecentAt(i) = decisions[Len(decisions) + 1 - i]

\* A finding is written after its decision, and only while both files are open.
ViolationsOK ==
  /\ \A i \in 1 .. Len(violations) : violations[i] \in Logged
  /\ \A s \in Slots : up = "serving" /\ task[s].pc = "violation" => task[s].entry \in Logged
  /\ up = "down" => \A s \in Slots : task[s] = Idle

HandlerIInv == TypeOK /\ RingFollowsFile /\ ViolationsOK /\ ReportHasViolations

\* Of the decisions of any findings, one is the highest.
LEMMA DecisionFacts ==
  ASSUME NEW f \in FindingLists
  PROVE  HighestDecision(f) \in Decisions
  <1> DEFINE R == Range(f) \cup {"allow"}
             Top(d) == /\ d \in R
                       /\ \A i \in 1 .. Len(f) : Priority[f[i]] <= Priority[d]
  <1>1. f \in Seq(Decisions)
    BY HandlerAssumption
  <1>2. \A i \in 1 .. Len(f) : f[i] \in R /\ f[i] \in Decisions
    BY <1>1, ElementOfSeq, RangeEquality
  <1>3. \A d \in Decisions : Priority[d] \in 0 .. 3
    BY DEF Decisions, Priority
  <1>4. \E d \in Decisions : Top(d)
    <2> HIDE DEF R
    <2>0. "allow" \in R
      BY DEF R
    <2>1. CASE "block" \in R
      BY <1>2, <1>3, <2>1 DEF Decisions, Priority
    <2>2. CASE "block" \notin R /\ "warn" \in R
      BY <1>2, <1>3, <2>2 DEF Decisions, Priority
    <2>3. CASE "block" \notin R /\ "warn" \notin R /\ "log" \in R
      BY <1>2, <1>3, <2>3 DEF Decisions, Priority
    <2>4. CASE "block" \notin R /\ "warn" \notin R /\ "log" \notin R
      BY <1>2, <1>3, <2>0, <2>4 DEF Decisions, Priority
    <2> QED BY <2>1, <2>2, <2>3, <2>4
  <1> QED BY <1>4 DEF HighestDecision

\* A goroutine that is not idle has a request.
LEMMA TaskFacts ==
  ASSUME TypeOK, NEW s \in Slots, task[s] # Idle
  PROVE  task[s] \in Tasks /\ task[s].entry \in Entry
  BY DEF TypeOK, Tasks

\* No process, empty logs.
LEMMA HandlerInitial == Init => HandlerIInv
  <1> SUFFICES ASSUME Init PROVE HandlerIInv
    OBVIOUS
  <1>1. entries \in [0 .. Size - 1 -> Entry \cup {NoEntry}] /\ head \in 0 .. Size - 1
        /\ count \in 0 .. Size
    BY SizeAssumption DEF Init, RingInit
  <1>2. follower \in [on : BOOLEAN, read : Nat, eof : BOOLEAN]
    BY DEF Init, NoFollower
  <1>3. TypeOK
    BY <1>1, <1>2, HandlerAssumption DEF Init, TypeOK
  <1>4. RingFollowsFile /\ ViolationsOK /\ ReportHasViolations
    BY DEF Init, RingFollowsFile, FileOpen, ViolationsOK, ReportHasViolations
  <1> QED BY <1>3, <1>4 DEF HandlerIInv

\* A request that has been inspected is recorded next.
LEMMA InspectStep ==
  ASSUME HandlerIInv, NEW s \in Slots, NEW id \in Ids, NEW f \in FindingLists,
         Inspect(s, id, f)
  PROVE  HandlerIInv'
  <1> DEFINE x == [pc |-> "record",
                   entry |-> [key |-> << id, "request" >>,
                              decision |-> HighestDecision(f), findings |-> f]]
  <1>1. x \in Tasks /\ x.pc = "record"
    BY DecisionFacts DEF Tasks, Entry, Keys
  <1>2. task' = [task EXCEPT ![s] = x]
    BY DEF Inspect
  <1> HIDE DEF x
  <1>3. TypeOK'
    <2>1. task' \in [Slots -> Tasks \cup {Idle}]
      BY <1>1, <1>2 DEF HandlerIInv, TypeOK
    <2>2. requests' \in 0 .. MaxRequests
      BY HandlerAssumption DEF HandlerIInv, TypeOK, Inspect
    <2> QED BY <2>1, <2>2 DEF HandlerIInv, TypeOK, Inspect, ringVars
  <1>4. RingFollowsFile'
    BY DEF HandlerIInv, RingFollowsFile, FileOpen, RecentAt, Inspect, ringVars
  <1>5. ViolationsOK'
    BY <1>1, <1>2 DEF HandlerIInv, TypeOK, ViolationsOK, Logged, Inspect
  <1>6. ReportHasViolations'
    BY DEF HandlerIInv, ReportHasViolations, Inspect
  <1> QED BY <1>3, <1>4, <1>5, <1>6 DEF HandlerIInv

\* Record keeps the ring at the end of the file.
LEMMA RecordFacts ==
  ASSUME HandlerIInv, NEW e \in Entry, Record(e), UNCHANGED up
  PROVE  /\ entries' \in [0 .. Size - 1 -> Entry \cup {NoEntry}]
         /\ head' \in 0 .. Size - 1 /\ count' \in 0 .. Size
         /\ decisions' \in Seq(Entry)
         /\ RingFollowsFile'
         /\ Logged \subseteq Logged'
         /\ FileOpen => e \in Logged'
         /\ ~FileOpen => decisions' = decisions
  <1>1. RingOK
    BY DEF HandlerIInv, TypeOK, RingOK
  <1>2. /\ RingOK'
        /\ count' = IF count < Size THEN count + 1 ELSE Size
        /\ RecentAt(1)' = e
        /\ \A i \in 2 .. Size : RecentAt(i)' = RecentAt(i - 1)
    BY <1>1, RingRecordFacts DEF Record
  <1>3. entries' \in [0 .. Size - 1 -> Entry \cup {NoEntry}]
    BY DEF HandlerIInv, TypeOK, Record, RingRecord
  <1>4. decisions \in Seq(Entry) /\ Len(decisions) \in Nat /\ count \in Nat /\ count <= Size
        /\ Size \in Nat /\ Size > 0
    BY SizeAssumption DEF HandlerIInv, TypeOK
  <1>5. CASE FileOpen
    <2>1. /\ decisions' = Append(decisions, e)
          /\ decisions' \in Seq(Entry)
          /\ Len(decisions') = Len(decisions) + 1
          /\ \A i \in 1 .. Len(decisions) : decisions'[i] = decisions[i]
          /\ decisions'[Len(decisions) + 1] = e
      BY <1>4, <1>5, AppendProperties DEF Record
    <2>2. /\ Logged \subseteq Logged'
          /\ e \in Logged'
      BY <1>4, <2>1 DEF Logged
    <2>3. /\ count <= Len(decisions)
          /\ \A i \in 1 .. count : RecentAt(i) = decisions[Len(decisions) + 1 - i]
      BY <1>5 DEF HandlerIInv, RingFollowsFile
    <2>4. ASSUME NEW i \in 1 .. count'
          PROVE  RecentAt(i)' = decisions'[Len(decisions') + 1 - i]
      <3>1. CASE i = 1
        BY <1>2, <1>4, <2>1, <3>1
      <3>2. CASE i # 1
        <4>1. i \in 2 .. Size /\ i - 1 \in 1 .. count
          BY <1>2, <1>4, <3>2
        <4>2. Len(decisions) + 1 - (i - 1) \in 1 .. Len(decisions)
          BY <1>4, <2>3, <4>1
        <4>3. Len(decisions') + 1 - i = Len(decisions) + 1 - (i - 1)
          BY <1>4, <2>1, <4>1
        <4> QED BY <1>2, <2>1, <2>3, <4>1, <4>2, <4>3
      <3> QED BY <3>1, <3>2
    <2>5. count' <= Len(decisions')
      BY <1>2, <1>4, <2>1, <2>3
    <2>6. RingFollowsFile'
      BY <2>4, <2>5 DEF RingFollowsFile
    <2> QED BY <1>2, <1>3, <1>5, <2>1, <2>2, <2>6 DEF RingOK
  <1>6. CASE ~FileOpen
    <2>1. decisions' = decisions /\ RingFollowsFile'
      BY <1>6 DEF Record, RingFollowsFile, FileOpen
    <2> QED BY <1>2, <1>3, <1>4, <1>6, <2>1 DEF RingOK, Logged
  <1> QED BY <1>5, <1>6

\* A step that leaves the ring, the files and the report as they are.
LEMMA CalmStep ==
  ASSUME HandlerIInv, TypeOK',
         UNCHANGED << ringVars, decisions, violations, sarif >>,
         \A x \in {"serving", "cleanup", "reported"} :
           up' = x => (up = x \/ (x = "cleanup" /\ up = "serving")),
         up' = "down" => \A s \in Slots : task'[s] = Idle,
         \A s \in Slots : up' = "serving" /\ task'[s].pc = "violation" =>
                            task[s].pc = "violation" /\ task'[s].entry = task[s].entry
  PROVE  HandlerIInv'
  <1>1. RingFollowsFile'
    BY DEF HandlerIInv, RingFollowsFile, FileOpen, RecentAt, ringVars
  <1>2. ViolationsOK'
    BY DEF HandlerIInv, ViolationsOK, Logged
  <1>3. ReportHasViolations'
    BY DEF HandlerIInv, ReportHasViolations
  <1> QED BY <1>1, <1>2, <1>3 DEF HandlerIInv

\* A decision is in the log before its findings are written.
LEMMA RecordRequestStep ==
  ASSUME HandlerIInv, NEW s \in Slots, RecordRequest(s)
  PROVE  HandlerIInv'
  <1>1. task[s] \in Tasks /\ task[s].entry \in Entry
    BY TaskFacts DEF HandlerIInv, RecordRequest, Idle
  <1>2. /\ Record(task[s].entry)
        /\ UNCHANGED << up, violations, sarif, follower, requests, runs >>
    BY DEF RecordRequest
  <1>3. /\ entries' \in [0 .. Size - 1 -> Entry \cup {NoEntry}]
        /\ head' \in 0 .. Size - 1 /\ count' \in 0 .. Size
        /\ decisions' \in Seq(Entry)
        /\ RingFollowsFile'
        /\ Logged \subseteq Logged'
        /\ FileOpen => task[s].entry \in Logged'
    BY <1>1, <1>2, RecordFacts
  <1> DEFINE x == [pc |-> "violation", entry |-> task[s].entry]
  <1>4. x \in Tasks /\ x # Idle
    BY <1>1 DEF Tasks, Idle
  <1>5. task' = [task EXCEPT ![s] = x]
    <2>1. [task[s] EXCEPT !.pc = "violation"] = x
      BY <1>1 DEF Tasks
    <2> QED BY <2>1 DEF RecordRequest
  <1>6. TypeOK'
    BY <1>2, <1>3, <1>4, <1>5 DEF HandlerIInv, TypeOK
  <1>7. ViolationsOK'
    <2>1. \A i \in 1 .. Len(violations') : violations'[i] \in Logged'
      BY <1>2, <1>3 DEF HandlerIInv, ViolationsOK
    <2>2. ASSUME NEW r \in Slots, up = "serving", task'[r].pc = "violation"
          PROVE  task'[r].entry \in Logged'
      <3>1. CASE r = s
        BY <1>3, <1>5, <2>2, <3>1 DEF HandlerIInv, TypeOK, FileOpen
      <3>2. CASE r # s
        BY <1>3, <1>5, <2>2, <3>2 DEF HandlerIInv, TypeOK, ViolationsOK
      <3> QED BY <3>1, <3>2
    <2>3. up # "down"
      BY DEF HandlerIInv, ViolationsOK, RecordRequest, Idle
    <2> QED BY <1>2, <2>1, <2>2, <2>3 DEF ViolationsOK
  <1>8. ReportHasViolations'
    BY <1>2 DEF HandlerIInv, ReportHasViolations
  <1> QED BY <1>3, <1>6, <1>7, <1>8 DEF HandlerIInv

\* A response is recorded like a request.
LEMMA OnResponseStep ==
  ASSUME HandlerIInv, NEW s \in Slots, OnResponse(s)
  PROVE  HandlerIInv'
  <1> DEFINE e == [key |-> << task[s].entry.key[1], "response" >>,
                   decision |-> "allow", findings |-> << >>]
  <1>1. e \in Entry
    <2>1. task[s].entry \in Entry
      BY TaskFacts DEF HandlerIInv, OnResponse, Idle
    <2>2. task[s].entry.key \in Keys
      BY <2>1 DEF Entry
    <2>3. task[s].entry.key[1] \in Ids
      BY <2>2 DEF Keys
    <2> QED BY <2>3, HandlerAssumption DEF Entry, Keys, Decisions
  <1>2. /\ Record(e) /\ task' = [task EXCEPT ![s] = Idle]
        /\ UNCHANGED << up, violations, sarif, follower, requests, runs >>
    BY DEF OnResponse
  <1> HIDE DEF e
  <1>3. /\ entries' \in [0 .. Size - 1 -> Entry \cup {NoEntry}]
        /\ head' \in 0 .. Size - 1 /\ count' \in 0 .. Size
        /\ decisions' \in Seq(Entry)
        /\ RingFollowsFile'
        /\ Logged \subseteq Logged'
    BY <1>1, <1>2, RecordFacts
  <1>4. TypeOK'
    BY <1>2, <1>3 DEF HandlerIInv, TypeOK
  <1>5. ViolationsOK'
    <2>1. \A r \in Slots : task'[r] = Idle \/ task'[r] = task[r]
      BY <1>2 DEF HandlerIInv, TypeOK
    <2>2. up # "down"
      BY DEF HandlerIInv, ViolationsOK, OnResponse, Idle
    <2> QED BY <1>2, <1>3, <2>1, <2>2 DEF HandlerIInv, ViolationsOK, Idle
  <1>6. ReportHasViolations'
    BY <1>2 DEF HandlerIInv, ReportHasViolations
  <1> QED BY <1>3, <1>4, <1>5, <1>6 DEF HandlerIInv

\* Findings are written of a decision that is in the log.
LEMMA WriteFindingsStep ==
  ASSUME HandlerIInv, NEW s \in Slots, WriteFindings(s)
  PROVE  HandlerIInv'
  <1>1. task[s] \in Tasks /\ task[s].entry \in Entry /\ up # "down"
    BY TaskFacts DEF HandlerIInv, ViolationsOK, WriteFindings, Idle
  <1> DEFINE x == [pc |-> "decide", entry |-> task[s].entry]
  <1>2. x \in Tasks /\ x.pc # "violation"
    BY <1>1 DEF Tasks
  <1>3. task' = [task EXCEPT ![s] = x]
    <2>1. [task[s] EXCEPT !.pc = "decide"] = x
      BY <1>1 DEF Tasks
    <2> QED BY <2>1 DEF WriteFindings
  <1> HIDE DEF x
  <1>4. /\ violations' \in Seq(Entry)
        /\ up # "serving" => violations' = violations
        /\ \A i \in 1 .. Len(violations') :
             \/ i \in 1 .. Len(violations) /\ violations'[i] = violations[i]
             \/ up = "serving" /\ violations'[i] = task[s].entry
    <2>1. violations \in Seq(Entry) /\ Len(violations) \in Nat
      BY DEF HandlerIInv, TypeOK
    <2>2. CASE violations' = violations
      BY <2>1, <2>2
    <2>3. CASE violations' = Append(violations, task[s].entry) /\ up = "serving"
      <3>1. /\ violations' \in Seq(Entry)
            /\ Len(violations') = Len(violations) + 1
            /\ \A i \in 1 .. Len(violations) : violations'[i] = violations[i]
            /\ violations'[Len(violations) + 1] = task[s].entry
        BY <1>1, <2>1, <2>3, AppendProperties
      <3>2. \A i \in 1 .. Len(violations') :
              i \in 1 .. Len(violations) \/ i = Len(violations) + 1
        BY <2>1, <3>1
      <3> QED BY <2>3, <3>1, <3>2
    <2> QED BY <2>2, <2>3 DEF WriteFindings
  <1>5. /\ UNCHANGED << ringVars, up, decisions, sarif, follower, requests, runs >>
        /\ task[s].pc = "violation"
    BY DEF WriteFindings
  <1>6. TypeOK'
    BY <1>2, <1>3, <1>4, <1>5 DEF HandlerIInv, TypeOK, ringVars
  <1>7. RingFollowsFile'
    BY <1>5 DEF HandlerIInv, RingFollowsFile, FileOpen, RecentAt, ringVars
  <1>8. ViolationsOK'
    <2>1. Logged' = Logged
      BY <1>5 DEF Logged
    <2>2. \A i \in 1 .. Len(violations') : violations'[i] \in Logged'
      BY <1>4, <1>5, <2>1 DEF HandlerIInv, ViolationsOK
    <2>3. ASSUME NEW r \in Slots, up = "serving", task'[r].pc = "violation"
          PROVE  task'[r].entry \in Logged'
      <3>1. task'[r] = task[r]
        BY <1>2, <1>3, <2>3 DEF HandlerIInv, TypeOK
      <3> QED BY <2>1, <2>3, <3>1 DEF HandlerIInv, ViolationsOK
    <2> QED BY <1>1, <1>5, <2>2, <2>3 DEF ViolationsOK
  <1>9. ReportHasViolations'
    BY <1>4, <1>5 DEF HandlerIInv, ReportHasViolations
  <1> QED BY <1>6, <1>7, <1>8, <1>9 DEF HandlerIInv

\* Deciding changes no log.
LEMMA DecideStep ==
  ASSUME HandlerIInv, NEW s \in Slots, Decide(s)
  PROVE  HandlerIInv'
  <1>1. task[s] \in Tasks /\ task[s].entry \in Entry /\ up # "down"
    BY TaskFacts DEF HandlerIInv, ViolationsOK, Decide, Idle
  <1> DEFINE x == [pc |-> "respond", entry |-> task[s].entry]
  <1>2. x \in Tasks /\ x.pc # "violation"
    BY <1>1 DEF Tasks
  <1>3. task' = [task EXCEPT ![s] = x]
    <2>1. [task[s] EXCEPT !.pc = "respond"] = x
      BY <1>1 DEF Tasks
    <2> QED BY <2>1 DEF Decide
  <1> HIDE DEF x
  <1>4. TypeOK'
    <2>1. task' \in [Slots -> Tasks \cup {Idle}]
      BY <1>2, <1>3 DEF HandlerIInv, TypeOK
    <2> QED BY <2>1 DEF HandlerIInv, TypeOK, Decide, ringVars
  <1>5. \A r \in Slots : task'[r] = task[r] \/ task'[r] = x
    BY <1>3 DEF HandlerIInv, TypeOK
  <1> QED BY <1>1, <1>2, <1>4, <1>5, CalmStep DEF Decide

\* Neither does a connection that fails.
LEMMA UpstreamFailsStep ==
  ASSUME HandlerIInv, NEW s \in Slots, UpstreamFails(s)
  PROVE  HandlerIInv'
  <1>1. up # "down"
    BY DEF HandlerIInv, ViolationsOK, UpstreamFails, Idle
  <1>2. TypeOK'
    BY DEF HandlerIInv, TypeOK, UpstreamFails, ringVars
  <1>3. \A r \in Slots : task'[r] = task[r] \/ task'[r] = Idle
    BY DEF HandlerIInv, TypeOK, UpstreamFails
  <1> QED BY <1>1, <1>2, <1>3, CalmStep DEF UpstreamFails, Idle

\* A new process has an empty ring and no requests.
LEMMA StartStep == HandlerIInv /\ Start => HandlerIInv'
  <1> SUFFICES ASSUME HandlerIInv, Start PROVE HandlerIInv'
    OBVIOUS
  <1>1. TypeOK'
    <2>1. /\ entries' \in [0 .. Size - 1 -> Entry \cup {NoEntry}]
          /\ head' \in 0 .. Size - 1 /\ count' \in 0 .. Size
      BY SizeAssumption DEF Start
    <2>2. runs' \in 0 .. MaxRuns
      BY HandlerAssumption DEF HandlerIInv, TypeOK, Start
    <2> QED BY <2>1, <2>2 DEF HandlerIInv, TypeOK, Start
  <1>2. RingFollowsFile'
    BY DEF HandlerIInv, TypeOK, RingFollowsFile, Start
  <1>3. ViolationsOK'
    BY DEF HandlerIInv, ViolationsOK, Logged, Start, Idle
  <1>4. ReportHasViolations'
    BY DEF HandlerIInv, ReportHasViolations, Start
  <1> QED BY <1>1, <1>2, <1>3, <1>4 DEF HandlerIInv

\* The report has every finding in the log, up to the limit.
LEMMA ReportFacts ==
  ASSUME NEW lines \in Seq(Entry)
  PROVE  /\ SARIFResults(lines) \in Seq(Decisions)
         /\ \/ Len(SARIFResults(lines)) = MaxSARIF
            \/ \A j \in 1 .. Len(lines) :
                 Range(lines[j].findings) \subseteq Range(SARIFResults(lines))
  <1> DEFINE ss == [i \in 1 .. Len(lines) |-> lines[i].findings]
             all == FlattenSeq(ss)
  <1>1. Len(lines) \in Nat /\ \A i \in 1 .. Len(lines) : lines[i].findings \in Seq(Decisions)
    <2>1. \A i \in 1 .. Len(lines) : lines[i] \in Entry
      BY ElementOfSeq
    <2>2. \A e \in Entry : e.findings \in Seq(Decisions)
      BY HandlerAssumption DEF Entry
    <2>3. Len(lines) \in Nat
      OBVIOUS
    <2> QED BY <2>1, <2>2, <2>3
  <1>2. ss \in Seq(Seq(Decisions)) /\ Len(ss) = Len(lines)
    BY <1>1, IsASeq
  <1>3. /\ all \in Seq(Decisions)
        /\ \A i \in 1 .. Len(lines) : Range(lines[i].findings) \subseteq Range(all)
    <2>1. \A i \in 1 .. Len(lines) : ss[i] = lines[i].findings
      OBVIOUS
    <2> HIDE DEF ss
    <2> QED BY <1>2, <2>1, FlattenFacts
  <1>4. SARIFResults(lines) = SubSeq(all, 1, IF Len(all) < MaxSARIF THEN Len(all) ELSE MaxSARIF)
    BY DEF SARIFResults
  <1> HIDE DEF all
  <1>5. Len(all) \in Nat /\ MaxSARIF \in Nat
    BY <1>3, HandlerAssumption
  <1>6. CASE Len(all) < MaxSARIF
    <2>1. SARIFResults(lines) = all
      BY <1>3, <1>4, <1>6, SubSeqFull
    <2> QED BY <1>3, <2>1
  <1>7. CASE ~(Len(all) < MaxSARIF)
    <2>1. SARIFResults(lines) = SubSeq(all, 1, MaxSARIF) /\ MaxSARIF <= Len(all)
      BY <1>4, <1>5, <1>7
    <2>2. /\ SubSeq(all, 1, MaxSARIF) \in Seq(Decisions)
          /\ Len(SubSeq(all, 1, MaxSARIF)) = MaxSARIF
      BY <1>3, <1>5, <2>1, SubSeqProperties
    <2> QED BY <2>1, <2>2
  <1> QED BY <1>6, <1>7

\* The report is made of the whole log.
LEMMA ReportOnShutdownStep == HandlerIInv /\ ReportOnShutdown => HandlerIInv'
  <1> SUFFICES ASSUME HandlerIInv, ReportOnShutdown PROVE HandlerIInv'
    OBVIOUS
  <1>1. /\ decisions \in Seq(Entry)
        /\ sarif' = SARIFResults(decisions) /\ up' = "reported"
        /\ UNCHANGED << ringVars, task, decisions, violations, follower, requests, runs >>
    BY DEF HandlerIInv, TypeOK, ReportOnShutdown
  <1>2. /\ sarif' \in Seq(Decisions)
        /\ \/ Len(sarif') = MaxSARIF
           \/ \A j \in 1 .. Len(decisions) :
                Range(decisions[j].findings) \subseteq Range(sarif')
    BY <1>1, ReportFacts
  <1>3. TypeOK'
    BY <1>1, <1>2 DEF HandlerIInv, TypeOK, ringVars
  <1>4. RingFollowsFile'
    BY <1>1 DEF RingFollowsFile, FileOpen
  <1>5. ViolationsOK'
    BY <1>1 DEF HandlerIInv, ViolationsOK, Logged
  <1>6. ReportHasViolations'
    <2>1. \A i \in 1 .. Len(violations) :
            \E j \in 1 .. Len(decisions) : violations[i] = decisions[j]
      BY DEF HandlerIInv, ViolationsOK, Logged
    <2> QED BY <1>1, <1>2, <2>1 DEF ReportHasViolations
  <1> QED BY <1>3, <1>4, <1>5, <1>6 DEF HandlerIInv

\* The other steps of the process and those of the follower.
LEMMA OtherSteps ==
  HandlerIInv /\ (CloseServer \/ StartReturns \/ Exit \/ FollowOpens \/ FollowPolls \/ FollowStops)
    => HandlerIInv'
  <1> SUFFICES ASSUME HandlerIInv,
                      CloseServer \/ StartReturns \/ Exit \/ FollowOpens \/ FollowPolls \/ FollowStops
               PROVE  HandlerIInv'
    OBVIOUS
  <1>1. CASE CloseServer \/ StartReturns
    <2>1. TypeOK'
      BY <1>1 DEF HandlerIInv, TypeOK, CloseServer, StartReturns, ringVars
    <2> QED BY <1>1, <2>1, CalmStep DEF CloseServer, StartReturns
  <1>2. CASE Exit
    <2>1. TypeOK'
      BY <1>2 DEF HandlerIInv, TypeOK, Exit, ringVars
    <2>2. \A s \in Slots : task'[s] = Idle
      BY <1>2 DEF Exit
    <2> QED BY <1>2, <2>1, <2>2, CalmStep DEF Exit, Idle
  <1>3. CASE FollowOpens \/ FollowPolls \/ FollowStops
    <2>1. Len(decisions) \in Nat
      BY DEF HandlerIInv, TypeOK
    <2>2. follower' \in [on : BOOLEAN, read : Nat, eof : BOOLEAN]
      <3>1. CASE FollowOpens
        BY <2>1, <3>1 DEF FollowOpens
      <3>2. CASE FollowPolls
        <4>1. follower \in [on : BOOLEAN, read : Nat, eof : BOOLEAN]
          BY DEF HandlerIInv, TypeOK
        <4>2. follower' = [follower EXCEPT !.read = Len(decisions), !.eof = TRUE]
          BY <3>2 DEF FollowPolls
        <4>3. follower' = [on |-> follower.on, read |-> Len(decisions), eof |-> TRUE]
          BY <4>1, <4>2
        <4> QED BY <2>1, <4>1, <4>3
      <3>3. CASE FollowStops
        BY <3>3 DEF FollowStops, NoFollower
      <3> QED BY <1>3, <3>1, <3>2, <3>3
    <2>3. UNCHANGED << ringVars, up, task, decisions, violations, sarif, requests, runs >>
      BY <1>3 DEF FollowOpens, FollowPolls, FollowStops
    <2>4. TypeOK'
      BY <2>2, <2>3 DEF HandlerIInv, TypeOK, ringVars
    <2> QED BY <2>3, <2>4, CalmStep DEF HandlerIInv, ViolationsOK
  <1> QED BY <1>1, <1>2, <1>3

\* Every step keeps the invariant.
LEMMA HandlerStep == HandlerIInv /\ [Next]_vars => HandlerIInv'
  <1> SUFFICES ASSUME HandlerIInv, [Next]_vars PROVE HandlerIInv'
    OBVIOUS
  <1>1. CASE UNCHANGED vars
    <2>1. TypeOK'
      BY <1>1 DEF HandlerIInv, TypeOK, vars, ringVars
    <2> QED BY <1>1, <2>1, CalmStep DEF HandlerIInv, ViolationsOK, vars
  <1>2. ASSUME NEW s \in Slots,
               \/ \E id \in Ids, f \in FindingLists : Inspect(s, id, f)
               \/ Handle(s)
               \/ UpstreamFails(s)
        PROVE  HandlerIInv'
    BY <1>2, InspectStep, RecordRequestStep, WriteFindingsStep, DecideStep,
       OnResponseStep, UpstreamFailsStep, Zenon DEF Handle
  <1>3. CASE Next
    BY <1>2, <1>3, StartStep, ReportOnShutdownStep, OtherSteps, Zenon DEF Next
  <1> QED BY <1>1, <1>3

\* The invariant holds of every behaviour.
LEMMA HandlerInvariant == Spec => []HandlerIInv
  BY HandlerInitial, HandlerStep, PTL DEF Spec

\* Every variable of the handler keeps its type.
THEOREM HandlerTypes == Spec => []TypeOK
  <1>1. HandlerIInv => TypeOK
    BY DEF HandlerIInv
  <1> QED BY <1>1, HandlerInvariant, PTL

(* `proxy explain' and Lookup agree on every action id that the ring holds,
   however often ids repeat and whatever the size of the ring: while the file
   is open its last lines are the ring, and both look from the end. *)
THEOREM ExplainAgrees == Spec => []ExplainAgreesWithLookup
  <1>1. HandlerIInv => ExplainAgreesWithLookup
    <2> SUFFICES ASSUME HandlerIInv, FileOpen, NEW key \in Keys, Lookup(key) # NoEntry
                 PROVE  Explain(key) = Lookup(key)
      BY DEF ExplainAgreesWithLookup
    <2> DEFINE L == Len(decisions)
               ring == {i \in 1 .. count : RecentAt(i).key = key}
               hits == {i \in 1 .. L : decisions[i].key = key}
    <2>1. /\ count \in Nat /\ L \in Nat /\ count <= L
          /\ \A i \in 1 .. count : RecentAt(i) = decisions[L + 1 - i]
      BY DEF HandlerIInv, TypeOK, RingFollowsFile
    <2>2. ring # {} /\ Lookup(key) = RecentAt(Min(ring))
      BY DEF Lookup
    <2>3. \E i \in ring : \A j \in ring : i <= j
      <3>1. ring \in SUBSET Nat
        BY <2>1
      <3> HIDE DEF ring
      <3> QED BY <2>2, <3>1, LeastNat
    <2> DEFINE m == Min(ring)
    <2>4. m \in ring /\ \A j \in ring : m <= j
      <3> HIDE DEF ring
      <3> QED BY <2>3 DEF Min
    <2>5. m \in 1 .. count /\ RecentAt(m).key = key /\ m \in Nat
      BY <2>1, <2>4
    <2>6. \A j \in 1 .. count : RecentAt(j).key = key => m <= j
      BY <2>4
    <2> HIDE DEF ring, m
    <2> DEFINE h == L + 1 - m
    <2>7. h \in hits /\ decisions[h] = RecentAt(m)
      BY <2>1, <2>5
    <2>8. \A j \in hits : j <= h
      <3> SUFFICES ASSUME NEW j \in 1 .. L, decisions[j].key = key, j > h PROVE FALSE
        BY <2>1, <2>5
      <3>1. L + 1 - j \in 1 .. count /\ L + 1 - j < m /\ L + 1 - (L + 1 - j) = j
        BY <2>1, <2>5
      <3> QED BY <2>1, <2>5, <2>6, <3>1
    <2>9. Max(hits) = h
      <3>1. hits \subseteq Int
        BY <2>1
      <3> HIDE DEF hits, h
      <3>2. \A x \in hits : (\A y \in hits : x >= y) => x = h
        BY <2>7, <2>8, <3>1
      <3>3. \A y \in hits : h >= y
        BY <2>7, <2>8, <3>1
      <3> QED BY <2>7, <3>2, <3>3 DEF Max
    <2>10. Explain(key) = decisions[Max(hits)]
      BY <2>7 DEF Explain
    <2> QED BY <2>2, <2>7, <2>9, <2>10 DEF m
  <1> QED BY <1>1, HandlerInvariant, PTL

(* The report on shutdown has every finding of the violation log, or it is
   full: a finding is written only after its decision, both files are then
   open, and the report is made when neither is. *)
THEOREM ReportComplete == Spec => []ReportHasViolations
  <1>1. HandlerIInv => ReportHasViolations
    BY DEF HandlerIInv
  <1> QED BY <1>1, HandlerInvariant, PTL

-----------------------------------------------------------------------------
(* The ring implements the bounded log.                                    *)

\* Recent(Size) is all of the ring.
LEMMA RecentIsRing ==
  ASSUME RingOK
  PROVE  Recent(Size) = [i \in 1 .. count |-> RecentAt(i)]
  <1>1. (IF Size > count THEN count ELSE Size) = count
    BY SizeAssumption DEF RingOK
  <1> QED BY <1>1 DEF Recent

\* Record pushes the entry on the log.
LEMMA RecordPushes ==
  ASSUME RingOK, NEW e, RingRecord(e)
  PROVE  Log!Push(e)
  <1>0. RingOK' /\ count \in Nat /\ count <= Size /\ Size \in Nat /\ Size > 0
    BY RingRecordFacts, SizeAssumption DEF RingOK
  <1> DEFINE log == [i \in 1 .. count |-> RecentAt(i)]
             new == [i \in 1 .. IF Len(log) < Size THEN Len(log) + 1 ELSE Size |->
                       IF i = 1 THEN e ELSE log[i - 1]]
  <1>1. Recent(Size) = log
    BY RecentIsRing
  <1>2. Recent(Size)' = [i \in 1 .. count' |-> RecentAt(i)']
    <2>1. (IF Size > count' THEN count' ELSE Size) = count'
      BY <1>0 DEF RingOK
    <2> QED BY <2>1 DEF Recent
  <1>3. Len(log) = count
    BY <1>0
  <1>4. (IF Len(log) < Size THEN Len(log) + 1 ELSE Size) = count'
    BY <1>0, <1>3, RingRecordFacts
  <1>5. ASSUME NEW i \in 1 .. count'
        PROVE  RecentAt(i)' = IF i = 1 THEN e ELSE log[i - 1]
    <2>1. count' \in 0 .. Size /\ count' <= count + 1
      BY <1>0, RingRecordFacts
    <2>2. CASE i = 1
      BY <2>2, RingRecordFacts
    <2>3. CASE i # 1
      <3>1. i \in 2 .. Size /\ i - 1 \in 1 .. count
        BY <1>0, <2>1, <2>3
      <3> QED BY <2>3, <3>1, RingRecordFacts
    <2> QED BY <2>2, <2>3
  <1>6. Recent(Size)' = new
    BY <1>2, <1>4, <1>5
  <1> QED BY <1>1, <1>6 DEF Log!Push

(* The decisions that the API shows, Recent(Size), are the newest Size ones of
   this process in reverse order: a step of the handler records one decision
   in front, starts a new log, or leaves the log as it is. *)
THEOREM RingImplementsLog == Spec => ImplementsBoundedLog
  <1>1. Init => Log!LogInit
    <2> SUFFICES ASSUME Init PROVE Recent(Size) = << >>
      BY DEF Log!LogInit
    <2>1. RingOK /\ count = 0
      BY SizeAssumption DEF Init, RingInit, RingOK
    <2> QED BY <2>1, RecentIsRing
  <1>2. HandlerIInv /\ [Next]_vars => [Log!LogNext]_(Recent(Size))
    <2> SUFFICES ASSUME HandlerIInv, [Next]_vars
                 PROVE  Log!LogNext \/ Recent(Size)' = Recent(Size)
      OBVIOUS
    <2>0. RingOK
      BY DEF HandlerIInv, TypeOK, RingOK
    <2>1. ASSUME UNCHANGED ringVars PROVE Recent(Size)' = Recent(Size)
      BY <2>1 DEF ringVars, Recent, RecentAt
    <2>2. ASSUME NEW e \in Entry, Record(e) PROVE Log!LogNext
      <3>1. Log!Push(e)
        BY <2>0, <2>2, RecordPushes DEF Record
      <3> QED BY <3>1 DEF Log!LogNext
    <2>3. ASSUME NEW s \in Slots, RecordRequest(s) PROVE Log!LogNext
      <3>1. task[s].entry \in Entry
        BY <2>3, TaskFacts DEF HandlerIInv, RecordRequest, Idle
      <3> QED BY <2>2, <2>3, <3>1 DEF RecordRequest
    <2>4. ASSUME NEW s \in Slots, OnResponse(s) PROVE Log!LogNext
      <3>1. task[s].entry \in Entry
        BY <2>4, TaskFacts DEF HandlerIInv, OnResponse, Idle
      <3>2. task[s].entry.key[1] \in Ids
        BY <3>1 DEF Entry, Keys
      <3>3. [key |-> << task[s].entry.key[1], "response" >>,
             decision |-> "allow", findings |-> << >>] \in Entry
        BY <3>2, HandlerAssumption DEF Entry, Keys, Decisions
      <3> QED BY <2>2, <2>4, <3>3 DEF OnResponse
    <2>5. ASSUME Start PROVE Log!LogNext
      <3>1. (IF Size > count' THEN count' ELSE Size) = 0
        BY <2>5, SizeAssumption DEF Start
      <3>2. Recent(Size)' = << >>
        BY <3>1 DEF Recent
      <3> QED BY <3>2 DEF Log!LogNext, Log!Clear
    <2>6. ASSUME NEW s \in Slots,
                 \/ \E id \in Ids, f \in FindingLists : Inspect(s, id, f)
                 \/ WriteFindings(s) \/ Decide(s) \/ UpstreamFails(s)
          PROVE  UNCHANGED ringVars
      BY <2>6 DEF Inspect, WriteFindings, Decide, UpstreamFails
    <2>7. ASSUME CloseServer \/ StartReturns \/ ReportOnShutdown \/ Exit
                   \/ FollowOpens \/ FollowPolls \/ FollowStops
          PROVE  UNCHANGED ringVars
      BY <2>7 DEF CloseServer, StartReturns, ReportOnShutdown, Exit, FollowOpens,
                  FollowPolls, FollowStops
    <2>8. CASE UNCHANGED vars
      BY <2>1, <2>8 DEF vars
    <2>9. CASE Next
      BY <2>1, <2>3, <2>4, <2>5, <2>6, <2>7, <2>9, Zenon DEF Next, Handle
    <2> QED BY <2>8, <2>9
  <1> QED BY <1>1, <1>2, HandlerInvariant, PTL DEF Spec, ImplementsBoundedLog, Log!LogSpec
=============================================================================
