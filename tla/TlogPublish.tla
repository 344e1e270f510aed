---------------------------- MODULE TlogPublish -----------------------------
(***************************************************************************)
(* Publishing to the transparency log, behind the command: the service's   *)
(* endpoint with its monthly limit (service/.../routers/log.py, usage.py), *)
(* the log's HTTP personality (log/internal/personality, log/cmd), and the *)
(* lookup that verifications use.  Requests run concurrently; each stops   *)
(* at its awaits.  Tessera's Merkle tree is a sequence; it pushes back     *)
(* when too many entries are not integrated.  One user on the free tier    *)
(* and one publisher, who has no limit.                                    *)
(***************************************************************************)
EXTENDS Naturals, Sequences, FiniteSets, FiniteSetsExt

CONSTANTS
  Requests,      \* POST /log/publish
  ArtifactIds,
  FreeLimit,     \* FREE_TIER_PUBLISH_LIMIT
  PushbackMax    \* pushbackMax

ASSUME PublishAssumption == FreeLimit \in Nat /\ PushbackMax \in Nat

VARIABLES
  merkle,        \* artifact ids in the Merkle log, in the order of their index
  integrated,    \* how many of them are integrated
  records,       \* log_entries of the database: index and artifact id
  usage,         \* count of this month's usage_records row, 0 without one
  reqPc,         \* where a request is, at last its status
  reqBy,         \* who sent it
  reqId,         \* the artifact id
  reqIndex,      \* the index the log gave
  reqCount,      \* the count increment_usage has read
  counted,       \* ghost: the requests whose count is committed
  apart          \* ghost: no two requests of the user overlapped

publishVars == << merkle, integrated, records, usage, reqPc, reqBy, reqId,
                  reqIndex, reqCount, counted, apart >>

Finished == {"200", "429", "500", "502", "503"}

PublishTypeOK ==
  /\ merkle \in Seq(ArtifactIds)
  /\ integrated \in 0 .. Len(merkle)
  /\ Len(merkle) - integrated <= PushbackMax
  /\ records \subseteq (1 .. Len(merkle)) \X ArtifactIds
  /\ usage \in Nat
  /\ reqPc \in [Requests -> {"new", "add", "record", "read", "write", "answer"}
                       \cup Finished]
  /\ reqBy \in [Requests -> {"user", "publisher"}]
  /\ reqId \in [Requests -> ArtifactIds]
  /\ reqIndex \in [Requests -> 0 .. Len(merkle)]
  /\ reqCount \in [Requests -> Nat]
  /\ counted \subseteq Requests
  /\ apart \in BOOLEAN

PublishInit ==
  /\ merkle = << >>
  /\ integrated = 0
  /\ records = {}
  /\ usage = 0
  /\ reqPc = [r \in Requests |-> "new"]
  /\ reqBy \in [Requests -> {"user", "publisher"}]
  /\ reqId \in [Requests -> ArtifactIds]
  /\ reqIndex = [r \in Requests |-> 0]
  /\ reqCount = [r \in Requests |-> 0]
  /\ counted = {}
  /\ apart = TRUE

Active(r) == reqPc[r] \notin Finished \cup {"new"}

\* A limit of one too many.
LimitPlusOne(r) == reqBy[r] = "user" /\ usage > FreeLimit

\* The limit check_tlog_limit applies to a user without a subscription.
OverLimit(r) == reqBy[r] = "user" /\ usage >= FreeLimit

\* check_tlog_limit.
CheckLimit(r) ==
  /\ reqPc[r] = "new"
  /\ reqPc' = [reqPc EXCEPT ![r] = IF OverLimit(r) THEN "429" ELSE "add"]
  /\ apart' = (apart /\ ~ \E q \in Requests : Active(q) /\ reqBy[q] = "user"
                                              /\ reqBy[r] = "user")
  /\ UNCHANGED << merkle, integrated, records, usage, reqBy, reqId, reqIndex,
                  reqCount, counted >>

\* HandleAdd refuses: a body or an entry it finds invalid, a missing key, or
\* an error of the storage.
AddRefused(r) ==
  /\ reqPc[r] = "add"
  /\ reqPc' = [reqPc EXCEPT ![r] = "502"]
  /\ UNCHANGED << merkle, integrated, records, usage, reqBy, reqId, reqIndex,
                  reqCount, counted, apart >>

\* ErrPushback.
AddPushedBack(r) ==
  /\ reqPc[r] = "add"
  /\ Len(merkle) - integrated >= PushbackMax
  /\ reqPc' = [reqPc EXCEPT ![r] = "503"]
  /\ UNCHANGED << merkle, integrated, records, usage, reqBy, reqId, reqIndex,
                  reqCount, counted, apart >>

\* HandleAdd appends; the service reads the index, or its 30 seconds are over.
AddEntry(r, answered) ==
  /\ reqPc[r] = "add"
  /\ Len(merkle) - integrated < PushbackMax
  /\ merkle' = Append(merkle, reqId[r])
  /\ reqIndex' = [reqIndex EXCEPT ![r] = Len(merkle) + 1]
  /\ reqPc' = [reqPc EXCEPT ![r] = IF answered THEN "record" ELSE "502"]
  /\ UNCHANGED << integrated, records, usage, reqBy, reqId, reqCount, counted,
                  apart >>

\* The record is committed, or not, and then the entry has none.
SaveRecord(r, ok) ==
  /\ reqPc[r] = "record"
  /\ records' = IF ok THEN records \cup {<< reqIndex[r], reqId[r] >>} ELSE records
  /\ reqPc' = [reqPc EXCEPT ![r] =
       IF ~ok THEN "500" ELSE IF reqBy[r] = "user" THEN "read" ELSE "200"]
  /\ UNCHANGED << merkle, integrated, usage, reqBy, reqId, reqIndex, reqCount,
                  counted, apart >>

\* increment_usage: the SELECT ...
ReadUsage(r) ==
  /\ reqPc[r] = "read"
  /\ reqCount' = [reqCount EXCEPT ![r] = usage]
  /\ reqPc' = [reqPc EXCEPT ![r] = "write"]
  /\ UNCHANGED << merkle, integrated, records, usage, reqBy, reqId, reqIndex,
                  counted, apart >>

\* ... and the row, set to what was read and one more, committed.  A second
\* first row of the month violates its constraint.
WriteUsage(r) ==
  /\ reqPc[r] = "write"
  /\ IF reqCount[r] = 0 /\ usage > 0
     THEN /\ reqPc' = [reqPc EXCEPT ![r] = "500"]
          /\ UNCHANGED << usage, counted >>
     ELSE /\ usage' = reqCount[r] + 1
          /\ counted' = counted \cup {r}
          /\ reqPc' = [reqPc EXCEPT ![r] = "answer"]
  /\ UNCHANGED << merkle, integrated, records, reqBy, reqId, reqIndex, reqCount,
                  apart >>

\* The database fails while the usage is read or written, and nothing of it is
\* committed; the handler has no except around it.
UsageFails(r) ==
  /\ reqPc[r] \in {"read", "write"}
  /\ reqPc' = [reqPc EXCEPT ![r] = "500"]
  /\ UNCHANGED << merkle, integrated, records, usage, reqBy, reqId, reqIndex,
                  reqCount, counted, apart >>

\* The subscription is selected after the commit: that fails, or the request
\* is answered.  Errors of the meter event are caught.
AnswerPublish(r, ok) ==
  /\ reqPc[r] = "answer"
  /\ reqPc' = [reqPc EXCEPT ![r] = IF ok THEN "200" ELSE "500"]
  /\ UNCHANGED << merkle, integrated, records, usage, reqBy, reqId, reqIndex,
                  reqCount, counted, apart >>

\* Tessera integrates a batch.
Integrate ==
  /\ integrated < Len(merkle)
  /\ integrated' = Len(merkle)
  /\ UNCHANGED << merkle, records, usage, reqPc, reqBy, reqId, reqIndex,
                  reqCount, counted, apart >>

PublishNext ==
  \/ \E r \in Requests :
       \/ CheckLimit(r)
       \/ AddRefused(r)
       \/ AddPushedBack(r)
       \/ \E answered \in BOOLEAN : AddEntry(r, answered)
       \/ \E ok \in BOOLEAN : SaveRecord(r, ok)
       \/ ReadUsage(r)
       \/ WriteUsage(r)
       \/ UsageFails(r)
       \/ \E ok \in BOOLEAN : AnswerPublish(r, ok)
  \/ Integrate

PublishSpec == PublishInit /\ [][PublishNext]_publishVars

-----------------------------------------------------------------------------
\* lookup_entry: the record with the largest index, 0 for 404.
Lookup(id) ==
  LET found == {e[1] : e \in {x \in records : x[2] = id}}
  IN  IF found = {} THEN 0 ELSE Max(found)

(* A publish that was answered with success is accounted for everywhere: the
   log has the artifact at the index and a lookup finds that entry or a newer
   one, in whatever order concurrent publishes store their records, and a user's
   one was counted.  The same holds of a publish that was counted and then
   answered 500, because the query after the commit failed (log.py:130); so what
   the count counts is in the log, but not always answered with success, against
   "failed publishes not counted" (log.py:119).  The
   month's count is never above the number of publishes that were counted, lost
   updates included, and as long as no two publishes of a user overlap it is that
   number, whatever failed in between, and keeps to the free limit. *)
PublishedIsAccounted ==
  /\ \A id \in ArtifactIds : Lookup(id) # 0 => merkle[Lookup(id)] = id
  /\ \A r \in Requests : reqPc[r] = "200" \/ r \in counted =>
       merkle[reqIndex[r]] = reqId[r] /\ Lookup(reqId[r]) >= reqIndex[r]
  /\ \A r \in Requests : reqPc[r] = "200" /\ reqBy[r] = "user" => r \in counted
  /\ usage <= Cardinality(counted)
  /\ apart => usage = Cardinality(counted) /\ usage <= FreeLimit
=============================================================================
