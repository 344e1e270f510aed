----------------------------- MODULE ThreatSync -----------------------------
(***************************************************************************)
(* The threat library: the service's tables, the endpoints that serve them *)
(* with an ETag, and the command line tools that copy them to              *)
(* ~/.skillledger/cache.                                                   *)
(*                                                                         *)
(* Every command starts a syncer goroutine and goes on with its own work;  *)
(* the end of the command ends the goroutine wherever it is.  `audit'      *)
(* waits two seconds for it and then reads the cache, whether the syncer   *)
(* is done or not.  Commands share the cache directory and take no lock.   *)
(*                                                                         *)
(* A body is the version of each table it was built from.  Its ETag is the *)
(* digest of its bytes, so the body stands for its own ETag; the bytes     *)
(* carry the newest updated_at of the tables, so versions never repeat.    *)
(* (It is read by a query of its own, the last one.  An ingestion between  *)
(* it and the query before makes a body like no other, where the model has *)
(* the body of the rows; the next fetch is answered with 200 either way.)  *)
(* Time is the number of releases of the command line tool made so far:    *)
(* all that LoadWithCache tells apart is whether the metadata was written  *)
(* before or after a build.                                                *)
(***************************************************************************)
EXTENDS Naturals

CONSTANTS
  Clis,         \* processes of the command line tool
  Oversized,    \* the bodies longer than maxResponseBytes
  MaxVersion,   \* bound on the ingestions that reach a table
  MaxReleases,  \* bound on the releases of the tool
  NoBody,       \* no file, no ETag
  Corrupt       \* a file cut off at maxResponseBytes: not JSON

Tables == {"hashes", "domains", "rules"}
Kinds == {"ioc", "yara"}
TablesOf(k) == IF k = "ioc" THEN {"hashes", "domains"} ELSE {"rules"}
Versions == 0..MaxVersion
Bodies(k) == [TablesOf(k) -> Versions]
Epochs == 0..MaxReleases

ASSUME BoundsAssumption == MaxVersion \in Nat /\ MaxReleases \in Nat

ASSUME NoBodyAssumption ==
  /\ NoBody # Corrupt
  /\ \A k \in Kinds : NoBody \notin Bodies(k) /\ Corrupt \notin Bodies(k)

\* Metadata: the ETag of each file, and when it was written.
AllBodies == UNION {Bodies(k) : k \in Kinds}
ETags == {e \in [Kinds -> AllBodies \cup {NoBody}] :
            \A k \in Kinds : e[k] \in Bodies(k) \cup {NoBody}}
Metadata == [etags : ETags, fetchedAt : Epochs]

VARIABLES
  lib,         \* the service's tables
  cache,       \* ioc.json and yara.json
  metadata,    \* metadata.json
  released,    \* releases of the tool so far
  installed,   \* the release that is installed
  cmdPc,       \* the command: "down", "wait", "ioc", "remove", "running"
  build,       \* the release a process was started from
  syncPc,      \* the syncer: "idle", "auth", "fetch", "domains", "write",
               \* "meta"
  kind,        \* what it is fetching
  meta,        \* the ETags it has
  hashesRead,  \* the hashes get_ioc has read for it
  answer,      \* the body it was sent
  overlapped   \* whether two syncers ever ran at once (history)

cmdVars == << cmdPc, build >>
syncVars == << syncPc, kind, meta, hashesRead, answer >>
toolVars == << released, installed >>
threatVars == << lib, cache, metadata, toolVars, cmdVars, syncVars,
                 overlapped >>

NoETags == [k \in Kinds |-> NoBody]

ThreatTypeOK ==
  /\ lib \in [Tables -> Versions]
  /\ cache \in [Kinds -> AllBodies \cup {NoBody, Corrupt}]
  /\ \A k \in Kinds : cache[k] \in Bodies(k) \cup {NoBody, Corrupt}
  /\ metadata \in Metadata \cup {NoBody}
  /\ released \in Epochs /\ installed \in 0..released
  /\ cmdPc \in [Clis -> {"down", "wait", "ioc", "remove", "running"}]
  /\ build \in [Clis -> Epochs]
  /\ syncPc \in [Clis -> {"idle", "auth", "fetch", "domains", "write", "meta"}]
  /\ kind \in [Clis -> Kinds]
  /\ meta \in [Clis -> ETags]
  /\ hashesRead \in [Clis -> Versions]
  /\ answer \in [Clis -> AllBodies \cup {NoBody}]
  /\ overlapped \in BOOLEAN

ThreatInit ==
  /\ lib = [t \in Tables |-> 0]
  /\ cache = [k \in Kinds |-> NoBody]
  /\ metadata = NoBody
  /\ released = 0 /\ installed = 0
  /\ cmdPc = [p \in Clis |-> "down"]
  /\ build = [p \in Clis |-> 0]
  /\ syncPc = [p \in Clis |-> "idle"]
  /\ kind = [p \in Clis |-> "ioc"]
  /\ meta = [p \in Clis |-> NoETags]
  /\ hashesRead = [p \in Clis |-> 0]
  /\ answer = [p \in Clis |-> NoBody]
  /\ overlapped = FALSE

-----------------------------------------------------------------------------
(* The service and the releases of the tool. *)

\* ingest_threat_data upserts into any of the tables and commits once.
Ingest(S) ==
  /\ S # {}
  /\ \A t \in S : lib[t] < MaxVersion
  /\ lib' = [t \in Tables |-> IF t \in S THEN lib[t] + 1 ELSE lib[t]]
  /\ UNCHANGED << cache, metadata, toolVars, cmdVars, syncVars,
                  overlapped >>

ReleaseTool ==
  /\ released < MaxReleases
  /\ released' = released + 1
  /\ UNCHANGED << lib, cache, metadata, installed, cmdVars, syncVars, overlapped >>

Install ==
  /\ installed < released
  /\ installed' = released
  /\ UNCHANGED << lib, cache, metadata, released, cmdVars, syncVars,
                  overlapped >>

-----------------------------------------------------------------------------
(* A command starts and ends. *)

\* PersistentPreRun: StartAsync.
StartAsync(p) ==
  /\ cmdPc[p] = "down"
  /\ cmdPc' = [cmdPc EXCEPT ![p] = "wait"]
  /\ build' = [build EXCEPT ![p] = installed]
  /\ syncPc' = [syncPc EXCEPT ![p] = "auth"]
  /\ overlapped' = (overlapped \/ \E q \in Clis : syncPc[q] # "idle")
  /\ UNCHANGED << lib, cache, metadata, toolVars, kind, meta, hashesRead,
                  answer >>

\* The goroutine is gone, and what it held.
StopSync(p) ==
  /\ syncPc' = [syncPc EXCEPT ![p] = "idle"]
  /\ kind' = [kind EXCEPT ![p] = "ioc"]
  /\ meta' = [meta EXCEPT ![p] = NoETags]
  /\ hashesRead' = [hashesRead EXCEPT ![p] = 0]
  /\ answer' = [answer EXCEPT ![p] = NoBody]

\* The command returns, or is killed; nothing waits for the syncer.
Exit(p) ==
  /\ cmdPc[p] # "down"
  /\ cmdPc' = [cmdPc EXCEPT ![p] = "down"]
  /\ build' = [build EXCEPT ![p] = 0]
  /\ StopSync(p)
  /\ UNCHANGED << lib, cache, metadata, toolVars, overlapped >>

-----------------------------------------------------------------------------
(* doSync. *)

\* No usable credentials, or no cache directory.
GiveUp(p) ==
  /\ syncPc[p] = "auth"
  /\ StopSync(p)
  /\ UNCHANGED << lib, cache, metadata, toolVars, cmdVars,
                  overlapped >>

LoadMetadata(p) ==
  /\ syncPc[p] = "auth"
  /\ meta' = [meta EXCEPT ![p] = IF metadata = NoBody THEN NoETags
                                 ELSE metadata.etags]
  /\ syncPc' = [syncPc EXCEPT ![p] = "fetch"]
  /\ kind' = [kind EXCEPT ![p] = "ioc"]
  /\ UNCHANGED << lib, cache, metadata, toolVars, cmdVars, hashesRead, answer, overlapped >>

\* YARA comes after the IOCs, whatever became of them; metadata comes last.
GoOn(p) ==
  /\ syncPc' = [syncPc EXCEPT ![p] = IF kind[p] = "ioc" THEN "fetch"
                                     ELSE "meta"]
  /\ kind' = [kind EXCEPT ![p] = "yara"]
  /\ hashesRead' = [hashesRead EXCEPT ![p] = 0]
  /\ answer' = [answer EXCEPT ![p] = NoBody]

\* get_ioc: the query for the hashes.  The query for the domains is a second
\* statement, which sees what was committed in between.
ReadHashes(p) ==
  /\ syncPc[p] = "fetch" /\ kind[p] = "ioc"
  /\ hashesRead' = [hashesRead EXCEPT ![p] = lib["hashes"]]
  /\ syncPc' = [syncPc EXCEPT ![p] = "domains"]
  /\ UNCHANGED << lib, cache, metadata, toolVars, cmdVars, kind, meta, answer, overlapped >>

\* The last query of get_ioc or get_yara is about to run.
LastQuery(p) == syncPc[p] = (IF kind[p] = "ioc" THEN "domains" ELSE "fetch")

\* The body the endpoint builds once it has run.
BodyFor(p) ==
  [t \in TablesOf(kind[p]) |-> IF t = "hashes" THEN hashesRead[p] ELSE lib[t]]

\* _check_etag holds: 304.
NotModified(p) ==
  /\ LastQuery(p)
  /\ BodyFor(p) = meta[p][kind[p]]
  /\ GoOn(p)
  /\ UNCHANGED << lib, cache, metadata, toolVars, cmdVars, meta, overlapped >>

\* A 200 whose body may come from a response cache filled before any ingestion,
\* as the endpoint's max-age would allow.
AnswerFromCache(p) ==
  /\ LastQuery(p)
  /\ BodyFor(p) # meta[p][kind[p]]
  /\ \E b \in {BodyFor(p), [t \in TablesOf(kind[p]) |-> 0]} :
       answer' = [answer EXCEPT ![p] = b]
  /\ syncPc' = [syncPc EXCEPT ![p] = "write"]
  /\ UNCHANGED << lib, cache, metadata, toolVars, cmdVars, kind, meta,
                  hashesRead, overlapped >>

\* 200, with the body and its ETag.
Modified(p) ==
  /\ LastQuery(p)
  /\ BodyFor(p) # meta[p][kind[p]]
  /\ answer' = [answer EXCEPT ![p] = BodyFor(p)]
  /\ syncPc' = [syncPc EXCEPT ![p] = "write"]
  /\ UNCHANGED << lib, cache, metadata, toolVars, cmdVars, kind, meta,
                  hashesRead, overlapped >>

\* The request times out or fails, or the status is another one.
FetchFails(p) ==
  /\ syncPc[p] \in {"fetch", "domains"}
  /\ GoOn(p)
  /\ UNCHANGED << lib, cache, metadata, toolVars, cmdVars, meta, overlapped >>

\* io.LimitReader cuts the body without an error.
Truncated(b) == IF b \in Oversized THEN Corrupt ELSE b

\* atomicWriteFile renames the file into place, then the ETag is noted.
WriteCache(p) ==
  /\ syncPc[p] = "write"
  /\ cache' = [cache EXCEPT ![kind[p]] = Truncated(answer[p])]
  /\ meta' = [meta EXCEPT ![p][kind[p]] = answer[p]]
  /\ GoOn(p)
  /\ UNCHANGED << lib, metadata, toolVars, cmdVars, overlapped >>

\* A syncer that notes the ETag before it writes the file.
FailedWriteKeepsETag(p) ==
  /\ syncPc[p] = "write"
  /\ meta' = [meta EXCEPT ![p][kind[p]] = answer[p]]
  /\ GoOn(p)
  /\ UNCHANGED << lib, cache, metadata, toolVars, cmdVars,
                  overlapped >>

\* atomicWriteFile fails: the temporary file is removed, the ETag stays.
WriteCacheFails(p) ==
  /\ syncPc[p] = "write"
  /\ GoOn(p)
  /\ UNCHANGED << lib, cache, metadata, toolVars, cmdVars, meta, overlapped >>

\* The metadata are written whether anything was fetched or not.
WriteMetadata(p) ==
  /\ syncPc[p] = "meta"
  /\ metadata' = [etags |-> meta[p], fetchedAt |-> released]
  /\ StopSync(p)
  /\ UNCHANGED << lib, cache, toolVars, cmdVars, overlapped >>

WriteMetadataFails(p) ==
  /\ syncPc[p] = "meta"
  /\ StopSync(p)
  /\ UNCHANGED << lib, cache, metadata, toolVars, cmdVars,
                  overlapped >>

-----------------------------------------------------------------------------
(* LoadWithCache, once WaitForSync has returned: when the syncer is done or
   after two seconds, so at any time. *)

\* The cache counts if its metadata are younger than the build.
PrefersCache(p) == metadata # NoBody /\ metadata.fetchedAt >= build[p]

CheckMetadata(p) ==
  /\ cmdPc[p] = "wait"
  /\ cmdPc' = [cmdPc EXCEPT ![p] = IF PrefersCache(p) THEN "ioc" ELSE "running"]
  /\ UNCHANGED << lib, cache, metadata, toolVars, build, syncVars,
                  overlapped >>

\* ioc.json is read: the cached library, or the bundled one if it is missing.
ReadCache(p) ==
  /\ cmdPc[p] = "ioc"
  /\ cmdPc' = [cmdPc EXCEPT ![p] = IF cache["ioc"] = Corrupt THEN "remove"
                                   ELSE "running"]
  /\ UNCHANGED << lib, cache, metadata, toolVars, build, syncVars,
                  overlapped >>

\* A file that did not parse is deleted, by its name.
RemoveCorrupt(p) ==
  /\ cmdPc[p] = "remove"
  /\ cmdPc' = [cmdPc EXCEPT ![p] = "running"]
  /\ cache' = [cache EXCEPT !["ioc"] = NoBody]
  /\ UNCHANGED << lib, metadata, toolVars, build, syncVars,
                  overlapped >>

-----------------------------------------------------------------------------
ThreatNext ==
  \/ \E S \in SUBSET Tables : Ingest(S)
  \/ ReleaseTool
  \/ Install
  \/ \E p \in Clis :
       \/ StartAsync(p) \/ Exit(p)
       \/ GiveUp(p) \/ LoadMetadata(p)
       \/ ReadHashes(p) \/ NotModified(p) \/ Modified(p) \/ FetchFails(p)
       \/ WriteCache(p) \/ WriteCacheFails(p)
       \/ WriteMetadata(p) \/ WriteMetadataFails(p)
       \/ CheckMetadata(p) \/ ReadCache(p) \/ RemoveCorrupt(p)

ThreatSpec == ThreatInit /\ [][ThreatNext]_threatVars

-----------------------------------------------------------------------------
\* b is built from tables no newer than those of c.
NotNewer(b, c) == \A t \in DOMAIN b : b[t] <= c[t]

\* The file of kind k holds a body.
Usable(k) == cache[k] \in Bodies(k)

(* As long as syncs do not overlap, a 304 means that the cache holds what the
   service holds: whatever was killed, failed to be written or was ingested
   between the queries before, the file has the body the ETag was computed
   from (doSync notes the ETag after the file is in place and saves it last).
   A file that is missing or corrupt is the exception. *)
NotModifiedMeansCached ==
  \A p \in Clis :
    /\ ~overlapped
    /\ LastQuery(p) /\ BodyFor(p) = meta[p][kind[p]]
    /\ Usable(kind[p])
    => cache[kind[p]] = BodyFor(p)

(* As long as syncs do not overlap, a file of the cache is never replaced by
   one built from older tables. *)
CacheNeverGoesBack ==
  [][\A k \in Kinds :
       ~overlapped /\ Usable(k) /\ Usable(k)' => NotNewer(cache[k], cache'[k])
    ]_threatVars
=============================================================================
