# SkillLedger: TLA+ models, checks and proofs

SkillLedger is a supply-chain tool for AI agent skills: a Go command line tool
(`cli/`), a transparency log (`log/`), a Python service with a database
(`service/`) and a dashboard. This directory models the parts of it whose
correctness depends on the order in which things happen: goroutines of the
runtime proxy, commands that share files in the user's home directory, and
requests that reach the service at the same time.

Every module says in its header which files it models; `PROJECT.json` maps each
definition to the lines it translates. Paths below are relative to the
repository.

## 1. Inventory

### 1.1 Runtime proxy (`cli/internal/proxy`)

| Part | State | Operations | What is hard |
|---|---|---|---|
| MCP stdio wrapper, `mcp_stdio.go`, `pinning.go` | request tracker, pins in memory, session baseline, `sessionPinned`; the pin file, shared by all wrapper processes of a user | relay a request, relay a response, inspect `tools/list` and `tools/call`, pin, save | two goroutines per process, several processes on one file without a lock, a process that ends in the middle of a save |
| Streamable HTTP proxy, `mcp_streamable.go` | the same, shared by all connections of the process | connect, the two relays, inspect, pin, close | connections share ids, baseline and flag; locks cover single calls |
| Process, `server.go`, `ca.go`, `proxy start`, `stop`, `trust` | PID, port, CA and pin files | start, two checks, load or make a CA, listen, stop by signal, clean up | crashes, reused process ids, a clean-up that overlaps the next start |
| Request handler and logs, `handler.go`, `scanner.go`, `decision.go`, `violation.go`, `proxy logs`, `explain`, `report` | ring buffer, `decisions.jsonl`, `violations.jsonl`, SARIF report | inspect, record, decide, forward, close, report, follow | wrap-around; files closed while requests run |
| Runtime policy, `server.go`, `policy_config.go`, `capability.go`, `handler.go` | the handler's `PolicyConfig` (atomic pointer), the evaluator's compiled preset, the config it was built with, `policy.yaml` | start, edit, debounce, reload, judge a request | policy lives in two places that are updated at different times |
| Trust verifier, `trust_verifier.go`, `internal/verify` | tier cache under a read/write lock, one goroutine per verification, files of the skill, the log | `GetTier`, `startVerification`, the four steps of the pipeline, `writeResult`, `Close` | check, unlock, lock; files replaced while they are verified; a lookup without a timeout |
| Entropy tracker, profiler, model files | windows per destination, profiles per skill, downloaded files with pinned checksums | `Scan`, `Observe`, eviction, export, `model download`, load | caps and eviction; export while requests run; several downloads at once |

The handler asks the trust verifier for a tier, maps it to a preset with the
current `PolicyConfig`, and gives it to the evaluator: `PolicyReload` takes the
tier as an input, `TrustVerifier` produces it, and `RequestHandler` takes the
verdict as an input.

### 1.2 Commands and their background goroutines (`cli/internal/cmd`, `credentials`, `threatsync`, `orgsync`, `eventreport`, `updatecheck`, `builder`, `signer`, `tlog`)

Every command starts a threat sync and an update check, and for a member of an
organization an org policy sync and an event reporter. Three of them call
`credentials.EnsureFresh`, which may rotate the refresh token at the service and
save the credentials file; no command waits for a sync to end, and only a
command without an error waits, for two seconds, for the reporter. State: the
credentials file, the caches with their ETag metadata, the version cache.
`build`, `sign` and `publish` share the source tree, `dist/` and
`skill-lock.json`; `install-mcp` and `uninstall-mcp` share the MCP client's
configuration and its backup. What is hard: any number of commands at once, and
the end of a process at any point.

### 1.3 Service (`service/src/skillledger_service`) and log (`log/`)

Requests run concurrently, each in a database transaction. One-time codes and
refresh tokens (`auth_router.py`), log publishing with a monthly limit
(`log.py`, `usage.py`, and the log's `personality.go`), organizations with
members, owners and seats (`ee/routers/orgs.py`, `saml.py`,
`ee/seat_billing.py`), Stripe webhooks (`webhooks.py`). What is hard:
read-then-write without a row lock, calls to Stripe or to the log between two
commits, events delivered late, twice or out of order.

### 1.4 The rest

Canonicalisation, archives, schemas, SBOM, install-time policy, audit output:
sequential conversions that keep no state. The log's Merkle tree is Tessera's.
The dashboard, npm launcher, hooks and deployment carry no logic of this kind.

### 1.5 What makes each part correct

| Part | Correct if |
|---|---|
| MCP wrappers | every change of a pinned or already shown tool is recorded before the agent sees it; no list escapes inspection; pins are definitions their own server listed; every response is forwarded; relays end with their connection |
| Proxy process | a proxy that serves can be found and stopped; a CA that was trusted stays; pins that were saved are not replaced by older ones |
| Handler and logs | ring, file, violation log and report agree, across wrap-around, shutdown and restart |
| Runtime policy | handler and evaluator agree once reloads are done, and on what the file says; a tier whose preset cannot be loaded is refused |
| Trust verifier | one verification per skill; "verified" speaks of one version of the files; a tier is final; `Close` ends what has its context |
| Tracker, profiler, model | a slow drip is reported exactly by the last samples; drafts are of this session; the loaded model is the pinned one |
| MCP configuration | the command of a server that is rewritten is in the configuration or in the backup |
| Release | lockfile, artifact, signature and log entry belong together |
| Login session, one-time codes | the refresh token on file is the newest that was saved; a code is used once, and sends are limited |
| Threat library, organization policy, version cache | what a 304 confirms is in the cache; caches do not go back; what was fetched is what is applied; a notice is recent |
| Event report | every event arrives once |
| Log publishing | a successful publish is in the log, found by a lookup, and counted; what is counted is in the log |
| Members, owners, seats | one owner; what is billed is what is stored, or it is flagged, or a failed request left it at Stripe; one subscription |

## 2. Modules

| Module | Models | Used by |
|---|---|---|
| `ToolPinStore` | the pin store's operations on a map of pins, as operators: `PinAll`, `checkBetweenSession`, `checkMidSession`, severities | `MCPWrapper`, `StreamableProxy` |
| `MCPWrapper` | wrapper processes of several servers over one pin file | `MCMCPWrapper`, `MCPWrapperProofs` |
| `StreamableProxy` | connections of one proxy process that share tracker, pins and baseline | `MCStreamableProxy`, `StreamableProxyProofs` |
| `ProxyDaemon` | proxy processes, their files, stop and trust | `MCProxyDaemon`, `ProxyDaemonProofs` |
| `BoundedLog` | abstract specification: the newest `Size` decisions, newest first | `RequestHandler` |
| `DecisionRing` | the ring buffer's operations | `RequestHandler` |
| `RequestHandler` | requests, logs, shutdown, report, the commands that read the log | `MCRequestHandler`, `RequestHandlerProofs` |
| `PolicyReload` | layered policy, watcher, reload, requests | `MCPolicyReload`, `PolicyReloadProofs` |
| `TrustTiers` | abstract specification: each skill goes from unknown to pending to one tier, once; a request is never told more | `TrustVerifier` |
| `TrustVerifier` | the tier cache, the verification goroutines, files and log that change under them | `MCTrustVerifier`, `TrustVerifierProofs` |
| `SessionRefresh` | credentials file, refresh tokens, concurrent refreshes, logins, logouts | `MCSessionRefresh`, `MCComponents`, `ServiceProofs` |
| `ThreatSync` | the service's threat library, its endpoints with ETags, the commands that copy it to the cache and read it there | `MCComponents`, `CommandProofs` |
| `EntropyTracker` | the slow-drip detector of the request scanners | `MCComponents`, `CommandProofs` |
| `Profiler`, `ModelManager` | the other scanners that keep state | `MCComponents`, `CommandProofs` |
| `McpInstall`, `Release`, `OrgPolicySync`, `EventReport`, `UpdateCheck` | commands and what they share | `MCComponents`, `CommandProofs` |
| `OneTimeCodes` | abstract specification: a code takes so many wrong guesses, logs in once, and then takes none | `OtpLogin` |
| `TlogPublish`, `OtpLogin`, `OrgMembership`, `SeatBilling` | requests of the service | `MCComponents`, `ServiceProofs` |

`MCComponents` puts fourteen components, those that name it in the last column, into one run.
They share no state: the variable `part` is chosen at the start and says which of them
moves. (`OneTimeCodes` comes with `OtpLogin`.)

A definition that stands directly before the one it resembles and is described
as "a swap that ...", "a save that ...", "a SELECT without ..." is a variant
with a plausible mistake; it is used by no specification and only shows that the
properties notice it.

### 2.1 MCPWrapper

A wrapper slot runs sessions one after the other (`Start`, `End`). In a session
the request goroutine is at `reqPc` and the response goroutine at `pc`; each
call that another goroutine or process could come between is a step:
`TrackRequest` before `ForwardRequest`; one action per branch of `handleResponse`;
`Load`, check and `PinAll` of the first list in one step because they touch
memory only after the read of the file; `SaveTruncates` and `SaveWrites` apart,
because `afero.WriteFile` opens with truncation. `Save` may fail before it touches
the file (`SaveFails`) or after the truncation (`SaveTears`). `RelayEnds` is the
return of the response relay: the child closed its stdout or wrote a line above 1 MB,
or the write to the agent failed; the process then lives on without it. `End` may come
anywhere, as `Run` returns when the child exits. A tool's definition is a description and a
schema; the hash of a definition is the definition. `shown`, `served` and
`trusted` are history for the properties.

Assumed: the agent uses each id once per session and the server answers only
what it was sent (MCP requires both); no two tools of a list have the same name;
a server id does not contain `::`. A line that is not JSON-RPC is forwarded unread
and changes no state, so the model has no step for it.

### 2.2 StreamableProxy

A connection is upgraded and dialled (`Connect`, `Refuse`), has a relay for each
direction, and ends when one of them does (`ServeReturns` closes both sockets).
Unlike the wrapper's, the steps of `handleFirstToolsList` are apart: `LoadPins`,
`CheckPins`, `AskHasPins`, `PinOne` for each tool, `SavePins`,
`SetSessionBaseline`; and `CheckMidSession` and `Rebase` of the later lists: other
connections come between any two. `firsts` and `recorded` are history: the
definitions of lists taken for a first one, and those recorded as blocked.
Clients keep to one id per request; whether two clients use the same ids is a
constant, and the run `streamable_ids` has them do so.

### 2.3 ProxyDaemon

A process is its id; an id is used again by later proxies and by other programs.
`proxy start` checks the PID file twice, reads certificate and key, makes them if
they do not fit, listens, and writes PID and port file. A signal, or a crash,
may come at any step; the clean-up saves the pins that were loaded at the start
and those added since, and removes the two files. Every `Save` of the pins is two
steps, the truncation and the write (`SavePins` and `WritePins` in the clean-up,
`StreamPins` and `StreamWrites` on a connection): a crash may come in between, and a
proxy that loads a torn file takes it for no pins. `astray` is history: a proxy was
killed inside a save, or saved after its PID file was gone. `proxy stop` reads the
file and signals, or removes a stale one. `OneCommand` says that start-ups and
stop commands do not overlap; without it two starts can take each other's CA,
pins or PID file, as nothing locks them. A stop command may come as soon as the PID
file names the proxy that starts, so that SIGTERM meets the last step of a start-up, all
of the service and all of the clean-up; before that no stop command can find it. The branch of `Start` for a listener
that fails by itself ends like a shutdown and is not told apart.

### 2.4 RequestHandler, DecisionRing, BoundedLog

A request takes its steps in a goroutine: `Inspect` (the findings and verdicts
are a choice, the strictest decision wins), `RecordRequest` in ring and file
under the log's lock, `WriteFindings`, `Decide`, and `OnResponse` or
`UpstreamFails`. Shutting down closes the server, the violation file and the
decision file in that order and does not wait for hijacked connections; the
report is written after that. `Explain` and the follower read the file. The ring
refines `BoundedLog` by `log <- Recent(Size)`.

### 2.5 PolicyReload

`Overlay` stands for project config, organization policy and flags; a config is
reduced to preset, action for capability violations, and preset for unverified
skills. The timer's goroutine takes four steps: read the file, read the old
config, swap, recompile. An edit is one step: the debounce is taken to be longer
than a write. The file that `runProxyStart` reads and the one that is there when the
watcher starts are chosen independently: an edit in between is missed by the code, and
the properties speak of the edits that the watcher can see. A request takes its config and is judged later. A preset's Rego is
the choice of the presets that deny.

### 2.6 TrustVerifier and TrustTiers

A skill's files and its log entry are digests; a build or an installation may
replace any of them at any time (`ReplaceFile`), also with nothing. `GetTier` and
`StartVerification` are two steps, for the two locks. The pipeline looks at one
file per step. Signature and log may fail for reasons outside. The manifest is
one for all skills, as the path the pipeline derives is two directories above the
artifact. `HasPolicyEvaluator` is FALSE for the pipeline `proxy start` builds.
The refinement maps a skill's cache entry to unknown, pending or a tier.

### 2.7 SessionRefresh

A process is one `EnsureFresh` or one login. The service's `SELECT` and its commit
are two steps since the row is not locked; deleting a row that is gone is only a
warning to SQLAlchemy. `SaveTruncate` and `SaveWrite` are apart; a writer that
finds another's content may leave a mixture (`Torn`). `Logout` unlinks the file,
so a process that has it open writes to nothing. `Cut` ends a process anywhere.

### 2.8 ThreatSync

A command starts a syncer goroutine (`StartAsync`), goes on with its own work
(`CheckMetadata`, `ReadCache`, `RemoveCorrupt`: `LoadWithCache` after a wait that
may time out), and takes the goroutine with it when it ends (`Exit`, at any
point). The syncer's calls are the steps of `doSync`: `LoadMetadata`, for each file
the queries of the endpoint, the answer, the write, and `WriteMetadata` last. A
file is written by rename, so its write is one step. `get_ioc` reads hashes and
domains by two statements of a READ COMMITTED transaction: an ingestion may
commit between them. A body is the version of each table it was made from, and
stands for its ETag. A body above 10 MB is cut off and written as `Corrupt`.
Time is counted in releases of the tool, all that `LoadWithCache` compares it
with. `overlapped` is history. Whether a token can be had is a choice
(`GiveUp`): `SessionRefresh` has the rest.

### 2.9 The other commands

* `EntropyTracker`: `Scan` is one step, under the lock. History `scans` lets
  `ReportedExactly` say from the sequence of all scans alone what must be reported.
* `Profiler`: `ExportAll` takes the lock once for the names and once for each
  skill; files are written after that, and requests still observe. The write of a
  draft may fail, or be cut by the end of the process, and leave half a file.
* `ModelManager`: several `model download` commands; each fetches a file to a
  temporary one, compares the checksum if there is one, and renames. Two
  builds: the checksums as shipped (placeholders), and with the placeholders
  replaced, which leaves the library without one. A content is good or bad.
* `McpInstall`: a server's command is the sequence of wrappers and the user's own
  command; backup and configuration are written one after the other, each by a
  truncation and a write (`os.WriteFile`) between which the command may end. The user
  then has to write a torn configuration anew (`Rewrite`); a torn backup counts as
  empty for `install-mcp` and stops `uninstall-mcp`.
* `OrgPolicySync`: `policy.rego` and its metadata, one cache for all
  organizations; what `verify` reads.
* `EventReport`: one command with its reporter, in batches.
* `UpdateCheck`: commands over one cache, with time.
* `Release`: `build` reads file by file while they are edited; each command reads
  the lockfile, works, and writes all of it back. A write is one step: a build that is
  killed inside the write of an artifact it makes again, or of the lockfile, leaves a
  file that the model does not have.

### 2.10 The service

* `TlogPublish`: the limit is checked, the log is asked, the record is committed
  and the count is read and written, and the subscription is queried after that: six
  places for others to come between, and for the request to fail. `counted` is history.
* `OtpLogin`: `register` counts and then stores; `verify` finds the newest valid
  code and locks it, when it is free, until it commits; by then a newer code may have
  been stored, and the locked row is tried as it is by now. Time in units of five minutes. `SentCodes` maps the rows to
  the codes of `OneTimeCodes`: the column `attempts` counts the wrong guesses, and the
  logins are the answers with tokens.
* `OrgMembership`: every request reads, then commits. A row that was replaced since
  is not touched, a second row for a user is refused by the constraint, and an
  attribute set to the value it was read with is not written (SQLAlchemy).
* `SeatBilling`: the part of the same requests that follows their commit, the
  `subscribe` endpoint, Stripe with refused calls and lost answers, and the
  webhooks, those of other changes of a subscription among them
  (`SubscriptionChanges`). `strayed` is history: the subscriptions that a request
  created or canceled without committing it. It has a number of members where `OrgMembership` has their rows.

## 3. Runs

| Run | Checks | Bounds |
|---|---|---|
| `pins_sequential` | `DriftReported`, `MidSessionReported` | one slot, 3 sessions of 2 requests, 2 tools with 2 schemas: pin, change, change back; a tool added, removed, restored |
| `pins_concurrent` | `PinsWereServed`, `NoListUninspected`, `ResponsesForwarded` | 2 slots with a server each, 2 sessions each, saves cut or torn: all interleavings of two loads and saves |
| `streamable` | `NothingNewUnrecorded`, `EarlierPinsStick`, `RelaysEnd` | 2 clients with ids of their own, 3 requests, with and without a pin file, one client's connection closes |
| `streamable_ids` | violation of `EveryListCompared` | the same with equal ids, 2 requests |
| `daemon` | `ServingIsOnFile`, `TrustLasts`, `SavedPinsStay`, `StopEndsProxy` | one command at a time; 3 proxies over 2 process ids and 2 ports, so that an id is used again; crashes anywhere, also inside a save |
| `requests` | `ExplainAgreesWithLookup`, `ReportHasViolations`, refinement of `BoundedLog` | 2 goroutines, 2 requests (4 decisions) over a ring of 2, 2 processes, a SARIF limit of 3 |
| `requests_follow` | violation of `FollowShowsNew` | one goroutine, one request |
| `policy_reload` | `EvaluatorFollowsHandler`, `UnloadablePresetRefuses`, `ReloadConverges` | 3 edits of any kind, the file edited or not between the first reading and the watcher, one reload at a time, one request goroutine |
| `tiers` | `OneVerificationPerSkill`, `VerifiedIsOneVersion`, refinement of `TrustTiers`, `CloseEndsVerifications` | 3 requests for one skill, 2 digests, 2 replacements, a pipeline with an evaluator |
| `tiers_panic` | violation of `NoPanic` | one request |
| `session_logout` | violation of `LogoutSticks` | one process |
| `parts` | the types of fourteen components and the properties of the table below | below |

The components of `parts`:

| Component | Properties | Bounds, and why they are enough |
|---|---|---|
| `EntropyTracker` | `ReportedExactly` | 3 hosts for 2 places (evictions, and a host that returns), 6 scans over windows of 3 (a window that slides) |
| `Profiler` | `DraftsAreThisSession` | 2 skills, 2 destinations for one place, 2 sessions: the second meets the files of the first |
| `ModelManager` | `LoadedIsPinned` | 2 downloads at once, the two builds, bad contents, kills |
| `McpInstall` | `CommandsSurvive` | 2 servers, 2 commands, 2 edits, one upgrade of the binary, ends of the command inside each write |
| `OrgPolicySync` | `AppliedIsSynced` | 2 commands, 2 organizations, 2 policies pushed |
| `EventReport` | `EventsArrive` | 5 events in batches of 2 (a last batch that is not full), 2 profiles |
| `UpdateCheck` | `NoticeIsRecent` | 2 commands, a cache life of 2 in 4 units of time |
| `Release` | `LockfileIsTrue` | 2 commands at a time, 4 in all, 2 files edited once each, 2 log entries: build, sign and publish with another build or sign in between |
| `TlogPublish` | `PublishedIsAccounted` | 3 requests of a user with limit 2 or of a publisher, 2 artifacts, one entry not integrated |
| `SessionRefresh` | `FileTokenIsCurrent` | 3 processes, 3 tokens: two exchange one token while a third loads what one of them saves |
| `ThreatSync` | `NotModifiedMeansCached`, `CacheNeverGoesBack` | one command at a time, any number of them, killed anywhere; one ingestion per table, one oversized body, one release |
| `OtpLogin` | `SendsBounded`, refinement of `OneTimeCodes` | 3 registrations, 2 verifications, limits of 2, a window of 2 and codes that live 1 in 3 units of time: a request that waits for a lock while a newer code is stored |
| `OrgMembership` | `OneOwner` | 2 users, one invite, 2 requests at a time, 3 membership rows |
| `SeatBilling` | `BillingMatches`, `OneSubscription` | 2 requests and 2 webhook calls at once, 2 members, 2 subscriptions, 2 events: room for a second subscription, and for an event that is delivered again after a later one |

Limits of the code (100 sessions, 1000 ring entries, three codes in fifteen
minutes) are constants, set so small that a run goes past them; the code treats
every size alike. Two commands with overlapping threat syncs are left to
the proof: the properties claim nothing once two have overlapped. Deadlock is
not checked: with the bounds used up, and with programs that end, everything may
stop. The type invariants of the other modules are not
listed as properties of the runs: the theorems of section 4 have them.

Several properties are stated for what does not overlap (`OneCommand`,
`overlapped`, `apart`, `serial`, `collided`, `calm`): there the code takes no
lock, and without the condition the statement is false. They do not catch the races
they except, and the hazards say so. Others except what a crash or a failure leaves
that nothing in the code repairs (`astray`, `mcpCut`, `unwritten`, `strayed`), and say
of exactly what is left. The comment at each
property says what then happens, and the list of disagreements below repeats it.

What the violations show:

* **`tiers_panic`** `proxy_start.go:163` passes nil for the evaluator, which
  `pipeline.go:82` forbids. A skill with a good hash, signature, log entry and
  manifest ends the proxy.
* **`session_logout`** A refresh in flight saves after `logout` deleted the file.
* **`streamable_ids`** Two clients that both count their requests from 1: the
  second request replaces the first in the shared tracker, the first response
  takes the entry away, and a `tools/list` result is forwarded without a comparison
  (`mcp_streamable.go:158`).
* **`requests_follow`** `proxy logs --follow` keeps one `bufio.Scanner`; after the
  first tick that finds nothing new it prints nothing any more (`proxy_logs.go:147`).

Other disagreements met while modelling, visible in the models without a run of
their own.

*Wrappers.* The first connection of one server can read the pin file while
another process's save has truncated it, and then saves its own pins alone: the
other server counts as new again (`mcp_stdio.go:295`). A tool added after the first
connection is never pinned (`pinning.go:302` says it will be). `Save` "uses atomic write" (`pinning.go:200`) and is
`afero.WriteFile`, which truncates first: a wrapper or proxy that is killed in between
leaves an empty or half-written file, the saved pins are gone, and the next process
pins anew. Two comments say that inspection comes after forwarding
(`mcp_stdio.go:170`: "Pin checks and injection scanning happen AFTER forwarding for
warn-only mode", and `mcp_stdio.go:219`: "This runs after forwarding"): the code inspects first
(`mcp_stdio.go:182`, then `:206`), and `NoListUninspected`, `MidSessionReported` and
`DriftReported` hold for that reason. The comments are out of date; a change of the
code to what they say would break the three. Mid-session changes are recorded as blocked and
forwarded (`mcp_stdio.go:349`). `checkMidSession` takes the severity from the pin
rather than from the baseline.

*Proxy.* Overlapping starts, or a stop and a start, can lose the PID file, the
CA or pins; a start is refused when another program has the PID; an earlier
proxy's clean-up removes the port file of the next. `DecisionEntry.SkillID` is
never set by `OnRequest`, so `logs --skill` shows no HTTP request. The readers of
the log stop at a line of more than 64 KB. The Aho-Corasick matcher is shared by
all requests and keeps counters (`secret_scanner.go:74`).

*Policy.* `reloadPolicyConfig` merges the file with the defaults only
(`server.go:655`): one edit drops the organization's and the project's layers. The
preset `block_all` is accepted and has no runtime Rego: a start with it has no
evaluator and a reload to it keeps the old one. The evaluator keeps the response
actions of its start (`proxy_policy.go:167` promises a few seconds). Overlapping
reloads can leave the older config.

*Verification.* The manifest of another skill may be judged. A skill whose
artifact is not on disk fails at the hash and is not verified by its signature
(`trust_verifier.go:176`).

*Session and syncs.* A token can be exchanged twice (`auth_router.py:207`); a
command that ends between rotation and save ends the session; a refresh forgets
the organization (`credentials.go:143`), after which org sync stops. A threat sync
that fetches nothing sets `fetched_at` to the present (`sync.go:149`), so after an
upgrade an old cache wins over fresher bundled data (`ioc.go:208`). A file the
reader removes as corrupt is not fetched again while its ETag matches
(`ioc.go:229`), and the one removed may be a good one that has just replaced it.
Overlapping syncs can leave older data under a newer ETag. The cache of the
organization's policy is not kept by organization, and a 404 keeps the former
one's; the policy is Rego, but `verify` (`verify.go:118`) and `proxy start`
(`proxy_start.go:66`) read it as YAML.

*Reports.* `verify` returns an error for a violation, cobra then skips
`PersistentPostRun`, and the events of exactly that command are not waited for
(`root.go:87`); where nothing was started the wait lasts its two seconds; profiles
are posted without any wait.

*Model, MCP configuration.* Files are to be rejected when unverified, but
`tryLoadMLClassifier` loads without verifying; the ONNX library has no checksum; the
download has no timeout. `install-mcp` by an upgraded binary wraps twice, and the
backup then has the wrapped command; `uninstall-mcp` overwrites later edits. A
command that is killed inside the write of the configuration
(`proxy_install_mcp.go:186`, `proxy_uninstall_mcp.go:105`) leaves a torn file: the
commands of the servers it was rewriting are in the backup, everything else that the
client kept there is lost.

*Release.* `sign` never hashes the artifact; `sign` and `publish` write an old
lockfile back over a newer build's; a build during edits mixes versions;
`LogEntryID` holds an index of Rekor or of the own log.

*Log publishing.* Concurrent publishes exceed the limit and lose counts
(`usage.py:60`); an entry without a record stays when the commit fails
(`log.py:104`), and a retry adds another; "failed publishes not counted" (`log.py:119`)
is not kept, as the query after the commit of the count (`log.py:130`) may fail, and the
client then gets a 500 for a publish that is in the log and counted; the service sends no `Authorization`,
which the log can require (`LOG_AUTH_KEY`).

*Service.* Concurrent registrations send more than three codes. A transfer of
ownership to oneself leaves no owner; overlapping removals and transfers leave
none or two (`orgs.py:471`). An invite that is accepted twice at once lets a
removed member back in (`orgs.py:328`). `seat_billing.py:24` says that FOR UPDATE
prevents races of concurrent membership changes, but the count is read before the
lock (`orgs.py:366`). `subscribe` creates the subscription with the old
count and stores a count it never sent (`billing_seats.py:148`). A late webhook
overwrites the count and clears `out_of_sync`. When the commit fails after Stripe was
asked, a subscription stays that no row knows. The deleted event of a canceled
subscription leaves its id in the row.

### Fairness

`ResponsesForwarded`, `RelaysEnd`: the Go scheduler runs the goroutines of a live
process, and a read from a closed socket returns. `ResponsesForwarded` also assumes
that the write to the agent returns, because the agent reads its input or closes it: an
agent that keeps the pipe full and open holds its wrapper for ever. Nothing else is
assumed of agent or server, and nothing of the end of a session. `ReloadConverges`: expired timers fire and their
goroutines run; edits stop because they are bounded. `CloseEndsVerifications`:
goroutines run, and a lookup ends once its context is cancelled; it is not
assumed to end otherwise, as `http.DefaultClient` has no timeout. Nothing is assumed of
`VerifySignature`: `verify/steps.go:55` drops the context and
`signer/verifier.go:76` fetches the trusted root over the network without one, so that
nothing in the repository ends a fetch that hangs, `Close` (`trust_verifier.go:122`)
included. The property therefore says of each verification that `Close` ends it or
that it stays in the signature check for ever; and as `Close` only cancels and waits
for nobody, the process can still exit.
`StopEndsProxy`: a signalled process takes its shutdown steps. `FollowShowsNew` (the
violation): requests are handled and the follower's ticker ticks.

## 4. Proofs

TLAPS checks every proof, from no assumption but the named `ASSUME`s on constants,
which TLC evaluates in the runs. Every invariant that a passing run checks and
every action property is a theorem, and so are the three refinements. A theorem holds for every value of the constants: the bounds of the runs are arbitrary
in it. A safety property is seldom inductive; what follows says for each module what
has to be added and why.

**`MCPWrapperProofs`** (any number of processes, servers, tools, requests). The
inductive invariant joins types with: ids known to the server are tracked with
the method they were sent with (so no response can be resolved to another
method, the reason why tracking before forwarding matters); the list an agent
was shown last is the baseline (so a difference to the baseline is a difference
to what the agent saw); pins in memory and on file come from `served`. From it:
`TypeCorrect`, `ListsInspected`, `RugPullsRecorded`, `PinsGenuine`.
`DriftRecorded` has two hypotheses, both the scenario that `pins_sequential` runs:
one wrapper slot at a time, and saves that are not cut. With them the pins that are
trusted are what the file still holds, pins are saved only while none are trusted and
are then those of the list in hand, and a session that has compared its first list
has the list on record. Without them the code does not keep the
property: a save that is cut leaves a pin file that the next session cannot read, and
of two processes that save the second takes the pins of the first off the file.

**`StreamableProxyProofs`** (any number of connections, any pins of an earlier run).
To the types come four facts. Where an earlier run has pinned something, no
connection ever gets to `PinAll` (the check of `serverHasPins` is a read, but no step
takes pins away): `EarlierPinsKept`. The baseline, and each list about to become the
baseline, has only definitions that were in a first list or are recorded, although
the comparison and the update of the baseline are separate critical sections; and,
for clients whose ids differ, a request id is in one place at a time and its method
in the tracker until the answer is resolved, so that no list slips by as the answer
to something else: `ListsCompared`.

**`ProxyDaemonProofs`** (any number of processes, ports, crashes and leftover
files). The properties are promised for one command at a time (the constant
`OneCommand`). Then there is at most one start-up and no stop with
it; the PID file names the proxy from the step that writes it to the step that
removes it (`FileOK`, hence `ServerOnFile`); what a start-up read of the certificate
is still on disk, and between its two writes certificate and key never match, so that
a half-written pair is not used (`CertOK`, hence `TrustedCALasts`); and a proxy has in
memory all pins that are on file, the file is torn only while a save is on its way, and
the proxy that saves is one that the PID file still names (`PinsOK`, hence the action property
`PinsOnFileStay`). `PinsOK` and the property end with the first save that is cut by a
kill or made after the PID file was removed (`astray`): the code keeps nothing then.

**`RequestHandlerProofs`** (a ring of any size, any number of goroutines, any reuse
of ids).
The ring follows `decisions.jsonl`: its i-th newest cell is the i-th last line of the
file, as long as the file is open, which takes the arithmetic of `head` modulo the
size and that append and ring are one critical section. From it `ExplainAgrees`, and
`RingImplementsLog`: an `Append` of the ring is one of `BoundedLog`, all else
stutters. `ReportComplete` needs that a finding reaches the violation log only after
its decision is in the other file, and that the report flattens all lines
(`FlattenSeq` is defined by a recursive function).

**`PolicyReloadProofs`** (any presets, layers and edits). `EvaluatorFollows` has the
hypotheses that reloads do not overlap (`OneReload`) and that every preset a layer
names has runtime Rego (`NamedPresetsRun`); without the first, two reloads can compile
in the other order, without the second a compile fails and leaves the old preset.
Between the handler's update and the compile the evaluator is behind by exactly the
preset the reload remembers (`FollowOK`). `HandlerFollows` needs only `OneReload`, and
says that with no reload pending the handler has what an edited file says: while no
timer is armed, a reload on its way has read what the file says now, and otherwise
the handler has it (`FileOK`), because every edit arms the timer before anything else
happens. This is the safety half of `ReloadConverges`; that the timer fires and the
reload ends is the other half. `UnloadableRefused` needs neither hypothesis.

**`TrustVerifierProofs`** (any number of requests, skills, digests, changes). The
invariant: a skill in flight has exactly one unfinished job, a skill that is
absent has none, a job's step results all carry the digest it read from the
lockfile, and a job about to write "verified" has all four. From it: `TypeCorrect`,
`VerifiedOnce`, `VerifiedMeansOneDigest`, and `Refinement`: initial states map to
initial states of `TrustTiers`, `GetTier`, `StartVerification` and `WriteResult`
to its steps, everything else to stuttering.

**`CommandProofs`** has a section for each command:

* `Release`: what a command holds in memory, an old lockfile or the new one, is true
  or made so by its next step, since `dist`, `rekor` and the log only grow:
  `LockfileTrue`.
* `ModelManager`: every file in the model directory has its pinned checksum unless the
  user copied it there (a download is renamed into place after its check), so that
  loading needs no check of its own: `ClassifierPinned`.
* `McpInstall`: entry, backup and the copy in a running command all have, innermost,
  the command that was given; wrapping leaves it where it is (`KeptOK`); a backup is
  whole and has every entry about to be rewritten before the configuration is
  truncated (`BackedUp`), so that a cut leaves the commands there: `CommandsKept`. That
  an entry is wrapped no more often than there are binaries: `McpTypesHold`.
* `OrgPolicySync`: what a lone command's sync has written is still in the file:
  `PolicySynced`.
* `UpdateCheck`: what is in the cache was the latest version at the time written with
  it, and no time goes by between a request and the use of its answer: `NoticesRecent`.
* `EventReport`: the events before the loop's place, and no others, have been posted,
  and without an excuse the command waits for the loop's end: `EventsReported`.
* `Profiler`: profiles only grow during a shutdown, an export lies between the profile
  at its beginning and the profile now: `ProfilesBounded`, `DraftsComplete`.
* `ThreatSync`: the invariant says of syncs that have not overlapped: only one is at
  work; the files and the ETags on disk are no newer than the service's tables, and the
  ETag of a file that holds a body is no newer than that body (`ETagBehind`, which is
  why the ETag must be noted after the write and saved last); the same of the ETags a
  syncer holds; and the answer it is about to write is at least as new as all it
  replaces. A body that is equal to the ETag lies between the ETag and the file, and so
  the three are equal. From it: `ThreatTypes`, `CacheCurrent`, `NeverBack`.
* `EntropyTracker` (any number of destinations): `DripsReported` says that the window
  of a destination has the samples it should: the sequences are related to the ghost
  list of all scans by an increasing numbering (`WindowOK`), which a scan extends by one
  and, when the window is full, shifts. That the limit on sessions forgets the right destinations takes two more
  facts: `lastSeen` is the place of the last scan, and an evicted destination is older
  than all sessions, of which there are `MaxSessions` since (`EvictedOK`); therefore a
  destination has a session if and only if fewer than `MaxSessions` others were scanned
  after it (`SinceSession`). The sum that the finding compares is taken in the order in
  which `CHOOSE` finds the elements; `TotalRenumbered` shows that the order is
  immaterial.

**`ServiceProofs`** has the service's components and the login session:

* `OtpLogin`: a row is locked by one request and only while the code may be used, and a
  stored code has not been used: `CodesUsedOnce`. A registration between its count
  and its insert is the only one, if they do not overlap, and has room in the window that
  ends now: `CodesSentBounded`. There is a code for each registration that was
  answered (`CodesCounted`, which gives `OtpTypes`). `CodesAreOneTime` is the
  refinement of `OneTimeCodes`: a wrong guess at the locked row is a `Miss`, a right one
  `Use`, an insertion `Send`, and the rest stutters, because nobody but the holder of
  the lock touches the row between the SELECT and the commit.
* `OrgMembership`: while requests do not overlap and nobody transfers to himself, what a
  removal or a transfer has read is still so when it commits: `MembershipTypes`,
  `OwnerUnique`.
* `SeatBilling`: one transaction has the row locked, and the only subscription that
  lives, those that strayed aside, is the one in the row as that transaction sees it:
  `SubscriptionUnique`. Each
  row agrees with Stripe, is flagged, or an event yet to come repairs it (`Settled`),
  and the last event of a subscription has its quantity (`SeatEventsOK`):
  `SeatsAreBilled`. And `SeatBillingTypes`.
* `TlogPublish`: a record's index is the one the log gave its artifact, and while one
  user's publishes do not overlap the number of them that were counted is the count; in
  every case the count is at most that number (`CountedOK`): overlapping publishes can
  lose a count. A request is counted only when its record is committed, and is answered
  with success only after it: `PublishAccounted`, `PublishTypes`.
* `SessionRefresh`: `FileTokenIsCurrent` is not inductive alone: it needs that a token
  not yet saved is live and known to nobody else (`UnsavedTokenIsPrivate`), which needs
  that tokens in use were issued (`TokensIssued`) and which tokens a process has at each
  point (`ProcessTokens`). From it: `SessionTypes`, `TokenOnFileCurrent`, `UnsavedPrivate`.
* `MCComponents`: a behaviour of the composition is, for each of the fourteen
  components, a behaviour of it (`PartsRun`): where `part` is another's, its variables
  keep a value that its own initial condition allows. What is proved of a component
  therefore holds in the run that puts them together; its own type invariant is
  `PartTypes`.

Where a property speaks only of some behaviours (requests that do not overlap, an
answer that was not lost), the condition is a history variable of the model and part
of the property, so that TLC and the theorem see the same statement; a condition on
constants is a hypothesis of the theorem and a value in the run's cfg.

Induction over data is out of the provers' reach as a rule to be applied. The
facts about recursive functions that the proofs need (`FlattenSeq`, the sum `Total`, the
largest element of a bounded set) are proved from a least counterexample instead, which the
library's `WFMin` gives for the order of the natural numbers (`LeastNat`).

Only model-checked are the liveness properties `ResponsesForwarded`, `RelaysEnd`,
`StopEndsProxy`, `ReloadConverges` and `CloseEndsVerifications`: liveness under fairness
and ENABLED are out of the prover's reach.

The assumptions on constants say that bounds are numbers, that sets are finite where
they are counted, and where names must be apart; for instance `McpAssumption`: there is a
binary to install.

## 5. Plan

What is left:

1. The hypotheses of `EvaluatorFollows` and `DriftRecorded`: the weakest forms under which
   the properties hold.
2. The safety halves of the liveness properties, as `HandlerFollows` is that of
   `ReloadConverges`.
3. Extending the models: the DSL compiler's pass from policy to Rego, the
   audit of installed skills, the token commands.

## 6. Not modelled

* What scanners detect (patterns, domains, YARA rules, the classifier), OPA's
  evaluation of Rego, Sigstore's cryptography, Tessera's tree, goproxy's TLS
  interception: the models choose their results freely.
* The compiler of the policy DSL, canonicalisation, archives, schemas, SBOM, the
  walk of `audit` over installed skills, and output formats: one sequential pass
  each, better tested than model-checked.
* The SAML protocol (a library), the renaming of an organization, the
  subscriptions of single users in `webhooks.py`, and service routers that do one
  statement per request.
* That an artifact or lockfile is torn by a killed `build`, and the branch of `Start` in which the listener
  fails by itself.
* Dashboard, launcher, hooks, packaging: no shared state of their own.
