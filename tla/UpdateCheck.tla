---------------------------- MODULE UpdateCheck -----------------------------
(***************************************************************************)
(* The check for a newer version, cli/internal/updatecheck/check.go, as    *)
(* the root command starts it and prints its notice (cmd/root.go).  The    *)
(* cache file is shared by the commands of a user and written with         *)
(* truncation: a reader may find it empty, which is like no cache.         *)
(* Time is counted in units of which TTL make cacheTTL; a request and the  *)
(* write after it take less than one unit.                                 *)
(***************************************************************************)
EXTENDS Naturals

CONSTANTS
  Checks,      \* places for commands, one after the other in each
  TTL,         \* cacheTTL
  MyVersion,   \* version of the tool
  MaxTime      \* bound: time, and versions published

ASSUME UpdateAssumption ==
  TTL \in Nat \ {0} /\ MyVersion \in Nat \ {0} /\ MaxTime \in Nat

VARIABLES
  clock,       \* time.Now
  latest,      \* ghost: the registry's version at each time so far
  cached,      \* update-check.json: version (0: none) and time
  ckPc,        \* where a command's goroutine is
  ckVersion,   \* the version it works with
  ckTime,      \* ghost: when it looked at the cache
  notice       \* version in the notice, 0 without one

updateVars == << clock, latest, cached, ckPc, ckVersion, ckTime, notice >>

NoCache == [version |-> 0, at |-> 0]

UpdateTypeOK ==
  /\ clock \in 0 .. MaxTime
  /\ latest \in [0 .. MaxTime -> 1 .. MyVersion + MaxTime]
  /\ cached \in [version : 0 .. MyVersion + MaxTime, at : 0 .. MaxTime]
  /\ cached.at <= clock
  /\ ckPc \in [Checks -> {"off", "cache", "get", "write", "writing", "result"}]
  /\ ckVersion \in [Checks -> 0 .. MyVersion + MaxTime]
  /\ ckTime \in [Checks -> 0 .. MaxTime]
  /\ notice \in [Checks -> 0 .. MyVersion + MaxTime]

UpdateInit ==
  /\ clock = 0
  /\ latest = [t \in 0 .. MaxTime |-> MyVersion]
  /\ cached = NoCache
  /\ ckPc = [c \in Checks |-> "off"]
  /\ ckVersion = [c \in Checks |-> 0]
  /\ ckTime = [c \in Checks |-> 0]
  /\ notice = [c \in Checks |-> 0]

\* Time goes on, and with it the registry may have a newer version.
Tick(newer) ==
  /\ clock < MaxTime
  /\ \A c \in Checks : ckPc[c] \notin {"get", "write", "writing"}
  /\ clock' = clock + 1
  /\ latest' = [t \in 0 .. MaxTime |->
                  IF t <= clock \/ ~newer THEN latest[t] ELSE latest[clock] + 1]
  /\ UNCHANGED << cached, ckPc, ckVersion, ckTime, notice >>

\* CheckAsync of the next command, unless it is switched off.
StartCheck(c) ==
  /\ ckPc[c] = "off"
  /\ ckPc' = [ckPc EXCEPT ![c] = "cache"]
  /\ ckVersion' = [ckVersion EXCEPT ![c] = 0]
  /\ notice' = [notice EXCEPT ![c] = 0]
  /\ UNCHANGED << clock, latest, cached, ckTime >>

\* A hit that counts as a check.
RenewCache(c) ==
  /\ ckPc[c] = "cache"
  /\ ckTime' = [ckTime EXCEPT ![c] = clock]
  /\ IF cached # NoCache /\ clock - cached.at < TTL
     THEN /\ ckVersion' = [ckVersion EXCEPT ![c] = cached.version]
          /\ ckPc' = [ckPc EXCEPT ![c] = "result"]
          /\ cached' = [cached EXCEPT !.at = clock]
     ELSE /\ ckPc' = [ckPc EXCEPT ![c] = "get"]
          /\ UNCHANGED << ckVersion, cached >>
  /\ UNCHANGED << clock, latest, notice >>

\* A cache written less than TTL ago saves the request.
ReadUpdateCache(c) ==
  /\ ckPc[c] = "cache"
  /\ ckTime' = [ckTime EXCEPT ![c] = clock]
  /\ IF cached # NoCache /\ clock - cached.at < TTL
     THEN /\ ckVersion' = [ckVersion EXCEPT ![c] = cached.version]
          /\ ckPc' = [ckPc EXCEPT ![c] = "result"]
     ELSE /\ ckPc' = [ckPc EXCEPT ![c] = "get"]
          /\ UNCHANGED ckVersion
  /\ UNCHANGED << clock, latest, cached, notice >>

\* The registry answers.
GetLatest(c) ==
  /\ ckPc[c] = "get"
  /\ ckVersion' = [ckVersion EXCEPT ![c] = latest[clock]]
  /\ ckPc' = [ckPc EXCEPT ![c] = "write"]
  /\ UNCHANGED << clock, latest, cached, ckTime, notice >>

\* It does not, or with something else: no result, no cache.
GetFails(c) ==
  /\ ckPc[c] = "get"
  /\ ckPc' = [ckPc EXCEPT ![c] = "off"]
  /\ UNCHANGED << clock, latest, cached, ckVersion, ckTime, notice >>

\* writeCache opens the file with truncation ...
TruncateUpdateCache(c) ==
  /\ ckPc[c] = "write"
  /\ cached' = NoCache
  /\ ckPc' = [ckPc EXCEPT ![c] = "writing"]
  /\ UNCHANGED << clock, latest, ckVersion, ckTime, notice >>

\* ... and writes it.
WriteUpdateCache(c) ==
  /\ ckPc[c] = "writing"
  /\ cached' = [version |-> ckVersion[c], at |-> clock]
  /\ ckPc' = [ckPc EXCEPT ![c] = "result"]
  /\ UNCHANGED << clock, latest, ckVersion, ckTime, notice >>

\* compareVersions and PrintNotice at the end of the command.
Notify(c) ==
  /\ ckPc[c] = "result"
  /\ notice' = [notice EXCEPT ![c] =
                  IF ckVersion[c] > MyVersion THEN ckVersion[c] ELSE 0]
  /\ ckPc' = [ckPc EXCEPT ![c] = "off"]
  /\ UNCHANGED << clock, latest, cached, ckVersion, ckTime >>

\* The command ends first, wherever the goroutine is, or its output is no
\* terminal.
DropCheck(c) ==
  /\ ckPc[c] # "off"
  /\ ckPc' = [ckPc EXCEPT ![c] = "off"]
  /\ UNCHANGED << clock, latest, cached, ckVersion, ckTime, notice >>

UpdateNext ==
  \/ \E newer \in BOOLEAN : Tick(newer)
  \/ \E c \in Checks :
       \/ StartCheck(c)
       \/ ReadUpdateCache(c)
       \/ GetLatest(c)
       \/ GetFails(c)
       \/ TruncateUpdateCache(c)
       \/ WriteUpdateCache(c)
       \/ Notify(c)
       \/ DropCheck(c)

UpdateSpec == UpdateInit /\ [][UpdateNext]_updateVars

-----------------------------------------------------------------------------
(* A notice names a version newer than the tool that was the registry's latest
   less than TTL before the command looked: however many commands share the
   cache, a version does not stay in it beyond its time, and a newer one is
   not announced later than that. *)
NoticeIsRecent ==
  \A c \in Checks :
    notice[c] # 0 =>
      /\ notice[c] > MyVersion
      /\ \E t \in 0 .. ckTime[c] :
           ckTime[c] - t < TTL /\ latest[t] = notice[c]
=============================================================================
