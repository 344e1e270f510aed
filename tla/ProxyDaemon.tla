----------------------------- MODULE ProxyDaemon -----------------------------
(***************************************************************************)
(* The life of `skillledger proxy' processes (cli/internal/proxy/server.go *)
(* and ca.go, cli/internal/cmd/proxy_start.go, proxy_stop.go and           *)
(* proxy_trust.go): the two checks of the PID file, the loading or making  *)
(* of the CA, the listening socket, the PID and port files, the signal of  *)
(* `proxy stop', and the clean-up, which saves the pins the process loaded *)
(* when it started.  The processes share the files of one base directory,  *)
(* and no lock covers any sequence of steps on them.                       *)
(*                                                                         *)
(* A process is its process id.  The operating system gives the id of an   *)
(* ended process to later ones, which may be proxies or other programs.    *)
(* PID, port and CA files are taken to be written when they are written to *)
(* (a start that cannot write the PID file goes on without one).  The pin  *)
(* file is truncated and then written; of two processes that write it at   *)
(* once the one that ends last counts.                                     *)
(***************************************************************************)
EXTENDS Naturals

CONSTANTS
  Pids,        \* process ids
  Ports,       \* ports that `proxy start --port' may name
  Servers,     \* MCP servers that have pins
  None,        \* the absent file, process or certificate
  MaxStarts,   \* bound: proxies started
  OneCommand   \* whether start-ups do not overlap, and no stop command comes
               \* before the PID file names the proxy that starts

ASSUME DaemonAssumption ==
  /\ None \notin Pids \cup Ports \cup Nat
  /\ MaxStarts \in Nat
  /\ OneCommand \in BOOLEAN

CAs == 1 .. MaxStarts

VARIABLES
  pc,        \* where a process is; "none" = no process, "other" = not a proxy
  portOf,    \* the port a proxy was started with
  readCert,  \* the certificate LoadOrCreateCA has read
  ca,        \* the CA a proxy signs with
  pins,      \* ToolPinStore.pins of a proxy: the servers it has pins for
  saving,    \* a connection of the proxy is writing the pin file
  term,      \* the proxy received SIGTERM
  pidFile, portFile, certFile, keyFile,
  pinFile,   \* the pins that were written last
  pinTorn,   \* the pin file has been truncated since, and cannot be parsed
  bound,     \* the process that listens on a port
  stopping,  \* the id a `proxy stop' command has read
  trusted,   \* the CA `proxy trust' installed, once its pair was complete
  made,      \* CAs generated so far
  starts,    \* proxies started so far
  astray     \* ghost: a proxy was killed while the pin file was truncated, or
             \* wrote it after it had removed its PID file

procVars == << pc, portOf, readCert, ca, pins, saving, term >>
pinVars == << pinFile, pinTorn >>
fileVars == << pidFile, portFile, certFile, keyFile, pinVars >>
vars == << procVars, fileVars, bound, stopping, trusted, made, starts, astray >>

StartUp == {"new", "ca", "key", "writecert", "writekey", "listen", "pid", "port"}
CleanUp == {"pins", "save", "rmpid", "rmport", "report"}
Early == StartUp \ {"port"}   \* before the PID file names the proxy
ProxyStates == StartUp \cup {"run"} \cup CleanUp

TypeOK ==
  /\ pc \in [Pids -> {"none", "other"} \cup ProxyStates]
  /\ portOf \in [Pids -> Ports \cup {None}]
  /\ readCert \in [Pids -> CAs \cup {None}]
  /\ ca \in [Pids -> CAs \cup {None}]
  /\ pins \in [Pids -> SUBSET Servers]
  /\ {saving, term} \subseteq [Pids -> BOOLEAN]
  /\ pidFile \in Pids \cup {None}
  /\ portFile \in Ports \cup {None}
  /\ certFile \in CAs \cup {None}
  /\ keyFile \in CAs \cup {None}
  /\ pinFile \subseteq Servers
  /\ {pinTorn, astray} \subseteq BOOLEAN
  /\ bound \in [Ports -> Pids \cup {None}]
  /\ stopping \in Pids \cup {None}
  /\ trusted \in CAs \cup {None}
  /\ made \in 0 .. MaxStarts
  /\ starts \in 0 .. MaxStarts

Alive(p) == pc[p] # "none"

Init ==
  /\ pc = [p \in Pids |-> "none"]
  /\ portOf = [p \in Pids |-> None]
  /\ readCert = [p \in Pids |-> None]
  /\ ca = [p \in Pids |-> None]
  /\ pins = [p \in Pids |-> {}]
  /\ saving = [p \in Pids |-> FALSE]
  /\ term = [p \in Pids |-> FALSE]
  /\ pidFile = None
  /\ portFile = None
  /\ certFile = None
  /\ keyFile = None
  /\ pinFile = {}
  /\ pinTorn = FALSE
  /\ bound = [q \in Ports |-> None]
  /\ stopping = None
  /\ trusted = None
  /\ made = 0
  /\ starts = 0
  /\ astray = FALSE

-----------------------------------------------------------------------------
(* The rest of the machine.                                                *)

\* Another program gets the id of an ended process, and ends.
OtherStarts(p) ==
  /\ pc[p] = "none"
  /\ pc' = [pc EXCEPT ![p] = "other"]
  /\ UNCHANGED << portOf, readCert, ca, pins, saving, term, fileVars, bound,
                  stopping, trusted, made, starts, astray >>

OtherEnds(p) ==
  /\ pc[p] = "other"
  /\ pc' = [pc EXCEPT ![p] = "none"]
  /\ UNCHANGED << portOf, readCert, ca, pins, saving, term, fileVars, bound,
                  stopping, trusted, made, starts, astray >>

\* A process is gone, with its memory and its socket.
Gone(p) ==
  /\ pc' = [pc EXCEPT ![p] = "none"]
  /\ portOf' = [portOf EXCEPT ![p] = None]
  /\ readCert' = [readCert EXCEPT ![p] = None]
  /\ ca' = [ca EXCEPT ![p] = None]
  /\ pins' = [pins EXCEPT ![p] = {}]
  /\ saving' = [saving EXCEPT ![p] = FALSE]
  /\ term' = [term EXCEPT ![p] = FALSE]

Unbind(p) == [q \in Ports |-> IF bound[q] = p THEN None ELSE bound[q]]

\* A proxy is killed, or the machine goes down.
Crash(p) ==
  /\ pc[p] \in ProxyStates
  /\ Gone(p)
  /\ bound' = Unbind(p)
  /\ astray' = (astray \/ pinTorn)
  /\ UNCHANGED << fileVars, stopping, trusted, made, starts >>

-----------------------------------------------------------------------------
(* proxy start.                                                            *)

\* IsProxyRunning: the PID file names a process that takes signal 0.
IsProxyRunning == pidFile # None /\ Alive(pidFile)

\* The caller is a process itself: a stale PID file may hold its own id.
RunningFor(p) == IsProxyRunning \/ pidFile = p

NobodyElseBusy(p) ==
  OneCommand => /\ stopping = None
                /\ \A q \in Pids \ {p} : pc[q] \notin StartUp

\* What Load reads; from a file that cannot be parsed nothing, so that the
\* store keeps what it has.
Loaded(store) == IF pinTorn THEN store ELSE pinFile

\* runProxyStart: refused, or NewProxyServer, which loads the pins.
ProxyStart(p, port) ==
  /\ pc[p] = "none"
  /\ starts < MaxStarts
  /\ NobodyElseBusy(p)
  /\ starts' = starts + 1
  /\ IF RunningFor(p)
     THEN UNCHANGED << pc, portOf, pins >>
     ELSE /\ pc' = [pc EXCEPT ![p] = "new"]
          /\ portOf' = [portOf EXCEPT ![p] = port]
          /\ pins' = [pins EXCEPT ![p] = Loaded({})]
  /\ UNCHANGED << readCert, ca, saving, term, fileVars, bound, stopping,
                  trusted, made, astray >>

\* ProxyServer.Start checks once more.
CheckAgain(p) ==
  /\ pc[p] = "new"
  /\ IF RunningFor(p)
     THEN Gone(p)
     ELSE /\ pc' = [pc EXCEPT ![p] = "ca"]
          /\ UNCHANGED << portOf, readCert, ca, pins, saving, term >>
  /\ UNCHANGED << fileVars, bound, stopping, trusted, made, starts, astray >>

\* LoadOrCreateCA reads the certificate and then the key.
ReadCert(p) ==
  /\ pc[p] = "ca"
  /\ readCert' = [readCert EXCEPT ![p] = certFile]
  /\ pc' = [pc EXCEPT ![p] = "key"]
  /\ UNCHANGED << portOf, ca, pins, saving, term, fileVars, bound, stopping,
                  trusted, made, starts, astray >>

\* A LoadOrCreateCA that makes a CA for every start.
AlwaysGenerate(p) ==
  /\ pc[p] = "key"
  /\ ca' = [ca EXCEPT ![p] = made + 1]
  /\ pc' = [pc EXCEPT ![p] = "writecert"]
  /\ made' = made + 1
  /\ UNCHANGED << portOf, readCert, pins, saving, term, fileVars, bound,
                  stopping, trusted, starts, astray >>

\* X509KeyPair accepts a certificate with its own key; otherwise a CA is made.
ReadKey(p) ==
  /\ pc[p] = "key"
  /\ IF readCert[p] # None /\ readCert[p] = keyFile
     THEN /\ ca' = [ca EXCEPT ![p] = keyFile]
          /\ pc' = [pc EXCEPT ![p] = "listen"]
          /\ UNCHANGED made
     ELSE /\ ca' = [ca EXCEPT ![p] = made + 1]
          /\ pc' = [pc EXCEPT ![p] = "writecert"]
          /\ made' = made + 1
  /\ UNCHANGED << portOf, readCert, pins, saving, term, fileVars, bound,
                  stopping, trusted, starts, astray >>

WriteCert(p) ==
  /\ pc[p] = "writecert"
  /\ certFile' = ca[p]
  /\ pc' = [pc EXCEPT ![p] = "writekey"]
  /\ UNCHANGED << portOf, readCert, ca, pins, saving, term, pidFile, portFile,
                  keyFile, pinVars, bound, stopping, trusted, made, starts, astray >>

WriteKey(p) ==
  /\ pc[p] = "writekey"
  /\ keyFile' = ca[p]
  /\ pc' = [pc EXCEPT ![p] = "listen"]
  /\ UNCHANGED << portOf, readCert, ca, pins, saving, term, pidFile, portFile,
                  certFile, pinVars, bound, stopping, trusted, made, starts, astray >>

\* net.Listen; if the port is taken Start returns and cleans nothing up.
Listen(p) ==
  /\ pc[p] = "listen"
  /\ IF bound[portOf[p]] = None
     THEN /\ bound' = [bound EXCEPT ![portOf[p]] = p]
          /\ pc' = [pc EXCEPT ![p] = "pid"]
          /\ UNCHANGED << portOf, readCert, ca, pins, saving, term >>
     ELSE Gone(p) /\ UNCHANGED bound
  /\ UNCHANGED << fileVars, stopping, trusted, made, starts, astray >>

WritePIDFile(p) ==
  /\ pc[p] = "pid"
  /\ pidFile' = p
  /\ pc' = [pc EXCEPT ![p] = "port"]
  /\ UNCHANGED << portOf, readCert, ca, pins, saving, term, portFile, certFile,
                  keyFile, pinVars, bound, stopping, trusted, made, starts, astray >>

WritePortFile(p) ==
  /\ pc[p] = "port"
  /\ portFile' = portOf[p]
  /\ pc' = [pc EXCEPT ![p] = "run"]
  /\ UNCHANGED << portOf, readCert, ca, pins, saving, term, pidFile, certFile,
                  keyFile, pinVars, bound, stopping, trusted, made, starts, astray >>

\* A first connection through the proxy's WebSocket: the pin file is read, the
\* server's tools are pinned and Save truncates the file (StreamableProxy has
\* the steps).  Load and Save exclude each other inside a process.  Hijacked
\* connections outlive the shutdown of the server.
StreamPins(p, s) ==
  /\ pc[p] \in {"run", "pins", "rmpid", "rmport", "report"}
  /\ ~saving[p]
  /\ s \notin Loaded(pins[p])
  /\ pins' = [pins EXCEPT ![p] = Loaded(@) \cup {s}]
  /\ saving' = [saving EXCEPT ![p] = TRUE]
  /\ pinTorn' = TRUE
  /\ astray' = (astray \/ pc[p] \in {"rmport", "report"})
  /\ UNCHANGED << pc, portOf, readCert, ca, term, pidFile, portFile, certFile,
                  keyFile, pinFile, bound, stopping, trusted, made, starts >>

StreamWrites(p) ==
  /\ saving[p]
  /\ pinFile' = pins[p]
  /\ pinTorn' = FALSE
  /\ saving' = [saving EXCEPT ![p] = FALSE]
  /\ UNCHANGED << pc, portOf, readCert, ca, pins, term, pidFile, portFile,
                  certFile, keyFile, bound, stopping, trusted, made, starts,
                  astray >>

-----------------------------------------------------------------------------
(* The end of a proxy.                                                     *)

\* A Start that looks at its context only before it serves.
IgnoreSignal(p) ==
  /\ pc[p] = "port"
  /\ term[p]
  /\ bound' = Unbind(p)
  /\ pc' = [pc EXCEPT ![p] = "pins"]
  /\ UNCHANGED << portOf, readCert, ca, pins, saving, term, fileVars, stopping,
                  trusted, made, starts, astray >>

\* The context is cancelled: the server is closed and the clean-up begins
\* with the violation writer, the verifier and the classifier.
ShutDown(p) ==
  /\ pc[p] = "run"
  /\ term[p]
  /\ bound' = Unbind(p)
  /\ pc' = [pc EXCEPT ![p] = "pins"]
  /\ UNCHANGED << portOf, readCert, ca, pins, saving, term, fileVars, stopping,
                  trusted, made, starts, astray >>

\* The pin store is saved, which truncates the file and writes it, and the
\* profiles are exported.
SavePins(p) ==
  /\ pc[p] = "pins"
  /\ pinTorn' = TRUE
  /\ pc' = [pc EXCEPT ![p] = "save"]
  /\ UNCHANGED << portOf, readCert, ca, pins, saving, term, pidFile, portFile,
                  certFile, keyFile, pinFile, bound, stopping, trusted, made,
                  starts, astray >>

WritePins(p) ==
  /\ pc[p] = "save"
  /\ pinFile' = pins[p]
  /\ pinTorn' = FALSE
  /\ pc' = [pc EXCEPT ![p] = "rmpid"]
  /\ UNCHANGED << portOf, readCert, ca, pins, saving, term, pidFile, portFile,
                  certFile, keyFile, bound, stopping, trusted, made, starts,
                  astray >>

\* A clean-up that begins with the PID file.
RemoveAtOnce(p) ==
  /\ pc[p] \in {"pins", "rmpid"}
  /\ pidFile' = None
  /\ pc' = [pc EXCEPT ![p] = IF @ = "pins" THEN "pins" ELSE "rmport"]
  /\ UNCHANGED << portOf, readCert, ca, pins, saving, term, portFile, certFile,
                  keyFile, pinVars, bound, stopping, trusted, made, starts, astray >>

\* removePIDFile, whoever's it is.
RemovePIDFile(p) ==
  /\ pc[p] = "rmpid"
  /\ pidFile' = None
  /\ pc' = [pc EXCEPT ![p] = "rmport"]
  /\ astray' = (astray \/ saving[p])
  /\ UNCHANGED << portOf, readCert, ca, pins, saving, term, portFile, certFile,
                  keyFile, pinVars, bound, stopping, trusted, made, starts >>

\* removePortFile that takes the PID file with it.
RemoveBoth(p) ==
  /\ pc[p] = "rmport"
  /\ pidFile' = None
  /\ portFile' = None
  /\ pc' = [pc EXCEPT ![p] = "report"]
  /\ UNCHANGED << portOf, readCert, ca, pins, saving, term, certFile, keyFile,
                  pinVars, bound, stopping, trusted, made, starts, astray >>

RemovePortFile(p) ==
  /\ pc[p] = "rmport"
  /\ portFile' = None
  /\ pc' = [pc EXCEPT ![p] = "report"]
  /\ UNCHANGED << portOf, readCert, ca, pins, saving, term, pidFile, certFile,
                  keyFile, pinVars, bound, stopping, trusted, made, starts, astray >>

\* runProxyStart waits for the event report, writes SARIF and returns.
Return(p) ==
  /\ pc[p] = "report"
  /\ Gone(p)
  /\ UNCHANGED << fileVars, bound, stopping, trusted, made, starts, astray >>

-----------------------------------------------------------------------------
(* proxy stop and proxy trust.                                             *)

StopReads ==
  /\ stopping = None
  /\ pidFile # None
  /\ OneCommand => \A p \in Pids : pc[p] \notin Early
  /\ stopping' = pidFile
  /\ UNCHANGED << procVars, fileVars, bound, trusted, made, starts, astray >>

\* The id is dead: the PID file is removed.
StopCleansStale ==
  /\ stopping # None
  /\ ~Alive(stopping)
  /\ pidFile' = None
  /\ stopping' = None
  /\ UNCHANGED << procVars, portFile, certFile, keyFile, pinVars, bound,
                  trusted, made, starts, astray >>

\* SIGTERM: a proxy notes it (and no longer when it is about to return);
\* another program ends, and so does a proxy that has no handler yet.  The
\* command does not wait.
StopSignals ==
  /\ stopping # None
  /\ Alive(stopping)
  /\ \/ /\ pc[stopping] # "other"
        /\ term' = [term EXCEPT ![stopping] = TRUE]
        /\ UNCHANGED << pc, portOf, readCert, ca, pins, saving >>
     \/ /\ pc[stopping] \in {"other", "new"}
        /\ Gone(stopping)
  /\ stopping' = None
  /\ UNCHANGED << fileVars, bound, trusted, made, starts, astray >>

\* proxy trust installs the certificate file, if there is one.
ProxyTrust ==
  /\ certFile # None
  /\ trusted' = IF certFile = keyFile THEN certFile ELSE trusted
  /\ UNCHANGED << procVars, fileVars, bound, stopping, made, starts, astray >>

-----------------------------------------------------------------------------
ProxyStep(p) ==
  \/ CheckAgain(p)
  \/ ReadCert(p)
  \/ ReadKey(p)
  \/ WriteCert(p)
  \/ WriteKey(p)
  \/ Listen(p)
  \/ WritePIDFile(p)
  \/ WritePortFile(p)
  \/ ShutDown(p)
  \/ SavePins(p)
  \/ WritePins(p)
  \/ RemovePIDFile(p)
  \/ RemovePortFile(p)
  \/ Return(p)

Next ==
  \/ \E p \in Pids :
       \/ OtherStarts(p)
       \/ OtherEnds(p)
       \/ Crash(p)
       \/ \E port \in Ports : ProxyStart(p, port)
       \/ \E s \in Servers : StreamPins(p, s)
       \/ StreamWrites(p)
       \/ ProxyStep(p)
  \/ StopReads
  \/ StopCleansStale
  \/ StopSignals
  \/ ProxyTrust

\* The operating system runs every proxy.
Fairness == \A p \in Pids : WF_vars(ProxyStep(p))

Spec == Init /\ [][Next]_vars

FairSpec == Spec /\ Fairness

-----------------------------------------------------------------------------
(* A proxy that serves is named by the PID file, so that `proxy stop' and
   `proxy status' find it, although an earlier one may still be cleaning up,
   crashed ones leave their PID behind and other programs get their ids.  It
   is stated for start-ups and stop commands that do not overlap: a stop that
   has read a stale id removes the file of a proxy started since. *)
ServingIsOnFile ==
  OneCommand => \A p \in Pids : pc[p] = "run" => pidFile = p

(* Once `proxy trust' has installed a certificate whose key was there, every
   proxy that serves uses that CA, and it is the one on disk: neither a crash
   in the middle of making a CA nor a restart makes another.  It is stated
   for start-ups that do not overlap, because two that find no CA write two. *)
TrustLasts ==
  OneCommand /\ trusted # None =>
    \A p \in Pids : pc[p] = "run" => {ca[p], certFile, keyFile} = {trusted}

(* A proxy that received SIGTERM ends, whatever step of its clean-up it is in or
   the last step of its start: the signal is taken as soon as a stop command can
   find the proxy on file, although Start looks at its context only later. *)
StopEndsProxy ==
  \A p \in Pids : term[p] ~> ~term[p]

(* A pin on file stays there: the copy of the pins that a proxy saves when it
   ends never replaces pins that another one has added, and no proxy loads a
   file that is being saved, although the next one may start before the
   clean-up is over, and proxies may be killed.  Excepted, since Save truncates
   the file and then writes it, is what follows when one was killed in between,
   or saved pins on a connection that outlived its PID file; and it is stated
   for start-ups and stop commands that do not overlap. *)
SavedPinsStay ==
  [][OneCommand /\ ~astray =>
       /\ pinFile \subseteq pinFile'
       /\ \A p \in Pids :
            pc[p] = "none" /\ pc'[p] = "new" => pins'[p] = pinFile]_vars
=============================================================================
