------------------------- MODULE ProxyDaemonProofs --------------------------
(***************************************************************************)
(* Proofs about the life of the proxy process, for any number of processes,*)
(* crashes and files that earlier runs have left.                          *)
(***************************************************************************)
EXTENDS ProxyDaemon, TLAPS

\* A proxy that the PID file names: from the writing of the file to its removal.
Holders == {"port", "run", "pins", "save", "rmpid"}

\* The variables the argument is about.
Shapes ==
  /\ pc \in [Pids -> {"none", "other"} \cup ProxyStates]
  /\ made \in Nat
  /\ readCert \in [Pids -> Nat \cup {None}]
  /\ ca \in [Pids -> Nat \cup {None}]
  /\ pins \in [Pids -> SUBSET Servers]
  /\ pidFile \in Pids \cup {None}
  /\ certFile \in (1 .. made) \cup {None}
  /\ keyFile \in (1 .. made) \cup {None}
  /\ pinFile \subseteq Servers
  /\ stopping \in Pids \cup {None}
  /\ saving \in [Pids -> BOOLEAN]
  /\ pinTorn \in BOOLEAN /\ astray \in BOOLEAN
  /\ \A p \in Pids : pc[p] \in {"writecert", "writekey"} => ca[p] \in 1 .. made

\* One start-up at a time and no stop command meanwhile; the PID file names the
\* proxy that serves, also while it cleans up, and nobody starts until then.
FileOK ==
  /\ \A p, q \in Pids : pc[p] \in StartUp /\ pc[q] \in StartUp => p = q
  /\ \A p \in Pids : pc[p] \in Early => stopping = None
  /\ \A p \in Pids : pc[p] \in Holders => pidFile = p
  /\ \A p, q \in Pids : pc[p] \in Early => pc[q] \notin Holders
  /\ \A p \in Pids : stopping # None /\ pc[p] \in Holders => stopping = p

\* What a start-up knows of the CA's files.
CertOK ==
  /\ trusted # None => certFile = trusted /\ keyFile = trusted
  /\ \A p \in Pids : pc[p] = "key" => readCert[p] = certFile
  /\ \A p \in Pids : pc[p] = "writecert" =>
       ca[p] # keyFile /\ (certFile = keyFile => certFile = None)
  /\ \A p \in Pids : pc[p] = "writekey" =>
       certFile = ca[p] /\ keyFile # ca[p]
  /\ \A p \in Pids : pc[p] \in {"listen", "pid", "port", "run"} =>
       ca[p] = certFile /\ ca[p] = keyFile

\* A proxy has in memory what it will not lose when it saves; and a file that
\* is truncated is being written by the proxy that the PID file names.
PinsOK ==
  ~astray =>
    /\ \A p \in Pids : pc[p] \in StartUp \cup {"run", "pins", "save"} \/ saving[p] =>
         pinFile \subseteq pins[p]
    /\ \A p \in Pids : saving[p] => pc[p] \in Holders
    /\ pinTorn => \E p \in Pids : pc[p] = "save" \/ saving[p]

DaemonIInv == Shapes /\ (OneCommand => FileOK /\ CertOK /\ PinsOK)

-----------------------------------------------------------------------------
\* The absent file, process or certificate is none of them.
LEMMA NoneFacts == None \notin Pids /\ None \notin Nat /\ OneCommand \in BOOLEAN
  BY DaemonAssumption

\* No process, and the files an earlier run has left.
LEMMA DaemonInitial == Init => DaemonIInv
  <1> SUFFICES ASSUME Init PROVE DaemonIInv
    OBVIOUS
  <1>1. Shapes
    BY DEF Init, Shapes
  <1>2. FileOK /\ CertOK /\ PinsOK
    BY DEF Init, FileOK, CertOK, PinsOK, StartUp, Early, Holders
  <1> QED BY <1>1, <1>2 DEF DaemonIInv

\* A process ends, or is not a proxy: nothing on file depends on it, unless it
\* was writing the pins.
LEMMA ProcessLeaves ==
  ASSUME DaemonIInv, NEW p \in Pids,
         pc' \in [Pids -> {"none", "other"} \cup ProxyStates],
         pc'[p] \in {"none", "other"}, \A q \in Pids \ {p} : pc'[q] = pc[q],
         readCert' \in [Pids -> Nat \cup {None}], ca' \in [Pids -> Nat \cup {None}],
         pins' \in [Pids -> SUBSET Servers], saving' \in [Pids -> BOOLEAN],
         saving'[p] => saving[p],
         \A q \in Pids \ {p} :
           /\ readCert'[q] = readCert[q] /\ ca'[q] = ca[q] /\ pins'[q] = pins[q]
           /\ saving'[q] = saving[q],
         \/ astray' = astray /\ pc[p] \notin Holders
         \/ astray' = (astray \/ pinTorn) /\ ~(saving'[p]),
         UNCHANGED << fileVars, trusted, made >>, stopping' \in {stopping, None}
  PROVE  DaemonIInv'
  <1>1. Shapes'
    BY DEF DaemonIInv, Shapes, fileVars, pinVars
  <1>2. ASSUME OneCommand PROVE FileOK'
    BY <1>2, NoneFacts DEF DaemonIInv, FileOK, fileVars, StartUp, Early, Holders
  <1>3. ASSUME OneCommand PROVE CertOK'
    BY <1>3 DEF DaemonIInv, CertOK, fileVars
  <1>4. ASSUME OneCommand PROVE PinsOK'
    <2> SUFFICES ASSUME ~(astray') PROVE PinsOK'
      BY DEF PinsOK
    <2>1. /\ PinsOK /\ ~astray /\ UNCHANGED << pinFile, pinTorn >>
          /\ pc[p] \notin Holders \/ ~pinTorn
      BY <1>4 DEF DaemonIInv, Shapes, fileVars, pinVars
    <2>2. ~(saving'[p])
      BY <2>1 DEF PinsOK
    <2>3. \A q \in Pids : saving'[q] => q # p /\ saving[q] /\ pc'[q] = pc[q] /\ pins'[q] = pins[q]
      BY <2>2
    <2>4. ASSUME NEW q \in Pids,
                 pc'[q] \in StartUp \cup {"run", "pins", "save"} \/ saving'[q]
          PROVE  pinFile' \subseteq pins'[q]
      <3>1. q # p
        BY <2>2, <2>4 DEF StartUp
      <3> QED BY <2>1, <2>4, <3>1 DEF PinsOK
    <2>5. ASSUME pinTorn'
          PROVE  \E q \in Pids : pc'[q] = "save" \/ saving'[q]
      <3>1. PICK q \in Pids : pc[q] = "save" \/ saving[q]
        BY <2>1, <2>5 DEF PinsOK
      <3>2. q # p
        BY <2>1, <2>5, <3>1 DEF PinsOK, Holders
      <3> QED BY <3>1, <3>2
    <2> QED BY <2>1, <2>3, <2>4, <2>5 DEF PinsOK
  <1> QED BY <1>1, <1>2, <1>3, <1>4 DEF DaemonIInv

\* A process that is gone.
LEMMA GoneLeaves ==
  ASSUME DaemonIInv, NEW p \in Pids, Gone(p),
         \/ astray' = astray /\ pc[p] \notin Holders
         \/ astray' = (astray \/ pinTorn),
         UNCHANGED << fileVars, trusted, made >>, stopping' \in {stopping, None}
  PROVE  DaemonIInv'
  <1>1. Shapes
    BY DEF DaemonIInv
  <1>2. /\ pc' \in [Pids -> {"none", "other"} \cup ProxyStates] /\ pc'[p] = "none"
        /\ \A q \in Pids \ {p} : pc'[q] = pc[q]
        /\ readCert' \in [Pids -> Nat \cup {None}]
        /\ ca' \in [Pids -> Nat \cup {None}]
        /\ pins' \in [Pids -> SUBSET Servers]
        /\ saving' \in [Pids -> BOOLEAN] /\ ~(saving'[p])
        /\ \A q \in Pids \ {p} :
             /\ readCert'[q] = readCert[q] /\ ca'[q] = ca[q] /\ pins'[q] = pins[q]
             /\ saving'[q] = saving[q]
    BY <1>1 DEF Shapes, Gone
  <1> QED BY <1>2, ProcessLeaves

\* A process that moves on, in the states of a proxy.
LEMMA Moves ==
  ASSUME Shapes, NEW p \in Pids, NEW x \in ProxyStates, pc' = [pc EXCEPT ![p] = x]
  PROVE  /\ pc' \in [Pids -> {"none", "other"} \cup ProxyStates]
         /\ pc'[p] = x /\ \A q \in Pids \ {p} : pc'[q] = pc[q]
  BY DEF Shapes

\* A process uses the certificate on file.
LEMMA ReadCertStep ==
  ASSUME DaemonIInv, NEW p \in Pids, ReadCert(p)
  PROVE  DaemonIInv'
  <1>1. Shapes /\ "key" \in ProxyStates
    BY DEF DaemonIInv, ProxyStates, StartUp, CleanUp
  <1>2. /\ pc[p] = "ca" /\ pc' = [pc EXCEPT ![p] = "key"]
        /\ UNCHANGED << ca, pins, pidFile, certFile, keyFile, pinFile,
                        stopping, trusted, made, saving, pinTorn, astray >>
    BY DEF ReadCert, fileVars, pinVars
  <1>3. /\ pc' \in [Pids -> {"none", "other"} \cup ProxyStates]
        /\ pc'[p] = "key" /\ \A q \in Pids \ {p} : pc'[q] = pc[q]
    BY <1>1, <1>2, Moves
  <1>4. /\ readCert' \in [Pids -> Nat \cup {None}] /\ readCert'[p] = certFile
        /\ \A q \in Pids \ {p} : readCert'[q] = readCert[q]
    BY <1>1 DEF ReadCert, Shapes
  <1>5. Shapes'
    BY <1>1, <1>2, <1>3, <1>4 DEF Shapes
  <1>6. ASSUME OneCommand PROVE FileOK'
    BY <1>1, <1>2, <1>3, <1>6, NoneFacts
       DEF DaemonIInv, Shapes, FileOK, StartUp, CleanUp, ProxyStates, Early, Holders
  <1>7. ASSUME OneCommand PROVE CertOK'
    BY <1>1, <1>2, <1>3, <1>7, NoneFacts, <1>4
       DEF DaemonIInv, Shapes, FileOK, CertOK, StartUp, CleanUp, ProxyStates, Early, Holders
  <1>8. ASSUME OneCommand PROVE PinsOK'
    BY <1>1, <1>2, <1>3, <1>8
       DEF DaemonIInv, Shapes, FileOK, PinsOK, StartUp, CleanUp, ProxyStates, Early, Holders
  <1> QED BY <1>5, <1>6, <1>7, <1>8 DEF DaemonIInv

\* The certificate is written before its key.
LEMMA WriteCertStep ==
  ASSUME DaemonIInv, NEW p \in Pids, WriteCert(p)
  PROVE  DaemonIInv'
  <1>1. Shapes /\ "writekey" \in ProxyStates
    BY DEF DaemonIInv, ProxyStates, StartUp, CleanUp
  <1>2. /\ pc[p] = "writecert" /\ pc' = [pc EXCEPT ![p] = "writekey"]
        /\ UNCHANGED << readCert, ca, pins, pidFile, keyFile, pinFile,
                        stopping, trusted, made, saving, pinTorn, astray >>
    BY DEF WriteCert, fileVars, pinVars
  <1>3. /\ pc' \in [Pids -> {"none", "other"} \cup ProxyStates]
        /\ pc'[p] = "writekey" /\ \A q \in Pids \ {p} : pc'[q] = pc[q]
    BY <1>1, <1>2, Moves
  <1>4. certFile' = ca[p]
    BY DEF WriteCert
  <1>5. Shapes'
    BY <1>1, <1>2, <1>3, <1>4 DEF Shapes
  <1>6. ASSUME OneCommand PROVE FileOK'
    BY <1>1, <1>2, <1>3, <1>6, NoneFacts
       DEF DaemonIInv, Shapes, FileOK, StartUp, CleanUp, ProxyStates, Early, Holders
  <1>7. ASSUME OneCommand PROVE CertOK'
    BY <1>1, <1>2, <1>3, <1>7, NoneFacts, <1>4
       DEF DaemonIInv, Shapes, FileOK, CertOK, StartUp, CleanUp, ProxyStates, Early, Holders
  <1>8. ASSUME OneCommand PROVE PinsOK'
    BY <1>1, <1>2, <1>3, <1>8
       DEF DaemonIInv, Shapes, FileOK, PinsOK, StartUp, CleanUp, ProxyStates, Early, Holders
  <1> QED BY <1>5, <1>6, <1>7, <1>8 DEF DaemonIInv

\* The key completes the pair.
LEMMA WriteKeyStep ==
  ASSUME DaemonIInv, NEW p \in Pids, WriteKey(p)
  PROVE  DaemonIInv'
  <1>1. Shapes /\ "listen" \in ProxyStates
    BY DEF DaemonIInv, ProxyStates, StartUp, CleanUp
  <1>2. /\ pc[p] = "writekey" /\ pc' = [pc EXCEPT ![p] = "listen"]
        /\ UNCHANGED << readCert, ca, pins, pidFile, certFile, pinFile,
                        stopping, trusted, made, saving, pinTorn, astray >>
    BY DEF WriteKey, fileVars, pinVars
  <1>3. /\ pc' \in [Pids -> {"none", "other"} \cup ProxyStates]
        /\ pc'[p] = "listen" /\ \A q \in Pids \ {p} : pc'[q] = pc[q]
    BY <1>1, <1>2, Moves
  <1>4. keyFile' = ca[p]
    BY DEF WriteKey
  <1>5. Shapes'
    BY <1>1, <1>2, <1>3, <1>4 DEF Shapes
  <1>6. ASSUME OneCommand PROVE FileOK'
    BY <1>1, <1>2, <1>3, <1>6, NoneFacts
       DEF DaemonIInv, Shapes, FileOK, StartUp, CleanUp, ProxyStates, Early, Holders
  <1>7. ASSUME OneCommand PROVE CertOK'
    BY <1>1, <1>2, <1>3, <1>7, NoneFacts, <1>4
       DEF DaemonIInv, Shapes, FileOK, CertOK, StartUp, CleanUp, ProxyStates, Early, Holders
  <1>8. ASSUME OneCommand PROVE PinsOK'
    BY <1>1, <1>2, <1>3, <1>8
       DEF DaemonIInv, Shapes, FileOK, PinsOK, StartUp, CleanUp, ProxyStates, Early, Holders
  <1> QED BY <1>5, <1>6, <1>7, <1>8 DEF DaemonIInv

\* The PID file names the process that writes it.
LEMMA WritePIDStep ==
  ASSUME DaemonIInv, NEW p \in Pids, WritePIDFile(p)
  PROVE  DaemonIInv'
  <1>1. Shapes /\ "port" \in ProxyStates
    BY DEF DaemonIInv, ProxyStates, StartUp, CleanUp
  <1>2. /\ pc[p] = "pid" /\ pc' = [pc EXCEPT ![p] = "port"]
        /\ UNCHANGED << readCert, ca, pins, certFile, keyFile, pinFile,
                        stopping, trusted, made, saving, pinTorn, astray >>
    BY DEF WritePIDFile, fileVars, pinVars
  <1>3. /\ pc' \in [Pids -> {"none", "other"} \cup ProxyStates]
        /\ pc'[p] = "port" /\ \A q \in Pids \ {p} : pc'[q] = pc[q]
    BY <1>1, <1>2, Moves
  <1>4. pidFile' = p
    BY DEF WritePIDFile
  <1>5. Shapes'
    BY <1>1, <1>2, <1>3, <1>4 DEF Shapes
  <1>6. ASSUME OneCommand PROVE FileOK'
    BY <1>1, <1>2, <1>3, <1>6, NoneFacts, <1>4
       DEF DaemonIInv, Shapes, FileOK, StartUp, CleanUp, ProxyStates, Early, Holders
  <1>7. ASSUME OneCommand PROVE CertOK'
    BY <1>1, <1>2, <1>3, <1>7, NoneFacts
       DEF DaemonIInv, Shapes, FileOK, CertOK, StartUp, CleanUp, ProxyStates, Early, Holders
  <1>8. ASSUME OneCommand PROVE PinsOK'
    BY <1>1, <1>2, <1>3, <1>8
       DEF DaemonIInv, Shapes, FileOK, PinsOK, StartUp, CleanUp, ProxyStates, Early, Holders
  <1> QED BY <1>5, <1>6, <1>7, <1>8 DEF DaemonIInv

\* The port file follows.
LEMMA WritePortStep ==
  ASSUME DaemonIInv, NEW p \in Pids, WritePortFile(p)
  PROVE  DaemonIInv'
  <1>1. Shapes /\ "run" \in ProxyStates
    BY DEF DaemonIInv, ProxyStates, StartUp, CleanUp
  <1>2. /\ pc[p] = "port" /\ pc' = [pc EXCEPT ![p] = "run"]
        /\ UNCHANGED << readCert, ca, pins, pidFile, certFile, keyFile,
                        pinFile, stopping, trusted, made, saving, pinTorn, astray >>
    BY DEF WritePortFile, fileVars, pinVars
  <1>3. /\ pc' \in [Pids -> {"none", "other"} \cup ProxyStates]
        /\ pc'[p] = "run" /\ \A q \in Pids \ {p} : pc'[q] = pc[q]
    BY <1>1, <1>2, Moves
  <1>4. Shapes'
    BY <1>1, <1>2, <1>3 DEF Shapes
  <1>5. ASSUME OneCommand PROVE FileOK'
    BY <1>1, <1>2, <1>3, <1>5, NoneFacts
       DEF DaemonIInv, Shapes, FileOK, StartUp, CleanUp, ProxyStates, Early, Holders
  <1>6. ASSUME OneCommand PROVE CertOK'
    BY <1>1, <1>2, <1>3, <1>6, NoneFacts
       DEF DaemonIInv, Shapes, FileOK, CertOK, StartUp, CleanUp, ProxyStates, Early, Holders
  <1>7. ASSUME OneCommand PROVE PinsOK'
    BY <1>1, <1>2, <1>3, <1>7
       DEF DaemonIInv, Shapes, FileOK, PinsOK, StartUp, CleanUp, ProxyStates, Early, Holders
  <1> QED BY <1>4, <1>5, <1>6, <1>7 DEF DaemonIInv

\* A process that shuts down goes on to its clean-up.
LEMMA ShutDownStep ==
  ASSUME DaemonIInv, NEW p \in Pids, ShutDown(p)
  PROVE  DaemonIInv'
  <1>1. Shapes /\ "pins" \in ProxyStates
    BY DEF DaemonIInv, ProxyStates, StartUp, CleanUp
  <1>2. /\ pc[p] = "run" /\ pc' = [pc EXCEPT ![p] = "pins"]
        /\ UNCHANGED << readCert, ca, pins, pidFile, certFile, keyFile,
                        pinFile, stopping, trusted, made, saving, pinTorn, astray >>
    BY DEF ShutDown, fileVars, pinVars
  <1>3. /\ pc' \in [Pids -> {"none", "other"} \cup ProxyStates]
        /\ pc'[p] = "pins" /\ \A q \in Pids \ {p} : pc'[q] = pc[q]
    BY <1>1, <1>2, Moves
  <1>4. Shapes'
    BY <1>1, <1>2, <1>3 DEF Shapes
  <1>5. ASSUME OneCommand PROVE FileOK'
    BY <1>1, <1>2, <1>3, <1>5, NoneFacts
       DEF DaemonIInv, Shapes, FileOK, StartUp, CleanUp, ProxyStates, Early, Holders
  <1>6. ASSUME OneCommand PROVE CertOK'
    BY <1>1, <1>2, <1>3, <1>6, NoneFacts
       DEF DaemonIInv, Shapes, FileOK, CertOK, StartUp, CleanUp, ProxyStates, Early, Holders
  <1>7. ASSUME OneCommand PROVE PinsOK'
    BY <1>1, <1>2, <1>3, <1>7
       DEF DaemonIInv, Shapes, FileOK, PinsOK, StartUp, CleanUp, ProxyStates, Early, Holders
  <1> QED BY <1>4, <1>5, <1>6, <1>7 DEF DaemonIInv

\* The clean-up's save truncates the file.
LEMMA SavePinsStep ==
  ASSUME DaemonIInv, NEW p \in Pids, SavePins(p)
  PROVE  DaemonIInv'
  <1>1. Shapes /\ "save" \in ProxyStates
    BY DEF DaemonIInv, ProxyStates, StartUp, CleanUp
  <1>2. /\ pc[p] = "pins" /\ pc' = [pc EXCEPT ![p] = "save"] /\ pinTorn' = TRUE
        /\ UNCHANGED << readCert, ca, pins, pidFile, certFile, keyFile, pinFile,
                        stopping, trusted, made, saving, astray >>
    BY DEF SavePins
  <1>3. /\ pc' \in [Pids -> {"none", "other"} \cup ProxyStates]
        /\ pc'[p] = "save" /\ \A q \in Pids \ {p} : pc'[q] = pc[q]
    BY <1>1, <1>2, Moves
  <1>4. Shapes'
    BY <1>1, <1>2, <1>3 DEF Shapes
  <1>5. ASSUME OneCommand PROVE FileOK'
    BY <1>1, <1>2, <1>3, <1>5, NoneFacts
       DEF DaemonIInv, Shapes, FileOK, StartUp, CleanUp, ProxyStates, Early, Holders
  <1>6. ASSUME OneCommand PROVE CertOK'
    BY <1>1, <1>2, <1>3, <1>6, NoneFacts
       DEF DaemonIInv, Shapes, FileOK, CertOK, StartUp, CleanUp, ProxyStates, Early, Holders
  <1>7. ASSUME OneCommand PROVE PinsOK'
    BY <1>1, <1>2, <1>3, <1>7
       DEF DaemonIInv, PinsOK, StartUp, Holders
  <1> QED BY <1>4, <1>5, <1>6, <1>7 DEF DaemonIInv

\* A process that the PID file names writes its pins: nobody else has any.
LEMMA Saved ==
  ASSUME Shapes, FileOK, PinsOK, ~astray, NEW p \in Pids,
         pc[p] = "save" \/ saving[p],
         pc[p] = "save" => pc'[p] = "rmpid", pc[p] # "save" => pc'[p] = pc[p],
         \A q \in Pids \ {p} : pc'[q] = pc[q] /\ saving'[q] = saving[q],
         saving'[p] => saving[p], pins' = pins, pinFile' = pins[p], ~(pinTorn'),
         UNCHANGED astray
  PROVE  PinsOK' /\ pinFile \subseteq pinFile'
  <1>1. pc[p] \in Holders /\ pinFile \subseteq pins[p]
    BY DEF PinsOK, Holders
  <1>2. \A q \in Pids \ {p} : pc[q] \notin Holders \cup Early
    BY <1>1, NoneFacts DEF FileOK
  <1>3. \A q \in Pids \ {p} : ~saving[q] /\ pc[q] \notin StartUp \cup {"run", "pins", "save"}
    BY <1>2 DEF PinsOK, Holders, Early
  <1>4. \A q \in Pids \ {p} :
          ~(saving'[q]) /\ pc'[q] \notin StartUp \cup {"run", "pins", "save"}
    BY <1>3
  <1>5. saving'[p] => pc'[p] \in Holders
    BY <1>1 DEF Holders
  <1>6. \A q \in Pids : saving'[q] => pc'[q] \in Holders
    BY <1>4, <1>5
  <1>7. \A q \in Pids : pc'[q] \in StartUp \cup {"run", "pins", "save"} \/ saving'[q] => q = p
    BY <1>4
  <1> QED BY <1>1, <1>6, <1>7 DEF PinsOK

\* The clean-up writes the pins.
LEMMA WritePinsStep ==
  ASSUME DaemonIInv, NEW p \in Pids, WritePins(p)
  PROVE  DaemonIInv' /\ (OneCommand /\ ~astray => pinFile \subseteq pinFile')
  <1>1. Shapes /\ "rmpid" \in ProxyStates
    BY DEF DaemonIInv, ProxyStates, StartUp, CleanUp
  <1>2. /\ pc[p] = "save" /\ pc' = [pc EXCEPT ![p] = "rmpid"]
        /\ pinFile' = pins[p] /\ pinTorn' = FALSE
        /\ UNCHANGED << readCert, ca, pins, pidFile, certFile, keyFile,
                        stopping, trusted, made, saving, astray >>
    BY DEF WritePins
  <1>3. /\ pc' \in [Pids -> {"none", "other"} \cup ProxyStates]
        /\ pc'[p] = "rmpid" /\ \A q \in Pids \ {p} : pc'[q] = pc[q]
    BY <1>1, <1>2, Moves
  <1>4. Shapes'
    BY <1>1, <1>2, <1>3 DEF Shapes
  <1>5. ASSUME OneCommand PROVE FileOK'
    BY <1>1, <1>2, <1>3, <1>5, NoneFacts
       DEF DaemonIInv, Shapes, FileOK, StartUp, CleanUp, ProxyStates, Early, Holders
  <1>6. ASSUME OneCommand PROVE CertOK'
    BY <1>1, <1>2, <1>3, <1>6, NoneFacts
       DEF DaemonIInv, Shapes, FileOK, CertOK, StartUp, CleanUp, ProxyStates, Early, Holders
  <1>7. ASSUME OneCommand, ~astray PROVE PinsOK' /\ pinFile \subseteq pinFile'
    BY <1>1, <1>2, <1>3, <1>7, Saved DEF DaemonIInv
  <1>8. ASSUME OneCommand PROVE PinsOK'
    <2>1. CASE astray
      BY <1>2, <2>1 DEF PinsOK
    <2> QED BY <1>7, <1>8, <2>1
  <1> QED BY <1>4, <1>5, <1>6, <1>7, <1>8 DEF DaemonIInv

\* A connection writes the pins.
LEMMA StreamWritesStep ==
  ASSUME DaemonIInv, NEW p \in Pids, StreamWrites(p)
  PROVE  DaemonIInv' /\ (OneCommand /\ ~astray => pinFile \subseteq pinFile')
  <1>1. /\ Shapes /\ saving[p] /\ saving' = [saving EXCEPT ![p] = FALSE]
        /\ pinFile' = pins[p] /\ pinTorn' = FALSE
        /\ UNCHANGED << pc, readCert, ca, pins, pidFile, certFile, keyFile,
                        stopping, trusted, made, astray >>
    BY DEF DaemonIInv, StreamWrites
  <1>2. /\ saving' \in [Pids -> BOOLEAN] /\ ~(saving'[p])
        /\ \A q \in Pids \ {p} : saving'[q] = saving[q]
    BY <1>1 DEF Shapes
  <1>3. Shapes'
    BY <1>1, <1>2 DEF Shapes
  <1>4. ASSUME OneCommand PROVE FileOK' /\ CertOK'
    BY <1>1, <1>4 DEF DaemonIInv, FileOK, CertOK
  <1>5. ASSUME OneCommand, ~astray PROVE PinsOK' /\ pinFile \subseteq pinFile'
    <2>1. /\ pc[p] \in Holders /\ pinFile \subseteq pins[p]
          /\ \A q \in Pids \ {p} : pc[q] \notin Holders \cup Early
      BY <1>1, <1>5, NoneFacts DEF DaemonIInv, FileOK, PinsOK
    <2>2. \A q \in Pids \ {p} : ~saving[q] /\ pc[q] \notin StartUp \cup {"run", "pins", "save"}
      BY <1>5, <2>1 DEF DaemonIInv, PinsOK, Holders, Early
    <2>3. \A q \in Pids : ~(saving'[q])
      BY <1>2, <2>2
    <2> QED BY <1>1, <2>1, <2>2, <2>3 DEF PinsOK
  <1>6. ASSUME OneCommand PROVE PinsOK'
    <2>1. CASE astray
      BY <1>1, <2>1 DEF PinsOK
    <2> QED BY <1>5, <1>6, <2>1
  <1> QED BY <1>3, <1>4, <1>5, <1>6 DEF DaemonIInv

\* The clean-up removes the PID file.
LEMMA RemovePIDStep ==
  ASSUME DaemonIInv, NEW p \in Pids, RemovePIDFile(p)
  PROVE  DaemonIInv'
  <1>1. Shapes /\ "rmport" \in ProxyStates
    BY DEF DaemonIInv, ProxyStates, StartUp, CleanUp
  <1>2. /\ pc[p] = "rmpid" /\ pc' = [pc EXCEPT ![p] = "rmport"]
        /\ UNCHANGED << readCert, ca, pins, certFile, keyFile, pinFile,
                        stopping, trusted, made, saving, pinTorn >>
    BY DEF RemovePIDFile, fileVars, pinVars
  <1>3. /\ pc' \in [Pids -> {"none", "other"} \cup ProxyStates]
        /\ pc'[p] = "rmport" /\ \A q \in Pids \ {p} : pc'[q] = pc[q]
    BY <1>1, <1>2, Moves
  <1>4. pidFile' = None /\ astray' = (astray \/ saving[p])
    BY DEF RemovePIDFile
  <1>5. Shapes'
    BY <1>1, <1>2, <1>3, <1>4 DEF Shapes
  <1>6. ASSUME OneCommand PROVE FileOK'
    BY <1>1, <1>2, <1>3, <1>6, NoneFacts, <1>4
       DEF DaemonIInv, Shapes, FileOK, StartUp, CleanUp, ProxyStates, Early, Holders
  <1>7. ASSUME OneCommand PROVE CertOK'
    BY <1>1, <1>2, <1>3, <1>7, NoneFacts
       DEF DaemonIInv, Shapes, FileOK, CertOK, StartUp, CleanUp, ProxyStates, Early, Holders
  <1>8. ASSUME OneCommand PROVE PinsOK'
    BY <1>1, <1>2, <1>3, <1>4, <1>8
       DEF DaemonIInv, PinsOK, StartUp, Holders
  <1> QED BY <1>5, <1>6, <1>7, <1>8 DEF DaemonIInv

\* It removes the port file then.
LEMMA RemovePortStep ==
  ASSUME DaemonIInv, NEW p \in Pids, RemovePortFile(p)
  PROVE  DaemonIInv'
  <1>1. Shapes /\ "report" \in ProxyStates
    BY DEF DaemonIInv, ProxyStates, StartUp, CleanUp
  <1>2. /\ pc[p] = "rmport" /\ pc' = [pc EXCEPT ![p] = "report"]
        /\ UNCHANGED << readCert, ca, pins, pidFile, certFile, keyFile,
                        pinFile, stopping, trusted, made, saving, pinTorn, astray >>
    BY DEF RemovePortFile, fileVars, pinVars
  <1>3. /\ pc' \in [Pids -> {"none", "other"} \cup ProxyStates]
        /\ pc'[p] = "report" /\ \A q \in Pids \ {p} : pc'[q] = pc[q]
    BY <1>1, <1>2, Moves
  <1>4. Shapes'
    BY <1>1, <1>2, <1>3 DEF Shapes
  <1>5. ASSUME OneCommand PROVE FileOK'
    BY <1>1, <1>2, <1>3, <1>5, NoneFacts
       DEF DaemonIInv, Shapes, FileOK, StartUp, CleanUp, ProxyStates, Early, Holders
  <1>6. ASSUME OneCommand PROVE CertOK'
    BY <1>1, <1>2, <1>3, <1>6, NoneFacts
       DEF DaemonIInv, Shapes, FileOK, CertOK, StartUp, CleanUp, ProxyStates, Early, Holders
  <1>7. ASSUME OneCommand PROVE PinsOK'
    BY <1>1, <1>2, <1>3, <1>7
       DEF DaemonIInv, Shapes, FileOK, PinsOK, StartUp, CleanUp, ProxyStates, Early, Holders
  <1> QED BY <1>4, <1>5, <1>6, <1>7 DEF DaemonIInv

\* CheckAgain goes on, or the process is gone.
LEMMA CheckAgainStep ==
  ASSUME DaemonIInv, NEW p \in Pids, CheckAgain(p)
  PROVE  DaemonIInv'
  <1>1. CASE RunningFor(p)
    BY <1>1, GoneLeaves DEF CheckAgain, Holders
  <1>2. CASE ~RunningFor(p)
    <2>1. Shapes /\ "ca" \in ProxyStates
      BY DEF DaemonIInv, ProxyStates, StartUp
    <2>2. /\ pc[p] = "new" /\ pc' = [pc EXCEPT ![p] = "ca"]
          /\ UNCHANGED << readCert, ca, pins, pidFile, certFile, keyFile, pinFile,
                          stopping, trusted, made, saving, pinTorn, astray >>
      BY <1>2 DEF CheckAgain, fileVars, pinVars
    <2>3. /\ pc' \in [Pids -> {"none", "other"} \cup ProxyStates]
          /\ pc'[p] = "ca" /\ \A q \in Pids \ {p} : pc'[q] = pc[q]
      BY <2>1, <2>2, Moves
    <2>4. Shapes'
      BY <2>1, <2>2, <2>3 DEF Shapes
    <2>5. ASSUME OneCommand PROVE FileOK' /\ CertOK' /\ PinsOK'
      BY <2>1, <2>2, <2>3, <2>5
         DEF DaemonIInv, Shapes, FileOK, CertOK, PinsOK, StartUp, CleanUp, ProxyStates, Early, Holders
    <2> QED BY <2>4, <2>5 DEF DaemonIInv
  <1> QED BY <1>1, <1>2

\* A start-up that finds no proxy running loads a file that nobody is saving.
LEMMA LoadsWhole ==
  ASSUME DaemonIInv, OneCommand, ~astray, NEW p \in Pids, ~RunningFor(p)
  PROVE  ~pinTorn /\ Loaded({}) = pinFile
  <1>1. pidFile = None \/ (pidFile \in Pids /\ pc[pidFile] = "none")
    BY DEF DaemonIInv, Shapes, RunningFor, IsProxyRunning, Alive
  <1>2. \A q \in Pids : pc[q] \notin Holders
    BY <1>1, NoneFacts DEF DaemonIInv, FileOK, Holders
  <1>3. ~pinTorn
    BY <1>2 DEF DaemonIInv, PinsOK, Holders
  <1> QED BY <1>3 DEF Loaded

\* A start-up that finds no proxy running: no proxy is named by the PID file,
\* so that none serves and none is about to save its pins.
LEMMA ProxyStartStep ==
  ASSUME DaemonIInv, NEW p \in Pids, NEW port \in Ports, ProxyStart(p, port)
  PROVE  DaemonIInv'
  <1>1. Shapes /\ "new" \in ProxyStates
    BY DEF DaemonIInv, ProxyStates, StartUp
  <1>2. UNCHANGED << readCert, ca, pidFile, certFile, keyFile, pinFile, stopping,
                     trusted, made, saving, pinTorn, astray >>
    BY DEF ProxyStart, fileVars, pinVars
  <1>3. CASE RunningFor(p)
    <2>1. UNCHANGED << pc, pins >>
      BY <1>3 DEF ProxyStart
    <2> QED BY <1>2, <2>1 DEF DaemonIInv, Shapes, FileOK, CertOK, PinsOK
  <1>4. CASE ~RunningFor(p)
    <2>1. /\ pc[p] = "none" /\ pc' = [pc EXCEPT ![p] = "new"]
          /\ pins' = [pins EXCEPT ![p] = Loaded({})]
          /\ OneCommand => /\ stopping = None
                           /\ \A q \in Pids \ {p} : pc[q] \notin StartUp
      BY <1>4 DEF ProxyStart, NobodyElseBusy
    <2>2. /\ pc' \in [Pids -> {"none", "other"} \cup ProxyStates]
          /\ pc'[p] = "new" /\ \A q \in Pids \ {p} : pc'[q] = pc[q]
      BY <1>1, <2>1, Moves
    <2>3. /\ pins' \in [Pids -> SUBSET Servers] /\ pins'[p] = Loaded({})
          /\ \A q \in Pids \ {p} : pins'[q] = pins[q]
      BY <1>1, <2>1 DEF Shapes, Loaded
    <2>4. pidFile = None \/ (pidFile \in Pids /\ pc[pidFile] = "none")
      BY <1>1, <1>4 DEF Shapes, RunningFor, IsProxyRunning, Alive
    <2>5. Shapes'
      BY <1>1, <1>2, <2>2, <2>3 DEF Shapes
    <2>6. ASSUME OneCommand PROVE \A q \in Pids : pc[q] \notin Holders
      BY <2>4, <2>6, NoneFacts DEF DaemonIInv, FileOK, Holders
    <2>7. ASSUME OneCommand PROVE FileOK'
      BY <1>2, <2>1, <2>2, <2>6, <2>7
         DEF DaemonIInv, FileOK, StartUp, CleanUp, ProxyStates, Early, Holders
    <2>8. ASSUME OneCommand PROVE CertOK'
      BY <1>2, <2>1, <2>2, <2>3, <2>8
         DEF DaemonIInv, CertOK, StartUp, CleanUp, ProxyStates, Early, Holders
    <2>9. ASSUME OneCommand, ~astray PROVE PinsOK'
      <3>1. ~pinTorn /\ pins'[p] = pinFile
        BY <1>4, <2>3, <2>9, LoadsWhole
      <3> QED BY <1>2, <2>2, <2>3, <2>6, <2>9, <3>1 DEF DaemonIInv, PinsOK
    <2>10. ASSUME OneCommand PROVE PinsOK'
      <3>1. CASE astray
        BY <1>2, <3>1 DEF PinsOK
      <3> QED BY <2>9, <2>10, <3>1
    <2> QED BY <2>5, <2>7, <2>8, <2>10 DEF DaemonIInv
  <1> QED BY <1>3, <1>4

\* LoadOrCreateCA: the pair that was read is the pair on file, or a new one is
\* made, which has the key of neither file.
LEMMA ReadKeyStep ==
  ASSUME DaemonIInv, NEW p \in Pids, ReadKey(p)
  PROVE  DaemonIInv'
  <1>1. Shapes /\ {"listen", "writecert"} \subseteq ProxyStates
    BY DEF DaemonIInv, ProxyStates, StartUp
  <1>2. /\ pc[p] = "key"
        /\ UNCHANGED << readCert, pins, pidFile, certFile, keyFile, pinFile, stopping,
                        trusted, saving, pinTorn, astray >>
    BY DEF ReadKey, fileVars, pinVars
  <1>3. CASE readCert[p] # None /\ readCert[p] = keyFile
    <2>1. /\ ca' = [ca EXCEPT ![p] = keyFile] /\ pc' = [pc EXCEPT ![p] = "listen"]
          /\ UNCHANGED made
      BY <1>3 DEF ReadKey
    <2>2. /\ pc' \in [Pids -> {"none", "other"} \cup ProxyStates]
          /\ pc'[p] = "listen" /\ \A q \in Pids \ {p} : pc'[q] = pc[q]
      BY <1>1, <2>1, Moves
    <2>3. /\ ca' \in [Pids -> Nat \cup {None}] /\ ca'[p] = keyFile
          /\ \A q \in Pids \ {p} : ca'[q] = ca[q]
      BY <1>1, <2>1 DEF Shapes
    <2>4. Shapes'
      BY <1>1, <1>2, <2>1, <2>2, <2>3 DEF Shapes
    <2>5. ASSUME OneCommand PROVE FileOK' /\ PinsOK'
      BY <1>2, <2>2, <2>5 DEF DaemonIInv, FileOK, PinsOK, StartUp, CleanUp, ProxyStates, Early, Holders
    <2>6. ASSUME OneCommand PROVE CertOK'
      BY <1>2, <1>3, <2>1, <2>2, <2>3, <2>6 DEF DaemonIInv, CertOK
    <2> QED BY <2>4, <2>5, <2>6 DEF DaemonIInv
  <1>4. CASE ~(readCert[p] # None /\ readCert[p] = keyFile)
    <2>1. /\ ca' = [ca EXCEPT ![p] = made + 1] /\ pc' = [pc EXCEPT ![p] = "writecert"]
          /\ made' = made + 1
      BY <1>4 DEF ReadKey
    <2>2. /\ pc' \in [Pids -> {"none", "other"} \cup ProxyStates]
          /\ pc'[p] = "writecert" /\ \A q \in Pids \ {p} : pc'[q] = pc[q]
      BY <1>1, <2>1, Moves
    <2>3. /\ ca' \in [Pids -> Nat \cup {None}] /\ ca'[p] = made + 1
          /\ \A q \in Pids \ {p} : ca'[q] = ca[q]
          /\ made \in Nat /\ 1 .. made \subseteq 1 .. made' /\ made + 1 \in 1 .. made'
          /\ made + 1 \notin 1 .. made /\ made + 1 # None
      BY <1>1, <2>1, NoneFacts DEF Shapes
    <2>4. Shapes'
      BY <1>1, <1>2, <2>1, <2>2, <2>3 DEF Shapes
    <2>5. ASSUME OneCommand PROVE FileOK' /\ PinsOK'
      BY <1>2, <2>2, <2>5 DEF DaemonIInv, FileOK, PinsOK, StartUp, CleanUp, ProxyStates, Early, Holders
    <2>6. ASSUME OneCommand PROVE CertOK'
      <3>1. readCert[p] = certFile /\ ca'[p] # keyFile
        BY <1>1, <1>2, <2>3, <2>6 DEF DaemonIInv, CertOK, Shapes
      <3> QED BY <1>1, <1>2, <1>4, <2>2, <2>3, <2>6, <3>1 DEF DaemonIInv, CertOK
    <2> QED BY <2>4, <2>5, <2>6 DEF DaemonIInv
  <1> QED BY <1>3, <1>4

\* A process listens on a port that is free.
LEMMA ListenStep ==
  ASSUME DaemonIInv, NEW p \in Pids, Listen(p)
  PROVE  DaemonIInv'
  <1>1. CASE bound[portOf[p]] # None
    BY <1>1, GoneLeaves DEF Listen, Holders
  <1>2. CASE bound[portOf[p]] = None
    <2>1. Shapes /\ "pid" \in ProxyStates
      BY DEF DaemonIInv, ProxyStates, StartUp
    <2>2. /\ pc[p] = "listen" /\ pc' = [pc EXCEPT ![p] = "pid"]
          /\ UNCHANGED << readCert, ca, pins, pidFile, certFile, keyFile, pinFile,
                          stopping, trusted, made, saving, pinTorn, astray >>
      BY <1>2 DEF Listen, fileVars, pinVars
    <2>3. /\ pc' \in [Pids -> {"none", "other"} \cup ProxyStates]
          /\ pc'[p] = "pid" /\ \A q \in Pids \ {p} : pc'[q] = pc[q]
      BY <2>1, <2>2, Moves
    <2>4. Shapes'
      BY <2>1, <2>2, <2>3 DEF Shapes
    <2>5. ASSUME OneCommand PROVE FileOK' /\ PinsOK'
      BY <2>2, <2>3, <2>5 DEF DaemonIInv, FileOK, PinsOK, StartUp, CleanUp, ProxyStates, Early, Holders
    <2>6. ASSUME OneCommand PROVE CertOK'
      BY <2>2, <2>3, <2>6 DEF DaemonIInv, CertOK
    <2> QED BY <2>4, <2>5, <2>6 DEF DaemonIInv
  <1> QED BY <1>1, <1>2

\* A proxy that pins is the one that the file names, or is about to return.
LEMMA StreamPinsStep ==
  ASSUME DaemonIInv, NEW p \in Pids, NEW s \in Servers, StreamPins(p, s)
  PROVE  DaemonIInv'
  <1>1. /\ Shapes /\ pc[p] \in {"run", "pins", "rmpid", "rmport", "report"} /\ ~saving[p]
        /\ pins' = [pins EXCEPT ![p] = Loaded(pins[p]) \cup {s}] /\ pinTorn' = TRUE
        /\ saving' = [saving EXCEPT ![p] = TRUE]
        /\ astray' = (astray \/ pc[p] \in {"rmport", "report"})
        /\ UNCHANGED << pc, readCert, ca, pidFile, certFile, keyFile, pinFile, stopping,
                        trusted, made >>
    BY DEF DaemonIInv, StreamPins
  <1>2. /\ pins' \in [Pids -> SUBSET Servers] /\ pins'[p] = Loaded(pins[p]) \cup {s}
        /\ \A q \in Pids \ {p} : pins'[q] = pins[q]
        /\ saving' \in [Pids -> BOOLEAN] /\ saving'[p]
        /\ \A q \in Pids \ {p} : saving'[q] = saving[q]
    BY <1>1 DEF Shapes, Loaded
  <1>3. Shapes'
    BY <1>1, <1>2 DEF Shapes
  <1>4. ASSUME OneCommand PROVE FileOK' /\ CertOK'
    BY <1>1, <1>4 DEF DaemonIInv, FileOK, CertOK
  <1>5. ASSUME OneCommand PROVE PinsOK'
    <2> SUFFICES ASSUME ~(astray') PROVE PinsOK'
      BY DEF PinsOK
    <2>1. ~astray /\ pc[p] \in {"run", "pins", "rmpid"} /\ pc[p] \in Holders
      BY <1>1 DEF Holders
    <2>2. \A q \in Pids \ {p} : pc[q] \notin Holders \cup Early
      BY <1>5, <2>1, NoneFacts DEF DaemonIInv, FileOK
    <2>3. \A q \in Pids \ {p} : ~saving[q] /\ pc[q] \notin StartUp \cup {"run", "pins", "save"}
      BY <1>5, <2>1, <2>2 DEF DaemonIInv, PinsOK, Holders, Early
    <2>4. ~pinTorn
      BY <1>1, <1>5, <2>1, <2>3 DEF DaemonIInv, PinsOK
    <2>5. pinFile' \subseteq pins'[p]
      BY <1>1, <1>2, <2>4 DEF Loaded
    <2>6. \A q \in Pids : saving'[q] => pc'[q] \in Holders
      BY <1>1, <1>2, <2>1, <2>3
    <2>7. \A q \in Pids : pc'[q] \in StartUp \cup {"run", "pins", "save"} \/ saving'[q] => q = p
      BY <1>1, <1>2, <2>3
    <2> QED BY <1>2, <2>5, <2>6, <2>7 DEF PinsOK
  <1> QED BY <1>3, <1>4, <1>5 DEF DaemonIInv

-----------------------------------------------------------------------------
\* Every step keeps the invariant.
LEMMA DaemonStep ==
  ASSUME DaemonIInv, [Next]_vars
  PROVE  DaemonIInv'
  <1>0. Shapes
    BY DEF DaemonIInv
  <1>1. ASSUME NEW p \in Pids, OtherStarts(p) \/ OtherEnds(p)
        PROVE  DaemonIInv'
    <2>1. /\ pc' \in [Pids -> {"none", "other"} \cup ProxyStates] /\ pc[p] \notin Holders
          /\ pc'[p] \in {"none", "other"} /\ \A q \in Pids \ {p} : pc'[q] = pc[q]
      BY <1>0, <1>1 DEF Shapes, OtherStarts, OtherEnds, Holders
    <2>2. UNCHANGED << readCert, ca, pins, saving, fileVars, trusted, made, astray, stopping >>
      BY <1>1 DEF OtherStarts, OtherEnds
    <2> QED BY <1>0, <2>1, <2>2, ProcessLeaves DEF Shapes
  <1>2. ASSUME NEW p \in Pids, Crash(p) \/ Return(p)
        PROVE  DaemonIInv'
    <2>1. CASE Crash(p)
      BY <2>1, GoneLeaves DEF Crash
    <2>2. CASE Return(p)
      BY <2>2, GoneLeaves DEF Return, Holders
    <2> QED BY <1>2, <2>1, <2>2
  <1>3. CASE StopReads
    <2>1. /\ pidFile # None /\ stopping' = pidFile
          /\ OneCommand => \A p \in Pids : pc[p] \notin Early
          /\ UNCHANGED << pc, readCert, ca, pins, pidFile, certFile, keyFile, pinFile,
                          trusted, made, saving, pinTorn, astray >>
      BY <1>3 DEF StopReads, procVars, fileVars, pinVars
    <2>2. Shapes'
      BY <1>0, <2>1 DEF Shapes
    <2>3. ASSUME OneCommand PROVE FileOK' /\ CertOK' /\ PinsOK'
      BY <2>1, <2>3 DEF DaemonIInv, FileOK, CertOK, PinsOK, Early
    <2> QED BY <2>2, <2>3 DEF DaemonIInv
  <1>4. CASE StopCleansStale
    <2>1. /\ stopping # None /\ pc[stopping] = "none" /\ stopping' = None
          /\ pidFile' = None
          /\ UNCHANGED << pc, readCert, ca, pins, certFile, keyFile, pinFile,
                          trusted, made, saving, pinTorn, astray >>
      BY <1>4 DEF StopCleansStale, procVars, pinVars, Alive
    <2>2. Shapes'
      BY <1>0, <2>1 DEF Shapes
    <2>3. ASSUME OneCommand PROVE FileOK' /\ CertOK' /\ PinsOK'
      <3>1. \A p \in Pids : pc[p] \notin Holders
        BY <2>1, <2>3 DEF DaemonIInv, FileOK, Holders
      <3> QED BY <2>1, <2>3, <3>1 DEF DaemonIInv, FileOK, CertOK, PinsOK
    <2> QED BY <2>2, <2>3 DEF DaemonIInv
  <1>5. CASE StopSignals
    <2>1. /\ stopping \in Pids /\ stopping' = None
          /\ UNCHANGED << fileVars, trusted, made, astray >>
      BY <1>0, <1>5 DEF StopSignals, Shapes
    <2>2. CASE pc[stopping] \in {"other", "new"} /\ Gone(stopping)
      BY <2>1, <2>2, GoneLeaves DEF Holders
    <2>3. CASE UNCHANGED << pc, portOf, readCert, ca, pins, saving >>
      <3>1. Shapes'
        BY <1>0, <2>1, <2>3 DEF Shapes, fileVars, pinVars
      <3>2. ASSUME OneCommand PROVE FileOK' /\ CertOK' /\ PinsOK'
        BY <2>1, <2>3, <3>2 DEF DaemonIInv, FileOK, CertOK, PinsOK, fileVars, pinVars
      <3> QED BY <3>1, <3>2 DEF DaemonIInv
    <2> QED BY <1>5, <2>2, <2>3 DEF StopSignals
  <1>6. CASE ProxyTrust
    <2>1. /\ certFile # None
          /\ trusted' = IF certFile = keyFile THEN certFile ELSE trusted
          /\ UNCHANGED << pc, readCert, ca, pins, pidFile, certFile, keyFile, pinFile,
                          stopping, made, saving, pinTorn, astray >>
      BY <1>6 DEF ProxyTrust, procVars, fileVars, pinVars
    <2>2. Shapes'
      BY <1>0, <2>1 DEF Shapes
    <2>3. ASSUME OneCommand PROVE FileOK' /\ CertOK' /\ PinsOK'
      BY <2>1, <2>3 DEF DaemonIInv, FileOK, CertOK, PinsOK
    <2> QED BY <2>2, <2>3 DEF DaemonIInv
  <1>7. CASE UNCHANGED vars
    BY <1>7 DEF vars, procVars, fileVars, pinVars, DaemonIInv, Shapes, FileOK, CertOK, PinsOK
  <1> QED
    BY <1>1, <1>2, <1>3, <1>4, <1>5, <1>6, <1>7, ProxyStartStep, StreamPinsStep,
       CheckAgainStep, ReadCertStep, ReadKeyStep, WriteCertStep, WriteKeyStep, ListenStep,
       WritePIDStep, WritePortStep, ShutDownStep, SavePinsStep, WritePinsStep,
       StreamWritesStep, RemovePIDStep, RemovePortStep
    DEF Next, ProxyStep

(* For any number of process ids, ports and starts: a proxy that serves is
   named by the PID file (Start, Stop and the clean-up of server.go). *)
THEOREM ServerOnFile == Spec => []ServingIsOnFile
  <1>1. DaemonIInv => ServingIsOnFile
    BY DEF DaemonIInv, FileOK, Holders, ServingIsOnFile
  <1> QED BY <1>1, DaemonInitial, DaemonStep, PTL DEF Spec

(* For any number of starts and crashes: the CA that was trusted is the one on
   disk and the one every serving proxy signs with (LoadOrCreateCA, ca.go). *)
THEOREM TrustedCALasts == Spec => []TrustLasts
  <1>1. DaemonIInv => TrustLasts
    BY DEF DaemonIInv, CertOK, TrustLasts
  <1> QED BY <1>1, DaemonInitial, DaemonStep, PTL DEF Spec

(* No save of any proxy takes a pin from the file and no start loads a file
   that is being saved, as long as no proxy was killed inside a save or saved
   after it had removed its PID file (the clean-up of server.go, in which Save
   comes before the removal of the PID file). *)
THEOREM PinsOnFileStay == Spec => SavedPinsStay
  <1> DEFINE stays == /\ pinFile \subseteq pinFile'
                      /\ \A p \in Pids :
                           pc[p] = "none" /\ pc'[p] = "new" => pins'[p] = pinFile
  <1>1. DaemonIInv /\ [Next]_vars => [OneCommand /\ ~astray => stays]_vars
    <2> SUFFICES ASSUME DaemonIInv, Next, OneCommand, ~astray
                 PROVE  stays
      OBVIOUS
    <2>0. pc \in [Pids -> {"none", "other"} \cup ProxyStates] /\ pins \in [Pids -> SUBSET Servers]
      BY DEF DaemonIInv, Shapes
    <2>1. ASSUME NEW p \in Pids, WritePins(p) \/ StreamWrites(p)
          PROVE  stays
      <3>1. pinFile \subseteq pinFile'
        BY <2>1, WritePinsStep, StreamWritesStep
      <3>2. \A q \in Pids : pc[q] = "none" => pc'[q] = "none"
        BY <2>0, <2>1 DEF WritePins, StreamWrites
      <3> QED BY <3>1, <3>2
    <2>2. ASSUME NEW p \in Pids, NEW port \in Ports, ProxyStart(p, port)
          PROVE  stays
      <3>1. pinFile' = pinFile
        BY <2>2 DEF ProxyStart, fileVars, pinVars
      <3>2. CASE RunningFor(p)
        BY <2>2, <3>1, <3>2 DEF ProxyStart
      <3>3. CASE ~RunningFor(p)
        <4>1. /\ pc' = [pc EXCEPT ![p] = "new"] /\ pins' = [pins EXCEPT ![p] = pinFile]
          BY <2>2, <3>3, LoadsWhole DEF ProxyStart
        <4> QED BY <2>0, <3>1, <4>1
      <3> QED BY <3>2, <3>3
    <2>3. ASSUME pinFile' = pinFile, \A p \in Pids : pc[p] = "none" => pc'[p] # "new"
          PROVE  stays
      BY <2>3
    <2>4. ASSUME NEW p \in Pids,
                 \/ OtherStarts(p) \/ OtherEnds(p) \/ Crash(p) \/ CheckAgain(p)
                 \/ ReadCert(p) \/ ReadKey(p) \/ WriteCert(p) \/ WriteKey(p) \/ Listen(p)
                 \/ WritePIDFile(p) \/ WritePortFile(p) \/ ShutDown(p) \/ SavePins(p)
                 \/ RemovePIDFile(p) \/ RemovePortFile(p) \/ Return(p)
          PROVE  stays
      <3>1. pinFile' = pinFile
        BY <2>4
        DEF OtherStarts, OtherEnds, Crash, CheckAgain, ReadCert, ReadKey, WriteCert,
            WriteKey, Listen, WritePIDFile, WritePortFile, ShutDown, SavePins,
            RemovePIDFile, RemovePortFile, Return, fileVars, pinVars
      <3>2. \A q \in Pids : pc[q] = "none" => pc'[q] # "new"
        BY <2>0, <2>4
        DEF OtherStarts, OtherEnds, Crash, CheckAgain, ReadCert, ReadKey, WriteCert,
            WriteKey, Listen, WritePIDFile, WritePortFile, ShutDown, SavePins,
            RemovePIDFile, RemovePortFile, Return, Gone
      <3> QED BY <2>3, <3>1, <3>2
    <2>5. ASSUME NEW p \in Pids, NEW s \in Servers, StreamPins(p, s)
          PROVE  stays
      BY <2>3, <2>5 DEF StreamPins
    <2>6. CASE StopReads \/ StopCleansStale \/ ProxyTrust
      BY <2>3, <2>6 DEF StopReads, StopCleansStale, ProxyTrust, procVars, fileVars, pinVars
    <2>7. CASE StopSignals
      <3>1. pinFile' = pinFile
        BY <2>7 DEF StopSignals, fileVars, pinVars
      <3>2. \A q \in Pids : pc[q] = "none" => pc'[q] # "new"
        BY <2>0, <2>7 DEF StopSignals, Gone
      <3> QED BY <2>3, <3>1, <3>2
    <2> QED
      BY <2>1, <2>2, <2>4, <2>5, <2>6, <2>7 DEF Next, ProxyStep
  <1> QED BY <1>1, DaemonInitial, DaemonStep, PTL DEF Spec, SavedPinsStay
=============================================================================
