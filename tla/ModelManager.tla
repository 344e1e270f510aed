---------------------------- MODULE ModelManager ----------------------------
(***************************************************************************)
(* The files of the injection classifier: cli/internal/ml/model_manager.go *)
(* (Download, Verify, IsDownloaded), the command `model download'          *)
(* (cmd/proxy_model.go), of which several may run at once on one           *)
(* directory, and the proxy that loads the files (proxy/ml_wire.go).       *)
(* A file's content is "good", the content a checksum was taken of, or     *)
(* "bad", anything else.  `pins' is the build's pinnedChecksums: "hash",   *)
(* "placeholder" (the string PLACEHOLDER, the hash of nothing) or "none".  *)
(* The HTTP client has no timeout: an answer may never come.               *)
(***************************************************************************)
EXTENDS Naturals, Sequences, FiniteSets

CONSTANTS
  Downloads,    \* runs of `model download'
  Builds        \* values of pinnedChecksums

\* The order of Download's list.
ModelFiles == << "model.onnx", "tokenizer.json", "libonnxruntime" >>
FileNames == {ModelFiles[i] : i \in 1 .. Len(ModelFiles)}
Contents == {"good", "bad"}

ASSUME BuildsAssumption ==
  Builds \subseteq [FileNames -> {"hash", "placeholder", "none"}]

VARIABLES
  pins,       \* pinnedChecksums
  modelDir,   \* the files, "none" where there is none
  dlPc,       \* where a download is
  dlNext,     \* its place in the list
  dlBody,     \* the content of its temporary file
  toVerify,   \* the files Verify has still to look at
  loading,    \* what the starting proxy has read so far
  copied      \* ghost: files the user has copied into the directory

modelVars == << pins, modelDir, dlPc, dlNext, dlBody, toVerify, loading, copied >>

DlStates ==
  {"start", "precheck", "file", "get", "compare", "verify",
   "done", "failed", "killed"}

ModelTypeOK ==
  /\ pins \in [FileNames -> {"hash", "placeholder", "none"}]
  /\ modelDir \in [FileNames -> Contents \cup {"none"}]
  /\ dlPc \in [Downloads -> DlStates]
  /\ dlNext \in [Downloads -> 1 .. Len(ModelFiles) + 1]
  /\ dlBody \in [Downloads -> Contents \cup {"none"}]
  /\ toVerify \in [Downloads -> SUBSET FileNames]
  /\ \A p \in Downloads :
       dlPc[p] \in {"get", "compare"} => dlNext[p] <= Len(ModelFiles)
  /\ loading \in [FileNames -> Contents \cup {"none"}]
  /\ copied \subseteq FileNames

ModelInit ==
  /\ pins \in Builds
  /\ modelDir = [f \in FileNames |-> "none"]
  /\ dlPc = [p \in Downloads |-> "start"]
  /\ dlNext = [p \in Downloads |-> 1]
  /\ dlBody = [p \in Downloads |-> "none"]
  /\ toVerify = [p \in Downloads |-> {}]
  /\ loading = [f \in FileNames |-> "none"]
  /\ copied = {}

IsDownloaded == \A f \in FileNames : modelDir[f] # "none"

\* fileSHA256(path) = expected.
HashMatches(f, content) == pins[f] = "hash" /\ content = "good"

\* runModelDownload: files that are all there are verified first.
BeginDownload(p) ==
  /\ dlPc[p] = "start"
  /\ IF IsDownloaded
     THEN /\ dlPc' = [dlPc EXCEPT ![p] = "precheck"]
          /\ toVerify' = [toVerify EXCEPT ![p] = FileNames]
     ELSE /\ dlPc' = [dlPc EXCEPT ![p] = "file"]
          /\ UNCHANGED toVerify
  /\ UNCHANGED << pins, modelDir, dlNext, dlBody, loading, copied >>

\* Verify takes one more file: the map is walked in any order.
VerifyOne(p, f) ==
  /\ dlPc[p] \in {"precheck", "verify"}
  /\ f \in toVerify[p]
  /\ IF HashMatches(f, modelDir[f])
     THEN /\ toVerify' = [toVerify EXCEPT ![p] = @ \ {f}]
          /\ UNCHANGED dlPc
     ELSE /\ dlPc' = [dlPc EXCEPT ![p] =
                        IF dlPc[p] = "precheck" THEN "file" ELSE "failed"]
          /\ toVerify' = [toVerify EXCEPT ![p] = {}]
  /\ UNCHANGED << pins, modelDir, dlNext, dlBody, loading, copied >>

\* Every file was verified: already downloaded, or downloaded now.
Verified(p) ==
  /\ dlPc[p] \in {"precheck", "verify"}
  /\ toVerify[p] = {}
  /\ dlPc' = [dlPc EXCEPT ![p] = "done"]
  /\ UNCHANGED << pins, modelDir, dlNext, dlBody, toVerify, loading, copied >>

\* Download's loop: a file that is verified is skipped, the next is fetched.
NextFile(p) ==
  /\ dlPc[p] = "file"
  /\ IF dlNext[p] > Len(ModelFiles)
     THEN /\ dlPc' = [dlPc EXCEPT ![p] = "verify"]
          /\ toVerify' = [toVerify EXCEPT ![p] = FileNames]
          /\ UNCHANGED dlNext
     ELSE LET f == ModelFiles[dlNext[p]]
          IN  /\ IF HashMatches(f, modelDir[f])
                 THEN /\ dlNext' = [dlNext EXCEPT ![p] = @ + 1]
                      /\ UNCHANGED dlPc
                 ELSE /\ dlPc' = [dlPc EXCEPT ![p] = "get"]
                      /\ UNCHANGED dlNext
              /\ UNCHANGED toVerify
  /\ UNCHANGED << pins, modelDir, dlBody, loading, copied >>

\* The body of the answer is in the temporary file.
Fetch(p, content) ==
  /\ dlPc[p] = "get"
  /\ dlBody' = [dlBody EXCEPT ![p] = content]
  /\ dlPc' = [dlPc EXCEPT ![p] = "compare"]
  /\ UNCHANGED << pins, modelDir, dlNext, toVerify, loading, copied >>

\* An error, a status other than 200, or the user's interrupt, which cancels
\* the request.  The temporary file is removed.
DownloadFails(p) ==
  /\ dlPc[p] = "get"
  /\ dlPc' = [dlPc EXCEPT ![p] = "failed"]
  /\ UNCHANGED << pins, modelDir, dlNext, dlBody, toVerify, loading, copied >>

\* Renames first and leaves the comparison to Verify.
InstallUnchecked(p) ==
  /\ dlPc[p] = "compare"
  /\ modelDir' = [modelDir EXCEPT ![ModelFiles[dlNext[p]]] = dlBody[p]]
  /\ dlPc' = [dlPc EXCEPT ![p] = "file"]
  /\ dlNext' = [dlNext EXCEPT ![p] = @ + 1]
  /\ dlBody' = [dlBody EXCEPT ![p] = "none"]
  /\ UNCHANGED << pins, toVerify, loading, copied >>

\* The hash is compared with the pin, if the file has one, and the temporary
\* file is renamed.
InstallFile(p) ==
  LET f == ModelFiles[dlNext[p]]
  IN  /\ dlPc[p] = "compare"
      /\ IF pins[f] = "none" \/ HashMatches(f, dlBody[p])
         THEN /\ modelDir' = [modelDir EXCEPT ![f] = dlBody[p]]
              /\ dlPc' = [dlPc EXCEPT ![p] = "file"]
              /\ dlNext' = [dlNext EXCEPT ![p] = @ + 1]
         ELSE /\ dlPc' = [dlPc EXCEPT ![p] = "failed"]
              /\ UNCHANGED << modelDir, dlNext >>
      /\ dlBody' = [dlBody EXCEPT ![p] = "none"]
      /\ UNCHANGED << pins, toVerify, loading, copied >>

\* The process is killed; a temporary file stays and is never looked at.
KillDownload(p) ==
  /\ dlPc[p] \in {"file", "get", "compare", "verify"}
  /\ dlPc' = [dlPc EXCEPT ![p] = "killed"]
  /\ UNCHANGED << pins, modelDir, dlNext, dlBody, toVerify, loading, copied >>

\* A user without a network copies a file from another machine, each at most
\* once (a bound).
CopyFile(f, content) ==
  /\ f \notin copied
  /\ modelDir' = [modelDir EXCEPT ![f] = content]
  /\ copied' = copied \cup {f}
  /\ UNCHANGED << pins, dlPc, dlNext, dlBody, toVerify, loading >>

\* tryLoadMLClassifier when the proxy starts: the files are opened if all are
\* there, without Verify; NewClassifier reads them.
LoadClassifier ==
  /\ IsDownloaded
  /\ loading = [f \in FileNames |-> "none"]
  /\ loading' = modelDir
  /\ UNCHANGED << pins, modelDir, dlPc, dlNext, dlBody, toVerify, copied >>

ModelNext ==
  \/ \E p \in Downloads :
       \/ BeginDownload(p)
       \/ \E f \in FileNames : VerifyOne(p, f)
       \/ Verified(p)
       \/ NextFile(p)
       \/ \E c \in Contents : Fetch(p, c)
       \/ DownloadFails(p)
       \/ InstallFile(p)
       \/ KillDownload(p)
  \/ \E f \in FileNames, c \in Contents : CopyFile(f, c)
  \/ LoadClassifier

ModelSpec == ModelInit /\ [][ModelNext]_modelVars

-----------------------------------------------------------------------------
(* The classifier a proxy loads has the pinned content of every file with a
   pinned checksum that the user did not copy himself, although the proxy
   verifies nothing: a download installs no other content, whatever the server
   sends and wherever other downloads, finished or killed, have come to. *)
LoadedIsPinned ==
  \A f \in FileNames \ copied :
    pins[f] # "none" =>
      loading[f] = "none" \/ HashMatches(f, loading[f])
=============================================================================
