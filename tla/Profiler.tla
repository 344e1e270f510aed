------------------------------ MODULE Profiler ------------------------------
(***************************************************************************)
(* The auto-profiler (cli/internal/proxy/profiler.go), its observer call   *)
(* in RuntimeEvaluator.Evaluate (capability.go), the export of the draft   *)
(* manifests when the proxy shuts down (server.go, cleanup), and the files *)
(* that `proxy profile' shows.  ExportAll reads the skills under the lock, *)
(* lets go of it and takes it again for each: requests still observe in    *)
(* between.  The files are written afterwards.  A destination has been     *)
(* stripped to host and port; methods, tools and resources are sets with   *)
(* the same limit and are left out.                                        *)
(***************************************************************************)
EXTENDS Naturals, FiniteSets

CONSTANTS
  Skills,      \* skill ids
  Dests,       \* destinations
  MaxEntries,  \* maxProfileEntries
  MaxRuns      \* bound: proxy processes

ASSUME ProfilerAssumption ==
  MaxEntries \in Nat \ {0} /\ MaxRuns \in Nat

VARIABLES
  up,        \* "down", "serving", "listing" (cleanup began), "exporting",
             \* "writing"
  profiles,  \* destinations of the skills seen by this process
  seen,      \* skills that have a profile
  left,      \* ids that are still to be exported, or written
  exported,  \* what Export has returned
  drafts,    \* profiles/<skill>.yaml; {} without one, or where a write was cut
  unwritten, \* ghost: skills whose draft could not be written
  due,       \* ghost: the profiles when the shutdown began
  runs

profilerVars ==
  << up, profiles, seen, left, exported, drafts, unwritten, due, runs >>

ProfilerTypeOK ==
  /\ up \in {"down", "serving", "listing", "exporting", "writing"}
  /\ profiles \in [Skills -> SUBSET Dests]
  /\ \A s \in Skills : Cardinality(profiles[s]) <= MaxEntries
  /\ seen \subseteq Skills
  /\ left \subseteq seen
  /\ exported \in [Skills -> SUBSET Dests]
  /\ drafts \in [Skills -> SUBSET Dests]
  /\ unwritten \subseteq Skills
  /\ due \in [Skills -> SUBSET Dests]
  /\ runs \in 0 .. MaxRuns

ProfilerInit ==
  /\ up = "down"
  /\ profiles = [s \in Skills |-> {}]
  /\ seen = {}
  /\ left = {}
  /\ exported = [s \in Skills |-> {}]
  /\ drafts = [s \in Skills |-> {}]
  /\ unwritten = {}
  /\ due = [s \in Skills |-> {}]
  /\ runs = 0

\* NewProfiler, in a new process.
StartProfiler ==
  /\ up = "down"
  /\ runs < MaxRuns
  /\ up' = "serving"
  /\ runs' = runs + 1
  /\ UNCHANGED << profiles, seen, left, exported, drafts, unwritten, due >>

\* Observe: a full profile takes no further destination.
Observe(s, d) ==
  /\ up # "down"
  /\ seen' = seen \cup {s}
  /\ profiles' = [profiles EXCEPT ![s] =
       IF Cardinality(@) < MaxEntries THEN @ \cup {d} ELSE @]
  /\ UNCHANGED << up, left, exported, drafts, unwritten, due, runs >>

\* The proxy is told to stop; requests on open tunnels go on.
BeginExport ==
  /\ up = "serving"
  /\ up' = "listing"
  /\ due' = profiles
  /\ UNCHANGED << profiles, seen, left, exported, drafts, unwritten, runs >>

\* ExportAll reads the ids.
ListSkills ==
  /\ up = "listing"
  /\ up' = "exporting"
  /\ left' = seen
  /\ UNCHANGED << profiles, seen, exported, drafts, unwritten, due, runs >>

\* Export: a copy of the profile, under the lock.
Export(s) ==
  /\ up = "exporting"
  /\ s \in left
  /\ left' = left \ {s}
  /\ exported' = [exported EXCEPT ![s] = profiles[s]]
  /\ UNCHANGED << up, profiles, seen, drafts, unwritten, due, runs >>

\* ExportAll returns; a profile has at least one destination.
ExportReturns ==
  /\ up = "exporting"
  /\ left = {}
  /\ up' = "writing"
  /\ left' = {s \in Skills : exported[s] # {}}
  /\ UNCHANGED << profiles, seen, exported, drafts, unwritten, due, runs >>

\* An export that adds to the file of an earlier process.
WriteMerged(s) ==
  /\ up = "writing"
  /\ s \in left
  /\ left' = left \ {s}
  /\ drafts' = [drafts EXCEPT ![s] = @ \cup exported[s]]
  /\ UNCHANGED << up, profiles, seen, exported, unwritten, due, runs >>

\* The draft is written over the one of an earlier process.
WriteDraft(s) ==
  /\ up = "writing"
  /\ s \in left
  /\ left' = left \ {s}
  /\ drafts' = [drafts EXCEPT ![s] = exported[s]]
  /\ UNCHANGED << up, profiles, seen, exported, unwritten, due, runs >>

\* A file whose write stops half-way lists nothing.
CutDraft(s) == drafts' = [drafts EXCEPT ![s] = {}]

\* The directory, the encoding or the write of a draft fails: the failure is
\* logged, and what was there stays, or half of the new file.
WriteFails(s) ==
  /\ up = "writing"
  /\ s \in left
  /\ left' = left \ {s}
  /\ unwritten' = unwritten \cup {s}
  /\ UNCHANGED drafts \/ CutDraft(s)
  /\ UNCHANGED << up, profiles, seen, exported, due, runs >>

\* The process ends, and with it all but the files.
Ends ==
  /\ up' = "down"
  /\ profiles' = [s \in Skills |-> {}]
  /\ seen' = {}
  /\ left' = {}
  /\ exported' = [s \in Skills |-> {}]
  /\ unwritten' = {}
  /\ due' = [s \in Skills |-> {}]
  /\ UNCHANGED runs

EndProfiler == up = "writing" /\ left = {} /\ Ends /\ UNCHANGED drafts

\* The process is killed, maybe half-way through the write of a draft.
KillProfiler ==
  /\ up # "down"
  /\ Ends
  /\ UNCHANGED drafts \/ (up = "writing" /\ \E s \in left : CutDraft(s))

ProfilerNext ==
  \/ StartProfiler
  \/ \E s \in Skills, d \in Dests : Observe(s, d)
  \/ BeginExport
  \/ ListSkills
  \/ \E s \in Skills : Export(s)
  \/ ExportReturns
  \/ \E s \in Skills : WriteDraft(s) \/ WriteFails(s)
  \/ EndProfiler
  \/ KillProfiler

ProfilerSpec == ProfilerInit /\ [][ProfilerNext]_profilerVars

-----------------------------------------------------------------------------
(* When the clean-up is over the draft of a skill has every destination the
   skill used before the shutdown began, and none that it did not use in this
   process, unless its write failed, which is logged: neither the requests
   that go on during the export, nor the draft of an earlier process, which
   is overwritten, nor the failed write of another skill change that. *)
DraftsAreThisSession ==
  up = "writing" =>
    \A s \in seen \ (left \cup unwritten) :
      \/ due[s] = {}
      \/ due[s] \subseteq drafts[s] /\ drafts[s] \subseteq profiles[s]
=============================================================================
