--------------------------- MODULE EntropyTracker ---------------------------
(***************************************************************************)
(* The slow-drip detector of cli/internal/proxy/entropy.go: a window of    *)
(* entropy samples for each destination, for at most MaxSessions of them.  *)
(* Scan holds the tracker's lock, so that the scans of concurrent requests *)
(* are steps in some order; lastSeen is the place of a scan in that order. *)
(* A sample is the Shannon entropy of a body, here a natural number.  A    *)
(* request without a body returns before it touches the tracker.           *)
(***************************************************************************)
EXTENDS Naturals, Sequences, FiniteSetsExt

CONSTANTS
  Hosts,        \* destinations
  Samples,      \* entropies of bodies
  MaxSessions,  \* defaultMaxSessions
  WindowSize,   \* defaultWindowSize
  MinSamples,   \* slowDripMinSamples
  Threshold,    \* slowDripThreshold
  MaxScans      \* bound: requests with a body

ASSUME TrackerAssumption ==
  /\ Samples \subseteq Nat
  /\ MaxSessions \in Nat \ {0} /\ WindowSize \in Nat \ {0}
  /\ MinSamples \in 1 .. WindowSize
  /\ Threshold \in Nat /\ MaxScans \in Nat

VARIABLES
  window,    \* sessions: the samples of a destination, << >> without one
  lastSeen,  \* when a session was last used
  reported,  \* whether the last scan returned the finding
  scans      \* ghost: the requests scanned so far

trackerVars == << window, lastSeen, reported, scans >>

Sessions == {h \in Hosts : window[h] # << >>}

TrackerTypeOK ==
  /\ window \in [Hosts -> Seq(Samples)]
  /\ \A h \in Hosts : Len(window[h]) <= WindowSize
  /\ lastSeen \in [Hosts -> 0 .. MaxScans]
  /\ reported \in BOOLEAN
  /\ scans \in Seq(Hosts \X Samples)
  /\ Cardinality(Sessions) <= MaxSessions

TrackerInit ==
  /\ window = [h \in Hosts |-> << >>]
  /\ lastSeen = [h \in Hosts |-> 0]
  /\ reported = FALSE
  /\ scans = << >>

\* Evicts the session used last.
EvictNewest(w) ==
  LET newest == CHOOSE h \in Sessions :
                  \A k \in Sessions : lastSeen[k] <= lastSeen[h]
  IN  [w EXCEPT ![newest] = << >>]

\* evictOldest.
EvictOldest(w) ==
  LET oldest == CHOOSE h \in Sessions :
                  \A k \in Sessions : lastSeen[h] <= lastSeen[k]
  IN  [w EXCEPT ![oldest] = << >>]

\* No limit on the sessions.
KeepAll(h) == window

\* Room is made for a destination that has no session.
MakeRoom(h) ==
  IF window[h] = << >> /\ Cardinality(Sessions) >= MaxSessions
  THEN EvictOldest(window)
  ELSE window

\* The newest WindowSize samples.
Slide(samples) ==
  IF Len(samples) > WindowSize
  THEN SubSeq(samples, Len(samples) - WindowSize + 1, Len(samples))
  ELSE samples

\* The sum of a sequence, or of any function with a finite domain.
Total(samples) == MapThenSumSet(LAMBDA i : samples[i], DOMAIN samples)

\* EntropyTracker.Scan.
Scan(h, sample) ==
  LET new == Slide(Append(MakeRoom(h)[h], sample))
  IN  /\ Len(scans) < MaxScans
      /\ window' = [MakeRoom(h) EXCEPT ![h] = new]
      /\ lastSeen' = [lastSeen EXCEPT ![h] = Len(scans) + 1]
      /\ reported' = (/\ Len(new) >= MinSamples
                      /\ Total(new) > Threshold * Len(new))
      /\ scans' = Append(scans, << h, sample >>)

TrackerNext == \E h \in Hosts, sample \in Samples : Scan(h, sample)

TrackerSpec == TrackerInit /\ [][TrackerNext]_trackerVars

-----------------------------------------------------------------------------
\* The scans of a destination.
ScansOf(h) == {i \in 1 .. Len(scans) : scans[i][1] = h}

\* No destination was forgotten since scan i: between two of its scans fewer
\* than MaxSessions other destinations were scanned.
Unbroken(h, i) ==
  \A a, b \in ScansOf(h) :
    i <= a /\ a < b /\ ScansOf(h) \cap (a + 1 .. b - 1) = {}
      => Cardinality({scans[k][1] : k \in a + 1 .. b - 1}) < MaxSessions

\* The scans of a destination that its window covers.
Covered(h) ==
  {i \in ScansOf(h) :
     /\ Unbroken(h, i)
     /\ Cardinality({j \in ScansOf(h) : j >= i}) <= WindowSize}

(* A request is reported exactly when the samples of its destination average
   above the threshold, counted over the last WindowSize of them and back to
   the last time MaxSessions other destinations came in between: the limit on
   sessions forgets the destination unused for longest and no other, and the
   window neither keeps old samples nor mixes destinations. *)
ReportedExactly ==
  scans # << >> =>
    LET cov == Covered(scans[Len(scans)][1])
    IN  reported <=>
          /\ Cardinality(cov) >= MinSamples
          /\ Total([i \in cov |-> scans[i][2]]) > Threshold * Cardinality(cov)
=============================================================================
