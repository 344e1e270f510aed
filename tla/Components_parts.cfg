SPECIFICATION Spec
CONSTANTS
  Hosts = {h1, h2, h3}
  Samples = {0, 2}
  MaxSessions = 2
  WindowSize = 3
  MinSamples = 2
  Threshold = 1
  MaxScans = 6
  Skills = {k1, k2}
  Dests = {d1, d2}
  MaxEntries = 1
  MaxRuns = 2
  Downloads = {e1, e2}
  Builds <- MCBuilds
  Names = {s1, s2}
  Commands = {x1, x2}
  Malformed = malformed
  MaxBinary = 2
  MaxEdits = 2
  Cmds = {m1, m2}
  Orgs = {o1, o2}
  Regos = {g1, g2}
  NoPolicy = NoPolicy
  MaxPushes = 2
  MaxEvents = 5
  BatchSize = 2
  Profiles = {q1, q2}
  Checks = {u1, u2}
  TTL = 2
  MyVersion = 1
  MaxTime = 4
  Jobs = {j1, j2}
  SourceFiles = {f1, f2}
  MaxEdit = 1
  MaxJobs = 4
  MaxLog = 2
  Requests = {1, 2, 3}
  ArtifactIds = {1, 2}
  FreeLimit = 2
  PushbackMax = 1
  Processes = {p1, p2, p3}
  Org = Org
  OrgAnswers = {Org, None}
  None = None
  Torn = Torn
  MaxTokens = 3
  Clis = {c1}
  Oversized <- SomeOversized
  MaxVersion = 1
  MaxReleases = 1
  NoBody = NoBody
  Corrupt = Corrupt
  Registrations = {n1, n2, n3}
  Verifiers = {v1, v2}
  SendLimit = 2
  AttemptLimit = 2
  Window = 2
  Life = 1
  MaxCodeTime = 3
  Users = {w1, w2}
  Founder = w1
  Invites = {i1}
  OrgRequests = {b1, b2}
  MaxRows = 3
  SeatRequests = {y1, y2}
  Hooks = {z1, z2}
  MaxServed = 2
  MaxMembers = 2
  MaxSubs = 2
  MaxHookEvents = 2
INVARIANTS
  TypeOK
  ReportedExactly
  DraftsAreThisSession
  LoadedIsPinned
  CommandsSurvive
  EventsArrive
  NoticeIsRecent
  LockfileIsTrue
  PublishedIsAccounted
  FileTokenIsCurrent
  NotModifiedMeansCached
  SendsBounded
  OneOwner
  BillingMatches
  OneSubscription
PROPERTIES
  AppliedIsSynced CacheNeverGoesBack ImplementsOneTimeCodes
CHECK_DEADLOCK FALSE
