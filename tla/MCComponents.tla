---------------------------- MODULE MCComponents ----------------------------
(***************************************************************************)
(* The components that share no state with each other, checked in one run: *)
(* a behaviour is one of the component named by `part', and the others     *)
(* stay where they start.  Their product would show no more.               *)
(***************************************************************************)
EXTENDS EntropyTracker, Profiler, ModelManager, McpInstall, OrgPolicySync,
        EventReport, UpdateCheck, Release, TlogPublish, SessionRefresh,
        ThreatSync, OtpLogin, OrgMembership, SeatBilling

VARIABLE part

Parts == {"tracker", "profiler", "model", "mcp", "org", "report", "update",
          "release", "publish", "session", "threats", "otp", "membership",
          "seats"}

allVars == << part, trackerVars, profilerVars, modelVars, mcpVars, orgVars,
              reportVars, updateVars, releaseVars, publishVars, sessionVars,
              threatVars, otpVars, membershipVars, seatVars >>

\* pinnedChecksums as shipped, and with the two placeholders replaced, which
\* leaves the library without a pin.
Shipped == [f \in FileNames |->
              IF f = "libonnxruntime" THEN "none" ELSE "placeholder"]
MCBuilds ==
  {Shipped,
   [f \in FileNames |-> IF f = "libonnxruntime" THEN "none" ELSE "hash"]}

\* The second version of the hashes makes the library too long, until an
\* ingestion changes the domains.
SomeOversized == {[hashes |-> 1, domains |-> 0]}

\* Of the initial states of the components that do not run, one is enough.
AtRest ==
  /\ part # "model" => pins = Shipped
  /\ part # "mcp" => mcpConfig = NoBackup
  /\ part # "publish" =>
       /\ \A r \in Requests : reqBy[r] = "publisher"
       /\ \A r, q \in Requests : reqId[r] = reqId[q]
       /\ \A r \in Requests : reqId[r] = CHOOSE a \in ArtifactIds : TRUE

\* Requests to publish are alike: one order of who asks for what is enough.
RequestOrder ==
  LET place(r) == << IF reqBy[r] = "user" THEN 0 ELSE 1, reqId[r] >>
  IN  \A r, q \in Requests :
        r < q => \/ place(r)[1] < place(q)[1]
                 \/ place(r)[1] = place(q)[1] /\ place(r)[2] <= place(q)[2]

Init ==
  /\ part \in Parts
  /\ TrackerInit /\ ProfilerInit /\ ModelInit /\ McpInit /\ OrgInit
  /\ ReportInit /\ UpdateInit /\ ReleaseInit /\ PublishInit
  /\ SessionInit /\ ThreatInit /\ OtpInit /\ MembershipInit /\ SeatInit
  /\ AtRest /\ RequestOrder

\* A step of component p, whose next-state relation is A.
Step(p, A, v) ==
  /\ part = p
  /\ A
  /\ UNCHANGED << part, v >>

Next ==
  \/ Step("tracker", TrackerNext,
          << profilerVars, modelVars, mcpVars, orgVars, reportVars,
             updateVars, releaseVars, publishVars, sessionVars, threatVars,
             otpVars, membershipVars, seatVars >>)
  \/ Step("profiler", ProfilerNext,
          << trackerVars, modelVars, mcpVars, orgVars, reportVars,
             updateVars, releaseVars, publishVars, sessionVars, threatVars,
             otpVars, membershipVars, seatVars >>)
  \/ Step("model", ModelNext,
          << trackerVars, profilerVars, mcpVars, orgVars, reportVars,
             updateVars, releaseVars, publishVars, sessionVars, threatVars,
             otpVars, membershipVars, seatVars >>)
  \/ Step("mcp", McpNext,
          << trackerVars, profilerVars, modelVars, orgVars, reportVars,
             updateVars, releaseVars, publishVars, sessionVars, threatVars,
             otpVars, membershipVars, seatVars >>)
  \/ Step("org", OrgNext,
          << trackerVars, profilerVars, modelVars, mcpVars, reportVars,
             updateVars, releaseVars, publishVars, sessionVars, threatVars,
             otpVars, membershipVars, seatVars >>)
  \/ Step("report", ReportNext,
          << trackerVars, profilerVars, modelVars, mcpVars, orgVars,
             updateVars, releaseVars, publishVars, sessionVars, threatVars,
             otpVars, membershipVars, seatVars >>)
  \/ Step("update", UpdateNext,
          << trackerVars, profilerVars, modelVars, mcpVars, orgVars,
             reportVars, releaseVars, publishVars, sessionVars, threatVars,
             otpVars, membershipVars, seatVars >>)
  \/ Step("release", ReleaseNext,
          << trackerVars, profilerVars, modelVars, mcpVars, orgVars,
             reportVars, updateVars, publishVars, sessionVars, threatVars,
             otpVars, membershipVars, seatVars >>)
  \/ Step("publish", PublishNext,
          << trackerVars, profilerVars, modelVars, mcpVars, orgVars,
             reportVars, updateVars, releaseVars, sessionVars, threatVars,
             otpVars, membershipVars, seatVars >>)
  \/ Step("session", SessionNext,
          << trackerVars, profilerVars, modelVars, mcpVars, orgVars,
             reportVars, updateVars, releaseVars, publishVars, threatVars,
             otpVars, membershipVars, seatVars >>)
  \/ Step("threats", ThreatNext,
          << trackerVars, profilerVars, modelVars, mcpVars, orgVars,
             reportVars, updateVars, releaseVars, publishVars, sessionVars,
             otpVars, membershipVars, seatVars >>)
  \/ Step("otp", OtpNext,
          << trackerVars, profilerVars, modelVars, mcpVars, orgVars,
             reportVars, updateVars, releaseVars, publishVars, sessionVars,
             threatVars, membershipVars, seatVars >>)
  \/ Step("membership", MembershipNext,
          << trackerVars, profilerVars, modelVars, mcpVars, orgVars,
             reportVars, updateVars, releaseVars, publishVars, sessionVars,
             threatVars, otpVars, seatVars >>)
  \/ Step("seats", SeatNext,
          << trackerVars, profilerVars, modelVars, mcpVars, orgVars,
             reportVars, updateVars, releaseVars, publishVars, sessionVars,
             threatVars, otpVars, membershipVars >>)

Spec == Init /\ [][Next]_allVars

(* Every component keeps the types of its state: what its source's structures,
   limits and status values allow. *)
TypeOK ==
  CASE part = "tracker"    -> TrackerTypeOK
    [] part = "profiler"   -> ProfilerTypeOK
    [] part = "model"      -> ModelTypeOK
    [] part = "mcp"        -> McpTypeOK
    [] part = "org"        -> OrgTypeOK
    [] part = "report"     -> ReportTypeOK
    [] part = "update"     -> UpdateTypeOK
    [] part = "release"    -> ReleaseTypeOK
    [] part = "publish"    -> PublishTypeOK
    [] part = "session"    -> SessionTypeOK
    [] part = "threats"    -> ThreatTypeOK
    [] part = "otp"        -> OtpTypeOK
    [] part = "membership" -> MembershipTypeOK
    [] part = "seats"      -> SeatTypeOK
=============================================================================
