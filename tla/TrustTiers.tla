----------------------------- MODULE TrustTiers -----------------------------
(***************************************************************************)
(* What the trust verifier promises its callers (trust_verifier.go, the    *)
(* comments of TrustTier and GetTier): a skill is verified at most once in *)
(* a session, its tier never changes after that, and until then, or when   *)
(* in doubt, a request is answered "unverified".                           *)
(***************************************************************************)
CONSTANTS
  Skills,    \* skill IDs
  Requests,  \* requests of the session
  NoAnswer   \* a request that has not been answered

VARIABLES
  status,  \* each skill: not asked for, being verified, or its tier
  answer   \* each request: the tier it was given

vars == << status, answer >>

Tiers == {"verified", "partial", "unverified"}

Init ==
  /\ status = [s \in Skills |-> "unknown"]
  /\ answer = [q \in Requests |-> NoAnswer]

\* The first request for a skill starts its verification.
Ask(q, s) ==
  /\ status[s] = "unknown"
  /\ answer[q] = NoAnswer
  /\ status' = [status EXCEPT ![s] = "pending"]
  /\ answer' = [answer EXCEPT ![q] = "unverified"]

\* A later request gets the tier, or "unverified".
Answer(q, s, t) ==
  /\ status[s] # "unknown"
  /\ answer[q] = NoAnswer
  /\ t \in {"unverified"} \cup ({status[s]} \cap Tiers)
  /\ answer' = [answer EXCEPT ![q] = t]
  /\ UNCHANGED status

\* The verification ends.
Decide(s, t) ==
  /\ status[s] = "pending"
  /\ status' = [status EXCEPT ![s] = t]
  /\ UNCHANGED answer

Next ==
  \/ \E q \in Requests, s \in Skills : Ask(q, s)
  \/ \E q \in Requests, s \in Skills, t \in Tiers : Answer(q, s, t)
  \/ \E s \in Skills, t \in Tiers : Decide(s, t)

Spec == Init /\ [][Next]_vars
=============================================================================
