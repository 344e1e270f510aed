--------------------------- MODULE OrgPolicySync ----------------------------
(***************************************************************************)
(* The organization's policy on its way to a command: the service's        *)
(* endpoints (ee/routers/policy.py), the sync goroutine every command of a *)
(* member starts (cli/internal/orgsync/sync.go, cmd/root.go), the cache    *)
(* in the user's home, and the commands that put it before the local       *)
(* policy (cmd/verify.go, cmd/proxy_start.go).  The cache has one name for *)
(* all organizations.  Commands may run at the same time; one that ends    *)
(* takes its goroutine with it.  An ETag is the digest of a text and so    *)
(* the text itself; the service sends it and never answers 304.            *)
(***************************************************************************)
EXTENDS Naturals

CONSTANTS
  Cmds,        \* places for commands, one after the other in each
  Orgs,        \* organizations
  Regos,       \* policy texts
  NoPolicy,    \* no policy, no organization
  MaxPushes    \* bound: policies pushed by administrators

ASSUME PushesAssumption == MaxPushes \in Nat

VARIABLES
  orgRego,     \* org_policies of the service
  memberOf,    \* OrgSlug in the credentials file
  orgFile,     \* org-policy.rego
  orgMeta,     \* the ETag in org-policy-meta.json
  orgCmdPc,       \* where a command is
  orgSyncPc,      \* where its goroutine is
  slug,        \* the organization the command works for
  got,         \* the text its goroutine was sent
  applied,     \* the text the command has read as its policy
  alone,       \* ghost: no other command ran while this one did
  pushes

orgVars == << orgRego, memberOf, orgFile, orgMeta, orgCmdPc, orgSyncPc, slug, got,
              applied, alone, pushes >>

OrgRunning == {c \in Cmds : orgCmdPc[c] # "new"}

OrgTypeOK ==
  /\ orgRego \in [Orgs -> Regos \cup {NoPolicy}]
  /\ memberOf \in Orgs \cup {NoPolicy}
  /\ orgFile \in Regos \cup {NoPolicy}
  /\ orgMeta \in Regos \cup {NoPolicy}
  /\ orgCmdPc \in [Cmds -> {"new", "started", "applied"}]
  /\ orgSyncPc \in [Cmds -> {"none", "auth", "fetch", "policy", "meta", "done"}]
  /\ slug \in [Cmds -> Orgs \cup {NoPolicy}]
  /\ \A c \in Cmds : slug[c] = NoPolicy => orgSyncPc[c] = "none"
  /\ got \in [Cmds -> Regos \cup {NoPolicy}]
  /\ applied \in [Cmds -> Regos \cup {NoPolicy}]
  /\ alone \in [Cmds -> BOOLEAN]
  /\ pushes \in 0 .. MaxPushes

OrgInit ==
  /\ orgRego = [o \in Orgs |-> NoPolicy]
  /\ memberOf = NoPolicy
  /\ orgFile = NoPolicy
  /\ orgMeta = NoPolicy
  /\ orgCmdPc = [c \in Cmds |-> "new"]
  /\ orgSyncPc = [c \in Cmds |-> "none"]
  /\ slug = [c \in Cmds |-> NoPolicy]
  /\ got = [c \in Cmds |-> NoPolicy]
  /\ applied = [c \in Cmds |-> NoPolicy]
  /\ alone = [c \in Cmds |-> TRUE]
  /\ pushes = 0

\* set_policy with deploy.
SetPolicy(o, rego) ==
  /\ pushes < MaxPushes
  /\ orgRego[o] # rego
  /\ orgRego' = [orgRego EXCEPT ![o] = rego]
  /\ pushes' = pushes + 1
  /\ UNCHANGED << memberOf, orgFile, orgMeta, orgCmdPc, orgSyncPc, slug, got,
                  applied, alone >>

\* The user joins an organization, leaves it or logs in to another.
ChangeOrg(o) ==
  /\ o # memberOf
  /\ memberOf' = o
  /\ UNCHANGED << orgRego, orgFile, orgMeta, orgCmdPc, orgSyncPc, slug, got,
                  applied, alone, pushes >>

\* PersistentPreRun starts the goroutine for a member.
StartCommand(c) ==
  /\ orgCmdPc[c] = "new"
  /\ orgCmdPc' = [orgCmdPc EXCEPT ![c] = "started"]
  /\ slug' = [slug EXCEPT ![c] = memberOf]
  /\ orgSyncPc' = [orgSyncPc EXCEPT ![c] = IF memberOf = NoPolicy THEN "none" ELSE "auth"]
  /\ alone' = [d \in Cmds |->
       IF d = c THEN OrgRunning = {} ELSE alone[d] /\ d \notin OrgRunning]
  /\ UNCHANGED << orgRego, memberOf, orgFile, orgMeta, got, applied, pushes >>

\* The token, or the directory, cannot be had; the request fails.
SyncGivesUp(c) ==
  /\ orgSyncPc[c] \in {"auth", "fetch"}
  /\ orgSyncPc' = [orgSyncPc EXCEPT ![c] = "done"]
  /\ UNCHANGED << orgRego, memberOf, orgFile, orgMeta, orgCmdPc, slug, got,
                  applied, alone, pushes >>

Authenticate(c) ==
  /\ orgSyncPc[c] = "auth"
  /\ orgSyncPc' = [orgSyncPc EXCEPT ![c] = "fetch"]
  /\ UNCHANGED << orgRego, memberOf, orgFile, orgMeta, orgCmdPc, slug, got,
                  applied, alone, pushes >>

\* get_policy and fetchWithETag: without a policy the answer is 404, an error.
FetchPolicy(c) ==
  /\ orgSyncPc[c] = "fetch"
  /\ IF orgRego[slug[c]] = NoPolicy
     THEN /\ orgSyncPc' = [orgSyncPc EXCEPT ![c] = "done"]
          /\ UNCHANGED got
     ELSE /\ orgSyncPc' = [orgSyncPc EXCEPT ![c] = "policy"]
          /\ got' = [got EXCEPT ![c] = orgRego[slug[c]]]
  /\ UNCHANGED << orgRego, memberOf, orgFile, orgMeta, orgCmdPc, slug,
                  applied, alone, pushes >>

\* Leaves the file alone when the metadata have the same ETag.
WriteIfNewETag(c) ==
  /\ orgSyncPc[c] = "policy"
  /\ orgFile' = IF got[c] = orgMeta THEN orgFile ELSE got[c]
  /\ orgSyncPc' = [orgSyncPc EXCEPT ![c] = "meta"]
  /\ UNCHANGED << orgRego, memberOf, orgMeta, orgCmdPc, slug, got, applied,
                  alone, pushes >>

\* The text is renamed into place.
WritePolicy(c) ==
  /\ orgSyncPc[c] = "policy"
  /\ orgFile' = got[c]
  /\ orgSyncPc' = [orgSyncPc EXCEPT ![c] = "meta"]
  /\ UNCHANGED << orgRego, memberOf, orgMeta, orgCmdPc, slug, got, applied,
                  alone, pushes >>

WriteOrgMeta(c) ==
  /\ orgSyncPc[c] = "meta"
  /\ orgMeta' = got[c]
  /\ orgSyncPc' = [orgSyncPc EXCEPT ![c] = "done"]
  /\ UNCHANGED << orgRego, memberOf, orgFile, orgCmdPc, slug, got, applied,
                  alone, pushes >>

\* After WaitForSync, which also ends by its timeout, a member's command reads
\* the file if there is one.  Whether it can compile what it reads is not told
\* apart here.
ApplyOrgPolicy(c) ==
  /\ orgCmdPc[c] = "started"
  /\ orgCmdPc' = [orgCmdPc EXCEPT ![c] = "applied"]
  /\ applied' = [applied EXCEPT ![c] = IF slug[c] = NoPolicy THEN NoPolicy ELSE orgFile]
  /\ UNCHANGED << orgRego, memberOf, orgFile, orgMeta, orgSyncPc, slug, got,
                  alone, pushes >>

\* The command returns or is stopped, at any point of the goroutine; another
\* may follow.
EndCommand(c) ==
  /\ c \in OrgRunning
  /\ orgCmdPc' = [orgCmdPc EXCEPT ![c] = "new"]
  /\ orgSyncPc' = [orgSyncPc EXCEPT ![c] = "none"]
  /\ slug' = [slug EXCEPT ![c] = NoPolicy]
  /\ got' = [got EXCEPT ![c] = NoPolicy]
  /\ applied' = [applied EXCEPT ![c] = NoPolicy]
  /\ alone' = [alone EXCEPT ![c] = TRUE]
  /\ UNCHANGED << orgRego, memberOf, orgFile, orgMeta, pushes >>

OrgNext ==
  \/ \E o \in Orgs, rego \in Regos : SetPolicy(o, rego)
  \/ \E o \in Orgs \cup {NoPolicy} : ChangeOrg(o)
  \/ \E c \in Cmds :
       \/ StartCommand(c)
       \/ SyncGivesUp(c)
       \/ Authenticate(c)
       \/ FetchPolicy(c)
       \/ WritePolicy(c)
       \/ WriteOrgMeta(c)
       \/ ApplyOrgPolicy(c)
       \/ EndCommand(c)

OrgSpec == OrgInit /\ [][OrgNext]_orgVars

-----------------------------------------------------------------------------
(* A command that runs alone, and whose sync was sent a policy and had written
   it when the command read the cache, read that policy: neither the policy
   another organization of the user left in the cache, nor one that an earlier
   command had cached without its ETag, comes before it. *)
AppliedIsSynced ==
  [][\A c \in Cmds :
       (/\ orgCmdPc[c] = "started" /\ orgCmdPc'[c] = "applied"
        /\ alone[c] /\ got[c] # NoPolicy /\ orgSyncPc[c] \in {"meta", "done"})
         => applied'[c] = got[c]]_orgVars
=============================================================================
