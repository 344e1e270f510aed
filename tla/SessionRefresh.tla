--------------------------- MODULE SessionRefresh ---------------------------
(***************************************************************************)
(* The login session that the CLI's commands share: the credentials file   *)
(* (cli/internal/credentials, cmd/login.go, cmd/logout.go) and the         *)
(* service's refresh tokens (routers/auth_router.py).                      *)
(*                                                                         *)
(* Every command starts background goroutines (threat sync, org policy     *)
(* sync, event reports) that call EnsureFresh, and does not wait for them: *)
(* a process here is one call of EnsureFresh or one login, in any number   *)
(* of commands, and ends with its command at any point.                    *)
(*                                                                         *)
(* A refresh token is a number.  Whether the access token needs refreshing *)
(* is a matter of time: a call that finds it fresh changes nothing and is  *)
(* not a step.                                                             *)
(***************************************************************************)
EXTENDS Naturals

CONSTANTS
  Processes,  \* calls of EnsureFresh and logins that can go on at once
  Org,        \* the user's organization
  OrgAnswers, \* what GET /v1/me tells a login
  None,       \* no file, no organization, no token
  Torn,       \* a credentials file that does not parse
  MaxTokens   \* bound: refresh tokens issued

Tokens == 1 .. MaxTokens

Credentials == [token : Tokens, org : {Org, None}]

ASSUME SessionAssumption ==
  /\ OrgAnswers \subseteq {Org, None}
  /\ None \notin Tokens
  /\ None \notin Credentials /\ Torn \notin Credentials
  /\ MaxTokens \in Nat

VARIABLES
  file,      \* ~/.skillledger/credentials.json
  live,      \* the refresh_tokens table
  issued,    \* refresh tokens issued so far
  proc,      \* each process: where it is, the token it loaded, its new one
  \* What happened, for the properties to speak of.
  loggedIn,  \* a login has been saved since the last logout
  lost       \* tokens exchanged for one that was never saved

sessionVars == << file, live, issued, proc, loggedIn, lost >>

Pcs == {"idle", "loaded", "found", "got", "truncated", "unlinked"}

SessionTypeOK ==
  /\ file \in Credentials \cup {None, Torn}
  /\ live \subseteq Tokens
  /\ issued \in 0 .. MaxTokens
  /\ proc \in [Processes -> [pc : Pcs, old : Tokens \cup {None},
                             new : Tokens \cup {None}, org : {Org, None}]]
  /\ loggedIn \in BOOLEAN
  /\ lost \subseteq Tokens

NotRunning == [pc |-> "idle", old |-> None, new |-> None, org |-> None]

SessionInit ==
  /\ file = None
  /\ live = {}
  /\ issued = 0
  /\ proc = [p \in Processes |-> NotRunning]
  /\ loggedIn = FALSE
  /\ lost = {}

At(p, pc) == proc[p].pc = pc

-----------------------------------------------------------------------------
(* EnsureFresh *)

\* Load finds an access token that needs refreshing.
Load(p) ==
  /\ At(p, "idle")
  /\ file \notin {None, Torn}
  /\ proc' = [proc EXCEPT ![p] = [NotRunning EXCEPT !.pc = "loaded",
                                              !.old = file.token]]
  /\ UNCHANGED << file, live, issued, loggedIn, lost >>

\* POST /v1/auth/refresh selects the token's row; there is no lock.
RefreshSelect(p) ==
  /\ At(p, "loaded")
  /\ proc' = IF proc[p].old \in live THEN [proc EXCEPT ![p].pc = "found"]
             ELSE [proc EXCEPT ![p] = NotRunning]
  /\ UNCHANGED << file, live, issued, loggedIn, lost >>

\* The rotation commits: the old row is deleted (if another request has not
\* deleted it, SQLAlchemy only warns), the new token's row is inserted.
RefreshCommit(p) ==
  /\ At(p, "found")
  /\ issued < MaxTokens
  /\ issued' = issued + 1
  /\ live' = (live \ {proc[p].old}) \cup {issued + 1}
  /\ proc' = [proc EXCEPT ![p].pc = "got", ![p].new = issued + 1]
  /\ UNCHANGED << file, loggedIn, lost >>

-----------------------------------------------------------------------------
(* skillledger login, and logout *)

\* POST /v1/auth/verify issues a token, and GET /v1/me the organization,
\* which a failing request leaves out.
Login(p, org) ==
  /\ At(p, "idle")
  /\ issued < MaxTokens
  /\ issued' = issued + 1
  /\ live' = live \cup {issued + 1}
  /\ proc' = [proc EXCEPT ![p] = [NotRunning EXCEPT !.pc = "got", !.new = issued + 1,
                                              !.org = org]]
  /\ UNCHANGED << file, loggedIn, lost >>

\* credentials.Delete: a process that has the file open goes on with a file
\* that has no name, and nothing it writes is seen again.
Logout ==
  /\ file # None
  /\ file' = None
  /\ loggedIn' = FALSE
  /\ proc' = [p \in Processes |->
                IF At(p, "truncated") THEN [proc[p] EXCEPT !.pc = "unlinked"]
                ELSE proc[p]]
  /\ UNCHANGED << live, issued, lost >>

-----------------------------------------------------------------------------
(* credentials.Save: os.WriteFile opens with O_TRUNC and then writes. *)

SaveTruncate(p) ==
  /\ At(p, "got")
  /\ file' = Torn
  /\ proc' = [proc EXCEPT ![p].pc = "truncated"]
  /\ UNCHANGED << live, issued, loggedIn, lost >>

\* A save of the credentials that were loaded, if any.
SaveLoaded(p) ==
  /\ At(p, "truncated")
  /\ file' = [token |-> IF proc[p].old = None THEN proc[p].new ELSE proc[p].old,
              org |-> proc[p].org]
  /\ loggedIn' = (loggedIn \/ proc[p].old = None)
  /\ proc' = [proc EXCEPT ![p] = NotRunning]
  /\ UNCHANGED << live, issued, lost >>

\* If another process wrote in between, the two contents may be mixed.
SaveWrite(p) ==
  /\ At(p, "truncated")
  /\ \/ file' = [token |-> proc[p].new, org |-> proc[p].org]
     \/ file \notin {None, Torn} /\ file' = Torn
  /\ loggedIn' = (loggedIn \/ proc[p].old = None)
  /\ proc' = [proc EXCEPT ![p] = NotRunning]
  /\ UNCHANGED << live, issued, lost >>

-----------------------------------------------------------------------------
\* The command ends, or the connection breaks, before the process does; or
\* it wrote the file that a logout deleted.
Cut(p) ==
  /\ ~At(p, "idle")
  /\ proc' = [proc EXCEPT ![p] = NotRunning]
  /\ lost' = IF proc[p].new # None /\ proc[p].old # None
             THEN lost \cup {proc[p].old} ELSE lost
  /\ UNCHANGED << file, live, issued, loggedIn >>

SessionNext ==
  \/ \E p \in Processes : Load(p)
  \/ \E p \in Processes : RefreshSelect(p)
  \/ \E p \in Processes : RefreshCommit(p)
  \/ \E p \in Processes, org \in OrgAnswers : Login(p, org)
  \/ \E p \in Processes : SaveTruncate(p)
  \/ \E p \in Processes : SaveWrite(p)
  \/ \E p \in Processes : Cut(p)
  \/ Logout

SessionSpec == SessionInit /\ [][SessionNext]_sessionVars

-----------------------------------------------------------------------------
(* The token on file is good, unless the process that exchanged it has not
   saved its successor, or was cut before it could: no interleaving of
   refreshes, logins and saves puts back a token that was rotated away. *)
FileTokenIsCurrent ==
  file \notin {None, Torn} =>
    \/ file.token \in live
    \/ \E p \in Processes : proc[p].new # None /\ proc[p].old = file.token
    \/ file.token \in lost

(* A token that a process has not yet saved is known to nobody else: it is
   live, and no other process can be cut off by using it. *)
UnsavedTokenIsPrivate ==
  \A p \in Processes : proc[p].new # None =>
    /\ proc[p].new \in live
    /\ file \notin {None, Torn} => file.token # proc[p].new
    /\ \A q \in Processes \ {p} : proc[p].new \notin {proc[q].old, proc[q].new}

(* What docs and comments say, and the code does not do. *)

(* logout.go: "Log out of SkillLedger and delete local credentials": after a
   logout there are no credentials until the next login. *)
LogoutSticks == loggedIn \/ file \in {None, Torn}

=============================================================================
