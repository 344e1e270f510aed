---------------------------- MODULE OrgMembership ----------------------------
(***************************************************************************)
(* Members and owner of one organization                                   *)
(* (service/src/skillledger_service/ee/routers/orgs.py, and jit_provision  *)
(* of saml.py).  A request reads memberships and roles, decides, and       *)
(* commits later; rows are selected without locks, so that another request *)
(* may commit in between.  A commit that finds its row gone, or a second   *)
(* row for a user, is rolled back.                                         *)
(*                                                                         *)
(* "member" stands for viewers too.  What accept_invite and remove_member  *)
(* do for the seats after their commit is in SeatBilling.  An invite that  *)
(* expires is one that nobody accepts.                                     *)
(***************************************************************************)
EXTENDS Naturals, FiniteSets

CONSTANTS
  Users,
  Founder,       \* who calls create_org
  Invites,       \* tokens
  OrgRequests,   \* requests at one time
  MaxRows        \* bound: membership rows

ASSUME FounderAssumption == Founder \in Users /\ MaxRows \in Nat \ {0}

Assignable == {"member", "admin"}
Roles == Assignable \cup {"owner"}
NoMember == [id |-> 0, role |-> "none"]
NoInvite == [for |-> Founder, role |-> "none"]

VARIABLES
  member,     \* the membership row of a user
  rows,       \* rows inserted so far
  invite,     \* for whom and as what
  accepted,   \* how often an invite was used; then accepted_at is set
  orgReq,     \* the request between its reads and its commit
  selfMade,   \* ghost: an owner has transferred to himself
  collided    \* ghost: requests that spoil each other have overlapped

membershipVars ==
  << member, rows, invite, accepted, orgReq, selfMade, collided >>

NoRequest == [pc |-> "idle"]

OrgRequest ==
  [pc : {"accept"}, token : Invites] \cup
  [pc : {"provision"}, user : Users, role : Assignable] \cup
  [pc : {"remove"}, user : Users, row : 1 .. MaxRows] \cup
  [pc : {"transfer"}, from : Users, fromRow : 1 .. MaxRows,
   to : Users, toRow : 1 .. MaxRows, was : Roles]

MembershipTypeOK ==
  /\ \A u \in Users :
       member[u] = NoMember \/ member[u] \in [id : 1 .. rows, role : Roles]
  /\ \A u, w \in Users : u # w => member[u].id # member[w].id \/ member[u].id = 0
  /\ rows \in 0 .. MaxRows
  /\ invite \in [Invites -> [for : Users, role : Assignable \cup {"none"}]]
  /\ accepted \in [Invites -> Nat]
  /\ orgReq \in [OrgRequests -> OrgRequest \cup {NoRequest}]
  /\ selfMade \in BOOLEAN /\ collided \in BOOLEAN

MembershipInit ==
  /\ member = [u \in Users |->
       IF u = Founder THEN [id |-> 1, role |-> "owner"] ELSE NoMember]
  /\ rows = 1
  /\ invite = [t \in Invites |-> NoInvite]
  /\ accepted = [t \in Invites |-> 0]
  /\ orgReq = [q \in OrgRequests |-> NoRequest]
  /\ selfMade = FALSE
  /\ collided = FALSE

-----------------------------------------------------------------------------
\* require_org_role(OrgRole.admin).
IsAdmin(u) == member[u].role \in {"admin", "owner"}

\* Two requests that can spoil each other: each takes a role or a row away, or
\* both accept one invite.
Spoils(a, b) ==
  \/ a.pc \in {"remove", "transfer"} /\ b.pc \in {"remove", "transfer"}
  \/ a.pc = "accept" /\ b.pc = "accept" /\ a.token = b.token

Begin(q, r) ==
  /\ orgReq[q] = NoRequest
  /\ orgReq' = [orgReq EXCEPT ![q] = r]
  /\ collided' = (collided \/ \E o \in OrgRequests : Spoils(orgReq[o], r))
  /\ UNCHANGED << member, rows, invite, accepted >>

Done(q) == orgReq' = [orgReq EXCEPT ![q] = NoRequest]

\* create_invite.
CreateInvite(by, t, u, role) ==
  /\ IsAdmin(by)
  /\ invite[t] = NoInvite
  /\ invite' = [invite EXCEPT ![t] = [for |-> u, role |-> role]]
  /\ UNCHANGED << member, rows, accepted, orgReq, selfMade, collided >>

\* accept_invite by the invited user: the reads.
AcceptReads(q, t) ==
  /\ invite[t] # NoInvite
  /\ accepted[t] = 0
  /\ member[invite[t].for] = NoMember
  /\ Begin(q, [pc |-> "accept", token |-> t])
  /\ UNCHANGED selfMade

\* The insertion, unless the user has a row by now.
AcceptCommits(q) ==
  /\ orgReq[q].pc = "accept"
  /\ LET t == orgReq[q].token
         u == invite[t].for
     IN  IF member[u] = NoMember
         THEN /\ rows < MaxRows
              /\ member' = [member EXCEPT ![u] =
                              [id |-> rows + 1, role |-> invite[t].role]]
              /\ rows' = rows + 1
              /\ accepted' = [accepted EXCEPT ![t] = @ + 1]
         ELSE UNCHANGED << member, rows, accepted >>
  /\ Done(q)
  /\ UNCHANGED << invite, selfMade, collided >>

\* jit_provision: a user who signs in through SAML becomes a member.
ProvisionReads(q, u, role) ==
  /\ member[u] = NoMember
  /\ Begin(q, [pc |-> "provision", user |-> u, role |-> role])
  /\ UNCHANGED selfMade

ProvisionCommits(q) ==
  /\ orgReq[q].pc = "provision"
  /\ IF member[orgReq[q].user] = NoMember
     THEN /\ rows < MaxRows
          /\ member' = [member EXCEPT ![orgReq[q].user] =
                          [id |-> rows + 1, role |-> orgReq[q].role]]
          /\ rows' = rows + 1
     ELSE UNCHANGED << member, rows >>
  /\ Done(q)
  /\ UNCHANGED << invite, accepted, selfMade, collided >>

\* A remove_member that takes the owner too.
RemoveReadsAny(q, by, u) ==
  /\ IsAdmin(by)
  /\ member[u] # NoMember
  /\ Begin(q, [pc |-> "remove", user |-> u, row |-> member[u].id])
  /\ UNCHANGED selfMade

\* remove_member: the reads.
RemoveReads(q, by, u) ==
  /\ IsAdmin(by)
  /\ member[u] # NoMember /\ member[u].role # "owner"
  /\ Begin(q, [pc |-> "remove", user |-> u, row |-> member[u].id])
  /\ UNCHANGED selfMade

RemoveCommits(q) ==
  /\ orgReq[q].pc = "remove"
  /\ member' = [member EXCEPT ![orgReq[q].user] =
                  IF @.id = orgReq[q].row THEN NoMember ELSE @]
  /\ Done(q)
  /\ UNCHANGED << rows, invite, accepted, selfMade, collided >>

\* transfer_ownership: the reads.
TransferReads(q, by, to) ==
  /\ member[by].role = "owner"
  /\ member[to] # NoMember
  /\ Begin(q, [pc |-> "transfer", from |-> by, fromRow |-> member[by].id,
               to |-> to, toRow |-> member[to].id, was |-> member[to].role])
  /\ selfMade' = (selfMade \/ by = to)

\* Both rows are updated, the target's only if its role was another one, and
\* the old owner's last.  Nothing is committed if one of the rows is gone.
TransferCommits(q) ==
  /\ orgReq[q].pc = "transfer"
  /\ LET r == orgReq[q]
     IN  IF member[r.from].id = r.fromRow /\ member[r.to].id = r.toRow
         THEN member' = [member EXCEPT
                ![r.to].role = IF r.was = "owner" THEN @ ELSE "owner",
                ![r.from].role = "admin"]
         ELSE UNCHANGED member
  /\ Done(q)
  /\ UNCHANGED << rows, invite, accepted, selfMade, collided >>

\* The request fails before its commit.
OrgRequestFails(q) ==
  /\ orgReq[q] # NoRequest
  /\ Done(q)
  /\ UNCHANGED << member, rows, invite, accepted, selfMade, collided >>

MembershipNext ==
  \/ \E by, u \in Users, t \in Invites, role \in Assignable :
       CreateInvite(by, t, u, role)
  \/ \E q \in OrgRequests :
       \/ \E t \in Invites : AcceptReads(q, t)
       \/ \E u \in Users, role \in Assignable : ProvisionReads(q, u, role)
       \/ \E by, u \in Users : RemoveReads(q, by, u) \/ TransferReads(q, by, u)
       \/ AcceptCommits(q)
       \/ ProvisionCommits(q)
       \/ RemoveCommits(q)
       \/ TransferCommits(q)
       \/ OrgRequestFails(q)

MembershipSpec == MembershipInit /\ [][MembershipNext]_membershipVars

-----------------------------------------------------------------------------
Owners == {u \in Users : member[u].role = "owner"}

(* The organization has one owner, whoever is invited, provisioned, removed
   or made owner, unless transfers and removals overlap (then there may be two
   owners, or none) or an owner transfers to himself (then there is none:
   transfer_ownership sets the one row to owner and then to admin). *)
OneOwner == ~collided /\ ~selfMade => Cardinality(Owners) = 1
=============================================================================
