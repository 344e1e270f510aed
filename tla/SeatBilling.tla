---------------------------- MODULE SeatBilling ----------------------------
(***************************************************************************)
(* Seats of one organization and its Stripe subscription                   *)
(* (service/src/skillledger_service/ee/seat_billing.py, its callers in     *)
(* orgs.py, saml.py and billing_seats.py, and routers/webhooks.py).        *)
(*                                                                         *)
(* A request that has changed the members counts them, locks the seat row, *)
(* tells Stripe and commits.  The row's lock is held from its selection    *)
(* (or insertion) to the end of the transaction.  A call of Stripe may be  *)
(* refused, or be carried out while its answer is lost.  Stripe reports    *)
(* every change of a quantity, and other changes of a subscription, by an  *)
(* event with the quantity, which arrives late, out of order and more than *)
(* once; its handler reads the row without a lock and writes the columns   *)
(* it has changed.                                                         *)
(*                                                                         *)
(* The subscriptions of single users, which webhooks.py also keeps, are    *)
(* left out: only their handlers write them.                               *)
(***************************************************************************)
EXTENDS Naturals, Sequences, FiniteSets

CONSTANTS
  SeatRequests,  \* requests at one time
  Hooks,         \* webhook calls at one time
  MaxMembers,    \* bound: members
  MaxServed,     \* bound: requests
  MaxSubs,       \* bound: subscriptions created
  MaxHookEvents  \* bound: events

ASSUME SeatAssumption ==
  /\ MaxMembers \in Nat \ {0} /\ MaxServed \in Nat
  /\ MaxSubs \in Nat /\ MaxHookEvents \in Nat

VARIABLES
  members,     \* the committed memberships
  seat,        \* the committed row of Seat
  stripe,      \* quantity of every subscription, in the order of creation
  stripeEvents,  \* the events, in the order of their changes
  processed,   \* stripe_events
  seatReq,     \* a request and the row as its transaction sees it
  hook,        \* a webhook call: its event and the row it has read
  served,      \* requests so far
  strayed,     \* ghost: subscriptions that Stripe created or canceled, while
               \* the request failed before its commit or lost the answer
  calm,        \* ghost: webhooks came one by one, in order, between requests
  unbilled     \* ghost: `subscribe' stored a count that Stripe does not have

seatVars ==
  << members, seat, stripe, stripeEvents, processed, seatReq, hook, served,
     strayed, calm, unbilled >>

Quantity == 0 .. MaxMembers
Canceled == MaxMembers + 1

NoSeat == [row |-> FALSE, count |-> 0, sub |-> 0, outOfSync |-> FALSE]
SeatRows ==
  [row : BOOLEAN, count : Quantity, sub : 0 .. MaxSubs, outOfSync : BOOLEAN]

NotServing == [pc |-> "idle", subscribe |-> FALSE, n |-> 0, seat |-> NoSeat]
NoHook == [ev |-> 0, seen |-> NoSeat]

SeatTypeOK ==
  /\ members \in Quantity
  /\ seat \in SeatRows /\ (seat.row \/ seat = NoSeat)
  /\ seat.sub \in 0 .. Len(stripe)
  /\ stripe \in Seq(Quantity \cup {Canceled}) /\ Len(stripe) <= MaxSubs
  /\ stripeEvents \in Seq([sub : 1 .. MaxSubs, quantity : Quantity])
  /\ processed \subseteq 1 .. Len(stripeEvents)
  /\ seatReq \in
       [SeatRequests ->
          [pc : {"idle", "count", "lock", "ensure", "update", "cancel",
                 "commit"},
           subscribe : BOOLEAN, n : Quantity, seat : SeatRows]]
  /\ hook \in [Hooks -> [ev : 0 .. Len(stripeEvents), seen : SeatRows]]
  /\ served \in 0 .. MaxServed
  /\ strayed \subseteq 1 .. Len(stripe)
  /\ {calm, unbilled} \subseteq BOOLEAN

SeatInit ==
  /\ members = 1
  /\ seat = NoSeat
  /\ stripe = << >>
  /\ stripeEvents = << >>
  /\ processed = {}
  /\ seatReq = [q \in SeatRequests |-> NotServing]
  /\ hook = [h \in Hooks |-> NoHook]
  /\ served = 0
  /\ strayed = {} /\ calm = TRUE /\ unbilled = FALSE

-----------------------------------------------------------------------------
HasLock(q) == seatReq[q].pc \in {"ensure", "update", "cancel", "commit"}
NobodyHasLock == \A q \in SeatRequests : ~HasLock(q)
NoHookRuns == \A h \in Hooks : hook[h] = NoHook

Serve(q, r) ==
  /\ seatReq[q] = NotServing
  /\ served < MaxServed
  /\ served' = served + 1
  /\ seatReq' = [seatReq EXCEPT ![q] = r]
  /\ UNCHANGED << seat, stripe, stripeEvents, processed, hook, strayed,
                  calm, unbilled >>

\* accept_invite or jit_provision has committed a membership ...
Join(q) ==
  /\ members < MaxMembers
  /\ members' = members + 1
  /\ Serve(q, [NotServing EXCEPT !.pc = "count"])

\* ... or remove_member its removal; the last member may go when an owner has
\* transferred to himself and no owner is left.
Leave(q) ==
  /\ members > 0
  /\ members' = members - 1
  /\ Serve(q, [NotServing EXCEPT !.pc = "count"])

\* POST billing/subscribe by an admin.
Subscribe(q) ==
  /\ members > 0
  /\ Serve(q, [NotServing EXCEPT !.pc = "count", !.subscribe = TRUE])
  /\ UNCHANGED members

CountMembers(q) ==
  /\ seatReq[q].pc = "count"
  /\ seatReq' = [seatReq EXCEPT ![q].pc = "lock", ![q].n = members]
  /\ UNCHANGED << members, seat, stripe, stripeEvents, processed, hook,
                  served, strayed, calm, unbilled >>

\* Where update_seat_count or ensure_subscription goes with the locked row.
FirstCall(subscribe, n, row) ==
  CASE subscribe /\ row.sub # 0            -> "commit"
    [] ~subscribe /\ row.sub # 0 /\ n = 0  -> "cancel"
    [] ~subscribe /\ row.sub # 0 /\ n # 0  -> "update"
    [] row.sub = 0                         -> "ensure"

\* The row as the transaction has it now; `subscribe' sets the count later.
Lock(q) ==
  LET r == seatReq[q]
      mine == [seat EXCEPT !.row = TRUE,
                           !.count = IF r.subscribe THEN @ ELSE r.n]
  IN  seatReq' = [seatReq EXCEPT
        ![q].pc = FirstCall(r.subscribe, r.n, seat), ![q].seat = mine]

\* A get_or_create_seat without FOR UPDATE.
LockNothing(q) ==
  /\ seatReq[q].pc = "lock"
  /\ Lock(q)
  /\ calm' = (calm /\ NoHookRuns)
  /\ UNCHANGED << members, seat, stripe, stripeEvents, processed, hook,
                  served, strayed, unbilled >>

\* get_or_create_seat.  Of two requests that both find no row, the second
\* one's insertion waits for the first and fails: RequestCut.
LockSeat(q) ==
  /\ seatReq[q].pc = "lock"
  /\ NobodyHasLock
  /\ Lock(q)
  /\ calm' = (calm /\ NoHookRuns)
  /\ UNCHANGED << members, seat, stripe, stripeEvents, processed, hook,
                  served, strayed, unbilled >>

\* What a call of Stripe may come to.
Outcomes == {"ok", "refused", "lost"}

\* The transaction's row and next place after a call; a failure is flagged.
After(q, pc, row, how) ==
  /\ seatReq' = [seatReq EXCEPT
       ![q].pc = IF how = "ok" THEN pc ELSE "commit",
       ![q].seat = IF how = "ok" THEN row ELSE [@ EXCEPT !.outOfSync = TRUE]]
  /\ UNCHANGED << members, seat, processed, hook, served, calm, unbilled >>

\* ensure_subscription: a subscription with the row's count.
EnsureSubscription(q, how) ==
  LET r == seatReq[q]
  IN  /\ r.pc = "ensure"
      /\ how # "refused" => Len(stripe) < MaxSubs
      /\ stripe' = IF how = "refused" THEN stripe
                   ELSE Append(stripe, r.seat.count)
      /\ After(q, IF r.subscribe THEN "commit" ELSE "update",
               [r.seat EXCEPT !.sub = Len(stripe) + 1], how)
      /\ strayed' = strayed \cup (IF how = "lost" THEN {Len(stripe) + 1} ELSE {})
      /\ UNCHANGED stripeEvents

\* update_seat_count: the quantity.  A subscription that is canceled refuses.
UpdateQuantity(q, how) ==
  LET r == seatReq[q]
      s == r.seat.sub
  IN  /\ r.pc = "update"
      /\ stripe[s] = Canceled => how = "refused"
      /\ IF how = "refused" \/ stripe[s] = r.n
         THEN UNCHANGED << stripe, stripeEvents >>
         ELSE /\ Len(stripeEvents) < MaxHookEvents
              /\ stripe' = [stripe EXCEPT ![s] = r.n]
              /\ stripeEvents' =
                   Append(stripeEvents, [sub |-> s, quantity |-> r.n])
      /\ UNCHANGED strayed
      /\ After(q, "commit", [r.seat EXCEPT !.outOfSync = FALSE], how)

\* update_seat_count(0).
CancelSubscription(q, how) ==
  LET r == seatReq[q]
  IN  /\ r.pc = "cancel"
      /\ stripe[r.seat.sub] = Canceled => how = "refused"
      /\ stripe' = IF how = "refused" THEN stripe
                   ELSE [stripe EXCEPT ![r.seat.sub] = Canceled]
      /\ After(q, "commit",
               [r.seat EXCEPT !.sub = 0, !.outOfSync = FALSE], how)
      /\ strayed' = strayed \cup (IF how = "lost" THEN {r.seat.sub} ELSE {})
      /\ UNCHANGED stripeEvents

CommitSeat(q) ==
  LET r == seatReq[q]
  IN  /\ r.pc = "commit"
      /\ seat' = [r.seat EXCEPT !.count = r.n]
      /\ seatReq' = [seatReq EXCEPT ![q] = NotServing]
      /\ unbilled' = (unbilled \/ (/\ r.subscribe
                                   /\ r.seat.sub # 0
                                   /\ stripe[r.seat.sub] # r.n))
      /\ UNCHANGED << members, stripe, stripeEvents, processed, hook, served,
                      strayed, calm >>

\* An exception outside the calls of Stripe, or the process dies: rollback.
RequestCut(q) ==
  /\ seatReq[q] # NotServing
  /\ seatReq' = [seatReq EXCEPT ![q] = NotServing]
  /\ strayed' = strayed \cup
       (IF HasLock(q) /\ seatReq[q].seat.sub # seat.sub
        THEN {seatReq[q].seat.sub, seat.sub} \ {0} ELSE {})
  /\ UNCHANGED << members, seat, stripe, stripeEvents, processed, hook,
                  served, calm, unbilled >>

-----------------------------------------------------------------------------
\* A live subscription changes otherwise, in its status or its period.
SubscriptionChanges(s) ==
  /\ s \in 1 .. Len(stripe) /\ stripe[s] # Canceled
  /\ Len(stripeEvents) < MaxHookEvents
  /\ stripeEvents' = Append(stripeEvents, [sub |-> s, quantity |-> stripe[s]])
  /\ UNCHANGED << members, seat, stripe, processed, seatReq, hook, served,
                  strayed, calm, unbilled >>

HookRead(h, e) ==
  /\ hook[h] = NoHook
  /\ hook' = [hook EXCEPT ![h] = [ev |-> e, seen |-> seat]]
  /\ calm' = (/\ calm /\ NoHookRuns /\ NobodyHasLock
              /\ 1 .. (e - 1) \subseteq processed)
  /\ UNCHANGED << members, seat, stripe, stripeEvents, processed, seatReq,
                  served, strayed, unbilled >>

\* A webhook that does not look for its event.
HookReadsAgain(h, e) ==
  /\ e \in 1 .. Len(stripeEvents)
  /\ \A g \in Hooks : hook[g].ev # e
  /\ HookRead(h, e)

\* stripe_webhook: an event that is not recorded, and the row.  The insertion
\* of the event makes a second delivery wait and then fail.
HookReads(h, e) ==
  /\ e \in 1 .. Len(stripeEvents) \ processed
  /\ \A g \in Hooks : hook[g].ev # e
  /\ HookRead(h, e)

\* reconcile_seat_from_webhook, if the row that was read has the subscription:
\* what differs from that row is written, once the row is not locked.
HookCommits(h) ==
  LET e == stripeEvents[hook[h].ev]
      seen == hook[h].seen
  IN  /\ hook[h] # NoHook
      /\ processed' = processed \cup {hook[h].ev}
      /\ IF seen.sub = e.sub
         THEN /\ NobodyHasLock
              /\ seat' = [seat EXCEPT
                   !.count = IF seen.count = e.quantity THEN @ ELSE e.quantity,
                   !.outOfSync = IF seen.outOfSync THEN FALSE ELSE @]
         ELSE UNCHANGED seat
      /\ hook' = [hook EXCEPT ![h] = NoHook]
      /\ UNCHANGED << members, stripe, stripeEvents, seatReq, served,
                      strayed, calm, unbilled >>

\* The call fails and is rolled back; Stripe delivers the event again.
HookFails(h) ==
  /\ hook[h] # NoHook
  /\ hook' = [hook EXCEPT ![h] = NoHook]
  /\ UNCHANGED << members, seat, stripe, stripeEvents, processed, seatReq,
                  served, strayed, calm, unbilled >>

SeatNext ==
  \/ \E q \in SeatRequests :
       \/ Join(q) \/ Leave(q) \/ Subscribe(q)
       \/ CountMembers(q) \/ LockSeat(q) \/ CommitSeat(q) \/ RequestCut(q)
       \/ \E how \in Outcomes :
            \/ EnsureSubscription(q, how)
            \/ UpdateQuantity(q, how)
            \/ CancelSubscription(q, how)
  \/ \E h \in Hooks :
       \/ \E e \in 1 .. MaxHookEvents : HookReads(h, e)
       \/ HookCommits(h) \/ HookFails(h)
  \/ \E s \in 1 .. MaxSubs : SubscriptionChanges(s)

SeatSpec == SeatInit /\ [][SeatNext]_seatVars

-----------------------------------------------------------------------------
Quiet == NoHookRuns /\ \A q \in SeatRequests : seatReq[q] = NotServing

(* When nothing is in progress, the live subscriptions are the one of the row
   and no other, but for those that strayed: Stripe created or canceled them,
   and the request failed before it had committed that, or lost the answer.
   Nothing repairs these (a lost cancel leaves a flag that a later event may
   clear), and they are the only ones.  When every event has been handled too,
   the seats that are billed are the seats that are stored, or the row is
   flagged out_of_sync: also if requests failed after they had changed a
   quantity at Stripe, because the event of that change repairs the row; a row
   without a subscription has no seats, or is flagged.  The second half needs
   webhooks in order and apart from requests (calm) and no `subscribe' that
   stores a count it has not sent to Stripe (unbilled). *)
BillingMatches ==
  Quiet =>
    /\ \A s \in 1 .. Len(stripe) \ strayed : stripe[s] # Canceled <=> s = seat.sub
    /\ calm /\ ~unbilled /\ processed = 1 .. Len(stripeEvents) =>
         \/ seat.outOfSync
         \/ seat.sub = 0 /\ seat.count = 0
         \/ seat.sub # 0 /\ stripe[seat.sub] = seat.count
         \/ seat.sub \in strayed /\ stripe[seat.sub] = Canceled

(* Requests that run at the same time do not create a second subscription, also
   when some of them fail: the row, or its insertion, is locked while Stripe is
   asked.  Only a creation whose answer or commit was lost (strayed) leaves a
   subscription that nobody knows of beside the next one. *)
OneSubscription ==
  Cardinality({s \in 1 .. Len(stripe) \ strayed : stripe[s] # Canceled}) <= 1
=============================================================================
