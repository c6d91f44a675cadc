---------------------------- MODULE Entitlements ----------------------------
(***************************************************************************)
(* The payment path: Stripe delivers each event to some API process until  *)
(* one answers 200; the webhook records the event in stripe_events,        *)
(* translates it and dispatches it to the entitlement subscriber, which    *)
(* writes user_entitlements.  Every database transaction is a step of its  *)
(* own, so that deliveries to different processes interleave and a crash   *)
(* can fall between any two commits.                                       *)
(***************************************************************************)
EXTENDS StripeEvents

CONSTANTS
  Worker,        \* API processes, each handling one delivery at a time
  MaxCrashes,    \* bound: processes killed in mid-request
  MaxFailures,   \* bound: database errors raised by a statement or a commit
  MaxReentries   \* bound: times the lifespan is entered again in one process

ASSUME BoundsAssumption ==
  MaxCrashes \in Nat /\ MaxFailures \in Nat /\ MaxReentries \in Nat

VARIABLES
  pending,     \* events Stripe has had no 200 for
  ledger,      \* rows of stripe_events
  granted,     \* rows of user_entitlements, by granted_by_event_id
  grantedAt,   \* their granted_at
  revokedBy,   \* their revoked_by_event_id
  clock,       \* the last granted_at
  pc,          \* where each process is in the webhook
  evt,         \* the event it is handling
  calls,       \* subscriber calls its dispatch still has to make
  cand,        \* the row its revocation has selected
  subs,        \* times the subscribers are registered on its event bus
  crashes, failures, reentries

tables == <<ledger, granted, grantedAt, revokedBy, clock>>
faults == <<crashes, failures, reentries>>
vars   == <<pending, tables, pc, evt, calls, cand, subs, faults>>

----------------------------------------------------------------------------
\* the read side: active grants and the tier they add up to

Active(e) == e \in granted /\ revokedBy[e] = None

Matching(r) == {e \in granted : Active(e) /\ SamePurchase(e, r)}

\* the rows a revocation for r may choose from: the most recent active ones
Candidates(r) ==
  {e \in Matching(r) : \A f \in Matching(r) : grantedAt[f] <= grantedAt[e]}

GrantsOf(u) == {e \in granted : Active(e) /\ EventUser(e) = u}

\* mutant of TierForUser: ORDER BY granted_at where the rank belongs
TierForUserLatest(u) ==
  IF GrantsOf(u) = {} THEN {"free"}
  ELSE {EventTier(e) : e \in {e \in GrantsOf(u) :
          \A f \in GrantsOf(u) : grantedAt[f] <= grantedAt[e]}}

\* the tiers tier_for_user may answer (two tiers share a rank)
TierForUser(u) ==
  IF GrantsOf(u) = {} THEN {"free"}
  ELSE {EventTier(e) : e \in {e \in GrantsOf(u) :
          \A f \in GrantsOf(u) : TierRank[EventTier(f)] <= TierRank[EventTier(e)]}}

----------------------------------------------------------------------------
Init ==
  /\ pending = Event
  /\ ledger = {}
  /\ granted = {}
  /\ grantedAt = [e \in Event |-> 0]
  /\ revokedBy = [e \in Event |-> None]
  /\ clock = 0
  /\ pc = [w \in Worker |-> "idle"]
  /\ evt = [w \in Worker |-> None]
  /\ calls = [w \in Worker |-> 0]
  /\ cand = [w \in Worker |-> None]
  /\ subs = [w \in Worker |-> 1]
  /\ crashes = 0 /\ failures = 0 /\ reentries = 0

\* Stripe posts an unacknowledged event, in any order, to any process
Deliver(w, e) ==
  /\ pc[w] = "idle"
  /\ e \in pending
  /\ pc' = [pc EXCEPT ![w] = "record"]
  /\ evt' = [evt EXCEPT ![w] = e]
  /\ UNCHANGED <<pending, tables, calls, cand, subs, faults>>

\* the request is over, whether it was answered or cut short
Finish(w) ==
  /\ pc' = [pc EXCEPT ![w] = "idle"]
  /\ evt' = [evt EXCEPT ![w] = None]
  /\ calls' = [calls EXCEPT ![w] = 0]
  /\ cand' = [cand EXCEPT ![w] = None]

\* mutant of Novel: the caller ignores what record_stripe_event returns
NovelAlways(w) == TRUE

\* ON CONFLICT DO NOTHING returned a row: this delivery is the first
Novel(w) == evt[w] \notin ledger

\* mutant of Acknowledge: a plain INSERT, so that a replay answers 500
AcknowledgeRaises(w) == Finish(w)

\* the route has nothing to dispatch and answers 200
Acknowledge(w) ==
  /\ pc' = [pc EXCEPT ![w] = "respond"]
  /\ UNCHANGED <<evt, calls, cand>>

(***************************************************************************)
(* record_stripe_event inserts the event and commits; an event already     *)
(* there is a replay and is acknowledged without dispatching.              *)
(***************************************************************************)
Record(w) ==
  /\ pc[w] = "record"
  /\ ledger' = ledger \cup {evt[w]}
  /\ IF Novel(w) /\ Routed(evt[w])
     THEN /\ pc' = [pc EXCEPT ![w] = "handle"]
          /\ calls' = [calls EXCEPT ![w] = subs[w]]
          /\ UNCHANGED <<evt, cand>>
     ELSE Acknowledge(w)
  /\ UNCHANGED <<pending, granted, grantedAt, revokedBy, clock, subs, faults>>

\* the insert raises, the route answers 500 and Stripe keeps the event
RecordFails(w) ==
  /\ pc[w] = "record"
  /\ failures < MaxFailures
  /\ failures' = failures + 1
  /\ Finish(w)
  /\ UNCHANGED <<pending, tables, subs, crashes, reentries>>

\* mutant of NextCall: the walk over the handlers ends one too late
NextCallOneMore(w) ==
  /\ pc' = [pc EXCEPT ![w] = IF calls[w] > 0 THEN "handle" ELSE "respond"]
  /\ calls' = [calls EXCEPT ![w] = @ - 1]
  /\ cand' = [cand EXCEPT ![w] = None]

\* dispatch_async goes on to the next registered handler, or is done
NextCall(w) ==
  /\ pc' = [pc EXCEPT ![w] = IF calls[w] > 1 THEN "handle" ELSE "respond"]
  /\ calls' = [calls EXCEPT ![w] = @ - 1]
  /\ cand' = [cand EXCEPT ![w] = None]

(***************************************************************************)
(* grant_tier: one transaction.  A repeated granted_by_event_id inserts    *)
(* nothing, and so does a user that is unparseable or has no users row.    *)
(***************************************************************************)
Grant(w) ==
  LET e == evt[w] IN
  /\ pc[w] = "handle" /\ IsPayment(e)
  /\ IF EventUser(e) \in User /\ e \notin granted
     THEN /\ granted' = granted \cup {e}
          /\ clock' = clock + 1
          /\ grantedAt' = [grantedAt EXCEPT ![e] = clock + 1]
     ELSE UNCHANGED <<granted, clock, grantedAt>>
  /\ NextCall(w)
  /\ UNCHANGED <<pending, ledger, revokedBy, evt, subs, faults>>

\* revoke_by_event: the scalar subquery picks the row from its snapshot
RevokeSelect(w) ==
  /\ pc[w] = "handle" /\ IsRefund(evt[w])
  /\ IF Candidates(evt[w]) = {}
     THEN UNCHANGED cand
     ELSE \E e \in Candidates(evt[w]) : cand' = [cand EXCEPT ![w] = e]
  /\ pc' = [pc EXCEPT ![w] = "update"]
  /\ UNCHANGED <<pending, tables, evt, calls, subs, faults>>

\* mutant of Unique: the migration forgot the unique index
UniqueUnchecked(w) == TRUE

\* revoked_by_event_id is unique: no other row carries this refund
Unique(w) == \A e \in granted \ {cand[w]} : revokedBy[e] # evt[w]

\* mutant of RevokeUpdate: the row is deleted where it should be marked
RevokeDeletes(w) ==
  /\ pc[w] = "update"
  /\ granted' = granted \ {cand[w]}
  /\ NextCall(w)
  /\ UNCHANGED <<pending, ledger, revokedBy, grantedAt, clock, evt, subs, faults>>

(***************************************************************************)
(* revoke_by_event: the UPDATE finds its row by id, whatever happened to   *)
(* it since the subquery ran; a second row for the same refund is refused  *)
(* by the unique index and rolled back.                                    *)
(***************************************************************************)
RevokeUpdate(w) ==
  /\ pc[w] = "update"
  /\ IF cand[w] # None /\ Unique(w)
     THEN revokedBy' = [revokedBy EXCEPT ![cand[w]] = evt[w]]
     ELSE UNCHANGED revokedBy
  /\ NextCall(w)
  /\ UNCHANGED <<pending, ledger, granted, grantedAt, clock, evt, subs, faults>>

\* a subscriber raises: the bus logs it and the publisher never sees it
HandlerFails(w) ==
  /\ pc[w] \in {"handle", "update"}
  /\ failures < MaxFailures
  /\ failures' = failures + 1
  /\ NextCall(w)
  /\ UNCHANGED <<pending, tables, evt, subs, crashes, reentries>>

Respond(w) ==
  /\ pc[w] = "respond"
  /\ pending' = pending \ {evt[w]}
  /\ Finish(w)
  /\ UNCHANGED <<tables, subs, faults>>

\* the 200 never reaches Stripe, which will deliver the event again
ResponseLost(w) ==
  /\ pc[w] = "respond"
  /\ Finish(w)
  /\ UNCHANGED <<pending, tables, subs, faults>>

\* the process dies in mid-request and is started afresh
Crash(w) ==
  /\ pc[w] # "idle"
  /\ crashes < MaxCrashes
  /\ crashes' = crashes + 1
  /\ Finish(w)
  /\ subs' = [subs EXCEPT ![w] = 1]
  /\ UNCHANGED <<pending, tables, failures, reentries>>

\* the lifespan runs again in a live process; subscribe appends
ReenterLifespan(w) ==
  /\ reentries < MaxReentries
  /\ reentries' = reentries + 1
  /\ subs' = [subs EXCEPT ![w] = @ + 1]
  /\ UNCHANGED <<pending, tables, pc, evt, calls, cand, crashes, failures>>

Step(w) == Record(w) \/ Grant(w) \/ RevokeSelect(w) \/ RevokeUpdate(w)

Next == \E w \in Worker :
  \/ \E e \in Event : Deliver(w, e)
  \/ Step(w)
  \/ RecordFails(w) \/ HandlerFails(w)
  \/ Respond(w) \/ ResponseLost(w)
  \/ Crash(w) \/ ReenterLifespan(w)

Spec == Init /\ [][Next]_vars

(***************************************************************************)
(* A process runs the request it has taken, Stripe redelivers what it has  *)
(* no 200 for, and a 200 that is sent again and again gets through once.   *)
(***************************************************************************)
Fairness ==
  /\ \A w \in Worker : WF_vars(Step(w))
  /\ \A e \in Event : SF_vars(\E w \in Worker : Deliver(w, e))
  /\ \A e \in Event : SF_vars(\E w \in Worker : evt[w] = e /\ Respond(w))

FairSpec == Spec /\ Fairness

----------------------------------------------------------------------------
Handling(w) == pc[w] \in {"handle", "update"}

\* The type invariant: every process variable is at rest when its process is.
TypeOK ==
  /\ pending \subseteq Event /\ ledger \subseteq Event
  /\ granted \subseteq Event
  /\ grantedAt \in [Event -> Nat] /\ clock \in Nat
  /\ revokedBy \in [Event -> Event \cup {None}]
  /\ pc \in [Worker -> {"idle", "record", "handle", "update", "respond"}]
  /\ evt \in [Worker -> Event \cup {None}]
  /\ \A w \in Worker : evt[w] = None <=> pc[w] = "idle"
  /\ calls \in [Worker -> Nat] /\ subs \in [Worker -> Nat \ {0}]
  /\ \A w \in Worker : Handling(w) => calls[w] > 0
  /\ cand \in [Worker -> Event \cup {None}]
  /\ crashes \in Nat /\ failures \in Nat /\ reentries \in Nat

\* The dedupe ledger admits one dispatch per event: two processes never
\* handle the same event, though Stripe may deliver it to both at once
\* (record_stripe_event: "concurrent deliveries collapse to a single row").
OneHandlerPerEvent ==
  \A v, w \in Worker : Handling(v) /\ Handling(w) /\ evt[v] = evt[w] => v = w

\* Every effect on the entitlement table belongs to a recorded event: a grant
\* to a payment for a real user, a revocation to a refund of the same user and
\* the same tier as the grant it ended.
EffectsMatchEvents ==
  \A e \in granted :
    /\ e \in ledger /\ IsPayment(e) /\ EventUser(e) \in User
    /\ LET r == revokedBy[e] IN
         r # None => r \in ledger /\ IsRefund(r) /\ SamePurchase(e, r)

\* One refund ends at most one grant, even when the subscribers are registered
\* twice, or when two refunds on two processes choose the same grant.
OneGrantPerRefund ==
  \A e, f \in granted : revokedBy[e] # None /\ revokedBy[e] = revokedBy[f] => e = f

\* The entitlement table says nothing that no event paid for or took back, and
\* no event takes back twice.
EffectsAreEarned == EffectsMatchEvents /\ OneGrantPerRefund

\* A payment by a known user that Stripe has a 200 for has its grant row.
AckedPaymentIsGranted ==
  \A e \in Event \ pending : IsPayment(e) /\ EventUser(e) \in User => e \in granted

\* A grant that was revoked is never active again, and its row never goes away.
RevocationIsFinal ==
  [][\A e \in granted : e \in granted' /\ (revokedBy[e] # None => revokedBy'[e] # None)]_vars

\* A user's access level rises only in the step that writes them a grant of
\* the new level, and falls only in the step that revokes one of theirs.
AccessFollowsLedger ==
  [][\A u \in User : \A t \in TierForUser(u), n \in TierForUser(u)' :
       /\ TierRank[n] > TierRank[t] =>
            \E e \in granted' \ granted : EventUser(e) = u /\ EventTier(e) = n
       /\ TierRank[n] < TierRank[t] =>
            \E e \in GrantsOf(u) : EventTier(e) = t /\ ~Active(e)']_vars

\* Every event Stripe sends is acknowledged in the end, whatever crashed.
EveryEventAcked == <>[](pending = {})

----------------------------------------------------------------------------
(***************************************************************************)
(* The refinement: an event has had its chance once it is in the ledger    *)
(* and no process is still handling it.                                    *)
(***************************************************************************)
ActiveGrants == {e \in granted : Active(e)}
Settled == {e \in ledger : \A w \in Worker : Handling(w) => evt[w] # e}

Ledger == INSTANCE EntitlementLedger WITH active <- ActiveGrants, used <- Settled

\* The webhook implements the abstract ledger (with one registration per
\* process): each event takes effect at most once, on its own user and tier.
ImplementsLedger == Ledger!Spec
=============================================================================
