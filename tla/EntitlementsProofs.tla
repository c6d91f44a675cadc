------------------------- MODULE EntitlementsProofs -------------------------
(***************************************************************************)
(* Proofs about Entitlements, for every set of events, users and processes *)
(* and every bound on the faults.                                          *)
(***************************************************************************)
EXTENDS Entitlements, TLAPS

\* Every step keeps the types, and a process variable is at rest when its
\* process is (the webhook's locals do not outlive the request).
THEOREM TypeCorrect == Spec => []TypeOK
<1>1. Init => TypeOK
  BY ContentAssumption, BoundsAssumption DEF Init, TypeOK, Handling
<1>2. TypeOK /\ [Next]_vars => TypeOK'
  <2> SUFFICES ASSUME TypeOK, [Next]_vars PROVE TypeOK'
    OBVIOUS
  <2> USE ContentAssumption, BoundsAssumption DEF TypeOK, Handling
  <2>1. ASSUME NEW w \in Worker, NEW e \in Event, Deliver(w, e) PROVE TypeOK'
    BY <2>1 DEF Deliver, tables, faults
  <2>2. ASSUME NEW w \in Worker, Record(w) PROVE TypeOK'
    BY <2>2 DEF Record, Acknowledge, tables, faults
  <2>3. ASSUME NEW w \in Worker, Grant(w) PROVE TypeOK'
    BY <2>3 DEF Grant, NextCall, tables, faults
  <2>4. ASSUME NEW w \in Worker, RevokeSelect(w) PROVE TypeOK'
    <3>1. Candidates(evt[w]) \subseteq Event
      BY DEF Candidates, Matching
    <3> QED BY <2>4, <3>1 DEF RevokeSelect, tables, faults
  <2>5. ASSUME NEW w \in Worker, RevokeUpdate(w) PROVE TypeOK'
    BY <2>5 DEF RevokeUpdate, NextCall, tables, faults
  <2>6. ASSUME NEW w \in Worker, RecordFails(w) PROVE TypeOK'
    BY <2>6 DEF RecordFails, Finish, tables, faults
  <2>7. ASSUME NEW w \in Worker, HandlerFails(w) PROVE TypeOK'
    BY <2>7 DEF HandlerFails, NextCall, tables, faults
  <2>8. ASSUME NEW w \in Worker, Respond(w) PROVE TypeOK'
    BY <2>8 DEF Respond, Finish, tables, faults
  <2>9. ASSUME NEW w \in Worker, ResponseLost(w) PROVE TypeOK'
    BY <2>9 DEF ResponseLost, Finish, tables, faults
  <2>10. ASSUME NEW w \in Worker, Crash(w) PROVE TypeOK'
    BY <2>10 DEF Crash, Finish, tables, faults
  <2>11. ASSUME NEW w \in Worker, ReenterLifespan(w) PROVE TypeOK'
    BY <2>11 DEF ReenterLifespan, tables, faults
  <2>12. CASE UNCHANGED vars
    BY <2>12 DEF vars, tables, faults
  <2> QED
    BY <2>1, <2>2, <2>3, <2>4, <2>5, <2>6, <2>7, <2>8, <2>9, <2>10, <2>11, <2>12
    DEF Next, Step
<1> QED BY <1>1, <1>2, PTL DEF Spec

----------------------------------------------------------------------------
(***************************************************************************)
(* The inductive invariant.  What the properties add up to is not          *)
(* inductive alone: a revocation in flight carries a row it selected       *)
(* earlier, and the handlers rely on the ledger row their process wrote    *)
(* before it dispatched.                                                   *)
(***************************************************************************)
HandlerRecorded ==
  \A w \in Worker : Handling(w) => evt[w] \in ledger /\ Routed(evt[w])

CandidateMatches ==
  \A w \in Worker :
    /\ pc[w] = "update" => IsRefund(evt[w])
    /\ cand[w] # None =>
         pc[w] = "update" /\ cand[w] \in granted /\ SamePurchase(cand[w], evt[w])

UngrantedUnrevoked == \A e \in Event \ granted : revokedBy[e] = None

IInv ==
  /\ TypeOK
  /\ HandlerRecorded
  /\ CandidateMatches
  /\ UngrantedUnrevoked
  /\ OneHandlerPerEvent
  /\ EffectsMatchEvents
  /\ OneGrantPerRefund

LEMMA InitIInv == Init => IInv
BY ContentAssumption, BoundsAssumption
DEF Init, IInv, TypeOK, Handling, HandlerRecorded, CandidateMatches,
    UngrantedUnrevoked, OneHandlerPerEvent, EffectsMatchEvents, OneGrantPerRefund

\* The dedupe ledger is what keeps two processes off the same event.
LEMMA RecordIInv ==
  ASSUME IInv, TypeOK', NEW w \in Worker, Record(w) PROVE IInv'
<1> USE ContentAssumption DEF Record, Acknowledge, IInv, TypeOK, Handling
<1>1. evt[w] \in Event /\ UNCHANGED <<granted, revokedBy, evt, cand>>
  BY DEF tables
<1>2. \A v \in Worker \ {w} : pc'[v] = pc[v]
  OBVIOUS
<1>3. Handling(w)' => evt[w] \notin ledger /\ Routed(evt[w])
  BY DEF Novel
<1>4. HandlerRecorded'
  BY <1>1, <1>2, <1>3 DEF HandlerRecorded
<1>5. CandidateMatches'
  BY <1>1, <1>2 DEF CandidateMatches
<1>6. OneHandlerPerEvent'
  BY <1>1, <1>2, <1>3 DEF OneHandlerPerEvent, HandlerRecorded
<1>7. EffectsMatchEvents' /\ OneGrantPerRefund' /\ UngrantedUnrevoked'
  BY <1>1 DEF EffectsMatchEvents, OneGrantPerRefund, UngrantedUnrevoked
<1> QED BY <1>4, <1>5, <1>6, <1>7

LEMMA GrantIInv ==
  ASSUME IInv, TypeOK', NEW w \in Worker, Grant(w) PROVE IInv'
<1> USE ContentAssumption DEF Grant, NextCall, IInv, TypeOK, Handling
<1>1. evt[w] \in Event /\ evt[w] \in ledger /\ IsPayment(evt[w])
      /\ UNCHANGED <<ledger, revokedBy, evt>>
  BY DEF HandlerRecorded
<1>2. \A v \in Worker \ {w} : pc'[v] = pc[v] /\ cand'[v] = cand[v]
  OBVIOUS
<1>3. Handling(w) /\ pc'[w] # "update" /\ granted \subseteq granted'
  OBVIOUS
<1>4. \A e \in granted' \ granted :
        e = evt[w] /\ EventUser(e) \in User /\ revokedBy[e] = None
  BY <1>1 DEF UngrantedUnrevoked
<1>5. HandlerRecorded' /\ OneHandlerPerEvent'
  BY <1>1, <1>2, <1>3 DEF HandlerRecorded, OneHandlerPerEvent
<1>6. CandidateMatches'
  BY <1>1, <1>2, <1>3 DEF CandidateMatches
<1>7. EffectsMatchEvents' /\ OneGrantPerRefund'
  BY <1>1, <1>4 DEF EffectsMatchEvents, OneGrantPerRefund
<1>8. UngrantedUnrevoked'
  BY <1>1, <1>3 DEF UngrantedUnrevoked
<1> QED BY <1>5, <1>6, <1>7, <1>8

LEMMA RevokeSelectIInv ==
  ASSUME IInv, TypeOK', NEW w \in Worker, RevokeSelect(w) PROVE IInv'
<1> USE ContentAssumption DEF RevokeSelect, IInv, TypeOK, Handling
<1>1. Candidates(evt[w]) \subseteq {e \in granted : SamePurchase(e, evt[w])}
  BY DEF Candidates, Matching
<1>2. UNCHANGED <<ledger, granted, revokedBy, evt>>
  BY DEF tables
<1>3. \A v \in Worker \ {w} : pc'[v] = pc[v] /\ cand'[v] = cand[v]
  OBVIOUS
<1>4. HandlerRecorded' /\ OneHandlerPerEvent'
  BY <1>2, <1>3 DEF HandlerRecorded, OneHandlerPerEvent
<1>5. cand'[w] \in Candidates(evt[w]) \/ cand'[w] = cand[w]
  OBVIOUS
<1>6. CandidateMatches'
  BY <1>1, <1>2, <1>3, <1>5 DEF CandidateMatches
<1>7. EffectsMatchEvents' /\ OneGrantPerRefund' /\ UngrantedUnrevoked'
  BY <1>2 DEF EffectsMatchEvents, OneGrantPerRefund, UngrantedUnrevoked
<1> QED BY <1>4, <1>6, <1>7

\* OneGrantPerRefund is kept by the unique index, whatever the row selected
\* for this refund has been through since.
LEMMA RevokeUpdateIInv ==
  ASSUME IInv, TypeOK', NEW w \in Worker, RevokeUpdate(w) PROVE IInv'
<1> USE ContentAssumption DEF RevokeUpdate, NextCall, IInv, TypeOK, Handling
<1>1. /\ evt[w] \in Event /\ evt[w] \in ledger /\ IsRefund(evt[w])
      /\ cand[w] # None => cand[w] \in granted /\ SamePurchase(cand[w], evt[w])
      /\ UNCHANGED <<ledger, granted, evt>>
  BY DEF HandlerRecorded, CandidateMatches
<1>2. \A v \in Worker \ {w} : pc'[v] = pc[v] /\ cand'[v] = cand[v]
  OBVIOUS
<1>3. Handling(w) /\ pc'[w] # "update" /\ cand'[w] = None
  OBVIOUS
<1>4. HandlerRecorded' /\ OneHandlerPerEvent' /\ CandidateMatches'
  BY <1>1, <1>2, <1>3 DEF HandlerRecorded, OneHandlerPerEvent, CandidateMatches
<1>5. CASE UNCHANGED revokedBy
  <2>1. EffectsMatchEvents' /\ OneGrantPerRefund' /\ UngrantedUnrevoked'
    BY <1>1, <1>5 DEF EffectsMatchEvents, OneGrantPerRefund, UngrantedUnrevoked
  <2> QED BY <1>4, <2>1
<1>6. CASE /\ cand[w] # None /\ Unique(w)
           /\ revokedBy' = [revokedBy EXCEPT ![cand[w]] = evt[w]]
  <2>1. EffectsMatchEvents' /\ UngrantedUnrevoked'
    BY <1>1, <1>6 DEF EffectsMatchEvents, UngrantedUnrevoked
  <2>2. OneGrantPerRefund'
    BY <1>1, <1>6 DEF OneGrantPerRefund, Unique
  <2> QED BY <1>4, <2>1, <2>2
<1> QED BY <1>5, <1>6

\* The steps that end a handler call or a request, and those that touch
\* neither a handler nor a table, keep the invariant for one reason.
LEMMA QuietIInv ==
  ASSUME IInv, TypeOK', NEW w \in Worker,
         UNCHANGED <<ledger, granted, revokedBy>>,
         \A v \in Worker \ {w} :
           pc'[v] = pc[v] /\ evt'[v] = evt[v] /\ cand'[v] = cand[v],
         Handling(w)' => pc'[w] = "handle" /\ Handling(w) /\ evt'[w] = evt[w],
         cand'[w] = None
  PROVE  IInv'
<1> USE DEF IInv, Handling
<1>1. HandlerRecorded' /\ OneHandlerPerEvent' /\ CandidateMatches'
  BY DEF HandlerRecorded, OneHandlerPerEvent, CandidateMatches
<1>2. EffectsMatchEvents' /\ OneGrantPerRefund' /\ UngrantedUnrevoked'
  BY DEF EffectsMatchEvents, OneGrantPerRefund, UngrantedUnrevoked
<1> QED BY <1>1, <1>2

LEMMA NextIInv == IInv /\ TypeOK' /\ [Next]_vars => IInv'
<1> SUFFICES ASSUME IInv, TypeOK', [Next]_vars PROVE IInv'
  OBVIOUS
<1>1. TypeOK /\ CandidateMatches
  BY DEF IInv
<1>2. ASSUME NEW w \in Worker, NEW e \in Event, Deliver(w, e) PROVE IInv'
  BY <1>1, <1>2, QuietIInv
  DEF Deliver, tables, TypeOK, Handling, CandidateMatches
<1>3. ASSUME NEW w \in Worker, Step(w) PROVE IInv'
  BY <1>3, RecordIInv, GrantIInv, RevokeSelectIInv, RevokeUpdateIInv DEF Step
<1>4. ASSUME NEW w \in Worker, HandlerFails(w) PROVE IInv'
  BY <1>1, <1>4, QuietIInv DEF HandlerFails, NextCall, tables, TypeOK, Handling
<1>5. ASSUME NEW w \in Worker,
             RecordFails(w) \/ Respond(w) \/ ResponseLost(w) \/ Crash(w)
      PROVE IInv'
  BY <1>1, <1>5, QuietIInv
  DEF RecordFails, Respond, ResponseLost, Crash, Finish, tables, TypeOK, Handling
<1>6. CASE UNCHANGED <<tables, ledger, pc, evt, cand>>
  BY <1>6 DEF IInv, tables, Handling, HandlerRecorded, CandidateMatches,
    UngrantedUnrevoked, OneHandlerPerEvent, EffectsMatchEvents, OneGrantPerRefund
<1> QED
  BY <1>2, <1>3, <1>4, <1>5, <1>6 DEF Next, ReenterLifespan, vars, tables

THEOREM Invariance == Spec => []IInv
BY InitIInv, NextIInv, TypeCorrect, PTL DEF Spec

\* The dedupe ledger lets one process at a time, and one only, handle an event.
THEOREM OneHandler == Spec => []OneHandlerPerEvent
BY Invariance, PTL DEF IInv

\* Grants and revocations only ever follow recorded events about the same user
\* and tier, and one refund ends one grant at most, however often its handler is
\* registered.
THEOREM EffectsEarned == Spec => []EffectsAreEarned
BY Invariance, PTL DEF IInv, EffectsAreEarned

\* Rows stay, and so do their revocations: an overwritten revoked_by_event_id
\* is replaced by another refund, never by nothing.
Kept == \A e \in granted : e \in granted' /\ (revokedBy[e] # None => revokedBy'[e] # None)

LEMMA KeptLemma == TypeOK /\ [Next]_vars => Kept
<1> SUFFICES ASSUME TypeOK, [Next]_vars PROVE Kept
  OBVIOUS
<1> USE ContentAssumption DEF TypeOK, Kept
<1>1. ASSUME NEW w \in Worker, Grant(w) PROVE Kept
  BY <1>1 DEF Grant
<1>2. ASSUME NEW w \in Worker, RevokeUpdate(w) PROVE Kept
  BY <1>2 DEF RevokeUpdate
<1>3. CASE UNCHANGED <<granted, revokedBy>>
  BY <1>3
<1> QED
  BY <1>1, <1>2, <1>3
  DEF Next, Step, Deliver, Record, Acknowledge, RevokeSelect, RecordFails, HandlerFails,
      Respond, ResponseLost, Crash, ReenterLifespan, vars, tables

\* A revoked grant stays revoked and every grant row stays.
THEOREM Final == Spec => RevocationIsFinal
<1>1. TypeOK /\ [Next]_vars => [Kept]_vars
  BY KeptLemma
<1> QED BY <1>1, TypeCorrect, PTL DEF Spec, RevocationIsFinal, Kept

----------------------------------------------------------------------------
\* Access.  tier_for_user sorts the active rows by rank; whatever it returned
\* before and after a step, a difference is explained by a row.

LEMMA RankType == \A t \in Tier : TierRank[t] \in Nat
BY DEF Tier, TierRank

\* What the router passes on names a tier of the catalogue.
LEMMA RoutedTier == \A e \in Event : Routed(e) => EventTier(e) \in Tier
BY ContentAssumption DEF Routed, EventTier, Payload

\* What tier_for_user may return for a set of active rows.
BestOf(G) ==
  IF G = {} THEN {"free"}
  ELSE {EventTier(e) : e \in {e \in G :
          \A f \in G : TierRank[EventTier(f)] <= TierRank[EventTier(e)]}}

\* Between two sets of rows, a better tier needs a row that was added and a
\* worse one a row that was taken out.
LEMMA BestLemma ==
  ASSUME NEW G, NEW H, \A e \in G \cup H : EventTier(e) \in Tier,
         NEW t \in BestOf(G), NEW n \in BestOf(H), TierRank[n] > TierRank[t]
  PROVE  \E e \in H \ G : EventTier(e) = n
<1> USE RankType
<1>1. "free" \in Tier /\ TierRank["free"] = 0
  BY DEF Tier, TierRank
<1>2. t \in Tier
  BY <1>1 DEF BestOf
<1>3. H # {}
  BY <1>1, <1>2 DEF BestOf
<1>4. PICK e \in H : n = EventTier(e)
  BY <1>3 DEF BestOf
<1>5. e \notin G
  <2> SUFFICES ASSUME e \in G PROVE FALSE
    OBVIOUS
  <2>1. PICK f \in G : t = EventTier(f) /\ \A g \in G : TierRank[EventTier(g)] <= TierRank[EventTier(f)]
    BY DEF BestOf
  <2>2. TierRank[n] <= TierRank[t]
    BY <1>4, <2>1
  <2>3. TierRank[n] \in Nat /\ TierRank[t] \in Nat
    BY <1>2, <1>4
  <2> QED BY <2>2, <2>3
<1> QED BY <1>4, <1>5

\* A user's access rises only with a grant written to them in that step, and
\* falls only with one of theirs revoked in it, whatever else the two tables,
\* the retries and the other processes do.
THEOREM AccessExplained == Spec => AccessFollowsLedger
<1> DEFINE Explained ==
      \A u \in User : \A t \in TierForUser(u), n \in TierForUser(u)' :
        /\ TierRank[n] > TierRank[t] =>
             \E e \in granted' \ granted : EventUser(e) = u /\ EventTier(e) = n
        /\ TierRank[n] < TierRank[t] =>
             \E e \in GrantsOf(u) : EventTier(e) = t /\ ~Active(e)'
<1>1. ASSUME IInv, IInv', Kept PROVE Explained
  <2> SUFFICES ASSUME NEW u \in User, NEW t \in TierForUser(u), NEW n \in TierForUser(u)'
               PROVE  /\ TierRank[n] > TierRank[t] =>
                           \E e \in granted' \ granted : EventUser(e) = u /\ EventTier(e) = n
                      /\ TierRank[n] < TierRank[t] =>
                           \E e \in GrantsOf(u) : EventTier(e) = t /\ ~Active(e)'
    OBVIOUS
  <2> DEFINE G == GrantsOf(u)
             H == GrantsOf(u)'
  <2>1. t \in BestOf(G) /\ n \in BestOf(H)
    BY DEF TierForUser, BestOf
  <2>2. \A e \in G \cup H : EventTier(e) \in Tier
    <3>1. \A e \in granted \cup granted' : e \in Event /\ Routed(e)
      BY <1>1 DEF IInv, TypeOK, EffectsMatchEvents, IsPayment
    <3>2. \A e \in Event : Routed(e) => EventTier(e) \in Tier
      BY RoutedTier
    <3> QED BY <3>1, <3>2 DEF GrantsOf
  <2>3. \A e \in H \ G : e \in granted' \ granted /\ EventUser(e) = u
    BY <1>1 DEF GrantsOf, Active, Kept
  <2>4. \A e \in G \ H : ~Active(e)'
    BY <1>1 DEF GrantsOf, Active, Kept
  <2> HIDE DEF G, H
  <2>5. ASSUME TierRank[n] > TierRank[t]
        PROVE  \E e \in granted' \ granted : EventUser(e) = u /\ EventTier(e) = n
    BY <2>1, <2>2, <2>3, <2>5, BestLemma
  <2>6. ASSUME TierRank[n] < TierRank[t] PROVE \E e \in G : EventTier(e) = t /\ ~Active(e)'
    BY <2>1, <2>2, <2>4, <2>6, BestLemma
  <2> QED BY <2>5, <2>6 DEF G
<1>2. IInv /\ IInv' /\ [Next]_vars => [Explained]_vars
  BY <1>1, KeptLemma DEF IInv
<1> QED BY <1>2, Invariance, PTL DEF Spec, AccessFollowsLedger

----------------------------------------------------------------------------
(***************************************************************************)
(* The refinement.  While no process registers its subscribers twice, the  *)
(* one handler call of an event is its one chance to take effect.          *)
(***************************************************************************)
OneCall == /\ reentries = 0
           /\ \A w \in Worker : subs[w] = 1
           /\ \A w \in Worker : Handling(w) => calls[w] = 1

LEMMA OneCallInvariant == MaxReentries = 0 => (Spec => []OneCall)
<1> SUFFICES ASSUME MaxReentries = 0 PROVE Spec => []OneCall
  OBVIOUS
<1>1. Init => OneCall
  BY DEF Init, OneCall, Handling
<1>2. TypeOK /\ OneCall /\ [Next]_vars => OneCall'
  <2> SUFFICES ASSUME TypeOK, OneCall, [Next]_vars PROVE OneCall'
    OBVIOUS
  <2> USE DEF TypeOK, OneCall, Handling, faults, tables
  <2>1. ASSUME NEW w \in Worker, Step(w) PROVE OneCall'
    BY <2>1 DEF Step, Record, Acknowledge, Grant, RevokeSelect, RevokeUpdate, NextCall
  <2>2. ASSUME NEW w \in Worker,
               \/ RecordFails(w) \/ HandlerFails(w) \/ Respond(w)
               \/ ResponseLost(w) \/ Crash(w) \/ \E e \in Event : Deliver(w, e)
        PROVE OneCall'
    BY <2>2 DEF RecordFails, HandlerFails, Respond, ResponseLost, Crash, Deliver,
                Finish, NextCall
  <2>3. ASSUME NEW w \in Worker PROVE ~ReenterLifespan(w)
    BY DEF ReenterLifespan
  <2>4. CASE UNCHANGED vars
    BY <2>4 DEF vars
  <2> QED BY <2>1, <2>2, <2>3, <2>4 DEF Next
<1> QED BY <1>1, <1>2, TypeCorrect, PTL DEF Spec

\* A process that leaves its handler settles its event and no other.
LEMMA HandlerSettles ==
  ASSUME IInv, NEW w \in Worker, Handling(w), ~Handling(w)', ledger' = ledger,
         \A v \in Worker \ {w} : pc'[v] = pc[v] /\ evt'[v] = evt[v]
  PROVE  evt[w] \notin Settled /\ Settled' = Settled \cup {evt[w]}
BY DEF IInv, HandlerRecorded, OneHandlerPerEvent, Settled, Handling

\* A step that changes no handler and no ledger row settles nothing.
LEMMA NothingSettles ==
  ASSUME ledger' = ledger,
         \A v \in Worker : Handling(v) <=> Handling(v)',
         \A v \in Worker : Handling(v) => evt'[v] = evt[v]
  PROVE  Settled' = Settled
BY DEF Settled

\* Both modules read an event the same way.
LEMMA SameReading ==
  /\ \A e : /\ Ledger!IsPayment(e) <=> IsPayment(e)
            /\ Ledger!IsRefund(e) <=> IsRefund(e)
            /\ Ledger!EventUser(e) = EventUser(e)
  /\ \A e, f : Ledger!SamePurchase(e, f) <=> SamePurchase(e, f)
BY DEF Ledger!IsPayment, IsPayment, Ledger!IsRefund, IsRefund, Ledger!Routed, Routed,
  Ledger!EventUser, EventUser, Ledger!EventTier, EventTier, Ledger!SamePurchase,
  SamePurchase, Ledger!HandledEventTypes, HandledEventTypes, Ledger!EventType, EventType

\* Every step is a step of the abstract ledger, or changes nothing it sees.
LEMMA StepRefines ==
  ASSUME IInv, IInv', OneCall, [Next]_vars
  PROVE  [Ledger!Next]_(Ledger!vars)
<1> USE ContentAssumption DEF IInv, TypeOK, Ledger!vars
<1> DEFINE Stutter == ActiveGrants' = ActiveGrants /\ Settled' = Settled
           Discards(e) == e \in Event /\ e \notin Settled
             /\ Settled' = Settled \cup {e} /\ ActiveGrants' = ActiveGrants
<1>a. ASSUME UNCHANGED <<granted, revokedBy>> PROVE ActiveGrants' = ActiveGrants
  BY <1>a DEF ActiveGrants, Active
<1>b. ASSUME NEW e, Discards(e) PROVE Ledger!Next
  BY <1>b DEF Ledger!Next, Ledger!Discard
<1>c. ASSUME NEW w \in Worker, Handling(w)
      PROVE  evt[w] \in Event /\ calls[w] = 1
  BY <1>c DEF Handling, OneCall
<1>1. ASSUME NEW w \in Worker, Record(w) PROVE Stutter \/ Ledger!Next
  <2>1. evt[w] \in Event /\ ActiveGrants' = ActiveGrants
        /\ \A v \in Worker \ {w} : pc'[v] = pc[v]
    BY <1>1, <1>a DEF Record, Acknowledge
  <2>2. CASE evt[w] \in ledger
    BY <1>1, <2>1, <2>2, NothingSettles DEF Record, Acknowledge, Novel, Handling
  <2>3. CASE evt[w] \notin ledger /\ Routed(evt[w])
    <3>1. Settled' = Settled
      BY <1>1, <2>1, <2>3 DEF Record, Acknowledge, Novel, Settled, Handling
    <3> QED BY <2>1, <3>1
  <2>4. CASE evt[w] \notin ledger /\ ~Routed(evt[w])
    <3>1. evt[w] \notin Settled /\ Settled' = Settled \cup {evt[w]}
      BY <1>1, <2>1, <2>4 DEF Record, Acknowledge, Novel, Settled, Handling, HandlerRecorded
    <3> QED BY <1>b, <2>1, <3>1
  <2> QED BY <2>2, <2>3, <2>4
<1>2. ASSUME NEW w \in Worker, Grant(w) PROVE Ledger!Next
  <2>1. evt[w] \in Event /\ evt[w] \notin Settled
        /\ Settled' = Settled \cup {evt[w]}
    BY <1>2, <1>c, HandlerSettles DEF Grant, NextCall, Handling
  <2>2. CASE UNCHANGED granted
    BY <1>2, <2>1, <2>2, <1>a, <1>b DEF Grant
  <2>3. CASE EventUser(evt[w]) \in User /\ evt[w] \notin granted
             /\ granted' = granted \cup {evt[w]}
    <3>1. ActiveGrants' = ActiveGrants \cup {evt[w]}
      BY <1>2, <2>1, <2>3 DEF Grant, ActiveGrants, Active, UngrantedUnrevoked
    <3>2. IsPayment(evt[w])
      BY <1>2 DEF Grant
    <3>3. Ledger!IsPayment(evt[w]) /\ Ledger!EventUser(evt[w]) = EventUser(evt[w])
      BY <3>2, SameReading
    <3>4. Ledger!Activate(evt[w])
      BY <3>3, <2>1, <2>3, <3>1 DEF Ledger!Activate
    <3> QED BY <2>1, <3>4 DEF Ledger!Next
  <2> QED BY <1>2, <2>2, <2>3 DEF Grant
<1>3. ASSUME NEW w \in Worker, RevokeSelect(w) PROVE Stutter
  BY <1>3, <1>a, NothingSettles DEF RevokeSelect, tables, Handling
<1>4. ASSUME NEW w \in Worker, RevokeUpdate(w) PROVE Ledger!Next
  <2>1. evt[w] \in Event /\ evt[w] \notin Settled
        /\ Settled' = Settled \cup {evt[w]}
    BY <1>4, <1>c, HandlerSettles DEF RevokeUpdate, NextCall, Handling
  <2>2. IsRefund(evt[w])
    BY <1>4 DEF RevokeUpdate, CandidateMatches
  <2>3. CASE UNCHANGED revokedBy
    BY <1>4, <2>1, <2>3, <1>a, <1>b DEF RevokeUpdate
  <2>4. CASE cand[w] # None /\ revokedBy' = [revokedBy EXCEPT ![cand[w]] = evt[w]]
    <3>1. cand[w] \in granted /\ SamePurchase(cand[w], evt[w])
      BY <2>4 DEF CandidateMatches
    <3>2. ActiveGrants' = ActiveGrants \ {cand[w]}
      BY <1>4, <2>1, <2>4, <3>1 DEF RevokeUpdate, ActiveGrants, Active
    <3>3. CASE cand[w] \in ActiveGrants
      BY <2>1, <2>2, <3>1, <3>2, <3>3, SameReading DEF Ledger!Next, Ledger!Withdraw
    <3>4. CASE cand[w] \notin ActiveGrants
      BY <1>b, <2>1, <3>2, <3>4
    <3> QED BY <3>3, <3>4
  <2> QED BY <1>4, <2>3, <2>4 DEF RevokeUpdate
<1>5. ASSUME NEW w \in Worker, HandlerFails(w) PROVE Ledger!Next
  <2>1. evt[w] \in Event /\ evt[w] \notin Settled
        /\ Settled' = Settled \cup {evt[w]}
    BY <1>5, <1>c, HandlerSettles DEF HandlerFails, NextCall, Handling, tables
  <2> QED BY <1>5, <2>1, <1>a, <1>b DEF HandlerFails, tables
<1>6. ASSUME NEW w \in Worker, Crash(w) PROVE Stutter \/ Ledger!Next
  <2>1. ActiveGrants' = ActiveGrants
    BY <1>6, <1>a DEF Crash, tables
  <2>2. CASE Handling(w)
    <3>1. evt[w] \in Event /\ evt[w] \notin Settled
          /\ Settled' = Settled \cup {evt[w]}
      BY <1>6, <2>2, <1>c, HandlerSettles DEF Crash, Finish, Handling, tables
    <3> QED BY <2>1, <3>1, <1>b
  <2>3. CASE ~Handling(w)
    BY <1>6, <2>1, <2>3, NothingSettles DEF Crash, Finish, Handling, tables
  <2> QED BY <2>2, <2>3
<1>7. ASSUME NEW w \in Worker,
             \/ \E e \in Event : Deliver(w, e)
             \/ RecordFails(w) \/ Respond(w) \/ ResponseLost(w)
             \/ ReenterLifespan(w)
      PROVE  Stutter
  <2>1. UNCHANGED <<ledger, granted, revokedBy>>
    BY <1>7 DEF Deliver, RecordFails, Respond, ResponseLost, ReenterLifespan, tables
  <2>2. Settled' = Settled
    BY <1>7, <2>1, NothingSettles
    DEF Deliver, RecordFails, Respond, ResponseLost, ReenterLifespan, Finish, Handling
  <2> QED BY <2>1, <2>2, <1>a
<1>8. CASE UNCHANGED vars
  BY <1>8, <1>a, NothingSettles DEF vars, tables, Handling
<1> QED
  BY <1>1, <1>2, <1>3, <1>4, <1>5, <1>6, <1>7, <1>8 DEF Next, Step

\* Nothing is in force before the first event arrives.
LEMMA InitRefines == Init => Ledger!Init
BY DEF Init, Ledger!Init, ActiveGrants, Settled

\* The webhook implements the abstract ledger: through concurrent and repeated
\* deliveries, crashes and database errors, each event takes effect at most
\* once, and only on the user and tier it names.
THEOREM Implements == MaxReentries = 0 => (Spec => ImplementsLedger)
<1> SUFFICES ASSUME MaxReentries = 0 PROVE Spec => ImplementsLedger
  OBVIOUS
<1>1. Spec => []OneCall
  BY OneCallInvariant
<1>2. IInv /\ IInv' /\ OneCall /\ [Next]_vars => [Ledger!Next]_(Ledger!vars)
  BY StepRefines
<1> QED
  BY <1>1, <1>2, InitRefines, Invariance, PTL DEF Spec, ImplementsLedger, Ledger!Spec
=============================================================================
