------------------------- MODULE ForecastJobsProofs -------------------------
(***************************************************************************)
(* Proofs about ForecastJobs, for every set of submissions, callers and    *)
(* bodies, every clock and every retry budget.  They use of the TTLs only  *)
(* that a result is kept at least as long as its slot.                     *)
(***************************************************************************)
EXTENDS ForecastJobs, TLAPS

\* The key of a submission is a slot of the table.
LEMMA KeyType == \A r \in Request : KeyOf(r) \in User \X Body
BY ConfigAssumption DEF KeyOf

\* The worker's event names some user, whatever the job's meta holds.
LEMMA PublisherType == TypeOK => \A j \in Request : Publisher(j) \in User
<1> SUFFICES ASSUME TypeOK, NEW j \in Request PROVE Publisher(j) \in User
  OBVIOUS
<1>1. CASE meta[j] = <<>>
  BY <1>1, ConfigAssumption DEF Publisher, MetaGet
<1>2. CASE meta[j] \in [owner_user_id : User]
  BY <1>2, ConfigAssumption DEF Publisher, MetaGet
<1> QED BY <1>1, <1>2 DEF TypeOK

\* The poll reads back the owner the queue stamped.
LEMMA StampedOwner ==
  ASSUME NEW u
  PROVE  MetaGet([owner_user_id |-> u], "owner_user_id", None) = u
BY DEF MetaGet

\* The length of the retry schedule is a number of retries.
LEMMA BudgetType == Len(RetryIntervals) \in Nat
BY ConfigAssumption

\* Every step keeps the types (retries_left never goes below zero).
THEOREM TypeCorrect == Spec => []TypeOK
<1>1. Init => TypeOK
  BY ConfigAssumption DEF Init, TypeOK, NoSlot
<1>2. TypeOK /\ [Next]_vars => TypeOK'
  <2> SUFFICES ASSUME TypeOK, [Next]_vars PROVE TypeOK'
    OBVIOUS
  <2> USE ConfigAssumption DEF TypeOK
  <2>1. ASSUME NEW r \in Request, Claim(r) PROVE TypeOK'
    <3>1. pc' \in [Request -> {"new", "lookup", "enqueue", "answered", "failed"}]
          /\ when' \in [Request -> Nat]
      BY <2>1 DEF Claim
    <3>2. [job |-> r, expires |-> now + SlotTTL]
            \in [job : Request \cup {None}, expires : Nat]
      OBVIOUS
    <3>3. slots' \in [User \X Body -> [job : Request \cup {None}, expires : Nat]]
      <4> DEFINE row == [job |-> r, expires |-> now + SlotTTL]
      <4> HIDE DEF row
      <4>1. CASE slots' = [slots EXCEPT ![KeyOf(r)] = row]
        BY <4>1, <3>2 DEF row
      <4>2. CASE UNCHANGED slots
        BY <4>2
      <4> QED BY <2>1, <4>1, <4>2 DEF Claim, row
    <3> QED BY <2>1, <3>1, <3>3 DEF Claim, jobs
  <2>2. ASSUME NEW r \in Request, Lookup(r) PROVE TypeOK'
    <3>1. slots[KeyOf(r)].job \in Request \cup {None}
      BY KeyType
    <3> QED BY <2>2, <3>1 DEF Lookup, jobs
  <2>3. ASSUME NEW r \in Request, Enqueue(r) PROVE TypeOK'
    BY <2>3, BudgetType DEF Enqueue
  <2>4. ASSUME NEW r \in Request, RequestFails(r) PROVE TypeOK'
    BY <2>4 DEF RequestFails, jobs
  <2>5. ASSUME NEW j \in Request, Start(j) PROVE TypeOK'
    BY <2>5 DEF Start, route
  <2>6. ASSUME NEW j \in Request, Publish(j) PROVE TypeOK'
    BY <2>6, PublisherType DEF Publish, route
  <2>7. ASSUME NEW j \in Request, Finish(j) PROVE TypeOK'
    BY <2>7 DEF Finish, Expiry, route
  <2>8. ASSUME NEW j \in Request, Fail(j) PROVE TypeOK'
    <3>1. retries' \in [Request -> Nat]
      <4>1. CASE /\ MayRetry(j)
                 /\ retries' = [retries EXCEPT ![j] = @ - 1]
        <5>1. retries[j] - 1 \in Nat
          BY <4>1 DEF MayRetry
        <5> QED BY <4>1, <5>1
      <4>2. CASE UNCHANGED retries
        BY <4>2
      <4> QED BY <2>8, <4>1, <4>2 DEF Fail
    <3>2. until' \in [Request -> Nat]
      <4>1. CASE until' = [until EXCEPT ![j] = Expiry(FailureTTL)]
        BY <4>1 DEF Expiry
      <4>2. CASE UNCHANGED until
        BY <4>2
      <4> QED BY <2>8, <4>1, <4>2 DEF Fail
    <3>3. status' \in [Request ->
            {"absent", "queued", "started", "scheduled", "finished", "failed"}]
      BY <2>8 DEF Fail
    <3>4. published' \in [Request -> User \cup {None}]
      BY <2>8 DEF Fail
    <3> QED BY <2>8, <3>1, <3>2, <3>3, <3>4 DEF Fail, route
  <2>9. ASSUME NEW j \in Request, Reschedule(j) PROVE TypeOK'
    BY <2>9 DEF Reschedule, route
  <2>10. CASE Tick
    BY <2>10 DEF Tick, route, jobs
  <2>11. CASE UNCHANGED vars
    BY <2>11 DEF vars, route, jobs
  <2> QED
    BY <2>1, <2>2, <2>3, <2>4, <2>5, <2>6, <2>7, <2>8, <2>9, <2>10, <2>11
    DEF Next, Work
<1> QED BY <1>1, <1>2, PTL DEF Spec

----------------------------------------------------------------------------
(***************************************************************************)
(* The inductive invariant.  The answers are right because a slot only     *)
(* names a job of its own key; one submission enqueues per slot because    *)
(* the row a claim finds or leaves never changes; a result outlives its    *)
(* slot because a job settles no earlier than its submission was claimed.  *)
(***************************************************************************)
Enqueued(r) == status[r] # "absent"

SlotsNameTheirKey ==
  \A k \in User \X Body :
    slots[k] = NoSlot \/ (slots[k].job \in Request /\ KeyOf(slots[k].job) = k)

ClaimedIsRecorded ==
  \A r \in Request : pc[r] # "new" => slots[KeyOf(r)] # NoSlot

WinnerHasSlot ==
  \A r \in Request :
    /\ pc[r] = "enqueue" \/ Enqueued(r)
    /\ Live(slots[KeyOf(r)], when[r])
    => slots[KeyOf(r)].job = r

EnqueuedIsAnswered == \A r \in Request : Enqueued(r) => pc[r] = "answered"

OwnerIsStamped ==
  \A r \in Request : Enqueued(r) => meta[r] = [owner_user_id |-> Owner[r]]

AnswersKeepKey ==
  \A r \in Request : answer[r] # None => KeyOf(answer[r]) = KeyOf(r)

ClaimedInThePast == \A r \in Request : when[r] <= now

ResultOutlivesSlot ==
  \A r \in Request :
    status[r] \in {"finished", "failed"} => when[r] + SlotTTL <= until[r]

BudgetAccounted ==
  \A r \in Request :
    /\ status[r] = "absent" => attempts[r] = 0
    /\ status[r] \in {"queued", "scheduled"} =>
         attempts[r] + retries[r] = Len(RetryIntervals)
    /\ status[r] \in {"started", "finished", "failed"} =>
         attempts[r] + retries[r] = Len(RetryIntervals) + 1

RouteInv ==
  /\ SlotsNameTheirKey
  /\ ClaimedIsRecorded
  /\ WinnerHasSlot
  /\ EnqueuedIsAnswered
  /\ OwnerIsStamped
  /\ AnswersKeepKey
  /\ ClaimedInThePast

JobInv == ResultOutlivesSlot /\ BudgetAccounted

IInv == TypeOK /\ RouteInv /\ JobInv

LEMMA InitIInv == Init => IInv
<1> SUFFICES ASSUME Init PROVE IInv
  OBVIOUS
<1>1. TypeOK
  BY ConfigAssumption DEF Init, TypeOK, NoSlot
<1>2. RouteInv
  BY ConfigAssumption, KeyType
  DEF Init, RouteInv, SlotsNameTheirKey, ClaimedIsRecorded, WinnerHasSlot, Enqueued,
      EnqueuedIsAnswered, OwnerIsStamped, AnswersKeepKey, ClaimedInThePast
<1>3. JobInv
  BY DEF Init, JobInv, ResultOutlivesSlot, BudgetAccounted
<1> QED BY <1>1, <1>2, <1>3 DEF IInv

LEMMA ClaimKeeps ==
  ASSUME IInv, TypeOK', NEW r \in Request, Claim(r) PROVE RouteInv' /\ JobInv'
<1> USE ConfigAssumption, KeyType
    DEF IInv, TypeOK, RouteInv, JobInv, Claim, jobs, Enqueued
<1>1. /\ UNCHANGED <<now, answer, status, meta, attempts, retries, until>>
      /\ status[r] = "absent"
  BY DEF EnqueuedIsAnswered
<1>2. \A s \in Request \ {r} : pc'[s] = pc[s] /\ when'[s] = when[s]
  OBVIOUS
<1>3. JobInv' /\ OwnerIsStamped' /\ AnswersKeepKey' /\ ClaimedInThePast'
  BY <1>1, <1>2 DEF ResultOutlivesSlot, BudgetAccounted, OwnerIsStamped,
                    AnswersKeepKey, ClaimedInThePast
<1>4. EnqueuedIsAnswered'
  BY <1>1, <1>2 DEF EnqueuedIsAnswered
<1>5. CASE Vacant(KeyOf(r))
  <2>1. /\ slots' = [slots EXCEPT ![KeyOf(r)] = [job |-> r, expires |-> now + SlotTTL]]
        /\ pc' = [pc EXCEPT ![r] = "enqueue"]
    BY <1>5
  <2>2. [job |-> r, expires |-> now + SlotTTL] # NoSlot
    BY DEF NoSlot
  <2>3. SlotsNameTheirKey' /\ ClaimedIsRecorded'
    BY <2>1, <2>2, <1>2 DEF SlotsNameTheirKey, ClaimedIsRecorded, KeyOf
  <2>4. \A s \in Request \ {r} :
          pc[s] = "enqueue" \/ Enqueued(s) => KeyOf(s) # KeyOf(r)
    BY <1>5 DEF Vacant, ClaimedIsRecorded, EnqueuedIsAnswered
  <2>5. WinnerHasSlot'
    BY <1>1, <1>2, <2>1, <2>4 DEF WinnerHasSlot, Live, KeyOf
  <2> QED BY <1>3, <1>4, <2>3, <2>5
<1>6. CASE ~Vacant(KeyOf(r))
  <2>1. UNCHANGED slots /\ pc' = [pc EXCEPT ![r] = "lookup"]
    BY <1>6
  <2>2. SlotsNameTheirKey' /\ ClaimedIsRecorded'
    BY <2>1, <1>2, <1>6 DEF SlotsNameTheirKey, ClaimedIsRecorded, Vacant, KeyOf
  <2>3. WinnerHasSlot'
    BY <1>1, <1>2, <2>1 DEF WinnerHasSlot, Live, KeyOf
  <2> QED BY <1>3, <1>4, <2>2, <2>3
<1> QED BY <1>5, <1>6

LEMMA LookupKeeps ==
  ASSUME IInv, TypeOK', NEW r \in Request, Lookup(r) PROVE RouteInv' /\ JobInv'
<1> USE ConfigAssumption, KeyType
    DEF IInv, TypeOK, RouteInv, JobInv, Lookup, jobs, Enqueued
<1>1. /\ UNCHANGED <<now, when, slots, status, meta, attempts, retries, until>>
      /\ pc[r] = "lookup" /\ status[r] = "absent"
  BY DEF EnqueuedIsAnswered
<1>2. \A s \in Request \ {r} : pc'[s] = pc[s] /\ answer'[s] = answer[s]
  OBVIOUS
<1>3. JobInv' /\ OwnerIsStamped' /\ ClaimedInThePast' /\ SlotsNameTheirKey'
  BY <1>1 DEF ResultOutlivesSlot, BudgetAccounted, OwnerIsStamped,
              ClaimedInThePast, SlotsNameTheirKey, KeyOf
<1>4. EnqueuedIsAnswered' /\ ClaimedIsRecorded'
  BY <1>1, <1>2 DEF EnqueuedIsAnswered, ClaimedIsRecorded, KeyOf
<1>5. pc'[r] = "enqueue" => ~Live(slots[KeyOf(r)], when[r])
  OBVIOUS
<1>6. WinnerHasSlot'
  BY <1>1, <1>2, <1>5 DEF WinnerHasSlot, Live, KeyOf
<1>7. Live(slots[KeyOf(r)], when[r]) => KeyOf(slots[KeyOf(r)].job) = KeyOf(r)
  <2>1. NoSlot.expires = 0 /\ when[r] \in Nat
    BY DEF NoSlot
  <2>2. Live(slots[KeyOf(r)], when[r]) => slots[KeyOf(r)] # NoSlot
    BY <2>1 DEF Live
  <2> QED BY <2>2 DEF SlotsNameTheirKey
<1>8. AnswersKeepKey'
  BY <1>2, <1>7 DEF AnswersKeepKey, KeyOf
<1> QED BY <1>3, <1>4, <1>6, <1>8

LEMMA EnqueueKeeps ==
  ASSUME IInv, TypeOK', NEW r \in Request, Enqueue(r) PROVE RouteInv' /\ JobInv'
<1> USE ConfigAssumption, KeyType, BudgetType
    DEF IInv, TypeOK, RouteInv, JobInv, Enqueue, Enqueued
<1>1. /\ UNCHANGED <<now, when, slots, attempts, until>>
      /\ pc[r] = "enqueue" /\ status[r] = "absent" /\ status'[r] = "queued"
  BY DEF EnqueuedIsAnswered
<1>2. \A s \in Request \ {r} :
        /\ pc'[s] = pc[s] /\ answer'[s] = answer[s] /\ status'[s] = status[s]
        /\ meta'[s] = meta[s] /\ retries'[s] = retries[s]
  OBVIOUS
<1>3. ResultOutlivesSlot' /\ BudgetAccounted'
  BY <1>1, <1>2 DEF ResultOutlivesSlot, BudgetAccounted
<1>4. SlotsNameTheirKey' /\ ClaimedIsRecorded' /\ ClaimedInThePast'
  BY <1>1, <1>2 DEF SlotsNameTheirKey, ClaimedIsRecorded, ClaimedInThePast, KeyOf
<1>5. WinnerHasSlot'
  <2>1. \A s \in Request :
          pc'[s] = "enqueue" \/ Enqueued(s)' => pc[s] = "enqueue" \/ Enqueued(s)
    BY <1>1, <1>2
  <2> QED BY <1>1, <2>1 DEF WinnerHasSlot, Live, KeyOf
<1>6. EnqueuedIsAnswered' /\ OwnerIsStamped' /\ AnswersKeepKey'
  BY <1>1, <1>2 DEF EnqueuedIsAnswered, OwnerIsStamped, AnswersKeepKey, KeyOf
<1> QED BY <1>3, <1>4, <1>5, <1>6

LEMMA RequestFailsKeeps ==
  ASSUME IInv, TypeOK', NEW r \in Request, RequestFails(r) PROVE RouteInv' /\ JobInv'
<1> USE ConfigAssumption, KeyType
    DEF IInv, TypeOK, RouteInv, JobInv, RequestFails, jobs, Enqueued
<1>1. /\ UNCHANGED <<now, when, answer, slots, status, meta, attempts, retries, until>>
      /\ pc[r] \in {"lookup", "enqueue"} /\ status[r] = "absent" /\ pc'[r] = "failed"
  BY DEF EnqueuedIsAnswered
<1>2. \A s \in Request \ {r} : pc'[s] = pc[s]
  OBVIOUS
<1>3. JobInv' /\ OwnerIsStamped' /\ ClaimedInThePast' /\ SlotsNameTheirKey'
      /\ AnswersKeepKey'
  BY <1>1 DEF ResultOutlivesSlot, BudgetAccounted, OwnerIsStamped,
              ClaimedInThePast, SlotsNameTheirKey, AnswersKeepKey, KeyOf
<1>4. EnqueuedIsAnswered' /\ ClaimedIsRecorded'
  BY <1>1, <1>2 DEF EnqueuedIsAnswered, ClaimedIsRecorded, KeyOf
<1>5. WinnerHasSlot'
  <2>1. \A s \in Request :
          pc'[s] = "enqueue" \/ Enqueued(s)' => pc[s] = "enqueue" \/ Enqueued(s)
    BY <1>1, <1>2
  <2> QED BY <1>1, <2>1 DEF WinnerHasSlot, Live, KeyOf
<1> QED BY <1>3, <1>4, <1>5

\* The worker's steps leave the route alone.
LEMMA WorkerKeepsRoute ==
  ASSUME IInv, UNCHANGED <<now, route, meta>>,
         \A s \in Request : status'[s] = "absent" <=> status[s] = "absent"
  PROVE  RouteInv'
BY DEF IInv, RouteInv, route, SlotsNameTheirKey, ClaimedIsRecorded, WinnerHasSlot,
       Enqueued, EnqueuedIsAnswered, OwnerIsStamped, AnswersKeepKey, ClaimedInThePast,
       Live, KeyOf

\* An attempt takes one from what is left of the budget, a retry puts the job
\* back without one, and a job that settles does so after its claim.
LEMMA WorkerKeepsJob ==
  ASSUME IInv, TypeOK', NEW j \in Request, Work(j) \/ Fail(j) \/ Reschedule(j)
  PROVE  JobInv'
<1> USE ConfigAssumption, BudgetType
    DEF IInv, TypeOK, JobInv, RouteInv, ClaimedInThePast, ResultOutlivesSlot,
        BudgetAccounted, route
<1>1. CASE Start(j)
  BY <1>1 DEF Start, OnQueue
<1>2. CASE Publish(j)
  BY <1>2 DEF Publish
<1>3. CASE Finish(j)
  <2>1. ResultOutlivesSlot'
    BY <1>3 DEF Finish, Expiry
  <2>2. BudgetAccounted'
    BY <1>3 DEF Finish
  <2> QED BY <2>1, <2>2
<1>4. CASE Fail(j)
  <2>1. ResultOutlivesSlot'
    <3>1. CASE /\ status' = [status EXCEPT ![j] = "scheduled"] /\ UNCHANGED until
      BY <1>4, <3>1 DEF Fail
    <3>2. CASE /\ status' = [status EXCEPT ![j] = "failed"]
               /\ until' = [until EXCEPT ![j] = Expiry(FailureTTL)]
      BY <1>4, <3>2 DEF Fail, Expiry
    <3> QED BY <1>4, <3>1, <3>2 DEF Fail
  <2>2. BudgetAccounted'
    <3>1. CASE /\ MayRetry(j)
               /\ status' = [status EXCEPT ![j] = "scheduled"]
               /\ retries' = [retries EXCEPT ![j] = @ - 1]
      BY <1>4, <3>1 DEF Fail, MayRetry
    <3>2. CASE /\ status' = [status EXCEPT ![j] = "failed"] /\ UNCHANGED retries
      BY <1>4, <3>2 DEF Fail
    <3> QED BY <1>4, <3>1, <3>2 DEF Fail
  <2> QED BY <2>1, <2>2
<1>5. CASE Reschedule(j)
  BY <1>5 DEF Reschedule
<1> QED BY <1>1, <1>2, <1>3, <1>4, <1>5 DEF Work

LEMMA NextIInv == IInv /\ TypeOK' /\ [Next]_vars => IInv'
<1> SUFFICES ASSUME IInv, TypeOK', [Next]_vars PROVE RouteInv' /\ JobInv'
  BY DEF IInv
<1>1. ASSUME NEW r \in Request, Claim(r) \/ Lookup(r) \/ Enqueue(r) \/ RequestFails(r)
      PROVE  RouteInv' /\ JobInv'
  BY <1>1, ClaimKeeps, LookupKeeps, EnqueueKeeps, RequestFailsKeeps
<1>2. ASSUME NEW j \in Request, Work(j) \/ Fail(j) \/ Reschedule(j)
      PROVE  RouteInv' /\ JobInv'
  <2>1. UNCHANGED <<now, route, meta>>
    BY <1>2 DEF Work, Start, Publish, Finish, Fail, Reschedule
  <2>2. \A s \in Request : status'[s] = "absent" <=> status[s] = "absent"
    BY <1>2 DEF Work, Start, OnQueue, Publish, Finish, Fail, Reschedule, IInv, TypeOK
  <2> QED BY <1>2, <2>1, <2>2, WorkerKeepsRoute, WorkerKeepsJob
<1>3. CASE Tick
  BY <1>3 DEF Tick, route, jobs, IInv, TypeOK, RouteInv, JobInv, SlotsNameTheirKey,
      ClaimedIsRecorded, WinnerHasSlot, Enqueued, EnqueuedIsAnswered, OwnerIsStamped,
      AnswersKeepKey, ClaimedInThePast, ResultOutlivesSlot, BudgetAccounted, Live, KeyOf
<1>4. CASE UNCHANGED vars
  BY <1>4 DEF vars, route, jobs, IInv, RouteInv, JobInv, SlotsNameTheirKey,
      ClaimedIsRecorded, WinnerHasSlot, Enqueued, EnqueuedIsAnswered, OwnerIsStamped,
      AnswersKeepKey, ClaimedInThePast, ResultOutlivesSlot, BudgetAccounted, Live, KeyOf
<1> QED BY <1>1, <1>2, <1>3, <1>4 DEF Next

\* The inductive invariant of the claim, the queue and the clock.
THEOREM Invariance == Spec => []IInv
<1>1. IInv /\ TypeOK' /\ [Next]_vars => IInv'
  BY NextIInv
<1> QED BY InitIInv, <1>1, TypeCorrect, PTL DEF Spec

\* Nobody is handed a job computed from another caller's or another body's
\* inputs, whatever expires and whatever fails (the per-user namespace).
LEMMA AnswersMatch == Spec => []AnswerMatchesInputs
<1>1. IInv => AnswerMatchesInputs
  BY DEF IInv, RouteInv, AnswersKeepKey, AnswerMatchesInputs, KeyOf
<1> QED BY <1>1, Invariance, PTL

\* Of the submissions whose slot was live when they began, one enqueues.
THEOREM OneJob == Spec => []OneJobPerSlot
<1>1. IInv => OneJobPerSlot
  BY DEF IInv, RouteInv, WinnerHasSlot, Enqueued, OneJobPerSlot
<1> QED BY <1>1, Invariance, PTL

\* A job id tells nobody but its submitter anything.
LEMMA PollPrivate == Spec => []PollIsPrivate
<1>1. IInv => PollIsPrivate
  <2> SUFFICES ASSUME IInv, NEW j \in Request, NEW u \in User, Poll(u, j) # "not found"
               PROVE  Owner[j] = u
    BY DEF PollIsPrivate
  <2>1. Enqueued(j) /\ MetaGet(meta[j], "owner_user_id", None) = u
    BY DEF Poll, Known, Enqueued
  <2>2. meta[j] = [owner_user_id |-> Owner[j]]
    BY <2>1 DEF IInv, RouteInv, OwnerIsStamped
  <2> QED BY <2>1, <2>2, StampedOwner
<1> QED BY <1>1, Invariance, PTL

\* A caller's answers are their own, and nobody else's to read, whatever expires
\* or fails on the way.
THEOREM JobsPrivate == Spec => []JobsStayPrivate
BY AnswersMatch, PollPrivate, PTL DEF JobsStayPrivate

\* A handed-out job id can be polled for as long as its slot hands it out.
THEOREM AnswersPollable == Spec => []AnswerIsPollable
<1>1. IInv => AnswerIsPollable
  <2> SUFFICES ASSUME IInv, NEW r \in Request, answer[r] # None,
                      status[answer[r]] # "absent",
                      now < when[answer[r]] + SlotTTL
               PROVE  Poll(Owner[r], answer[r]) # "not found"
    BY DEF AnswerIsPollable
  <2> DEFINE j == answer[r]
  <2>1. j \in Request /\ status[j] \in
          {"queued", "started", "scheduled", "finished", "failed"}
    BY DEF IInv, TypeOK
  <2>2. Known(j)
    BY <2>1, ConfigAssumption
    DEF Known, IInv, TypeOK, JobInv, ResultOutlivesSlot
  <2>3. MetaGet(meta[j], "owner_user_id", None) = Owner[r]
    <3>1. meta[j] = [owner_user_id |-> Owner[j]] /\ Owner[j] = Owner[r]
      BY <2>1 DEF IInv, RouteInv, OwnerIsStamped, Enqueued, AnswersKeepKey, KeyOf
    <3> QED BY <3>1, StampedOwner
  <2>4. ApiStatus(status[j]) # "not found"
    BY <2>1 DEF ApiStatus
  <2> QED BY <2>2, <2>3, <2>4 DEF Poll
<1> QED BY <1>1, Invariance, PTL

\* No job starts more often than the retry budget allows.
THEOREM AttemptsWithinBudget == Spec => []AttemptsBounded
<1>1. IInv => AttemptsBounded
  <2> SUFFICES ASSUME IInv, NEW j \in Request
               PROVE  attempts[j] <= Len(RetryIntervals) + 1
    BY DEF AttemptsBounded
  <2>1. attempts[j] \in Nat /\ retries[j] \in Nat
    BY DEF IInv, TypeOK
  <2>2. \/ attempts[j] = 0
        \/ attempts[j] + retries[j] = Len(RetryIntervals)
        \/ attempts[j] + retries[j] = Len(RetryIntervals) + 1
    BY DEF IInv, TypeOK, JobInv, BudgetAccounted
  <2> QED BY <2>1, <2>2, BudgetType
<1> QED BY <1>1, Invariance, PTL
=============================================================================
