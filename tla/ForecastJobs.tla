---------------------------- MODULE ForecastJobs ----------------------------
(***************************************************************************)
(* Forecast submission and execution.  POST /api/forecast claims the       *)
(* idempotency slot of (user, canonical body) in Postgres, and the winner  *)
(* enqueues a job in Redis; an RQ worker runs the engine, publishes        *)
(* ForecastCompleted and leaves a result; GET /api/forecast/{job_id}       *)
(* reads it back.  The two stores have no common transaction.              *)
(***************************************************************************)
EXTENDS Naturals, FiniteSets, Sequences

CONSTANTS
  Request,        \* submissions; each draws a fresh uuid4, so its job has its name
  User, Body,     \* callers, and request bodies up to canonical_request_hash
  Owner, Input,   \* the caller and the body of each submission
  anonymous,      \* ANONYMOUS_USER_ID
  None,
  SlotTTL, ResultTTL, FailureTTL,  \* 24 hours each, in clock units
  RetryIntervals, \* FORECAST_RETRY_INTERVALS_SECONDS
  Scheduler,      \* does any RQ scheduler serve this Redis?
  MaxTime,        \* bound: the clock
  MaxCrashes      \* bound: API requests cut short by a crash or a Redis error

ASSUME ConfigAssumption ==
  /\ Owner \in [Request -> User] /\ Input \in [Request -> Body]
  /\ None \notin Request /\ anonymous \in User
  /\ SlotTTL \in Nat \ {0} /\ ResultTTL \in Nat /\ FailureTTL \in Nat
  /\ SlotTTL <= ResultTTL /\ SlotTTL <= FailureTTL
  /\ RetryIntervals \in Seq(Nat) /\ Scheduler \in BOOLEAN
  /\ MaxTime \in Nat /\ MaxCrashes \in Nat

VARIABLES
  now,        \* the clock
  pc,         \* where each submission is in its route
  when,       \* the utc_now() its claim works with
  answer,     \* the job id its caller was given
  slots,      \* idempotency_keys: the key's job and expires_at
  status,     \* RQ: the job's status
  meta,       \* RQ: the job's meta dictionary
  retries,    \* RQ: retries_left
  attempts,   \* times a worker has started the job
  until,      \* RQ: when a settled job's hash expires
  published,  \* the user_id on the job's ForecastCompleted, None before it
  crashes

route == <<pc, when, answer, slots>>
jobs  == <<status, meta, retries, attempts, until, published>>
vars  == <<now, route, jobs, crashes>>

----------------------------------------------------------------------------
\* mutant of KeyOf: the slot is not namespaced by the caller
KeyOfBody(r) == <<anonymous, Input[r]>>

\* the idempotency key, user_id:body_hash
KeyOf(r) == <<Owner[r], Input[r]>>

NoSlot == [job |-> None, expires |-> 0]

Init ==
  /\ now = 0
  /\ pc = [r \in Request |-> "new"]
  /\ when = [r \in Request |-> 0]
  /\ answer = [r \in Request |-> None]
  /\ slots = [k \in User \X Body |-> NoSlot]
  /\ status = [j \in Request |-> "absent"]
  /\ meta = [j \in Request |-> <<>>]
  /\ retries = [j \in Request |-> 0]
  /\ attempts = [j \in Request |-> 0]
  /\ until = [j \in Request |-> 0]
  /\ published = [j \in Request |-> None]
  /\ crashes = 0

\* mutant of Vacant: ON CONFLICT DO UPDATE
VacantAlways(k) == TRUE

\* no row, expired or not, is in the way of the insert
Vacant(k) == slots[k] = NoSlot

(***************************************************************************)
(* claim_idempotency_slot: INSERT ... ON CONFLICT DO NOTHING, committed.   *)
(* The row that is there, expired or not, stops the insert.                *)
(***************************************************************************)
Claim(r) ==
  /\ pc[r] = "new"
  /\ when' = [when EXCEPT ![r] = now]
  /\ IF Vacant(KeyOf(r))
     THEN /\ slots' = [slots EXCEPT ![KeyOf(r)] =
                         [job |-> r, expires |-> now + SlotTTL]]
          /\ pc' = [pc EXCEPT ![r] = "enqueue"]
     ELSE /\ pc' = [pc EXCEPT ![r] = "lookup"]
          /\ UNCHANGED slots
  /\ UNCHANGED <<now, answer, jobs, crashes>>

\* _lookup only sees rows that had not expired when the claim began
Live(slot, t) == slot.expires > t

\* the loser's SELECT: the cached job id, or none, which counts as a win
Lookup(r) ==
  LET slot == slots[KeyOf(r)] IN
  /\ pc[r] = "lookup"
  /\ IF Live(slot, when[r])
     THEN /\ pc' = [pc EXCEPT ![r] = "answered"]
          /\ answer' = [answer EXCEPT ![r] = slot.job]
     ELSE /\ pc' = [pc EXCEPT ![r] = "enqueue"]
          /\ UNCHANGED answer
  /\ UNCHANGED <<now, when, slots, jobs, crashes>>

\* the winner hands the job to RQ with the retry budget and its owner
Enqueue(r) ==
  /\ pc[r] = "enqueue"
  /\ status' = [status EXCEPT ![r] = "queued"]
  /\ meta' = [meta EXCEPT ![r] = [owner_user_id |-> Owner[r]]]
  /\ retries' = [retries EXCEPT ![r] = Len(RetryIntervals)]
  /\ pc' = [pc EXCEPT ![r] = "answered"]
  /\ answer' = [answer EXCEPT ![r] = r]
  /\ UNCHANGED <<now, when, slots, attempts, until, published, crashes>>

\* the process dies, or Redis refuses: the claimed slot stays as it is
RequestFails(r) ==
  /\ pc[r] \in {"lookup", "enqueue"}
  /\ crashes < MaxCrashes
  /\ crashes' = crashes + 1
  /\ pc' = [pc EXCEPT ![r] = "failed"]
  /\ UNCHANGED <<now, when, answer, slots, jobs>>

----------------------------------------------------------------------------
\* mutant of OnQueue: retries go to a queue the worker does not listen to
OnQueueFirst(j) == status[j] = "queued" /\ attempts[j] = 0

OnQueue(j) == status[j] = "queued"

\* a worker takes the job off the queue
Start(j) ==
  /\ OnQueue(j)
  /\ status' = [status EXCEPT ![j] = "started"]
  /\ attempts' = [attempts EXCEPT ![j] = @ + 1]
  /\ UNCHANGED <<now, route, meta, retries, until, published, crashes>>

\* job.meta.get(key, default)
MetaGet(m, key, default) == IF key \in DOMAIN m THEN m[key] ELSE default

Publisher(j) == MetaGet(meta[j], "user_id", anonymous)

\* run_forecast_job, artifacts at hand, dispatches ForecastCompleted
Publish(j) ==
  /\ status[j] = "started" /\ published[j] = None
  /\ published' = [published EXCEPT ![j] = Publisher(j)]
  /\ UNCHANGED <<now, route, status, meta, retries, attempts, until, crashes>>

\* mutant of Expiry: RQ's own TTL of a few minutes
ExpiryDefault(ttl) == now

Expiry(ttl) == now + ttl

\* it returns, and RQ keeps the result for FORECAST_RESULT_TTL_SECONDS
Finish(j) ==
  /\ status[j] = "started" /\ published[j] # None
  /\ status' = [status EXCEPT ![j] = "finished"]
  /\ until' = [until EXCEPT ![j] = Expiry(ResultTTL)]
  /\ UNCHANGED <<now, route, meta, retries, attempts, published, crashes>>

\* mutant of MayRetry: one retry too many
MayRetryAtZero(j) == retries[j] >= 0

MayRetry(j) == retries[j] > 0

(***************************************************************************)
(* The job raises, runs into its timeout or loses its worker: RQ schedules *)
(* it again after an interval, or keeps the failure for its TTL.           *)
(***************************************************************************)
Fail(j) ==
  /\ status[j] = "started"
  /\ \/ /\ MayRetry(j)
        /\ status' = [status EXCEPT ![j] = "scheduled"]
        /\ retries' = [retries EXCEPT ![j] = @ - 1]
        /\ published' = [published EXCEPT ![j] = None]
        /\ UNCHANGED until
     \/ /\ ~MayRetry(j)
        /\ status' = [status EXCEPT ![j] = "failed"]
        /\ until' = [until EXCEPT ![j] = Expiry(FailureTTL)]
        /\ UNCHANGED <<retries, published>>
  /\ UNCHANGED <<now, route, meta, attempts, crashes>>

(***************************************************************************)
(* The interval of a scheduled job is over.  Only an RQ scheduler moves it *)
(* back, and worker.work() of this repository does not start one.          *)
(***************************************************************************)
Reschedule(j) ==
  /\ Scheduler
  /\ status[j] = "scheduled"
  /\ status' = [status EXCEPT ![j] = "queued"]
  /\ UNCHANGED <<now, route, meta, retries, attempts, until, published, crashes>>

Tick ==
  /\ now < MaxTime
  /\ now' = now + 1
  /\ UNCHANGED <<route, jobs, crashes>>

Work(j) == Start(j) \/ Publish(j) \/ Finish(j)

Next ==
  \/ \E r \in Request : Claim(r) \/ Lookup(r) \/ Enqueue(r) \/ RequestFails(r)
  \/ \E j \in Request : Work(j) \/ Fail(j) \/ Reschedule(j)
  \/ Tick

Spec == Init /\ [][Next]_vars

(***************************************************************************)
(* A request that has begun runs on, and the queue is served: a worker     *)
(* takes queued jobs and each attempt ends, well or badly, because RQ      *)
(* kills it at FORECAST_JOB_TIMEOUT_SECONDS.  Reschedule has no fairness:  *)
(* an RQ scheduler is somebody else's process, and may never run.          *)
(***************************************************************************)
Fairness ==
  /\ \A r \in Request : WF_vars(Lookup(r) \/ Enqueue(r))
  /\ \A j \in Request : WF_vars(Work(j) \/ Fail(j))

FairSpec == Spec /\ Fairness

----------------------------------------------------------------------------
\* the API's four states, and what GET /api/forecast/{job_id} tells user u

ApiStatus(s) == CASE s \in {"queued", "scheduled"} -> "queued"
                  [] s = "started"  -> "running"
                  [] s = "finished" -> "done"
                  [] s = "failed"   -> "error"

\* Redis drops a settled job when its TTL has run out
Known(j) ==
  /\ status[j] # "absent"
  /\ status[j] \in {"finished", "failed"} => now < until[j]

Poll(u, j) ==
  IF Known(j) /\ MetaGet(meta[j], "owner_user_id", None) = u
  THEN ApiStatus(status[j])
  ELSE "not found"

----------------------------------------------------------------------------
\* The type invariant.
TypeOK ==
  /\ now \in Nat /\ crashes \in Nat
  /\ pc \in [Request -> {"new", "lookup", "enqueue", "answered", "failed"}]
  /\ when \in [Request -> Nat]
  /\ answer \in [Request -> Request \cup {None}]
  /\ slots \in [User \X Body -> [job : Request \cup {None}, expires : Nat]]
  /\ status \in [Request ->
       {"absent", "queued", "started", "scheduled", "finished", "failed"}]
  /\ meta \in [Request -> {<<>>} \cup [owner_user_id : User]]
  /\ retries \in [Request -> Nat] /\ attempts \in [Request -> Nat]
  /\ until \in [Request -> Nat]
  /\ published \in [Request -> User \cup {None}]

\* A caller is only ever given a job computed from their own inputs: theirs, or
\* the one an identical submission of theirs was given the slot for.
AnswerMatchesInputs ==
  \A r \in Request : answer[r] # None =>
    Owner[answer[r]] = Owner[r] /\ Input[answer[r]] = Input[r]

\* Nobody but the submitter learns anything of a job from its id.
PollIsPrivate ==
  \A j \in Request, u \in User : Poll(u, j) # "not found" => Owner[j] = u

\* A caller holds the id of a job of their own inputs, and a job id is worth
\* nothing to anybody else.
JobsStayPrivate == AnswerMatchesInputs /\ PollIsPrivate

\* While the slot window of a job is open, everybody who was given its id can
\* poll it: the result outlives the slot that hands it out.
AnswerIsPollable ==
  \A r \in Request :
    LET j == answer[r] IN
      /\ j # None /\ status[j] # "absent"
      /\ now < when[j] + SlotTTL
      => Poll(Owner[r], j) # "not found"

\* Among the submissions of one key that begin before its slot expires, one
\* enqueues; the others answer with its job.
OneJobPerSlot ==
  \A r, s \in Request :
    /\ status[r] # "absent" /\ status[s] # "absent" /\ KeyOf(r) = KeyOf(s)
    /\ Live(slots[KeyOf(r)], when[r]) /\ Live(slots[KeyOf(s)], when[s])
    => r = s

\* A job is attempted at most once more than the retry budget allows.
AttemptsBounded == \A j \in Request : attempts[j] <= Len(RetryIntervals) + 1

\* Every enqueued job comes to rest for good, done, dead-lettered or waiting for
\* a retry nobody gives it, however its attempts end and whether or not there is
\* a scheduler: the worker serves retries too, and their budget runs out.
EveryJobRests ==
  \A j \in Request :
    status[j] = "queued" ~> [](status[j] \in {"finished", "failed", "scheduled"})

\* Every enqueued job is done or dead-lettered in the end ("Every long job:
\* enqueued, status pollable, dead-letter after N retries", docs/ENGINEERING.md).
EveryJobSettles ==
  \A j \in Request : status[j] = "queued" ~> status[j] \in {"finished", "failed"}
=============================================================================
