# chart-solar in TLA+

Specifications of the chart-solar backend (`src/backend`, Python 3, FastAPI,
SQLAlchemy on Postgres, RQ on Redis), their TLC configurations, and TLAPS
proofs. Every definition that models code names its lines in `PROJECT.json`
(`map`); this file says how the parts fit together, what the checks and proofs
establish, and what is left.

Run a configuration with `tlc -config <run>.cfg <MC module>` and a proof with
`tlapm <module>.tla`. Only the standard modules, the community modules and the
TLAPS library are needed.

## 1. Inventory

The program prices a rooftop-solar quote: a browser submits the inputs of a
house, a worker runs a simulation pipeline over a typical meteorological year,
and paid tiers unlock features. Three processes share two stores and no
transaction spans them:

    browser ---> API process(es) ---> Postgres  (users, magic_links, sessions,
       ^          |    ^    |                    stripe_events, user_entitlements,
       |          |    |    |                    idempotency_keys, tmy_cache, audits)
    mailbox <-----+  Stripe +-------> Redis     (rate buckets, RQ queue and jobs)
                                        ^
                           RQ worker ---+---> irradiance providers, Postgres

| component | state it keeps | operations | what is hard | what makes it correct |
|---|---|---|---|---|
| Stripe webhook, entitlement ledger | `stripe_events`, `user_entitlements` | deliver, record, route, dispatch, grant, revoke, respond | redelivery, two processes with one event, crash between two commits, subscriber errors that are swallowed | an event takes effect at most once, on its own user and tier; revocation is final; access follows the table |
| Event bus | handler lists per event type, per process | subscribe, dispatch, dispatch_async | registering twice, one handler's failure and the others | every handler runs, in order, whatever an earlier one did |
| Forecast submission, queue, worker | `idempotency_keys` (Postgres), jobs and results (Redis) | claim, look up, enqueue, start, publish, finish, fail, retry, poll | two stores, races for a slot, three TTLs, retries | a caller gets only a job of their own inputs; an answer can be polled; a job comes to rest |
| Magic-link sign-in, sessions, throttles | `users`, `magic_links`, `sessions`; Redis buckets | login, issue, send, open, find-or-create, commit, log out | INCR and EXPIRE are two commands, check and stamp are two statements, the unique index blocks | a session belongs to the addressee of its link; a used link is dead; a throttle reopens |
| TMY cache, irradiance providers | `tmy_cache` | look up, fetch primary beside sibling, upsert | partial failure cached, two workers on one bucket | a hit is what the job's own provider said of its bucket; nothing the sibling brings is lost; no call outlives its job |
| Retry, circuit breaker, HTTP clients | a breaker per service, a client per service, per process | before_call, attempt, record, back off | late answers, half-open | the breaker is open exactly at its threshold, reopens for calls by itself, and every call ends |
| URDB live tariffs | an LRU cache with a time to live, per process | hit, ask, parse a rate card, store, evict, fall back to the seed | state read before an await and used after it; months of a period with different hours, blocks without a maximum, malformed periods | no rate is served longer than its time to live after it was read; what is billed is what the card says |
| Audits and privacy | `users.aggregation_opt_out`, audits, quotes, PII vault, the regional aggregate | delete an audit, sweep the PII, opt out and in, refresh | flag and cascade are two statements at READ COMMITTED beside uploads, deletions and other flips | what an answered opt-out covered never counts again; flag and cascade become visible together; a purge takes what it says |
| Engine pipeline and steps | the artifacts of one forecast | production, snow, degradation, dispatch, tariff, export credit, finance | steps and inputs that are left out, hours and months at a boundary, finance billing the year again on its own | energy and money balance; only gaps in the inputs raise |
| Net billing, SEG settlement and loans | none (pure) | rollover, settlement, amortization, yearly debt service | negative credit, thresholds, last month | credit is neither made nor lost; a loan is repaid once |
| Cash-flow metrics and sale | none (pure) | NPV, IRR by bisection, MIRR, payback, LCOE, crossover, wealth paths, expected sale | signs at the ends of the bracket, the year an index stands for, sales past the horizon | the metrics of one forecast agree; the bracket keeps its root; a sale pays off exactly what is owed |
| Monte Carlo and tornado | one call: the bundle, the rows or the paths so far | perturb, evaluate, sort; draw, clamp, evaluate, align, take percentiles | one axis leaking into the next, a curve shorter than the hold, failed paths, paths of different lengths | a row lies on its side of the anchor where its axis has one; a fan accounts for every draw; a wrapper fails for the household's own reasons |
| Middleware, logging, health | a correlation id per request | | | |
| Other providers (tariff seed, storage, e-mail, geocoding, ...) | none | parsing and I/O | | |
| Proposal extraction, migrations, frontend | none that the backend reads | | | |

`PROJECT.json` lists the sources of each (`components`) and, under `hazards`,
every place where this code can go wrong in a way that a test would hardly
reach, with the properties that cover it or the reason that none does yet.

## 2. Modules

| module | models | extended by |
|---|---|---|
| `StripeEvents` | `services/stripe_webhook_router.py`, `entitlements/features.py`: what an event says | `EntitlementLedger`, `Entitlements` |
| `EntitlementLedger` | no code: the abstract promise of the payment path | instantiated by `Entitlements` |
| `Entitlements` | `api/stripe_webhook.py`, `infra/idempotency.py` (ledger), `infra/eventbus.py`, `services/entitlements_*.py`, `main.py` (lifespan) | `MCEntitlements`, `EntitlementsProofs` |
| `ForecastJobs` | `api/forecast.py`, `infra/idempotency.py` (slots), `workers/*.py`, `services/forecast_service.py` | `MCForecastJobs`, `ForecastJobsProofs` |
| `SignIn` | `api/auth/magic_link.py`, `services/auth_service.py`, `infra/rate_limit.py`, `db/auth_models.py` | `MCSignIn`, `SignInProofs` |
| `Tariffs` | `engine/steps/tariff.py`, `engine/steps/export_credit.py`, `engine/integration/nbt.py`, `engine/integration/seg.py`, `domain/tariff.py`: bills and credits, as operators | `Finance`, `UrdbParse` |
| `UrdbParse` | `providers/tariff/urdb_api.py` (`parse_urdb_response`): from a rate card to a schedule, as operators | `Forecast`, `FinanceProofs` |
| `Finance` | `engine/steps/finance.py` (one year), `engine/finance/cashflow.py`, `engine/finance/_solver.py`, `engine/finance/opportunity_cost.py`, `engine/finance/sale.py`, as operators | `Dispatch`, `FinanceProofs` |
| `Dispatch` | `engine/steps/battery_dispatch.py`: one hour of the battery, as operators | `Forecast` |
| `Forecast` | `engine/pipeline.py`, `engine/steps/*.py`, `engine/finance/amortization.py`: one run of `run_forecast` | `MCForecast`, `ForecastProofs`, `Analysis` |
| `Analysis` | `engine/steps/tornado.py`, `engine/steps/monte_carlo.py`: one call of a wrapper on a finished run | `MCAnalysis`, `AnalysisProofs` |
| `AuditPrivacy` | `services/audit_service.py`, `db/audit_models.py`, the two migrations that create the audit tables and the regional view | `MCAuditPrivacy`, `AuditPrivacyProofs` |
| `Retry` | `infra/retry.py`: the breaker and the retry loop, as operators | `UrdbRates`, `TmyFetch` |
| `UrdbRates` | `providers/tariff/urdb_api.py` (`fetch`), `infra/http.py` | `Upstream` |
| `TmyFetch` | `workers/forecast_worker.py` (`_fetch_tmy_async`), `db/tmy_cache.py`, `providers/irradiance/*.py` | `Upstream` |
| `Upstream` | both, side by side | `MCUpstream`, `UpstreamProofs` |

The `MC...` modules give the constants; the `...Proofs` modules hold theorems:
`FinanceProofs` those about the operators of `Tariffs`, `UrdbParse` and `Finance`,
which `ForecastProofs` and, through it, `AnalysisProofs` extend.
A definition commented "mutant of X" is a faulty form of X that shows that a
property depends on it; nothing else uses it.

### Entitlements

State: the two tables (`ledger`, `granted` with `grantedAt` and `revokedBy`),
what Stripe has no 200 for (`pending`), and for each API process the point it
has reached in the webhook (`pc`), its event, the handler calls its dispatch
still owes (`calls`), the row its revocation has selected (`cand`) and how often
its subscribers are registered (`subs`).

| action | code |
|---|---|
| `Deliver` | Stripe posts an unacknowledged event to some process |
| `Record`, `RecordFails` | `record_stripe_event`: insert, commit; a replay goes straight to the answer; an error is a 500 |
| `Grant` | `grant_tier`: one transaction, none of it for an unknown user or a repeated event |
| `RevokeSelect`, `RevokeUpdate` | `revoke_by_event`: the scalar subquery's snapshot, then the UPDATE by id under the unique index on `revoked_by_event_id` |
| `HandlerFails` | a handler raises; the bus logs it and goes on |
| `Respond`, `ResponseLost` | the 200 arrives, or Stripe will send the event again |
| `Crash`, `ReenterLifespan` | the process restarts; the lifespan runs again and `subscribe` appends |

`revoke_by_event` is a single SQL statement, but under READ COMMITTED its
subquery and the row lock of its UPDATE are separate moments for another
transaction, and its WHERE names only the id, which is still true after another
refund has revoked the row. That is why it is two actions.

### ForecastJobs

State: the slots in Postgres, and for each job RQ's status, meta, retries left
and expiry in Redis; for each submission its place in the route (`pc`), the
`utc_now()` its claim works with (`when`) and the job id it answered. A
submission draws a fresh uuid4, so a job has its submission's name.

| action | code |
|---|---|
| `Claim`, `Lookup` | `claim_idempotency_slot`: INSERT ... ON CONFLICT DO NOTHING, then `_lookup` for the loser |
| `Enqueue` | `ForecastService.submit`, `enqueue_forecast`: retry budget, TTLs and owner |
| `RequestFails` | the process dies or Redis refuses after the claim |
| `Start`, `Publish`, `Finish`, `Fail`, `Reschedule` | RQ runs `run_forecast_job`; `ForecastCompleted`; the result; a failed or timed-out attempt; a scheduler puts it back |
| `Poll` (operator) | `GET /api/forecast/{job_id}` with its owner check |

RQ itself is not in the repository: `Start`, `Fail` and `Reschedule` follow from
the parameters `workers/queue.py` gives it. `Scheduler` says whether an RQ
scheduler serves the Redis; `workers/forecast_worker.py` starts none.

### SignIn

State: Redis counters with and without TTL (`hits`, `ttl`); rows of
`magic_links` (`links`, `consumed`, `lapsed`), `users` and `sessions`; for each
login and callback its place in its route. Users and sessions carry the name of
the callback that inserted them. Time is not a number: a window ends, a link
lapses and a session expires whenever they may.

| action | code |
|---|---|
| `Count`, `Stamp`, `RedisFails`, `WindowEnds` | the limiter: INCR, EXPIRE after the first hit, fail open; Redis drops the key |
| `Issue`, `Send`, `LoginFails`, `LinkLapses` | `issue_magic_link` and the e-mail |
| `Open`, `Find`, `Insert`, `Commit` | `consume_magic_link`: read the link, SELECT the user, flush an INSERT (it waits for an uncommitted row of the same address), commit stamp, session and user together |
| `Respond`, `CallbackFails` | the cookie; a roll-back before the commit, a lost answer after it |
| `Logout`, `SessionExpires`; `Identity` (operator) | `revoke_session`, `expires_at`; whom the middleware takes a cookie for |

### Forecast

State: the inputs of the run (`given`, which also holds the yield and snow its
weather decides and the requested `feature_keys`), the place in
`ENGINE_STEP_ORDER` (`at`), the artifacts, the four walks (`hours` dispatched,
finance `years`, amortization `rows`, the `bracket` of the IRR) and whether an
exception left the run.
The forecast is sequential: the only choices are the inputs and the rate of each
loan month, but its walks are long and each reads what earlier steps left.

| action | code |
|---|---|
| `Skip` | the step is not requested, or its adapter returns early (`Declines`) |
| `Raise` | a KeyError or ValueError leaves the step and `run_forecast` |
| `Produce`, `SnowLoss`, `Degrade` | the streams that open the run |
| `DispatchHour`, `Dispatched` | the loop body of `dispatch_battery`, and its artifact |
| `Bill`, `Credit` | `compute_annual_bill` and `apply_export_credit` on the post-battery net load |
| `FinanceYear`, `LoanMonth` | the year loop, the amortization walk |
| `StartIrr`, `HalveIrr` | `irr`: the guesses are checked, then one turn of `_bisect` after the other |
| `Close` | the cash flows, which the metrics of `Finance` are computed from |
| `Ended` | the run has returned or raised, and rests |

Data: energy, money and rates are small integers. A month of snow takes a
month's production or none; production is a multiple of `Scale` and a year's
capacity factor a number of `Scale`-ths, so degraded production is exact.
`Loss`, the reciprocal of the round-trip efficiency, is a whole number, and a
discharge that would need a fraction of it is left in the bank; the code's
floats would deliver it. Isclose comparisons are equalities. A weekday flag and
an hour of the day are one slot, so that weekdays and weekends have slots of
their own. A discount or escalation rate is its growth, a whole number; a
present value is a number of `Unit`-ths, a multiple of every power that divides
it; `irr` searches growths in `Grid`-ths; a quotient (LCOE) or a root (MIRR)
stays the pair it is made of. Loan rates are not negative, and a month's
interest and repaid share are any that fit, which covers fixed, variable and
zero rates. Nor is an escalation below zero, which `inputs.py:225` admits down
to -10 %; it enters the crossover year alone. A wrapper reckons with the loan
months the forecast has walked, so a household with a loan is handed to it only
if its forecast had the finance step (`LoanIsWalked`); the code walks the loan
again.

`UrdbParse` turns a rate card (`RateCards`) into the schedule that
`parse_urdb_response` makes of it, and the run bills by it. Beside the parser it
holds a second reading of the card (`CardCharge`), kWh by kWh and straight off
the matrices, which shares with the parser only whether a card is one of
time-of-use rates, and nothing with the bill.

### Analysis

State: that of the forecast and `call`, the one call of a wrapper that follows
it: the tornado's bundle, anchor, axis and rows, or the Monte Carlo's paths so
far. A wrapper is one synchronous function; its steps show what one axis or path
hands to the next.

| action | code |
|---|---|
| `Refuse` | the state lacks finance inputs, a tariff or production: a ValueError |
| `StartTornado` | `run_tornado` up to its loop, with the NPV of the baseline |
| `SkipAxis`, `TornadoRow` | an axis with a delta of zero; an axis moved down and up (`Perturbed`), each over a copy of the baseline |
| `FinishTornado` | the stable sort by swing |
| `StartMonteCarlo`, `DrawPath` | one path: the draw, its clamps (`PathBundle`), the finance step, or a failure that is counted |
| `FinishMonteCarlo` | percentiles, padding of paths that have ended; a ValueError if every path failed |

The generator is any choice among `Draws`. Weather and system cost move by
halves, the other axes by whole steps, and `Percentile` is numpy's linear
interpolation, in tenths.

### AuditPrivacy

State: the rows of `users`, audits, quotes and vault with their references and
flags; for each PATCH its place in `set_user_aggregation_opt_out` (`pc`), its
user and value, what its user had sent when it came in (`asked`) and what its
open transaction has updated (`staged`); the last refresh of the regional view.
`promised` records what answered opt-outs covered.

| action | code |
|---|---|
| `Ask` | the PATCH with its session |
| `FlipUser`, `NoChange` | the UPDATE of the user's flag, which waits for the row's lock and looks again at what was committed; or no row matches and the request is answered at once |
| `Cascade` | the UPDATE of the quotes, at a later snapshot of its own |
| `Commit`, `Abort` | both become visible together, or neither |
| `DeleteAudit`, `DeletePii` | the two purges with the foreign keys they set off |
| `DeleteAccount`, `Upload`, `Refresh` | external: nothing in `src/` does them yet; they do what the schema lets them |

### Upstream

`Retry` has no variables: a breaker and a call are records, and its operators
say what the wrapper makes of them (`Begun` at its entry, `AfterFailure`,
`Woken`, `AfterResponse`; `BeforeCall`, `RecordSuccess`, `RecordFailure`).

`UrdbRates`, the tariffs of one process: each fetcher's call, query and the age
of the `now` it took (`call`, `wanted`, `askedFor`), the `OrderedDict` (`cache`)
and the breaker (`urdb`). What runs between two awaits is one step.

| action | code |
|---|---|
| `Hit`, `Ask` | `fetch` up to its first await: a fresh entry is served and moved to the end, or the call begins, or the breaker refuses it |
| `AttemptFails`, `Wake` | one attempt ends in an `httpx.HTTPError`; the backoff is over |
| `AttemptAnswers`, `FetchReturns` | the response parses and is stored, with eviction, or does not; the schedule or the seed's is returned |
| `Tick` | the clock, for entries, questions and the breaker's cooldown |

`TmyFetch`, the weather of the jobs: each job's place (`job`), its `primary` and
`sibling` call, whether the sibling brought its months (`rain`), the TMY in hand
(`tmy`), and the shared rows (`table`).

| action | code |
|---|---|
| `CacheHit`, `CacheMiss` | `pick_provider`, `lookup_cached_tmy`; a provider without credentials raises |
| `PrimaryAttemptFails`, `PrimaryWakes`, `PrimaryAnswers` | the primary task; its failure cancels the sibling (`PrimaryEnds`) |
| `SiblingAttemptFails`, `SiblingWakes`, `SiblingAnswers` | the sibling task |
| `Merge`, `Store` | the second `try` of `fetch_aggregates_with_primary`; the upsert |
| `DatabaseFails`, `Killed` | an error at the lookup or around the commit; the job's time is up or its process dies |

RQ forks a process for each job, and breakers live in the process: a job's two
calls meet closed breakers that nobody else uses, so `TmyFetch` keeps none. In
the process that fetches tariffs all calls share one. A URL that httpx rejects
and other exceptions outside `httpx.HTTPError` pass the wrapper by and are not
modelled.

## 3. Runs

Safety, liveness and refinement that hold:

| run | instance | shows | states |
|---|---|---|---|
| `Entitlements_faults` | 2 processes, 3 payments (two of one tier) and a refund, 1 crash, 1 database error, 1 repeated lifespan | `TypeOK`; every grant and revocation is earned by a recorded event of its own user and tier, and a refund ends at most one grant (`EffectsAreEarned`); `RevocationIsFinal`; `AccessFollowsLedger` | 605,000 |
| `Entitlements_refines` | 2 processes, a payment, two refunds of it, an event without tier, 1 crash, fair | the webhook implements `EntitlementLedger` (`ImplementsLedger`); `EveryEventAcked` | 33,000 |
| `ForecastJobs_faults` | 3 submissions of one body by 2 callers, clock to 2 with a TTL of 1, 1 failed request, 2 retries, a scheduler that may run or not, fair | `TypeOK`; answers match inputs and polls are private (`JobsStayPrivate`); `AnswerIsPollable`; `OneJobPerSlot`; `EveryJobRests` | 319,000 |
| `SignIn_faults` | 2 logins for one new address from one peer, 2 callbacks, IP limit 2, e-mail limit 1, 1 fault anywhere, fair | `TypeOK`; one user per address, whose sessions are their own (`SessionsAreOfOneUser`); `NoReplay`; `CookieKeepsItsUser`; `ThrottleReopens`; `EveryCallbackEnds` | 135,000 |
| `Forecast_years` | a year of 4 hours, 2 months, 4 slots; 4 finance years; every mix of 2 loads, 2 yields, 3 snows, 3 batteries, 5 schedules, 5 export regimes, 3 financings, 3 step selections | `TypeOK`; `BatteryBalances`; `BillsFollowTheCard`; `CreditIsConserved`; `SavingsBounded`; `SaleSettlesTheLoan`; `OnlyGapsRaise` | 284,000 |
| `Analysis_calls` | the same kind of year without a battery, 3 finance years, 5 financings, 2 sensitivities, 2 paths of 5 draws | `RootIsBracketed`; NPV, MIRR, payback, IRR, LCOE and crossover agree (`HeadlinesAgree`); `TornadoPointsRight`; `FanIsHonest`; `WrappersAnswer` | 45,000 |
| `Upstream_faults` | 2 fetchers of 2 queries over a cache of 1 entry with a time to live of 2, threshold 2, cooldown 2, 2 attempts; or up to 2 jobs for 4 sites, 3 of them in one bucket of two providers; fair | `TypeOK`; `OpenIffThreshold`; `StampIsHonest`; whose weather a job gets and what a failed call takes with it (`JobsEndWhole`); `BreakerProbes`; `EveryJobEnds` | 194,000 |
| `AuditPrivacy_faults` | 2 users, 3 audits, 2 quotes, 3 vault rows, 2 PATCH requests of either user and value, each free to fail; fair | `TypeOK` with its foreign keys; `PromiseKept`; `OptOutIsAtomic`; `PurgesAreScoped`; `EveryFlipEnds` | 253,000 |

Each of these properties is also run against a faulty form of one definition,
and TLC then finds it violated (`mutants`).

Runs in which a statement of the repository's own docs, comments or tests is
violated by what the code does (`findings` quotes it):

| run | statement | counterexample |
|---|---|---|
| `Entitlements_lost_grant` | `services/entitlements_grants.py:9-13`, `db/entitlement_models.py:3-6`: safe across a "post-record crash before grant" | record commits, the process dies, the redelivery is acknowledged as a replay: paid and never granted |
| `ForecastJobs_no_scheduler` | `docs/ENGINEERING.md:133`: pollable, dead-lettered after N retries (`EveryJobSettles`) | a job that fails once is scheduled for ever, because nothing starts a scheduler |
| `Analysis_snow_anchor` | `engine/steps/tornado.py:3`, `tests/test_engine_tornado.py:70-74`: the perturbed quantity is the headline NPV | finance bills the production under snow, the wrappers take the raw production: with snow the anchor is another number |
| `Analysis_escalation` | `tests/test_engine_tornado.py:9-10`: "escalation helps"; `engine/steps/tornado.py:49-50` (`EscalationHelps`) | the rate enters only the crossover year (`engine/steps/finance.py:287-296`), so both ends of its row are the anchor though every year spares the household something |

### Met while modelling

These have no run of their own: a property above says exactly what does hold, or
no state depends on them.

*Payments and sign-in.*

* Two refunds that select one row before either updates it both succeed, and the
  second overwrites `revoked_by_event_id` (`db/entitlement_models.py:7-9` calls
  the table an audit trail); the other purchase stays active. `EffectsAreEarned`
  holds all the same.
* Two callbacks that read one link before either commits each mint a session,
  though `services/auth_service.py:15` calls the link one-shot. `NoReplay` is
  about a callback that opens the link after a commit.
* A fault between the INCR and the EXPIRE of a bucket's first hit leaves a counter
  without a TTL, which no later hit repairs and which, once full, refuses for
  ever; `infra/rate_limit.py:16-17` says that an outage degrades to allow.
  `ThrottleReopens` says that nothing else leaves such a bucket.
* `main.py:32-33` calls the registration of subscribers idempotent, but
  `infra/eventbus.py:75` appends; the unique indexes make the second call
  harmless (`Entitlements_faults` re-enters the lifespan).

*Jobs.*

* A claim whose enqueue fails leaves a slot with the id of a job that never runs,
  and the next identical submission is answered with it
  (`infra/idempotency.py:157-161` says it is not). `AnswerIsPollable` is about
  jobs that were enqueued.
* An expired slot row blocks the insert and is invisible to the lookup, so that
  every later submission enqueues; `api/forecast.py:5-6` says that the engine
  never runs twice. `OneJobPerSlot` is about live slots.
* `workers/forecast_worker.py:54` reads `meta["user_id"]` where
  `workers/queue.py:52` writes `owner_user_id`, so that every `ForecastCompleted`
  is published for the anonymous user (`Publisher`; no subscriber exists).

*Upstream.*

* `infra/retry.py:5-7` and `infra/http.py:5-7` promise a breaker per service that
  stops hammering a sick upstream: it is per process, and a worker's process
  lives for one job. `infra/retry.py:81` says that the next call probes in the
  half-open state: every call that arrives after the cooldown does.
* `infra/http.py:44-46` speaks of a lock that is not there (harmless on one event
  loop, where nothing awaits between the read and the write).
* A sibling fetch that fails leaves a TMY without snow and rain in `tmy_cache`,
  which has no expiry (`providers/irradiance/era5_land.py:150`).

*Engine.*

* `engine/steps/battery_dispatch.py:216-218` says that hours without a
  time-of-use period degrade dispatch to "store solar surplus"; line 164 charges
  from the grid in them.
* `engine/pipeline.py:265` gives finance no battery, so its savings are those of
  the house without one; `engine/pipeline.py:157` raises a KeyError when
  `feature_keys` leaves production out.
* What `Analysis_escalation` shows of the tornado goes for the Monte Carlo too:
  the escalation drawn moves no path. With a loan, the `system_cost` axis of the
  tornado moves nothing either.
* `engine/steps/tornado.py:71-72` says that more weather always helps and a higher
  discount rate always hurts. Where an hour of export has a negative rate, or
  where years cost more than they save, neither need be so, and
  `TornadoPointsRight` says nothing of those rows.
* The wrappers read the raw production, so that they may meet a gap of the tariff
  in an hour that the forecast had under snow. An exception of one axis ends
  the whole table.
* Finance credits `seg_tou` in full while the settlement of
  `engine/integration/seg.py` forfeits what is left; the settlement is not wired
  into the pipeline. A negative flat credit against a year without energy
  charges vanishes. What `seg.py:8` calls an even spread is proportional to the
  charges (`seg.py:83`).
* The uplift of a sale reaches zero a year after `1 / decay`, not in that year
  (`engine/finance/sale.py:67-69`).
* A URDB card with two periods and tiers keeps each period's first block; a
  malformed period is passed over, which leaves a gap that raises later; a card
  with several periods and one matrix is billed at its first period.

*Privacy.*

* `PRODUCT_PLAN.md:495` says that new audits after opt-out also stay excluded. A
  quote is opted in by the column's default, whoever its owner
  (`db/audit_models.py:203`), the view looks at nothing else, and a second PATCH
  of the same value returns before its cascade. `PromiseKept` is about what was
  there when the user asked.
* A PATCH of the value the row still holds is answered at once even while an
  opt-out of the other value is open; the two are then ordered as if it had come
  first.

### Bounds

Names and reasons: `MaxCrashes`, `MaxFailures` and `MaxReentries` stop faults
from repeating; one fault is enough for each single-fault scenario, at any
point, and the properties are about the state after it. Two processes are
enough for every race over one row, because each race here is between one
reader and one writer (select against update, insert against insert, read
against commit). Two payments of one tier are the least for which a refund has
a choice; a third event of another tier shows that it is left alone. `MaxTime`
is one unit beyond the TTL, which puts submissions before, at and after the
expiry. The e-mail limit is 1 and the IP limit 2, so that the two logins fill
one bucket exactly and pass the other. In `ForecastJobs` the three TTLs may
differ as long as the result and the failure outlive the slot, which
`ConfigAssumption` states and the code satisfies with 24 hours for each.
Deadlock is not checked for the services: a finite number of requests
ends, and the system then rests. It is checked for `Forecast`, which must reach
`Ended`.

`Forecast_years`: four hours are a noon and an evening of two months, which is
enough for the battery to fill, empty and start over across the months, for
surplus in one month to be carried or forfeited in the next, and for both
months to sort hours into tiers. The first month is a weekday and the second a
weekend day, so that both matrices of a card are read. Four cards are parsed:
one whose single matrix makes it flat, tiers with the catch-all first and a
maximum of zero, hours that swap with the season and a period without blocks
(which leaves the last hour without a rate), and one without any rate, which
has no schedule. A card whose block is no object counts as malformed, though
`urdb_api.py:218` and `:226` raise an AttributeError over it that `fetch` lets
through (`:107-113`): either way there is no schedule. One more schedule has periods that overlap. Hourly export
rates include a negative one. A home is sold after a year, in the third year,
or past the horizon. With `Scale` 4, a
first-year loss of 2 and an annual loss of 1, the four years have the factors 2,
1, 0 and 0: the last one tests the clamp. Three loan months against two months
a year end the loan in the middle of a year. One house has no load, and under
snow in both months a system yields nothing.

`Analysis_calls`: three years let a hold move by one, fall to the least of one
year and grow beyond the horizon; one sensitivity moves every axis, one leaves
three out. The draws are the centre, a dark path (`WeatherMin` is 0, so that a
path can fail) and one beyond each clamp; two paths are the least for a
percentile to interpolate and for paths to differ in length. The growths 1/2 to
9/2 in halves take the bisection three turns. Deadlock is not checked, since the
run ends after its call.

`AuditPrivacy_faults`: two requests are enough for every race over one user's
row, and two users for a lock or a cascade to touch the wrong one. Of the two
quotes one is Ann's and one Bob's, each free to come at any moment; a quote that
comes between the statements of a flip is the same as one of two. One audit is
anonymous. An id is not used again.

`Upstream_faults`: tariffs and weather share no state, so the run takes either
without the other (`MCInit`): a provider without a key makes no call, and a site
`None` is a job that never comes. Two fetchers are enough for a call that began
before the breaker opened and ends after. With one entry every second query
evicts; the order of eviction in a larger cache plays no part in any property.
A time to live of 2 is the least in which an entry can be hit when it is no
longer new. Ages stop at the time to live and at the cooldown, beyond which the
code tells none apart, and failures at the threshold. Of the sites, two share
bucket and provider, one shares only the bucket and has a provider without
credentials, and one has the provider without a sibling.

### Fairness

* `Entitlements`: weak for the steps of a request that is being handled
  (an API process runs what it has taken); strong for delivery, because Stripe
  redelivers until it has a 200, and for `Respond`, because a connection that
  is tried again and again works once. None for faults.
* `ForecastJobs`: weak for a request that has begun and for a worker on each
  queued or started job (RQ kills an attempt at `FORECAST_JOB_TIMEOUT_SECONDS`, so
  an attempt ends, well or badly). None for `Reschedule`: nothing in the
  repository starts an RQ scheduler. `EveryJobRests` therefore holds whether
  somebody runs one or not, and a job may rest waiting for its retry.
* `SignIn`: weak for the second command of the limiter, for the end of a Redis
  window, and for each callback that has begun. `Insert` is disabled while
  another uncommitted row holds the address, so weak fairness says nothing of a
  callback whose rival never ends: `EveryCallbackEnds` shows that rivals do.
* `Upstream`: weak for each call (an attempt ends within its HTTP timeout, a
  backoff is bounded), for what a job does between its calls, and for the clock.
  None for asking: `BreakerProbes` holds whether anybody asks or not, and however
  often; a call that the breaker refuses does not renew its cooldown.
* `AuditPrivacy`: weak for each request that was taken. It waits for a lock only
  while another request, which is taken too, holds it. None for anything else.
* `Forecast` and `Analysis` are sequential and have no fairness: their properties
  are about what a run has done by the time it gets there.

## 4. Proofs

TLAPS proves the following for every number of processes, events, submissions,
logins, callbacks, audits and requests, for every calendar, load, rate card,
cash flow and horizon, and for every bound, from the named assumptions on the
constants and nothing else. These are `ContentAssumption`, `BoundsAssumption`,
`ConfigAssumption`, `SignInAssumption`, `RetryAssumption`, `RatesAssumption`,
`TmyAssumption` and `SchemaAssumption` for the services, and for the engine:

* `CalendarAssumption`, `FinanceAssumption`, `LossAssumption`: the hours are
  numbered, each is of a month, and the constants of the code are in range;
* `EngineAssumption`, `AnalysisAssumption`: inputs and draws are those the pydantic
  schemas admit, but for negative loan and escalation rates (rates, prices and
  maxima are not negative), `None` is no number,
  a rate card gives an hour its column in one of its matrices and not in both
  (`RateCard`), and the numbers are exact: `Unit` is a multiple of the powers by
  which present values are divided, a yield of `Scale`. The last says that the
  proofs are about the arithmetic the code approximates in floats.

| theorem | statement |
|---|---|
| `EntitlementsProofs`: `TypeCorrect`, `OneHandler`, `EffectsEarned`, `Final`, `AccessExplained` | the safety properties of `Entitlements_faults`; no two processes handle one event |
| `EntitlementsProofs`: `Implements` | `Spec`, with one registration per process, implements `EntitlementLedger` |
| `ForecastJobsProofs`: `TypeCorrect`, `JobsPrivate`, `OneJob`, `AnswersPollable`, `AttemptsWithinBudget` | the invariants of `ForecastJobs_faults`, and a bound on a job's attempts |
| `SignInProofs`: `TypeCorrect`, `SessionsOfOneUser`, `Replayed`, `SameUser` | the safety properties of `SignIn_faults` |
| `ForecastProofs`: `TypeCorrect`, `Balanced`, `RootKept`, `GapsOnly` | `TypeOK`, `BatteryBalances`, `RootIsBracketed` and `OnlyGapsRaise`, for any calendar, schedules, batteries, loads, yields, cash flows, guesses and horizon |
| `FinanceProofs`: `BandsFollowTheCard`, `TiersFollowTheCard`, `ChargeFollowsTheCard` | the rate of the first matching band is the rate of the period that the card's matrix names; the walk over the sorted blocks charges each kWh of a month at the lowest tier that reaches it; so that a month's energy charge is the card's |
| `FinanceProofs`: `MonthConserves`, `YearConserves`, `SegConserves` | a month of the rollover, a year of it up to any month, and both SEG settlements make and lose no credit, carry no debt and bill no negative energy |
| `FinanceProofs`: `TierChargeRises`, `ChargeRises`, `BurdenRises` | no tariff charges less for more load, nor, unless export can cost money, for less export |
| `FinanceProofs`: `SavingsWithinBill`, `SavingsWithinTariff`, `SavingsFade`, `SelfConsumption` | what a year saves: no more than the bill it had where surplus is not paid out, no more than the tariff step shows, no more than a sunnier year, and on a flat tariff its rate times the energy used at home |
| `FinanceProofs`: `MirrAgrees`, `PaybackAgrees`, `BracketAgrees`, `CrossoverAgrees` | each metric against the sign of the NPV, for any cash flows (after one outlay followed by income, for payback and IRR) |
| `FinanceProofs`: `NpvRises`, `NpvGrows`, `NpvFallsWithRate` | the NPV rises with the flows and with a longer horizon of income, and after one outlay falls with the discount rate |
| `ForecastProofs`: `MoneyInvariance` | the second inductive invariant, `Money` |
| `ForecastProofs`: `BillsFollow`, `CreditConserved`, `SavingsStayBounded`, `SaleSettles`, `HeadlinesHold` | `BillsFollowTheCard`, `CreditIsConserved`, `SavingsBounded`, `SaleSettlesTheLoan`, `HeadlinesAgree` |
| `AnalysisProofs`: `StateIsKept`, `RootKeptBehindCalls` | a forecast with calls on it is a forecast, and what is proved of one holds |
| `AnalysisProofs`: `OnlyTheStateFails` | `WrappersAnswer`, for any sensitivities and draws that the schemas admit |
| `AnalysisProofs`: `TableIsRight`, `FanHolds` | `TornadoPointsRight`, `FanIsHonest` |
| `AnalysisProofs`: `SortIsStable`, `PercentilesInOrder` | the rows by swing are a permutation that is in order and leaves equal swings where they were; the 10th, 50th and 90th percentiles of any samples are in order, between the least and the greatest |
| `UpstreamProofs`: `TypeCorrect`, `BreakerIsSound`, `StampsAreHonest`, `JobsWhole` | the invariants of `Upstream_faults` |
| `UpstreamProofs`: `SiblingIsOptional` | a job that fetches fails by its primary call only |
| `AuditPrivacyProofs`: `Typed`, `Promised`, `Atomic`, `Scoped` | the safety properties of `AuditPrivacy_faults` |

Each component has an inductive invariant `IInv` (theorem `Invariance`; two in
`Upstream`, `Money` beside it in `Forecast`, and `CallOK`, `TableOK` and `FanOK`
beside the forecast's in `Analysis`). None of the
properties is inductive alone:

* *Entitlements.* One handler per event (`OneHandlerPerEvent`) needs that an event being handled is in
  the ledger already (else two processes could both find it novel);
  that effects match events (`EffectsMatchEvents`) needs that the row a process has selected matches the
  refund it is handling, which stays true because nothing but `revokedBy` of a
  granted row ever changes. The refinement needs that a settled event is one
  nobody handles, which is where one registration per process comes in.
  `AccessFollowsLedger` compares what may be answered for two sets of rows
  (`BestLemma`), of which the later holds nothing of the earlier that was revoked
  and everything else (`Kept`).
* *ForecastJobs.* A slot must name a job of its own key (`SlotsNameTheirKey`),
  whoever is at "enqueue" with a live slot is the one it names (`WinnerHasSlot`),
  an answered job carries its owner's stamp (`OwnerIsStamped`), claims lie in
  the past (`ClaimedInThePast`), a settled job's expiry is no earlier than its
  slot's (`ResultOutlivesSlot`, where the assumption on the TTLs is used), and
  retries left and attempts made add up to the budget (`BudgetAccounted`).
* *SignIn.* One user per address is proved of committed and uncommitted rows
  together (`UniqueAddress`): the index excludes both. That a session is of its
  addressee needs that a callback about to commit holds a row of its link's address
  (`HoldsAddressee`); `NoReplay` needs that a callback past its check found the
  link unconsumed by any session it had seen (`FoundFresh`).
* *Forecast.* The balance of an hour (`HourLemma`) needs that the bank the hour
  starts with lies between floor and capacity, which is the balance of the hour
  before: then neither final clamp of the loop ever moves the charge. Across the
  run the invariant says (`Standing`) that the battery's artifact appears only
  after its walk, so that the dispatched hours keep meaning the net load they
  were computed from, and that production is there once it has had its turn,
  which is what leaves only the four listed causes for a raise. The bracket
  keeps a change of sign because a turn moves the end that has the middle's
  sign (`HalvedKeeps`), over cash flows that no step changes while it is searched.
* *Analysis.* A wrapper leaves the forecast's variables alone, so that all is
  inherited. That it fails only for the household's reasons needs (`CallOK`,
  with `TornadoOK` and `SamplingOK`) that the bundle stays the baseline and that
  failed and drawn paths add up, and (`YieldKept`) that production is the
  weather's yield: a sunny hour that is halved, or in a path with
  `WeatherMin` above zero, still yields, and every curve starts with a year
  that is not fully worn out.
* *AuditPrivacy.* An open transaction is the only one of its user and will change
  the flag (`LocksHold`); what it has staged is there and of its user
  (`StagedIsOwn`), and what its user had when they asked is still theirs
  (`AskedIsOwn`), which is what uploads, purges and the departure of accounts
  might have changed; so that the cascade, though it reads a later snapshot than
  the flag, has staged everything that was asked and still counts
  (`AskedIsStaged`).
* *Upstream.* Each side has its own (`RatesInv`, `TmyInv`). For the tariffs it
  is a statement about sequences: taking an entry out, appending it and cutting
  the front off leave each key once and no stamp younger than its data
  (`Removal`, `OthersOK`, `UsedOK`, `EvictedOK`). For the weather, `JobOK` says
  that calls run only while their job fetches, and what the TMY in hand is at
  each place; a call that sleeps has an attempt left (`CallOK`).

Sums are folds, and a fold over an arbitrary set is what the prover knows least
about. `FinanceProofs` therefore begins with its own induction: the strict
subsets of a finite set are well founded (a theorem of the library), so a family
of subsets that is not empty has a least member (`MinimalSubset`), and so has a
set of numbers (`LeastNatural`, `CountingUp`). A statement is proved for all sets or numbers by
showing that those for which it fails have no least one; sets stand where an
induction theorem would want a predicate. From this come the laws of `SumOver`
(`SumAdd`, `SumLarger`, `SumPlus`, `SumTimes`, `SumUnion`), and that a recursive
function is the one its equations say (`Recursion`), which covers powers,
curves, the walk over tiers, the rollover and the balance of a loan.

* *Money of a forecast.* `Money` says where each number comes from: which
  artifacts are there at which step (`Streams`), that bill and credit are those
  of the net load the state still shows (`Billed`), that every finance year is
  `YearTerms` of its own production (`Priced`), and that the loan's rows are a
  chain of balances that ends at zero (`Amortized`). Each property is then a
  statement about operators:
  * *Cards.* The bands of a period are those of the months that open one
    (`BandsRange`, `PeriodsRange`): two months of one mask share a band, and a
    band of another mask does not name the month. With each hour in one matrix,
    a slot matches bands of one period only, so that the first match is the right one.
    For tiers, after sorting, a kWh falls in the first block that reaches it
    (`SortedOrder`, `CardTierLemma`), and the walk is placed kWh by kWh
    (`SumSteady`). The refund of net metering is the difference of two such sums.
  * *Credit and savings.* What a month settles is carried through the year
    (`SettledInTurn`). A year's savings are two bills and a credit, each of
    which moves one way when the net load moves one way hour by hour.
  * *Sale.* The months of service that the wealth path pays and the balance that
    the sale pays off are cut at the same month of the same rows
    (`ServiceLemma`, `PayoffLemma`); what is beyond the last row is nothing.
  * *Headlines.* An NPV times the growth to the horizon is a whole-number sum
    that MIRR, payback and the IRR's polynomial (`Root`) also reckon with: `Root`
    falls after a single outlay (`RootFalls`), and at a whole growth it is
    the NPV (`RootIsNpv`). On a flat tariff every saved kWh has one value, so
    that NPV is rate times discounted energy less the cost the LCOE spreads.
* *The table.* Rows so far are those of the catalogue's axes so far, each an
  evaluation of the baseline itself (`TableOK`, `PerturbedSound`); NPV is monotone in
  production (`ProductionFades`, `FlowsFade`), hold (`LongerHold`), outlay (`DearerOutlay`)
  and rate (`DearerMoney`), which puts each end on its side. The sort is proved
  by the number of rows that come before each (`SortIsStable`).
* *The fan.* A live path is an evaluation of a drawn bundle (`FanOK`); the percentiles are
  lines between neighbours of a sorted sequence, which rise with the fraction
  and never leave the extremes (`LineBetween`, `LineRises`).

Only model-checked:

* liveness (`EveryEventAcked`, `EveryJobRests`, `ThrottleReopens`,
  `EveryCallbackEnds`, `BreakerProbes`, `EveryJobEnds`, `EveryFlipEnds`): fairness
  and ENABLED are out of the prover's reach;
* the counterexamples of section 3, which are about one behaviour each.

Every invariant and every other action property of the passing runs is a theorem.

## 5. Not modelled

See `components` in `PROJECT.json` for each part and its reason. In short:

* The physics of the engine (irradiance, transposition, the snow model) computes
  over reals; its results, a yield and a share of snow per month, are inputs of
  the instance.
* Of the engine's arithmetic: the geometric degradation curve, the interpolation
  of a variable loan's rates, the closed-form payment and the dealer-fee
  solver, `annualized_return` and `compare` (roots and powers of reals that no
  state depends on), and the snapshot hash.
* The other provider adapters (tariff seed, storage, e-mail, geocoding,
  incentives, monitoring, hold durations, Vertex) parse and do I/O without state
  of their own; where their failure matters to a caller it is a step of the
  caller's module. Proposal extraction has no caller yet.
* Middleware, error handling and health keep no state beyond a request's
  correlation id. The frontend's forecast client is a mock that does not call the
  backend.
* Payload text, tokens, hashes, amounts and wording are model values throughout.
  The signature check of the webhook, X-Forwarded-For and the wording of error
  bodies are left out. Creating audits and quotes, deleting accounts and
  refreshing the aggregate are external actions of `AuditPrivacy`, since no code
  does them yet.

## 6. Plan

What is written covers the parts of the backend that keep state or walk a year.
What would come next, in this order:

1. Proofs: refinement of the pieces that only operators state so far, with the
   queue of `ForecastJobs` and the cache of `UrdbRates` as abstract specifications
   of their own.
2. `AuditPrivacy` once the repository inserts audits and quotes and refreshes the
   view: the external actions become translations, and the run says whether
   later quotes are excluded.
3. `ForecastJobs` with the worker's breaker and cache lookups of `TmyFetch` as the
   inside of its one step `Publish`, once a subscriber of `ForecastCompleted`
   exists that a lost event could harm.
