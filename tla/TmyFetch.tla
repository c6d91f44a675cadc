------------------------------ MODULE TmyFetch -------------------------------
(***************************************************************************)
(* How a forecast job gets its weather (_fetch_tmy_async): pick a provider *)
(* by the coordinates, look the bucket of the coordinates up in the        *)
(* tmy_cache table, and on a miss fetch outside any database session, for  *)
(* two of the providers together with a sibling fetch of rain and snow,    *)
(* merge, and upsert.  The table is shared by the jobs of all worker       *)
(* processes.  RQ forks a process for each job, so that a job begins with  *)
(* closed breakers of its own and none of its two calls, one to each       *)
(* service, can be refused.                                                *)
(***************************************************************************)
EXTENDS Retry, FiniteSets

CONSTANTS
  Job,         \* runs of run_forecast_job: a retry is another job
  Site,        \* coordinates, as the inputs give them
  BucketOf,    \* bucket_lat_lon: the cache bucket of a site
  SourceOf,    \* pick_provider: the source of the provider of a site
  WithSibling, \* the sources whose provider fetches the sibling too
  Configured   \* the sources whose provider has its credentials

\* the TMY of a site; it may lack rain and snow
Tmy == [site : Site, full : BOOLEAN]

ASSUME TmyAssumption ==
  /\ DOMAIN SourceOf = Site /\ DOMAIN BucketOf = Site
  /\ None \notin Site \cup Tmy

VARIABLES
  job,     \* where each job is in _fetch_tmy_async
  site,    \* the coordinates of its inputs; None if there is no such job
  primary, \* the provider's GET
  sibling, \* the sibling's GET
  rain,    \* whether the sibling's answer has the twelve months
  tmy,     \* the TMY it has: fetched, or found
  table    \* rows of tmy_cache: at most one TMY of each key

tmyVars == <<job, site, primary, sibling, rain, tmy, table>>

\* the primary key: the buckets and the source
KeyOf(s) == <<BucketOf[s], SourceOf[s]>>

TmyInit ==
  /\ site \in [Job -> Site \cup {None}]
  /\ job = [j \in Job |-> IF site[j] = None THEN "absent" ELSE "lookup"]
  /\ primary = [j \in Job |-> NoCall] /\ sibling = [j \in Job |-> NoCall]
  /\ rain = [j \in Job |-> FALSE]
  /\ tmy = [j \in Job |-> None]
  /\ table = {}

----------------------------------------------------------------------------
\* the row with the primary key of s
Row(s) == {t \in table : KeyOf(t.site) = KeyOf(s)}

CacheHit(j) ==
  /\ job[j] = "lookup"
  /\ \E t \in Row(site[j]) : tmy' = [tmy EXCEPT ![j] = t]
  /\ job' = [job EXCEPT ![j] = "done"]
  /\ UNCHANGED <<site, primary, sibling, rain, table>>

\* fetch_tmy without its credentials raises before any call
CacheMiss(j) ==
  LET source == SourceOf[site[j]] IN
  /\ job[j] = "lookup" /\ Row(site[j]) = {}
  /\ IF source \in Configured
     THEN /\ job' = [job EXCEPT ![j] = "fetching"]
          /\ primary' = [primary EXCEPT ![j] = Begun(Closed)]
          /\ sibling' = IF source \in WithSibling
                        THEN [sibling EXCEPT ![j] = Begun(Closed)] ELSE sibling
     ELSE /\ job' = [job EXCEPT ![j] = "failed"]
          /\ UNCHANGED <<primary, sibling>>
  /\ UNCHANGED <<site, rain, tmy, table>>

----------------------------------------------------------------------------
\* The two calls of a job go on side by side; the sibling's also while the
\* primary's has ended and its result waits for it.

SiblingAttemptFails(j) ==
  /\ sibling[j].pc = "trying"
  /\ sibling' = [sibling EXCEPT ![j] = AfterFailure(@)]
  /\ UNCHANGED <<job, site, primary, rain, tmy, table>>

SiblingWakes(j) ==
  /\ sibling[j].pc = "sleeping"
  /\ sibling' = [sibling EXCEPT ![j] = Woken(@)]
  /\ UNCHANGED <<job, site, primary, rain, tmy, table>>

\* a payload without its daily block is an answer too, with nothing in it
SiblingAnswers(j, parses, full) ==
  /\ sibling[j].pc = "trying"
  /\ sibling' = [sibling EXCEPT ![j] = AfterResponse(@, parses)]
  /\ rain' = [rain EXCEPT ![j] = parses /\ full]
  /\ UNCHANGED <<job, site, primary, tmy, table>>

\* mutant of PrimaryEnds: the sibling's task is left alone
PrimaryEndsAlone(j, c) ==
  /\ primary' = [primary EXCEPT ![j] = c]
  /\ IF c.pc \in {"exhausted", "malformed"}
     THEN job' = [job EXCEPT ![j] = "failed"] ELSE UNCHANGED job
  /\ UNCHANGED <<sibling, site, rain, table>>

\* a failed primary call fails the job, and takes the sibling's task with it
PrimaryEnds(j, c) ==
  /\ primary' = [primary EXCEPT ![j] = c]
  /\ IF c.pc \in {"exhausted", "malformed"}
     THEN /\ job' = [job EXCEPT ![j] = "failed"]
          /\ sibling' = [sibling EXCEPT ![j] = Cancelled(@)]
     ELSE UNCHANGED <<job, sibling>>
  /\ UNCHANGED <<site, rain, table>>

PrimaryAttemptFails(j) ==
  /\ primary[j].pc = "trying"
  /\ PrimaryEnds(j, AfterFailure(primary[j]))
  /\ UNCHANGED tmy

PrimaryWakes(j) ==
  /\ primary[j].pc = "sleeping"
  /\ PrimaryEnds(j, Woken(primary[j]))
  /\ UNCHANGED tmy

\* The global provider asks for rain and snow in the same request.
PrimaryAnswers(j, parses, full) ==
  /\ primary[j].pc = "trying"
  /\ full => SourceOf[site[j]] \notin WithSibling
  /\ PrimaryEnds(j, AfterResponse(primary[j], parses))
  /\ tmy' = IF parses THEN [tmy EXCEPT ![j] = [site |-> site[j], full |-> full]]
            ELSE tmy

----------------------------------------------------------------------------
\* what each merge begins and ends with
Merging(j) == job[j] = "fetching" /\ primary[j].pc = "answered"

Merged(j, next) ==
  /\ tmy' = IF sibling[j].pc = "answered"
            THEN [tmy EXCEPT ![j].full = rain[j]] ELSE tmy
  /\ job' = [job EXCEPT ![j] = next]
  /\ UNCHANGED <<site, primary, sibling, rain, table>>

\* mutant of Merge: a failed sibling's exception leaves the merge
MergeRaises(j) ==
  /\ Merging(j) /\ sibling[j].pc \notin Running
  /\ Merged(j, IF sibling[j].pc \in {"idle", "answered"} THEN "storing" ELSE "failed")

\* the sibling's result goes onto the primary's once it is there, and a failed
\* sibling leaves that as it was
Merge(j) ==
  /\ Merging(j) /\ sibling[j].pc \notin Running
  /\ Merged(j, "storing")

\* ON CONFLICT DO UPDATE: the row of a job that missed too is overwritten
Upserted(t) == (table \ Row(t.site)) \cup {t}

Store(j) ==
  /\ job[j] = "storing"
  /\ table' = Upserted(tmy[j])
  /\ job' = [job EXCEPT ![j] = "done"]
  /\ UNCHANGED <<site, primary, sibling, rain, tmy>>

\* a database error fails the job; that of a commit may come after the commit
DatabaseFails(j) ==
  /\ job[j] \in {"lookup", "storing"}
  /\ job' = [job EXCEPT ![j] = "failed"]
  /\ \/ UNCHANGED table
     \/ job[j] = "storing" /\ table' = Upserted(tmy[j])
  /\ UNCHANGED <<site, primary, sibling, rain, tmy>>

\* the job's time is up, or its process is killed: asyncio.run cancels what runs
Killed(j) ==
  /\ job[j] \in {"lookup", "fetching", "storing"}
  /\ job' = [job EXCEPT ![j] = "killed"]
  /\ primary' = [primary EXCEPT ![j] = Cancelled(@)]
  /\ sibling' = [sibling EXCEPT ![j] = Cancelled(@)]
  /\ UNCHANGED <<site, rain, tmy, table>>

SiblingStep(j) ==
  \/ SiblingAttemptFails(j) \/ SiblingWakes(j)
  \/ \E parses, full \in BOOLEAN : SiblingAnswers(j, parses, full)

PrimaryStep(j) ==
  \/ PrimaryAttemptFails(j) \/ PrimaryWakes(j)
  \/ \E parses, full \in BOOLEAN : PrimaryAnswers(j, parses, full)

JobStep(j) == CacheHit(j) \/ CacheMiss(j) \/ Merge(j) \/ Store(j)

TmyNext ==
  \E j \in Job : \/ SiblingStep(j) \/ PrimaryStep(j) \/ JobStep(j)
                 \/ DatabaseFails(j) \/ Killed(j)

TmySpec == TmyInit /\ [][TmyNext]_tmyVars

\* an event loop runs what is ready, an attempt ends within its HTTP timeout
TmyFairness ==
  \A j \in Job : /\ WF_tmyVars(SiblingStep(j)) /\ WF_tmyVars(PrimaryStep(j))
                 /\ WF_tmyVars(JobStep(j))

----------------------------------------------------------------------------
Over == {"done", "failed", "killed"}

\* The type invariant; a key has one row.
TmyTypeOK ==
  /\ job \in [Job -> {"absent", "lookup", "fetching", "storing"} \cup Over]
  /\ site \in [Job -> Site \cup {None}]
  /\ \A j \in Job : site[j] = None => job[j] = "absent"
  /\ primary \in [Job -> Call] /\ sibling \in [Job -> Call]
  /\ rain \in [Job -> BOOLEAN]
  /\ tmy \in [Job -> Tmy \cup {None}]
  /\ table \subseteq Tmy
  /\ \A t, u \in table : KeyOf(t.site) = KeyOf(u.site) => t = u

\* A job that is done has the weather of its own bucket from the provider of its
\* own coordinates, whichever job fetched it: on the border of two providers one
\* bucket holds sites of both.
TmyIsOfItsSite ==
  \A j \in Job : job[j] = "done" =>
    /\ tmy[j] # None
    /\ BucketOf[tmy[j].site] = BucketOf[site[j]]
    /\ SourceOf[tmy[j].site] = SourceOf[site[j]]

\* A job that has ended has no call under way ("avoids a pending-task leak").
NoCallOutlivesJob ==
  \A j \in Job : job[j] \in Over =>
    primary[j].pc \notin Running /\ sibling[j].pc \notin Running

\* Weather is stored without rain and snow only when the sibling's fetch is over
\* and did not bring them: a primary that is faster does not lose them.
RainIsNotDropped ==
  \A j \in Job :
    job[j] = "storing" /\ SourceOf[site[j]] \in WithSibling =>
      (tmy[j].full <=> sibling[j].pc = "answered" /\ rain[j])

\* What a job leaves is its own and whole: the weather of its site, with all
\* that its sibling brought, and no call still running.
JobsEndWhole == TmyIsOfItsSite /\ NoCallOutlivesJob /\ RainIsNotDropped

\* Every job that fetches ends, whatever the two upstreams do; and when its
\* primary call has been answered, a failing sibling does not keep it from being
\* stored ("A sibling failure must not break the primary fetch").
EveryJobEnds ==
  \A j \in Job :
    /\ job[j] = "fetching" ~> job[j] \in Over
    /\ job[j] = "fetching" /\ primary[j].pc = "answered"
         ~> job[j] \in {"storing", "killed"}
=============================================================================
