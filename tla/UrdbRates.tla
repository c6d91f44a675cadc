------------------------------ MODULE UrdbRates ------------------------------
(***************************************************************************)
(* UrdbApiProvider.fetch: requests of one process that want the tariff of  *)
(* a query, over the provider's LRU cache with a time to live, the breaker *)
(* of the "urdb" service they all share, and the seed they fall back to.   *)
(* They are coroutines of one event loop: what a fetch does between two    *)
(* awaits is one step.                                                     *)
(***************************************************************************)
EXTENDS Retry, Sequences, SequencesExt

CONSTANTS
  Fetcher,    \* the requests; each may fetch again and again
  Query,      \* cache keys: (country, utility, zip_code)
  TTL,        \* cache_ttl, in ticks
  MaxEntries  \* cache_max_entries

ASSUME RatesAssumption ==
  TTL \in Nat \ {0} /\ MaxEntries \in Nat \ {0} /\ None \notin Query

VARIABLES
  hasKey,   \* whether the provider was given an api_key
  call,     \* the GET each fetcher is in
  wanted,   \* the query it is for, or None
  askedFor, \* how long ago its fetch read the clock, no more than TTL
  cache,    \* the OrderedDict, the least recently used entry first
  urdb      \* the breaker

ratesVars == <<hasKey, call, wanted, askedFor, cache, urdb>>

\* age: time since the entry's fetched_at; readAge: time since the upstream
\* answered with it, which the code does not know; neither runs past TTL
Entry == [query : Query, age : 0..TTL, readAge : 0..TTL]

RatesInit ==
  /\ hasKey \in BOOLEAN
  /\ call = [f \in Fetcher |-> NoCall]
  /\ wanted = [f \in Fetcher |-> None]
  /\ askedFor = [f \in Fetcher |-> 0]
  /\ cache = << >>
  /\ urdb = Closed

----------------------------------------------------------------------------
\* where the entry of q is, if there is one
At(q) == {i \in 1..Len(cache) : cache[i].query = q}

Others(q) ==
  IF At(q) = {} THEN cache ELSE RemoveAt(cache, CHOOSE i \in At(q) : TRUE)

Fresh(e) == e.age < TTL

\* mutant of Used: every use renews the entry
UsedRestamped(e) == Append(Others(e.query), [e EXCEPT !.age = 0])

\* the entry of e's query becomes e, and the most recently used
Used(e) == Append(Others(e.query), e)

\* mutant of Evicted: no limit
EvictedNever(s) == s

\* popitem(last=False) until the cache is within its limit
Evicted(s) ==
  IF Len(s) > MaxEntries THEN SubSeq(s, Len(s) - MaxEntries + 1, Len(s)) ELSE s

\* without a key fetch answers with the seed at once, and no action is taken
Hit(f, q) ==
  /\ hasKey /\ call[f].pc = "idle"
  /\ \E i \in At(q) : Fresh(cache[i]) /\ cache' = Used(cache[i])
  /\ UNCHANGED <<hasKey, call, wanted, askedFor, urdb>>

\* mutant of Ask: a refusal is counted as a failure
AskRefusalCounts(f, q) ==
  /\ hasKey /\ call[f].pc = "idle"
  /\ \A i \in At(q) : ~Fresh(cache[i])
  /\ call' = [call EXCEPT ![f] = Begun(urdb)]
  /\ wanted' = [wanted EXCEPT ![f] = q]
  /\ askedFor' = [askedFor EXCEPT ![f] = 0]
  /\ urdb' = IF BeforeCall(urdb) THEN urdb ELSE RecordFailure(urdb)
  /\ UNCHANGED <<hasKey, cache>>

\* a call the open breaker refuses is answered with the seed, and leaves nothing
Ask(f, q) ==
  /\ hasKey /\ call[f].pc = "idle"
  /\ \A i \in At(q) : ~Fresh(cache[i])
  /\ call' = [call EXCEPT ![f] = Begun(urdb)]
  /\ wanted' = [wanted EXCEPT ![f] = q]
  /\ askedFor' = [askedFor EXCEPT ![f] = 0]
  /\ UNCHANGED <<hasKey, cache, urdb>>

AttemptFails(f) ==
  /\ call[f].pc = "trying"
  /\ call' = [call EXCEPT ![f] = AfterFailure(@)]
  /\ urdb' = RecordFailure(urdb)
  /\ UNCHANGED <<hasKey, wanted, askedFor, cache>>

Wake(f) ==
  /\ call[f].pc = "sleeping"
  /\ call' = [call EXCEPT ![f] = Woken(@)]
  /\ UNCHANGED <<hasKey, wanted, askedFor, cache, urdb>>

\* an answer that parses is stored, stamped with the time of the question
Stamped(f) == [query |-> wanted[f], age |-> askedFor[f], readAge |-> 0]

AttemptAnswers(f, parses) ==
  /\ call[f].pc = "trying"
  /\ call' = [call EXCEPT ![f] = AfterResponse(@, parses)]
  /\ urdb' = RecordSuccess(urdb)
  /\ cache' = IF parses THEN Evicted(Used(Stamped(f))) ELSE cache
  /\ UNCHANGED <<hasKey, wanted, askedFor>>

\* with the schedule, or with the seed's, or with an exception of the parser's that
\* the except clause does not name (UrdbParse)
FetchReturns(f) ==
  /\ call[f].pc \in Ended
  /\ call' = [call EXCEPT ![f] = NoCall]
  /\ wanted' = [wanted EXCEPT ![f] = None]
  /\ askedFor' = [askedFor EXCEPT ![f] = 0]
  /\ UNCHANGED <<hasKey, cache, urdb>>

AtMost(n, limit) == IF n < limit THEN n ELSE limit

Tick ==
  /\ askedFor' = [f \in Fetcher |->
                    IF call[f].pc = "idle" THEN 0 ELSE AtMost(askedFor[f] + 1, TTL)]
  /\ cache' = [i \in 1..Len(cache) |->
                 [cache[i] EXCEPT !.age = AtMost(@ + 1, TTL),
                                  !.readAge = AtMost(@ + 1, TTL)]]
  /\ urdb' = OlderBreaker(urdb)
  /\ UNCHANGED <<hasKey, call, wanted>>

RatesStep(f) ==
  \/ AttemptFails(f) \/ Wake(f) \/ FetchReturns(f)
  \/ \E parses \in BOOLEAN : AttemptAnswers(f, parses)

RatesNext ==
  \/ \E f \in Fetcher : RatesStep(f) \/ \E q \in Query : Hit(f, q) \/ Ask(f, q)
  \/ Tick

RatesSpec == RatesInit /\ [][RatesNext]_ratesVars

\* an attempt ends within its HTTP timeout, a sleep is bounded, the clock runs
RatesFairness ==
  /\ \A f \in Fetcher : WF_ratesVars(RatesStep(f))
  /\ WF_ratesVars(Tick)

----------------------------------------------------------------------------
\* The type invariant; the OrderedDict has one entry per key, and its limit.
RatesTypeOK ==
  /\ hasKey \in BOOLEAN
  /\ call \in [Fetcher -> Call]
  /\ wanted \in [Fetcher -> Query \cup {None}]
  /\ \A f \in Fetcher : call[f].pc = "idle" <=> wanted[f] = None
  /\ askedFor \in [Fetcher -> 0..TTL]
  /\ cache \in Seq(Entry) /\ Len(cache) <= MaxEntries
  /\ \A i, j \in 1..Len(cache) : cache[i].query = cache[j].query => i = j
  /\ urdb \in Breaker

\* The breaker is open exactly while the last Threshold attempts of all the
\* fetches have failed, though calls that began before it opened go on trying,
\* and end, after it has.
OpenIffThreshold == (urdb.openFor # None) <=> (urdb.failures = Threshold)

\* An entry never claims to be fresher than the upstream's answer: as a fetch
\* takes its stamp before it awaits, and a hit does not renew it, no rate is
\* served that was read TTL ago or earlier.
StampIsHonest == \A i \in 1..Len(cache) : cache[i].readAge <= cache[i].age

\* A breaker that refuses calls lets one through again, with nobody to reset it
\* and though every attempt may fail: the calls begun before it opened renew the
\* cooldown each time they fail, but each has only so many attempts, and the calls
\* it refuses, however often they are made, do not count.
BreakerProbes == ~BeforeCall(urdb) ~> BeforeCall(urdb)
=============================================================================
