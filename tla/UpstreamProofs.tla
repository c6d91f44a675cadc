--------------------------- MODULE UpstreamProofs ---------------------------
(***************************************************************************)
(* Proofs about Upstream: the cache and the breaker of the tariffs, the    *)
(* jobs and the table of the weather.  Each side has an inductive          *)
(* invariant of its own, which the steps of the other leave alone.         *)
(***************************************************************************)
EXTENDS Upstream, SequenceTheorems, TLAPS

----------------------------------------------------------------------------
\* the retry loop

\* A call that sleeps has an attempt left.
CallOK(c) == c \in Call /\ (c.pc = "sleeping" => c.attempt < MaxAttempts)

\* What the operators on calls yield.
LEMMA CallSteps ==
  ASSUME NEW c, CallOK(c), NEW b \in Breaker, NEW parses \in BOOLEAN
  PROVE  /\ CallOK(NoCall) /\ NoCall.pc = "idle"
         /\ CallOK(Begun(b)) /\ Begun(b).pc \in {"trying", "refused"}
         /\ Begun(Closed).pc = "trying"
         /\ CallOK(AfterFailure(c)) /\ AfterFailure(c).pc \in {"exhausted", "sleeping"}
         /\ c.pc = "sleeping" => CallOK(Woken(c)) /\ Woken(c).pc = "trying"
         /\ CallOK(AfterResponse(c, parses))
         /\ AfterResponse(c, parses).pc = IF parses THEN "answered" ELSE "malformed"
         /\ CallOK(Cancelled(c)) /\ Cancelled(c).pc \notin Running
         /\ c.pc \notin Running => Cancelled(c) = c
         /\ Cancelled(c).pc = "answered" => c.pc = "answered"
<1>1. MaxAttempts \in Nat \ {0} /\ None \notin Nat
  BY RetryAssumption
<1>2. c.pc \in {"idle"} \cup Running \cup Ended /\ c.attempt \in 1..MaxAttempts
  BY DEF CallOK, Call
<1>3. QED
  BY <1>1, <1>2, Zenon, SMT
  DEF CallOK, Call, NoCall, Begun, BeforeCall, Closed, AfterFailure, Woken,
      AfterResponse, Cancelled, Running, Ended

\* The breaker keeps its type, and is open exactly at the threshold.
BreakerOK(b) == b \in Breaker /\ ((b.openFor # None) <=> (b.failures = Threshold))

LEMMA BreakerSteps ==
  ASSUME NEW b, BreakerOK(b)
  PROVE  /\ BreakerOK(Closed) /\ BreakerOK(RecordSuccess(b))
         /\ BreakerOK(RecordFailure(b)) /\ BreakerOK(OlderBreaker(b))
<1>1. Threshold \in Nat \ {0} /\ Cooldown \in Nat /\ None \notin Nat
  BY RetryAssumption
<1>2. /\ b.failures \in 0..Threshold /\ b.openFor \in 0..Cooldown \cup {None}
      /\ (b.openFor # None) <=> (b.failures = Threshold)
  BY DEF BreakerOK, Breaker
<1>3. BreakerOK(Closed)
  BY <1>1 DEF BreakerOK, Breaker, Closed
<1>4. BreakerOK(RecordFailure(b))
  BY <1>1, <1>2 DEF BreakerOK, Breaker, RecordFailure
<1>5. BreakerOK(OlderBreaker(b))
  BY <1>1, <1>2 DEF BreakerOK, Breaker, OlderBreaker
<1>6. QED
  BY <1>3, <1>4, <1>5 DEF RecordSuccess

----------------------------------------------------------------------------
\* the cache of the tariffs

\* A cache: no key twice, and no entry that claims to be fresher than it is.
CacheOK(s) ==
  /\ s \in Seq(Entry)
  /\ \A i, j \in 1..Len(s) : s[i].query = s[j].query => i = j
  /\ \A i \in 1..Len(s) : s[i].readAge <= s[i].age

\* Without position i, a sequence is one shorter and closes up.
LEMMA Removal ==
  ASSUME NEW S, NEW s \in Seq(S), NEW i \in 1..Len(s)
  PROVE  /\ RemoveAt(s, i) \in Seq(S) /\ Len(RemoveAt(s, i)) = Len(s) - 1
         /\ \A k \in 1..(Len(s) - 1) :
              RemoveAt(s, i)[k] = IF k < i THEN s[k] ELSE s[k + 1]
<1> DEFINE l == SubSeq(s, 1, i - 1)
           r == SubSeq(s, i + 1, Len(s))
<1>1. /\ l \in Seq(S) /\ Len(l) = i - 1 /\ \A k \in 1..(i - 1) : l[k] = s[k]
  BY SubSeqProperties
<1>2. /\ r \in Seq(S) /\ Len(r) = Len(s) - i
      /\ \A k \in 1..(Len(s) - i) : r[k] = s[i + k]
  BY SubSeqProperties
<1>0. RemoveAt(s, i) = l \o r
  BY DEF RemoveAt
<1> HIDE DEF l, r
<1>3. /\ l \o r \in Seq(S) /\ Len(l \o r) = Len(l) + Len(r)
      /\ \A k \in 1..(Len(l) + Len(r)) :
           (l \o r)[k] = IF k <= Len(l) THEN l[k] ELSE r[k - Len(l)]
  BY <1>1, <1>2, ConcatProperties
<1>4. ASSUME NEW k \in 1..(Len(s) - 1)
      PROVE  (l \o r)[k] = IF k < i THEN s[k] ELSE s[k + 1]
  <2>1. CASE k < i
    BY <1>1, <1>2, <1>3, <2>1
  <2>2. CASE ~ k < i
    <3>1. k - (i - 1) \in 1..(Len(s) - i) /\ i + (k - (i - 1)) = k + 1
      BY <2>2
    <3>2. r[k - (i - 1)] = s[k + 1]
      BY <1>2, <3>1
    <3>3. QED
      BY <1>1, <1>2, <1>3, <2>2, <3>2
  <2>3. QED
    BY <2>1, <2>2
<1>5. Len(l \o r) = Len(s) - 1
  BY <1>1, <1>2, <1>3
<1>6. QED
  BY <1>0, <1>3, <1>4, <1>5

\* What is left of a cache without the entry of q.
LEMMA OthersOK ==
  ASSUME CacheOK(cache), NEW q
  PROVE  /\ CacheOK(Others(q)) /\ Len(Others(q)) <= Len(cache)
         /\ \A i \in 1..Len(Others(q)) : Others(q)[i].query # q
<1>1. CASE At(q) = {}
  BY <1>1 DEF Others, At, CacheOK
<1>2. CASE At(q) # {}
  <2> DEFINE p == CHOOSE i \in At(q) : TRUE
             o == RemoveAt(cache, p)
  <2>1. p \in 1..Len(cache) /\ cache[p].query = q /\ Others(q) = o
    BY <1>2 DEF At, Others
  <2> HIDE DEF p
  <2>2. /\ o \in Seq(Entry) /\ Len(o) = Len(cache) - 1
        /\ \A k \in 1..(Len(cache) - 1) :
             o[k] = IF k < p THEN cache[k] ELSE cache[k + 1]
    BY <2>1, Removal DEF CacheOK
  <2> HIDE DEF o
  <2>3. ASSUME NEW i \in 1..Len(o), NEW j \in 1..Len(o), o[i].query = o[j].query
        PROVE  i = j
    <3> DEFINE f(k) == IF k < p THEN k ELSE k + 1
    <3>1. /\ f(i) \in 1..Len(cache) /\ f(j) \in 1..Len(cache)
          /\ o[i] = cache[f(i)] /\ o[j] = cache[f(j)]
      BY <2>1, <2>2
    <3>2. f(i) = f(j)
      BY <2>3, <3>1 DEF CacheOK
    <3>3. QED
      BY <2>1, <2>2, <3>2
  <2>4. ASSUME NEW i \in 1..Len(o)
        PROVE  o[i].readAge <= o[i].age /\ o[i].query # q
    <3> DEFINE g == IF i < p THEN i ELSE i + 1
    <3>1. g \in 1..Len(cache) /\ g # p /\ o[i] = cache[g]
      BY <2>1, <2>2
    <3>2. QED
      BY <2>1, <3>1 DEF CacheOK
  <2>5. QED
    BY <2>1, <2>2, <2>3, <2>4 DEF CacheOK
<1>3. QED
  BY <1>1, <1>2

\* Using an entry, or storing one, keeps a cache a cache.
LEMMA UsedOK ==
  ASSUME CacheOK(cache), NEW e \in Entry, e.readAge <= e.age
  PROVE  CacheOK(Used(e)) /\ Len(Used(e)) <= Len(cache) + 1
<1> DEFINE o == Others(e.query)
<1>1. /\ CacheOK(o) /\ Len(o) <= Len(cache)
      /\ \A i \in 1..Len(o) : o[i].query # e.query
  BY OthersOK
<1> HIDE DEF o
<1>2. o \in Seq(Entry)
  BY <1>1 DEF CacheOK
<1>3. /\ Append(o, e) \in Seq(Entry) /\ Len(Append(o, e)) = Len(o) + 1
      /\ \A i \in 1..Len(o) : Append(o, e)[i] = o[i]
      /\ Append(o, e)[Len(o) + 1] = e
  BY <1>2
<1>4. QED
  BY <1>1, <1>2, <1>3 DEF CacheOK, Used, o

\* An entry that is used is still in the cache once, so that a hit evicts none.
LEMMA HitLength ==
  ASSUME CacheOK(cache), NEW q, NEW i \in At(q)
  PROVE  Len(Used(cache[i])) = Len(cache)
<1>1. cache \in Seq(Entry) /\ cache[i].query = q /\ i \in 1..Len(cache)
  BY DEF CacheOK, At
<1> DEFINE p == CHOOSE k \in At(q) : TRUE
<1>2. p \in 1..Len(cache) /\ Others(q) = RemoveAt(cache, p)
  BY DEF At, Others
<1> HIDE DEF p
<1>3. Others(q) \in Seq(Entry) /\ Len(Others(q)) = Len(cache) - 1
  BY <1>1, <1>2, Removal
<1>4. QED
  BY <1>1, <1>3 DEF Used

\* Eviction keeps a cache a cache, within its limit.
LEMMA EvictedOK ==
  ASSUME NEW s, CacheOK(s)
  PROVE  CacheOK(Evicted(s)) /\ Len(Evicted(s)) <= MaxEntries
<1>1. MaxEntries \in Nat \ {0} /\ s \in Seq(Entry)
  BY RatesAssumption DEF CacheOK
<1>2. CASE Len(s) <= MaxEntries
  BY <1>1, <1>2 DEF Evicted
<1>3. CASE Len(s) > MaxEntries
  <2> DEFINE m == Len(s) - MaxEntries + 1
             o == SubSeq(s, m, Len(s))
  <2>1. m \in 1..Len(s) /\ Len(s) \in 1..Len(s) /\ m <= Len(s)
    BY <1>1, <1>3
  <2>2. /\ o \in Seq(Entry) /\ Len(o) = MaxEntries
        /\ \A i \in 1..MaxEntries : o[i] = s[m + i - 1] /\ m + i - 1 \in 1..Len(s)
    BY <1>1, <2>1, SubSeqProperties
  <2>3. Evicted(s) = o
    BY <1>1, <1>3 DEF Evicted
  <2> HIDE DEF o
  <2>4. ASSUME NEW i \in 1..Len(o), NEW j \in 1..Len(o), o[i].query = o[j].query
        PROVE  i = j
    <3>1. /\ i \in 1..MaxEntries /\ j \in 1..MaxEntries
          /\ s[m + i - 1].query = s[m + j - 1].query
      BY <2>2, <2>4
    <3>2. m + i - 1 = m + j - 1
      BY <2>2, <3>1 DEF CacheOK
    <3>3. QED
      BY <1>1, <2>1, <3>1, <3>2
  <2>5. \A i \in 1..Len(o) : o[i].readAge <= o[i].age
    BY <2>2 DEF CacheOK
  <2>6. QED
    BY <1>1, <2>2, <2>3, <2>4, <2>5 DEF CacheOK
<1>4. QED
  BY <1>1, <1>2, <1>3
----------------------------------------------------------------------------
\* the tariffs

RatesInv ==
  /\ hasKey \in BOOLEAN
  /\ call \in [Fetcher -> Call] /\ \A f \in Fetcher : CallOK(call[f])
  /\ wanted \in [Fetcher -> Query \cup {None}]
  /\ \A f \in Fetcher : call[f].pc = "idle" <=> wanted[f] = None
  /\ askedFor \in [Fetcher -> 0..TTL]
  /\ CacheOK(cache) /\ Len(cache) <= MaxEntries
  /\ BreakerOK(urdb)

LEMMA RatesInvInit == RatesInit => RatesInv
<1>1. TTL \in Nat \ {0} /\ MaxEntries \in Nat \ {0} /\ None \notin Query
  BY RatesAssumption
<1>2. CallOK(NoCall) /\ NoCall \in Call /\ NoCall.pc = "idle"
  BY RetryAssumption DEF CallOK, Call, NoCall
<1>3. BreakerOK(Closed)
  BY RetryAssumption DEF BreakerOK, Breaker, Closed
<1>4. CacheOK(<< >>) /\ Len(<< >>) = 0
  BY DEF CacheOK
<1>5. QED
  BY <1>1, <1>2, <1>3, <1>4 DEF RatesInit, RatesInv

LEMMA RatesInvNext == RatesInv /\ [RatesNext]_ratesVars => RatesInv'
<1> SUFFICES ASSUME RatesInv, [RatesNext]_ratesVars PROVE RatesInv'
  OBVIOUS
<1>a. TTL \in Nat \ {0} /\ MaxEntries \in Nat \ {0} /\ None \notin Query
  BY RatesAssumption
<1>b. CacheOK(cache) /\ BreakerOK(urdb) /\ urdb \in Breaker
  BY DEF RatesInv, BreakerOK
<1>c. ASSUME NEW c, CallOK(c) PROVE c \in Call
  BY <1>c DEF CallOK
<1>1. ASSUME NEW f \in Fetcher, NEW q \in Query, Hit(f, q) PROVE RatesInv'
  <2>1. PICK i \in At(q) : Fresh(cache[i]) /\ cache' = Used(cache[i])
    BY <1>1 DEF Hit
  <2>2. cache[i] \in Entry /\ cache[i].readAge <= cache[i].age
    BY <1>b DEF CacheOK, At
  <2>3. CacheOK(cache') /\ Len(cache') = Len(cache)
    BY <1>b, <2>1, <2>2, UsedOK, HitLength
  <2>4. QED
    BY <1>1, <2>3 DEF RatesInv, Hit, BreakerOK, CallOK
<1>2. ASSUME NEW f \in Fetcher, NEW q \in Query, Ask(f, q) PROVE RatesInv'
  <2>1. CallOK(call[f]) /\ CallOK(Begun(urdb)) /\ Begun(urdb).pc # "idle"
    BY <1>b, CallSteps DEF RatesInv
  <2>2. QED
    BY <1>2, <1>a, <1>c, <2>1 DEF RatesInv, Ask
<1>3. ASSUME NEW f \in Fetcher, AttemptFails(f) PROVE RatesInv'
  <2>1. CallOK(AfterFailure(call[f])) /\ AfterFailure(call[f]).pc # "idle"
    BY <1>b, CallSteps DEF RatesInv
  <2>2. BreakerOK(urdb')
    BY <1>3, <1>b, BreakerSteps DEF AttemptFails
  <2>3. QED
    BY <1>3, <1>c, <2>1, <2>2 DEF RatesInv, AttemptFails, CacheOK
<1>4. ASSUME NEW f \in Fetcher, Wake(f) PROVE RatesInv'
  <2>1. CallOK(Woken(call[f])) /\ Woken(call[f]).pc # "idle"
    BY <1>4, <1>b, CallSteps DEF RatesInv, Wake
  <2>2. QED
    BY <1>4, <1>c, <2>1 DEF RatesInv, Wake, CacheOK, BreakerOK
<1>5. ASSUME NEW f \in Fetcher, NEW parses \in BOOLEAN, AttemptAnswers(f, parses)
      PROVE  RatesInv'
  <2>0. CallOK(call[f])
    BY DEF RatesInv
  <2>1. /\ CallOK(AfterResponse(call[f], parses))
        /\ AfterResponse(call[f], parses).pc # "idle"
    <3>1. /\ CallOK(AfterResponse(call[f], parses))
          /\ AfterResponse(call[f], parses).pc = IF parses THEN "answered" ELSE "malformed"
      BY <1>b, <2>0, CallSteps
    <3>2. QED
      BY <3>1
  <2>2. BreakerOK(urdb')
    BY <1>5, <1>b, BreakerSteps DEF AttemptAnswers
  <2>3. Stamped(f) \in Entry /\ Stamped(f).readAge <= Stamped(f).age
    BY <1>5, <1>a DEF RatesInv, AttemptAnswers, Stamped, Entry
  <2>4. CacheOK(cache') /\ Len(cache') <= MaxEntries
    BY <1>5, <1>b, <2>3, UsedOK, EvictedOK DEF RatesInv, AttemptAnswers
  <2>5. QED
    BY <1>5, <1>c, <2>1, <2>2, <2>4 DEF RatesInv, AttemptAnswers
<1>6. ASSUME NEW f \in Fetcher, FetchReturns(f) PROVE RatesInv'
  <2>1. CallOK(NoCall) /\ NoCall.pc = "idle"
    BY <1>b, CallSteps DEF RatesInv
  <2>2. QED
    BY <1>6, <1>a, <1>c, <2>1 DEF RatesInv, FetchReturns, CacheOK, BreakerOK
<1>7. ASSUME Tick PROVE RatesInv'
  <2>1. \A n \in 0..TTL : AtMost(n + 1, TTL) \in 0..TTL
    BY <1>a DEF AtMost
  <2>2. \A m, n \in 0..TTL : m <= n => AtMost(m + 1, TTL) <= AtMost(n + 1, TTL)
    BY <1>a DEF AtMost
  <2>3. askedFor' \in [Fetcher -> 0..TTL]
    <3>1. /\ askedFor \in [Fetcher -> 0..TTL] /\ 0 \in 0..TTL
          /\ askedFor' = [f \in Fetcher |-> IF call[f].pc = "idle" THEN 0
                                           ELSE AtMost(askedFor[f] + 1, TTL)]
      <4>1. askedFor' = [f \in Fetcher |-> IF call[f].pc = "idle" THEN 0
                                           ELSE AtMost(askedFor[f] + 1, TTL)]
        BY <1>7, Zenon DEF Tick
      <4>2. QED
        BY <1>a, <4>1 DEF RatesInv
    <3>2. QED
      BY <2>1, <3>1
  <2>4. BreakerOK(urdb')
    BY <1>7, <1>b, BreakerSteps DEF Tick
  <2>5. cache' \in Seq(Entry) /\ Len(cache') = Len(cache)
        /\ \A i \in 1..Len(cache) :
             /\ cache'[i].query = cache[i].query
             /\ cache'[i].readAge = AtMost(cache[i].readAge + 1, TTL)
             /\ cache'[i].age = AtMost(cache[i].age + 1, TTL)
    <3> DEFINE e(i) == [cache[i] EXCEPT !.age = AtMost(@ + 1, TTL),
                                        !.readAge = AtMost(@ + 1, TTL)]
    <3>0. cache' = [i \in 1..Len(cache) |-> e(i)]
      BY <1>7, Zenon DEF Tick
    <3>1. cache' = [i \in 1..Len(cache) |-> e(i)] /\ Len(cache) \in Nat
      <4> HIDE DEF e
      <4>1. QED
        BY <3>0, <1>b DEF CacheOK
    <3>2. ASSUME NEW i \in 1..Len(cache)
          PROVE  /\ e(i) \in Entry /\ e(i).query = cache[i].query
                 /\ e(i).readAge = AtMost(cache[i].readAge + 1, TTL)
                 /\ e(i).age = AtMost(cache[i].age + 1, TTL)
      <4>1. cache[i] \in Entry
        BY <1>b DEF CacheOK
      <4>2. QED
        BY <4>1, <2>1 DEF Entry
    <3> HIDE DEF e
    <3>3. QED
      BY <3>1, <3>2
  <2>6. \A i \in 1..Len(cache) : cache[i].readAge \in 0..TTL /\ cache[i].age \in 0..TTL
    <3>1. \A i \in 1..Len(cache) : cache[i] \in Entry
      BY <1>b DEF CacheOK
    <3>2. QED
      BY <3>1 DEF Entry
  <2>7. CacheOK(cache')
    <3>1. ASSUME NEW i \in 1..Len(cache), NEW j \in 1..Len(cache),
                 cache'[i].query = cache'[j].query
          PROVE  i = j
      BY <1>b, <2>5, <3>1 DEF CacheOK
    <3>2. ASSUME NEW i \in 1..Len(cache)
          PROVE  cache'[i].readAge <= cache'[i].age
      <4>1. cache[i].readAge <= cache[i].age
        BY <1>b DEF CacheOK
      <4>2. QED
        BY <2>2, <2>5, <2>6, <4>1
    <3>3. QED
      BY <2>5, <3>1, <3>2 DEF CacheOK
  <2>8. QED
    BY <1>7, <2>3, <2>4, <2>5, <2>7 DEF Tick, RatesInv
<1>8. CASE UNCHANGED ratesVars
  BY <1>8 DEF ratesVars, RatesInv, CacheOK, BreakerOK
<1>9. QED
  BY <1>1, <1>2, <1>3, <1>4, <1>5, <1>6, <1>7, <1>8 DEF RatesNext, RatesStep

LEMMA RatesInvImplies == RatesInv => RatesTypeOK /\ OpenIffThreshold /\ StampIsHonest
BY DEF RatesInv, RatesTypeOK, OpenIffThreshold, StampIsHonest, CacheOK, BreakerOK

LEMMA RatesInvariant == Spec => []RatesInv
<1>1. Init => RatesInv
  BY RatesInvInit DEF Init
<1>2. RatesInv /\ [Next]_vars => RatesInv'
  <2>1. [Next]_vars => [RatesNext]_ratesVars
    BY DEF Next, vars
  <2>2. QED
    BY <2>1, RatesInvNext
<1>3. QED
  BY <1>1, <1>2, PTL DEF Spec

\* The breaker of a service is open exactly while its last Threshold attempts
\* have failed, for any number of calls that share it (CircuitBreaker).
THEOREM BreakerIsSound == Spec => []OpenIffThreshold
<1>1. RatesInv => OpenIffThreshold
  BY RatesInvImplies
<1>2. QED
  BY <1>1, RatesInvariant, PTL

\* No cached tariff claims to be fresher than the answer it came from, so that
\* none is served TTL or longer after it was read (UrdbApiProvider.fetch).
THEOREM StampsAreHonest == Spec => []StampIsHonest
<1>1. RatesInv => StampIsHonest
  BY RatesInvImplies
<1>2. QED
  BY <1>1, RatesInvariant, PTL
----------------------------------------------------------------------------
\* the weather

\* What each job may rely on: its calls run only while it fetches, the primary's
\* answer is of its own site, and is stored after the sibling's has ended.
JobOK(j) ==
  /\ CallOK(primary[j]) /\ CallOK(sibling[j])
  /\ primary[j].pc \in Running \/ sibling[j].pc \in Running => job[j] = "fetching"
  /\ job[j] = "fetching" /\ primary[j].pc = "answered" =>
       /\ tmy[j] \in Tmy /\ tmy[j].site = site[j]
       /\ tmy[j].full => SourceOf[site[j]] \notin WithSibling
  /\ job[j] = "storing" =>
       /\ tmy[j] \in Tmy /\ tmy[j].site = site[j]
       /\ SourceOf[site[j]] \in WithSibling =>
            (tmy[j].full <=> sibling[j].pc = "answered" /\ rain[j])
  /\ job[j] = "done" => /\ tmy[j] # None
                        /\ BucketOf[tmy[j].site] = BucketOf[site[j]]
                        /\ SourceOf[tmy[j].site] = SourceOf[site[j]]

TmyInv == TmyTypeOK /\ \A j \in Job : JobOK(j)

LEMMA CallOKType == ASSUME NEW c, CallOK(c) PROVE c \in Call
BY DEF CallOK

\* An upsert leaves one row for each key.
LEMMA UpsertedOK ==
  ASSUME TmyTypeOK, NEW t \in Tmy
  PROVE  /\ Upserted(t) \subseteq Tmy
         /\ \A u, v \in Upserted(t) : KeyOf(u.site) = KeyOf(v.site) => u = v
<1>1. table \subseteq Tmy /\ \A u, v \in table : KeyOf(u.site) = KeyOf(v.site) => u = v
  BY DEF TmyTypeOK
<1>2. QED
  BY <1>1 DEF Upserted, Row

LEMMA TmyInvInit == TmyInit => TmyInv
<1> SUFFICES ASSUME TmyInit PROVE TmyInv
  OBVIOUS
<1>1. CallOK(NoCall) /\ NoCall \in Call /\ NoCall.pc = "idle"
  BY RetryAssumption DEF CallOK, Call, NoCall
<1>2. TmyTypeOK
  BY <1>1 DEF TmyInit, TmyTypeOK
<1>3. ASSUME NEW j \in Job PROVE JobOK(j)
  BY <1>1 DEF TmyInit, JobOK, Running
<1>4. QED
  BY <1>2, <1>3 DEF TmyInv

\* A job whose own state has not changed is as it was.
LEMMA OtherJob ==
  ASSUME NEW i, JobOK(i),
         job'[i] = job[i], site'[i] = site[i], primary'[i] = primary[i],
         sibling'[i] = sibling[i], rain'[i] = rain[i], tmy'[i] = tmy[i]
  PROVE  JobOK(i)'
BY DEF JobOK

LEMMA TmyTypeNext == TmyInv /\ [TmyNext]_tmyVars => TmyTypeOK'
<1> SUFFICES ASSUME TmyInv, [TmyNext]_tmyVars PROVE TmyTypeOK'
  OBVIOUS
<1>a. TmyTypeOK /\ Closed \in Breaker
  BY RetryAssumption DEF TmyInv, Breaker, Closed
<1>b. ASSUME NEW j \in Job
      PROVE  /\ Begun(Closed) \in Call
             /\ Cancelled(primary[j]) \in Call /\ Cancelled(sibling[j]) \in Call
             /\ AfterFailure(primary[j]) \in Call /\ AfterFailure(sibling[j]) \in Call
             /\ primary[j].pc = "sleeping" => Woken(primary[j]) \in Call
             /\ sibling[j].pc = "sleeping" => Woken(sibling[j]) \in Call
             /\ \A p \in BOOLEAN : /\ AfterResponse(primary[j], p) \in Call
                                   /\ AfterResponse(sibling[j], p) \in Call
  <2>1. CallOK(primary[j]) /\ CallOK(sibling[j])
    BY DEF TmyInv, JobOK
  <2>2. QED
    BY <1>a, <2>1, CallSteps, CallOKType
<1>1. ASSUME NEW j \in Job, SiblingAttemptFails(j) \/ SiblingWakes(j) PROVE TmyTypeOK'
  BY <1>1, <1>a, <1>b DEF TmyTypeOK, SiblingAttemptFails, SiblingWakes, KeyOf
<1>2. ASSUME NEW j \in Job, NEW p \in BOOLEAN, NEW full \in BOOLEAN,
             SiblingAnswers(j, p, full)
      PROVE  TmyTypeOK'
  BY <1>2, <1>a, <1>b DEF TmyTypeOK, SiblingAnswers, KeyOf
<1>3. ASSUME NEW j \in Job, NEW c \in Call, PrimaryEnds(j, c), site[j] \in Site,
             tmy' \in [Job -> Tmy \cup {None}]
      PROVE  TmyTypeOK'
  BY <1>3, <1>a, <1>b, TmyAssumption DEF TmyTypeOK, PrimaryEnds, KeyOf, Over
<1>4. ASSUME NEW j \in Job, PrimaryAttemptFails(j) \/ PrimaryWakes(j) PROVE TmyTypeOK'
  <2>1. site[j] \in Site
    BY <1>4, <1>a
    DEF TmyInv, JobOK, TmyTypeOK, PrimaryAttemptFails, PrimaryWakes, Running
  <2>2. tmy' \in [Job -> Tmy \cup {None}]
    BY <1>4, <1>a DEF TmyTypeOK, PrimaryAttemptFails, PrimaryWakes
  <2>3. PICK c \in Call : PrimaryEnds(j, c)
    BY <1>4, <1>b DEF PrimaryAttemptFails, PrimaryWakes
  <2>4. QED
    BY <1>3, <2>1, <2>2, <2>3
<1>5. ASSUME NEW j \in Job, NEW p \in BOOLEAN, NEW full \in BOOLEAN,
             PrimaryAnswers(j, p, full)
      PROVE  TmyTypeOK'
  <2>1. site[j] \in Site
    BY <1>5, <1>a DEF TmyInv, JobOK, TmyTypeOK, PrimaryAnswers, Running
  <2>2. tmy' \in [Job -> Tmy \cup {None}]
    BY <1>5, <1>a, <2>1 DEF TmyTypeOK, PrimaryAnswers, Tmy
  <2>3. QED
    BY <1>5, <1>3, <1>b, <2>1, <2>2 DEF PrimaryAnswers
<1>6. ASSUME NEW j \in Job, CacheHit(j) PROVE TmyTypeOK'
  BY <1>6, <1>a DEF TmyTypeOK, CacheHit, Row, KeyOf, Over
<1>7. ASSUME NEW j \in Job, CacheMiss(j) PROVE TmyTypeOK'
  BY <1>7, <1>a, <1>b DEF TmyTypeOK, CacheMiss, KeyOf, Over
<1>8. ASSUME NEW j \in Job, Merge(j) PROVE TmyTypeOK'
  <2>1. /\ tmy[j] \in Tmy /\ job[j] = "fetching"
    BY <1>8 DEF TmyInv, JobOK, Merge, Merging
  <2>2. tmy' \in [Job -> Tmy \cup {None}]
    BY <1>8, <1>a, <2>1 DEF TmyTypeOK, Merge, Merged, Tmy
  <2>3. QED
    BY <1>8, <1>a, <2>1, <2>2 DEF TmyTypeOK, Merge, Merged, KeyOf
<1>9. ASSUME NEW j \in Job, Store(j) \/ DatabaseFails(j) PROVE TmyTypeOK'
  <2>1. job[j] = "storing" => tmy[j] \in Tmy
    BY DEF TmyInv, JobOK
  <2>2. /\ table' \subseteq Tmy
        /\ \A u, v \in table' : KeyOf(u.site) = KeyOf(v.site) => u = v
    <3>1. CASE UNCHANGED table
      BY <3>1, <1>a DEF TmyTypeOK
    <3>2. CASE job[j] = "storing" /\ table' = Upserted(tmy[j])
      BY <3>2, <1>a, <2>1, UpsertedOK
    <3>3. QED
      BY <1>9, <3>1, <3>2 DEF Store, DatabaseFails
  <2>3. QED
    BY <1>9, <1>a, <2>2 DEF TmyTypeOK, Store, DatabaseFails, KeyOf, Over
<1>10. ASSUME NEW j \in Job, Killed(j) PROVE TmyTypeOK'
  BY <1>10, <1>a, <1>b DEF TmyTypeOK, Killed, KeyOf, Over
<1>11. CASE UNCHANGED tmyVars
  BY <1>11, <1>a DEF tmyVars, TmyTypeOK, KeyOf
<1>12. QED
  BY <1>1, <1>2, <1>4, <1>5, <1>6, <1>7, <1>8, <1>9, <1>10, <1>11
  DEF TmyNext, SiblingStep, PrimaryStep, JobStep
LEMMA TmyJobNext ==
  ASSUME TmyInv, [TmyNext]_tmyVars, NEW i \in Job
  PROVE  JobOK(i)'
<1>a. /\ TmyTypeOK /\ JobOK(i) /\ CallOK(primary[i]) /\ CallOK(sibling[i])
      /\ Closed \in Breaker
  BY RetryAssumption DEF TmyInv, JobOK, Breaker, Closed
<1>b. \* what the operators on calls yield for this job
      /\ CallOK(Begun(Closed)) /\ Begun(Closed).pc = "trying"
      /\ \A c \in {primary[i], sibling[i]} :
           /\ CallOK(AfterFailure(c)) /\ AfterFailure(c).pc \in {"exhausted", "sleeping"}
           /\ c.pc = "sleeping" => CallOK(Woken(c)) /\ Woken(c).pc = "trying"
           /\ CallOK(Cancelled(c)) /\ Cancelled(c).pc \notin Running
           /\ c.pc \notin Running => Cancelled(c) = c
           /\ \A p \in BOOLEAN :
                /\ CallOK(AfterResponse(c, p))
                /\ AfterResponse(c, p).pc = IF p THEN "answered" ELSE "malformed"
  <2>1. ASSUME NEW c \in {primary[i], sibling[i]}, NEW p \in BOOLEAN
        PROVE  /\ CallOK(Begun(Closed)) /\ Begun(Closed).pc = "trying"
               /\ CallOK(AfterFailure(c)) /\ AfterFailure(c).pc \in {"exhausted", "sleeping"}
               /\ c.pc = "sleeping" => CallOK(Woken(c)) /\ Woken(c).pc = "trying"
               /\ CallOK(Cancelled(c)) /\ Cancelled(c).pc \notin Running
               /\ c.pc \notin Running => Cancelled(c) = c
               /\ CallOK(AfterResponse(c, p))
               /\ AfterResponse(c, p).pc = IF p THEN "answered" ELSE "malformed"
    <3>1. CallOK(c)
      BY <1>a
    <3>2. QED
      BY <1>a, <3>1, CallSteps
  <2>2. QED
    BY <2>1
<1>1. ASSUME NEW j \in Job, SiblingAttemptFails(j) \/ SiblingWakes(j) PROVE JobOK(i)'
  <2>1. CASE i = j
    BY <1>1, <1>a, <1>b, <2>1
    DEF TmyTypeOK, JobOK, SiblingAttemptFails, SiblingWakes, Running
  <2>2. CASE i # j
    BY <1>1, <1>a, <2>2, OtherJob DEF TmyTypeOK, SiblingAttemptFails, SiblingWakes
  <2>3. QED
    BY <2>1, <2>2
<1>2. ASSUME NEW j \in Job, NEW p \in BOOLEAN, NEW full \in BOOLEAN,
             SiblingAnswers(j, p, full)
      PROVE  JobOK(i)'
  <2>1. CASE i = j
    BY <1>2, <1>a, <1>b, <2>1 DEF TmyTypeOK, JobOK, SiblingAnswers, Running
  <2>2. CASE i # j
    BY <1>2, <1>a, <2>2, OtherJob DEF TmyTypeOK, SiblingAnswers
  <2>3. QED
    BY <2>1, <2>2
<1>3. ASSUME NEW j \in Job, PrimaryAttemptFails(j) \/ PrimaryWakes(j) PROVE JobOK(i)'
  <2>1. CASE i = j
    BY <1>3, <1>a, <1>b, <2>1
    DEF TmyTypeOK, JobOK, PrimaryAttemptFails, PrimaryWakes, PrimaryEnds, Running
  <2>2. CASE i # j
    BY <1>3, <1>a, <2>2, OtherJob
    DEF TmyTypeOK, PrimaryAttemptFails, PrimaryWakes, PrimaryEnds
  <2>3. QED
    BY <2>1, <2>2
<1>4. ASSUME NEW j \in Job, NEW p \in BOOLEAN, NEW full \in BOOLEAN,
             PrimaryAnswers(j, p, full)
      PROVE  JobOK(i)'
  <2>1. CASE i = j
    <3>1. job[i] = "fetching" /\ site[i] \in Site
      BY <1>4, <1>a, <2>1 DEF TmyTypeOK, JobOK, PrimaryAnswers, Running
    <3>2. p => /\ tmy'[i] \in Tmy /\ tmy'[i].site = site[i]
               /\ tmy'[i].full => SourceOf[site[i]] \notin WithSibling
      BY <1>4, <1>a, <2>1, <3>1 DEF TmyTypeOK, PrimaryAnswers, Tmy
    <3>3. QED
      BY <1>4, <1>a, <1>b, <2>1, <3>1, <3>2
      DEF TmyTypeOK, JobOK, PrimaryAnswers, PrimaryEnds, Running
  <2>2. CASE i # j
    BY <1>4, <1>a, <2>2, OtherJob DEF TmyTypeOK, PrimaryAnswers, PrimaryEnds
  <2>3. QED
    BY <2>1, <2>2
<1>5. ASSUME NEW j \in Job, CacheHit(j) PROVE JobOK(i)'
  <2>1. CASE i = j
    <3>1. PICK t \in Row(site[i]) : tmy' = [tmy EXCEPT ![i] = t]
      BY <1>5, <2>1 DEF CacheHit
    <3>2. /\ t \in Tmy /\ t # None
          /\ BucketOf[t.site] = BucketOf[site[i]] /\ SourceOf[t.site] = SourceOf[site[i]]
      BY <1>a, <3>1, TmyAssumption DEF Row, KeyOf, TmyTypeOK
    <3>3. QED
      BY <1>5, <1>a, <2>1, <3>1, <3>2 DEF TmyTypeOK, JobOK, CacheHit, Running
  <2>2. CASE i # j
    BY <1>5, <1>a, <2>2, OtherJob DEF TmyTypeOK, CacheHit
  <2>3. QED
    BY <2>1, <2>2
<1>6. ASSUME NEW j \in Job, CacheMiss(j) PROVE JobOK(i)'
  <2>1. CASE i = j
    BY <1>6, <1>a, <1>b, <2>1 DEF TmyTypeOK, JobOK, CacheMiss, Running
  <2>2. CASE i # j
    BY <1>6, <1>a, <2>2, OtherJob DEF TmyTypeOK, CacheMiss
  <2>3. QED
    BY <2>1, <2>2
<1>7. ASSUME NEW j \in Job, Merge(j) PROVE JobOK(i)'
  <2>1. CASE i = j
    <3>1. /\ tmy[i] \in Tmy /\ tmy[i].site = site[i]
          /\ tmy[i].full => SourceOf[site[i]] \notin WithSibling
      BY <1>7, <1>a, <2>1 DEF JobOK, Merge, Merging
    <3>2. /\ tmy'[i] \in Tmy /\ tmy'[i].site = site[i]
          /\ tmy'[i].full = IF sibling[i].pc = "answered" THEN rain[i] ELSE tmy[i].full
      BY <1>7, <1>a, <2>1, <3>1 DEF TmyTypeOK, Merge, Merged, Tmy
    <3>3. QED
      BY <1>7, <1>a, <2>1, <3>1, <3>2
      DEF TmyTypeOK, JobOK, Merge, Merging, Merged, Running
  <2>2. CASE i # j
    BY <1>7, <1>a, <2>2, OtherJob DEF TmyTypeOK, Merge, Merged
  <2>3. QED
    BY <2>1, <2>2
<1>8. ASSUME NEW j \in Job, Store(j) \/ DatabaseFails(j) PROVE JobOK(i)'
  <2>1. CASE i = j
    <3>1. job[i] = "storing" => tmy[i] # None
      BY <1>a, TmyAssumption DEF JobOK, Tmy
    <3>2. QED
      BY <1>8, <1>a, <2>1, <3>1 DEF TmyTypeOK, JobOK, Store, DatabaseFails, Running
  <2>2. CASE i # j
    BY <1>8, <1>a, <2>2, OtherJob DEF TmyTypeOK, Store, DatabaseFails
  <2>3. QED
    BY <2>1, <2>2
<1>9. ASSUME NEW j \in Job, Killed(j) PROVE JobOK(i)'
  <2>1. CASE i = j
    BY <1>9, <1>a, <1>b, <2>1 DEF TmyTypeOK, JobOK, Killed, Running
  <2>2. CASE i # j
    BY <1>9, <1>a, <2>2, OtherJob DEF TmyTypeOK, Killed
  <2>3. QED
    BY <2>1, <2>2
<1>10. CASE UNCHANGED tmyVars
  BY <1>10, <1>a, OtherJob DEF tmyVars
<1>11. QED
  BY <1>1, <1>2, <1>3, <1>4, <1>5, <1>6, <1>7, <1>8, <1>9, <1>10
  DEF TmyNext, SiblingStep, PrimaryStep, JobStep

LEMMA TmyInvariant == Spec => []TmyInv
<1>1. Init => TmyInv
  BY TmyInvInit DEF Init
<1>2. TmyInv /\ [Next]_vars => TmyInv'
  <2>1. [Next]_vars => [TmyNext]_tmyVars
    BY DEF Next, vars
  <2>2. QED
    BY <2>1, TmyTypeNext, TmyJobNext DEF TmyInv
<1>3. QED
  BY <1>1, <1>2, PTL DEF Spec

\* The variables keep their types, the tariff cache its limit and one entry for
\* each key, and tmy_cache one row for each (UrdbApiProvider.fetch,
\* store_cached_tmy).
THEOREM TypeCorrect == Spec => []TypeOK
<1>1. RatesInv /\ TmyInv => TypeOK
  BY RatesInvImplies DEF TmyInv, TypeOK
<1>2. QED
  BY <1>1, RatesInvariant, TmyInvariant, PTL

\* No job is ever handed the weather of another bucket or another provider,
\* whatever jobs share the table (lookup_cached_tmy, store_cached_tmy).
LEMMA WeatherIsOfTheSite == Spec => []TmyIsOfItsSite
<1>1. TmyInv => TmyIsOfItsSite
  BY DEF TmyInv, JobOK, TmyIsOfItsSite
<1>2. QED
  BY <1>1, TmyInvariant, PTL

\* No call of a job outlives it (fetch_aggregates_with_primary).
LEMMA CallsEndWithTheJob == Spec => []NoCallOutlivesJob
<1>1. TmyInv => NoCallOutlivesJob
  BY DEF TmyInv, JobOK, NoCallOutlivesJob, Over
<1>2. QED
  BY <1>1, TmyInvariant, PTL

\* Rain and snow the sibling brings are never lost to a faster primary
\* (fetch_aggregates_with_primary).
LEMMA MergeWaits == Spec => []RainIsNotDropped
<1>1. TmyInv => RainIsNotDropped
  BY DEF TmyInv, JobOK, RainIsNotDropped
<1>2. QED
  BY <1>1, TmyInvariant, PTL

\* Whatever jobs share the table and however their calls end, a job leaves the
\* whole weather of its own site and nothing running.
THEOREM JobsWhole == Spec => []JobsEndWhole
BY WeatherIsOfTheSite, CallsEndWithTheJob, MergeWaits, PTL DEF JobsEndWhole

\* A job that fetches fails by its primary call only.
SiblingFailsNoJob ==
  [][\A j \in Job : job[j] = "fetching" /\ job'[j] = "failed"
                      => primary'[j].pc \in {"exhausted", "malformed"}]_tmyVars

\* A sibling failure does not break the primary fetch: nothing but the primary's
\* own call fails a job that fetches (fetch_aggregates_with_primary).
THEOREM SiblingIsOptional == Spec => SiblingFailsNoJob
<1> DEFINE A == \A j \in Job : job[j] = "fetching" /\ job'[j] = "failed"
                                 => primary'[j].pc \in {"exhausted", "malformed"}
<1>1. TmyInv /\ [Next]_vars => [A]_tmyVars
  <2> SUFFICES ASSUME TmyInv, Next, NEW i \in Job,
                      job[i] = "fetching", job'[i] = "failed"
               PROVE  primary'[i].pc \in {"exhausted", "malformed"}
    BY DEF vars, tmyVars
  <2>1. job \in [Job -> {"absent", "lookup", "fetching", "storing"} \cup Over]
        /\ primary \in [Job -> Call]
    BY DEF TmyInv, TmyTypeOK
  <2>2. TmyNext
    BY DEF Next, tmyVars
  <2>3. ASSUME NEW j \in Job, NEW c, PrimaryEnds(j, c)
        PROVE  primary'[i].pc \in {"exhausted", "malformed"}
    BY <2>1, <2>3 DEF PrimaryEnds
  <2>4. QED
    BY <2>1, <2>2, <2>3
    DEF TmyNext, SiblingStep, PrimaryStep, JobStep, SiblingAttemptFails, SiblingWakes,
        SiblingAnswers, PrimaryAttemptFails, PrimaryWakes, PrimaryAnswers, CacheHit,
        CacheMiss, Merge, Merging, Merged, Store, DatabaseFails, Killed
<1>2. QED
  BY <1>1, TmyInvariant, PTL DEF Spec, SiblingFailsNoJob
=============================================================================
