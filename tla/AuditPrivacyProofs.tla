-------------------------- MODULE AuditPrivacyProofs --------------------------
(***************************************************************************)
(* Safety of AuditPrivacy for any number of users, audits, quotes, vault   *)
(* rows and requests: references, the opt-out promise, and purges.         *)
(***************************************************************************)
EXTENDS AuditPrivacy, TLAPS

Pending == {"flip", "cascade", "commit"}

\* an open transaction changes its user's flag, and is the only one that does
LocksHold ==
  \A f \in Flip : Open(f) =>
    /\ job[f].user \in users
    /\ (job[f].user \in optOut) # job[f].to
    /\ pc[f] = "cascade" => job[f].to
    /\ \A g \in Flip : Open(g) /\ job[g].user = job[f].user => g = f

\* what an opt-out has staged is there, and is its user's
StagedIsOwn ==
  \A f \in Flip : \A q \in staged[f] :
    /\ pc[f] = "commit" /\ job[f].to
    /\ q \in quotes /\ owner[AuditOf[q]] = job[f].user

\* what a user had sent when they asked stays theirs while they stay
AskedIsOwn ==
  \A f \in Flip : pc[f] \in Pending /\ job[f].user \in users =>
    \A q \in asked[f] \cap quotes : owner[AuditOf[q]] = job[f].user

\* and the cascade has found all of it that still counts
AskedIsStaged ==
  \A f \in Flip : pc[f] = "commit" /\ job[f].to => asked[f] \cap optIn \subseteq staged[f]

IInv ==
  /\ TypeOK /\ LocksHold /\ StagedIsOwn /\ AskedIsOwn /\ AskedIsStaged /\ PromiseKept

LEMMA InitIInv == Init => IInv
<1> SUFFICES ASSUME Init PROVE IInv  OBVIOUS
<1> USE SchemaAssumption
<1>1. TypeOK  BY DEF Init, TypeOK, Snapshot
<1>2. LocksHold /\ StagedIsOwn /\ AskedIsOwn /\ AskedIsStaged
  BY DEF Init, LocksHold, StagedIsOwn, AskedIsOwn, AskedIsStaged, Open, Pending
<1>3. PromiseKept  BY DEF Init, PromiseKept
<1> QED  BY <1>1, <1>2, <1>3 DEF IInv

----------------------------------------------------------------------------
\* the steps of a request

LEMMA AskKeeps ==
  ASSUME IInv, NEW f \in Flip, NEW u \in User, NEW to \in BOOLEAN, Ask(f, u, to)
  PROVE  IInv'
<1> USE SchemaAssumption DEF Ask, tables
<1> DEFINE j == [user |-> u, to |-> to]
<1>1. /\ pc' = [pc EXCEPT ![f] = "flip"] /\ pc[f] = "idle"
      /\ job' = [job EXCEPT ![f] = j] /\ j \in Job
      /\ asked' = [asked EXCEPT ![f] = QuotesOf(u)]
      /\ UNCHANGED <<tables, uploaded, region, staged, promised>>
  BY DEF Job
<1>2. QuotesOf(u) \subseteq uploaded  BY DEF IInv, TypeOK, QuotesOf
<1>3. TypeOK'
  <2>1. /\ pc' \in [Flip -> {"idle", "flip", "cascade", "commit", "answered", "failed"}]
        /\ job' \in [Flip -> Job \cup {None}]
        /\ asked' \in [Flip -> SUBSET uploaded]
    BY <1>1, <1>2 DEF IInv, TypeOK
  <2>2. \A g \in Flip : pc'[g] # "idle" => job'[g] # None
    <3>1. j # None  BY <1>1 DEF Job
    <3> QED  BY <1>1, <3>1 DEF IInv, TypeOK
  <2> QED  BY <1>1, <2>1, <2>2 DEF IInv, TypeOK
<1>4. LocksHold'
  BY <1>1 DEF IInv, TypeOK, LocksHold, Open
<1>5. StagedIsOwn' /\ AskedIsStaged'
  BY <1>1 DEF IInv, TypeOK, StagedIsOwn, AskedIsStaged
<1>6. AskedIsOwn'
  BY <1>1 DEF IInv, TypeOK, AskedIsOwn, Pending, QuotesOf
<1>7. PromiseKept'  BY <1>1 DEF IInv, PromiseKept
<1> QED  BY <1>3, <1>4, <1>5, <1>6, <1>7 DEF IInv

LEMMA FlipUserKeeps ==
  ASSUME IInv, NEW f \in Flip, FlipUser(f)
  PROVE  IInv'
<1> USE SchemaAssumption DEF FlipUser, tables
<1>1. TypeOK'  BY DEF IInv, TypeOK
<1>2. LocksHold'
  BY DEF IInv, TypeOK, LocksHold, Open, Matches, Locked
<1>3. StagedIsOwn' /\ AskedIsOwn' /\ PromiseKept'
  BY DEF IInv, TypeOK, StagedIsOwn, AskedIsOwn, Pending, PromiseKept
<1>4. AskedIsStaged'  BY DEF IInv, TypeOK, AskedIsStaged
<1> QED  BY <1>1, <1>2, <1>3, <1>4 DEF IInv

LEMMA NoChangeKeeps ==
  ASSUME IInv, NEW f \in Flip, NoChange(f)
  PROVE  IInv'
<1> USE SchemaAssumption DEF NoChange, tables
<1>1. TypeOK'  BY DEF IInv, TypeOK
<1>2. LocksHold'  BY DEF IInv, TypeOK, LocksHold, Open
<1>3. StagedIsOwn' /\ AskedIsOwn' /\ AskedIsStaged' /\ PromiseKept'
  BY DEF IInv, TypeOK, StagedIsOwn, AskedIsOwn, AskedIsStaged, Pending, PromiseKept
<1> QED  BY <1>1, <1>2, <1>3 DEF IInv

LEMMA CascadeKeeps ==
  ASSUME IInv, NEW f \in Flip, Cascade(f)
  PROVE  IInv'
<1> USE SchemaAssumption DEF Cascade, tables
<1> DEFINE s == QuotesOf(job[f].user) \cap optIn
<1>0. s \subseteq quotes  BY DEF IInv, TypeOK
<1>1. TypeOK'  BY <1>0 DEF IInv, TypeOK
<1>2. LocksHold'  BY DEF IInv, TypeOK, LocksHold, Open
<1>3. StagedIsOwn'
  <2>1. job[f].user \in users /\ pc[f] = "cascade"  BY DEF IInv, LocksHold, Open
  <2>2. ASSUME NEW g \in Flip, NEW q \in staged'[g]
        PROVE  /\ pc'[g] = "commit" /\ job[g].to
               /\ q \in quotes /\ owner[AuditOf[q]] = job[g].user
    <3>1. CASE g = f
      <4>1. q \in s  BY <2>2, <3>1 DEF IInv, TypeOK
      <4>2. job[f].to  BY <2>1 DEF IInv, LocksHold, Open
      <4> QED  BY <3>1, <4>1, <4>2 DEF IInv, TypeOK, QuotesOf
    <3>2. CASE g # f  BY <2>2, <3>2 DEF IInv, TypeOK, StagedIsOwn
    <3> QED  BY <3>1, <3>2
  <2> QED  BY <2>2 DEF StagedIsOwn
<1>4. AskedIsOwn' /\ PromiseKept'
  BY DEF IInv, TypeOK, AskedIsOwn, Pending, PromiseKept
<1>5. AskedIsStaged'
  <2>1. asked[f] \cap optIn \subseteq s
    BY DEF IInv, TypeOK, LocksHold, Open, AskedIsOwn, Pending, QuotesOf
  <2> QED  BY <2>1 DEF IInv, TypeOK, AskedIsStaged
<1> QED  BY <1>1, <1>2, <1>3, <1>4, <1>5 DEF IInv

LEMMA CommitKeeps ==
  ASSUME IInv, NEW f \in Flip, Commit(f)
  PROVE  IInv'
<1> USE SchemaAssumption DEF Commit
<1> DEFINE u == job[f].user
<1>1. /\ u \in users /\ (u \in optOut) # job[f].to /\ pc[f] = "commit"
      /\ job[f] \in Job
  BY DEF IInv, TypeOK, LocksHold, Open
<1>2. /\ optOut' \subseteq optOut \cup {u} /\ optOut \subseteq optOut' \cup {u}
      /\ optIn' = optIn \ staged[f]
      /\ pc' = [pc EXCEPT ![f] = "answered"] /\ staged' = [staged EXCEPT ![f] = {}]
      /\ promised' \subseteq promised \cup asked[f]
      /\ ~job[f].to => promised' = promised
      /\ UNCHANGED <<users, owner, link, quotes, vaults, uploaded, region, job, asked>>
  OBVIOUS
<1>3. TypeOK'
  <2>1. pc' \in [Flip -> {"idle", "flip", "cascade", "commit", "answered", "failed"}]
    BY <1>2 DEF IInv, TypeOK
  <2>2. staged' \in [Flip -> SUBSET quotes] /\ promised' \subseteq uploaded
    BY <1>2 DEF IInv, TypeOK
  <2> QED  BY <1>1, <1>2, <2>1, <2>2 DEF IInv, TypeOK
<1>4. LocksHold'
  <2>1. ASSUME NEW g \in Flip, Open(g)'
        PROVE  g # f /\ Open(g) /\ job[g].user # u /\ pc'[g] = pc[g]
    BY <1>1, <1>2, <2>1 DEF IInv, TypeOK, LocksHold, Open
  <2>2. ASSUME NEW g \in Flip, Open(g)'
        PROVE  job[g].user \in optOut' <=> job[g].user \in optOut
    BY <1>2, <2>1, <2>2
  <2> QED  BY <1>2, <2>1, <2>2 DEF IInv, LocksHold
<1>5. StagedIsOwn'  BY <1>2 DEF IInv, TypeOK, StagedIsOwn
<1>6. AskedIsOwn'  BY <1>2 DEF IInv, TypeOK, AskedIsOwn, Pending
<1>7. AskedIsStaged'  BY <1>2 DEF IInv, TypeOK, AskedIsStaged
<1>8. PromiseKept'
  <2>1. job[f].to => asked[f] \cap optIn \subseteq staged[f]
    BY <1>1 DEF IInv, AskedIsStaged
  <2> QED  BY <1>2, <2>1 DEF IInv, PromiseKept
<1> QED  BY <1>3, <1>4, <1>5, <1>6, <1>7, <1>8 DEF IInv

LEMMA AbortKeeps ==
  ASSUME IInv, NEW f \in Flip, Abort(f)
  PROVE  IInv'
<1> USE SchemaAssumption DEF Abort, tables
<1>1. TypeOK'  BY DEF IInv, TypeOK
<1>2. LocksHold'  BY DEF IInv, TypeOK, LocksHold, Open
<1>3. StagedIsOwn' /\ AskedIsOwn' /\ AskedIsStaged' /\ PromiseKept'
  BY DEF IInv, TypeOK, StagedIsOwn, AskedIsOwn, AskedIsStaged, Pending, PromiseKept
<1> QED  BY <1>1, <1>2, <1>3 DEF IInv

----------------------------------------------------------------------------
\* deletions, uploads, refreshes

LEMMA DeleteAuditKeeps ==
  ASSUME IInv, NEW u \in User, NEW a \in Audit, DeleteAudit(u, a)
  PROVE  IInv'
<1> USE SchemaAssumption DEF DeleteAudit, Drop
<1>1. TypeOK'
  <2>1. /\ DOMAIN owner' = DOMAIN owner \ {a}
        /\ owner' \in [DOMAIN owner' -> users \cup {None}]
        /\ link' \in [DOMAIN owner' -> vaults \cup {None}]
    BY DEF IInv, TypeOK
  <2>2. \A q \in quotes' : AuditOf[q] \in DOMAIN owner'
    BY <2>1 DEF IInv, TypeOK
  <2>3. staged \in [Flip -> SUBSET quotes']
    BY DEF IInv, TypeOK, Unlocked
  <2> QED  BY <2>1, <2>2, <2>3 DEF IInv, TypeOK
<1>2. LocksHold'  BY DEF IInv, LocksHold, Open
<1>3. StagedIsOwn'
  BY DEF IInv, TypeOK, StagedIsOwn, Unlocked
<1>4. AskedIsOwn'
  BY DEF IInv, TypeOK, AskedIsOwn
<1>5. AskedIsStaged' /\ PromiseKept'
  BY DEF IInv, AskedIsStaged, PromiseKept
<1> QED  BY <1>1, <1>2, <1>3, <1>4, <1>5 DEF IInv

LEMMA DeletePiiKeeps ==
  ASSUME IInv, NEW u \in User, DeletePii(u)
  PROVE  IInv'
<1> USE SchemaAssumption DEF DeletePii
<1>1. TypeOK'
  <2>1. link' \in [DOMAIN owner -> vaults' \cup {None}]
    BY DEF IInv, TypeOK, Unlink
  <2> QED  BY <2>1 DEF IInv, TypeOK
<1>2. LocksHold' /\ StagedIsOwn' /\ AskedIsOwn' /\ AskedIsStaged' /\ PromiseKept'
  BY DEF IInv, LocksHold, Open, StagedIsOwn, AskedIsOwn, AskedIsStaged, PromiseKept
<1> QED  BY <1>1, <1>2 DEF IInv

LEMMA DeleteAccountKeeps ==
  ASSUME IInv, NEW u \in User, DeleteAccount(u)
  PROVE  IInv'
<1> USE SchemaAssumption DEF DeleteAccount
<1>0. \A a \in DOMAIN owner : owner'[a] = IF owner[a] = u THEN None ELSE owner[a]
  OBVIOUS
<1>1. TypeOK'
  <2>1. link' \in [DOMAIN owner -> vaults' \cup {None}]
    BY DEF IInv, TypeOK, Unlink
  <2>2. DOMAIN owner' = DOMAIN owner /\ owner' \in [DOMAIN owner -> users' \cup {None}]
    BY DEF IInv, TypeOK
  <2>3. vaults' \subseteq Vault /\ \A v \in vaults' : VaultOwner[v] \in users'
    BY DEF IInv, TypeOK, VaultsOf
  <2> QED  BY <2>1, <2>2, <2>3 DEF IInv, TypeOK
<1>2. LocksHold'
  <2>1. \A f \in Flip : Open(f) => job[f].user # u  BY DEF Locked
  <2> QED  BY <2>1 DEF IInv, LocksHold, Open
<1>3. StagedIsOwn'
  <2>1. \A f \in Flip : \A q \in staged[f] : job[f].user # u /\ AuditOf[q] \in DOMAIN owner
    BY DEF IInv, TypeOK, StagedIsOwn, Locked, Open
  <2> QED  BY <1>0, <2>1 DEF IInv, StagedIsOwn
<1>4. AskedIsOwn'
  BY <1>0 DEF IInv, TypeOK, AskedIsOwn
<1>5. AskedIsStaged' /\ PromiseKept'
  BY DEF IInv, AskedIsStaged, PromiseKept
<1> QED  BY <1>1, <1>2, <1>3, <1>4, <1>5 DEF IInv

LEMMA UploadKeeps ==
  ASSUME IInv, NEW q \in Quote, Upload(q)
  PROVE  IInv'
<1> USE SchemaAssumption DEF Upload
<1>0. /\ \A f \in Flip : q \notin asked[f] /\ q \notin staged[f]
      /\ q \notin promised /\ q \notin quotes
  BY DEF IInv, TypeOK
<1>1. TypeOK'  BY DEF IInv, TypeOK
<1>2. LocksHold' /\ StagedIsOwn'  BY DEF IInv, LocksHold, Open, StagedIsOwn
<1>3. AskedIsOwn' /\ AskedIsStaged' /\ PromiseKept'
  BY <1>0 DEF IInv, AskedIsOwn, AskedIsStaged, PromiseKept
<1> QED  BY <1>1, <1>2, <1>3 DEF IInv

LEMMA RefreshKeeps ==
  ASSUME IInv, Refresh
  PROVE  IInv'
<1> USE SchemaAssumption DEF Refresh, tables
<1>1. TypeOK'
  <2>1. UNION {QuotesOf(u) : u \in optOut} \subseteq Quote
    BY DEF IInv, TypeOK, QuotesOf
  <2>2. Counted \subseteq Quote /\ promised \subseteq Quote
    BY DEF IInv, TypeOK, Counted
  <2>3. region' \in Snapshot  BY <2>1, <2>2 DEF Snapshot
  <2> QED  BY <2>3 DEF IInv, TypeOK
<1>2. LocksHold' /\ StagedIsOwn' /\ AskedIsOwn' /\ AskedIsStaged'
  BY DEF IInv, LocksHold, Open, StagedIsOwn, AskedIsOwn, AskedIsStaged
<1>3. PromiseKept'  BY DEF IInv, PromiseKept, Counted
<1> QED  BY <1>1, <1>2, <1>3 DEF IInv

LEMMA StutterKeeps ==
  ASSUME IInv, UNCHANGED vars
  PROVE  IInv'
BY DEF IInv, TypeOK, LocksHold, StagedIsOwn, AskedIsOwn, AskedIsStaged, PromiseKept,
       Open, vars, tables

LEMMA Inductive == IInv /\ [Next]_vars => IInv'
<1> SUFFICES ASSUME IInv, [Next]_vars PROVE IInv'  OBVIOUS
<1> QED
  BY AskKeeps, FlipUserKeeps, NoChangeKeeps, CascadeKeeps, CommitKeeps, AbortKeeps,
     DeleteAuditKeeps, DeletePiiKeeps, DeleteAccountKeeps, UploadKeeps, RefreshKeeps,
     StutterKeeps DEF Next, Flipping

\* The invariant the promise rests on.
THEOREM Invariance == Spec => []IInv
<1> QED  BY InitIInv, Inductive, PTL DEF Spec

----------------------------------------------------------------------------
\* Types, and no reference to a row that is gone, whatever was deleted.
THEOREM Typed == Spec => []TypeOK
<1>1. IInv => TypeOK  BY DEF IInv
<1> QED  BY <1>1, Invariance, PTL

\* An answered opt-out is never taken back, by a flip or by a refresh.
THEOREM Promised == Spec => []PromiseKept
<1>1. IInv => PromiseKept  BY DEF IInv
<1> QED  BY <1>1, Invariance, PTL

\* The flag and the quotes it covers change in one step.
THEOREM Atomic == Spec => OptOutIsAtomic
<1> DEFINE Both ==
      /\ \A u \in optOut' \ optOut :
           \E f \in Flip : job[f] = [user |-> u, to |-> TRUE] /\ asked[f] \cap optIn' = {}
      /\ \A q \in (optIn \ optIn') \cap quotes' : owner[AuditOf[q]] \in optOut' \ optOut
<1>1. ASSUME IInv, NEW f \in Flip, Commit(f) PROVE Both
  <2>1. /\ job[f] \in Job /\ pc[f] = "commit" /\ (job[f].user \in optOut) # job[f].to
    BY <1>1 DEF IInv, TypeOK, LocksHold, Open, Commit
  <2>2. \A u \in optOut' \ optOut :
          \E g \in Flip : job[g] = [user |-> u, to |-> TRUE] /\ asked[g] \cap optIn' = {}
    <3>1. ASSUME NEW u \in optOut' \ optOut PROVE job[f].user = u /\ job[f].to
      BY <1>1, <3>1 DEF Commit
    <3>2. job[f].to => asked[f] \cap optIn' = {}
      BY <1>1, <2>1 DEF IInv, AskedIsStaged, Commit
    <3>3. job[f].to => job[f] = [user |-> job[f].user, to |-> TRUE]
      BY <2>1 DEF Job
    <3> QED  BY <3>1, <3>2, <3>3
  <2>3. \A q \in (optIn \ optIn') \cap quotes' : owner[AuditOf[q]] \in optOut' \ optOut
    <3>1. ASSUME NEW q \in staged[f]
          PROVE  job[f].to /\ owner[AuditOf[q]] = job[f].user
      BY <1>1 DEF IInv, StagedIsOwn
    <3>2. job[f].to => job[f].user \in optOut' \ optOut
      <4>1. job[f].to => optOut' = optOut \cup {job[f].user}  BY <1>1 DEF Commit
      <4>2. job[f].to => job[f].user \notin optOut
        <5>1. job[f].to \in BOOLEAN  BY <2>1 DEF Job
        <5> QED  BY <2>1, <5>1
      <4> QED  BY <4>1, <4>2
    <3>3. optIn' = optIn \ staged[f]  BY <1>1 DEF Commit
    <3> QED  BY <3>1, <3>2, <3>3
  <2> QED  BY <2>2, <2>3
<1>2. ASSUME NEW u \in User, NEW a \in Audit, DeleteAudit(u, a) PROVE Both
  BY <1>2 DEF DeleteAudit, Drop
<1>3. ASSUME NEW f \in Flip, NEW u \in User, NEW to \in BOOLEAN,
             Ask(f, u, to)
      PROVE  Both
  BY <1>3 DEF Ask, tables
<1>4. ASSUME NEW u \in User, DeletePii(u) \/ DeleteAccount(u) PROVE Both
  BY <1>4 DEF DeletePii, DeleteAccount
<1>5. ASSUME NEW q \in Quote, Upload(q) PROVE Both
  BY <1>5 DEF Upload
<1>6. ASSUME Refresh PROVE Both
  BY <1>6 DEF Refresh, tables
<1>7. IInv /\ [Next]_vars => [Both]_vars
  <2> SUFFICES ASSUME IInv, Next PROVE Both  OBVIOUS
  <2>2. ASSUME NEW f \in Flip, Flipping(f) \/ Abort(f) PROVE Both
    <3>1. CASE Commit(f)  BY <1>1, <3>1
    <3>2. CASE FlipUser(f) \/ NoChange(f) \/ Cascade(f) \/ Abort(f)
      BY <3>2 DEF FlipUser, NoChange, Cascade, Abort, tables
    <3> QED  BY <2>2, <3>1, <3>2 DEF Flipping
  <2>3. ASSUME NEW f \in Flip, NEW u \in User, NEW to \in BOOLEAN, Ask(f, u, to)
        PROVE  Both
    BY <1>3, <2>3
  <2> QED  BY <1>2, <1>4, <1>5, <1>6, <2>2, <2>3 DEF Next
<1> QED  BY <1>7, Invariance, PTL DEF Spec, OptOutIsAtomic

\* A purge removes what it says, and nothing of anyone else.
THEOREM Scoped == Spec => PurgesAreScoped
<1> DEFINE Scope ==
      /\ \A a \in DOMAIN owner \ DOMAIN owner' : owner[a] \in users /\ vaults' = vaults
      /\ \A a \in DOMAIN owner \cap DOMAIN owner' :
           owner'[a] # owner[a] => owner'[a] = None /\ owner[a] \notin users'
      /\ \A q \in quotes \ quotes' : AuditOf[q] \notin DOMAIN owner'
      /\ \A v \in vaults \ vaults' :
           /\ DOMAIN owner' = DOMAIN owner /\ quotes' = quotes
           /\ \A w \in vaults' : VaultOwner[w] # VaultOwner[v]
<1>1. ASSUME IInv, NEW u \in User, NEW a \in Audit, DeleteAudit(u, a) PROVE Scope
  BY <1>1 DEF DeleteAudit, Drop, Owned
<1>2. ASSUME NEW u \in User, DeletePii(u) PROVE Scope
  BY <1>2 DEF DeletePii, VaultsOf
<1>3. ASSUME NEW u \in User, DeleteAccount(u) PROVE Scope
  BY <1>3 DEF DeleteAccount, VaultsOf
<1>4. ASSUME UNCHANGED <<owner, vaults>>, quotes \subseteq quotes' PROVE Scope
  BY <1>4
<1>5. ASSUME NEW f \in Flip, Flipping(f) \/ Abort(f) PROVE Scope
  BY <1>4, <1>5 DEF Flipping, FlipUser, NoChange, Cascade, Commit, Abort, tables
<1>6. ASSUME NEW f \in Flip, NEW u \in User, NEW to \in BOOLEAN, Ask(f, u, to) PROVE Scope
  BY <1>4, <1>6 DEF Ask, tables
<1>7. ASSUME NEW q \in Quote, Upload(q) PROVE Scope
  BY <1>4, <1>7 DEF Upload
<1>8. ASSUME Refresh PROVE Scope
  BY <1>4, <1>8 DEF Refresh, tables
<1>9. IInv /\ [Next]_vars => [Scope]_vars
  BY <1>1, <1>2, <1>3, <1>5, <1>6, <1>7, <1>8 DEF Next
<1> QED  BY <1>9, Invariance, PTL DEF Spec, PurgesAreScoped
=============================================================================
