---------------------------- MODULE SignInProofs ----------------------------
(***************************************************************************)
(* Safety of SignIn for any number of logins, callbacks, addresses and     *)
(* faults: one user per address, sessions of the right user, no replay.    *)
(***************************************************************************)
EXTENDS SignIn, TLAPS

Midway == {"find", "insert", "commit"}
Past  == {"respond", "done", "error"}

\* a mailed link, and the link of an opened callback, has its row
LinksHaveRows ==
  /\ \A l \in Login : lpc[l] \in {"send", "sent"} => l \in links
  /\ \A c \in Callback : cpc[c] # "new" => link[c] \in links

\* whoever inserted a row, or minted a session, is past its commit
RowsArePast ==
  /\ \A u \in users : cpc[u] \in Past /\ user[u] = u
  /\ \A c \in sessions : cpc[c] \in Past /\ link[c] \in consumed
  /\ \A c \in Callback : cpc[c] \in {"respond", "done"} => c \in sessions

\* OneUserPerAddress over the uncommitted rows too
UniqueAddress ==
  \A u, v \in users \cup Inserting : AddressOfUser(u) = AddressOfUser(v) => u = v

\* a callback about to commit works with a row of its link's address
HoldsAddressee ==
  \A c \in Callback : cpc[c] = "commit" =>
    /\ user[c] \in users \cup {c}
    /\ AddressOfUser(user[c]) = AddressOf[link[c]]

\* an open callback found no session of its link
FoundFresh ==
  /\ \A c \in Callback : earlier[c] \subseteq sessions
  /\ \A c \in Callback : cpc[c] \in Midway => \A d \in earlier[c] : link[d] # link[c]

IInv ==
  /\ TypeOK /\ LinksHaveRows /\ RowsArePast /\ UniqueAddress /\ HoldsAddressee
  /\ FoundFresh /\ SessionOwnerIsAddressee /\ NoReplay

LEMMA InitIInv == Init => IInv
<1> SUFFICES ASSUME Init PROVE IInv  OBVIOUS
<1> USE SignInAssumption
<1>1. TypeOK  BY DEF Init, TypeOK, LoginPhase, Counting, CallbackPhase
<1>2. LinksHaveRows /\ RowsArePast /\ FoundFresh  BY DEF Init, LinksHaveRows, RowsArePast, FoundFresh, Midway
<1>3. UniqueAddress /\ HoldsAddressee  BY DEF Init, UniqueAddress, HoldsAddressee, Inserting
<1>4. SessionOwnerIsAddressee /\ NoReplay  BY DEF Init, SessionOwnerIsAddressee, NoReplay
<1> QED  BY <1>1, <1>2, <1>3, <1>4 DEF IInv

----------------------------------------------------------------------------
\* what a step of the other route, or an expiry, may touch
Elsewhere ==
  /\ callbacks' = callbacks
  /\ links \subseteq links' /\ over' = over

\* The type invariant of the login half.
LoginTypeOK ==
  /\ hits \in [Bucket -> Nat] /\ ttl \subseteq Bucket
  /\ lpc \in [Login -> LoginPhase]
  /\ links \subseteq Login /\ lapsed \subseteq links
  /\ failures \in Nat
  /\ \A l \in Login : lpc[l] \in {"send", "sent"} => l \in links

LEMMA LoginKeeps ==
  ASSUME IInv, NEW l \in Login,
         \/ Count(l) \/ Stamp(l) \/ RedisFails(l)
         \/ Issue(l) \/ Send(l) \/ LoginFails(l) \/ LinkLapses(l)
  PROVE  Elsewhere /\ LoginTypeOK'
<1> USE SignInAssumption
<1>0. LoginTypeOK  BY DEF IInv, TypeOK, LinksHaveRows, LoginTypeOK
<1>1. BucketOf(l) \in Bucket /\ Allowed(l) \in {"email", "issue"}
  BY DEF BucketOf, Bucket, Allowed
<1>2. CASE Count(l)
  <2> DEFINE b == BucketOf(l)
             next == IF FirstHit(b) THEN IF b = Ip THEN "ip ttl" ELSE "email ttl"
                     ELSE IF hits[b] + 1 <= Limit(b) THEN Allowed(l) ELSE "refused"
  <2>1. next \in LoginPhase \ {"send", "sent"}
    BY <1>1 DEF LoginPhase, Counting, Stamping
  <2>2. /\ hits' = [hits EXCEPT ![b] = hits[b] + 1] /\ lpc' = [lpc EXCEPT ![l] = next]
        /\ UNCHANGED <<ttl, links, lapsed, callbacks, over, failures>>
    BY <1>2 DEF Count
  <2> HIDE DEF next, b
  <2>3. hits' \in [Bucket -> Nat]
    <3>1. b \in Bucket /\ hits \in [Bucket -> Nat]  BY <1>0, <1>1 DEF b, LoginTypeOK
    <3>2. hits' = [hits EXCEPT ![b] = hits[b] + 1]  BY <2>2
    <3> QED  BY <3>1, <3>2
  <2> QED  BY <1>0, <2>1, <2>2, <2>3 DEF Elsewhere, LoginTypeOK
<1>3. CASE Stamp(l)
  BY <1>0, <1>1, <1>3 DEF Stamp, Elsewhere, LoginTypeOK, LoginPhase, Counting
<1>4. CASE RedisFails(l)
  <2>1. /\ lpc' = [lpc EXCEPT ![l] = Allowed(l)] /\ failures' = failures + 1
        /\ UNCHANGED <<links, lapsed, callbacks, over>>
    BY <1>4 DEF RedisFails, Fault
  <2>2. hits' \in [Bucket -> Nat] /\ ttl' \subseteq Bucket
    BY <1>0, <1>1, <1>4 DEF RedisFails, LoginTypeOK, buckets
  <2>3. Allowed(l) \in LoginPhase \ {"send", "sent"}
    BY <1>1 DEF LoginPhase, Counting
  <2> QED  BY <1>0, <2>1, <2>2, <2>3 DEF Elsewhere, LoginTypeOK
<1>5. CASE Issue(l)
  BY <1>0, <1>5 DEF Issue, Elsewhere, LoginTypeOK, LoginPhase, buckets
<1>6. CASE Send(l)
  BY <1>0, <1>6 DEF Send, Elsewhere, LoginTypeOK, LoginPhase, buckets
<1>7. CASE LoginFails(l)
  BY <1>0, <1>7 DEF LoginFails, Fault, Elsewhere, LoginTypeOK, LoginPhase, buckets
<1>8. CASE LinkLapses(l)
  BY <1>0, <1>8 DEF LinkLapses, Elsewhere, LoginTypeOK, buckets
<1> QED  BY <1>2, <1>3, <1>4, <1>5, <1>6, <1>7, <1>8

LEMMA ElsewhereKeeps ==
  ASSUME IInv, Elsewhere, LoginTypeOK'
  PROVE  IInv'
<1>1. /\ cpc' = cpc /\ link' = link /\ user' = user /\ earlier' = earlier
      /\ users' = users /\ sessions' = sessions /\ consumed' = consumed
  BY DEF Elsewhere, callbacks
<1>2. TypeOK'  BY <1>1 DEF IInv, TypeOK, LoginTypeOK, Elsewhere
<1>3. LinksHaveRows' /\ RowsArePast' /\ FoundFresh'
  BY <1>1 DEF IInv, LoginTypeOK, Elsewhere, LinksHaveRows, RowsArePast, FoundFresh
<1>4. UniqueAddress' /\ HoldsAddressee'
  BY <1>1 DEF IInv, UniqueAddress, HoldsAddressee, Inserting, AddressOfUser
<1>5. SessionOwnerIsAddressee' /\ NoReplay'
  BY <1>1 DEF IInv, Elsewhere, SessionOwnerIsAddressee, NoReplay, AddressOfUser
<1> QED  BY <1>2, <1>3, <1>4, <1>5 DEF IInv

LEMMA WindowKeeps == ASSUME IInv, NEW b \in Bucket, WindowEnds(b) PROVE IInv'
<1>1. Elsewhere  BY DEF WindowEnds, Elsewhere, logins
<1>2. LoginTypeOK'  BY DEF IInv, TypeOK, LinksHaveRows, LoginTypeOK, WindowEnds, logins
<1> QED  BY <1>1, <1>2, ElsewhereKeeps

----------------------------------------------------------------------------
LEMMA OpenKeeps ==
  ASSUME IInv, NEW c \in Callback, NEW l \in Login, Open(c, l)
  PROVE  IInv'
<1> USE SignInAssumption DEF IInv
<1>1. /\ cpc[c] = "new" /\ l \in links
      /\ c \notin users /\ c \notin sessions
  BY DEF Open, LinksHaveRows, RowsArePast, Past
<1>2. /\ users' = users /\ sessions' = sessions /\ user' = user
      /\ links' = links /\ lpc' = lpc /\ consumed' = consumed
      /\ \A d \in Callback \ {c} : /\ cpc'[d] = cpc[d] /\ link'[d] = link[d]
                                   /\ earlier'[d] = earlier[d]
      /\ link'[c] = l /\ earlier'[c] = sessions /\ cpc'[c] \in {"gone", "find"}
      /\ cpc'[c] = "find" => l \notin consumed
  BY DEF Open, TypeOK, logins
<1>3. TypeOK'
  BY <1>1 DEF Open, TypeOK, buckets, logins, CallbackPhase
<1>4. LinksHaveRows' /\ RowsArePast'  BY <1>1, <1>2 DEF LinksHaveRows, RowsArePast, TypeOK
<1>5. Inserting' = Inserting /\ c \notin Inserting  BY <1>1, <1>2 DEF Inserting
<1>6. \A u \in users \cup Inserting : AddressOfUser(u)' = AddressOfUser(u)
  BY <1>1, <1>2, <1>5 DEF AddressOfUser, TypeOK, Inserting
<1>7. UniqueAddress'  BY <1>2, <1>5, <1>6 DEF UniqueAddress
<1>8. HoldsAddressee'
  BY <1>1, <1>2 DEF HoldsAddressee, AddressOfUser, TypeOK
<1>9. FoundFresh'
  BY <1>1, <1>2 DEF FoundFresh, RowsArePast, TypeOK, Midway
<1>10. SessionOwnerIsAddressee' /\ NoReplay'
  BY <1>1, <1>2 DEF SessionOwnerIsAddressee, NoReplay, AddressOfUser, TypeOK
<1> QED  BY <1>3, <1>4, <1>7, <1>8, <1>9, <1>10

\* what the statements before the commit, and the answer, leave alone
Statement(c) ==
  /\ users' = users /\ sessions' = sessions /\ consumed' = consumed
  /\ link' = link /\ earlier' = earlier /\ logins' = logins
  /\ \A d \in Callback \ {c} : cpc'[d] = cpc[d] /\ user'[d] = user[d]
  /\ cpc[c] # "new" /\ cpc'[c] # "new"
  /\ c \in sessions \cup users => user'[c] = user[c] /\ cpc'[c] \in Past
  /\ cpc'[c] \in Midway => cpc[c] \in Midway
  /\ cpc'[c] \in {"respond", "done"} => c \in sessions

LEMMA StatementKeeps ==
  ASSUME IInv, NEW c \in Callback, Statement(c), TypeOK', UniqueAddress', HoldsAddressee'
  PROVE  IInv'
<1> USE DEF IInv, Statement
<1>1. LinksHaveRows' /\ RowsArePast'
  BY DEF LinksHaveRows, RowsArePast, TypeOK, logins
<1>2. FoundFresh'  BY DEF FoundFresh, TypeOK
<1>3. SessionOwnerIsAddressee' /\ NoReplay'
  BY DEF SessionOwnerIsAddressee, NoReplay, AddressOfUser, TypeOK, logins
<1> QED  BY <1>1, <1>2, <1>3

LEMMA FindKeeps == ASSUME IInv, NEW c \in Callback, Find(c) PROVE IInv'
<1> USE SignInAssumption DEF IInv
<1>1. cpc[c] = "find" /\ c \notin sessions /\ c \notin users
  BY DEF Find, RowsArePast, Past
<1>2. TypeOK'
  <2>1. user' \in [Callback -> Callback \cup {None}] /\ cpc' \in [Callback -> CallbackPhase]
    BY DEF Find, TypeOK, Visible, CallbackPhase
  <2> QED  BY <2>1 DEF Find, TypeOK, buckets, logins
<1>3. Statement(c)
  BY <1>1 DEF Find, Statement, TypeOK, Midway
<1>4. Inserting' = Inserting
  BY <1>1 DEF Find, Inserting, Visible, TypeOK
<1>5. UniqueAddress'
  BY <1>4 DEF Find, UniqueAddress, AddressOfUser
<1>6. HoldsAddressee'
  BY <1>1 DEF Find, HoldsAddressee, AddressOfUser, Visible, TypeOK
<1> QED  BY <1>2, <1>3, <1>5, <1>6, StatementKeeps

LEMMA InsertKeeps == ASSUME IInv, NEW c \in Callback, Insert(c) PROVE IInv'
<1> USE SignInAssumption DEF IInv
<1>1. cpc[c] = "insert" /\ c \notin sessions /\ c \notin users
  BY DEF Insert, RowsArePast, Past
<1>2. TypeOK'
  <2>1. user' \in [Callback -> Callback \cup {None}] /\ cpc' \in [Callback -> CallbackPhase]
    BY DEF Insert, TypeOK, CallbackPhase
  <2> QED  BY <2>1 DEF Insert, TypeOK, buckets, logins
<1>3. Statement(c)
  BY <1>1 DEF Insert, Statement, TypeOK, Midway
<1>4. /\ Inserting' \subseteq Inserting \cup {c}
      /\ c \in Inserting' => /\ \A d \in Inserting : AddressOfUser(d) # AddressOf[link[c]]
                             /\ \A u \in users : AddressOfUser(u) # AddressOf[link[c]]
  BY <1>1 DEF Insert, Inserting, Taken, TypeOK
<1>5. UniqueAddress'
  BY <1>1, <1>4 DEF Insert, UniqueAddress, AddressOfUser
<1>6. HoldsAddressee'
  BY <1>1 DEF Insert, HoldsAddressee, AddressOfUser, TypeOK
<1> QED  BY <1>2, <1>3, <1>5, <1>6, StatementKeeps

LEMMA EndKeeps ==
  ASSUME IInv, NEW c \in Callback, Respond(c) \/ CallbackFails(c)
  PROVE  IInv'
<1> USE SignInAssumption DEF IInv
<1>1. TypeOK'
  <2>1. cpc' \in [Callback -> CallbackPhase] /\ failures' \in Nat
    BY DEF Respond, CallbackFails, Fault, TypeOK, CallbackPhase
  <2> QED  BY <2>1 DEF Respond, CallbackFails, TypeOK, buckets, logins
<1>2. Statement(c)
  BY DEF Respond, CallbackFails, Statement, RowsArePast, TypeOK, Midway, Past
<1>3. Inserting' \subseteq Inserting
  BY DEF Respond, CallbackFails, Inserting, TypeOK
<1>4. UniqueAddress'
  BY <1>3 DEF Respond, CallbackFails, UniqueAddress, AddressOfUser
<1>5. HoldsAddressee'
  BY DEF Respond, CallbackFails, HoldsAddressee, AddressOfUser, TypeOK
<1> QED  BY <1>1, <1>2, <1>4, <1>5, StatementKeeps

LEMMA CommitKeeps == ASSUME IInv, NEW c \in Callback, Commit(c) PROVE IInv'
<1> USE SignInAssumption DEF IInv
<1>1. cpc[c] = "commit" /\ c \notin sessions /\ c \notin users /\ link[c] \in links
  BY DEF Commit, RowsArePast, Past, LinksHaveRows
<1>2. /\ cpc' = [cpc EXCEPT ![c] = "respond"]
      /\ link' = link /\ user' = user /\ earlier' = earlier
      /\ links' = links /\ lpc' = lpc
      /\ sessions' = sessions \cup {c} /\ consumed' = consumed \cup {link[c]}
      /\ users' = users \cup (Inserting \cap {c})
  BY DEF Commit, Used, logins, TypeOK
<1>3. TypeOK'
  BY <1>1 DEF Commit, Used, Inserting, TypeOK, buckets, logins, CallbackPhase
<1>4. LinksHaveRows' /\ RowsArePast'
  BY <1>1, <1>2 DEF LinksHaveRows, RowsArePast, Inserting, TypeOK, Past
<1>5. users' \cup Inserting' \subseteq users \cup Inserting
  BY <1>2 DEF Inserting, TypeOK
<1>6. UniqueAddress'  BY <1>2, <1>5 DEF UniqueAddress, AddressOfUser
<1>7. user[c] \in users'
  BY <1>1, <1>2 DEF HoldsAddressee, Inserting, TypeOK
<1>8. HoldsAddressee'
  BY <1>2 DEF HoldsAddressee, AddressOfUser, TypeOK
<1>9. FoundFresh'  BY <1>1, <1>2 DEF FoundFresh, TypeOK, Midway
<1>10. SessionOwnerIsAddressee'
  BY <1>1, <1>2, <1>7 DEF SessionOwnerIsAddressee, HoldsAddressee, AddressOfUser
<1>11. NoReplay'
  <2>1. \A d \in sessions : c \notin earlier[d]  BY <1>1 DEF FoundFresh, TypeOK
  <2>2. \A d \in sessions : link[d] = link[c] => d \notin earlier[c]
    BY <1>1 DEF FoundFresh, Midway
  <2>3. c \notin earlier[c]  BY <1>1 DEF FoundFresh
  <2> QED  BY <1>2, <2>1, <2>2, <2>3 DEF NoReplay
<1> QED  BY <1>3, <1>4, <1>6, <1>8, <1>9, <1>10, <1>11

LEMMA OverKeeps ==
  ASSUME IInv, NEW c \in Callback, Logout(c) \/ SessionExpires(c)
  PROVE  IInv'
<1>1. /\ cpc' = cpc /\ link' = link /\ user' = user /\ earlier' = earlier
      /\ users' = users /\ sessions' = sessions /\ consumed' = consumed
      /\ links' = links /\ lpc' = lpc
  BY DEF Logout, SessionExpires, callbacks, logins
<1>2. TypeOK'
  BY <1>1 DEF IInv, TypeOK, RowsArePast, Logout, SessionExpires, buckets, logins
<1>3. LinksHaveRows' /\ RowsArePast' /\ FoundFresh'
  BY <1>1 DEF IInv, LinksHaveRows, RowsArePast, FoundFresh
<1>4. UniqueAddress' /\ HoldsAddressee'
  BY <1>1 DEF IInv, UniqueAddress, HoldsAddressee, Inserting, AddressOfUser
<1>5. SessionOwnerIsAddressee' /\ NoReplay'
  BY <1>1 DEF IInv, SessionOwnerIsAddressee, NoReplay, AddressOfUser
<1> QED  BY <1>2, <1>3, <1>4, <1>5 DEF IInv

LEMMA NextIInv == IInv /\ [Next]_vars => IInv'
<1> SUFFICES ASSUME IInv, [Next]_vars PROVE IInv'  OBVIOUS
<1>1. ASSUME NEW l \in Login,
             \/ Count(l) \/ Stamp(l) \/ RedisFails(l)
             \/ Issue(l) \/ Send(l) \/ LoginFails(l) \/ LinkLapses(l)
      PROVE  IInv'
  BY <1>1, LoginKeeps, ElsewhereKeeps
<1>2. ASSUME NEW b \in Bucket, WindowEnds(b) PROVE IInv'  BY <1>2, WindowKeeps
<1>3. ASSUME NEW c \in Callback, NEW l \in Login, Open(c, l) PROVE IInv'
  BY <1>3, OpenKeeps
<1>4. ASSUME NEW c \in Callback, SignInStep(c) \/ CallbackFails(c) PROVE IInv'
  BY <1>4, FindKeeps, InsertKeeps, CommitKeeps, EndKeeps DEF SignInStep
<1>5. ASSUME NEW c \in Callback, Logout(c) \/ SessionExpires(c) PROVE IInv'
  BY <1>5, OverKeeps
<1>6. CASE UNCHANGED vars
  <2>1. Elsewhere  BY <1>6 DEF vars, Elsewhere, callbacks, logins
  <2>2. LoginTypeOK'
    BY <1>6 DEF vars, buckets, logins, IInv, TypeOK, LinksHaveRows, LoginTypeOK
  <2> QED  BY <2>1, <2>2, ElsewhereKeeps
<1> QED  BY <1>1, <1>2, <1>3, <1>4, <1>5, <1>6 DEF Next

\* The inductive invariant holds of every reachable state, however the routes
\* of api/auth/magic_link.py interleave and fail.
THEOREM Invariance == Spec => []IInv
<1> QED  BY InitIInv, NextIInv, PTL DEF Spec

\* The types of the tables and of the requests in progress.
THEOREM TypeCorrect == Spec => []TypeOK
<1>1. IInv => TypeOK  BY DEF IInv
<1> QED  BY <1>1, Invariance, PTL

\* However many callbacks race to create a user, an address gets one.
LEMMA OneUser == Spec => []OneUserPerAddress
<1>1. IInv => OneUserPerAddress  BY DEF IInv, UniqueAddress, OneUserPerAddress
<1> QED  BY <1>1, Invariance, PTL

\* Every session is of the committed user whose address its link was mailed to.
LEMMA RightOwner == Spec => []SessionOwnerIsAddressee
<1>1. IInv => SessionOwnerIsAddressee  BY DEF IInv
<1> QED  BY <1>1, Invariance, PTL

\* However callbacks race and fail, a session is of the one user of the address
\* its link was mailed to.
THEOREM SessionsOfOneUser == Spec => []SessionsAreOfOneUser
BY OneUser, RightOwner, PTL DEF SessionsAreOfOneUser

\* A link opened after its first session was committed mints no other.
THEOREM Replayed == Spec => []NoReplay
<1>1. IInv => NoReplay  BY DEF IInv
<1> QED  BY <1>1, Invariance, PTL

\* A cookie never changes its user and never comes back from sign-out or expiry.
THEOREM SameUser == Spec => CookieKeepsItsUser
<1> DEFINE Keeps == \A c \in sessions : Identity(c)' \in {Identity(c), None}
<1>1. ASSUME IInv, [Next]_vars PROVE [Keeps]_vars
  <2>1. \A c \in sessions : cpc[c] \in Past  BY <1>1 DEF IInv, RowsArePast
  <2>2. ASSUME NEW c \in sessions
        PROVE  c \in sessions' /\ user'[c] = user[c] /\ (c \in over => c \in over')
    <3>1. user \in [Callback -> Callback \cup {None}] /\ c \in Callback
      BY <1>1, <2>2 DEF IInv, TypeOK
    <3>2. ASSUME NEW l \in Login, 
                 \/ Count(l) \/ Stamp(l) \/ RedisFails(l)
                 \/ Issue(l) \/ Send(l) \/ LoginFails(l) \/ LinkLapses(l)
          PROVE  sessions' = sessions /\ user' = user /\ over' = over
      BY <1>1, <3>2, LoginKeeps DEF Elsewhere, callbacks
    <3>3. ASSUME NEW b \in Bucket, WindowEnds(b)
          PROVE  sessions' = sessions /\ user' = user /\ over' = over
      BY <3>3 DEF WindowEnds, callbacks
    <3>4. ASSUME NEW d \in Callback, NEW l \in Login, Open(d, l)
          PROVE  sessions' = sessions /\ user' = user /\ over' = over
      BY <3>4 DEF Open
    <3>5. ASSUME NEW d \in Callback, Find(d) \/ Insert(d)
          PROVE  /\ sessions' = sessions /\ over' = over
                 /\ d # c /\ (user' = user \/ \E u : user' = [user EXCEPT ![d] = u])
      BY <2>1, <2>2, <3>5 DEF Find, Insert, Past
    <3>6. ASSUME NEW d \in Callback,
                 Commit(d) \/ Respond(d) \/ CallbackFails(d) \/ Logout(d) \/ SessionExpires(d)
          PROVE  sessions \subseteq sessions' /\ user' = user /\ over \subseteq over'
      BY <3>6 DEF Commit, Respond, CallbackFails, Logout, SessionExpires, callbacks
    <3>7. CASE UNCHANGED vars  BY <3>7 DEF vars, callbacks
    <3> QED  BY <1>1, <3>1, <3>2, <3>3, <3>4, <3>5, <3>6, <3>7 DEF Next, SignInStep
  <2> QED  BY <2>2 DEF Identity
<1>2. Spec => [][Keeps]_vars  BY <1>1, Invariance, PTL DEF Spec
<1> QED  BY <1>2 DEF CookieKeepsItsUser
=============================================================================
