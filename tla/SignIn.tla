------------------------------- MODULE SignIn -------------------------------
(***************************************************************************)
(* Password-less sign-in.  POST /auth/login counts the request in two      *)
(* Redis buckets, commits a magic link and mails it; GET /auth/callback    *)
(* consumes the link, creates the user of its address if need be and       *)
(* mints a session; POST /auth/logout revokes it; the session middleware   *)
(* turns the cookie of a request into a user.  Statements of one           *)
(* transaction that other transactions can come between are steps of their *)
(* own.  Time is abstracted to the expiries: a link, a session or a bucket *)
(* may expire at any moment after it was written.                          *)
(***************************************************************************)
EXTENDS Naturals, FiniteSets

CONSTANTS
  Login,        \* POST /auth/login requests; a link has the name of its login
  Address,      \* normalised e-mail addresses
  AddressOf,    \* the address each login asks for
  Callback,     \* GET /auth/callback requests; a session, and a user row, has
                \* the name of the callback that inserted it
  Ip,           \* the peer address all these logins come from
  None,
  IpLimit,      \* LOGIN_PER_IP_LIMIT
  EmailLimit,   \* LOGIN_PER_EMAIL_LIMIT
  MaxFailures   \* bound: Redis errors, e-mail errors and killed processes

Bucket == Address \cup {Ip}

ASSUME SignInAssumption ==
  /\ AddressOf \in [Login -> Address]
  /\ Ip \notin Address /\ None \notin Login \cup Callback
  /\ IpLimit \in Nat \ {0} /\ EmailLimit \in Nat \ {0}
  /\ MaxFailures \in Nat

VARIABLES
  hits,      \* Redis: the counter of each bucket
  ttl,       \* Redis: the buckets whose key has a TTL
  lpc,       \* where each login is in its route
  links,     \* rows of magic_links
  consumed,  \* those with a consumed_at
  lapsed,    \* those whose expires_at has passed
  cpc,       \* where each callback is in its route
  link,      \* the link it was opened with
  user,      \* the users row it works with, by the callback that inserted it
  earlier,   \* history: the sessions there were when it read its link
  users,     \* committed rows of users
  sessions,  \* rows of sessions
  over,      \* sessions that are revoked or have expired
  failures

buckets   == <<hits, ttl>>
logins    == <<lpc, links, lapsed>>
callbacks == <<cpc, link, user, earlier, users, sessions, consumed>>
vars      == <<buckets, logins, callbacks, over, failures>>

----------------------------------------------------------------------------
Init ==
  /\ hits = [b \in Bucket |-> 0] /\ ttl = {}
  /\ lpc = [l \in Login |-> "ip"] /\ links = {} /\ lapsed = {}
  /\ cpc = [c \in Callback |-> "new"]
  /\ link = [c \in Callback |-> None] /\ user = [c \in Callback |-> None]
  /\ earlier = [c \in Callback |-> {}]
  /\ users = {} /\ sessions = {} /\ consumed = {} /\ over = {}
  /\ failures = 0

Fault == failures < MaxFailures /\ failures' = failures + 1

----------------------------------------------------------------------------
\* the throttles: the bucket a login is being counted in, and what is next

BucketOf(l) == IF lpc[l] \in {"ip", "ip ttl"} THEN Ip ELSE AddressOf[l]
Limit(b)    == IF b = Ip THEN IpLimit ELSE EmailLimit
Counting    == {"ip", "email"}
Stamping    == {"ip ttl", "email ttl"}
Allowed(l)  == IF lpc[l] \in {"ip", "ip ttl"} THEN "email" ELSE "issue"

\* mutant of FirstHit: the hit that fills the bucket stamps it
FirstHitAtLimit(b) == hits[b] + 1 > Limit(b)

\* count == 1: this request's increment created the key
FirstHit(b) == hits[b] = 0

\* INCR, and the verdict unless EXPIRE comes first
Count(l) ==
  LET b == BucketOf(l) IN
  /\ lpc[l] \in Counting
  /\ hits' = [hits EXCEPT ![b] = @ + 1]
  /\ lpc' = [lpc EXCEPT ![l] =
       IF FirstHit(b) THEN IF b = Ip THEN "ip ttl" ELSE "email ttl"
       ELSE IF hits[b] + 1 <= Limit(b) THEN Allowed(l) ELSE "refused"]
  /\ UNCHANGED <<ttl, links, lapsed, callbacks, over, failures>>

\* EXPIRE, after the first hit, which is within every limit
Stamp(l) ==
  /\ lpc[l] \in Stamping
  /\ ttl' = ttl \cup {BucketOf(l)}
  /\ lpc' = [lpc EXCEPT ![l] = Allowed(l)]
  /\ UNCHANGED <<hits, links, lapsed, callbacks, over, failures>>

\* either command raises, carried out or not: the limiter fails open
RedisFails(l) ==
  /\ Fault
  /\ \/ lpc[l] \in Counting \cup Stamping /\ UNCHANGED buckets
     \/ /\ lpc[l] \in Counting
        /\ hits' = [hits EXCEPT ![BucketOf(l)] = @ + 1]
        /\ UNCHANGED ttl
     \/ /\ lpc[l] \in Stamping
        /\ ttl' = ttl \cup {BucketOf(l)}
        /\ UNCHANGED hits
  /\ lpc' = [lpc EXCEPT ![l] = Allowed(l)]
  /\ UNCHANGED <<links, lapsed, callbacks, over>>

WindowEnds(b) ==
  /\ b \in ttl
  /\ hits' = [hits EXCEPT ![b] = 0]
  /\ ttl' = ttl \ {b}
  /\ UNCHANGED <<logins, callbacks, over, failures>>

----------------------------------------------------------------------------
\* issue_magic_link commits the row; the e-mail goes out after the session

Issue(l) ==
  /\ lpc[l] = "issue"
  /\ links' = links \cup {l}
  /\ lpc' = [lpc EXCEPT ![l] = "send"]
  /\ UNCHANGED <<buckets, lapsed, callbacks, over, failures>>

\* the provider accepts the message, whether or not its answer comes back
Send(l) ==
  /\ lpc[l] = "send"
  /\ lpc' = [lpc EXCEPT ![l] = "sent"]
  /\ UNCHANGED <<buckets, links, lapsed, callbacks, over, failures>>

\* the insert or the send raises, or the process dies, anywhere in the route
\* before the message is out
LoginFails(l) ==
  /\ lpc[l] \notin {"sent", "refused", "failed"}
  /\ Fault
  /\ lpc' = [lpc EXCEPT ![l] = "failed"]
  /\ UNCHANGED <<buckets, links, lapsed, callbacks, over>>

LinkLapses(l) ==
  /\ l \in links \ lapsed
  /\ lapsed' = lapsed \cup {l}
  /\ UNCHANGED <<buckets, lpc, links, callbacks, over, failures>>

----------------------------------------------------------------------------
AddressOfUser(u) == AddressOf[link[u]]

\* mutant of Inserting: a rolled-back insert keeps its place in the index
InsertingForEver == {c \in Callback : cpc[c] \in {"commit", "error"} /\ user[c] = c}

\* callbacks with a flushed, uncommitted users row
Inserting == {c \in Callback : cpc[c] = "commit" /\ user[c] = c}

\* the rows a SELECT returns
Visible == users

\* the callback reads its link and refuses a used or expired one (410)
Open(c, l) ==
  /\ cpc[c] = "new" /\ lpc[l] = "sent"
  /\ link' = [link EXCEPT ![c] = l]
  /\ earlier' = [earlier EXCEPT ![c] = sessions]
  /\ cpc' = [cpc EXCEPT ![c] = IF l \in consumed \cup lapsed THEN "gone" ELSE "find"]
  /\ UNCHANGED <<buckets, logins, user, users, sessions, consumed, over, failures>>

\* SELECT the user of the link's address
Find(c) ==
  /\ cpc[c] = "find"
  /\ \/ \E u \in Visible :
          /\ AddressOfUser(u) = AddressOf[link[c]]
          /\ user' = [user EXCEPT ![c] = u]
          /\ cpc' = [cpc EXCEPT ![c] = "commit"]
     \/ /\ \A u \in Visible : AddressOfUser(u) # AddressOf[link[c]]
        /\ cpc' = [cpc EXCEPT ![c] = "insert"]
        /\ UNCHANGED user
  /\ UNCHANGED <<buckets, logins, link, earlier, users, sessions, consumed,
                 over, failures>>

\* mutant of Taken: users.email without its unique constraint
TakenNever(a) == FALSE

Taken(a) == \E u \in users : AddressOfUser(u) = a

(***************************************************************************)
(* The flush inserts the user.  The unique index makes it wait for an      *)
(* uncommitted row of the same address, and raise (500) when that row is   *)
(* committed.                                                              *)
(***************************************************************************)
Insert(c) ==
  LET a == AddressOf[link[c]] IN
  /\ cpc[c] = "insert"
  /\ \A d \in Inserting : AddressOfUser(d) # a
  /\ IF Taken(a)
     THEN cpc' = [cpc EXCEPT ![c] = "error"] /\ UNCHANGED user
     ELSE /\ cpc' = [cpc EXCEPT ![c] = "commit"]
          /\ user' = [user EXCEPT ![c] = c]
  /\ UNCHANGED <<buckets, logins, link, earlier, users, sessions, consumed,
                 over, failures>>

\* mutant of Used: consumed_at is not written
UsedNever(c) == {}

Used(c) == {link[c]}

\* the commit stamps the link, inserts the session and keeps a flushed user
Commit(c) ==
  /\ cpc[c] = "commit"
  /\ users' = users \cup (Inserting \cap {c})
  /\ sessions' = sessions \cup {c}
  /\ consumed' = consumed \cup Used(c)
  /\ cpc' = [cpc EXCEPT ![c] = "respond"]
  /\ UNCHANGED <<buckets, logins, link, user, earlier, over, failures>>

\* mutant of Respond: the cookie is set before the commit, or without it
RespondEarly(c) ==
  /\ cpc[c] \in {"commit", "respond"}
  /\ cpc' = [cpc EXCEPT ![c] = "done"]
  /\ UNCHANGED <<buckets, logins, link, user, earlier, users, sessions,
                 consumed, over, failures>>

\* the browser has the cookie
Respond(c) ==
  /\ cpc[c] = "respond"
  /\ cpc' = [cpc EXCEPT ![c] = "done"]
  /\ UNCHANGED <<buckets, logins, link, user, earlier, users, sessions,
                 consumed, over, failures>>

\* before the commit everything is rolled back; after it the answer is lost
CallbackFails(c) ==
  /\ cpc[c] \in {"find", "insert", "commit", "respond"}
  /\ Fault
  /\ cpc' = [cpc EXCEPT ![c] = "error"]
  /\ UNCHANGED <<buckets, logins, link, user, earlier, users, sessions,
                 consumed, over>>

\* mutant of Logout: the sign-out flips a mark where it should set it
LogoutFlips(c) ==
  /\ cpc[c] = "done"
  /\ over' = IF c \in over THEN over \ {c} ELSE over \cup {c}
  /\ UNCHANGED <<buckets, logins, callbacks, failures>>

\* revoke_session, for the browser that holds the cookie
Logout(c) ==
  /\ cpc[c] = "done" /\ c \notin over
  /\ over' = over \cup {c}
  /\ UNCHANGED <<buckets, logins, callbacks, failures>>

SessionExpires(c) ==
  /\ c \in sessions \ over
  /\ over' = over \cup {c}
  /\ UNCHANGED <<buckets, logins, callbacks, failures>>

----------------------------------------------------------------------------
SignInStep(c) == Find(c) \/ Insert(c) \/ Commit(c) \/ Respond(c)

Next ==
  \/ \E l \in Login : \/ Count(l) \/ Stamp(l) \/ RedisFails(l)
                      \/ Issue(l) \/ Send(l) \/ LoginFails(l) \/ LinkLapses(l)
  \/ \E b \in Bucket : WindowEnds(b)
  \/ \E c \in Callback : \/ \E l \in Login : Open(c, l)
                         \/ SignInStep(c) \/ CallbackFails(c)
                         \/ Logout(c) \/ SessionExpires(c)

Spec == Init /\ [][Next]_vars

\* requests that have begun run on, and Redis drops keys at the end of a TTL
Fairness ==
  /\ \A l \in Login : WF_vars(Stamp(l))
  /\ \A b \in Bucket : WF_vars(WindowEnds(b))
  /\ \A c \in Callback : WF_vars(SignInStep(c))

FairSpec == Spec /\ Fairness

----------------------------------------------------------------------------
\* whom the session middleware takes the holder of session c for
Identity(c) == IF c \in sessions \ over THEN user[c] ELSE None

LoginPhase == Counting \cup Stamping \cup
              {"issue", "send", "sent", "refused", "failed"}

CallbackPhase ==
  {"new", "gone", "find", "insert", "commit", "respond", "done", "error"}

\* The type invariant.
TypeOK ==
  /\ hits \in [Bucket -> Nat] /\ ttl \subseteq Bucket
  /\ lpc \in [Login -> LoginPhase]
  /\ links \subseteq Login /\ lapsed \subseteq links /\ consumed \subseteq links
  /\ cpc \in [Callback -> CallbackPhase]
  /\ link \in [Callback -> Login \cup {None}]
  /\ user \in [Callback -> Callback \cup {None}]
  /\ earlier \in [Callback -> SUBSET Callback]
  /\ users \subseteq Callback /\ sessions \subseteq Callback /\ over \subseteq sessions
  /\ failures \in Nat

\* No two users share an address, though each callback looks before it inserts
\* ("the SELECT before INSERT race is benign", services/auth_service.py).
OneUserPerAddress ==
  \A u, v \in users : AddressOfUser(u) = AddressOfUser(v) => u = v

\* A session belongs to a committed user row, whose address is the one its link
\* was mailed to, whoever created that row and whatever was rolled back since.
SessionOwnerIsAddressee ==
  \A c \in sessions :
    /\ link[c] \in links
    /\ user[c] \in users
    /\ AddressOfUser(user[c]) = AddressOf[link[c]]

\* A session is of the one user of the address its link was mailed to.
SessionsAreOfOneUser == OneUserPerAddress /\ SessionOwnerIsAddressee

\* A callback that opens a link when it already has a session mints no other
\* ("so a replay (intentional or accidental) bounces").
NoReplay ==
  \A c, d \in sessions : link[c] = link[d] => c \notin earlier[d]

\* The cookie of a session never stands for another user than at first, and
\* never works again once the session was revoked or has expired.
CookieKeepsItsUser ==
  [][\A c \in sessions : Identity(c)' \in {Identity(c), None}]_vars

\* a counter without a TTL that no request is about to set
Stuck(b) ==
  /\ hits[b] > 0 /\ b \notin ttl
  /\ \A l \in Login : lpc[l] \in Stamping => BucketOf(l) # b

\* A full bucket empties again, so that its callers are let in again, unless a
\* fault has come between the INCR and the EXPIRE of its first hit.
ThrottleReopens ==
  \A b \in Bucket :
    hits[b] >= Limit(b) ~> hits[b] = 0 \/ (Stuck(b) /\ failures > 0)

\* Every callback that accepts its link is answered, with a session or an
\* error: waiting on each other's users row does not keep any of them for ever.
EveryCallbackEnds ==
  \A c \in Callback : cpc[c] = "find" ~> cpc[c] \in {"done", "error"}
=============================================================================
