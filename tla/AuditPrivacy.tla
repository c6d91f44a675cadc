---------------------------- MODULE AuditPrivacy ----------------------------
(***************************************************************************)
(* The privacy side of the audit tables: who may delete what and what goes *)
(* with it, and the opt-out of the regional aggregate.  An opt-out is one  *)
(* transaction of two statements at READ COMMITTED: the flip of the user's *)
(* flag, which keeps the user row locked, and the cascade over the quotes  *)
(* it sees; uploads, deletions, other opt-outs and the refresh of the      *)
(* aggregate fall between them.                                            *)
(*                                                                         *)
(* A table is the set of its rows' ids; a nullable reference is a function *)
(* over those rows.  Nothing under src/ inserts a row yet: uploads, the    *)
(* deletion of an account and the nightly refresh are external, and do     *)
(* what the schema lets them do.                                           *)
(***************************************************************************)
EXTENDS Naturals, FiniteSets

CONSTANTS
  User, Audit, Quote, Vault, None,
  OwnerOf,    \* the user an audit was saved for, or None
  VaultOf,    \* the vault row it was linked to, or None
  AuditOf,    \* installer_quotes.audit_id
  VaultOwner, \* user_pii_vault.user_id
  Parsed,     \* quotes with a bucket and a price, which the aggregate counts
  Flip        \* PATCH requests, each asked once

ASSUME SchemaAssumption ==
  /\ None \notin User \cup Vault /\ None \notin [user : User, to : BOOLEAN]
  /\ OwnerOf \in [Audit -> User \cup {None}]
  /\ VaultOf \in [Audit -> Vault \cup {None}]
  /\ AuditOf \in [Quote -> Audit]
  /\ VaultOwner \in [Vault -> User]
  /\ Parsed \subseteq Quote

VARIABLES
  users,      \* rows of users
  optOut,     \* of them, those with aggregation_opt_out
  owner,      \* audits.user_id, over the rows of audits
  link,       \* audits.user_pii_vault_id
  quotes,     \* rows of installer_quotes
  optIn,      \* of them, those with aggregation_opt_in
  vaults,     \* rows of user_pii_vault
  uploaded,   \* quotes that have been inserted: an id is not used again
  region,     \* what the last refresh of region_pricing_aggregates read
  pc,         \* where each PATCH is
  job,        \* its user and the value it sets
  asked,      \* the quotes its user had when it came in
  staged,     \* the quotes its open cascade has updated, and locks
  promised    \* quotes an answered opt-out has taken out

tables == <<users, optOut, owner, link, quotes, optIn, vaults>>
vars == <<tables, uploaded, region, pc, job, asked, staged, promised>>

Owned(u) == {a \in DOMAIN owner : owner[a] = u}

QuotesOf(u) == {q \in quotes : owner[AuditOf[q]] = u}

Job == [user : User, to : BOOLEAN]

Init ==
  /\ users = User /\ optOut = {}
  /\ owner = OwnerOf /\ link = VaultOf
  /\ quotes = {} /\ optIn = {}
  /\ vaults = Vault
  /\ uploaded = {}
  /\ region = [view |-> {}, promised |-> {}]
  /\ pc = [f \in Flip |-> "idle"]
  /\ job = [f \in Flip |-> None]
  /\ asked = [f \in Flip |-> {}]
  /\ staged = [f \in Flip |-> {}]
  /\ promised = {}

----------------------------------------------------------------------------
\* set_user_aggregation_opt_out

\* the session names the user: an anonymous caller is refused with a 401
Ask(f, u, to) ==
  /\ pc[f] = "idle" /\ u \in users
  /\ pc' = [pc EXCEPT ![f] = "flip"]
  /\ job' = [job EXCEPT ![f] = [user |-> u, to |-> to]]
  /\ asked' = [asked EXCEPT ![f] = QuotesOf(u)]
  /\ UNCHANGED <<tables, uploaded, region, staged, promised>>

\* the committed row the UPDATE's WHERE finds: it is_not(opt_out)
Matches(f) ==
  /\ job[f].user \in users
  /\ (job[f].user \in optOut) # job[f].to

Open(f) == pc[f] \in {"cascade", "commit"}

\* mutant of Locked: the session goes back to its pool without a commit
LockedForGood(u) == \E f \in Flip : pc[f] \notin {"idle", "flip", "failed"} /\ job[f].user = u

\* the row lock the first UPDATE of an open transaction keeps
Locked(u) == \E f \in Flip : Open(f) /\ job[f].user = u

\* mutant of FlipUser: the flag is committed on its own
FlipUserCommits(f) ==
  /\ pc[f] = "flip" /\ Matches(f) /\ ~Locked(job[f].user)
  /\ optOut' = IF job[f].to THEN optOut \cup {job[f].user} ELSE optOut \ {job[f].user}
  /\ pc' = [pc EXCEPT ![f] = IF job[f].to THEN "cascade" ELSE "commit"]
  /\ UNCHANGED <<users, owner, link, quotes, optIn, vaults,
                 uploaded, region, job, asked, staged, promised>>

FlipUser(f) ==
  /\ pc[f] = "flip" /\ Matches(f) /\ ~Locked(job[f].user)
  /\ pc' = [pc EXCEPT ![f] = IF job[f].to THEN "cascade" ELSE "commit"]
  /\ UNCHANGED <<tables, uploaded, region, job, asked, staged, promised>>

\* no row to update: the flag had the value already, or the account is gone
NoChange(f) ==
  /\ pc[f] = "flip" /\ ~Matches(f)
  /\ pc' = [pc EXCEPT ![f] = "answered"]
  /\ UNCHANGED <<tables, uploaded, region, job, asked, staged, promised>>

\* the UPDATE of installer_quotes sees what is committed when it runs
Cascade(f) ==
  /\ pc[f] = "cascade"
  /\ staged' = [staged EXCEPT ![f] = QuotesOf(job[f].user) \cap optIn]
  /\ pc' = [pc EXCEPT ![f] = "commit"]
  /\ UNCHANGED <<tables, uploaded, region, job, asked, promised>>

\* mutant of Commit: opting back in resumes what was sent before
CommitResumes(f) ==
  LET u == job[f].user IN
  /\ pc[f] = "commit"
  /\ optOut' = IF job[f].to THEN optOut \cup {u} ELSE optOut \ {u}
  /\ optIn' = IF job[f].to THEN optIn \ staged[f] ELSE optIn \cup QuotesOf(u)
  /\ promised' = IF job[f].to THEN promised \cup asked[f] ELSE promised
  /\ pc' = [pc EXCEPT ![f] = "answered"]
  /\ staged' = [staged EXCEPT ![f] = {}]
  /\ UNCHANGED <<users, owner, link, quotes, vaults, uploaded, region, job, asked>>

\* the commit, and the answer it allows
Commit(f) ==
  LET u == job[f].user IN
  /\ pc[f] = "commit"
  /\ optOut' = IF job[f].to THEN optOut \cup {u} ELSE optOut \ {u}
  /\ optIn' = optIn \ staged[f]
  /\ promised' = IF job[f].to THEN promised \cup asked[f] ELSE promised
  /\ pc' = [pc EXCEPT ![f] = "answered"]
  /\ staged' = [staged EXCEPT ![f] = {}]
  /\ UNCHANGED <<users, owner, link, quotes, vaults, uploaded, region, job, asked>>

\* a statement raises or the process dies, and the transaction with it
Abort(f) ==
  /\ pc[f] \in {"flip", "cascade", "commit"}
  /\ pc' = [pc EXCEPT ![f] = "failed"]
  /\ staged' = [staged EXCEPT ![f] = {}]
  /\ UNCHANGED <<tables, uploaded, region, job, asked, promised>>

----------------------------------------------------------------------------
\* deletions, and what the foreign keys take along

Drop(gone) ==
  /\ owner' = [a \in DOMAIN owner \ gone |-> owner[a]]
  /\ link' = [a \in DOMAIN owner \ gone |-> link[a]]
  /\ quotes' = {q \in quotes : AuditOf[q] \notin gone}
  /\ optIn' = {q \in optIn : AuditOf[q] \notin gone}

\* a quote an open cascade has updated cannot be deleted before it ends
Unlocked(a) == \A f \in Flip : \A q \in staged[f] : AuditOf[q] # a

\* delete_audit_owned_by: its quotes go with it, the vault row stays
DeleteAudit(u, a) ==
  /\ u \in users /\ a \in Owned(u) /\ Unlocked(a)
  /\ Drop({a})
  /\ UNCHANGED <<users, optOut, vaults, uploaded, region, pc, job, asked, staged, promised>>

\* mutant of Unlink: the vault's column is not a foreign key
UnlinkNothing(gone) == link' = link

\* ON DELETE SET NULL of audits.user_pii_vault_id
Unlink(gone) == link' = [a \in DOMAIN owner |-> IF link[a] \in gone THEN None ELSE link[a]]

VaultsOf(u) == {v \in vaults : VaultOwner[v] = u}

\* delete_pii_vault_for_user: a sweep
DeletePii(u) ==
  /\ u \in users /\ VaultsOf(u) # {}
  /\ vaults' = vaults \ VaultsOf(u)
  /\ Unlink(VaultsOf(u))
  /\ UNCHANGED <<users, optOut, owner, quotes, optIn, uploaded, region,
                 pc, job, asked, staged, promised>>

\* mutant of DeleteAccount: audits go with the account
DeleteAccountCascades(u) ==
  /\ u \in users /\ ~Locked(u)
  /\ users' = users \ {u} /\ optOut' = optOut \ {u} /\ vaults' = vaults \ VaultsOf(u)
  /\ Drop(Owned(u))
  /\ UNCHANGED <<uploaded, region, pc, job, asked, staged, promised>>

\* the users row goes: CASCADE on the vault, SET NULL on the audits
DeleteAccount(u) ==
  /\ u \in users /\ ~Locked(u)
  /\ users' = users \ {u} /\ optOut' = optOut \ {u}
  /\ vaults' = vaults \ VaultsOf(u)
  /\ owner' = [a \in DOMAIN owner |-> IF owner[a] = u THEN None ELSE owner[a]]
  /\ Unlink(VaultsOf(u))
  /\ UNCHANGED <<quotes, optIn, uploaded, region, pc, job, asked, staged, promised>>

----------------------------------------------------------------------------
\* uploads and the aggregate

\* a new quote is opted in by the column default, whatever its owner's flag;
\* the key it takes on its audit does not wait for an opt-out
Upload(q) ==
  /\ q \notin uploaded /\ AuditOf[q] \in DOMAIN owner
  /\ uploaded' = uploaded \cup {q}
  /\ quotes' = quotes \cup {q} /\ optIn' = optIn \cup {q}
  /\ UNCHANGED <<users, optOut, owner, link, vaults, region,
                 pc, job, asked, staged, promised>>

\* the view's WHERE
Counted == optIn \cap Parsed

\* REFRESH reads a snapshot; with it, what was promised
Refresh ==
  /\ region' = [view |-> Counted, promised |-> promised]
  /\ UNCHANGED <<tables, uploaded, pc, job, asked, staged, promised>>

Flipping(f) == FlipUser(f) \/ NoChange(f) \/ Cascade(f) \/ Commit(f)

Next ==
  \/ \E f \in Flip : Flipping(f) \/ Abort(f) \/ \E u \in User, to \in BOOLEAN : Ask(f, u, to)
  \/ \E u \in User : DeletePii(u) \/ DeleteAccount(u) \/ \E a \in Audit : DeleteAudit(u, a)
  \/ \E q \in Quote : Upload(q)
  \/ Refresh

Spec == Init /\ [][Next]_vars

\* a request that was taken runs on
FairSpec == Spec /\ \A f \in Flip : WF_vars(Flipping(f))

----------------------------------------------------------------------------
\* Properties

Snapshot == [view : SUBSET Quote, promised : SUBSET Quote]

\* The types, with the foreign keys: whatever was deleted, and in whatever
\* order, no reference is left pointing at a row that is gone.
TypeOK ==
  /\ users \subseteq User /\ optOut \subseteq users
  /\ DOMAIN owner \subseteq Audit
  /\ owner \in [DOMAIN owner -> users \cup {None}]
  /\ link \in [DOMAIN owner -> vaults \cup {None}]
  /\ quotes \subseteq uploaded /\ uploaded \subseteq Quote
  /\ \A q \in quotes : AuditOf[q] \in DOMAIN owner
  /\ optIn \subseteq quotes
  /\ vaults \subseteq Vault /\ \A v \in vaults : VaultOwner[v] \in users
  /\ region \in Snapshot
  /\ pc \in [Flip -> {"idle", "flip", "cascade", "commit", "answered", "failed"}]
  /\ job \in [Flip -> Job \cup {None}]
  /\ \A f \in Flip : pc[f] # "idle" => job[f] # None
  /\ asked \in [Flip -> SUBSET uploaded] /\ staged \in [Flip -> SUBSET quotes]
  /\ promised \subseteq uploaded

\* What an answered opt-out covered, everything the user had sent when they
\* asked, is out for good: no later flip, by whichever request and in
\* whatever order they commit, brings it back, and no refresh that starts
\* after the answer counts it ("the next aggregate refresh excludes them").
PromiseKept ==
  /\ promised \cap optIn = {}
  /\ region.view \cap region.promised = {}

\* The flag and the cascade become visible in one step: a user is never seen
\* as opted out while a quote they had when they asked still counts, so a
\* retry that finds the flag set, and does nothing, has nothing left to do;
\* and a quote is taken out only by its own user's opt-out.
OptOutIsAtomic ==
  [][/\ \A u \in optOut' \ optOut :
          \E f \in Flip : job[f] = [user |-> u, to |-> TRUE] /\ asked[f] \cap optIn' = {}
     /\ \A q \in (optIn \ optIn') \cap quotes' : owner[AuditOf[q]] \in optOut' \ optOut]_vars

\* Purges take what they say and no more: an audit goes only from an owner,
\* and with it its quotes and nothing else; a purge of personal data, and
\* of a whole account, leaves every audit and quote and removes every vault
\* row of that user; an audit changes hands only by losing an owner who left.
PurgesAreScoped ==
  [][/\ \A a \in DOMAIN owner \ DOMAIN owner' : owner[a] \in users /\ vaults' = vaults
     /\ \A a \in DOMAIN owner \cap DOMAIN owner' :
          owner'[a] # owner[a] => owner'[a] = None /\ owner[a] \notin users'
     /\ \A q \in quotes \ quotes' : AuditOf[q] \notin DOMAIN owner'
     /\ \A v \in vaults \ vaults' :
          /\ DOMAIN owner' = DOMAIN owner /\ quotes' = quotes
          /\ \A w \in vaults' : VaultOwner[w] # VaultOwner[v]]_vars

\* Every PATCH is answered or fails: a lock is always given back.
EveryFlipEnds ==
  \A f \in Flip : pc[f] = "flip" ~> pc[f] \in {"answered", "failed"}
=============================================================================
