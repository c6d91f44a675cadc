-------------------------------- MODULE Retry --------------------------------
(***************************************************************************)
(* The retry loop and the circuit breaker that every outbound HTTP call    *)
(* goes through (infra/retry.py), as operators on the record of one call   *)
(* and on the breaker of one service.  The modules of the callers say when *)
(* an attempt ends, and how.                                               *)
(***************************************************************************)
EXTENDS Naturals

CONSTANTS
  MaxAttempts,  \* RetryConfig.max_attempts
  Threshold,    \* RetryConfig.breaker_threshold
  Cooldown,     \* RetryConfig.breaker_cooldown_s, in ticks of the clock
  None

ASSUME RetryAssumption ==
  /\ MaxAttempts \in Nat \ {0} /\ Threshold \in Nat \ {0} /\ Cooldown \in Nat
  /\ None \notin Nat

----------------------------------------------------------------------------
\* A breaker counts consecutive failures, no further than Threshold, and knows
\* how long ago it opened: None while closed, no more than Cooldown.

Breaker == [failures : 0..Threshold, openFor : 0..Cooldown \cup {None}]

Closed == [failures |-> 0, openFor |-> None]

BeforeCall(b) == b.openFor \in {None, Cooldown}

\* mutant of RecordSuccess: closes, but goes on counting
RecordSuccessKeeps(b) == [b EXCEPT !.openFor = None]

RecordSuccess(b) == Closed

RecordFailure(b) ==
  IF b.failures + 1 >= Threshold THEN [failures |-> Threshold, openFor |-> 0]
  ELSE [b EXCEPT !.failures = @ + 1]

\* one tick later
OlderBreaker(b) ==
  IF b.openFor \in {None, Cooldown} THEN b ELSE [b EXCEPT !.openFor = @ + 1]

----------------------------------------------------------------------------
\* A call, from the entry of the wrapper to its return or its exception.

Running == {"trying", "sleeping"}

\* "malformed": the response arrived and its parser raised, which is outside
\* the wrapper and neither retried nor held against the service
Ended == {"answered", "malformed", "exhausted", "refused", "cancelled"}

Call == [pc : {"idle"} \cup Running \cup Ended, attempt : 1..MaxAttempts]

NoCall == [pc |-> "idle", attempt |-> 1]

\* the breaker is asked once, at the entry
Begun(b) == [pc |-> IF BeforeCall(b) THEN "trying" ELSE "refused", attempt |-> 1]

AfterFailure(c) ==
  [c EXCEPT !.pc = IF c.attempt = MaxAttempts THEN "exhausted" ELSE "sleeping"]

Woken(c) == [pc |-> "trying", attempt |-> c.attempt + 1]

AfterResponse(c, parses) ==
  [c EXCEPT !.pc = IF parses THEN "answered" ELSE "malformed"]

Cancelled(c) == IF c.pc \in Running THEN [c EXCEPT !.pc = "cancelled"] ELSE c
=============================================================================
