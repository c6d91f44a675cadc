-------------------------- MODULE EntitlementLedger --------------------------
(***************************************************************************)
(* What the payment path promises, with no handlers, transactions or       *)
(* redeliveries: every Stripe event takes effect at most once, a payment   *)
(* activates a grant of its own user and tier, and a refund ends at most   *)
(* one active grant, of its own user and tier.                             *)
(***************************************************************************)
EXTENDS StripeEvents

VARIABLES
  active,     \* payments whose grant is in force
  used        \* events that have had their one chance to take effect

vars == <<active, used>>

Init == active = {} /\ used = {}

Activate(e) ==
  /\ e \notin used
  /\ IsPayment(e)
  /\ EventUser(e) \in User
  /\ active' = active \cup {e}
  /\ used' = used \cup {e}

Withdraw(r) ==
  /\ r \notin used
  /\ IsRefund(r)
  /\ \E e \in active : SamePurchase(e, r) /\ active' = active \ {e}
  /\ used' = used \cup {r}

\* the event is ignored, refused, or lost with the process that handled it
Discard(e) ==
  /\ e \notin used
  /\ used' = used \cup {e}
  /\ UNCHANGED active

Next == \E e \in Event : Activate(e) \/ Withdraw(e) \/ Discard(e)

Spec == Init /\ [][Next]_vars
=============================================================================
