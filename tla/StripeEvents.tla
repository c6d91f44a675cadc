---------------------------- MODULE StripeEvents ----------------------------
(***************************************************************************)
(* What a Stripe event says, and what the webhook reads out of it: the     *)
(* stateless part of the payment path (the event router and the tier       *)
(* registry), shared by the abstract ledger and the webhook model.         *)
(***************************************************************************)
EXTENDS Naturals

CONSTANTS
  Event,      \* Stripe event ids
  User,       \* ids with a row in the users table
  UserRef,    \* user ids a payload may carry: rows, strangers, unparseable text
  Content,    \* the payload of each event
  None        \* an absent field

EventType == {"checkout.session.completed", "invoice.payment_succeeded",
              "charge.refunded", "other"}

HandledEventTypes == EventType \ {"other"}

Tier == {"free", "decision_pack", "founders", "track"}

TierRank == [t \in Tier |-> CASE t = "free" -> 0
                              [] t \in {"decision_pack", "founders"} -> 1
                              [] t = "track" -> 2]

Payload == [type   : EventType,
            ref    : UserRef \cup {None},    \* client_reference_id
            user   : UserRef \cup {None},    \* metadata.user_id
            tier   : Tier \cup {None}]       \* metadata.tier, None if unknown

ASSUME ContentAssumption ==
  /\ User \subseteq UserRef
  /\ None \notin UserRef \cup Event \cup Tier
  /\ Content \in [Event -> Payload]

(***************************************************************************)
(* The checkout session names its user by client_reference_id and falls    *)
(* back to the metadata; the other types only carry the metadata.          *)
(***************************************************************************)
EventUser(e) ==
  IF Content[e].type = "checkout.session.completed" /\ Content[e].ref # None
  THEN Content[e].ref
  ELSE Content[e].user

EventTier(e) == Content[e].tier

\* route_event returns a domain event; for the other ids it returns None
Routed(e) ==
  /\ Content[e].type \in HandledEventTypes
  /\ EventUser(e) # None
  /\ EventTier(e) # None

IsRefund(e)  == Routed(e) /\ Content[e].type = "charge.refunded"
IsPayment(e) == Routed(e) /\ Content[e].type # "charge.refunded"

\* two events about the same tier of the same user
SamePurchase(e, f) == EventUser(e) = EventUser(f) /\ EventTier(e) = EventTier(f)
=============================================================================
