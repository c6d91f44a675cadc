--------------------------- MODULE MCEntitlements ---------------------------
(***************************************************************************)
(* Instances of Entitlements: the user alice buys the subscription twice   *)
(* and the decision pack once; two refunds name the subscription; a        *)
(* payment names a user with no row.                                       *)
(***************************************************************************)
EXTENDS Entitlements, TLC

CONSTANTS alice, ghost, w1, w2

\* the API processes are interchangeable
Symmetry == Permutations(Worker)

Pay(type, ref, user, tier) == [type |-> type, ref |-> ref, user |-> user, tier |-> tier]

MCContent == [e \in Event |->
  CASE e = "track1"  -> Pay("checkout.session.completed", alice, ghost, "track")
    [] e = "track2"  -> Pay("invoice.payment_succeeded", None, alice, "track")
    [] e = "pack"    -> Pay("checkout.session.completed", None, alice, "decision_pack")
    [] e = "refund1" -> Pay("charge.refunded", None, alice, "track")
    [] e = "refund2" -> Pay("charge.refunded", ghost, alice, "track")
    [] e = "ghost"   -> Pay("invoice.payment_succeeded", alice, ghost, "track")
    [] e = "notier"  -> Pay("charge.refunded", None, alice, None)
    [] OTHER         -> Pay("other", None, alice, "track")]
=============================================================================
