------------------------------ MODULE MCSignIn ------------------------------
(***************************************************************************)
(* An instance of SignIn: two logins for ann from one peer, and callbacks  *)
(* that may open any link that was mailed; bob has not asked for one.      *)
(***************************************************************************)
EXTENDS SignIn

CONSTANTS ann, bob, c1, c2, ip

MCAddressOf == [l \in Login |-> ann]
=============================================================================
