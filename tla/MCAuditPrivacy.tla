--------------------------- MODULE MCAuditPrivacy ---------------------------
(***************************************************************************)
(* Ann and Bob each have an audit with a quote, Ann two vault rows and Bob *)
(* one, and one audit is anonymous.                                        *)
(***************************************************************************)
EXTENDS AuditPrivacy

CONSTANTS ann, bob, audit1, audit2, audit3, q1, q2, old, new, bobs

MCOwnerOf == [a \in Audit |-> IF a = audit1 THEN ann ELSE IF a = audit2 THEN bob ELSE None]
MCVaultOf == [a \in Audit |-> IF a = audit1 THEN old ELSE IF a = audit2 THEN bobs ELSE None]
MCAuditOf == [q \in Quote |-> IF q = q2 THEN audit2 ELSE audit1]
MCVaultOwner == [v \in Vault |-> IF v = bobs THEN bob ELSE ann]
=============================================================================
