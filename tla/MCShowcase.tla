----------------------------- MODULE MCShowcase -----------------------------
(* A small instance of Showcase for TLC. *)
EXTENDS Showcase

CONSTANTS t1, p1

MCTemplates == {t1}
MCPurchases == {p1}
MCAsked == {"active", "reviews", t1}
MCBought == [p \in MCPurchases |-> t1]
=============================================================================
