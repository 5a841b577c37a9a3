------------------------- MODULE MCPurchaseRequests -------------------------
(* Small instances of PurchaseRequests for TLC. *)
EXTENDS PurchaseRequests, TLC

\* ids, slugs, phones and handlers are only ever compared for equality
Symmetry == Permutations(RequestIds) \cup Permutations(Slugs) \cup Permutations(Phones)
                \cup Permutations(Handlers)
=============================================================================
