------------------------- MODULE MCOrderToInvitation -------------------------
(* A small instance of OrderToInvitation for TLC. *)
EXTENDS OrderToInvitation, TLC

\* ids, slugs, phones and handlers are only ever compared for equality
Symmetry == Permutations(RequestIds) \cup Permutations(Slugs) \cup Permutations(Phones)
                \cup Permutations(Handlers)
=============================================================================
