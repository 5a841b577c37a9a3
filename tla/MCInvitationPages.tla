------------------------- MODULE MCInvitationPages -------------------------
(* Small instances of InvitationPages for TLC. *)
EXTENDS InvitationPages, TLC

Symmetry ==
    Permutations(Pages) \cup Permutations(Slugs \ Reserved) \cup Permutations(Contents)
        \cup Permutations(Handlers)
=============================================================================
