------------------------ MODULE MCInvitationGallery ------------------------
(* Small instances of InvitationGallery for TLC. *)
EXTENDS InvitationGallery, TLC

Symmetry == Permutations(Files) \cup Permutations(Handlers)
=============================================================================
