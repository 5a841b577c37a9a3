-------------------------- MODULE MCMediaMigration --------------------------
(* Small instances of MediaMigration for TLC. *)
EXTENDS MediaMigration, TLC

Symmetry == Permutations(Keys) \cup Permutations(Pictures)
=============================================================================
