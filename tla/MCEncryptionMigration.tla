----------------------- MODULE MCEncryptionMigration -----------------------
(* Small instances of EncryptionMigration. *)
EXTENDS EncryptionMigration, TLC
Symmetry == Permutations(Workers)
=============================================================================
