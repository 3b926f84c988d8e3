---------------------------- MODULE MCVaultFile ----------------------------
(* Two processes, two passphrases, one name. *)
EXTENDS VaultFile, TLC

CONSTANTS p, q

MCSymmetry == Permutations({p, q})
=============================================================================
