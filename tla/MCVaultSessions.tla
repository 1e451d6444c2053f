-------------------------- MODULE MCVaultSessions --------------------------
(***************************************************************************)
(* Instances of VaultSessions for TLC.                                     *)
(***************************************************************************)
EXTENDS VaultSessions, TLC

Interchangeable ==
  Permutations(Session) \cup Permutations(Seed) \cup Permutations(Alias)
=============================================================================
