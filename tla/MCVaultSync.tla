----------------------------- MODULE MCVaultSync -----------------------------
(* The names of an instance of VaultSync for TLC.                          *)
EXTENDS VaultSync, TLC

CONSTANTS a1, a2, timed, asked

=============================================================================
