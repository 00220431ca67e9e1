---------------------------- MODULE MCVaultMutation ----------------------------
(* Instances of VaultMutationCoordinator for TLC: model values for          *)
(* accounts, calls and lane objects, which the specification only compares. *)
EXTENDS VaultMutationRefinement, TLC

\* Calls are interchangeable; lane objects are not, as one is chosen.
Symmetry == Permutations(Tasks)
================================================================================
