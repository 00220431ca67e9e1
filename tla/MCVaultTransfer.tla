--------------------------- MODULE MCVaultTransfer --------------------------
(* Instances of VaultTransfer for TLC: a folder and one item in it.        *)
EXTENDS VaultTransfer, TLC

CONSTANTS a1, a2, s1, s2, folder, item

FolderAndItem == <<folder, item>>
ItemInFolder == (folder :> Nothing) @@ (item :> folder)

\* Files and accounts are interchangeable.
Symmetry == Permutations(Sources) \cup Permutations(Accounts)

=============================================================================
