----------------------- MODULE VaultMutationRefinement -----------------------
(***************************************************************************)
(* The coordinator implements WriteAheadVault: its calls are the writes    *)
(* that may be issued, and a refresh is the step that publishes the answer *)
(* of a sync or of a reconciliation, which the server gave earlier.        *)
(***************************************************************************)
EXTENDS VaultMutationCoordinator

Abstract == INSTANCE WriteAheadVault WITH Writes <- Tasks, marked <- durable

(* Every behaviour of the lanes, with failures, writes that take effect    *)
(* late, invalidations, lane deletions and restarts, is one of the write-  *)
(* ahead promise: marker first, none issued over a write that no published *)
(* copy follows, marker kept until one does (executeMutation, requestSync).*)
ImplementsWriteAhead == Abstract!Spec
=============================================================================
