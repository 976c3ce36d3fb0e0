---------------------------- MODULE MCVaultKeys -----------------------------
(***************************************************************************)
(* The key pairs of ResVault alone, to compare appendKeyPairs with its     *)
(* comment.                                                                *)
(***************************************************************************)
EXTENDS ResVaultKeys

\* A file that lists the only pair of another wallet twice.
MCUploads == {<<101, 101>>}

=============================================================================
