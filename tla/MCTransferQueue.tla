--------------------------- MODULE MCTransferQueue ---------------------------
(* Small instances of TransferQueue for TLC. *)
EXTENDS TransferQueueProperties, TLC

\* Goroutines, callers and host jobs are told apart only by what they do.
Symmetry == Permutations(Workers) \cup Permutations(Clients) \cup Permutations(Jobs)
=============================================================================
