------------------------ MODULE MCTransactionService ------------------------
(***************************************************************************)
(* Instances of TransactionService for TLC.                                *)
(***************************************************************************)
EXTENDS TransactionService, TLC

\* Processes, and transaction ids, are interchangeable.
Symmetry == Permutations(Procs) \cup Permutations(Txs)

=============================================================================
